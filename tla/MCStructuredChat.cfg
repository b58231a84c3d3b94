SPECIFICATION ChatSpec
CONSTANTS
  a1 = a1
  reader = reader
  prompter = prompter
  p1 = p1
  p2 = p2
  c1 = c1
  c2 = c2
  None = None
  Approvals = {a1}
  Mergers <- MCMergers
  ProviderViews <- MCProviderViews
  MaxRevision = 3
  MaxBoots = 2
  Conns <- MCConns
  Requests = {1, 2}
  Device <- OneDevice
  MaxPipes = 1
  RestartConns <- MCRestartConns
  RestartRequests = {1}
  RestartPipes = 2
  MaxWatchers = 2
  MaxReaders = 1
  Agents = {"claude", "codex", "gemini"}
  MaxEvents = 3
  MaxPrompts = 1
  MaxResets = 1
  MaxWork = 4
INVARIANTS
  PartTypesOK
  ReplicaFollowsStore
  StoppedReadersAreQuiet
  OnePromptAtATime
  EveryLineOnce
  ResultsLand
  SeedIsVisible
PROPERTY
  RevisionCoversChange
CHECK_DEADLOCK FALSE
