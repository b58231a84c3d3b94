SPECIFICATION HostSpec
CONSTANTS
  d1 = d1
  d2 = d2
  c1 = c1
  c2 = c2
  q1 = q1
  q2 = q2
  None = None
  Devices <- MCDevices
  Admins <- MCAdmins
  Conns <- OneConn
  Owner <- OneOwner
  Durations = {1, 2}
  Grace = 1
  Readings = {"external", "charged", "low", "unknown"}
  AllowOnBattery = TRUE
  AutoDisable = TRUE
  PolicyRequests <- MCPolicyRequests
  MaxLeases = 2
  MaxTime = 2
  MaxRevision = 3
  Peers <- MCPeers
  MaxGens = 5
  Expiry = 1
  Window = 2
  MaxAttempts = 2
  Candidates = 2
  MaxCodes = 1
  MaxSeconds = 3
  RepoRequests <- MCRepoRequests
  Branches = {"main", "dev", "pr"}
  CacheSize = 1
  PageSize = 1
  AllowForce = TRUE
  MaxRequests = 2
  MaxCommits = 2
  MaxEdits = 1
  FileCount = 1
  MaxChanges = 5
INVARIANTS
  InhibitorFollowsLeases
  FailClosedHoldsNoLease
  PartTypesOK
  NoStrayInhibitor
  AttemptsAreLimited
  OpenAreKnown
  RepeatsAreRemembered
  ChecksStillHold
  PagesAreTheHistory
  SeenIsKnown
PROPERTY
  EndsAreAccounted
CHECK_DEADLOCK FALSE
