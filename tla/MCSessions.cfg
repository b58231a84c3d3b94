SPECIFICATION HostSpec
CONSTANTS
  MaxChunks = 12
  c1 = c1
  s1 = s1
  s2 = s2
  t1 = t1
  host = host
  old = old
  other = other
  Conns <- MCConns
  SendCap = 2
  CastCap = 1
  HistoryCap = 1
  MaxOutput = 2
  Ids <- MCIds
  TmuxIds <- MCTmuxIds
  Host = host
  Earlier <- MCEarlier
  MaxSessions = 1
  MaxRows = 2
  Instants <- MCInstants
  Second <- MCSecond
  TextOrder <- MCTextOrder
  Openings <- MCOpenings
  Agents <- MCAgents
  Others <- MCOthers
  Window = 1
  Timeout = 1
  Fresh = 1
  MaxTime = 5
INVARIANTS
  NothingLostOrReordered
  PartTypesOK
  ReplayMeetsLiveStream
  RunningIsTracked
PROPERTIES
  ImplementsOutputStream
  ClosedClientIsForgotten
  EveryCloseReturns
  MostRecentAreKept
  EveryDiscoveryEnds
CHECK_DEADLOCK FALSE
