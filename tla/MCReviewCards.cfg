SPECIFICATION Spec
CONSTANTS
  f1 = f1
  f2 = f2
  v1 = v1
  v2 = v2
  v3 = v3
  p1 = p1
  p2 = p2
  None = None
  Files <- MCFiles
  Versions <- MCVersions
  Requests <- MCRequests
  Base = v1
  MaxEdits = 2
  MaxCalls = 2
  MaxFaults = 2
SYMMETRY Symmetry
INVARIANTS
  TypeOK
  NoStaleCard
  IndexFollowsRecords
CHECK_DEADLOCK FALSE
