SPECIFICATION FairSpec
CONSTANTS
  d1 = d1
  d2 = d2
  c1 = c1
  c2 = c2
  c3 = c3
  q1 = q1
  q2 = q2
  None = None
  Devices <- MCDevices
  Admins <- MCAdmins
  Conns <- MCConns
  Owner <- MCOwner
  Durations = {1, 2}
  Grace = 1
  Readings = {"external", "charged", "low", "unknown"}
  AllowOnBattery = TRUE
  AutoDisable = TRUE
  PolicyRequests = {}
  MaxLeases = 2
  MaxTime = 2
  MaxRevision = 3
INVARIANTS
  EveryLeaseHasItsTimer
PROPERTIES
  RevisionCoversLeases
  EveryLeaseEnds
CHECK_DEADLOCK FALSE
