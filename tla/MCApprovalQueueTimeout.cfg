SPECIFICATION Spec
CONSTANTS
  r1 = r1
  r2 = r2
  d1 = d1
  d2 = d2
  None = None
  Callers <- MCCallers
  Devices <- MCDevices
  Commands = {"build"}
  TTL = 1
  Replies <- MCReplies
  MaxTime = 2
  MaxUnsaved = 1
INVARIANT
  DecisionReachesCaller
CHECK_DEADLOCK FALSE
