SPECIFICATION FairSpec
CONSTANTS
  r1 = r1
  r2 = r2
  d1 = d1
  d2 = d2
  None = None
  Callers <- MCCallers
  Devices <- MCDevices
  Commands = {"build"}
  TTL = 1
  Replies <- MCReplies
  MaxTime = 2
  MaxUnsaved = 1
INVARIANTS
  TypeOK
  OneMobileVerdict
  VerdictIsAudited
  NoStrandedCaller
  RulesWereGranted
PROPERTY
  EveryCallReturns
CHECK_DEADLOCK FALSE
