SPECIFICATION Spec
CONSTANTS
  Sessions = {s1, s2}
  Others = {}
  Window = 1
  Timeout = 2
  Fresh = 1
  MaxTime = 4
INVARIANT
  CorrectFile
CHECK_DEADLOCK FALSE
