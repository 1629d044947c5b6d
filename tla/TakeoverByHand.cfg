CONSTANTS
  Proc = {p1, p2}
  NoProc = noproc
  Named = {p1, p2}
  Supervisor = {}
  MaxTries = 2
  CreateMayFail = FALSE
  TaskkillMayFail = FALSE
  MaxAccidents = 2
SPECIFICATION Spec
INVARIANTS
  TakeoverLeavesAReader
CHECK_DEADLOCK FALSE
