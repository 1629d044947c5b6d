CONSTANTS
  Proc = {p1, p2}
  NoProc = noproc
  Named = {p1, p2}
  Supervisor = {s1}
  MaxTries = 3
  CreateMayFail = TRUE
  TaskkillMayFail = TRUE
  MaxAccidents = 1
SPECIFICATION FairSpec
INVARIANTS
  TypeOK
  MutexExcludes
PROPERTIES
  StopLeavesNoReader
  SupervisedReaderWorks
  CtrlCStops
