CONSTANTS
  Method <- AuthMethod
  NoMethod = NoMethod
  Stack <- Stacks
  ClientStub <- AuthClientStub
  ServerStub <- AuthServerStub
  Unimplemented <- MCUnimplemented
  Call <- MCCall
  Name = {"n1"}
  EmptyText = ""
  Unset = "unset"
  DefaultId = "default"
  MaxVisits = 2
  MaxLives = 2
  MaxReports = 2
  Device <- MCDevice
  Backend = {b1, b2}
  NoBackend = NoBackend
  Settings <- MCSettings
SPECIFICATION FairSpec
INVARIANTS
  TypeOK
  ListsWholeNames
  EveryReportHasItsRow
  CardFollowsRow
  SecondCardNeedsSwapOrRestart
  SentMeansRecorded
  SupervisedRowsBearOneId
PROPERTIES
  ImplementsCallSpec
CHECK_DEADLOCK FALSE
