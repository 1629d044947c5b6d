CONSTANTS
  Method <- LicenseMethod
  NoMethod = NoMethod
  Stack <- Stacks
  ClientStub <- LicenseClientStub
  ServerStub <- LicenseServerStub
  Unimplemented <- MCUnimplemented
  Call = {c1, c2}
  Message = {c1, c2}
  Reader = {"r1"}
  AnyText = ""
  MaxTime = 1
  Status = {"success", "error"}
  NoData = NoData
  Queries <- MCQueries
SPECIFICATION MCSpec
INVARIANTS
  TypeOK
  ServedAsCalled
  AnsweredIsStored
  RowsAreTheCalls
  PageMatchesRequest
  TotalCountsThePast
SYMMETRY MCSymmetry
