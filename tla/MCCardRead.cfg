CONSTANTS
  Card <- MCCard
  NoCard <- MCNoCard
  Text <- MCText
  NoText <- MCNoText
  Atr <- MCAtr
  AtrOf <- MCAtrOf
  LicenceAtr <- MCLicenceAtr
  ShakenCard <- MCShakenCard
  UidsOf <- MCUidsOf
  ExpiryOf <- MCExpiryOf
  Upper <- MCUpper
SPECIFICATION Spec
INVARIANTS
  TypeOK
  HandleClosed
  CleanCallEndsSession
  CleanCallIsComplete
PROPERTIES
  ImplementsReadCardSpec
