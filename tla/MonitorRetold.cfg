CONSTANTS
  Card <- MCCard
  NoCard <- MCNoCard
  Text <- MCText
  NoText <- MCNoText
  Atr <- MCAtr
  AtrOf <- MCAtrOf
  LicenceAtr <- MCLicenceAtr
  ShakenCard <- MCShakenCard
  UidsOf <- MCUidsOf
  ExpiryOf <- MCExpiryOf
  Upper <- MCUpper
  NumReaders = 2
  MaxVisits = 2
SPECIFICATION Spec
INVARIANTS
  TapIsToldOnce
