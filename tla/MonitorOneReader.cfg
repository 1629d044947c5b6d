CONSTANTS
  Card <- MCCard
  NoCard <- MCNoCard
  Text <- MCText
  NoText <- MCNoText
  Atr <- MCAtr
  AtrOf <- MCAtrOf
  LicenceAtr <- MCLicenceAtr
  ShakenCard <- MCShakenCard
  UidsOf <- MCUidsOf
  ExpiryOf <- MCExpiryOf
  Upper <- MCUpper
  NumReaders = 1
  MaxVisits = 3
SPECIFICATION FairSpec
INVARIANTS
  TypeOK
  TapIsToldOnce
  RecordedAtMostTwice
  NoErrorMeansRead
PROPERTIES
  TellsOfTaps
  RemovalRearms
  FreshCardIsTold
