CONSTANTS
  Card <- MCCard
  NoCard <- MCNoCard
  Text <- MCText
  NoText <- MCNoText
  Atr <- MCAtr
  AtrOf <- MCAtrOf
  LicenceAtr <- MCLicenceAtr
  ShakenCard <- MCShakenCard
  UidsOf <- MCUidsOf
  ExpiryOf <- MCExpiryOf
  Upper <- MCUpper
  NumReaders = 1
  MaxVisits = 1
SPECIFICATION FairSpec
PROPERTIES
  RemovalAlwaysRearms
