SPECIFICATION ZonesSpec
CONSTANTS
  Radix = 128
  PointBits = 10
  Remote = 256
  TimezoneFields <- TimezoneNames
  CountryFields <- CountryNames
  Inputs <- FineZones
  Versions = {1}
  TzidToAlpha2 <- AlphaTable
  NaturalEarth <- NaturalEarthTable
  OwnNames <- OwnNamesTable
  Notice <- NoticeText
  Precision = 9
  Targets <- InTheTurn
  MaxPoints = 20
INVARIANTS
  LookupFindsTheZones
CHECK_DEADLOCK FALSE
