SPECIFICATION ZonesSpec
CONSTANTS
  Radix = 128
  PointBits = 10
  Remote = 256
  TimezoneFields <- TimezoneNames
  CountryFields <- CountryNames
  Inputs <- Shapefiles
  Versions = {0, 1}
  TzidToAlpha2 <- AlphaTable
  NaturalEarth <- NaturalEarthTable
  OwnNames <- OwnNamesTable
  Notice <- NoticeText
  Precision = 9
  Targets <- Positions
  MaxPoints = 20
INVARIANTS
  OnlyWholeFilesOpen
  ReadsBackAsDrawn
  FindsAndNamesZones
CHECK_DEADLOCK FALSE
