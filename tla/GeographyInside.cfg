SPECIFICATION ValuesSpec
CONSTANTS
  Positions <- Around
  Ground <- Wide
  Polygons <- SmallPolygons
  PolygonPairs <- SmallPairs
  Rectangles <- SmallRectangles
  Circles <- SmallCircles
  Requests <- SmallRequests
  Databases <- SmallDatabases
  Alpha3Codes <- SmallCodes
  Pole = 90
  LatMetres = 2
  LonMetres <- LonScale
  Word = 16
  MicroSec = 2
  Ts20040101 = 5
  LeapSecs = {0, 2}
  BaseTimes = {0, 2, 6, 14, 17}
  MaxNow = 46
  OctetBits = 4
  WordBits = 16
  HashPrime = 435
  kWhitespace <- Blanks
  Calls <- SmallCalls
  ArgLists <- SmallArgs
  Configs <- SmallConfigs
  Options <- Dashed
  DefaultPath = "default.json"
  Loadable <- Files
INVARIANTS
  InsideMeansInside
CHECK_DEADLOCK FALSE
