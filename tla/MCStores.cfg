SPECIFICATION StoresSpec
CONSTANTS
  Keys = {k1, k2, k3, k4}
  Values = {v1, v2}
  MaxSize = 3
  NoValue = NoValue
  NoKey = NoKey
  Threads = {t1}
  Half = 3
  Start = 0
  Size = 2
  Texts <- SmallTexts
  Data = {"x", "y"}
  KeyIds = {2, 10}
  IdSpace = 16
  DbPrefix <- Cf
  MaxLoop = 99999
  Limits = {0, 1, 2}
  Processes = {p, q}
  Calls <- SmallCalls
  Hidden <- DotName
  LinkTarget <- C
  Trees <- SmallTrees
  Names <- SmallNames
  Contents = {"", "x"}
  Width = 2
  Filenames <- SmallFilenames
  IVals = {0, 10, 255}
  FileExt <- Zip
SYMMETRY Symmetry
INVARIANTS
  IteratorsValid
  DirCallsKeepTheirWord
  LoadsWhatWasSaved
  NumbersMatchNames
PROPERTIES
  CacheForgetsOldest
  GivesNewIds
  RemoveDirStaysInside
CHECK_DEADLOCK FALSE
