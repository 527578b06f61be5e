SPECIFICATION ComponentsSpec
CONSTANTS
  MaxSize = 3
  Consumers = {c1, c2, c3}
  MaxPushes = 7
  QueueSize = 2
  MaxFrames = 5
  FrameSetSizes = {0, 1, 3}
  EventTypes = {"IMAGE", "IMU"}
  MaxEvents = 4
  InputWidth = 6
  InputHeight = 4
  ConfThreshold = 1
  NmsPercent = 45
  Sizes = {2, 5, 7, 13}
  Objects <- SeenObjects
  Classes = 2
  Scores = {0, 2}
  Anchors = 2
  MaxSystems = 5
SYMMETRY Symmetry
INVARIANTS
  QueueIsNewestSuffix
  NoLostWakeup
  StopIsSafe
  LoaderOffersAll
  BoxesInside
  RestoresObject
  FedSystemRuns
  NoRunningSystemLost
PROPERTIES
  ImplementsLossyChannel
  DetectionsAligned
