SPECIFICATION Spec
CONSTANTS
  MaxFrames = 4
  AdaptersFirst = FALSE
INVARIANTS
  NoMissedWakeup
  FlagMeansUntakenFrame
  NoCallIntoDestroyedAdapter
PROPERTIES
  RenderOrder
  ImplementsLossyChannel
  EveryFrameDetected
  CallReturns
  DestructorReturns
