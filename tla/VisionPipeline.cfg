SPECIFICATION Spec
CONSTANTS
  QueueSize = 2
  MaxFrames = 3
  FrameSetSizes = {0}
  Sources = {"CAMERA_DEVICE"}
INVARIANTS
  NoCallIntoDestroyedService
  PairedStartsAreSafe
PROPERTIES
  ImplementsLossyChannel
  DetectsForward
  EveryFrameHandled
  OwnerCallsReturn
