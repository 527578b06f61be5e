SPECIFICATION Spec
CONSTANTS
  MaxFrames = 2
  AdaptersFirst = TRUE
INVARIANTS
  NoCallIntoDestroyedAdapter
