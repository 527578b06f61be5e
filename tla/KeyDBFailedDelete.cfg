SPECIFICATION Spec
CONSTANTS
  Threads = {t1}
  Half = 3
  Start = 0
  Size = 2
INVARIANTS
  StoredIsReserved
