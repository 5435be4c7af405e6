SPECIFICATION Spec
SYMMETRY Symmetric
CONSTANTS
  p1 = p1
  p2 = p2
  p3 = p3
  b1 = b1
  b2 = b2
  b3 = b3
  Proc = {p1, p2, p3}
  Block = {b1, b2, b3}
  NICFREE = 2
  Lossy = TRUE
INVARIANT ListLocked
INVARIANT EachOnce
INVARIANT SyncedSound
PROPERTY ImplementsFreeBlocks
