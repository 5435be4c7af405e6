CONSTANTS
  Proc = {p1, p2}
  Buf = {b1, b2}
  k1 = k1
  k2 = k2
  k3 = k3
  d1 = d1
  d2 = d2
  Block = {k1, k2, k3}
  Dev = {d1, d2}
  DevOf <- TwoOnOne
  Val = {v0, v1}
  FailDev = {d1}
  CloseDev = {}
  BawriteFree = 0
  NoBuf = NoBuf
  NoBlk = NoBlk
  FreeList = FreeList
  Awake = Awake
  Nobody = Nobody
  Garbage = Garbage
SPECIFICATION Spec
SYMMETRY SymmetricBlocks
PROPERTIES ImplementsStore
INVARIANTS TypeOK FreeIffNotBusy OneBufferPerBlock OneOwner NoLostWakeup NoGarbage
