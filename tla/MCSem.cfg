SPECIFICATION Spec
CONSTANTS
  p1 = p1
  p2 = p2
  Proc = {p1, p2}
  SEMMNI = 2
  SEMMNS = 2
  SEMMSL = 2
  SEMMNU = 1
  SEMUME = 2
  SEMVMX = 2
  SEMAEM = 2
  MaxSeq = 1
  Vector <- TwoSems
  SetArg = {0, 1, 2}
  NoCall = NoCall
INVARIANT TypeOK
INVARIANT UndoOfLiveSets
INVARIANT NoMissedGrant
PROPERTY ImplementsAtomic
INVARIANT SleeperCounted
