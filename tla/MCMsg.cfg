SPECIFICATION Spec
SYMMETRY Perms
CONSTANTS
  p1 = p1
  p2 = p2
  p3 = p3
  Proc = {p1, p2, p3}
  MSGMNI = 1
  MSGTQL = 2
  MSGSEG = 3
  MSGSSZ = 2
  MSGMNB = 6
  Message <- EmptyAndLong
  RType <- AnyOneLeast
  Limit = {3, 6}
  MaxSeq = 1
  NoCall = NoCall
INVARIANT ListsExact
INVARIANT NobodyStranded
PROPERTY ImplementsQueues
