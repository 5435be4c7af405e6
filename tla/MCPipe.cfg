SPECIFICATION Spec
SYMMETRY Symmetric
CONSTANTS
  p1 = p1
  p2 = p2
  Proc = {p1, p2}
  NFADDR = 2
  BSIZE = 2
  Opened = {{"r"}, {"w"}}
  Reads = {1, 3}
  Writes = {3, 5}
  Lost = Lost
INVARIANT EndsExact
INVARIANT SleepsForReason
PROPERTY ImplementsStream
