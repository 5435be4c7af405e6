SPECIFICATION Spec
CONSTANTS
  p1 = p1
  p2 = p2
  Proc = {p1, p2}
  Top = 7
  Entries = 4
  Sizes = {1, 2, 3}
  Nothing = Nothing
INVARIANT Coalesced
INVARIANT HeldOnce
INVARIANT SleepersDontFit
PROPERTY ImplementsPool
