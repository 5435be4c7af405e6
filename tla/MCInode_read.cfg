SPECIFICATION NamesSpec
CONSTANTS
  Proc = {1}
  Name = {1, 2, 3}
  NINODE = 2
  NINO = 3
  INOPB = 1
  NICINOD = 2
  NFILE = 2
  MAXLINK = 2
  Links0 <- Names
  Work <- Opens
  Flaky <- OpensAt
INVARIANT Robust
