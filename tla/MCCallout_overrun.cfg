SPECIFICATION Spec
CONSTANTS
  f1 = f1
  f2 = f2
  Func = {f1, f2}
  Ticks = {1, 2, 3}
  NCALL = 5
  Overrun = TRUE
  MaxNest = 2
  NoFunc = NoFunc
  Idle = Idle
PROPERTY CalledOnce
