SPECIFICATION FairSpec
CONSTANTS
  f1 = f1
  f2 = f2
  f3 = f3
  f4 = f4
  f5 = f5
  Func = {f1, f2, f3, f4, f5}
  Ticks = {1, 2, 3}
  NCALL = 5
  Overrun = FALSE
  MaxNest = 1
  NoFunc = NoFunc
  Idle = Idle
PROPERTY ImplementsTimer
PROPERTY AskedIsCalled
