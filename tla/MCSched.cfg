SPECIFICATION MemorySpec
CONSTANTS
  Slots = 3
  Mems = {3, 4}
  MaxTime = 2
  Events = {"tty", "disk"}
  Sent = {1, 2}
  Idle = Idle
  None = None
CONSTRAINT Bounded
VIEW Kept
INVARIANT QueuesExact
INVARIANT SwapperHears
INVARIANT InCoreUntilLost
INVARIANT NoSignalSlept
INVARIANT WaitSeesZombies
