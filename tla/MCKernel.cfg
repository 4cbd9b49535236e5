CONSTANTS
  NPage = 13
  PS = 4
  Usable <- MCUsable
  Keep <- MCKeep
  MaxRun = 3
  NProc = 4
  NTask = 2
  MaxPid = 4
  Faults = FALSE
  Threads = TRUE
  u1 = u1
  u2 = u2
  u3 = u3
SPECIFICATION KernelSpec
INVARIANTS RunningIsCurrent ResumesLatest NothingLost WaiterHasLiveChild LaunchIsExclusive HeldOnce CountExact FailsOnlyWhenFull MemorySound
SYMMETRY Symmetry
