SPECIFICATION DevicesSpec
CONSTANTS
  Absent = Absent
  MAX_ERRORS = 3
  SECTORS = 2
  NR_HD = 2
  LastBlocks = {TRUE, FALSE}
  MaxRequests = 2
  MaxSpurious = 1
  Functions = {f1, f2, f3}
  Setters = {f1}
  TIME_REQUESTS = 3
  MaxDelay = 3
  MaxLate = 2
  NoFn = NoFn
  Drives = {0, 1}
  NrTracks = 2
  FD_ERRORS = 2
  UpTicks = 2
  SelectTicks = 1
  MaxQueue = 2
  Changers = {c}
  MaxWildReads = 1
  Readers = {r1}
  Writers = {w1}
  t1 = t1
  t2 = t2
  t3 = t3
  p1 = p1
  Tasks = {t1, t2, t3}
  Pipes = {p1}
  NoTask = NoTask
  PAGE_SIZE = 2
  MaxCount = 2
  Selects <- WhenFull
  Signals = TRUE
  Inherited <- Ends
INVARIANTS   OnlyHeldUpAreLate SetUpForTransfer NeverStalls DataCountsLines SleepersWillWake StreamIsKept PipesWake CursorIsOnScreen
PROPERTY ImplementsScreen
CHECK_DEADLOCK FALSE
