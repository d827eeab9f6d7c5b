SPECIFICATION BlockSpec
CONSTANTS
  Tasks = {t1, t2}
  NR_BUFFERS = 2
  Keys <- AllKeys
  Calls <- MixedCalls
  Scans <- AllScans
  TableFull = TRUE
  IoErrors = TRUE
  NULL = NULL
  BufferHeads = {b1, b2}
  Callers = {t1, t2}
  Blocks = {2, 4}
  ThreeBlocks = {2, 4, 6}
  SwapPages = {8}
  NR_REQUEST = 2
  Contents = {0, 1}
  Nil = Nil
  DeviceFails = FALSE
SYMMETRY Symmetry
INVARIANTS NoLostModification OneBufferPerBlock SyncMissesNothing SleepersWillWake
PROPERTY ModificationsAreWritten
