SPECIFICATION TasksSpec
CONSTANTS
  TaskPages = {p1, p2, p3, p4}
  Idle = idle
  Init1 = p1
  NR_TASKS = 5
  MaxPid = 7
  MemoryShort = FALSE
  Masks = {}
  WaitForPid = FALSE
  NULL = NULL
  Tasks = {p2, p3, p4}
  NrFrames = 4
  Code = {1}
  Data = {2}
  Slots = {1}
  Values = {"a"}
SYMMETRY Symmetry
INVARIANTS EveryTaskIsListed MapCountsReferences 
 
CHECK_DEADLOCK FALSE
