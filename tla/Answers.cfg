SPECIFICATION Spec
CONSTANTS
  Absent = Absent
  MAX_ERRORS = 3
  SECTORS = 2
  NR_HD = 2
  LastBlocks = {TRUE, FALSE}
  MaxRequests = 1
  MaxSpurious = 1
  caller = t1
  caller2 = t2
  BufferHeads = {b1, b2, b3}
  Blocks = {2, 4, 6}
  FewBuffers = {b1, b2}
  FewBlocks = {2, 4}
  SwapPages = {8, 10}
  swapPage = 8
  oneBuffer = b1
  oneBlock = 2
  NR_REQUEST = 3
  Contents = {0}
  DeviceFails = TRUE
  page1 = p2
  page2 = p3
  page3 = p4
  task0 = task0
  Init1 = p1
  NR_TASKS = 4
  MaxPid = 4
  Masking = {p2}
  reader = r1
  writer = w1
  Typed = {}
  Written = {"a"}
  BufSize = 3
  LowWater = 1
  MaxCount = 2
  MaxTyped = 5
PROPERTIES AllEnded  WaitReturns WritersReturn
CHECK_DEADLOCK FALSE
