CONSTANTS
  Callers = {t1, t2}
  BufferHeads = {b1, b2}
  Blocks = {2, 4}
  SwapPages = {8}
  NR_REQUEST = 4
  Nil = Nil
  Contents = {0, 1}
  DeviceFails = FALSE
SPECIFICATION QueueSpec
SYMMETRY Symmetry
INVARIANT SwapInOrder
