SPECIFICATION PipeSpec
CONSTANTS
  t1 = t1
  t2 = t2
  t3 = t3
  Tasks = {t1, t2, t3}
  p1 = p1
  Pipes = {p1}
  NoTask = NoTask
  PAGE_SIZE = 2
  MaxCount = 2
  Selects <- WhenRoom
  Signals = FALSE
  Inherited <- Ends
INVARIANTS SelectsWake
CHECK_DEADLOCK FALSE
