SPECIFICATION Spec
CONSTANTS
  Tasks = {t1, t2, t3}
  NrFrames = 4
  Code = {1}
  Data = {2}
  Slots = {1}
  Values = {"a"}
INVARIANT NeverFreesFree
CHECK_DEADLOCK FALSE
SYMMETRY Symmetry
