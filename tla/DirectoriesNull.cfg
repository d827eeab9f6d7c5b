SPECIFICATION NamesSpec
CONSTANTS
  Walkers = {t1}
  Names = {a, d}
  DirInodes = {i1, i2, i3}
  RootDir = i1
  a = a
  d = d
  NrSlots = 2
  Paths <- SomePaths
  Operations = {"symlink", "namei"}
  Null = Null
INVARIANT NamesAnInode
CHECK_DEADLOCK FALSE
