SPECIFICATION FilesSpec
CONSTANTS
  Tasks = {t1, t2}
  NULL = NULL
  NR_INODE = 3
  Files = {f}
  Root = root
  Point = point
  MaxLinks = 2
  Callers = {t1, t2}
  FileNrs = {1, 2}
  NrBlocks = 3
  Walkers = {t1, t2}
  DirInodes = {i1, i2, i3}
  RootDir = i1
  Names = {n1, n2}
  name1 = n1
  name2 = n2
  NrSlots = 2
  Paths <- NamePaths
  Operations = {"open", "creat", "mknod", "mkdir", "rmdir", "unlink", "link", "namei"}
  Null = Null
  Processes = {u1, u2}
  First = u1
  NR_OPEN = 2
  NR_FILE = 2
  InodeNrs = {j1, j2}
  Pipes = {j2}
  Pwd = j1
  BLOCK_SIZE = 2
  MaxSize = 3
  Calls = {"open", "close", "dup", "dup2", "fcntl", "pipe", "chdir", "exec", "fork", "exit"}
  Appends = {FALSE}
  Nil = Nil
SYMMETRY Symmetry
INVARIANTS OneInodeInMemory InodeCountsUsers NoInodeChangeLost UsedIsMounted BitmapIsExact ReferencesAreHeld LinksAreEntries CountsAreExact SizeCoversWrites
CHECK_DEADLOCK FALSE
