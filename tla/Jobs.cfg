SPECIFICATION JobsSpec
CONSTANTS
  Pids = {p1, p2, p3}
  Init1 = p1
  None = None
  Ignorable = {"SIGHUP"}
  Kills = {"SIGCONT"}
  Terminal = TRUE
  StopFlags = FALSE
  Waiters = {p1}
  MorePids = {p1, p2, p3, p4}
SYMMETRY Symmetry
INVARIANTS TerminalHasLeader TellsOfStops
PROPERTY ExitsFreeStopped
CHECK_DEADLOCK FALSE
