----------------------------- MODULE MCDevices -----------------------------
(***************************************************************************)
(* The drivers, the timers, the terminals, the console and a pipe in one   *)
(* run.  They share no state here: each behaviour is one of a single part, *)
(* and the variables of the others do not change: those of the disk, the   *)
(* timers, the floppy and the pipe, whose names this module takes over,    *)
(* keep their first values, and the rest are Absent.                       *)
(***************************************************************************)
EXTENDS HardDisk, Pipe, Timers, Floppy, TLC

CONSTANTS Absent,
          Readers, Writers,
          t1, t2, t3, p1

VARIABLES
  part,
  tty, sending, task, arrived, overrun,
  con

(* A serial line, and a pseudo terminal. *)
L == INSTANCE Tty WITH
       Pty <- FALSE, Group <- Readers \union Writers, Canon <- TRUE, Echo <- TRUE, VMIN <- 1,
       Typed <- {"a", "\n", "^?", "^U", "^C"},
       Written <- {"a"}, BufSize <- 4, LowWater <- 3, Startup <- 1, MaxCount <- 2, MaxTyped <- 4
Y == INSTANCE Tty WITH
       Pty <- TRUE, Group <- Readers, Canon <- TRUE, Echo <- FALSE, VMIN <- 1, Typed <- {},
       Written <- {"a", "^D", "^C"}, BufSize <- 3, LowWater <- 1, Startup <- 1, MaxCount <- 2, MaxTyped <- 4

(* An EGA with more memory than it shows, and an adapter that shows the same
   memory always, whose lines are not a number of whole tabs. *)
E == INSTANCE Console WITH
       Scrolls <- TRUE, NrLines <- 2, NrColumns <- 2, MemLines <- 3, TabSize <- 1, NPAR <- 2, MaxPar <- 2
M == INSTANCE Console WITH
       Scrolls <- FALSE, NrLines <- 2, NrColumns <- 3, MemLines <- 2, TabSize <- 2, NPAR <- 2, MaxPar <- 2

(* A task reads a pipe, one writes it, and one has both ends; what they
   select, with a limit of time. *)
Ends ==
  t1 :> {<<p1, "read">>} @@ t2 :> {<<p1, "write">>} @@ t3 :> {<<p1, "read">>, <<p1, "write">>}
WhenFull == {[in |-> {p1}, out |-> {}, ex |-> {p1}, order |-> <<p1>>, limit |-> TRUE]}

ASSUME HardDiskAssumption /\ TimersAssumption /\ FloppyAssumption
ASSUME E!ConsoleAssumption /\ M!ConsoleAssumption
ASSUME L!TtyAssumption /\ Y!TtyAssumption /\ PipeAssumption

ttyVars ==
  <<tty, sending, task, arrived, overrun>>
allVars == <<part, vars, timersVars, floppyVars, ttyVars, pipeVars, con>>

NoTty ==
  /\ tty = Absent /\ sending = Absent /\ task = Absent /\ arrived = Absent
  /\ overrun = Absent

DevicesInit ==
  /\ Init /\ PipeInit /\ TimersInit /\ FloppyInit
  /\ \/ part \in {"disk", "timers", "floppy", "pipe"} /\ NoTty /\ con = Absent
     \/ part = "line" /\ L!Init /\ con = Absent
     \/ part = "pty" /\ Y!Init /\ con = Absent
     \/ part = "ega" /\ E!ConInit /\ NoTty
     \/ part = "mono" /\ M!ConInit /\ NoTty

Only(p) == part = p /\ part' = p

DevicesNext ==
  \/ Only("disk") /\ Next /\ UNCHANGED <<timersVars, floppyVars, ttyVars, pipeVars, con>>
  \/ Only("timers") /\ TimersNext /\ UNCHANGED <<vars, floppyVars, ttyVars, pipeVars, con>>
  \/ Only("floppy") /\ FloppyNext /\ UNCHANGED <<vars, timersVars, ttyVars, pipeVars, con>>
  \/ Only("line") /\ L!Next /\ UNCHANGED <<vars, timersVars, floppyVars, pipeVars, con>>
  \/ Only("pty") /\ Y!Next /\ UNCHANGED <<vars, timersVars, floppyVars, pipeVars, con>>
  \/ Only("pipe") /\ PipeNext /\ UNCHANGED <<vars, timersVars, floppyVars, ttyVars, con>>
  \/ Only("ega") /\ E!ConNext /\ UNCHANGED <<vars, timersVars, floppyVars, ttyVars, pipeVars>>
  \/ Only("mono") /\ M!ConNext /\ UNCHANGED <<vars, timersVars, floppyVars, ttyVars, pipeVars>>

DevicesSpec == DevicesInit /\ [][DevicesNext]_allVars

DataCountsLines == (part = "line" => L!DataCountsLines) /\ (part = "pty" => Y!DataCountsLines)
SleepersWillWake == (part = "line" => L!SleepersWillWake) /\ (part = "pty" => Y!SleepersWillWake)
CursorIsOnScreen == (part = "ega" => E!CursorIsOnScreen) /\ (part = "mono" => M!CursorIsOnScreen)
ImplementsScreen ==
  /\ (part = "ega" => E!Shown!Init) /\ (part = "mono" => M!Shown!Init)
  /\ [][(part = "ega" => E!ScreenStep) /\ (part = "mono" => M!ScreenStep)]_con
=============================================================================
