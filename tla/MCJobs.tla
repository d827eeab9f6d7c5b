------------------------------- MODULE MCJobs -------------------------------
(***************************************************************************)
(* Three instances of job control in one run: few tasks with a terminal    *)
(* and waiting parents (module JobControl itself); parents with and        *)
(* without SA_NOCLDSTOP, no terminal; one task more with stops and exits   *)
(* only.                                                                   *)
(***************************************************************************)
EXTENDS JobControl, TLC

CONSTANT MorePids

VARIABLE part

S == INSTANCE JobControl WITH
       Ignorable <- {}, Kills <- {"SIGCONT", "SIGTSTP"}, Terminal <- FALSE,
       StopFlags <- TRUE, Waiters <- Pids

E == INSTANCE JobControl WITH
       Pids <- MorePids, Ignorable <- {}, Kills <- {"SIGTSTP"}, Terminal <- FALSE,
       StopFlags <- FALSE, Waiters <- {}

ASSUME S!JobControlAssumption /\ E!JobControlAssumption

JobsInit == \/ part \in {"terminal", "stops"} /\ Init
            \/ part = "exits" /\ E!Init

JobsNext == \/ part = "terminal" /\ Next /\ UNCHANGED part
            \/ part = "stops" /\ S!Next /\ UNCHANGED part
            \/ part = "exits" /\ E!Next /\ UNCHANGED part

JobsSpec == JobsInit /\ [][JobsNext]_<<part, vars>>

ExitsFreeStopped ==
  [][IF part = "exits" THEN E!FreesStopped ELSE FreesStopped]_<<part, vars>>

Symmetry == Permutations(MorePids \ {Init1})
=============================================================================
