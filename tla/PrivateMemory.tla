---------------------------- MODULE PrivateMemory ----------------------------
(***************************************************************************)
(* What programs may expect of memory: each task has a memory of its own.  *)
(***************************************************************************)
CONSTANTS Tasks, Pages, Values, Initial

VARIABLES live, mem

vars == <<live, mem>>

Init ==
  /\ live \in SUBSET Tasks
  /\ mem = [t \in Tasks |-> Initial]

Write(t, v, d) ==
  /\ t \in live
  /\ mem' = [mem EXCEPT ![t][v] = d]
  /\ UNCHANGED live

Fork(t, u) ==
  /\ t \in live /\ u \notin live
  /\ live' = live \cup {u}
  /\ mem' = [mem EXCEPT ![u] = mem[t]]

Exec(t) ==
  /\ t \in live
  /\ mem' = [mem EXCEPT ![t] = Initial]
  /\ UNCHANGED live

Exit(t) ==
  /\ t \in live
  /\ live' = live \ {t}
  /\ mem' = [mem EXCEPT ![t] = Initial]

Next ==
  \E t \in Tasks :
    \/ Exec(t) \/ Exit(t)
    \/ \E v \in Pages, d \in Values : Write(t, v, d)
    \/ \E u \in Tasks : Fork(t, u)

Spec == Init /\ [][Next]_vars
=============================================================================
