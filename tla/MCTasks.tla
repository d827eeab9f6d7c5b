------------------------------ MODULE MCTasks ------------------------------
(***************************************************************************)
(* Tasks and their memory in one run: the process table, and the page      *)
(* tables, these with two tasks that use a page of code and one of data,   *)
(* and with three that use one of the two.  They share no state here: each *)
(* behaviour is one of a single part, and the others stay as they begin.   *)
(***************************************************************************)
EXTENDS Memory, ProcessTree, TLC

VARIABLE part

allVars == <<part, treeVars, vars>>

TasksInit ==
  \/ part = "tree" /\ TreeInit /\ NoPages /\ call = [t \in Tasks |-> At("unused")]
  \/ part \in {"pair", "code", "data"} /\ TreeInit /\ Init

Only(p) == part = p /\ part' = p

(* What the parts leave out: pids that are used again (Answers.cfg has them),
   a third task, or the pages in S. *)
NoReuse == last_pid' >= last_pid
AtMostTwo == Cardinality({t \in Tasks : call'[t].pc # "unused"}) <= 2
Without(S) == \A t \in Tasks : call'[t].v \in S => call'[t].pc = "copy_entries"

(* Once a changed page-table entry has been used the properties of the memory
   say nothing, and little once a swap request has overtaken another. *)
TasksNext ==
  \/ Only("tree") /\ TreeNext /\ NoReuse /\ UNCHANGED vars
  \/ /\ ~raced /\ Next /\ UNCHANGED treeVars
     /\ \/ Only("pair") /\ AtMostTwo
        \/ Only("code") /\ Without(Data) /\ ~overtaken
        \/ Only("data") /\ Without(Code) /\ ~overtaken

TasksSpec == TasksInit /\ [][TasksNext]_allVars

(* The tasks but init are alike in all parts. *)
Symmetry == Permutations(Tasks)
=============================================================================
