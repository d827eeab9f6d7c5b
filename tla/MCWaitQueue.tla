---------------------------- MODULE MCWaitQueue ----------------------------
(* WaitQueue on a small instance, and the abstraction function from the
   pointers to the stack of sleepers that WaitStack promises. *)
EXTENDS WaitQueueProofs, FiniteSets, SequencesExt

Symmetry == Permutations(Tasks)

(* The queue as a debugger would find it: follow *p, then tmp of each
   sleeper.  The walk stops after as many steps as there are tasks. *)
Walk ==
  LET nth[n \in 1..Cardinality(Tasks)] ==
        IF n = 1 THEN head
        ELSE IF nth[n - 1] = NULL THEN NULL ELSE tmp[nth[n - 1]]
  IN  SelectSeq(nth, LAMBDA t : t # NULL)

Abstract == INSTANCE WaitStack WITH stack <- Reverse(Walk)

(* The pointer structure implements the stack of sleepers: arrivals push,
   only the youngest leaves, and only while a wake-up is due. *)
ImplementsWaitStack == Abstract!Spec
=============================================================================
