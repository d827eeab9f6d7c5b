----------------------------- MODULE WaitStack -----------------------------
(***************************************************************************)
(* What the wait queues of kernel/sched.c promise: a stack of sleepers.    *)
(* A wake-up is due to everyone who is in the stack when it is given; as   *)
(* long as one is due, the youngest sleeper may leave, and only then.      *)
(***************************************************************************)
EXTENDS Naturals, Sequences

CONSTANT Tasks

VARIABLES
  stack,   \* the sleepers, the youngest last
  due      \* a wake-up is due to stack[1], ..., stack[due]

vars == <<stack, due>>

Init == stack = <<>> /\ due = 0

Come(t) ==
  /\ \A i \in 1..Len(stack) : stack[i] # t
  /\ stack' = Append(stack, t)
  /\ due' = due

(* wake_up reaches everyone, a signal its receiver and those below. *)
Grant(i) ==
  /\ i > due
  /\ due' = i
  /\ stack' = stack

Go ==
  /\ due > 0
  /\ stack' = SubSeq(stack, 1, Len(stack) - 1)
  /\ due' = IF due = Len(stack) THEN due - 1 ELSE due

Next ==
  \/ \E t \in Tasks : Come(t)
  \/ \E i \in 1..Len(stack) : Grant(i)
  \/ Go

Spec == Init /\ [][Next]_vars
=============================================================================
