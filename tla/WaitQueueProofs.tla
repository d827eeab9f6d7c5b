-------------------------- MODULE WaitQueueProofs --------------------------
(***************************************************************************)
(* Proofs about the wait queues for any set of tasks.  The wake-up theorem *)
(* is about the queues whose callers disable interrupts; without that it   *)
(* is false: a wake-up between the two assignments is lost.                *)
(***************************************************************************)
EXTENDS WaitQueue, TLAPS

(* A sleeper that will go on when the processor is given to it. *)
Awake(t) == at[t] = "asleep" /\ state[t] = TASK_RUNNING

(* Only the current task can be in the middle of joining a queue, and a
   sleeper that has the processor is runnable. *)
CurrentOK ==
  \A t \in Tasks :
    /\ at[t] = "linked" => current = t
    /\ current = t /\ at[t] = "asleep" => state[t] = TASK_RUNNING

(* NoLostWakeup, with a witness that is past the point where it would still
   mark itself as sleeping. *)
DueIsPassedOn ==
  due > 0 => \E i \in due..Len(stack) : Awake(stack[i])

IInv ==
  /\ TypeOK
  /\ ChainIntact
  /\ CurrentOK
  /\ IrqsOff => DueIsPassedOn
  /\ NoIdleWakeup

-----------------------------------------------------------------------------
(* What schedule() does to the states it is entered with: a runnable task
   stays runnable, only interruptible tasks with a signal become so, and the
   processor goes to a runnable task. *)
LEMMA ScheduleRuns ==
  ASSUME NEW st \in [Tasks -> TaskStates], Schedule(st)
  PROVE  /\ state' \in [Tasks -> TaskStates]
         /\ current' \in Tasks \cup {Idle}
         /\ current' \in Tasks => state'[current'] = TASK_RUNNING
         /\ \A t \in Tasks : state'[t] = TASK_RUNNING
                             <=> st[t] = TASK_RUNNING \/ t \in Signalled(st)
         /\ \A t \in Tasks : state'[t] \in {st[t], TASK_RUNNING}
  BY WaitQueueAssumption
     DEF Schedule, Signalled, TaskStates, TASK_RUNNING, TASK_INTERRUPTIBLE,
         TASK_UNINTERRUPTIBLE

(* A non-empty sequence without its last element. *)
LEMMA WithoutLast ==
  ASSUME NEW S, NEW s \in Seq(S), Len(s) > 0
  PROVE  /\ SubSeq(s, 1, Len(s) - 1) \in Seq(S)
         /\ Len(SubSeq(s, 1, Len(s) - 1)) = Len(s) - 1
         /\ \A i \in 1..Len(s) - 1 :
              SubSeq(s, 1, Len(s) - 1)[i] = s[i] /\ s[i] \in S
  <1>1. PICK n \in Nat : n = Len(s) - 1
    OBVIOUS
  <1>2. \A i \in 1..n : s[i] \in S
    BY <1>1
  <1>3. SubSeq(s, 1, n) = [i \in 1..n |-> s[i]]
    BY <1>1, <1>2, SMT
  <1>4. SubSeq(s, 1, n) \in Seq(S) /\ Len(SubSeq(s, 1, n)) = n
    BY <1>2, <1>3, SMT
  <1> QED BY <1>1, <1>2, <1>3, <1>4

(* The queue is empty at the start. *)
LEMMA InitIInv == Init => IInv
  BY WaitQueueAssumption
     DEF Init, IInv, TypeOK, ChainIntact, CurrentOK, DueIsPassedOn,
         NoIdleWakeup, Awake, TaskStates, TASK_RUNNING

-----------------------------------------------------------------------------
LEMMA LinkStep ==
  ASSUME IInv, NEW t \in Tasks, Link(t)
  PROVE  IInv'
  <1> USE WaitQueueAssumption DEF IInv
  <1>1. /\ Len(stack) \in Nat
        /\ stack' \in Seq(Tasks)
        /\ Len(stack') = Len(stack) + 1
        /\ stack'[Len(stack')] = t
        /\ \A i \in 1..Len(stack) : stack'[i] = stack[i] /\ stack[i] \in Tasks
    BY DEF TypeOK, Link
  <1>2. \A i \in 1..Len(stack) : stack[i] # t
    BY DEF Link, ChainIntact
  <1>3. TypeOK'
    BY <1>1 DEF TypeOK, Link
  <1>4. ChainIntact'
    <2>1. head' = IF stack' = <<>> THEN NULL ELSE stack'[Len(stack')]
      BY <1>1 DEF Link
    <2>2. \A i \in 1..Len(stack') :
            tmp'[stack'[i]] = IF i = 1 THEN NULL ELSE stack'[i - 1]
      <3> SUFFICES ASSUME NEW i \in 1..Len(stack')
                   PROVE  tmp'[stack'[i]] = IF i = 1 THEN NULL ELSE stack'[i - 1]
        OBVIOUS
      <3>1. CASE i = Len(stack')
        <4>1. tmp'[t] = head
          BY DEF Link, TypeOK
        <4>2. CASE stack = <<>>
          BY <3>1, <4>1, <4>2, <1>1 DEF ChainIntact
        <4>3. CASE stack # <<>>
          BY <3>1, <4>1, <4>3, <1>1 DEF ChainIntact, TypeOK
        <4> QED BY <4>2, <4>3
      <3>2. CASE i # Len(stack')
        BY <3>2, <1>1, <1>2 DEF ChainIntact, TypeOK, Link
      <3> QED BY <3>1, <3>2
    <2>3. \A i, j \in 1..Len(stack') : stack'[i] = stack'[j] => i = j
      BY <1>1, <1>2 DEF ChainIntact
    <2>4. \A u \in Tasks :
            at'[u] # "out" <=> \E i \in 1..Len(stack') : stack'[i] = u
      BY <1>1, <1>2 DEF ChainIntact, TypeOK, Link
    <2> QED BY <2>1, <2>2, <2>3, <2>4 DEF ChainIntact
  <1>5. CurrentOK'
    BY DEF CurrentOK, TypeOK, Link
  <1>6. (IrqsOff => DueIsPassedOn)'
    <2> SUFFICES ASSUME IrqsOff, due' > 0
                 PROVE  \E i \in due'..Len(stack') : Awake(stack[i])'
      BY DEF DueIsPassedOn
    <2>1. due' = due
      BY DEF Link
    <2>2. PICK i \in due..Len(stack) : Awake(stack[i])
      BY <2>1 DEF DueIsPassedOn
    <2>3. i \in 1..Len(stack) /\ i \in due'..Len(stack')
      BY <1>1, <2>1 DEF TypeOK
    <2>4. at'[stack'[i]] = "asleep" /\ state'[stack'[i]] = TASK_RUNNING
      BY <1>1, <1>2, <2>2, <2>3 DEF Awake, TypeOK, Link
    <2> QED BY <2>3, <2>4 DEF Awake
  <1>7. NoIdleWakeup'
    BY <1>1, <1>2 DEF NoIdleWakeup, TypeOK, Link
  <1> QED BY <1>3, <1>4, <1>5, <1>6, <1>7

(* Entering schedule() with everybody in the queue asleep: the wake-ups that
   are due stay in good hands, those made runnable for their signals included. *)
LEMMA ScheduleKeepsDue ==
  ASSUME TypeOK, NEW st \in [Tasks -> TaskStates], Schedule(st), SignalsDue(st),
         UNCHANGED stack,
         \A i \in 1..Len(stack) : at'[stack[i]] = "asleep",
         IrqsOff /\ due > 0
           => \E i \in due..Len(stack) : st[stack[i]] = TASK_RUNNING,
         \A i \in 1..Len(stack) : st[stack[i]] = TASK_RUNNING => due > 0
  PROVE  (IrqsOff => DueIsPassedOn)' /\ NoIdleWakeup'
  <1>1. \A u \in Tasks : state'[u] = TASK_RUNNING
                         <=> st[u] = TASK_RUNNING \/ u \in Signalled(st)
    BY ScheduleRuns
  <1>2. \A i \in 1..Len(stack) : stack[i] \in Tasks
    BY DEF TypeOK
  <1>3. (IrqsOff => DueIsPassedOn)'
    <2> SUFFICES ASSUME IrqsOff, due' > 0
                 PROVE  \E i \in due'..Len(stack') : Awake(stack[i])'
      BY DEF DueIsPassedOn
    <2>1. PICK i \in 1..Len(stack) :
            i >= due' /\ (st[stack[i]] = TASK_RUNNING \/ stack[i] \in Signalled(st))
      <3>1. CASE due' = due
        BY <3>1 DEF TypeOK
      <3>2. CASE due' # due
        BY <3>2 DEF SignalsDue, TypeOK
      <3> QED BY <3>1, <3>2
    <2>2. Awake(stack[i])'
      BY <1>1, <1>2, <2>1 DEF Awake
    <2>3. i \in due'..Len(stack')
      BY <2>1 DEF SignalsDue, TypeOK
    <2> QED BY <2>2, <2>3
  <1>4. NoIdleWakeup'
    <2> SUFFICES ASSUME NEW i \in 1..Len(stack), state'[stack[i]] = TASK_RUNNING
                 PROVE  due' > 0
      BY DEF NoIdleWakeup
    <2>1. st[stack[i]] = TASK_RUNNING \/ stack[i] \in Signalled(st)
      BY <1>1, <1>2
    <2> QED BY <2>1 DEF SignalsDue, TypeOK
  <1> QED BY <1>3, <1>4

LEMMA SleepStep ==
  ASSUME IInv, NEW t \in Tasks,
         NEW st \in {TASK_INTERRUPTIBLE, TASK_UNINTERRUPTIBLE}, Sleep(t, st)
  PROVE  IInv'
  <1> USE WaitQueueAssumption DEF IInv
  <1> DEFINE new == [state EXCEPT ![t] = st]
  <1>1. /\ new \in [Tasks -> TaskStates]
        /\ \A u \in Tasks \ {t} : new[u] = state[u]
        /\ new[t] # TASK_RUNNING
    BY DEF TypeOK, TaskStates, TASK_RUNNING, TASK_INTERRUPTIBLE,
           TASK_UNINTERRUPTIBLE
  <1>2. Schedule(new) /\ SignalsDue(new)
    BY DEF Sleep
  <1> HIDE DEF new
  <1>3. /\ state' \in [Tasks -> TaskStates]
        /\ current' \in Tasks \cup {Idle}
        /\ current' \in Tasks => state'[current'] = TASK_RUNNING
    BY <1>1, <1>2, ScheduleRuns
  <1>4. TypeOK'
    <2>1. due' \in 0..Len(stack')
      BY <1>2 DEF SignalsDue, TypeOK, Sleep
    <2>2. at' \in [Tasks -> {"out", "linked", "asleep"}]
      BY DEF TypeOK, Sleep
    <2> QED BY <1>3, <2>1, <2>2 DEF TypeOK, Sleep
  <1>5. ChainIntact'
    BY DEF ChainIntact, TypeOK, Sleep
  <1>6. CurrentOK'
    BY <1>3 DEF CurrentOK, TypeOK, Sleep
  <1>7. (IrqsOff => DueIsPassedOn)' /\ NoIdleWakeup'
    <2>1. \A i \in 1..Len(stack) : stack[i] \in Tasks
      BY DEF TypeOK
    <2>2. \A i \in 1..Len(stack) : at'[stack[i]] = "asleep"
      BY <2>1 DEF ChainIntact, CurrentOK, TypeOK, Sleep
    <2>3. \A i \in 1..Len(stack) :
            new[stack[i]] = TASK_RUNNING
              <=> at[stack[i]] = "asleep" /\ state[stack[i]] = TASK_RUNNING
      BY <1>1, <2>1, <2>2 DEF TypeOK, Sleep
    <2>4. ASSUME IrqsOff, due > 0
          PROVE  \E i \in due..Len(stack) : new[stack[i]] = TASK_RUNNING
      BY <2>3, <2>4 DEF DueIsPassedOn, Awake, TypeOK
    <2>5. \A i \in 1..Len(stack) : new[stack[i]] = TASK_RUNNING => due > 0
      BY <2>3 DEF NoIdleWakeup
    <2>6. UNCHANGED stack
      BY DEF Sleep
    <2> QED BY <1>1, <1>2, <2>2, <2>4, <2>5, <2>6, ScheduleKeepsDue
  <1> QED BY <1>4, <1>5, <1>6, <1>7

LEMMA OvertakenStep ==
  ASSUME IInv, NEW t \in Tasks, Overtaken(t)
  PROVE  IInv'
  <1> USE WaitQueueAssumption DEF IInv
  <1> DEFINE new == [state EXCEPT ![head] = TASK_RUNNING,
                                  ![t] = TASK_UNINTERRUPTIBLE]
  <1>1. /\ new \in [Tasks -> TaskStates]
        /\ head \in Tasks
        /\ new[head] = TASK_RUNNING
        /\ \A u \in Tasks : new[u] = TASK_RUNNING
                            => u = head \/ state[u] = TASK_RUNNING
    BY DEF Overtaken, TypeOK, TaskStates, TASK_RUNNING, TASK_UNINTERRUPTIBLE
  <1>2. Schedule(new) /\ SignalsDue(new)
    BY DEF Overtaken
  <1> HIDE DEF new
  <1>3. /\ state' \in [Tasks -> TaskStates]
        /\ current' \in Tasks \cup {Idle}
        /\ current' \in Tasks => state'[current'] = TASK_RUNNING
    BY <1>1, <1>2, ScheduleRuns
  <1>4. TypeOK'
    <2>1. due' \in 0..Len(stack')
      BY <1>2 DEF SignalsDue, TypeOK, Overtaken
    <2> QED BY <1>3, <2>1 DEF TypeOK, Overtaken
  <1>5. ChainIntact'
    BY DEF ChainIntact, TypeOK, Overtaken
  <1>6. CurrentOK'
    BY <1>3 DEF CurrentOK, TypeOK, Overtaken
  <1>7. (IrqsOff => DueIsPassedOn)' /\ NoIdleWakeup'
    <2>1. \A i \in 1..Len(stack) : stack[i] \in Tasks
      BY DEF TypeOK
    <2>2. \A i \in 1..Len(stack) : at'[stack[i]] = "asleep"
      BY <2>1 DEF ChainIntact, CurrentOK, TypeOK, Overtaken
    <2>3. \E i \in due..Len(stack) : new[stack[i]] = TASK_RUNNING
      BY <1>1 DEF ChainIntact, TypeOK
    <2>4. due > 0
      <3>1. at[t] = "asleep" /\ state[t] = TASK_RUNNING
        BY DEF CurrentOK, Overtaken
      <3> QED BY <3>1 DEF NoIdleWakeup, ChainIntact
    <2>5. UNCHANGED stack
      BY DEF Overtaken
    <2> QED BY <1>1, <1>2, <2>2, <2>3, <2>4, <2>5, ScheduleKeepsDue
  <1> QED BY <1>4, <1>5, <1>6, <1>7

LEMMA RescheduleStep ==
  ASSUME IInv, Reschedule
  PROVE  IInv'
  <1> USE WaitQueueAssumption DEF IInv
  <1>1. /\ state' \in [Tasks -> TaskStates]
        /\ current' \in Tasks \cup {Idle}
        /\ current' \in Tasks => state'[current'] = TASK_RUNNING
    BY ScheduleRuns DEF Reschedule, TypeOK
  <1>2. TypeOK'
    <2>1. due' \in 0..Len(stack')
      BY DEF SignalsDue, TypeOK, Reschedule
    <2> QED BY <1>1, <2>1 DEF TypeOK, Reschedule
  <1>3. ChainIntact'
    BY DEF ChainIntact, TypeOK, Reschedule
  <1>4. \A i \in 1..Len(stack) : stack[i] \in Tasks
    BY DEF TypeOK
  <1>5. \A u \in Tasks : at[u] # "linked"
    BY DEF CurrentOK, Reschedule
  <1>6. \A i \in 1..Len(stack) : at[stack[i]] = "asleep"
    BY <1>4, <1>5 DEF ChainIntact, TypeOK
  <1>7. CurrentOK'
    BY <1>1, <1>5 DEF CurrentOK, TypeOK, Reschedule
  <1>8. (IrqsOff => DueIsPassedOn)' /\ NoIdleWakeup'
    <2>1. ASSUME IrqsOff, due > 0
          PROVE  \E i \in due..Len(stack) : state[stack[i]] = TASK_RUNNING
      BY <2>1 DEF DueIsPassedOn, Awake
    <2>2. \A i \in 1..Len(stack) : state[stack[i]] = TASK_RUNNING => due > 0
      BY <1>6 DEF NoIdleWakeup
    <2>3. /\ state \in [Tasks -> TaskStates]
          /\ Schedule(state) /\ SignalsDue(state)
          /\ UNCHANGED <<stack, at>>
      BY DEF Reschedule, TypeOK
    <2>4. \A i \in 1..Len(stack) : at'[stack[i]] = "asleep"
      BY <1>6, <2>3
    <2> QED BY <2>1, <2>2, <2>3, <2>4, ScheduleKeepsDue
  <1> QED BY <1>2, <1>3, <1>7, <1>8

(* The one action that takes a sleeper out: the one below it, to which it
   hands the queue, becomes the witness that the wake-up is passed on. *)
LEMMA LeaveStep ==
  ASSUME IInv, NEW t \in Tasks, Leave(t)
  PROVE  IInv'
  <1> USE WaitQueueAssumption DEF IInv
  <1> DEFINE n == Len(stack)
  <1>1. n \in Nat /\ n > 0 /\ stack[n] = t
    BY DEF Leave, LeaveHistory, ChainIntact, TypeOK
  <1>2. /\ stack' \in Seq(Tasks)
        /\ Len(stack') = n - 1
        /\ \A i \in 1..n - 1 : stack'[i] = stack[i] /\ stack[i] \in Tasks
                                /\ stack[i] # t
    <2>1. stack' = SubSeq(stack, 1, n - 1) /\ stack \in Seq(Tasks)
      BY DEF Leave, LeaveHistory, TypeOK
    <2>2. /\ stack' \in Seq(Tasks)
          /\ Len(stack') = n - 1
          /\ \A i \in 1..n - 1 : stack'[i] = stack[i] /\ stack[i] \in Tasks
      BY <1>1, <2>1, WithoutLast
    <2>3. \A i \in 1..n - 1 : stack[i] # t
      BY <1>1 DEF ChainIntact
    <2> QED BY <2>2, <2>3
  <1>3. /\ at'[t] = "out" /\ tmp'[t] = NULL
        /\ \A u \in Tasks \ {t} : at'[u] = at[u] /\ tmp'[u] = tmp[u]
    BY DEF Leave, LeaveHistory, TypeOK
  <1>4. /\ state' \in [Tasks -> TaskStates]
        /\ \A u \in Tasks : state'[u] = TASK_RUNNING
                            <=> u = tmp[t] \/ state[u] = TASK_RUNNING
    BY DEF Leave, LeaveHistory, TypeOK, TaskStates
  <1>5. tmp[t] = IF n = 1 THEN NULL ELSE stack[n - 1]
    <2>1. n \in 1..Len(stack)
      BY <1>1
    <2> QED BY <1>1, <2>1 DEF ChainIntact
  <1>6. due > 0
    <2>1. at[t] = "asleep" /\ state[t] = TASK_RUNNING
      BY DEF Leave, LeaveHistory, CurrentOK
    <2> QED BY <1>1, <2>1 DEF NoIdleWakeup
  <1>7. due' \in 0..n - 1 /\ due' <= due
    BY <1>1, <1>6 DEF Leave, LeaveHistory, TypeOK
  <1>8. \A i \in 1..n - 1 : at[stack[i]] = "asleep"
    BY <1>1, <1>2 DEF ChainIntact, CurrentOK, Leave, TypeOK
  <1>9. TypeOK'
    BY <1>2, <1>4, <1>7 DEF TypeOK, Leave
  <1>10. ChainIntact'
    <2>1. head' = IF stack' = <<>> THEN NULL ELSE stack'[Len(stack')]
      <3>1. CASE n = 1
        BY <1>2, <1>5, <3>1 DEF Leave, LeaveHistory
      <3>2. CASE n # 1
        <4>1. stack' # <<>> /\ n - 1 \in 1..n - 1
          BY <1>1, <1>2, <3>2
        <4>2. head' = stack[n - 1]
          BY <1>5, <3>2 DEF Leave, LeaveHistory
        <4> QED BY <1>2, <4>1, <4>2
      <3> QED BY <3>1, <3>2
    <2>2. \A i \in 1..Len(stack') :
            tmp'[stack'[i]] = IF i = 1 THEN NULL ELSE stack'[i - 1]
      BY <1>1, <1>2, <1>3 DEF ChainIntact
    <2>3. \A i, j \in 1..Len(stack') : stack'[i] = stack'[j] => i = j
      BY <1>1, <1>2 DEF ChainIntact
    <2>4. \A u \in Tasks :
            at'[u] # "out" <=> \E i \in 1..Len(stack') : stack'[i] = u
      BY <1>1, <1>2, <1>3 DEF ChainIntact
    <2> QED BY <2>1, <2>2, <2>3, <2>4 DEF ChainIntact
  <1>11. CurrentOK'
    BY <1>3, <1>4 DEF CurrentOK, Leave
  <1>12. (IrqsOff => DueIsPassedOn)'
    <2> SUFFICES ASSUME due' > 0
                 PROVE  \E i \in due'..Len(stack') : Awake(stack[i])'
      BY DEF DueIsPassedOn
    <2>1. n - 1 \in 1..n - 1 /\ n - 1 \in due'..Len(stack')
      BY <1>1, <1>2, <1>7
    <2>2. state'[stack'[n - 1]] = TASK_RUNNING
      BY <1>2, <1>4, <1>5, <2>1
    <2>3. at'[stack'[n - 1]] = "asleep"
      BY <1>2, <1>3, <1>8, <2>1
    <2> QED BY <2>1, <2>2, <2>3 DEF Awake
  <1>13. NoIdleWakeup'
    <2> SUFFICES ASSUME NEW i \in 1..Len(stack')
                 PROVE  due' > 0
      BY DEF NoIdleWakeup
    <2> QED BY <1>1, <1>2, <1>6 DEF Leave, LeaveHistory, TypeOK
  <1> QED BY <1>9, <1>10, <1>11, <1>12, <1>13

LEMMA WakeUpStep ==
  ASSUME IInv, WakeUp
  PROVE  IInv'
  <1> USE WaitQueueAssumption DEF IInv
  <1> DEFINE n == Len(stack)
  <1>1. n \in Nat /\ n > 0 /\ stack[n] = head /\ head \in Tasks
    BY DEF WakeUp, ChainIntact, TypeOK
  <1>2. /\ state' \in [Tasks -> TaskStates]
        /\ \A u \in Tasks : state'[u] = TASK_RUNNING
                            <=> u = head \/ state[u] = TASK_RUNNING
    BY <1>1 DEF WakeUp, TypeOK, TaskStates
  <1>3. TypeOK'
    BY <1>1, <1>2 DEF TypeOK, WakeUp
  <1>4. ChainIntact'
    BY DEF ChainIntact, WakeUp
  <1>5. CurrentOK'
    BY <1>2 DEF CurrentOK, WakeUp
  <1>6. (IrqsOff => DueIsPassedOn)'
    <2> SUFFICES ASSUME IrqsOff
                 PROVE  \E i \in due'..Len(stack') : Awake(stack[i])'
      BY DEF DueIsPassedOn
    <2>1. at[head] # "linked"
      BY <1>1 DEF WakeUp, CanInterrupt, CurrentOK
    <2>2. at[head] # "out"
      BY <1>1 DEF ChainIntact
    <2>3. at[head] = "asleep"
      BY <1>1, <2>1, <2>2 DEF TypeOK
    <2>4. Awake(stack[n])'
      BY <1>1, <1>2, <2>3 DEF Awake, WakeUp
    <2>5. n \in due'..Len(stack')
      BY <1>1 DEF WakeUp
    <2> QED BY <1>1, <2>4, <2>5 DEF Awake, WakeUp
  <1>7. NoIdleWakeup'
    BY <1>1 DEF NoIdleWakeup, WakeUp
  <1> QED BY <1>3, <1>4, <1>5, <1>6, <1>7

(* Posting or taking a signal touches nothing else. *)
LEMMA SignalStep ==
  ASSUME IInv, NEW t \in Tasks, PostSignal(t) \/ TakeSignal(t)
  PROVE  IInv'
  <1>1. UNCHANGED <<head, tmp, state, current, at, stack, due>>
    BY DEF PostSignal, TakeSignal
  <1>2. signal' \in [Tasks -> BOOLEAN]
    BY DEF PostSignal, TakeSignal, IInv, TypeOK
  <1>3. TypeOK'
    BY <1>1, <1>2 DEF IInv, TypeOK
  <1>4. ChainIntact' /\ CurrentOK' /\ NoIdleWakeup'
    BY <1>1 DEF IInv, ChainIntact, CurrentOK, NoIdleWakeup
  <1>5. (IrqsOff => DueIsPassedOn)'
    <2> SUFFICES ASSUME IrqsOff
                 PROVE  DueIsPassedOn'
      OBVIOUS
    <2> QED BY <1>1 DEF IInv, DueIsPassedOn, Awake
  <1> QED BY <1>3, <1>4, <1>5 DEF IInv

LEMMA StutterStep ==
  ASSUME IInv, UNCHANGED vars
  PROVE  IInv'
  <1>1. TypeOK' /\ ChainIntact' /\ CurrentOK' /\ NoIdleWakeup'
    BY DEF vars, IInv, TypeOK, ChainIntact, CurrentOK, NoIdleWakeup
  <1>2. (IrqsOff => DueIsPassedOn)'
    <2> SUFFICES ASSUME IrqsOff
                 PROVE  DueIsPassedOn'
      OBVIOUS
    <2> QED BY DEF vars, IInv, DueIsPassedOn, Awake
  <1> QED BY <1>1, <1>2 DEF IInv

-----------------------------------------------------------------------------
(* The inductive invariant of the wait queues. *)
THEOREM Invariance == Spec => []IInv
  <1>1. Init => IInv
    BY InitIInv
  <1>2. IInv /\ [Next]_vars => IInv'
    <2> SUFFICES ASSUME IInv, [Next]_vars
                 PROVE  IInv'
      OBVIOUS
    <2>1. CASE \E t \in Tasks : Link(t)
      BY <2>1, LinkStep
    <2>2. CASE \E t \in Tasks :
                 \E st \in {TASK_INTERRUPTIBLE, TASK_UNINTERRUPTIBLE} : Sleep(t, st)
      BY <2>2, SleepStep
    <2>3. CASE \E t \in Tasks : Overtaken(t)
      BY <2>3, OvertakenStep
    <2>4. CASE \E t \in Tasks : Leave(t)
      BY <2>4, LeaveStep
    <2>5. CASE \E t \in Tasks : PostSignal(t) \/ TakeSignal(t)
      BY <2>5, SignalStep
    <2>6. CASE WakeUp
      BY <2>6, WakeUpStep
    <2>7. CASE Reschedule
      BY <2>7, RescheduleStep
    <2>8. CASE UNCHANGED vars
      BY <2>8, StutterStep
    <2> QED BY <2>1, <2>2, <2>3, <2>4, <2>5, <2>6, <2>7, <2>8 DEF Next
  <1> QED BY <1>1, <1>2, PTL DEF Spec

(* The variables keep their types, for any set of tasks. *)
THEOREM TypeCorrect == Spec => []TypeOK
  <1>1. IInv => TypeOK
    BY DEF IInv
  <1> QED BY <1>1, Invariance, PTL

(* The pointers in the sleepers' stack frames always are the stack of all
   sleepers, whether or not interrupts are disabled. *)
THEOREM ChainAlwaysIntact == Spec => []ChainIntact
  <1>1. IInv => ChainIntact
    BY DEF IInv
  <1> QED BY <1>1, Invariance, PTL

(* No wake-up is lost if the callers of __sleep_on disable interrupts. *)
THEOREM WakeupsArePassedOn == Spec => [](IrqsOff => NoLostWakeup)
  <1>1. IInv => (IrqsOff => NoLostWakeup)
    BY DEF IInv, DueIsPassedOn, Awake, NoLostWakeup
  <1> QED BY <1>1, Invariance, PTL

(* Nobody leaves a queue without a wake-up or a signal. *)
THEOREM WakeupsHaveACause == Spec => []NoIdleWakeup
  <1>1. IInv => NoIdleWakeup
    BY DEF IInv
  <1> QED BY <1>1, Invariance, PTL

(* schedule() gives the processor to a runnable task, and to task[0] only if
   there is none. *)
THEOREM SwitchesToRunnable == Spec => SwitchToRunnable
  <1>1. IInv /\ [Next]_vars
          => [current' # current =>
                IF current' = Idle
                  THEN \A t \in Tasks : state'[t] # TASK_RUNNING
                  ELSE state'[current'] = TASK_RUNNING]_vars
    <2> SUFFICES ASSUME IInv, Next, current' # current
                 PROVE  IF current' = Idle
                          THEN \A t \in Tasks : state'[t] # TASK_RUNNING
                          ELSE state'[current'] = TASK_RUNNING
      OBVIOUS
    <2>1. PICK st \in [Tasks -> TaskStates] : Schedule(st)
      <3>1. \/ \E t \in Tasks : \/ \E st \in {TASK_INTERRUPTIBLE, TASK_UNINTERRUPTIBLE} :
                                     Sleep(t, st)
                                \/ Overtaken(t)
            \/ Reschedule
        BY DEF Next, Link, Leave, PostSignal, TakeSignal, WakeUp
      <3>2. state \in [Tasks -> TaskStates]
        BY DEF IInv, TypeOK
      <3> QED BY <3>1, <3>2 DEF Sleep, Overtaken, Reschedule, TaskStates,
                                TASK_RUNNING, TASK_INTERRUPTIBLE, TASK_UNINTERRUPTIBLE
    <2> QED BY <2>1, WaitQueueAssumption DEF Schedule
  <1> QED BY <1>1, Invariance, PTL DEF Spec, SwitchToRunnable

-----------------------------------------------------------------------------
(* The queue implements WaitStack, the stack of sleepers whose youngest may
   leave while a wake-up is due.  ChainIntact is what makes the history
   variable stack a picture of the pointers. *)
Queue == INSTANCE WaitStack

LEMMA SignalsDueGrants ==
  ASSUME TypeOK, NEW st, SignalsDue(st), UNCHANGED stack
  PROVE  Queue!Next \/ UNCHANGED Queue!vars
  BY DEF TypeOK, SignalsDue, Queue!Next, Queue!Grant, Queue!vars

THEOREM ImplementsQueue == Spec => Queue!Spec
  <1>1. Init => Queue!Init
    BY DEF Init, Queue!Init
  <1>2. IInv /\ [Next]_vars => [Queue!Next]_Queue!vars
    <2> SUFFICES ASSUME IInv, [Next]_vars
                 PROVE  Queue!Next \/ UNCHANGED Queue!vars
      OBVIOUS
    <2>1. ASSUME NEW t \in Tasks, Link(t)
          PROVE  Queue!Come(t)
      BY <2>1 DEF IInv, ChainIntact, TypeOK, Link, Queue!Come
    <2>2. ASSUME NEW t \in Tasks, Leave(t)
          PROVE  Queue!Go
      <3>1. at[t] = "asleep" /\ state[t] = TASK_RUNNING
        BY <2>2 DEF Leave, IInv, CurrentOK
      <3>2. due > 0
        BY <3>1 DEF IInv, NoIdleWakeup, ChainIntact
      <3> QED BY <2>2, <3>2 DEF Leave, LeaveHistory, Queue!Go
    <2>3. ASSUME WakeUp
          PROVE  Queue!Next \/ UNCHANGED Queue!vars
      BY <2>3 DEF WakeUp, IInv, TypeOK, ChainIntact, Queue!Next, Queue!Grant, Queue!vars
    <2>4. CASE \E t \in Tasks :
                 \E st \in {TASK_INTERRUPTIBLE, TASK_UNINTERRUPTIBLE} : Sleep(t, st)
      BY <2>4, SignalsDueGrants DEF Sleep, IInv
    <2>5. CASE \E t \in Tasks : Overtaken(t)
      BY <2>5, SignalsDueGrants DEF Overtaken, IInv
    <2>6. CASE Reschedule
      BY <2>6, SignalsDueGrants DEF Reschedule, IInv
    <2>7. CASE UNCHANGED vars \/ \E t \in Tasks : PostSignal(t) \/ TakeSignal(t)
      BY <2>7 DEF vars, PostSignal, TakeSignal, Queue!vars
    <2> QED BY <2>1, <2>2, <2>3, <2>4, <2>5, <2>6, <2>7 DEF Next, Queue!Next
  <1> QED BY <1>1, <1>2, Invariance, PTL DEF Spec, Queue!Spec
=============================================================================
