----------------------------- MODULE WaitQueue -----------------------------
(***************************************************************************)
(* The wait queues of kernel/sched.c: __sleep_on, interruptible_sleep_on,  *)
(* sleep_on and wake_up.                                                   *)
(*                                                                         *)
(* A queue is one pointer, *p.  The rest of the queue is not stored        *)
(* anywhere: every sleeper keeps the previous value of *p in the local     *)
(* variable tmp of its own __sleep_on frame, so that the sleepers form a   *)
(* stack threaded through their kernel stacks.  wake_up only makes the     *)
(* head runnable; each sleeper that leaves makes the one below it          *)
(* runnable, and a sleeper that is scheduled while it is not the head      *)
(* makes the head runnable and goes back to sleep.                         *)
(*                                                                         *)
(* The kernel is not preemptive: between two calls of schedule() only the  *)
(* current task and interrupt handlers run.  An interrupt can come in the  *)
(* middle of __sleep_on unless the caller disabled interrupts first        *)
(* (IrqsOff), as wait_on_buffer, lock_buffer, lock_inode, lock_super and   *)
(* floppy_on do, and as the waits on wait_for_request, buffer_wait and the *)
(* pipes do not.                                                           *)
(***************************************************************************)
EXTENDS Naturals, Sequences

CONSTANTS
  Tasks,     \* the tasks other than task[0]
  NULL,      \* the null pointer
  Idle,      \* task[0], which never sleeps
  IrqsOff    \* do the callers of __sleep_on disable interrupts?

ASSUME WaitQueueAssumption ==
  /\ NULL \notin Tasks
  /\ Idle \notin Tasks
  /\ IrqsOff \in BOOLEAN

TASK_RUNNING         == "running"
TASK_INTERRUPTIBLE   == "interruptible"
TASK_UNINTERRUPTIBLE == "uninterruptible"

TaskStates == {TASK_RUNNING, TASK_INTERRUPTIBLE, TASK_UNINTERRUPTIBLE}

VARIABLES
  head,     \* *p
  tmp,      \* tmp of each task's __sleep_on frame
  state,    \* task_struct.state
  current,  \* the task the processor executes
  signal,   \* does the task have a signal that its mask lets through?
  at,       \* where the task is: outside __sleep_on, "linked" into the queue
            \* but not yet marked as sleeping, or "asleep" in schedule()
  \* History variables, read by no guard:
  stack,    \* the sleepers, in the order in which they came
  due       \* how many of the longest sleepers a wake-up is still due to

vars == <<head, tmp, state, current, signal, at, stack, due>>

-----------------------------------------------------------------------------
(* schedule(): interruptible sleepers with a signal become runnable, then a
   runnable task gets the processor, task[0] if there is none.  Which of
   several runnable tasks it is depends on their counters and is left open
   here. *)
Signalled(st) ==
  {t \in Tasks : signal[t] /\ st[t] = TASK_INTERRUPTIBLE}

Schedule(st) ==
  /\ state' = [t \in Tasks |->
                 IF t \in Signalled(st) THEN TASK_RUNNING ELSE st[t]]
  /\ current' \in IF \E t \in Tasks : state'[t] = TASK_RUNNING
                    THEN {t \in Tasks : state'[t] = TASK_RUNNING}
                    ELSE {Idle}

(* A signal obliges the kernel to let the sleeper out, and with it everyone
   who sleeps below it: due grows to the youngest sleeper with a signal. *)
SignalsDue(st) ==
  due' \in {i \in due..Len(stack) :
              /\ i = due \/ stack[i] \in Signalled(st)
              /\ \A j \in 1..Len(stack) : stack[j] \in Signalled(st) => j <= i}

(* __sleep_on up to and including *p = current. *)
Link(t) ==
  /\ current = t
  /\ at[t] = "out"
  /\ tmp' = [tmp EXCEPT ![t] = head]
  /\ head' = t
  /\ at' = [at EXCEPT ![t] = "linked"]
  /\ stack' = Append(stack, t)
  /\ UNCHANGED <<state, current, signal, due>>

(* current->state = state, and the first schedule(). *)
Sleep(t, st) ==
  /\ current = t
  /\ at[t] = "linked"
  /\ at' = [at EXCEPT ![t] = "asleep"]
  /\ Schedule([state EXCEPT ![t] = st])
  /\ SignalsDue([state EXCEPT ![t] = st])
  /\ UNCHANGED <<head, tmp, signal, stack>>

(* schedule() returns to a sleeper that is not the head of the queue: it
   makes the head runnable, sleeps on without minding signals, and
   schedules again. *)
Overtaken(t) ==
  /\ current = t
  /\ at[t] = "asleep"
  /\ head # NULL /\ head # t
  /\ LET st == [state EXCEPT ![head] = TASK_RUNNING,
                             ![t] = TASK_UNINTERRUPTIBLE]
     IN  Schedule(st) /\ SignalsDue(st)
  /\ UNCHANGED <<head, tmp, signal, at, stack>>

(* schedule() returns to the head of the queue: it leaves, restores the
   previous head and makes it runnable. *)
LeaveHistory ==
  /\ stack' = SubSeq(stack, 1, Len(stack) - 1)
  /\ due' = IF due = Len(stack) THEN due - 1 ELSE due

Leave_Overtaken(t) ==          \* faulty: no test that *p == current
  /\ current = t /\ at[t] = "asleep"
  /\ head' = tmp[t]
  /\ state' = [u \in Tasks |-> IF u = tmp[t] THEN TASK_RUNNING ELSE state[u]]
  /\ tmp' = [tmp EXCEPT ![t] = NULL]
  /\ at' = [at EXCEPT ![t] = "out"]
  /\ LeaveHistory
  /\ UNCHANGED <<current, signal>>

Leave_NoWakeup(t) ==           \* faulty: tmp->state = 0 is missing
  /\ current = t /\ at[t] = "asleep"
  /\ head = NULL \/ head = t
  /\ head' = tmp[t]
  /\ tmp' = [tmp EXCEPT ![t] = NULL]
  /\ at' = [at EXCEPT ![t] = "out"]
  /\ LeaveHistory
  /\ UNCHANGED <<state, current, signal>>

Leave_QueueDropped(t) ==       \* faulty: *p = NULL, as in older sleep_on's
  /\ current = t /\ at[t] = "asleep"
  /\ head = NULL \/ head = t
  /\ head' = NULL
  /\ state' = [u \in Tasks |-> IF u = tmp[t] THEN TASK_RUNNING ELSE state[u]]
  /\ tmp' = [tmp EXCEPT ![t] = NULL]
  /\ at' = [at EXCEPT ![t] = "out"]
  /\ LeaveHistory
  /\ UNCHANGED <<current, signal>>

Leave(t) ==
  /\ current = t
  /\ at[t] = "asleep"
  /\ head = NULL \/ head = t
  /\ head' = tmp[t]
  /\ state' = [u \in Tasks |-> IF u = tmp[t] THEN TASK_RUNNING ELSE state[u]]
  /\ tmp' = [tmp EXCEPT ![t] = NULL]
  /\ at' = [at EXCEPT ![t] = "out"]
  /\ LeaveHistory
  /\ UNCHANGED <<current, signal>>

(* wake_up, by an interrupt handler or by the running task.  It cannot come
   between Link and Sleep of a caller that disabled interrupts. *)
CanInterrupt == IrqsOff => \A t \in Tasks : current = t => at[t] # "linked"

WakeUp ==
  /\ CanInterrupt
  /\ head # NULL
  /\ state' = [state EXCEPT ![head] = TASK_RUNNING]
  /\ due' = Len(stack)
  /\ UNCHANGED <<head, tmp, current, signal, at, stack>>

(* A signal is posted to a task (send_sig, the tty interrupts, SIGALRM). *)
PostSignal(t) ==
  /\ CanInterrupt
  /\ ~signal[t]
  /\ signal' = [signal EXCEPT ![t] = TRUE]
  /\ UNCHANGED <<head, tmp, state, current, at, stack, due>>

(* A task on its way back to user mode takes its signals. *)
TakeSignal(t) ==
  /\ current = t
  /\ at[t] = "out"
  /\ signal[t]
  /\ signal' = [signal EXCEPT ![t] = FALSE]
  /\ UNCHANGED <<head, tmp, state, current, at, stack, due>>

(* schedule() called from elsewhere: by the timer interrupt on behalf of a
   task in user mode, or by task[0], which does nothing but call pause(). *)
Reschedule ==
  /\ \A t \in Tasks : current = t => at[t] = "out"
  /\ Schedule(state)
  /\ SignalsDue(state)
  /\ UNCHANGED <<head, tmp, signal, at, stack>>

Init ==
  /\ head = NULL
  /\ tmp = [t \in Tasks |-> NULL]
  /\ state = [t \in Tasks |-> TASK_RUNNING]
  /\ current = Idle
  /\ signal = [t \in Tasks |-> FALSE]
  /\ at = [t \in Tasks |-> "out"]
  /\ stack = <<>>
  /\ due = 0

Next ==
  \/ \E t \in Tasks :
       \/ Link(t)
       \/ \E st \in {TASK_INTERRUPTIBLE, TASK_UNINTERRUPTIBLE} : Sleep(t, st)
       \/ Overtaken(t)
       \/ Leave(t)
       \/ PostSignal(t)
       \/ TakeSignal(t)
  \/ WakeUp
  \/ Reschedule

Spec == Init /\ [][Next]_vars

(* The processor goes on with its instructions, do_timer calls schedule()
   once a task has used up its counter, and schedule() prefers the task with
   the largest counter, which only those that do not run keep: no task stays
   runnable for ever without being chosen again and again. *)
Chosen(t) == Next /\ current # t /\ current' = t

Fairness ==
  /\ WF_vars(Reschedule)
  /\ \A t \in Tasks :
       /\ WF_vars(\E st \in {TASK_INTERRUPTIBLE, TASK_UNINTERRUPTIBLE} : Sleep(t, st))
       /\ WF_vars(Overtaken(t))
       /\ WF_vars(Leave(t))
       /\ SF_vars(Chosen(t))

FairSpec == Spec /\ Fairness

-----------------------------------------------------------------------------
(* Types of the variables: a wake-up is never due to more sleepers than
   there are. *)
TypeOK ==
  /\ head \in Tasks \cup {NULL}
  /\ tmp \in [Tasks -> Tasks \cup {NULL}]
  /\ state \in [Tasks -> TaskStates]
  /\ current \in Tasks \cup {Idle}
  /\ signal \in [Tasks -> BOOLEAN]
  /\ at \in [Tasks -> {"out", "linked", "asleep"}]
  /\ stack \in Seq(Tasks)
  /\ due \in 0..Len(stack)

(* The pointers scattered over the sleepers' frames are the stack of all
   sleepers: *p is the last one to come, tmp of each is the one that came
   just before it, and nobody is in it twice or missing.  This is what the
   kernel relies on when it prints "Warning: *P = NULL" otherwise. *)
ChainIntact ==
  /\ head = IF stack = <<>> THEN NULL ELSE stack[Len(stack)]
  /\ \A i \in 1..Len(stack) :
       tmp[stack[i]] = IF i = 1 THEN NULL ELSE stack[i - 1]
  /\ \A i, j \in 1..Len(stack) : stack[i] = stack[j] => i = j
  /\ \A t \in Tasks :
       at[t] # "out" <=> \E i \in 1..Len(stack) : stack[i] = t

(* No wake-up is lost: as long as somebody who was in the queue at a wake-up
   has not left it, he or somebody who came after him is runnable, and so
   will pass the wake-up on.  wake_up itself only touches the head. *)
NoLostWakeup ==
  due > 0 => \E i \in due..Len(stack) : state[stack[i]] = TASK_RUNNING

(* Nobody leaves unless a wake-up or a signal is outstanding: a runnable
   sleeper means that one is due. *)
NoIdleWakeup ==
  (\E i \in 1..Len(stack) : at[stack[i]] = "asleep"
                              /\ state[stack[i]] = TASK_RUNNING)
    => due > 0

(* The processor is only given to runnable tasks, and task[0] only runs when
   nobody else could have been chosen (checked when schedule() switches). *)
SwitchToRunnable ==
  [][current' # current =>
       IF current' = Idle
         THEN \A t \in Tasks : state'[t] # TASK_RUNNING
         ELSE state'[current'] = TASK_RUNNING]_vars

(* A wake-up reaches everybody it is due to, in the end, although each
   sleeper only wakes the one below it - unless newcomers keep pushing
   themselves on top of the queue, which is a stack. *)
WakeupsArrive ==
  due > 0 ~> (due = 0 \/ \E t \in Tasks : at[t] = "linked")
=============================================================================
