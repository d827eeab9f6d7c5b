-------------------------------- MODULE Pipe --------------------------------
(***************************************************************************)
(* Pipes (fs/pipe.c, the end of a pipe in iput) and select on them         *)
(* (fs/select.c).                                                          *)
(*                                                                         *)
(* The wait queues are those of WaitQueue: one pointer to the last task    *)
(* that came, the one before it kept by each task, here in saved: tmp in   *)
(* __sleep_on, old_task in the table of a select, which may be on several  *)
(* queues at once.  The kernel is not preempted: a task that is not asleep *)
(* runs until it sleeps or returns.  Copying from and to user space does   *)
(* not sleep here (see the README).                                        *)
(***************************************************************************)
EXTENDS Integers, Sequences, FiniteSets

CONSTANTS
  Tasks,
  Pipes,
  NoTask,      \* a null pointer
  PAGE_SIZE,   \* bytes of a pipe, one of which is never used
  MaxCount,    \* bytes of a read or write
  Selects,     \* what is asked of select: see Select
  Signals,     \* may signals come?
  Inherited    \* the ends that each task has open at first

PipeAssumption ==
  /\ PAGE_SIZE \in Nat \ {0, 1} /\ MaxCount \in Nat \ {0}
  /\ NoTask \notin Tasks /\ Signals \in BOOLEAN
  /\ Inherited \in [Tasks -> SUBSET (Pipes \X {"read", "write"})]
  /\ Selects \subseteq [in : SUBSET Pipes, out : SUBSET Pipes, ex : SUBSET Pipes,
                        order : Seq(Pipes), limit : BOOLEAN]

VARIABLES
  head,       \* first task of a wait queue
  saved,      \* what a task found there when it came
  state, signal,
  running,    \* the task in the kernel, NoTask when all are asleep or outside
  PIPE_HEAD, PIPE_TAIL,
  page,       \* the bytes, each known by its number in the stream
  ends,       \* the ends of each pipe that a task has open
  call,       \* what a task is doing
  taken       \* history: the number of the next byte that will be read

pipeVars == <<head, saved, state, signal, running, PIPE_HEAD, PIPE_TAIL, page, ends, call, taken>>

Queues == Pipes \X {"i_wait", "i_wait2"}
ReadWait(p) == <<p, "i_wait">>
WriteWait(p) == <<p, "i_wait2">>

TASK_RUNNING == "running"
TASK_INTERRUPTIBLE == "interruptible"
TASK_UNINTERRUPTIBLE == "uninterruptible"

Out == [pc |-> "out", p |-> NoTask, count |-> 0, queues |-> << >>, ask |-> NoTask, timeout |-> FALSE]

PIPE_SIZE(p) == (PIPE_HEAD[p] - PIPE_TAIL[p]) % PAGE_SIZE
Numbers == 2 * PAGE_SIZE          \* the bytes of a stream are numbered modulo this
i_count(p) == Cardinality({e \in {"read", "write"} : \E t \in Tasks : <<p, e>> \in ends[t]})

-----------------------------------------------------------------------------
Runs(t) == running \in {NoTask, t} /\ state[t] = TASK_RUNNING

(* The states after wake_up of the first task of each of the queues. *)
Woken(queues) ==
  [t \in Tasks |-> IF \E q \in queues : head[q] = t THEN TASK_RUNNING ELSE state[t]]

Returns(t, states) ==
  /\ state' = states /\ running' = NoTask
  /\ call' = [call EXCEPT ![t] = Out]
  /\ UNCHANGED <<head, saved>>

(* __sleep_on up to schedule(). *)
SleepOn(t, q, st, states, c) ==
  /\ saved' = [saved EXCEPT ![t][q] = head[q]]
  /\ head' = [head EXCEPT ![q] = t]
  /\ state' = [states EXCEPT ![t] = st] /\ running' = NoTask
  /\ call' = [call EXCEPT ![t] = [c EXCEPT !.queues = <<q>>]]

(* The task is scheduled again: it leaves the queue if it is the last that
   came, or else wakes that one and sleeps on.  So do __sleep_on and, for each
   queue in its table, free_wait. *)
Overtaken(t, q) == head[q] \notin {NoTask, t}

LeaveQueue(t) ==
  LET q == Head(call[t].queues) IN
  /\ call[t].queues # << >> /\ Runs(t)
  /\ IF Overtaken(t, q)
     THEN /\ state' = [state EXCEPT ![head[q]] = TASK_RUNNING, ![t] = TASK_UNINTERRUPTIBLE]
          /\ running' = NoTask
          /\ UNCHANGED <<head, saved, call>>
     ELSE /\ head' = [head EXCEPT ![q] = saved[t][q]]
          /\ saved' = [saved EXCEPT ![t][q] = NoTask]
          /\ state' = [u \in Tasks |-> IF u = saved[t][q] THEN TASK_RUNNING ELSE state[u]]
          /\ call' = [call EXCEPT ![t].queues = Tail(@)]
          /\ running' = t
  /\ UNCHANGED <<signal, PIPE_HEAD, PIPE_TAIL, page, ends, taken>>

(* schedule() wakes who has a signal or whose timeout is over. *)
Signal(t) ==
  /\ Signals /\ ~signal[t] /\ call[t].pc # "out"
  /\ signal' = [signal EXCEPT ![t] = TRUE]
  /\ state' = [state EXCEPT ![t] = IF @ = TASK_INTERRUPTIBLE THEN TASK_RUNNING ELSE @]
  /\ UNCHANGED <<head, saved, running, PIPE_HEAD, PIPE_TAIL, page, ends, call, taken>>

Timeout(t) ==
  /\ running = NoTask /\ call[t].timeout
  /\ call' = [call EXCEPT ![t].timeout = FALSE]
  /\ state' = [state EXCEPT ![t] = IF @ = TASK_INTERRUPTIBLE THEN TASK_RUNNING ELSE @]
  /\ UNCHANGED <<head, saved, signal, running, PIPE_HEAD, PIPE_TAIL, page, ends, taken>>

Enter(t, c) ==
  /\ Runs(t) /\ call[t].pc = "out" /\ ~signal[t]
  /\ running' = t
  /\ call' = [call EXCEPT ![t] = c]
  /\ UNCHANGED <<head, saved, state, signal, PIPE_HEAD, PIPE_TAIL, page, ends, taken>>

-----------------------------------------------------------------------------
Read(t, p, n) ==
  <<p, "read">> \in ends[t] /\ Enter(t, [Out EXCEPT !.pc = "read", !.p = p, !.count = n])

Room_Full(p) == PAGE_SIZE - PIPE_SIZE(p)        \* faulty: uses the last byte too
Room(p) == PAGE_SIZE - 1 - PIPE_SIZE(p)

Smaller(a, b) == IF a < b THEN a ELSE b

(* read_pipe from its loop's start to a sleep or its end. *)
ReadPipe(t) ==
  LET p == call[t].p
      n == Smaller(call[t].count, PIPE_SIZE(p))
      left == call[t].count - n
      woken == Woken({WriteWait(p)})
  IN  /\ Runs(t) /\ call[t].pc = "read" /\ call[t].queues = << >>
      /\ PIPE_TAIL' = [PIPE_TAIL EXCEPT ![p] = (@ + n) % PAGE_SIZE]
      /\ taken' = [taken EXCEPT ![p] = (@ + n) % Numbers]
      /\ IF left = 0 \/ i_count(p) # 2 \/ signal[t]
         THEN Returns(t, woken)
         ELSE SleepOn(t, ReadWait(p), TASK_INTERRUPTIBLE, woken, [call[t] EXCEPT !.count = left])
      /\ UNCHANGED <<signal, PIPE_HEAD, page, ends>>

Write(t, p, n) ==
  <<p, "write">> \in ends[t] /\ Enter(t, [Out EXCEPT !.pc = "write", !.p = p, !.count = n])

(* The number of the next byte: the one before it is in the page, or has just
   been read. *)
NextNumber(p) == (page[p][(PIPE_HEAD[p] - 1) % PAGE_SIZE] + 1) % Numbers

(* write_pipe.  Its sleep is not interruptible. *)
Put(p, n) ==
  /\ PIPE_HEAD' = [PIPE_HEAD EXCEPT ![p] = (@ + n) % PAGE_SIZE]
  /\ page' = [page EXCEPT ![p] = [i \in 0..PAGE_SIZE - 1 |->
                LET k == (i - PIPE_HEAD[p]) % PAGE_SIZE
                IN  IF k < n THEN (NextNumber(p) + k) % Numbers ELSE page[p][i]]]

Ended_NoWakeup(p) == {}                          \* faulty: wakes readers only when it sleeps
Ended(p) == {ReadWait(p)}

WritePipe(t) ==
  LET p == call[t].p
      n == Smaller(call[t].count, Room(p))
      left == call[t].count - n
  IN  /\ Runs(t) /\ call[t].pc = "write" /\ call[t].queues = << >>
      /\ Put(p, n)
      /\ IF left > 0 /\ i_count(p) = 2
         THEN SleepOn(t, WriteWait(p), TASK_UNINTERRUPTIBLE, Woken({ReadWait(p)}), [call[t] EXCEPT !.count = left])
              /\ UNCHANGED signal
         ELSE Returns(t, Woken(Ended(p))) /\ signal' = [signal EXCEPT ![t] = @ \/ left > 0]
      /\ UNCHANGED <<PIPE_TAIL, ends, taken>>

(* sys_close of an end; the last one of its kind goes through iput. *)
Close(t, p, e) ==
  LET last == \A u \in Tasks \ {t} : <<p, e>> \notin ends[u]
  IN  /\ running = NoTask /\ state[t] = TASK_RUNNING /\ call[t].pc = "out"
      /\ <<p, e>> \in ends[t]
      /\ ends' = [ends EXCEPT ![t] = @ \ {<<p, e>>}]
      /\ state' = IF last THEN Woken({ReadWait(p), WriteWait(p)}) ELSE state
      /\ UNCHANGED <<head, saved, signal, running, PIPE_HEAD, PIPE_TAIL, page, call, taken>>

-----------------------------------------------------------------------------
(* select: what is asked is a record of three sets of pipes, the order of
   their descriptors, and whether there is a limit of time. *)
Select(t, ask) ==
  /\ \A p \in ask.in \cup ask.out \cup ask.ex : \E e \in {"read", "write"} : <<p, e>> \in ends[t]
  /\ Enter(t, [Out EXCEPT !.pc = "select", !.ask = ask, !.timeout = ask.limit])

(* check_in, check_out and check_ex find an event or add the task to a queue:
   each of them adds it to i_wait. *)
Events(ask) ==
  {<<p, "in">> : p \in {p \in ask.in : PIPE_SIZE(p) # 0}}
  \cup {<<p, "out">> : p \in {p \in ask.out : PIPE_SIZE(p) # PAGE_SIZE - 1}}
  \cup {<<p, "ex">> : p \in {p \in ask.ex : i_count(p) < 2}}

Waited(ask) == {p \in ask.in : PIPE_SIZE(p) = 0}
               \cup {p \in ask.out : PIPE_SIZE(p) = PAGE_SIZE - 1}
               \cup {p \in ask.ex : i_count(p) = 2}

(* do_select from repeat to its sleep or its end.  Without a sleep free_wait
   finds the task first in each queue. *)
DoSelect(t) ==
  LET ask == call[t].ask
      queues == [i \in 1..Cardinality(Waited(ask)) |->
                   ReadWait(SelectSeq(ask.order, LAMBDA p : p \in Waited(ask))[i])]
      on == {queues[i] : i \in DOMAIN queues}
  IN  /\ Runs(t) /\ call[t].pc = "select" /\ call[t].queues = << >>
      /\ IF ~signal[t] /\ (on # {} \/ call[t].timeout) /\ Events(ask) = {}
         THEN /\ saved' = [saved EXCEPT ![t] = [q \in Queues |-> IF q \in on THEN head[q] ELSE @[q]]]
              /\ head' = [q \in Queues |-> IF q \in on THEN t ELSE head[q]]
              /\ state' = [state EXCEPT ![t] = TASK_INTERRUPTIBLE]
              /\ running' = NoTask
              /\ call' = [call EXCEPT ![t].queues = queues]
         ELSE Returns(t, Woken(on))
      /\ UNCHANGED <<signal, PIPE_HEAD, PIPE_TAIL, page, ends, taken>>

(* A signal is taken on the way back to user mode. *)
TakeSignal(t) ==
  /\ running = NoTask /\ call[t].pc = "out" /\ signal[t]
  /\ signal' = [signal EXCEPT ![t] = FALSE]
  /\ UNCHANGED <<head, saved, state, running, PIPE_HEAD, PIPE_TAIL, page, ends, call, taken>>

-----------------------------------------------------------------------------
(* The pipes were opened and inherited before. *)
PipeInit ==
  /\ head = [q \in Queues |-> NoTask]
  /\ saved = [t \in Tasks |-> [q \in Queues |-> NoTask]]
  /\ state = [t \in Tasks |-> TASK_RUNNING] /\ signal = [t \in Tasks |-> FALSE]
  /\ running = NoTask
  /\ PIPE_HEAD = [p \in Pipes |-> 0] /\ PIPE_TAIL = [p \in Pipes |-> 0]
  /\ page = [p \in Pipes |-> [i \in 0..PAGE_SIZE - 1 |-> (i - PAGE_SIZE) % Numbers]]
  /\ taken = [p \in Pipes |-> 0]
  /\ ends = Inherited
  /\ call = [t \in Tasks |-> Out]

Step(t) == LeaveQueue(t) \/ ReadPipe(t) \/ WritePipe(t) \/ DoSelect(t) \/ TakeSignal(t)

Call(t) ==
  \/ \E p \in Pipes, n \in 1..MaxCount : Read(t, p, n) \/ Write(t, p, n)
  \/ \E p \in Pipes, e \in {"read", "write"} : Close(t, p, e)
  \/ \E ask \in Selects : Select(t, ask)

PipeNext == \E t \in Tasks : Step(t) \/ Call(t) \/ Signal(t) \/ Timeout(t)

PipeSpec == PipeInit /\ [][PipeNext]_pipeVars

-----------------------------------------------------------------------------
(* What is read is what was written: the bytes between PIPE_TAIL and PIPE_HEAD
   are those that nobody has read, in their order, and none was overwritten.
   (An off-by-one in what is full, pipe.c:51, makes a full pipe empty.) *)
StreamIsKept ==
  \A p \in Pipes :
    /\ NextNumber(p) = (taken[p] + PIPE_SIZE(p)) % Numbers
    /\ \A k \in 0..PIPE_SIZE(p) - 1 :
         page[p][(PIPE_TAIL[p] + k) % PAGE_SIZE] = (taken[p] + k) % Numbers

(* The tasks on a queue, from the last that came. *)
Queue(q) ==
  LET from[n \in 1..Cardinality(Tasks)] ==
        IF n = 1 THEN head[q] ELSE IF from[n - 1] = NoTask THEN NoTask ELSE saved[from[n - 1]][q]
  IN  from

On(t) == {call[t].queues[i] : i \in DOMAIN call[t].queues}

(* Who is asleep on a queue runs when one that came there later leaves, and
   who runs leaves all its queues, one after the other. *)
After(t, q) ==
  LET queue == Queue(q) IN
  {u \in Tasks : \E i, j \in DOMAIN queue : i < j /\ queue[i] = u /\ queue[j] = t}

WillRun ==
  LET within[n \in 0..Cardinality(Tasks)] ==
        IF n = 0 THEN {t \in Tasks : state[t] = TASK_RUNNING}
        ELSE LET known == within[n - 1] IN
             known \cup {t \in Tasks \ known : \E q \in On(t) : After(t, q) \cap known # {}}
  IN  within[Cardinality(Tasks)]

(* Nobody is forgotten on the queues of a pipe, although selects sleep on them
   as well, on several at once and out of turn: a reader will wake up when
   there is something to read, a writer when there is room, both when the
   other end was closed, a select when there is something to read or an end was
   closed (for room, see SelectsWake), and whoever wants to leave a queue that
   others have joined later will after them (pipe.c:22-27, inode.c:177,
   select.c:74). *)
PipesWake ==
  LET will == WillRun IN
  \A t \in Tasks : call[t].queues # << >> =>
    LET p == call[t].p IN
    /\ \A q \in On(t) : \E i \in DOMAIN Queue(q) : Queue(q)[i] = t
    /\ \/ call[t].pc = "read" /\ (PIPE_SIZE(p) # 0 \/ i_count(p) # 2)
       \/ call[t].pc = "write" /\ (Room(p) # 0 \/ i_count(p) # 2)
       \/ call[t].pc = "select" /\ \E event \in Events(call[t].ask) : event[2] # "out"
       \/ call[t].pc # "write" /\ state[t] = TASK_UNINTERRUPTIBLE
       => t \in will

(* A select wakes up when there is what it waits for. The comment at
   select.c:26 says that the code "should be free of race-conditions". *)
SelectsWake ==
  \A t \in Tasks : call[t].pc = "select" /\ Events(call[t].ask) # {} => t \in WillRun
=============================================================================
