-------------------------------- MODULE Tty --------------------------------
(***************************************************************************)
(* Reading and writing terminals, kernel/chr_drv/tty_io.c: the queues      *)
(* read_q, write_q and secondary, the line discipline between the first    *)
(* and the last, and the tasks that sleep on them.                         *)
(*                                                                         *)
(* Either a serial line, served by the interrupts of rs_io.s, or the two   *)
(* ends of a pseudo terminal (pty.c), where tty->write moves what is       *)
(* written to the other end.  A queue is the sequence of what is in its    *)
(* ring; to put one more than fits is to lose them all, to take one that   *)
(* is not there is to have them all back.  Both happen, and the model      *)
(* stops there (overrun).                                                  *)
(*                                                                         *)
(* PUTCH is one step; wake_up wakes all the sleepers of a list, as         *)
(* WaitQueue shows; output processing, VTIME, the terminal's process group *)
(* (see JobControl) and the hang-up of a line are left out.                *)
(***************************************************************************)
EXTENDS Integers, Sequences, SequencesExt, FiniteSets

CONSTANTS
  Readers, Writers,    \* tasks in tty_read of In and in tty_write of Out
  Group,               \* those of them in the process group of In
  Pty,                 \* a pseudo terminal, or a serial line?
  Canon, Echo,         \* ICANON and ECHO of the terminal that is read
  VMIN,
  Typed,               \* characters that arrive on the line
  Written,             \* those that tasks write
  BufSize,             \* TTY_BUF_SIZE
  LowWater,            \* 128: a writer waits for so much room
  Startup,             \* 256: and the interrupt wakes it at so few characters
  MaxCount,            \* characters of a call
  MaxTyped             \* a bound on the characters that arrive

TtyAssumption ==
  /\ BufSize \in Nat /\ BufSize > 2 /\ LowWater \in 1..BufSize - 1 /\ Startup \in 1..BufSize - 1
  /\ MaxCount \in Nat \ {0} /\ {Pty, Canon, Echo} \subseteq BOOLEAN
  /\ Group \subseteq Readers \union Writers

VARIABLES
  tty,        \* the terminals: queues, secondary->data, stopped
  sending,    \* does the line interrupt when it can send?
  task,       \* where each task is in its call, and current->signal
  arrived,    \* how many characters have come from the line
  overrun

vars == <<tty, sending, task, arrived, overrun>>

TtyTasks == Readers \union Writers
In == IF Pty THEN "slave" ELSE "line"      \* what readers read
Out == IF Pty THEN "master" ELSE "line"    \* what writers write to
Ttys == {In, Out}
Other(y) == IF y = "slave" THEN "master" ELSE "slave"

NL == "\n"
EOF == "^D"
ERASE == "^?"
KILL == "^U"
STOP == "^S"
START == "^Q"
INTR == "^C"

-----------------------------------------------------------------------------
(* The macros of tty.h. *)
Left(q) == BufSize - 1 - Len(q)
Full(q) == Left(q) = 0
IsEnd(c) == c \in {NL, EOF}

(* st is a state of the terminals while a function runs, and what it woke. *)
RECURSIVE CopyToCooked(_, _), PtyCopy(_, _)

(* tty->write: rs_write lets the line interrupt. *)
Write(y, st) ==
  IF Pty THEN PtyCopy(y, st) ELSE [st EXCEPT !.sending = @ \/ st.tty[y].w # <<>>]

Echoed(y, st, c) ==
  IF ~Echo \/ y # In THEN st
  ELSE Write(y, [st EXCEPT !.overrun = @ \/ Full(st.tty[y].w), !.tty[y].w = Append(@, c)])

(* The echo of a character that is erased is a 127, ERASE itself. *)
Erased(y, st) ==
  LET s == st.tty[y].s IN
  IF s = <<>> \/ IsEnd(Last(s)) THEN st ELSE [Echoed(y, st, ERASE) EXCEPT !.tty[y].s = Front(s)]

RECURSIVE Killed(_, _)
Killed(y, st) == LET new == Erased(y, st) IN IF new = st THEN st ELSE Killed(y, new)

(* One character of copy_to_cooked's loop, taken from read_q. The master's
   end is raw. *)
Counted_AtTheEnd(y, st, c) ==        \* faulty: end of file is not counted
  [st EXCEPT !.tty[y].data = IF c = NL THEN @ + 1 ELSE @]
Counted(y, st, c) == [st EXCEPT !.tty[y].data = IF IsEnd(c) THEN @ + 1 ELSE @]

Cook(y, st, c) ==
  CASE y # In -> [Counted(y, st, c) EXCEPT !.tty[y].s = Append(@, c)]
    [] y = In /\ Canon /\ c = KILL -> Killed(y, st)
    [] y = In /\ Canon /\ c = ERASE -> Erased(y, st)
    [] y = In /\ c = STOP -> Write(y, [st EXCEPT !.tty[y].stopped = TRUE])
    [] y = In /\ c = START -> Write(y, [st EXCEPT !.tty[y].stopped = FALSE])
    [] y = In /\ c = INTR -> [st EXCEPT !.signal = @ \union Group]
    [] OTHER ->
         LET new == Echoed(y, Counted(y, st, c), c) IN [new EXCEPT !.tty[y].s = Append(@, c)]

CopyToCooked(y, st) ==
  IF st.tty[y].r = <<>> \/ Full(st.tty[y].s)
  THEN [st EXCEPT !.woken = @ \union {<<y, "s">>}]
  ELSE CopyToCooked(y, Cook(y, [st EXCEPT !.tty[y].r = Tail(@)], Head(st.tty[y].r)))

(* pty_copy, which stops after one character when its caller, a task of
   st.caller, has a signal. *)
PtyCopied_NoWakeup(from, st) == CopyToCooked(Other(from), st)   \* faulty
PtyCopied(from, st) ==
  [CopyToCooked(Other(from), st) EXCEPT !.woken = @ \union {<<from, "w">>}]

PtyCopy(from, st) ==
  LET to == Other(from)
      moved == [st EXCEPT !.tty[from].w = Tail(@), !.tty[to].r = Append(@, Head(st.tty[from].w))]
  IN  IF st.tty[from].stopped \/ st.tty[from].w = <<>> THEN PtyCopied(from, st)
      ELSE IF Full(st.tty[to].r)
      THEN IF Full(st.tty[to].s) THEN PtyCopied(from, st) ELSE PtyCopy(from, CopyToCooked(to, st))
      ELSE IF st.caller \in st.signal THEN PtyCopied(from, moved) ELSE PtyCopy(from, moved)

-----------------------------------------------------------------------------
(* A function run by t, or by an interrupt, from the present state. *)
Now(t) == [tty |-> tty, sending |-> sending, caller |-> t, woken |-> {}, overrun |-> FALSE,
           signal |-> {u \in TtyTasks : task[u].signal}]

(* Signals wake those who sleep. *)
Becomes(st, tasks) ==
  /\ tty' = st.tty /\ sending' = st.sending /\ overrun' = st.overrun
  /\ task' = [t \in TtyTasks |->
       [tasks[t] EXCEPT !.signal = t \in st.signal,
                        !.asleep = IF task[t].asleep \in st.woken \/ t \in st.signal THEN <<>> ELSE @]]

At(t, pc) == task[t].pc = pc /\ task[t].asleep = <<>>
Goto(t, pc) == [task EXCEPT ![t].pc = pc]
SleepsOn(t, y, q, pc) == [task EXCEPT ![t].pc = pc, ![t].asleep = <<y, q>>]
Return(t) == [task EXCEPT ![t].pc = "out"]

Idle == [pc |-> "out", left |-> 0, got |-> 0, char |-> NL, asleep |-> <<>>, signal |-> FALSE]

(* A call, once the signals of the last one are taken. *)
Call(t, n) ==
  /\ At(t, "out")
  /\ task' = [task EXCEPT ![t] = [Idle EXCEPT !.pc = IF t \in Readers THEN "read" ELSE "write", !.left = n]]
  /\ UNCHANGED <<tty, sending, arrived, overrun>>

Minimum == IF Canon \/ VMIN = 0 THEN MaxCount ELSE VMIN

NothingIn(y) == y.s = <<>> \/ (Canon /\ ~Full(y.r) /\ y.data = 0)

(* GETCH follows the look at the queue at once, but for an interrupt. *)
Take(t, st) ==
  IF Pty THEN Becomes([st EXCEPT !.tty[In].s = Tail(@)],
                      [task EXCEPT ![t].char = Head(st.tty[In].s), ![t].pc = "got"])
  ELSE Becomes(st, Goto(t, "get"))

(* The head of tty_read's loop, with interrupts off until it sleeps. *)
ReadLoop(t) ==
  /\ At(t, "read")
  /\ LET st == IF Pty THEN Write(Out, Now(t)) ELSE Now(t)
         leaves == (~Canon /\ VMIN = 0) \/ t \in st.signal
     IN  \/ NothingIn(st.tty[In]) /\ leaves /\ Becomes(st, Return(t))
         \/ NothingIn(st.tty[In]) /\ ~leaves /\ Becomes(st, SleepsOn(t, In, "s", "read"))
         \/ ~NothingIn(st.tty[In]) /\ Take(t, st)
  /\ UNCHANGED arrived

GetCh(t) ==
  /\ At(t, "get")
  /\ IF tty[In].s = <<>> THEN overrun' = TRUE /\ UNCHANGED <<tty, task>>
     ELSE /\ tty' = [tty EXCEPT ![In].s = Tail(@)]
          /\ task' = [task EXCEPT ![t].char = Head(tty[In].s), ![t].pc = "got"]
          /\ UNCHANGED overrun
  /\ UNCHANGED <<sending, arrived>>

(* What tty_read does with the character. *)
Got(t) ==
  /\ At(t, "got")
  /\ LET c == task[t].char
         eof == c = EOF /\ Canon
         left == task[t].left - IF eof THEN 0 ELSE 1
         got == task[t].got + IF eof THEN 0 ELSE 1
         more == ~eof /\ left > 0 /\ ~(c = NL /\ Canon) /\ tty[In].s # <<>>
         done == left = 0 \/ Canon \/ got >= Minimum
         st == [Now(t) EXCEPT !.tty[In].data = IF IsEnd(c) THEN @ - 1 ELSE @]
         next == [task[t] EXCEPT !.left = left, !.got = got, !.char = NL, !.pc = IF done THEN "out" ELSE "read"]
     IN  \/ ~more /\ Becomes(st, [task EXCEPT ![t] = next])
         \/ more /\ Pty /\ Becomes([st EXCEPT !.tty[In].s = Tail(@)],
                                   [task EXCEPT ![t] = [next EXCEPT !.char = Head(tty[In].s), !.pc = "got"]])
         \/ more /\ ~Pty /\ Becomes(st, [task EXCEPT ![t] = [next EXCEPT !.pc = "get"]])
  /\ UNCHANGED arrived

-----------------------------------------------------------------------------
(* tty_write: sleep_if_full, then what fits, then tty->write. *)
WriteLoop(t) ==
  /\ At(t, "write")
  /\ task' = IF task[t].signal THEN Return(t)
             ELSE IF Full(tty[Out].w) THEN SleepsOn(t, Out, "w", "full") ELSE Goto(t, "put")
  /\ UNCHANGED <<tty, sending, arrived, overrun>>

WakesUp(t) ==
  /\ At(t, "full")
  /\ task' = IF task[t].signal THEN Return(t)
             ELSE IF Left(tty[Out].w) < LowWater THEN SleepsOn(t, Out, "w", "full") ELSE Goto(t, "put")
  /\ UNCHANGED <<tty, sending, arrived, overrun>>

(* Between the look at the queue and PUTCH, get_fs_byte may sleep. *)
PutLooks(t) ==
  /\ At(t, "put")
  /\ task[t].left > 0 /\ ~Full(tty[Out].w)
  /\ task' = Goto(t, "putch")
  /\ UNCHANGED <<tty, sending, arrived, overrun>>

Putch(t) ==
  /\ At(t, "putch")
  /\ \E c \in Written : tty' = [tty EXCEPT ![Out].w = Append(@, c)]
  /\ overrun' = Full(tty[Out].w)
  /\ task' = [task EXCEPT ![t].left = @ - 1, ![t].pc = "put"]
  /\ UNCHANGED <<sending, arrived>>

WriteOut(t) ==
  /\ At(t, "put")
  /\ task[t].left = 0 \/ Full(tty[Out].w)
  /\ Becomes(Write(Out, Now(t)), IF task[t].left = 0 THEN Return(t) ELSE Goto(t, "write"))
  /\ UNCHANGED arrived

-----------------------------------------------------------------------------
(* read_char: a character that does not fit is dropped. *)
ReadChar ==
  /\ ~Pty /\ arrived < MaxTyped
  /\ arrived' = arrived + 1
  /\ \E c \in Typed :
       LET st == Now(In) IN
       Becomes(CopyToCooked(In, IF Full(tty[In].r) THEN st ELSE [st EXCEPT !.tty[In].r = Append(@, c)]), task)

WriteChar_AtStartup ==               \* faulty: does not wake at the end of the queue
  /\ ~Pty /\ sending
  /\ LET q == tty[Out].w
         st == [Now(Out) EXCEPT !.tty[Out].w = IF q = <<>> THEN q ELSE Tail(q), !.sending = Len(q) > 1,
                                !.woken = IF Len(q) > Startup THEN {<<Out, "w">>} ELSE {}]
     IN  Becomes(st, task)
  /\ UNCHANGED arrived

(* write_char, and write_buffer_empty when it was the last one. *)
WriteChar ==
  /\ ~Pty /\ sending
  /\ LET q == tty[Out].w
         st == [Now(Out) EXCEPT !.tty[Out].w = IF q = <<>> THEN q ELSE Tail(q), !.sending = Len(q) > 1,
                                !.woken = IF Len(q) <= Startup THEN {<<Out, "w">>} ELSE {}]
     IN  Becomes(st, task)
  /\ UNCHANGED arrived

(* TCFLSH, and TCOOFF and TCOON, by a task between two calls. *)
Flush(t, y, q) ==
  /\ At(t, "out")
  /\ tty' = [tty EXCEPT ![y] = [@ EXCEPT ![q] = <<>>]]
  /\ UNCHANGED <<sending, task, arrived, overrun>>

Flow(t, stop) ==
  /\ At(t, "out")
  /\ Becomes(Write(Out, [Now(t) EXCEPT !.tty[Out].stopped = stop]), task)
  /\ UNCHANGED arrived

Init ==
  /\ tty = [y \in Ttys |-> [r |-> <<>>, w |-> <<>>, s |-> <<>>, data |-> 0, stopped |-> FALSE]]
  /\ sending = FALSE
  /\ task = [t \in TtyTasks |-> Idle]
  /\ arrived = 0
  /\ overrun = FALSE

(* No task runs between another's look at secondary and its GETCH. *)
TaskStep(t) ==
  /\ ~overrun
  /\ \A u \in TtyTasks \ {t} : task[u].pc # "get"
  /\ \/ ReadLoop(t) \/ GetCh(t) \/ Got(t)
     \/ WriteLoop(t) \/ WakesUp(t) \/ PutLooks(t) \/ Putch(t) \/ WriteOut(t)

Interrupt == ~overrun /\ (ReadChar \/ WriteChar)

Next ==
  \/ \E t \in TtyTasks : TaskStep(t)
  \/ \E t \in TtyTasks, n \in 1..MaxCount : ~overrun /\ Call(t, n)
  \/ \E t \in Writers, y \in Ttys, q \in {"r", "w"} : ~overrun /\ Flush(t, y, q)
  \/ \E t \in Writers, stop \in BOOLEAN : ~overrun /\ Flow(t, stop)
  \/ Interrupt

Spec == Init /\ [][Next]_vars

(* TtyTasks run; a line that can send does; whoever reads, reads again. *)
Fairness ==
  /\ \A t \in TtyTasks : WF_vars(TaskStep(t))
  /\ \A t \in Readers : WF_vars(Call(t, MaxCount))
  /\ WF_vars(WriteChar)

FairSpec == Spec /\ Fairness

-----------------------------------------------------------------------------
(* secondary->data is the number of line ends in secondary, but for one that a
   reader has taken and not yet counted: the interrupt counts and edits what a
   task takes away (tty_io.c:210, 315). One too few, and a line is not read;
   one too many, and a read returns half a line. *)
DataCountsLines ==
  ~overrun =>
    tty[In].data = Cardinality({k \in DOMAIN tty[In].s : IsEnd(tty[In].s[k])})
                   + Cardinality({t \in Readers : task[t].pc = "got" /\ IsEnd(task[t].char)})

Asleep(tasks) == {t \in tasks : task[t].asleep # <<>>}

(* A reader sleeps only when there is nothing for it, and a writer only when
   the line will interrupt or, on a pseudo terminal, when no reader sleeps that
   could make room; or else another writer is about to call tty->write
   (tty_io.c:103-113, 296-309; pty.c:20; rs_io.s:115). *)
SleepersWillWake ==
  ~overrun =>
    /\ Asleep(Readers) # {} => NothingIn(tty[In])
    /\ Asleep(Writers) # {} =>
         \/ IF Pty THEN tty[Out].stopped \/ Asleep(Readers) = {} ELSE sending
         \/ \E t \in Writers : task[t].pc \in {"put", "putch"}

(* tty_write returns. *)
Returns(t) == task[t].pc = "out" \/ overrun \/ (Pty /\ tty[Out].stopped)

WritersReturn == \A t \in Writers : []<>Returns(t)
=============================================================================
