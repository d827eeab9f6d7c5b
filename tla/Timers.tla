------------------------------- MODULE Timers -------------------------------
(***************************************************************************)
(* The timer list of kernel/sched.c: add_timer and the part of do_timer    *)
(* that runs the timers whose time has come.                               *)
(*                                                                         *)
(* Each entry keeps the ticks between the timer before it and itself, so   *)
(* that a tick only has to count the first one down.                       *)
(***************************************************************************)
EXTENDS Integers, Sequences, SequencesExt

CONSTANTS
  Functions,       \* what timers call; a name for each timer that may be set
  Setters,         \* those that set another timer when they are called
  TIME_REQUESTS,   \* entries of timer_list[]
  MaxDelay,        \* bound: the longest delay
  MaxLate,         \* bound: later than that is all the same
  NoFn             \* no function is called; a timer is not set

TimersAssumption ==
  /\ Setters \subseteq Functions /\ NoFn \notin Functions \cup Int
  /\ TIME_REQUESTS \in Nat \ {0} /\ MaxDelay \in Nat \ {0} /\ MaxLate \in Nat

VARIABLES
  timers,      \* from next_timer on: records of fn and jiffies
  ticking,     \* is do_timer in its loop over the timers?
  calling,     \* the function it has called, or NoFn
  left,        \* ticks until a timer should be run, negative when it is late
  heldUp       \* those a shorter timer was set in front of

timersVars == <<timers, ticking, calling, left, heldUp>>

-----------------------------------------------------------------------------
IsSet(f) == left[f] # NoFn

(* The place of a delay of d: the new entry sinks as long as the next one
   is shorter than what is left of its delay. The entry behind it keeps
   its own count. *)
Elapsed(n) ==
  LET sum[k \in 0..Len(timers)] == IF k = 0 THEN 0 ELSE sum[k - 1] + timers[k].jiffies
  IN  sum[n]

Place(d) ==
  CHOOSE n \in 0..Len(timers) :
    /\ n < Len(timers) => timers[n + 1].jiffies >= d - Elapsed(n)
    /\ \A k \in 0..n - 1 : timers[k + 1].jiffies < d - Elapsed(k)

From(n) == {timers[k].fn : k \in n..Len(timers)}

(* The entry of what is left of d at its place. *)
Entry(f, d) == [fn |-> f, jiffies |-> d - Elapsed(Place(d))]

Insert(f, d) ==
  /\ heldUp' = heldUp \cup From(Place(d) + 1)
  /\ timers' = InsertAt(timers, Place(d) + 1, Entry(f, d))
  /\ left' = [left EXCEPT ![f] = d]

(* add_timer: out of an interrupt, or in a function that do_timer calls. A
   delay of 0 calls the function at once; the panic is a full list. *)
AddTimer(f, d) ==
  /\ ticking => calling \in Setters
  /\ ~IsSet(f) /\ Len(timers) < TIME_REQUESTS
  /\ Insert(f, d)
  /\ UNCHANGED <<ticking, calling>>

(* do_timer: the first entry counts down. A function that has set a timer
   has enabled interrupts, so that the next tick may come in the loop. *)
Tick ==
  /\ ticking => calling \in Setters
  /\ timers # << >>
  /\ timers' = [timers EXCEPT ![1].jiffies = @ - 1]
  /\ left' = [f \in Functions |-> IF left[f] \in {NoFn, -MaxLate} THEN left[f] ELSE left[f] - 1]
  /\ ticking' = TRUE /\ calling' = NoFn /\ heldUp' = heldUp

Due_Late == timers # << >> /\ Head(timers).jiffies < 0        \* faulty: a tick late

Due == timers # << >> /\ Head(timers).jiffies <= 0

RunFirst ==
  /\ ticking /\ Due
  /\ calling' = Head(timers).fn
  /\ timers' = Tail(timers)
  /\ left' = [left EXCEPT ![Head(timers).fn] = NoFn]
  /\ heldUp' = heldUp \ {Head(timers).fn}
  /\ ticking' = ticking

Done ==
  /\ ticking /\ ~Due
  /\ ticking' = FALSE /\ calling' = NoFn
  /\ UNCHANGED <<timers, left, heldUp>>

-----------------------------------------------------------------------------
TimersInit ==
  /\ timers = << >> /\ ticking = FALSE /\ calling = NoFn
  /\ left = [f \in Functions |-> NoFn] /\ heldUp = {}

TimersNext ==
  \/ \E f \in Functions, d \in 1..MaxDelay : AddTimer(f, d)
  \/ Tick \/ RunFirst \/ Done

TimersSpec == TimersInit /\ [][TimersNext]_timersVars

-----------------------------------------------------------------------------
(* Counting only the first entry down calls every function in the tick in
   which its delay is over, but for those held up: add_timer does not take
   a new entry's count off the one it is set in front of (sched.c:321). *)
OnlyHeldUpAreLate == ~ticking => \A f \in Functions : IsSet(f) /\ left[f] <= 0 => f \in heldUp

=============================================================================
