------------------------------- MODULE Floppy -------------------------------
(***************************************************************************)
(* The floppy driver, kernel/blk_drv/floppy.c, and the timers of its       *)
(* motors in kernel/sched.c.                                               *)
(*                                                                         *)
(* The driver is a chain of interrupt handlers and timers that continue in *)
(* do_fd_request; each runs to its end.  What they work on is a record, fd,*)
(* and they are operators on it: a call of another at the end is a nested  *)
(* application.  ok says whether the controller takes the commands.        *)
(***************************************************************************)
EXTENDS Integers, Sequences, FiniteSets, SequencesExt

CONSTANTS
  Drives,        \* some of 0..3
  NrTracks,      \* tracks of a floppy
  FD_ERRORS,     \* MAX_ERRORS of the driver
  UpTicks, SelectTicks,   \* HZ/2 and 2: until a motor is up, a drive selected
  MaxQueue,      \* requests made at a time
  Changers,      \* tasks that call floppy_change
  MaxWildReads   \* times that bad_flp_intr may find no CURRENT

FloppyAssumption ==
  /\ Drives \subseteq 0..3 /\ NrTracks \in Nat \ {0} /\ FD_ERRORS \in Nat
  /\ UpTicks \in Nat /\ SelectTicks \in 1..UpTicks
  /\ MaxQueue \in Nat \ {0} /\ MaxWildReads \in Nat

VARIABLES
  fd,         \* the variables of the driver, see FdStart
  asked,      \* the commands the controller executes
  change,     \* the tasks in floppy_change: the drive, and where they are
  wildReads,  \* history: the times that it found none
  wasSetUp    \* history: was everything set up at each transfer?

floppyVars == <<fd, asked, change, wildReads, wasSetUp>>

None == -1

(* queue is the list of requests, timers are fn and the ticks left; dor is the
   drive that current_DOR selects and motors those it has on; off says that
   floppy_off has started a motor's last three seconds. *)
FdStart ==
  [queue |-> << >>, reset |-> FALSE, recalibrate |-> FALSE, seek |-> FALSE,
   current_drive |-> 0, seek_track |-> 0, current_track |-> None,
   selected |-> FALSE, do_floppy |-> "none", timers |-> << >>,
   dor |-> 0, motors |-> {}, mon_timer |-> [d \in Drives |-> 0], off |-> [d \in Drives |-> FALSE],
   spin |-> [d \in Drives |-> 0],   \* history: ticks until the motor has its speed
   sends |-> "none"]    \* the command that the handler has issued

-----------------------------------------------------------------------------
(* ticks_to_floppy_on without its result, mon_timer[nr]. *)
TicksToFloppyOn(s, nr) ==
  LET dor == IF s.selected THEN s.dor ELSE nr IN
  [s EXCEPT !.off[nr] = FALSE, !.dor = dor, !.motors = @ \cup {nr},
            !.spin[nr] = IF nr \in s.motors THEN @ ELSE UpTicks,
            !.mon_timer[nr] = IF nr \notin s.motors THEN UpTicks
                              ELSE IF dor # s.dor /\ @ < SelectTicks THEN SelectTicks ELSE @]

AddFdTimer(s, fn, ticks) == [s EXCEPT !.timers = Append(@, [fn |-> fn, ticks |-> ticks])]

FloppyDeselect(s) == [s EXCEPT !.selected = FALSE]

(* end_request switches the motor off after a while, too. *)
EndFloppyRequest(s) ==
  [s EXCEPT !.queue = Tail(@), !.off[Head(s.queue).drive] = TRUE]

ResetFloppy(s) ==
  [s EXCEPT !.reset = FALSE, !.recalibrate = TRUE, !.do_floppy = "reset", !.sends = "reset"]

(* recalibrate_floppy, and do_fd_request again if the controller does not take
   the command. *)
RecalibrateFloppy(s, ok) ==
  LET t == [s EXCEPT !.recalibrate = FALSE, !.current_track = 0, !.do_floppy = "recalibrate"]
  IN  IF ok THEN [t EXCEPT !.sends = "recalibrate"] ELSE ResetFloppy(t)

(* do_fd_request without a reset or recalibration to do: requests that are not
   on the disk end at once, and the motor is started for the first other one. *)
PastEnd(r) == r.track >= NrTracks

EndOutOfRange(s) ==
  LET n == Cardinality({i \in DOMAIN s.queue : \A j \in 1..i : PastEnd(s.queue[j])})
      drives == <<s.current_drive>> \o [i \in 1..n |-> s.queue[i].drive]
  IN  [s EXCEPT !.queue = SubSeq(@, n + 1, Len(@)), !.current_drive = drives[n + 1],
                !.seek = \E i \in 1..n : drives[i] # drives[i + 1],
                !.off = [d \in Drives |-> @[d] \/ \E i \in 1..n : s.queue[i].drive = d]]

FromQueue_NoWait(s) ==              \* faulty: does not wait for the motor
  LET r == Head(s.queue)
      t == TicksToFloppyOn([s EXCEPT !.seek = @ \/ r.drive # s.current_drive \/ r.track # s.current_track,
                                     !.current_drive = r.drive, !.seek_track = r.track], r.drive)
  IN  AddFdTimer(t, "floppy_on", 0)

FromQueue(s) ==
  LET r == Head(s.queue)
      t == TicksToFloppyOn([s EXCEPT !.seek = @ \/ r.drive # s.current_drive \/ r.track # s.current_track,
                                     !.current_drive = r.drive, !.seek_track = r.track], r.drive)
  IN  AddFdTimer(t, "floppy_on", t.mon_timer[r.drive])

DoFdRequest(s, ok) ==
  LET t == [s EXCEPT !.seek = FALSE]
      u == EndOutOfRange(t)
  IN  IF s.reset THEN ResetFloppy(t)
      ELSE IF s.recalibrate THEN RecalibrateFloppy(t, ok)
      ELSE IF u.queue = << >> THEN [u EXCEPT !.do_floppy = "none"]
      ELSE FromQueue(u)

(* setup_rw_floppy and the rest of transfer. *)
SetupRwFloppy_NoRetry(s, ok) ==     \* faulty: notices the failure, but does not try again
  LET t == [s EXCEPT !.do_floppy = "rw"]
  IN  IF ok THEN [t EXCEPT !.sends = "rw"] ELSE [t EXCEPT !.reset = TRUE]

SetupRwFloppy(s, ok) ==
  LET t == [s EXCEPT !.do_floppy = "rw"]
  IN  IF ok THEN [t EXCEPT !.sends = "rw"] ELSE DoFdRequest([t EXCEPT !.reset = TRUE], ok)

Transfer(s, ok) ==
  IF s.reset THEN DoFdRequest(s, ok)
  ELSE IF ~s.seek THEN SetupRwFloppy(s, ok)
  ELSE IF ok THEN [s EXCEPT !.do_floppy = "seek", !.sends = "seek"]
  ELSE DoFdRequest([s EXCEPT !.do_floppy = "seek", !.reset = TRUE], ok)

FloppyOnInterrupt(s, ok) ==
  LET t == [s EXCEPT !.selected = TRUE]
  IN  IF s.current_drive # s.dor
      THEN AddFdTimer([t EXCEPT !.dor = s.current_drive], "transfer", SelectTicks)
      ELSE Transfer(t, ok)

(* bad_flp_intr.  After it has ended a request it looks at the errors of the
   next one - or, if there is none, at whatever is at address 8, which is a
   page-directory entry and large enough to set reset. *)
BadFlpIntr(s) ==
  LET t == [s EXCEPT !.queue[1].errors = @ + 1]
      u == IF Head(t.queue).errors > FD_ERRORS THEN EndFloppyRequest(FloppyDeselect(t)) ELSE t
  IN  IF u.queue = << >> \/ Head(u.queue).errors > FD_ERRORS \div 2
      THEN [u EXCEPT !.reset = TRUE]
      ELSE [u EXCEPT !.recalibrate = TRUE]

(* The interrupt handlers: do_floppy is cleared before they run. good says
   what the controller reports. *)
RwInterrupt(s, good, ok) ==
  DoFdRequest(IF good THEN EndFloppyRequest(FloppyDeselect(s)) ELSE BadFlpIntr(s), ok)

SeekInterrupt(s, good, ok) ==
  IF good THEN SetupRwFloppy([s EXCEPT !.current_track = s.seek_track], ok)
  ELSE DoFdRequest(BadFlpIntr(s), ok)

RecalInterrupt(s, good, ok) ==
  DoFdRequest(IF good THEN [s EXCEPT !.recalibrate = FALSE] ELSE [s EXCEPT !.reset = TRUE], ok)

UnexpectedInterrupt(s, good) == IF good THEN [s EXCEPT !.recalibrate = TRUE] ELSE [s EXCEPT !.reset = TRUE]

InterruptHandler(s, good, ok) ==
  LET t == [s EXCEPT !.do_floppy = "none"] IN
  CASE s.do_floppy = "rw" -> RwInterrupt(t, good, ok)
    [] s.do_floppy = "seek" -> SeekInterrupt(t, good, ok)
    [] s.do_floppy = "recalibrate" -> RecalInterrupt(t, good, ok)
    [] s.do_floppy = "reset" -> DoFdRequest(t, ok)
    [] OTHER -> UnexpectedInterrupt(t, good)

-----------------------------------------------------------------------------
(* The controller takes commands when it is idle, and perhaps another while it
   moves an arm. A reset ends all others. *)
Takes(ok) == ok => asked \subseteq {"seek", "recalibrate"}

IsSetUp(s) ==
  s.queue # << >> /\ LET d == Head(s.queue).drive IN
    s.current_drive = d /\ s.dor = d /\ d \in s.motors /\ s.spin[d] = 0

(* A handler has run, and s is what it left. *)
HandlerRuns(s, done) ==
  /\ fd' = [s EXCEPT !.sends = "none"]
  /\ asked' = CASE s.sends = "none" -> asked \ done
                [] s.sends = "reset" -> {"reset"}
                [] OTHER -> (asked \ done) \cup {s.sends}
  /\ wasSetUp' = (wasSetUp /\ (s.sends = "rw" => IsSetUp(s)))
  /\ UNCHANGED change

(* The timers of one interrupt run before anything else does. *)
DueFdTimer == SelectInSeq(fd.timers, LAMBDA timer : timer.ticks = 0)

(* add_request: the driver is only called when its list was empty. *)
MakeRequest(d, track, ok) ==
  LET s == [fd EXCEPT !.queue = Append(@, [drive |-> d, track |-> track, errors |-> 0])]
  IN  /\ DueFdTimer = 0 /\ Len(fd.queue) < MaxQueue
      /\ Takes(ok)
      /\ HandlerRuns(IF fd.queue = << >> THEN DoFdRequest(s, ok) ELSE s, {})
      /\ UNCHANGED wildReads

(* bad_flp_intr is going to end the only request. *)
EndsLast(good) ==
  ~good /\ fd.do_floppy \in {"rw", "seek"} /\ Len(fd.queue) = 1 /\ Head(fd.queue).errors >= FD_ERRORS

(* A request that nobody made is not ended: see SetUpForTransfer. *)
FloppyInterrupt(op, good, ok) ==
  /\ DueFdTimer = 0 /\ op \in asked
  /\ ok => asked \ {op} \subseteq {"seek", "recalibrate"}
  /\ fd.do_floppy \in {"rw", "seek"} => fd.queue # << >>
  /\ EndsLast(good) => wildReads < MaxWildReads
  /\ wildReads' = IF EndsLast(good) THEN wildReads + 1 ELSE wildReads
  /\ HandlerRuns(InterruptHandler(fd, good, ok), {op})

Less(ticks) == [d \in Drives |-> IF ticks[d] > 0 THEN ticks[d] - 1 ELSE 0]

(* The timer interrupt: a timer's ticks and those of the motors. *)
FloppyTick ==
  /\ DueFdTimer = 0
  /\ \/ fd.timers # << >>
     \/ \E d \in Drives : fd.mon_timer[d] > 0
  /\ fd' = [fd EXCEPT !.timers = [i \in DOMAIN @ |-> [fn |-> @[i].fn, ticks |-> @[i].ticks - 1]],
                      !.mon_timer = Less(@), !.spin = Less(@)]
  /\ UNCHANGED <<asked, change, wildReads, wasSetUp>>

TimerRuns(ok) ==
  LET s == [fd EXCEPT !.timers = RemoveAt(@, DueFdTimer)] IN
  /\ DueFdTimer # 0
  /\ Takes(ok)
  /\ HandlerRuns(IF fd.timers[DueFdTimer].fn = "transfer" THEN Transfer(s, ok) ELSE FloppyOnInterrupt(s, ok), {})
  /\ UNCHANGED wildReads

(* The three seconds of floppy_off are longer than any timer of the driver and
   any command of the controller. *)
MotorOff(d) ==
  /\ fd.off[d] /\ d \in fd.motors /\ fd.mon_timer[d] = 0
  /\ d = fd.current_drive => fd.timers = << >> /\ asked = {}
  /\ fd' = [fd EXCEPT !.motors = @ \ {d}]
  /\ UNCHANGED <<asked, change, wildReads, wasSetUp>>

-----------------------------------------------------------------------------
(* floppy_change: floppy_on sleeps until the motor is up, then the drive must
   be the one selected. *)
FloppyOn(t, d) ==
  /\ change[t].pc = "out"
  /\ change' = [change EXCEPT ![t] = [pc |-> "floppy_on", drive |-> d]]
  /\ UNCHANGED <<fd, asked, wildReads, wasSetUp>>

WaitMotor(t) ==
  LET d == change[t].drive
      s == TicksToFloppyOn(fd, d)
  IN  /\ DueFdTimer = 0
      /\ change[t].pc = "floppy_on" \/ (change[t].pc = "motor" /\ fd.mon_timer[d] = 0)
      /\ fd' = s
      /\ change' = [change EXCEPT ![t].pc = IF s.mon_timer[d] > 0 THEN "motor" ELSE "select"]
      /\ UNCHANGED <<asked, wildReads, wasSetUp>>

Selected(t) ==
  LET d == change[t].drive IN
  /\ change[t].pc = "select"
  /\ IF fd.dor = d
     THEN /\ change' = [change EXCEPT ![t] = [pc |-> "out", drive |-> 0]]
          /\ fd' = [fd EXCEPT !.off[d] = TRUE]
     ELSE /\ ~fd.selected
          /\ change' = [change EXCEPT ![t].pc = "floppy_on"] /\ UNCHANGED fd
  /\ UNCHANGED <<asked, wildReads, wasSetUp>>

-----------------------------------------------------------------------------
FloppyInit ==
  /\ fd = FdStart /\ asked = {} /\ wildReads = 0 /\ wasSetUp = TRUE
  /\ change = [t \in Changers |-> [pc |-> "out", drive |-> 0]]

Hardware == \E op \in {"rw", "seek", "recalibrate", "reset"}, good, ok \in BOOLEAN : FloppyInterrupt(op, good, ok)
Timer == FloppyTick \/ \E ok \in BOOLEAN : TimerRuns(ok)
Changes(t) == WaitMotor(t) \/ Selected(t)

FloppyNext ==
  \/ \E d \in Drives, track \in 0..NrTracks, ok \in BOOLEAN : MakeRequest(d, track, ok)
  \/ Hardware \/ Timer
  \/ \E d \in Drives : MotorOff(d)
  \/ \E t \in Changers : Changes(t) \/ \E d \in Drives : FloppyOn(t, d)

FloppySpec == FloppyInit /\ [][FloppyNext]_floppyVars

-----------------------------------------------------------------------------
(* A transfer only starts "when everything should be correctly set up for the
   transfer (ie floppy motor is on and the correct floppy is selected)"
   (floppy.c:305-308): there is a request, and its drive's motor is up and the
   drive is selected, whatever floppy_change does in between.  It is so until
   bad_flp_intr has ended the last request, and set reset for the errors of a
   CURRENT that is NULL: the next request starts a second chain beside that of
   the reset, whose timer may find the list empty. *)
SetUpForTransfer == wildReads = 0 => wasSetUp

(* The driver never stalls: while there are requests, a timer runs or the
   controller has a command, the last of which will call do_fd_request. *)
NeverStalls ==
  fd.queue # << >> => fd.timers # << >> \/ (asked # {} /\ fd.do_floppy # "none")
=============================================================================
