------------------------------ MODULE HardDisk ------------------------------
(***************************************************************************)
(* The hard-disk driver, kernel/blk_drv/hd.c: it "traverses the            *)
(* request-list, using interrupts to jump between functions".  do_hd is    *)
(* the function the next interrupt calls, hd_timeout the clock that calls  *)
(* hd_times_out instead; errors are retried, more than half of MAX_ERRORS  *)
(* of them reset the controller and set up every drive again.              *)
(*                                                                         *)
(* The handlers run with interrupts disabled and jump into each other; pc  *)
(* is the function that runs, "idle" when none does.  The controller is    *)
(* external: it ends a command well or badly, or never answers; interrupts *)
(* that nobody expects may come MaxSpurious times.  It is assumed to       *)
(* become ready while controller_ready polls it (hd_out panics otherwise). *)
(***************************************************************************)
EXTENDS Integers, Sequences

CONSTANTS
  MAX_ERRORS,    \* 7 in hd.c
  SECTORS,       \* sectors of a request: 2 for a block, 8 for a swap page
  NR_HD,         \* number of drives
  LastBlocks,    \* set of BOOLEAN: requests for the last block of a partition?
  MaxRequests,   \* bound on the requests made
  MaxSpurious    \* bound on unexpected interrupts

HardDiskAssumption ==
  /\ MAX_ERRORS \in Nat \ {0}
  /\ SECTORS \in Nat \ {0}
  /\ NR_HD \in Nat \ {0}
  /\ LastBlocks \subseteq BOOLEAN
  /\ MaxRequests \in Nat
  /\ MaxSpurious \in Nat

NULL == "NULL"

VARIABLES
  queue,        \* the requests, CURRENT first
  do_hd,        \* handler of the next interrupt
  hd_timeout,   \* is the clock running?
  reset, recalibrate,
  reset_i,      \* the static variable of reset_hd
  pc, ret,      \* running function, and where bad_rw_intr returns to
  command,      \* what the controller was told: [op, drive]
  status,       \* of the controller: "busy", "ready" (well done), "error"
  irq,          \* an interrupt is pending
  made, spurious,
  \* History variables:
  ended,        \* requests that have been ended, with their result
  setup,        \* drives that were told their geometry since the last reset
  wildCurrent   \* CURRENT was NULL when it was "read" or "write"n to

driver == <<do_hd, hd_timeout, reset, recalibrate, reset_i, pc, ret>>
controller == <<command, status, irq>>
bounds == <<made, spurious>>
history == <<ended, setup, wildCurrent>>
vars == <<queue, driver, controller, bounds, history>>

Current == Head(queue)
Goto(label) == pc' = label /\ ret' = ret
SetIntr(handler) == do_hd' = handler /\ hd_timeout' = TRUE

-----------------------------------------------------------------------------
(* end_request: CURRENT is removed. *)
EndRequest(r, ok) ==
  /\ queue' = Tail(queue)
  /\ ended' = ended \cup {[req |-> r, ok |-> ok]}

(* hd_out gives the controller a command.  If it is still busy with the last
   one, that one ends, perhaps with an interrupt, before the new one starts. *)
HdOut(op, drive) ==
  /\ command' = [op |-> op, drive |-> drive]
  /\ status' = "busy"
  /\ irq' \in IF status = "busy" THEN {irq, TRUE} ELSE {irq}

(* do_hd_request.  The test for the end of the partition assumes that two
   sectors are left to transfer. *)
OutOfRange(r) == r.last /\ r.done + 2 > SECTORS

NothingToDo ==
  /\ pc = "do_hd_request" /\ queue = <<>>
  /\ do_hd' = NULL /\ hd_timeout' = FALSE
  /\ Goto("idle")
  /\ UNCHANGED <<queue, reset, recalibrate, reset_i, controller, bounds, history>>

Refuse ==
  /\ pc = "do_hd_request" /\ queue # <<>>
  /\ OutOfRange(Current)
  /\ EndRequest(Current, FALSE)
  /\ UNCHANGED <<driver, controller, bounds, setup, wildCurrent>>

StartReset ==
  /\ pc = "do_hd_request" /\ queue # <<>> /\ ~OutOfRange(Current)
  /\ reset
  /\ recalibrate' = TRUE
  /\ Goto("reset_hd")
  /\ UNCHANGED <<queue, do_hd, hd_timeout, reset, reset_i, controller, bounds, history>>

Recalibrate ==
  /\ pc = "do_hd_request" /\ queue # <<>> /\ ~OutOfRange(Current)
  /\ ~reset /\ recalibrate
  /\ recalibrate' = FALSE
  /\ HdOut("restore", Current.drive)
  /\ SetIntr("recal_intr")
  /\ Goto("idle")
  /\ UNCHANGED <<queue, reset, reset_i, bounds, history>>

StartRead ==
  /\ pc = "do_hd_request" /\ queue # <<>> /\ ~OutOfRange(Current)
  /\ ~reset /\ ~recalibrate
  /\ Current.cmd = "read"
  /\ HdOut("read", Current.drive)
  /\ SetIntr("read_intr")
  /\ Goto("idle")
  /\ UNCHANGED <<queue, reset, recalibrate, reset_i, bounds, history>>

(* The controller may fail to ask for the first sector of a write. *)
StartWrite(drq) ==
  /\ pc = "do_hd_request" /\ queue # <<>> /\ ~OutOfRange(Current)
  /\ ~reset /\ ~recalibrate
  /\ Current.cmd = "write"
  /\ HdOut("write", Current.drive)
  /\ SetIntr("write_intr")
  /\ IF drq THEN Goto("idle") ELSE pc' = "bad_rw_intr" /\ ret' = "do_hd_request"
  /\ UNCHANGED <<queue, reset, recalibrate, reset_i, bounds, history>>

DoHdRequest ==
  \/ NothingToDo \/ Refuse \/ StartReset \/ Recalibrate \/ StartRead
  \/ \E drq \in BOOLEAN : StartWrite(drq)

-----------------------------------------------------------------------------
OneMoreError(r) == [r EXCEPT !.errors = @ + 1]

(* bad_rw_intr.  After it has ended a request it looks at the errors of the
   next one - or, if there is none, at whatever is at address 8, which is a
   page-directory entry and large enough to set reset. *)
BadRwIntr ==
  /\ pc = "bad_rw_intr"
  /\ IF queue = <<>>
       THEN /\ wildCurrent' = wildCurrent \cup {"write"}
            /\ pc' = "crashed"
            /\ UNCHANGED <<queue, ended, reset>>
       ELSE LET r == OneMoreError(Current)
            IN  /\ IF r.errors >= MAX_ERRORS
                     THEN EndRequest(r, FALSE)
                     ELSE queue' = <<r>> \o Tail(queue) /\ ended' = ended
                /\ wildCurrent' = wildCurrent \cup IF queue' = <<>> THEN {"read"} ELSE {}
                /\ reset' = (reset \/ queue' = <<>>
                              \/ Head(queue').errors > MAX_ERRORS \div 2)
                /\ pc' = ret
  /\ ret' = ret
  /\ UNCHANGED <<do_hd, hd_timeout, recalibrate, reset_i, controller, bounds, setup>>

WinResult == status = "ready"

Failed_CountsSector(handler, next) ==   \* faulty: counts before it tests
  /\ pc = handler /\ ~WinResult
  /\ queue' = IF handler = "read_intr" /\ Current.done + 1 < SECTORS
                THEN <<[Current EXCEPT !.done = @ + 1]>> \o Tail(queue) ELSE queue
  /\ pc' = "bad_rw_intr" /\ ret' = next
  /\ UNCHANGED <<do_hd, hd_timeout, reset, recalibrate, reset_i, controller, bounds, history>>

Failed(handler, next) ==
  /\ pc = handler /\ ~WinResult
  /\ pc' = "bad_rw_intr" /\ ret' = next
  /\ UNCHANGED <<queue, do_hd, hd_timeout, reset, recalibrate, reset_i, controller, bounds, history>>

(* read_intr and write_intr: a sector has been moved.  Only reads forget the
   errors of the sectors before. *)
SectorDone(r) ==
  [r EXCEPT !.done = @ + 1,
            !.moved = @ \cup {r.done + 1},
            !.errors = IF r.cmd = "read" THEN 0 ELSE @]

Transferred(handler) ==
  /\ pc = handler /\ WinResult
  /\ LET r == SectorDone(Current)
     IN  IF r.done < SECTORS
           THEN /\ queue' = <<r>> \o Tail(queue)
                /\ SetIntr(handler)
                /\ status' = "busy"
                /\ Goto("idle")
                /\ UNCHANGED <<ended>>
           ELSE /\ EndRequest(r, TRUE)
                /\ Goto("do_hd_request")
                /\ UNCHANGED <<do_hd, hd_timeout, status>>
  /\ UNCHANGED <<reset, recalibrate, reset_i, command, irq, bounds, setup, wildCurrent>>

ReadIntr == Failed("read_intr", "do_hd_request") \/ Transferred("read_intr")

WriteIntr == Failed("write_intr", "do_hd_request") \/ Transferred("write_intr")

RecalIntr ==
  \/ Failed("recal_intr", "do_hd_request")
  \/ /\ pc = "recal_intr" /\ WinResult
     /\ Goto("do_hd_request")
     /\ UNCHANGED <<queue, do_hd, hd_timeout, reset, recalibrate, reset_i, controller, bounds, history>>

(* reset_hd: reset the controller, then set up one drive after the other. *)
SetUp(drive) ==
  /\ reset_i' = drive
  /\ IF drive < NR_HD
       THEN /\ command' = [op |-> "specify", drive |-> drive]
            /\ status' = "busy"
            /\ SetIntr("reset_hd")
            /\ setup' = setup \cup {drive}
            /\ Goto("idle")
       ELSE /\ Goto("do_hd_request")
            /\ UNCHANGED <<command, status, do_hd, hd_timeout, setup>>
  /\ irq' \in IF status = "busy" /\ drive < NR_HD THEN {irq, TRUE} ELSE {irq}

ResetController ==
  /\ pc = "reset_hd" /\ reset
  /\ reset' = FALSE
  /\ reset_i' = 0
  /\ command' = [op |-> "specify", drive |-> 0]
  /\ status' = "busy"
  /\ irq' \in {irq, FALSE}
  /\ SetIntr("reset_hd")
  /\ setup' = {0}
  /\ Goto("idle")
  /\ UNCHANGED <<queue, recalibrate, bounds, ended, wildCurrent>>

NextDrive_SkipsFailed ==       \* faulty: the first failure ends the set-up
  /\ \/ pc = "reset_hd" /\ ~reset /\ WinResult /\ SetUp(reset_i + 1)
     \/ pc = "reset_hd_failed" /\ ~reset /\ SetUp(NR_HD)
  /\ UNCHANGED <<queue, reset, recalibrate, bounds, ended, wildCurrent>>

NextDrive ==
  /\ \/ pc = "reset_hd" /\ ~reset /\ WinResult
     \/ pc = "reset_hd_failed" /\ ~reset
  /\ SetUp(reset_i + 1)
  /\ UNCHANGED <<queue, reset, recalibrate, bounds, ended, wildCurrent>>

ResetHd ==
  \/ ResetController
  \/ ~reset /\ Failed("reset_hd", "reset_hd_failed")
  \/ NextDrive
  \/ /\ pc = "reset_hd_failed" /\ reset
     /\ Goto("reset_hd")
     /\ UNCHANGED <<queue, do_hd, hd_timeout, reset, recalibrate, reset_i, controller, bounds, history>>

(* unexpected_hd_interrupt *)
Unexpected ==
  /\ pc = "unexpected"
  /\ reset' = TRUE
  /\ Goto("do_hd_request")
  /\ UNCHANGED <<queue, do_hd, hd_timeout, recalibrate, reset_i, controller, bounds, history>>

Handler == DoHdRequest \/ BadRwIntr \/ ReadIntr \/ WriteIntr \/ RecalIntr \/ ResetHd \/ Unexpected

-----------------------------------------------------------------------------
(* hd_interrupt takes the handler and stops the clock. *)
Interrupt ==
  /\ pc = "idle" /\ irq
  /\ irq' = FALSE
  /\ hd_timeout' = FALSE
  /\ do_hd' = NULL
  /\ Goto(IF do_hd = NULL THEN "unexpected" ELSE do_hd)
  /\ UNCHANGED <<queue, reset, recalibrate, reset_i, command, status, bounds, history>>

(* do_timer has counted hd_timeout down and calls hd_times_out. *)
TimesOut_Forever ==            \* faulty: a timeout is not counted as an error
  /\ pc = "idle" /\ hd_timeout
  /\ IF queue = <<>>
       THEN hd_timeout' = FALSE /\ UNCHANGED <<do_hd, reset, pc, ret>>
       ELSE SetIntr(NULL) /\ reset' = TRUE /\ Goto("do_hd_request")
  /\ UNCHANGED <<queue, ended, recalibrate, reset_i, controller, bounds, setup, wildCurrent>>

TimesOut ==
  /\ pc = "idle" /\ hd_timeout
  /\ IF queue = <<>>
       THEN /\ hd_timeout' = FALSE
            /\ UNCHANGED <<queue, ended, do_hd, reset, pc, ret>>
       ELSE LET r == OneMoreError(Current)
            IN  /\ IF r.errors >= MAX_ERRORS
                     THEN EndRequest(r, FALSE)
                     ELSE queue' = <<r>> \o Tail(queue) /\ ended' = ended
                /\ SetIntr(NULL)
                /\ reset' = TRUE
                /\ Goto("do_hd_request")
  /\ UNCHANGED <<recalibrate, reset_i, controller, bounds, setup, wildCurrent>>

(* add_request; it calls do_hd_request if there was no request. *)
AddRequest(r) ==
  /\ pc = "idle" /\ made < MaxRequests
  /\ made' = made + 1
  /\ queue' = Append(queue, r)
  /\ IF queue = <<>> THEN Goto("do_hd_request") ELSE UNCHANGED <<pc, ret>>
  /\ UNCHANGED <<do_hd, hd_timeout, reset, recalibrate, reset_i, controller, spurious, history>>

(* The controller is done with its command, or with the next sector of it. *)
Answer(st) ==
  /\ pc = "idle" /\ status = "busy"
  /\ status' = st
  /\ irq' = TRUE
  /\ UNCHANGED <<queue, driver, command, bounds, history>>

Spurious ==
  /\ pc = "idle" /\ ~irq /\ spurious < MaxSpurious
  /\ irq' = TRUE
  /\ spurious' = spurious + 1
  /\ UNCHANGED <<queue, driver, command, status, made, history>>

(* A request keeps, as history, which of its sectors have been moved. *)
NewRequests ==
  [cmd : {"read", "write"}, drive : 0..NR_HD - 1, last : LastBlocks,
   done : {0}, errors : {0}, id : {made + 1}, moved : {{}}]

Init ==
  /\ queue = <<>> /\ do_hd = NULL /\ hd_timeout = FALSE
  /\ reset = FALSE /\ recalibrate = FALSE /\ reset_i = 0
  /\ pc = "idle" /\ ret = "idle"
  /\ command = [op |-> "none", drive |-> 0] /\ status = "ready" /\ irq = FALSE
  /\ made = 0 /\ spurious = 0
  /\ ended = {} /\ setup = 0..NR_HD - 1 /\ wildCurrent = {}

Next ==
  \/ Handler
  \/ Interrupt
  \/ TimesOut
  \/ \E r \in NewRequests : AddRequest(r)
  \/ \E st \in {"ready", "error"} : Answer(st)
  \/ Spurious

Spec == Init /\ [][Next]_vars

(* The handlers run, interrupts are taken, and time passes.  The controller
   need not answer. *)
FairSpec ==
  Spec /\ WF_vars(Handler) /\ WF_vars(Interrupt) /\ WF_vars(TimesOut)

-----------------------------------------------------------------------------
(* A request that is ended as done has had each of its sectors moved, with
   errors, resets, timeouts and stray interrupts in between. *)
DoneMeansMoved == \A e \in ended : e.ok => e.req.moved = 1..SECTORS

(* After a reset no data is moved before all drives have been told their
   geometry again, though this takes an interrupt for each and each may fail.
   (Once bad_rw_intr has ended the last request within reset_hd, the reset
   goes on with an empty list, and a new request interrupts it.) *)
SetUpFirst ==
  wildCurrent = {} /\ command.op \in {"read", "write"} /\ status = "busy"
    => setup = 0..NR_HD - 1

(* Every request is ended, although the controller may never answer. *)
AllEnded == <>[](queue = <<>>)

(* INIT_REQUEST (blk.h:153) tests "if (!CURRENT)" before CURRENT is used. *)
CurrentExists == wildCurrent = {}
=============================================================================
