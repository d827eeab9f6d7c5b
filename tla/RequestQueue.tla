---------------------------- MODULE RequestQueue ----------------------------
(***************************************************************************)
(* The request queue of a block device: kernel/blk_drv/ll_rw_blk.c and the *)
(* end_request of blk.h.                                                   *)
(*                                                                         *)
(* Callers put requests into a fixed table of slots and link them into the *)
(* device's list with the elevator of add_request; the device works on the *)
(* first request of the list (CURRENT) and its interrupt handler ends it.  *)
(* A buffer is locked from lock_buffer in make_request until end_request.  *)
(* A swap request has no buffer (bh == Nil); its task sleeps until it is   *)
(* ended.                                                                  *)
(*                                                                         *)
(* Sleeping on b_wait and on wait_for_request is modelled as waiting until *)
(* the condition holds: module WaitQueue is about the queues themselves.   *)
(* The list is a sequence of slot numbers, the content of a block, buffer  *)
(* or page is a small number.                                              *)
(***************************************************************************)
EXTENDS Integers, Sequences, FiniteSetsExt, SequencesExt

CONSTANTS
  Callers,      \* the tasks that call ll_rw_block and ll_rw_page
  BufferHeads,
  Blocks,       \* sectors of the blocks of the file system, numbers
  SwapPages,    \* sectors of the pages of the swap device, numbers
  NR_REQUEST,   \* number of slots
  Nil,
  Contents,     \* 0..n-1: what a block or page can hold
  DeviceFails   \* can the device fail?

RequestQueueAssumption ==
  /\ NR_REQUEST \in Nat \ {0}
  /\ Blocks \cap SwapPages = {}
  /\ Blocks \cup SwapPages \subseteq Nat
  /\ Nil \notin BufferHeads \cup Callers
  /\ Cardinality(BufferHeads) <= Cardinality(Blocks)
  /\ DeviceFails \in BOOLEAN

READ  == 0
WRITE == 1

Slots == 1..NR_REQUEST
Free  == [dev |-> -1]       \* request[i].dev < 0

VARIABLES
  request,    \* the table of slots
  queue,      \* current_request and what follows it
  blocknr,    \* b_blocknr: the block a buffer belongs to
  b_lock, b_dirt, b_uptodate,
  b_data,     \* what the buffer holds
  disk,       \* what the blocks and pages on the device hold
  moved,      \* what the device has moved for CURRENT, Nil before that
  page,       \* what the frames of the swapped pages hold
  written,    \* history: what the processes wrote to their swapped pages
  mapped,     \* page-table entry: "present", "out" (on the swap device) or
              \* "coming" (swap_in waits for it)
  rqPc, op    \* where a task is in ll_rw_block or ll_rw_page, and its arguments

bufferVars == <<blocknr, b_lock, b_dirt, b_uptodate, b_data>>
ioVars == <<disk, moved, page, written, mapped>>
queueVars == <<request, queue, bufferVars, ioVars, rqPc, op>>

-----------------------------------------------------------------------------
(* IN_ORDER of blk.h: reads go before writes. All requests are for one
   device here. *)
InOrder(r, s) ==
  r.cmd < s.cmd \/ (r.cmd = s.cmd /\ r.sector < s.sector)

(* Does add_request insert req between two requests of the list? *)
FitsBetween_NoWrap(req, r, s) ==       \* faulty: only looks at what follows
  IF req.bh = Nil THEN s.bh # Nil ELSE InOrder(req, s)

FitsBetween(req, r, s) ==
  IF req.bh = Nil
    THEN s.bh # Nil
    ELSE (InOrder(r, req) \/ ~InOrder(r, s)) /\ InOrder(req, s)

(* The list after add_request(req) has linked slot i: never before CURRENT,
   at the first place where it fits, else at the end. *)
Insert(q, i, req) ==
  LET n == Len(q)
      fits == {k \in 1..n : k = n \/ FitsBetween(req, request[q[k]], request[q[k + 1]])}
  IN  IF n = 0 THEN <<i>> ELSE InsertAt(q, Min(fits) + 1, i)

(* Writes of buffers only get the first two thirds of the slots. *)
FreeSlots(rw, bh) ==
  {i \in Slots : /\ request[i] = Free
                 /\ bh = Nil \/ rw = READ \/ i <= (NR_REQUEST * 2) \div 3}

(* Fill the last free slot and add it to the list.  b_dirt is reset here,
   before the transfer, so that what is written to the buffer meanwhile
   makes it dirty again. *)
AddRequest(i, req) ==
  /\ request' = [request EXCEPT ![i] = req]
  /\ queue' = Insert(queue, i, req)
  /\ b_dirt' = IF req.bh = Nil THEN b_dirt ELSE [b_dirt EXCEPT ![req.bh] = FALSE]

BufferRequest(rw, b) ==
  [dev |-> 1, cmd |-> rw, sector |-> blocknr[b], bh |-> b, waiting |-> Nil]

(* A swap request names the page frame, whose content does not change while
   the request is pending: nobody has it mapped. *)
SwapRequest(rw, p, t) ==
  [dev |-> 1, cmd |-> rw, sector |-> p, bh |-> Nil, waiting |-> t, frame |-> page[p]]

Returns(t) == rqPc' = [rqPc EXCEPT ![t] = "out"] /\ op' = [op EXCEPT ![t] = Nil]

(* make_request from "repeat:" on, with b locked: take a slot, or wait for
   one, or give up a read-ahead or write-ahead. *)
TakeSlot(t, rw, b, ahead, lock) ==
  LET free == FreeSlots(rw, b)
  IN  \/ /\ free # {}
         /\ AddRequest(Max(free), BufferRequest(rw, b))
         /\ b_lock' = lock
         /\ Returns(t)
      \/ /\ free = {} /\ ahead
         /\ b_lock' = [lock EXCEPT ![b] = FALSE]
         /\ Returns(t)
         /\ UNCHANGED <<request, queue, b_dirt>>
      \/ /\ free = {} /\ ~ahead
         /\ b_lock' = lock
         /\ rqPc' = [rqPc EXCEPT ![t] = "slot"]
         /\ op' = [op EXCEPT ![t] = [rw |-> rw, b |-> b]]
         /\ UNCHANGED <<request, queue, b_dirt>>

(* lock_buffer has just succeeded: nothing to do if somebody else did it. *)
Locked(t, rw, b, ahead) ==
  /\ ~b_lock[b]
  /\ IF (rw = WRITE /\ ~b_dirt[b]) \/ (rw = READ /\ b_uptodate[b])
       THEN Returns(t) /\ UNCHANGED <<request, queue, b_lock, b_dirt>>
       ELSE TakeSlot(t, rw, b, ahead, [b_lock EXCEPT ![b] = TRUE])

(* ll_rw_block(rw, b), ahead for READA and WRITEA, up to its first sleep. *)
LlRwBlock(t, rw, b, ahead) ==
  /\ rqPc[t] = "out"
  /\ \/ Locked(t, rw, b, ahead)
     \/ /\ b_lock[b] /\ ~ahead
        /\ rqPc' = [rqPc EXCEPT ![t] = "lock"]
        /\ op' = [op EXCEPT ![t] = [rw |-> rw, b |-> b]]
        /\ UNCHANGED <<request, queue, b_lock, b_dirt>>
  /\ UNCHANGED <<blocknr, b_uptodate, b_data, ioVars>>

(* sleep_on(&bh->b_wait) returns and the buffer is not locked any more. *)
GetLock(t) ==
  /\ rqPc[t] = "lock"
  /\ Locked(t, op[t].rw, op[t].b, FALSE)
  /\ UNCHANGED <<blocknr, b_uptodate, b_data, ioVars>>

(* sleep_on(&wait_for_request) returns in make_request. *)
GetSlot(t) ==
  /\ rqPc[t] = "slot"
  /\ FreeSlots(op[t].rw, op[t].b) # {}
  /\ TakeSlot(t, op[t].rw, op[t].b, FALSE, b_lock)
  /\ UNCHANGED <<blocknr, b_uptodate, b_data, ioVars>>

(* ll_rw_page: the task sleeps until a slot is free, then until its request
   has been ended.  The page-table entry changes before a swap-out is
   queued and after a swap-in has been done (swap.c). *)
TakePageSlot(t, rw, p) ==
  LET free == FreeSlots(rw, Nil)
  IN  \/ /\ free # {}
         /\ AddRequest(Max(free), SwapRequest(rw, p, t))
         /\ rqPc' = [rqPc EXCEPT ![t] = "io"]
      \/ /\ free = {}
         /\ rqPc' = [rqPc EXCEPT ![t] = "pageslot"]
         /\ UNCHANGED <<request, queue, b_dirt>>

LlRwPage(t, rw, p) ==
  /\ rqPc[t] = "out"
  /\ mapped[p] = IF rw = WRITE THEN "present" ELSE "out"
  /\ mapped' = [mapped EXCEPT ![p] = IF rw = WRITE THEN "out" ELSE "coming"]
  /\ op' = [op EXCEPT ![t] = [rw |-> rw, p |-> p]]
  /\ TakePageSlot(t, rw, p)
  /\ UNCHANGED <<blocknr, b_lock, b_uptodate, b_data, disk, moved, page, written>>

GetPageSlot(t) ==
  /\ rqPc[t] = "pageslot"
  /\ FreeSlots(op[t].rw, Nil) # {}
  /\ TakePageSlot(t, op[t].rw, op[t].p)
  /\ UNCHANGED <<blocknr, b_lock, b_uptodate, b_data, ioVars, op>>

-----------------------------------------------------------------------------
Current == request[Head(queue)]

(* The driver moves the sectors of CURRENT between the device and memory. *)
Transfer ==
  /\ queue # <<>>
  /\ moved = Nil
  /\ moved' = IF Current.cmd = READ THEN disk[Current.sector]
              ELSE IF Current.bh = Nil THEN Current.frame
              ELSE b_data[Current.bh]
  /\ IF Current.cmd = READ
       THEN /\ b_data' = [b \in BufferHeads |-> IF b = Current.bh THEN moved' ELSE b_data[b]]
            /\ page' = [p \in SwapPages |->
                          IF Current.bh = Nil /\ p = Current.sector THEN moved' ELSE page[p]]
            /\ disk' = disk
       ELSE /\ disk' = [disk EXCEPT ![Current.sector] = moved']
            /\ UNCHANGED <<b_data, page>>
  /\ UNCHANGED <<request, queue, blocknr, b_lock, b_dirt, b_uptodate, written, mapped, rqPc, op>>

(* end_request(ok): the handler of a later interrupt has seen that CURRENT is
   done, or given it up, with or without having moved something. *)
EndRequest_CleansBuffer(ok) ==         \* faulty: resets b_dirt here as well
  /\ queue # <<>>
  /\ ok => moved # Nil
  /\ moved' = Nil
  /\ queue' = Tail(queue)
  /\ request' = [request EXCEPT ![Head(queue)] = Free]
  /\ b_uptodate' = [b \in BufferHeads |-> IF b = Current.bh THEN ok ELSE b_uptodate[b]]
  /\ b_dirt' = [b \in BufferHeads |-> b # Current.bh /\ b_dirt[b]]
  /\ b_lock' = [b \in BufferHeads |-> b # Current.bh /\ b_lock[b]]
  /\ rqPc' = [t \in Callers |-> IF t = Current.waiting THEN "out" ELSE rqPc[t]]
  /\ op' = [t \in Callers |-> IF t = Current.waiting THEN Nil ELSE op[t]]
  /\ mapped' = [p \in SwapPages |->
                  IF Current.bh = Nil /\ Current.cmd = READ /\ p = Current.sector
                    THEN "present" ELSE mapped[p]]
  /\ UNCHANGED <<blocknr, b_data, disk, page, written>>

EndRequest(ok) ==
  /\ queue # <<>>
  /\ ok => moved # Nil
  /\ moved' = Nil
  /\ queue' = Tail(queue)
  /\ request' = [request EXCEPT ![Head(queue)] = Free]
  /\ b_uptodate' = [b \in BufferHeads |-> IF b = Current.bh THEN ok ELSE b_uptodate[b]]
  /\ b_lock' = [b \in BufferHeads |-> b # Current.bh /\ b_lock[b]]
  /\ rqPc' = [t \in Callers |-> IF t = Current.waiting THEN "out" ELSE rqPc[t]]
  /\ op' = [t \in Callers |-> IF t = Current.waiting THEN Nil ELSE op[t]]
  /\ mapped' = [p \in SwapPages |->
                  IF Current.bh = Nil /\ Current.cmd = READ /\ p = Current.sector
                    THEN "present" ELSE mapped[p]]
  /\ UNCHANGED <<blocknr, b_dirt, b_data, disk, page, written>>

-----------------------------------------------------------------------------
(* What the users of the buffers and pages do meanwhile.  A task that holds
   a buffer writes to it without locking it, even during a transfer. *)
Other(c) == (c + 1) % Cardinality(Contents)

ModifyBuffer(b) ==
  /\ b_uptodate[b]
  /\ b_data' = [b_data EXCEPT ![b] = Other(@)]
  /\ b_dirt' = [b_dirt EXCEPT ![b] = TRUE]
  /\ UNCHANGED <<request, queue, blocknr, b_lock, b_uptodate, ioVars, rqPc, op>>

(* getblk gives a clean, unlocked buffer that nobody counts on to another
   block that has no buffer. *)
Reuse(b, nr) ==
  /\ ~b_lock[b] /\ ~b_dirt[b]
  /\ \A t \in Callers : rqPc[t] = "lock" /\ op[t].b = b => op[t].rw = WRITE
  /\ \A c \in BufferHeads : blocknr[c] # nr
  /\ blocknr' = [blocknr EXCEPT ![b] = nr]
  /\ b_uptodate' = [b_uptodate EXCEPT ![b] = FALSE]
  /\ UNCHANGED <<request, queue, b_lock, b_dirt, b_data, ioVars, rqPc, op>>

WritePage(p) ==
  /\ mapped[p] = "present"
  /\ page' = [page EXCEPT ![p] = Other(@)]
  /\ written' = [written EXCEPT ![p] = page'[p]]
  /\ UNCHANGED <<request, queue, bufferVars, disk, moved, mapped, rqPc, op>>

QueueInit ==
  /\ request = [i \in Slots |-> Free]
  /\ queue = <<>>
  /\ blocknr \in {f \in [BufferHeads -> Blocks] : IsInjective(f)}
  /\ b_lock = [b \in BufferHeads |-> FALSE]
  /\ b_dirt = [b \in BufferHeads |-> FALSE]
  /\ b_uptodate = [b \in BufferHeads |-> FALSE]
  /\ b_data = [b \in BufferHeads |-> 0]
  /\ disk = [s \in Blocks \cup SwapPages |-> 0]
  /\ moved = Nil
  /\ page = [p \in SwapPages |-> 0]
  /\ written = page
  /\ mapped = [p \in SwapPages |-> "present"]
  /\ rqPc = [t \in Callers |-> "out"]
  /\ op = [t \in Callers |-> Nil]

(* A sleeper goes on; which of the three it is depends on where it sleeps. *)
GoOn(t) == GetLock(t) \/ GetSlot(t) \/ GetPageSlot(t)

CallerStep(t) ==
  \/ \E rw \in {READ, WRITE}, b \in BufferHeads, ahead \in BOOLEAN : LlRwBlock(t, rw, b, ahead)
  \/ \E rw \in {READ, WRITE}, p \in SwapPages : LlRwPage(t, rw, p)
  \/ GoOn(t)

QueueNext ==
  \/ \E t \in Callers : CallerStep(t)
  \/ Transfer
  \/ EndRequest(TRUE)
  \/ DeviceFails /\ EndRequest(FALSE)
  \/ \E b \in BufferHeads : ModifyBuffer(b) \/ \E nr \in Blocks : Reuse(b, nr)
  \/ \E p \in SwapPages : WritePage(p)

QueueSpec == QueueInit /\ [][QueueNext]_queueVars

(* The device answers or the driver gives up (hd_times_out). *)
DeviceFairness == WF_queueVars(Transfer) /\ WF_queueVars(EndRequest(TRUE))

(* The scheduler and the wait queues are fair to the sleepers. *)
QueueFairness ==
  /\ DeviceFairness
  /\ \A t \in Callers : SF_queueVars(GoOn(t))

FairQueueSpec == QueueSpec /\ QueueFairness

-----------------------------------------------------------------------------
Busy == {i \in Slots : request[i] # Free}

(* No modification is lost: a buffer that is up to date, not dirty and not
   being written is what the disk holds, however the writes to the buffer
   and to the disk overlap. *)
NoLostModification ==
  \A b \in BufferHeads :
    b_uptodate[b] /\ ~b_dirt[b] /\ (\A i \in Busy : request[i].bh # b)
      => b_data[b] = disk[blocknr[b]]

(* add_request puts a swap request before the first request of a buffer behind
   CURRENT. Tasks that swap without an end so hold this one up for ever, one
   task too if buffers keep being asked for: a swap request divides the order
   of the elevator, and what comes next is again inserted before the rest. *)
HeldUp(i) ==
  /\ request[i].bh # Nil
  /\ \E m, n \in DOMAIN queue : m < n /\ queue[n] = i /\ request[queue[m]].bh = Nil

(* Every swap request is served, and the elevator does not starve the request
   of a buffer, although new requests are inserted before it and reads go
   before writes: it is served, unless again and again a swap request is
   ahead of it (add_request). *)
RequestsAreServed == \A i \in Slots : []<>(request[i] = Free \/ HeldUp(i))

(* ll_rw_blk.c:75, "swapping requests always go before other requests, and
   are done in the order they appear": what a process finds in a page that
   was swapped in is what it wrote there before it was swapped out. *)
SwapInOrder == \A p \in SwapPages : mapped[p] = "present" => page[p] = written[p]

=============================================================================
