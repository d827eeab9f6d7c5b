----------------------------- MODULE MCAnswers -----------------------------
(***************************************************************************)
(* What must be answered in the end, in one run: the requests of the disk  *)
(* driver; those of the queue, of buffers alone and where tasks swap next  *)
(* to two buffers or one; a parent's wait where a task masks SIGCHLD,      *)
(* where memory is short and two forks find the same slot, and where one   *)
(* waits for a certain child; a writer to a pseudo terminal.  The parts    *)
(* share no state: each behaviour is one of a single part, and the         *)
(* variables of the others are Absent throughout.                          *)
(***************************************************************************)
EXTENDS Integers, Sequences

CONSTANTS Absent,
          MAX_ERRORS, SECTORS, NR_HD, LastBlocks, MaxRequests, MaxSpurious,
          caller, caller2, BufferHeads, Blocks, FewBuffers, FewBlocks, oneBuffer, oneBlock,
          SwapPages, swapPage, NR_REQUEST, Contents, DeviceFails,
          page1, page2, page3, task0, Init1, NR_TASKS, MaxPid, Masking,
          reader, writer, Typed, Written, BufSize, LowWater, MaxCount, MaxTyped

VARIABLES
  part,
  queue, do_hd, hd_timeout, reset, recalibrate, reset_i, pc, ret, command, status,
  irq, made, spurious, ended, setup, wildCurrent,
  request, rqQueue, blocknr, b_lock, b_dirt, b_uptodate, b_data, disk, moved,
  page, written, mapped, rqPc, op,
  task, used, state, pid, last_pid, p_pptr, p_cptr, p_ysptr, p_osptr, sigchld,
  blocked, ptPc, nr, child, wanted, current,
  tty, sending, ttyTask, arrived, overrun

HD == INSTANCE HardDisk
R == INSTANCE RequestQueue WITH
       Callers <- {caller}, SwapPages <- {}, queue <- rqQueue, Nil <- Absent
W == INSTANCE RequestQueue WITH
       Callers <- {caller, caller2}, BufferHeads <- FewBuffers, Blocks <- FewBlocks,
       SwapPages <- {swapPage}, queue <- rqQueue, Nil <- Absent
V == INSTANCE RequestQueue WITH
       Callers <- {caller, caller2}, BufferHeads <- {oneBuffer}, Blocks <- {oneBlock},
       queue <- rqQueue, Nil <- Absent
P == INSTANCE ProcessTree WITH
       TaskPages <- {Init1, page1, page2}, MemoryShort <- FALSE, Masks <- Masking,
       WaitForPid <- FALSE, pc <- ptPc, Idle <- task0, NULL <- Absent
S == INSTANCE ProcessTree WITH
       TaskPages <- {Init1, page1, page2, page3}, MaxPid <- MaxPid + 1, MemoryShort <- TRUE,
       Masks <- Masking, WaitForPid <- FALSE, pc <- ptPc, Idle <- task0, NULL <- Absent
Q == INSTANCE ProcessTree WITH
       TaskPages <- {Init1, page1, page2}, MemoryShort <- FALSE, Masks <- {}, WaitForPid <- TRUE,
       pc <- ptPc, Idle <- task0, NULL <- Absent
Y == INSTANCE Tty WITH
       Readers <- {reader}, Writers <- {writer}, task <- ttyTask, Pty <- TRUE, Group <- {reader},
       Canon <- TRUE, Echo <- FALSE, VMIN <- 1, Startup <- 1

ASSUME HD!HardDiskAssumption /\ R!RequestQueueAssumption /\ W!RequestQueueAssumption
ASSUME V!RequestQueueAssumption
ASSUME P!ProcessTreeAssumption /\ S!ProcessTreeAssumption /\ Q!ProcessTreeAssumption /\ Y!TtyAssumption

hdVars ==
  <<queue, do_hd, hd_timeout, reset, recalibrate, reset_i, pc, ret, command,
    status, irq, made, spurious, ended, setup, wildCurrent>>
requestVars ==
  <<request, rqQueue, blocknr, b_lock, b_dirt, b_uptodate, b_data, disk,
    moved, page, written, mapped, rqPc, op>>
taskVars ==
  <<task, used, state, pid, last_pid, p_pptr, p_cptr, p_ysptr, p_osptr,
    sigchld, blocked, ptPc, nr, child, wanted, current>>
ttyVars ==
  <<tty, sending, ttyTask, arrived, overrun>>
vars == <<part, hdVars, requestVars, taskVars, ttyVars>>

NoDisk ==
  /\ queue = Absent /\ do_hd = Absent /\ hd_timeout = Absent /\ reset = Absent
  /\ recalibrate = Absent /\ reset_i = Absent /\ pc = Absent /\ ret = Absent
  /\ command = Absent /\ status = Absent /\ irq = Absent /\ made = Absent
  /\ spurious = Absent /\ ended = Absent /\ setup = Absent /\ wildCurrent = Absent

NoRequests ==
  /\ request = Absent /\ rqQueue = Absent /\ blocknr = Absent /\ b_lock = Absent
  /\ b_dirt = Absent /\ b_uptodate = Absent /\ b_data = Absent /\ disk = Absent
  /\ moved = Absent /\ page = Absent /\ written = Absent /\ mapped = Absent
  /\ rqPc = Absent /\ op = Absent

NoTasks ==
  /\ task = Absent /\ used = Absent /\ state = Absent /\ pid = Absent
  /\ last_pid = Absent /\ p_pptr = Absent /\ p_cptr = Absent /\ p_ysptr = Absent
  /\ p_osptr = Absent /\ sigchld = Absent /\ blocked = Absent /\ ptPc = Absent
  /\ nr = Absent /\ child = Absent /\ wanted = Absent /\ current = Absent

NoTty ==
  /\ tty = Absent /\ sending = Absent /\ ttyTask = Absent /\ arrived = Absent
  /\ overrun = Absent

(* Which buffer has which block makes no difference to when a request is
   served: one of the initial states is enough. *)
Buffered(heads, nrs) ==
  blocknr = CHOOSE f \in [heads -> nrs] : \A b, c \in heads : f[b] = f[c] => b = c

Init ==
  \/ part = "disk" /\ HD!Init /\ NoRequests /\ NoTasks /\ NoTty
  \/ part = "requests" /\ R!QueueInit /\ Buffered(BufferHeads, Blocks) /\ NoDisk /\ NoTasks /\ NoTty
  \/ part = "swaps" /\ W!QueueInit /\ Buffered(FewBuffers, FewBlocks) /\ NoDisk /\ NoTasks /\ NoTty
  \/ part = "paging" /\ V!QueueInit /\ NoDisk /\ NoTasks /\ NoTty
  \/ part = "masks" /\ P!TreeInit /\ NoDisk /\ NoRequests /\ NoTty
  \/ part = "short" /\ S!TreeInit /\ NoDisk /\ NoRequests /\ NoTty
  \/ part = "waitpid" /\ Q!TreeInit /\ NoDisk /\ NoRequests /\ NoTty
  \/ part = "pty" /\ Y!Init /\ NoDisk /\ NoRequests /\ NoTasks

Only(p) == part = p /\ part' = p
HDStep(A) == Only("disk") /\ A /\ UNCHANGED <<requestVars, taskVars, ttyVars>>
RStep(A) == Only("requests") /\ A /\ UNCHANGED <<hdVars, taskVars, ttyVars>>
WStep(A) == Only("swaps") /\ A /\ UNCHANGED <<hdVars, taskVars, ttyVars>>
VStep(A) == Only("paging") /\ A /\ UNCHANGED <<hdVars, taskVars, ttyVars>>
PStep(A) == Only("masks") /\ A /\ UNCHANGED <<hdVars, requestVars, ttyVars>>
SStep(A) == Only("short") /\ A /\ UNCHANGED <<hdVars, requestVars, ttyVars>>
QStep(A) == Only("waitpid") /\ A /\ UNCHANGED <<hdVars, requestVars, ttyVars>>
YStep(A) == Only("pty") /\ A /\ UNCHANGED <<hdVars, requestVars, taskVars>>

(* While memory is short pids are not used again. Free pages are alike: a fork
   gets the first one. *)
NoReuse == last_pid' >= last_pid
Pages == <<Init1, page1, page2, page3>>
InTurn ==
  \A i, j \in DOMAIN Pages : i < j /\ Pages[j] \in used' \ used => Pages[i] \in used

Next ==
  \/ HDStep(HD!Next)
  \/ RStep(R!QueueNext)
  \/ WStep(W!QueueNext)
  \/ VStep(V!QueueNext)
  \/ PStep(P!TreeNext)
  \/ SStep(S!TreeNext /\ NoReuse /\ InTurn)
  \/ QStep(Q!TreeNext)
  \/ YStep(Y!Next)

(* The fairness of HardDisk, RequestQueue, ProcessTree and Tty.  As the steps
   of one part only are ever possible, fairness to a step of each part is
   fairness to each of these steps. *)
ShortStepOf(p) == SStep(S!InKernel(p) /\ NoReuse /\ InTurn)
StepOf(p) ==
  PStep(P!InKernel(p)) \/ QStep(Q!InKernel(p)) \/ ShortStepOf(p)

Fairness ==
  /\ WF_vars(HDStep(HD!Handler) \/ RStep(R!Transfer) \/ WStep(W!Transfer) \/ VStep(V!Transfer)
              \/ YStep(Y!WriteChar))
  /\ WF_vars(HDStep(HD!Interrupt) \/ RStep(R!EndRequest(TRUE))
              \/ WStep(W!EndRequest(TRUE)) \/ VStep(V!EndRequest(TRUE)) \/ YStep(Y!TaskStep(reader)))
  /\ WF_vars(HDStep(HD!TimesOut) \/ YStep(Y!TaskStep(writer)))
  /\ WF_vars(YStep(Y!Call(reader, MaxCount)))
  /\ SF_vars(RStep(R!GoOn(caller)) \/ WStep(W!GoOn(caller)) \/ VStep(V!GoOn(caller))
              \/ StepOf(Init1))
  /\ SF_vars(WStep(W!GoOn(caller2)) \/ VStep(V!GoOn(caller2)) \/ StepOf(page1))
  /\ SF_vars(StepOf(page2))
  /\ SF_vars(ShortStepOf(page3))

Spec == Init /\ [][Next]_vars /\ Fairness

AllEnded == <>[](part = "disk" => queue = <<>>)
RequestsAreServed ==
  \A k \in 1..NR_REQUEST :
    []<>(/\ part = "requests" => request[k] = R!Free
         /\ part = "swaps" => request[k] = W!Free \/ W!HeldUp(k)
         /\ part = "paging" => request[k] = V!Free \/ V!HeldUp(k))
WaitReturns ==
  []<>(/\ part = "masks" => \A p \in {Init1, page1, page2} : ~P!WaitsInVain(p)
       /\ part = "short" => \A p \in {Init1, page1, page2, page3} : ~S!WaitsInVain(p)
       /\ part = "waitpid" => \A p \in {Init1, page1, page2} : ~Q!WaitsInVain(p))
WritersReturn == []<>(part = "pty" => Y!Returns(writer))
=============================================================================
