---------------------------- MODULE DeviceProofs ----------------------------
(***************************************************************************)
(* Proofs about the devices of MCDevices, for any values of the constants: *)
(* the disk driver does what it says it did, and not before all drives     *)
(* have been set up; the console's cursor stays where it is shown, and     *)
(* what is shown is a screen that scrolls; what is read from a pipe is     *)
(* what was written to it; no timer is late that nobody held up; and the   *)
(* floppy driver goes on while it has requests, and starts a transfer when *)
(* motor and drive are ready.                                              *)
(***************************************************************************)
EXTENDS HardDisk, Console, Pipe, Timers, Floppy, FiniteSetTheorems, WellFoundedInduction, SequenceTheorems, TLAPS

(* The hard disk. *)

(* A request that is not ended: so many of its sectors are done, and these
   have been moved. *)
Requests ==
  {r \in [cmd : {"read", "write"}, drive : 0..NR_HD - 1, last : BOOLEAN,
          done : 0..SECTORS - 1, errors : Nat, id : Nat, moved : SUBSET Nat] :
     r.moved = 1..r.done}

Handlers == {"read_intr", "write_intr", "recal_intr", "reset_hd"}
Labels == Handlers \cup {"idle", "do_hd_request", "bad_rw_intr", "reset_hd_failed", "unexpected", "crashed"}

DiskTypeOK ==
  /\ queue \in Seq(Requests)
  /\ do_hd \in Handlers \cup {NULL} /\ hd_timeout \in BOOLEAN
  /\ reset \in BOOLEAN /\ recalibrate \in BOOLEAN /\ reset_i \in Nat
  /\ pc \in Labels /\ (pc = "bad_rw_intr" => ret \in {"do_hd_request", "reset_hd_failed"})
  /\ command \in [op : {"none", "read", "write", "restore", "specify"}, drive : Nat]
  /\ status \in {"busy", "ready", "error"} /\ irq \in BOOLEAN
  /\ made \in Nat /\ spurious \in Nat
  /\ wildCurrent \subseteq {"read", "write"}

(* The function that runs, or is going to when the interrupt comes. *)
Coming == IF pc = "idle" THEN do_hd ELSE pc

(* read_intr and write_intr have a request to work on, and no reset is to be
   done before. *)
TransfersAreReady == Coming \in {"read_intr", "write_intr"} => queue # <<>> /\ ~reset

(* reset_hd is setting the drives up. *)
SettingUp ==
  \/ Coming \in {"reset_hd", "reset_hd_failed"}
  \/ pc = "bad_rw_intr" /\ ret = "reset_hd_failed"

(* Without a reset to do, those drives have been set up that reset_hd has come
   to, and all when it is over. It goes on for a request. *)
SetUpSoFar ==
  wildCurrent = {} =>
    /\ SettingUp => queue # <<>>
    /\ ~reset => IF SettingUp THEN reset_i < NR_HD /\ setup = 0..reset_i ELSE setup = 0..NR_HD - 1

IInv == DiskTypeOK /\ TransfersAreReady /\ SetUpSoFar /\ DoneMeansMoved /\ SetUpFirst

-----------------------------------------------------------------------------
(* What the steps do to the list. *)
LEMMA QueueFacts ==
  ASSUME DiskTypeOK, queue # <<>>
  PROVE  /\ Current \in Requests
         /\ Tail(queue) \in Seq(Requests)
         /\ \A r \in Requests :
              /\ <<r>> \o Tail(queue) \in Seq(Requests)
              /\ <<r>> \o Tail(queue) # <<>>
  BY DEF DiskTypeOK, Current

LEMMA RequestFacts ==
  ASSUME HardDiskAssumption, NEW r \in Requests
  PROVE  /\ OneMoreError(r) \in Requests /\ OneMoreError(r).drive = r.drive
         /\ r.drive \in Nat
         /\ SectorDone(r).done < SECTORS => SectorDone(r) \in Requests
         /\ ~(SectorDone(r).done < SECTORS) => SectorDone(r).moved = 1..SECTORS
  <1> DEFINE R == [cmd : {"read", "write"}, drive : 0..NR_HD - 1, last : BOOLEAN,
                   done : 0..SECTORS - 1, errors : Nat, id : Nat, moved : SUBSET Nat]
  <1>0. r \in R
    BY DEF Requests
  <1>1. /\ r.cmd \in {"read", "write"} /\ r.drive \in 0..NR_HD - 1 /\ r.last \in BOOLEAN
        /\ r.done \in 0..SECTORS - 1 /\ r.errors \in Nat /\ r.id \in Nat
        /\ r.moved \in SUBSET Nat /\ r.moved = 1..r.done
        /\ NR_HD \in Nat /\ SECTORS \in Nat
    BY DEF Requests, HardDiskAssumption
  <1>2. OneMoreError(r) \in Requests /\ OneMoreError(r).drive = r.drive
    BY <1>1 DEF OneMoreError, Requests
  <1> DEFINE e == IF r.cmd = "read" THEN 0 ELSE r.errors
             m == r.moved \cup {r.done + 1}
             d == [r EXCEPT !.done = @ + 1, !.moved = m, !.errors = e]
  <1>3. e \in Nat /\ m \in SUBSET Nat /\ m = 1..r.done + 1
    BY <1>1
  <1>4. SectorDone(r) = d /\ d.done = r.done + 1 /\ d.moved = 1..d.done
    <2>1. SectorDone(r) = d
      BY DEF SectorDone
    <2> HIDE DEF e, m
    <2> QED BY <1>1, <1>3, <2>1 DEF Requests
  <1>5. ASSUME r.done + 1 < SECTORS PROVE d \in Requests
    <2> HIDE DEF e, m
    <2>1. r.done + 1 \in 0..SECTORS - 1
      BY <1>1, <1>5
    <2>2. d \in R
      BY <1>0, <1>3, <2>1
    <2> HIDE DEF d
    <2> QED BY <1>4, <2>2 DEF Requests
  <1>6. r.drive \in Nat
    BY <1>1
  <1>7. ~(r.done + 1 < SECTORS) => r.done + 1 = SECTORS
    BY <1>1
  <1> HIDE DEF d, R
  <1>8. SectorDone(r).done < SECTORS => SectorDone(r) \in Requests
    BY <1>4, <1>5
  <1>9. ~(SectorDone(r).done < SECTORS) => SectorDone(r).moved = 1..SECTORS
    BY <1>4, <1>7
  <1> QED BY <1>2, <1>6, <1>8, <1>9

LEMMA InitIInv == HardDiskAssumption /\ Init => IInv
  <1> SUFFICES ASSUME HardDiskAssumption, Init PROVE IInv
    OBVIOUS
  <1>1. DiskTypeOK
    <2>1. queue \in Seq(Requests)
      BY DEF Init
    <2>2. command \in [op : {"none", "read", "write", "restore", "specify"}, drive : Nat]
      BY DEF Init
    <2> QED BY <2>1, <2>2 DEF Init, DiskTypeOK, Handlers, Labels, NULL
  <1>2. TransfersAreReady /\ SetUpSoFar
    BY DEF Init, TransfersAreReady, SetUpSoFar, SettingUp, Coming, NULL
  <1>3. DoneMeansMoved /\ SetUpFirst
    BY DEF Init, DoneMeansMoved, SetUpFirst
  <1> QED BY <1>1, <1>2, <1>3 DEF IInv

(* do_hd_request: it starts what CURRENT asks for, after a reset or a seek if
   one is due. *)
LEMMA NothingToDoStep ==
  ASSUME HardDiskAssumption, IInv, NothingToDo PROVE IInv'
  <1>1. DiskTypeOK'
    BY DEF IInv, DiskTypeOK, NothingToDo, Goto, Labels, bounds, controller, history
  <1>2. TransfersAreReady'
    BY DEF TransfersAreReady, Coming, NothingToDo, Goto, NULL
  <1>3. SetUpSoFar'
    BY DEF IInv, SetUpSoFar, SettingUp, Coming, NothingToDo, Goto, NULL, history
  <1>4. DoneMeansMoved' /\ SetUpFirst'
    BY DEF IInv, DoneMeansMoved, SetUpFirst, NothingToDo, Goto, controller, history
  <1> QED BY <1>1, <1>2, <1>3, <1>4 DEF IInv

LEMMA RefuseStep ==
  ASSUME HardDiskAssumption, IInv, Refuse PROVE IInv'
  <1>1. DiskTypeOK'
    BY QueueFacts DEF IInv, DiskTypeOK, Refuse, EndRequest, driver, bounds, controller
  <1>2. TransfersAreReady'
    BY DEF TransfersAreReady, Coming, Refuse, EndRequest, driver
  <1>3. SetUpSoFar'
    BY DEF IInv, SetUpSoFar, SettingUp, Coming, Refuse, EndRequest, driver
  <1>4. DoneMeansMoved' /\ SetUpFirst'
    BY DEF IInv, DoneMeansMoved, SetUpFirst, Refuse, EndRequest, controller
  <1> QED BY <1>1, <1>2, <1>3, <1>4 DEF IInv

LEMMA StartResetStep ==
  ASSUME HardDiskAssumption, IInv, StartReset PROVE IInv'
  <1>1. DiskTypeOK'
    BY DEF IInv, DiskTypeOK, StartReset, Goto, Labels, Handlers, bounds, controller, history
  <1>2. TransfersAreReady'
    BY DEF TransfersAreReady, Coming, StartReset, Goto
  <1>3. SetUpSoFar'
    BY DEF IInv, SetUpSoFar, SettingUp, Coming, StartReset, Goto, history
  <1>4. DoneMeansMoved' /\ SetUpFirst'
    BY DEF IInv, DoneMeansMoved, SetUpFirst, StartReset, controller, history
  <1> QED BY <1>1, <1>2, <1>3, <1>4 DEF IInv

LEMMA RecalibrateStep ==
  ASSUME HardDiskAssumption, IInv, Recalibrate PROVE IInv'
  <1>1. DiskTypeOK'
    BY QueueFacts, RequestFacts DEF IInv, DiskTypeOK, Recalibrate, HdOut, SetIntr, Goto, Labels, Handlers, bounds, controller, history, driver
  <1>2. TransfersAreReady'
    BY DEF IInv, TransfersAreReady, Coming, Recalibrate, HdOut, SetIntr, Goto, NULL, driver
  <1>3. SetUpSoFar'
    BY DEF IInv, SetUpSoFar, SettingUp, Coming, Recalibrate, HdOut, SetIntr, Goto, NULL, history, driver
  <1>4. DoneMeansMoved' /\ SetUpFirst'
    BY DEF IInv, DoneMeansMoved, SetUpFirst, Recalibrate, HdOut, SetIntr, Goto, controller, history
  <1> QED BY <1>1, <1>2, <1>3, <1>4 DEF IInv

LEMMA StartReadStep ==
  ASSUME HardDiskAssumption, IInv, StartRead PROVE IInv'
  <1>1. DiskTypeOK'
    BY QueueFacts, RequestFacts DEF IInv, DiskTypeOK, StartRead, HdOut, SetIntr, Goto, Labels, Handlers, bounds, controller, history, driver
  <1>2. TransfersAreReady'
    BY DEF IInv, TransfersAreReady, Coming, StartRead, HdOut, SetIntr, Goto, NULL, driver
  <1>3. SetUpSoFar'
    BY DEF IInv, SetUpSoFar, SettingUp, Coming, StartRead, HdOut, SetIntr, Goto, NULL, history, driver
  <1>4. DoneMeansMoved' /\ SetUpFirst'
    BY DEF IInv, DoneMeansMoved, SetUpFirst, SetUpSoFar, SettingUp, Coming, StartRead, HdOut, SetIntr, Goto, controller, history
  <1> QED BY <1>1, <1>2, <1>3, <1>4 DEF IInv

LEMMA StartWriteStep ==
  ASSUME HardDiskAssumption, IInv, NEW drq \in BOOLEAN, StartWrite(drq) PROVE IInv'
  <1>1. DiskTypeOK'
    BY QueueFacts, RequestFacts DEF IInv, DiskTypeOK, StartWrite, HdOut, SetIntr, Goto, Labels, Handlers, bounds, controller, history, driver
  <1>2. TransfersAreReady'
    BY DEF IInv, TransfersAreReady, Coming, StartWrite, HdOut, SetIntr, Goto, NULL, driver
  <1>3. SetUpSoFar'
    BY DEF IInv, SetUpSoFar, SettingUp, Coming, StartWrite, HdOut, SetIntr, Goto, NULL, history, driver
  <1>4. DoneMeansMoved' /\ SetUpFirst'
    BY DEF IInv, DoneMeansMoved, SetUpFirst, SetUpSoFar, SettingUp, Coming, StartWrite, HdOut, SetIntr, Goto, controller, history
  <1> QED BY <1>1, <1>2, <1>3, <1>4 DEF IInv

LEMMA BadRwIntrStep ==
  ASSUME HardDiskAssumption, IInv, BadRwIntr PROVE IInv'
  <1>1. ret \in {"do_hd_request", "reset_hd_failed"} /\ pc = "bad_rw_intr"
    BY DEF IInv, DiskTypeOK, BadRwIntr
  <1>2. CASE queue = <<>>
    <2>1. /\ pc' = "crashed" /\ wildCurrent' = wildCurrent \cup {"write"}
          /\ UNCHANGED <<queue, ended, reset, ret, do_hd, hd_timeout, recalibrate, reset_i, controller, bounds, setup>>
      BY <1>2 DEF BadRwIntr
    <2>2. DiskTypeOK'
      BY <2>1 DEF IInv, DiskTypeOK, Labels, controller, bounds
    <2>3. TransfersAreReady'
      BY <2>1 DEF TransfersAreReady, Coming
    <2>4. SetUpSoFar'
      BY <2>1 DEF SetUpSoFar
    <2>5. DoneMeansMoved' /\ SetUpFirst'
      BY <2>1 DEF IInv, DoneMeansMoved, SetUpFirst
    <2> QED BY <2>2, <2>3, <2>4, <2>5 DEF IInv
  <1>3. CASE queue # <<>>
    <2> DEFINE r == OneMoreError(Current)
    <2>1. r \in Requests /\ Tail(queue) \in Seq(Requests)
          /\ <<r>> \o Tail(queue) \in Seq(Requests) /\ <<r>> \o Tail(queue) # <<>>
      BY <1>3, QueueFacts, RequestFacts DEF IInv
    <2>2. /\ pc' = ret /\ ret' = ret
          /\ \/ EndRequest(r, FALSE)
             \/ queue' = <<r>> \o Tail(queue) /\ ended' = ended
          /\ wildCurrent' = wildCurrent \cup IF queue' = <<>> THEN {"read"} ELSE {}
          /\ reset' \in BOOLEAN /\ (reset => reset')
          /\ UNCHANGED <<do_hd, hd_timeout, recalibrate, reset_i, controller, bounds, setup>>
      BY <1>3 DEF BadRwIntr, IInv, DiskTypeOK
    <2> HIDE DEF r
    <2>3. queue' \in Seq(Requests) /\ ended' \subseteq ended \cup {[req |-> r, ok |-> FALSE]}
      BY <2>1, <2>2 DEF EndRequest
    <2>4. DiskTypeOK'
      BY <1>1, <2>2, <2>3 DEF IInv, DiskTypeOK, Labels, controller, bounds
    <2>5. TransfersAreReady'
      BY <1>1, <2>2 DEF TransfersAreReady, Coming
    <2>6. SetUpSoFar'
      BY <1>1, <2>2 DEF IInv, SetUpSoFar, SettingUp, Coming
    <2>7. DoneMeansMoved' /\ SetUpFirst'
      BY <2>2, <2>3 DEF IInv, DoneMeansMoved, SetUpFirst, controller
    <2> QED BY <2>4, <2>5, <2>6, <2>7 DEF IInv
  <1> QED BY <1>2, <1>3

LEMMA FailedStep ==
  ASSUME HardDiskAssumption, IInv, NEW h, NEW next, Failed(h, next),
         \/ h \in {"read_intr", "write_intr", "recal_intr"} /\ next = "do_hd_request"
         \/ h = "reset_hd" /\ next = "reset_hd_failed"
  PROVE  IInv'
  <1>1. DiskTypeOK'
    BY DEF IInv, DiskTypeOK, Failed, Labels, bounds, controller, history
  <1>2. TransfersAreReady'
    BY DEF TransfersAreReady, Coming, Failed
  <1>3. SetUpSoFar'
    BY DEF IInv, SetUpSoFar, SettingUp, Coming, Failed, history
  <1>4. DoneMeansMoved' /\ SetUpFirst'
    BY DEF IInv, DoneMeansMoved, SetUpFirst, Failed, controller, history
  <1> QED BY <1>1, <1>2, <1>3, <1>4 DEF IInv

LEMMA TransferredStep ==
  ASSUME HardDiskAssumption, IInv, NEW h \in {"read_intr", "write_intr"}, Transferred(h) PROVE IInv'
  <1> DEFINE r == SectorDone(Current)
  <1>1. pc = h /\ queue # <<>> /\ ~reset
    BY DEF Transferred, IInv, TransfersAreReady, Coming
  <1>2. /\ Tail(queue) \in Seq(Requests)
        /\ r.done < SECTORS => <<r>> \o Tail(queue) \in Seq(Requests) /\ <<r>> \o Tail(queue) # <<>>
        /\ ~(r.done < SECTORS) => r.moved = 1..SECTORS
    BY <1>1, QueueFacts, RequestFacts DEF IInv
  <1>3. UNCHANGED <<reset, recalibrate, reset_i, command, irq, made, spurious, setup, wildCurrent>>
    BY DEF Transferred, bounds
  <1>4. wildCurrent = {} => setup = 0..NR_HD - 1
    BY <1>1 DEF IInv, SetUpSoFar, SettingUp, Coming
  <1>5. CASE r.done < SECTORS
    <2>1. /\ queue' = <<r>> \o Tail(queue) /\ do_hd' = h /\ hd_timeout' = TRUE
          /\ status' = "busy" /\ pc' = "idle" /\ ended' = ended
      BY <1>5 DEF Transferred, SetIntr, Goto
    <2>2. queue' \in Seq(Requests) /\ queue' # <<>>
      BY <1>2, <1>5, <2>1
    <2> HIDE DEF r
    <2>3. DiskTypeOK'
      BY <1>3, <2>1, <2>2 DEF IInv, DiskTypeOK, Labels, Handlers
    <2>4. TransfersAreReady'
      BY <1>1, <1>3, <2>1, <2>2 DEF TransfersAreReady
    <2>5. SetUpSoFar'
      BY <1>3, <1>4, <2>1, <2>2 DEF SetUpSoFar, SettingUp, Coming
    <2>6. DoneMeansMoved' /\ SetUpFirst'
      BY <1>3, <1>4, <2>1 DEF IInv, DoneMeansMoved, SetUpFirst
    <2> QED BY <2>3, <2>4, <2>5, <2>6 DEF IInv
  <1>6. CASE ~(r.done < SECTORS)
    <2>1. /\ queue' = Tail(queue) /\ ended' = ended \cup {[req |-> r, ok |-> TRUE]}
          /\ pc' = "do_hd_request" /\ UNCHANGED <<do_hd, hd_timeout, status>>
      BY <1>6 DEF Transferred, EndRequest, Goto
    <2> HIDE DEF r
    <2>2. DiskTypeOK'
      BY <1>2, <1>3, <2>1 DEF IInv, DiskTypeOK, Labels
    <2>3. TransfersAreReady'
      BY <2>1 DEF TransfersAreReady, Coming
    <2>4. SetUpSoFar'
      BY <1>3, <1>4, <2>1 DEF SetUpSoFar, SettingUp, Coming
    <2>5. DoneMeansMoved' /\ SetUpFirst'
      BY <1>2, <1>3, <1>6, <2>1 DEF IInv, DoneMeansMoved, SetUpFirst
    <2> QED BY <2>2, <2>3, <2>4, <2>5 DEF IInv
  <1> QED BY <1>5, <1>6

LEMMA RecalIntrStep ==
  ASSUME HardDiskAssumption, IInv, RecalIntr PROVE IInv'
  <1>1. CASE Failed("recal_intr", "do_hd_request")
    BY <1>1, FailedStep
  <1>2. CASE /\ pc = "recal_intr" /\ pc' = "do_hd_request" /\ ret' = ret
             /\ UNCHANGED <<queue, do_hd, hd_timeout, reset, recalibrate, reset_i, controller, bounds, history>>
    <2>1. DiskTypeOK'
      BY <1>2 DEF IInv, DiskTypeOK, Labels, controller, bounds, history
    <2>2. TransfersAreReady' /\ SetUpSoFar'
      BY <1>2 DEF IInv, TransfersAreReady, SetUpSoFar, SettingUp, Coming, history
    <2>3. DoneMeansMoved' /\ SetUpFirst'
      BY <1>2 DEF IInv, DoneMeansMoved, SetUpFirst, controller, history
    <2> QED BY <2>1, <2>2, <2>3 DEF IInv
  <1> QED BY <1>1, <1>2 DEF RecalIntr, Goto

LEMMA ResetControllerStep ==
  ASSUME HardDiskAssumption, IInv, ResetController PROVE IInv'
  <1>1. DiskTypeOK'
    <2>1. command' \in [op : {"none", "read", "write", "restore", "specify"}, drive : Nat]
      BY DEF ResetController
    <2> QED BY <2>1 DEF IInv, DiskTypeOK, ResetController, SetIntr, Goto, Labels, Handlers, bounds
  <1>2. TransfersAreReady'
    BY DEF TransfersAreReady, Coming, ResetController, SetIntr, Goto
  <1>3. SetUpSoFar'
    <2>1. 0 < NR_HD /\ {0} = 0..0
      BY DEF HardDiskAssumption
    <2> QED BY <2>1 DEF IInv, SetUpSoFar, SettingUp, Coming, ResetController, SetIntr, Goto
  <1>4. DoneMeansMoved' /\ SetUpFirst'
    BY DEF IInv, DoneMeansMoved, SetUpFirst, ResetController
  <1> QED BY <1>1, <1>2, <1>3, <1>4 DEF IInv

LEMMA NextDriveStep ==
  ASSUME HardDiskAssumption, IInv, NextDrive PROVE IInv'
  <1>1. /\ pc \in {"reset_hd", "reset_hd_failed"} /\ ~reset /\ SetUp(reset_i + 1)
        /\ UNCHANGED <<queue, reset, recalibrate, made, spurious, ended, wildCurrent>>
    BY DEF NextDrive, bounds
  <1>2. NR_HD \in Nat /\ reset_i \in Nat
    BY DEF HardDiskAssumption, IInv, DiskTypeOK
  <1>3. wildCurrent = {} => queue # <<>> /\ reset_i < NR_HD /\ setup = 0..reset_i
    BY <1>1 DEF IInv, SetUpSoFar, SettingUp, Coming
  <1>4. CASE reset_i + 1 < NR_HD
    <2>1. /\ command' = [op |-> "specify", drive |-> reset_i + 1] /\ status' = "busy" /\ irq' \in {irq, TRUE, FALSE}
          /\ do_hd' = "reset_hd" /\ hd_timeout' = TRUE /\ setup' = setup \cup {reset_i + 1}
          /\ pc' = "idle" /\ reset_i' = reset_i + 1
      BY <1>1, <1>4 DEF SetUp, SetIntr, Goto, IInv, DiskTypeOK
    <2>2. DiskTypeOK'
      <3>1. command' \in [op : {"none", "read", "write", "restore", "specify"}, drive : Nat]
        BY <1>2, <2>1
      <3> QED BY <1>1, <1>2, <2>1, <3>1 DEF IInv, DiskTypeOK, Labels, Handlers
    <2>3. TransfersAreReady'
      BY <2>1 DEF TransfersAreReady, Coming
    <2>4. SetUpSoFar'
      <3>1. (0..reset_i) \cup {reset_i + 1} = 0..reset_i + 1
        BY <1>2
      <3> QED BY <1>1, <1>3, <1>4, <2>1, <3>1 DEF SetUpSoFar, SettingUp, Coming
    <2>5. DoneMeansMoved' /\ SetUpFirst'
      BY <1>1, <2>1 DEF IInv, DoneMeansMoved, SetUpFirst
    <2> QED BY <2>2, <2>3, <2>4, <2>5 DEF IInv
  <1>5. CASE ~(reset_i + 1 < NR_HD)
    <2>1. /\ UNCHANGED <<command, status, do_hd, hd_timeout, setup>>
          /\ irq' \in {irq, TRUE, FALSE} /\ pc' = "do_hd_request" /\ reset_i' = reset_i + 1
      BY <1>1, <1>5 DEF SetUp, Goto, IInv, DiskTypeOK
    <2>2. DiskTypeOK'
      <3>1. pc' \in Labels /\ pc' # "bad_rw_intr" /\ reset_i' \in Nat
        BY <1>2, <2>1 DEF Labels
      <3>2. irq' \in BOOLEAN /\ status' = status /\ command' = command /\ do_hd' = do_hd
            /\ hd_timeout' = hd_timeout
        BY <2>1 DEF IInv, DiskTypeOK
      <3> QED BY <1>1, <3>1, <3>2 DEF IInv, DiskTypeOK
    <2>3. TransfersAreReady'
      BY <2>1 DEF TransfersAreReady, Coming
    <2>4. wildCurrent = {} => setup = 0..NR_HD - 1
      <3>1. reset_i < NR_HD => reset_i = NR_HD - 1
        BY <1>2, <1>5
      <3> QED BY <1>3, <3>1
    <2>5. SetUpSoFar'
      BY <1>1, <2>1, <2>4 DEF SetUpSoFar, SettingUp, Coming
    <2>6. DoneMeansMoved' /\ SetUpFirst'
      BY <1>1, <2>1 DEF IInv, DoneMeansMoved, SetUpFirst
    <2> QED BY <2>2, <2>3, <2>5, <2>6 DEF IInv
  <1> QED BY <1>4, <1>5

LEMMA ResetHdStep ==
  ASSUME HardDiskAssumption, IInv, ResetHd PROVE IInv'
  <1>1. CASE pc = "reset_hd_failed" /\ reset /\ pc' = "reset_hd" /\ ret' = ret
             /\ UNCHANGED <<queue, do_hd, hd_timeout, reset, recalibrate, reset_i, controller, bounds, history>>
    <2>1. DiskTypeOK'
      BY <1>1 DEF IInv, DiskTypeOK, Labels, Handlers, controller, bounds, history
    <2>2. TransfersAreReady' /\ SetUpSoFar'
      BY <1>1 DEF IInv, TransfersAreReady, SetUpSoFar, SettingUp, Coming, history
    <2>3. DoneMeansMoved' /\ SetUpFirst'
      BY <1>1 DEF IInv, DoneMeansMoved, SetUpFirst, controller, history
    <2> QED BY <2>1, <2>2, <2>3 DEF IInv
  <1> QED BY <1>1, ResetControllerStep, FailedStep, NextDriveStep DEF ResetHd, Goto

LEMMA UnexpectedStep ==
  ASSUME HardDiskAssumption, IInv, Unexpected PROVE IInv'
  <1>1. DiskTypeOK'
    BY DEF IInv, DiskTypeOK, Unexpected, Goto, Labels, bounds, controller, history
  <1>2. TransfersAreReady'
    BY DEF TransfersAreReady, Coming, Unexpected, Goto
  <1>3. SetUpSoFar'
    BY DEF IInv, SetUpSoFar, SettingUp, Coming, Unexpected, Goto, history
  <1>4. DoneMeansMoved' /\ SetUpFirst'
    BY DEF IInv, DoneMeansMoved, SetUpFirst, Unexpected, controller, history
  <1> QED BY <1>1, <1>2, <1>3, <1>4 DEF IInv

LEMMA HandlerStep ==
  ASSUME HardDiskAssumption, IInv, Handler PROVE IInv'
  <1>1. CASE DoHdRequest
    BY <1>1, NothingToDoStep, RefuseStep, StartResetStep, RecalibrateStep, StartReadStep, StartWriteStep
    DEF DoHdRequest
  <1>2. CASE ReadIntr \/ WriteIntr
    BY <1>2, FailedStep, TransferredStep DEF ReadIntr, WriteIntr
  <1> QED BY <1>1, <1>2, BadRwIntrStep, RecalIntrStep, ResetHdStep, UnexpectedStep DEF Handler

-----------------------------------------------------------------------------
(* Interrupts, the clock and new requests. *)
LEMMA InterruptStep ==
  ASSUME HardDiskAssumption, IInv, Interrupt PROVE IInv'
  <1>1. /\ pc = "idle" /\ do_hd \in Handlers \cup {NULL} /\ pc' = IF do_hd = NULL THEN "unexpected" ELSE do_hd
        /\ UNCHANGED <<queue, reset, recalibrate, reset_i, command, status, made, spurious, ended, setup, wildCurrent>>
    BY DEF IInv, DiskTypeOK, Interrupt, Goto, bounds, history
  <1>2. pc' \in Handlers \cup {"unexpected"} /\ Coming = do_hd /\ (do_hd # NULL => Coming' = do_hd)
        /\ (do_hd = NULL => Coming' = "unexpected")
    BY <1>1 DEF Coming, Handlers, NULL
  <1>3. DiskTypeOK'
    BY <1>1, <1>2 DEF IInv, DiskTypeOK, Interrupt, Labels, Handlers
  <1>4. TransfersAreReady'
    BY <1>1, <1>2 DEF IInv, TransfersAreReady
  <1>5. SetUpSoFar'
    BY <1>1, <1>2 DEF IInv, SetUpSoFar, SettingUp, Handlers, NULL
  <1>6. DoneMeansMoved' /\ SetUpFirst'
    BY <1>1 DEF IInv, DoneMeansMoved, SetUpFirst
  <1> QED BY <1>3, <1>4, <1>5, <1>6 DEF IInv

LEMMA TimesOutStep ==
  ASSUME HardDiskAssumption, IInv, TimesOut PROVE IInv'
  <1>1. pc = "idle" /\ UNCHANGED <<recalibrate, reset_i, command, status, irq, made, spurious, setup, wildCurrent>>
    BY DEF TimesOut, controller, bounds
  <1>2. CASE queue = <<>>
    <2>1. hd_timeout' = FALSE /\ UNCHANGED <<queue, ended, do_hd, reset, pc, ret>>
      BY <1>2 DEF TimesOut
    <2>2. DiskTypeOK'
      BY <1>1, <2>1 DEF IInv, DiskTypeOK
    <2>3. TransfersAreReady' /\ SetUpSoFar' /\ DoneMeansMoved' /\ SetUpFirst'
      BY <1>1, <2>1 DEF IInv, TransfersAreReady, SetUpSoFar, SettingUp, Coming, DoneMeansMoved, SetUpFirst
    <2> QED BY <2>2, <2>3 DEF IInv
  <1>3. CASE queue # <<>>
    <2> DEFINE r == OneMoreError(Current)
    <2>1. r \in Requests /\ Tail(queue) \in Seq(Requests) /\ <<r>> \o Tail(queue) \in Seq(Requests)
      BY <1>3, QueueFacts, RequestFacts DEF IInv
    <2>2. /\ do_hd' = NULL /\ hd_timeout' = TRUE /\ reset' = TRUE /\ pc' = "do_hd_request"
          /\ \/ EndRequest(r, FALSE)
             \/ queue' = <<r>> \o Tail(queue) /\ ended' = ended
      BY <1>3 DEF TimesOut, SetIntr, Goto
    <2> HIDE DEF r
    <2>3. queue' \in Seq(Requests) /\ ended' \subseteq ended \cup {[req |-> r, ok |-> FALSE]}
      BY <2>1, <2>2 DEF EndRequest
    <2>4. DiskTypeOK'
      BY <1>1, <2>2, <2>3 DEF IInv, DiskTypeOK, Labels
    <2>5. TransfersAreReady' /\ SetUpSoFar'
      BY <1>1, <2>2 DEF TransfersAreReady, SetUpSoFar, SettingUp, Coming
    <2>6. DoneMeansMoved' /\ SetUpFirst'
      BY <1>1, <2>3 DEF IInv, DoneMeansMoved, SetUpFirst
    <2> QED BY <2>4, <2>5, <2>6 DEF IInv
  <1> QED BY <1>2, <1>3

LEMMA AddRequestStep ==
  ASSUME HardDiskAssumption, IInv, NEW r \in NewRequests, AddRequest(r) PROVE IInv'
  <1>1. /\ pc = "idle" /\ made' = made + 1 /\ queue' = Append(queue, r)
        /\ queue # <<>> => UNCHANGED <<pc, ret>>
        /\ queue = <<>> => pc' = "do_hd_request" /\ ret' = ret
        /\ UNCHANGED <<do_hd, hd_timeout, reset, recalibrate, reset_i, command, status, irq, spurious, ended, setup, wildCurrent>>
    BY DEF AddRequest, Goto, controller, history
  <1>2. r \in Requests
    <2>1. /\ r \in [cmd : {"read", "write"}, drive : 0..NR_HD - 1, last : LastBlocks,
                     done : {0}, errors : {0}, id : {made + 1}, moved : {{}}]
          /\ made + 1 \in Nat /\ 0 \in 0..SECTORS - 1 /\ {} = 1..0
      BY DEF NewRequests, HardDiskAssumption, IInv, DiskTypeOK
    <2>2. r.last \in BOOLEAN /\ r.moved = 1..r.done
      BY <2>1 DEF HardDiskAssumption
    <2>3. r \in [cmd : {"read", "write"}, drive : 0..NR_HD - 1, last : BOOLEAN,
                 done : 0..SECTORS - 1, errors : Nat, id : Nat, moved : SUBSET Nat]
      BY <2>1, <2>2
    <2> QED BY <2>2, <2>3 DEF Requests
  <1>3. queue' \in Seq(Requests) /\ queue' # <<>>
    BY <1>1, <1>2 DEF IInv, DiskTypeOK
  <1>4. DiskTypeOK'
    BY <1>1, <1>3 DEF IInv, DiskTypeOK, Labels
  <1>5. TransfersAreReady'
    BY <1>1, <1>3 DEF IInv, TransfersAreReady, Coming
  <1>6. SetUpSoFar'
    BY <1>1, <1>3 DEF IInv, SetUpSoFar, SettingUp, Coming
  <1>7. DoneMeansMoved' /\ SetUpFirst'
    BY <1>1 DEF IInv, DoneMeansMoved, SetUpFirst
  <1> QED BY <1>4, <1>5, <1>6, <1>7 DEF IInv

(* The controller answers, or interrupts for no reason. *)
LEMMA AnswerStep ==
  ASSUME HardDiskAssumption, IInv, (\E st \in {"ready", "error"} : Answer(st)) \/ Spurious PROVE IInv'
  <1>1. /\ UNCHANGED <<queue, do_hd, hd_timeout, reset, recalibrate, reset_i, pc, ret, command, made, ended, setup, wildCurrent>>
        /\ status' \in {"ready", "error", status} /\ (status' = "busy" => status' = status)
        /\ irq' = TRUE /\ spurious' \in Nat
    BY DEF Answer, Spurious, driver, bounds, history, IInv, DiskTypeOK
  <1>2. DiskTypeOK'
    BY <1>1 DEF IInv, DiskTypeOK
  <1>3. TransfersAreReady' /\ SetUpSoFar' /\ DoneMeansMoved' /\ SetUpFirst'
    BY <1>1 DEF IInv, TransfersAreReady, SetUpSoFar, SettingUp, Coming, DoneMeansMoved, SetUpFirst
  <1> QED BY <1>2, <1>3 DEF IInv

LEMMA NextIInv ==
  ASSUME HardDiskAssumption, IInv, [Next]_vars PROVE IInv'
  <1>1. CASE UNCHANGED vars
    <2>1. /\ UNCHANGED <<queue, do_hd, hd_timeout, reset, recalibrate, reset_i, pc, ret, command, status, irq>>
          /\ UNCHANGED <<made, spurious, ended, setup, wildCurrent>>
      BY <1>1 DEF vars, driver, controller, bounds, history
    <2>2. DiskTypeOK'
      BY <2>1 DEF IInv, DiskTypeOK
    <2> QED BY <2>1, <2>2 DEF IInv, TransfersAreReady, SetUpSoFar, SettingUp, Coming, DoneMeansMoved, SetUpFirst
  <1> QED BY <1>1, HandlerStep, InterruptStep, TimesOutStep, AddRequestStep, AnswerStep DEF Next

LEMMA IInvAlways == HardDiskAssumption => (Spec => []IInv)
  <1> SUFFICES ASSUME HardDiskAssumption PROVE Spec => []IInv
    OBVIOUS
  <1>1. Init => IInv
    BY InitIInv
  <1>2. IInv /\ [Next]_vars => IInv'
    BY NextIInv
  <1> QED BY <1>1, <1>2, PTL DEF Spec

-----------------------------------------------------------------------------
(* read_intr and write_intr (hd.c:290-325) count a sector only after win_result
   has said that it was moved, and bad_rw_intr, hd_times_out and reset_hd leave
   the count: a request that is ended as done has had every sector moved, for
   any number of errors, time-outs and unexpected interrupts. *)
THEOREM DoneIsMoved == HardDiskAssumption => (Spec => []DoneMeansMoved)
  <1>1. IInv => DoneMeansMoved
    BY DEF IInv
  <1> QED BY <1>1, IInvAlways, PTL

(* reset_hd (hd.c:253-273) goes from drive to drive by interrupts, each of which
   may report an error or never come: a sector is only asked for when all drives
   have been told their geometry since the last reset of the controller. *)
THEOREM DrivesAreSetUp == HardDiskAssumption => (Spec => []SetUpFirst)
  <1>1. IInv => SetUpFirst
    BY DEF IInv
  <1> QED BY <1>1, IInvAlways, PTL

(* The handlers that move data use CURRENT without a test (hd.c:297, 315):
   there is a request whenever one of them runs or is what the next interrupt
   calls, so that only bad_rw_intr ever works on a request that is not there. *)
THEOREM TransfersHaveRequest == HardDiskAssumption => (Spec => []TransfersAreReady)
  <1>1. IInv => TransfersAreReady
    BY DEF IInv
  <1> QED BY <1>1, IInvAlways, PTL

-----------------------------------------------------------------------------
(* The console. *)

Chars == {Blank, Printable}
Lines == 0..NrLines - 1
Columns == 0..NrColumns - 1

Records ==
  [mem : [Cells -> Chars], x : Int, y : Int, pos : Int, origin : Int, scr_end : Int,
   top : Int, bottom : Int, saved_x : Int, saved_y : Int,
   state : {"normal", "esc", "square", "getpars", "skip"},
   npar : Int, par : [1..NPAR -> Nat], ques : BOOLEAN]

(* The cursor and what is shown, of any record. *)
OnScreen(c) ==
  /\ c.pos = c.origin + c.y * NrColumns + c.x
  /\ c.x \in 0..NrColumns /\ c.y \in 0..NrLines - 1
  /\ c.scr_end = c.origin + NrLines * NrColumns
  /\ Start <= c.origin /\ c.scr_end <= End
  /\ 0 <= c.top /\ c.top < c.bottom /\ c.bottom <= NrLines

Good(c) == c \in Records /\ OnScreen(c) /\ c.npar \in 1..NPAR

(* What is shown of the memory. *)
Shows(c) == [l \in Lines |-> [k \in Columns |-> c.mem[c.origin + l * NrColumns + k]]]

-----------------------------------------------------------------------------
(* Lines and columns as places in the memory. *)
LEMMA Products ==
  ASSUME NEW n \in Nat \ {0}, NEW a \in Int, NEW b \in Int, a < b
  PROVE  a * n + n <= b * n
  <1>1. (b - a - 1) * n >= 0
    OBVIOUS
  <1> QED BY <1>1

LEMMA PlaceOf ==
  ASSUME ConsoleAssumption, NEW l \in Lines, NEW k \in Columns
  PROVE  /\ l * NrColumns + k \in 0..NrLines * NrColumns - 1
         /\ \A m \in Int : m * NrColumns <= l * NrColumns + k <=> m <= l
         /\ \A m \in Int, j \in Columns : l * NrColumns + k = m * NrColumns + j <=> l = m /\ k = j
  <1>1. NrColumns \in Nat \ {0} /\ NrLines \in Nat \ {0} /\ l \in Int /\ k \in Int
    BY DEF ConsoleAssumption, Lines, Columns
  <1>2. l * NrColumns \in Int /\ NrLines * NrColumns \in Int
    BY <1>1
  <1>3. l * NrColumns + NrColumns <= NrLines * NrColumns /\ 0 * NrColumns <= l * NrColumns
    <2>1. l < NrLines /\ 0 <= l
      BY <1>1 DEF Lines
    <2>2. l * NrColumns >= 0
      BY <1>1, <2>1
    <2> QED BY <1>1, <2>1, <2>2, Products
  <1>4. ASSUME NEW m \in Int
        PROVE  m * NrColumns <= l * NrColumns + k <=> m <= l
    <2>1. CASE m <= l
      <3>1. m < l => m * NrColumns + NrColumns <= l * NrColumns
        BY <1>1, Products
      <3> QED BY <1>1, <2>1, <3>1 DEF Columns
    <2>2. CASE l < m
      <3>1. l * NrColumns + NrColumns <= m * NrColumns
        BY <1>1, <2>2, Products
      <3> QED BY <1>1, <1>2, <2>2, <3>1 DEF Columns
    <2> QED BY <1>1, <2>1, <2>2
  <1>5. ASSUME NEW m \in Int, NEW j \in Columns, l * NrColumns + k = m * NrColumns + j
        PROVE  l = m /\ k = j
    <2>1. l < m => l * NrColumns + NrColumns <= m * NrColumns
      BY <1>1, Products
    <2>2. m < l => m * NrColumns + NrColumns <= l * NrColumns
      BY <1>1, Products
    <2>3. m * NrColumns \in Int
      BY <1>1
    <2>4. l = m
      BY <1>1, <1>2, <1>5, <2>1, <2>2, <2>3 DEF Columns
    <2> QED BY <1>1, <1>2, <1>5, <2>3, <2>4 DEF Columns
  <1> QED BY <1>1, <1>2, <1>3, <1>4, <1>5 DEF Columns

-----------------------------------------------------------------------------
(* memsetw and memcpyw change cells of the memory, and nothing else. *)
Same(c, d) ==
  /\ d.x = c.x /\ d.y = c.y /\ d.pos = c.pos /\ d.origin = c.origin /\ d.scr_end = c.scr_end
  /\ d.top = c.top /\ d.bottom = c.bottom /\ d.npar = c.npar

LEMMA Filled ==
  ASSUME NEW c \in Records, NEW from \in Int, NEW n \in Int
  PROVE  /\ Fill(c, from, n) \in Records /\ Same(c, Fill(c, from, n))
         /\ \A a \in Cells : Fill(c, from, n).mem[a] = IF a \in from..from + n - 1 THEN Blank ELSE c.mem[a]
  BY DEF Fill, Records, Same, Chars

LEMMA Copied ==
  ASSUME NEW c \in Records, NEW to \in Int, NEW from \in Int, NEW n \in Int,
         from..from + n - 1 \subseteq Cells
  PROVE  /\ Copy(c, to, from, n) \in Records /\ Same(c, Copy(c, to, from, n))
         /\ \A a \in Cells : Copy(c, to, from, n).mem[a] =
                               IF a \in to..to + n - 1 THEN c.mem[a - to + from] ELSE c.mem[a]
  <1> DEFINE m == [a \in Cells |-> IF a \in to..to + n - 1 THEN c.mem[a - to + from] ELSE c.mem[a]]
  <1>1. Copy(c, to, from, n) = [c EXCEPT !.mem = m]
    BY DEF Copy
  <1>2. c.mem \in [Cells -> Chars]
    BY DEF Records
  <1>3. ASSUME NEW a \in Cells PROVE m[a] \in Chars
    <2>1. a \in Int
      BY DEF Cells, End, Start
    <2>2. a \in to..to + n - 1 => a - to + from \in Cells
      BY <2>1
    <2> QED BY <1>2, <2>2
  <1>4. m \in [Cells -> Chars]
    BY <1>3
  <1> HIDE DEF m
  <1>5. [c EXCEPT !.mem = m] \in Records /\ [c EXCEPT !.mem = m].mem = m /\ Same(c, [c EXCEPT !.mem = m])
    BY <1>4 DEF Records, Same
  <1> QED BY <1>1, <1>5 DEF m

(* A copy, by its name. *)
IsCopy(e, c, to, from, n) ==
  /\ e \in Records /\ Same(c, e)
  /\ \A a \in Cells : e.mem[a] = IF a \in to..to + n - 1 THEN c.mem[a - to + from] ELSE c.mem[a]

LEMMA IsCopied ==
  ASSUME NEW c \in Records, NEW to \in Int, NEW from \in Int, NEW n \in Int,
         from..from + n - 1 \subseteq Cells
  PROVE  IsCopy(Copy(c, to, from, n), c, to, from, n)
  BY Copied DEF IsCopy

(* What is shown is in the memory. *)
LEMMA ShownCells ==
  ASSUME ConsoleAssumption, NEW c \in Records, OnScreen(c)
  PROVE  /\ NrColumns \in Nat \ {0} /\ NrLines \in Nat \ {0} /\ End \in Int /\ Start \in Int
         /\ c.origin..c.scr_end - 1 \subseteq Cells
         /\ \A l \in Lines, k \in Columns : c.origin + l * NrColumns + k \in Cells
  <1>1. NrColumns \in Nat \ {0} /\ NrLines \in Nat \ {0} /\ MemLines \in Nat
    BY DEF ConsoleAssumption
  <1>2. End \in Int /\ Start \in Int /\ Start >= 0
    BY <1>1 DEF Start, End
  <1>3. c.origin \in Int /\ c.scr_end \in Int
    BY DEF Records
  <1>4. c.origin..c.scr_end - 1 \subseteq Cells
    BY <1>1, <1>2, <1>3 DEF Cells, OnScreen
  <1>5. ASSUME NEW l \in Lines, NEW k \in Columns
        PROVE  c.origin + l * NrColumns + k \in Cells
    <2>1. l * NrColumns + k \in 0..NrLines * NrColumns - 1
      BY PlaceOf
    <2>2. l * NrColumns \in Int /\ NrLines * NrColumns \in Int /\ k \in Int
      BY <1>1 DEF Lines, Columns
    <2>3. c.origin + l * NrColumns + k \in c.origin..c.scr_end - 1
      BY <1>3, <2>1, <2>2 DEF OnScreen
    <2> QED BY <1>4, <2>3
  <1> QED BY <1>1, <1>2, <1>4, <1>5

-----------------------------------------------------------------------------
(* Scrolling. *)
Kept(c, d) == d.x = c.x /\ d.y = c.y /\ d.top = c.top /\ d.bottom = c.bottom /\ d.npar = c.npar

IsScreen(s) == s = [l \in Lines |-> [k \in Columns |-> s[l][k]]]

LEMMA ScreensAreEqual ==
  ASSUME NEW s, NEW t, IsScreen(s), IsScreen(t), \A l \in Lines, k \in Columns : s[l][k] = t[l][k]
  PROVE  s = t
  <1>1. [l \in Lines |-> [k \in Columns |-> s[l][k]]] = [l \in Lines |-> [k \in Columns |-> t[l][k]]]
    OBVIOUS
  <1> QED BY <1>1, Zenon DEF IsScreen

LEMMA ShownAt ==
  ASSUME NEW c
  PROVE  /\ IsScreen(Shows(c))
         /\ \A l \in Lines, k \in Columns : Shows(c)[l][k] = c.mem[c.origin + l * NrColumns + k]
  BY DEF Shows, IsScreen

LEMMA ShowsIt ==
  ASSUME NEW c, NEW s, IsScreen(s), \A l \in Lines, k \in Columns : Shows(c)[l][k] = s[l][k]
  PROVE  Shows(c) = s
  BY ShownAt, ScreensAreEqual

(* The window moves in the memory. *)
MovedTo(c, o, p, e) == [c EXCEPT !.origin = o, !.pos = p, !.scr_end = e]

LEMMA Moved ==
  ASSUME NEW c \in Records, NEW o \in Int, NEW p \in Int, NEW e \in Int
  PROVE  LET d == MovedTo(c, o, p, e) IN
         /\ d \in Records /\ d.mem = c.mem /\ Kept(c, d)
         /\ d.origin = o /\ d.pos = p /\ d.scr_end = e
  BY DEF Records, Kept, MovedTo

LEMMA UpAt ==
  ASSUME ConsoleAssumption, NEW s, IsScreen(s), NEW a \in Int, NEW b \in Int, NEW n \in Nat, a >= 0, b <= NrLines
  PROVE  LET t == Shown!ScrolledUp(s, a, b, n) IN
         /\ IsScreen(t)
         /\ \A l \in Lines, k \in Columns : t[l][k] = IF l \notin a..b - 1 THEN s[l][k]
                                                      ELSE IF l + n < b THEN s[l + n][k] ELSE Blank
  <1> DEFINE t == Shown!ScrolledUp(s, a, b, n)
  <1>1. t = [l \in Lines |-> IF l \notin a..b - 1 THEN s[l] ELSE IF l + n < b THEN s[l + n]
                             ELSE [k \in Columns |-> Blank]]
    BY DEF Shown!ScrolledUp, Shown!Lines, Shown!BlankLine, Shown!Columns, Lines, Columns
  <1> HIDE DEF t
  <1>2. ASSUME NEW l \in Lines
        PROVE  /\ t[l] = [k \in Columns |-> t[l][k]]
               /\ \A k \in Columns : t[l][k] = IF l \notin a..b - 1 THEN s[l][k]
                                               ELSE IF l + n < b THEN s[l + n][k] ELSE Blank
    <2>1. NrLines \in Nat /\ l \in Int /\ l >= 0
      BY DEF ConsoleAssumption, Lines
    <2>2. CASE l \notin a..b - 1
      BY <1>1, <2>2 DEF IsScreen
    <2>3. CASE l \in a..b - 1 /\ l + n < b
      <3>1. l + n \in Lines
        BY <2>1, <2>3 DEF Lines
      <3>2. t[l] = s[l + n]
        BY <1>1, <2>3
      <3> QED BY <2>3, <3>1, <3>2 DEF IsScreen
    <2>4. CASE l \in a..b - 1 /\ ~ (l + n < b)
      BY <1>1, <2>4
    <2> QED BY <2>2, <2>3, <2>4
  <1>3. IsScreen(t)
    <2>1. [l \in Lines |-> t[l]] = [l \in Lines |-> [k \in Columns |-> t[l][k]]]
      BY <1>2, Zenon
    <2> QED BY <1>1, <2>1 DEF IsScreen
  <1> QED BY <1>2, <1>3 DEF t

LEMMA DownAt ==
  ASSUME ConsoleAssumption, NEW s, IsScreen(s), NEW a \in Int, NEW b \in Int, NEW n \in Nat, a >= 0, b <= NrLines
  PROVE  LET t == Shown!ScrolledDown(s, a, b, n) IN
         /\ IsScreen(t)
         /\ \A l \in Lines, k \in Columns : t[l][k] = IF l \notin a..b - 1 THEN s[l][k]
                                                      ELSE IF l - n >= a THEN s[l - n][k] ELSE Blank
  <1> DEFINE t == Shown!ScrolledDown(s, a, b, n)
  <1>1. t = [l \in Lines |-> IF l \notin a..b - 1 THEN s[l] ELSE IF l - n >= a THEN s[l - n]
                             ELSE [k \in Columns |-> Blank]]
    BY DEF Shown!ScrolledDown, Shown!Lines, Shown!BlankLine, Shown!Columns, Lines, Columns
  <1> HIDE DEF t
  <1>2. ASSUME NEW l \in Lines
        PROVE  /\ t[l] = [k \in Columns |-> t[l][k]]
               /\ \A k \in Columns : t[l][k] = IF l \notin a..b - 1 THEN s[l][k]
                                               ELSE IF l - n >= a THEN s[l - n][k] ELSE Blank
    <2>1. NrLines \in Nat /\ l \in Int /\ l >= 0
      BY DEF ConsoleAssumption, Lines
    <2>2. CASE l \notin a..b - 1
      BY <1>1, <2>2 DEF IsScreen
    <2>3. CASE l \in a..b - 1 /\ l - n >= a
      <3>1. l - n \in Lines
        BY <2>1, <2>3 DEF Lines
      <3>2. t[l] = s[l - n]
        BY <1>1, <2>3
      <3> QED BY <2>3, <3>1, <3>2 DEF IsScreen
    <2>4. CASE l \in a..b - 1 /\ ~ (l - n >= a)
      BY <1>1, <2>4
    <2> QED BY <2>2, <2>3, <2>4
  <1>3. IsScreen(t)
    <2>1. [l \in Lines |-> t[l]] = [l \in Lines |-> [k \in Columns |-> t[l][k]]]
      BY <1>2, Zenon
    <2> QED BY <1>1, <2>1 DEF IsScreen
  <1> QED BY <1>2, <1>3 DEF t

LEMMA ScrUpShows ==
  ASSUME ConsoleAssumption, NEW c, Good(c)
  PROVE  /\ Good(ScrUp(c)) /\ Kept(c, ScrUp(c))
         /\ Shows(ScrUp(c)) = Shown!ScrolledUp(Shows(c), c.top, c.bottom, 1)
  <1> DEFINE n == (c.bottom - c.top - 1) * NrColumns
             to == c.origin + NrColumns * c.top
             up == Shown!ScrolledUp(Shows(c), c.top, c.bottom, 1)
             d == ScrUp(c)
  <1>1. c \in Records /\ OnScreen(c) /\ c.npar \in 1..NPAR
    BY DEF Good
  <1>2. /\ NrColumns \in Nat \ {0} /\ NrLines \in Nat \ {0} /\ MemLines \in Nat /\ MemLines >= NrLines
        /\ Start \in Int /\ End \in Int /\ Start = NrColumns /\ End = Start + MemLines * NrColumns
    BY DEF ConsoleAssumption, Start, End
  <1>3. /\ c.top \in Int /\ c.bottom \in Int /\ c.origin \in Int /\ c.scr_end \in Int /\ c.pos \in Int
        /\ c.x \in Int /\ c.y \in Int /\ 0 <= c.top /\ c.top < c.bottom /\ c.bottom <= NrLines
    BY <1>1 DEF Records, OnScreen
  <1>4. NrLines * NrColumns \in Int /\ c.y * NrColumns \in Int /\ n \in Int /\ to \in Int /\ n >= 0
    <2>1. c.bottom - c.top - 1 \in Nat
      BY <1>3
    <2> QED BY <1>2, <1>3, <2>1
  <1>5. /\ IsScreen(up)
        /\ \A l \in Lines, k \in Columns : up[l][k] = IF l \notin c.top..c.bottom - 1 THEN Shows(c)[l][k]
                                                      ELSE IF l + 1 < c.bottom THEN Shows(c)[l + 1][k] ELSE Blank
    BY <1>3, UpAt, ShownAt
  <1>7. CASE ~ (Scrolls /\ c.top = 0 /\ c.bottom = NrLines)
    <2> DEFINE e == Copy(c, to, to + NrColumns, n)
    <2>1. d = Fill(e, to + n, NrColumns)
      BY <1>3, <1>7 DEF ScrUp
    <2>2. /\ n = c.bottom * NrColumns - c.top * NrColumns - NrColumns /\ to = c.origin + c.top * NrColumns
          /\ c.top * NrColumns >= 0 /\ c.bottom * NrColumns <= NrLines * NrColumns
          /\ c.top * NrColumns \in Int /\ c.bottom * NrColumns \in Int
      <3>1. c.bottom < NrLines => c.bottom * NrColumns + NrColumns <= NrLines * NrColumns
        BY <1>2, <1>3, Products
      <3>2. c.top * NrColumns >= 0 /\ c.bottom * NrColumns \in Int
        BY <1>2, <1>3
      <3> QED BY <1>2, <1>3, <1>4, <3>1, <3>2
    <2>3. to + NrColumns..to + NrColumns + n - 1 \subseteq Cells
      <3> HIDE DEF n, to
      <3>1. c.origin..c.scr_end - 1 \subseteq Cells
        BY <1>1, ShownCells
      <3> QED BY <1>1, <1>2, <1>3, <1>4, <2>2, <3>1 DEF OnScreen
    <2> HIDE DEF n, to
    <2>4. /\ e \in Records /\ Same(c, e)
          /\ \A a \in Cells : e.mem[a] = IF a \in to..to + n - 1 THEN c.mem[a - to + (to + NrColumns)] ELSE c.mem[a]
      <3> DEFINE f == to + NrColumns
      <3>1. f \in Int /\ f..f + n - 1 \subseteq Cells /\ e = Copy(c, to, f, n)
        BY <1>2, <1>4, <2>3
      <3> HIDE DEF f, e
      <3>2. IsCopy(e, c, to, f, n)
        BY <1>1, <1>4, <3>1, IsCopied
      <3>3. /\ e \in Records /\ Same(c, e)
            /\ \A a \in Cells : e.mem[a] = IF a \in to..to + n - 1 THEN c.mem[a - to + f] ELSE c.mem[a]
        BY <3>2 DEF IsCopy
      <3> QED BY <3>3 DEF f
    <2> HIDE DEF e
    <2>5. /\ d \in Records /\ Same(e, d)
          /\ \A a \in Cells : d.mem[a] = IF a \in to + n..to + n + NrColumns - 1 THEN Blank ELSE e.mem[a]
      BY <1>2, <1>4, <2>1, <2>4, Filled
    <2> HIDE DEF d
    <2>6. Good(d) /\ Kept(c, d)
      BY <1>1, <2>4, <2>5 DEF Good, OnScreen, Kept, Same
    <2>7. ASSUME NEW l \in Lines, NEW k \in Columns
          PROVE  Shows(d)[l][k] = up[l][k]
      <3> DEFINE a == c.origin + l * NrColumns + k
      <3>1. l \in Int /\ k \in Int /\ l * NrColumns \in Int
        BY <1>2 DEF Lines, Columns
      <3>2. a \in Cells /\ a \in Int
        BY <1>1, <1>3, <3>1, ShownCells
      <3>3. Shows(d)[l][k] = d.mem[a] /\ Shows(c)[l][k] = c.mem[a]
        <4>1. d.origin = c.origin
          BY <2>4, <2>5 DEF Same
        <4> QED BY <4>1 DEF Shows
      <3>4. /\ c.top * NrColumns <= l * NrColumns + k <=> c.top <= l
            /\ c.bottom * NrColumns <= l * NrColumns + k <=> c.bottom <= l
            /\ (c.bottom - 1) * NrColumns <= l * NrColumns + k <=> c.bottom - 1 <= l
        BY <1>3, PlaceOf
      <3>5. (c.bottom - 1) * NrColumns = c.bottom * NrColumns - NrColumns
        BY <1>2, <1>3
      <3>6. CASE l \notin c.top..c.bottom - 1
        <4>1. a \notin to + n..to + n + NrColumns - 1 /\ a \notin to..to + n - 1
          BY <1>2, <1>3, <1>4, <2>2, <3>1, <3>2, <3>4, <3>5, <3>6
        <4> HIDE DEF up
        <4> QED BY <1>5, <2>4, <2>5, <3>2, <3>3, <3>6, <4>1
      <3>7. CASE l \in c.top..c.bottom - 1 /\ l + 1 < c.bottom
        <4>1. a \notin to + n..to + n + NrColumns - 1 /\ a \in to..to + n - 1
          BY <1>2, <1>3, <1>4, <2>2, <3>1, <3>2, <3>4, <3>5, <3>7
        <4>2. d.mem[a] = c.mem[a + NrColumns]
          <5>1. a - to + (to + NrColumns) = a + NrColumns
            BY <1>2, <1>4, <3>2
          <5> HIDE DEF a
          <5> QED BY <2>4, <2>5, <3>2, <4>1, <5>1
        <4>3. l + 1 \in Lines
          BY <1>2, <1>3, <3>1, <3>7 DEF Lines
        <4>4. Shows(c)[l + 1][k] = c.mem[a + NrColumns]
          <5>1. Shows(c)[l + 1][k] = c.mem[c.origin + (l + 1) * NrColumns + k]
            BY <4>3 DEF Shows
          <5>2. c.origin + (l + 1) * NrColumns + k = a + NrColumns
            BY <1>2, <1>3, <3>1
          <5> QED BY <5>1, <5>2
        <4> HIDE DEF up, a
        <4> QED BY <1>5, <3>3, <3>7, <4>2, <4>4
      <3>8. CASE l \in c.top..c.bottom - 1 /\ ~ (l + 1 < c.bottom)
        <4>1. a \in to + n..to + n + NrColumns - 1
          <5>1. l = c.bottom - 1
            BY <1>3, <3>1, <3>8
          <5> QED BY <1>2, <1>3, <1>4, <2>2, <3>1, <3>2, <3>4, <3>5, <3>8, <5>1
        <4> HIDE DEF up, a
        <4> QED BY <1>5, <2>5, <3>2, <3>3, <3>8, <4>1
      <3> QED BY <3>6, <3>7, <3>8
    <2> HIDE DEF up
    <2>8. Shows(d) = up
      BY <1>5, <2>7, ShowsIt
    <2> HIDE DEF Good, Kept, Shows
    <2> QED BY <2>6, <2>8, Zenon DEF up, d
  <1>8. CASE Scrolls /\ c.top = 0 /\ c.bottom = NrLines
    <2> DEFINE f == [c EXCEPT !.origin = @ + NrColumns, !.pos = @ + NrColumns, !.scr_end = @ + NrColumns]
    <2>1. d = Wrapped(f)
      BY <1>3, <1>8 DEF ScrUp
    <2>2. /\ f \in Records /\ f.mem = c.mem /\ Kept(c, f)
          /\ f.origin = c.origin + NrColumns /\ f.pos = c.pos + NrColumns /\ f.scr_end = c.scr_end + NrColumns
      <3> DEFINE o == c.origin + NrColumns
                 p == c.pos + NrColumns
                 s == c.scr_end + NrColumns
      <3>1. f = MovedTo(c, o, p, s)
        BY DEF MovedTo
      <3>2. o \in Int /\ p \in Int /\ s \in Int
        BY <1>2, <1>3
      <3> HIDE DEF f, o, p, s
      <3>3. f \in Records /\ f.mem = c.mem /\ Kept(c, f) /\ f.origin = o /\ f.pos = p /\ f.scr_end = s
        BY <1>1, <3>1, <3>2, Moved
      <3> QED BY <3>3 DEF o, p, s
    <2> HIDE DEF f
    <2>3. c.top = 0 /\ c.bottom = NrLines /\ c.scr_end = c.origin + NrLines * NrColumns
          /\ Start <= c.origin /\ c.scr_end <= End
          /\ c.pos = c.origin + c.y * NrColumns + c.x /\ c.origin..c.scr_end - 1 \subseteq Cells
      BY <1>1, <1>8, ShownCells DEF OnScreen
    <2>4. NrLines * NrColumns <= MemLines * NrColumns /\ MemLines * NrColumns \in Int
          /\ (NrLines - 1) * NrColumns = NrLines * NrColumns - NrColumns
          /\ (NrLines - 1) * NrColumns >= 0
      <3>1. NrLines < MemLines => NrLines * NrColumns + NrColumns <= MemLines * NrColumns
        BY <1>2, Products
      <3>2. NrLines - 1 \in Nat
        BY <1>2
      <3> QED BY <1>2, <3>1, <3>2
    <2>5. ASSUME NEW l \in Lines, NEW k \in Columns
          PROVE  /\ l \in Int /\ k \in Int /\ l * NrColumns \in Int /\ l >= 0
                 /\ l < NrLines /\ k >= 0 /\ k < NrColumns
                 /\ l * NrColumns + k \in 0..NrLines * NrColumns - 1
                 /\ up[l][k] = IF l < NrLines - 1 THEN c.mem[c.origin + l * NrColumns + k + NrColumns] ELSE Blank
                 /\ (NrLines - 1) * NrColumns <= l * NrColumns + k <=> NrLines - 1 <= l
      <3>1. l \in Int /\ k \in Int /\ l >= 0 /\ l < NrLines /\ k >= 0 /\ k < NrColumns
        BY <1>2 DEF Lines, Columns
      <3>2. l * NrColumns \in Int
        BY <1>2, <3>1
      <3>3. CASE l < NrLines - 1
        <4>1. up[l][k] = Shows(c)[l + 1][k] /\ l + 1 \in Lines
          <5> HIDE DEF up
          <5> QED BY <1>2, <1>5, <2>3, <3>1, <3>3 DEF Lines
        <4>2. up[l][k] = c.mem[c.origin + (l + 1) * NrColumns + k]
          BY <4>1 DEF Shows
        <4>3. c.origin + (l + 1) * NrColumns + k = c.origin + l * NrColumns + k + NrColumns
          BY <1>2, <1>3, <3>1, <3>2
        <4> QED BY <1>2, <3>1, <3>2, <3>3, <4>2, <4>3, PlaceOf
      <3>4. CASE ~ (l < NrLines - 1)
        <4>1. up[l][k] = Blank
          <5> HIDE DEF up
          <5> QED BY <1>2, <1>5, <2>3, <3>1, <3>4
        <4> QED BY <1>2, <3>1, <3>2, <3>4, <4>1, PlaceOf
      <3> QED BY <3>3, <3>4
    <2>6. CASE f.scr_end > End
      <3> DEFINE g == Copy(f, Start, f.origin, (NrLines - 1) * NrColumns)
                 h == Fill(g, Start + (NrLines - 1) * NrColumns, NrColumns)
      <3>1. d = [h EXCEPT !.scr_end = @ - (f.origin - Start), !.pos = @ - (f.origin - Start), !.origin = Start]
        BY <2>1, <2>6 DEF Wrapped
      <3>2. /\ g \in Records /\ Same(f, g)
            /\ \A a \in Cells : g.mem[a] = IF a \in Start..Start + (NrLines - 1) * NrColumns - 1
                                           THEN f.mem[a - Start + f.origin] ELSE f.mem[a]
        <4>1. (NrLines - 1) * NrColumns \in Int /\ f.origin \in Int
          BY <1>2, <1>3, <1>4, <2>2, <2>4
        <4>2. f.origin..f.origin + (NrLines - 1) * NrColumns - 1 \subseteq Cells
          BY <1>2, <1>3, <1>4, <2>2, <2>3, <2>4
        <4> HIDE DEF f
        <4> QED BY <1>2, <2>2, <4>1, <4>2, Copied, SMTT(30)
      <3> HIDE DEF g
      <3>3. /\ h \in Records /\ Same(g, h)
            /\ \A a \in Cells : h.mem[a] = IF a \in Start + (NrLines - 1) * NrColumns..Start + (NrLines - 1) * NrColumns + NrColumns - 1
                                           THEN Blank ELSE g.mem[a]
        <4> DEFINE from == Start + (NrLines - 1) * NrColumns
        <4>1. from \in Int /\ NrColumns \in Int
          BY <1>2, <1>4, <2>4
        <4> HIDE DEF from
        <4>2. /\ Fill(g, from, NrColumns) \in Records /\ Same(g, Fill(g, from, NrColumns))
              /\ \A a \in Cells : Fill(g, from, NrColumns).mem[a] =
                                     IF a \in from..from + NrColumns - 1 THEN Blank ELSE g.mem[a]
          BY <3>2, <4>1, Filled, Zenon
        <4> QED BY <4>2, Zenon DEF from
      <3> HIDE DEF h
      <3>4. f.origin \in Int /\ h.scr_end \in Int /\ h.pos \in Int
        BY <2>2, <3>3 DEF Records
      <3> DEFINE p == h.pos - (f.origin - Start)
                 e == h.scr_end - (f.origin - Start)
      <3>5. d = MovedTo(h, Start, p, e)
        BY <3>1 DEF MovedTo
      <3>6. d \in Records /\ d.mem = h.mem /\ Kept(h, d) /\ d.origin = Start /\ d.scr_end = e /\ d.pos = p
        <4>1. p \in Int /\ e \in Int
          BY <1>2, <3>4
        <4> HIDE DEF d, p, e
        <4> QED BY <1>2, <3>3, <3>5, <4>1, Moved
      <3> HIDE DEF d
      <3>8. Kept(c, d) /\ d.scr_end = Start + NrLines * NrColumns /\ d.pos = Start + c.y * NrColumns + c.x
        <4>1. Kept(c, d)
          BY <2>2, <3>2, <3>3, <3>6 DEF Kept, Same
        <4>2. d.scr_end = c.scr_end + NrColumns - (c.origin + NrColumns - Start)
          BY <1>2, <1>3, <2>2, <3>2, <3>3, <3>6 DEF Same
        <4>3. d.pos = c.pos + NrColumns - (c.origin + NrColumns - Start)
          BY <1>2, <1>3, <2>2, <3>2, <3>3, <3>6 DEF Same
        <4> QED BY <1>2, <1>3, <1>4, <2>3, <4>1, <4>2, <4>3
      <3>9. Good(d)
        <4>1. Start + NrLines * NrColumns <= End
          BY <1>2, <1>4, <2>4
        <4> QED BY <1>1, <1>2, <3>6, <3>8, <4>1 DEF Good, OnScreen, Kept
      <3>10. ASSUME NEW l \in Lines, NEW k \in Columns
             PROVE  Shows(d)[l][k] = up[l][k]
        <4> DEFINE a == Start + l * NrColumns + k
        <4>1. Shows(d)[l][k] = h.mem[a]
          BY <3>6 DEF Shows
        <4>2. a \in Cells /\ a \in Int
          <5>1. c.origin = c.origin /\ a <= Start + NrLines * NrColumns - 1 /\ a >= Start
            BY <1>2, <1>4, <2>5
          <5> QED BY <1>2, <1>4, <2>4, <2>5, <5>1 DEF Cells
        <4>3. CASE l < NrLines - 1
          <5>1. a \in Start..Start + (NrLines - 1) * NrColumns - 1
                /\ a \notin Start + (NrLines - 1) * NrColumns..Start + (NrLines - 1) * NrColumns + NrColumns - 1
            BY <1>2, <1>4, <2>4, <2>5, <4>2, <4>3
          <5>2. a - Start + f.origin = c.origin + l * NrColumns + k + NrColumns
            BY <1>2, <1>3, <2>2, <2>5
          <5>3. h.mem[a] = f.mem[a - Start + f.origin]
            <6> HIDE DEF a
            <6> QED BY <3>2, <3>3, <4>2, <5>1
          <5> QED BY <2>2, <2>5, <4>1, <4>3, <5>2, <5>3
        <4>4. CASE ~ (l < NrLines - 1)
          <5>1. a \in Start + (NrLines - 1) * NrColumns..Start + (NrLines - 1) * NrColumns + NrColumns - 1
            <6>1. l = NrLines - 1
              BY <1>2, <2>5, <4>4
            <6> QED BY <1>2, <1>4, <2>4, <2>5, <4>2, <6>1
          <5>2. h.mem[a] = Blank
            <6> HIDE DEF a
            <6> QED BY <3>3, <4>2, <5>1
          <5> QED BY <2>5, <4>1, <4>4, <5>2
        <4> QED BY <4>3, <4>4
      <3> HIDE DEF up
      <3>11. Shows(d) = up
        BY <1>5, <3>10, ShowsIt
      <3> QED BY <3>8, <3>9, <3>11, Zenon DEF up, d
    <2>7. CASE ~ (f.scr_end > End)
      <3>1. d = Fill(f, f.scr_end - NrColumns, NrColumns)
        BY <2>1, <2>7 DEF Wrapped
      <3>2. f.scr_end - NrColumns = c.scr_end
        BY <1>2, <1>3, <2>2
      <3>3. /\ d \in Records /\ Same(f, d)
            /\ \A a \in Cells : d.mem[a] = IF a \in c.scr_end..c.scr_end + NrColumns - 1 THEN Blank ELSE f.mem[a]
        BY <1>2, <1>3, <2>2, <3>1, <3>2, Filled
      <3> HIDE DEF d
      <3>4. d.origin = c.origin + NrColumns /\ d.scr_end = c.scr_end + NrColumns /\ d.pos = c.pos + NrColumns
            /\ Kept(c, d)
        BY <2>2, <3>3 DEF Same, Kept
      <3>5. Good(d)
        <4>1. d.pos = d.origin + d.y * NrColumns + d.x
          BY <1>2, <1>3, <1>4, <2>3, <3>4 DEF Kept
        <4>2. d.scr_end = d.origin + NrLines * NrColumns /\ Start <= d.origin /\ d.scr_end <= End
          BY <1>2, <1>3, <1>4, <2>2, <2>3, <2>7, <3>4
        <4> QED BY <1>1, <3>3, <3>4, <4>1, <4>2 DEF Good, OnScreen, Kept
      <3>6. ASSUME NEW l \in Lines, NEW k \in Columns
            PROVE  Shows(d)[l][k] = up[l][k]
        <4> DEFINE a == c.origin + l * NrColumns + k + NrColumns
        <4>1. Shows(d)[l][k] = d.mem[d.origin + l * NrColumns + k]
          BY DEF Shows
        <4>2. d.origin + l * NrColumns + k = a
          BY <1>2, <1>3, <2>5, <3>4
        <4>3. a \in Cells /\ a \in Int
          <5>1. a >= c.origin + NrColumns /\ a <= c.scr_end + NrColumns - 1 /\ a \in Int
            BY <1>2, <1>3, <1>4, <2>3, <2>5
          <5> QED BY <1>2, <1>3, <1>4, <2>3, <5>1 DEF Cells
        <4>4. a \in c.scr_end..c.scr_end + NrColumns - 1 <=> ~ (l < NrLines - 1)
          BY <1>2, <1>3, <1>4, <2>3, <2>4, <2>5, <4>3
        <4>5. d.mem[a] = IF l < NrLines - 1 THEN c.mem[a] ELSE Blank
          <5> HIDE DEF a
          <5> QED BY <2>2, <3>3, <4>3, <4>4
        <4> QED BY <2>5, <4>1, <4>2, <4>5
      <3> HIDE DEF up
      <3>7. Shows(d) = up
        BY <1>5, <3>6, ShowsIt
      <3> QED BY <3>4, <3>5, <3>7, Zenon DEF up, d
    <2> QED BY <2>6, <2>7
  <1> QED BY <1>7, <1>8

LEMMA ScrDownShows ==
  ASSUME ConsoleAssumption, NEW c, Good(c)
  PROVE  /\ Good(ScrDown(c)) /\ Kept(c, ScrDown(c))
         /\ Shows(ScrDown(c)) = Shown!ScrolledDown(Shows(c), c.top, c.bottom, 1)
  <1> DEFINE n == (c.bottom - c.top - 1) * NrColumns
             from == c.origin + NrColumns * c.top
             down == Shown!ScrolledDown(Shows(c), c.top, c.bottom, 1)
             d == ScrDown(c)
             e == Copy(c, from + NrColumns, from, n)
  <1>1. c \in Records /\ OnScreen(c) /\ c.npar \in 1..NPAR
    BY DEF Good
  <1>2. NrColumns \in Nat \ {0} /\ NrLines \in Nat \ {0}
    BY DEF ConsoleAssumption
  <1>3. /\ c.top \in Int /\ c.bottom \in Int /\ c.origin \in Int /\ c.scr_end \in Int /\ c.pos \in Int
        /\ c.x \in Int /\ c.y \in Int /\ 0 <= c.top /\ c.top < c.bottom /\ c.bottom <= NrLines
    BY <1>1 DEF Records, OnScreen
  <1>4. NrLines * NrColumns \in Int /\ c.y * NrColumns \in Int /\ n \in Int /\ from \in Int /\ n >= 0
    <2>1. c.bottom - c.top - 1 \in Nat
      BY <1>3
    <2> QED BY <1>2, <1>3, <2>1
  <1>5. /\ IsScreen(down)
        /\ \A l \in Lines, k \in Columns : down[l][k] = IF l \notin c.top..c.bottom - 1 THEN Shows(c)[l][k]
                                                        ELSE IF l - 1 >= c.top THEN Shows(c)[l - 1][k] ELSE Blank
    BY <1>3, DownAt, ShownAt
  <1>6. d = Fill(e, from, NrColumns)
    BY <1>3 DEF ScrDown
  <1>7. /\ n = c.bottom * NrColumns - c.top * NrColumns - NrColumns /\ from = c.origin + c.top * NrColumns
        /\ c.top * NrColumns >= 0 /\ c.bottom * NrColumns <= NrLines * NrColumns
        /\ c.top * NrColumns \in Int /\ c.bottom * NrColumns \in Int
    <2>1. c.bottom < NrLines => c.bottom * NrColumns + NrColumns <= NrLines * NrColumns
      BY <1>2, <1>3, Products
    <2>2. c.top * NrColumns >= 0 /\ c.bottom * NrColumns \in Int
      BY <1>2, <1>3
    <2> QED BY <1>2, <1>3, <1>4, <2>1, <2>2
  <1>8. from..from + n - 1 \subseteq Cells
    <2> HIDE DEF n, from
    <2>1. c.origin..c.scr_end - 1 \subseteq Cells
      BY <1>1, ShownCells
    <2> QED BY <1>1, <1>2, <1>3, <1>4, <1>7, <2>1 DEF OnScreen
  <1> HIDE DEF n, from
  <1>9. /\ e \in Records /\ Same(c, e)
        /\ \A a \in Cells : e.mem[a] = IF a \in from + NrColumns..from + NrColumns + n - 1
                                       THEN c.mem[a - (from + NrColumns) + from] ELSE c.mem[a]
    <2> DEFINE to == from + NrColumns
    <2>1. to \in Int
      BY <1>2, <1>4
    <2> HIDE DEF to
    <2>2. LET h == Copy(c, to, from, n) IN
          /\ h \in Records /\ Same(c, h)
          /\ \A a \in Cells : h.mem[a] = IF a \in to..to + n - 1 THEN c.mem[a - to + from] ELSE c.mem[a]
      BY <1>1, <1>4, <1>8, <2>1, Copied
    <2> QED BY <2>2 DEF to
  <1> HIDE DEF e
  <1>10. /\ d \in Records /\ Same(e, d)
         /\ \A a \in Cells : d.mem[a] = IF a \in from..from + NrColumns - 1 THEN Blank ELSE e.mem[a]
    <2>1. e \in Records /\ NrColumns \in Int
      BY <1>2, <1>9
    <2>2. LET h == Fill(e, from, NrColumns) IN
          /\ h \in Records /\ Same(e, h)
          /\ \A a \in Cells : h.mem[a] = IF a \in from..from + NrColumns - 1 THEN Blank ELSE e.mem[a]
      BY <1>4, <2>1, Filled
    <2> HIDE DEF d
    <2> QED BY <1>6, <2>2
  <1> HIDE DEF d
  <1>11. Good(d) /\ Kept(c, d)
    BY <1>1, <1>9, <1>10 DEF Good, OnScreen, Kept, Same
  <1>12. ASSUME NEW l \in Lines, NEW k \in Columns
         PROVE  Shows(d)[l][k] = down[l][k]
    <2> DEFINE a == c.origin + l * NrColumns + k
    <2>1. l \in Int /\ k \in Int /\ l * NrColumns \in Int
      BY <1>2 DEF Lines, Columns
    <2>2. a \in Cells /\ a \in Int
      BY <1>1, <1>3, <2>1, ShownCells
    <2>3. Shows(d)[l][k] = d.mem[a] /\ Shows(c)[l][k] = c.mem[a]
      <3>1. d.origin = c.origin
        BY <1>9, <1>10 DEF Same
      <3> QED BY <3>1 DEF Shows
    <2>4. /\ c.top * NrColumns <= l * NrColumns + k <=> c.top <= l
          /\ c.bottom * NrColumns <= l * NrColumns + k <=> c.bottom <= l
          /\ (c.top + 1) * NrColumns <= l * NrColumns + k <=> c.top + 1 <= l
      BY <1>3, PlaceOf
    <2>5. (c.top + 1) * NrColumns = c.top * NrColumns + NrColumns
      BY <1>2, <1>3
    <2>6. CASE l \notin c.top..c.bottom - 1
      <3>1. a \notin from + NrColumns..from + NrColumns + n - 1 /\ a \notin from..from + NrColumns - 1
        BY <1>2, <1>3, <1>4, <1>7, <2>1, <2>2, <2>4, <2>5, <2>6
      <3> HIDE DEF down, a
      <3> QED BY <1>5, <1>9, <1>10, <2>2, <2>3, <2>6, <3>1
    <2>7. CASE l \in c.top..c.bottom - 1 /\ l - 1 >= c.top
      <3>1. a \in from + NrColumns..from + NrColumns + n - 1 /\ a \notin from..from + NrColumns - 1
        BY <1>2, <1>3, <1>4, <1>7, <2>1, <2>2, <2>4, <2>5, <2>7
      <3>2. d.mem[a] = c.mem[a - NrColumns]
        <4>1. a - (from + NrColumns) + from = a - NrColumns
          BY <1>2, <1>4, <2>2
        <4> HIDE DEF a
        <4> QED BY <1>9, <1>10, <2>2, <3>1, <4>1
      <3>3. l - 1 \in Lines
        BY <1>2, <1>3, <2>1, <2>7 DEF Lines
      <3>4. Shows(c)[l - 1][k] = c.mem[a - NrColumns]
        <4>1. Shows(c)[l - 1][k] = c.mem[c.origin + (l - 1) * NrColumns + k]
          BY <3>3 DEF Shows
        <4>2. c.origin + (l - 1) * NrColumns + k = a - NrColumns
          BY <1>2, <1>3, <2>1
        <4> QED BY <4>1, <4>2
      <3> HIDE DEF down, a
      <3> QED BY <1>5, <2>3, <2>7, <3>2, <3>4
    <2>8. CASE l \in c.top..c.bottom - 1 /\ ~ (l - 1 >= c.top)
      <3>1. a \in from..from + NrColumns - 1
        <4>1. l = c.top
          BY <1>3, <2>1, <2>8
        <4> QED BY <1>2, <1>3, <1>4, <1>7, <2>1, <2>2, <2>4, <2>5, <2>8, <4>1
      <3> HIDE DEF down, a
      <3> QED BY <1>5, <1>10, <2>2, <2>3, <2>8, <3>1
    <2> QED BY <2>6, <2>7, <2>8
  <1> HIDE DEF down
  <1>13. Shows(d) = down
    BY <1>5, <1>12, ShowsIt
  <1> QED BY <1>11, <1>13, Zenon DEF down, d

-----------------------------------------------------------------------------
(* The cursor moves. *)
MovesTo(c, d) == Good(d) /\ Shows(d) = Shows(c) /\ d.top = c.top /\ d.bottom = c.bottom

LEMMA Sizes ==
  ASSUME ConsoleAssumption, NEW c, Good(c)
  PROVE  /\ c \in Records /\ OnScreen(c) /\ c.npar \in 1..NPAR
         /\ NrColumns \in Nat \ {0} /\ NrLines \in Nat \ {0} /\ NPAR \in Nat \ {0, 1}
         /\ c.top \in Int /\ c.bottom \in Int /\ c.origin \in Int /\ c.scr_end \in Int /\ c.pos \in Int
         /\ c.x \in Int /\ c.y \in Int /\ c.npar \in Int /\ c.saved_x \in Int /\ c.saved_y \in Int
         /\ c.y * NrColumns \in Int /\ c.y \in Lines /\ c.x >= 0 /\ c.x <= NrColumns
         /\ c.pos = c.origin + c.y * NrColumns + c.x
         /\ c.scr_end = c.origin + NrLines * NrColumns /\ NrLines * NrColumns \in Int
         /\ 0 <= c.top /\ c.top < c.bottom /\ c.bottom <= NrLines
         /\ c.mem \in [Cells -> Chars] /\ c.par \in [1..NPAR -> Nat]
  <1>1. c \in Records /\ OnScreen(c) /\ c.npar \in 1..NPAR
    BY DEF Good
  <1>2. NrColumns \in Nat \ {0} /\ NrLines \in Nat \ {0} /\ NPAR \in Nat \ {0, 1}
    BY DEF ConsoleAssumption
  <1>3. /\ c.top \in Int /\ c.bottom \in Int /\ c.origin \in Int /\ c.scr_end \in Int /\ c.pos \in Int
        /\ c.x \in Int /\ c.y \in Int /\ c.npar \in Int /\ c.saved_x \in Int /\ c.saved_y \in Int
        /\ c.mem \in [Cells -> Chars] /\ c.par \in [1..NPAR -> Nat]
    BY <1>1 DEF Records
  <1>4. c.y * NrColumns \in Int /\ NrLines * NrColumns \in Int
    BY <1>2, <1>3
  <1>5. /\ c.y \in Lines /\ c.x >= 0 /\ c.x <= NrColumns
        /\ c.pos = c.origin + c.y * NrColumns + c.x /\ c.scr_end = c.origin + NrLines * NrColumns
        /\ 0 <= c.top /\ c.top < c.bottom /\ c.bottom <= NrLines
    BY <1>1, <1>2, <1>3 DEF OnScreen, Lines
  <1> QED BY <1>1, <1>2, <1>3, <1>4, <1>5

LEMMA CursorMoves ==
  ASSUME ConsoleAssumption, NEW c, Good(c), NEW d \in Records, d.mem = c.mem,
         d.origin = c.origin, d.scr_end = c.scr_end, d.top = c.top, d.bottom = c.bottom,
         d.npar \in 1..NPAR, d.x \in 0..NrColumns, d.y \in Lines,
         d.pos = c.origin + d.y * NrColumns + d.x
  PROVE  MovesTo(c, d)
  <1>1. OnScreen(c)
    BY DEF Good
  <1>2. Good(d)
    BY <1>1 DEF Good, OnScreen, Lines
  <1>3. Shows(d) = Shows(c)
    BY DEF Shows
  <1> QED BY <1>2, <1>3 DEF MovesTo

LEMMA MovesThrough ==
  ASSUME NEW c, NEW d, NEW e, MovesTo(c, d), MovesTo(d, e)
  PROVE  MovesTo(c, e)
  BY DEF MovesTo

LEMMA StaysThere ==
  ASSUME NEW c, Good(c)
  PROVE  MovesTo(c, c)
  BY DEF MovesTo

At(c, nx, ny, p) == [c EXCEPT !.x = nx, !.y = ny, !.pos = p]

LEMMA AtMoves ==
  ASSUME ConsoleAssumption, NEW c, Good(c), NEW nx \in 0..NrColumns, NEW ny \in Lines, NEW p,
         p = c.origin + ny * NrColumns + nx
  PROVE  MovesTo(c, At(c, nx, ny, p)) /\ At(c, nx, ny, p).x = nx /\ At(c, nx, ny, p).y = ny
  <1> DEFINE d == At(c, nx, ny, p)
  <1>1. c \in Records /\ NrColumns \in Int /\ c.origin \in Int /\ c.npar \in 1..NPAR /\ NrLines \in Int
    BY Sizes
  <1>2. nx \in Int /\ ny \in Int /\ p \in Int
    BY <1>1 DEF Lines
  <1>3. /\ d \in Records /\ d.mem = c.mem /\ d.origin = c.origin /\ d.scr_end = c.scr_end
        /\ d.top = c.top /\ d.bottom = c.bottom /\ d.npar = c.npar /\ d.x = nx /\ d.y = ny /\ d.pos = p
    BY <1>1, <1>2 DEF At, Records
  <1> HIDE DEF d
  <1>4. MovesTo(c, d)
    BY <1>1, <1>3, CursorMoves
  <1> QED BY <1>3, <1>4 DEF d

LEMMA GotoXYMoves ==
  ASSUME ConsoleAssumption, NEW c, Good(c), NEW nx \in Int, NEW ny \in Int
  PROVE  MovesTo(c, GotoXY(c, nx, ny))
  <1>1. CASE nx \notin 0..NrColumns \/ ny \notin 0..NrLines - 1
    BY <1>1, StaysThere DEF GotoXY
  <1>2. CASE nx \in 0..NrColumns /\ ny \in Lines
    <2>1. GotoXY(c, nx, ny) = At(c, nx, ny, c.origin + ny * NrColumns + nx)
      BY <1>2 DEF GotoXY, At, Lines
    <2> DEFINE p == c.origin + ny * NrColumns + nx
    <2>2. p = c.origin + ny * NrColumns + nx
      OBVIOUS
    <2> HIDE DEF p
    <2>3. MovesTo(c, At(c, nx, ny, p))
      BY <1>2, <2>2, AtMoves
    <2> QED BY <2>1, <2>3, Zenon DEF p
  <1> QED BY <1>1, <1>2 DEF Lines

(* The console fits the actions of the screen. *)
Feeds(c, d) ==
  /\ Good(d) /\ d.top = c.top /\ d.bottom = c.bottom
  /\ IF c.y + 1 < c.bottom THEN Shows(d) = Shows(c) /\ d.y = c.y + 1
     ELSE Shows(d) = Shown!ScrolledUp(Shows(c), c.top, c.bottom, 1) /\ d.y = c.y

LEMMA LfFeeds ==
  ASSUME ConsoleAssumption, NEW c, Good(c)
  PROVE  Feeds(c, Lf(c)) /\ Lf(c).x = c.x
  <1>1. CASE c.y + 1 < c.bottom
    <2> DEFINE p == c.pos + NrColumns
    <2>1. Lf(c) = At(c, c.x, c.y + 1, p)
      <3>1. c \in Records
        BY Sizes
      <3> QED BY <1>1, <3>1 DEF Lf, At, Records
    <2>2. c.y + 1 \in Lines /\ c.x \in 0..NrColumns /\ (c.y + 1) * NrColumns = c.y * NrColumns + NrColumns
      <3>1. c.y + 1 \in Lines /\ c.x \in 0..NrColumns
        BY <1>1, Sizes DEF Lines
      <3>2. NrColumns \in Int /\ c.y \in Int
        BY Sizes
      <3> QED BY <3>1, <3>2
    <2>3. p = c.origin + (c.y + 1) * NrColumns + c.x
      <3>1. c.origin \in Int /\ c.x \in Int /\ c.y * NrColumns \in Int /\ NrColumns \in Int
            /\ c.pos = c.origin + c.y * NrColumns + c.x
        BY Sizes
      <3> QED BY <2>2, <3>1
    <2> HIDE DEF p
    <2>4. MovesTo(c, Lf(c)) /\ Lf(c).x = c.x /\ Lf(c).y = c.y + 1
      BY <2>1, <2>2, <2>3, AtMoves
    <2> QED BY <1>1, <2>4 DEF Feeds, MovesTo
  <1>2. CASE ~ (c.y + 1 < c.bottom)
    <2>1. Lf(c) = ScrUp(c)
      BY <1>2 DEF Lf
    <2> QED BY <1>2, <2>1, ScrUpShows DEF Feeds, Kept
  <1> QED BY <1>1, <1>2


LEMMA RiFeeds ==
  ASSUME ConsoleAssumption, NEW c, Good(c)
  PROVE  \/ MovesTo(c, Ri(c))
         \/ /\ c.y <= c.top /\ Good(Ri(c)) /\ Kept(c, Ri(c))
            /\ Shows(Ri(c)) = Shown!ScrolledDown(Shows(c), c.top, c.bottom, 1)
  <1>1. CASE c.y > c.top
    <2> DEFINE p == c.pos - NrColumns
    <2>1. Ri(c) = At(c, c.x, c.y - 1, p)
      <3>1. c \in Records
        BY Sizes
      <3> QED BY <1>1, <3>1 DEF Ri, At, Records
    <2>2. c.y - 1 \in Lines /\ c.x \in 0..NrColumns /\ (c.y - 1) * NrColumns = c.y * NrColumns - NrColumns
      <3>1. c.y - 1 \in Lines /\ c.x \in 0..NrColumns
        BY <1>1, Sizes DEF Lines
      <3>2. NrColumns \in Int /\ c.y \in Int
        BY Sizes
      <3> QED BY <3>1, <3>2
    <2>3. p = c.origin + (c.y - 1) * NrColumns + c.x
      <3>1. c.origin \in Int /\ c.x \in Int /\ c.y * NrColumns \in Int /\ NrColumns \in Int
            /\ c.pos = c.origin + c.y * NrColumns + c.x
        BY Sizes
      <3> QED BY <2>2, <3>1
    <2> HIDE DEF p
    <2>4. MovesTo(c, Ri(c))
      BY <2>1, <2>2, <2>3, AtMoves
    <2> QED BY <2>4
  <1>2. CASE ~ (c.y > c.top)
    <2>1. Ri(c) = ScrDown(c) /\ c.y <= c.top
      BY <1>2, Sizes DEF Ri
    <2> QED BY <2>1, ScrDownShows
  <1> QED BY <1>1, <1>2

-----------------------------------------------------------------------------
(* Cells are cleared. *)
IsFilled(c, d, r, n) ==
  /\ Good(d) /\ Kept(c, d) /\ d.pos = c.pos
  /\ \A l \in Lines, k \in Columns :
       Shows(d)[l][k] = IF l * NrColumns + k \in r..r + n - 1 THEN Blank ELSE Shows(c)[l][k]

LEMMA FillClears ==
  ASSUME ConsoleAssumption, NEW c, Good(c), NEW r \in Int, NEW n \in Int
  PROVE  IsFilled(c, Fill(c, c.origin + r, n), r, n)
  <1> DEFINE from == c.origin + r
             d == Fill(c, from, n)
  <1>1. c \in Records /\ OnScreen(c) /\ c.npar \in 1..NPAR /\ c.origin \in Int /\ NrColumns \in Int
    BY Sizes
  <1>2. from \in Int
    BY <1>1
  <1> HIDE DEF from
  <1>3. /\ d \in Records /\ Same(c, d)
        /\ \A a \in Cells : d.mem[a] = IF a \in from..from + n - 1 THEN Blank ELSE c.mem[a]
    BY <1>1, <1>2, Filled
  <1> HIDE DEF d
  <1>4. Good(d) /\ Kept(c, d) /\ d.pos = c.pos
    BY <1>1, <1>3 DEF Good, OnScreen, Same, Kept
  <1>5. ASSUME NEW l \in Lines, NEW k \in Columns
        PROVE  Shows(d)[l][k] = IF l * NrColumns + k \in r..r + n - 1 THEN Blank ELSE Shows(c)[l][k]
    <2> DEFINE i == l * NrColumns + k
               a == c.origin + l * NrColumns + k
    <2>1. a \in Cells
      BY <1>1, ShownCells
    <2>2. i \in Int /\ a = c.origin + i /\ l * NrColumns \in Int
      BY <1>1 DEF Lines, Columns
    <2>3. a \in from..from + n - 1 <=> i \in r..r + n - 1
      <3> HIDE DEF i, a
      <3> QED BY <1>1, <1>2, <2>2 DEF from
    <2>4. Shows(d)[l][k] = d.mem[a] /\ Shows(c)[l][k] = c.mem[a]
      <3>1. d.origin = c.origin
        BY <1>3 DEF Same
      <3> QED BY <3>1 DEF Shows
    <2> HIDE DEF a, i
    <2>5. Shows(d)[l][k] = IF i \in r..r + n - 1 THEN Blank ELSE Shows(c)[l][k]
      BY <1>3, <2>1, <2>3, <2>4
    <2> QED BY <2>5 DEF i
  <1> QED BY <1>4, <1>5 DEF d, from, IsFilled

Cleared(s, i, j) ==
  [l \in Lines |-> [k \in Columns |-> IF l * NrColumns + k \in i..j - 1 THEN Blank ELSE s[l][k]]]

(* As Clear of the screen says it. *)
Clears(c, d) ==
  /\ Good(d) /\ d.x = c.x /\ d.y = c.y /\ d.top = c.top /\ d.bottom = c.bottom
  /\ LET p == c.y * NrColumns + c.x
         e == NrLines * NrColumns
         i == c.y * NrColumns
         j == (c.y + 1) * NrColumns
     IN  \/ Shows(d) = Cleared(Shows(c), p, e)
         \/ Shows(d) = Cleared(Shows(c), 0, p)
         \/ Shows(d) = Cleared(Shows(c), 0, e)
         \/ Shows(d) = Cleared(Shows(c), p, j)
         \/ Shows(d) = Cleared(Shows(c), i, p)
         \/ Shows(d) = Cleared(Shows(c), i, j)

LEMMA RangeClears ==
  ASSUME ConsoleAssumption, NEW c, Good(c), NEW i \in Int, NEW j \in Int
  PROVE  LET d == Fill(c, c.origin + i, j - i) IN
         Good(d) /\ Kept(c, d) /\ d.pos = c.pos /\ Shows(d) = Cleared(Shows(c), i, j)
  <1> DEFINE n == j - i
             d == Fill(c, c.origin + i, n)
             s == Cleared(Shows(c), i, j)
  <1>1. n \in Int /\ i..i + n - 1 = i..j - 1
    OBVIOUS
  <1> HIDE DEF n
  <1>2. /\ Good(d) /\ Kept(c, d) /\ d.pos = c.pos
        /\ \A l \in Lines, k \in Columns :
             Shows(d)[l][k] = IF l * NrColumns + k \in i..i + n - 1 THEN Blank ELSE Shows(c)[l][k]
    BY <1>1, FillClears, ZenonT(30) DEF IsFilled
  <1>3. IsScreen(s) /\ \A l \in Lines, k \in Columns :
           s[l][k] = IF l * NrColumns + k \in i..j - 1 THEN Blank ELSE Shows(c)[l][k]
    BY DEF Cleared, IsScreen
  <1> HIDE DEF d, s
  <1>4. \A l \in Lines, k \in Columns : Shows(d)[l][k] = s[l][k]
    <2> SUFFICES ASSUME NEW l \in Lines, NEW k \in Columns PROVE Shows(d)[l][k] = s[l][k]
      OBVIOUS
    <2> DEFINE v == l * NrColumns + k
    <2>1. Shows(d)[l][k] = IF v \in i..i + n - 1 THEN Blank ELSE Shows(c)[l][k]
      BY <1>2
    <2>2. s[l][k] = IF v \in i..j - 1 THEN Blank ELSE Shows(c)[l][k]
      BY <1>3
    <2> HIDE DEF v
    <2>3. v \in i..i + n - 1 <=> v \in i..j - 1
      BY <1>1, Zenon
    <2> QED BY <2>1, <2>2, <2>3
  <1>5. Shows(d) = s
    BY <1>3, <1>4, ShowsIt
  <1> QED BY <1>2, <1>5, Zenon DEF d, s, n

LEMMA CsiJClears ==
  ASSUME ConsoleAssumption, NEW c, Good(c), NEW par
  PROVE  CsiJ(c, par) = c \/ Clears(c, CsiJ(c, par))
  <1> DEFINE p == c.y * NrColumns + c.x
             e == NrLines * NrColumns
             z == 0
  <1>1. /\ p \in Int /\ e \in Int /\ c.pos = c.origin + p /\ c.scr_end - c.pos = e - p
        /\ c.pos - c.origin = p - z /\ c.origin = c.origin + z /\ e = e - z /\ z \in Int
    <2>1. /\ c.origin \in Int /\ c.x \in Int /\ c.y * NrColumns \in Int /\ NrLines * NrColumns \in Int
          /\ c.pos = c.origin + c.y * NrColumns + c.x /\ c.scr_end = c.origin + NrLines * NrColumns
      BY Sizes
    <2> QED BY <2>1
  <1> HIDE DEF p, e, z
  <1>2. CASE par = 0
    <2>1. CsiJ(c, par) = Fill(c, c.pos, c.scr_end - c.pos)
      BY <1>2 DEF CsiJ
    <2> DEFINE d == Fill(c, c.pos, c.scr_end - c.pos)
    <2>2. Good(d) /\ Kept(c, d) /\ Shows(d) = Cleared(Shows(c), p, e)
      <3>1. d = Fill(c, c.origin + p, e - p)
        BY <1>1
      <3> HIDE DEF d
      <3> QED BY <1>1, <3>1, RangeClears
    <2>3. Clears(c, d)
      <3> HIDE DEF d
      <3> QED BY <2>2, Zenon DEF Clears, Kept, p, e
    <2> QED BY <2>1, <2>3
  <1>3. CASE par = 1
    <2>1. CsiJ(c, par) = Fill(c, c.origin, c.pos - c.origin)
      BY <1>3 DEF CsiJ
    <2> DEFINE d == Fill(c, c.origin, c.pos - c.origin)
    <2>2. Good(d) /\ Kept(c, d) /\ Shows(d) = Cleared(Shows(c), z, p)
      <3>1. d = Fill(c, c.origin + z, p - z)
        BY <1>1
      <3> HIDE DEF d
      <3> QED BY <1>1, <3>1, RangeClears
    <2>3. Clears(c, d)
      <3> HIDE DEF d
      <3> QED BY <2>2, Zenon DEF Clears, Kept, p, z
    <2> QED BY <2>1, <2>3
  <1>4. CASE par = 2
    <2>1. CsiJ(c, par) = Fill(c, c.origin, e)
      BY <1>4 DEF CsiJ, e
    <2> DEFINE d == Fill(c, c.origin, e)
    <2>2. Good(d) /\ Kept(c, d) /\ Shows(d) = Cleared(Shows(c), z, e)
      <3>1. d = Fill(c, c.origin + z, e - z)
        BY <1>1
      <3> HIDE DEF d
      <3> QED BY <1>1, <3>1, RangeClears
    <2>3. Clears(c, d)
      <3> HIDE DEF d
      <3> QED BY <2>2, Zenon DEF Clears, Kept, e, z
    <2> QED BY <2>1, <2>3
  <1>5. CASE par \notin {0, 1, 2}
    BY <1>5 DEF CsiJ
  <1> QED BY <1>2, <1>3, <1>4, <1>5

LEMMA CsiKClears ==
  ASSUME ConsoleAssumption, NEW c, Good(c), NEW par
  PROVE  CsiK(c, par) = c \/ Clears(c, CsiK(c, par))
  <1> DEFINE p == c.y * NrColumns + c.x
             f == c.y * NrColumns
             e == (c.y + 1) * NrColumns
  <1>1. /\ p \in Int /\ e \in Int /\ f \in Int /\ c.pos = c.origin + p
        /\ NrColumns - c.x = e - p /\ c.pos - c.x = c.origin + f /\ NrColumns = e - f
        /\ Least(c.x, NrColumns) = p - f
    <2>1. e = c.y * NrColumns + NrColumns
      <3>1. c.y \in Int /\ NrColumns \in Int
        BY Sizes
      <3> QED BY <3>1
    <2> HIDE DEF e
    <2>2. Least(c.x, NrColumns) = c.x
      BY Sizes DEF Least
    <2>3. /\ c.origin \in Int /\ c.x \in Int /\ c.y * NrColumns \in Int /\ NrColumns \in Int
          /\ c.pos = c.origin + c.y * NrColumns + c.x
      BY Sizes
    <2> QED BY <2>1, <2>2, <2>3
  <1> HIDE DEF p, f, e
  <1>2. CASE par = 0 /\ c.x < NrColumns
    <2>1. CsiK(c, par) = Fill(c, c.pos, NrColumns - c.x)
      BY <1>2 DEF CsiK
    <2> DEFINE d == Fill(c, c.pos, NrColumns - c.x)
    <2>2. Good(d) /\ Kept(c, d) /\ Shows(d) = Cleared(Shows(c), p, e)
      <3>1. d = Fill(c, c.origin + p, e - p)
        BY <1>1
      <3> HIDE DEF d
      <3> QED BY <1>1, <3>1, RangeClears
    <2>3. Clears(c, d)
      <3> HIDE DEF d
      <3> QED BY <2>2, Zenon DEF Clears, Kept, p, e
    <2> QED BY <2>1, <2>3
  <1>3. CASE par = 1
    <2>1. CsiK(c, par) = Fill(c, c.pos - c.x, Least(c.x, NrColumns))
      BY <1>3 DEF CsiK
    <2> DEFINE d == Fill(c, c.pos - c.x, Least(c.x, NrColumns))
    <2>2. Good(d) /\ Kept(c, d) /\ Shows(d) = Cleared(Shows(c), f, p)
      <3>1. d = Fill(c, c.origin + f, p - f)
        BY <1>1
      <3> HIDE DEF d
      <3> QED BY <1>1, <3>1, RangeClears
    <2>3. Clears(c, d)
      <3> HIDE DEF d
      <3> QED BY <2>2, Zenon DEF Clears, Kept, p, f
    <2> QED BY <2>1, <2>3
  <1>4. CASE par = 2
    <2>1. CsiK(c, par) = Fill(c, c.pos - c.x, NrColumns)
      BY <1>4 DEF CsiK
    <2> DEFINE d == Fill(c, c.pos - c.x, NrColumns)
    <2>2. Good(d) /\ Kept(c, d) /\ Shows(d) = Cleared(Shows(c), f, e)
      <3>1. d = Fill(c, c.origin + f, e - f)
        BY <1>1
      <3> HIDE DEF d
      <3> QED BY <1>1, <3>1, RangeClears
    <2>3. Clears(c, d)
      <3> HIDE DEF d
      <3> QED BY <2>2, Zenon DEF Clears, Kept, f, e
    <2> QED BY <2>1, <2>3
  <1>5. CASE ~ (par = 0 /\ c.x < NrColumns) /\ par \notin {1, 2}
    BY <1>5 DEF CsiK
  <1> QED BY <1>2, <1>3, <1>4, <1>5

-----------------------------------------------------------------------------
(* One cell is written. *)
Pointed(s, i, j, v) == [s EXCEPT ![i][j] = v]

LEMMA PointOf ==
  ASSUME NEW s, IsScreen(s), NEW i \in Lines, NEW j \in Columns, NEW v
  PROVE  /\ IsScreen(Pointed(s, i, j, v))
         /\ \A l \in Lines, k \in Columns :
              Pointed(s, i, j, v)[l][k] = IF l = i /\ k = j THEN v ELSE s[l][k]
  <1> DEFINE t == Pointed(s, i, j, v)
             r == [s[i] EXCEPT ![j] = v]
  <1>1. /\ DOMAIN s = Lines /\ s = [l \in Lines |-> s[l]]
        /\ \A l \in Lines : s[l] = [k \in Columns |-> s[l][k]]
    BY Zenon DEF IsScreen
  <1>2. r = [k \in Columns |-> IF k = j THEN v ELSE s[i][k]]
    BY <1>1
  <1>3. t = [s EXCEPT ![i] = r]
    BY DEF Pointed
  <1> HIDE DEF r
  <1>4. t = [l \in Lines |-> IF l = i THEN r ELSE s[l]]
    BY <1>1, <1>3
  <1> HIDE DEF t
  <1>5. ASSUME NEW l \in Lines
        PROVE  /\ t[l] = [k \in Columns |-> t[l][k]]
               /\ \A k \in Columns : t[l][k] = IF l = i /\ k = j THEN v ELSE s[l][k]
    <2>1. CASE l = i
      <3>1. t[l] = r
        BY <1>4, <2>1
      <3> QED BY <1>2, <2>1, <3>1
    <2>2. CASE l # i
      <3>1. t[l] = s[l]
        BY <1>4, <2>2
      <3> QED BY <1>1, <2>2, <3>1
    <2> QED BY <2>1, <2>2
  <1>6. IsScreen(t)
    <2>1. [l \in Lines |-> t[l]] = [l \in Lines |-> [k \in Columns |-> t[l][k]]]
      BY <1>5, Zenon
    <2> QED BY <1>4, <2>1 DEF IsScreen
  <1> QED BY <1>5, <1>6 DEF t

Wrote(c, m, p, i) == [c EXCEPT !.mem = m, !.pos = p, !.x = i]

LEMMA Writing ==
  ASSUME NEW c \in Records, NEW m \in [Cells -> Chars], NEW p \in Int, NEW i \in Int
  PROVE  LET d == Wrote(c, m, p, i) IN
         /\ d \in Records /\ d.mem = m /\ d.pos = p /\ d.x = i /\ d.y = c.y
         /\ d.top = c.top /\ d.bottom = c.bottom /\ d.origin = c.origin /\ d.scr_end = c.scr_end
         /\ d.npar = c.npar
  BY DEF Wrote, Records

Placed(c, v) == [c EXCEPT !.mem[c.pos] = v, !.pos = @ + 1, !.x = @ + 1]

IsPut(c, d, v) ==
  /\ Good(d) /\ d.x = c.x + 1 /\ d.y = c.y /\ d.top = c.top /\ d.bottom = c.bottom
  /\ Shows(d) = Pointed(Shows(c), c.y, c.x, v)

LEMMA PutShows ==
  ASSUME ConsoleAssumption, NEW c, Good(c), c.x < NrColumns, NEW v \in Chars
  PROVE  IsPut(c, Placed(c, v), v)
  <1> DEFINE d == Placed(c, v)
             t == Pointed(Shows(c), c.y, c.x, v)
             m == [c.mem EXCEPT ![c.pos] = v]
  <1>1. /\ c \in Records /\ OnScreen(c) /\ c.npar \in 1..NPAR /\ c.y \in Lines /\ c.x \in Columns
        /\ c.x \in Int /\ c.pos \in Int /\ c.pos = c.origin + c.y * NrColumns + c.x /\ c.mem \in [Cells -> Chars]
        /\ c.origin \in Int /\ NrColumns \in Int /\ c.y * NrColumns \in Int
    BY Sizes DEF Columns
  <1>2. c.pos \in Cells
    BY <1>1, ShownCells
  <1>3. m \in [Cells -> Chars] /\ \A a \in Cells : m[a] = IF a = c.pos THEN v ELSE c.mem[a]
    BY <1>1, <1>2
  <1>4. d = Wrote(c, m, c.pos + 1, c.x + 1)
    BY <1>1 DEF Placed, Wrote, Records
  <1> HIDE DEF m, d
  <1>5. /\ d \in Records /\ d.mem = m /\ d.pos = c.pos + 1 /\ d.x = c.x + 1 /\ d.y = c.y
        /\ d.top = c.top /\ d.bottom = c.bottom /\ d.origin = c.origin /\ d.scr_end = c.scr_end
        /\ d.npar = c.npar
    <2>1. c.pos + 1 \in Int /\ c.x + 1 \in Int
      BY <1>1
    <2> QED BY <1>1, <1>3, <1>4, <2>1, Writing
  <1>6. Good(d)
    <2>1. d.x \in 0..NrColumns
      BY <1>1, <1>5 DEF Columns
    <2>2. d.pos = d.origin + d.y * NrColumns + d.x
      BY <1>1, <1>5
    <2>3. OnScreen(d)
      BY <1>1, <1>5, <2>1, <2>2 DEF OnScreen
    <2> QED BY <1>1, <1>5, <2>3 DEF Good
  <1>7. IsScreen(t) /\ \A l \in Lines, k \in Columns : t[l][k] = IF l = c.y /\ k = c.x THEN v ELSE Shows(c)[l][k]
    BY <1>1, PointOf, ShownAt
  <1> HIDE DEF t
  <1>8. ASSUME NEW l \in Lines, NEW k \in Columns
        PROVE  Shows(d)[l][k] = t[l][k]
    <2> DEFINE a == c.origin + l * NrColumns + k
    <2>1. a \in Cells /\ Shows(d)[l][k] = m[a] /\ Shows(c)[l][k] = c.mem[a]
      BY <1>1, <1>5, ShownCells DEF Shows
    <2>2. a = c.pos <=> l = c.y /\ k = c.x
      <3>1. l * NrColumns + k = c.y * NrColumns + c.x <=> l = c.y /\ k = c.x
        <4>1. c.y \in Int
          BY Sizes
        <4> QED BY <1>1, <4>1, PlaceOf
      <3> DEFINE u == l * NrColumns
                 w == c.y * NrColumns
      <3>2. u \in Int /\ k \in Int /\ w \in Int /\ a = c.origin + u + k /\ c.pos = c.origin + w + c.x
            /\ (u + k = w + c.x <=> l = c.y /\ k = c.x)
        BY <1>1, <3>1 DEF Lines, Columns
      <3> HIDE DEF a, u, w
      <3> QED BY <1>1, <3>2
    <2> HIDE DEF a
    <2> QED BY <1>3, <1>7, <2>1, <2>2
  <1>9. Shows(d) = t
    BY <1>7, <1>8, ShowsIt
  <1> QED BY <1>5, <1>6, <1>9, Zenon DEF d, t, IsPut

(* Delete of the screen. *)
Deletes(c, d) ==
  /\ Good(d) /\ d.top = c.top /\ d.bottom = c.bottom
  /\ c.x > 0 /\ d.x = c.x - 1 /\ d.y = c.y
  /\ Shows(d) = [Shows(c) EXCEPT ![c.y][c.x - 1] = Blank]

LEMMA DelDeletes ==
  ASSUME ConsoleAssumption, NEW c, Good(c)
  PROVE  Del(c) = c \/ Deletes(c, Del(c))
  <1> SUFFICES ASSUME c.x > 0 PROVE Deletes(c, Del(c))
    BY DEF Del
  <1> DEFINE e == [c EXCEPT !.pos = @ - 1, !.x = @ - 1]
             d == Del(c)
             t == Pointed(Shows(c), c.y, c.x - 1, Blank)
             r == c.y * NrColumns + c.x - 1
  <1>1. /\ c \in Records /\ c.x \in Int /\ c.pos \in Int /\ c.y \in Lines /\ c.x - 1 \in 0..NrColumns
        /\ c.pos = c.origin + c.y * NrColumns + c.x /\ c.x - 1 \in Columns
        /\ c.origin \in Int /\ NrColumns \in Int /\ c.y * NrColumns \in Int
    <2> HIDE DEF e, d, t, r
    <2>1. /\ c \in Records /\ c.x \in Int /\ c.pos \in Int /\ c.y \in Lines
          /\ c.pos = c.origin + c.y * NrColumns + c.x /\ c.x <= NrColumns
          /\ c.origin \in Int /\ NrColumns \in Int /\ c.y * NrColumns \in Int
      BY Sizes
    <2>2. c.x - 1 \in 0..NrColumns /\ c.x - 1 \in Columns
      BY <2>1 DEF Columns
    <2> QED BY <2>1, <2>2
  <1>2. e = At(c, c.x - 1, c.y, c.pos - 1)
    BY <1>1 DEF At, Records
  <1>3. MovesTo(c, e) /\ e.x = c.x - 1 /\ e.y = c.y
    <2>1. c.pos - 1 = c.origin + c.y * NrColumns + (c.x - 1)
      BY <1>1
    <2> HIDE DEF e
    <2> QED BY <1>1, <1>2, <2>1, AtMoves
  <1>4. c.pos - 1 = e.origin + r /\ r \in Int /\ r + 1 - 1 = r
    <2>1. e.origin = c.origin
      BY <1>1 DEF Records
    <2> QED BY <1>1, <2>1
  <1>5. d = Fill(e, e.origin + r, 1)
    BY <1>4 DEF Del
  <1> HIDE DEF e, r
  <1>6. /\ Good(d) /\ Kept(e, d)
        /\ \A l \in Lines, k \in Columns :
             Shows(d)[l][k] = IF l * NrColumns + k \in r..r + 1 - 1 THEN Blank ELSE Shows(e)[l][k]
    <2> HIDE DEF d
    <2> DEFINE n == 1
    <2>1. n \in Int /\ Good(e) /\ d = Fill(e, e.origin + r, n) /\ r \in Int
      BY <1>3, <1>4, <1>5 DEF MovesTo
    <2> HIDE DEF n
    <2>2. IsFilled(e, Fill(e, e.origin + r, n), r, n)
      BY <2>1, FillClears
    <2>3. IsFilled(e, d, r, n)
      BY <2>1, <2>2
    <2> QED BY <2>3 DEF IsFilled, n
  <1> HIDE DEF d
  <1>7. IsScreen(t) /\ \A l \in Lines, k \in Columns : t[l][k] = IF l = c.y /\ k = c.x - 1 THEN Blank ELSE Shows(c)[l][k]
    BY <1>1, PointOf, ShownAt
  <1> HIDE DEF t
  <1>8. ASSUME NEW l \in Lines, NEW k \in Columns
        PROVE  Shows(d)[l][k] = t[l][k]
    <2>1. l * NrColumns + k = c.y * NrColumns + (c.x - 1) <=> l = c.y /\ k = c.x - 1
      <3> DEFINE j == c.x - 1
      <3>1. c.y \in Int /\ j \in Columns
        BY <1>1, Sizes
      <3> HIDE DEF j
      <3>2. l * NrColumns + k = c.y * NrColumns + j <=> l = c.y /\ k = j
        BY <3>1, PlaceOf
      <3> QED BY <3>2 DEF j
    <2>2. r = c.y * NrColumns + (c.x - 1)
      BY <1>1 DEF r
    <2>3. l * NrColumns + k \in Int
      BY <1>1 DEF Lines, Columns
    <2>4. l * NrColumns + k \in r..r + 1 - 1 <=> l = c.y /\ k = c.x - 1
      BY <1>4, <2>1, <2>2, <2>3
    <2>5. Shows(e) = Shows(c)
      BY <1>3 DEF MovesTo
    <2> QED BY <1>6, <1>7, <2>4, <2>5
  <1>9. Shows(d) = t
    BY <1>7, <1>8, ShowsIt
  <1>10. d.x = c.x - 1 /\ d.y = c.y /\ d.top = c.top /\ d.bottom = c.bottom
    BY <1>3, <1>6 DEF Kept, MovesTo
  <1> QED BY <1>6, <1>9, <1>10, Zenon DEF d, t, Deletes, Pointed

-----------------------------------------------------------------------------
(* A character of the state normal. *)
LEMMA Folds ==
  ASSUME ConsoleAssumption, NEW c, Good(c), NEW i \in Int, NEW p \in Int, i >= NrColumns,
         i - NrColumns <= NrColumns, p = c.pos - c.x + i
  PROVE  LET d == WrapLine(At(c, i, c.y, p)) IN Feeds(c, d) /\ d.x = i - NrColumns
  <1> DEFINE e == At(c, i, c.y, p)
             j == i - NrColumns
             q == p - NrColumns
             f == At(c, j, c.y, q)
  <1>1. /\ c \in Records /\ c.x \in Int /\ c.pos \in Int /\ c.y \in Lines /\ NrColumns \in Int
        /\ c.pos = c.origin + c.y * NrColumns + c.x /\ c.origin \in Int /\ c.y * NrColumns \in Int
        /\ c.y \in Int
    BY Sizes
  <1>2. WrapLine(e) = Lf(f)
    <2>1. e.x = i
      BY <1>1 DEF At, Records
    <2>2. [e EXCEPT !.x = @ - NrColumns, !.pos = @ - NrColumns] = f
      BY <1>1 DEF At, Records
    <2> HIDE DEF e, f
    <2> QED BY <2>1, <2>2 DEF WrapLine
  <1>3. j \in 0..NrColumns /\ q = c.origin + c.y * NrColumns + j
    BY <1>1
  <1> HIDE DEF j, q
  <1>4. MovesTo(c, f) /\ f.x = j /\ f.y = c.y
    BY <1>1, <1>3, AtMoves
  <1> HIDE DEF f
  <1>5. Feeds(f, Lf(f)) /\ Lf(f).x = j
    BY <1>4, LfFeeds DEF MovesTo
  <1>6. Feeds(c, Lf(f))
    BY <1>4, <1>5 DEF Feeds, MovesTo
  <1> QED BY <1>2, <1>5, <1>6 DEF e, j

LEMMA Stays ==
  ASSUME ConsoleAssumption, NEW c, Good(c)
  PROVE  c = At(c, c.x, c.y, c.pos)
  <1>1. c \in Records
    BY Sizes
  <1> QED BY <1>1 DEF At, Records

(* PutChar of the screen. *)
Puts(c, d, v) ==
  /\ Good(d) /\ d.top = c.top /\ d.bottom = c.bottom
  /\ \/ /\ c.x < NrColumns /\ d.x = c.x + 1 /\ d.y = c.y
        /\ Shows(d) = Pointed(Shows(c), c.y, c.x, v)
     \/ /\ c.x >= NrColumns /\ d.x = 1
        /\ \E e : Feeds(c, e) /\ d.y = e.y /\ Shows(d) = Pointed(Shows(e), e.y, 0, v)

LEMMA PrintablePuts ==
  ASSUME ConsoleAssumption, NEW c, Good(c)
  PROVE  Puts(c, Normal(c, Printable), Printable)
  <1> DEFINE e == WrapLine(c)
             d == Normal(c, Printable)
  <1>1. d = Placed(e, Printable)
    BY DEF Normal, Placed, Printable
  <1>2. Printable \in Chars /\ c.x \in Int /\ NrColumns \in Nat \ {0} /\ c.x <= NrColumns /\ c.pos \in Int
    BY Sizes DEF Chars
  <1> HIDE DEF d
  <1>3. CASE c.x < NrColumns
    <2>1. e = c
      BY <1>2, <1>3 DEF WrapLine
    <2>2. Puts(c, Placed(c, Printable), Printable)
      <3>1. IsPut(c, Placed(c, Printable), Printable)
        BY <1>2, <1>3, PutShows
      <3> QED BY <1>3, <3>1, Zenon DEF IsPut, Puts
    <2> QED BY <1>1, <2>1, <2>2 DEF d
  <1>4. CASE c.x >= NrColumns
    <2>1. Feeds(c, e) /\ e.x = c.x - NrColumns
      <3> DEFINE i == c.x
                 p == c.pos
      <3>1. i \in Int /\ p \in Int /\ i >= NrColumns /\ i - NrColumns <= NrColumns /\ p = c.pos - c.x + i
        BY <1>2, <1>4
      <3>2. c = At(c, i, c.y, p)
        BY Stays
      <3> HIDE DEF i, p, e
      <3>3. LET g == WrapLine(At(c, i, c.y, p)) IN Feeds(c, g) /\ g.x = i - NrColumns
        BY <3>1, Folds
      <3> QED BY <3>2, <3>3 DEF i, e
    <2> HIDE DEF e
    <2>2. e.x = 0
      BY <1>2, <1>4, <2>1
    <2>3. Good(e) /\ e.x < NrColumns /\ e.top = c.top /\ e.bottom = c.bottom
      BY <1>2, <2>1, <2>2 DEF Feeds
    <2>4. /\ Good(d) /\ d.x = 1 /\ d.y = e.y /\ d.top = e.top /\ d.bottom = e.bottom
          /\ Shows(d) = Pointed(Shows(e), e.y, 0, Printable)
      <3>1. IsPut(e, d, Printable)
        BY <1>1, <1>2, <2>3, PutShows
      <3>2. d.x = e.x + 1
        BY <3>1 DEF IsPut
      <3>3. d.x = 1
        BY <2>2, <3>2
      <3> QED BY <2>2, <3>1, <3>3, Zenon DEF IsPut
    <2> QED BY <1>4, <2>1, <2>3, <2>4 DEF Puts, d
  <1> QED BY <1>2, <1>3, <1>4

LEMMA TabMoves ==
  ASSUME ConsoleAssumption, NEW c, Good(c)
  PROVE  MovesTo(c, Normal(c, "TAB")) \/ Feeds(c, Normal(c, "TAB"))
  <1> DEFINE n == TabSize - (c.x % TabSize)
             i == c.x + n
             p == c.pos + n
             e == [c EXCEPT !.x = @ + n, !.pos = @ + n]
  <1>1. Normal(c, "TAB") = IF e.x > NrColumns THEN WrapLine(e) ELSE e
    BY DEF Normal, Printable
  <1>2. /\ c \in Records /\ c.x \in Int /\ c.pos \in Int /\ c.y \in Lines
        /\ c.pos = c.origin + c.y * NrColumns + c.x /\ c.origin \in Int /\ c.y * NrColumns \in Int
        /\ c.x >= 0 /\ c.x <= NrColumns
    BY Sizes
  <1>3. NrColumns \in Nat \ {0} /\ TabSize \in Nat \ {0} /\ TabSize <= NrColumns
    BY DEF ConsoleAssumption
  <1>4. n \in Int /\ n > 0 /\ n <= TabSize
    <2> DEFINE r == c.x % TabSize
    <2>1. r \in 0..TabSize - 1
      BY <1>2, <1>3
    <2> HIDE DEF r
    <2>2. TabSize - r \in Int /\ TabSize - r > 0 /\ TabSize - r <= TabSize
      BY <1>3, <2>1
    <2> QED BY <2>2 DEF r
  <1> HIDE DEF n
  <1>5. e = At(c, i, c.y, p) /\ e.x = i
    BY <1>2, <1>4 DEF At, Records
  <1>6. i \in Int /\ p \in Int /\ i >= 0 /\ p = c.origin + c.y * NrColumns + i /\ p = c.pos - c.x + i
    BY <1>2, <1>4
  <1> HIDE DEF e, p
  <1>7. CASE i <= NrColumns
    <2>1. i \in 0..NrColumns
      BY <1>3, <1>6, <1>7
    <2> HIDE DEF i
    <2>2. MovesTo(c, At(c, i, c.y, p))
      BY <1>2, <1>6, <2>1, AtMoves
    <2> QED BY <1>1, <1>3, <1>5, <1>6, <1>7, <2>2
  <1>8. CASE ~ (i <= NrColumns)
    <2>1. i >= NrColumns /\ i - NrColumns <= NrColumns
      BY <1>2, <1>3, <1>4, <1>8
    <2> HIDE DEF i
    <2>2. Feeds(c, WrapLine(At(c, i, c.y, p)))
      BY <1>6, <2>1, Folds
    <2> QED BY <1>1, <1>3, <1>5, <1>6, <1>8, <2>2
  <1> QED BY <1>7, <1>8

-----------------------------------------------------------------------------
(* Characters are inserted and removed in a line. *)
RowIs(s, t, i, r) == t = [s EXCEPT ![i] = r]

LEMMA RowOf ==
  ASSUME NEW s, IsScreen(s), NEW i \in Lines, NEW t, NEW r, RowIs(s, t, i, r), r = [k \in Columns |-> r[k]]
  PROVE  /\ IsScreen(t)
         /\ \A l \in Lines, k \in Columns : t[l][k] = IF l = i THEN r[k] ELSE s[l][k]
  <1>1. /\ s = [l \in Lines |-> s[l]]
        /\ \A l \in Lines : s[l] = [k \in Columns |-> s[l][k]]
    BY Zenon DEF IsScreen
  <1>2. t = [l \in Lines |-> IF l = i THEN r ELSE s[l]]
    BY <1>1 DEF RowIs
  <1>3. ASSUME NEW l \in Lines
        PROVE  /\ t[l] = [k \in Columns |-> t[l][k]]
               /\ \A k \in Columns : t[l][k] = IF l = i THEN r[k] ELSE s[l][k]
    <2>1. CASE l = i
      <3>1. t[l] = r
        BY <1>2, <2>1
      <3> QED BY <2>1, <3>1
    <2>2. CASE l # i
      <3>1. t[l] = s[l]
        BY <1>2, <2>2
      <3> QED BY <1>1, <2>2, <3>1
    <2> QED BY <2>1, <2>2
  <1>4. IsScreen(t)
    <2>1. [l \in Lines |-> t[l]] = [l \in Lines |-> [k \in Columns |-> t[l][k]]]
      BY <1>3, Zenon
    <2> QED BY <1>2, <2>1 DEF IsScreen
  <1> QED BY <1>3, <1>4

Inserted(s, j, i, n) ==
  [s EXCEPT ![j] = [k \in Columns |-> IF k < i THEN @[k] ELSE IF k - n >= i THEN @[k - n] ELSE Blank]]

LEMMA InsertedAt ==
  ASSUME NEW s, IsScreen(s), NEW j \in Lines, NEW i, NEW n
  PROVE  /\ IsScreen(Inserted(s, j, i, n))
         /\ \A l \in Lines, k \in Columns :
              Inserted(s, j, i, n)[l][k] = IF l # j \/ k < i THEN s[l][k]
                                       ELSE IF k - n >= i THEN s[l][k - n] ELSE Blank
  <1> DEFINE t == Inserted(s, j, i, n)
             r == [k \in Columns |-> IF k < i THEN s[j][k] ELSE IF k - n >= i THEN s[j][k - n] ELSE Blank]
  <1>1. RowIs(s, t, j, r)
    BY DEF Inserted, RowIs
  <1>2. r = [k \in Columns |-> r[k]]
    OBVIOUS
  <1>3. \A k \in Columns : r[k] = IF k < i THEN s[j][k] ELSE IF k - n >= i THEN s[j][k - n] ELSE Blank
    OBVIOUS
  <1> HIDE DEF t, r
  <1>4. IsScreen(t) /\ \A l \in Lines, k \in Columns : t[l][k] = IF l = j THEN r[k] ELSE s[l][k]
    BY <1>1, <1>2, RowOf
  <1> QED BY <1>3, <1>4 DEF t

IsInserted(c, d, n) == Good(d) /\ Kept(c, d) /\ Shows(d) = Inserted(Shows(c), c.y, c.x, n)

Removed(s, j, i, n) ==
  [s EXCEPT ![j] = [k \in Columns |-> IF k < i THEN @[k] ELSE IF k + n < NrColumns THEN @[k + n] ELSE Blank]]

LEMMA RemovedAt ==
  ASSUME NEW s, IsScreen(s), NEW j \in Lines, NEW i, NEW n
  PROVE  /\ IsScreen(Removed(s, j, i, n))
         /\ \A l \in Lines, k \in Columns :
              Removed(s, j, i, n)[l][k] = IF l # j \/ k < i THEN s[l][k]
                                       ELSE IF k + n < NrColumns THEN s[l][k + n] ELSE Blank
  <1> DEFINE t == Removed(s, j, i, n)
             r == [k \in Columns |-> IF k < i THEN s[j][k] ELSE IF k + n < NrColumns THEN s[j][k + n] ELSE Blank]
  <1>1. RowIs(s, t, j, r)
    BY DEF Removed, RowIs
  <1>2. r = [k \in Columns |-> r[k]]
    OBVIOUS
  <1>3. \A k \in Columns : r[k] = IF k < i THEN s[j][k] ELSE IF k + n < NrColumns THEN s[j][k + n] ELSE Blank
    OBVIOUS
  <1> HIDE DEF t, r
  <1>4. IsScreen(t) /\ \A l \in Lines, k \in Columns : t[l][k] = IF l = j THEN r[k] ELSE s[l][k]
    BY <1>1, <1>2, RowOf
  <1> QED BY <1>3, <1>4 DEF t

IsRemoved(c, d, n) == Good(d) /\ Kept(c, d) /\ Shows(d) = Removed(Shows(c), c.y, c.x, n)

LEMMA InsertCharShifts ==
  ASSUME ConsoleAssumption, NEW c, Good(c)
  PROVE  IsInserted(c, InsertChar(c), 1)
  <1> DEFINE d == InsertChar(c)
             t == Inserted(Shows(c), c.y, c.x, 1)
             w == NrColumns - c.x - 1
             p == c.y * NrColumns + c.x
             f == c.y * NrColumns
             e == Copy(c, c.origin + (p + 1), c.origin + (p), w)
  <1>1. /\ c \in Records /\ OnScreen(c) /\ c.npar \in 1..NPAR /\ c.x \in Int /\ c.y \in Lines
        /\ NrColumns \in Int /\ NrColumns > 0 /\ f \in Int /\ c.origin \in Int /\ c.x >= 0 /\ c.x <= NrColumns
        /\ c.pos = c.origin + f + c.x /\ c.y \in Int
    BY Sizes
  <1>2. IsScreen(t) /\ \A l \in Lines, k \in Columns :
          t[l][k] = IF l # c.y \/ k < c.x THEN Shows(c)[l][k]
                    ELSE IF k - 1 >= c.x THEN Shows(c)[l][k - 1] ELSE Blank
    <2> DEFINE n == 1
    <2> HIDE DEF n
    <2>1. LET u == Inserted(Shows(c), c.y, c.x, n) IN
          IsScreen(u) /\ \A l \in Lines, k \in Columns :
            u[l][k] = IF l # c.y \/ k < c.x THEN Shows(c)[l][k]
                      ELSE IF k - n >= c.x THEN Shows(c)[l][k - n] ELSE Blank
      BY <1>1, InsertedAt, ShownAt
    <2> QED BY <2>1 DEF n
  <1> HIDE DEF t
  <1>3. CASE c.x >= NrColumns
    <2>1. d = c
      BY <1>1, <1>3 DEF InsertChar
    <2>2. \A l \in Lines, k \in Columns : Shows(c)[l][k] = t[l][k]
      BY <1>1, <1>2, <1>3 DEF Columns
    <2>3. Shows(c) = t
      BY <1>2, <2>2, ShowsIt
    <2> QED BY <2>1, <2>3 DEF IsInserted, Kept, t
  <1>4. CASE c.x < NrColumns
    <2>1. /\ p \in Int /\ p = f + c.x /\ w \in Int /\ w >= 0 /\ w = NrColumns - c.x - 1
          /\ c.pos = c.origin + p
      BY <1>1, <1>4
    <2>2. d = Fill(e, e.origin + (p), 1)
      <3>1. e.origin = c.origin
        BY <1>1 DEF Copy, Records
      <3>2. c.origin + (p + 1) = c.pos + 1 /\ c.origin + (p) = c.pos
            /\ e.origin + (p) = c.pos
        BY <1>1, <2>1, <3>1
      <3>3. d = Fill(Copy(c, c.pos + 1, c.pos, NrColumns - c.x - 1), c.pos, 1)
        BY <1>1, <1>4 DEF InsertChar
      <3> HIDE DEF d, p
      <3> QED BY <3>2, <3>3
    <2> HIDE DEF d
    <2>3. f >= 0 /\ f + NrColumns <= NrLines * NrColumns
      <3>1. c.y >= 0 /\ c.y < NrLines /\ NrLines \in Int /\ NrColumns \in Nat \ {0}
        BY Sizes DEF Lines
      <3>2. f >= 0
        BY <1>1, <3>1
      <3>3. c.y * NrColumns + NrColumns <= NrLines * NrColumns
        BY <1>1, <3>1, Products
      <3> QED BY <3>2, <3>3
    <2> HIDE DEF p, w
    <2>4. c.origin + (p)..c.origin + (p) + w - 1 \subseteq Cells
      <3>1. c.origin..c.scr_end - 1 \subseteq Cells
        BY <1>1, ShownCells
      <3>2. c.scr_end = c.origin + NrLines * NrColumns /\ c.scr_end \in Int /\ NrLines * NrColumns \in Int
        BY Sizes
      <3> HIDE DEF f
      <3> QED BY <1>1, <2>1, <2>3, <3>1, <3>2
    <2>5. /\ e \in Records /\ Same(c, e)
          /\ \A a \in Cells : e.mem[a] = IF a \in c.origin + (p + 1)..c.origin + (p + 1) + w - 1
                                         THEN c.mem[a - (c.origin + (p + 1)) + (c.origin + (p))] ELSE c.mem[a]
      <3> DEFINE u == c.origin + (p + 1)
                 v == c.origin + (p)
      <3>1. u \in Int /\ v \in Int
        BY <1>1, <2>1
      <3> HIDE DEF u, v
      <3>2. v..v + w - 1 \subseteq Cells
        BY <2>4 DEF v
      <3>3. /\ Copy(c, u, v, w) \in Records /\ Same(c, Copy(c, u, v, w))
            /\ \A a \in Cells : Copy(c, u, v, w).mem[a] = IF a \in u..u + w - 1 THEN c.mem[a - u + v] ELSE c.mem[a]
        BY <1>1, <2>1, <3>1, <3>2, Copied
      <3> QED BY <3>3, Zenon DEF u, v
    <2> HIDE DEF e
    <2>6. IsFilled(e, d, p, 1)
      <3> DEFINE n == 1
                 r == p
      <3>1. n \in Int /\ r \in Int /\ d = Fill(e, e.origin + r, n)
        BY <2>1, <2>2
      <3>2. Good(e)
        BY <1>1, <2>5 DEF Good, OnScreen, Same
      <3> HIDE DEF n, r
      <3>3. IsFilled(e, Fill(e, e.origin + r, n), r, n)
        BY <3>1, <3>2, FillClears
      <3> QED BY <3>1, <3>3 DEF n, r
    <2>7. Good(d) /\ Kept(c, d)
      BY <2>5, <2>6 DEF IsFilled, Kept, Same
    <2>8. ASSUME NEW l \in Lines, NEW k \in Columns
          PROVE  Shows(d)[l][k] = t[l][k]
      <3> DEFINE i == l * NrColumns + k
                 a == c.origin + l * NrColumns + k
      <3>1. l \in Int /\ k \in Int /\ i \in Int /\ a = c.origin + i /\ a \in Cells /\ k >= 0 /\ k < NrColumns
        <4>1. l \in Int /\ k \in Int /\ k >= 0 /\ k < NrColumns
          BY <1>1 DEF Lines, Columns
        <4>2. l * NrColumns \in Int
          BY <1>1, <4>1
        <4> QED BY <1>1, <4>1, <4>2, ShownCells
      <3>2. /\ l = c.y => i = f + k
            /\ l # c.y => i < f \/ i >= f + NrColumns
        <4>1. /\ c.y * NrColumns <= l * NrColumns + k <=> c.y <= l
              /\ (c.y + 1) * NrColumns <= l * NrColumns + k <=> c.y + 1 <= l
          BY <1>1, PlaceOf
        <4>2. (c.y + 1) * NrColumns = c.y * NrColumns + NrColumns
          BY <1>1
        <4> DEFINE g == (c.y + 1) * NrColumns
        <4>3. (f <= i <=> c.y <= l) /\ (g <= i <=> c.y + 1 <= l) /\ g = f + NrColumns
          BY <4>1, <4>2
        <4>4. l = c.y => i = f + k
          OBVIOUS
        <4>5. f \in Int /\ i \in Int /\ c.y \in Int /\ l \in Int /\ NrColumns \in Int
          BY <1>1, <3>1
        <4> HIDE DEF f, g, i
        <4> QED BY <4>3, <4>4, <4>5
      <3>3. /\ Shows(d)[l][k] = IF i \in p..p + 1 - 1 THEN Blank ELSE e.mem[a]
            /\ Shows(c)[l][k] = c.mem[a]
        <4>1. Shows(e)[l][k] = e.mem[a]
          <5>1. e.origin = c.origin
            BY <2>5 DEF Same
          <5> QED BY <5>1 DEF Shows
        <4>2. Shows(c)[l][k] = c.mem[a]
          BY DEF Shows
        <4> HIDE DEF a
        <4> QED BY <2>6, <4>1, <4>2 DEF IsFilled
      <3>4. k - 1 \in Columns => Shows(c)[l][k - 1] = c.mem[a - 1]
        <4>1. SUFFICES ASSUME k - 1 \in Columns PROVE Shows(c)[l][k - 1] = c.mem[a - 1]
          OBVIOUS
        <4>2. Shows(c)[l][k - 1] = c.mem[c.origin + l * NrColumns + (k - 1)]
          BY <4>1 DEF Shows
        <4>3. c.origin + l * NrColumns + (k - 1) = a - 1
          <5>1. l * NrColumns \in Int
            BY <1>1, <3>1
          <5> QED BY <1>1, <3>1, <5>1
        <4> QED BY <4>2, <4>3
      <3>5. e.mem[a] = IF i \in p + 1..(p + 1) + w - 1 THEN c.mem[a - 1] ELSE c.mem[a]
        <4>1. a \in c.origin + (p + 1)..c.origin + (p + 1) + w - 1 <=> i \in p + 1..(p + 1) + w - 1
          <5> HIDE DEF a, i
          <5> QED BY <1>1, <2>1, <3>1
        <4>2. a - (c.origin + (p + 1)) + (c.origin + (p)) = a - 1
          <5> HIDE DEF a, i
          <5> QED BY <1>1, <2>1, <3>1
        <4> HIDE DEF a, i
        <4> QED BY <2>5, <3>1, <4>1, <4>2
      <3> HIDE DEF a, i, f
      <3>6. CASE l # c.y \/ k < c.x
        <4>1. i \notin p..p + 1 - 1 /\ i \notin p + 1..(p + 1) + w - 1
          BY <1>1, <2>1, <3>1, <3>2, <3>6
        <4> QED BY <1>2, <3>3, <3>5, <3>6, <4>1
      <3>7. CASE l = c.y /\ k >= c.x /\ k - 1 >= c.x
        <4>1. /\ i \notin p..p + 1 - 1 /\ i \in p + 1..(p + 1) + w - 1
              /\ k - 1 \in Columns /\ ~ (k < c.x)
          BY <1>1, <2>1, <3>1, <3>2, <3>7 DEF Columns
        <4> QED BY <1>2, <3>3, <3>4, <3>5, <3>7, <4>1
      <3>8. CASE l = c.y /\ k >= c.x /\ ~ (k - 1 >= c.x)
        <4>1. i \in p..p + 1 - 1 /\ ~ (k < c.x)
          BY <1>1, <2>1, <3>1, <3>2, <3>8
        <4> QED BY <1>2, <3>3, <3>8, <4>1
      <3> QED BY <1>1, <3>1, <3>6, <3>7, <3>8
    <2>9. Shows(d) = t
      BY <1>2, <2>8, ShowsIt
    <2> QED BY <2>7, <2>9, Zenon DEF IsInserted, t, d
  <1> QED BY <1>1, <1>3, <1>4

LEMMA DeleteCharShifts ==
  ASSUME ConsoleAssumption, NEW c, Good(c)
  PROVE  IsRemoved(c, DeleteChar(c), 1)
  <1> DEFINE d == DeleteChar(c)
             t == Removed(Shows(c), c.y, c.x, 1)
             w == NrColumns - c.x - 1
             p == c.y * NrColumns + c.x
             f == c.y * NrColumns
             e == Copy(c, c.origin + (p), c.origin + (p + 1), w)
  <1>1. /\ c \in Records /\ OnScreen(c) /\ c.npar \in 1..NPAR /\ c.x \in Int /\ c.y \in Lines
        /\ NrColumns \in Int /\ NrColumns > 0 /\ f \in Int /\ c.origin \in Int /\ c.x >= 0 /\ c.x <= NrColumns
        /\ c.pos = c.origin + f + c.x /\ c.y \in Int
    BY Sizes
  <1>2. IsScreen(t) /\ \A l \in Lines, k \in Columns :
          t[l][k] = IF l # c.y \/ k < c.x THEN Shows(c)[l][k]
                    ELSE IF k + 1 < NrColumns THEN Shows(c)[l][k + 1] ELSE Blank
    <2> DEFINE n == 1
    <2> HIDE DEF n
    <2>1. LET u == Removed(Shows(c), c.y, c.x, n) IN
          IsScreen(u) /\ \A l \in Lines, k \in Columns :
            u[l][k] = IF l # c.y \/ k < c.x THEN Shows(c)[l][k]
                      ELSE IF k + n < NrColumns THEN Shows(c)[l][k + n] ELSE Blank
      BY <1>1, RemovedAt, ShownAt
    <2> QED BY <2>1 DEF n
  <1> HIDE DEF t
  <1>3. CASE c.x >= NrColumns
    <2>1. d = c
      BY <1>1, <1>3 DEF DeleteChar
    <2>2. \A l \in Lines, k \in Columns : Shows(c)[l][k] = t[l][k]
      BY <1>1, <1>2, <1>3 DEF Columns
    <2>3. Shows(c) = t
      BY <1>2, <2>2, ShowsIt
    <2> QED BY <2>1, <2>3 DEF IsRemoved, Kept, t
  <1>4. CASE c.x < NrColumns
    <2>1. /\ p \in Int /\ p = f + c.x /\ w \in Int /\ w >= 0 /\ w = NrColumns - c.x - 1
          /\ c.pos = c.origin + p
      BY <1>1, <1>4
    <2>2. d = Fill(e, e.origin + (p + w), 1)
      <3>1. e.origin = c.origin
        BY <1>1 DEF Copy, Records
      <3>2. c.origin + (p) = c.pos /\ c.origin + (p + 1) = c.pos + 1
            /\ e.origin + (p + w) = c.pos + NrColumns - c.x - 1
        BY <1>1, <2>1, <3>1
      <3>3. d = Fill(Copy(c, c.pos, c.pos + 1, NrColumns - c.x - 1), c.pos + NrColumns - c.x - 1, 1)
        BY <1>1, <1>4 DEF DeleteChar
      <3> HIDE DEF d, p
      <3> QED BY <3>2, <3>3
    <2> HIDE DEF d
    <2>3. f >= 0 /\ f + NrColumns <= NrLines * NrColumns
      <3>1. c.y >= 0 /\ c.y < NrLines /\ NrLines \in Int /\ NrColumns \in Nat \ {0}
        BY Sizes DEF Lines
      <3>2. f >= 0
        BY <1>1, <3>1
      <3>3. c.y * NrColumns + NrColumns <= NrLines * NrColumns
        BY <1>1, <3>1, Products
      <3> QED BY <3>2, <3>3
    <2> HIDE DEF p, w
    <2>4. c.origin + (p + 1)..c.origin + (p + 1) + w - 1 \subseteq Cells
      <3>1. c.origin..c.scr_end - 1 \subseteq Cells
        BY <1>1, ShownCells
      <3>2. c.scr_end = c.origin + NrLines * NrColumns /\ c.scr_end \in Int /\ NrLines * NrColumns \in Int
        BY Sizes
      <3> HIDE DEF f
      <3> QED BY <1>1, <2>1, <2>3, <3>1, <3>2
    <2>5. /\ e \in Records /\ Same(c, e)
          /\ \A a \in Cells : e.mem[a] = IF a \in c.origin + (p)..c.origin + (p) + w - 1
                                         THEN c.mem[a - (c.origin + (p)) + (c.origin + (p + 1))] ELSE c.mem[a]
      <3> DEFINE u == c.origin + (p)
                 v == c.origin + (p + 1)
      <3>1. u \in Int /\ v \in Int
        BY <1>1, <2>1
      <3> HIDE DEF u, v
      <3>2. v..v + w - 1 \subseteq Cells
        BY <2>4 DEF v
      <3>3. /\ Copy(c, u, v, w) \in Records /\ Same(c, Copy(c, u, v, w))
            /\ \A a \in Cells : Copy(c, u, v, w).mem[a] = IF a \in u..u + w - 1 THEN c.mem[a - u + v] ELSE c.mem[a]
        BY <1>1, <2>1, <3>1, <3>2, Copied
      <3> QED BY <3>3, Zenon DEF u, v
    <2> HIDE DEF e
    <2>6. IsFilled(e, d, p + w, 1)
      <3> DEFINE n == 1
                 r == p + w
      <3>1. n \in Int /\ r \in Int /\ d = Fill(e, e.origin + r, n)
        BY <2>1, <2>2
      <3>2. Good(e)
        BY <1>1, <2>5 DEF Good, OnScreen, Same
      <3> HIDE DEF n, r
      <3>3. IsFilled(e, Fill(e, e.origin + r, n), r, n)
        BY <3>1, <3>2, FillClears
      <3> QED BY <3>1, <3>3 DEF n, r
    <2>7. Good(d) /\ Kept(c, d)
      BY <2>5, <2>6 DEF IsFilled, Kept, Same
    <2>8. ASSUME NEW l \in Lines, NEW k \in Columns
          PROVE  Shows(d)[l][k] = t[l][k]
      <3> DEFINE i == l * NrColumns + k
                 a == c.origin + l * NrColumns + k
      <3>1. l \in Int /\ k \in Int /\ i \in Int /\ a = c.origin + i /\ a \in Cells /\ k >= 0 /\ k < NrColumns
        <4>1. l \in Int /\ k \in Int /\ k >= 0 /\ k < NrColumns
          BY <1>1 DEF Lines, Columns
        <4>2. l * NrColumns \in Int
          BY <1>1, <4>1
        <4> QED BY <1>1, <4>1, <4>2, ShownCells
      <3>2. /\ l = c.y => i = f + k
            /\ l # c.y => i < f \/ i >= f + NrColumns
        <4>1. /\ c.y * NrColumns <= l * NrColumns + k <=> c.y <= l
              /\ (c.y + 1) * NrColumns <= l * NrColumns + k <=> c.y + 1 <= l
          BY <1>1, PlaceOf
        <4>2. (c.y + 1) * NrColumns = c.y * NrColumns + NrColumns
          BY <1>1
        <4> DEFINE g == (c.y + 1) * NrColumns
        <4>3. (f <= i <=> c.y <= l) /\ (g <= i <=> c.y + 1 <= l) /\ g = f + NrColumns
          BY <4>1, <4>2
        <4>4. l = c.y => i = f + k
          OBVIOUS
        <4>5. f \in Int /\ i \in Int /\ c.y \in Int /\ l \in Int /\ NrColumns \in Int
          BY <1>1, <3>1
        <4> HIDE DEF f, g, i
        <4> QED BY <4>3, <4>4, <4>5
      <3>3. /\ Shows(d)[l][k] = IF i \in p + w..p + w + 1 - 1 THEN Blank ELSE e.mem[a]
            /\ Shows(c)[l][k] = c.mem[a]
        <4>1. Shows(e)[l][k] = e.mem[a]
          <5>1. e.origin = c.origin
            BY <2>5 DEF Same
          <5> QED BY <5>1 DEF Shows
        <4>2. Shows(c)[l][k] = c.mem[a]
          BY DEF Shows
        <4> HIDE DEF a
        <4> QED BY <2>6, <4>1, <4>2 DEF IsFilled
      <3>4. k + 1 \in Columns => Shows(c)[l][k + 1] = c.mem[a + 1]
        <4>1. SUFFICES ASSUME k + 1 \in Columns PROVE Shows(c)[l][k + 1] = c.mem[a + 1]
          OBVIOUS
        <4>2. Shows(c)[l][k + 1] = c.mem[c.origin + l * NrColumns + (k + 1)]
          BY <4>1 DEF Shows
        <4>3. c.origin + l * NrColumns + (k + 1) = a + 1
          <5> DEFINE u == l * NrColumns
          <5>1. u \in Int /\ a = c.origin + u + k /\ c.origin \in Int /\ k \in Int
            BY <1>1, <3>1
          <5> HIDE DEF u, a
          <5>2. c.origin + u + (k + 1) = a + 1
            BY <5>1
          <5> QED BY <5>2 DEF u
        <4> QED BY <4>2, <4>3
      <3>5. e.mem[a] = IF i \in p..(p) + w - 1 THEN c.mem[a + 1] ELSE c.mem[a]
        <4>1. a \in c.origin + (p)..c.origin + (p) + w - 1 <=> i \in p..(p) + w - 1
          <5> HIDE DEF a, i
          <5> QED BY <1>1, <2>1, <3>1
        <4>2. a - (c.origin + (p)) + (c.origin + (p + 1)) = a + 1
          <5> HIDE DEF a, i
          <5> QED BY <1>1, <2>1, <3>1
        <4> HIDE DEF a, i
        <4> QED BY <2>5, <3>1, <4>1, <4>2
      <3> HIDE DEF a, i, f
      <3>6. CASE l # c.y \/ k < c.x
        <4>1. i \notin p + w..p + w + 1 - 1 /\ i \notin p..(p) + w - 1
          BY <1>1, <2>1, <3>1, <3>2, <3>6
        <4> QED BY <1>2, <3>3, <3>5, <3>6, <4>1
      <3>7. CASE l = c.y /\ k >= c.x /\ k + 1 < NrColumns
        <4>1. /\ i \notin p + w..p + w + 1 - 1 /\ i \in p..(p) + w - 1
              /\ k + 1 \in Columns /\ ~ (k < c.x)
          BY <1>1, <2>1, <3>1, <3>2, <3>7 DEF Columns
        <4> QED BY <1>2, <3>3, <3>4, <3>5, <3>7, <4>1
      <3>8. CASE l = c.y /\ k >= c.x /\ ~ (k + 1 < NrColumns)
        <4>1. i \in p + w..p + w + 1 - 1 /\ ~ (k < c.x)
          BY <1>1, <2>1, <3>1, <3>2, <3>8
        <4> QED BY <1>2, <3>3, <3>8, <4>1
      <3> QED BY <1>1, <3>1, <3>6, <3>7, <3>8
    <2>9. Shows(d) = t
      BY <1>2, <2>8, ShowsIt
    <2> QED BY <2>7, <2>9, Zenon DEF IsRemoved, t, d
  <1> QED BY <1>1, <1>3, <1>4

-----------------------------------------------------------------------------
(* Lines are inserted and removed: the region is that from the cursor. *)
WithRegion(c, a, b) == [c EXCEPT !.top = a, !.bottom = b]

IsRegion(c, d, a, b) ==
  /\ Good(d) /\ Shows(d) = Shows(c) /\ d.x = c.x /\ d.y = c.y /\ d.npar = c.npar
  /\ d.top = a /\ d.bottom = b

LEMMA RegionSet ==
  ASSUME ConsoleAssumption, NEW c, Good(c), NEW a \in Int, NEW b \in Int, 0 <= a, a < b, b <= NrLines
  PROVE  IsRegion(c, WithRegion(c, a, b), a, b)
  <1> DEFINE d == WithRegion(c, a, b)
  <1>1. c \in Records /\ OnScreen(c) /\ c.npar \in 1..NPAR
    BY Sizes
  <1>2. /\ d \in Records /\ d.mem = c.mem /\ d.x = c.x /\ d.y = c.y /\ d.pos = c.pos /\ d.npar = c.npar
        /\ d.origin = c.origin /\ d.scr_end = c.scr_end /\ d.top = a /\ d.bottom = b
    BY <1>1 DEF WithRegion, Records
  <1> HIDE DEF d
  <1>3. Good(d)
    BY <1>1, <1>2 DEF Good, OnScreen
  <1>4. Shows(d) = Shows(c)
    BY <1>2 DEF Shows
  <1> QED BY <1>2, <1>3, <1>4 DEF d, IsRegion

LEMMA CursorRegion ==
  ASSUME ConsoleAssumption, NEW c, Good(c)
  PROVE  IsRegion(c, FromCursor(c), c.y, NrLines)
  <1>1. c.y \in Int /\ NrLines \in Int /\ 0 <= c.y /\ c.y < NrLines
    BY Sizes DEF Lines
  <1>2. FromCursor(c) = WithRegion(c, c.y, NrLines)
    BY DEF FromCursor, WithRegion
  <1> DEFINE a == c.y
  <1> HIDE DEF a
  <1>3. IsRegion(c, WithRegion(c, a, NrLines), a, NrLines)
    BY <1>1, RegionSet DEF a
  <1> QED BY <1>2, <1>3 DEF a

LEMMA InsertLineScrolls ==
  ASSUME ConsoleAssumption, NEW c, Good(c)
  PROVE  /\ Good(InsertLine(c)) /\ Kept(c, InsertLine(c))
         /\ Shows(InsertLine(c)) = Shown!ScrolledDown(Shows(c), c.y, NrLines, 1)
  <1> DEFINE e == FromCursor(c)
             f == ScrDown(e)
             d == InsertLine(c)
             s == Shown!ScrolledDown(Shows(c), c.y, NrLines, 1)
  <1>1. IsRegion(c, e, c.y, NrLines)
    BY CursorRegion
  <1>2. d = WithRegion(f, c.top, c.bottom)
    BY DEF InsertLine, SameRegion, WithRegion
  <1> HIDE DEF e
  <1>3. Good(f) /\ Kept(e, f) /\ Shows(f) = Shown!ScrolledDown(Shows(e), e.top, e.bottom, 1)
    BY <1>1, ScrDownShows DEF IsRegion
  <1> HIDE DEF f, d
  <1>4. IsRegion(f, d, c.top, c.bottom)
    <2> DEFINE a == c.top
               b == c.bottom
    <2>1. a \in Int /\ b \in Int /\ 0 <= a /\ a < b /\ b <= NrLines
      BY Sizes
    <2> HIDE DEF a, b
    <2>2. IsRegion(f, WithRegion(f, a, b), a, b)
      BY <1>3, <2>1, RegionSet
    <2> QED BY <1>2, <2>2 DEF a, b
  <1>5. Shows(f) = s
    BY <1>1, <1>3, Zenon DEF IsRegion
  <1> HIDE DEF s
  <1>6. Good(d) /\ Kept(c, d) /\ Shows(d) = s
    BY <1>1, <1>3, <1>4, <1>5 DEF IsRegion, Kept
  <1> QED BY <1>6, Zenon DEF d, s

LEMMA DeleteLineScrolls ==
  ASSUME ConsoleAssumption, NEW c, Good(c)
  PROVE  /\ Good(DeleteLine(c)) /\ Kept(c, DeleteLine(c))
         /\ Shows(DeleteLine(c)) = Shown!ScrolledUp(Shows(c), c.y, NrLines, 1)
  <1> DEFINE e == FromCursor(c)
             f == ScrUp(e)
             d == DeleteLine(c)
             s == Shown!ScrolledUp(Shows(c), c.y, NrLines, 1)
  <1>1. IsRegion(c, e, c.y, NrLines)
    BY CursorRegion
  <1>2. d = WithRegion(f, c.top, c.bottom)
    BY DEF DeleteLine, SameRegion, WithRegion
  <1> HIDE DEF e
  <1>3. Good(f) /\ Kept(e, f) /\ Shows(f) = Shown!ScrolledUp(Shows(e), e.top, e.bottom, 1)
    BY <1>1, ScrUpShows DEF IsRegion
  <1> HIDE DEF f, d
  <1>4. IsRegion(f, d, c.top, c.bottom)
    <2> DEFINE a == c.top
               b == c.bottom
    <2>1. a \in Int /\ b \in Int /\ 0 <= a /\ a < b /\ b <= NrLines
      BY Sizes
    <2> HIDE DEF a, b
    <2>2. IsRegion(f, WithRegion(f, a, b), a, b)
      BY <1>3, <2>1, RegionSet
    <2> QED BY <1>2, <2>2 DEF a, b
  <1>5. Shows(f) = s
    BY <1>1, <1>3, Zenon DEF IsRegion
  <1> HIDE DEF s
  <1>6. Good(d) /\ Kept(c, d) /\ Shows(d) = s
    BY <1>1, <1>3, <1>4, <1>5 DEF IsRegion, Kept
  <1> QED BY <1>6, Zenon DEF d, s

-----------------------------------------------------------------------------
(* What one step does to a screen; n of them do it by n. *)
Shifted(ch, s, j, i, n) ==
  CASE ch = "@" -> Inserted(s, j, i, n)
    [] ch = "P" -> Removed(s, j, i, n)
    [] ch = "L" -> Shown!ScrolledDown(s, j, NrLines, n)
    [] ch = "M" -> Shown!ScrolledUp(s, j, NrLines, n)

ShiftsOn(ch, s, j, i, n) ==
  /\ IsScreen(Shifted(ch, s, j, i, n))
  /\ Shifted(ch, s, j, i, 0) = s
  /\ Shifted(ch, Shifted(ch, s, j, i, n), j, i, 1) = Shifted(ch, s, j, i, n + 1)

LEMMA ShiftedTwice ==
  ASSUME ConsoleAssumption, NEW s, IsScreen(s), NEW j \in Lines, NEW i \in Int, i >= 0, NEW n \in Nat,
         NEW ch \in {"@", "P", "L", "M"}
  PROVE  ShiftsOn(ch, s, j, i, n)
  <1>1. NrLines \in Int /\ NrColumns \in Int /\ j \in Int /\ j >= 0 /\ NrLines <= NrLines
    BY DEF ConsoleAssumption, Lines
  <1>2. 0 \in Nat /\ 1 \in Nat /\ n + 1 \in Nat
    OBVIOUS
  <1>3. CASE ch = "@"
    <2> DEFINE t == Inserted(s, j, i, n)
               u == Inserted(t, j, i, 1)
               v == Inserted(s, j, i, n + 1)
               w == Inserted(s, j, i, 0)
    <2>1. /\ IsScreen(t)
          /\ \A l \in Lines, k \in Columns : t[l][k] = IF l # j \/ k < i THEN s[l][k]
                                                       ELSE IF k - n >= i THEN s[l][k - n] ELSE Blank
      BY InsertedAt
    <2>2. /\ IsScreen(v)
          /\ \A l \in Lines, k \in Columns : v[l][k] = IF l # j \/ k < i THEN s[l][k]
                                                       ELSE IF k - (n + 1) >= i THEN s[l][k - (n + 1)] ELSE Blank
      BY InsertedAt
    <2>3. /\ IsScreen(w)
          /\ \A l \in Lines, k \in Columns : w[l][k] = IF l # j \/ k < i THEN s[l][k]
                                                       ELSE IF k - 0 >= i THEN s[l][k - 0] ELSE Blank
      BY InsertedAt
    <2> HIDE DEF t
    <2>4. /\ IsScreen(u)
          /\ \A l \in Lines, k \in Columns : u[l][k] = IF l # j \/ k < i THEN t[l][k]
                                                       ELSE IF k - 1 >= i THEN t[l][k - 1] ELSE Blank
      BY <2>1, InsertedAt
    <2> HIDE DEF u, v, w
    <2>5. ASSUME NEW l \in Lines, NEW k \in Columns
          PROVE  u[l][k] = v[l][k] /\ w[l][k] = s[l][k]
      <3>1. k \in Int /\ k >= 0 /\ k < NrColumns /\ k - 0 = k
        BY <1>1 DEF Columns
      <3>2. w[l][k] = s[l][k]
        <4>1. l = j /\ ~ (k < i) => k - 0 >= i
          BY <3>1
        <4> QED BY <2>3, <3>1, <4>1
      <3>3. CASE l # j \/ k < i
        BY <2>1, <2>2, <2>4, <3>2, <3>3
      <3>4. CASE l = j /\ k >= i /\ k - 1 >= i
        <4>1. k - 1 \in Columns /\ ~ (k - 1 < i) /\ (k - 1) - n = k - (n + 1) /\ ~ (k < i)
          BY <1>1, <3>1, <3>4 DEF Columns
        <4>2. u[l][k] = t[l][k - 1]
          BY <2>4, <3>4, <4>1
        <4>3. t[l][k - 1] = IF (k - 1) - n >= i THEN s[l][(k - 1) - n] ELSE Blank
          BY <2>1, <3>4, <4>1
        <4>4. v[l][k] = IF k - (n + 1) >= i THEN s[l][k - (n + 1)] ELSE Blank
          BY <2>2, <3>4, <4>1
        <4> QED BY <3>2, <4>1, <4>2, <4>3, <4>4
      <3>5. CASE l = j /\ k >= i /\ ~ (k - 1 >= i)
        <4>1. ~ (k < i) /\ ~ (k - (n + 1) >= i)
          BY <3>1, <3>5
        <4> QED BY <2>2, <2>4, <3>2, <3>5, <4>1
      <3> QED BY <3>1, <3>2, <3>3, <3>4, <3>5
    <2>6. u = v /\ w = s
      BY <2>2, <2>3, <2>4, <2>5, ScreensAreEqual
    <2> QED BY <1>3, <2>1, <2>6 DEF ShiftsOn, Shifted, t, u, v, w
  <1>4. CASE ch = "P"
    <2> DEFINE t == Removed(s, j, i, n)
               u == Removed(t, j, i, 1)
               v == Removed(s, j, i, n + 1)
               w == Removed(s, j, i, 0)
    <2>1. /\ IsScreen(t)
          /\ \A l \in Lines, k \in Columns : t[l][k] = IF l # j \/ k < i THEN s[l][k]
                                                       ELSE IF k + n < NrColumns THEN s[l][k + n] ELSE Blank
      BY RemovedAt
    <2>2. /\ IsScreen(v)
          /\ \A l \in Lines, k \in Columns : v[l][k] = IF l # j \/ k < i THEN s[l][k]
                                                       ELSE IF k + (n + 1) < NrColumns THEN s[l][k + (n + 1)] ELSE Blank
      BY RemovedAt
    <2>3. /\ IsScreen(w)
          /\ \A l \in Lines, k \in Columns : w[l][k] = IF l # j \/ k < i THEN s[l][k]
                                                       ELSE IF k + 0 < NrColumns THEN s[l][k + 0] ELSE Blank
      BY RemovedAt
    <2> HIDE DEF t
    <2>4. /\ IsScreen(u)
          /\ \A l \in Lines, k \in Columns : u[l][k] = IF l # j \/ k < i THEN t[l][k]
                                                       ELSE IF k + 1 < NrColumns THEN t[l][k + 1] ELSE Blank
      BY <2>1, RemovedAt
    <2> HIDE DEF u, v, w
    <2>5. ASSUME NEW l \in Lines, NEW k \in Columns
          PROVE  u[l][k] = v[l][k] /\ w[l][k] = s[l][k]
      <3>1. k \in Int /\ k >= 0 /\ k < NrColumns /\ k + 0 = k
        BY <1>1 DEF Columns
      <3>2. w[l][k] = s[l][k]
        BY <1>1, <2>3, <3>1
      <3>3. CASE l # j \/ k < i
        BY <2>1, <2>2, <2>4, <3>2, <3>3
      <3>4. CASE l = j /\ k >= i /\ k + 1 < NrColumns
        <4>1. k + 1 \in Columns /\ ~ (k + 1 < i) /\ (k + 1) + n = k + (n + 1) /\ ~ (k < i)
          BY <1>1, <3>1, <3>4 DEF Columns
        <4>2. u[l][k] = t[l][k + 1]
          BY <2>4, <3>4, <4>1
        <4>3. t[l][k + 1] = IF (k + 1) + n < NrColumns THEN s[l][(k + 1) + n] ELSE Blank
          BY <2>1, <3>4, <4>1
        <4>4. v[l][k] = IF k + (n + 1) < NrColumns THEN s[l][k + (n + 1)] ELSE Blank
          BY <2>2, <3>4, <4>1
        <4> QED BY <3>2, <4>1, <4>2, <4>3, <4>4
      <3>5. CASE l = j /\ k >= i /\ ~ (k + 1 < NrColumns)
        <4>1. ~ (k < i) /\ ~ (k + (n + 1) < NrColumns)
          BY <1>1, <3>1, <3>5
        <4> QED BY <2>2, <2>4, <3>2, <3>5, <4>1
      <3> QED BY <3>1, <3>2, <3>3, <3>4, <3>5
    <2>6. u = v /\ w = s
      BY <2>2, <2>3, <2>4, <2>5, ScreensAreEqual
    <2> QED BY <1>4, <2>1, <2>6 DEF ShiftsOn, Shifted, t, u, v, w
  <1>5. CASE ch = "L"
    <2> DEFINE t == Shown!ScrolledDown(s, j, NrLines, n)
               u == Shown!ScrolledDown(t, j, NrLines, 1)
               v == Shown!ScrolledDown(s, j, NrLines, n + 1)
               w == Shown!ScrolledDown(s, j, NrLines, 0)
    <2>1. /\ IsScreen(t)
          /\ \A l \in Lines, k \in Columns : t[l][k] = IF l \notin j..NrLines - 1 THEN s[l][k]
                                                       ELSE IF l - n >= j THEN s[l - n][k] ELSE Blank
      BY <1>1, <1>2, DownAt
    <2>2. /\ IsScreen(v)
          /\ \A l \in Lines, k \in Columns : v[l][k] = IF l \notin j..NrLines - 1 THEN s[l][k]
                                                       ELSE IF l - (n + 1) >= j THEN s[l - (n + 1)][k] ELSE Blank
      BY <1>1, <1>2, DownAt
    <2>3. /\ IsScreen(w)
          /\ \A l \in Lines, k \in Columns : w[l][k] = IF l \notin j..NrLines - 1 THEN s[l][k]
                                                       ELSE IF l - 0 >= j THEN s[l - 0][k] ELSE Blank
      BY <1>1, <1>2, DownAt
    <2> HIDE DEF t
    <2>4. /\ IsScreen(u)
          /\ \A l \in Lines, k \in Columns : u[l][k] = IF l \notin j..NrLines - 1 THEN t[l][k]
                                                       ELSE IF l - 1 >= j THEN t[l - 1][k] ELSE Blank
      BY <1>1, <1>2, <2>1, DownAt
    <2> HIDE DEF u, v, w
    <2>5. ASSUME NEW l \in Lines, NEW k \in Columns
          PROVE  u[l][k] = v[l][k] /\ w[l][k] = s[l][k]
      <3>1. l \in Int /\ l >= 0 /\ l < NrLines /\ l - 0 = l
        BY <1>1 DEF Lines
      <3>2. w[l][k] = s[l][k]
        BY <1>1, <2>3, <3>1
      <3>3. CASE l \notin j..NrLines - 1
        BY <2>1, <2>2, <2>4, <3>2, <3>3
      <3>4. CASE l \in j..NrLines - 1 /\ l - 1 >= j
        <4>1. l - 1 \in Lines /\ l - 1 \in j..NrLines - 1 /\ (l - 1) - n = l - (n + 1)
          BY <1>1, <3>1, <3>4 DEF Lines
        <4>2. u[l][k] = t[l - 1][k]
          BY <2>4, <3>4, <4>1
        <4>3. t[l - 1][k] = IF (l - 1) - n >= j THEN s[(l - 1) - n][k] ELSE Blank
          BY <2>1, <3>4, <4>1
        <4>4. v[l][k] = IF l - (n + 1) >= j THEN s[l - (n + 1)][k] ELSE Blank
          BY <2>2, <3>4, <4>1
        <4> QED BY <3>2, <4>1, <4>2, <4>3, <4>4
      <3>5. CASE l \in j..NrLines - 1 /\ ~ (l - 1 >= j)
        <4>1. ~ (l - (n + 1) >= j)
          BY <1>1, <3>1, <3>5
        <4> QED BY <2>2, <2>4, <3>2, <3>5, <4>1
      <3> QED BY <3>3, <3>4, <3>5
    <2>6. u = v /\ w = s
      BY <2>2, <2>3, <2>4, <2>5, ScreensAreEqual
    <2> QED BY <1>5, <2>1, <2>6 DEF ShiftsOn, Shifted, t, u, v, w
  <1>6. CASE ch = "M"
    <2> DEFINE t == Shown!ScrolledUp(s, j, NrLines, n)
               u == Shown!ScrolledUp(t, j, NrLines, 1)
               v == Shown!ScrolledUp(s, j, NrLines, n + 1)
               w == Shown!ScrolledUp(s, j, NrLines, 0)
    <2>1. /\ IsScreen(t)
          /\ \A l \in Lines, k \in Columns : t[l][k] = IF l \notin j..NrLines - 1 THEN s[l][k]
                                                       ELSE IF l + n < NrLines THEN s[l + n][k] ELSE Blank
      BY <1>1, <1>2, UpAt
    <2>2. /\ IsScreen(v)
          /\ \A l \in Lines, k \in Columns : v[l][k] = IF l \notin j..NrLines - 1 THEN s[l][k]
                                                       ELSE IF l + (n + 1) < NrLines THEN s[l + (n + 1)][k] ELSE Blank
      BY <1>1, <1>2, UpAt
    <2>3. /\ IsScreen(w)
          /\ \A l \in Lines, k \in Columns : w[l][k] = IF l \notin j..NrLines - 1 THEN s[l][k]
                                                       ELSE IF l + 0 < NrLines THEN s[l + 0][k] ELSE Blank
      BY <1>1, <1>2, UpAt
    <2> HIDE DEF t
    <2>4. /\ IsScreen(u)
          /\ \A l \in Lines, k \in Columns : u[l][k] = IF l \notin j..NrLines - 1 THEN t[l][k]
                                                       ELSE IF l + 1 < NrLines THEN t[l + 1][k] ELSE Blank
      BY <1>1, <1>2, <2>1, UpAt
    <2> HIDE DEF u, v, w
    <2>5. ASSUME NEW l \in Lines, NEW k \in Columns
          PROVE  u[l][k] = v[l][k] /\ w[l][k] = s[l][k]
      <3>1. l \in Int /\ l >= 0 /\ l < NrLines /\ l + 0 = l
        BY <1>1 DEF Lines
      <3>2. w[l][k] = s[l][k]
        BY <1>1, <2>3, <3>1
      <3>3. CASE l \notin j..NrLines - 1
        BY <2>1, <2>2, <2>4, <3>2, <3>3
      <3>4. CASE l \in j..NrLines - 1 /\ l + 1 < NrLines
        <4>1. l + 1 \in Lines /\ l + 1 \in j..NrLines - 1 /\ (l + 1) + n = l + (n + 1)
          BY <1>1, <3>1, <3>4 DEF Lines
        <4>2. u[l][k] = t[l + 1][k]
          BY <2>4, <3>4, <4>1
        <4>3. t[l + 1][k] = IF (l + 1) + n < NrLines THEN s[(l + 1) + n][k] ELSE Blank
          BY <2>1, <3>4, <4>1
        <4>4. v[l][k] = IF l + (n + 1) < NrLines THEN s[l + (n + 1)][k] ELSE Blank
          BY <2>2, <3>4, <4>1
        <4> QED BY <3>2, <4>1, <4>2, <4>3, <4>4
      <3>5. CASE l \in j..NrLines - 1 /\ ~ (l + 1 < NrLines)
        <4>1. ~ (l + (n + 1) < NrLines)
          BY <1>1, <3>1, <3>5
        <4> QED BY <2>2, <2>4, <3>2, <3>5, <4>1
      <3> QED BY <3>3, <3>4, <3>5
    <2>6. u = v /\ w = s
      BY <2>2, <2>3, <2>4, <2>5, ScreensAreEqual
    <2> QED BY <1>6, <2>1, <2>6 DEF ShiftsOn, Shifted, t, u, v, w
  <1> QED BY <1>3, <1>4, <1>5, <1>6

-----------------------------------------------------------------------------
(* Induction over the natural numbers, for a set of them. *)
LEMMA LeastOf ==
  ASSUME NEW A \in SUBSET Nat, A # {}
  PROVE  \E n \in A : \A m \in A : n <= m
  <1> DEFINE T == {0..k : k \in A}
  <1>1. IsWellFoundedOn(StrictSubsetOrdering(Nat), FiniteSubsetsOf(Nat))
    BY FS_StrictSubsetOrderingWellFounded
  <1>2. T \subseteq FiniteSubsetsOf(Nat) /\ T # {}
    <2>1. ASSUME NEW k \in A PROVE IsFiniteSet(0..k) /\ 0..k \in SUBSET Nat
      BY FS_Interval
    <2> QED BY <2>1, Zenon DEF FiniteSubsetsOf
  <1>3. PICK x \in T : \A y \in T : ~ (<<y, x>> \in StrictSubsetOrdering(Nat))
    BY <1>1, <1>2, WFMin, Zenon
  <1>4. PICK n \in A : x = 0..n
    OBVIOUS
  <1>5. ASSUME NEW m \in A, m < n PROVE FALSE
    <2>1. 0..m \in SUBSET Nat /\ 0..n \in SUBSET Nat /\ 0..m \subseteq 0..n /\ n \in 0..n /\ n \notin 0..m
      BY <1>5
    <2>2. 0..m # 0..n
      BY <2>1
    <2>3. <<0..m, 0..n>> \in (SUBSET Nat) \X (SUBSET Nat)
      BY <2>1
    <2>4. <<0..m, 0..n>> \in StrictSubsetOrdering(Nat)
      BY <2>1, <2>2, <2>3, Zenon DEF StrictSubsetOrdering
    <2> QED BY <1>3, <1>4, <2>4
  <1> QED BY <1>5

LEMMA Induct ==
  ASSUME NEW A \in SUBSET Nat, 0 \in A, \A n \in A : n + 1 \in A
  PROVE  A = Nat
  <1> SUFFICES ASSUME Nat \ A # {} PROVE FALSE
    OBVIOUS
  <1>1. PICK n \in Nat \ A : \A m \in Nat \ A : n <= m
    BY LeastOf
  <1> QED BY <1>1

LEMMA OneEdit ==
  ASSUME ConsoleAssumption, NEW c, Good(c), NEW ch \in {"@", "P", "L", "M"}
  PROVE  /\ Good(Edited(c, ch)) /\ Kept(c, Edited(c, ch))
         /\ Shows(Edited(c, ch)) = Shifted(ch, Shows(c), c.y, c.x, 1)
  <1>1. CASE ch = "@"
    <2>1. Edited(c, ch) = InsertChar(c)
      BY <1>1 DEF Edited
    <2>2. \A s, j, i, n : Shifted(ch, s, j, i, n) = Inserted(s, j, i, n)
      BY <1>1 DEF Shifted
    <2>3. IsInserted(c, InsertChar(c), 1)
      BY InsertCharShifts
    <2> QED BY <2>1, <2>2, <2>3, Zenon DEF IsInserted
  <1>2. CASE ch = "P"
    <2>1. Edited(c, ch) = DeleteChar(c)
      BY <1>2 DEF Edited
    <2>2. \A s, j, i, n : Shifted(ch, s, j, i, n) = Removed(s, j, i, n)
      BY <1>2 DEF Shifted
    <2>3. IsRemoved(c, DeleteChar(c), 1)
      BY DeleteCharShifts
    <2> QED BY <2>1, <2>2, <2>3, Zenon DEF IsRemoved
  <1>3. CASE ch = "L"
    <2>1. Edited(c, ch) = InsertLine(c)
      BY <1>3 DEF Edited
    <2>2. \A s, j, i, n : Shifted(ch, s, j, i, n) = Shown!ScrolledDown(s, j, NrLines, n)
      BY <1>3 DEF Shifted
    <2>3. /\ Good(InsertLine(c)) /\ Kept(c, InsertLine(c))
          /\ Shows(InsertLine(c)) = Shown!ScrolledDown(Shows(c), c.y, NrLines, 1)
      BY InsertLineScrolls
    <2> QED BY <2>1, <2>2, <2>3, Zenon
  <1>4. CASE ch = "M"
    <2>1. Edited(c, ch) = DeleteLine(c)
      BY <1>4 DEF Edited
    <2>2. \A s, j, i, n : Shifted(ch, s, j, i, n) = Shown!ScrolledUp(s, j, NrLines, n)
      BY <1>4 DEF Shifted
    <2>3. /\ Good(DeleteLine(c)) /\ Kept(c, DeleteLine(c))
          /\ Shows(DeleteLine(c)) = Shown!ScrolledUp(Shows(c), c.y, NrLines, 1)
      BY DeleteLineScrolls
    <2> QED BY <2>1, <2>2, <2>3, Zenon
  <1> QED BY <1>1, <1>2, <1>3, <1>4

IsAfter(c, d, ch, n) ==
  Good(d) /\ Kept(c, d) /\ Shows(d) = Shifted(ch, Shows(c), c.y, c.x, n)

LEMMA EditAgain ==
  ASSUME ConsoleAssumption, NEW c, Good(c), NEW ch \in {"@", "P", "L", "M"},
         NEW d, NEW n \in Nat, IsAfter(c, d, ch, n)
  PROVE  IsAfter(c, Edited(d, ch), ch, n + 1)
  <1> DEFINE e == Edited(d, ch)
  <1>1. Good(d) /\ Kept(c, d) /\ Shows(d) = Shifted(ch, Shows(c), c.y, c.x, n)
    BY DEF IsAfter
  <1>2. Good(e) /\ Kept(d, e) /\ Shows(e) = Shifted(ch, Shows(d), d.y, d.x, 1)
    BY <1>1, OneEdit
  <1> HIDE DEF e
  <1>3. Kept(c, e) /\ d.x = c.x /\ d.y = c.y
    BY <1>1, <1>2 DEF Kept
  <1>4. Shows(e) = Shifted(ch, Shifted(ch, Shows(c), c.y, c.x, n), c.y, c.x, 1)
    BY <1>1, <1>2, <1>3, Zenon
  <1>5. Shows(e) = Shifted(ch, Shows(c), c.y, c.x, n + 1)
    <2>1. c.y \in Lines /\ c.x \in Int /\ c.x >= 0 /\ IsScreen(Shows(c))
      BY Sizes, ShownAt
    <2>2. ASSUME NEW s, IsScreen(s), NEW j \in Lines, NEW i \in Int, i >= 0
          PROVE  ShiftsOn(ch, s, j, i, n)
      BY <2>2, ShiftedTwice
    <2>3. ShiftsOn(ch, Shows(c), c.y, c.x, n)
      BY <2>1, <2>2, Zenon
    <2> QED BY <1>4, <2>3, Zenon DEF ShiftsOn
  <1> QED BY <1>2, <1>3, <1>5 DEF IsAfter, e

LEMMA EditedTimesShifts ==
  ASSUME ConsoleAssumption, NEW c, Good(c), NEW ch \in {"@", "P", "L", "M"}, NEW par \in Nat
  PROVE  \E n \in 1..IF ch \in {"L", "M"} THEN NrLines ELSE NrColumns :
           IsAfter(c, EditedTimes(c, ch, par), ch, n)
  <1> DEFINE max == IF ch \in {"L", "M"} THEN NrLines ELSE NrColumns
             Is(f, m) == f = [i \in 0..m |-> IF i = 0 THEN c ELSE Edited(f[i - 1], ch)]
             A == {m \in Nat : \E f : Is(f, m)}
             times == IF par > max THEN max ELSE IF par = 0 THEN 1 ELSE par
             after == CHOOSE f : Is(f, max)
  <1>1. max \in Nat /\ max >= 1 /\ times \in 1..max
    BY DEF ConsoleAssumption
  <1>2. EditedTimes(c, ch, par) = after[times]
    BY DEF EditedTimes
  <1>3. 0 \in A
    <2>1. Is([i \in 0..0 |-> c], 0)
      <3>1. \A i \in 0..0 : i = 0
        OBVIOUS
      <3> QED BY <3>1
    <2> HIDE DEF Is
    <2> QED BY <2>1
  <1>4. ASSUME NEW m \in A PROVE m + 1 \in A
    <2>1. m \in Nat
      OBVIOUS
    <2>2. PICK f : Is(f, m)
      OBVIOUS
    <2> DEFINE g == [i \in 0..m + 1 |-> IF i = m + 1 THEN Edited(f[m], ch) ELSE f[i]]
    <2>3. ASSUME NEW i \in 0..m + 1
          PROVE  g[i] = IF i = 0 THEN c ELSE Edited(g[i - 1], ch)
      <3>1. CASE i = 0
        BY <2>1, <2>2, <3>1
      <3>2. CASE i = m + 1
        <4>1. i - 1 = m /\ m \in 0..m + 1 /\ m # m + 1
          BY <2>1, <3>2
        <4>2. g[i] = Edited(f[m], ch) /\ g[m] = f[m]
          BY <3>2, <4>1
        <4> QED BY <2>1, <3>2, <4>1, <4>2
      <3>3. CASE i # 0 /\ i # m + 1
        <4>1. i \in 0..m /\ i - 1 \in 0..m + 1 /\ i - 1 # m + 1
          BY <2>1, <3>3
        <4>2. g[i] = f[i] /\ g[i - 1] = f[i - 1]
          BY <3>3, <4>1
        <4>3. f[i] = Edited(f[i - 1], ch)
          BY <2>2, <3>3, <4>1
        <4> QED BY <3>3, <4>2, <4>3
      <3> QED BY <3>1, <3>2, <3>3
    <2>4. Is(g, m + 1)
      <3>1. g = [i \in 0..m + 1 |-> g[i]]
        OBVIOUS
      <3> HIDE DEF g
      <3> QED BY <2>3, <3>1
    <2> HIDE DEF Is, g
    <2> QED BY <2>1, <2>4
  <1>5. A = Nat
    <2>1. A \in SUBSET Nat
      OBVIOUS
    <2> HIDE DEF A
    <2> QED BY <1>3, <1>4, <2>1, Induct
  <1>6. Is(after, max)
    <2> HIDE DEF Is
    <2>1. \E f : Is(f, max)
      BY <1>1, <1>5
    <2> QED BY <2>1
  <1> HIDE DEF after, max, times, A
  <1> DEFINE B == {m \in Nat : m <= max => IsAfter(c, after[m], ch, m)}
  <1>7. 0 \in B
    <2>1. after[0] = c
      BY <1>1, <1>6
    <2>2. Shows(c) = Shifted(ch, Shows(c), c.y, c.x, 0)
      <3> DEFINE s == Shows(c)
                 j == c.y
                 i == c.x
      <3>1. j \in Lines /\ i \in Int /\ i >= 0 /\ IsScreen(s) /\ 0 \in Nat
        BY Sizes, ShownAt
      <3> HIDE DEF s, j, i
      <3>2. s = Shifted(ch, s, j, i, 0)
        BY <3>1, ShiftedTwice, SMTT(30) DEF ShiftsOn
      <3> QED BY <3>2 DEF s, j, i
    <2>3. IsAfter(c, c, ch, 0)
      BY <2>2 DEF IsAfter, Kept
    <2> QED BY <2>1, <2>3
  <1>8. ASSUME NEW m \in B PROVE m + 1 \in B
    <2>1. m \in Nat /\ m + 1 \in Nat
      OBVIOUS
    <2>2. SUFFICES ASSUME m + 1 <= max PROVE IsAfter(c, after[m + 1], ch, m + 1)
      BY <2>1
    <2>3. IsAfter(c, after[m], ch, m)
      BY <1>1, <2>1, <2>2
    <2>4. after[m + 1] = Edited(after[m], ch)
      <3>1. m + 1 \in 0..max /\ m + 1 # 0 /\ (m + 1) - 1 = m
        BY <1>1, <2>1, <2>2
      <3>2. after[m + 1] = Edited(after[(m + 1) - 1], ch)
        BY <1>6, <3>1
      <3> QED BY <3>1, <3>2
    <2> HIDE DEF B
    <2> QED BY <2>1, <2>3, <2>4, EditAgain
  <1>9. B = Nat
    <2>1. B \in SUBSET Nat
      OBVIOUS
    <2> HIDE DEF B
    <2> QED BY <1>7, <1>8, <2>1, Induct
  <1>10. IsAfter(c, after[times], ch, times) /\ times \in 1..max
    <2>1. times \in B /\ times <= max
      BY <1>1, <1>9
    <2> QED BY <1>1, <2>1
  <1> QED BY <1>2, <1>10 DEF max

-----------------------------------------------------------------------------
(* A step of the console, as one of the screen. *)
Reverses(c, d) ==
  /\ c.y <= c.top /\ d.x = c.x /\ d.y = c.y /\ d.top = c.top /\ d.bottom = c.bottom
  /\ Shows(d) = Shown!ScrolledDown(Shows(c), c.top, c.bottom, 1)

Edits(c, d) ==
  /\ d.x = c.x /\ d.y = c.y /\ d.top = c.top /\ d.bottom = c.bottom
  /\ \E ch \in {"@", "P", "L", "M"} :
       \E n \in 1..IF ch \in {"L", "M"} THEN NrLines ELSE NrColumns :
         Shows(d) = Shifted(ch, Shows(c), c.y, c.x, n)

Acts(c, d) ==
  /\ Good(d)
  /\ \/ MovesTo(c, d)
     \/ Puts(c, d, Printable)
     \/ Feeds(c, d)
     \/ Reverses(c, d)
     \/ Deletes(c, d)
     \/ Clears(c, d)
     \/ Edits(c, d)
     \/ Shows(d) = Shows(c) /\ d.x = c.x /\ d.y = c.y

(* What the automaton remembers is not shown. *)
Like(c, e) ==
  /\ Good(e) /\ Shows(e) = Shows(c)
  /\ e.x = c.x /\ e.y = c.y /\ e.top = c.top /\ e.bottom = c.bottom

LEMMA LikeActs ==
  ASSUME NEW c, NEW d, NEW e, Like(c, e), Acts(e, d)
  PROVE  Acts(c, d)
  <1>1. /\ Good(e) /\ Shows(e) = Shows(c)
        /\ e.x = c.x /\ e.y = c.y /\ e.top = c.top /\ e.bottom = c.bottom
    BY DEF Like
  <1>2. Good(d)
    BY DEF Acts
  <1>3. MovesTo(e, d) => MovesTo(c, d)
    BY <1>1 DEF MovesTo
  <1>4. \A f : Feeds(e, f) => Feeds(c, f)
    BY <1>1, Zenon DEF Feeds
  <1>5. Puts(e, d, Printable) => Puts(c, d, Printable)
    BY <1>1, <1>4, Zenon DEF Puts
  <1>6. Reverses(e, d) => Reverses(c, d)
    BY <1>1, Zenon DEF Reverses
  <1>7. Deletes(e, d) => Deletes(c, d)
    BY <1>1 DEF Deletes
  <1>8. Clears(e, d) => Clears(c, d)
    BY <1>1, Zenon DEF Clears
  <1>9. Edits(e, d) => Edits(c, d)
    BY <1>1, Zenon DEF Edits
  <1>10. \/ MovesTo(e, d) \/ Puts(e, d, Printable) \/ Feeds(e, d) \/ Reverses(e, d)
         \/ Deletes(e, d) \/ Clears(e, d) \/ Edits(e, d)
         \/ Shows(d) = Shows(e) /\ d.x = e.x /\ d.y = e.y
    BY DEF Acts
  <1> QED BY <1>1, <1>2, <1>3, <1>4, <1>5, <1>6, <1>7, <1>8, <1>9, <1>10, Zenon DEF Acts

Unmoved(c, d) ==
  /\ d \in Records /\ d.mem = c.mem /\ d.npar \in 1..NPAR
  /\ d.x = c.x /\ d.y = c.y /\ d.pos = c.pos /\ d.origin = c.origin /\ d.scr_end = c.scr_end
  /\ d.top = c.top /\ d.bottom = c.bottom

LEMMA LikeIt ==
  ASSUME ConsoleAssumption, NEW c, Good(c), NEW d, Unmoved(c, d)
  PROVE  Like(c, d)
  <1>1. /\ d \in Records /\ d.mem = c.mem /\ d.npar \in 1..NPAR
        /\ d.x = c.x /\ d.y = c.y /\ d.pos = c.pos /\ d.origin = c.origin /\ d.scr_end = c.scr_end
        /\ d.top = c.top /\ d.bottom = c.bottom
    BY DEF Unmoved
  <1>2. OnScreen(c)
    BY DEF Good
  <1>3. Good(d)
    BY <1>1, <1>2 DEF Good, OnScreen
  <1>4. Shows(d) = Shows(c)
    BY <1>1 DEF Shows
  <1> QED BY <1>1, <1>3, <1>4 DEF Like

LEMMA ThroughLike ==
  ASSUME NEW c, NEW d, Like(c, d)
  PROVE  Acts(c, d)
  BY DEF Like, Acts

LEMMA MovesAct ==
  ASSUME NEW c, NEW d, MovesTo(c, d)
  PROVE  Acts(c, d)
  BY DEF MovesTo, Acts

LEMMA FeedsAct ==
  ASSUME NEW c, NEW d, Feeds(c, d)
  PROVE  Acts(c, d)
  BY DEF Feeds, Acts

LEMMA EditsAct ==
  ASSUME ConsoleAssumption, NEW c, Good(c), NEW ch \in {"@", "P", "L", "M"}, NEW par \in Nat
  PROVE  Acts(c, EditedTimes(c, ch, par))
  <1> DEFINE d == EditedTimes(c, ch, par)
  <1>1. PICK n \in 1..IF ch \in {"L", "M"} THEN NrLines ELSE NrColumns : IsAfter(c, d, ch, n)
    BY EditedTimesShifts
  <1> HIDE DEF d
  <1>2. Good(d) /\ d.x = c.x /\ d.y = c.y /\ d.top = c.top /\ d.bottom = c.bottom
        /\ Shows(d) = Shifted(ch, Shows(c), c.y, c.x, n)
    BY <1>1 DEF IsAfter, Kept
  <1>3. Edits(c, d)
    BY <1>2, Zenon DEF Edits
  <1> QED BY <1>2, <1>3 DEF Acts, d

LEMMA RiActs ==
  ASSUME ConsoleAssumption, NEW c, Good(c)
  PROVE  Acts(c, Ri(c))
  <1>1. CASE MovesTo(c, Ri(c))
    BY <1>1, MovesAct
  <1>2. CASE /\ c.y <= c.top /\ Good(Ri(c)) /\ Kept(c, Ri(c))
             /\ Shows(Ri(c)) = Shown!ScrolledDown(Shows(c), c.top, c.bottom, 1)
    BY <1>2, Zenon DEF Acts, Reverses, Kept
  <1> QED BY <1>1, <1>2, RiFeeds

LEMMA DelActs ==
  ASSUME ConsoleAssumption, NEW c, Good(c)
  PROVE  Acts(c, Del(c))
  <1>1. CASE Del(c) = c
    BY <1>1, StaysThere, MovesAct
  <1>2. CASE Deletes(c, Del(c))
    BY <1>2, Zenon DEF Acts, Deletes
  <1> QED BY <1>1, <1>2, DelDeletes

LEMMA ClearsAct ==
  ASSUME ConsoleAssumption, NEW c, Good(c), NEW par
  PROVE  Acts(c, CsiJ(c, par)) /\ Acts(c, CsiK(c, par))
  <1>1. Acts(c, c)
    BY StaysThere, MovesAct
  <1>2. ASSUME NEW d, Clears(c, d)
        PROVE  Acts(c, d)
    BY <1>2, Zenon DEF Acts, Clears
  <1> QED BY <1>1, <1>2, CsiJClears, CsiKClears

LEMMA RegionActs ==
  ASSUME ConsoleAssumption, NEW c, Good(c), NEW a \in Nat, NEW b \in Nat
  PROVE  Acts(c, Region(c, a, b))
  <1>1. CASE a < b /\ b <= NrLines
    <2>1. Region(c, a, b) = WithRegion(c, a, b)
      BY <1>1 DEF Region, WithRegion
    <2>2. IsRegion(c, WithRegion(c, a, b), a, b)
      BY <1>1, RegionSet
    <2> QED BY <2>1, <2>2, Zenon DEF IsRegion, Acts
  <1>2. CASE ~ (a < b /\ b <= NrLines)
    <2>1. Region(c, a, b) = c
      BY <1>2 DEF Region
    <2> QED BY <2>1, StaysThere, MovesAct
  <1> QED BY <1>1, <1>2

LEMMA CrMoves ==
  ASSUME ConsoleAssumption, NEW c, Good(c)
  PROVE  MovesTo(c, Cr(c))
  <1> DEFINE i == 0
             p == c.pos - c.x
  <1>1. c \in Records
    BY Sizes
  <1>2. Cr(c) = At(c, i, c.y, p)
    BY <1>1 DEF Cr, At, Records
  <1>3. i \in 0..NrColumns /\ c.y \in Lines
    BY Sizes
  <1>4. p = c.origin + c.y * NrColumns + i
    <2>1. c.pos \in Int /\ c.x \in Int /\ c.origin \in Int /\ c.y * NrColumns \in Int
          /\ c.pos = c.origin + c.y * NrColumns + c.x
      BY Sizes
    <2> QED BY <2>1
  <1> HIDE DEF i, p
  <1> QED BY <1>2, <1>3, <1>4, AtMoves

LEMMA BackMoves ==
  ASSUME ConsoleAssumption, NEW c, Good(c), c.x > 0
  PROVE  MovesTo(c, [c EXCEPT !.x = @ - 1, !.pos = @ - 1])
  <1> DEFINE i == c.x - 1
             p == c.pos - 1
             d == [c EXCEPT !.x = @ - 1, !.pos = @ - 1]
  <1>1. c \in Records
    BY Sizes
  <1>2. d = At(c, i, c.y, p)
    BY <1>1 DEF At, Records
  <1> HIDE DEF d
  <1>3. i \in 0..NrColumns /\ c.y \in Lines
    BY Sizes
  <1>4. p = c.origin + c.y * NrColumns + i
    <2>1. c.pos \in Int /\ c.x \in Int /\ c.origin \in Int /\ c.y * NrColumns \in Int
          /\ c.pos = c.origin + c.y * NrColumns + c.x
      BY Sizes
    <2> QED BY <2>1
  <1> HIDE DEF i, p
  <1> QED BY <1>2, <1>3, <1>4, AtMoves DEF d

States == {"normal", "esc", "square", "getpars", "skip"}

LEMMA StateLike ==
  ASSUME ConsoleAssumption, NEW c, Good(c), NEW st \in States
  PROVE  Like(c, [c EXCEPT !.state = st])
  <1> DEFINE d == [c EXCEPT !.state = st]
  <1>1. c \in Records /\ c.npar \in 1..NPAR
    BY Sizes
  <1>2. Unmoved(c, d)
    BY <1>1 DEF Unmoved, Records, States
  <1> QED BY <1>2, LikeIt

Automaton(c, st, qs, n, ps) == [c EXCEPT !.state = st, !.ques = qs, !.npar = n, !.par = ps]

LEMMA AutomatonLike ==
  ASSUME ConsoleAssumption, NEW c, Good(c), NEW st \in States, NEW qs \in BOOLEAN, NEW n \in 1..NPAR,
         NEW ps \in [1..NPAR -> Nat]
  PROVE  Like(c, Automaton(c, st, qs, n, ps))
  <1> DEFINE d == Automaton(c, st, qs, n, ps)
  <1>1. c \in Records /\ n \in Int
    BY Sizes
  <1>2. d \in Records
    BY <1>1 DEF Records, States, Automaton
  <1>3. /\ d.npar = n /\ d.mem = c.mem /\ d.x = c.x /\ d.y = c.y /\ d.pos = c.pos /\ d.origin = c.origin
        /\ d.scr_end = c.scr_end /\ d.top = c.top /\ d.bottom = c.bottom
    BY <1>1 DEF Records, Automaton
  <1>4. Unmoved(c, d)
    BY <1>2, <1>3 DEF Unmoved
  <1> QED BY <1>4, LikeIt

LEMMA ForgottenLike ==
  ASSUME ConsoleAssumption, NEW c, Good(c)
  PROVE  Like(c, Forgotten(c))
  <1> DEFINE st == "normal"
             qs == FALSE
             n == 1
             ps == NoPars
  <1>1. st \in States /\ qs \in BOOLEAN /\ n \in 1..NPAR /\ ps \in [1..NPAR -> Nat]
    BY Sizes DEF NoPars, States
  <1>2. Forgotten(c) = Automaton(c, st, qs, n, ps)
    BY DEF Forgotten, Automaton
  <1> HIDE DEF st, qs, n, ps
  <1> QED BY <1>1, <1>2, AutomatonLike

LEMMA SaveLike ==
  ASSUME ConsoleAssumption, NEW c, Good(c)
  PROVE  Like(c, SaveCur(c))
  <1>1. c \in Records /\ c.npar \in 1..NPAR
    BY Sizes
  <1>2. Unmoved(c, SaveCur(c))
    BY <1>1 DEF Unmoved, Records, SaveCur
  <1> QED BY <1>2, LikeIt

LEMMA GotoActs ==
  ASSUME ConsoleAssumption, NEW c, Good(c), NEW nx \in Int, NEW ny \in Int
  PROVE  Acts(c, GotoXY(c, nx, ny))
  BY GotoXYMoves, MovesAct

LEMMA RestoreActs ==
  ASSUME ConsoleAssumption, NEW c, Good(c)
  PROVE  Acts(c, RestoreCur(c))
  <1> DEFINE i == c.saved_x
             j == c.saved_y
  <1>1. i \in Int /\ j \in Int
    BY Sizes
  <1> HIDE DEF i, j
  <1>2. Acts(c, GotoXY(c, i, j))
    BY <1>1, GotoActs
  <1> QED BY <1>2 DEF RestoreCur, i, j

LEMMA NormalActs ==
  ASSUME ConsoleAssumption, NEW c, Good(c), NEW ch
  PROVE  Acts(c, Normal(c, ch))
  <1>1. CASE ch = Printable
    BY <1>1, PrintablePuts, Zenon DEF Acts, Puts
  <1>2. CASE ch = "ESC"
    <2>1. Normal(c, ch) = [c EXCEPT !.state = "esc"]
      BY <1>2 DEF Normal, Printable
    <2> DEFINE st == "esc"
    <2>2. st \in States
      BY DEF States
    <2> HIDE DEF st
    <2>3. Like(c, [c EXCEPT !.state = st])
      BY <2>2, StateLike
    <2> QED BY <2>1, <2>3, ThroughLike DEF st
  <1>3. CASE ch = "LF"
    <2>1. Normal(c, ch) = Lf(c)
      BY <1>3 DEF Normal, Printable
    <2> QED BY <2>1, LfFeeds, FeedsAct
  <1>4. CASE ch = "CR"
    <2>1. Normal(c, ch) = Cr(c)
      BY <1>4 DEF Normal, Printable
    <2> QED BY <2>1, CrMoves, MovesAct
  <1>5. CASE ch = "DEL"
    <2>1. Normal(c, ch) = Del(c)
      BY <1>5 DEF Normal, Printable
    <2> QED BY <2>1, DelActs
  <1>6. CASE ch = "BS"
    <2> DEFINE d == [c EXCEPT !.x = @ - 1, !.pos = @ - 1]
    <2>1. Normal(c, ch) = IF c.x > 0 THEN d ELSE c
      BY <1>6 DEF Normal, Printable
    <2>2. c.x > 0 => MovesTo(c, d)
      BY BackMoves
    <2> HIDE DEF d
    <2> QED BY <2>1, <2>2, StaysThere, MovesAct
  <1>7. CASE ch = "TAB"
    BY <1>7, TabMoves, MovesAct, FeedsAct
  <1>8. CASE ch \notin {Printable, "ESC", "LF", "CR", "DEL", "BS", "TAB"}
    <2>1. Normal(c, ch) = c
      BY <1>8 DEF Normal
    <2> QED BY <2>1, StaysThere, MovesAct
  <1> QED BY <1>1, <1>2, <1>3, <1>4, <1>5, <1>6, <1>7, <1>8

LEMMA EscActs ==
  ASSUME ConsoleAssumption, NEW c, Good(c), NEW ch
  PROVE  Acts(c, Esc(c, ch))
  <1> DEFINE st == "normal"
             d == [c EXCEPT !.state = st]
  <1>1. Like(c, d)
    <2>1. st \in States
      BY DEF States
    <2> HIDE DEF st
    <2> QED BY <2>1, StateLike
  <1>2. Good(d)
    BY <1>1 DEF Like
  <1>3. /\ d = [c EXCEPT !.state = "normal"]
        /\ [d EXCEPT !.state = "square"] = [c EXCEPT !.state = "square"]
        /\ [d EXCEPT !.state = "skip"] = [c EXCEPT !.state = "skip"]
    <2>1. c \in Records
      BY Sizes
    <2> QED BY <2>1 DEF Records
  <1>4. Esc(c, ch) = CASE ch = "[" -> [d EXCEPT !.state = "square"]
                       [] ch = "E" -> GotoXY(d, 0, d.y + 1)
                       [] ch = "M" -> Ri(d)
                       [] ch = "D" -> Lf(d)
                       [] ch = "7" -> SaveCur(d)
                       [] ch = "8" -> RestoreCur(d)
                       [] ch = "c" -> [d EXCEPT !.top = 0, !.bottom = NrLines]
                       [] ch \in {"(", "P", "#"} -> [d EXCEPT !.state = "skip"]
                       [] OTHER -> d
    BY DEF Esc
  <1> HIDE DEF d, st
  <1>5. ASSUME NEW e, Acts(d, e) PROVE Acts(c, e)
    BY <1>1, <1>5, LikeActs
  <1>6. Acts(d, d)
    BY <1>2, StaysThere, MovesAct
  <1>7. ASSUME NEW u \in States PROVE Acts(d, [d EXCEPT !.state = u])
    BY <1>2, StateLike, ThroughLike
  <1>8. CASE ch = "["
    <2>1. Esc(c, ch) = [d EXCEPT !.state = "square"]
      BY <1>4, <1>8
    <2> DEFINE u == "square"
    <2>2. u \in States
      BY DEF States
    <2> HIDE DEF u
    <2>3. Acts(d, [d EXCEPT !.state = u])
      BY <1>7, <2>2
    <2> QED BY <1>5, <2>1, <2>3 DEF u
  <1>9. CASE ch = "E"
    <2>1. Esc(c, ch) = GotoXY(d, 0, d.y + 1)
      BY <1>4, <1>9
    <2> DEFINE i == 0
               j == d.y + 1
    <2>2. i \in Int /\ j \in Int
      BY <1>2, Sizes
    <2> HIDE DEF i, j
    <2>3. Acts(d, GotoXY(d, i, j))
      BY <1>2, <2>2, GotoActs
    <2> QED BY <1>5, <2>1, <2>3 DEF i, j
  <1>10. CASE ch = "M"
    <2>1. Esc(c, ch) = Ri(d)
      BY <1>4, <1>10
    <2> QED BY <1>2, <1>5, <2>1, RiActs
  <1>11. CASE ch = "D"
    <2>1. Esc(c, ch) = Lf(d)
      BY <1>4, <1>11
    <2> QED BY <1>2, <1>5, <2>1, LfFeeds, FeedsAct
  <1>12. CASE ch = "7"
    <2>1. Esc(c, ch) = SaveCur(d)
      BY <1>4, <1>12
    <2> QED BY <1>2, <1>5, <2>1, SaveLike, ThroughLike
  <1>13. CASE ch = "8"
    <2>1. Esc(c, ch) = RestoreCur(d)
      BY <1>4, <1>13
    <2> QED BY <1>2, <1>5, <2>1, RestoreActs
  <1>14. CASE ch = "c"
    <2>1. Esc(c, ch) = [d EXCEPT !.top = 0, !.bottom = NrLines]
      BY <1>4, <1>14
    <2> DEFINE a == 0
    <2>2. /\ Esc(c, ch) = Region(d, a, NrLines) /\ a \in Nat /\ NrLines \in Nat
      <3>1. NrLines \in Nat \ {0}
        BY DEF ConsoleAssumption
      <3> QED BY <2>1, <3>1 DEF Region
    <2> HIDE DEF a
    <2>3. Acts(d, Esc(c, ch))
      BY <1>2, <2>2, RegionActs
    <2> QED BY <1>5, <2>3
  <1>15. CASE ch \in {"(", "P", "#"}
    <2>1. Esc(c, ch) = [d EXCEPT !.state = "skip"]
      BY <1>4, <1>15
    <2> DEFINE u == "skip"
    <2>2. u \in States
      BY DEF States
    <2> HIDE DEF u
    <2>3. Acts(d, [d EXCEPT !.state = u])
      BY <1>7, <2>2
    <2> QED BY <1>5, <2>1, <2>3 DEF u
  <1>16. CASE ch \notin {"[", "E", "M", "D", "7", "8", "c", "(", "P", "#"}
    <2>1. Esc(c, ch) = d
      BY <1>4, <1>16
    <2> QED BY <1>5, <1>6, <2>1
  <1> QED BY <1>8, <1>9, <1>10, <1>11, <1>12, <1>13, <1>14, <1>15, <1>16

LEMMA GotParsActs ==
  ASSUME ConsoleAssumption, NEW c, Good(c), NEW ch
  PROVE  Acts(c, GotPars(c, ch))
  <1> DEFINE p == c.par[1]
             q == c.par[2]
             d == Forgotten(c)
             n == OneAtLeast(p)
             b == IF q = 0 THEN NrLines ELSE q
  <1>1. Like(c, d)
    BY ForgottenLike
  <1>2. Good(d)
    BY <1>1 DEF Like
  <1>3. /\ p \in Nat /\ q \in Nat /\ n \in Int /\ OneLess(p) \in Nat /\ OneLess(q) \in Nat /\ b \in Nat
    <2>1. c.par \in [1..NPAR -> Nat] /\ 1 \in 1..NPAR /\ 2 \in 1..NPAR /\ NrLines \in Nat
      BY Sizes
    <2>2. p \in Nat /\ q \in Nat
      BY <2>1
    <2> HIDE DEF p, q
    <2> QED BY <2>1, <2>2 DEF OneAtLeast, OneLess
  <1>4. d.x \in Int /\ d.y \in Int
    <2> HIDE DEF d
    <2> QED BY <1>2, Sizes
  <1>5. \/ c.ques /\ GotPars(c, ch) = d
        \/ GotPars(c, ch) = CASE ch = "G" -> GotoXY(d, OneLess(p), d.y)
                               [] ch = "A" -> GotoXY(d, d.x, d.y - n)
                               [] ch = "B" -> GotoXY(d, d.x, d.y + n)
                               [] ch = "C" -> GotoXY(d, d.x + n, d.y)
                               [] ch = "D" -> GotoXY(d, d.x - n, d.y)
                               [] ch = "E" -> GotoXY(d, 0, d.y + n)
                               [] ch = "F" -> GotoXY(d, 0, d.y - n)
                               [] ch = "d" -> GotoXY(d, d.x, OneLess(p))
                               [] ch = "H" -> GotoXY(d, OneLess(q), OneLess(p))
                               [] ch = "J" -> CsiJ(d, p)
                               [] ch = "K" -> CsiK(d, p)
                               [] ch \in {"L", "M", "P", "@"} -> EditedTimes(d, ch, p)
                               [] ch = "r" -> Region(d, OneLess(p), b)
                               [] ch = "s" -> SaveCur(d)
                               [] ch = "u" -> RestoreCur(d)
                               [] OTHER -> d
    <2> HIDE DEF d, n, p, q
    <2> QED BY DEF GotPars, d, n, p, q
  <1> HIDE DEF d, n, p, q, b
  <1>6. ASSUME NEW e, Acts(d, e) PROVE Acts(c, e)
    BY <1>1, <1>6, LikeActs
  <1>7. Acts(d, d)
    BY <1>2, StaysThere, MovesAct
  <1>8. ASSUME NEW i \in Int, NEW j \in Int PROVE Acts(c, GotoXY(d, i, j))
    BY <1>2, <1>6, GotoActs
  <1>9. CASE GotPars(c, ch) = d
    BY <1>6, <1>7, <1>9
  <1> DEFINE Other == GotPars(c, ch) # d
  <1>10. CASE Other /\ ch = "G"
    <2> DEFINE i == OneLess(p)
               j == d.y
    <2>1. GotPars(c, ch) = GotoXY(d, i, j)
      BY <1>5, <1>10
    <2>2. i \in Int /\ j \in Int
      BY <1>3, <1>4
    <2> HIDE DEF i, j
    <2> QED BY <1>8, <2>1, <2>2
  <1>11. CASE Other /\ ch = "A"
    <2> DEFINE i == d.x
               j == d.y - n
    <2>1. GotPars(c, ch) = GotoXY(d, i, j)
      BY <1>5, <1>11
    <2>2. i \in Int /\ j \in Int
      BY <1>3, <1>4
    <2> HIDE DEF i, j
    <2> QED BY <1>8, <2>1, <2>2
  <1>12. CASE Other /\ ch = "B"
    <2> DEFINE i == d.x
               j == d.y + n
    <2>1. GotPars(c, ch) = GotoXY(d, i, j)
      BY <1>5, <1>12
    <2>2. i \in Int /\ j \in Int
      BY <1>3, <1>4
    <2> HIDE DEF i, j
    <2> QED BY <1>8, <2>1, <2>2
  <1>13. CASE Other /\ ch = "C"
    <2> DEFINE i == d.x + n
               j == d.y
    <2>1. GotPars(c, ch) = GotoXY(d, i, j)
      BY <1>5, <1>13
    <2>2. i \in Int /\ j \in Int
      BY <1>3, <1>4
    <2> HIDE DEF i, j
    <2> QED BY <1>8, <2>1, <2>2
  <1>14. CASE Other /\ ch = "D"
    <2> DEFINE i == d.x - n
               j == d.y
    <2>1. GotPars(c, ch) = GotoXY(d, i, j)
      BY <1>5, <1>14
    <2>2. i \in Int /\ j \in Int
      BY <1>3, <1>4
    <2> HIDE DEF i, j
    <2> QED BY <1>8, <2>1, <2>2
  <1>15. CASE Other /\ ch = "E"
    <2> DEFINE i == 0
               j == d.y + n
    <2>1. GotPars(c, ch) = GotoXY(d, i, j)
      BY <1>5, <1>15
    <2>2. i \in Int /\ j \in Int
      BY <1>3, <1>4
    <2> HIDE DEF i, j
    <2> QED BY <1>8, <2>1, <2>2
  <1>16. CASE Other /\ ch = "F"
    <2> DEFINE i == 0
               j == d.y - n
    <2>1. GotPars(c, ch) = GotoXY(d, i, j)
      BY <1>5, <1>16
    <2>2. i \in Int /\ j \in Int
      BY <1>3, <1>4
    <2> HIDE DEF i, j
    <2> QED BY <1>8, <2>1, <2>2
  <1>17. CASE Other /\ ch = "d"
    <2> DEFINE i == d.x
               j == OneLess(p)
    <2>1. GotPars(c, ch) = GotoXY(d, i, j)
      BY <1>5, <1>17
    <2>2. i \in Int /\ j \in Int
      BY <1>3, <1>4
    <2> HIDE DEF i, j
    <2> QED BY <1>8, <2>1, <2>2
  <1>18. CASE Other /\ ch = "H"
    <2> DEFINE i == OneLess(q)
               j == OneLess(p)
    <2>1. GotPars(c, ch) = GotoXY(d, i, j)
      BY <1>5, <1>18
    <2>2. i \in Int /\ j \in Int
      BY <1>3, <1>4
    <2> HIDE DEF i, j
    <2> QED BY <1>8, <2>1, <2>2
  <1>19. CASE Other /\ ch = "J"
    <2>1. GotPars(c, ch) = CsiJ(d, p)
      BY <1>5, <1>19
    <2> QED BY <1>2, <1>6, <2>1, ClearsAct
  <1>20. CASE Other /\ ch = "K"
    <2>1. GotPars(c, ch) = CsiK(d, p)
      BY <1>5, <1>20
    <2> QED BY <1>2, <1>6, <2>1, ClearsAct
  <1>21. CASE Other /\ ch \in {"L", "M", "P", "@"}
    <2>1. GotPars(c, ch) = EditedTimes(d, ch, p)
      BY <1>5, <1>21
    <2> QED BY <1>2, <1>3, <1>6, <1>21, <2>1, EditsAct
  <1>22. CASE Other /\ ch = "r"
    <2>1. GotPars(c, ch) = Region(d, OneLess(p), b)
      BY <1>5, <1>22
    <2> QED BY <1>2, <1>3, <1>6, <2>1, RegionActs
  <1>23. CASE Other /\ ch = "s"
    <2>1. GotPars(c, ch) = SaveCur(d)
      BY <1>5, <1>23
    <2> QED BY <1>2, <1>6, <2>1, SaveLike, ThroughLike
  <1>24. CASE Other /\ ch = "u"
    <2>1. GotPars(c, ch) = RestoreCur(d)
      BY <1>5, <1>24
    <2> QED BY <1>2, <1>6, <2>1, RestoreActs
  <1>25. CASE Other /\ ch \notin {"G", "A", "B", "C", "D", "E", "F", "d", "H", "J", "K", "L", "M", "P", "@", "r", "s", "u"}
    <2>1. GotPars(c, ch) = d
      BY <1>5, <1>25
    <2> QED BY <1>6, <1>7, <2>1
  <1> QED BY <1>9, <1>10, <1>11, <1>12, <1>13, <1>14, <1>15, <1>16, <1>17, <1>18, <1>19, <1>20, <1>21, <1>22, <1>23, <1>24, <1>25

LEMMA GetParsActs ==
  ASSUME ConsoleAssumption, NEW c, Good(c), NEW ch
  PROVE  Acts(c, GetPars(c, ch))
  <1>1. c \in Records /\ c.npar \in 1..NPAR /\ c.npar \in Int /\ NPAR \in Int /\ c.par \in [1..NPAR -> Nat]
    BY Sizes
  <1>2. CASE ch = ";" /\ c.npar < NPAR
    <2> DEFINE n == c.npar + 1
               d == [c EXCEPT !.npar = n]
    <2>1. GetPars(c, ch) = d
      BY <1>2 DEF GetPars
    <2>2. n \in 1..NPAR
      <3>1. c.npar < NPAR
        BY <1>2
      <3>2. c.npar >= 1 /\ c.npar + 1 <= NPAR
        BY <1>1, <3>1
      <3> QED BY <1>1, <3>2
    <2> HIDE DEF n
    <2>3. n \in Int
      BY <1>1, <2>2
    <2>4. Unmoved(c, d)
      BY <1>1, <2>2, <2>3 DEF Unmoved, Records
    <2> HIDE DEF d
    <2> QED BY <2>1, <2>4, LikeIt, ThroughLike
  <1>3. CASE ~ (ch = ";" /\ c.npar < NPAR) /\ ch \in DOMAIN Digits
    <2> DEFINE v == Least(10 * c.par[c.npar] + Digits[ch], MaxPar)
               ps == [c.par EXCEPT ![c.npar] = v]
               d == [c EXCEPT !.par = ps]
    <2>1. GetPars(c, ch) = d
      BY <1>3 DEF GetPars
    <2>2. v \in Nat
      <3>1. Digits[ch] \in Nat /\ MaxPar \in Nat /\ c.par[c.npar] \in Nat
        BY <1>1, <1>3 DEF Digits, ConsoleAssumption
      <3> QED BY <3>1 DEF Least
    <2> HIDE DEF v
    <2>3. ps \in [1..NPAR -> Nat]
      BY <1>1, <2>2
    <2> HIDE DEF ps
    <2>4. Unmoved(c, d)
      BY <1>1, <2>3 DEF Unmoved, Records
    <2> HIDE DEF d
    <2> QED BY <2>1, <2>4, LikeIt, ThroughLike
  <1>4. CASE ~ (ch = ";" /\ c.npar < NPAR) /\ ch \notin DOMAIN Digits
    <2>1. GetPars(c, ch) = GotPars(c, ch)
      BY <1>4 DEF GetPars
    <2> QED BY <2>1, GotParsActs
  <1> QED BY <1>2, <1>3, <1>4

LEMMA SquareActs ==
  ASSUME ConsoleAssumption, NEW c, Good(c), NEW ch
  PROVE  Acts(c, Square(c, ch))
  <1> DEFINE d == Automaton(c, "getpars", ch = "?", 1, NoPars)
             f == Automaton(c, "skip", c.ques, 1, NoPars)
  <1>1. "getpars" \in States /\ "skip" \in States /\ (ch = "?") \in BOOLEAN /\ c.ques \in BOOLEAN
    <2>1. c \in Records
      BY Sizes
    <2> QED BY <2>1 DEF States, Records
  <1>2. 1 \in 1..NPAR /\ NoPars \in [1..NPAR -> Nat]
    BY Sizes DEF NoPars
  <1>3. Square(c, ch) = IF ch = "[" THEN f ELSE IF ch = "?" THEN d ELSE GetPars(d, ch)
    <2>1. c \in Records
      BY Sizes
    <2> QED BY <2>1 DEF Square, Automaton, Records
  <1>4. Like(c, d) /\ Like(c, f)
    BY <1>1, <1>2, AutomatonLike
  <1> HIDE DEF d, f
  <1>5. Acts(d, GetPars(d, ch))
    BY <1>4, GetParsActs DEF Like
  <1> QED BY <1>3, <1>4, <1>5, LikeActs, ThroughLike

LEMMA InterpretedActs ==
  ASSUME ConsoleAssumption, NEW c, Good(c), NEW ch
  PROVE  Acts(c, Interpreted(c, ch))
  <1>1. CASE ch = "CAN"
    <2> DEFINE d == Forgotten(c)
    <2>1. Interpreted(c, ch) = Normal(d, ch)
      BY <1>1 DEF Interpreted
    <2>2. Like(c, d)
      BY ForgottenLike
    <2> HIDE DEF d
    <2>3. Acts(d, Normal(d, ch))
      BY <2>2, NormalActs DEF Like
    <2> QED BY <2>1, <2>2, <2>3, LikeActs
  <1>2. CASE ch # "CAN"
    <2>1. CASE c.state = "normal"
      BY <1>2, <2>1, NormalActs DEF Interpreted
    <2>2. CASE c.state = "esc"
      BY <1>2, <2>2, EscActs DEF Interpreted
    <2>3. CASE c.state = "square"
      BY <1>2, <2>3, SquareActs DEF Interpreted
    <2>4. CASE c.state = "getpars"
      BY <1>2, <2>4, GetParsActs DEF Interpreted
    <2>5. CASE c.state \notin {"normal", "esc", "square", "getpars"}
      <3> DEFINE u == "normal"
      <3>1. Interpreted(c, ch) = [c EXCEPT !.state = u]
        BY <1>2, <2>5 DEF Interpreted
      <3>2. u \in States
        BY DEF States
      <3> HIDE DEF u
      <3> QED BY <3>1, <3>2, StateLike, ThroughLike
    <2> QED BY <2>1, <2>2, <2>3, <2>4, <2>5
  <1> QED BY <1>1, <1>2

-----------------------------------------------------------------------------
(* The screen that is shown makes its own steps. *)
LEMMA MovesStep ==
  ASSUME Shows(con') = Shows(con), con'.x \in 0..NrColumns, con'.y \in Lines
  PROVE  Shown!Moves
  BY DEF Shown!Moves, Shown!Lines, Shows, Lines, Columns

LEMMA FeedStep ==
  ASSUME con'.x \in 0..NrColumns,
         IF con.y + 1 < con.bottom THEN Shows(con') = Shows(con) /\ con'.y = con.y + 1
         ELSE Shows(con') = Shown!ScrolledUp(Shows(con), con.top, con.bottom, 1) /\ con'.y = con.y
  PROVE  Shown!Feed
  BY DEF Shown!Feed, Shown!LineFeed, Shows, Lines, Columns

LEMMA ReverseStep ==
  ASSUME Reverses(con, con')
  PROVE  Shown!ReverseFeed
  BY DEF Shown!ReverseFeed, Reverses, Shows, Lines, Columns

LEMMA DeleteStep ==
  ASSUME Deletes(con, con')
  PROVE  Shown!Delete
  BY DEF Shown!Delete, Deletes, Shows, Lines, Columns

LEMMA RegionStep ==
  ASSUME ConsoleAssumption, Good(con'), Shows(con') = Shows(con), con'.x = con.x, con'.y = con.y
  PROVE  Shown!SetRegion
  <1>1. con'.top \in Int /\ con'.bottom \in Int /\ NrLines \in Int
    BY Sizes
  <1>2. 0 <= con'.top /\ con'.top < con'.bottom /\ con'.bottom <= NrLines
    BY DEF Good, OnScreen
  <1>3. con'.top \in 0..NrLines - 1 /\ con'.bottom \in con'.top + 1..NrLines
    BY <1>1, <1>2
  <1> QED BY <1>3 DEF Shown!SetRegion, Shown!Lines, Shows, Lines, Columns

LEMMA PutStep ==
  ASSUME ConsoleAssumption, Good(con), Puts(con, con', Printable)
  PROVE  Shown!PutChar
  <1> DEFINE s == Shows(con)
             fed == Shown!LineFeed(s, con.y)
  <1>1. /\ con'.x = con.x + 1 /\ con.x < NrColumns /\ con'.y = con.y
        /\ Shows(con') = [s EXCEPT ![con.y][con.x] = Printable]
        => Shown!PutChar
    BY Zenon DEF Shown!PutChar, Shows, Lines, Columns
  <1>2. /\ con'.x = 1 /\ ~ (con.x < NrColumns) /\ con'.y = fed.y
        /\ Shows(con') = [fed.screen EXCEPT ![fed.y][0] = Printable]
        => Shown!PutChar
    BY Zenon DEF Shown!PutChar, Shows, Lines, Columns
  <1>3. CASE con.x < NrColumns
    <2>1. con'.x = con.x + 1 /\ con'.y = con.y /\ Shows(con') = Pointed(s, con.y, con.x, Printable)
      BY <1>3, Sizes DEF Puts
    <2> QED BY <1>1, <1>3, <2>1 DEF Pointed
  <1>4. CASE con.x >= NrColumns
    <2>1. con'.x = 1 /\ ~ (con.x < NrColumns)
      BY <1>4, Sizes DEF Puts
    <2>2. PICK e : Feeds(con, e) /\ con'.y = e.y /\ Shows(con') = Pointed(Shows(e), e.y, 0, Printable)
      BY <1>4, Sizes DEF Puts
    <2>3. Shows(e) = fed.screen /\ e.y = fed.y
      <3>1. CASE con.y + 1 < con.bottom
        <4>1. fed = [screen |-> s, y |-> con.y + 1]
          BY <3>1 DEF Shown!LineFeed
        <4> HIDE DEF fed
        <4> QED BY <2>2, <3>1, <4>1 DEF Feeds
      <3>2. CASE ~ (con.y + 1 < con.bottom)
        <4>1. fed = [screen |-> Shown!ScrolledUp(s, con.top, con.bottom, 1), y |-> con.y]
          BY <3>2 DEF Shown!LineFeed
        <4> HIDE DEF fed
        <4> QED BY <2>2, <3>2, <4>1 DEF Feeds
      <3> QED BY <3>1, <3>2
    <2> HIDE DEF fed, s
    <2>4. Shows(con') = Pointed(fed.screen, fed.y, 0, Printable)
      BY <2>2, <2>3
    <2> QED BY <1>2, <2>1, <2>2, <2>3, <2>4 DEF Pointed
  <1>5. con.x < NrColumns \/ con.x >= NrColumns
    BY Sizes
  <1> QED BY <1>3, <1>4, <1>5

LEMMA ClearStep ==
  ASSUME NEW i, NEW j, <<i, j>> \in Shown!Ranges,
         con'.x = con.x, con'.y = con.y, Shows(con') = Cleared(Shows(con), i, j)
  PROVE  Shown!Clear
  BY DEF Shown!Clear, Shown!Lines, Shown!Columns, Cleared, Shows, Lines, Columns

LEMMA ClearsStep ==
  ASSUME Clears(con, con')
  PROVE  Shown!Clear
  <1> DEFINE p == con.y * NrColumns + con.x
             e == NrLines * NrColumns
             i == con.y * NrColumns
             j == (con.y + 1) * NrColumns
  <1>1. Shown!Ranges = {<<p, e>>, <<0, p>>, <<0, e>>, <<p, j>>, <<i, p>>, <<i, j>>}
    BY DEF Shown!Ranges, Shown!Cursor
  <1>2. PICK r \in {<<p, e>>, <<0, p>>, <<0, e>>, <<p, j>>, <<i, p>>, <<i, j>>} :
          Shows(con') = Cleared(Shows(con), r[1], r[2])
    <2>1. \/ Shows(con') = Cleared(Shows(con), p, e)
          \/ Shows(con') = Cleared(Shows(con), 0, p)
          \/ Shows(con') = Cleared(Shows(con), 0, e)
          \/ Shows(con') = Cleared(Shows(con), p, j)
          \/ Shows(con') = Cleared(Shows(con), i, p)
          \/ Shows(con') = Cleared(Shows(con), i, j)
      BY DEF Clears
    <2> HIDE DEF p, e, i, j
    <2> QED BY <2>1
  <1>3. r = <<r[1], r[2]>>
    BY <1>2
  <1>4. con'.x = con.x /\ con'.y = con.y
    BY DEF Clears
  <1> HIDE DEF p, e, i, j
  <1>5. <<r[1], r[2]>> \in Shown!Ranges
    BY <1>1, <1>2, <1>3
  <1> QED BY <1>2, <1>4, <1>5, ClearStep

LEMMA LineStep ==
  ASSUME NEW n \in 1..NrLines, con'.x = con.x, con'.y = con.y,
         Shows(con') \in {Shown!ScrolledDown(Shows(con), con.y, NrLines, n),
                          Shown!ScrolledUp(Shows(con), con.y, NrLines, n)}
  PROVE  Shown!InsertOrDelete
  BY DEF Shown!InsertOrDelete, Shows, Lines, Columns

LEMMA CharStep ==
  ASSUME NEW n \in 1..NrColumns, con'.x = con.x, con'.y = con.y,
         Shows(con') \in {Inserted(Shows(con), con.y, con.x, n), Removed(Shows(con), con.y, con.x, n)}
  PROVE  Shown!InsertOrDelete
  BY DEF Shown!InsertOrDelete, Inserted, Removed, Shown!Columns, Shows, Lines, Columns

LEMMA EditsStep ==
  ASSUME Edits(con, con')
  PROVE  Shown!InsertOrDelete
  <1>1. con'.x = con.x /\ con'.y = con.y
    BY DEF Edits
  <1>2. PICK ch \in {"@", "P", "L", "M"} :
          \E n \in 1..IF ch \in {"L", "M"} THEN NrLines ELSE NrColumns :
            Shows(con') = Shifted(ch, Shows(con), con.y, con.x, n)
    BY DEF Edits
  <1>3. PICK n \in 1..IF ch \in {"L", "M"} THEN NrLines ELSE NrColumns :
          Shows(con') = Shifted(ch, Shows(con), con.y, con.x, n)
    BY <1>2
  <1>4. CASE ch = "@"
    <2>1. n \in 1..NrColumns /\ Shows(con') = Inserted(Shows(con), con.y, con.x, n)
      BY <1>3, <1>4 DEF Shifted
    <2> QED BY <1>1, <2>1, CharStep
  <1>5. CASE ch = "P"
    <2>1. n \in 1..NrColumns /\ Shows(con') = Removed(Shows(con), con.y, con.x, n)
      BY <1>3, <1>5 DEF Shifted
    <2> QED BY <1>1, <2>1, CharStep
  <1>6. CASE ch = "L"
    <2>1. n \in 1..NrLines /\ Shows(con') = Shown!ScrolledDown(Shows(con), con.y, NrLines, n)
      BY <1>3, <1>6 DEF Shifted
    <2> QED BY <1>1, <2>1, LineStep
  <1>7. CASE ch = "M"
    <2>1. n \in 1..NrLines /\ Shows(con') = Shown!ScrolledUp(Shows(con), con.y, NrLines, n)
      BY <1>3, <1>7 DEF Shifted
    <2> QED BY <1>1, <2>1, LineStep
  <1> QED BY <1>2, <1>4, <1>5, <1>6, <1>7

LEMMA ActsAreSteps ==
  ASSUME ConsoleAssumption, Good(con), Acts(con, con')
  PROVE  ScreenStep
  <1>1. Good(con') /\ con'.x \in 0..NrColumns /\ con'.y \in Lines
    BY Sizes DEF Acts, Good, OnScreen, Lines
  <1>2. ASSUME con'.top = con.top, con'.bottom = con.bottom,
               \/ Shown!Moves \/ Shown!PutChar \/ Shown!Feed \/ Shown!ReverseFeed
               \/ Shown!Delete \/ Shown!InsertOrDelete \/ Shown!Clear
        PROVE  ScreenStep
    BY <1>2 DEF ScreenStep, Shown!Next
  <1>3. CASE MovesTo(con, con')
    BY <1>1, <1>2, <1>3, MovesStep DEF MovesTo
  <1>4. CASE Puts(con, con', Printable)
    BY <1>2, <1>4, PutStep DEF Puts
  <1>5. CASE Feeds(con, con')
    BY <1>1, <1>2, <1>5, FeedStep DEF Feeds
  <1>6. CASE Reverses(con, con')
    BY <1>2, <1>6, ReverseStep DEF Reverses
  <1>7. CASE Deletes(con, con')
    BY <1>2, <1>7, DeleteStep DEF Deletes
  <1>8. CASE Clears(con, con')
    BY <1>2, <1>8, ClearsStep DEF Clears
  <1>9. CASE Edits(con, con')
    BY <1>2, <1>9, EditsStep DEF Edits
  <1>10. CASE Shows(con') = Shows(con) /\ con'.x = con.x /\ con'.y = con.y
    BY <1>1, <1>10, RegionStep DEF ScreenStep, Shown!Next
  <1> QED BY <1>3, <1>4, <1>5, <1>6, <1>7, <1>8, <1>9, <1>10 DEF Acts

-----------------------------------------------------------------------------
(* con_init leaves a blank screen, with the cursor at its first place. *)
LEMMA InitGood ==
  ASSUME ConsoleAssumption, ConInit
  PROVE  Good(con) /\ Shown!Init
  <1>1. /\ NrLines \in Nat \ {0} /\ NrColumns \in Nat \ {0} /\ MemLines \in Nat /\ NrLines <= MemLines
        /\ NPAR \in Nat \ {0, 1}
    BY DEF ConsoleAssumption
  <1>2. NrLines * NrColumns \in Int /\ MemLines * NrColumns \in Int /\ NrLines * NrColumns <= MemLines * NrColumns
    <2>1. NrLines < MemLines => NrLines * NrColumns + NrColumns <= MemLines * NrColumns
      BY <1>1, Products
    <2> QED BY <1>1, <2>1
  <1>3. NrLines * NrColumns >= NrColumns
    <2>1. (NrLines - 1) * NrColumns >= 0
      BY <1>1
    <2> QED BY <1>1, <2>1
  <1>4. con.mem = [a \in Cells |-> Blank] /\ NoPars \in [1..NPAR -> Nat]
    BY DEF ConInit, NoPars
  <1>5. con \in Records
    <2>1. Start \in Int /\ Start + NrLines * NrColumns \in Int /\ NrLines \in Int
      BY <1>1, <1>2 DEF Start
    <2> DEFINE m == [a \in Cells |-> Blank]
               e == Start + NrLines * NrColumns
    <2>2. m \in [Cells -> Chars]
      BY DEF Chars
    <2>3. con = [mem |-> m, x |-> 0, y |-> 0, pos |-> Start, origin |-> Start, scr_end |-> e,
                 top |-> 0, bottom |-> NrLines, saved_x |-> 0, saved_y |-> 0,
                 state |-> "normal", npar |-> 1, par |-> NoPars, ques |-> FALSE]
      BY DEF ConInit
    <2> HIDE DEF m, e
    <2>4. e \in Int
      BY <2>1 DEF e
    <2> QED BY <1>4, <2>1, <2>2, <2>3, <2>4 DEF Records
  <1>6. OnScreen(con) /\ con.npar \in 1..NPAR
    <2>1. /\ con.x = 0 /\ con.y = 0 /\ con.pos = Start /\ con.origin = Start
          /\ con.scr_end = Start + NrLines * NrColumns /\ con.top = 0 /\ con.bottom = NrLines /\ con.npar = 1
      BY DEF ConInit
    <2>2. Start \in Int /\ End = Start + MemLines * NrColumns
      BY <1>1 DEF Start, End
    <2> HIDE DEF Start, End
    <2> QED BY <1>1, <1>2, <2>1, <2>2 DEF OnScreen
  <1>7. Good(con)
    BY <1>5, <1>6 DEF Good
  <1>8. Shows(con) = [l \in Lines |-> [k \in Columns |-> Blank]]
    <2>1. ASSUME NEW l \in Lines, NEW k \in Columns PROVE con.mem[con.origin + l * NrColumns + k] = Blank
      <3>1. con.origin + l * NrColumns + k \in Cells
        BY <1>5, <1>6, ShownCells
      <3> QED BY <1>4, <3>1
    <2> QED BY <2>1 DEF Shows
  <1>9. con.x = 0 /\ con.y = 0 /\ con.top = 0 /\ con.bottom = NrLines
    BY DEF ConInit
  <1> QED BY <1>7, <1>8, <1>9 DEF Shown!Init, Shown!Lines, Shown!Columns, Shown!BlankLine, Shows, Lines, Columns

LEMMA StepGood ==
  ASSUME ConsoleAssumption, Good(con), [ConNext]_con
  PROVE  Good(con)' /\ ScreenStep
  <1>1. CASE ConNext
    <2>1. PICK ch : con' = Interpreted(con, ch)
      BY <1>1 DEF ConNext, ConWrite
    <2>2. Acts(con, con')
      BY <2>1, InterpretedActs
    <2> QED BY <2>2, ActsAreSteps DEF Acts
  <1>2. CASE UNCHANGED con
    BY <1>2 DEF ScreenStep, Shown!vars
  <1> QED BY <1>1, <1>2

-----------------------------------------------------------------------------
(* The records are as the functions of the code expect them, whatever is
   written: every variable in its range and pos where x and y say, in the
   part of the memory that is shown, which is the console's own. *)
THEOREM AlwaysGood == ConsoleAssumption => (ConSpec => []Good(con))
  <1> SUFFICES ASSUME ConsoleAssumption PROVE ConSpec => []Good(con)
    OBVIOUS
  <1>1. ConInit => Good(con)
    BY InitGood
  <1>2. Good(con) /\ [ConNext]_con => Good(con)'
    BY StepGood
  <1> QED BY <1>1, <1>2, PTL DEF ConSpec

(* gotoxy, scrup, lf, the wrapping of a line and of the memory keep pos, x, y,
   origin and scr_end in step: after any number of characters the cursor is
   where x and y say and the console writes in its own memory only. *)
THEOREM CursorStaysOnScreen == ConsoleAssumption => (ConSpec => []CursorIsOnScreen)
  <1> SUFFICES ASSUME ConsoleAssumption PROVE ConSpec => []CursorIsOnScreen
    OBVIOUS
  <1>1. Good(con) => CursorIsOnScreen
    BY DEF Good, OnScreen, CursorIsOnScreen
  <1> QED BY <1>1, AlwaysGood, PTL

(* What is shown of the memory is a screen that scrolls: whatever con_write is
   given, it does to the screen one of the operations of Screen, although the
   code moves the screen through the memory and edits the memory in place. *)
THEOREM ConsoleImplementsScreen == ConsoleAssumption => (ConSpec => ImplementsScreen)
  <1> SUFFICES ASSUME ConsoleAssumption PROVE ConSpec => ImplementsScreen
    OBVIOUS
  <1>1. ConInit => Shown!Init
    BY InitGood
  <1>2. Good(con) /\ [ConNext]_con => [ScreenStep]_con
    BY StepGood
  <1> QED BY <1>1, <1>2, AlwaysGood, PTL DEF ConSpec, ImplementsScreen

-----------------------------------------------------------------------------
(* Pipes. *)

-----------------------------------------------------------------------------
(* Remainders. *)
LEMMA Remainder ==
  ASSUME NEW a \in Int, NEW t \in Nat \ {0}
  PROVE  a % t \in 0..t - 1 /\ \E q \in Int : t * q \in Int /\ a = t * q + (a % t)
  <1> DEFINE r == a % t
  <1>1. \E q \in Int : a - r = t * q
    BY SMTT(30)
  <1>2. r \in 0..t - 1
    OBVIOUS
  <1> HIDE DEF r
  <1>3. PICK q \in Int : a - r = t * q
    BY <1>1
  <1>4. t * q \in Int /\ a = t * q + r
    <2>1. t * q \in Int /\ r \in Int
      BY <1>2
    <2> DEFINE p == t * q
    <2>2. p \in Int /\ a - r = p
      BY <1>3, <2>1
    <2> HIDE DEF p
    <2>3. a = p + r
      BY <2>1, <2>2
    <2> QED BY <2>1, <2>3 DEF p
  <1>5. r \in 0..t - 1 /\ \E m \in Int : t * m \in Int /\ a = t * m + r
    BY <1>2, <1>4
  <1> QED BY <1>5 DEF r

LEMMA OneRemainder ==
  ASSUME NEW a \in Int, NEW t \in Nat \ {0}, NEW q \in Int, NEW r \in 0..t - 1, a = t * q + r
  PROVE  a % t = r
  <1> DEFINE s == a % t
  <1>1. PICK m \in Int : t * m \in Int /\ a = t * m + s
    BY Remainder, Zenon
  <1>2. s \in 0..t - 1
    BY Remainder
  <1> HIDE DEF s
  <1>3. t * q \in Int
    OBVIOUS
  <1>4. ASSUME q < m PROVE FALSE
    <2>1. (m - q - 1) * t >= 0
      BY <1>4
    <2>2. t * m >= t * q + t
      BY <2>1
    <2> QED BY <1>1, <1>2, <1>3, <2>2
  <1>5. ASSUME m < q PROVE FALSE
    <2>1. (q - m - 1) * t >= 0
      BY <1>5
    <2>2. t * q >= t * m + t
      BY <2>1
    <2> QED BY <1>1, <1>2, <1>3, <2>2
  <1>6. m = q
    BY <1>4, <1>5
  <1> QED BY <1>1, <1>2, <1>3, <1>6 DEF s

LEMMA RemainderOfLess ==
  ASSUME NEW t \in Nat \ {0}, NEW r \in 0..t - 1
  PROVE  r % t = r
  <1>1. r \in Int /\ 0 \in Int /\ r = t * 0 + r
    OBVIOUS
  <1> QED BY <1>1, OneRemainder, Zenon

LEMMA RemainderOfSum ==
  ASSUME NEW a \in Int, NEW b \in Int, NEW t \in Nat \ {0}
  PROVE  ((a % t) + b) % t = (a + b) % t
  <1> DEFINE s == a % t
             u == a + b
             r == u % t
  <1>1. PICK m \in Int : t * m \in Int /\ a = t * m + s
    BY Remainder, Zenon
  <1>2. s \in Int /\ u \in Int
    BY Remainder
  <1> HIDE DEF s
  <1>3. PICK q \in Int : t * q \in Int /\ u = t * q + (u % t)
    BY <1>2, Remainder, Zenon
  <1>4. r \in 0..t - 1
    BY <1>2, Remainder, Zenon
  <1>5. t * (q - m) = t * q - t * m /\ q - m \in Int
    OBVIOUS
  <1> HIDE DEF r
  <1>6. s + b = t * (q - m) + r /\ s + b \in Int
    <2>1. u = t * q + r
      BY <1>3 DEF r
    <2> QED BY <1>1, <1>2, <1>3, <1>4, <1>5, <2>1
  <1>7. (s + b) % t = r
    BY <1>4, <1>5, <1>6, OneRemainder, Zenon
  <1> QED BY <1>7 DEF r, s

LEMMA RemainderIsInt ==
  ASSUME NEW a \in Int, NEW t \in Nat \ {0}
  PROVE  a % t \in Int
  <1> DEFINE r == a % t
  <1>1. r \in 0..t - 1
    BY Remainder
  <1> HIDE DEF r
  <1>2. r \in Int
    BY <1>1
  <1> QED BY <1>2 DEF r

LEMMA RemainderOfMore ==
  ASSUME NEW a \in Int, NEW t \in Nat \ {0}
  PROVE  (a + t) % t = a % t
  <1> DEFINE r == a % t
  <1>1. PICK m \in Int : t * m \in Int /\ a = t * m + r
    BY Remainder, Zenon
  <1>2. r \in 0..t - 1
    BY Remainder
  <1> HIDE DEF r
  <1>3. t * (m + 1) = t * m + t /\ m + 1 \in Int
    OBVIOUS
  <1>4. a + t = t * (m + 1) + r /\ a + t \in Int
    BY <1>1, <1>2, <1>3
  <1>5. (a + t) % t = r
    BY <1>2, <1>3, <1>4, OneRemainder, Zenon
  <1> QED BY <1>5 DEF r

-----------------------------------------------------------------------------
(* One pipe, with its head h, tail t, page and the number of the next byte that
   will be read. *)
Places == 0..PAGE_SIZE - 1
Size(h, t) == (h - t) % PAGE_SIZE
NextByte(h, pg) == (pg[(h - 1) % PAGE_SIZE] + 1) % Numbers
InOrder(h, t, pg, nr) ==
  /\ NextByte(h, pg) = (nr + Size(h, t)) % Numbers
  /\ \A k \in 0..Size(h, t) - 1 : pg[(t + k) % PAGE_SIZE] = (nr + k) % Numbers

(* The page after n bytes were put in it. *)
PageFilled(h, pg, n) ==
  [i \in Places |-> IF (i - h) % PAGE_SIZE < n THEN (NextByte(h, pg) + ((i - h) % PAGE_SIZE)) % Numbers ELSE pg[i]]

LEMMA PageSize ==
  ASSUME PipeAssumption
  PROVE  PAGE_SIZE \in Nat \ {0} /\ Numbers \in Nat \ {0} /\ PAGE_SIZE \in Int /\ Numbers \in Int
  BY DEF PipeAssumption, Numbers

LEMMA SizeIs ==
  ASSUME PipeAssumption, NEW h \in Int, NEW t \in Int
  PROVE  Size(h, t) \in Places /\ Size(h, t) \in Int /\ Size(h, t) >= 0
  <1>1. h - t \in Int
    OBVIOUS
  <1>2. Size(h, t) \in 0..PAGE_SIZE - 1
    BY <1>1, PageSize, Remainder, Zenon DEF Size
  <1> QED BY <1>2, PageSize DEF Places

LEMMA ReadKeeps ==
  ASSUME PipeAssumption, NEW h \in Places, NEW t \in Places, NEW pg \in [Places -> Int],
         NEW nr \in Int, InOrder(h, t, pg, nr), NEW n \in 0..Size(h, t)
  PROVE  LET u == (t + n) % PAGE_SIZE IN
         /\ u \in Places /\ Size(h, u) = Size(h, t) - n
         /\ InOrder(h, u, pg, (nr + n) % Numbers)
  <1> DEFINE u == (t + n) % PAGE_SIZE
             s == Size(h, t)
             v == (nr + n) % Numbers
  <1>1. PAGE_SIZE \in Nat \ {0} /\ Numbers \in Nat \ {0} /\ h \in Int /\ t \in Int /\ PAGE_SIZE \in Int
    BY PageSize DEF Places
  <1>2. s \in 0..PAGE_SIZE - 1 /\ s \in Int
    BY <1>1, SizeIs DEF Places
  <1>3. n \in Int /\ t + n \in Int /\ nr + n \in Int /\ s - n \in 0..PAGE_SIZE - 1 /\ s - n \in Int
    BY <1>1, <1>2
  <1>4. u \in Places /\ u \in Int
    <2>1. u \in 0..PAGE_SIZE - 1
      BY <1>1, <1>3, Remainder, Zenon
    <2> QED BY <1>1, <2>1 DEF Places
  <1>5. Size(h, u) = s - n
    <2>1. PICK q \in Int : PAGE_SIZE * q \in Int /\ t + n = PAGE_SIZE * q + u
      BY <1>1, <1>3, Remainder, Zenon
    <2>2. PICK m \in Int : PAGE_SIZE * m \in Int /\ h - t = PAGE_SIZE * m + s
      <3>1. h - t \in Int
        BY <1>1
      <3> QED BY <1>1, <3>1, Remainder, Zenon DEF Size
    <2> HIDE DEF u, s
    <2>3. PAGE_SIZE * (q + m) = PAGE_SIZE * q + PAGE_SIZE * m /\ q + m \in Int
      BY <1>1
    <2>4. h - u = PAGE_SIZE * (q + m) + (s - n) /\ h - u \in Int
      BY <1>1, <1>2, <1>3, <1>4, <2>1, <2>2, <2>3
    <2> QED BY <1>1, <1>3, <2>3, <2>4, OneRemainder, Zenon DEF Size
  <1>6. NextByte(h, pg) = (v + Size(h, u)) % Numbers
    <2>1. (v + (s - n)) % Numbers = ((nr + n) + (s - n)) % Numbers
      BY <1>1, <1>3, RemainderOfSum, ZenonT(30)
    <2> HIDE DEF s, v, u
    <2>2. (nr + n) + (s - n) = nr + s
      BY <1>2, <1>3
    <2>3. NextByte(h, pg) = (nr + s) % Numbers
      BY DEF InOrder, s
    <2> QED BY <1>5, <2>1, <2>2, <2>3, Zenon
  <1>7. ASSUME NEW k \in 0..Size(h, u) - 1
        PROVE  pg[(u + k) % PAGE_SIZE] = (v + k) % Numbers
    <2>1. k \in Int /\ n + k \in 0..s - 1 /\ n + k \in Int
      <3> HIDE DEF s, u
      <3> QED BY <1>2, <1>3, <1>5
    <2>2. (u + k) % PAGE_SIZE = ((t + n) + k) % PAGE_SIZE
      BY <1>1, <1>3, <2>1, RemainderOfSum, ZenonT(30)
    <2>3. (v + k) % Numbers = ((nr + n) + k) % Numbers
      BY <1>1, <1>3, <2>1, RemainderOfSum, ZenonT(30)
    <2> HIDE DEF s, u, v
    <2>4. (t + n) + k = t + (n + k) /\ (nr + n) + k = nr + (n + k)
      BY <1>1, <1>3, <2>1
    <2>5. pg[(t + (n + k)) % PAGE_SIZE] = (nr + (n + k)) % Numbers
      BY <2>1 DEF InOrder, s
    <2> QED BY <2>2, <2>3, <2>4, <2>5, Zenon
  <1> QED BY <1>4, <1>5, <1>6, <1>7, Zenon DEF InOrder

(* The k-th byte after the tail is as far from the head as k is from the size. *)
LEMMA PlaceFromHead ==
  ASSUME PipeAssumption, NEW h \in Places, NEW t \in Places, NEW k \in Places
  PROVE  LET x == (t + k) % PAGE_SIZE
             s == Size(h, t)
         IN  /\ x \in Places
             /\ (x - h) % PAGE_SIZE = IF k >= s THEN k - s ELSE PAGE_SIZE + (k - s)
  <1> DEFINE x == (t + k) % PAGE_SIZE
             s == Size(h, t)
  <1>1. PAGE_SIZE \in Nat \ {0} /\ h \in Int /\ t \in Int /\ k \in Int /\ PAGE_SIZE \in Int
    BY PageSize DEF Places
  <1>2. s \in 0..PAGE_SIZE - 1 /\ s \in Int
    BY <1>1, SizeIs DEF Places
  <1>3. t + k \in Int /\ h - t \in Int
    BY <1>1
  <1>4. x \in Places /\ x \in Int
    <2>1. x \in 0..PAGE_SIZE - 1
      BY <1>1, <1>3, Remainder, Zenon
    <2> QED BY <1>1, <2>1 DEF Places
  <1>5. PICK a \in Int : PAGE_SIZE * a \in Int /\ t + k = PAGE_SIZE * a + x
    BY <1>1, <1>3, Remainder, Zenon
  <1>6. PICK b \in Int : PAGE_SIZE * b \in Int /\ h - t = PAGE_SIZE * b + s
    BY <1>1, <1>3, Remainder, Zenon DEF Size
  <1> HIDE DEF x, s
  <1>7. CASE k >= s
    <2> DEFINE c == 0 - a - b
    <2>1. PAGE_SIZE * c = 0 - PAGE_SIZE * a - PAGE_SIZE * b /\ c \in Int
      BY <1>1
    <2> HIDE DEF c
    <2>2. x - h = PAGE_SIZE * c + (k - s) /\ x - h \in Int
      BY <1>1, <1>2, <1>4, <1>5, <1>6, <2>1
    <2>3. k - s \in 0..PAGE_SIZE - 1
      BY <1>1, <1>2, <1>7 DEF Places
    <2>4. (x - h) % PAGE_SIZE = k - s
      BY <1>1, <2>1, <2>2, <2>3, OneRemainder, Zenon
    <2> QED BY <1>4, <1>7, <2>4, Zenon DEF x, s
  <1>8. CASE ~ (k >= s)
    <2> DEFINE c == 0 - a - b - 1
    <2>1. PAGE_SIZE * c = 0 - PAGE_SIZE * a - PAGE_SIZE * b - PAGE_SIZE /\ c \in Int
      BY <1>1
    <2> HIDE DEF c
    <2>2. x - h = PAGE_SIZE * c + (PAGE_SIZE + (k - s)) /\ x - h \in Int
      BY <1>1, <1>2, <1>4, <1>5, <1>6, <2>1
    <2>3. PAGE_SIZE + (k - s) \in 0..PAGE_SIZE - 1
      BY <1>1, <1>2, <1>8 DEF Places
    <2>4. (x - h) % PAGE_SIZE = PAGE_SIZE + (k - s)
      BY <1>1, <2>1, <2>2, <2>3, OneRemainder, Zenon
    <2> QED BY <1>4, <1>8, <2>4, Zenon DEF x, s
  <1> QED BY <1>7, <1>8, Zenon DEF x, s

LEMMA WriteMoves ==
  ASSUME PipeAssumption, NEW h \in Places, NEW t \in Places,
         NEW n \in 0..PAGE_SIZE - 1 - Size(h, t)
  PROVE  LET u == (h + n) % PAGE_SIZE IN u \in Places /\ Size(u, t) = Size(h, t) + n
  <1> DEFINE u == (h + n) % PAGE_SIZE
             s == Size(h, t)
  <1>1. PAGE_SIZE \in Nat \ {0} /\ h \in Int /\ t \in Int /\ PAGE_SIZE \in Int
    BY PageSize DEF Places
  <1>2. s \in 0..PAGE_SIZE - 1 /\ s \in Int
    BY <1>1, SizeIs DEF Places
  <1>3. n \in Int /\ h + n \in Int /\ s + n \in 0..PAGE_SIZE - 1 /\ s + n \in Int
    BY <1>1, <1>2
  <1>4. u \in Places /\ u \in Int
    <2>1. u \in 0..PAGE_SIZE - 1
      BY <1>1, <1>3, Remainder, Zenon
    <2> QED BY <1>1, <2>1 DEF Places
  <1>5. PICK q \in Int : PAGE_SIZE * q \in Int /\ h + n = PAGE_SIZE * q + u
    BY <1>1, <1>3, Remainder, Zenon
  <1>6. PICK m \in Int : PAGE_SIZE * m \in Int /\ h - t = PAGE_SIZE * m + s
    <2>1. h - t \in Int
      BY <1>1
    <2> QED BY <1>1, <2>1, Remainder, Zenon DEF Size
  <1> HIDE DEF u, s
  <1>7. PAGE_SIZE * (m - q) = PAGE_SIZE * m - PAGE_SIZE * q /\ m - q \in Int
    BY <1>1
  <1>8. u - t = PAGE_SIZE * (m - q) + (s + n) /\ u - t \in Int
    BY <1>1, <1>2, <1>3, <1>4, <1>5, <1>6, <1>7
  <1>9. Size(u, t) = s + n
    BY <1>1, <1>3, <1>7, <1>8, OneRemainder, Zenon DEF Size
  <1> QED BY <1>4, <1>9 DEF u, s

LEMMA WriteKeeps ==
  ASSUME PipeAssumption, NEW h \in Places, NEW t \in Places, NEW pg \in [Places -> Int],
         NEW nr \in Int, InOrder(h, t, pg, nr), NEW n \in 0..PAGE_SIZE - 1 - Size(h, t)
  PROVE  InOrder((h + n) % PAGE_SIZE, t, PageFilled(h, pg, n), nr)
  <1> DEFINE u == (h + n) % PAGE_SIZE
             s == Size(h, t)
             new == PageFilled(h, pg, n)
             next == NextByte(h, pg)
  <1>1. /\ PAGE_SIZE \in Nat \ {0} /\ Numbers \in Nat \ {0} /\ h \in Int /\ t \in Int /\ PAGE_SIZE \in Int
        /\ nr \in Int /\ Numbers \in Int
    BY PageSize DEF Places
  <1>2. s \in 0..PAGE_SIZE - 1 /\ s \in Int
    BY <1>1, SizeIs DEF Places
  <1>3. n \in Int /\ h + n \in Int /\ s + n \in 0..PAGE_SIZE - 1 /\ s + n \in Int /\ n >= 0
    BY <1>1, <1>2
  <1>4. u \in Places /\ Size(u, t) = s + n
    BY WriteMoves
  <1>5. next = (nr + s) % Numbers
    BY DEF InOrder
  <1>6. ASSUME NEW j \in Int PROVE (next + j) % Numbers = (nr + (s + j)) % Numbers
    <2>1. (next + j) % Numbers = ((nr + s) + j) % Numbers
      <3>1. nr + s \in Int
        BY <1>1, <1>2
      <3> HIDE DEF s, next
      <3> QED BY <1>1, <1>5, <3>1, RemainderOfSum, Zenon
    <2>2. (nr + s) + j = nr + (s + j)
      BY <1>1, <1>2
    <2> HIDE DEF s, next
    <2> QED BY <2>1, <2>2
  <1>7. ASSUME NEW k \in 0..(s + n) - 1
        PROVE  new[(t + k) % PAGE_SIZE] = (nr + k) % Numbers
    <2> DEFINE x == (t + k) % PAGE_SIZE
    <2>1. k \in Places /\ k \in Int
      <3> HIDE DEF s
      <3> QED BY <1>1, <1>2, <1>3 DEF Places
    <2>2. x \in Places /\ (x - h) % PAGE_SIZE = IF k >= s THEN k - s ELSE PAGE_SIZE + (k - s)
      BY <2>1, PlaceFromHead
    <2>3. new[x] = IF (x - h) % PAGE_SIZE < n THEN (next + ((x - h) % PAGE_SIZE)) % Numbers ELSE pg[x]
      BY <2>2 DEF PageFilled
    <2>4. CASE k >= s
      <3>1. k - s \in Int /\ k - s < n /\ s + (k - s) = k
        <4> HIDE DEF s
        <4> QED BY <1>2, <1>3, <2>1
      <3> HIDE DEF s, next, new, x
      <3>2. (x - h) % PAGE_SIZE = k - s
        BY <2>2, <2>4
      <3>3. new[x] = (next + (k - s)) % Numbers
        BY <2>3, <3>1, <3>2
      <3>4. (next + (k - s)) % Numbers = (nr + k) % Numbers
        BY <1>6, <3>1
      <3> QED BY <3>3, <3>4 DEF x
    <2>5. CASE ~ (k >= s)
      <3>1. ~ (PAGE_SIZE + (k - s) < n) /\ k \in 0..s - 1
        <4> HIDE DEF s
        <4> QED BY <1>1, <1>2, <1>3, <2>1, <2>5
      <3>2. pg[x] = (nr + k) % Numbers
        BY <3>1 DEF InOrder
      <3> HIDE DEF s, next, new, x
      <3>3. (x - h) % PAGE_SIZE = PAGE_SIZE + (k - s)
        BY <2>2, <2>5
      <3>4. new[x] = pg[x]
        BY <2>3, <3>1, <3>3
      <3> QED BY <3>2, <3>4 DEF x
    <2> QED BY <2>4, <2>5
  <1>8. NextByte(u, new) = (nr + Size(u, t)) % Numbers
    <2>1. CASE n = 0
      <3>1. new = pg
        <4>1. ASSUME NEW i \in Places PROVE ~ ((i - h) % PAGE_SIZE < n)
          <5>1. i - h \in Int
            BY <1>1 DEF Places
          <5>2. (i - h) % PAGE_SIZE \in 0..PAGE_SIZE - 1
            BY <1>1, <5>1, Remainder, Zenon
          <5> QED BY <1>1, <2>1, <5>2
        <4> QED BY <4>1 DEF PageFilled
      <3>2. u = h
        <4>1. h + n = h /\ h \in 0..PAGE_SIZE - 1
          BY <1>1, <2>1 DEF Places
        <4> QED BY <1>1, <4>1, RemainderOfLess
      <3>3. s + n = s
        BY <1>2, <2>1
      <3> HIDE DEF s, u, new
      <3> QED BY <1>4, <1>5, <3>1, <3>2, <3>3
    <2>2. CASE n # 0
      <3> DEFINE k == (s + n) - 1
                 x == (u - 1) % PAGE_SIZE
      <3>1. k \in 0..(s + n) - 1 /\ k \in Int /\ k + 1 = s + n
        <4> HIDE DEF s
        <4> QED BY <1>2, <1>3, <2>2
      <3>2. x = (t + k) % PAGE_SIZE
        <4> DEFINE y == (t + k) % PAGE_SIZE
        <4>1. x = ((h + n) - 1) % PAGE_SIZE
          <5>1. ((h + n) + (0 - 1)) % PAGE_SIZE = (((h + n) % PAGE_SIZE) + (0 - 1)) % PAGE_SIZE
            <6>1. 0 - 1 \in Int
              OBVIOUS
            <6> QED BY <1>1, <1>3, <6>1, RemainderOfSum, ZenonT(30)
          <5>2. (h + n) + (0 - 1) = (h + n) - 1
            BY <1>1, <1>3
          <5>3. u + (0 - 1) = u - 1
            <6> HIDE DEF u
            <6> QED BY <1>1, <1>4 DEF Places
          <5> QED BY <5>1, <5>2, <5>3, Zenon
        <4>2. PICK m \in Int : PAGE_SIZE * m \in Int /\ h - t = PAGE_SIZE * m + s
          <5>1. h - t \in Int
            BY <1>1
          <5> QED BY <1>1, <5>1, Remainder, Zenon DEF Size
        <4>3. PICK q \in Int : PAGE_SIZE * q \in Int /\ t + k = PAGE_SIZE * q + y
          <5>1. t + k \in Int
            <6> HIDE DEF k
            <6> QED BY <1>1, <3>1
          <5> HIDE DEF k
          <5> QED BY <1>1, <5>1, Remainder, Zenon
        <4>4. y \in 0..PAGE_SIZE - 1
          <5>1. t + k \in Int
            <6> HIDE DEF k
            <6> QED BY <1>1, <3>1
          <5> HIDE DEF k
          <5> QED BY <1>1, <5>1, Remainder, Zenon
        <4> HIDE DEF y, s, x, k
        <4>5. PAGE_SIZE * (q + m) = PAGE_SIZE * q + PAGE_SIZE * m /\ q + m \in Int
          BY <1>1
        <4>6. (h + n) - 1 = PAGE_SIZE * (q + m) + y /\ (h + n) - 1 \in Int
          BY <1>1, <1>2, <1>3, <3>1, <4>2, <4>3, <4>4, <4>5
        <4>7. ((h + n) - 1) % PAGE_SIZE = y
          BY <1>1, <4>4, <4>5, <4>6, OneRemainder, Zenon
        <4> QED BY <4>1, <4>7 DEF y
      <3>3. new[x] = (nr + k) % Numbers
        <4> HIDE DEF new, s, x, k
        <4> QED BY <1>7, <3>1, <3>2 DEF k
      <3> HIDE DEF s, new, x, k
      <3>4. (((nr + k) % Numbers) + 1) % Numbers = (nr + (s + n)) % Numbers
        <4>1. nr + k \in Int /\ (nr + k) + 1 = nr + (s + n)
          BY <1>1, <1>2, <1>3, <3>1
        <4> QED BY <1>1, <4>1, RemainderOfSum
      <3>5. NextByte(u, new) = (((nr + k) % Numbers) + 1) % Numbers
        BY <3>3 DEF NextByte, x
      <3> QED BY <1>4, <3>4, <3>5, Zenon
    <2> QED BY <2>1, <2>2
  <1> HIDE DEF s, u, new, next
  <1> QED BY <1>4, <1>7, <1>8, Zenon DEF InOrder, u, new

-----------------------------------------------------------------------------
(* What a task is doing. *)
IsCall(c) ==
  /\ c = [pc |-> c.pc, p |-> c.p, count |-> c.count, queues |-> c.queues, ask |-> c.ask, timeout |-> c.timeout]
  /\ c.count \in Nat
  /\ c.pc \in {"read", "write"} => c.p \in Pipes

Calls == call = [t \in Tasks |-> call[t]] /\ \A t \in Tasks : IsCall(call[t])

Bytes == 0..Numbers - 1

Rings ==
  /\ PIPE_HEAD \in [Pipes -> Places] /\ PIPE_TAIL \in [Pipes -> Places]
  /\ page \in [Pipes -> [Places -> Bytes]] /\ taken \in [Pipes -> Bytes]

PipeInv == Calls /\ Rings /\ StreamIsKept

LEMMA StreamIs ==
  StreamIsKept <=> \A p \in Pipes : InOrder(PIPE_HEAD[p], PIPE_TAIL[p], page[p], taken[p])
  BY DEF StreamIsKept, InOrder, NextNumber, NextByte, PIPE_SIZE, Size

LEMMA CallChanges ==
  ASSUME Calls, NEW t \in Tasks, NEW c, IsCall(c), call' = [call EXCEPT ![t] = c]
  PROVE  Calls'
  <1>1. call' = [u \in Tasks |-> IF u = t THEN c ELSE call[u]]
    BY DEF Calls
  <1>2. call' = [u \in Tasks |-> call'[u]]
    BY <1>1
  <1>3. ASSUME NEW u \in Tasks PROVE IsCall(call'[u])
    BY <1>1 DEF Calls
  <1> QED BY <1>2, <1>3 DEF Calls

LEMMA SleepingCall ==
  ASSUME NEW c, IsCall(c), NEW q, NEW n \in Nat, NEW b
  PROVE  /\ IsCall([c EXCEPT !.queues = q]) /\ IsCall([c EXCEPT !.count = n])
         /\ IsCall([c EXCEPT !.timeout = b])
  <1> USE DEF IsCall
  <1>1. IsCall([c EXCEPT !.queues = q])
    OBVIOUS
  <1>2. IsCall([c EXCEPT !.count = n])
    OBVIOUS
  <1>3. IsCall([c EXCEPT !.timeout = b])
    OBVIOUS
  <1> QED BY <1>1, <1>2, <1>3

LEMMA OutCall == IsCall(Out)
  BY DEF IsCall, Out

LEMMA ReturnsCalls ==
  ASSUME Calls, NEW t \in Tasks, NEW states, Returns(t, states)
  PROVE  Calls'
  BY CallChanges, OutCall DEF Returns

LEMMA SleepOnCalls ==
  ASSUME Calls, NEW t \in Tasks, NEW q, NEW st, NEW states, NEW n \in Nat,
         SleepOn(t, q, st, states, [call[t] EXCEPT !.count = n])
  PROVE  Calls'
  <1> DEFINE c == [call[t] EXCEPT !.count = n]
             qs == <<q>>
             d == [c EXCEPT !.queues = qs]
  <1>1. IsCall(c)
    BY SleepingCall DEF Calls
  <1>2. call' = [call EXCEPT ![t] = d]
    BY DEF SleepOn
  <1> HIDE DEF c, qs
  <1>3. IsCall(d)
    BY <1>1, SleepingCall
  <1> HIDE DEF d
  <1> QED BY <1>2, <1>3, CallChanges

LEMMA EnterCalls ==
  ASSUME Calls, NEW t \in Tasks, NEW c, IsCall(c), Enter(t, c)
  PROVE  Calls'
  BY CallChanges DEF Enter

-----------------------------------------------------------------------------
(* read_pipe takes bytes from the tail, write_pipe puts them at the head. *)
LEMMA ReadPipeKeeps ==
  ASSUME PipeAssumption, PipeInv, NEW t \in Tasks, ReadPipe(t)
  PROVE  PipeInv'
  <1> DEFINE p == call[t].p
             count == call[t].count
             size == Size(PIPE_HEAD[p], PIPE_TAIL[p])
             n == Smaller(count, size)
             rest == count - n
             u == (PIPE_TAIL[p] + n) % PAGE_SIZE
             v == (taken[p] + n) % Numbers
  <1>1. p \in Pipes /\ count \in Nat
    BY DEF PipeInv, Calls, IsCall, ReadPipe
  <1>2. /\ PIPE_HEAD[p] \in Places /\ PIPE_TAIL[p] \in Places /\ page[p] \in [Places -> Bytes]
        /\ taken[p] \in Bytes
    BY <1>1 DEF PipeInv, Rings
  <1>3. page[p] \in [Places -> Int] /\ taken[p] \in Int /\ PIPE_HEAD[p] \in Int /\ PIPE_TAIL[p] \in Int
    <2>1. Bytes \subseteq Int /\ Places \subseteq Int
      BY PageSize DEF Bytes, Places
    <2> QED BY <1>2, <2>1
  <1>4. size \in Nat
    <2>1. size \in Int /\ size >= 0
      BY <1>3, SizeIs
    <2> QED BY <2>1
  <1>5. n \in 0..size /\ rest \in Nat /\ n \in Int
    <2> HIDE DEF size, count
    <2> QED BY <1>1, <1>4 DEF Smaller
  <1>6. InOrder(PIPE_HEAD[p], PIPE_TAIL[p], page[p], taken[p])
    BY <1>1, StreamIs DEF PipeInv
  <1>7. u \in Places /\ InOrder(PIPE_HEAD[p], u, page[p], v)
    BY <1>2, <1>3, <1>5, <1>6, ReadKeeps
  <1>8. v \in Bytes
    <2>1. taken[p] + n \in Int
      <3> HIDE DEF n
      <3> QED BY <1>3, <1>5
    <2> HIDE DEF n
    <2> QED BY <2>1, PageSize, Remainder, Zenon DEF Bytes
  <1>9. /\ PIPE_TAIL' = [PIPE_TAIL EXCEPT ![p] = u] /\ taken' = [taken EXCEPT ![p] = v]
        /\ PIPE_HEAD' = PIPE_HEAD /\ page' = page
    BY DEF ReadPipe, PIPE_SIZE, Size
  <1>10. \/ \E states : Returns(t, states)
         \/ \E q, st, states : SleepOn(t, q, st, states, [call[t] EXCEPT !.count = rest])
    BY DEF ReadPipe, PIPE_SIZE, Size
  <1> HIDE DEF u, v, rest
  <1>11. Calls'
    BY <1>5, <1>10, ReturnsCalls, SleepOnCalls DEF PipeInv
  <1>12. Rings'
    BY <1>7, <1>8, <1>9 DEF PipeInv, Rings
  <1>13. StreamIsKept'
    <2>1. ASSUME NEW o \in Pipes
          PROVE  InOrder(PIPE_HEAD[o], PIPE_TAIL[o], page[o], taken[o])'
      <3>1. CASE o = p
        <4> HIDE DEF p
        <4>1. PIPE_TAIL'[o] = u /\ taken'[o] = v
          BY <1>9, <3>1 DEF PipeInv, Rings
        <4> QED BY <1>7, <1>9, <3>1, <4>1 DEF InOrder, NextByte, Size
      <3>2. CASE o # p
        <4> HIDE DEF p
        <4>1. PIPE_TAIL'[o] = PIPE_TAIL[o] /\ taken'[o] = taken[o]
          BY <1>9, <3>2 DEF PipeInv, Rings
        <4>2. InOrder(PIPE_HEAD[o], PIPE_TAIL[o], page[o], taken[o])
          BY StreamIs DEF PipeInv
        <4> QED BY <1>9, <4>1, <4>2 DEF InOrder, NextByte, Size
      <3> QED BY <3>1, <3>2
    <2> QED BY <2>1 DEF StreamIsKept, InOrder, NextNumber, NextByte, PIPE_SIZE, Size
  <1> QED BY <1>11, <1>12, <1>13 DEF PipeInv

LEMMA WritePipeKeeps ==
  ASSUME PipeAssumption, PipeInv, NEW t \in Tasks, WritePipe(t)
  PROVE  PipeInv'
  <1> DEFINE p == call[t].p
             count == call[t].count
             h == PIPE_HEAD[p]
             size == Size(h, PIPE_TAIL[p])
             room == PAGE_SIZE - 1 - size
             n == Smaller(count, room)
             rest == count - n
             u == (h + n) % PAGE_SIZE
             new == PageFilled(h, page[p], n)
  <1>1. p \in Pipes /\ count \in Nat
    BY DEF PipeInv, Calls, IsCall, WritePipe
  <1>2. /\ h \in Places /\ PIPE_TAIL[p] \in Places /\ page[p] \in [Places -> Bytes] /\ taken[p] \in Bytes
    BY <1>1 DEF PipeInv, Rings
  <1>3. page[p] \in [Places -> Int] /\ taken[p] \in Int /\ h \in Int /\ PIPE_TAIL[p] \in Int
    <2>1. Bytes \subseteq Int /\ Places \subseteq Int
      BY PageSize DEF Bytes, Places
    <2> QED BY <1>2, <2>1
  <1>4. room \in Nat
    <2>1. size \in Places
      BY <1>3, SizeIs
    <2> HIDE DEF size
    <2> QED BY <2>1, PageSize DEF Places
  <1>5. n \in 0..room /\ rest \in Nat /\ n \in Int
    <2> HIDE DEF room, count
    <2> QED BY <1>1, <1>4 DEF Smaller
  <1>6. InOrder(h, PIPE_TAIL[p], page[p], taken[p])
    BY <1>1, StreamIs DEF PipeInv
  <1>7. u \in Places /\ InOrder(u, PIPE_TAIL[p], new, taken[p])
    BY <1>2, <1>3, <1>5, <1>6, WriteKeeps, WriteMoves
  <1>8. new \in [Places -> Bytes]
    <2>1. ASSUME NEW i \in Places
          PROVE  (NextByte(h, page[p]) + ((i - h) % PAGE_SIZE)) % Numbers \in Bytes
      <3>1. i - h \in Int
        BY <1>3, PageSize DEF Places
      <3>2. (i - h) % PAGE_SIZE \in Int
        BY <3>1, PageSize, RemainderIsInt, Zenon
      <3>3. NextByte(h, page[p]) \in Int
        <4>1. h - 1 \in Int
          BY <1>3
        <4>2. (h - 1) % PAGE_SIZE \in Places
          BY <4>1, PageSize, Remainder, Zenon DEF Places
        <4> DEFINE b == page[p][(h - 1) % PAGE_SIZE]
        <4>3. b \in Int
          BY <1>3, <4>2
        <4> HIDE DEF b
        <4>4. b + 1 \in Int
          BY <4>3
        <4>5. (b + 1) % Numbers \in Int
          BY <4>4, PageSize, RemainderIsInt, Zenon
        <4> QED BY <4>5 DEF NextByte, b
      <3> DEFINE a == NextByte(h, page[p]) + ((i - h) % PAGE_SIZE)
      <3>4. a \in Int
        BY <3>2, <3>3
      <3> HIDE DEF a
      <3>5. a % Numbers \in Bytes
        BY <3>4, PageSize, Remainder, Zenon DEF Bytes
      <3> QED BY <3>5 DEF a
    <2> HIDE DEF h, n
    <2> QED BY <1>2, <2>1, Zenon DEF PageFilled
  <1>9. /\ PIPE_HEAD' = [PIPE_HEAD EXCEPT ![p] = u] /\ page' = [page EXCEPT ![p] = new]
        /\ PIPE_TAIL' = PIPE_TAIL /\ taken' = taken
    BY DEF WritePipe, Put, PIPE_SIZE, Size, Room, PageFilled, Places, NextByte, NextNumber
  <1>10. \/ \E states : Returns(t, states)
         \/ \E q, st, states : SleepOn(t, q, st, states, [call[t] EXCEPT !.count = rest])
    BY DEF WritePipe, PIPE_SIZE, Size, Room
  <1> HIDE DEF u, new, rest
  <1>11. Calls'
    BY <1>5, <1>10, ReturnsCalls, SleepOnCalls DEF PipeInv
  <1>12. Rings'
    BY <1>7, <1>8, <1>9 DEF PipeInv, Rings
  <1>13. StreamIsKept'
    <2>1. ASSUME NEW o \in Pipes
          PROVE  InOrder(PIPE_HEAD[o], PIPE_TAIL[o], page[o], taken[o])'
      <3>1. CASE o = p
        <4> HIDE DEF p
        <4>1. PIPE_HEAD'[o] = u /\ page'[o] = new
          BY <1>9, <3>1 DEF PipeInv, Rings
        <4> QED BY <1>7, <1>9, <3>1, <4>1 DEF InOrder, NextByte, Size
      <3>2. CASE o # p
        <4> HIDE DEF p
        <4>1. PIPE_HEAD'[o] = PIPE_HEAD[o] /\ page'[o] = page[o]
          BY <1>9, <3>2 DEF PipeInv, Rings
        <4>2. InOrder(PIPE_HEAD[o], PIPE_TAIL[o], page[o], taken[o])
          BY StreamIs DEF PipeInv
        <4> QED BY <1>9, <4>1, <4>2 DEF InOrder, NextByte, Size
      <3> QED BY <3>1, <3>2
    <2> QED BY <2>1 DEF StreamIsKept, InOrder, NextNumber, NextByte, PIPE_SIZE, Size
  <1> QED BY <1>11, <1>12, <1>13 DEF PipeInv

(* No other step touches the bytes of a pipe. *)
SameRings == UNCHANGED <<PIPE_HEAD, PIPE_TAIL, page, taken>>

LEMMA RingsStay ==
  ASSUME PipeInv, SameRings, Calls'
  PROVE  PipeInv'
  <1>1. Rings'
    BY DEF PipeInv, Rings, SameRings
  <1>2. StreamIsKept'
    BY DEF PipeInv, StreamIsKept, NextNumber, PIPE_SIZE, SameRings
  <1> QED BY <1>1, <1>2 DEF PipeInv

LEMMA OtherSteps ==
  ASSUME PipeAssumption, PipeInv, NEW t \in Tasks,
         LeaveQueue(t) \/ DoSelect(t) \/ TakeSignal(t) \/ Call(t) \/ Signal(t) \/ Timeout(t)
  PROVE  Calls' /\ SameRings
  <1>1. Calls /\ IsCall(call[t])
    BY DEF PipeInv, Calls
  <1>2. ASSUME UNCHANGED call PROVE Calls'
    BY <1>1, <1>2 DEF Calls
  <1>3. ASSUME NEW q, call' = [call EXCEPT ![t].queues = q] PROVE Calls'
    <2> DEFINE d == [call[t] EXCEPT !.queues = q]
    <2>1. call' = [call EXCEPT ![t] = d]
      BY <1>3
    <2>2. IsCall(d)
      BY <1>1, SleepingCall
    <2> HIDE DEF d
    <2> QED BY <1>1, <2>1, <2>2, CallChanges
  <1>4. CASE LeaveQueue(t)
    <2> DEFINE q == Tail(call[t].queues)
    <2>1. UNCHANGED call \/ call' = [call EXCEPT ![t].queues = q]
      BY <1>4 DEF LeaveQueue
    <2> HIDE DEF q
    <2>2. SameRings
      BY <1>4 DEF LeaveQueue, SameRings
    <2> QED BY <1>2, <1>3, <2>1, <2>2
  <1>5. CASE DoSelect(t)
    <2>1. (\E q : call' = [call EXCEPT ![t].queues = q]) \/ \E states : Returns(t, states)
      BY <1>5 DEF DoSelect
    <2>2. SameRings
      BY <1>5 DEF DoSelect, SameRings
    <2> QED BY <1>1, <1>3, <2>1, <2>2, ReturnsCalls
  <1>6. CASE TakeSignal(t)
    BY <1>2, <1>6 DEF TakeSignal, SameRings
  <1>7. CASE Signal(t)
    BY <1>2, <1>7 DEF Signal, SameRings
  <1>8. CASE Timeout(t)
    <2> DEFINE b == FALSE
               d == [call[t] EXCEPT !.timeout = b]
    <2>1. call' = [call EXCEPT ![t] = d]
      BY <1>8 DEF Timeout
    <2> HIDE DEF b
    <2>2. IsCall(d)
      BY <1>1, SleepingCall
    <2> HIDE DEF d
    <2>3. SameRings
      BY <1>8 DEF Timeout, SameRings
    <2> QED BY <1>1, <2>1, <2>2, <2>3, CallChanges
  <1>9. CASE Call(t)
    <2>1. CASE \E p \in Pipes, n \in 1..MaxCount : Read(t, p, n) \/ Write(t, p, n)
      <3>1. PICK p \in Pipes, n \in 1..MaxCount : Read(t, p, n) \/ Write(t, p, n)
        BY <2>1
      <3>2. n \in Nat
        BY DEF PipeAssumption
      <3> DEFINE r == [Out EXCEPT !.pc = "read", !.p = p, !.count = n]
                 w == [Out EXCEPT !.pc = "write", !.p = p, !.count = n]
      <3> DEFINE b == FALSE
                 no == << >>
      <3>7. Out = [pc |-> "out", p |-> NoTask, count |-> 0, queues |-> no, ask |-> NoTask, timeout |-> b]
        BY DEF Out
      <3> HIDE DEF b, no
      <3> DEFINE x == "read"
                 y == "write"
      <3>3. r = [Out EXCEPT !.pc = x, !.p = p, !.count = n] /\ w = [Out EXCEPT !.pc = y, !.p = p, !.count = n]
        OBVIOUS
      <3> HIDE DEF x, y
      <3>6. IsCall(r) /\ IsCall(w)
        <4> HIDE DEF r, w
        <4> QED BY <3>1, <3>2, <3>3, <3>7 DEF IsCall
      <3>4. Enter(t, r) \/ Enter(t, w)
        BY <3>1 DEF Read, Write
      <3> HIDE DEF r, w
      <3>5. SameRings
        BY <3>4 DEF Enter, SameRings
      <3> QED BY <1>1, <3>6, <3>4, <3>5, EnterCalls
    <2>2. CASE \E p \in Pipes, e \in {"read", "write"} : Close(t, p, e)
      BY <1>2, <2>2 DEF Close, SameRings
    <2>3. CASE \E ask \in Selects : Select(t, ask)
      <3>1. PICK ask \in Selects : Select(t, ask)
        BY <2>3
      <3> DEFINE limit == ask.limit
                 s == [Out EXCEPT !.pc = "select", !.ask = ask, !.timeout = limit]
      <3>2. Enter(t, s)
        BY <3>1 DEF Select
      <3> HIDE DEF limit
      <3> DEFINE no == << >>
                 b == FALSE
      <3>6. Out = [pc |-> "out", p |-> NoTask, count |-> 0, queues |-> no, ask |-> NoTask, timeout |-> b]
        BY DEF Out
      <3> HIDE DEF b, no
      <3> DEFINE x == "select"
      <3>3. s = [Out EXCEPT !.pc = x, !.ask = ask, !.timeout = limit] /\ x \notin {"read", "write"}
        OBVIOUS
      <3> HIDE DEF x
      <3>5. IsCall(s)
        <4> HIDE DEF s
        <4> QED BY <3>3, <3>6 DEF IsCall
      <3> HIDE DEF s
      <3>4. SameRings
        BY <3>2 DEF Enter, SameRings
      <3> QED BY <1>1, <3>2, <3>5, <3>4, EnterCalls
    <2> QED BY <1>9, <2>1, <2>2, <2>3 DEF Call
  <1> QED BY <1>4, <1>5, <1>6, <1>7, <1>8, <1>9

-----------------------------------------------------------------------------
(* A new pipe is empty, as if the stream had been read up to its first byte. *)
LEMMA PipeInitKeeps ==
  ASSUME PipeAssumption, PipeInit
  PROVE  PipeInv
  <1>1. Calls
    BY OutCall DEF PipeInit, Calls
  <1>2. /\ PAGE_SIZE \in Nat \ {0} /\ PAGE_SIZE \in Int /\ Numbers \in Nat \ {0} /\ Numbers = 2 * PAGE_SIZE
        /\ PAGE_SIZE - 1 \in 0..PAGE_SIZE - 1 /\ 0 \in 0..PAGE_SIZE - 1 /\ 0 \in 0..Numbers - 1
    BY PageSize DEF Numbers
  <1>3. Rings
    <2>1. ASSUME NEW i \in Places PROVE (i - PAGE_SIZE) % Numbers \in Bytes
      <3>1. i - PAGE_SIZE \in Int
        BY <1>2 DEF Places
      <3> QED BY <1>2, <3>1, Remainder, Zenon DEF Bytes
    <2>2. 0 \in Places /\ 0 \in Bytes
      BY <1>2 DEF Places, Bytes
    <2>3. [i \in Places |-> (i - PAGE_SIZE) % Numbers] \in [Places -> Bytes]
      BY <2>1
    <2> QED BY <2>2, <2>3, Zenon DEF PipeInit, Rings, Places
  <1>4. ASSUME NEW p \in Pipes
        PROVE  InOrder(PIPE_HEAD[p], PIPE_TAIL[p], page[p], taken[p])
    <2>1. PIPE_HEAD[p] = 0 /\ PIPE_TAIL[p] = 0 /\ taken[p] = 0
      BY DEF PipeInit
    <2>2. Size(0, 0) = 0
      <3>1. 0 - 0 = 0
        OBVIOUS
      <3> QED BY <1>2, <3>1, RemainderOfLess, Zenon DEF Size
    <2>3. (0 - 1) % PAGE_SIZE = PAGE_SIZE - 1
      <3>1. 0 - 1 = PAGE_SIZE * (0 - 1) + (PAGE_SIZE - 1) /\ 0 - 1 \in Int
        BY <1>2
      <3> QED BY <1>2, <3>1, OneRemainder, Zenon
    <2>4. page[p][PAGE_SIZE - 1] = (0 - 1) % Numbers
      <3>1. page[p] = [i \in Places |-> (i - PAGE_SIZE) % Numbers] /\ PAGE_SIZE - 1 \in Places
        BY <1>2 DEF PipeInit, Places
      <3>2. (PAGE_SIZE - 1) - PAGE_SIZE = 0 - 1
        BY <1>2
      <3> QED BY <3>1, <3>2
    <2>5. (((0 - 1) % Numbers) + 1) % Numbers = (0 + 0) % Numbers
      <3> DEFINE a == 0 - 1
      <3>1. a + 1 = 0 + 0 /\ a \in Int /\ 1 \in Int
        OBVIOUS
      <3> HIDE DEF a
      <3>2. ((a % Numbers) + 1) % Numbers = (a + 1) % Numbers
        BY <1>2, <3>1, RemainderOfSum, Zenon
      <3>3. ((a % Numbers) + 1) % Numbers = (0 + 0) % Numbers
        BY <3>1, <3>2
      <3> QED BY <3>3 DEF a
    <2>6. NextByte(0, page[p]) = (0 + Size(0, 0)) % Numbers
      BY <2>2, <2>3, <2>4, <2>5, Zenon DEF NextByte
    <2>7. \A k \in 0..Size(0, 0) - 1 : FALSE
      BY <2>2
    <2> QED BY <2>1, <2>6, <2>7, Zenon DEF InOrder
  <1> QED BY <1>1, <1>3, <1>4, StreamIs DEF PipeInv

LEMMA PipeNextKeeps ==
  ASSUME PipeAssumption, PipeInv, [PipeNext]_pipeVars
  PROVE  PipeInv'
  <1>1. CASE PipeNext
    <2>1. PICK t \in Tasks : Step(t) \/ Call(t) \/ Signal(t) \/ Timeout(t)
      BY <1>1 DEF PipeNext
    <2>2. CASE ReadPipe(t)
      BY <2>2, ReadPipeKeeps
    <2>3. CASE WritePipe(t)
      BY <2>3, WritePipeKeeps
    <2>4. CASE LeaveQueue(t) \/ DoSelect(t) \/ TakeSignal(t) \/ Call(t) \/ Signal(t) \/ Timeout(t)
      BY <2>4, OtherSteps, RingsStay
    <2> QED BY <2>1, <2>2, <2>3, <2>4 DEF Step
  <1>2. CASE UNCHANGED pipeVars
    BY <1>2, RingsStay DEF pipeVars, SameRings, PipeInv, Calls
  <1> QED BY <1>1, <1>2

(* read_pipe and write_pipe sleep between two pieces of one call, and other
   readers and writers come in between: for any page and any lengths, what is
   read is what was written, in its order, and a full page overwrites
   nothing. *)
THEOREM StreamsAreKept == PipeAssumption => (PipeSpec => []StreamIsKept)
  <1> SUFFICES ASSUME PipeAssumption PROVE PipeSpec => []StreamIsKept
    OBVIOUS
  <1>1. PipeInit => PipeInv
    BY PipeInitKeeps
  <1>2. PipeInv /\ [PipeNext]_pipeVars => PipeInv'
    BY PipeNextKeeps
  <1>3. PipeInv => StreamIsKept
    BY DEF PipeInv
  <1> QED BY <1>1, <1>2, <1>3, PTL DEF PipeSpec

-----------------------------------------------------------------------------
(* The timers. *)

(* The ticks until an entry is run: those of all entries up to it. *)
IsElapsed(e, list) ==
  /\ e \in [0..Len(list) -> Int] /\ e[0] = 0
  /\ \A n \in 1..Len(list) : e[n] = e[n - 1] + list[n].jiffies

(* Each entry but the first has a tick left at least; so has the first, but
   in the tick that is to run it. *)
CountsOK ==
  \A n \in 1..Len(timers) :
    IF n = 1 /\ ticking /\ calling = NoFn THEN timers[n].jiffies >= 0 ELSE timers[n].jiffies >= 1

TimersInv ==
  /\ timers \in Seq([fn : Functions, jiffies : Int])
  /\ left \in [Functions -> Int \cup {NoFn}]
  /\ calling \in Functions \cup {NoFn}
  /\ \A n, m \in 1..Len(timers) : timers[n].fn = timers[m].fn => n = m
  /\ \A f \in Functions : IsSet(f) <=> \E n \in 1..Len(timers) : timers[n].fn = f
  /\ CountsOK
  /\ \E e : /\ IsElapsed(e, timers)
            /\ \A n \in 1..Len(timers) : timers[n].fn \notin heldUp => left[timers[n].fn] >= e[n]

LEMMA TimersFacts ==
  ASSUME TimersInv
  PROVE  /\ Len(timers) \in Nat
         /\ \A n \in 1..Len(timers) : timers[n].fn \in Functions /\ timers[n].jiffies \in Int
  <1> DEFINE E == [fn : Functions, jiffies : Int]
  <1>1. \A x \in E : x.fn \in Functions /\ x.jiffies \in Int
    OBVIOUS
  <1>2. timers \in Seq(E)
    BY DEF TimersInv
  <1> HIDE DEF E
  <1>3. Len(timers) \in Nat /\ \A n \in 1..Len(timers) : timers[n] \in E
    BY <1>2
  <1> QED BY <1>1, <1>3

LEMMA ElapsedIs ==
  ASSUME NEW e, IsElapsed(e, timers), NEW n \in 0..Len(timers), Len(timers) \in Nat
  PROVE  Elapsed(n) = e[n]
  <1> DEFINE max == Len(timers)
             IsSum(s) == s = [k \in 0..max |-> IF k = 0 THEN 0 ELSE s[k - 1] + timers[k].jiffies]
             sum == CHOOSE s : IsSum(s)
  <1>1. IsSum(e)
    <2>1. \A k \in 0..max : e[k] = IF k = 0 THEN 0 ELSE e[k - 1] + timers[k].jiffies
      <3> TAKE k \in 0..max
      <3>1. CASE k = 0
        BY <3>1 DEF IsElapsed
      <3>2. CASE k # 0
        BY <3>2 DEF IsElapsed
      <3> QED BY <3>1, <3>2
    <2>2. e = [k \in 0..max |-> e[k]]
      BY DEF IsElapsed
    <2> QED BY <2>1, <2>2
  <1>2. IsSum(sum)
    BY <1>1, Zenon
  <1>3. Elapsed(n) = sum[n]
    BY DEF Elapsed
  <1> HIDE DEF sum
  <1>4. \A k \in 0..max : sum[k] = IF k = 0 THEN 0 ELSE sum[k - 1] + timers[k].jiffies
    BY <1>2
  <1> SUFFICES ASSUME sum[n] # e[n] PROVE FALSE
    BY <1>3
  <1> DEFINE bad == {k \in 0..max : sum[k] # e[k]}
  <1>5. PICK m \in bad : \A k \in bad : m <= k
    <2>1. bad \subseteq Nat /\ bad # {}
      OBVIOUS
    <2> HIDE DEF bad
    <2> QED BY <2>1, LeastOf
  <1>6. m # 0
    BY <1>4 DEF IsElapsed
  <1>7. m - 1 \in 0..max /\ m \in 1..max /\ m - 1 \notin bad
    BY <1>5, <1>6
  <1>8. sum[m] = sum[m - 1] + timers[m].jiffies /\ e[m] = e[m - 1] + timers[m].jiffies
    BY <1>4, <1>6, <1>7 DEF IsElapsed
  <1> QED BY <1>7, <1>8

(* Nobody is run before the first. *)
LEMMA FirstIsFirst ==
  ASSUME TimersInv, NEW e, IsElapsed(e, timers), NEW n \in 1..Len(timers)
  PROVE  e[n] \in Int /\ e[n] >= e[1] /\ e[1] = timers[1].jiffies
  <1> DEFINE bad == {k \in 1..Len(timers) : ~(e[k] >= e[1])}
  <1>1. Len(timers) \in Nat /\ 1 \in 1..Len(timers) /\ \A k \in 0..Len(timers) : e[k] \in Int
    BY TimersFacts DEF IsElapsed
  <1>2. e[1] = timers[1].jiffies
    BY <1>1, TimersFacts DEF IsElapsed
  <1> SUFFICES ASSUME bad # {} PROVE FALSE
    BY <1>1, <1>2
  <1>3. PICK m \in bad : \A k \in bad : m <= k
    <2>1. bad \subseteq Nat
      OBVIOUS
    <2> HIDE DEF bad
    <2> QED BY <2>1, LeastOf
  <1>4. m # 1 /\ m - 1 \in 1..Len(timers) /\ m - 1 \notin bad
    BY <1>1, <1>3
  <1>5. timers[m].jiffies \in Int /\ timers[m].jiffies >= 1
    <2>1. CountsOK /\ m \in 1..Len(timers)
      BY DEF TimersInv
    <2> QED BY <1>4, <2>1, TimersFacts DEF CountsOK
  <1>6. e[m] = e[m - 1] + timers[m].jiffies
    BY DEF IsElapsed
  <1> QED BY <1>1, <1>4, <1>5, <1>6, SMTT(30)

LEMMA InitTimers == ASSUME TimersAssumption, TimersInit PROVE TimersInv
  <1>1. IsElapsed([n \in 0..0 |-> 0], timers)
    BY DEF TimersInit, IsElapsed
  <1>2. Len(timers) = 0
    BY DEF TimersInit
  <1>3. CountsOK
    BY <1>2 DEF CountsOK
  <1>4. timers \in Seq([fn : Functions, jiffies : Int])
    BY DEF TimersInit
  <1> QED BY <1>1, <1>2, <1>3, <1>4 DEF TimersInit, TimersInv, IsSet

(* The place of a delay: the entry has a tick of its own, and so has the one
   it is set in front of. *)
LEMMA PlaceIs ==
  ASSUME TimersAssumption, TimersInv, NEW e, IsElapsed(e, timers), NEW d \in Nat, d >= 1
  PROVE  /\ Place(d) \in 0..Len(timers) /\ Elapsed(Place(d)) = e[Place(d)]
         /\ d - e[Place(d)] >= 1
         /\ Place(d) < Len(timers) => timers[Place(d) + 1].jiffies >= d - e[Place(d)]
  <1> DEFINE max == Len(timers)
             Fits(n) == /\ n < max => timers[n + 1].jiffies >= d - Elapsed(n)
                        /\ \A k \in 0..n - 1 : timers[k + 1].jiffies < d - Elapsed(k)
             fits == {n \in 0..max : n = max \/ timers[n + 1].jiffies >= d - e[n]}
  <1>1. /\ max \in Nat /\ \A k \in 0..max : Elapsed(k) = e[k] /\ e[k] \in Int
        /\ \A k \in 1..max : timers[k].jiffies \in Int
    <2>1. max \in Nat /\ \A k \in 1..max : timers[k].jiffies \in Int
      BY TimersFacts
    <2>2. \A k \in 0..max : Elapsed(k) = e[k] /\ e[k] \in Int
      BY <2>1, ElapsedIs DEF IsElapsed
    <2> QED BY <2>1, <2>2
  <1>2. PICK n \in fits : \A k \in fits : n <= k
    <2>1. fits \subseteq Nat /\ max \in fits
      BY <1>1
    <2> HIDE DEF fits
    <2> QED BY <2>1, LeastOf
  <1>3. n \in 0..max /\ Fits(n)
    <2>1. n < max => timers[n + 1].jiffies >= d - Elapsed(n)
      BY <1>1
    <2>2. ASSUME NEW k \in 0..n - 1 PROVE timers[k + 1].jiffies < d - Elapsed(k)
      <3>1. k \in 0..max /\ k \notin fits /\ k + 1 \in 1..max
        BY <1>1, <1>2
      <3> QED BY <1>1, <3>1
    <2> QED BY <2>1, <2>2
  <1>4. Place(d) \in 0..max /\ Fits(Place(d))
    <2>1. Place(d) = CHOOSE m \in 0..max : Fits(m)
      BY DEF Place
    <2> HIDE DEF Fits
    <2> QED BY <1>3, <2>1
  <1> DEFINE p == Place(d)
  <1> HIDE DEF p
  <1>5. p \in 0..max /\ Fits(p)
    BY <1>4 DEF p
  <1>6. d - e[p] >= 1
    <2>1. CASE p = 0
      BY <2>1 DEF IsElapsed
    <2>2. CASE p # 0
      <3>1. p - 1 \in 0..p - 1 /\ p - 1 \in 0..max /\ p \in 1..max
        BY <1>1, <1>5, <2>2
      <3>2. timers[p].jiffies < d - e[p - 1] /\ e[p] = e[p - 1] + timers[p].jiffies
        <4>1. Elapsed(p - 1) = e[p - 1] /\ timers[(p - 1) + 1].jiffies < d - Elapsed(p - 1)
          BY <1>1, <1>5, <3>1
        <4>2. (p - 1) + 1 = p
          BY <3>1
        <4> QED BY <3>1, <4>1, <4>2 DEF IsElapsed
      <3> QED BY <1>1, <1>5, <3>1, <3>2, SMTT(30)
    <2> QED BY <2>1, <2>2
  <1>7. p < max => timers[p + 1].jiffies >= d - e[p]
    BY <1>1, <1>5
  <1> QED BY <1>1, <1>5, <1>6, <1>7 DEF p

IsSetAt(r, s, p, x) ==
  \A k \in 1..Len(s) + 1 : r[k] = IF k <= p THEN s[k] ELSE IF k = p + 1 THEN x ELSE s[k - 1]

LEMMA SetAt ==
  ASSUME NEW T, NEW s \in Seq(T), NEW p \in 0..Len(s), NEW x \in T
  PROVE  /\ InsertAt(s, p + 1, x) \in Seq(T) /\ Len(InsertAt(s, p + 1, x)) = Len(s) + 1
         /\ IsSetAt(InsertAt(s, p + 1, x), s, p, x)
  <1> DEFINE a == SubSeq(s, 1, p)
             z == SubSeq(s, p + 1, Len(s))
  <1>1. Len(s) \in Nat /\ p \in Nat /\ p <= Len(s)
    OBVIOUS
  <1>2. a \in Seq(T) /\ Len(a) = p /\ \A k \in 1..p : a[k] = s[k]
    BY <1>1
  <1>3. z \in Seq(T) /\ Len(z) = Len(s) - p /\ \A k \in 1..Len(s) - p : z[k] = s[p + k]
    BY <1>1
  <1>4. InsertAt(s, p + 1, x) = a \o <<x>> \o z
    <2>1. (p + 1) - 1 = p
      BY <1>1
    <2> QED BY <2>1 DEF InsertAt
  <1> HIDE DEF a, z
  <1> DEFINE b == a \o <<x>>
  <1>5. b \in Seq(T) /\ Len(b) = p + 1 /\ b[p + 1] = x /\ \A k \in 1..p : b[k] = s[k]
    BY <1>1, <1>2
  <1> HIDE DEF b
  <1> DEFINE r == b \o z
  <1>6. r \in Seq(T) /\ Len(r) = Len(s) + 1
    <2>1. b \in Seq(T) /\ z \in Seq(T)
      BY <1>3, <1>5
    <2>2. r \in Seq(T) /\ Len(r) = Len(b) + Len(z)
      BY <2>1
    <2> QED BY <1>1, <1>3, <1>5, <2>2
  <1>7. ASSUME NEW k \in 1..Len(s) + 1
        PROVE  r[k] = IF k <= p THEN s[k] ELSE IF k = p + 1 THEN x ELSE s[k - 1]
    <2>1. CASE k <= p + 1
      <3>1. k \in 1..Len(b)
        BY <1>1, <1>5, <2>1
      <3>2. r[k] = b[k]
        BY <1>3, <1>5, <3>1
      <3>3. CASE k = p + 1
        BY <1>1, <1>5, <3>2, <3>3
      <3>4. CASE k # p + 1
        <4>1. k \in 1..p
          BY <1>1, <2>1, <3>4
        <4> QED BY <1>5, <3>2, <4>1
      <3> QED BY <3>3, <3>4
    <2>2. CASE k > p + 1
      <3>1. k - Len(b) \in 1..Len(z) /\ k > Len(b) /\ k - (p + 1) \in 1..Len(s) - p
        BY <1>1, <1>3, <1>5, <2>2
      <3>2. r[k] = z[k - Len(b)]
        BY <1>3, <1>5, <3>1, SMTT(30)
      <3>3. z[k - Len(b)] = s[k - 1]
        <4>1. k - Len(b) = k - (p + 1) /\ p + (k - (p + 1)) = k - 1
          BY <1>1, <1>5
        <4> QED BY <1>3, <3>1, <4>1
      <3> QED BY <1>1, <2>2, <3>2, <3>3
    <2>3. k <= p + 1 \/ k > p + 1
      BY <1>1
    <2> QED BY <2>1, <2>2, <2>3
  <1> HIDE DEF r
  <1>8. InsertAt(s, p + 1, x) = r
    BY <1>4 DEF b, r
  <1> QED BY <1>6, <1>7, <1>8 DEF IsSetAt

LEMMA AddTimerStep ==
  ASSUME TimersAssumption, TimersInv, NEW f \in Functions, NEW d \in 1..MaxDelay, AddTimer(f, d)
  PROVE  TimersInv'
  <1>1. PICK e : /\ IsElapsed(e, timers)
                 /\ \A n \in 1..Len(timers) : timers[n].fn \notin heldUp => left[timers[n].fn] >= e[n]
    BY DEF TimersInv
  <1> DEFINE p == Place(d)
             x == Entry(f, d)
             max == Len(timers)
             E == [fn : Functions, jiffies : Int]
             e2 == [n \in 0..max + 1 |-> IF n <= p THEN e[n] ELSE e[n - 1] + x.jiffies]
  <1>2. /\ p \in 0..max /\ x = [fn |-> f, jiffies |-> d - e[p]] /\ x.jiffies >= 1
        /\ p < max => timers[p + 1].jiffies >= x.jiffies
    BY <1>1, PlaceIs DEF Entry, TimersAssumption
  <1>3. /\ max \in Nat /\ timers \in Seq(E) /\ \A k \in 0..max : e[k] \in Int
        /\ \A n \in 1..max : timers[n].fn \in Functions /\ timers[n].jiffies \in Int
    BY <1>1, TimersFacts DEF TimersInv, IsElapsed
  <1>4. x \in E /\ x.fn = f /\ x.jiffies \in Int /\ x.jiffies = d - e[p]
    BY <1>2, <1>3
  <1>5. /\ timers' = InsertAt(timers, p + 1, x) /\ left' = [left EXCEPT ![f] = d]
        /\ heldUp' = heldUp \cup From(p + 1)
        /\ ~IsSet(f) /\ (ticking => calling \in Setters)
        /\ ticking' = ticking /\ calling' = calling
    BY DEF AddTimer, Insert
  <1> HIDE DEF p, x, E
  <1>6. /\ timers' \in Seq(E) /\ Len(timers') = max + 1 /\ timers'[p + 1] = x
        /\ \A k \in 1..max + 1 : k <= p => k \in 1..max /\ timers'[k] = timers[k]
        /\ \A k \in 1..max + 1 : k > p + 1 => k - 1 \in 1..max /\ timers'[k] = timers[k - 1]
        /\ p \in 0..max /\ max \in Nat /\ p + 1 \in 1..max + 1
    <2> DEFINE r == InsertAt(timers, p + 1, x)
    <2>1. /\ r \in Seq(E) /\ Len(r) = max + 1
          /\ \A k \in 1..max + 1 : r[k] = IF k <= p THEN timers[k] ELSE IF k = p + 1 THEN x ELSE timers[k - 1]
      <3>1. timers \in Seq(E) /\ p \in 0..Len(timers) /\ x \in E
        BY <1>2, <1>3, <1>4
      <3>2. /\ InsertAt(timers, p + 1, x) \in Seq(E)
            /\ Len(InsertAt(timers, p + 1, x)) = Len(timers) + 1
        BY <3>1, SetAt
      <3>3. IsSetAt(InsertAt(timers, p + 1, x), timers, p, x)
        BY <3>1, SetAt
      <3> QED BY <3>2, <3>3 DEF IsSetAt
    <2> HIDE DEF r
    <2>2. timers' = r
      BY <1>5 DEF r
    <2>3. p \in 0..max /\ max \in Nat /\ p + 1 \in 1..max + 1
      BY <1>2, <1>3
    <2>4. \A k \in 1..max + 1 : (k <= p => k \in 1..max) /\ (k > p + 1 => k - 1 \in 1..max /\ k # p + 1 /\ ~(k <= p))
      BY <2>3
    <2>5. ~(p + 1 <= p)
      BY <2>3
    <2> QED BY <2>1, <2>2, <2>3, <2>4, <2>5
  <1>7. left' \in [Functions -> Int \cup {NoFn}] /\ calling' \in Functions \cup {NoFn}
    BY <1>5 DEF TimersInv
  <1>8. \A n \in 1..max : timers[n].fn # f
    BY <1>5 DEF TimersInv
  <1>9. \A n, m \in 1..Len(timers') : timers'[n].fn = timers'[m].fn => n = m
    <2> SUFFICES ASSUME NEW n \in 1..max + 1, NEW m \in 1..max + 1, timers'[n].fn = timers'[m].fn
                 PROVE  n = m
      BY <1>6
    <2> DEFINE Old(k) == IF k <= p THEN k ELSE k - 1
    <2>1. \A k \in 1..max + 1 : k # p + 1 => Old(k) \in 1..max /\ timers'[k].fn = timers[Old(k)].fn
      <3> TAKE k \in 1..max + 1
      <3>1. CASE k <= p
        BY <1>6, <3>1
      <3>2. CASE k > p /\ k # p + 1
        <4>1. k > p + 1
          BY <1>6, <3>2
        <4>2. ~(k <= p)
          BY <1>6, <3>2
        <4> QED BY <1>6, <4>1, <4>2
      <3>3. k <= p \/ k > p
        BY <1>6
      <3> QED BY <3>1, <3>2, <3>3
    <2>2. timers'[p + 1].fn = f /\ p + 1 \in 1..max + 1
      BY <1>2, <1>3, <1>4, <1>6
    <2>3. CASE n = p + 1 \/ m = p + 1
      BY <1>8, <2>1, <2>2, <2>3
    <2>4. CASE n # p + 1 /\ m # p + 1
      <3>1. Old(n) = Old(m)
        <4>1. Old(n) \in 1..max /\ Old(m) \in 1..max /\ timers[Old(n)].fn = timers[Old(m)].fn
          BY <2>1, <2>4
        <4> HIDE DEF Old
        <4> QED BY <4>1 DEF TimersInv
      <3> QED BY <1>6, <2>4, <3>1
    <2> QED BY <2>3, <2>4
  <1>10. ASSUME NEW g \in Functions
         PROVE  IsSet(g)' <=> \E n \in 1..Len(timers') : timers'[n].fn = g
    <2>1. CASE g = f
      <3>1. timers'[p + 1].fn = f /\ p + 1 \in 1..max + 1
        BY <1>2, <1>3, <1>4, <1>6
      <3>2. left'[f] = d /\ d # NoFn
        BY <1>5 DEF TimersInv, TimersAssumption
      <3> QED BY <1>6, <2>1, <3>1, <3>2 DEF IsSet
    <2>2. CASE g # f
      <3>1. left'[g] = left[g]
        BY <1>5, <2>2 DEF TimersInv
      <3>2. ASSUME NEW n \in 1..max, timers[n].fn = g PROVE \E k \in 1..max + 1 : timers'[k].fn = g
        <4>1. CASE n <= p
          <5>1. n \in 1..max + 1
            BY <1>6
          <5> QED BY <1>6, <3>2, <4>1, <5>1
        <4>2. CASE n > p
          <5>1. n + 1 \in 1..max + 1 /\ n + 1 > p + 1 /\ (n + 1) - 1 = n
            BY <1>6, <4>2
          <5>2. timers'[n + 1] = timers[n]
            BY <1>6, <5>1
          <5> QED BY <3>2, <5>1, <5>2
        <4>3. n <= p \/ n > p
          BY <1>6
        <4> QED BY <4>1, <4>2, <4>3
      <3>3. ASSUME NEW k \in 1..max + 1, timers'[k].fn = g PROVE \E n \in 1..max : timers[n].fn = g
        <4>1. k # p + 1
          BY <1>4, <1>6, <2>2, <3>3
        <4>2. CASE k <= p
          BY <1>6, <3>3, <4>2
        <4>3. CASE k > p
          <5>1. k > p + 1
            BY <1>6, <4>1, <4>3
          <5> QED BY <1>6, <3>3, <5>1
        <4>4. k <= p \/ k > p
          BY <1>6
        <4> QED BY <4>2, <4>3, <4>4
      <3>4. IsSet(g) <=> \E n \in 1..max : timers[n].fn = g
        BY DEF TimersInv
      <3> QED BY <1>6, <3>1, <3>2, <3>3, <3>4 DEF IsSet
    <2> QED BY <2>1, <2>2
  <1>11. ASSUME NEW n \in 1..max + 1
         PROVE  IF n = 1 /\ ticking /\ calling = NoFn THEN timers'[n].jiffies >= 0 ELSE timers'[n].jiffies >= 1
    <2>1. ~(ticking /\ calling = NoFn)
      BY <1>5 DEF TimersAssumption
    <2>2. \A m \in 1..max : timers[m].jiffies >= 1
      BY <2>1 DEF TimersInv, CountsOK
    <2>3. timers'[n].jiffies >= 1
      <3>1. CASE n <= p
        BY <1>6, <2>2, <3>1
      <3>2. CASE n = p + 1
        BY <1>2, <1>6, <3>2
      <3>3. CASE n > p + 1
        BY <1>6, <2>2, <3>3
      <3>4. n <= p \/ n = p + 1 \/ n > p + 1
        BY <1>6
      <3> QED BY <3>1, <3>2, <3>3, <3>4
    <2> QED BY <2>1, <2>3
  <1>12. IsElapsed(e2, timers')
    <2>1. e2 \in [0..max + 1 -> Int]
      <3>1. ASSUME NEW n \in 0..max + 1 PROVE e2[n] \in Int
        <4>1. CASE n <= p
          BY <1>3, <1>6, <4>1
        <4>2. CASE ~(n <= p)
          <5>1. n - 1 \in 0..max
            BY <1>6, <4>2
          <5> QED BY <1>3, <1>4, <4>2, <5>1
        <4> QED BY <4>1, <4>2
      <3> QED BY <3>1
    <2>2. e2[0] = 0
      BY <1>1, <1>2, <1>3 DEF IsElapsed
    <2>3. ASSUME NEW n \in 1..max + 1 PROVE e2[n] = e2[n - 1] + timers'[n].jiffies
      <3>1. CASE n <= p
        <4>1. n \in 1..max /\ n - 1 \in 0..max + 1 /\ n - 1 <= p /\ timers'[n] = timers[n]
          BY <1>2, <1>3, <1>6, <3>1
        <4>2. e[n] = e[n - 1] + timers[n].jiffies
          BY <1>1, <4>1 DEF IsElapsed
        <4> QED BY <3>1, <4>1, <4>2
      <3>2. CASE n = p + 1
        <4>1. p \in 0..max + 1 /\ n - 1 = p /\ ~(n <= p) /\ timers'[n] = x
          BY <1>2, <1>3, <1>6, <3>2
        <4> QED BY <4>1
      <3>3. CASE n > p + 1
        <4>1. /\ n - 1 \in 1..max /\ ~(n <= p) /\ ~(n - 1 <= p) /\ timers'[n] = timers[n - 1]
              /\ n - 1 \in 0..max + 1 /\ (n - 1) - 1 \in 0..max
          BY <1>6, <3>3
        <4>2. e[n - 1] = e[(n - 1) - 1] + timers[n - 1].jiffies
          BY <1>1, <4>1 DEF IsElapsed
        <4>3. e2[n] = e[n - 1] + x.jiffies /\ e2[n - 1] = e[(n - 1) - 1] + x.jiffies
          BY <4>1
        <4>4. /\ e[(n - 1) - 1] \in Int /\ timers[n - 1].jiffies \in Int
          BY <1>3, <4>1
        <4> QED BY <1>4, <4>1, <4>2, <4>3, <4>4
      <3> QED BY <1>2, <1>3, <3>1, <3>2, <3>3
    <2> HIDE DEF e2
    <2> QED BY <1>6, <2>1, <2>2, <2>3 DEF IsElapsed
  <1>13. ASSUME NEW n \in 1..max + 1, timers'[n].fn \notin heldUp'
         PROVE  left'[timers'[n].fn] >= e2[n]
    <2>1. CASE n = p + 1
      <3>1. timers'[n] = x /\ left'[f] = d /\ e2[n] = e[p] + x.jiffies
        BY <1>2, <1>3, <1>5, <1>6, <2>1 DEF TimersInv
      <3> QED BY <1>2, <1>3, <1>4, <3>1
    <2>2. CASE n <= p
      <3>1. n \in 1..max /\ timers'[n] = timers[n] /\ e2[n] = e[n]
        BY <1>2, <1>3, <1>6, <2>2
      <3>2. left'[timers[n].fn] = left[timers[n].fn]
        BY <1>3, <1>5, <1>8, <3>1 DEF TimersInv
      <3> QED BY <1>1, <1>5, <1>13, <3>1, <3>2
    <2>3. CASE n > p + 1
      <3>1. n - 1 \in p + 1..max /\ timers'[n] = timers[n - 1]
        BY <1>2, <1>3, <1>6, <2>3
      <3> QED BY <1>5, <1>13, <3>1 DEF From
    <2> QED BY <1>2, <1>3, <2>1, <2>2, <2>3
  <1> HIDE DEF e2
  <1>14. CountsOK'
    BY <1>5, <1>6, <1>11 DEF CountsOK
  <1> QED BY <1>6, <1>7, <1>9, <1>10, <1>12, <1>13, <1>14 DEF TimersInv, E

LEMMA TickStep ==
  ASSUME TimersAssumption, TimersInv, Tick
  PROVE  TimersInv'
  <1>1. PICK e : /\ IsElapsed(e, timers)
                 /\ \A n \in 1..Len(timers) : timers[n].fn \notin heldUp => left[timers[n].fn] >= e[n]
    BY DEF TimersInv
  <1> DEFINE max == Len(timers)
             E == [fn : Functions, jiffies : Int]
             e2 == [n \in 0..max |-> IF n = 0 THEN 0 ELSE e[n] - 1]
  <1>2. /\ timers' = [timers EXCEPT ![1].jiffies = @ - 1] /\ timers # << >>
        /\ left' = [f \in Functions |-> IF left[f] \in {NoFn, -MaxLate} THEN left[f] ELSE left[f] - 1]
        /\ heldUp' = heldUp /\ ticking' = TRUE /\ calling' = NoFn /\ (ticking => calling \in Setters)
    BY DEF Tick
  <1>3. /\ max \in Nat /\ timers \in Seq(E) /\ (\A k \in 0..max : e[k] \in Int)
        /\ \A n \in 1..max : timers[n].fn \in Functions /\ timers[n].jiffies \in Int
    BY <1>1, TimersFacts DEF TimersInv, IsElapsed
  <1>4. max >= 1 /\ 1 \in 1..max
    BY <1>2, <1>3
  <1>5. /\ Len(timers') = max /\ timers' \in Seq(E)
        /\ \A n \in 1..max : /\ timers'[n].fn = timers[n].fn
                              /\ timers'[n].jiffies = IF n = 1 THEN timers[n].jiffies - 1 ELSE timers[n].jiffies
    <2>1. \A n \in 1..max : timers[n] \in E
      <3> HIDE DEF E
      <3> QED BY <1>3
    <2>2. [timers[1] EXCEPT !.jiffies = @ - 1] \in E
      BY <1>4, <2>1
    <2>3. timers' = [timers EXCEPT ![1] = [timers[1] EXCEPT !.jiffies = @ - 1]]
      BY <1>2
    <2>4. \A n \in 1..max : timers'[n] = IF n = 1 THEN [timers[1] EXCEPT !.jiffies = @ - 1] ELSE timers[n]
      BY <1>3, <2>3
    <2>5. timers' \in Seq(E) /\ Len(timers') = max
      <3> DEFINE y == [timers[1] EXCEPT !.jiffies = @ - 1]
      <3>1. y \in E /\ timers' = [timers EXCEPT ![1] = y]
        BY <2>2, <2>3
      <3> HIDE DEF E, y
      <3> QED BY <1>3, <1>4, <3>1, ExceptSeq
    <2>6. ASSUME NEW n \in 1..max
          PROVE  /\ timers'[n].fn = timers[n].fn
                 /\ timers'[n].jiffies = IF n = 1 THEN timers[n].jiffies - 1 ELSE timers[n].jiffies
      <3>1. CASE n = 1
        <4>1. timers[1] \in E /\ timers'[n] = [timers[1] EXCEPT !.jiffies = @ - 1]
          BY <1>4, <2>1, <2>4, <3>1
        <4> QED BY <3>1, <4>1
      <3>2. CASE n # 1
        BY <2>4, <3>2
      <3> QED BY <3>1, <3>2
    <2> QED BY <2>5, <2>6
  <1>6. \A f \in Functions : left'[f] \in Int \cup {NoFn} /\ (left'[f] = NoFn <=> left[f] = NoFn)
    BY <1>2 DEF TimersInv, TimersAssumption
  <1>7. left' \in [Functions -> Int \cup {NoFn}] /\ calling' \in Functions \cup {NoFn}
    BY <1>2, <1>6
  <1>8. \A n, m \in 1..Len(timers') : timers'[n].fn = timers'[m].fn => n = m
    BY <1>5 DEF TimersInv
  <1>9. ASSUME NEW f \in Functions
        PROVE  IsSet(f)' <=> \E n \in 1..Len(timers') : timers'[n].fn = f
    <2>1. IsSet(f) <=> \E n \in 1..max : timers[n].fn = f
      BY DEF TimersInv
    <2>2. (\E n \in 1..max : timers[n].fn = f) <=> (\E n \in 1..max : timers'[n].fn = f)
      BY <1>5
    <2> QED BY <1>5, <1>6, <2>1, <2>2 DEF IsSet
  <1>10. CountsOK'
    <2>1. \A n \in 1..max : timers[n].jiffies >= 1
      BY <1>2 DEF TimersInv, CountsOK, TimersAssumption
    <2> QED BY <1>2, <1>3, <1>5, <2>1 DEF CountsOK
  <1>11. IsElapsed(e2, timers')
    <2>1. e2 \in [0..max -> Int] /\ e2[0] = 0
      BY <1>3
    <2>2. ASSUME NEW n \in 1..max PROVE e2[n] = e2[n - 1] + timers'[n].jiffies
      <3>1. e[n] = e[n - 1] + timers[n].jiffies /\ e[0] = 0 /\ n - 1 \in 0..max /\ n \in 0..max /\ n # 0
        BY <1>1, <1>3, SMTT(30) DEF IsElapsed
      <3>2. e[n] \in Int /\ e[n - 1] \in Int /\ timers[n].jiffies \in Int
        BY <1>3, <3>1
      <3>3. CASE n = 1
        BY <1>5, <3>1, <3>2, <3>3, SMTT(30)
      <3>4. CASE n # 1
        BY <1>5, <3>1, <3>2, <3>4, SMTT(30)
      <3> QED BY <3>3, <3>4
    <2> HIDE DEF e2
    <2> QED BY <1>5, <2>1, <2>2 DEF IsElapsed
  <1>12. ASSUME NEW n \in 1..max, timers'[n].fn \notin heldUp'
         PROVE  left'[timers'[n].fn] >= e2[n]
    <2>1. left[timers[n].fn] >= e[n] /\ timers[n].fn \in Functions /\ e[n] \in Int
      BY <1>1, <1>2, <1>3, <1>5, <1>12
    <2>2. left[timers[n].fn] \in Int
      BY <2>1 DEF TimersInv, IsSet
    <2> DEFINE a == left[timers[n].fn]
    <2>3. left'[timers'[n].fn] = IF a \in {NoFn, -MaxLate} THEN a ELSE a - 1
      BY <1>2, <1>5, <2>1
    <2>4. e2[n] = e[n] - 1
      OBVIOUS
    <2>5. a >= e[n] /\ a \in Int /\ e[n] \in Int /\ NoFn \notin Int
      BY <2>1, <2>2 DEF TimersAssumption
    <2> HIDE DEF a, e2
    <2> QED BY <2>3, <2>4, <2>5
  <1> HIDE DEF e2
  <1> QED BY <1>5, <1>7, <1>8, <1>9, <1>10, <1>11, <1>12 DEF TimersInv

LEMMA RunFirstStep ==
  ASSUME TimersAssumption, TimersInv, RunFirst
  PROVE  TimersInv'
  <1>1. PICK e : /\ IsElapsed(e, timers)
                 /\ \A n \in 1..Len(timers) : timers[n].fn \notin heldUp => left[timers[n].fn] >= e[n]
    BY DEF TimersInv
  <1> DEFINE max == Len(timers)
             E == [fn : Functions, jiffies : Int]
             g == timers[1].fn
             e2 == [n \in 0..max - 1 |-> e[n + 1]]
  <1>2. /\ ticking /\ timers # << >> /\ timers[1].jiffies <= 0
        /\ timers' = Tail(timers) /\ calling' = g /\ ticking' = ticking
        /\ left' = [left EXCEPT ![g] = NoFn] /\ heldUp' = heldUp \ {g}
    <2>1. Head(timers) = timers[1]
      <3>1. timers \in Seq(E) /\ timers # << >>
        BY DEF TimersInv, RunFirst, Due
      <3> HIDE DEF E
      <3> QED BY <3>1
    <2> QED BY <2>1 DEF RunFirst, Due
  <1>3. /\ max \in Nat /\ timers \in Seq(E) /\ (\A k \in 0..max : e[k] \in Int)
        /\ \A n \in 1..max : timers[n].fn \in Functions /\ timers[n].jiffies \in Int
    BY <1>1, TimersFacts DEF TimersInv, IsElapsed
  <1>4. max >= 1 /\ 1 \in 1..max
    BY <1>2, <1>3
  <1>5. timers' \in Seq(E) /\ Len(timers') = max - 1 /\ \A n \in 1..max - 1 : timers'[n] = timers[n + 1]
    <2> HIDE DEF E
    <2> QED BY <1>2, <1>3
  <1>6. \A n \in 1..max - 1 : n + 1 \in 1..max /\ timers'[n].fn # g
    <2>1. \A n \in 1..max - 1 : n + 1 \in 1..max /\ n + 1 # 1
      BY <1>3
    <2>2. \A m \in 1..max : timers[m].fn = g => m = 1
      BY <1>4 DEF TimersInv
    <2> HIDE DEF g, max
    <2> QED BY <1>5, <2>1, <2>2
  <1>7. timers[1].jiffies = 0
    <2>1. timers[1].jiffies >= 0
      <3>1. timers[1].jiffies >= 0 \/ timers[1].jiffies >= 1
        BY <1>4 DEF TimersInv, CountsOK
      <3>2. timers[1].jiffies \in Int
        BY <1>3, <1>4
      <3> QED BY <3>1, <3>2
    <2>2. timers[1].jiffies <= 0 /\ timers[1].jiffies \in Int
      BY <1>2, <1>3, <1>4
    <2> QED BY <2>1, <2>2
  <1>8. /\ left' \in [Functions -> Int \cup {NoFn}] /\ calling' \in Functions \cup {NoFn}
    BY <1>2, <1>3, <1>4 DEF TimersInv
  <1>9. \A n, m \in 1..Len(timers') : timers'[n].fn = timers'[m].fn => n = m
    <2> SUFFICES ASSUME NEW n \in 1..max - 1, NEW m \in 1..max - 1, timers'[n].fn = timers'[m].fn
                 PROVE  n = m
      BY <1>5
    <2>1. n + 1 \in 1..max /\ m + 1 \in 1..max /\ timers[n + 1].fn = timers[m + 1].fn
      BY <1>5, <1>6
    <2>2. n + 1 = m + 1
      BY <2>1 DEF TimersInv
    <2> QED BY <1>3, <2>2
  <1>10. ASSUME NEW f \in Functions
         PROVE  IsSet(f)' <=> \E n \in 1..Len(timers') : timers'[n].fn = f
    <2>1. CASE f = g
      BY <1>2, <1>5, <1>6, <2>1 DEF TimersInv, IsSet
    <2>2. CASE f # g
      <3>1. left'[f] = left[f] /\ (IsSet(f) <=> \E n \in 1..max : timers[n].fn = f)
        BY <1>2, <2>2 DEF TimersInv
      <3>2. ASSUME NEW n \in 1..max, timers[n].fn = f PROVE \E m \in 1..max - 1 : timers'[m].fn = f
        <4>1. n - 1 \in 1..max - 1 /\ (n - 1) + 1 = n
          BY <1>3, <2>2, <3>2
        <4> QED BY <1>5, <3>2, <4>1
      <3> QED BY <1>5, <1>6, <3>1, <3>2 DEF IsSet
    <2> QED BY <2>1, <2>2
  <1>11. CountsOK'
    <2>1. \A n \in 1..max : n # 1 => timers[n].jiffies >= 1
      BY DEF TimersInv, CountsOK
    <2>2. \A n \in 1..max - 1 : timers'[n].jiffies >= 1
      BY <1>3, <1>5, <1>6, <2>1
    <2>3. \A n \in 1..max - 1 : timers'[n].jiffies \in Int
      BY <1>3, <1>5, <1>6
    <2> QED BY <1>5, <2>2, <2>3 DEF CountsOK
  <1>12. IsElapsed(e2, timers')
    <2>1. e2 \in [0..max - 1 -> Int]
      BY <1>3
    <2>2. e2[0] = 0
      <3>1. e[1] = e[1 - 1] + timers[1].jiffies /\ e[0] = 0 /\ 1 - 1 = 0
        BY <1>1, <1>4 DEF IsElapsed
      <3>2. e[1] = e[0] + 0
        BY <1>7, <3>1
      <3>3. e[1] = 0 /\ 0 \in 0..max - 1 /\ 0 + 1 = 1
        BY <1>3, <1>4, <3>1, <3>2
      <3> QED BY <3>3
    <2>3. ASSUME NEW n \in 1..max - 1 PROVE e2[n] = e2[n - 1] + timers'[n].jiffies
      <3>1. n + 1 \in 1..max /\ (n + 1) - 1 = n /\ n \in 0..max - 1 /\ n - 1 \in 0..max - 1 /\ (n - 1) + 1 = n
        BY <1>3
      <3>2. e[n + 1] = e[(n + 1) - 1] + timers[n + 1].jiffies
        BY <1>1, <3>1 DEF IsElapsed
      <3> QED BY <1>5, <3>1, <3>2
    <2> HIDE DEF e2
    <2> QED BY <1>5, <2>1, <2>2, <2>3 DEF IsElapsed
  <1>13. ASSUME NEW n \in 1..max - 1, timers'[n].fn \notin heldUp'
         PROVE  left'[timers'[n].fn] >= e2[n]
    <2>1. timers'[n] = timers[n + 1] /\ n + 1 \in 1..max /\ timers[n + 1].fn # g /\ timers[n + 1].fn \notin heldUp
      BY <1>2, <1>5, <1>6, <1>13
    <2>2. left'[timers[n + 1].fn] = left[timers[n + 1].fn] /\ left[timers[n + 1].fn] >= e[n + 1]
      BY <1>1, <1>2, <1>3, <2>1 DEF TimersInv
    <2>3. n \in 0..max - 1
      BY <1>3
    <2> QED BY <2>1, <2>2, <2>3
  <1> HIDE DEF e2
  <1> QED BY <1>5, <1>8, <1>9, <1>10, <1>11, <1>12, <1>13 DEF TimersInv

LEMMA NextTimers ==
  ASSUME TimersAssumption, TimersInv, [TimersNext]_timersVars
  PROVE  TimersInv'
  <1>1. CASE UNCHANGED timersVars
    BY <1>1 DEF TimersInv, timersVars, CountsOK, IsSet, IsElapsed
  <1>2. CASE Done
    <2>1. CountsOK'
      <3>1. \A n \in 1..Len(timers) : n = 1 => timers[n].jiffies >= 1
        <4>1. ASSUME 1 \in 1..Len(timers) PROVE timers[1].jiffies >= 1
          <5>1. timers # << >> /\ timers[1].jiffies \in Int
            BY <4>1, TimersFacts
          <5> QED BY <1>2, <5>1 DEF Done, Due
        <4> QED BY <4>1
      <3> QED BY <1>2, <3>1 DEF TimersInv, CountsOK, Done
    <2> QED BY <1>2, <2>1 DEF TimersInv, Done, IsSet, IsElapsed
  <1> QED BY <1>1, <1>2, AddTimerStep, TickStep, RunFirstStep DEF TimersNext

(* Whatever timers are set, by interrupts or by the functions of others: out
   of the loop of do_timer no timer is over its time but one that a shorter
   one was set in front of. A tick never finds the first entry at 0. *)
THEOREM LateAreHeldUp == TimersAssumption => (TimersSpec => []OnlyHeldUpAreLate)
  <1> SUFFICES ASSUME TimersAssumption PROVE TimersSpec => []OnlyHeldUpAreLate
    OBVIOUS
  <1>1. TimersInit => TimersInv
    BY InitTimers
  <1>2. TimersInv /\ [TimersNext]_timersVars => TimersInv'
    BY NextTimers
  <1>3. ASSUME TimersInv PROVE OnlyHeldUpAreLate
    <2> SUFFICES ASSUME ~ticking, NEW f \in Functions, IsSet(f), left[f] <= 0 PROVE f \in heldUp
      BY DEF OnlyHeldUpAreLate
    <2>1. PICK n \in 1..Len(timers) : timers[n].fn = f
      BY <1>3 DEF TimersInv
    <2>2. PICK e : /\ IsElapsed(e, timers)
                   /\ \A m \in 1..Len(timers) : timers[m].fn \notin heldUp => left[timers[m].fn] >= e[m]
      BY <1>3 DEF TimersInv
    <2>3. 1 \in 1..Len(timers)
      BY <1>3, TimersFacts
    <2>4. e[n] \in Int /\ e[n] >= e[1] /\ e[1] = timers[1].jiffies
      BY <1>3, <2>2, FirstIsFirst
    <2>5. timers[1].jiffies >= 1 /\ timers[1].jiffies \in Int
      BY <1>3, <2>3, TimersFacts DEF TimersInv, CountsOK
    <2>6. left[f] \in Int
      BY <1>3 DEF TimersInv, IsSet
    <2> QED BY <2>1, <2>2, <2>4, <2>5, <2>6
  <1> QED BY <1>1, <1>2, <1>3, PTL DEF TimersSpec


-----------------------------------------------------------------------------
(* The floppy driver. *)

FdRequests == [drive : Drives, track : Nat, errors : Nat]
FdTimers == [fn : {"floppy_on", "transfer"}, ticks : Nat]
FdCommands == {"none", "rw", "seek", "recalibrate", "reset"}

FdRecords ==
  [queue : Seq(FdRequests), reset : BOOLEAN, recalibrate : BOOLEAN, seek : BOOLEAN,
   current_drive : Int, seek_track : Nat, current_track : Int,
   selected : BOOLEAN, do_floppy : FdCommands, timers : Seq(FdTimers),
   dor : Int, motors : SUBSET Drives, mon_timer : [Drives -> Nat], off : [Drives -> BOOLEAN],
   spin : [Drives -> Nat], sends : FdCommands]

(* What a command to the controller leaves alone. *)
SameFd(r, s) ==
  /\ r.queue = s.queue /\ r.timers = s.timers /\ r.current_drive = s.current_drive
  /\ r.selected = s.selected /\ r.dor = s.dor /\ r.motors = s.motors
  /\ r.mon_timer = s.mon_timer /\ r.spin = s.spin

(* A command has been issued, and its handler will run. *)
Issued(r) ==
  /\ r.sends # "none" /\ r.do_floppy = r.sends /\ ~r.reset
  /\ r.sends # "reset" => ~r.recalibrate

LEMMA SendsIs ==
  ASSUME NEW s \in FdRecords, NEW c \in FdCommands
  PROVE  LET r == [s EXCEPT !.sends = c] IN
         /\ r \in FdRecords /\ SameFd(r, s) /\ r.reset = s.reset /\ r.recalibrate = s.recalibrate
         /\ r.do_floppy = s.do_floppy /\ r.sends = c
  <1> DEFINE r == [s EXCEPT !.sends = c]
  <1>1. r \in FdRecords
    BY DEF FdRecords
  <1>2. SameFd(r, s) /\ r.do_floppy = s.do_floppy /\ r.sends = c
    BY DEF FdRecords, SameFd
  <1>3. r.reset = s.reset /\ r.recalibrate = s.recalibrate
    BY DEF FdRecords
  <1> QED BY <1>1, <1>2, <1>3

LEMMA ResetIs ==
  ASSUME NEW s \in FdRecords
  PROVE  /\ ResetFloppy(s) \in FdRecords /\ SameFd(ResetFloppy(s), s)
         /\ Issued(ResetFloppy(s)) /\ ResetFloppy(s).sends = "reset"
  <1> DEFINE r == ResetFloppy(s)
  <1>1. r = [s EXCEPT !.reset = FALSE, !.recalibrate = TRUE, !.do_floppy = "reset", !.sends = "reset"]
    BY DEF ResetFloppy
  <1>2. r \in FdRecords
    BY <1>1 DEF FdRecords, FdCommands
  <1>3. /\ r.reset = FALSE /\ r.recalibrate = TRUE /\ r.do_floppy = "reset" /\ r.sends = "reset"
        /\ SameFd(r, s)
    BY <1>1 DEF FdRecords, SameFd
  <1> QED BY <1>2, <1>3 DEF Issued

LEMMA RecalibrateIs ==
  ASSUME NEW s \in FdRecords, ~s.reset, NEW ok \in BOOLEAN
  PROVE  /\ RecalibrateFloppy(s, ok) \in FdRecords /\ SameFd(RecalibrateFloppy(s, ok), s)
         /\ Issued(RecalibrateFloppy(s, ok)) /\ RecalibrateFloppy(s, ok).sends \in {"reset", "recalibrate"}
  <1> DEFINE t == [s EXCEPT !.recalibrate = FALSE, !.current_track = 0, !.do_floppy = "recalibrate"]
             u == [t EXCEPT !.sends = "recalibrate"]
  <1>1. t \in FdRecords /\ SameFd(t, s) /\ t.reset = s.reset /\ t.recalibrate = FALSE /\ t.do_floppy = "recalibrate"
    <2>1. t \in FdRecords
      <3> DEFINE c == 0
      <3>1. c \in Int /\ "recalibrate" \in FdCommands /\ FALSE \in BOOLEAN
        BY DEF FdCommands
      <3>2. t = [s EXCEPT !.recalibrate = FALSE, !.current_track = c, !.do_floppy = "recalibrate"]
        OBVIOUS
      <3> HIDE DEF c, t
      <3> QED BY <3>1, <3>2 DEF FdRecords
    <2>2. SameFd(t, s) /\ t.recalibrate = FALSE /\ t.do_floppy = "recalibrate"
      BY DEF FdRecords, SameFd
    <2>3. t.reset = s.reset
      BY DEF FdRecords
    <2> QED BY <2>1, <2>2, <2>3
  <1>2. RecalibrateFloppy(s, ok) = IF ok THEN u ELSE ResetFloppy(t)
    BY DEF RecalibrateFloppy
  <1> HIDE DEF t
  <1>3. /\ u \in FdRecords /\ SameFd(u, t) /\ u.reset = t.reset /\ u.recalibrate = t.recalibrate
        /\ u.do_floppy = t.do_floppy /\ u.sends = "recalibrate"
    BY <1>1, SendsIs DEF FdCommands
  <1> HIDE DEF u
  <1>4. CASE ok
    BY <1>1, <1>2, <1>3, <1>4 DEF Issued, SameFd
  <1>5. CASE ~ok
    <2>1. SameFd(ResetFloppy(t), s)
      BY <1>1, ResetIs DEF SameFd
    <2> QED BY <1>1, <1>2, <1>5, <2>1, ResetIs
  <1> QED BY <1>4, <1>5

(* A motor is up when its timer is over. *)
SpinOK(s) == \A d \in Drives : s.spin[d] <= s.mon_timer[d]

LEMMA TicksIs ==
  ASSUME FloppyAssumption, NEW s \in FdRecords, NEW d \in Drives
  PROVE  LET r == TicksToFloppyOn(s, d) IN
         /\ r \in FdRecords /\ r.queue = s.queue /\ r.timers = s.timers /\ r.reset = s.reset
         /\ r.recalibrate = s.recalibrate /\ r.selected = s.selected /\ r.do_floppy = s.do_floppy
         /\ r.sends = s.sends /\ r.current_drive = s.current_drive
         /\ r.dor = (IF s.selected THEN s.dor ELSE d) /\ r.motors = s.motors \cup {d}
         /\ SpinOK(s) => SpinOK(r)
         /\ \A c \in s.motors : r.spin[c] = s.spin[c]
  <1> DEFINE dor == IF s.selected THEN s.dor ELSE d
             sp == IF d \in s.motors THEN s.spin[d] ELSE UpTicks
             mon == IF d \notin s.motors THEN UpTicks
                    ELSE IF dor # s.dor /\ s.mon_timer[d] < SelectTicks THEN SelectTicks ELSE s.mon_timer[d]
             r == TicksToFloppyOn(s, d)
  <1>1. /\ s.mon_timer \in [Drives -> Nat] /\ s.spin \in [Drives -> Nat] /\ s.off \in [Drives -> BOOLEAN]
        /\ s.motors \subseteq Drives /\ s.dor \in Int /\ Drives \subseteq Int /\ UpTicks \in Nat /\ SelectTicks \in Nat
    BY DEF FdRecords, FloppyAssumption
  <1>2. sp \in Nat /\ mon \in Nat /\ dor \in Int
    BY <1>1
  <1>3. s.spin[d] <= s.mon_timer[d] => sp <= mon
    BY <1>1
  <1>4. d \in s.motors => sp = s.spin[d]
    OBVIOUS
  <1>5. r = [s EXCEPT !.off[d] = FALSE, !.dor = dor, !.motors = @ \cup {d}, !.spin[d] = sp, !.mon_timer[d] = mon]
    BY DEF TicksToFloppyOn
  <1> HIDE DEF dor, sp, mon, r
  <1>6. r = [s EXCEPT !.off = [s.off EXCEPT ![d] = FALSE], !.dor = dor, !.motors = s.motors \cup {d},
                      !.spin = [s.spin EXCEPT ![d] = sp], !.mon_timer = [s.mon_timer EXCEPT ![d] = mon]]
    BY <1>5
  <1> DEFINE o == [s.off EXCEPT ![d] = FALSE]
             m == [s.mon_timer EXCEPT ![d] = mon]
             p == [s.spin EXCEPT ![d] = sp]
  <1>7. /\ o \in [Drives -> BOOLEAN] /\ m \in [Drives -> Nat] /\ p \in [Drives -> Nat]
        /\ \A c \in Drives : c # d => m[c] = s.mon_timer[c] /\ p[c] = s.spin[c]
        /\ m[d] = mon /\ p[d] = sp
    BY <1>1, <1>2
  <1>8. r = [s EXCEPT !.off = o, !.dor = dor, !.motors = s.motors \cup {d}, !.spin = p, !.mon_timer = m]
    BY <1>6
  <1> HIDE DEF o, m, p
  <1>9. r \in FdRecords
    BY <1>1, <1>2, <1>7, <1>8 DEF FdRecords
  <1>10. /\ r.queue = s.queue /\ r.timers = s.timers /\ r.reset = s.reset
         /\ r.recalibrate = s.recalibrate /\ r.selected = s.selected /\ r.do_floppy = s.do_floppy
         /\ r.sends = s.sends /\ r.current_drive = s.current_drive
         /\ r.dor = dor /\ r.motors = s.motors \cup {d} /\ r.spin = p /\ r.mon_timer = m
    BY <1>8 DEF FdRecords
  <1>11. SpinOK(s) => SpinOK(r)
    BY <1>3, <1>7, <1>10 DEF SpinOK
  <1>12. \A c \in s.motors : r.spin[c] = s.spin[c]
    BY <1>1, <1>4, <1>7, <1>10
  <1> QED BY <1>9, <1>10, <1>11, <1>12 DEF r, dor

LEMMA AddFdTimerIs ==
  ASSUME NEW s \in FdRecords, NEW fn \in {"floppy_on", "transfer"}, NEW ticks \in Nat
  PROVE  LET r == AddFdTimer(s, fn, ticks) IN
         /\ r \in FdRecords /\ r.timers = Append(s.timers, [fn |-> fn, ticks |-> ticks]) /\ r.timers # << >>
         /\ r.queue = s.queue /\ r.reset = s.reset /\ r.recalibrate = s.recalibrate /\ r.selected = s.selected
         /\ r.do_floppy = s.do_floppy /\ r.sends = s.sends /\ r.current_drive = s.current_drive
         /\ r.dor = s.dor /\ r.motors = s.motors /\ r.spin = s.spin /\ r.mon_timer = s.mon_timer
  <1> DEFINE e == [fn |-> fn, ticks |-> ticks]
             l == Append(s.timers, e)
             r == AddFdTimer(s, fn, ticks)
  <1>1. e \in FdTimers /\ s.timers \in Seq(FdTimers)
    BY DEF FdTimers, FdRecords
  <1>2. r = [s EXCEPT !.timers = l]
    BY DEF AddFdTimer
  <1>3. l \in Seq(FdTimers) /\ l # << >>
    <2> HIDE DEF e
    <2> QED BY <1>1
  <1> HIDE DEF l, e, r
  <1>4. r \in FdRecords
    BY <1>2, <1>3 DEF FdRecords
  <1>5. /\ r.timers = l /\ r.queue = s.queue /\ r.reset = s.reset /\ r.recalibrate = s.recalibrate
        /\ r.selected = s.selected /\ r.do_floppy = s.do_floppy /\ r.sends = s.sends
        /\ r.current_drive = s.current_drive /\ r.dor = s.dor /\ r.motors = s.motors
        /\ r.spin = s.spin /\ r.mon_timer = s.mon_timer
    BY <1>2 DEF FdRecords
  <1> QED BY <1>3, <1>4, <1>5 DEF l, e, r

LEMMA HeadIs ==
  ASSUME NEW s \in FdRecords, s.queue # << >>
  PROVE  Head(s.queue) \in FdRequests /\ Head(s.queue).drive \in Drives /\ Head(s.queue).track \in Nat
         /\ Head(s.queue).errors \in Nat /\ Head(s.queue) = s.queue[1] /\ Tail(s.queue) \in Seq(FdRequests)
  <1>1. s.queue \in Seq(FdRequests)
    BY DEF FdRecords
  <1>2. Head(s.queue) \in FdRequests /\ Head(s.queue) = s.queue[1] /\ Tail(s.queue) \in Seq(FdRequests)
    BY <1>1
  <1> QED BY <1>2 DEF FdRequests

(* do_fd_request for the first in the list: the drive is the current one, its
   motor is on, and the timer runs until it is up. *)
Requested(r, s) ==
  /\ r.queue # << >>
  /\ r.current_drive = Head(r.queue).drive /\ r.current_drive \in r.motors
  /\ r.reset = s.reset /\ r.recalibrate = s.recalibrate /\ r.do_floppy = s.do_floppy /\ r.sends = s.sends
  /\ SpinOK(s) => SpinOK(r)
  /\ r.timers = Append(s.timers, [fn |-> "floppy_on", ticks |-> r.mon_timer[r.current_drive]])
  /\ r.timers # << >>

LEMMA FromQueueIs ==
  ASSUME FloppyAssumption, NEW s \in FdRecords, s.queue # << >>
  PROVE  FromQueue(s) \in FdRecords /\ Requested(FromQueue(s), s)
  <1> DEFINE q == Head(s.queue)
             moves == s.seek \/ q.drive # s.current_drive \/ q.track # s.current_track
             u == [s EXCEPT !.seek = moves, !.current_drive = q.drive, !.seek_track = q.track]
             t == TicksToFloppyOn(u, q.drive)
             r == AddFdTimer(t, "floppy_on", t.mon_timer[q.drive])
  <1>1. q.drive \in Drives /\ q.track \in Nat /\ Drives \subseteq Int /\ moves \in BOOLEAN
    BY HeadIs DEF FloppyAssumption, FdRecords
  <1>2. FromQueue(s) = r
    BY DEF FromQueue
  <1> HIDE DEF moves
  <1>3. u \in FdRecords
    <2> HIDE DEF q
    <2> QED BY <1>1 DEF FdRecords
  <1>4. /\ u.queue = s.queue /\ u.timers = s.timers /\ u.reset = s.reset /\ u.recalibrate = s.recalibrate
        /\ u.do_floppy = s.do_floppy /\ u.sends = s.sends /\ u.current_drive = q.drive
        /\ u.spin = s.spin /\ u.mon_timer = s.mon_timer
    <2> HIDE DEF q
    <2> QED BY <1>1 DEF FdRecords
  <1>5. SpinOK(s) => SpinOK(u)
    BY <1>4 DEF SpinOK
  <1> HIDE DEF u
  <1>6. /\ t \in FdRecords /\ t.queue = u.queue /\ t.timers = u.timers /\ t.reset = u.reset
        /\ t.recalibrate = u.recalibrate /\ t.do_floppy = u.do_floppy
        /\ t.sends = u.sends /\ t.current_drive = u.current_drive
        /\ t.motors = u.motors \cup {q.drive}
        /\ SpinOK(u) => SpinOK(t)
    BY <1>1, <1>3, TicksIs
  <1> HIDE DEF t
  <1>7. t.mon_timer[q.drive] \in Nat
    <2>1. t.mon_timer \in [Drives -> Nat]
      BY <1>6 DEF FdRecords
    <2> QED BY <1>1, <2>1
  <1>8. /\ r \in FdRecords /\ r.timers = Append(t.timers, [fn |-> "floppy_on", ticks |-> t.mon_timer[q.drive]])
        /\ r.timers # << >>
        /\ r.queue = t.queue /\ r.reset = t.reset /\ r.recalibrate = t.recalibrate
        /\ r.do_floppy = t.do_floppy /\ r.sends = t.sends /\ r.current_drive = t.current_drive
        /\ r.motors = t.motors /\ r.spin = t.spin /\ r.mon_timer = t.mon_timer
    BY <1>6, <1>7, AddFdTimerIs
  <1> HIDE DEF r
  <1>9. SpinOK(t) => SpinOK(r)
    BY <1>8 DEF SpinOK
  <1> HIDE DEF q
  <1>10. r.current_drive = q.drive /\ r.queue = s.queue /\ r.queue # << >> /\ r.current_drive \in r.motors
    BY <1>4, <1>6, <1>8
  <1>11. r.timers = Append(s.timers, [fn |-> "floppy_on", ticks |-> r.mon_timer[r.current_drive]])
    BY <1>4, <1>6, <1>8, <1>10
  <1> QED BY <1>2, <1>4, <1>5, <1>6, <1>8, <1>9, <1>10, <1>11 DEF Requested, q

(* What do_fd_request finds when no reset is due: other requests, perhaps. *)
Shortened(u, s) ==
  /\ u \in FdRecords /\ u.timers = s.timers /\ u.reset = s.reset /\ u.recalibrate = s.recalibrate
  /\ u.do_floppy = s.do_floppy /\ u.sends = s.sends /\ u.spin = s.spin /\ u.mon_timer = s.mon_timer

LEMMA EndOutOfRangeIs ==
  ASSUME FloppyAssumption, NEW s \in FdRecords
  PROVE  Shortened(EndOutOfRange(s), s)
  <1> DEFINE q == s.queue
             I == {i \in DOMAIN q : \A j \in 1..i : PastEnd(q[j])}
             n == Cardinality(I)
             drives == <<s.current_drive>> \o [i \in 1..n |-> q[i].drive]
             rest == SubSeq(q, n + 1, Len(q))
             moves == \E i \in 1..n : drives[i] # drives[i + 1]
             offs == [d \in Drives |-> s.off[d] \/ \E i \in 1..n : q[i].drive = d]
             u == [s EXCEPT !.queue = rest, !.current_drive = drives[n + 1], !.seek = moves, !.off = offs]
  <1>1. q \in Seq(FdRequests) /\ Len(q) \in Nat /\ DOMAIN q = 1..Len(q) /\ s.current_drive \in Int
    BY DEF FdRecords
  <1>2. n \in Nat /\ n <= Len(q)
    <2> DEFINE l == Len(q)
    <2>1. l \in Nat /\ I \subseteq 1..l
      BY <1>1
    <2>2. n = Cardinality(I)
      OBVIOUS
    <2> HIDE DEF I, l, n
    <2>3. IsFiniteSet(1..l) /\ Cardinality(1..l) = l
      BY <2>1, FS_Interval
    <2>4. IsFiniteSet(I) /\ Cardinality(I) <= Cardinality(1..l)
      BY <2>1, <2>3, FS_Subset
    <2>5. Cardinality(I) \in Nat
      BY <2>4, FS_CardinalityType
    <2>6. n \in Nat /\ n <= l
      BY <2>2, <2>3, <2>4, <2>5
    <2> QED BY <2>6 DEF l
  <1> HIDE DEF n
  <1>3. rest \in Seq(FdRequests)
    BY <1>1, <1>2
  <1>4. drives[n + 1] \in Int
    <2>1. Drives \subseteq Int
      BY DEF FloppyAssumption
    <2>2. ASSUME NEW i \in 1..n PROVE q[i].drive \in Int
      <3> HIDE DEF q
      <3>1. i \in 1..Len(q)
        BY <1>1, <1>2
      <3>2. q[i] \in FdRequests
        BY <1>1, <3>1
      <3>3. q[i].drive \in Drives
        BY <3>2 DEF FdRequests
      <3> QED BY <2>1, <3>3, Zenon
    <2>3. \A i \in 1..n : q[i].drive \in Int
      BY <2>2
    <2> DEFINE e == [i \in 1..n |-> q[i].drive]
    <2>4. e \in Seq(Int) /\ Len(e) = n
      BY <1>2, <2>3
    <2> HIDE DEF e
    <2>5. <<s.current_drive>> \in Seq(Int) /\ Len(<<s.current_drive>>) = 1
      BY <1>1
    <2> DEFINE f == <<s.current_drive>>
    <2> HIDE DEF f
    <2>6. f \in Seq(Int) /\ Len(f) = 1
      BY <2>5 DEF f
    <2>7. (<<s.current_drive>> \o e) \in Seq(Int) /\ Len(<<s.current_drive>> \o e) = n + 1
      BY <1>2, <2>4, <2>6 DEF f
    <2>8. (<<s.current_drive>> \o e)[n + 1] \in Int
      BY <1>2, <2>7
    <2> QED BY <2>8 DEF e
  <1>5. moves \in BOOLEAN /\ offs \in [Drives -> BOOLEAN]
    <2>1. \A d \in Drives : s.off[d] \in BOOLEAN
      BY DEF FdRecords
    <2> QED BY <2>1
  <1>6. EndOutOfRange(s) = u
    BY DEF EndOutOfRange, n
  <1> HIDE DEF rest, moves, offs, drives
  <1>7. u \in FdRecords
    BY <1>3, <1>4, <1>5 DEF FdRecords
  <1>8. /\ u.timers = s.timers /\ u.reset = s.reset /\ u.recalibrate = s.recalibrate
        /\ u.do_floppy = s.do_floppy /\ u.sends = s.sends /\ u.spin = s.spin /\ u.mon_timer = s.mon_timer
    BY DEF FdRecords
  <1> HIDE DEF u
  <1> QED BY <1>6, <1>7, <1>8 DEF Shortened

(* No seek is due yet. *)
LEMMA NoSeekIs ==
  ASSUME NEW s \in FdRecords
  PROVE  LET t == [s EXCEPT !.seek = FALSE] IN
         /\ t \in FdRecords /\ SameFd(t, s) /\ t.reset = s.reset /\ t.recalibrate = s.recalibrate
         /\ t.do_floppy = s.do_floppy /\ t.sends = s.sends
  <1> DEFINE t == [s EXCEPT !.seek = FALSE]
  <1>1. t \in FdRecords
    BY DEF FdRecords
  <1>2. SameFd(t, s) /\ t.do_floppy = s.do_floppy /\ t.sends = s.sends
    BY DEF FdRecords, SameFd
  <1>3. t.reset = s.reset /\ t.recalibrate = s.recalibrate
    BY DEF FdRecords
  <1> QED BY <1>1, <1>2, <1>3

(* The list is empty, and the driver rests. *)
Rests(r, s) ==
  /\ r.queue = << >> /\ r.timers = s.timers /\ r.do_floppy = "none" /\ r.sends = s.sends
  /\ ~r.reset /\ ~r.recalibrate
  /\ SpinOK(s) => SpinOK(r)

(* do_fd_request issues a command, has nothing to do, or waits for the motor. *)
LEMMA DoFdRequestIs ==
  ASSUME FloppyAssumption, NEW s \in FdRecords, NEW ok \in BOOLEAN
  PROVE  LET r == DoFdRequest(s, ok) IN
         /\ r \in FdRecords
         /\ \/ Issued(r) /\ SameFd(r, s) /\ (s.reset \/ s.recalibrate) /\ r.sends \in {"reset", "recalibrate"}
            \/ Rests(r, s) /\ ~s.reset /\ ~s.recalibrate
            \/ Requested(r, s) /\ ~s.reset /\ ~s.recalibrate
  <1> DEFINE r == DoFdRequest(s, ok)
             t == [s EXCEPT !.seek = FALSE]
             u == EndOutOfRange(t)
             x == [u EXCEPT !.do_floppy = "none"]
  <1>1. /\ t \in FdRecords /\ SameFd(t, s) /\ t.reset = s.reset /\ t.recalibrate = s.recalibrate
        /\ t.do_floppy = s.do_floppy /\ t.sends = s.sends
    BY NoSeekIs
  <1>2. r = IF s.reset THEN ResetFloppy(t)
            ELSE IF s.recalibrate THEN RecalibrateFloppy(t, ok)
            ELSE IF u.queue = << >> THEN x
            ELSE FromQueue(u)
    BY DEF DoFdRequest
  <1> HIDE DEF t, r
  <1>3. Shortened(u, t)
    BY <1>1, EndOutOfRangeIs
  <1> HIDE DEF u
  <1>4. CASE s.reset
    <2>1. r = ResetFloppy(t)
      BY <1>2, <1>4
    <2>2. r \in FdRecords /\ SameFd(r, t) /\ Issued(r) /\ r.sends = "reset"
      BY <1>1, <2>1, ResetIs
    <2>3. SameFd(r, s)
      BY <1>1, <2>2 DEF SameFd
    <2> QED BY <1>4, <2>2, <2>3 DEF r
  <1>5. CASE ~s.reset /\ s.recalibrate
    <2>1. r = RecalibrateFloppy(t, ok)
      BY <1>2, <1>5
    <2>2. r \in FdRecords /\ SameFd(r, t) /\ Issued(r) /\ r.sends \in {"reset", "recalibrate"}
      BY <1>1, <1>5, <2>1, RecalibrateIs
    <2>3. SameFd(r, s)
      BY <1>1, <2>2 DEF SameFd
    <2> QED BY <1>5, <2>2, <2>3 DEF r
  <1>6. CASE ~s.reset /\ ~s.recalibrate /\ u.queue = << >>
    <2>1. r = x
      BY <1>2, <1>6
    <2>2. u \in FdRecords
      BY <1>3 DEF Shortened
    <2>3. x \in FdRecords /\ x.do_floppy = "none"
      BY <2>2 DEF FdRecords, FdCommands
    <2>4. /\ x.queue = u.queue /\ x.timers = u.timers /\ x.sends = u.sends /\ x.reset = u.reset
          /\ x.recalibrate = u.recalibrate /\ x.spin = u.spin /\ x.mon_timer = u.mon_timer
      BY <2>2 DEF FdRecords
    <2> HIDE DEF x
    <2>5. Rests(x, s)
      BY <1>1, <1>3, <1>6, <2>3, <2>4 DEF Rests, Shortened, SameFd, SpinOK
    <2> QED BY <1>6, <2>1, <2>3, <2>5 DEF r
  <1>7. CASE ~s.reset /\ ~s.recalibrate /\ u.queue # << >>
    <2>1. r = FromQueue(u)
      BY <1>2, <1>7
    <2>2. r \in FdRecords /\ Requested(r, u)
      BY <1>3, <1>7, <2>1, FromQueueIs DEF Shortened
    <2>3. SpinOK(s) => SpinOK(u)
      BY <1>1, <1>3 DEF SpinOK, Shortened, SameFd
    <2>4. Requested(r, s)
      BY <1>1, <1>3, <2>2, <2>3 DEF Requested, Shortened, SameFd
    <2> QED BY <1>7, <2>2, <2>4 DEF r
  <1> QED BY <1>4, <1>5, <1>6, <1>7

(* Everything is set up for the transfer. *)
OnDrive(s) == s.queue # << >> /\ s.current_drive = Head(s.queue).drive /\ s.current_drive \in s.motors
IsReady(s) == OnDrive(s) /\ s.selected /\ s.dor = s.current_drive /\ s.spin[s.current_drive] = 0

(* setup_rw_floppy starts the transfer or a reset. *)
Started(r, s) ==
  /\ r \in FdRecords /\ SameFd(r, s) /\ r.sends # "none" /\ r.do_floppy # "none"
  /\ s.reset \/ s.recalibrate \/ Issued(r)

LEMMA SetupRwIs ==
  ASSUME FloppyAssumption, NEW s \in FdRecords, NEW ok \in BOOLEAN
  PROVE  Started(SetupRwFloppy(s, ok), s)
  <1> DEFINE t == [s EXCEPT !.do_floppy = "rw"]
             u == [t EXCEPT !.sends = "rw"]
             v == [t EXCEPT !.reset = TRUE]
             r == SetupRwFloppy(s, ok)
  <1>1. t \in FdRecords
    BY DEF FdRecords, FdCommands
  <1>2. SameFd(t, s) /\ t.do_floppy = "rw"
    BY DEF FdRecords, SameFd
  <1>3. t.reset = s.reset /\ t.recalibrate = s.recalibrate
    BY DEF FdRecords
  <1>4. r = IF ok THEN u ELSE DoFdRequest(v, ok)
    BY DEF SetupRwFloppy
  <1> HIDE DEF t
  <1>5. CASE ok
    <2>1. /\ u \in FdRecords /\ SameFd(u, t) /\ u.reset = t.reset /\ u.recalibrate = t.recalibrate
          /\ u.do_floppy = t.do_floppy /\ u.sends = "rw"
      BY <1>1, SendsIs DEF FdCommands
    <2> HIDE DEF u
    <2>2. SameFd(u, s)
      BY <1>2, <2>1 DEF SameFd
    <2>3. u.sends = "rw" /\ u.do_floppy = "rw" /\ (s.reset \/ s.recalibrate \/ Issued(u))
      BY <1>2, <1>3, <2>1 DEF Issued
    <2>4. Started(u, s)
      BY <2>1, <2>2, <2>3 DEF Started
    <2> QED BY <1>4, <1>5, <2>4
  <1>6. CASE ~ok
    <2>1. v \in FdRecords
      BY <1>1 DEF FdRecords
    <2>2. SameFd(v, t) /\ v.reset = TRUE
      BY <1>1 DEF FdRecords, SameFd
    <2> HIDE DEF v
    <2> DEFINE z == DoFdRequest(v, ok)
    <2>3. z \in FdRecords /\ Issued(z) /\ SameFd(z, v)
      BY <2>1, <2>2, DoFdRequestIs
    <2>4. SameFd(z, s)
      BY <1>2, <2>2, <2>3 DEF SameFd
    <2>5. r = z
      BY <1>4, <1>6
    <2>6. z.sends # "none" /\ z.do_floppy = z.sends
      BY <2>3 DEF Issued
    <2>7. Started(z, s)
      BY <2>3, <2>4, <2>6 DEF Started
    <2> QED BY <2>5, <2>7
  <1> QED BY <1>5, <1>6

(* transfer starts the seek, the transfer, or what is left to do before. *)
LEMMA TransferIs ==
  ASSUME FloppyAssumption, NEW s \in FdRecords, NEW ok \in BOOLEAN
  PROVE  Started(Transfer(s, ok), s)
  <1> DEFINE r == Transfer(s, ok)
             t == [s EXCEPT !.do_floppy = "seek"]
             u == [t EXCEPT !.sends = "seek"]
             v == [t EXCEPT !.reset = TRUE]
  <1>1. t \in FdRecords
    BY DEF FdRecords, FdCommands
  <1>2. SameFd(t, s) /\ t.do_floppy = "seek"
    BY DEF FdRecords, SameFd
  <1>3. t.reset = s.reset /\ t.recalibrate = s.recalibrate
    BY DEF FdRecords
  <1>4. CASE s.reset
    <2>1. r = DoFdRequest(s, ok)
      BY <1>4 DEF Transfer
    <2> DEFINE z == DoFdRequest(s, ok)
    <2>2. z \in FdRecords /\ Issued(z) /\ SameFd(z, s)
      BY <1>4, DoFdRequestIs
    <2> HIDE DEF z
    <2>3. z.sends # "none" /\ Issued(z) /\ z \in FdRecords /\ SameFd(z, s) /\ z.do_floppy = z.sends
      BY <2>2 DEF Issued
    <2>4. Started(z, s)
      BY <2>3 DEF Started
    <2> QED BY <2>1, <2>4 DEF z
  <1>5. CASE ~s.reset /\ ~s.seek
    <2>1. r = SetupRwFloppy(s, ok)
      BY <1>5 DEF Transfer
    <2> QED BY <2>1, SetupRwIs
  <1>6. CASE ~s.reset /\ s.seek /\ ok
    <2>1. [s EXCEPT !.do_floppy = "seek", !.sends = "seek"] = u
      BY DEF FdRecords
    <2>2. r = u
      BY <1>6, <2>1 DEF Transfer
    <2> HIDE DEF t
    <2>3. /\ u \in FdRecords /\ SameFd(u, t) /\ u.reset = t.reset /\ u.recalibrate = t.recalibrate
          /\ u.do_floppy = t.do_floppy /\ u.sends = "seek"
      BY <1>1, SendsIs DEF FdCommands
    <2> HIDE DEF u
    <2>4. SameFd(u, s)
      BY <1>2, <2>3 DEF SameFd
    <2>5. u.sends = "seek" /\ u.do_floppy = "seek" /\ (s.reset \/ s.recalibrate \/ Issued(u))
      BY <1>2, <1>3, <2>3 DEF Issued
    <2>6. Started(u, s)
      BY <2>3, <2>4, <2>5 DEF Started
    <2> QED BY <2>2, <2>6
  <1>7. CASE ~s.reset /\ s.seek /\ ~ok
    <2>1. [s EXCEPT !.do_floppy = "seek", !.reset = TRUE] = v
      BY DEF FdRecords
    <2>2. r = DoFdRequest(v, ok)
      BY <1>7, <2>1 DEF Transfer
    <2> HIDE DEF t
    <2>3. v \in FdRecords
      BY <1>1 DEF FdRecords
    <2>4. SameFd(v, t) /\ v.reset = TRUE
      BY <1>1 DEF FdRecords, SameFd
    <2> HIDE DEF v
    <2> DEFINE z == DoFdRequest(v, ok)
    <2>5. r = z
      BY <2>2
    <2>6. z \in FdRecords /\ Issued(z) /\ SameFd(z, v)
      BY <2>3, <2>4, DoFdRequestIs
    <2>7. SameFd(z, s)
      BY <1>2, <2>4, <2>6 DEF SameFd
    <2>8. z.sends # "none" /\ Issued(z) /\ z \in FdRecords /\ z.do_floppy = z.sends
      BY <2>6 DEF Issued
    <2> HIDE DEF z
    <2>9. Started(z, s)
      BY <2>7, <2>8 DEF Started
    <2> QED BY <2>5, <2>9
  <1> QED BY <1>4, <1>5, <1>6, <1>7

(* floppy_on_interrupt selects the drive, and waits if it was not. *)
IsOn(r, s) ==
  /\ r \in FdRecords
  /\ r.queue = s.queue /\ r.current_drive = s.current_drive /\ r.motors = s.motors
  /\ r.spin = s.spin /\ r.mon_timer = s.mon_timer /\ r.selected
  /\ r.dor = s.current_drive
  /\ \/ r.sends # "none" /\ r.do_floppy # "none" /\ r.timers = s.timers
        /\ (s.reset \/ s.recalibrate \/ Issued(r))
     \/ /\ r.sends = s.sends /\ r.do_floppy = s.do_floppy /\ r.timers # << >>
        /\ r.timers = Append(s.timers, [fn |-> "transfer", ticks |-> SelectTicks])
        /\ r.reset = s.reset /\ r.recalibrate = s.recalibrate

LEMMA FloppyOnIs ==
  ASSUME FloppyAssumption, NEW s \in FdRecords, NEW ok \in BOOLEAN
  PROVE  IsOn(FloppyOnInterrupt(s, ok), s)
  <1> DEFINE r == FloppyOnInterrupt(s, ok)
             t == [s EXCEPT !.selected = TRUE]
             u == [t EXCEPT !.dor = s.current_drive]
  <1>1. t \in FdRecords
    BY DEF FdRecords
  <1>2. /\ t.queue = s.queue /\ t.current_drive = s.current_drive /\ t.motors = s.motors
        /\ t.spin = s.spin /\ t.mon_timer = s.mon_timer /\ t.selected = TRUE /\ t.dor = s.dor
        /\ t.timers = s.timers /\ t.sends = s.sends /\ t.do_floppy = s.do_floppy
    BY DEF FdRecords
  <1>3. t.reset = s.reset /\ t.recalibrate = s.recalibrate
    BY DEF FdRecords
  <1>4. r = IF s.current_drive # s.dor THEN AddFdTimer(u, "transfer", SelectTicks) ELSE Transfer(t, ok)
    BY DEF FloppyOnInterrupt
  <1> HIDE DEF t
  <1>5. CASE s.current_drive # s.dor
    <2>1. s.current_drive \in Int /\ SelectTicks \in Nat
      BY DEF FdRecords, FloppyAssumption
    <2>2. u \in FdRecords
      BY <1>1, <2>1 DEF FdRecords
    <2>3. /\ u.queue = t.queue /\ u.current_drive = t.current_drive /\ u.motors = t.motors
          /\ u.spin = t.spin /\ u.mon_timer = t.mon_timer /\ u.dor = s.current_drive
          /\ u.timers = t.timers /\ u.sends = t.sends /\ u.do_floppy = t.do_floppy
      BY <1>1 DEF FdRecords
    <2>4. u.reset = t.reset /\ u.recalibrate = t.recalibrate /\ u.selected = t.selected
      BY <1>1 DEF FdRecords
    <2>5. r = AddFdTimer(u, "transfer", SelectTicks)
      BY <1>4, <1>5
    <2> HIDE DEF u, r
    <2>6. /\ r \in FdRecords /\ r.timers = Append(u.timers, [fn |-> "transfer", ticks |-> SelectTicks]) /\ r.timers # << >>
          /\ r.queue = u.queue /\ r.reset = u.reset /\ r.recalibrate = u.recalibrate /\ r.selected = u.selected
          /\ r.do_floppy = u.do_floppy /\ r.sends = u.sends /\ r.current_drive = u.current_drive
          /\ r.dor = u.dor /\ r.motors = u.motors /\ r.spin = u.spin /\ r.mon_timer = u.mon_timer
      BY <2>1, <2>2, <2>5, AddFdTimerIs
    <2>7. IsOn(r, s)
      BY <1>2, <1>3, <2>3, <2>4, <2>6 DEF IsOn
    <2> QED BY <2>7 DEF r
  <1>6. CASE s.current_drive = s.dor
    <2>1. r = Transfer(t, ok)
      BY <1>4, <1>6
    <2>2. Started(r, t)
      BY <1>1, <2>1, TransferIs
    <2> HIDE DEF r
    <2>3. IsOn(r, s)
      BY <1>2, <1>3, <1>6, <2>2 DEF SameFd, Started, IsOn
    <2> QED BY <2>3 DEF r
  <1> QED BY <1>5, <1>6

(* The ends of a transfer. *)
LEMMA EndRequestIs ==
  ASSUME NEW s \in FdRecords, s.queue # << >>
  PROVE  LET r == EndFloppyRequest(s) IN
         /\ r \in FdRecords /\ r.queue = Tail(s.queue) /\ r.timers = s.timers /\ r.do_floppy = s.do_floppy
         /\ r.sends = s.sends /\ r.spin = s.spin /\ r.mon_timer = s.mon_timer
         /\ r.reset = s.reset /\ r.recalibrate = s.recalibrate
  <1> DEFINE d == Head(s.queue).drive
             q == Tail(s.queue)
             o == [s.off EXCEPT ![d] = TRUE]
             r == EndFloppyRequest(s)
  <1>1. q \in Seq(FdRequests) /\ d \in Drives /\ s.off \in [Drives -> BOOLEAN]
    BY HeadIs DEF FdRecords
  <1>2. r = [s EXCEPT !.queue = q, !.off = o]
    BY DEF EndFloppyRequest
  <1>3. o \in [Drives -> BOOLEAN]
    BY <1>1
  <1> HIDE DEF o, q, d, r
  <1>4. r \in FdRecords
    BY <1>1, <1>2, <1>3 DEF FdRecords
  <1>5. /\ r.queue = q /\ r.timers = s.timers /\ r.do_floppy = s.do_floppy
        /\ r.sends = s.sends /\ r.spin = s.spin /\ r.mon_timer = s.mon_timer
    BY <1>2 DEF FdRecords
  <1>6. r.reset = s.reset /\ r.recalibrate = s.recalibrate
    BY <1>2 DEF FdRecords
  <1> QED BY <1>4, <1>5, <1>6 DEF q, r

(* What the end of a request leaves alone. *)
Keeps(r, s) ==
  /\ r \in FdRecords /\ r.timers = s.timers /\ r.do_floppy = s.do_floppy /\ r.sends = s.sends
  /\ r.spin = s.spin /\ r.mon_timer = s.mon_timer

LEMMA GoodIs ==
  ASSUME NEW s \in FdRecords, s.queue # << >>
  PROVE  LET r == EndFloppyRequest(FloppyDeselect(s)) IN
         /\ Keeps(r, s) /\ r.reset = s.reset /\ r.recalibrate = s.recalibrate /\ r.queue = Tail(s.queue)
  <1> DEFINE t == FloppyDeselect(s)
             r == EndFloppyRequest(t)
  <1>1. t \in FdRecords
    BY DEF FdRecords, FloppyDeselect
  <1>2. /\ t.queue = s.queue /\ t.timers = s.timers /\ t.do_floppy = s.do_floppy /\ t.sends = s.sends
        /\ t.spin = s.spin /\ t.mon_timer = s.mon_timer
    BY DEF FdRecords, FloppyDeselect
  <1>3. t.reset = s.reset /\ t.recalibrate = s.recalibrate
    BY DEF FdRecords, FloppyDeselect
  <1> HIDE DEF t
  <1>4. /\ r \in FdRecords /\ r.timers = t.timers /\ r.do_floppy = t.do_floppy
        /\ r.sends = t.sends /\ r.spin = t.spin /\ r.mon_timer = t.mon_timer
        /\ r.reset = t.reset /\ r.recalibrate = t.recalibrate /\ r.queue = Tail(t.queue)
    BY <1>1, <1>2, EndRequestIs
  <1> HIDE DEF r
  <1>5. Keeps(r, s)
    BY <1>2, <1>4 DEF Keeps
  <1> QED BY <1>2, <1>3, <1>4, <1>5 DEF r, t

LEMMA BadIs ==
  ASSUME FloppyAssumption, NEW s \in FdRecords, s.queue # << >>
  PROVE  LET r == BadFlpIntr(s) IN
         /\ Keeps(r, s)
         /\ Len(s.queue) # 1 \/ ~(Head(s.queue).errors >= FD_ERRORS) => r.queue # << >>
  <1> DEFINE errors == Head(s.queue).errors + 1
             q == [s.queue EXCEPT ![1].errors = @ + 1]
             t == [s EXCEPT !.queue = q]
             many == Head(q).errors > FD_ERRORS
             u == IF many THEN EndFloppyRequest(FloppyDeselect(t)) ELSE t
             r == BadFlpIntr(s)
  <1>1. s.queue \in Seq(FdRequests) /\ Head(s.queue) = s.queue[1] /\ errors \in Nat /\ Head(s.queue) \in FdRequests
    <2>1. s.queue \in Seq(FdRequests)
      BY DEF FdRecords
    <2>2. Head(s.queue).errors \in Nat /\ Head(s.queue) = s.queue[1] /\ Head(s.queue) \in FdRequests
      BY HeadIs
    <2> QED BY <2>1, <2>2
  <1>2. q \in Seq(FdRequests) /\ q # << >> /\ Len(q) = Len(s.queue) /\ Head(q).errors = errors
    <2> DEFINE e == [s.queue[1] EXCEPT !.errors = errors]
    <2>1. e \in FdRequests /\ e.errors = errors
      BY <1>1 DEF FdRequests
    <2>2. q = [s.queue EXCEPT ![1] = e]
      BY <1>1
    <2>3. 1 \in 1..Len(s.queue) /\ Len(s.queue) \in Nat
      BY <1>1
    <2> HIDE DEF e, q
    <2>4. q \in Seq(FdRequests) /\ Len(q) = Len(s.queue)
      BY <1>1, <2>1, <2>2, <2>3, ExceptSeq
    <2>5. q[1] = e
      BY <1>1, <2>2, <2>3
    <2>6. q # << >> /\ Head(q) = q[1]
      BY <2>3, <2>4
    <2> QED BY <2>1, <2>4, <2>5, <2>6
  <1>3. r = IF u.queue = << >> \/ Head(u.queue).errors > FD_ERRORS \div 2
            THEN [u EXCEPT !.reset = TRUE] ELSE [u EXCEPT !.recalibrate = TRUE]
    <2>1. t = [s EXCEPT !.queue[1].errors = @ + 1]
      OBVIOUS
    <2> QED BY <2>1 DEF BadFlpIntr, FdRecords
  <1> HIDE DEF q
  <1>4. t \in FdRecords
    BY <1>2 DEF FdRecords
  <1>5. Keeps(t, s) /\ t.queue = q
    BY <1>4 DEF FdRecords, Keeps
  <1> HIDE DEF t
  <1>6. Keeps(u, s) /\ (Len(s.queue) # 1 \/ ~(Head(s.queue).errors >= FD_ERRORS) => u.queue # << >>)
    <2>1. CASE many
      <3>1. Keeps(u, t) /\ u.queue = Tail(q)
        BY <1>2, <1>4, <1>5, <2>1, GoodIs
      <3>2. Head(s.queue).errors >= FD_ERRORS
        <4>1. Head(s.queue).errors \in Nat
          BY HeadIs
        <4> QED BY <1>2, <2>1, <4>1 DEF FloppyAssumption
      <3>3. Len(s.queue) # 1 => Tail(q) # << >>
        <4>1. Len(Tail(q)) = Len(q) - 1
          BY <1>2, HeadTailProperties
        <4>2. Len(q) \in Nat \ {0} /\ Len(<< >>) = 0
          BY <1>2, EmptySeq
        <4>3. Tail(q) = << >> => Len(Tail(q)) = Len(<< >>)
          BY Zenon
        <4> DEFINE m == Len(q)
                   n == Len(Tail(q))
        <4>4. n = 0 => m = 1
          <5>1. m \in Nat /\ n = m - 1
            BY <4>1, <4>2
          <5> HIDE DEF m, n
          <5> QED BY <5>1
        <4> HIDE DEF m, n
        <4>5. Tail(q) = << >> => n = 0
          BY <4>2, <4>3, Zenon DEF n
        <4>6. m = Len(s.queue)
          BY <1>2, Zenon DEF m
        <4> QED BY <4>4, <4>5, <4>6, Zenon
      <3> HIDE DEF u
      <3> QED BY <1>5, <3>1, <3>2, <3>3 DEF Keeps
    <2>2. CASE ~many
      BY <1>2, <1>5, <2>2
    <2> QED BY <2>1, <2>2
  <1> HIDE DEF u, errors, many
  <1> DEFINE v == [u EXCEPT !.reset = TRUE]
             w == [u EXCEPT !.recalibrate = TRUE]
  <1>7. u \in FdRecords
    BY <1>6 DEF Keeps
  <1>8. Keeps(v, u) /\ v.queue = u.queue
    BY <1>7 DEF FdRecords, Keeps
  <1>9. Keeps(w, u) /\ w.queue = u.queue
    BY <1>7 DEF FdRecords, Keeps
  <1> HIDE DEF v, w
  <1>10. r = v \/ r = w
    BY <1>3 DEF v, w
  <1> HIDE DEF r
  <1>11. Keeps(r, u) /\ r.queue = u.queue
    BY <1>8, <1>9, <1>10
  <1>12. Keeps(r, s)
    BY <1>6, <1>11 DEF Keeps
  <1> QED BY <1>6, <1>11, <1>12 DEF r

(* The interrupt handlers: each but the one for an interrupt that is not
   expected ends in do_fd_request, or a command. *)
Continues(r) == r \in FdRecords /\ (r.queue # << >> => r.timers # << >> \/ (r.sends # "none" /\ r.do_floppy # "none"))

LEMMA DoFdRequestContinues ==
  ASSUME FloppyAssumption, NEW s \in FdRecords, NEW ok \in BOOLEAN
  PROVE  Continues(DoFdRequest(s, ok))
  <1> DEFINE r == DoFdRequest(s, ok)
  <1>1. /\ r \in FdRecords
        /\ \/ Issued(r)
           \/ Rests(r, s)
           \/ Requested(r, s)
    BY DoFdRequestIs
  <1> SUFFICES Continues(r)
    OBVIOUS
  <1> HIDE DEF r
  <1>2. CASE Issued(r)
    BY <1>1, <1>2 DEF Issued, Continues
  <1>3. CASE Rests(r, s)
    BY <1>1, <1>3 DEF Rests, Continues
  <1>4. CASE Requested(r, s)
    BY <1>1, <1>4 DEF Requested, Continues
  <1> QED BY <1>1, <1>2, <1>3, <1>4

LEMMA StartedContinues ==
  ASSUME NEW r, NEW s, Started(r, s)
  PROVE  Continues(r)
  BY DEF Started, Continues

LEMMA NoneIs ==
  ASSUME NEW s \in FdRecords, NEW c \in FdCommands
  PROVE  LET r == [s EXCEPT !.do_floppy = c] IN
         /\ r \in FdRecords /\ r.do_floppy = c /\ r.queue = s.queue /\ r.timers = s.timers
         /\ SameFd(r, s) /\ r.sends = s.sends /\ r.reset = s.reset /\ r.recalibrate = s.recalibrate
  <1> DEFINE r == [s EXCEPT !.do_floppy = c]
  <1>1. r \in FdRecords
    BY DEF FdRecords
  <1>2. SameFd(r, s) /\ r.do_floppy = c /\ r.sends = s.sends
    BY DEF FdRecords, SameFd
  <1>3. r.reset = s.reset /\ r.recalibrate = s.recalibrate
    BY DEF FdRecords
  <1> QED BY <1>1, <1>2, <1>3 DEF SameFd

LEMMA FlagIs ==
  ASSUME NEW s \in FdRecords, NEW b \in BOOLEAN
  PROVE  /\ LET r == [s EXCEPT !.reset = b] IN
            r \in FdRecords /\ SameFd(r, s) /\ r.do_floppy = s.do_floppy /\ r.sends = s.sends
            /\ (r.recalibrate <=> s.recalibrate) /\ (r.reset <=> b)
         /\ LET r == [s EXCEPT !.recalibrate = b] IN
            r \in FdRecords /\ SameFd(r, s) /\ r.do_floppy = s.do_floppy /\ r.sends = s.sends
            /\ (r.reset <=> s.reset) /\ (r.recalibrate <=> b)
  <1> DEFINE r == [s EXCEPT !.reset = b]
             u == [s EXCEPT !.recalibrate = b]
  <1>1. r \in FdRecords /\ u \in FdRecords
    BY DEF FdRecords
  <1>2. SameFd(r, s) /\ r.do_floppy = s.do_floppy /\ r.sends = s.sends
    BY DEF FdRecords, SameFd
  <1>3. SameFd(u, s) /\ u.do_floppy = s.do_floppy /\ u.sends = s.sends
    BY DEF FdRecords, SameFd
  <1>4. r.recalibrate = s.recalibrate /\ r.reset = b
    BY DEF FdRecords
  <1>5. u.reset = s.reset /\ u.recalibrate = b
    BY DEF FdRecords
  <1> QED BY <1>1, <1>2, <1>3, <1>4, <1>5

LEMMA TrackIs ==
  ASSUME NEW s \in FdRecords
  PROVE  LET r == [s EXCEPT !.current_track = s.seek_track] IN
         /\ r \in FdRecords /\ SameFd(r, s) /\ r.do_floppy = s.do_floppy /\ r.sends = s.sends
         /\ r.reset = s.reset /\ r.recalibrate = s.recalibrate
  <1> DEFINE k == s.seek_track
             r == [s EXCEPT !.current_track = k]
  <1>1. k \in Int
    BY DEF FdRecords
  <1> HIDE DEF k
  <1>2. r \in FdRecords
    BY <1>1 DEF FdRecords
  <1>3. SameFd(r, s) /\ r.do_floppy = s.do_floppy /\ r.sends = s.sends
    BY DEF FdRecords, SameFd
  <1>4. r.reset = s.reset /\ r.recalibrate = s.recalibrate
    BY DEF FdRecords
  <1> QED BY <1>2, <1>3, <1>4 DEF k

LEMMA HandlerContinues ==
  ASSUME FloppyAssumption, NEW s \in FdRecords, NEW good \in BOOLEAN, NEW ok \in BOOLEAN,
         s.do_floppy # "none", s.do_floppy \in {"rw", "seek"} => s.queue # << >>
  PROVE  Continues(InterruptHandler(s, good, ok))
  <1> DEFINE t == [s EXCEPT !.do_floppy = "none"]
             r == InterruptHandler(s, good, ok)
  <1>1. t \in FdRecords /\ t.queue = s.queue
    BY NoneIs DEF FdCommands
  <1>2. s.do_floppy \in {"rw", "seek", "recalibrate", "reset"}
    BY DEF FdRecords, FdCommands
  <1> HIDE DEF t
  <1>3. CASE s.do_floppy = "rw"
    <2>1. r = RwInterrupt(t, good, ok)
      BY <1>3 DEF InterruptHandler, t
    <2> DEFINE u == IF good THEN EndFloppyRequest(FloppyDeselect(t)) ELSE BadFlpIntr(t)
    <2>2. u \in FdRecords
      BY <1>1, <1>3, GoodIs, BadIs DEF Keeps
    <2>3. r = DoFdRequest(u, ok)
      BY <2>1 DEF RwInterrupt
    <2> HIDE DEF u, r
    <2>4. Continues(r)
      BY <2>2, <2>3, DoFdRequestContinues
    <2> QED BY <2>4 DEF r
  <1>4. CASE s.do_floppy = "seek"
    <2>1. r = SeekInterrupt(t, good, ok)
      BY <1>4 DEF InterruptHandler, t
    <2>2. CASE good
      <3> DEFINE u == [t EXCEPT !.current_track = t.seek_track]
      <3>1. u \in FdRecords
        BY <1>1, TrackIs
      <3>2. r = SetupRwFloppy(u, ok)
        BY <2>1, <2>2 DEF SeekInterrupt
      <3> HIDE DEF u
      <3>3. Started(SetupRwFloppy(u, ok), u)
        BY <3>1, SetupRwIs
      <3> QED BY <3>2, <3>3, StartedContinues
    <2>3. CASE ~good
      <3>1. BadFlpIntr(t) \in FdRecords
        BY <1>1, <1>4, BadIs DEF Keeps
      <3>2. r = DoFdRequest(BadFlpIntr(t), ok)
        BY <2>1, <2>3 DEF SeekInterrupt
      <3> QED BY <3>1, <3>2, DoFdRequestContinues
    <2> QED BY <2>2, <2>3
  <1>5. CASE s.do_floppy = "recalibrate"
    <2> DEFINE u == IF good THEN [t EXCEPT !.recalibrate = FALSE] ELSE [t EXCEPT !.reset = TRUE]
    <2>1. u \in FdRecords
      BY <1>1, FlagIs
    <2>2. r = DoFdRequest(u, ok)
      BY <1>5 DEF InterruptHandler, RecalInterrupt, t
    <2> HIDE DEF u
    <2> QED BY <2>1, <2>2, DoFdRequestContinues
  <1>6. CASE s.do_floppy = "reset"
    <2>1. r = DoFdRequest(t, ok)
      BY <1>6 DEF InterruptHandler, t
    <2> QED BY <1>1, <2>1, DoFdRequestContinues
  <1> QED BY <1>2, <1>3, <1>4, <1>5, <1>6

(* The state of the driver after a handler has run. *)
FloppyTypeOK ==
  /\ fd \in FdRecords /\ fd.sends = "none" /\ asked \subseteq FdCommands \ {"none"}
  /\ change \in [Changers -> [pc : {"out", "floppy_on", "motor", "select"}, drive : Int]]
  /\ \A t \in Changers : change[t].pc # "out" => change[t].drive \in Drives

LEMMA RanIs ==
  ASSUME FloppyTypeOK, NEW r \in FdRecords, NEW done, HandlerRuns(r, done)
  PROVE  /\ FloppyTypeOK' /\ SameFd(fd', r) /\ fd'.reset = r.reset /\ fd'.recalibrate = r.recalibrate
         /\ fd'.do_floppy = r.do_floppy
         /\ asked' = IF r.sends = "none" THEN asked \ done
                     ELSE IF r.sends = "reset" THEN {"reset"} ELSE (asked \ done) \cup {r.sends}
  <1>1. fd' = [r EXCEPT !.sends = "none"] /\ change' = change
    BY DEF HandlerRuns
  <1>2. /\ fd' \in FdRecords /\ SameFd(fd', r) /\ fd'.reset = r.reset /\ fd'.recalibrate = r.recalibrate
        /\ fd'.do_floppy = r.do_floppy /\ fd'.sends = "none"
    <2>1. "none" \in FdCommands
      BY DEF FdCommands
    <2> QED BY <1>1, <2>1, SendsIs, Zenon
  <1>3. asked' = IF r.sends = "none" THEN asked \ done
                 ELSE IF r.sends = "reset" THEN {"reset"} ELSE (asked \ done) \cup {r.sends}
    BY DEF HandlerRuns
  <1>4. r.sends \in FdCommands
    BY DEF FdRecords
  <1>5. asked' \subseteq FdCommands \ {"none"}
    BY <1>3, <1>4 DEF FloppyTypeOK, FdCommands
  <1> QED BY <1>1, <1>2, <1>3, <1>5 DEF FloppyTypeOK

(* The timer that runs. *)
LEMMA DueIs ==
  ASSUME FloppyTypeOK
  PROVE  /\ DueFdTimer \in 0..Len(fd.timers) /\ Len(fd.timers) \in Nat
         /\ DueFdTimer # 0 => fd.timers[DueFdTimer].ticks = 0
         /\ DueFdTimer = 0 => \A i \in 1..Len(fd.timers) : fd.timers[i].ticks # 0
         /\ \A i \in 1..Len(fd.timers) : fd.timers[i] \in FdTimers
  <1> DEFINE I == {i \in 1..Len(fd.timers) : fd.timers[i].ticks = 0}
  <1>1. fd.timers \in Seq(FdTimers)
    BY DEF FloppyTypeOK, FdRecords
  <1>2. Len(fd.timers) \in Nat /\ \A i \in 1..Len(fd.timers) : fd.timers[i] \in FdTimers
    BY <1>1
  <1>3. DueFdTimer = IF I # {} THEN Min(I) ELSE 0
    BY DEF DueFdTimer, SelectInSeq
  <1>4. CASE I = {}
    <2>1. DueFdTimer = 0
      BY <1>3, <1>4
    <2>2. ASSUME NEW i \in 1..Len(fd.timers) PROVE fd.timers[i].ticks # 0
      BY <1>4
    <2> HIDE DEF I
    <2> QED BY <1>2, <2>1, <2>2
  <1>5. CASE I # {}
    <2>1. I \in SUBSET Nat
      OBVIOUS
    <2> DEFINE m == Min(I)
    <2>2. m = CHOOSE x \in I : \A y \in I : x <= y
      BY DEF Min
    <2>3. \E x \in I : \A y \in I : x <= y
      <3> HIDE DEF I
      <3> QED BY <1>5, <2>1, LeastOf
    <2> HIDE DEF m
    <2>4. m \in I
      BY <2>2, <2>3
    <2>5. DueFdTimer = m
      BY <1>3, <1>5 DEF m
    <2> QED BY <1>2, <2>4, <2>5
  <1> QED BY <1>4, <1>5

LEMMA RemovedIs ==
  ASSUME FloppyTypeOK, DueFdTimer # 0
  PROVE  LET r == [fd EXCEPT !.timers = RemoveAt(@, DueFdTimer)] IN
         /\ r \in FdRecords /\ r.queue = fd.queue /\ r.current_drive = fd.current_drive
         /\ r.selected = fd.selected /\ r.dor = fd.dor /\ r.motors = fd.motors
         /\ r.mon_timer = fd.mon_timer /\ r.spin = fd.spin /\ r.do_floppy = fd.do_floppy /\ r.sends = fd.sends
         /\ r.reset = fd.reset /\ r.recalibrate = fd.recalibrate
         /\ Len(fd.timers) = 1 => r.timers = << >>
  <1> DEFINE l == RemoveAt(fd.timers, DueFdTimer)
             r == [fd EXCEPT !.timers = l]
  <1>1. fd \in FdRecords /\ fd.timers \in Seq(FdTimers)
    BY DEF FloppyTypeOK, FdRecords
  <1>2. l \in Seq(FdTimers) /\ (Len(fd.timers) = 1 => l = << >>)
    <2> DEFINE a == SubSeq(fd.timers, 1, DueFdTimer - 1)
               z == SubSeq(fd.timers, DueFdTimer + 1, Len(fd.timers))
    <2>1. DueFdTimer \in 1..Len(fd.timers)
      BY DueIs
    <2>2. /\ a \in Seq(FdTimers) /\ z \in Seq(FdTimers) /\ Len(a) = DueFdTimer - 1
          /\ Len(z) = Len(fd.timers) - DueFdTimer
      BY <1>1, <2>1
    <2>3. l = a \o z
      BY DEF RemoveAt
    <2> HIDE DEF a, z, l
    <2>4. l \in Seq(FdTimers) /\ Len(l) = Len(a) + Len(z)
      BY <2>2, <2>3, ConcatProperties
    <2>5. Len(fd.timers) = 1 => Len(l) = 0
      <3>1. Len(fd.timers) \in Nat
        BY DueIs
      <3>2. Len(fd.timers) = 1 => Len(a) = 0 /\ Len(z) = 0
        BY <2>1, <2>2
      <3> QED BY <2>4, <3>2
    <2>6. Len(l) = 0 => l = << >>
      BY <2>4
    <2> QED BY <2>4, <2>5, <2>6
  <1> HIDE DEF l
  <1>3. r \in FdRecords
    BY <1>1, <1>2 DEF FdRecords
  <1>4. /\ r.queue = fd.queue /\ r.current_drive = fd.current_drive
        /\ r.dor = fd.dor /\ r.motors = fd.motors /\ r.timers = l
        /\ r.mon_timer = fd.mon_timer /\ r.spin = fd.spin /\ r.do_floppy = fd.do_floppy /\ r.sends = fd.sends
    BY <1>1 DEF FdRecords
  <1>5. r.reset = fd.reset /\ r.recalibrate = fd.recalibrate /\ r.selected = fd.selected
    BY <1>1 DEF FdRecords
  <1> QED BY <1>2, <1>3, <1>4, <1>5 DEF l

(* The driver never stalls. *)
LEMMA RanGoesOn ==
  ASSUME FloppyTypeOK, NEW r, NEW done, Continues(r), HandlerRuns(r, done)
  PROVE  FloppyTypeOK' /\ NeverStalls'
  <1>1. r \in FdRecords
    BY DEF Continues
  <1>2. /\ FloppyTypeOK' /\ fd'.queue = r.queue /\ fd'.timers = r.timers
        /\ fd'.do_floppy = r.do_floppy /\ (r.sends # "none" => asked' # {})
    BY <1>1, RanIs DEF SameFd
  <1> QED BY <1>2 DEF Continues, NeverStalls

LEMMA MadeIs ==
  ASSUME NEW s \in FdRecords, NEW d \in Drives, NEW track \in Nat
  PROVE  LET r == [s EXCEPT !.queue = Append(@, [drive |-> d, track |-> track, errors |-> 0])] IN
         /\ r \in FdRecords /\ r.queue # << >>
         /\ r.queue = Append(s.queue, [drive |-> d, track |-> track, errors |-> 0])
         /\ s.queue # << >> => Head(r.queue) = Head(s.queue)
         /\ r.timers = s.timers /\ r.current_drive = s.current_drive
         /\ r.dor = s.dor /\ r.motors = s.motors /\ r.mon_timer = s.mon_timer /\ r.spin = s.spin
         /\ r.do_floppy = s.do_floppy /\ r.sends = s.sends
         /\ r.selected = s.selected /\ r.reset = s.reset /\ r.recalibrate = s.recalibrate
  <1> DEFINE e == [drive |-> d, track |-> track, errors |-> 0]
             q == Append(s.queue, e)
             r == [s EXCEPT !.queue = q]
  <1>1. e \in FdRequests /\ s.queue \in Seq(FdRequests)
    BY DEF FdRequests, FdRecords
  <1>2. q \in Seq(FdRequests) /\ q # << >> /\ (s.queue # << >> => Head(q) = Head(s.queue))
    <2> HIDE DEF e
    <2>1. q \in Seq(FdRequests) /\ q # << >>
      BY <1>1, AppendProperties
    <2>2. Head(q) = IF s.queue = << >> THEN e ELSE Head(s.queue)
      BY <1>1, HeadTailAppend
    <2> QED BY <2>1, <2>2
  <1> HIDE DEF q
  <1>3. r \in FdRecords
    BY <1>2 DEF FdRecords
  <1>4. /\ r.queue = q /\ r.timers = s.timers /\ r.current_drive = s.current_drive
        /\ r.dor = s.dor /\ r.motors = s.motors /\ r.mon_timer = s.mon_timer /\ r.spin = s.spin
        /\ r.do_floppy = s.do_floppy /\ r.sends = s.sends
    BY DEF FdRecords
  <1>5. r.selected = s.selected /\ r.reset = s.reset /\ r.recalibrate = s.recalibrate
    BY DEF FdRecords
  <1> QED BY <1>2, <1>3, <1>4, <1>5 DEF q

LEMMA MakeRequestGoesOn ==
  ASSUME FloppyAssumption, FloppyTypeOK, NeverStalls,
         NEW d \in Drives, NEW track \in Nat, NEW ok \in BOOLEAN, MakeRequest(d, track, ok)
  PROVE  FloppyTypeOK' /\ NeverStalls'
  <1> DEFINE s == [fd EXCEPT !.queue = Append(@, [drive |-> d, track |-> track, errors |-> 0])]
             r == IF fd.queue = << >> THEN DoFdRequest(s, ok) ELSE s
  <1>1. HandlerRuns(r, {})
    BY DEF MakeRequest
  <1>2. fd \in FdRecords /\ fd.sends = "none"
    BY DEF FloppyTypeOK
  <1>3. s \in FdRecords /\ s.timers = fd.timers /\ s.do_floppy = fd.do_floppy /\ s.sends = fd.sends
    BY <1>2, MadeIs
  <1> HIDE DEF s
  <1>4. CASE fd.queue = << >>
    BY <1>1, <1>3, <1>4, DoFdRequestContinues, RanGoesOn
  <1>5. CASE fd.queue # << >>
    <2>1. HandlerRuns(s, {})
      BY <1>1, <1>5
    <2>2. /\ FloppyTypeOK' /\ SameFd(fd', s) /\ fd'.do_floppy = s.do_floppy
          /\ asked' = IF s.sends = "none" THEN asked \ {}
                      ELSE IF s.sends = "reset" THEN {"reset"} ELSE (asked \ {}) \cup {s.sends}
      BY <1>3, <2>1, RanIs
    <2>3. asked' = asked /\ fd'.timers = fd.timers /\ fd'.do_floppy = fd.do_floppy
      BY <1>2, <1>3, <2>2 DEF SameFd
    <2> QED BY <1>5, <2>2, <2>3 DEF NeverStalls
  <1> QED BY <1>4, <1>5

LEMMA InterruptGoesOn ==
  ASSUME FloppyAssumption, FloppyTypeOK, NeverStalls,
         NEW op, NEW good \in BOOLEAN, NEW ok \in BOOLEAN, FloppyInterrupt(op, good, ok)
  PROVE  FloppyTypeOK' /\ NeverStalls'
  <1> DEFINE r == InterruptHandler(fd, good, ok)
  <1>1. HandlerRuns(r, {op}) /\ (fd.do_floppy \in {"rw", "seek"} => fd.queue # << >>)
    BY DEF FloppyInterrupt
  <1>2. fd \in FdRecords /\ fd.sends = "none"
    BY DEF FloppyTypeOK
  <1>3. CASE fd.do_floppy # "none"
    BY <1>1, <1>2, <1>3, HandlerContinues, RanGoesOn
  <1>4. CASE fd.do_floppy = "none"
    <2> DEFINE t == [fd EXCEPT !.do_floppy = "none"]
    <2>1. r = UnexpectedInterrupt(t, good)
      BY <1>4 DEF InterruptHandler
    <2>2. t \in FdRecords /\ t.queue = fd.queue /\ t.timers = fd.timers
      BY <1>2, NoneIs DEF FdCommands
    <2> HIDE DEF t
    <2>3. r \in FdRecords /\ SameFd(r, t)
      <3> DEFINE v == [t EXCEPT !.recalibrate = TRUE]
                 w == [t EXCEPT !.reset = TRUE]
      <3>1. v \in FdRecords /\ SameFd(v, t) /\ w \in FdRecords /\ SameFd(w, t)
        BY <2>2, FlagIs
      <3>2. r = IF good THEN v ELSE w
        BY <2>1 DEF UnexpectedInterrupt
      <3> HIDE DEF v, w, r
      <3> QED BY <3>1, <3>2
    <2> HIDE DEF r
    <2>4. FloppyTypeOK' /\ SameFd(fd', r)
      BY <1>1, <2>3, RanIs
    <2>5. fd'.queue = fd.queue /\ fd'.timers = fd.timers
      BY <2>2, <2>3, <2>4 DEF SameFd
    <2> QED BY <1>4, <2>4, <2>5 DEF NeverStalls
  <1> QED BY <1>3, <1>4

LEMMA TimerGoesOn ==
  ASSUME FloppyAssumption, FloppyTypeOK, NEW ok \in BOOLEAN, TimerRuns(ok)
  PROVE  FloppyTypeOK' /\ NeverStalls'
  <1> DEFINE s == [fd EXCEPT !.timers = RemoveAt(@, DueFdTimer)]
             r == IF fd.timers[DueFdTimer].fn = "transfer" THEN Transfer(s, ok) ELSE FloppyOnInterrupt(s, ok)
  <1>1. HandlerRuns(r, {}) /\ DueFdTimer # 0
    BY DEF TimerRuns
  <1>2. s \in FdRecords
    BY <1>1, RemovedIs
  <1> HIDE DEF s
  <1>3. Started(Transfer(s, ok), s) /\ IsOn(FloppyOnInterrupt(s, ok), s)
    BY <1>2, TransferIs, FloppyOnIs
  <1>4. Continues(FloppyOnInterrupt(s, ok))
    BY <1>3 DEF IsOn, Continues
  <1>5. Continues(Transfer(s, ok))
    BY <1>3, StartedContinues
  <1>6. Continues(r)
    BY <1>4, <1>5
  <1> HIDE DEF r
  <1> QED BY <1>1, <1>6, RanGoesOn

LEMMA InitGoesOn == FloppyAssumption /\ FloppyInit => FloppyTypeOK /\ NeverStalls
  <1> SUFFICES ASSUME FloppyAssumption, FloppyInit PROVE FloppyTypeOK /\ NeverStalls
    OBVIOUS
  <1> DEFINE q == << >>
             z == 0
             n == None
  <1>1. /\ q \in Seq(FdRequests) /\ q \in Seq(FdTimers) /\ z \in Int /\ z \in Nat /\ n \in Int
        /\ [d \in Drives |-> z] \in [Drives -> Nat]
    BY DEF None
  <1>2. fd = [queue |-> q, reset |-> FALSE, recalibrate |-> FALSE, seek |-> FALSE,
              current_drive |-> z, seek_track |-> z, current_track |-> n,
              selected |-> FALSE, do_floppy |-> "none", timers |-> q,
              dor |-> z, motors |-> {}, mon_timer |-> [d \in Drives |-> z], off |-> [d \in Drives |-> FALSE],
              spin |-> [d \in Drives |-> z], sends |-> "none"]
    BY DEF FloppyInit, FdStart
  <1>3. asked = {} /\ change = [t \in Changers |-> [pc |-> "out", drive |-> z]]
    BY DEF FloppyInit
  <1> HIDE DEF z, n, q
  <1>4. fd \in FdRecords
    BY <1>1, <1>2 DEF FdRecords, FdCommands
  <1>5. fd.sends = "none" /\ fd.queue = q
    BY <1>2
  <1>6. /\ change \in [Changers -> [pc : {"out", "floppy_on", "motor", "select"}, drive : Int]]
        /\ \A t \in Changers : change[t].pc = "out"
    BY <1>1, <1>3
  <1> QED BY <1>3, <1>4, <1>5, <1>6 DEF FloppyTypeOK, NeverStalls, q

(* A tick of the timers and of the motors. *)
LEMMA TickIs ==
  ASSUME FloppyTypeOK, FloppyTick
  PROVE  /\ FloppyTypeOK' /\ fd'.queue = fd.queue /\ fd'.do_floppy = fd.do_floppy
         /\ fd'.current_drive = fd.current_drive /\ fd'.dor = fd.dor /\ fd'.motors = fd.motors
         /\ (fd'.selected <=> fd.selected) /\ (fd'.reset <=> fd.reset) /\ (fd'.recalibrate <=> fd.recalibrate)
         /\ Len(fd'.timers) = Len(fd.timers) /\ (fd'.timers = << >> <=> fd.timers = << >>)
         /\ \A i \in 1..Len(fd.timers) : fd.timers[i].ticks > 0 /\ fd'.timers[i].ticks = fd.timers[i].ticks - 1
                                         /\ fd'.timers[i].fn = fd.timers[i].fn
         /\ fd'.spin = Less(fd.spin) /\ fd'.mon_timer = Less(fd.mon_timer)
  <1> DEFINE l == [i \in DOMAIN fd.timers |-> [fn |-> fd.timers[i].fn, ticks |-> fd.timers[i].ticks - 1]]
             m == Less(fd.mon_timer)
             p == Less(fd.spin)
  <1>1. /\ fd \in FdRecords /\ fd.timers \in Seq(FdTimers) /\ fd.mon_timer \in [Drives -> Nat]
        /\ fd.spin \in [Drives -> Nat]
    BY DEF FloppyTypeOK, FdRecords
  <1>2. fd' = [fd EXCEPT !.timers = l, !.mon_timer = m, !.spin = p] /\ UNCHANGED <<asked, change>>
    <2>1. fd' = [fd EXCEPT !.timers = l, !.mon_timer = m, !.spin = p]
      BY DEF FloppyTick
    <2> QED BY <2>1 DEF FloppyTick
  <1>3. m \in [Drives -> Nat] /\ p \in [Drives -> Nat]
    BY <1>1 DEF Less
  <1>4. \A i \in 1..Len(fd.timers) : fd.timers[i].ticks \in Nat /\ fd.timers[i].ticks > 0 /\ fd.timers[i] \in FdTimers
    BY <1>1, DueIs DEF FloppyTick, FdTimers
  <1>5. DOMAIN fd.timers = 1..Len(fd.timers) /\ Len(fd.timers) \in Nat
    BY <1>1
  <1>6. \A i \in 1..Len(fd.timers) : l[i] \in FdTimers /\ l[i].ticks = fd.timers[i].ticks - 1 /\ l[i].fn = fd.timers[i].fn
    BY <1>4, <1>5 DEF FdTimers
  <1>7. l \in Seq(FdTimers) /\ Len(l) = Len(fd.timers)
    <2>1. l = [i \in 1..Len(fd.timers) |-> l[i]]
      BY <1>5
    <2> HIDE DEF l
    <2>2. l \in [1..Len(fd.timers) -> FdTimers]
      BY <1>6, <2>1
    <2> HIDE DEF l
    <2> QED BY <1>5, <2>2
  <1>8. l = << >> <=> fd.timers = << >>
    <2> HIDE DEF l
    <2> QED BY <1>1, <1>7
  <1> HIDE DEF l, m, p
  <1>9. fd' \in FdRecords
    BY <1>1, <1>2, <1>3, <1>7 DEF FdRecords
  <1>10. /\ fd'.queue = fd.queue /\ fd'.do_floppy = fd.do_floppy /\ fd'.sends = fd.sends
         /\ fd'.current_drive = fd.current_drive /\ fd'.dor = fd.dor /\ fd'.motors = fd.motors
         /\ fd'.timers = l /\ fd'.mon_timer = m /\ fd'.spin = p
    BY <1>1, <1>2 DEF FdRecords
  <1>11. fd'.selected = fd.selected /\ fd'.reset = fd.reset /\ fd'.recalibrate = fd.recalibrate
    BY <1>1, <1>2 DEF FdRecords
  <1>12. FloppyTypeOK'
    BY <1>2, <1>9, <1>10 DEF FloppyTypeOK
  <1> QED BY <1>4, <1>6, <1>7, <1>8, <1>10, <1>11, <1>12 DEF m, p

(* What floppy_change and the motors' timers leave alone. *)
LEMMA MotorOffIs ==
  ASSUME FloppyTypeOK, NEW d \in Drives, MotorOff(d)
  PROVE  /\ FloppyTypeOK' /\ fd'.queue = fd.queue /\ fd'.timers = fd.timers /\ fd'.do_floppy = fd.do_floppy
         /\ fd'.current_drive = fd.current_drive /\ fd'.dor = fd.dor /\ fd'.motors = fd.motors \ {d}
         /\ (fd'.selected <=> fd.selected) /\ (fd'.reset <=> fd.reset) /\ (fd'.recalibrate <=> fd.recalibrate)
         /\ fd'.spin = fd.spin /\ fd'.mon_timer = fd.mon_timer /\ asked' = asked
  <1> DEFINE m == fd.motors \ {d}
  <1>1. fd \in FdRecords /\ fd' = [fd EXCEPT !.motors = m] /\ UNCHANGED <<asked, change>>
    BY DEF MotorOff, FloppyTypeOK
  <1>2. m \subseteq Drives
    BY <1>1 DEF FdRecords
  <1> HIDE DEF m
  <1>3. fd' \in FdRecords
    BY <1>1, <1>2 DEF FdRecords
  <1>4. /\ fd'.queue = fd.queue /\ fd'.timers = fd.timers /\ fd'.do_floppy = fd.do_floppy /\ fd'.sends = fd.sends
        /\ fd'.current_drive = fd.current_drive /\ fd'.dor = fd.dor /\ fd'.motors = m
        /\ fd'.spin = fd.spin /\ fd'.mon_timer = fd.mon_timer
    BY <1>1 DEF FdRecords
  <1>5. fd'.selected = fd.selected /\ fd'.reset = fd.reset /\ fd'.recalibrate = fd.recalibrate
    BY <1>1 DEF FdRecords
  <1> QED BY <1>1, <1>3, <1>4, <1>5 DEF FloppyTypeOK, m

LEMMA WaitMotorIs ==
  ASSUME FloppyAssumption, FloppyTypeOK, NEW t \in Changers, WaitMotor(t)
  PROVE  /\ FloppyTypeOK' /\ fd'.queue = fd.queue /\ fd'.timers = fd.timers /\ fd'.do_floppy = fd.do_floppy
         /\ fd'.current_drive = fd.current_drive /\ fd.motors \subseteq fd'.motors
         /\ (fd.selected => fd'.dor = fd.dor)
         /\ (fd'.selected <=> fd.selected) /\ (fd'.reset <=> fd.reset) /\ (fd'.recalibrate <=> fd.recalibrate)
         /\ (SpinOK(fd) => SpinOK(fd)') /\ (\A c \in fd.motors : fd'.spin[c] = fd.spin[c]) /\ asked' = asked
  <1> DEFINE d == change[t].drive
             s == TicksToFloppyOn(fd, d)
             w == IF s.mon_timer[d] > 0 THEN "motor" ELSE "select"
  <1>1. /\ change[t].pc # "out" /\ fd' = s /\ asked' = asked
        /\ change' = [change EXCEPT ![t].pc = w]
    BY DEF WaitMotor
  <1>2. /\ d \in Drives /\ fd \in FdRecords /\ w \in {"motor", "select"}
    BY <1>1 DEF FloppyTypeOK
  <1> HIDE DEF d, w
  <1>3. /\ s \in FdRecords /\ s.queue = fd.queue /\ s.timers = fd.timers /\ s.reset = fd.reset
        /\ s.recalibrate = fd.recalibrate /\ s.selected = fd.selected /\ s.do_floppy = fd.do_floppy
        /\ s.sends = fd.sends /\ s.current_drive = fd.current_drive
        /\ s.dor = (IF fd.selected THEN fd.dor ELSE d) /\ s.motors = fd.motors \cup {d}
        /\ SpinOK(fd) => SpinOK(s)
        /\ \A c \in fd.motors : s.spin[c] = fd.spin[c]
    BY <1>2, TicksIs
  <1> HIDE DEF s
  <1>4. FloppyTypeOK'
    <2>1. /\ change' \in [Changers -> [pc : {"out", "floppy_on", "motor", "select"}, drive : Int]]
          /\ \A u \in Changers : change'[u].drive = change[u].drive /\ (u # t => change'[u] = change[u])
      BY <1>1, <1>2 DEF FloppyTypeOK
    <2>2. \A u \in Changers : change'[u].pc # "out" => change'[u].drive \in Drives
      BY <1>1, <2>1 DEF FloppyTypeOK
    <2> QED BY <1>1, <1>3, <2>1, <2>2 DEF FloppyTypeOK
  <1>5. SpinOK(fd) => SpinOK(fd)'
    BY <1>1, <1>3 DEF SpinOK
  <1> QED BY <1>1, <1>3, <1>4, <1>5

LEMMA SelectedIs ==
  ASSUME FloppyAssumption, FloppyTypeOK, NEW t \in Changers,
         Selected(t) \/ \E d \in Drives : FloppyOn(t, d)
  PROVE  /\ FloppyTypeOK' /\ fd'.queue = fd.queue /\ fd'.timers = fd.timers /\ fd'.do_floppy = fd.do_floppy
         /\ fd'.current_drive = fd.current_drive /\ fd'.dor = fd.dor /\ fd'.motors = fd.motors
         /\ (fd'.selected <=> fd.selected) /\ (fd'.reset <=> fd.reset) /\ (fd'.recalibrate <=> fd.recalibrate)
         /\ fd'.spin = fd.spin /\ fd'.mon_timer = fd.mon_timer /\ asked' = asked
  <1> DEFINE P == /\ fd' \in FdRecords /\ fd'.queue = fd.queue /\ fd'.timers = fd.timers /\ fd'.do_floppy = fd.do_floppy
                  /\ fd'.current_drive = fd.current_drive /\ fd'.dor = fd.dor /\ fd'.motors = fd.motors
                  /\ (fd'.selected <=> fd.selected) /\ (fd'.reset <=> fd.reset) /\ (fd'.recalibrate <=> fd.recalibrate)
                  /\ fd'.spin = fd.spin /\ fd'.mon_timer = fd.mon_timer /\ fd'.sends = fd.sends
             Q == /\ change' \in [Changers -> [pc : {"out", "floppy_on", "motor", "select"}, drive : Int]]
                  /\ \A u \in Changers : change'[u].pc # "out" => change'[u].drive \in Drives
  <1>1. fd \in FdRecords /\ asked' = asked
    BY DEF FloppyTypeOK, Selected, FloppyOn
  <1>2. fd' = fd => P
    BY <1>1
  <1>3. ASSUME NEW d \in Drives, FloppyOn(t, d) PROVE P /\ Q
    <2>1. d \in Int
      BY DEF FloppyAssumption
    <2>2. change' = [change EXCEPT ![t] = [pc |-> "floppy_on", drive |-> d]] /\ fd' = fd
      BY <1>3 DEF FloppyOn
    <2>3. Q
      BY <2>1, <2>2 DEF FloppyTypeOK
    <2> QED BY <1>2, <2>2, <2>3
  <1>4. ASSUME Selected(t) PROVE P /\ Q
    <2> DEFINE d == change[t].drive
    <2>1. d \in Drives /\ change[t].pc # "out"
      BY <1>4 DEF Selected, FloppyTypeOK
    <2>2. CASE fd.dor = d
      <3>1. change' = [change EXCEPT ![t] = [pc |-> "out", drive |-> 0]] /\ fd' = [fd EXCEPT !.off[d] = TRUE]
        BY <1>4, <2>2 DEF Selected
      <3> HIDE DEF d
      <3> DEFINE o == [fd.off EXCEPT ![d] = TRUE]
      <3>2. o \in [Drives -> BOOLEAN] /\ fd' = [fd EXCEPT !.off = o]
        BY <1>1, <3>1 DEF FdRecords
      <3> HIDE DEF o
      <3>3. fd' \in FdRecords
        BY <1>1, <3>2 DEF FdRecords
      <3>4. /\ fd'.queue = fd.queue /\ fd'.timers = fd.timers /\ fd'.do_floppy = fd.do_floppy
            /\ fd'.current_drive = fd.current_drive /\ fd'.dor = fd.dor /\ fd'.motors = fd.motors
            /\ fd'.spin = fd.spin /\ fd'.mon_timer = fd.mon_timer /\ fd'.sends = fd.sends
        BY <1>1, <3>2 DEF FdRecords
      <3>5. fd'.selected = fd.selected /\ fd'.reset = fd.reset /\ fd'.recalibrate = fd.recalibrate
        BY <1>1, <3>2 DEF FdRecords
      <3>6. Q
        <4> DEFINE z == 0
        <4>1. z \in Int
          OBVIOUS
        <4>2. change' = [change EXCEPT ![t] = [pc |-> "out", drive |-> z]]
          BY <3>1
        <4> HIDE DEF z
        <4> QED BY <4>1, <4>2 DEF FloppyTypeOK
      <3> QED BY <3>3, <3>4, <3>5, <3>6
    <2>3. CASE fd.dor # d
      <3>1. change' = [change EXCEPT ![t].pc = "floppy_on"] /\ fd' = fd
        BY <1>4, <2>3 DEF Selected
      <3>2. change' \in [Changers -> [pc : {"out", "floppy_on", "motor", "select"}, drive : Int]]
        BY <3>1 DEF FloppyTypeOK
      <3>3. \A u \in Changers : change'[u].drive = change[u].drive /\ (u # t => change'[u] = change[u])
        BY <3>1 DEF FloppyTypeOK
      <3>4. Q
        BY <2>1, <3>2, <3>3 DEF FloppyTypeOK
      <3> QED BY <1>2, <3>1, <3>4
    <2> QED BY <2>2, <2>3
  <1>5. P /\ Q
    BY <1>3, <1>4
  <1> QED BY <1>1, <1>5 DEF FloppyTypeOK

LEMMA NextGoesOn ==
  ASSUME FloppyAssumption, FloppyTypeOK, NeverStalls, [FloppyNext]_floppyVars
  PROVE  FloppyTypeOK' /\ NeverStalls'
  <1>1. ASSUME NEW d \in Drives, NEW track \in 0..NrTracks, NEW ok \in BOOLEAN, MakeRequest(d, track, ok)
        PROVE  FloppyTypeOK' /\ NeverStalls'
    BY <1>1, MakeRequestGoesOn
  <1>2. ASSUME Hardware PROVE FloppyTypeOK' /\ NeverStalls'
    BY <1>2, InterruptGoesOn DEF Hardware
  <1>3. ASSUME Timer PROVE FloppyTypeOK' /\ NeverStalls'
    <2>1. ASSUME NEW ok \in BOOLEAN, TimerRuns(ok) PROVE FloppyTypeOK' /\ NeverStalls'
      BY <2>1, TimerGoesOn
    <2>2. ASSUME FloppyTick PROVE FloppyTypeOK' /\ NeverStalls'
      <3>1. asked' = asked
        BY <2>2 DEF FloppyTick
      <3> QED BY <2>2, <3>1, TickIs DEF NeverStalls
    <2> QED BY <1>3, <2>1, <2>2 DEF Timer
  <1>4. ASSUME NEW d \in Drives, MotorOff(d) PROVE FloppyTypeOK' /\ NeverStalls'
    BY <1>4, MotorOffIs DEF NeverStalls
  <1>5. ASSUME NEW t \in Changers, WaitMotor(t) PROVE FloppyTypeOK' /\ NeverStalls'
    BY <1>5, WaitMotorIs DEF NeverStalls
  <1>6. ASSUME NEW t \in Changers, Selected(t) \/ \E d \in Drives : FloppyOn(t, d)
        PROVE  FloppyTypeOK' /\ NeverStalls'
    BY <1>6, SelectedIs DEF NeverStalls
  <1>7. CASE UNCHANGED floppyVars
    BY <1>7 DEF floppyVars, FloppyTypeOK, NeverStalls
  <1> QED BY <1>1, <1>2, <1>3, <1>4, <1>5, <1>6, <1>7 DEF FloppyNext, Changes

(* While the floppy driver has requests, a timer of it runs or the controller
   has a command whose interrupt it handles: no answer of the controller, no
   refused command and no floppy_change leaves the list to itself, and errors
   may be as many as they like. *)
THEOREM DriverGoesOn == FloppyAssumption => (FloppySpec => []NeverStalls)
  <1> SUFFICES ASSUME FloppyAssumption PROVE FloppySpec => []NeverStalls
    OBVIOUS
  <1>1. FloppyInit => FloppyTypeOK /\ NeverStalls
    BY InitGoesOn
  <1>2. FloppyTypeOK /\ NeverStalls /\ [FloppyNext]_floppyVars => FloppyTypeOK' /\ NeverStalls'
    BY NextGoesOn
  <1> QED BY <1>1, <1>2, PTL DEF FloppySpec

(* Until bad_flp_intr finds no CURRENT, the driver is one chain: it waits for
   one timer, or for one command. *)
TimerOK(s) ==
  \/ s.timers = << >>
  \/ /\ Len(s.timers) = 1 /\ OnDrive(s) /\ ~s.reset /\ ~s.recalibrate
     /\ s.spin[s.current_drive] <= s.timers[1].ticks
     /\ s.timers[1].fn = "transfer" => s.selected /\ s.dor = s.current_drive

Commanded ==
  /\ asked = {fd.do_floppy} /\ fd.timers = << >> /\ fd.queue # << >> /\ ~fd.reset
  /\ fd.do_floppy # "reset" => ~fd.recalibrate
  /\ fd.do_floppy = "seek" => IsReady(fd)

ChainOK ==
  /\ FloppyTypeOK /\ SpinOK(fd) /\ TimerOK(fd) /\ wasSetUp
  /\ fd.do_floppy = "none" => asked = {}
  /\ fd.do_floppy # "none" => Commanded

(* What a handler leaves. *)
Result(r) ==
  /\ r \in FdRecords /\ SpinOK(r)
  /\ \/ r.sends = "none" /\ r.do_floppy = "none" /\ TimerOK(r)
     \/ Issued(r) /\ r.timers = << >> /\ r.queue # << >> /\ (r.sends \in {"seek", "rw"} => IsReady(r))

LEMMA SameIs ==
  ASSUME NEW r, NEW s, SameFd(r, s)
  PROVE  (SpinOK(s) => SpinOK(r)) /\ (IsReady(s) => IsReady(r))
  BY DEF SameFd, SpinOK, IsReady, OnDrive

LEMMA OneTimer ==
  ASSUME NEW e
  PROVE  LET l == Append(<< >>, e) IN Len(l) = 1 /\ l[1] = e
  OBVIOUS

LEMMA DoFdRequestResult ==
  ASSUME FloppyAssumption, NEW s \in FdRecords, NEW ok \in BOOLEAN,
         SpinOK(s), s.timers = << >>, s.do_floppy = "none", s.sends = "none",
         s.queue # << >> \/ (~s.reset /\ ~s.recalibrate)
  PROVE  Result(DoFdRequest(s, ok))
  <1> DEFINE r == DoFdRequest(s, ok)
  <1>1. /\ r \in FdRecords
        /\ \/ Issued(r) /\ SameFd(r, s) /\ (s.reset \/ s.recalibrate) /\ r.sends \in {"reset", "recalibrate"}
           \/ Rests(r, s) /\ ~s.reset /\ ~s.recalibrate
           \/ Requested(r, s) /\ ~s.reset /\ ~s.recalibrate
    BY DoFdRequestIs
  <1> SUFFICES Result(r)
    OBVIOUS
  <1> HIDE DEF r
  <1>2. CASE Issued(r) /\ SameFd(r, s) /\ (s.reset \/ s.recalibrate) /\ r.sends \in {"reset", "recalibrate"}
    BY <1>1, <1>2, SameIs DEF Result, SameFd
  <1>3. CASE Rests(r, s)
    BY <1>1, <1>3 DEF Result, Rests, TimerOK
  <1>4. CASE Requested(r, s) /\ ~s.reset /\ ~s.recalibrate
    <2> DEFINE e == [fn |-> "floppy_on", ticks |-> r.mon_timer[r.current_drive]]
    <2>1. r.timers = Append(<< >>, e)
      BY <1>4 DEF Requested
    <2>2. e.fn = "floppy_on" /\ e.ticks = r.mon_timer[r.current_drive]
      OBVIOUS
    <2> HIDE DEF e
    <2>3. Len(r.timers) = 1 /\ r.timers[1] = e
      BY <2>1, OneTimer
    <2>4. r.current_drive \in Drives /\ SpinOK(r)
      BY <1>1, <1>4 DEF Requested, FdRecords
    <2>5. r.spin[r.current_drive] <= r.timers[1].ticks
      BY <2>2, <2>3, <2>4 DEF SpinOK
    <2>6. OnDrive(r) /\ ~r.reset /\ ~r.recalibrate /\ r.sends = "none" /\ r.do_floppy = "none"
      BY <1>4 DEF Requested, OnDrive
    <2> QED BY <1>1, <2>2, <2>3, <2>4, <2>5, <2>6 DEF Result, TimerOK
  <1> QED BY <1>1, <1>2, <1>3, <1>4

LEMMA StartedResult ==
  ASSUME NEW s \in FdRecords, NEW r, Started(r, s), IsReady(s), SpinOK(s), s.timers = << >>,
         ~s.reset, ~s.recalibrate
  PROVE  Result(r)
  <1>1. r \in FdRecords /\ SameFd(r, s) /\ Issued(r)
    BY DEF Started
  <1>2. IsReady(r) /\ SpinOK(r)
    BY <1>1, SameIs
  <1>3. r.queue # << >> /\ r.timers = << >>
    BY <1>1, <1>2 DEF IsReady, OnDrive, SameFd
  <1> QED BY <1>1, <1>2, <1>3 DEF Result

LEMMA IsOnResult ==
  ASSUME FloppyAssumption, NEW s \in FdRecords, NEW r, IsOn(r, s), OnDrive(s), SpinOK(s), s.timers = << >>,
         ~s.reset, ~s.recalibrate, s.do_floppy = "none", s.sends = "none", s.spin[s.current_drive] = 0
  PROVE  Result(r)
  <1>1. /\ r \in FdRecords /\ SpinOK(r) /\ OnDrive(r) /\ r.selected /\ r.dor = r.current_drive
        /\ r.spin[r.current_drive] = 0
    BY DEF IsOn, SpinOK, OnDrive
  <1>2. IsReady(r)
    BY <1>1 DEF IsReady
  <1>3. CASE /\ r.sends # "none" /\ r.do_floppy # "none" /\ r.timers = s.timers
             /\ (s.reset \/ s.recalibrate \/ Issued(r))
    BY <1>1, <1>2, <1>3 DEF Result, OnDrive
  <1>4. CASE /\ r.sends = s.sends /\ r.do_floppy = s.do_floppy /\ r.timers # << >>
             /\ r.timers = Append(s.timers, [fn |-> "transfer", ticks |-> SelectTicks])
             /\ r.reset = s.reset /\ r.recalibrate = s.recalibrate
    <2> DEFINE e == [fn |-> "transfer", ticks |-> SelectTicks]
    <2>1. r.timers = Append(<< >>, e)
      BY <1>4
    <2>2. e.ticks = SelectTicks
      OBVIOUS
    <2> HIDE DEF e
    <2>3. Len(r.timers) = 1 /\ r.timers[1] = e
      BY <2>1, OneTimer
    <2>4. r.spin[r.current_drive] <= r.timers[1].ticks
      BY <1>1, <2>2, <2>3 DEF FloppyAssumption
    <2> QED BY <1>1, <1>4, <2>3, <2>4 DEF Result, TimerOK
  <1> QED BY <1>3, <1>4 DEF IsOn

(* The interrupt of the one command. *)
LEMMA HandlerResult ==
  ASSUME FloppyAssumption, ChainOK, fd.do_floppy # "none", NEW good \in BOOLEAN, NEW ok \in BOOLEAN,
         ~EndsLast(good)
  PROVE  Result(InterruptHandler(fd, good, ok))
  <1> DEFINE t == [fd EXCEPT !.do_floppy = "none"]
             r == InterruptHandler(fd, good, ok)
  <1>1. /\ fd \in FdRecords /\ fd.sends = "none" /\ SpinOK(fd) /\ fd.timers = << >> /\ fd.queue # << >> /\ ~fd.reset
        /\ fd.do_floppy # "reset" => ~fd.recalibrate
        /\ fd.do_floppy = "seek" => IsReady(fd)
    BY DEF ChainOK, Commanded, FloppyTypeOK
  <1>2. fd.do_floppy \in {"rw", "seek", "recalibrate", "reset"}
    BY <1>1 DEF FdRecords, FdCommands
  <1>3. /\ t \in FdRecords /\ t.do_floppy = "none" /\ t.queue = fd.queue /\ t.timers = fd.timers
        /\ SameFd(t, fd) /\ t.sends = fd.sends /\ t.reset = fd.reset /\ t.recalibrate = fd.recalibrate
    BY <1>1, NoneIs DEF FdCommands
  <1> HIDE DEF t
  <1>4. SpinOK(t) /\ (IsReady(fd) => IsReady(t))
    BY <1>1, <1>3, SameIs
  <1>5. ASSUME ~good, fd.do_floppy \in {"rw", "seek"} PROVE Result(DoFdRequest(BadFlpIntr(t), ok))
    <2> DEFINE u == BadFlpIntr(t)
    <2>1. Len(t.queue) # 1 \/ ~(Head(t.queue).errors >= FD_ERRORS)
      BY <1>3, <1>5 DEF EndsLast
    <2>2. Keeps(u, t) /\ u.queue # << >>
      BY <1>1, <1>3, <2>1, BadIs
    <2> HIDE DEF u
    <2>3. u \in FdRecords /\ u.timers = << >> /\ u.do_floppy = "none" /\ u.sends = "none" /\ SpinOK(u)
      BY <1>1, <1>3, <1>4, <2>2 DEF Keeps, SpinOK
    <2>4. Result(DoFdRequest(u, ok))
      BY <2>2, <2>3, DoFdRequestResult
    <2> QED BY <2>4 DEF u
  <1>6. CASE fd.do_floppy = "rw"
    <2>1. r = RwInterrupt(t, good, ok)
      BY <1>6 DEF InterruptHandler, t
    <2>2. CASE good
      <3> DEFINE u == EndFloppyRequest(FloppyDeselect(t))
      <3>1. Keeps(u, t) /\ u.reset = t.reset /\ u.recalibrate = t.recalibrate
        BY <1>1, <1>3, GoodIs
      <3>2. r = DoFdRequest(u, ok)
        BY <2>1, <2>2 DEF RwInterrupt
      <3> HIDE DEF u, r
      <3>3. /\ u \in FdRecords /\ u.timers = << >> /\ u.do_floppy = "none" /\ u.sends = "none" /\ SpinOK(u)
            /\ ~u.reset /\ ~u.recalibrate
        BY <1>1, <1>3, <1>4, <1>6, <3>1 DEF Keeps, SpinOK
      <3>4. Result(r)
        BY <3>2, <3>3, DoFdRequestResult
      <3> QED BY <3>4 DEF r
    <2>3. CASE ~good
      <3>1. r = DoFdRequest(BadFlpIntr(t), ok)
        BY <2>1, <2>3 DEF RwInterrupt
      <3> QED BY <1>5, <1>6, <2>3, <3>1
    <2> QED BY <2>2, <2>3
  <1>7. CASE fd.do_floppy = "seek"
    <2>1. r = SeekInterrupt(t, good, ok)
      BY <1>7 DEF InterruptHandler, t
    <2>2. CASE good
      <3> DEFINE u == [t EXCEPT !.current_track = t.seek_track]
      <3>1. u \in FdRecords /\ SameFd(u, t) /\ u.reset = t.reset /\ u.recalibrate = t.recalibrate
        BY <1>3, TrackIs
      <3>2. r = SetupRwFloppy(u, ok)
        BY <2>1, <2>2 DEF SeekInterrupt
      <3> HIDE DEF u, r
      <3>3. Started(r, u)
        BY <3>1, <3>2, SetupRwIs
      <3>4. IsReady(u) /\ SpinOK(u) /\ u.timers = << >> /\ ~u.reset /\ ~u.recalibrate
        BY <1>1, <1>3, <1>4, <1>7, <3>1, SameIs DEF SameFd
      <3>5. Result(r)
        BY <3>1, <3>3, <3>4, StartedResult
      <3> QED BY <3>5 DEF r
    <2>3. CASE ~good
      <3>1. r = DoFdRequest(BadFlpIntr(t), ok)
        BY <2>1, <2>3 DEF SeekInterrupt
      <3> QED BY <1>5, <1>7, <2>3, <3>1
    <2> QED BY <2>2, <2>3
  <1>8. CASE fd.do_floppy = "recalibrate"
    <2> DEFINE v == [t EXCEPT !.recalibrate = FALSE]
               w == [t EXCEPT !.reset = TRUE]
               u == IF good THEN v ELSE w
    <2>1. /\ v \in FdRecords /\ SameFd(v, t) /\ v.do_floppy = t.do_floppy /\ v.sends = t.sends
          /\ w \in FdRecords /\ SameFd(w, t) /\ w.do_floppy = t.do_floppy /\ w.sends = t.sends
      BY <1>3, FlagIs
    <2>2. r = DoFdRequest(u, ok)
      BY <1>8 DEF InterruptHandler, RecalInterrupt, t
    <2> HIDE DEF v, w
    <2>3. u \in FdRecords /\ SameFd(u, t) /\ u.do_floppy = t.do_floppy /\ u.sends = t.sends
      BY <2>1
    <2> HIDE DEF u, r
    <2>4. SpinOK(u) /\ u.timers = << >> /\ u.queue # << >> /\ u.do_floppy = "none" /\ u.sends = "none"
      BY <1>1, <1>3, <1>4, <2>3, SameIs DEF SameFd
    <2>5. Result(r)
      BY <2>2, <2>3, <2>4, DoFdRequestResult
    <2> QED BY <2>5 DEF r
  <1>9. CASE fd.do_floppy = "reset"
    <2>1. r = DoFdRequest(t, ok)
      BY <1>9 DEF InterruptHandler, t
    <2>2. Result(DoFdRequest(t, ok))
      BY <1>1, <1>3, <1>4, DoFdRequestResult
    <2> QED BY <2>1, <2>2
  <1> QED BY <1>2, <1>6, <1>7, <1>8, <1>9

LEMMA RanIsChain ==
  ASSUME ChainOK, NEW r, Result(r), NEW done, asked \subseteq done, HandlerRuns(r, done)
  PROVE  ChainOK'
  <1>1. r \in FdRecords /\ SpinOK(r) /\ FloppyTypeOK /\ asked \ done = {}
    BY DEF Result, ChainOK
  <1>2. /\ FloppyTypeOK' /\ SameFd(fd', r) /\ fd'.reset = r.reset /\ fd'.recalibrate = r.recalibrate
        /\ fd'.do_floppy = r.do_floppy
        /\ asked' = IF r.sends = "none" THEN {} ELSE {r.sends}
    BY <1>1, RanIs
  <1>3. (SpinOK(fd) /\ (IsReady(r) => IsReady(fd)))'
    BY <1>1, <1>2 DEF SameFd, SpinOK, IsReady, OnDrive
  <1>4. CASE r.sends = "none" /\ r.do_floppy = "none" /\ TimerOK(r)
    <2>1. TimerOK(fd)'
      BY <1>2, <1>4 DEF SameFd, TimerOK, OnDrive
    <2>2. wasSetUp'
      BY <1>4 DEF HandlerRuns, ChainOK
    <2> QED BY <1>2, <1>3, <1>4, <2>1, <2>2 DEF ChainOK
  <1>5. CASE Issued(r) /\ r.timers = << >> /\ r.queue # << >> /\ (r.sends \in {"seek", "rw"} => IsReady(r))
    <2>1. wasSetUp'
      <3>1. r.sends = "rw" => IsSetUp(r)
        BY <1>5 DEF IsReady, OnDrive, IsSetUp
      <3> QED BY <3>1 DEF HandlerRuns, ChainOK
    <2>2. TimerOK(fd)' /\ fd'.timers = << >> /\ fd'.queue # << >>
      BY <1>2, <1>5 DEF SameFd, TimerOK
    <2>3. fd'.do_floppy # "none" /\ asked' = {fd'.do_floppy} /\ ~fd'.reset /\ (fd'.do_floppy # "reset" => ~fd'.recalibrate)
      BY <1>2, <1>5 DEF Issued
    <2>4. fd'.do_floppy = "seek" => IsReady(fd)'
      BY <1>2, <1>3, <1>5 DEF Issued
    <2>5. Commanded'
      BY <2>2, <2>3, <2>4 DEF Commanded
    <2> QED BY <1>2, <1>3, <2>1, <2>2, <2>3, <2>5 DEF ChainOK
  <1> QED BY <1>4, <1>5 DEF Result

LEMMA MakeRequestIsChain ==
  ASSUME FloppyAssumption, ChainOK,
         NEW d \in Drives, NEW track \in Nat, NEW ok \in BOOLEAN, MakeRequest(d, track, ok)
  PROVE  ChainOK'
  <1> DEFINE s == [fd EXCEPT !.queue = Append(@, [drive |-> d, track |-> track, errors |-> 0])]
             r == IF fd.queue = << >> THEN DoFdRequest(s, ok) ELSE s
  <1>1. HandlerRuns(r, {})
    BY DEF MakeRequest
  <1>2. fd \in FdRecords /\ fd.sends = "none" /\ SpinOK(fd) /\ TimerOK(fd) /\ FloppyTypeOK /\ wasSetUp
    BY DEF ChainOK, FloppyTypeOK
  <1>3. /\ s \in FdRecords /\ s.queue # << >> /\ s.timers = fd.timers /\ s.do_floppy = fd.do_floppy /\ s.sends = fd.sends
        /\ fd.queue # << >> => Head(s.queue) = Head(fd.queue)
        /\ s.current_drive = fd.current_drive
        /\ s.dor = fd.dor /\ s.motors = fd.motors /\ s.mon_timer = fd.mon_timer /\ s.spin = fd.spin
        /\ s.selected = fd.selected /\ s.reset = fd.reset /\ s.recalibrate = fd.recalibrate
    BY <1>2, MadeIs
  <1> HIDE DEF s
  <1>4. SpinOK(s)
    BY <1>2, <1>3 DEF SpinOK
  <1>5. CASE fd.queue = << >>
    <2>1. fd.do_floppy = "none" /\ asked = {} /\ fd.timers = << >>
      BY <1>2, <1>5 DEF ChainOK, Commanded, TimerOK, OnDrive
    <2>2. Result(DoFdRequest(s, ok))
      BY <1>2, <1>3, <1>4, <2>1, DoFdRequestResult
    <2> QED BY <1>1, <1>5, <2>1, <2>2, RanIsChain
  <1>6. CASE fd.queue # << >>
    <2>1. HandlerRuns(s, {})
      BY <1>1, <1>6
    <2>2. /\ FloppyTypeOK' /\ SameFd(fd', s) /\ fd'.reset = s.reset /\ fd'.recalibrate = s.recalibrate
          /\ fd'.do_floppy = s.do_floppy
          /\ asked' = IF s.sends = "none" THEN asked \ {}
                      ELSE IF s.sends = "reset" THEN {"reset"} ELSE (asked \ {}) \cup {s.sends}
      BY <1>2, <1>3, <2>1, RanIs
    <2>3. asked' = asked /\ wasSetUp'
      BY <1>2, <1>3, <2>1, <2>2 DEF HandlerRuns
    <2>4. /\ fd'.queue # << >> /\ Head(fd'.queue) = Head(fd.queue) /\ fd'.timers = fd.timers
          /\ fd'.do_floppy = fd.do_floppy /\ fd'.current_drive = fd.current_drive
          /\ fd'.dor = fd.dor /\ fd'.motors = fd.motors /\ fd'.mon_timer = fd.mon_timer /\ fd'.spin = fd.spin
          /\ fd'.selected = fd.selected /\ fd'.reset = fd.reset /\ fd'.recalibrate = fd.recalibrate
      BY <1>3, <1>6, <2>2 DEF SameFd
    <2>5. SpinOK(fd)' /\ TimerOK(fd)' /\ (IsReady(fd) => IsReady(fd)')
      BY <1>2, <1>6, <2>4 DEF SpinOK, TimerOK, IsReady, OnDrive
    <2>6. Commanded => Commanded'
      BY <2>3, <2>4, <2>5 DEF Commanded
    <2> QED BY <2>2, <2>3, <2>4, <2>5, <2>6 DEF ChainOK
  <1> QED BY <1>5, <1>6

LEMMA InterruptIsChain ==
  ASSUME FloppyAssumption, ChainOK,
         NEW op, NEW good \in BOOLEAN, NEW ok \in BOOLEAN, FloppyInterrupt(op, good, ok), ~EndsLast(good)
  PROVE  ChainOK'
  <1> DEFINE r == InterruptHandler(fd, good, ok)
  <1>1. op \in asked /\ HandlerRuns(r, {op})
    BY DEF FloppyInterrupt
  <1>2. fd.do_floppy # "none" /\ asked = {op}
    BY <1>1 DEF ChainOK, Commanded
  <1>3. Result(r)
    BY <1>2, HandlerResult
  <1> HIDE DEF r
  <1> QED BY <1>1, <1>2, <1>3, RanIsChain

LEMMA TimerIsChain ==
  ASSUME FloppyAssumption, ChainOK, NEW ok \in BOOLEAN, TimerRuns(ok)
  PROVE  ChainOK'
  <1> DEFINE s == [fd EXCEPT !.timers = RemoveAt(@, DueFdTimer)]
             fn == fd.timers[DueFdTimer].fn
             r == IF fn = "transfer" THEN Transfer(s, ok) ELSE FloppyOnInterrupt(s, ok)
  <1>1. HandlerRuns(r, {}) /\ DueFdTimer # 0
    BY DEF TimerRuns
  <1>2. FloppyTypeOK /\ SpinOK(fd) /\ TimerOK(fd) /\ fd \in FdRecords /\ fd.sends = "none"
    BY DEF ChainOK, FloppyTypeOK
  <1>3. DueFdTimer \in 1..Len(fd.timers) /\ fd.timers[DueFdTimer].ticks = 0 /\ Len(fd.timers) \in Nat
    BY <1>1, <1>2, DueIs
  <1>4. fd.timers # << >>
    BY <1>3
  <1>5. Len(fd.timers) = 1 /\ DueFdTimer = 1 /\ fd.do_floppy = "none" /\ asked = {}
    BY <1>2, <1>3, <1>4 DEF TimerOK, ChainOK, Commanded
  <1>6. /\ OnDrive(fd) /\ ~fd.reset /\ ~fd.recalibrate /\ fd.spin[fd.current_drive] <= 0
        /\ fn = "transfer" => fd.selected /\ fd.dor = fd.current_drive
    BY <1>2, <1>3, <1>4, <1>5 DEF TimerOK
  <1>7. fd.spin[fd.current_drive] \in Nat
    BY <1>2, <1>6 DEF FdRecords, OnDrive
  <1>8. /\ s \in FdRecords /\ s.queue = fd.queue /\ s.current_drive = fd.current_drive
        /\ s.selected = fd.selected /\ s.dor = fd.dor /\ s.motors = fd.motors
        /\ s.mon_timer = fd.mon_timer /\ s.spin = fd.spin /\ s.do_floppy = fd.do_floppy /\ s.sends = fd.sends
        /\ s.reset = fd.reset /\ s.recalibrate = fd.recalibrate
        /\ s.timers = << >>
    BY <1>1, <1>2, <1>5, RemovedIs
  <1> HIDE DEF s, fn
  <1>9. OnDrive(s) /\ SpinOK(s) /\ s.spin[s.current_drive] = 0 /\ ~s.reset /\ ~s.recalibrate
    BY <1>2, <1>6, <1>7, <1>8 DEF OnDrive, SpinOK
  <1>10. CASE fn = "transfer"
    <2>1. IsReady(s)
      BY <1>6, <1>8, <1>9, <1>10 DEF IsReady
    <2> DEFINE u == Transfer(s, ok)
    <2>2. Started(u, s)
      BY <1>8, TransferIs
    <2> HIDE DEF u
    <2>3. Result(u)
      BY <1>8, <1>9, <2>1, <2>2, StartedResult
    <2>4. HandlerRuns(u, {})
      BY <1>1, <1>10 DEF u
    <2> QED BY <1>5, <2>3, <2>4, RanIsChain
  <1>11. CASE fn # "transfer"
    <2> DEFINE u == FloppyOnInterrupt(s, ok)
    <2>1. IsOn(u, s)
      BY <1>8, FloppyOnIs
    <2> HIDE DEF u
    <2>2. Result(u)
      BY <1>2, <1>5, <1>8, <1>9, <2>1, IsOnResult
    <2>3. HandlerRuns(u, {})
      BY <1>1, <1>11 DEF u
    <2> QED BY <1>5, <2>2, <2>3, RanIsChain
  <1> QED BY <1>10, <1>11

LEMMA TickIsChain ==
  ASSUME FloppyAssumption, ChainOK, FloppyTick
  PROVE  ChainOK'
  <1>1. FloppyTypeOK /\ SpinOK(fd) /\ TimerOK(fd) /\ fd \in FdRecords
    BY DEF ChainOK, FloppyTypeOK
  <1>2. /\ FloppyTypeOK' /\ fd'.queue = fd.queue /\ fd'.do_floppy = fd.do_floppy
        /\ fd'.current_drive = fd.current_drive /\ fd'.dor = fd.dor /\ fd'.motors = fd.motors
        /\ (fd'.selected <=> fd.selected) /\ (fd'.reset <=> fd.reset) /\ (fd'.recalibrate <=> fd.recalibrate)
        /\ Len(fd'.timers) = Len(fd.timers) /\ (fd'.timers = << >> <=> fd.timers = << >>)
        /\ \A i \in 1..Len(fd.timers) : fd.timers[i].ticks > 0 /\ fd'.timers[i].ticks = fd.timers[i].ticks - 1
                                        /\ fd'.timers[i].fn = fd.timers[i].fn
        /\ fd'.spin = Less(fd.spin) /\ fd'.mon_timer = Less(fd.mon_timer)
    BY <1>1, TickIs
  <1>3. fd.spin \in [Drives -> Nat] /\ fd.mon_timer \in [Drives -> Nat] /\ fd.motors \subseteq Drives
    BY <1>1 DEF FdRecords
  <1>4. \A d \in Drives : /\ fd'.spin[d] = (IF fd.spin[d] > 0 THEN fd.spin[d] - 1 ELSE 0)
                           /\ fd'.mon_timer[d] = (IF fd.mon_timer[d] > 0 THEN fd.mon_timer[d] - 1 ELSE 0)
                           /\ fd.spin[d] \in Nat /\ fd.mon_timer[d] \in Nat
    BY <1>2, <1>3 DEF Less
  <1>5. SpinOK(fd)'
    BY <1>1, <1>4 DEF SpinOK
  <1>6. OnDrive(fd) => OnDrive(fd)' /\ fd.current_drive \in Drives
    BY <1>2, <1>3 DEF OnDrive
  <1>7. TimerOK(fd)'
    <2>1. CASE fd.timers = << >>
      BY <1>2, <2>1 DEF TimerOK
    <2>2. CASE fd.timers # << >>
      <3> DEFINE c == fd.current_drive
      <3>1. /\ Len(fd.timers) = 1 /\ OnDrive(fd) /\ ~fd.reset /\ ~fd.recalibrate
            /\ fd.spin[c] <= fd.timers[1].ticks
            /\ fd.timers[1].fn = "transfer" => fd.selected /\ fd.dor = fd.current_drive
        BY <1>1, <2>2 DEF TimerOK
      <3>2. 1 \in 1..Len(fd.timers)
        BY <3>1
      <3>3. fd.timers[1].ticks > 0 /\ fd'.timers[1].ticks = fd.timers[1].ticks - 1 /\ fd'.timers[1].fn = fd.timers[1].fn
        BY <1>2, <3>2
      <3>4. fd.timers[1].ticks \in Nat
        BY <1>1, <3>2, DueIs DEF FdTimers
      <3>5. fd'.spin[c] <= fd'.timers[1].ticks
        BY <1>4, <1>6, <3>1, <3>3, <3>4
      <3> QED BY <1>2, <1>6, <3>1, <3>3, <3>5 DEF TimerOK
    <2> QED BY <2>1, <2>2
  <1>8. IsReady(fd) => IsReady(fd)'
    BY <1>2, <1>4, <1>6 DEF IsReady
  <1>9. asked' = asked /\ wasSetUp'
    BY DEF FloppyTick, ChainOK
  <1>10. Commanded => Commanded'
    BY <1>2, <1>8, <1>9 DEF Commanded
  <1> QED BY <1>2, <1>5, <1>7, <1>9, <1>10 DEF ChainOK

(* A motor is not switched off under the chain. *)
LEMMA MotorOffIsChain ==
  ASSUME ChainOK, NEW d \in Drives, MotorOff(d)
  PROVE  ChainOK'
  <1>1. FloppyTypeOK /\ SpinOK(fd) /\ TimerOK(fd)
    BY DEF ChainOK
  <1>2. /\ FloppyTypeOK' /\ fd'.queue = fd.queue /\ fd'.timers = fd.timers /\ fd'.do_floppy = fd.do_floppy
        /\ fd'.current_drive = fd.current_drive /\ fd'.dor = fd.dor /\ fd'.motors = fd.motors \ {d}
        /\ (fd'.selected <=> fd.selected) /\ (fd'.reset <=> fd.reset) /\ (fd'.recalibrate <=> fd.recalibrate)
        /\ fd'.spin = fd.spin /\ fd'.mon_timer = fd.mon_timer /\ asked' = asked
    BY <1>1, MotorOffIs
  <1>3. (d = fd.current_drive => fd.timers = << >> /\ asked = {}) /\ wasSetUp'
    BY DEF MotorOff, ChainOK
  <1>4. SpinOK(fd)'
    BY <1>1, <1>2 DEF SpinOK
  <1>5. d # fd.current_drive /\ OnDrive(fd) => OnDrive(fd)'
    BY <1>2 DEF OnDrive
  <1>6. TimerOK(fd)'
    BY <1>1, <1>2, <1>3, <1>5 DEF TimerOK
  <1>7. Commanded => Commanded'
    <2> SUFFICES ASSUME Commanded PROVE Commanded'
      OBVIOUS
    <2>1. d # fd.current_drive
      BY <1>3 DEF Commanded
    <2>2. IsReady(fd) => IsReady(fd)'
      BY <1>2, <1>5, <2>1 DEF IsReady
    <2> QED BY <1>2, <2>2 DEF Commanded
  <1> QED BY <1>2, <1>3, <1>4, <1>6, <1>7 DEF ChainOK

(* floppy_change leaves the drive of the chain selected, and its motor on. *)
LEMMA WaitMotorIsChain ==
  ASSUME FloppyAssumption, ChainOK, NEW t \in Changers, WaitMotor(t)
  PROVE  ChainOK'
  <1>1. FloppyTypeOK /\ SpinOK(fd) /\ TimerOK(fd)
    BY DEF ChainOK
  <1>2. /\ FloppyTypeOK' /\ fd'.queue = fd.queue /\ fd'.timers = fd.timers /\ fd'.do_floppy = fd.do_floppy
        /\ fd'.current_drive = fd.current_drive /\ fd.motors \subseteq fd'.motors
        /\ (fd.selected => fd'.dor = fd.dor)
        /\ (fd'.selected <=> fd.selected) /\ (fd'.reset <=> fd.reset) /\ (fd'.recalibrate <=> fd.recalibrate)
        /\ (SpinOK(fd) => SpinOK(fd)') /\ (\A c \in fd.motors : fd'.spin[c] = fd.spin[c]) /\ asked' = asked
    BY <1>1, WaitMotorIs
  <1>3. wasSetUp'
    BY DEF WaitMotor, ChainOK
  <1>4. OnDrive(fd) => OnDrive(fd)' /\ fd'.spin[fd'.current_drive] = fd.spin[fd.current_drive]
    BY <1>2 DEF OnDrive
  <1>5. TimerOK(fd)'
    BY <1>1, <1>2, <1>4 DEF TimerOK
  <1>6. IsReady(fd) => IsReady(fd)'
    BY <1>2, <1>4 DEF IsReady
  <1>7. Commanded => Commanded'
    BY <1>2, <1>6 DEF Commanded
  <1> QED BY <1>1, <1>2, <1>3, <1>5, <1>7 DEF ChainOK

LEMMA SelectedIsChain ==
  ASSUME FloppyAssumption, ChainOK, NEW t \in Changers,
         Selected(t) \/ \E d \in Drives : FloppyOn(t, d)
  PROVE  ChainOK'
  <1>1. FloppyTypeOK /\ SpinOK(fd) /\ TimerOK(fd)
    BY DEF ChainOK
  <1>2. /\ FloppyTypeOK' /\ fd'.queue = fd.queue /\ fd'.timers = fd.timers /\ fd'.do_floppy = fd.do_floppy
        /\ fd'.current_drive = fd.current_drive /\ fd'.dor = fd.dor /\ fd'.motors = fd.motors
        /\ (fd'.selected <=> fd.selected) /\ (fd'.reset <=> fd.reset) /\ (fd'.recalibrate <=> fd.recalibrate)
        /\ fd'.spin = fd.spin /\ fd'.mon_timer = fd.mon_timer /\ asked' = asked
    BY <1>1, SelectedIs
  <1>3. wasSetUp'
    BY DEF Selected, FloppyOn, ChainOK
  <1>4. (SpinOK(fd) /\ TimerOK(fd))' /\ (IsReady(fd) => IsReady(fd)')
    BY <1>1, <1>2 DEF SpinOK, TimerOK, IsReady, OnDrive
  <1>5. Commanded => Commanded'
    BY <1>2, <1>4 DEF Commanded
  <1> QED BY <1>2, <1>3, <1>4, <1>5 DEF ChainOK

LEMMA NextIsChain ==
  ASSUME FloppyAssumption, ChainOK, wildReads = 0, wildReads' = 0, [FloppyNext]_floppyVars
  PROVE  ChainOK'
  <1>1. ASSUME NEW d \in Drives, NEW track \in 0..NrTracks, NEW ok \in BOOLEAN, MakeRequest(d, track, ok)
        PROVE  ChainOK'
    BY <1>1, MakeRequestIsChain
  <1>2. ASSUME Hardware PROVE ChainOK'
    <2>1. PICK op \in {"rw", "seek", "recalibrate", "reset"}, good \in BOOLEAN, ok \in BOOLEAN :
            FloppyInterrupt(op, good, ok)
      BY <1>2 DEF Hardware
    <2>2. ~EndsLast(good)
      BY <2>1 DEF FloppyInterrupt
    <2> QED BY <2>1, <2>2, InterruptIsChain
  <1>3. ASSUME Timer PROVE ChainOK'
    BY <1>3, TimerIsChain, TickIsChain DEF Timer
  <1>4. ASSUME NEW d \in Drives, MotorOff(d) PROVE ChainOK'
    BY <1>4, MotorOffIsChain
  <1>5. ASSUME NEW t \in Changers, WaitMotor(t) PROVE ChainOK'
    BY <1>5, WaitMotorIsChain
  <1>6. ASSUME NEW t \in Changers, Selected(t) \/ \E d \in Drives : FloppyOn(t, d)
        PROVE  ChainOK'
    BY <1>6, SelectedIsChain
  <1>7. CASE UNCHANGED floppyVars
    BY <1>7 DEF floppyVars, ChainOK, FloppyTypeOK, SpinOK, TimerOK, OnDrive, Commanded, IsReady
  <1> QED BY <1>1, <1>2, <1>3, <1>4, <1>5, <1>6, <1>7 DEF FloppyNext, Changes

(* The times that bad_flp_intr found no CURRENT are counted. *)
LEMMA WildReadsCount ==
  ASSUME wildReads \in Nat, [FloppyNext]_floppyVars
  PROVE  wildReads' \in Nat /\ (wildReads' = 0 => wildReads = 0)
  <1>1. ASSUME NEW d \in Drives, NEW track \in 0..NrTracks, NEW ok \in BOOLEAN, MakeRequest(d, track, ok)
        PROVE  wildReads' = wildReads
    BY <1>1 DEF MakeRequest
  <1>2. ASSUME Hardware PROVE wildReads' = wildReads + 1 \/ wildReads' = wildReads
    BY <1>2 DEF Hardware, FloppyInterrupt
  <1>3. ASSUME Timer PROVE wildReads' = wildReads
    BY <1>3 DEF Timer, TimerRuns, FloppyTick
  <1>4. ASSUME NEW d \in Drives, MotorOff(d) PROVE wildReads' = wildReads
    BY <1>4 DEF MotorOff
  <1>5. ASSUME NEW t \in Changers, Changes(t) \/ \E d \in Drives : FloppyOn(t, d)
        PROVE  wildReads' = wildReads
    BY <1>5 DEF Changes, WaitMotor, Selected, FloppyOn
  <1>6. CASE UNCHANGED floppyVars
    BY <1>6 DEF floppyVars
  <1>7. CASE FloppyNext
    <2>1. \/ \E d \in Drives, track \in 0..NrTracks, ok \in BOOLEAN : MakeRequest(d, track, ok)
          \/ Hardware \/ Timer
          \/ \E d \in Drives : MotorOff(d)
          \/ \E t \in Changers : Changes(t) \/ \E d \in Drives : FloppyOn(t, d)
      BY <1>7 DEF FloppyNext
    <2>2. wildReads' = wildReads + 1 \/ wildReads' = wildReads
      BY <1>1, <1>2, <1>3, <1>4, <1>5, <2>1, Zenon
    <2> QED BY <2>2
  <1> QED BY <1>6, <1>7

(* Until bad_flp_intr, having ended the last request, reads the errors of none,
   the controller is only told to read or write when there is a request, the
   motor of its drive has its speed and the drive is selected, whatever
   floppy_change and the motors' timers do meanwhile, whichever commands the
   controller refuses, and whichever requests are given up (floppy.c:305-308). *)
THEOREM TransfersAreSetUp == FloppyAssumption => (FloppySpec => []SetUpForTransfer)
  <1> DEFINE I == wildReads \in Nat /\ (wildReads = 0 => ChainOK)
  <1> SUFFICES ASSUME FloppyAssumption PROVE FloppySpec => []SetUpForTransfer
    OBVIOUS
  <1>1. FloppyInit => I
    <2> SUFFICES ASSUME FloppyInit PROVE wildReads = 0 /\ ChainOK
      OBVIOUS
    <2>1. FloppyTypeOK
      BY InitGoesOn
    <2>2. /\ fd.timers = << >> /\ fd.do_floppy = "none" /\ asked = {} /\ wildReads = 0 /\ wasSetUp
          /\ \A d \in Drives : fd.spin[d] = 0 /\ fd.mon_timer[d] = 0
      BY DEF FloppyInit, FdStart
    <2> QED BY <2>1, <2>2 DEF ChainOK, SpinOK, TimerOK
  <1>2. I /\ [FloppyNext]_floppyVars => I'
    <2> SUFFICES ASSUME wildReads \in Nat, wildReads = 0 => ChainOK, [FloppyNext]_floppyVars
                 PROVE  wildReads' \in Nat /\ (wildReads' = 0 => ChainOK')
      OBVIOUS
    <2>1. wildReads' \in Nat /\ (wildReads' = 0 => wildReads = 0)
      BY WildReadsCount
    <2> QED BY <2>1, NextIsChain
  <1>3. I => SetUpForTransfer
    BY DEF ChainOK, SetUpForTransfer
  <1> QED BY <1>1, <1>2, <1>3, PTL DEF FloppySpec
====
