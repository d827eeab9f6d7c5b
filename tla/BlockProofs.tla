---------------------------- MODULE BlockProofs -----------------------------
(***************************************************************************)
(* Proofs about the buffer cache and the requests of block devices, for    *)
(* any number of tasks, buffers, blocks, slots and loops: a block has one  *)
(* buffer, only a write or an invalidation drops a valid modification, a   *)
(* sync misses nothing, who sleeps for a buffer can count on somebody, and *)
(* make_request and end_request lose no modification.                      *)
(*                                                                         *)
(* The first three depend neither on which buffer getblk chooses nor on    *)
(* b_count: their invariant IInv leaves out the free list, and with it bh, *)
(* and counts. The fourth is all about them: CInv. The last is of the      *)
(* requests: QueueInv.                                                     *)
(***************************************************************************)
EXTENDS BufferCache, RequestQueue, FiniteSetTheorems, WellFoundedInduction, TLAPS

(* The tasks inside one of the loops over all buffers. *)
Scanning(t) == pc[t] \in {"inodes", "next", "scan"}

IsScan(s) ==
  /\ s = [what |-> s.what, dev |-> s.dev, i |-> s.i, last |-> s.last]
  /\ s.i \in Nat /\ s.last \in BOOLEAN

CacheTypeOK ==
  /\ DOMAIN key = Buffers
  /\ lock \in [Buffers -> BOOLEAN]
  /\ dirt \in [Buffers -> BOOLEAN]
  /\ uptodate \in [Buffers -> BOOLEAN]
  /\ DOMAIN pc = Tasks
  /\ DOMAIN scan = Tasks
  /\ unsynced \in [Tasks -> SUBSET Buffers]
  /\ \A t \in Tasks : Scanning(t) => IsScan(scan[t])

(* What a loop still has to write is dirty, of its device, and in its last
   round ahead of it. Outside of the loops nothing is left. *)
UnsyncedIsAhead ==
  \A t \in Tasks : \A b \in unsynced[t] :
    /\ dirt[b]
    /\ Scanning(t)
    /\ InScope(scan[t], b)
    /\ scan[t].last => scan[t].i <= b

IInv == CacheTypeOK /\ OneBufferPerBlock /\ UnsyncedIsAhead

-----------------------------------------------------------------------------
(* A set of natural numbers has a least element, and Min is it. *)
LEMMA MinIsLeast ==
  ASSUME NEW S, S \subseteq Nat, S # {}
  PROVE  Min(S) \in S /\ \A n \in S : Min(S) <= n
  <1> DEFINE Less == {p \in Nat \X Nat : p[1] < p[2]}
  <1>1. IsWellFoundedOn(Less, Nat)
    BY NatLessThanWellFounded DEF OpToRel
  <1>2. \E m \in S : \A n \in S : <<n, m>> \notin Less
    <2> HIDE DEF Less
    <2> QED BY <1>1, WFMin, Zenon
  <1>3. PICK m \in S : \A n \in S : ~ (n < m)
    BY <1>2
  <1>4. \A n \in S : m <= n
    BY <1>3
  <1> QED BY <1>4 DEF Min

(* All buffers are free and clean, and nobody is in a loop. *)
LEMMA InitIInv == Init => IInv
  <1> SUFFICES ASSUME Init PROVE IInv
    OBVIOUS
  <1>1. CacheTypeOK
    BY DEF Init, CacheTypeOK, Scanning
  <1>2. OneBufferPerBlock
    BY DEF Init, OneBufferPerBlock
  <1>3. UnsyncedIsAhead
    BY DEF Init, UnsyncedIsAhead
  <1> QED BY <1>1, <1>2, <1>3 DEF IInv

-----------------------------------------------------------------------------
(* The steps that change neither the buffers nor a loop, and whose task is
   in no loop before and after: UnsyncedIsAhead is about others. *)
LEMMA OutsideStep ==
  ASSUME IInv, NEW t \in Tasks, ~Scanning(t), NEW l,
         l \notin {"inodes", "next", "scan"},
         pc' = [pc EXCEPT ![t] = l],
         UNCHANGED <<key, lock, dirt, uptodate, scan, unsynced>>
  PROVE  IInv'
  BY DEF IInv, CacheTypeOK, OneBufferPerBlock, UnsyncedIsAhead, Scanning, IsScan,
         InScope, Buffers


(* getblk before it takes a buffer, the waits, brelse, and the calls. *)
LEMMA OutsideSteps ==
  ASSUME IInv, NEW t \in Tasks,
         \/ Find(t) \/ Woken(t) \/ Hash(t) \/ ReadDone(t) \/ Brelse(t)
         \/ Call(t) \/ Release(t)
  PROVE  IInv'
  <1>1. ~Scanning(t)
    BY DEF Find, Woken, Hash, ReadDone, Brelse, Call, Release, Scanning
  <1>2. UNCHANGED <<key, lock, dirt, uptodate, scan, unsynced>>
    BY DEF Find, Woken, Hash, ReadDone, Brelse, Call, Release, cacheVars
  <1>3. \E l \in {"hash", "free", "buffer_wait", "find", "got", "out", "brelse", "read"} :
          pc' = [pc EXCEPT ![t] = l]
    BY DEF Find, Woken, Hash, ReadDone, Brelse, Call, Release, Goto, WaitOn, Return
  <1> QED BY <1>1, <1>2, <1>3, OutsideStep

(* getblk takes the buffer for the wanted block only when no buffer has it;
   the buffer is clean, so no sync still has to write it. *)
LEMMA ClaimStep ==
  ASSUME IInv, NEW t \in Tasks, Claim(t)
  PROVE  IInv'
  <1> DEFINE b == bh[t]
  <1>1. CASE Repeat(t)
    BY <1>1, OutsideStep DEF Claim, Repeat, Goto, Scanning
  <1>2. CASE /\ StartScan(t, "sync_dev", key[b].dev)
             /\ UNCHANGED <<key, count, dirt, uptodate, free_list>>
    BY <1>2, ZenonT(60)
       DEF Claim, StartScan, Goto, IInv, CacheTypeOK, OneBufferPerBlock,
           UnsyncedIsAhead, Scanning, IsScan, InScope
  <1>3. CASE ~dirt[b] /\ Cached(Wanted(t)) = {} /\ Take(t, b)
    <2>1. CacheTypeOK'
      BY <1>3 DEF Claim, Take, Goto, IInv, CacheTypeOK, Scanning, IsScan
    <2>2. OneBufferPerBlock'
      BY <1>3 DEF Take, Cached, IInv, CacheTypeOK, OneBufferPerBlock
    <2>3. UnsyncedIsAhead'
      BY <1>3
         DEF Claim, Take, Goto, IInv, CacheTypeOK, UnsyncedIsAhead, Scanning, InScope
    <2> QED BY <2>1, <2>2, <2>3 DEF IInv
  <1> QED BY <1>1, <1>2, <1>3 DEF Claim

(* ll_rw_block(READ) only drops the modifications of an invalid buffer. *)
LEMMA GotReads ==
  ASSUME IInv, NEW t \in Tasks, Got(t)
  PROVE  /\ lock' \in [Buffers -> BOOLEAN]
         /\ dirt' \in [Buffers -> BOOLEAN]
         /\ \A b \in Buffers : dirt'[b] => dirt[b]
         /\ \A b \in Buffers : dirt[b] /\ uptodate[b] => dirt'[b]
  <1>1. \A b : Read(b) =>
          /\ lock' \in [Buffers -> BOOLEAN]
          /\ dirt' \in [Buffers -> BOOLEAN]
          /\ \A c \in Buffers : dirt'[c] => dirt[c]
          /\ \A c \in Buffers : dirt[c] /\ uptodate[c] => dirt'[c]
    BY DEF Read, IInv, CacheTypeOK
  <1>2. UNCHANGED <<lock, dirt>> \/ \E b : Read(b)
    BY DEF Got, GotBuffer, GotAhead, ReadAhead
  <1> QED BY <1>1, <1>2 DEF IInv, CacheTypeOK

LEMMA GotStep ==
  ASSUME IInv, NEW t \in Tasks, Got(t)
  PROVE  IInv'
  <1>1. /\ UNCHANGED <<key, uptodate, scan>>
        /\ unsynced' = [u \in Tasks |-> {b \in unsynced[u] : dirt'[b]}]
    BY DEF Got
  <1>2. ~Scanning(t)
    BY DEF Got, Scanning
  <1>3. \E l : l \notin {"inodes", "next", "scan"} /\ pc' = [pc EXCEPT ![t] = l]
    BY DEF Got, GotBuffer, GotAhead, Goto, WaitOn, Return
  <1>4. \A u \in Tasks : Scanning(u) <=> Scanning(u)'
    BY <1>2, <1>3 DEF Scanning, IInv, CacheTypeOK
  <1>5. CacheTypeOK'
    BY <1>1, <1>3, <1>4, GotReads DEF IInv, CacheTypeOK, IsScan
  <1>6. UnsyncedIsAhead'
    BY <1>1, <1>4 DEF IInv, UnsyncedIsAhead, InScope
  <1>7. OneBufferPerBlock'
    BY <1>1 DEF IInv, OneBufferPerBlock
  <1> QED BY <1>5, <1>6, <1>7 DEF IInv

-----------------------------------------------------------------------------
(* A sync begins with all dirty buffers of its device still to write. *)
LEMMA ScanStep ==
  ASSUME IInv, NEW t \in Tasks, Scan(t)
  PROVE  IInv'
  <1> PICK s \in Scans :
        /\ StartScan(t, s[1], s[2])
        /\ unsynced' = [unsynced EXCEPT ![t] =
             {b \in Buffers : /\ s[1] # "invalidate_buffers" /\ dirt[b]
                              /\ s[1] = "sys_sync" \/ key[b].dev = s[2]}]
    BY DEF Scan
  <1>1. UNCHANGED <<key, lock, dirt, uptodate>>
    BY DEF Scan, cacheVars
  <1>2. /\ Scanning(t)' /\ IsScan(scan[t])'
        /\ scan'[t].i = 1 /\ scan'[t].what = s[1] /\ scan'[t].dev = s[2]
    BY DEF StartScan, Goto, Scanning, IsScan, IInv, CacheTypeOK
  <1>3. \A u \in Tasks \ {t} :
          /\ scan'[u] = scan[u] /\ unsynced'[u] = unsynced[u]
          /\ Scanning(u)' <=> Scanning(u)
    BY DEF StartScan, Goto, Scanning, IInv, CacheTypeOK
  <1>4. CacheTypeOK'
    BY <1>1, <1>2, <1>3 DEF StartScan, Goto, IsScan, IInv, CacheTypeOK
  <1>5. UnsyncedIsAhead'
    <2>1. \A u \in Tasks \ {t} : \A b \in unsynced'[u] :
            dirt'[b] /\ Scanning(u)' /\ InScope(scan[u], b)' /\ (scan'[u].last => scan'[u].i <= b)
      BY <1>1, <1>3 DEF IInv, UnsyncedIsAhead, InScope
    <2>2. \A b \in unsynced'[t] :
            dirt'[b] /\ Scanning(t)' /\ InScope(scan[t], b)' /\ (scan'[t].last => scan'[t].i <= b)
      BY <1>1, <1>2, BufferCacheAssumption
         DEF InScope, Buffers, IInv, CacheTypeOK
    <2> QED BY <2>1, <2>2 DEF UnsyncedIsAhead
  <1>6. OneBufferPerBlock'
    BY <1>1 DEF IInv, OneBufferPerBlock
  <1> QED BY <1>4, <1>5, <1>6 DEF IInv

(* A step of t's loop, seen by the others. *)
LEMMA OthersScan ==
  ASSUME IInv, NEW t \in Tasks, ScanNext(t) \/ ScanAgain(t) \/ ScanBuffer(t)
  PROVE  /\ DOMAIN pc' = Tasks /\ DOMAIN scan' = Tasks
         /\ \A u \in Tasks \ {t} : scan'[u] = scan[u] /\ (Scanning(u)' <=> Scanning(u))
  <1>1. \E s : scan' = [scan EXCEPT ![t] = s]
    BY DEF ScanNext, ScanAgain, ScanBuffer
  <1>2. \E l : pc' = [pc EXCEPT ![t] = l]
    BY DEF ScanNext, ScanAgain, ScanBuffer, Goto, WaitOn, Return
  <1> QED BY <1>1, <1>2 DEF Scanning, IInv, CacheTypeOK

(* The loop goes on with the next buffer of its device, begins again, or
   ends, in its last round with nothing left to write. *)
LEMMA ScanNextStep ==
  ASSUME IInv, NEW t \in Tasks, ScanNext(t)
  PROVE  IInv'
  <1> DEFINE s == scan[t]
             todo == Ahead(s)
  <1>1. UNCHANGED <<key, lock, dirt, uptodate>>
    BY DEF ScanNext, cacheVars
  <1>2. Scanning(t) /\ IsScan(s)
    BY DEF ScanNext, Scanning, IInv, CacheTypeOK
  <1>3. todo \subseteq Buffers /\ todo \subseteq Nat
    BY BufferCacheAssumption DEF Ahead, Buffers
  <1>4. \A u \in Tasks \ {t} : unsynced'[u] = unsynced[u]
    BY DEF ScanNext, IInv, CacheTypeOK
  <1>5. unsynced' \in [Tasks -> SUBSET Buffers] /\ unsynced'[t] \subseteq unsynced[t]
    BY DEF ScanNext, IInv, CacheTypeOK
  <1>6. Scanning(t)' => IsScan(scan[t])'
    <2>1. CASE todo # {} /\ scan' = [scan EXCEPT ![t].i = Min(todo)]
      BY <2>1, <1>2, <1>3, MinIsLeast DEF IsScan, IInv, CacheTypeOK
    <2>2. CASE scan' = [scan EXCEPT ![t].i = NR_BUFFERS + 1]
      BY <2>2, <1>2, BufferCacheAssumption DEF IsScan, IInv, CacheTypeOK
    <2>3. CASE pc'[t] \in {"out", "free"}
      BY <2>3 DEF Scanning
    <2> QED
      BY <2>1, <2>2, <2>3
         DEF ScanNext, Goto, WaitOn, Return, IInv, CacheTypeOK
  <1>7. \A b \in unsynced'[t] :
          Scanning(t)' /\ InScope(scan[t], b)' /\ (scan'[t].last => scan'[t].i <= b)
    <2> TAKE b \in unsynced'[t]
    <2>1. b \in unsynced[t] /\ b \in Buffers /\ InScope(s, b) /\ (s.last => s.i <= b)
      BY <1>5 DEF IInv, CacheTypeOK, UnsyncedIsAhead
    <2>2. CASE /\ todo # {} /\ scan' = [scan EXCEPT ![t].i = Min(todo)]
               /\ pc' = [pc EXCEPT ![t] = "scan"]
      <3>1. s.last => b \in todo
        BY <2>1, <1>2, BufferCacheAssumption DEF Ahead, Buffers, IsScan
      <3>2. s.last => Min(todo) <= b
        BY <3>1, <1>3, MinIsLeast
      <3> QED
        BY <2>1, <2>2, <3>2, <1>1, <1>2
           DEF InScope, Scanning, IsScan, IInv, CacheTypeOK
    <2>3. CASE /\ ~s.last /\ scan' = [scan EXCEPT ![t].i = NR_BUFFERS + 1]
               /\ pc' = [pc EXCEPT ![t] = "inodes"]
      BY <2>1, <2>3, <1>1, <1>2 DEF InScope, Scanning, IsScan, IInv, CacheTypeOK
    <2>4. CASE unsynced' = [unsynced EXCEPT ![t] = {}]
      BY <2>4 DEF IInv, CacheTypeOK
    <2> QED
      BY <2>2, <2>3, <2>4 DEF ScanNext, Goto, WaitOn
  <1>8. CacheTypeOK'
    BY <1>1, <1>5, <1>6, OthersScan DEF IInv, CacheTypeOK, IsScan
  <1>9. UnsyncedIsAhead'
    BY <1>1, <1>4, <1>5, <1>7, OthersScan DEF IInv, UnsyncedIsAhead, InScope
  <1> QED BY <1>1, <1>8, <1>9 DEF IInv, OneBufferPerBlock

(* The second round of a sync begins with the first buffer. *)
LEMMA ScanAgainStep ==
  ASSUME IInv, NEW t \in Tasks, ScanAgain(t)
  PROVE  IInv'
  <1>1. UNCHANGED <<key, lock, dirt, uptodate, unsynced>>
    BY DEF ScanAgain, cacheVars
  <1>2. /\ Scanning(t) /\ Scanning(t)' /\ IsScan(scan[t]) /\ IsScan(scan[t])'
        /\ scan'[t].i = 1 /\ scan'[t].what = scan[t].what /\ scan'[t].dev = scan[t].dev
    <2>1. Scanning(t) /\ Scanning(t)' /\ IsScan(scan[t])
      BY DEF ScanAgain, Goto, Scanning, IInv, CacheTypeOK
    <2>2. scan'[t] = [what |-> scan[t].what, dev |-> scan[t].dev, i |-> 1, last |-> TRUE]
      BY <2>1 DEF ScanAgain, IsScan, IInv, CacheTypeOK
    <2> QED BY <2>1, <2>2 DEF IsScan
  <1>3. CacheTypeOK'
    BY <1>1, <1>2, OthersScan DEF IInv, CacheTypeOK, IsScan
  <1>4. \A b \in Buffers : 1 <= b
    BY BufferCacheAssumption DEF Buffers
  <1>5. UnsyncedIsAhead'
    BY <1>1, <1>2, <1>4, OthersScan DEF IInv, CacheTypeOK, UnsyncedIsAhead, InScope
  <1> QED BY <1>1, <1>3, <1>5 DEF IInv, OneBufferPerBlock

(* What the loop writes or invalidates is clean afterwards and nobody has to
   write it any more; what it leaves behind was not dirty, or of another
   device. *)
LEMMA ScanBufferStep ==
  ASSUME IInv, NEW t \in Tasks, ScanBuffer(t)
  PROVE  IInv'
  <1> DEFINE s == scan[t]
             b == s.i
  <1>1. UNCHANGED key /\ Scanning(t) /\ Scanning(t)' /\ IsScan(s)
    BY DEF ScanBuffer, Goto, Scanning, IInv, CacheTypeOK
  <1>2. scan'[t] = [what |-> s.what, dev |-> s.dev, i |-> b + 1, last |-> s.last]
    BY <1>1 DEF ScanBuffer, IsScan, IInv, CacheTypeOK
  <1>3. /\ lock' \in [Buffers -> BOOLEAN]
        /\ dirt' \in [Buffers -> BOOLEAN]
        /\ uptodate' \in [Buffers -> BOOLEAN]
        /\ \A c \in Buffers \ {b} : dirt'[c] = dirt[c]
        /\ b \in Buffers /\ dirt[b] /\ InScope(s, b) => ~dirt'[b]
    BY DEF ScanBuffer, InScope, IInv, CacheTypeOK
  <1>4. \A u \in Tasks : \A c \in unsynced'[u] :
          /\ c \in unsynced[u] /\ c \in Buffers /\ dirt'[c]
          /\ u = t => c # b
    <2> SUFFICES ASSUME NEW u \in Tasks, NEW c \in unsynced'[u]
                 PROVE  /\ c \in unsynced[u] /\ c \in Buffers /\ dirt'[c]
                        /\ u = t => c # b
      OBVIOUS
    <2>1. c \in unsynced[u] /\ c \in Buffers /\ dirt[c] /\ InScope(scan[u], c)
      BY DEF ScanBuffer, IInv, CacheTypeOK, UnsyncedIsAhead
    <2>2. dirt'[b] \/ c # b
      BY DEF ScanBuffer
    <2> QED BY <2>1, <2>2, <1>3
  <1>5. CacheTypeOK'
    <2>1. unsynced' \in [Tasks -> SUBSET Buffers]
      BY <1>4 DEF ScanBuffer
    <2> QED BY <2>1, <1>1, <1>2, <1>3, OthersScan DEF IInv, CacheTypeOK, IsScan
  <1>6. UnsyncedIsAhead'
    <2>1. \A u \in Tasks \ {t} : \A c \in unsynced'[u] :
            Scanning(u)' /\ InScope(scan[u], c)' /\ (scan'[u].last => scan'[u].i <= c)
      BY <1>1, <1>4, OthersScan DEF IInv, UnsyncedIsAhead, InScope
    <2>2. \A c \in unsynced'[t] :
            Scanning(t)' /\ InScope(scan[t], c)' /\ (scan'[t].last => scan'[t].i <= c)
      BY <1>1, <1>2, <1>4, BufferCacheAssumption
         DEF IInv, UnsyncedIsAhead, InScope, IsScan, Buffers
    <2> QED BY <1>4, <2>1, <2>2 DEF UnsyncedIsAhead
  <1> QED BY <1>1, <1>5, <1>6 DEF IInv, OneBufferPerBlock

-----------------------------------------------------------------------------
LEMMA ModifyStep ==
  ASSUME IInv, NEW t \in Tasks, Modify(t)
  PROVE  IInv'
  <1>1. UNCHANGED <<key, lock, pc, scan, unsynced>>
    BY DEF Modify
  <1>2. /\ dirt' \in [Buffers -> BOOLEAN]
        /\ uptodate' \in [Buffers -> BOOLEAN]
        /\ \A b \in Buffers : dirt[b] => dirt'[b]
    BY DEF Modify, IInv, CacheTypeOK
  <1> QED
    BY <1>1, <1>2
       DEF IInv, CacheTypeOK, OneBufferPerBlock, UnsyncedIsAhead, Scanning, IsScan, InScope

LEMMA UnlockStep ==
  ASSUME IInv, NEW b \in Buffers, Unlock(b)
  PROVE  IInv'
  <1>1. UNCHANGED <<key, dirt, pc, scan, unsynced>>
    BY DEF Unlock, taskVars
  <1>2. lock' \in [Buffers -> BOOLEAN] /\ uptodate' \in [Buffers -> BOOLEAN]
    BY BufferCacheAssumption, ZenonT(60) DEF Unlock, IInv, CacheTypeOK
  <1> QED
    BY <1>1, <1>2
       DEF IInv, CacheTypeOK, OneBufferPerBlock, UnsyncedIsAhead, Scanning, IsScan, InScope

LEMMA NextIInv == IInv /\ [Next]_vars => IInv'
  <1> SUFFICES ASSUME IInv, [Next]_vars PROVE IInv'
    OBVIOUS
  <1>1. ASSUME NEW t \in Tasks, TaskStep(t)
        PROVE  IInv'
    BY <1>1, OutsideSteps, ClaimStep, GotStep, ScanNextStep, ScanAgainStep,
       ScanBufferStep DEF TaskStep
  <1>2. ASSUME NEW t \in Tasks, Call(t) \/ Scan(t) \/ Modify(t)
        PROVE  IInv'
    BY <1>2, OutsideSteps, ScanStep, ModifyStep
  <1>3. ASSUME NEW b \in Buffers, Unlock(b)
        PROVE  IInv'
    BY <1>3, UnlockStep
  <1>4. CASE UNCHANGED vars
    BY <1>4
       DEF vars, cacheVars, taskVars, IInv, CacheTypeOK, OneBufferPerBlock,
           UnsyncedIsAhead, Scanning, IsScan, InScope
  <1> QED BY <1>1, <1>2, <1>3, <1>4 DEF Next

(* The flags of the buffers are truth values, the places of the tasks and
   the loops they are in fit together. *)
THEOREM CacheTypeCorrect == Spec => []CacheTypeOK
  <1>1. IInv => CacheTypeOK
    BY DEF IInv
  <1> QED BY <1>1, InitIInv, NextIInv, PTL DEF Spec

(* getblk never makes a second buffer for a block, although it sleeps
   between its first search of the hash queue and the last. *)
THEOREM BlockHasOneBuffer == Spec => []OneBufferPerBlock
  <1>1. IInv => OneBufferPerBlock
    BY DEF IInv
  <1> QED BY <1>1, InitIInv, NextIInv, PTL DEF Spec

(* When sys_sync or sync_dev ends its last round, every buffer that was
   dirty when it began has been handed to the driver since, or invalidated. *)
THEOREM SyncIsComplete == Spec => []SyncMissesNothing
  <1>1. IInv => SyncMissesNothing
    <2> SUFFICES ASSUME IInv, NEW t \in Tasks, pc[t] = "next", scan[t].last,
                        Ahead(scan[t]) = {}, NEW b \in unsynced[t]
                 PROVE  FALSE
      BY DEF SyncMissesNothing
    <2> QED
      BY BufferCacheAssumption
         DEF IInv, CacheTypeOK, UnsyncedIsAhead, Ahead, Buffers, Scanning, IsScan
  <1> QED BY <1>1, InitIInv, NextIInv, PTL DEF Spec

(* getblk, bread, breada, bread_page and end_request never make a dirty and
   valid buffer clean: only the loops of sync and invalidate_buffers do, and
   the former by writing it. *)
THEOREM NoModificationIsDropped == Spec => ModificationsAreWritten
  <1>1. IInv /\ [Next]_vars => [ModificationIsWritten]_vars
    <2> SUFFICES ASSUME IInv, Next, NEW b \in Buffers, dirt[b], uptodate[b], ~dirt'[b]
                 PROVE  \E t \in Tasks : /\ pc[t] = "scan" /\ scan[t].i = b
                                         /\ lock'[b] \/ scan[t].what = "invalidate_buffers"
      BY DEF ModificationIsWritten
    <2>1. ASSUME NEW t \in Tasks, TaskStep(t)
          PROVE  ScanBuffer(t)
      <3>1. CASE Claim(t)
        BY <3>1 DEF Claim, Take, Repeat, IInv, CacheTypeOK
      <3>2. CASE Got(t)
        BY <3>2, GotReads
      <3>3. CASE UNCHANGED dirt
        BY <3>3
      <3> QED
        BY <2>1, <3>1, <3>2, <3>3
           DEF TaskStep, Find, Woken, Hash, ReadDone, Brelse, ScanNext, ScanAgain,
               Release, cacheVars
    <2>2. ASSUME NEW t \in Tasks, Call(t) \/ Scan(t) \/ Modify(t)
          PROVE  FALSE
      BY <2>2 DEF Call, Scan, Modify, cacheVars, IInv, CacheTypeOK
    <2>3. ASSUME NEW c \in Buffers, Unlock(c)
          PROVE  FALSE
      BY <2>3 DEF Unlock
    <2>4. PICK t \in Tasks : ScanBuffer(t)
      BY <2>1, <2>2, <2>3 DEF Next
    <2> QED BY <2>4 DEF ScanBuffer, IInv, CacheTypeOK
  <1> QED BY <1>1, InitIInv, NextIInv, PTL DEF Spec, ModificationsAreWritten

-----------------------------------------------------------------------------
(* Who sleeps for a buffer can count on somebody: b_count is exact, and who
   sleeps holds blocks of its call. *)

(* What b_count counts: the task between its search of the hash queue and
   the end of getblk, at the place 0, and the places among what a task holds. *)
Taking == {"hash", "got"}
RefsOf(p, w, h, b) ==
  {r \in Tasks \X Nat :
     \/ r[2] = 0 /\ p[r[1]] \in Taking /\ w[r[1]] = b
     \/ r[2] \in 1..Len(h[r[1]]) /\ h[r[1]][r[2]] = b}
Refs(b) == RefsOf(pc, bh, held, b)

CountIs(n, refs) == IsFiniteSet(refs) /\ n = Cardinality(refs)

(* The list has all buffers. *)
ListOK ==
  /\ free_list \in [Buffers -> Buffers]
  /\ \A b \in Buffers : \E i \in Buffers : free_list[i] = b

(* In getblk, or in the loop over the buffers that it calls. *)
Asking(t) ==
  \/ pc[t] \in {"find", "buffer_wait", "hash", "free", "got"}
  \/ Scanning(t) /\ call[t] # NULL

(* The call c, n blocks of which have been asked for, of which h is held. *)
Serves(q, c, n, h, k) ==
  /\ c \in Calls /\ n \in Nat /\ n < Len(c[2])
  /\ q = <<q[1], q[2]>> /\ q[2] \in Seq(Keys) /\ Len(q[2]) = Len(c[2]) - n
  /\ \A i \in 1..Len(q[2]) : q[2][i] = c[2][n + i]
  /\ \A i \in 1..Len(h) : \E j \in 1..n : k[h[i]] = c[2][j]

BuffersOK(t) ==
  /\ pc[t] \in Taking => bh[t] \in Buffers /\ key[bh[t]] = Wanted(t)
  /\ pc[t] = "free" \/ (Scanning(t) /\ call[t] # NULL) => bh[t] \in Buffers
  /\ pc[t] \in {"read", "brelse"} => held[t] # <<>>
  /\ Asking(t) => \E c, n : Serves(call[t], c, n, held[t], key)
  /\ t \in asleep => pc[t] = "buffer_wait"

CInv ==
  /\ DOMAIN count = Buffers /\ DOMAIN bh = Tasks /\ DOMAIN call = Tasks
  /\ held \in [Tasks -> Seq(Buffers)]
  /\ ListOK
  /\ \A b \in Buffers : CountIs(count[b], Refs(b))
  /\ \A t \in Tasks : BuffersOK(t)
  /\ asleep \subseteq Tasks
  /\ SleepersWillWake

-----------------------------------------------------------------------------
(* The references after a step of t. *)
Others(t, f, g) == \A u \in Tasks \ {t} : g[u] = f[u]

LEMMA RefsKept ==
  ASSUME NEW t \in Tasks, NEW p, NEW w, NEW h, NEW q, NEW v, NEW i, NEW b,
         Others(t, p, q), Others(t, w, v), Others(t, h, i),
         q[t] \in Taking /\ v[t] = b <=> p[t] \in Taking /\ w[t] = b, i[t] = h[t]
  PROVE  RefsOf(q, v, i, b) = RefsOf(p, w, h, b)
  <1>1. \A r \in Tasks \X Nat : r[1] \in Tasks
    OBVIOUS
  <1>2. ASSUME NEW r \in Tasks \X Nat
        PROVE  r \in RefsOf(q, v, i, b) <=> r \in RefsOf(p, w, h, b)
    <2>1. CASE r[1] = t
      BY <2>1 DEF RefsOf
    <2>2. CASE r[1] # t
      BY <2>2, <1>1 DEF RefsOf, Others
    <2> QED BY <2>1, <2>2
  <1> QED BY <1>2 DEF RefsOf

LEMMA RefsMore ==
  ASSUME NEW t \in Tasks, NEW p, NEW w, NEW h, NEW q, NEW v, NEW i, NEW b, NEW c, NEW n \in Int,
         Others(t, p, q), Others(t, w, v), Others(t, h, i),
         p[t] \notin Taking, q[t] \in Taking, v[t] = c, i[t] = h[t],
         CountIs(n, RefsOf(p, w, h, b))
  PROVE  CountIs(IF b = c THEN n + 1 ELSE n, RefsOf(q, v, i, b))
  <1> DEFINE R == RefsOf(p, w, h, b)
             S == RefsOf(q, v, i, b)
  <1>1. <<t, 0>> \in Tasks \X Nat /\ <<t, 0>> \notin R
    BY DEF RefsOf
  <1>2. CASE b = c
    <2>1. ASSUME NEW r \in Tasks \X Nat PROVE r \in S <=> r \in R \cup {<<t, 0>>}
      <3>1. CASE r[1] = t /\ r[2] = 0
        <4>1. r = <<t, 0>>
          BY <3>1
        <4> QED BY <3>1, <4>1, <1>2 DEF RefsOf
      <3>2. CASE r[1] = t /\ r[2] # 0
        BY <3>2 DEF RefsOf
      <3>3. CASE r[1] # t
        BY <3>3 DEF RefsOf, Others
      <3> QED BY <3>1, <3>2, <3>3
    <2>2. S = R \cup {<<t, 0>>}
      BY <2>1, <1>1 DEF RefsOf
    <2> HIDE DEF R, S
    <2> QED BY <1>1, <1>2, <2>2, FS_AddElement DEF CountIs, R, S
  <1>3. CASE b # c
    <2>1. S = R
      BY <1>3, RefsKept
    <2> QED BY <1>3, <2>1
  <1> QED BY <1>2, <1>3

LEMMA RefsLess ==
  ASSUME NEW t \in Tasks, NEW p, NEW w, NEW h, NEW q, NEW v, NEW i, NEW b, NEW c, NEW n \in Int,
         Others(t, p, q), Others(t, w, v), Others(t, h, i),
         p[t] \in Taking, w[t] = c, q[t] \notin Taking, i[t] = h[t],
         CountIs(n, RefsOf(p, w, h, b))
  PROVE  CountIs(IF b = c THEN n - 1 ELSE n, RefsOf(q, v, i, b))
  <1> DEFINE R == RefsOf(p, w, h, b)
             S == RefsOf(q, v, i, b)
  <1>1. <<t, 0>> \in Tasks \X Nat
    OBVIOUS
  <1>2. CASE b = c
    <2>1. ASSUME NEW r \in Tasks \X Nat PROVE r \in S <=> r \in R \ {<<t, 0>>}
      <3>1. CASE r[1] = t /\ r[2] = 0
        <4>1. r = <<t, 0>>
          BY <3>1
        <4> QED BY <3>1, <4>1, <1>2 DEF RefsOf
      <3>2. CASE r[1] = t /\ r[2] # 0
        BY <3>2 DEF RefsOf
      <3>3. CASE r[1] # t
        BY <3>3 DEF RefsOf, Others
      <3> QED BY <3>1, <3>2, <3>3
    <2>2. S = R \ {<<t, 0>>}
      BY <2>1, <1>1 DEF RefsOf
    <2>3. <<t, 0>> \in R
      BY <1>1, <1>2 DEF RefsOf
    <2> HIDE DEF R, S
    <2> QED BY <1>2, <2>2, <2>3, FS_RemoveElement DEF CountIs, R, S
  <1>3. CASE b # c
    <2>1. S = R
      BY <1>3, RefsKept
    <2> QED BY <1>3, <2>1
  <1> QED BY <1>2, <1>3

(* What getblk returns is held then. *)
LEMMA RefsMoved ==
  ASSUME NEW t \in Tasks, NEW p, NEW w, NEW h, NEW q, NEW v, NEW i, NEW b, NEW c, NEW n \in Int,
         Others(t, p, q), Others(t, w, v), Others(t, h, i),
         p[t] \in Taking, w[t] = c, q[t] \notin Taking, c \in Buffers,
         h[t] \in Seq(Buffers), i[t] = Append(h[t], c),
         CountIs(n, RefsOf(p, w, h, b))
  PROVE  CountIs(n, RefsOf(q, v, i, b))
  <1> DEFINE R == RefsOf(p, w, h, b)
             S == RefsOf(q, v, i, b)
             m == Len(h[t])
             old == <<t, 0>>
             new == <<t, m + 1>>
  <1>1. /\ old \in Tasks \X Nat /\ new \in Tasks \X Nat /\ new # old
        /\ m \in Nat /\ Len(i[t]) = m + 1 /\ i[t][m + 1] = c
        /\ \A k \in 1..m : i[t][k] = h[t][k]
    OBVIOUS
  <1>2. CASE b = c
    <2>1. ASSUME NEW r \in Tasks \X Nat PROVE r \in S <=> r \in (R \ {old}) \cup {new}
      <3>1. CASE r[1] = t /\ r[2] = 0
        <4>1. r = old
          BY <3>1
        <4> QED BY <3>1, <4>1, <1>1 DEF RefsOf
      <3>2. CASE r[1] = t /\ r[2] = m + 1
        <4>1. r = new
          BY <3>2
        <4> QED BY <3>2, <4>1, <1>1, <1>2 DEF RefsOf
      <3>3. CASE r[1] = t /\ r[2] # 0 /\ r[2] # m + 1
        <4>1. r # old /\ r # new /\ r[2] \in Nat
          BY <3>3
        <4>2. r[2] \in 1..m + 1 <=> r[2] \in 1..m
          BY <3>3, <4>1, <1>1
        <4>3. r \in S <=> r[2] \in 1..m /\ i[t][r[2]] = b
          BY <3>3, <4>2, <1>1 DEF RefsOf
        <4>4. r \in R <=> r[2] \in 1..m /\ h[t][r[2]] = b
          BY <3>3 DEF RefsOf
        <4> QED BY <4>1, <4>3, <4>4, <1>1
      <3>4. CASE r[1] # t
        BY <3>4 DEF RefsOf, Others
      <3> QED BY <3>1, <3>2, <3>3, <3>4
    <2>2. S = (R \ {old}) \cup {new}
      BY <2>1, <1>1 DEF RefsOf
    <2>3. old \in R /\ new \notin R
      BY <1>1, <1>2 DEF RefsOf
    <2> HIDE DEF R, S, old, new
    <2>4. IsFiniteSet(R \ {old}) /\ Cardinality(R \ {old}) = n - 1
      BY <2>3, FS_RemoveElement DEF CountIs, R
    <2>5. IsFiniteSet(S) /\ Cardinality(S) = n - 1 + 1
      BY <1>1, <2>2, <2>3, <2>4, FS_AddElement
    <2> QED BY <2>5 DEF CountIs, S
  <1>3. CASE b # c
    <2>1. ASSUME NEW r \in Tasks \X Nat PROVE r \in S <=> r \in R
      <3>1. CASE r[1] = t
        <4>1. r[2] \in 1..m + 1 /\ i[t][r[2]] = b <=> r[2] \in 1..m /\ h[t][r[2]] = b
          <5>1. r[2] \in 1..m + 1 <=> r[2] \in 1..m \/ r[2] = m + 1
            BY <1>1
          <5> QED BY <5>1, <1>1, <1>3
        <4> QED BY <3>1, <4>1, <1>1, <1>3 DEF RefsOf
      <3>2. CASE r[1] # t
        BY <3>2 DEF RefsOf, Others
      <3> QED BY <3>1, <3>2
    <2>2. S = R
      BY <2>1 DEF RefsOf
    <2> QED BY <2>2
  <1> QED BY <1>2, <1>3

(* brelse drops the first of what is held: the others move up. *)
LEMMA RefsTail ==
  ASSUME NEW t \in Tasks, NEW p, NEW w, NEW h, NEW q, NEW v, NEW i, NEW b, NEW c, NEW n \in Int,
         Others(t, p, q), Others(t, w, v), Others(t, h, i),
         p[t] \notin Taking, q[t] \notin Taking,
         h[t] \in Seq(Buffers), h[t] # << >>, c = Head(h[t]), i[t] = Tail(h[t]),
         CountIs(n, RefsOf(p, w, h, b))
  PROVE  CountIs(IF b = c THEN n - 1 ELSE n, RefsOf(q, v, i, b))
  <1> DEFINE R == RefsOf(p, w, h, b)
             S == RefsOf(q, v, i, b)
             m == Len(h[t])
             old == <<t, 1>>
             D == R \ {old}
             f == [r \in D |-> IF r[1] = t THEN <<t, r[2] - 1>> ELSE r]
  <1>1. /\ old \in Tasks \X Nat /\ m \in Nat /\ m > 0 /\ Len(i[t]) = m - 1
        /\ h[t][1] = c /\ \A k \in 1..m - 1 : i[t][k] = h[t][k + 1]
    OBVIOUS
  <1>2. old \in R <=> b = c
    BY <1>1 DEF RefsOf
  <1>3. \A r \in D : r \in Tasks \X Nat
    BY DEF RefsOf
  <1>4. \A r \in D : r[1] = t => r = <<t, r[2]>> /\ r[2] \in 2..m /\ h[t][r[2]] = b
    <2> SUFFICES ASSUME NEW r \in D, r[1] = t
                 PROVE  r = <<t, r[2]>> /\ r[2] \in 2..m /\ h[t][r[2]] = b
      OBVIOUS
    <2>1. r = <<t, r[2]>> /\ r[2] \in Nat /\ r # old
      BY <1>3
    <2>2. r[2] \in 1..m /\ h[t][r[2]] = b
      BY <2>1 DEF RefsOf
    <2> QED BY <2>1, <2>2
  <1>5. \A r \in D : f[r] \in S
    <2> TAKE r \in D
    <2>1. CASE r[1] = t
      <3>1. r[2] \in 2..m /\ h[t][r[2]] = b
        BY <1>4, <2>1
      <3>2. r[2] - 1 \in 1..m - 1 /\ r[2] - 1 \in Nat /\ i[t][r[2] - 1] = b
        BY <1>1, <3>1
      <3>3. f[r] = <<t, r[2] - 1>>
        BY <2>1
      <3> DEFINE k == r[2] - 1
      <3> HIDE DEF f, k
      <3>4. k \in 1..Len(i[t]) /\ k \in Nat /\ i[t][k] = b /\ f[r] = <<t, k>>
        BY <1>1, <3>2, <3>3 DEF k
      <3>5. <<t, k>> \in Tasks \X Nat
        BY <3>4
      <3> DEFINE x == <<t, k>>
      <3>6. x \in Tasks \X Nat /\ x[1] = t /\ x[2] = k
        BY <3>5
      <3> HIDE DEF x
      <3>7. x \in S
        BY <3>4, <3>6 DEF RefsOf
      <3> QED BY <3>4, <3>7 DEF x
    <2>2. CASE r[1] # t
      <3>1. f[r] = r /\ r \in R /\ r \in Tasks \X Nat
        BY <2>2, <1>3
      <3> QED BY <2>2, <3>1 DEF RefsOf, Others
    <2> QED BY <2>1, <2>2
  <1>6. \A r, s \in D : f[r] = f[s] => r = s
    <2> TAKE r, s \in D
    <2> HAVE f[r] = f[s]
    <2>1. CASE r[1] = t /\ s[1] = t
      BY <2>1, <1>4
    <2>2. CASE r[1] # t /\ s[1] # t
      BY <2>2
    <2>3. CASE r[1] = t /\ s[1] # t
      BY <2>3
    <2>4. CASE r[1] # t /\ s[1] = t
      BY <2>4
    <2> QED BY <2>1, <2>2, <2>3, <2>4
  <1>7. \A s \in S : \E r \in D : f[r] = s
    <2> TAKE s \in S
    <2>0. s \in Tasks \X Nat
      BY DEF RefsOf
    <2>1. CASE s[1] = t
      <3>1. s = <<t, s[2]>> /\ s[2] \in 1..m - 1 /\ i[t][s[2]] = b
        <4>1. s = <<t, s[2]>>
          BY <2>0, <2>1
        <4>2. s[2] \in 1..Len(i[t]) /\ i[t][s[2]] = b
          BY <2>1 DEF RefsOf
        <4> QED BY <4>1, <4>2, <1>1
      <3> DEFINE r == <<t, s[2] + 1>>
      <3>2. s[2] + 1 \in 1..m /\ h[t][s[2] + 1] = b /\ s[2] + 1 \in Nat /\ s[2] + 1 # 1
        BY <1>1, <3>1
      <3>3. r \in R
        BY <3>2 DEF RefsOf
      <3>4. r \in D /\ r[1] = t /\ r[2] - 1 = s[2]
        BY <3>1, <3>2, <3>3
      <3>5. f[r] = s
        BY <3>1, <3>4
      <3> QED BY <3>4, <3>5
    <2>2. CASE s[1] # t
      <3>1. s \in R /\ s # old
        BY <2>0, <2>2 DEF RefsOf, Others
      <3> QED BY <2>2, <3>1
    <2> QED BY <2>1, <2>2
  <1>8. IsFiniteSet(D) /\ Cardinality(D) = IF b = c THEN n - 1 ELSE n
    <2> HIDE DEF R, old
    <2> QED BY <1>2, FS_RemoveElement DEF CountIs, R
  <1>9. f \in Bijection(D, S)
    <2>1. f \in [D -> S]
      BY <1>5
    <2> HIDE DEF f, D, S
    <2> QED BY <2>1, <1>6, <1>7 DEF Bijection, Injection, Surjection, IsInjective
  <1>10. IsFiniteSet(S) /\ Cardinality(S) = Cardinality(D)
    <2> HIDE DEF f, D, S
    <2> QED BY <1>8, <1>9, FS_Bijection DEF ExistsBijection
  <1> QED BY <1>8, <1>10 DEF CountIs

-----------------------------------------------------------------------------
(* The free list. *)
LEMMA BestIsUnused ==
  ASSUME ListOK, Unused # {}
  PROVE  Best \in Unused /\ Unused \subseteq Buffers
  <1> DEFINE least == {b \in Unused : \A c \in Unused : Badness(b) <= Badness(c)}
             places == {i \in Buffers : free_list[i] \in least}
             values == {Badness(b) : b \in Unused}
  <1>1. Unused \subseteq Buffers /\ Buffers \subseteq Nat
    BY BufferCacheAssumption DEF Unused, Buffers
  <1>2. values \subseteq Nat /\ values # {}
    BY DEF Badness
  <1>3. PICK k \in values : \A n \in values : k <= n
    <2> HIDE DEF values
    <2> QED BY <1>2, MinIsLeast
  <1>4. PICK b \in Unused : Badness(b) = k
    BY <1>3
  <1>5. b \in least
    BY <1>3, <1>4
  <1>6. places # {} /\ places \subseteq Nat
    BY <1>1, <1>5 DEF ListOK
  <1>7. Min(places) \in places
    <2> HIDE DEF places
    <2> QED BY <1>6, MinIsLeast
  <1>8. Best = free_list[Min(places)]
    BY DEF Best
  <1> QED BY <1>1, <1>7, <1>8

LEMMA MovedToEnd ==
  ASSUME ListOK, NEW b \in Buffers, MoveToEnd(b)
  PROVE  ListOK'
  <1> DEFINE places == {i \in Buffers : free_list[i] = b}
             place == Min(places)
             N == NR_BUFFERS
  <1>1. N \in Nat /\ N > 0 /\ Buffers = 1..N /\ places \subseteq Nat /\ places # {}
    <2>1. N \in Nat /\ N > 0 /\ Buffers = 1..N
      BY BufferCacheAssumption DEF Buffers
    <2>2. places # {}
      BY DEF ListOK
    <2> QED BY <2>1, <2>2
  <1>2. place \in Buffers /\ free_list[place] = b
    <2>1. place \in places
      <3> HIDE DEF places
      <3> QED BY <1>1, MinIsLeast
    <2> QED BY <2>1
  <1>3. free_list' = [i \in Buffers |-> IF i = N THEN b ELSE IF i < place THEN free_list[i] ELSE free_list[i + 1]]
    BY DEF MoveToEnd
  <1> HIDE DEF place, places
  <1>4. free_list' \in [Buffers -> Buffers]
    <2>1. \A i \in Buffers : i # N => i + 1 \in Buffers
      BY <1>1
    <2> QED BY <1>3, <2>1 DEF ListOK
  <1>5. ASSUME NEW c \in Buffers PROVE \E i \in Buffers : free_list'[i] = c
    <2>1. CASE c = b
      BY <1>1, <1>3, <2>1
    <2>2. CASE c # b
      <3>1. PICK j \in Buffers : free_list[j] = c
        BY DEF ListOK
      <3>2. CASE j < place
        <4>1. j # N
          BY <1>1, <1>2, <3>2
        <4> QED BY <1>3, <3>1, <3>2, <4>1
      <3>3. CASE j > place
        <4>1. j - 1 \in Buffers /\ j - 1 # N /\ ~(j - 1 < place) /\ (j - 1) + 1 = j
          BY <1>1, <1>2, <3>3
        <4> QED BY <1>3, <3>1, <4>1
      <3> QED BY <1>1, <1>2, <2>2, <3>1, <3>2, <3>3
    <2> QED BY <2>1, <2>2
  <1> QED BY <1>4, <1>5 DEF ListOK

-----------------------------------------------------------------------------
(* All buffers are free, and nobody asks for one. *)
LEMMA InitCInv == Init => CInv
  <1> SUFFICES ASSUME Init PROVE CInv
    OBVIOUS
  <1>1. ASSUME NEW b \in Buffers PROVE CountIs(count[b], Refs(b))
    <2>1. Refs(b) = {}
      BY DEF Init, Refs, RefsOf, Taking
    <2> QED BY <2>1, FS_EmptySet DEF Init, CountIs
  <1>2. ASSUME NEW t \in Tasks PROVE BuffersOK(t)
    BY DEF Init, BuffersOK, Taking, Asking, Scanning
  <1>3. ListOK
    BY DEF Init, ListOK
  <1>4. held \in [Tasks -> Seq(Buffers)]
    BY DEF Init
  <1> QED BY <1>1, <1>2, <1>3, <1>4 DEF Init, CInv, SleepersWillWake

(* A buffer that somebody has a reference to is counted. *)
LEMMA Counted ==
  ASSUME CInv, NEW b \in Buffers
  PROVE  count[b] \in Nat /\ (count[b] = 0 <=> Refs(b) = {})
  <1>1. CountIs(count[b], Refs(b))
    BY DEF CInv
  <1> QED BY <1>1, FS_EmptySet, FS_CardinalityType DEF CountIs

LEMMA ServesStill ==
  ASSUME NEW q, NEW c, NEW n, NEW h, NEW k, NEW m, Serves(q, c, n, h, k),
         \A i \in 1..Len(h) : m[h[i]] = k[h[i]]
  PROVE  Serves(q, c, n, h, m)
  <1>1. ASSUME NEW i \in 1..Len(h)
        PROVE  \E j \in 1..n : m[h[i]] = c[2][j]
    <2>1. PICK j \in 1..n : k[h[i]] = c[2][j]
      BY DEF Serves
    <2> QED BY <2>1
  <1> QED BY <1>1 DEF Serves

(* The other tasks, as long as no block of a counted buffer is exchanged. *)
LEMMA OthersAreOK ==
  ASSUME CInv, NEW t \in Tasks, Others(t, pc, pc'), Others(t, bh, bh'), Others(t, call, call'),
         Others(t, held, held'), asleep' \subseteq asleep \cup {t},
         \A b \in Buffers : Refs(b) # {} => key'[b] = key[b],
         NEW u \in Tasks \ {t}
  PROVE  BuffersOK(u)'
  <1>1. /\ pc'[u] = pc[u] /\ bh'[u] = bh[u] /\ call'[u] = call[u] /\ held'[u] = held[u]
        /\ u \in asleep' => u \in asleep
    BY DEF Others
  <1>2. BuffersOK(u) /\ held[u] \in Seq(Buffers)
    BY DEF CInv
  <1>3. pc[u] \in Taking => key'[bh[u]] = key[bh[u]]
    <2> SUFFICES ASSUME pc[u] \in Taking PROVE key'[bh[u]] = key[bh[u]]
      OBVIOUS
    <2>1. bh[u] \in Buffers
      BY <1>2 DEF BuffersOK
    <2>2. <<u, 0>> \in Tasks \X Nat
      OBVIOUS
    <2>3. <<u, 0>> \in Refs(bh[u])
      BY <2>2 DEF Refs, RefsOf
    <2> QED BY <2>1, <2>3
  <1>4. \A i \in 1..Len(held[u]) : key'[held[u][i]] = key[held[u][i]]
    <2> TAKE i \in 1..Len(held[u])
    <2>1. held[u][i] \in Buffers /\ i \in Nat
      BY <1>2
    <2>2. <<u, i>> \in Tasks \X Nat
      BY <2>1
    <2>3. <<u, i>> \in Refs(held[u][i])
      BY <2>2 DEF Refs, RefsOf
    <2> QED BY <2>1, <2>3
  <1>5. Asking(u)' => \E c, n : Serves(call'[u], c, n, held'[u], key')
    <2> SUFFICES ASSUME Asking(u)' PROVE \E c, n : Serves(call'[u], c, n, held'[u], key')
      OBVIOUS
    <2>1. Asking(u)
      BY <1>1 DEF Asking, Scanning
    <2>2. PICK c, n : Serves(call[u], c, n, held[u], key)
      BY <1>2, <2>1 DEF BuffersOK
    <2>3. Serves(call'[u], c, n, held'[u], key')
      BY <1>1, <1>4, <2>2, ServesStill
    <2> QED BY <2>3
  <1> QED BY <1>1, <1>2, <1>3, <1>5 DEF BuffersOK, Scanning, Wanted

(* The steps of t that refer to no more buffers and no fewer. *)
LEMMA CountsAreKept ==
  ASSUME CInv, NEW t \in Tasks, Others(t, pc, pc'), Others(t, bh, bh'), Others(t, held, held'),
         \/ pc[t] \notin Taking /\ pc'[t] \notin Taking
         \/ pc[t] \in Taking /\ pc'[t] \in Taking /\ bh'[t] = bh[t],
         held'[t] = held[t], count' = count,
         NEW b \in Buffers
  PROVE  CountIs(count[b], Refs(b))'
  <1>1. pc'[t] \in Taking /\ bh'[t] = b <=> pc[t] \in Taking /\ bh[t] = b
    OBVIOUS
  <1>2. RefsOf(pc', bh', held', b) = RefsOf(pc, bh, held, b)
    BY <1>1, RefsKept
  <1>3. Refs(b)' = Refs(b)
    BY <1>2 DEF Refs
  <1> QED BY <1>3 DEF CInv

LEMMA FrameStep ==
  ASSUME CInv, DOMAIN pc = Tasks, NEW t \in Tasks, NEW l, pc' = [pc EXCEPT ![t] = l],
         UNCHANGED <<key, count, free_list, asleep, call, held>>,
         Others(t, bh, bh'), DOMAIN bh' = Tasks,
         pc[t] \notin Taking, l \notin Taking, l # "buffer_wait", t \notin asleep,
         l \in {"find", "free"} => Asking(t),
         l = "free" => bh'[t] \in Buffers,
         l \in {"inodes", "next", "scan"} /\ call[t] # NULL => Asking(t) /\ bh'[t] \in Buffers,
         l \in {"read", "brelse"} => held[t] # <<>>
  PROVE  CInv'
  <1>1. Others(t, pc, pc') /\ pc'[t] = l
    BY DEF Others
  <1>2. Others(t, call, call') /\ Others(t, held, held')
    BY DEF Others
  <1>3. \A b \in Buffers : CountIs(count[b], Refs(b))'
    BY <1>1, <1>2, CountsAreKept
  <1>4. \A u \in Tasks \ {t} : BuffersOK(u)'
    BY <1>1, <1>2, OthersAreOK
  <1>5. BuffersOK(t)'
    <2>1. Asking(t)' => Asking(t)
      BY <1>1 DEF Asking, Scanning, Taking
    <2>2. Asking(t)' => \E c, n : Serves(call[t], c, n, held[t], key)
      BY <2>1 DEF CInv, BuffersOK
    <2> QED BY <1>1, <2>2 DEF BuffersOK, Scanning
  <1>6. SleepersWillWake'
    <2> SUFFICES ASSUME asleep # {}
                 PROVE  \E u \in Tasks \ asleep : held[u] # <<>> \/ pc'[u] \in {"hash", "got"}
      BY DEF SleepersWillWake
    <2>1. PICK u \in Tasks \ asleep : held[u] # <<>> \/ pc[u] \in {"hash", "got"}
      BY DEF CInv, SleepersWillWake
    <2> QED BY <2>1, <1>1 DEF Others, Taking
  <1>7. ListOK'
    BY DEF CInv, ListOK
  <1>8. \A u \in Tasks : BuffersOK(u)'
    BY <1>4, <1>5
  <1> QED BY <1>3, <1>6, <1>7, <1>8 DEF CInv

-----------------------------------------------------------------------------
(* get_hash_table counts a buffer that is in the queue. *)
LEMMA FindsCached ==
  ASSUME CInv, DOMAIN pc = Tasks, NEW t \in Tasks, pc[t] = "find", NEW c \in Cached(Wanted(t)),
         pc' = [pc EXCEPT ![t] = "hash"], bh' = [bh EXCEPT ![t] = c],
         count' = [count EXCEPT ![c] = @ + 1],
         UNCHANGED <<key, free_list, asleep, call, held>>
  PROVE  CInv'
  <1>1. /\ Others(t, pc, pc') /\ Others(t, bh, bh') /\ Others(t, call, call') /\ Others(t, held, held')
        /\ pc'[t] = "hash" /\ bh'[t] = c /\ held'[t] = held[t] /\ DOMAIN bh' = Tasks
        /\ pc[t] \notin Taking /\ pc'[t] \in Taking /\ c \in Buffers /\ key[c] = Wanted(t)
    BY DEF Others, Taking, Cached, CInv
  <1>2. ASSUME NEW b \in Buffers PROVE CountIs(count[b], Refs(b))'
    <2>1. count[b] \in Int /\ CountIs(count[b], RefsOf(pc, bh, held, b))
      BY Counted DEF CInv, Refs
    <2>2. CountIs(IF b = c THEN count[b] + 1 ELSE count[b], RefsOf(pc', bh', held', b))
      BY <1>1, <2>1, RefsMore
    <2>3. count'[b] = IF b = c THEN count[b] + 1 ELSE count[b]
      BY DEF CInv
    <2> QED BY <2>2, <2>3 DEF Refs
  <1>3. \A u \in Tasks \ {t} : BuffersOK(u)'
    BY <1>1, OthersAreOK
  <1>4. BuffersOK(t)'
    <2>1. \E d, n : Serves(call[t], d, n, held[t], key)
      BY DEF CInv, BuffersOK, Asking
    <2> QED BY <1>1, <2>1 DEF BuffersOK, Scanning, Wanted, CInv
  <1>5. SleepersWillWake'
    <2> SUFFICES ASSUME asleep # {}
                 PROVE  \E u \in Tasks \ asleep : held[u] # <<>> \/ pc'[u] \in {"hash", "got"}
      BY DEF SleepersWillWake
    <2>1. t \notin asleep
      BY DEF CInv, BuffersOK
    <2> QED BY <2>1, <1>1
  <1>6. ListOK' /\ DOMAIN count' = Buffers
    BY DEF CInv, ListOK
  <1>7. \A u \in Tasks : BuffersOK(u)'
    BY <1>3, <1>4
  <1> QED BY <1>1, <1>2, <1>5, <1>6, <1>7 DEF CInv

(* The buffer is still the one that was wanted: who has counted it holds on
   to it while get_hash_table waits. *)
LEMMA HashStep ==
  ASSUME CInv, DOMAIN pc = Tasks, NEW t \in Tasks, Hash(t)
  PROVE  CInv'
  <1>1. pc[t] = "hash" /\ key[bh[t]] = Wanted(t)
    BY DEF Hash, CInv, BuffersOK, Taking
  <1>2. pc' = [pc EXCEPT ![t] = "got"] /\ UNCHANGED <<key, count, free_list, asleep, call, bh, held>>
    BY <1>1 DEF Hash, Goto
  <1>3. /\ Others(t, pc, pc') /\ Others(t, bh, bh') /\ Others(t, call, call') /\ Others(t, held, held')
        /\ pc'[t] = "got" /\ pc[t] \in Taking /\ pc'[t] \in Taking
    BY <1>1, <1>2 DEF Others, Taking
  <1>4. \A b \in Buffers : CountIs(count[b], Refs(b))'
    BY <1>2, <1>3, CountsAreKept
  <1>5. \A u \in Tasks \ {t} : BuffersOK(u)'
    BY <1>2, <1>3, OthersAreOK
  <1>6. BuffersOK(t)'
    <2>1. \E c, n : Serves(call[t], c, n, held[t], key)
      BY <1>1 DEF CInv, BuffersOK, Asking
    <2>2. bh[t] \in Buffers /\ t \notin asleep
      BY <1>1 DEF CInv, BuffersOK, Taking
    <2> QED BY <1>1, <1>2, <1>3, <2>1, <2>2 DEF BuffersOK, Scanning, Wanted
  <1>7. SleepersWillWake'
    <2> SUFFICES ASSUME asleep # {}
                 PROVE  \E u \in Tasks \ asleep : held[u] # <<>> \/ pc'[u] \in {"hash", "got"}
      BY <1>2 DEF SleepersWillWake
    <2>1. t \notin asleep
      BY <1>1 DEF CInv, BuffersOK
    <2> QED BY <2>1, <1>3
  <1>8. ListOK'
    BY <1>2 DEF CInv, ListOK
  <1>9. \A u \in Tasks : BuffersOK(u)'
    BY <1>5, <1>6
  <1> QED BY <1>2, <1>4, <1>7, <1>8, <1>9 DEF CInv

(* getblk takes a buffer that nobody refers to. *)
LEMMA TakeStep ==
  ASSUME CInv, DOMAIN pc = Tasks, DOMAIN key = Buffers, NEW t \in Tasks, pc[t] = "free",
         count[bh[t]] = 0, Take(t, bh[t]), UNCHANGED <<asleep, call, bh, held>>
  PROVE  CInv'
  <1> DEFINE c == bh[t]
  <1>1. c \in Buffers /\ t \notin asleep
    BY DEF CInv, BuffersOK
  <1>2. /\ key' = [key EXCEPT ![c] = Wanted(t)] /\ count' = [count EXCEPT ![c] = 1]
        /\ MoveToEnd(c) /\ pc' = [pc EXCEPT ![t] = "got"]
    BY DEF Take, Goto
  <1>3. /\ Others(t, pc, pc') /\ Others(t, bh, bh') /\ Others(t, call, call') /\ Others(t, held, held')
        /\ pc'[t] = "got" /\ bh'[t] = c /\ held'[t] = held[t]
        /\ pc[t] \notin Taking /\ pc'[t] \in Taking
    BY <1>2 DEF Others, Taking
  <1>4. Refs(c) = {}
    BY <1>1, Counted
  <1>5. \A b \in Buffers : Refs(b) # {} => key'[b] = key[b]
    BY <1>1, <1>2, <1>4
  <1>6. ASSUME NEW b \in Buffers PROVE CountIs(count[b], Refs(b))'
    <2>1. count[b] \in Int /\ CountIs(count[b], RefsOf(pc, bh, held, b))
      BY Counted DEF CInv, Refs
    <2>2. CountIs(IF b = c THEN count[b] + 1 ELSE count[b], RefsOf(pc', bh', held', b))
      BY <1>3, <2>1, RefsMore
    <2>3. count'[b] = IF b = c THEN count[b] + 1 ELSE count[b]
      BY <1>1, <1>2 DEF CInv
    <2> QED BY <2>2, <2>3 DEF Refs
  <1>7. \A u \in Tasks \ {t} : BuffersOK(u)'
    BY <1>3, <1>5, OthersAreOK
  <1>8. BuffersOK(t)'
    <2>1. PICK d, n : Serves(call[t], d, n, held[t], key)
      BY DEF CInv, BuffersOK, Asking
    <2>2. \A i \in 1..Len(held[t]) : key'[held[t][i]] = key[held[t][i]]
      <3> TAKE i \in 1..Len(held[t])
      <3>1. held[t][i] \in Buffers /\ i \in Nat
        BY DEF CInv
      <3>2. <<t, i>> \in Tasks \X Nat
        BY <3>1
      <3>3. <<t, i>> \in Refs(held[t][i])
        BY <3>2 DEF Refs, RefsOf
      <3> QED BY <3>1, <3>3, <1>5
    <2>3. Serves(call'[t], d, n, held'[t], key')
      BY <2>1, <2>2, ServesStill
    <2>4. key'[c] = Wanted(t)
      BY <1>1, <1>2
    <2>5. \E e, m : Serves(call'[t], e, m, held'[t], key')
      BY <2>3
    <2> QED BY <1>1, <1>3, <2>4, <2>5 DEF BuffersOK, Scanning, Wanted
  <1>9. SleepersWillWake'
    <2> SUFFICES ASSUME asleep # {}
                 PROVE  \E u \in Tasks \ asleep : held[u] # <<>> \/ pc'[u] \in {"hash", "got"}
      BY DEF SleepersWillWake
    <2> QED BY <1>1, <1>3
  <1>10. ListOK' /\ DOMAIN count' = Buffers
    BY <1>1, <1>2, MovedToEnd DEF CInv
  <1>11. \A u \in Tasks : BuffersOK(u)'
    BY <1>7, <1>8
  <1> QED BY <1>6, <1>9, <1>10, <1>11 DEF CInv

-----------------------------------------------------------------------------
LEMMA SecondOf ==
  ASSUME NEW q, NEW a, NEW b, q = <<a, b>>, NEW c
  PROVE  [q EXCEPT ![2] = c] = <<a, c>>
  OBVIOUS

(* The next block of a call, the one before being held, or not. *)
LEMMA Advances ==
  ASSUME NEW q, NEW c, NEW n, NEW h, NEW k, Serves(q, c, n, h, k), Len(q[2]) > 1,
         NEW r, r = <<q[1], Tail(q[2])>>,
         NEW i, \A j \in 1..Len(i) : k[i[j]] = Head(q[2]) \/ \E l \in 1..Len(h) : i[j] = h[l]
  PROVE  Serves(r, c, n + 1, i, k)
  <1>1. /\ c \in Calls /\ n \in Nat /\ n < Len(c[2])
        /\ q = <<q[1], q[2]>> /\ q[2] \in Seq(Keys) /\ Len(q[2]) = Len(c[2]) - n
        /\ \A j \in 1..Len(q[2]) : q[2][j] = c[2][n + j]
    BY DEF Serves
  <1>2. r[1] = q[1] /\ r[2] = Tail(q[2])
    OBVIOUS
  <1>3. /\ Tail(q[2]) \in Seq(Keys) /\ Len(Tail(q[2])) = Len(q[2]) - 1 /\ Head(q[2]) = q[2][1]
        /\ \A j \in 1..Len(q[2]) - 1 : Tail(q[2])[j] = q[2][j + 1]
    <2> DEFINE s == q[2]
    <2>1. s \in Seq(Keys) /\ Len(s) > 1
      BY <1>1
    <2> HIDE DEF s
    <2>2. /\ Tail(s) \in Seq(Keys) /\ Len(Tail(s)) = Len(s) - 1 /\ Head(s) = s[1]
          /\ \A j \in 1..Len(s) - 1 : Tail(s)[j] = s[j + 1]
      BY <2>1
    <2> QED BY <2>2 DEF s
  <1>4. Len(c[2]) \in Nat
    BY <1>1, BufferCacheAssumption
  <1>5. n + 1 \in Nat /\ n + 1 < Len(c[2]) /\ Len(r[2]) = Len(c[2]) - (n + 1)
    BY <1>1, <1>2, <1>3, <1>4
  <1>6. ASSUME NEW j \in 1..Len(r[2]) PROVE r[2][j] = c[2][(n + 1) + j]
    <2>0. Len(r[2]) = Len(q[2]) - 1 /\ Len(q[2]) \in Nat
      BY <1>1, <1>2, <1>3
    <2>1. j \in 1..Len(q[2]) - 1 /\ j + 1 \in 1..Len(q[2]) /\ n + (j + 1) = (n + 1) + j
      BY <1>1, <2>0
    <2>2. r[2][j] = q[2][j + 1]
      BY <1>2, <1>3, <2>1
    <2> QED BY <1>1, <2>1, <2>2
  <1>7. ASSUME NEW j \in 1..Len(i) PROVE \E l \in 1..n + 1 : k[i[j]] = c[2][l]
    <2>1. CASE k[i[j]] = Head(q[2])
      <3>1. 1 \in 1..Len(q[2]) /\ n + 1 \in 1..n + 1
        BY <1>1
      <3>2. k[i[j]] = c[2][n + 1]
        BY <1>1, <1>3, <2>1, <3>1
      <3> QED BY <3>1, <3>2
    <2>2. CASE \E l \in 1..Len(h) : i[j] = h[l]
      <3>1. PICK l \in 1..Len(h) : i[j] = h[l]
        BY <2>2
      <3>2. PICK m \in 1..n : k[h[l]] = c[2][m]
        BY DEF Serves
      <3>3. m \in 1..n + 1
        BY <1>1
      <3> QED BY <3>1, <3>2, <3>3
    <2> QED BY <2>1, <2>2
  <1>8. r = <<r[1], r[2]>> /\ r[2] \in Seq(Keys)
    <2>1. r = <<r[1], r[2]>>
      BY <1>2
    <2> QED BY <1>2, <1>3, <2>1
  <1> QED BY <1>1, <1>5, <1>6, <1>7, <1>8 DEF Serves

(* getblk returns; the caller goes on with its next block, or holds what it
   has. *)
GoesOn(t, l) ==
  \/ l \in {"out", "read", "brelse"} /\ call' = call
  \/ l = "find" /\ MoreBlocks(t) /\ call' = [call EXCEPT ![t][2] = Tail(@)]

LEMMA GotBufferStep ==
  ASSUME CInv, DOMAIN pc = Tasks, NEW t \in Tasks, pc[t] = "got",
         NEW l, pc' = [pc EXCEPT ![t] = l], GoesOn(t, l),
         held' = [held EXCEPT ![t] = Append(held[t], bh[t])], bh' = [bh EXCEPT ![t] = NULL],
         UNCHANGED <<key, count, free_list, asleep>>
  PROVE  CInv'
  <1> DEFINE c == bh[t]
  <1>1. /\ Others(t, pc, pc') /\ Others(t, bh, bh') /\ Others(t, call, call') /\ Others(t, held, held')
        /\ pc'[t] = l /\ held[t] \in Seq(Buffers) /\ held'[t] = Append(held[t], c)
        /\ c \in Buffers /\ key[c] = Wanted(t) /\ t \notin asleep
        /\ pc[t] \in Taking /\ pc'[t] \notin Taking
    BY DEF Others, Taking, GoesOn, CInv, BuffersOK
  <1>2. held'[t] \in Seq(Buffers) /\ held'[t] # <<>>
    BY <1>1
  <1>3. held' \in [Tasks -> Seq(Buffers)] /\ DOMAIN bh' = Tasks /\ DOMAIN call' = Tasks
    BY <1>2 DEF CInv, GoesOn
  <1>4. ASSUME NEW b \in Buffers PROVE CountIs(count[b], Refs(b))'
    <2>1. count[b] \in Int /\ CountIs(count[b], RefsOf(pc, bh, held, b))
      BY Counted DEF CInv, Refs
    <2>2. CountIs(count[b], RefsOf(pc', bh', held', b))
      BY <1>1, <2>1, RefsMoved
    <2> QED BY <2>2 DEF Refs
  <1>5. \A u \in Tasks \ {t} : BuffersOK(u)'
    BY <1>1, OthersAreOK
  <1>6. BuffersOK(t)'
    <2>1. Asking(t)' => \E d, n : Serves(call'[t], d, n, held'[t], key)
      <3> SUFFICES ASSUME Asking(t)' PROVE \E d, n : Serves(call'[t], d, n, held'[t], key)
        OBVIOUS
      <3>1. l = "find"
        BY <1>1 DEF Asking, Scanning, GoesOn
      <3>2. PICK d, n : Serves(call[t], d, n, held[t], key)
        BY DEF CInv, BuffersOK, Asking
      <3>3. call'[t] = <<call[t][1], Tail(call[t][2])>> /\ Len(call[t][2]) > 1
        <4>1. call'[t] = [call[t] EXCEPT ![2] = Tail(call[t][2])] /\ Len(call[t][2]) > 1
          BY <3>1 DEF GoesOn, CInv, MoreBlocks
        <4>2. call[t] = <<call[t][1], call[t][2]>>
          BY <3>2 DEF Serves
        <4> DEFINE q == call[t]
                   a == q[1]
                   b == q[2]
                   rest == Tail(b)
        <4>3. q = <<a, b>>
          BY <4>2
        <4> HIDE DEF q, a, b, rest
        <4>4. [q EXCEPT ![2] = rest] = <<a, rest>>
          BY <4>3, SecondOf
        <4> QED BY <4>1, <4>4 DEF q, a, b, rest
      <3>4. \A j \in 1..Len(held'[t]) :
              key[held'[t][j]] = Head(call[t][2]) \/ \E m \in 1..Len(held[t]) : held'[t][j] = held[t][m]
        <4> TAKE j \in 1..Len(held'[t])
        <4>1. j \in 1..Len(held[t]) \/ j = Len(held[t]) + 1
          BY <1>1
        <4>2. CASE j \in 1..Len(held[t])
          <5>1. held'[t][j] = held[t][j]
            BY <1>1, <4>2
          <5> QED BY <4>2, <5>1
        <4>3. CASE j = Len(held[t]) + 1
          <5>1. held'[t][j] = c
            BY <1>1, <4>3
          <5> QED BY <1>1, <5>1 DEF Wanted
        <4> QED BY <4>1, <4>2, <4>3
      <3>5. Serves(call'[t], d, n + 1, held'[t], key)
        <4> DEFINE q == call[t]
                   r == call'[t]
                   h == held[t]
                   i == held'[t]
        <4>1. Serves(q, d, n, h, key) /\ Len(q[2]) > 1 /\ r = <<q[1], Tail(q[2])>>
          BY <3>2, <3>3
        <4>2. \A j \in 1..Len(i) : key[i[j]] = Head(q[2]) \/ \E m \in 1..Len(h) : i[j] = h[m]
          BY <3>4, Zenon
        <4> HIDE DEF q, r, h, i
        <4>3. Serves(r, d, n + 1, i, key)
          BY <4>1, <4>2, Advances
        <4> QED BY <4>3, Zenon DEF r, i
      <3> QED BY <3>5
    <2> QED BY <1>1, <1>2, <2>1 DEF BuffersOK, Scanning, GoesOn
  <1>7. SleepersWillWake'
    BY <1>1, <1>2 DEF SleepersWillWake
  <1>8. ListOK'
    BY DEF CInv, ListOK
  <1>9. \A u \in Tasks : BuffersOK(u)'
    BY <1>5, <1>6
  <1> QED BY <1>3, <1>4, <1>7, <1>8, <1>9 DEF CInv

(* breada lets go of what it has read ahead. *)
LEMMA GotAheadStep ==
  ASSUME CInv, DOMAIN pc = Tasks, NEW t \in Tasks, pc[t] = "got", held[t] # <<>>,
         NEW l, pc' = [pc EXCEPT ![t] = l], GoesOn(t, l),
         count' = [count EXCEPT ![bh[t]] = @ - 1], bh' = [bh EXCEPT ![t] = NULL],
         UNCHANGED <<key, held, free_list, asleep>>
  PROVE  CInv'
  <1> DEFINE c == bh[t]
  <1>1. /\ Others(t, pc, pc') /\ Others(t, bh, bh') /\ Others(t, call, call') /\ Others(t, held, held')
        /\ pc'[t] = l /\ held'[t] = held[t]
        /\ c \in Buffers /\ t \notin asleep
        /\ pc[t] \in Taking /\ pc'[t] \notin Taking
    BY DEF Others, Taking, GoesOn, CInv, BuffersOK
  <1>2. DOMAIN bh' = Tasks /\ DOMAIN call' = Tasks /\ DOMAIN count' = Buffers
    BY DEF CInv, GoesOn
  <1>3. ASSUME NEW b \in Buffers PROVE CountIs(count[b], Refs(b))'
    <2>1. count[b] \in Int /\ CountIs(count[b], RefsOf(pc, bh, held, b))
      BY Counted DEF CInv, Refs
    <2>2. CountIs(IF b = c THEN count[b] - 1 ELSE count[b], RefsOf(pc', bh', held', b))
      BY <1>1, <2>1, RefsLess
    <2>3. count'[b] = IF b = c THEN count[b] - 1 ELSE count[b]
      BY <1>1 DEF CInv
    <2> QED BY <2>2, <2>3 DEF Refs
  <1>4. \A u \in Tasks \ {t} : BuffersOK(u)'
    BY <1>1, OthersAreOK
  <1>5. BuffersOK(t)'
    <2>1. Asking(t)' => \E d, n : Serves(call'[t], d, n, held'[t], key)
      <3> SUFFICES ASSUME Asking(t)' PROVE \E d, n : Serves(call'[t], d, n, held'[t], key)
        OBVIOUS
      <3>1. l = "find"
        BY <1>1 DEF Asking, Scanning, GoesOn
      <3>2. PICK d, n : Serves(call[t], d, n, held[t], key)
        BY DEF CInv, BuffersOK, Asking
      <3>3. call'[t] = <<call[t][1], Tail(call[t][2])>> /\ Len(call[t][2]) > 1
        <4>1. call'[t] = [call[t] EXCEPT ![2] = Tail(call[t][2])] /\ Len(call[t][2]) > 1
          BY <3>1 DEF GoesOn, CInv, MoreBlocks
        <4>2. call[t] = <<call[t][1], call[t][2]>>
          BY <3>2 DEF Serves
        <4> DEFINE q == call[t]
                   a == q[1]
                   b == q[2]
                   rest == Tail(b)
        <4>3. q = <<a, b>>
          BY <4>2
        <4> HIDE DEF q, a, b, rest
        <4>4. [q EXCEPT ![2] = rest] = <<a, rest>>
          BY <4>3, SecondOf
        <4> QED BY <4>1, <4>4 DEF q, a, b, rest
      <3>4. \A j \in 1..Len(held[t]) : \E m \in 1..Len(held[t]) : held[t][j] = held[t][m]
        OBVIOUS
      <3>5. Serves(call'[t], d, n + 1, held'[t], key)
        BY <3>2, <3>3, <3>4, Advances
      <3> QED BY <3>5
    <2> QED BY <1>1, <2>1 DEF BuffersOK, Scanning, GoesOn
  <1>6. SleepersWillWake'
    BY <1>1 DEF SleepersWillWake
  <1>7. ListOK'
    BY DEF CInv, ListOK
  <1>8. \A u \in Tasks : BuffersOK(u)'
    BY <1>4, <1>5
  <1> QED BY <1>2, <1>3, <1>6, <1>7, <1>8 DEF CInv

LEMMA GotCounts ==
  ASSUME CInv, DOMAIN pc = Tasks, NEW t \in Tasks, Got(t)
  PROVE  CInv'
  <1>1. /\ pc[t] = "got" /\ bh' = [bh EXCEPT ![t] = NULL] /\ UNCHANGED <<key, free_list, asleep>>
        /\ (held[t] # <<>> /\ GotAhead(t)) \/ GotBuffer(t)
    BY DEF Got
  <1>2. CASE held[t] # <<>> /\ GotAhead(t)
    <2>1. \E l : pc' = [pc EXCEPT ![t] = l] /\ GoesOn(t, l)
      BY <1>2 DEF GotAhead, GoesOn, Goto, WaitOn
    <2>2. count' = [count EXCEPT ![bh[t]] = @ - 1] /\ held' = held
      BY <1>2 DEF GotAhead
    <2> QED BY <1>1, <1>2, <2>1, <2>2, GotAheadStep
  <1>3. CASE GotBuffer(t)
    <2>1. \E l : pc' = [pc EXCEPT ![t] = l] /\ GoesOn(t, l)
      BY <1>3 DEF GotBuffer, GoesOn, Goto, WaitOn, Return
    <2>2. count' = count /\ held' = [held EXCEPT ![t] = Append(held[t], bh[t])]
      BY <1>3 DEF GotBuffer
    <2> QED BY <1>1, <2>1, <2>2, GotBufferStep
  <1> QED BY <1>1, <1>2, <1>3

-----------------------------------------------------------------------------
(* brelse drops a reference and wakes everybody. *)
LEMMA BrelseCounts ==
  ASSUME CInv, DOMAIN pc = Tasks, NEW t \in Tasks, Brelse(t)
  PROVE  CInv'
  <1> DEFINE c == Head(held[t])
  <1>1. /\ pc[t] = "brelse" /\ count' = [count EXCEPT ![c] = @ - 1] /\ asleep' = {}
        /\ held' = [held EXCEPT ![t] = Tail(@)]
        /\ UNCHANGED <<key, free_list, call, bh>>
    BY DEF Brelse
  <1>2. PICK l \in {"out", "brelse"} : pc' = [pc EXCEPT ![t] = l] /\ (l = "brelse" => Len(held[t]) > 1)
    <2>1. CASE Len(held[t]) > 1
      <3>1. pc' = [pc EXCEPT ![t] = "brelse"]
        BY <2>1 DEF Brelse, WaitOn, Goto
      <3> QED BY <2>1, <3>1
    <2>2. CASE ~(Len(held[t]) > 1)
      <3>1. pc' = [pc EXCEPT ![t] = "out"]
        BY <2>2 DEF Brelse, Return, Goto
      <3> QED BY <3>1
    <2> QED BY <2>1, <2>2
  <1>3. held[t] \in Seq(Buffers) /\ held[t] # <<>> /\ t \in DOMAIN held
    BY <1>1 DEF CInv, BuffersOK
  <1>4. c \in Buffers /\ Tail(held[t]) \in Seq(Buffers) /\ (l = "brelse" => Tail(held[t]) # <<>>)
    <2> DEFINE s == held[t]
    <2>1. s \in Seq(Buffers) /\ s # <<>> /\ (l = "brelse" => Len(s) > 1)
      BY <1>2, <1>3
    <2> HIDE DEF s
    <2>2. Head(s) \in Buffers /\ Tail(s) \in Seq(Buffers) /\ (Len(s) > 1 => Tail(s) # <<>>)
      BY <2>1
    <2> QED BY <2>1, <2>2 DEF s
  <1> HIDE DEF c
  <1>5. /\ Others(t, pc, pc') /\ Others(t, bh, bh') /\ Others(t, call, call') /\ Others(t, held, held')
        /\ pc'[t] = l /\ held'[t] = Tail(held[t]) /\ bh'[t] = bh[t]
        /\ pc[t] \notin Taking /\ pc'[t] \notin Taking
    BY <1>1, <1>2, <1>3 DEF Others, Taking
  <1>6. held' \in [Tasks -> Seq(Buffers)] /\ DOMAIN count' = Buffers
    BY <1>1, <1>4 DEF CInv
  <1>7. ASSUME NEW b \in Buffers PROVE CountIs(count[b], Refs(b))'
    <2>1. count[b] \in Int /\ CountIs(count[b], RefsOf(pc, bh, held, b))
      BY Counted DEF CInv, Refs
    <2>2. CountIs(IF b = c THEN count[b] - 1 ELSE count[b], RefsOf(pc', bh', held', b))
      BY <1>3, <1>5, <2>1, RefsTail DEF c
    <2>3. count'[b] = IF b = c THEN count[b] - 1 ELSE count[b]
      BY <1>1, <1>4 DEF CInv
    <2> QED BY <2>2, <2>3 DEF Refs
  <1>8. \A u \in Tasks \ {t} : BuffersOK(u)'
    BY <1>1, <1>5, OthersAreOK
  <1>9. BuffersOK(t)'
    BY <1>1, <1>2, <1>4, <1>5 DEF BuffersOK, Asking, Scanning
  <1>10. SleepersWillWake' /\ ListOK'
    BY <1>1 DEF SleepersWillWake, CInv, ListOK
  <1>11. \A u \in Tasks : BuffersOK(u)'
    BY <1>8, <1>9
  <1> QED BY <1>1, <1>6, <1>7, <1>10, <1>11 DEF CInv

(* A task begins a call or a loop, and holds nothing. *)
LEMMA BeginStep ==
  ASSUME CInv, DOMAIN pc = Tasks, NEW t \in Tasks, pc[t] = "out", held[t] = <<>>,
         NEW l, pc' = [pc EXCEPT ![t] = l], NEW c, call' = [call EXCEPT ![t] = c],
         (l = "find" /\ c \in Calls) \/ (l \in {"inodes", "next"} /\ c = NULL),
         UNCHANGED <<key, count, free_list, asleep, bh, held>>
  PROVE  CInv'
  <1>1. /\ Others(t, pc, pc') /\ Others(t, bh, bh') /\ Others(t, call, call') /\ Others(t, held, held')
        /\ pc'[t] = l /\ call'[t] = c /\ DOMAIN call' = Tasks /\ t \notin asleep
        /\ pc[t] \notin Taking /\ pc'[t] \notin Taking
    BY DEF Others, Taking, CInv, BuffersOK
  <1>2. \A b \in Buffers : CountIs(count[b], Refs(b))'
    BY <1>1, CountsAreKept
  <1>3. \A u \in Tasks \ {t} : BuffersOK(u)'
    BY <1>1, OthersAreOK
  <1>4. l = "find" => Serves(c, c, 0, <<>>, key)
    <2> SUFFICES ASSUME c \in Calls PROVE Serves(c, c, 0, <<>>, key)
      OBVIOUS
    <2>1. c = <<c[1], c[2]>> /\ c[2] \in Seq(Keys) /\ c[2] # <<>>
      BY BufferCacheAssumption
    <2>2. Len(c[2]) \in Nat /\ Len(c[2]) > 0
      BY <2>1
    <2> QED BY <2>1, <2>2 DEF Serves
  <1>5. BuffersOK(t)'
    <2>1. Asking(t)' => l = "find"
      BY <1>1 DEF Asking, Scanning
    <2>2. Asking(t)' => \E d, n : Serves(call'[t], d, n, held'[t], key')
      BY <1>1, <1>4, <2>1
    <2> QED BY <1>1, <2>2 DEF BuffersOK, Scanning, Taking
  <1>6. SleepersWillWake'
    <2> SUFFICES ASSUME asleep # {}
                 PROVE  \E u \in Tasks \ asleep : held[u] # <<>> \/ pc'[u] \in {"hash", "got"}
      BY DEF SleepersWillWake
    <2>1. PICK u \in Tasks \ asleep : held[u] # <<>> \/ pc[u] \in {"hash", "got"}
      BY DEF CInv, SleepersWillWake
    <2> QED BY <2>1, <1>1 DEF Others
  <1>7. ListOK'
    BY DEF CInv, ListOK
  <1>8. \A u \in Tasks : BuffersOK(u)'
    BY <1>3, <1>5
  <1> QED BY <1>1, <1>2, <1>6, <1>7, <1>8 DEF CInv

(* What does not concern the references, and no task goes anywhere. *)
LEMMA NobodyMoves ==
  ASSUME CInv, UNCHANGED <<key, count, free_list, asleep, pc, call, bh, held>>
  PROVE  CInv'
  <1>1. ASSUME NEW t \in Tasks PROVE BuffersOK(t)'
    <2>1. BuffersOK(t)
      BY DEF CInv
    <2> QED BY <2>1 DEF BuffersOK, Asking, Scanning, Wanted
  <1>2. ASSUME NEW b \in Buffers PROVE CountIs(count[b], Refs(b))'
    BY DEF CInv, Refs
  <1> QED BY <1>1, <1>2 DEF CInv, ListOK, SleepersWillWake

(* When all buffers are in use and the blocks that may be held by tasks that
   ask for more do not fill the cache, somebody holds a buffer and does not
   ask for another. *)
LEMMA SomebodyHasIt ==
  ASSUME CInv, OneBufferPerBlock, EnoughBuffers, Unused = {},
         NEW t \in Tasks, pc[t] = "find"
  PROVE  \E u \in Tasks \ (asleep \cup {t}) : held[u] # <<>> \/ pc[u] \in Taking
  <1> SUFFICES ASSUME \A u \in Tasks \ (asleep \cup {t}) : held[u] = <<>> /\ pc[u] \notin Taking
               PROVE  FALSE
    OBVIOUS
  <1> DEFINE Sleepers == asleep \cup {t}
             Of(u) == CHOOSE c : \E n : Serves(call[u], c, n, held[u], key)
             f == [u \in Tasks |-> IF u \in Sleepers THEN Of(u) ELSE Of(t)]
             blocks == UNION {Early(f[u]) : u \in Tasks}
  <1>1. \A u \in Sleepers : u \in Tasks /\ pc[u] \notin Taking /\ Asking(u)
    BY DEF CInv, BuffersOK, Taking, Asking
  <1>2. ASSUME NEW u \in Sleepers PROVE \E n : Serves(call[u], Of(u), n, held[u], key)
    <2>1. \E c : \E n : Serves(call[u], c, n, held[u], key)
      BY <1>1 DEF CInv, BuffersOK
    <2> QED BY <2>1
  <1>3. f \in [Tasks -> Calls]
    <2>1. \A u \in Sleepers : Of(u) \in Calls
      BY <1>2 DEF Serves
    <2> HIDE DEF Of
    <2> QED BY <2>1
  <1>4. ASSUME NEW b \in Buffers PROVE key[b] \in blocks /\ key[b] # NoKey
    <2>1. Refs(b) # {}
      BY Counted DEF Unused
    <2>2. PICK r \in Tasks \X Nat : r \in Refs(b)
      BY <2>1 DEF Refs, RefsOf
    <2>3. /\ r[1] \in Tasks
          /\ \/ pc[r[1]] \in Taking
             \/ r[2] \in 1..Len(held[r[1]]) /\ held[r[1]][r[2]] = b
      BY <2>2 DEF Refs, RefsOf
    <2> DEFINE u == r[1]
               i == r[2]
    <2>4. u \in Sleepers /\ i \in 1..Len(held[u]) /\ held[u][i] = b
      <3>1. CASE u \in Sleepers
        BY <2>3, <3>1, <1>1
      <3>2. CASE u \notin Sleepers
        <4>1. held[u] = <<>> /\ pc[u] \notin Taking
          BY <2>3, <3>2
        <4> QED BY <2>3, <4>1
      <3> QED BY <3>1, <3>2
    <2> HIDE DEF u, i, Of
    <2>5. PICK n : Serves(call[u], Of(u), n, held[u], key)
      BY <1>2, <2>4
    <2>6. PICK j \in 1..n : key[b] = Of(u)[2][j]
      BY <2>4, <2>5 DEF Serves
    <2>7. n \in Nat /\ n < Len(Of(u)[2]) /\ Of(u) \in Calls
      BY <2>5 DEF Serves
    <2>8. Of(u)[2] \in Seq(Keys)
      BY <2>7, BufferCacheAssumption
    <2>9. j \in 1..Len(Of(u)[2]) - 1 /\ Of(u)[2][j] \in Keys
      BY <2>7, <2>8
    <2>10. key[b] \in Early(Of(u))
      BY <2>6, <2>9 DEF Early
    <2>11. u \in Tasks /\ f[u] = Of(u)
      BY <1>1, <2>4
    <2> HIDE DEF f
    <2>12. key[b] # NoKey
      BY <2>6, <2>9, BufferCacheAssumption DEF NoKey
    <2> QED BY <2>10, <2>11, <2>12
  <1>5. IsFiniteSet(blocks) /\ Cardinality(blocks) < NR_BUFFERS
    <2> HIDE DEF f
    <2> QED BY <1>3 DEF EnoughBuffers
  <1>6. IsFiniteSet(Buffers) /\ Cardinality(Buffers) = NR_BUFFERS
    BY FS_Interval, BufferCacheAssumption DEF Buffers
  <1> DEFINE g == [b \in Buffers |-> key[b]]
  <1> HIDE DEF f, blocks
  <1>7. g \in [Buffers -> blocks]
    BY <1>4
  <1>8. PICK b, c \in Buffers : b # c /\ g[b] = g[c]
    <2> HIDE DEF g
    <2> QED BY <1>5, <1>6, <1>7, FS_PigeonHole
  <1>9. key[b] = key[c]
    BY <1>8
  <1> QED BY <1>4, <1>8, <1>9 DEF OneBufferPerBlock

(* getblk finds the block, chooses a buffer for it, or sleeps. *)
LEMMA FindCounts ==
  ASSUME CInv, IInv, EnoughBuffers, NEW t \in Tasks, Find(t)
  PROVE  CInv'
  <1>1. /\ pc[t] = "find" /\ DOMAIN pc = Tasks /\ t \notin asleep
        /\ UNCHANGED <<key, free_list, call, held>>
    BY DEF Find, IInv, CacheTypeOK, CInv, BuffersOK
  <1>2. CASE \E b \in Cached(Wanted(t)) :
               /\ count' = [count EXCEPT ![b] = @ + 1]
               /\ bh' = [bh EXCEPT ![t] = b]
               /\ WaitOn(t, lock[b], "hash")
               /\ UNCHANGED asleep
    BY <1>1, <1>2, FindsCached DEF WaitOn, Goto
  <1>3. CASE /\ Cached(Wanted(t)) = {} /\ Unused # {}
             /\ bh' = [bh EXCEPT ![t] = Best]
             /\ WaitOn(t, lock[Best], "free")
             /\ UNCHANGED <<asleep, count>>
    <2>1. PICK l \in {"free"} : pc' = [pc EXCEPT ![t] = l]
      BY <1>3 DEF WaitOn, Goto
    <2>2. Best \in Buffers
      BY <1>3, BestIsUnused DEF CInv
    <2>3. Others(t, bh, bh') /\ DOMAIN bh' = Tasks /\ bh'[t] \in Buffers
      BY <1>3, <2>2 DEF Others, CInv
    <2>4. pc[t] \notin Taking /\ Asking(t)
      BY <1>1 DEF Taking, Asking
    <2> QED BY <1>1, <1>3, <2>1, <2>3, <2>4, FrameStep DEF Taking
  <1>4. CASE /\ Cached(Wanted(t)) = {} /\ Unused = {}
             /\ asleep' = asleep \cup {t}
             /\ Goto(t, "buffer_wait") /\ running' = NULL
             /\ UNCHANGED <<bh, count>>
    <2>1. /\ Others(t, pc, pc') /\ Others(t, bh, bh') /\ Others(t, call, call') /\ Others(t, held, held')
          /\ pc'[t] = "buffer_wait" /\ asleep' = asleep \cup {t}
          /\ pc[t] \notin Taking /\ pc'[t] \notin Taking
          /\ UNCHANGED <<key, free_list, call, held, bh, count>> /\ pc' = [pc EXCEPT ![t] = "buffer_wait"]
      BY <1>1, <1>4 DEF Others, Taking, Goto
    <2>2. \A b \in Buffers : CountIs(count[b], Refs(b))'
      BY <2>1, CountsAreKept
    <2>3. \A u \in Tasks \ {t} : BuffersOK(u)'
      BY <2>1, OthersAreOK
    <2>4. BuffersOK(t)'
      <3>1. \E c, n : Serves(call[t], c, n, held[t], key)
        BY <1>1 DEF CInv, BuffersOK, Asking
      <3>2. \E c, n : Serves(call'[t], c, n, held'[t], key')
        BY <2>1, <3>1
      <3> QED BY <2>1, <3>2 DEF BuffersOK, Scanning
    <2>5. SleepersWillWake'
      <3>1. PICK u \in Tasks \ (asleep \cup {t}) : held[u] # <<>> \/ pc[u] \in Taking
        BY <1>1, <1>4, SomebodyHasIt DEF IInv
      <3> QED BY <2>1, <3>1 DEF SleepersWillWake, Others, Taking
    <2>6. ListOK'
      BY <2>1 DEF CInv, ListOK
    <2>7. \A u \in Tasks : BuffersOK(u)'
      BY <2>3, <2>4
    <2> QED BY <2>1, <2>2, <2>5, <2>6, <2>7 DEF CInv
  <1> QED BY <1>2, <1>3, <1>4 DEF Find

LEMMA ClaimCounts ==
  ASSUME CInv, IInv, NEW t \in Tasks, Claim(t)
  PROVE  CInv'
  <1>1. /\ pc[t] = "free" /\ DOMAIN pc = Tasks /\ DOMAIN key = Buffers /\ t \notin asleep
        /\ UNCHANGED <<asleep, call, bh, held>>
        /\ pc[t] \notin Taking /\ Asking(t) /\ bh[t] \in Buffers
    BY DEF Claim, IInv, CacheTypeOK, CInv, BuffersOK, Asking, Taking
  <1>2. CASE Repeat(t)
    <2>1. PICK l \in {"find"} : pc' = [pc EXCEPT ![t] = l] /\ UNCHANGED <<key, count, free_list>>
      BY <1>2 DEF Repeat, Goto
    <2>2. Others(t, bh, bh') /\ DOMAIN bh' = Tasks
      BY <1>1 DEF Others, CInv
    <2> QED BY <1>1, <2>1, <2>2, FrameStep DEF Taking
  <1>3. CASE StartScan(t, "sync_dev", key[bh[t]].dev) /\ UNCHANGED <<key, count, dirt, uptodate, free_list>>
    <2>1. PICK l \in {"next"} : pc' = [pc EXCEPT ![t] = l]
      BY <1>3 DEF StartScan, Goto
    <2>2. Others(t, bh, bh') /\ DOMAIN bh' = Tasks
      BY <1>1 DEF Others, CInv
    <2> QED BY <1>1, <1>3, <2>1, <2>2, FrameStep DEF Taking
  <1>4. CASE count[bh[t]] = 0 /\ Take(t, bh[t])
    BY <1>1, <1>4, TakeStep
  <1> QED BY <1>2, <1>3, <1>4 DEF Claim

(* The steps of a task to another place, the loops over all buffers. *)
LEMMA PlaceCounts ==
  ASSUME CInv, IInv, NEW t \in Tasks,
         Woken(t) \/ ReadDone(t) \/ ScanNext(t) \/ ScanAgain(t) \/ ScanBuffer(t) \/ Release(t)
  PROVE  CInv'
  <1>1. /\ DOMAIN pc = Tasks
        /\ UNCHANGED <<key, count, free_list, asleep, call, bh, held>>
    BY DEF IInv, CacheTypeOK, Woken, ReadDone, ScanNext, ScanAgain, ScanBuffer, Release, cacheVars
  <1>2. Others(t, bh, bh') /\ DOMAIN bh' = Tasks
    BY <1>1 DEF Others, CInv
  <1>3. CASE Woken(t)
    <2>1. PICK l \in {"find"} : pc' = [pc EXCEPT ![t] = l]
      BY <1>3 DEF Woken, Goto
    <2>2. t \notin asleep /\ Asking(t) /\ pc[t] \notin Taking
      BY <1>3 DEF Woken, Asking, Taking
    <2> QED BY <1>1, <1>2, <2>1, <2>2, FrameStep DEF Taking
  <1>4. CASE ReadDone(t)
    <2>1. PICK l \in {"out", "brelse"} : pc' = [pc EXCEPT ![t] = l]
      BY <1>4 DEF ReadDone, Return, Goto
    <2>2. pc[t] = "read" /\ pc[t] \notin Taking /\ t \notin asleep /\ held[t] # <<>>
      BY <1>4 DEF ReadDone, CInv, BuffersOK, Taking
    <2> QED BY <1>1, <1>2, <2>1, <2>2, FrameStep DEF Taking
  <1>5. CASE Release(t)
    <2>1. PICK l \in {"brelse"} : pc' = [pc EXCEPT ![t] = l]
      BY <1>5 DEF Release, WaitOn, Goto
    <2>2. held[t] # <<>> /\ pc[t] \notin Taking /\ t \notin asleep
      BY <1>5 DEF Release, CInv, BuffersOK, Taking
    <2> QED BY <1>1, <1>2, <2>1, <2>2, FrameStep DEF Taking
  <1>6. CASE ScanNext(t) \/ ScanAgain(t) \/ ScanBuffer(t)
    <2>1. Scanning(t) /\ pc[t] \notin Taking /\ t \notin asleep /\ (call[t] # NULL => bh[t] \in Buffers)
      BY <1>6 DEF ScanNext, ScanAgain, ScanBuffer, Scanning, CInv, BuffersOK, Taking
    <2>2. call[t] # NULL => Asking(t)
      BY <2>1 DEF Asking
    <2>3. PICK l \in {"inodes", "next", "scan", "out", "free"} :
            pc' = [pc EXCEPT ![t] = l] /\ (l = "free" => call[t] # NULL)
      BY <1>6 DEF ScanNext, ScanAgain, ScanBuffer, WaitOn, Return, Goto
    <2> QED BY <1>1, <1>2, <2>1, <2>2, <2>3, FrameStep DEF Taking
  <1> QED BY <1>3, <1>4, <1>5, <1>6

LEMMA NextCInv ==
  ASSUME EnoughBuffers, IInv, CInv, [Next]_vars
  PROVE  CInv'
  <1>0. DOMAIN pc = Tasks
    BY DEF IInv, CacheTypeOK
  <1>1. ASSUME NEW t \in Tasks, TaskStep(t) PROVE CInv'
    BY <1>0, <1>1, FindCounts, HashStep, ClaimCounts, GotCounts, BrelseCounts, PlaceCounts DEF TaskStep
  <1>2. ASSUME NEW t \in Tasks, Call(t) PROVE CInv'
    <2>1. PICK c : c \in Calls /\ call' = [call EXCEPT ![t] = c]
      BY <1>2 DEF Call
    <2>2. PICK l : l = "find" /\ pc' = [pc EXCEPT ![t] = l]
      BY <1>2 DEF Call, Goto
    <2>3. /\ pc[t] = "out" /\ held[t] = <<>>
          /\ UNCHANGED <<key, count, free_list, asleep, bh, held>>
      BY <1>2 DEF Call, cacheVars
    <2>4. (l = "find" /\ c \in Calls) \/ (l \in {"inodes", "next"} /\ c = NULL)
      BY <2>1, <2>2
    <2> QED BY <1>0, <2>1, <2>2, <2>3, <2>4, BeginStep
  <1>3. ASSUME NEW t \in Tasks, Scan(t) PROVE CInv'
    <2>1. PICK l \in {"inodes", "next"} : pc' = [pc EXCEPT ![t] = l]
      BY <1>3 DEF Scan, StartScan, Goto
    <2>2. /\ pc[t] = "out" /\ held[t] = <<>> /\ call' = [call EXCEPT ![t] = NULL]
          /\ UNCHANGED <<key, count, free_list, asleep, bh, held>>
      BY <1>3 DEF Scan, cacheVars
    <2> DEFINE c == NULL
    <2> HIDE DEF c
    <2>3. call' = [call EXCEPT ![t] = c] /\ c = NULL
      BY <2>2 DEF c
    <2> QED BY <1>0, <2>1, <2>2, <2>3, BeginStep
  <1>4. ASSUME NEW t \in Tasks, Modify(t) PROVE CInv'
    BY <1>4, NobodyMoves DEF Modify
  <1>5. ASSUME NEW b \in Buffers, Unlock(b) PROVE CInv'
    BY <1>5, NobodyMoves DEF Unlock, taskVars
  <1>6. CASE UNCHANGED vars
    BY <1>6, NobodyMoves DEF vars, cacheVars, taskVars
  <1> QED BY <1>1, <1>2, <1>3, <1>4, <1>5, <1>6 DEF Next

(* With enough buffers for what tasks may hold while they ask for more,
   nobody sleeps in getblk in vain: somebody awake holds a buffer, or is
   about to. *)
THEOREM SleepersAreWoken == EnoughBuffers => (Spec => []SleepersWillWake)
  <1> SUFFICES ASSUME EnoughBuffers PROVE Spec => []SleepersWillWake
    OBVIOUS
  <1>1. IInv /\ CInv /\ [Next]_vars => (IInv /\ CInv)'
    BY NextIInv, NextCInv
  <1>2. CInv => SleepersWillWake
    BY DEF CInv
  <1> QED BY <1>1, <1>2, InitIInv, InitCInv, PTL DEF Spec

-----------------------------------------------------------------------------
(* Requests. *)

(* A request of a buffer is for its block and has it locked; a read is for a
   buffer that is not valid yet. *)
IsRequest(r) ==
  /\ r.cmd \in {READ, WRITE}
  /\ r.bh = Nil => r.sector \in SwapPages
  /\ r.bh # Nil =>
       /\ r.bh \in BufferHeads /\ r.sector = blocknr[r.bh]
       /\ b_lock[r.bh]
       /\ r.cmd = READ => ~b_uptodate[r.bh]

QueueTypeOK ==
  /\ DOMAIN request = Slots
  /\ queue \in Seq(Slots)
  /\ blocknr \in [BufferHeads -> Blocks]
  /\ b_lock \in [BufferHeads -> BOOLEAN]
  /\ b_dirt \in [BufferHeads -> BOOLEAN]
  /\ b_uptodate \in [BufferHeads -> BOOLEAN]
  /\ DOMAIN b_data = BufferHeads /\ DOMAIN disk = Blocks \cup SwapPages
  /\ DOMAIN rqPc = Callers /\ DOMAIN op = Callers
  /\ \A t \in Callers : rqPc[t] \in {"lock", "slot"} => op[t].rw \in {READ, WRITE} /\ op[t].b \in BufferHeads
  /\ \A t \in Callers : rqPc[t] = "pageslot" => op[t].rw \in {READ, WRITE} /\ op[t].p \in SwapPages
  /\ \A i \in Busy : IsRequest(request[i])

(* The list has requests that are in the table, each of them once. *)
QueueListOK ==
  /\ \A k \in 1..Len(queue) : queue[k] \in Busy
  /\ \A k, l \in 1..Len(queue) : queue[k] = queue[l] => k = l

(* A buffer has at most one request, or one task that holds its locks and waits
   for a slot; a block has at most one buffer. *)
OnlyOne ==
  /\ \A i, j \in Busy : request[i].bh = request[j].bh /\ request[i].bh # Nil => i = j
  /\ \A t \in Callers : rqPc[t] = "slot" =>
       /\ b_lock[op[t].b]
       /\ op[t].rw = READ => ~b_uptodate[op[t].b]
       /\ \A i \in Busy : request[i].bh # op[t].b
  /\ \A t, u \in Callers : rqPc[t] = "slot" /\ rqPc[u] = "slot" /\ op[t].b = op[u].b => t = u
  /\ \A b, c \in BufferHeads : blocknr[b] = blocknr[c] => b = c

(* What the device has moved is still the content of the buffer, unless it was
   modified meanwhile. *)
MovedOK ==
  moved # Nil =>
    /\ queue # <<>>
    /\ Current.bh # Nil /\ (Current.cmd = READ \/ ~b_dirt[Current.bh]) =>
         b_data[Current.bh] = disk[Current.sector]

QueueInv == QueueTypeOK /\ QueueListOK /\ OnlyOne /\ MovedOK /\ NoLostModification

-----------------------------------------------------------------------------
(* The least and the greatest element of a set of numbers. *)
LEMMA LeastIs ==
  ASSUME NEW S, S \subseteq Nat, S # {}
  PROVE  Min(S) \in S /\ \A n \in S : Min(S) <= n
  <1> DEFINE Less == {p \in Nat \X Nat : p[1] < p[2]}
  <1>1. IsWellFoundedOn(Less, Nat)
    BY NatLessThanWellFounded DEF OpToRel
  <1>2. \E m \in S : \A n \in S : <<n, m>> \notin Less
    <2> HIDE DEF Less
    <2> QED BY <1>1, WFMin, Zenon
  <1>3. PICK m \in S : \A n \in S : ~ (n < m)
    BY <1>2
  <1>4. \A n \in S : m <= n
    BY <1>3
  <1> QED BY <1>4 DEF Min

LEMMA GreatestIs ==
  ASSUME NEW N \in Nat, NEW S, S \subseteq 1..N, S # {}
  PROVE  Max(S) \in S
  <1> DEFINE D == {d \in Nat : \E n \in S : d = N - n}
  <1>1. D \subseteq Nat /\ \A n \in S : N - n \in D
    OBVIOUS
  <1>2. Min(D) \in D /\ \A d \in D : Min(D) <= d
    <2> HIDE DEF D
    <2> QED BY <1>1, LeastIs
  <1>3. PICK m \in S : Min(D) = N - m
    BY <1>2
  <1>4. \A n \in S : N - m <= N - n
    BY <1>2, <1>3
  <1>5. \A n \in S : m >= n
    BY <1>4
  <1> QED BY <1>5 DEF Max

(* add_request puts a request somewhere after CURRENT, and moves no other. *)
LEMMA InsertIs ==
  ASSUME NEW q \in Seq(Slots), NEW i \in Slots, NEW req
  PROVE  LET r == Insert(q, i, req) IN
         /\ r \in Seq(Slots) /\ Len(r) = Len(q) + 1
         /\ \E m \in 1..Len(r) :
              /\ r[m] = i /\ (q # <<>> => m > 1)
              /\ \A k \in 1..Len(r) : k < m => r[k] = q[k] /\ k <= Len(q)
              /\ \A k \in 1..Len(r) : k > m => r[k] = q[k - 1]
  <1> DEFINE n == Len(q)
             fits == {k \in 1..n : k = n \/ FitsBetween(req, request[q[k]], request[q[k + 1]])}
  <1>1. CASE n = 0
    <2>1. Insert(q, i, req) = <<i>> /\ q = <<>>
      BY <1>1 DEF Insert
    <2> QED BY <2>1
  <1>2. CASE n # 0
    <2>1. n \in Nat /\ n > 0
      BY <1>2
    <2>2. fits \subseteq 1..n /\ fits \subseteq Nat /\ n \in fits
      BY <2>1
    <2> DEFINE m == Min(fits) + 1
    <2>3. Min(fits) \in 1..n
      <3> HIDE DEF fits
      <3> QED BY <2>2, LeastIs
    <2>4. m \in 2..n + 1
      BY <2>3
    <2>5. Insert(q, i, req) = SubSeq(q, 1, m - 1) \o <<i>> \o SubSeq(q, m, n)
      BY <1>2 DEF Insert, InsertAt
    <2> HIDE DEF m, fits
    <2> DEFINE r == SubSeq(q, 1, m - 1) \o <<i>> \o SubSeq(q, m, n)
               a == SubSeq(q, 1, m - 1)
               z == SubSeq(q, m, n)
    <2>6. /\ a \in Seq(Slots) /\ Len(a) = m - 1 /\ \A k \in 1..m - 1 : a[k] = q[k]
          /\ z \in Seq(Slots) /\ Len(z) = n - m + 1 /\ \A k \in 1..n - m + 1 : z[k] = q[m + k - 1]
      <3>1. m - 1 <= n /\ m >= 2 /\ m \in Nat
        BY <2>1, <2>4
      <3> QED BY <3>1, <2>1
    <2> HIDE DEF a, z
    <2>7. r = a \o <<i>> \o z
      BY DEF a, z
    <2>8. a \o <<i>> \in Seq(Slots) /\ Len(a \o <<i>>) = m /\ (a \o <<i>>)[m] = i
          /\ \A k \in 1..m - 1 : (a \o <<i>>)[k] = q[k]
      BY <2>1, <2>4, <2>6
    <2>9. /\ r \in Seq(Slots) /\ Len(r) = n + 1
          /\ \A k \in 1..m : r[k] = (a \o <<i>>)[k]
          /\ \A k \in m + 1..n + 1 : r[k] = z[k - m]
      BY <2>1, <2>4, <2>6, <2>7, <2>8
    <2>10. \A k \in m + 1..n + 1 : r[k] = q[k - 1]
      BY <2>1, <2>4, <2>6, <2>9
    <2> HIDE DEF r
    <2>11. m \in 1..Len(r) /\ r[m] = i /\ m > 1
      BY <2>1, <2>4, <2>8, <2>9
    <2>12. \A k \in 1..Len(r) : k < m => r[k] = q[k] /\ k <= n
      BY <2>1, <2>4, <2>8, <2>9
    <2>13. \A k \in 1..Len(r) : k > m => r[k] = q[k - 1]
      <3>1. \A k \in 1..Len(r) : k > m => k \in m + 1..n + 1
        BY <2>1, <2>4, <2>9
      <3> QED BY <2>10, <3>1
    <2>14. Insert(q, i, req) = r
      BY <2>5 DEF r
    <2> QED BY <2>9, <2>11, <2>12, <2>13, <2>14, ZenonT(60)
  <1> QED BY <1>1, <1>2

-----------------------------------------------------------------------------
LEMMA InitQueueInv == RequestQueueAssumption /\ QueueInit => QueueInv
  <1> SUFFICES ASSUME RequestQueueAssumption, QueueInit PROVE QueueInv
    OBVIOUS
  <1>1. Busy = {} /\ queue = <<>> /\ moved = Nil
    BY DEF QueueInit, Busy
  <1>2. QueueTypeOK
    BY <1>1 DEF QueueInit, QueueTypeOK
  <1>3. \A b, c \in BufferHeads : blocknr[b] = blocknr[c] => b = c
    BY DEF QueueInit, IsInjective
  <1>4. OnlyOne
    BY <1>1, <1>3 DEF QueueInit, OnlyOne
  <1>5. QueueListOK /\ MovedOK /\ NoLostModification
    BY <1>1 DEF QueueInit, QueueListOK, MovedOK, NoLostModification
  <1> QED BY <1>2, <1>4, <1>5 DEF QueueInv

-----------------------------------------------------------------------------
(* The head of the list, and who is in the table. *)
LEMMA CurrentIs ==
  ASSUME RequestQueueAssumption, QueueInv, queue # <<>>
  PROVE  /\ Head(queue) \in Busy /\ IsRequest(Current) /\ Current = request[Head(queue)]
         /\ Len(queue) \in Nat \ {0} /\ Head(queue) = queue[1]
         /\ Current.bh \in BufferHeads => Current.bh # Nil
         /\ Current.bh \in BufferHeads \/ Current.bh = Nil
  <1>1. Len(queue) \in Nat \ {0} /\ Head(queue) = queue[1]
    BY DEF QueueInv, QueueTypeOK
  <1>2. Head(queue) \in Busy
    BY <1>1 DEF QueueInv, QueueListOK
  <1> QED BY <1>1, <1>2 DEF QueueInv, QueueTypeOK, Current, IsRequest, RequestQueueAssumption

(* A free slot is filled and linked into the list. *)
LEMMA AddStep ==
  ASSUME RequestQueueAssumption, QueueInv,
         NEW i \in Slots, request[i] = Free, NEW req, AddRequest(i, req), req.dev = 1,
         UNCHANGED <<blocknr, b_uptodate, b_data, disk, moved>>,
         b_lock' \in [BufferHeads -> BOOLEAN], \A b \in BufferHeads : b_lock[b] => b_lock'[b],
         IsRequest(req)', req.bh # Nil => \A j \in Busy : request[j].bh # req.bh
  PROVE  /\ Busy' = Busy \cup {i} /\ request'[i] = req
         /\ \A j \in Slots \ {i} : request'[j] = request[j]
         /\ DOMAIN request' = Slots /\ queue' \in Seq(Slots) /\ b_dirt' \in [BufferHeads -> BOOLEAN]
         /\ \A j \in Busy' : IsRequest(request[j])'
         /\ \A j, k \in Busy' : request'[j].bh = request'[k].bh /\ request'[j].bh # Nil => j = k
         /\ QueueListOK' /\ MovedOK' /\ NoLostModification'
  <1>1. /\ request'[i] = req /\ DOMAIN request' = Slots
        /\ \A j \in Slots \ {i} : request'[j] = request[j]
    BY DEF AddRequest, QueueInv, QueueTypeOK
  <1>2. req # Free
    BY DEF Free
  <1>3. Busy' = Busy \cup {i} /\ i \notin Busy
    BY <1>1, <1>2 DEF Busy
  <1>4. b_dirt' \in [BufferHeads -> BOOLEAN] /\ \A b \in BufferHeads : b # req.bh => b_dirt'[b] = b_dirt[b]
    BY DEF AddRequest, QueueInv, QueueTypeOK
  <1>5. /\ queue' \in Seq(Slots) /\ Len(queue') = Len(queue) + 1 /\ queue \in Seq(Slots)
        /\ \E m \in 1..Len(queue') :
             /\ queue'[m] = i /\ (queue # <<>> => m > 1)
             /\ \A k \in 1..Len(queue') : k < m => queue'[k] = queue[k] /\ k <= Len(queue)
             /\ \A k \in 1..Len(queue') : k > m => queue'[k] = queue[k - 1]
    <2> DEFINE r == Insert(queue, i, req)
    <2>1. queue' = r /\ queue \in Seq(Slots)
      BY DEF AddRequest, QueueInv, QueueTypeOK
    <2>2. /\ r \in Seq(Slots) /\ Len(r) = Len(queue) + 1
          /\ \E m \in 1..Len(r) :
               /\ r[m] = i /\ (queue # <<>> => m > 1)
               /\ \A k \in 1..Len(r) : k < m => r[k] = queue[k] /\ k <= Len(queue)
               /\ \A k \in 1..Len(r) : k > m => r[k] = queue[k - 1]
      BY <2>1, InsertIs, SMTT(60)
    <2> HIDE DEF r
    <2> QED BY <2>1, <2>2
  <1>6. PICK m \in 1..Len(queue') :
             /\ queue'[m] = i /\ (queue # <<>> => m > 1)
             /\ \A k \in 1..Len(queue') : k < m => queue'[k] = queue[k] /\ k <= Len(queue)
             /\ \A k \in 1..Len(queue') : k > m => queue'[k] = queue[k - 1]
    BY <1>5
  <1>7. QueueListOK'
    <2>1. \A k \in 1..Len(queue') : k # m =>
            \E l \in 1..Len(queue) : queue'[k] = queue[l] /\ l = IF k < m THEN k ELSE k - 1
      <3> SUFFICES ASSUME NEW k \in 1..Len(queue'), k # m
                   PROVE  \E l \in 1..Len(queue) : queue'[k] = queue[l] /\ l = IF k < m THEN k ELSE k - 1
        OBVIOUS
      <3>1. Len(queue) \in Nat /\ Len(queue') = Len(queue) + 1 /\ k \in Nat /\ m \in Nat
        BY <1>5
      <3>2. CASE k < m
        BY <1>6, <3>1, <3>2
      <3>3. CASE k > m
        <4>1. k - 1 \in 1..Len(queue) /\ queue'[k] = queue[k - 1] /\ ~(k < m)
          BY <1>6, <3>1, <3>3
        <4> QED BY <4>1
      <3> QED BY <3>1, <3>2, <3>3
    <2>2. \A k \in 1..Len(queue') : k # m => queue'[k] \in Busy
      BY <2>1 DEF QueueInv, QueueListOK
    <2>3. \A k \in 1..Len(queue') : queue'[k] \in Busy'
      BY <1>3, <1>6, <2>2
    <2>4. ASSUME NEW k \in 1..Len(queue'), NEW l \in 1..Len(queue'), queue'[k] = queue'[l]
          PROVE  k = l
      <3>1. CASE k = m \/ l = m
        BY <1>3, <1>6, <2>2, <2>4, <3>1
      <3>2. CASE k # m /\ l # m
        <4>1. PICK a \in 1..Len(queue) : queue'[k] = queue[a] /\ a = IF k < m THEN k ELSE k - 1
          BY <2>1, <3>2
        <4>2. PICK c \in 1..Len(queue) : queue'[l] = queue[c] /\ c = IF l < m THEN l ELSE l - 1
          BY <2>1, <3>2
        <4>3. a = c
          BY <2>4, <4>1, <4>2 DEF QueueInv, QueueListOK
        <4> QED BY <1>5, <3>2, <4>1, <4>2, <4>3
      <3> QED BY <3>1, <3>2
    <2> QED BY <2>3, <2>4 DEF QueueListOK
  <1>8. \A j \in Busy' : IsRequest(request[j])'
    <2> SUFFICES ASSUME NEW j \in Busy, j # i PROVE IsRequest(request[j])'
      BY <1>1, <1>3
    <2>1. request'[j] = request[j] /\ IsRequest(request[j])
      BY <1>1 DEF Busy, QueueInv, QueueTypeOK
    <2> QED BY <2>1 DEF IsRequest
  <1>9. \A j, k \in Busy' : request'[j].bh = request'[k].bh /\ request'[j].bh # Nil => j = k
    BY <1>1, <1>3 DEF QueueInv, OnlyOne, Busy
  <1>10. MovedOK'
    <2> SUFFICES ASSUME moved # Nil
                 PROVE  /\ queue' # <<>>
                        /\ Current'.bh # Nil /\ (Current'.cmd = READ \/ ~b_dirt'[Current'.bh]) =>
                             b_data[Current'.bh] = disk[Current'.sector]
      BY DEF MovedOK
    <2>1. queue # <<>>
      BY DEF QueueInv, MovedOK
    <2>2. Head(queue) \in Busy /\ IsRequest(Current) /\ Head(queue) = queue[1] /\ Len(queue) \in Nat \ {0}
          /\ Current = request[Head(queue)]
      BY <2>1, CurrentIs
    <2>3. queue' # <<>> /\ Head(queue') = queue'[1] /\ queue'[1] = queue[1]
      BY <1>5, <1>6, <2>1, <2>2
    <2>4. Current' = Current
      BY <1>1, <1>3, <2>2, <2>3 DEF Current, Busy
    <2>5. Current.bh # Nil => Current.bh \in BufferHeads /\ Current.bh # req.bh
      BY <2>2 DEF IsRequest
    <2> QED BY <1>4, <2>3, <2>4, <2>5 DEF QueueInv, MovedOK
  <1>11. NoLostModification'
    <2> SUFFICES ASSUME NEW b \in BufferHeads, b_uptodate[b], ~b_dirt'[b],
                        \A j \in Busy' : request'[j].bh # b
                 PROVE  b_data[b] = disk[blocknr[b]]
      BY DEF NoLostModification
    <2>1. req.bh # b /\ \A j \in Busy : request[j].bh # b
      BY <1>1, <1>3 DEF Busy
    <2> QED BY <1>4, <2>1 DEF QueueInv, NoLostModification
  <1> QED BY <1>1, <1>3, <1>4, <1>5, <1>7, <1>8, <1>9, <1>10, <1>11

(* A task goes on, and the table stays as it is. *)
LEMMA SameTable ==
  ASSUME RequestQueueAssumption, QueueInv, UNCHANGED <<request, queue, b_dirt, blocknr, b_uptodate, b_data, disk, moved>>,
         NEW t \in Callers, DOMAIN rqPc' = Callers, DOMAIN op' = Callers,
         \A u \in Callers \ {t} : rqPc'[u] = rqPc[u] /\ op'[u] = op[u],
         b_lock' \in [BufferHeads -> BOOLEAN],
         \A i \in Busy : request[i].bh # Nil => b_lock'[request[i].bh],
         \A u \in Callers \ {t} : rqPc[u] = "slot" => b_lock'[op[u].b],
         rqPc'[t] \in {"lock", "slot"} => op'[t].rw \in {READ, WRITE} /\ op'[t].b \in BufferHeads,
         rqPc'[t] = "pageslot" => op'[t].rw \in {READ, WRITE} /\ op'[t].p \in SwapPages,
         rqPc'[t] = "slot" => /\ b_lock'[op'[t].b] /\ (op'[t].rw = READ => ~b_uptodate[op'[t].b])
                              /\ \A i \in Busy : request[i].bh # op'[t].b
                            /\ \A u \in Callers \ {t} : rqPc[u] = "slot" => op[u].b # op'[t].b
  PROVE  QueueInv'
  <1>2. Busy' = Busy
    BY DEF Busy
  <1>3. QueueTypeOK'
    <2>1. \A i \in Busy : IsRequest(request[i])'
      BY DEF QueueInv, QueueTypeOK, IsRequest
    <2>2. \A u \in Callers : rqPc'[u] \in {"lock", "slot"} => op'[u].rw \in {READ, WRITE} /\ op'[u].b \in BufferHeads
      BY DEF QueueInv, QueueTypeOK
    <2>3. \A u \in Callers : rqPc'[u] = "pageslot" => op'[u].rw \in {READ, WRITE} /\ op'[u].p \in SwapPages
      BY DEF QueueInv, QueueTypeOK
    <2> QED BY <1>2, <2>1, <2>2, <2>3 DEF QueueInv, QueueTypeOK
  <1>4. OnlyOne'
    <2>1. \A u \in Callers : rqPc'[u] = "slot" =>
            /\ b_lock'[op'[u].b]
            /\ op'[u].rw = READ => ~b_uptodate[op'[u].b]
            /\ \A i \in Busy : request[i].bh # op'[u].b
      BY DEF QueueInv, OnlyOne
    <2>2. ASSUME NEW u \in Callers, NEW v \in Callers,
                 rqPc'[u] = "slot", rqPc'[v] = "slot", op'[u].b = op'[v].b
          PROVE  u = v
      <3>1. CASE u # t /\ v # t
        BY <2>2, <3>1 DEF QueueInv, OnlyOne
      <3>2. CASE u = t \/ v = t
        BY <2>2, <3>2
      <3> QED BY <3>1, <3>2
    <2> QED BY <1>2, <2>1, <2>2 DEF QueueInv, OnlyOne
  <1>5. QueueListOK' /\ MovedOK' /\ NoLostModification'
    BY <1>2 DEF QueueInv, QueueListOK, MovedOK, NoLostModification, Current
  <1> QED BY <1>3, <1>4, <1>5 DEF QueueInv

(* A task has filled a slot and goes on. *)
LEMMA FillStep ==
  ASSUME RequestQueueAssumption, QueueInv,
         NEW i \in Slots, request[i] = Free, NEW req, AddRequest(i, req), req.dev = 1,
         UNCHANGED <<blocknr, b_uptodate, b_data, disk, moved>>,
         b_lock' \in [BufferHeads -> BOOLEAN], \A b \in BufferHeads : b_lock[b] => b_lock'[b],
         IsRequest(req)', req.bh # Nil => \A j \in Busy : request[j].bh # req.bh,
         NEW t \in Callers, rqPc'[t] \in {"out", "io"}, DOMAIN rqPc' = Callers, DOMAIN op' = Callers,
         \A u \in Callers \ {t} : rqPc'[u] = rqPc[u] /\ op'[u] = op[u],
         \A u \in Callers \ {t} : rqPc[u] = "slot" => op[u].b # req.bh
  PROVE  QueueInv'
  <1>1. /\ Busy' = Busy \cup {i} /\ request'[i] = req
        /\ \A j \in Slots \ {i} : request'[j] = request[j]
        /\ DOMAIN request' = Slots /\ queue' \in Seq(Slots) /\ b_dirt' \in [BufferHeads -> BOOLEAN]
        /\ \A j \in Busy' : IsRequest(request[j])'
        /\ \A j, k \in Busy' : request'[j].bh = request'[k].bh /\ request'[j].bh # Nil => j = k
        /\ QueueListOK' /\ MovedOK' /\ NoLostModification'
    BY AddStep
  <1>3. \A u \in Callers : rqPc'[u] \in {"lock", "slot", "pageslot"} => u # t /\ rqPc'[u] = rqPc[u] /\ op'[u] = op[u]
    OBVIOUS
  <1>4. QueueTypeOK'
    BY <1>1, <1>3 DEF QueueInv, QueueTypeOK
  <1>5. OnlyOne'
    <2>1. \A u \in Callers : rqPc'[u] = "slot" =>
            /\ b_lock'[op'[u].b]
            /\ op'[u].rw = READ => ~b_uptodate[op'[u].b]
            /\ \A j \in Busy' : request'[j].bh # op'[u].b
      <3> SUFFICES ASSUME NEW u \in Callers, rqPc'[u] = "slot"
                   PROVE  /\ b_lock'[op'[u].b]
                          /\ op'[u].rw = READ => ~b_uptodate[op'[u].b]
                          /\ \A j \in Busy' : request'[j].bh # op'[u].b
        OBVIOUS
      <3>1. u # t /\ rqPc[u] = "slot" /\ op'[u] = op[u]
        BY <1>3
      <3>2. /\ op[u].b \in BufferHeads /\ b_lock[op[u].b]
            /\ op[u].rw = READ => ~b_uptodate[op[u].b]
            /\ \A j \in Busy : request[j].bh # op[u].b
        BY <3>1 DEF QueueInv, QueueTypeOK, OnlyOne
      <3>3. \A j \in Busy : j # i => request'[j] = request[j]
        BY <1>1 DEF Busy
      <3>4. \A j \in Busy' : request'[j].bh # op[u].b
        <4>1. request'[i].bh # op[u].b
          BY <1>1, <3>1
        <4> QED BY <1>1, <3>2, <3>3, <4>1
      <3>5. b_lock'[op[u].b]
        BY <3>2
      <3> QED BY <3>1, <3>2, <3>4, <3>5
    <2>2. \A u, v \in Callers : rqPc'[u] = "slot" /\ rqPc'[v] = "slot" /\ op'[u].b = op'[v].b => u = v
      BY <1>3 DEF QueueInv, OnlyOne
    <2>3. \A b, c \in BufferHeads : blocknr'[b] = blocknr'[c] => b = c
      BY DEF QueueInv, OnlyOne
    <2> QED BY <1>1, <2>1, <2>2, <2>3 DEF OnlyOne
  <1> QED BY <1>1, <1>4, <1>5 DEF QueueInv

(* make_request takes a slot, gives up or waits. *)
LEMMA TakeSlotStep ==
  ASSUME RequestQueueAssumption, QueueInv, NEW t \in Callers, NEW rw \in {READ, WRITE}, NEW b \in BufferHeads,
         NEW ahead, NEW locks \in [BufferHeads -> BOOLEAN],
         locks[b], \A c \in BufferHeads \ {b} : locks[c] = b_lock[c],
         TakeSlot(t, rw, b, ahead, locks), rw = READ => ~b_uptodate[b],
         \A i \in Busy : request[i].bh # b,
         \A u \in Callers \ {t} : rqPc[u] = "slot" => op[u].b # b,
         UNCHANGED <<blocknr, b_uptodate, b_data, ioVars>>
  PROVE  QueueInv'
  <1> DEFINE free == FreeSlots(rw, b)
  <1>1. UNCHANGED <<blocknr, b_uptodate, b_data, disk, moved>> /\ b # Nil
    BY DEF ioVars, RequestQueueAssumption
  <1>2. /\ locks \in [BufferHeads -> BOOLEAN] /\ locks[b]
        /\ \A c \in BufferHeads : b_lock[c] => locks[c]
        /\ \A c \in BufferHeads \ {b} : locks[c] = b_lock[c]
    OBVIOUS
  <1>3. \A i \in Busy : request[i].bh # Nil =>
            request[i].bh \in BufferHeads /\ request[i].bh # b /\ b_lock[request[i].bh]
    BY DEF QueueInv, QueueTypeOK, IsRequest
  <1>4. free \subseteq Slots /\ \A i \in free : request[i] = Free
    BY DEF FreeSlots
  <1>5. NR_REQUEST \in Nat
    BY DEF RequestQueueAssumption
  <1>6. free # {} => Max(free) \in free
    <2> HIDE DEF free
    <2> QED BY <1>4, <1>5, GreatestIs DEF Slots
  <1>7. CASE free # {} /\ AddRequest(Max(free), BufferRequest(rw, b)) /\ b_lock' = locks /\ Returns(t)
    <2> SUFFICES ASSUME NEW i, i = Max(free), NEW req, req = BufferRequest(rw, b) PROVE QueueInv'
      OBVIOUS
    <2>1. i \in Slots /\ request[i] = Free /\ AddRequest(i, req)
      BY <1>4, <1>6, <1>7
    <2>2. /\ req.dev = 1 /\ req.cmd = rw /\ req.sector = blocknr[b] /\ req.bh = b
      BY DEF BufferRequest
    <2>3. IsRequest(req)'
      <3>1. /\ blocknr'[b] = blocknr[b] /\ b_lock'[b] /\ (rw = READ => ~b_uptodate'[b])
        BY <1>2, <1>7
      <3> QED BY <1>1, <2>2, <3>1 DEF IsRequest
    <2>4. /\ rqPc'[t] \in {"out", "io"} /\ DOMAIN rqPc' = Callers /\ DOMAIN op' = Callers
          /\ \A u \in Callers \ {t} : rqPc'[u] = rqPc[u] /\ op'[u] = op[u]
      BY <1>7 DEF Returns, QueueInv, QueueTypeOK
    <2>5. b_lock' \in [BufferHeads -> BOOLEAN] /\ \A c \in BufferHeads : b_lock[c] => b_lock'[c]
      BY <1>2, <1>7
    <2>6. \A u \in Callers \ {t} : rqPc[u] = "slot" => op[u].b # req.bh
      BY <2>2
    <2>7. req.bh # Nil => \A j \in Busy : request[j].bh # req.bh
      BY <2>2
    <2> HIDE DEF free
    <2> QED BY <1>1, <2>1, <2>2, <2>3, <2>4, <2>5, <2>6, <2>7, FillStep
  <1>8. ASSUME UNCHANGED <<request, queue, b_dirt>>, b_lock' \in [BufferHeads -> BOOLEAN],
               \A c \in BufferHeads \ {b} : b_lock'[c] = b_lock[c],
               \/ Returns(t)
               \/ /\ b_lock'[b] /\ rqPc' = [rqPc EXCEPT ![t] = "slot"]
                  /\ op' = [op EXCEPT ![t] = [rw |-> rw, b |-> b]]
        PROVE  QueueInv'
    <2>1. UNCHANGED <<request, queue, b_dirt, blocknr, b_uptodate, b_data, disk, moved>>
      BY <1>1, <1>8
    <2>2. \A i \in Busy : request[i].bh # Nil => b_lock'[request[i].bh]
      BY <1>3, <1>8
    <2>3. \A u \in Callers \ {t} : rqPc[u] = "slot" => b_lock'[op[u].b]
      <3>1. \A u \in Callers : rqPc[u] = "slot" => op[u].b \in BufferHeads /\ b_lock[op[u].b]
        BY DEF QueueInv, QueueTypeOK, OnlyOne
      <3> QED BY <1>8, <3>1
    <2>4. /\ DOMAIN rqPc' = Callers /\ DOMAIN op' = Callers
          /\ \A u \in Callers \ {t} : rqPc'[u] = rqPc[u] /\ op'[u] = op[u]
          /\ rqPc'[t] # "out" => b_lock'[b] /\ op'[t].rw = rw /\ op'[t].b = b
          /\ rqPc'[t] \in {"out", "slot"}
      BY <1>8 DEF Returns, QueueInv, QueueTypeOK
    <2> QED BY <1>8, <2>1, <2>2, <2>3, <2>4, SameTable
  <1>9. CASE b_lock' = [locks EXCEPT ![b] = FALSE] /\ Returns(t) /\ UNCHANGED <<request, queue, b_dirt>>
    BY <1>2, <1>8, <1>9
  <1>10. CASE /\ b_lock' = locks /\ UNCHANGED <<request, queue, b_dirt>>
              /\ rqPc' = [rqPc EXCEPT ![t] = "slot"] /\ op' = [op EXCEPT ![t] = [rw |-> rw, b |-> b]]
    BY <1>2, <1>8, <1>10
  <1> QED BY <1>7, <1>9, <1>10 DEF TakeSlot

-----------------------------------------------------------------------------
(* A task sleeps, wakes up or returns, and no locks changes. *)
LEMMA NoLockStep ==
  ASSUME RequestQueueAssumption, QueueInv,
         UNCHANGED <<request, queue, b_lock, b_dirt, blocknr, b_uptodate, b_data, disk, moved>>,
         NEW t \in Callers, DOMAIN rqPc' = Callers, DOMAIN op' = Callers,
         \A u \in Callers \ {t} : rqPc'[u] = rqPc[u] /\ op'[u] = op[u], rqPc'[t] # "slot",
         rqPc'[t] = "lock" => op'[t].rw \in {READ, WRITE} /\ op'[t].b \in BufferHeads,
         rqPc'[t] = "pageslot" => op'[t].rw \in {READ, WRITE} /\ op'[t].p \in SwapPages
  PROVE  QueueInv'
  <1>1. UNCHANGED <<request, queue, b_dirt, blocknr, b_uptodate, b_data, disk, moved>>
    OBVIOUS
  <1>2. b_lock' \in [BufferHeads -> BOOLEAN]
    BY DEF QueueInv, QueueTypeOK
  <1>3. \A i \in Busy : request[i].bh # Nil => b_lock'[request[i].bh]
    BY DEF QueueInv, QueueTypeOK, IsRequest
  <1>4. \A u \in Callers \ {t} : rqPc[u] = "slot" => b_lock'[op[u].b]
    BY DEF QueueInv, OnlyOne
  <1> QED BY <1>1, <1>2, <1>3, <1>4, SameTable

LEMMA LockedStep ==
  ASSUME RequestQueueAssumption, QueueInv, NEW t \in Callers, NEW rw \in {READ, WRITE}, NEW b \in BufferHeads,
         NEW ahead, Locked(t, rw, b, ahead), UNCHANGED <<blocknr, b_uptodate, b_data, ioVars>>
  PROVE  QueueInv'
  <1>1. CASE Returns(t) /\ UNCHANGED <<request, queue, b_lock, b_dirt>>
    <2>1. UNCHANGED <<request, queue, b_lock, b_dirt, blocknr, b_uptodate, b_data, disk, moved>>
      BY <1>1 DEF ioVars
    <2>2. /\ DOMAIN rqPc' = Callers /\ DOMAIN op' = Callers /\ rqPc'[t] = "out"
          /\ \A u \in Callers \ {t} : rqPc'[u] = rqPc[u] /\ op'[u] = op[u]
      BY <1>1 DEF Returns, QueueInv, QueueTypeOK
    <2> QED BY <2>1, <2>2, NoLockStep
  <1>2. CASE TakeSlot(t, rw, b, ahead, [b_lock EXCEPT ![b] = TRUE]) /\ (rw = READ => ~b_uptodate[b])
    <2>1. ~b_lock[b] /\ b # Nil
      BY DEF Locked, RequestQueueAssumption
    <2>2. \A i \in Busy : request[i].bh # b
      BY <2>1 DEF QueueInv, QueueTypeOK, IsRequest
    <2>3. \A u \in Callers \ {t} : rqPc[u] = "slot" => op[u].b # b
      BY <2>1 DEF QueueInv, OnlyOne
    <2>4. PICK locks \in [BufferHeads -> BOOLEAN] :
            /\ TakeSlot(t, rw, b, ahead, locks)
            /\ locks[b] /\ \A c \in BufferHeads \ {b} : locks[c] = b_lock[c]
      <3> DEFINE l == [b_lock EXCEPT ![b] = TRUE]
      <3>1. TakeSlot(t, rw, b, ahead, l)
        BY <1>2
      <3>2. l \in [BufferHeads -> BOOLEAN] /\ l[b] /\ \A c \in BufferHeads \ {b} : l[c] = b_lock[c]
        BY DEF QueueInv, QueueTypeOK
      <3> HIDE DEF l
      <3> QED BY <3>1, <3>2
    <2>5. rw = READ => ~b_uptodate[b]
      BY <1>2
    <2> QED BY <2>2, <2>3, <2>4, <2>5, TakeSlotStep
  <1> QED BY <1>1, <1>2 DEF Locked, READ, WRITE

LEMMA BlockSteps ==
  ASSUME RequestQueueAssumption, QueueInv, NEW t \in Callers,
         \/ \E rw \in {READ, WRITE}, b \in BufferHeads, ahead \in BOOLEAN : LlRwBlock(t, rw, b, ahead)
         \/ GetLock(t) \/ GetSlot(t)
  PROVE  QueueInv'
  <1>1. ASSUME NEW rw \in {READ, WRITE}, NEW b \in BufferHeads, NEW ahead \in BOOLEAN,
               LlRwBlock(t, rw, b, ahead)
        PROVE  QueueInv'
    <2>1. UNCHANGED <<blocknr, b_uptodate, b_data, ioVars>>
      BY <1>1 DEF LlRwBlock
    <2>2. CASE Locked(t, rw, b, ahead)
      BY <2>1, <2>2, LockedStep
    <2>3. CASE /\ rqPc' = [rqPc EXCEPT ![t] = "lock"] /\ op' = [op EXCEPT ![t] = [rw |-> rw, b |-> b]]
               /\ UNCHANGED <<request, queue, b_lock, b_dirt>>
      <3>1. UNCHANGED <<request, queue, b_lock, b_dirt, blocknr, b_uptodate, b_data, disk, moved>>
        BY <2>1, <2>3 DEF ioVars
      <3>2. /\ DOMAIN rqPc' = Callers /\ DOMAIN op' = Callers /\ rqPc'[t] = "lock"
            /\ op'[t].rw = rw /\ op'[t].b = b
            /\ \A u \in Callers \ {t} : rqPc'[u] = rqPc[u] /\ op'[u] = op[u]
        BY <2>3 DEF QueueInv, QueueTypeOK
      <3> QED BY <3>1, <3>2, NoLockStep
    <2> QED BY <1>1, <2>2, <2>3 DEF LlRwBlock
  <1>2. CASE GetLock(t)
    <2>1. op[t].rw \in {READ, WRITE} /\ op[t].b \in BufferHeads
      BY <1>2 DEF GetLock, QueueInv, QueueTypeOK
    <2>2. Locked(t, op[t].rw, op[t].b, FALSE) /\ UNCHANGED <<blocknr, b_uptodate, b_data, ioVars>>
      BY <1>2 DEF GetLock
    <2> QED BY <2>1, <2>2, LockedStep
  <1>3. CASE GetSlot(t)
    <2> SUFFICES ASSUME NEW rw, rw = op[t].rw, NEW b, b = op[t].b, NEW locks, locks = b_lock,
                        NEW ahead, ahead = FALSE
                 PROVE  QueueInv'
      OBVIOUS
    <2>1. rw \in {READ, WRITE} /\ b \in BufferHeads /\ rqPc[t] = "slot"
      BY <1>3 DEF GetSlot, QueueInv, QueueTypeOK
    <2>2. TakeSlot(t, rw, b, ahead, locks) /\ UNCHANGED <<blocknr, b_uptodate, b_data, ioVars>>
      BY <1>3 DEF GetSlot
    <2>3. /\ b_lock[b] /\ (rw = READ => ~b_uptodate[b])
          /\ \A i \in Busy : request[i].bh # b
          /\ \A u \in Callers \ {t} : rqPc[u] = "slot" => op[u].b # b
      BY <2>1 DEF QueueInv, OnlyOne
    <2>4. locks \in [BufferHeads -> BOOLEAN] /\ locks[b] /\ \A c \in BufferHeads \ {b} : locks[c] = b_lock[c]
      BY <2>3 DEF QueueInv, QueueTypeOK
    <2> QED BY <2>1, <2>2, <2>3, <2>4, TakeSlotStep
  <1> QED BY <1>1, <1>2, <1>3

(* ll_rw_page and the return of its first sleep. *)
LEMMA PageSlotStep ==
  ASSUME RequestQueueAssumption, QueueInv, NEW t \in Callers, NEW rw \in {READ, WRITE}, NEW p \in SwapPages,
         TakePageSlot(t, rw, p), DOMAIN op' = Callers, \A u \in Callers \ {t} : op'[u] = op[u],
         FreeSlots(rw, Nil) = {} => op'[t].rw = rw /\ op'[t].p = p,
         UNCHANGED <<blocknr, b_lock, b_uptodate, b_data, disk, moved>>
  PROVE  QueueInv'
  <1> DEFINE free == FreeSlots(rw, Nil)
  <1>1. CASE free # {} /\ AddRequest(Max(free), SwapRequest(rw, p, t)) /\ rqPc' = [rqPc EXCEPT ![t] = "io"]
    <2> SUFFICES ASSUME NEW i, i = Max(free), NEW req, req = SwapRequest(rw, p, t) PROVE QueueInv'
      OBVIOUS
    <2>1. free \subseteq Slots /\ \A j \in free : request[j] = Free
      BY DEF FreeSlots
    <2>2. i \in Slots /\ request[i] = Free /\ AddRequest(i, req)
      <3>1. NR_REQUEST \in Nat
        BY DEF RequestQueueAssumption
      <3>2. Max(free) \in free
        <4> HIDE DEF free
        <4> QED BY <1>1, <2>1, <3>1, GreatestIs DEF Slots
      <3> QED BY <1>1, <2>1, <3>2
    <2>3. req.dev = 1 /\ req.cmd = rw /\ req.sector = p /\ req.bh = Nil
      BY DEF SwapRequest
    <2>4. IsRequest(req)'
      BY <2>3 DEF IsRequest
    <2>5. /\ rqPc'[t] \in {"out", "io"} /\ DOMAIN rqPc' = Callers
          /\ \A u \in Callers \ {t} : rqPc'[u] = rqPc[u] /\ op'[u] = op[u]
      BY <1>1 DEF QueueInv, QueueTypeOK
    <2>6. b_lock' \in [BufferHeads -> BOOLEAN] /\ \A c \in BufferHeads : b_lock[c] => b_lock'[c]
      BY DEF QueueInv, QueueTypeOK
    <2>7. \A u \in Callers \ {t} : rqPc[u] = "slot" => op[u].b # req.bh
      BY <2>3 DEF QueueInv, QueueTypeOK, RequestQueueAssumption
    <2>8. UNCHANGED <<blocknr, b_uptodate, b_data, disk, moved>>
      OBVIOUS
    <2> HIDE DEF free
    <2> QED BY <2>2, <2>3, <2>4, <2>5, <2>6, <2>7, <2>8, FillStep
  <1>2. CASE free = {} /\ rqPc' = [rqPc EXCEPT ![t] = "pageslot"] /\ UNCHANGED <<request, queue, b_dirt>>
    <2>1. UNCHANGED <<request, queue, b_lock, b_dirt, blocknr, b_uptodate, b_data, disk, moved>>
      BY <1>2
    <2>2. /\ DOMAIN rqPc' = Callers /\ rqPc'[t] = "pageslot" /\ op'[t].rw = rw /\ op'[t].p = p
          /\ \A u \in Callers \ {t} : rqPc'[u] = rqPc[u] /\ op'[u] = op[u]
      BY <1>2 DEF QueueInv, QueueTypeOK
    <2> QED BY <2>1, <2>2, NoLockStep
  <1> QED BY <1>1, <1>2 DEF TakePageSlot

LEMMA PageSteps ==
  ASSUME RequestQueueAssumption, QueueInv, NEW t \in Callers,
         \/ \E rw \in {READ, WRITE}, p \in SwapPages : LlRwPage(t, rw, p)
         \/ GetPageSlot(t)
  PROVE  QueueInv'
  <1>1. ASSUME NEW rw \in {READ, WRITE}, NEW p \in SwapPages, LlRwPage(t, rw, p)
        PROVE  QueueInv'
    <2>1. TakePageSlot(t, rw, p) /\ UNCHANGED <<blocknr, b_lock, b_uptodate, b_data, disk, moved>>
      BY <1>1 DEF LlRwPage
    <2>2. /\ DOMAIN op' = Callers /\ op'[t].rw = rw /\ op'[t].p = p
          /\ \A u \in Callers \ {t} : op'[u] = op[u]
      BY <1>1 DEF LlRwPage, QueueInv, QueueTypeOK
    <2> QED BY <2>1, <2>2, PageSlotStep
  <1>2. CASE GetPageSlot(t)
    <2>1. op[t].rw \in {READ, WRITE} /\ op[t].p \in SwapPages /\ DOMAIN op = Callers /\ op' = op
      BY <1>2 DEF GetPageSlot, QueueInv, QueueTypeOK
    <2>2. /\ TakePageSlot(t, op[t].rw, op[t].p) /\ FreeSlots(op[t].rw, Nil) # {}
          /\ UNCHANGED <<blocknr, b_lock, b_uptodate, b_data, disk, moved>>
      BY <1>2 DEF GetPageSlot, ioVars
    <2> QED BY <2>1, <2>2, PageSlotStep
  <1> QED BY <1>1, <1>2

-----------------------------------------------------------------------------
(* The device moves the data of CURRENT: it touches no block or buffer of
   another request, and none that nobody asked for. *)
LEMMA TransferStep ==
  ASSUME RequestQueueAssumption, QueueInv, Transfer PROVE QueueInv'
  <1>1. /\ queue # <<>>
        /\ UNCHANGED <<request, queue, blocknr, b_lock, b_dirt, b_uptodate, rqPc, op>>
    BY DEF Transfer
  <1>2. Busy' = Busy /\ Current' = Current
    BY <1>1 DEF Busy, Current
  <1> DEFINE h == Head(queue)  buf == Current.bh
  <1>3. /\ h \in Busy /\ Current = request[h] /\ IsRequest(Current)
        /\ Current.cmd \in {READ, WRITE}
        /\ buf = Nil => Current.sector \in SwapPages
        /\ buf # Nil => buf \in BufferHeads /\ Current.sector = blocknr[buf]
    BY <1>1, CurrentIs DEF IsRequest
  <1>4. READ # WRITE
    BY DEF READ, WRITE
  <1>5. /\ DOMAIN b_data' = BufferHeads /\ DOMAIN disk' = DOMAIN disk
        /\ buf # Nil => b_data'[buf] = disk'[Current.sector]
        /\ \A b \in BufferHeads : b # buf => b_data'[b] = b_data[b] /\ disk'[blocknr[b]] = disk[blocknr[b]]
    <2>1. CASE Current.cmd = READ
      <3>1. /\ b_data' = [b \in BufferHeads |-> IF b = buf THEN moved' ELSE b_data[b]]
            /\ disk' = disk /\ moved' = disk[Current.sector]
        BY <2>1 DEF Transfer
      <3> HIDE DEF h, buf
      <3>2. DOMAIN b_data' = BufferHeads /\ DOMAIN disk' = DOMAIN disk
        BY <3>1
      <3>3. buf # Nil => b_data'[buf] = disk'[Current.sector]
        BY <1>3, <3>1
      <3>4. \A b \in BufferHeads : b # buf => b_data'[b] = b_data[b] /\ disk'[blocknr[b]] = disk[blocknr[b]]
        BY <3>1
      <3> QED BY <3>2, <3>3, <3>4
    <2>2. CASE Current.cmd = WRITE
      <3>1. /\ disk' = [disk EXCEPT ![Current.sector] = moved'] /\ b_data' = b_data
            /\ buf # Nil => moved' = b_data[buf]
        BY <1>4, <2>2 DEF Transfer
      <3>2. DOMAIN disk = Blocks \cup SwapPages /\ DOMAIN b_data = BufferHeads
            /\ blocknr \in [BufferHeads -> Blocks] /\ \A b, c \in BufferHeads : blocknr[b] = blocknr[c] => b = c
        BY DEF QueueInv, QueueTypeOK, OnlyOne
      <3>3. Blocks \cap SwapPages = {}
        BY DEF RequestQueueAssumption
      <3> HIDE DEF h, buf
      <3>4. DOMAIN b_data' = BufferHeads /\ DOMAIN disk' = DOMAIN disk
        BY <3>1, <3>2
      <3>5. buf # Nil => b_data'[buf] = disk'[Current.sector]
        BY <1>3, <3>1, <3>2
      <3>6. \A b \in BufferHeads : b # buf => blocknr[b] # Current.sector
        BY <1>3, <3>2, <3>3
      <3>7. \A b \in BufferHeads : b # buf => b_data'[b] = b_data[b] /\ disk'[blocknr[b]] = disk[blocknr[b]]
        BY <3>1, <3>2, <3>6
      <3> QED BY <3>4, <3>5, <3>7
    <2> QED BY <1>3, <2>1, <2>2
  <1>6. \A i \in Busy : IsRequest(request[i])'
    BY <1>1 DEF QueueInv, QueueTypeOK, IsRequest
  <1>7. QueueTypeOK'
    BY <1>1, <1>2, <1>5, <1>6 DEF QueueInv, QueueTypeOK
  <1>8. QueueListOK' /\ OnlyOne'
    BY <1>1, <1>2 DEF QueueInv, QueueListOK, OnlyOne
  <1>9. MovedOK'
    BY <1>1, <1>2, <1>5 DEF MovedOK
  <1>10. NoLostModification'
    <2> SUFFICES ASSUME NEW b \in BufferHeads, b_uptodate[b], ~b_dirt[b], \A i \in Busy : request[i].bh # b
                 PROVE  b_data'[b] = disk'[blocknr[b]]
      BY <1>1, <1>2 DEF NoLostModification
    <2>1. b # buf
      BY <1>3
    <2>2. b_data[b] = disk[blocknr[b]]
      BY DEF QueueInv, NoLostModification
    <2> QED BY <1>5, <2>1, <2>2
  <1> QED BY <1>7, <1>8, <1>9, <1>10 DEF QueueInv

(* end_request: a buffer becomes valid only if its content is the block's, or
   if it is dirty. *)
LEMMA EndRequestStep ==
  ASSUME RequestQueueAssumption, QueueInv, NEW ok \in BOOLEAN, EndRequest(ok) PROVE QueueInv'
  <1> DEFINE h == Head(queue)  buf == Current.bh
  <1>1. /\ queue # <<>> /\ (ok => moved # Nil) /\ moved' = Nil /\ queue' = Tail(queue)
        /\ UNCHANGED <<blocknr, b_dirt, b_data, disk>>
    BY DEF EndRequest
  <1>2. /\ h \in Busy /\ h \in Slots /\ Current = request[h] /\ IsRequest(Current) /\ h = queue[1]
        /\ Len(queue) \in Nat \ {0} /\ (buf \in BufferHeads => buf # Nil)
        /\ buf # Nil => buf \in BufferHeads /\ Current.sector = blocknr[buf]
    BY <1>1, CurrentIs DEF IsRequest, Busy
  <1>3. DOMAIN request' = Slots /\ request'[h] = Free /\ \A i \in Slots \ {h} : request'[i] = request[i]
    BY <1>2 DEF EndRequest, QueueInv, QueueTypeOK
  <1>4. Busy' = Busy \ {h} /\ \A i \in Busy' : request'[i] = request[i] /\ i \in Busy
    BY <1>2, <1>3 DEF Busy
  <1>5. /\ b_uptodate' \in [BufferHeads -> BOOLEAN] /\ b_lock' \in [BufferHeads -> BOOLEAN]
        /\ \A b \in BufferHeads : b # buf => b_uptodate'[b] = b_uptodate[b] /\ b_lock'[b] = b_lock[b]
        /\ \A b \in BufferHeads : b = buf => b_uptodate'[b] = ok
    BY DEF EndRequest, QueueInv, QueueTypeOK
  <1>6. /\ DOMAIN rqPc' = Callers /\ DOMAIN op' = Callers
        /\ \A t \in Callers : rqPc'[t] # "out" => rqPc'[t] = rqPc[t] /\ op'[t] = op[t]
    BY DEF EndRequest
  <1> HIDE DEF h, buf
  <1>7. \A i \in Busy' : request[i].bh # Nil => request[i].bh \in BufferHeads /\ request[i].bh # buf
    <2> SUFFICES ASSUME NEW i \in Busy', request[i].bh # Nil
                 PROVE  request[i].bh \in BufferHeads /\ request[i].bh # buf
      OBVIOUS
    <2>1. i \in Busy /\ i # h /\ buf = request[h].bh
      BY <1>2, <1>4 DEF buf
    <2> QED BY <1>2, <2>1 DEF QueueInv, QueueTypeOK, IsRequest, OnlyOne
  <1>8. \A i \in Busy' : IsRequest(request[i])'
    <2> SUFFICES ASSUME NEW i \in Busy' PROVE IsRequest(request[i])'
      OBVIOUS
    <2>1. i \in Busy /\ request'[i] = request[i] /\ IsRequest(request[i])
      BY <1>4 DEF QueueInv, QueueTypeOK
    <2>2. CASE request[i].bh = Nil
      BY <2>1, <2>2 DEF IsRequest
    <2>3. CASE request[i].bh # Nil
      <3>1. request[i].bh \in BufferHeads /\ request[i].bh # buf
        BY <1>7, <2>3
      <3>2. b_uptodate'[request[i].bh] = b_uptodate[request[i].bh] /\ b_lock'[request[i].bh] = b_lock[request[i].bh]
        BY <1>5, <3>1
      <3> QED BY <1>1, <2>1, <2>3, <3>2 DEF IsRequest
    <2> QED BY <2>2, <2>3
  <1>9. \A k \in 1..Len(queue') : queue'[k] = queue[k + 1] /\ k + 1 \in 1..Len(queue)
        /\ queue' \in Seq(Slots) /\ Len(queue') = Len(queue) - 1
    BY <1>1, <1>2 DEF QueueInv, QueueTypeOK
  <1>10. QueueTypeOK'
    <2>1. queue' \in Seq(Slots)
      BY <1>1, <1>2 DEF QueueInv, QueueTypeOK
    <2>2. \A t \in Callers : rqPc'[t] \in {"lock", "slot"} => op'[t].rw \in {READ, WRITE} /\ op'[t].b \in BufferHeads
      BY <1>6 DEF QueueInv, QueueTypeOK
    <2>3. \A t \in Callers : rqPc'[t] = "pageslot" => op'[t].rw \in {READ, WRITE} /\ op'[t].p \in SwapPages
      BY <1>6 DEF QueueInv, QueueTypeOK
    <2> QED BY <1>1, <1>3, <1>5, <1>6, <1>8, <2>1, <2>2, <2>3 DEF QueueInv, QueueTypeOK
  <1>11. QueueListOK'
    <2>1. \A k \in 1..Len(queue') : queue'[k] \in Busy'
      <3> SUFFICES ASSUME NEW k \in 1..Len(queue') PROVE queue'[k] \in Busy'
        OBVIOUS
      <3>1. queue'[k] = queue[k + 1] /\ k + 1 \in 1..Len(queue) /\ 1 \in 1..Len(queue) /\ k + 1 # 1
        BY <1>2, <1>9
      <3>2. queue[k + 1] \in Busy /\ queue[k + 1] # h
        BY <1>2, <3>1 DEF QueueInv, QueueListOK
      <3> QED BY <1>4, <3>1, <3>2
    <2>2. \A k, l \in 1..Len(queue') : queue'[k] = queue'[l] => k = l
      <3> SUFFICES ASSUME NEW k \in 1..Len(queue'), NEW l \in 1..Len(queue'), queue'[k] = queue'[l]
                   PROVE  k = l
        OBVIOUS
      <3>1. k + 1 = l + 1
        BY <1>9 DEF QueueInv, QueueListOK
      <3> QED BY <3>1
    <2> QED BY <2>1, <2>2 DEF QueueListOK
  <1>12. OnlyOne'
    <2>1. \A i, j \in Busy' : request'[i].bh = request'[j].bh /\ request'[i].bh # Nil => i = j
      BY <1>4 DEF QueueInv, OnlyOne
    <2>2. \A t \in Callers : rqPc'[t] = "slot" =>
            /\ b_lock'[op'[t].b]
            /\ op'[t].rw = READ => ~b_uptodate'[op'[t].b]
            /\ \A i \in Busy' : request'[i].bh # op'[t].b
      <3> SUFFICES ASSUME NEW t \in Callers, rqPc'[t] = "slot"
                   PROVE  /\ b_lock'[op'[t].b]
                          /\ op'[t].rw = READ => ~b_uptodate'[op'[t].b]
                          /\ \A i \in Busy' : request'[i].bh # op'[t].b
        OBVIOUS
      <3>1. rqPc[t] = "slot" /\ op'[t] = op[t]
        BY <1>6
      <3>2. /\ op[t].b \in BufferHeads /\ b_lock[op[t].b]
            /\ op[t].rw = READ => ~b_uptodate[op[t].b]
            /\ \A i \in Busy : request[i].bh # op[t].b
        BY <3>1 DEF QueueInv, QueueTypeOK, OnlyOne
      <3>3. op[t].b # buf
        BY <1>2, <3>2 DEF buf
      <3>4. b_lock'[op[t].b] = b_lock[op[t].b] /\ b_uptodate'[op[t].b] = b_uptodate[op[t].b]
        BY <1>5, <3>2, <3>3
      <3> QED BY <1>4, <3>1, <3>2, <3>4
    <2>3. \A t, u \in Callers : rqPc'[t] = "slot" /\ rqPc'[u] = "slot" /\ op'[t].b = op'[u].b => t = u
      BY <1>6 DEF QueueInv, OnlyOne
    <2> QED BY <1>1, <2>1, <2>2, <2>3 DEF QueueInv, OnlyOne
  <1>13. MovedOK'
    BY <1>1 DEF MovedOK
  <1>14. NoLostModification'
    <2> SUFFICES ASSUME NEW b \in BufferHeads, b_uptodate'[b], ~b_dirt[b], \A i \in Busy' : request'[i].bh # b
                 PROVE  b_data[b] = disk[blocknr[b]]
      BY <1>1 DEF NoLostModification
    <2>1. CASE b = buf
      <3>1. moved # Nil /\ buf # Nil
        BY <1>1, <1>2, <1>5, <2>1
      <3> QED BY <1>2, <2>1, <3>1 DEF QueueInv, MovedOK, buf
    <2>2. CASE b # buf
      <3>1. b_uptodate[b]
        BY <1>5, <2>2
      <3>2. \A i \in Busy : request[i].bh # b
        BY <1>2, <1>4, <2>2 DEF buf
      <3> QED BY <3>1, <3>2 DEF QueueInv, NoLostModification
    <2> QED BY <2>1, <2>2
  <1> QED BY <1>10, <1>11, <1>12, <1>13, <1>14 DEF QueueInv

-----------------------------------------------------------------------------
(* The users of the buffers and pages. *)
LEMMA ModifyBufferStep ==
  ASSUME RequestQueueAssumption, QueueInv, NEW b \in BufferHeads, ModifyBuffer(b) PROVE QueueInv'
  <1>1. /\ b_uptodate[b] /\ UNCHANGED <<request, queue, blocknr, b_lock, b_uptodate, disk, moved, rqPc, op>>
    BY DEF ModifyBuffer, ioVars
  <1>2. /\ b_dirt' \in [BufferHeads -> BOOLEAN] /\ b_dirt'[b] /\ DOMAIN b_data' = BufferHeads
        /\ \A c \in BufferHeads : c # b => b_dirt'[c] = b_dirt[c] /\ b_data'[c] = b_data[c]
    BY DEF ModifyBuffer, QueueInv, QueueTypeOK
  <1>3. Busy' = Busy /\ Current' = Current
    BY <1>1 DEF Busy, Current
  <1>4. \A i \in Busy : IsRequest(request[i])'
    BY <1>1 DEF QueueInv, QueueTypeOK, IsRequest
  <1>5. QueueTypeOK'
    BY <1>1, <1>2, <1>3, <1>4 DEF QueueInv, QueueTypeOK
  <1>6. QueueListOK' /\ OnlyOne'
    BY <1>1, <1>3 DEF QueueInv, QueueListOK, OnlyOne
  <1>7. MovedOK'
    <2> SUFFICES ASSUME moved # Nil, Current.bh # Nil, Current.cmd = READ \/ ~b_dirt'[Current.bh]
                 PROVE  b_data'[Current.bh] = disk[Current.sector]
      BY <1>1, <1>3 DEF QueueInv, MovedOK
    <2>1. queue # <<>>
      BY DEF QueueInv, MovedOK
    <2>2. Current.bh \in BufferHeads /\ (Current.cmd = READ => ~b_uptodate[Current.bh])
      BY <2>1, CurrentIs DEF IsRequest
    <2>3. Current.bh # b
      BY <1>1, <1>2, <2>2
    <2> QED BY <1>2, <2>2, <2>3 DEF QueueInv, MovedOK
  <1>8. NoLostModification'
    BY <1>1, <1>2, <1>3 DEF QueueInv, NoLostModification
  <1> QED BY <1>5, <1>6, <1>7, <1>8 DEF QueueInv

LEMMA ReuseStep ==
  ASSUME RequestQueueAssumption, QueueInv, NEW b \in BufferHeads, NEW nr \in Blocks, Reuse(b, nr) PROVE QueueInv'
  <1>1. /\ ~b_lock[b] /\ UNCHANGED <<request, queue, b_lock, b_dirt, b_data, disk, moved, rqPc, op>>
        /\ \A c \in BufferHeads : blocknr[c] # nr
    BY DEF Reuse, ioVars
  <1>2. /\ blocknr' \in [BufferHeads -> Blocks] /\ b_uptodate' \in [BufferHeads -> BOOLEAN]
        /\ blocknr'[b] = nr /\ ~b_uptodate'[b]
        /\ \A c \in BufferHeads : c # b => blocknr'[c] = blocknr[c] /\ b_uptodate'[c] = b_uptodate[c]
    BY DEF Reuse, QueueInv, QueueTypeOK
  <1>3. Busy' = Busy /\ Current' = Current
    BY <1>1 DEF Busy, Current
  <1>4. \A i \in Busy : IsRequest(request[i])'
    <2> SUFFICES ASSUME NEW i \in Busy PROVE IsRequest(request[i])'
      OBVIOUS
    <2>1. IsRequest(request[i])
      BY DEF QueueInv, QueueTypeOK
    <2>2. request[i].bh # Nil => request[i].bh \in BufferHeads /\ request[i].bh # b
      BY <1>1, <2>1 DEF IsRequest
    <2> QED BY <1>1, <1>2, <2>1, <2>2 DEF IsRequest
  <1>5. QueueTypeOK'
    BY <1>1, <1>2, <1>3, <1>4 DEF QueueInv, QueueTypeOK
  <1>6. OnlyOne'
    <2>1. \A t \in Callers : rqPc[t] = "slot" =>
            /\ b_lock[op[t].b]
            /\ op[t].rw = READ => ~b_uptodate'[op[t].b]
            /\ \A i \in Busy : request[i].bh # op[t].b
      BY <1>1, <1>2 DEF QueueInv, QueueTypeOK, OnlyOne
    <2>2. \A c, d \in BufferHeads : blocknr'[c] = blocknr'[d] => c = d
      BY <1>1, <1>2 DEF QueueInv, OnlyOne
    <2> QED BY <1>1, <1>3, <2>1, <2>2 DEF QueueInv, OnlyOne
  <1>7. QueueListOK' /\ MovedOK'
    BY <1>1, <1>3 DEF QueueInv, QueueListOK, MovedOK
  <1>8. NoLostModification'
    BY <1>1, <1>2, <1>3 DEF QueueInv, NoLostModification
  <1> QED BY <1>5, <1>6, <1>7, <1>8 DEF QueueInv

(* Steps that leave alone what the invariant is about: a process writes to a
   page, or nothing happens. *)
LEMMA IdleStep ==
  ASSUME RequestQueueAssumption, QueueInv,
         UNCHANGED <<request, queue, bufferVars, disk, moved, rqPc, op>>
  PROVE  QueueInv'
  <1>1. UNCHANGED <<request, queue, blocknr, b_lock, b_dirt, b_uptodate, b_data, disk, moved, rqPc, op>>
    BY DEF bufferVars
  <1>2. Busy' = Busy /\ Current' = Current /\ \A i \in Busy : IsRequest(request[i])'
    BY <1>1 DEF Busy, Current, QueueInv, QueueTypeOK, IsRequest
  <1>3. QueueTypeOK'
    BY <1>1, <1>2 DEF QueueInv, QueueTypeOK
  <1> QED BY <1>1, <1>2, <1>3 DEF QueueInv, QueueListOK, OnlyOne, MovedOK, NoLostModification

LEMMA NextQueueInv ==
  ASSUME RequestQueueAssumption, QueueInv, [QueueNext]_queueVars PROVE QueueInv'
  <1>1. ASSUME NEW t \in Callers, CallerStep(t) PROVE QueueInv'
    <2>1. CASE \/ \E rw \in {READ, WRITE}, b \in BufferHeads, ahead \in BOOLEAN : LlRwBlock(t, rw, b, ahead)
               \/ GetLock(t) \/ GetSlot(t)
      BY <2>1, BlockSteps
    <2>2. CASE \/ \E rw \in {READ, WRITE}, p \in SwapPages : LlRwPage(t, rw, p)
               \/ GetPageSlot(t)
      BY <2>2, PageSteps
    <2> QED BY <1>1, <2>1, <2>2 DEF CallerStep, GoOn
  <1>2. CASE Transfer
    BY <1>2, TransferStep
  <1>3. ASSUME NEW ok \in BOOLEAN, EndRequest(ok) PROVE QueueInv'
    BY <1>3, EndRequestStep
  <1>4. ASSUME NEW b \in BufferHeads, ModifyBuffer(b) \/ \E nr \in Blocks : Reuse(b, nr) PROVE QueueInv'
    BY <1>4, ModifyBufferStep, ReuseStep
  <1>5. ASSUME NEW p \in SwapPages, WritePage(p) PROVE QueueInv'
    BY <1>5, IdleStep DEF WritePage
  <1>6. CASE UNCHANGED queueVars
    BY <1>6, IdleStep DEF queueVars, ioVars
  <1>7. CASE QueueNext
    BY <1>1, <1>2, <1>3, <1>4, <1>5, <1>7 DEF QueueNext
  <1> QED BY <1>6, <1>7

LEMMA IInvAlways == RequestQueueAssumption => (QueueSpec => []QueueInv)
  <1> SUFFICES ASSUME RequestQueueAssumption PROVE QueueSpec => []QueueInv
    OBVIOUS
  <1>1. QueueInit => QueueInv
    BY InitQueueInv
  <1>2. QueueInv /\ [QueueNext]_queueVars => QueueInv'
    BY NextQueueInv
  <1> QED BY <1>1, <1>2, PTL DEF QueueSpec

-----------------------------------------------------------------------------
(* However tasks write to a buffer while make_request, the transfer and
   end_request (ll_rw_blk.c, blk.h) work on it, and whether the device fails
   or not: a buffer that is valid, clean and not being written holds what its
   block on the disk holds, so it may be reused without losing a change. *)
THEOREM ModificationsAreKept ==
  RequestQueueAssumption => (QueueSpec => []NoLostModification)
  <1>1. QueueInv => NoLostModification
    BY DEF QueueInv
  <1> QED BY <1>1, IInvAlways, PTL

(* The list current_request holds slots of the table, each once; a request of
   a buffer is for its block, with the buffer locked, and no buffer has two
   requests, or a request and a task that still waits for a slot with the
   buffer locked. *)
THEOREM RequestsAreOrderly ==
  RequestQueueAssumption => (QueueSpec => [](QueueTypeOK /\ QueueListOK /\ OnlyOne))
  <1>1. QueueInv => QueueTypeOK /\ QueueListOK /\ OnlyOne
    BY DEF QueueInv
  <1> QED BY <1>1, IInvAlways, PTL
=============================================================================
