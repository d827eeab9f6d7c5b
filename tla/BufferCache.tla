----------------------------- MODULE BufferCache -----------------------------
(***************************************************************************)
(* The buffer cache, fs/buffer.c: which buffer stands for which block, who *)
(* holds it, and what getblk, bread, breada, bread_page, brelse and the    *)
(* sync and invalidate loops do to it while they sleep.                    *)
(*                                                                         *)
(* The kernel is not preemptive: `running' is the task inside the kernel   *)
(* that has not slept since its last step, NULL when any task may run. An  *)
(* action is the code from one place where a task can sleep, or one label, *)
(* to the next. The driver's interrupts come at any time.                  *)
(*                                                                         *)
(* ll_rw_block is reduced to what the cache sees of it: the buffer is      *)
(* locked and clean, and some time later unlocked again (module            *)
(* RequestQueue is about what happens in between). A task that calls it    *)
(* may have slept for a request slot. sync_inodes is reduced to the fact   *)
(* that it may sleep. wake_up wakes every sleeper of the queue: module     *)
(* WaitQueue is about how.                                                 *)
(***************************************************************************)
EXTENDS Integers, Sequences, FiniteSetsExt

CONSTANTS
  Tasks,
  NR_BUFFERS,
  Keys,         \* the blocks: records [dev, block]
  Calls,        \* what tasks call: <<function, blocks>>
  Scans,        \* loops over all buffers: <<function, device>>
  TableFull,    \* may a read-ahead find no request slot?
  IoErrors,     \* may reading and writing fail?
  NULL

ASSUME BufferCacheAssumption ==
  /\ NR_BUFFERS \in Nat \ {0}
  /\ NULL \notin Tasks
  /\ \A k \in Keys : k.dev # 0
  /\ \A c \in Calls : c \in {"getblk", "bread", "breada", "bread_page"} \X Seq(Keys) /\ c[2] # <<>>
  /\ \A s \in Scans : s[1] \in {"sys_sync", "sync_dev", "invalidate_buffers"}
  /\ TableFull \in BOOLEAN /\ IoErrors \in BOOLEAN

Buffers == 1..NR_BUFFERS       \* in the order of their buffer heads
NoKey == [dev |-> 0, block |-> 0]

VARIABLES
  key,        \* b_dev and b_blocknr
  count, lock, dirt, uptodate,
  free_list,  \* all buffers, the one at the head of the free list first
  asleep,     \* the tasks that sleep on buffer_wait
  running,
  pc,
  call,       \* function and blocks still to get
  bh,         \* the buffer getblk is working on
  held,       \* the buffers a task has got and not released
  scan,       \* the loop over all buffers a task is in
  unsynced    \* history: what was dirty when a task's sync began, and still is

cacheVars == <<key, count, lock, dirt, uptodate, free_list>>
taskVars == <<running, pc, call, bh, held, scan>>
vars == <<cacheVars, asleep, taskVars, unsynced>>

-----------------------------------------------------------------------------
CanRun(t) == running \in {t, NULL}

Goto(t, l) == pc' = [pc EXCEPT ![t] = l]

(* wait_on_buffer, to go on at label l: the task sleeps if the buffer is
   locked, and goes on only when it is not. *)
WaitOn(t, locked, l) == Goto(t, l) /\ running' = IF locked THEN NULL ELSE t

(* The function returns; its caller may sleep before the next call. *)
Return(t) == Goto(t, "out") /\ running' = NULL

MaySleep(t) == running' \in {t, NULL}

Wanted(t) == Head(call[t][2])

Cached(k) == {b \in Buffers : key[b] = k}

Badness(b) == (IF dirt[b] THEN 2 ELSE 0) + (IF lock[b] THEN 1 ELSE 0)

Unused == {b \in Buffers : count[b] = 0}

(* The first of the least bad unused buffers of the free list. *)
Best ==
  LET least == {b \in Unused : \A c \in Unused : Badness(b) <= Badness(c)}
  IN  free_list[Min({i \in Buffers : free_list[i] \in least})]

(* remove_from_queues and insert_into_queues: to the end of the free list. *)
MoveToEnd(b) ==
  LET place == Min({i \in Buffers : free_list[i] = b}) IN
  free_list' = [i \in Buffers |->
    IF i = NR_BUFFERS THEN b ELSE IF i < place THEN free_list[i] ELSE free_list[i + 1]]

-----------------------------------------------------------------------------
(* getblk from "repeat:", with get_hash_table up to its wait_on_buffer and
   the search of the free list. *)
Find(t) ==
  /\ pc[t] = "find" /\ CanRun(t)
  /\ \/ \E b \in Cached(Wanted(t)) :
          /\ count' = [count EXCEPT ![b] = @ + 1]
          /\ bh' = [bh EXCEPT ![t] = b]
          /\ WaitOn(t, lock[b], "hash")
          /\ UNCHANGED asleep
     \/ /\ Cached(Wanted(t)) = {} /\ Unused # {}
        /\ bh' = [bh EXCEPT ![t] = Best]
        /\ WaitOn(t, lock[Best], "free")
        /\ UNCHANGED <<asleep, count>>
     \/ /\ Cached(Wanted(t)) = {} /\ Unused = {}
        /\ asleep' = asleep \cup {t}
        /\ Goto(t, "buffer_wait") /\ running' = NULL
        /\ UNCHANGED <<bh, count>>
  /\ UNCHANGED <<key, lock, dirt, uptodate, free_list, call, held, scan, unsynced>>

Woken(t) ==
  /\ pc[t] = "buffer_wait" /\ t \notin asleep /\ CanRun(t)
  /\ Goto(t, "find") /\ running' = t
  /\ UNCHANGED <<cacheVars, asleep, call, bh, held, scan, unsynced>>

(* get_hash_table after wait_on_buffer. *)
Hash(t) ==
  LET b == bh[t] IN
  /\ pc[t] = "hash" /\ ~lock[b] /\ CanRun(t)
  /\ running' = t
  /\ \/ /\ key[b] = Wanted(t)
        /\ Goto(t, "got")
        /\ count' = count
     \/ /\ key[b] # Wanted(t)
        /\ count' = [count EXCEPT ![b] = @ - 1]
        /\ Goto(t, "find")
  /\ UNCHANGED <<key, lock, dirt, uptodate, free_list, asleep, call, bh, held, scan, unsynced>>

StartScan(t, what, dev) ==
  /\ scan' = [scan EXCEPT ![t] =
       [what |-> what, dev |-> dev, i |-> 1, last |-> what # "sync_dev"]]
  /\ Goto(t, IF what = "sys_sync" THEN "inodes" ELSE "next")

Take(t, b) ==
  /\ key' = [key EXCEPT ![b] = Wanted(t)]
  /\ count' = [count EXCEPT ![b] = 1]
  /\ dirt' = [dirt EXCEPT ![b] = FALSE]
  /\ uptodate' = [uptodate EXCEPT ![b] = FALSE]
  /\ MoveToEnd(b)
  /\ Goto(t, "got")
  /\ UNCHANGED scan

Repeat(t) == Goto(t, "find") /\ UNCHANGED <<key, count, dirt, uptodate, free_list, scan>>

(* getblk after the wait_on_buffer for the buffer it has chosen: somebody
   may have taken it, dirtied it, or read the wanted block meanwhile. *)
Claim_NoSecondLook(t) ==               \* faulty: no find_buffer at the end
  LET b == bh[t] IN
  /\ pc[t] = "free" /\ ~lock[b] /\ CanRun(t)
  /\ running' = t
  /\ \/ count[b] # 0 /\ Repeat(t)
     \/ /\ count[b] = 0 /\ dirt[b]
        /\ StartScan(t, "sync_dev", key[b].dev)
        /\ UNCHANGED <<key, count, dirt, uptodate, free_list>>
     \/ count[b] = 0 /\ ~dirt[b] /\ Take(t, b)
  /\ UNCHANGED <<lock, asleep, call, bh, held, unsynced>>

Claim_Dirty(t) ==                      \* faulty: does not write b before it takes it
  LET b == bh[t] IN
  /\ pc[t] = "free" /\ ~lock[b] /\ CanRun(t)
  /\ running' = t
  /\ \/ count[b] # 0 /\ Repeat(t)
     \/ count[b] = 0 /\ Cached(Wanted(t)) # {} /\ Repeat(t)
     \/ count[b] = 0 /\ Cached(Wanted(t)) = {} /\ Take(t, b)
  /\ UNCHANGED <<lock, asleep, call, bh, held, unsynced>>

Claim(t) ==
  LET b == bh[t] IN
  /\ pc[t] = "free" /\ ~lock[b] /\ CanRun(t)
  /\ running' = t
  /\ \/ count[b] # 0 /\ Repeat(t)
     \/ /\ count[b] = 0 /\ dirt[b]
        /\ StartScan(t, "sync_dev", key[b].dev)
        /\ UNCHANGED <<key, count, dirt, uptodate, free_list>>
     \/ count[b] = 0 /\ ~dirt[b] /\ Cached(Wanted(t)) # {} /\ Repeat(t)
     \/ count[b] = 0 /\ ~dirt[b] /\ Cached(Wanted(t)) = {} /\ Take(t, b)
  /\ UNCHANGED <<lock, asleep, call, bh, held, unsynced>>

-----------------------------------------------------------------------------
(* ll_rw_block(READ, b) for a buffer the caller has just got. *)
Read(b) ==
  /\ lock' = [lock EXCEPT ![b] = @ \/ ~uptodate[b]]
  /\ dirt' = [dirt EXCEPT ![b] = @ /\ uptodate[b]]

(* ll_rw_block(READA, b): gives up if b is locked or no slot is free. *)
ReadAhead(b) ==
  \/ ~lock[b] /\ Read(b)
  \/ (lock[b] \/ TableFull) /\ UNCHANGED <<lock, dirt>>

MoreBlocks(t) == Len(call[t][2]) > 1

(* getblk returns bh[t] to its caller. *)
GotBuffer(t) ==
  LET b == bh[t]
      got == Append(held[t], b)
  IN  /\ held' = [held EXCEPT ![t] = got]
      /\ UNCHANGED count
      /\ \/ /\ call[t][1] = "getblk"
            /\ Return(t)
            /\ UNCHANGED <<lock, dirt, call>>
         \/ /\ call[t][1] = "bread"
            /\ Read(b)
            /\ \/ uptodate[b] /\ Return(t)
               \/ ~uptodate[b] /\ Goto(t, "read") /\ MaySleep(t)
            /\ UNCHANGED call
         \/ /\ call[t][1] \in {"breada", "bread_page"} /\ MoreBlocks(t)
            /\ Read(b)
            /\ call' = [call EXCEPT ![t][2] = Tail(@)]
            /\ Goto(t, "find")
            /\ IF uptodate[b] THEN running' = t ELSE MaySleep(t)
         \/ /\ call[t][1] = "breada" /\ ~MoreBlocks(t)
            /\ Read(b)
            /\ WaitOn(t, lock'[b], "read")
            /\ UNCHANGED call
         \/ /\ call[t][1] = "bread_page" /\ ~MoreBlocks(t)
            /\ Read(b)
            /\ WaitOn(t, lock'[Head(got)], "brelse")
            /\ UNCHANGED call

(* breada has got one of the other blocks: the read-ahead it asks for is of
   its first block, and it lets go of the other one without brelse. *)
GotAhead(t) ==
  LET first == held[t][1] IN
  /\ count' = [count EXCEPT ![bh[t]] = @ - 1]
  /\ \/ ~uptodate[bh[t]] /\ ReadAhead(first)
     \/ uptodate[bh[t]] /\ UNCHANGED <<lock, dirt>>
  /\ \/ MoreBlocks(t) /\ call' = [call EXCEPT ![t][2] = Tail(@)] /\ Goto(t, "find") /\ running' = t
     \/ ~MoreBlocks(t) /\ call' = call /\ WaitOn(t, lock'[first], "read")
  /\ UNCHANGED held

Got(t) ==
  /\ pc[t] = "got" /\ CanRun(t)
  /\ IF call[t][1] = "breada" /\ held[t] # <<>> THEN GotAhead(t) ELSE GotBuffer(t)
  /\ bh' = [bh EXCEPT ![t] = NULL]
  /\ unsynced' = [u \in Tasks |-> {b \in unsynced[u] : dirt'[b]}]
  /\ UNCHANGED <<key, uptodate, free_list, asleep, scan>>

(* bread and breada after wait_on_buffer. *)
ReadDone(t) ==
  LET b == held[t][1] IN
  /\ pc[t] = "read" /\ ~lock[b] /\ CanRun(t)
  /\ IF uptodate[b] THEN Return(t) ELSE Goto(t, "brelse") /\ running' = t
  /\ UNCHANGED <<cacheVars, asleep, call, bh, held, scan, unsynced>>

(* brelse after wait_on_buffer; bread_page goes on with its next buffer. *)
Brelse_NoWakeup(t) ==                  \* faulty: no wake_up(&buffer_wait)
  LET b == Head(held[t]) IN
  /\ pc[t] = "brelse" /\ ~lock[b] /\ CanRun(t)
  /\ count' = [count EXCEPT ![b] = @ - 1]
  /\ held' = [held EXCEPT ![t] = Tail(@)]
  /\ IF Len(held[t]) > 1 THEN WaitOn(t, lock[held[t][2]], "brelse") ELSE Return(t)
  /\ UNCHANGED <<key, lock, dirt, uptodate, free_list, asleep, call, bh, scan, unsynced>>

Brelse(t) ==
  LET b == Head(held[t]) IN
  /\ pc[t] = "brelse" /\ ~lock[b] /\ CanRun(t)
  /\ count' = [count EXCEPT ![b] = @ - 1]
  /\ asleep' = {}
  /\ held' = [held EXCEPT ![t] = Tail(@)]
  /\ IF Len(held[t]) > 1 THEN WaitOn(t, lock[held[t][2]], "brelse") ELSE Return(t)
  /\ UNCHANGED <<key, lock, dirt, uptodate, free_list, call, bh, scan, unsynced>>

-----------------------------------------------------------------------------
(* The loops over all buffers: sys_sync, sync_dev and invalidate_buffers.
   The buffers of other devices are skipped without sleeping. *)
InScope(s, b) == s.what = "sys_sync" \/ key[b].dev = s.dev

Ahead(s) == {b \in Buffers : b >= s.i /\ InScope(s, b)}

Next_SkipsLocked(t) ==                 \* faulty: a buffer that is being written is left out
  LET s == scan[t]
      todo == {b \in Ahead(s) : ~lock[b]}
  IN
  /\ pc[t] = "next" /\ CanRun(t)
  /\ \/ /\ todo # {}
        /\ scan' = [scan EXCEPT ![t].i = Min(todo)]
        /\ WaitOn(t, lock[Min(todo)], "scan")
        /\ UNCHANGED unsynced
     \/ /\ todo = {} /\ ~s.last
        /\ scan' = [scan EXCEPT ![t].i = NR_BUFFERS + 1]
        /\ Goto(t, "inodes") /\ MaySleep(t)
        /\ UNCHANGED unsynced
     \/ /\ todo = {} /\ s.last
        /\ scan' = [scan EXCEPT ![t] = NULL]
        /\ IF call[t] = NULL THEN Return(t) ELSE WaitOn(t, lock[bh[t]], "free")
        /\ unsynced' = [unsynced EXCEPT ![t] = {}]
  /\ UNCHANGED <<cacheVars, asleep, call, bh, held>>

ScanNext(t) ==
  LET s == scan[t]
      todo == Ahead(s)
  IN
  /\ pc[t] = "next" /\ CanRun(t)
  /\ \/ /\ todo # {}
        /\ scan' = [scan EXCEPT ![t].i = Min(todo)]
        /\ WaitOn(t, lock[Min(todo)], "scan")
        /\ UNCHANGED unsynced
     \/ /\ todo = {} /\ ~s.last
        /\ scan' = [scan EXCEPT ![t].i = NR_BUFFERS + 1]
        /\ Goto(t, "inodes") /\ MaySleep(t)
        /\ UNCHANGED unsynced
     \/ /\ todo = {} /\ s.last
        /\ scan' = [scan EXCEPT ![t] = NULL]
        /\ IF call[t] = NULL THEN Return(t) ELSE WaitOn(t, lock[bh[t]], "free")
        /\ unsynced' = [unsynced EXCEPT ![t] = {}]
  /\ UNCHANGED <<cacheVars, asleep, call, bh, held>>

(* sync_inodes has returned. *)
ScanAgain(t) ==
  /\ pc[t] = "inodes" /\ CanRun(t)
  /\ scan' = [scan EXCEPT ![t].i = 1, ![t].last = TRUE]
  /\ Goto(t, "next") /\ running' = t
  /\ UNCHANGED <<cacheVars, asleep, call, bh, held, unsynced>>

(* The body of a loop after wait_on_buffer: ll_rw_block(WRITE, b), or b is
   invalidated. What becomes clean here is no longer unsynced. *)
ScanBuffer(t) ==
  LET s == scan[t]
      b == s.i
  IN
  /\ pc[t] = "scan" /\ ~lock[b] /\ CanRun(t)
  /\ scan' = [scan EXCEPT ![t].i = @ + 1]
  /\ Goto(t, "next")
  /\ \/ /\ InScope(s, b) /\ s.what = "invalidate_buffers"
        /\ dirt' = [dirt EXCEPT ![b] = FALSE]
        /\ uptodate' = [uptodate EXCEPT ![b] = FALSE]
        /\ running' = t /\ UNCHANGED lock
     \/ /\ InScope(s, b) /\ s.what # "invalidate_buffers" /\ dirt[b]
        /\ lock' = [lock EXCEPT ![b] = TRUE]
        /\ dirt' = [dirt EXCEPT ![b] = FALSE]
        /\ MaySleep(t) /\ UNCHANGED uptodate
     \/ /\ ~InScope(s, b) \/ (s.what # "invalidate_buffers" /\ ~dirt[b])
        /\ running' = t /\ UNCHANGED <<lock, dirt, uptodate>>
  /\ unsynced' = [u \in Tasks |-> IF dirt'[b] THEN unsynced[u] ELSE unsynced[u] \ {b}]
  /\ UNCHANGED <<key, count, free_list, asleep, call, bh, held>>

-----------------------------------------------------------------------------
(* Tasks outside of fs/buffer.c: a task releases what it holds before it
   asks for more (what asks for more at once is bread_page). *)
Call(t) ==
  /\ pc[t] = "out" /\ CanRun(t) /\ held[t] = <<>>
  /\ call' \in {[call EXCEPT ![t] = c] : c \in Calls}
  /\ Goto(t, "find") /\ running' = t
  /\ UNCHANGED <<cacheVars, asleep, bh, held, scan, unsynced>>

Scan(t) ==
  /\ pc[t] = "out" /\ CanRun(t) /\ held[t] = <<>>
  /\ \E s \in Scans :
       /\ StartScan(t, s[1], s[2])
       /\ unsynced' = [unsynced EXCEPT ![t] =
            {b \in Buffers : /\ s[1] # "invalidate_buffers" /\ dirt[b]
                             /\ s[1] = "sys_sync" \/ key[b].dev = s[2]}]
  /\ call' = [call EXCEPT ![t] = NULL]
  /\ running' = t
  /\ UNCHANGED <<cacheVars, asleep, bh, held>>

(* The holder writes into the buffer. What getblk returned is filled by its
   caller, which makes it valid. *)
Modify(t) ==
  /\ pc[t] = "out" /\ CanRun(t) /\ held[t] # <<>>
  /\ LET b == Head(held[t]) IN
       /\ dirt' = [dirt EXCEPT ![b] = TRUE]
       /\ uptodate' = [uptodate EXCEPT ![b] = @ \/ call[t][1] = "getblk"]
  /\ running' = NULL
  /\ UNCHANGED <<key, count, lock, free_list, asleep, pc, call, bh, held, scan, unsynced>>

Release(t) ==
  /\ pc[t] = "out" /\ CanRun(t) /\ held[t] # <<>>
  /\ WaitOn(t, lock[Head(held[t])], "brelse")
  /\ UNCHANGED <<cacheVars, asleep, call, bh, held, scan, unsynced>>

(* end_request of the driver, in its interrupt. *)
Unlock(b) ==
  /\ lock[b]
  /\ lock' = [lock EXCEPT ![b] = FALSE]
  /\ uptodate' \in {[uptodate EXCEPT ![b] = ok] : ok \in {TRUE, ~IoErrors}}
  /\ UNCHANGED <<key, count, dirt, free_list, asleep, taskVars, unsynced>>

-----------------------------------------------------------------------------
(* buffer_init; the head of the free list is the first buffer. *)
Init ==
  /\ key = [b \in Buffers |-> NoKey]
  /\ count = [b \in Buffers |-> 0]
  /\ lock = [b \in Buffers |-> FALSE]
  /\ dirt = [b \in Buffers |-> FALSE]
  /\ uptodate = [b \in Buffers |-> FALSE]
  /\ free_list = [i \in Buffers |-> i]
  /\ asleep = {}
  /\ running = NULL
  /\ pc = [t \in Tasks |-> "out"]
  /\ call = [t \in Tasks |-> NULL]
  /\ bh = [t \in Tasks |-> NULL]
  /\ held = [t \in Tasks |-> <<>>]
  /\ scan = [t \in Tasks |-> NULL]
  /\ unsynced = [t \in Tasks |-> {}]

TaskStep(t) ==
  \/ Find(t) \/ Woken(t) \/ Hash(t) \/ Claim(t) \/ Got(t) \/ ReadDone(t) \/ Brelse(t)
  \/ ScanNext(t) \/ ScanAgain(t) \/ ScanBuffer(t) \/ Release(t)

Next ==
  \/ \E t \in Tasks : TaskStep(t) \/ Call(t) \/ Scan(t) \/ Modify(t)
  \/ \E b \in Buffers : Unlock(b)

Spec == Init /\ [][Next]_vars

-----------------------------------------------------------------------------
(* A block is never in two buffers, although two tasks may look for the same
   block, not find it, and sleep before they take a buffer for it (the
   second find_buffer of getblk, "this buffer is the only one of it's
   kind"). *)
OneBufferPerBlock ==
  \A b, c \in Buffers : key[b] = key[c] /\ key[b] # NoKey => b = c

(* Whoever sleeps in getblk because all buffers are in use can count on
   somebody who is awake and will call brelse: get_hash_table and breada
   lower b_count without wake_up, but their caller still has a buffer, or
   gets one. *)
SleepersWillWake ==
  asleep # {} =>
    \E t \in Tasks \ asleep : held[t] # <<>> \/ pc[t] \in {"hash", "got"}

(* It can, when what tasks may hold while they ask for more, the blocks of
   their calls but the last, does not fill the cache: four buffers a call and
   NR_TASKS tasks are fewer than the smallest memory has (buffer_init). *)
Early(c) == {c[2][i] : i \in 1..Len(c[2]) - 1}

EnoughBuffers ==
  \A f \in [Tasks -> Calls] :
    LET blocks == UNION {Early(f[t]) : t \in Tasks}
    IN  IsFiniteSet(blocks) /\ Cardinality(blocks) < NR_BUFFERS

(* sys_sync and sync_dev hand every buffer that was dirty when they began to
   the driver, though they sleep in the middle of the loop while buffers
   become dirty, are written by others, and are used for other blocks. *)
SyncMissesNothing ==
  \A t \in Tasks :
    pc[t] = "next" /\ scan[t].last /\ Ahead(scan[t]) = {} => unsynced[t] = {}

(* "Race-conditions have been avoided by NEVER letting a interrupt change a
   buffer" (buffer.c:8): a dirty buffer becomes clean only because its
   content is being written, or its disk was changed. end_request does change b_uptodate, though: a
   buffer that was modified while a write of it failed is not valid any
   more, and is read over; the others are safe. *)
ModificationIsWritten ==
  \A b \in Buffers :
    dirt[b] /\ uptodate[b] /\ ~dirt'[b]
      => \E t \in Tasks : /\ pc[t] = "scan" /\ scan[t].i = b
                          /\ lock'[b] \/ scan[t].what = "invalidate_buffers"

ModificationsAreWritten == [][ModificationIsWritten]_vars

=============================================================================
