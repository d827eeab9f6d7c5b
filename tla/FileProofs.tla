----------------------------- MODULE FileProofs -----------------------------
(***************************************************************************)
(* Proofs about the inode table, for any number of tasks, slots and files: *)
(* an inode of a disk is at most once in memory, i_count is the number of  *)
(* references to it, the inodes of a device are used only while it is      *)
(* mounted, and no change of an inode is lost; about the blocks of files:  *)
(* the bitmap is exact; and about descriptors and open files: every        *)
(* reference is counted, and files cover what was written to them.         *)
(***************************************************************************)
EXTENDS InodeTable, FileBlocks, OpenFiles, FiniteSetTheorems, WellFoundedInduction, TLAPS

SlotOrNone == 0..NR_INODE

(* Where a task can be, and where a function returns to. *)
InIput == {"iput", "truncate"}
InWrite == {"write_inode", "writing"}
Getting == {"get_empty_inode", "empty"}
Having == {"scan", "found", "cross", "new_inode"}
Labels ==
  InIput \cup InWrite \cup Getting \cup Having
    \cup {"idle", "sync", "synced", "read_inode", "got", "read_super", "umount"}

CallStates ==
  [pc : Labels, ret : {"idle", "scan", "new_inode", "got", "cross", "umount"},
   back : {"idle", "iput", "empty", "synced"},
   s : SlotOrNone, want : Inodes \cup {NULL}, empty : SlotOrNone, got : SlotOrNone]

(* A call that looks at a slot has one, and returns to where its empty slot
   is not forgotten. *)
IsCall(c) ==
  /\ c \in CallStates
  /\ c.pc \in InIput \cup InWrite \cup {"empty", "found", "sync", "synced", "read_inode"} => c.s \in Slots
  /\ c.pc \in InWrite => c.back # "idle"
  /\ c.pc \in Having \/ c.ret = "cross" => c.empty \in Slots
  /\ c.pc \in Getting \/ (c.pc \in InWrite /\ c.back = "empty") => c.ret \in {"scan", "new_inode"}
  /\ c.pc \in InIput \/ (c.pc \in InWrite /\ c.back = "iput") => c.ret \in {"idle", "got", "cross", "umount"}

(* A call that goes on, other than to read a super block. *)
Goes(c) == IsCall(c) /\ c.pc # "read_super"

(* What an inode in memory and the super block have, as far as it matters. *)
IsInode(i) == "id" \in DOMAIN i
IsSuper(s) == "imount" \in DOMAIN s /\ s.imount \in SlotOrNone

TableTypeOK ==
  /\ DOMAIN inode_table = Slots
  /\ \A s \in Slots : IsInode(inode_table[s])
  /\ IsSuper(super)
  /\ DOMAIN call = Tasks
  /\ \A t \in Tasks : IsCall(call[t])
  /\ held \in [Tasks -> SlotOrNone]
  /\ \A t \in Tasks : call[t].pc = "read_super" => held[t] \in Slots
  /\ raced \in BOOLEAN

(* What is in memory is allocated on the disk. *)
InMemoryIsAllocated ==
  ~raced => \A s \in Slots : inode_table[s].id # NULL => inode_table[s].id \in imap

IInv == TableTypeOK /\ InMemoryIsAllocated /\ OneInodeInMemory

-----------------------------------------------------------------------------
LEMMA SlotsAre == Slots \subseteq SlotOrNone /\ 0 \notin Slots /\ 0 \in SlotOrNone /\ 1 \in Slots
  BY InodeTableAssumption DEF Slots, SlotOrNone

LEMMA IdleGoes == Goes(Idle) /\ Idle.pc = "idle"
  BY SlotsAre
     DEF Idle, Goes, IsCall, CallStates, Labels, InIput, InWrite, Getting, Having

LEMMA InitIInv == Init => IInv
  <1> SUFFICES ASSUME Init PROVE IInv
    OBVIOUS
  <1>1. TableTypeOK
    BY IdleGoes, SlotsAre DEF Init, TableTypeOK, IsInode, Zero, IsSuper, Goes
  <1>2. InMemoryIsAllocated /\ OneInodeInMemory
    BY DEF Init, InMemoryIsAllocated, OneInodeInMemory, Zero
  <1> QED BY <1>1, <1>2 DEF IInv

(* The call that a task goes on with, whether it gives up the processor. *)
LEMMA CallChanges ==
  ASSUME TableTypeOK, NEW t \in Tasks, NEW c, IsCall(c), call' = [call EXCEPT ![t] = c],
         c.pc = "read_super" => held'[t] \in Slots,
         held' \in [Tasks -> SlotOrNone],
         \A u \in Tasks \ {t} : held'[u] = held[u]
  PROVE  /\ DOMAIN call' = Tasks
         /\ \A u \in Tasks : IsCall(call'[u])
         /\ \A u \in Tasks : call'[u].pc = "read_super" => held'[u] \in Slots
  BY DEF TableTypeOK

(* Nothing is said of a slot but which inode it is for. *)
LEMMA SlotChanges ==
  ASSUME TableTypeOK, NEW s, NEW i, IsInode(i), Set(s, i)
  PROVE  /\ DOMAIN inode_table' = Slots
         /\ \A u \in Slots : IsInode(inode_table'[u])
         /\ \A u \in Slots : inode_table'[u].id = IF u = s THEN i.id ELSE inode_table[u].id
  BY DEF TableTypeOK, Set, IsInode


(* A task goes on as c and changes no slot, or a single one that remains of
   the same inode or is cleared. *)
LEMMA SameStep ==
  ASSUME IInv, NEW t \in Tasks, NEW c, Goes(c),
         call' = [call EXCEPT ![t] = c],
         held' \in [Tasks -> SlotOrNone], \A u \in Tasks \ {t} : held'[u] = held[u],
         IsSuper(super'), raced' \in BOOLEAN, raced => raced', imap \subseteq imap',
         UNCHANGED inode_table
  PROVE  IInv'
  <1>1. TableTypeOK'
    BY CallChanges DEF IInv, TableTypeOK, Goes
  <1>2. InMemoryIsAllocated' /\ OneInodeInMemory'
    BY DEF IInv, InMemoryIsAllocated, OneInodeInMemory
  <1> QED BY <1>1, <1>2 DEF IInv

LEMMA SetStep ==
  ASSUME IInv, NEW t \in Tasks, NEW c, Goes(c),
         call' = [call EXCEPT ![t] = c],
         held' \in [Tasks -> SlotOrNone], \A u \in Tasks \ {t} : held'[u] = held[u],
         IsSuper(super'), raced' \in BOOLEAN, raced => raced', imap \subseteq imap',
         NEW s, NEW i, Set(s, i), IsInode(i), i.id \in {NULL, inode_table[s].id}
  PROVE  IInv'
  <1>1. TableTypeOK'
    BY CallChanges, SlotChanges DEF IInv, TableTypeOK, Goes
  <1>2. \A u \in Slots : inode_table'[u].id \in {inode_table[u].id, NULL}
    BY SlotChanges DEF IInv
  <1>3. InMemoryIsAllocated' /\ OneInodeInMemory'
    BY <1>2 DEF IInv, InMemoryIsAllocated, OneInodeInMemory
  <1> QED BY <1>1, <1>3 DEF IInv

-----------------------------------------------------------------------------
(* The moves of a task within the calls of InodeTable. *)
LEMMA Moves ==
  ASSUME NEW c, IsCall(c)
  PROVE  /\ \A s \in Slots : c.pc \in {"idle", "sync", "synced"} => Goes([c EXCEPT !.pc = "sync", !.s = s])
         /\ c.pc = "write_inode" => Goes([c EXCEPT !.pc = "writing"])
         /\ c.pc \in InWrite => Goes([c EXCEPT !.pc = c.back])
         /\ c.pc = "sync" => Goes(WriteInode(c, "synced"))
         /\ c.pc = "empty" => Goes(WriteInode(c, "empty")) /\ Goes([c EXCEPT !.pc = "get_empty_inode"])
         /\ c.pc = "iput" => Goes(WriteInode(c, "iput")) /\ Goes([c EXCEPT !.pc = "truncate"])
         /\ c.pc \in InIput => Goes([c EXCEPT !.pc = c.ret])
         /\ c.pc = "get_empty_inode" => \A s \in Slots : Goes([c EXCEPT !.pc = "empty", !.s = s])
         /\ c.pc = "empty" => Goes([c EXCEPT !.pc = c.ret, !.empty = c.s])
         /\ c.pc = "scan" => \A s \in Slots : Goes([c EXCEPT !.pc = "found", !.s = s])
         /\ c.pc = "scan" => Goes([c EXCEPT !.pc = "read_inode", !.s = c.empty])
         /\ c.pc = "found" => /\ Goes([c EXCEPT !.pc = "scan"])
                              /\ Goes(Iput(c, c.s, "cross"))
                              /\ Goes(Iput([c EXCEPT !.got = c.s], c.empty, "got"))
         /\ c.pc = "cross" => Goes([c EXCEPT !.pc = "scan", !.want = Root])
  <1> USE DEF Goes, IsCall, CallStates, Labels, InIput, InWrite, Getting, Having
  <1>1. \A s \in Slots : c.pc \in {"idle", "sync", "synced"} => Goes([c EXCEPT !.pc = "sync", !.s = s])
    BY SlotsAre
  <1>2. c.pc = "write_inode" => Goes([c EXCEPT !.pc = "writing"])
    OBVIOUS
  <1>3. c.pc \in InWrite => Goes([c EXCEPT !.pc = c.back])
    OBVIOUS
  <1>4. c.pc = "sync" => Goes(WriteInode(c, "synced"))
    BY DEF WriteInode
  <1>5. c.pc = "empty" => Goes(WriteInode(c, "empty")) /\ Goes([c EXCEPT !.pc = "get_empty_inode"])
    BY DEF WriteInode
  <1>6. c.pc = "iput" => Goes(WriteInode(c, "iput")) /\ Goes([c EXCEPT !.pc = "truncate"])
    BY DEF WriteInode
  <1>7. c.pc \in InIput => Goes([c EXCEPT !.pc = c.ret])
    OBVIOUS
  <1>8. c.pc = "get_empty_inode" => \A s \in Slots : Goes([c EXCEPT !.pc = "empty", !.s = s])
    BY SlotsAre
  <1>9. c.pc = "empty" => Goes([c EXCEPT !.pc = c.ret, !.empty = c.s])
    BY SlotsAre
  <1>10. c.pc = "scan" => \A s \in Slots : Goes([c EXCEPT !.pc = "found", !.s = s])
    BY SlotsAre
  <1>11. c.pc = "scan" => Goes([c EXCEPT !.pc = "read_inode", !.s = c.empty])
    BY SlotsAre
  <1>12. c.pc = "found" => /\ Goes([c EXCEPT !.pc = "scan"])
                           /\ Goes(Iput(c, c.s, "cross"))
                           /\ Goes(Iput([c EXCEPT !.got = c.s], c.empty, "got"))
    BY SlotsAre DEF Iput
  <1>13. c.pc = "cross" => Goes([c EXCEPT !.pc = "scan", !.want = Root])
    BY DEF Inodes
  <1> QED
    BY <1>1, <1>2, <1>3, <1>4, <1>5, <1>6, <1>7, <1>8, <1>9, <1>10, <1>11, <1>12, <1>13

-----------------------------------------------------------------------------
(* The changes of a slot that leave its inode or clear it. *)
LEMMA SlotValues ==
  ASSUME NEW i, IsInode(i)
  PROVE  /\ IsInode([i EXCEPT !.lock = TRUE]) /\ [i EXCEPT !.lock = TRUE].id = i.id
         /\ /\ IsInode([i EXCEPT !.dirt = FALSE, !.lock = FALSE])
            /\ [i EXCEPT !.dirt = FALSE, !.lock = FALSE].id = i.id
         /\ IsInode([i EXCEPT !.count = @ + 1]) /\ [i EXCEPT !.count = @ + 1].id = i.id
         /\ IsInode([i EXCEPT !.count = @ - 1]) /\ [i EXCEPT !.count = @ - 1].id = i.id
         /\ IsInode([i EXCEPT !.mount = FALSE]) /\ [i EXCEPT !.mount = FALSE].id = i.id
         /\ /\ IsInode([i EXCEPT !.mount = TRUE, !.dirt = TRUE])
            /\ [i EXCEPT !.mount = TRUE, !.dirt = TRUE].id = i.id
         /\ \A n : /\ IsInode([i EXCEPT !.nlinks = n, !.lock = FALSE])
                   /\ [i EXCEPT !.nlinks = n, !.lock = FALSE].id = i.id
         /\ \A n : /\ IsInode([i EXCEPT !.nlinks = @ + n, !.dirt = TRUE])
                   /\ [i EXCEPT !.nlinks = @ + n, !.dirt = TRUE].id = i.id
  BY DEF IsInode

LEMMA ZeroIsInode ==
  /\ IsInode(Zero) /\ Zero.id = NULL
  /\ IsInode([Zero EXCEPT !.count = 1]) /\ [Zero EXCEPT !.count = 1].id = NULL
  /\ \A i : /\ IsInode([Zero EXCEPT !.count = 1, !.lock = TRUE, !.id = i])
            /\ [Zero EXCEPT !.count = 1, !.lock = TRUE, !.id = i].id = i
            /\ IsInode([Zero EXCEPT !.id = i, !.count = 1, !.nlinks = 1, !.dirt = TRUE])
            /\ [Zero EXCEPT !.id = i, !.count = 1, !.nlinks = 1, !.dirt = TRUE].id = i
  BY DEF IsInode, Zero

LEMMA WriteSteps ==
  ASSUME IInv, NEW t \in Tasks, Lock(t) \/ Written(t) \/ Sync(t) \/ SyncInode(t)
  PROVE  IInv'
  <1> DEFINE k == call[t]
             i == inode_table[k.s]
  <1>1. UNCHANGED <<super, held, raced, imap>>
    BY DEF Lock, Written, Sync, SyncInode
  <1>2. IsCall(k) /\ IsSuper(super') /\ raced' \in BOOLEAN /\ held' \in [Tasks -> SlotOrNone]
    BY <1>1 DEF IInv, TableTypeOK
  <1>3. CASE Lock(t)
    <2>1. k.pc = "write_inode" /\ k.s \in Slots /\ IsInode(i)
      BY <1>2, <1>3 DEF Lock, Unlocked, Runs, IsCall, InWrite, IInv, TableTypeOK
    <2>2. CASE Set(k.s, [i EXCEPT !.lock = TRUE]) /\ Sleep(t, [k EXCEPT !.pc = "writing"])
      <3> DEFINE c == [k EXCEPT !.pc = "writing"]
                 j == [i EXCEPT !.lock = TRUE]
      <3>1. Goes(c)
        BY <1>2, <2>1, Moves, Zenon
      <3>2. IsInode(j) /\ j.id = i.id
        BY <2>1, SlotValues, Zenon
      <3>3. call' = [call EXCEPT ![t] = c] /\ Set(k.s, j)
        BY <2>2 DEF Sleep
      <3> HIDE DEF c, j
      <3> QED BY <1>1, <1>2, <3>1, <3>2, <3>3, SetStep, ZenonT(60)
    <2>3. CASE Goto(t, [k EXCEPT !.pc = k.back]) /\ UNCHANGED inode_table
      <3> DEFINE c == [k EXCEPT !.pc = k.back]
      <3>1. Goes(c)
        BY <1>2, <2>1, Moves, Zenon DEF InWrite
      <3>2. call' = [call EXCEPT ![t] = c]
        BY <2>3 DEF Goto
      <3> HIDE DEF c
      <3> QED BY <1>1, <1>2, <2>3, <3>1, <3>2, SameStep, Zenon
    <2> QED BY <1>3, <2>2, <2>3 DEF Lock, Inode
  <1>4. CASE Written(t)
    <2>1. k.pc = "writing" /\ k.s \in Slots /\ IsInode(i)
      BY <1>2, <1>4 DEF Written, Runs, IsCall, InWrite, IInv, TableTypeOK
    <2>2. Set(k.s, [i EXCEPT !.dirt = FALSE, !.lock = FALSE]) /\ Goto(t, [k EXCEPT !.pc = k.back])
      BY <1>4, SMTT(60) DEF Written, Inode
    <2> DEFINE c == [k EXCEPT !.pc = k.back]
               j == [i EXCEPT !.dirt = FALSE, !.lock = FALSE]
    <2>3. Goes(c)
      BY <1>2, <2>1, Moves, ZenonT(60) DEF InWrite
    <2>4. IsInode(j) /\ j.id = i.id
      BY <2>1, SlotValues, Zenon
    <2>5. call' = [call EXCEPT ![t] = c] /\ Set(k.s, j)
      BY <2>2 DEF Goto
    <2> HIDE DEF c, j
    <2> QED BY <1>1, <1>2, <2>3, <2>4, <2>5, SetStep
  <1>5. CASE Sync(t)
    <2>1. UNCHANGED inode_table /\ Goto(t, [Idle EXCEPT !.pc = "sync", !.s = 1])
      BY <1>5 DEF Sync
    <2>2. Goes([Idle EXCEPT !.pc = "sync", !.s = 1])
      BY SlotsAre, IdleGoes, Moves, Zenon DEF Goes
    <2> QED BY <1>1, <1>2, <2>1, <2>2, SameStep, Zenon DEF Goto
  <1>6. CASE SyncInode(t)
    <2>1. k.pc \in {"sync", "synced"} /\ k.s \in Slots /\ UNCHANGED inode_table
      BY <1>2, <1>6 DEF SyncInode, Unlocked, Runs, IsCall
    <2>2. Goes(NextSynced(t))
      <3>1. k.s # NR_INODE => k.s + 1 \in Slots
        BY <2>1, InodeTableAssumption DEF Slots
      <3>2. k.s # NR_INODE => NextSynced(t) = [k EXCEPT !.pc = "sync", !.s = k.s + 1]
        BY <1>2, SMTT(60) DEF NextSynced, IsCall, CallStates
      <3>3. k.s # NR_INODE => Goes([k EXCEPT !.pc = "sync", !.s = k.s + 1])
        BY <1>2, <2>1, <3>1, Moves, Zenon
      <3> QED BY <3>2, <3>3, IdleGoes DEF NextSynced
    <2>3. CASE Goto(t, NextSynced(t))
      BY <1>1, <1>2, <2>1, <2>2, <2>3, SameStep DEF Goto
    <2>4. CASE k.pc = "sync" /\ Goto(t, WriteInode(k, "synced"))
      <3>1. Goes(WriteInode(k, "synced"))
        BY <1>2, <2>4, Moves, Zenon
      <3> QED BY <1>1, <1>2, <2>1, <2>4, <3>1, SameStep, Zenon DEF Goto
    <2> QED BY <1>6, <2>3, <2>4 DEF SyncInode, Unlocked, Runs
  <1> QED BY <1>3, <1>4, <1>5, <1>6

(* A task enters an inode that is in no slot. *)
LEMMA FillStep ==
  ASSUME IInv, NEW t \in Tasks, NEW c, Goes(c),
         call' = [call EXCEPT ![t] = c],
         held' \in [Tasks -> SlotOrNone], \A u \in Tasks \ {t} : held'[u] = held[u],
         IsSuper(super'), raced' \in BOOLEAN, raced => raced', imap \subseteq imap',
         NEW s, NEW i, Set(s, i), IsInode(i),
         ~raced' => i.id \in imap' /\ \A u \in Slots : inode_table[u].id # i.id
  PROVE  IInv'
  <1>1. TableTypeOK'
    BY CallChanges, SlotChanges DEF IInv, TableTypeOK, Goes
  <1>2. \A u \in Slots : inode_table'[u].id = IF u = s THEN i.id ELSE inode_table[u].id
    BY SlotChanges DEF IInv
  <1>3. InMemoryIsAllocated'
    BY <1>2 DEF IInv, InMemoryIsAllocated
  <1>4. OneInodeInMemory'
    BY <1>2 DEF IInv, OneInodeInMemory
  <1> QED BY <1>1, <1>3, <1>4 DEF IInv

(* The calls a task starts with. *)
LEMMA FirstMoves ==
  /\ \A i \in Inodes : Goes([Idle EXCEPT !.pc = "get_empty_inode", !.ret = "scan", !.want = i])
  /\ Goes([Idle EXCEPT !.pc = "get_empty_inode", !.ret = "new_inode"])
  /\ \A s \in Slots : Goes(Iput(Idle, s, "idle")) /\ Goes(Iput(Idle, s, "umount"))
  BY SlotsAre, ZenonT(60)
     DEF Idle, Iput, Goes, IsCall, CallStates, Labels, InIput, InWrite, Getting, Having

LEMMA EmptySteps ==
  ASSUME IInv, NEW t \in Tasks, GetEmpty(t) \/ Empty(t)
  PROVE  IInv'
  <1> DEFINE k == call[t]
             i == inode_table[k.s]
  <1>1. UNCHANGED <<super, held, raced, imap>>
    BY DEF GetEmpty, Empty
  <1>2. IsCall(k) /\ IsSuper(super') /\ raced' \in BOOLEAN /\ held' \in [Tasks -> SlotOrNone]
    BY <1>1 DEF IInv, TableTypeOK
  <1>3. CASE GetEmpty(t)
    <2>1. k.pc = "get_empty_inode" /\ UNCHANGED inode_table
      BY <1>3 DEF GetEmpty, Runs
    <2>2. PICK s \in Slots : Goto(t, [k EXCEPT !.pc = "empty", !.s = s])
      BY <1>3 DEF GetEmpty, Clean, Unused
    <2>3. Goes([k EXCEPT !.pc = "empty", !.s = s])
      BY <1>2, <2>1, Moves, Zenon
    <2> QED BY <1>1, <1>2, <2>1, <2>2, <2>3, SameStep DEF Goto
  <1>4. CASE Empty(t)
    <2>1. k.pc = "empty" /\ k.s \in Slots
      BY <1>2, <1>4, SMTT(60) DEF Empty, Unlocked, Runs, IsCall
    <2>2. Goes(WriteInode(k, "empty")) /\ Goes([k EXCEPT !.pc = "get_empty_inode"])
          /\ Goes([k EXCEPT !.pc = k.ret, !.empty = k.s])
      BY <1>2, <2>1, Moves, Zenon
    <2>3. CASE Goto(t, WriteInode(k, "empty")) /\ UNCHANGED inode_table
      BY <1>1, <1>2, <2>2, <2>3, SameStep DEF Goto
    <2>4. CASE Goto(t, [k EXCEPT !.pc = "get_empty_inode"]) /\ UNCHANGED inode_table
      BY <1>1, <1>2, <2>2, <2>4, SameStep DEF Goto
    <2>5. CASE Set(k.s, [Zero EXCEPT !.count = 1]) /\ Goto(t, [k EXCEPT !.pc = k.ret, !.empty = k.s])
      <3> DEFINE c == [k EXCEPT !.pc = k.ret, !.empty = k.s]
                 j == [Zero EXCEPT !.count = 1]
      <3>1. Goes(c) /\ IsInode(j) /\ j.id = NULL
        BY <2>2, ZeroIsInode
      <3>2. call' = [call EXCEPT ![t] = c] /\ Set(k.s, j)
        BY <2>5 DEF Goto
      <3> HIDE DEF c, j
      <3> QED BY <1>1, <1>2, <3>1, <3>2, SetStep
    <2> QED BY <1>4, <2>3, <2>4, <2>5 DEF Empty
  <1> QED BY <1>3, <1>4

-----------------------------------------------------------------------------
LEMMA ScanStep ==
  ASSUME IInv, NEW t \in Tasks, Scan(t)
  PROVE  IInv'
  <1> DEFINE k == call[t]
  <1>1. UNCHANGED <<super, held, imap>> /\ k.pc = "scan"
    BY DEF Scan, Runs
  <1>2. IsCall(k) /\ IsSuper(super') /\ raced \in BOOLEAN /\ held' \in [Tasks -> SlotOrNone]
    BY <1>1 DEF IInv, TableTypeOK
  <1>3. CASE Found(t) # {}
    <2>1. PICK s \in Found(t) : Goto(t, [k EXCEPT !.pc = "found", !.s = s])
      BY <1>3 DEF Scan
    <2>2. Goes([k EXCEPT !.pc = "found", !.s = s])
      BY <1>1, <1>2, Moves, Zenon DEF Found
    <2>3. UNCHANGED <<inode_table, raced>>
      BY <1>3 DEF Scan
    <2> QED BY <1>1, <1>2, <2>1, <2>2, <2>3, SameStep, Zenon DEF Goto
  <1>4. CASE Found(t) = {}
    <2> DEFINE c == [k EXCEPT !.pc = "read_inode", !.s = k.empty]
               j == [Zero EXCEPT !.count = 1, !.lock = TRUE, !.id = k.want]
    <2>1. Goes(c)
      BY <1>1, <1>2, Moves, Zenon
    <2>2. IsInode(j) /\ j.id = k.want
      BY ZeroIsInode
    <2>3. call' = [call EXCEPT ![t] = c] /\ Set(k.empty, j) /\ raced' = (raced \/ Dying(k.want))
      BY <1>4 DEF Scan, Sleep
    <2>4. raced' \in BOOLEAN /\ (raced => raced') /\ (~raced' => k.want \in imap)
      BY <2>3, <1>2 DEF Dying
    <2>5. \A u \in Slots : inode_table[u].id # k.want
      BY <1>4 DEF Found
    <2> HIDE DEF c, j
    <2> QED BY <1>1, <1>2, <2>1, <2>2, <2>3, <2>4, <2>5, FillStep, Zenon
  <1> QED BY <1>3, <1>4

LEMMA TakeFoundStep ==
  ASSUME IInv, NEW t \in Tasks, TakeFound(t)
  PROVE  IInv'
  <1> DEFINE k == call[t]
             i == inode_table[k.s]
  <1>1. UNCHANGED <<super, held, imap>> /\ k.pc = "found"
    BY DEF TakeFound, Unlocked, Runs
  <1>2. IsCall(k) /\ IsSuper(super') /\ raced \in BOOLEAN /\ held' \in [Tasks -> SlotOrNone]
    BY <1>1 DEF IInv, TableTypeOK
  <1>3. k.s \in Slots /\ IsInode(i)
    BY <1>1, <1>2 DEF IsCall, IInv, TableTypeOK
  <1>4. CASE i.id # k.want
    <2>1. Goto(t, [k EXCEPT !.pc = "scan"]) /\ UNCHANGED <<inode_table, raced>>
      BY <1>4 DEF TakeFound, Inode
    <2>2. Goes([k EXCEPT !.pc = "scan"])
      BY <1>1, <1>2, Moves, Zenon
    <2> QED BY <1>1, <1>2, <2>1, <2>2, SameStep, Zenon DEF Goto
  <1>5. CASE i.id = k.want
    <2> DEFINE c == IF i.mount THEN Iput(k, k.s, "cross")
                    ELSE Iput([k EXCEPT !.got = k.s], k.empty, "got")
               j == [i EXCEPT !.count = @ + 1]
    <2>1. Goes(c)
      <3>1. Goes(Iput(k, k.s, "cross")) /\ Goes(Iput([k EXCEPT !.got = k.s], k.empty, "got"))
        BY <1>1, <1>2, Moves, ZenonT(60)
      <3> QED BY <3>1
    <2>2. IsInode(j) /\ j.id = i.id
      BY <1>3, SlotValues, Zenon
    <2>3. call' = [call EXCEPT ![t] = c] /\ Set(k.s, j) /\ raced' = (raced \/ Dying(i.id))
      BY <1>5 DEF TakeFound, Goto, Inode
    <2>4. raced' \in BOOLEAN /\ (raced => raced')
      BY <2>3, <1>2 DEF Dying
    <2> HIDE DEF c, j
    <2> QED BY <1>1, <1>2, <2>1, <2>2, <2>3, <2>4, SetStep, Zenon
  <1> QED BY <1>4, <1>5

(* The steps of iget around its search. *)
LEMMA FindSteps ==
  ASSUME IInv, NEW t \in Tasks,
         (\E i \in Inodes : Iget(t, i)) \/ Cross(t) \/ ReadInode(t) \/ Got(t)
  PROVE  IInv'
  <1> DEFINE k == call[t]
             i == inode_table[k.s]
  <1>1. UNCHANGED <<super, imap>>
    BY DEF Iget, Cross, ReadInode, Got
  <1>2. IsCall(k) /\ IsSuper(super') /\ raced \in BOOLEAN /\ held \in [Tasks -> SlotOrNone]
    BY <1>1 DEF IInv, TableTypeOK
  <1>3. ASSUME NEW w \in Inodes, Iget(t, w) PROVE IInv'
    <2>1. UNCHANGED <<inode_table, held, raced>>
          /\ Goto(t, [Idle EXCEPT !.pc = "get_empty_inode", !.ret = "scan", !.want = w])
      BY <1>3 DEF Iget
    <2>2. Goes([Idle EXCEPT !.pc = "get_empty_inode", !.ret = "scan", !.want = w])
      BY FirstMoves
    <2> QED BY <1>1, <1>2, <2>1, <2>2, SameStep DEF Goto
  <1>4. CASE Cross(t)
    <2>1. k.pc = "cross" /\ Goto(t, [k EXCEPT !.pc = "scan", !.want = Root])
          /\ UNCHANGED <<inode_table, held>> /\ raced' = (raced \/ ~super.dev)
      BY <1>4 DEF Cross, Runs
    <2>2. Goes([k EXCEPT !.pc = "scan", !.want = Root])
      BY <1>2, <2>1, Moves, Zenon
    <2>3. raced' \in BOOLEAN /\ (raced => raced')
      BY <1>2, <2>1
    <2> QED BY <1>1, <1>2, <2>1, <2>2, <2>3, SameStep, Zenon DEF Goto
  <1>5. CASE ReadInode(t)
    <2>1. k.s \in Slots /\ IsInode(i) /\ UNCHANGED raced
      BY <1>2, <1>5 DEF ReadInode, Runs, IsCall, IInv, TableTypeOK
    <2> DEFINE j == [i EXCEPT !.nlinks = disk[i.id], !.lock = FALSE]
    <2>2. IsInode(j) /\ j.id = i.id
      BY <2>1, SlotValues, Zenon
    <2>3. call' = [call EXCEPT ![t] = Idle] /\ Set(k.s, j) /\ held' = [held EXCEPT ![t] = k.s]
      BY <1>5 DEF ReadInode, Goto, Inode
    <2>4. held' \in [Tasks -> SlotOrNone] /\ \A u \in Tasks \ {t} : held'[u] = held[u]
      BY <1>2, <2>1, <2>3, SlotsAre
    <2> HIDE DEF j
    <2> QED BY <1>1, <1>2, <2>1, <2>2, <2>3, <2>4, IdleGoes, SetStep, Zenon
  <1>6. CASE Got(t)
    <2>1. call' = [call EXCEPT ![t] = Idle] /\ held' = [held EXCEPT ![t] = k.got]
          /\ UNCHANGED <<inode_table, raced>>
      BY <1>6 DEF Got, Goto
    <2>2. held' \in [Tasks -> SlotOrNone] /\ \A u \in Tasks \ {t} : held'[u] = held[u]
      BY <1>2, <2>1 DEF IsCall, CallStates
    <2> QED BY <1>1, <1>2, <2>1, <2>2, IdleGoes, SameStep, Zenon
  <1> QED BY <1>3, <1>4, <1>5, <1>6

-----------------------------------------------------------------------------
(* How iput ends. *)
LEMMA Returns ==
  ASSUME NEW k, IsCall(k), k.pc \in InIput
  PROVE  Goes(IF k.ret = "idle" THEN Idle ELSE [k EXCEPT !.pc = k.ret])
  <1>1. Goes([k EXCEPT !.pc = k.ret])
    BY Moves, Zenon
  <1> QED BY <1>1, IdleGoes

LEMMA ClearedHeld ==
  ASSUME held \in [Tasks -> SlotOrNone], NEW t \in Tasks, NEW s \in SlotOrNone,
         held' = [held EXCEPT ![t] = s]
  PROVE  held' \in [Tasks -> SlotOrNone] /\ \A u \in Tasks \ {t} : held'[u] = held[u]
  OBVIOUS

LEMMA HeldIsSlot ==
  ASSUME held \in [Tasks -> SlotOrNone], NEW t \in Tasks, held[t] # 0
  PROVE  held[t] \in Slots
  BY InodeTableAssumption DEF SlotOrNone, Slots

LEMMA PutSteps ==
  ASSUME IInv, NEW t \in Tasks, Close(t) \/ PutInode(t) \/ Truncated(t)
  PROVE  IInv'
  <1> DEFINE k == call[t]
             i == inode_table[k.s]
             next == IF k.ret = "idle" THEN Idle ELSE [k EXCEPT !.pc = k.ret]
  <1>1. UNCHANGED super
    BY DEF Close, PutInode, Truncated
  <1>2. IsCall(k) /\ IsSuper(super') /\ raced \in BOOLEAN /\ held \in [Tasks -> SlotOrNone]
    BY <1>1 DEF IInv, TableTypeOK
  <1>3. CASE Close(t)
    <2>1. held[t] # 0 /\ Goto(t, Iput(Idle, held[t], "idle")) /\ held' = [held EXCEPT ![t] = 0]
          /\ UNCHANGED <<inode_table, imap, raced>>
      BY <1>3 DEF Close
    <2>2. Goes(Iput(Idle, held[t], "idle"))
      BY <1>2, <2>1, HeldIsSlot, FirstMoves
    <2>3. held' \in [Tasks -> SlotOrNone] /\ \A u \in Tasks \ {t} : held'[u] = held[u]
      BY <1>2, <2>1, SlotsAre, ClearedHeld
    <2> QED BY <1>1, <1>2, <2>1, <2>2, <2>3, SameStep DEF Goto
  <1>4. CASE PutInode(t)
    <2>1. k.pc = "iput" /\ k.s \in Slots /\ IsInode(i) /\ UNCHANGED <<held, raced, imap>>
      BY <1>2, <1>4, SMTT(60) DEF PutInode, Unlocked, Runs, InIput, IsCall, IInv, TableTypeOK
    <2>2. Goes([k EXCEPT !.pc = "truncate"]) /\ Goes(WriteInode(k, "iput")) /\ Goes(next)
      BY <1>2, <2>1, Moves, Returns, Zenon DEF InIput
    <2>3. CASE Sleep(t, [k EXCEPT !.pc = "truncate"]) /\ UNCHANGED inode_table
      BY <1>1, <1>2, <2>1, <2>2, <2>3, SameStep DEF Sleep
    <2>4. CASE Goto(t, WriteInode(k, "iput")) /\ UNCHANGED inode_table
      BY <1>1, <1>2, <2>1, <2>2, <2>4, SameStep DEF Goto
    <2>5. CASE Release(t)
      <3> DEFINE j == [i EXCEPT !.count = @ - 1]
      <3>1. IsInode(j) /\ j.id = i.id
        BY <2>1, SlotValues, Zenon
      <3>2. call' = [call EXCEPT ![t] = next] /\ Set(k.s, j)
        BY <2>5 DEF Release, Goto, Inode
      <3> HIDE DEF j, next
      <3> QED BY <1>1, <1>2, <2>1, <2>2, <3>1, <3>2, SetStep, Zenon
    <2> QED BY <1>4, <2>3, <2>4, <2>5 DEF PutInode
  <1>5. CASE Truncated(t)
    <2>1. k.pc = "truncate" /\ k.s \in Slots /\ UNCHANGED held
      BY <1>2, <1>5 DEF Truncated, Runs, IsCall, InIput
    <2>2. /\ imap' = imap \ {i.id} /\ Set(k.s, Zero)
          /\ call' = [call EXCEPT ![t] = next] /\ raced' = (raced \/ i.lock)
      BY <1>5 DEF Truncated, Goto, Inode
    <2>3. Goes(next)
      BY <1>2, <2>1, Returns DEF InIput
    <2>4. raced' \in BOOLEAN /\ (raced => raced')
      BY <1>2, <2>2
    <2> HIDE DEF next
    <2>5. TableTypeOK'
      BY <1>1, <1>2, <2>1, <2>2, <2>3, <2>4, ZeroIsInode, CallChanges, SlotChanges
         DEF IInv, TableTypeOK, Goes
    <2>6. \A u \in Slots : inode_table'[u].id = IF u = k.s THEN NULL ELSE inode_table[u].id
      <3>1. \A u \in Slots : inode_table'[u].id = IF u = k.s THEN Zero.id ELSE inode_table[u].id
        <4>1. TableTypeOK /\ IsInode(Zero) /\ Set(k.s, Zero)
          BY <2>2, ZeroIsInode DEF IInv
        <4> HIDE DEF k
        <4> QED BY <4>1, SlotChanges, SMTT(60)
      <3> QED BY <3>1, ZeroIsInode
    <2>7. InMemoryIsAllocated'
      <3> SUFFICES ASSUME ~raced', NEW u \in Slots, inode_table'[u].id # NULL
                   PROVE  inode_table'[u].id \in imap'
        BY DEF InMemoryIsAllocated
      <3>1. u # k.s /\ inode_table'[u].id = inode_table[u].id /\ ~raced
        BY <2>4, <2>6
      <3>2. inode_table[u].id \in imap /\ inode_table[u].id # i.id
        BY <2>1, <3>1 DEF IInv, InMemoryIsAllocated, OneInodeInMemory
      <3> QED BY <2>2, <3>1, <3>2
    <2>8. OneInodeInMemory'
      BY <2>4, <2>6 DEF IInv, OneInodeInMemory
    <2> QED BY <2>5, <2>7, <2>8 DEF IInv
  <1> QED BY <1>3, <1>4, <1>5

-----------------------------------------------------------------------------
LEMMA NewInodeStep ==
  ASSUME IInv, NEW t \in Tasks, NewInode(t)
  PROVE  IInv'
  <1> DEFINE k == call[t]
  <1>1. UNCHANGED <<super, raced>> /\ k.pc = "new_inode"
    BY DEF NewInode, Runs
  <1>2. IsCall(k) /\ IsSuper(super') /\ raced \in BOOLEAN /\ held \in [Tasks -> SlotOrNone]
    BY <1>1 DEF IInv, TableTypeOK
  <1>3. k.empty \in Slots
    BY <1>1, <1>2 DEF IsCall, Having
  <1>4. CASE Files \subseteq imap
    <2>1. Goto(t, Iput(Idle, k.empty, "idle")) /\ UNCHANGED <<inode_table, imap, held>>
      BY <1>4 DEF NewInode
    <2> QED BY <1>1, <1>2, <1>3, <2>1, FirstMoves, SameStep DEF Goto
  <1>5. CASE ~(Files \subseteq imap)
    <2>1. PICK f \in Files \ imap :
            /\ imap' = imap \cup {f}
            /\ Set(k.empty, [Zero EXCEPT !.id = f, !.count = 1, !.nlinks = 1, !.dirt = TRUE])
            /\ held' = [held EXCEPT ![t] = k.empty]
            /\ Goto(t, Idle)
      BY <1>5 DEF NewInode
    <2> DEFINE j == [Zero EXCEPT !.id = f, !.count = 1, !.nlinks = 1, !.dirt = TRUE]
    <2>2. IsInode(j) /\ j.id = f
      BY ZeroIsInode
    <2>3. held' \in [Tasks -> SlotOrNone] /\ \A u \in Tasks \ {t} : held'[u] = held[u]
      BY <1>2, <1>3, <2>1, SlotsAre, ClearedHeld
    <2>4. ~raced' => f \in imap' /\ \A u \in Slots : inode_table[u].id # f
      BY <1>1, <2>1, InodeTableAssumption DEF IInv, InMemoryIsAllocated
    <2>5. call' = [call EXCEPT ![t] = Idle] /\ Set(k.empty, j) /\ imap \subseteq imap'
      BY <2>1 DEF Goto
    <2> HIDE DEF j
    <2> QED BY <1>1, <1>2, <2>2, <2>3, <2>4, <2>5, IdleGoes, FillStep
  <1> QED BY <1>4, <1>5

LEMMA CreateStep ==
  ASSUME IInv, NEW t \in Tasks, Create(t)
  PROVE  IInv'
  <1>1. UNCHANGED <<inode_table, imap, super, held, raced>>
        /\ call' = [call EXCEPT ![t] = [Idle EXCEPT !.pc = "get_empty_inode", !.ret = "new_inode"]]
    BY DEF Create, Goto
  <1>2. IsSuper(super') /\ raced \in BOOLEAN /\ held \in [Tasks -> SlotOrNone]
    BY <1>1 DEF IInv, TableTypeOK
  <1> QED BY <1>1, <1>2, FirstMoves, SameStep

(* A step within the kernel that leaves every task where it is. *)
LEMMA StayStep ==
  ASSUME IInv, NEW t \in Tasks, Links(t, -1) \/ Links(t, 1) \/ Blocks(t) \/ Leave(t)
  PROVE  IInv'
  <1>1. UNCHANGED <<call, held, super, raced, imap>>
    BY DEF Links, Blocks, Leave, kernel
  <1>2. CASE UNCHANGED inode_table
    BY <1>1, <1>2 DEF IInv, TableTypeOK, IsSuper, InMemoryIsAllocated, OneInodeInMemory
  <1>3. ASSUME NEW n, Links(t, n) PROVE IInv'
    <2> DEFINE s == held[t]
               i == inode_table[s]
               j == [i EXCEPT !.nlinks = @ + n, !.dirt = TRUE]
    <2>1. s \in Slots /\ Set(s, j)
      BY <1>3, HeldIsSlot, SMTT(60) DEF Links, IInv, TableTypeOK
    <2>2. IsInode(j) /\ j.id = i.id
      BY <2>1, SlotValues, Zenon DEF IInv, TableTypeOK
    <2> HIDE DEF j, s
    <2>3. TableTypeOK'
      BY <1>1, <2>1, <2>2, SlotChanges DEF IInv, TableTypeOK, IsSuper
    <2>4. \A u \in Slots : inode_table'[u].id = inode_table[u].id
      BY <2>1, <2>2, SlotChanges DEF IInv
    <2>5. InMemoryIsAllocated' /\ OneInodeInMemory'
      BY <1>1, <2>4 DEF IInv, InMemoryIsAllocated, OneInodeInMemory
    <2> QED BY <2>3, <2>5 DEF IInv
  <1> QED BY <1>2, <1>3 DEF Blocks, Leave

-----------------------------------------------------------------------------
LEMMA MountStep ==
  ASSUME IInv, NEW t \in Tasks, Mount(t)
  PROVE  IInv'
  <1> DEFINE c == [Idle EXCEPT !.pc = "read_super"]
  <1>1. /\ held[t] # 0 /\ UNCHANGED <<inode_table, imap, held, raced>>
        /\ call' = [call EXCEPT ![t] = c] /\ super' = [dev |-> TRUE, imount |-> 0, lock |-> TRUE]
    BY DEF Mount, Sleep
  <1>2. IsCall(c) /\ IsSuper(super')
    BY <1>1, SlotsAre
       DEF Idle, IsCall, CallStates, Labels, InIput, InWrite, Getting, Having, IsSuper
  <1>3. held'[t] \in Slots
    BY <1>1, HeldIsSlot DEF IInv, TableTypeOK
  <1> HIDE DEF c
  <1>4. held' \in [Tasks -> SlotOrNone] /\ \A u \in Tasks \ {t} : held'[u] = held[u]
    BY <1>1 DEF IInv, TableTypeOK
  <1>5. TableTypeOK'
    BY <1>1, <1>2, <1>3, <1>4, CallChanges DEF IInv, TableTypeOK
  <1>6. InMemoryIsAllocated' /\ OneInodeInMemory'
    BY <1>1 DEF IInv, InMemoryIsAllocated, OneInodeInMemory
  <1> QED BY <1>5, <1>6 DEF IInv

LEMMA SuperReadStep ==
  ASSUME IInv, NEW t \in Tasks, NEW ok \in BOOLEAN, SuperRead(t, ok)
  PROVE  IInv'
  <1> DEFINE s == held[t]
             i == inode_table[s]
  <1>1. UNCHANGED <<imap, raced>> /\ call[t].pc = "read_super" /\ held' = [held EXCEPT ![t] = 0]
    BY DEF SuperRead, Runs
  <1>2. s \in Slots /\ IsInode(i) /\ raced \in BOOLEAN /\ IsSuper(super)
    BY <1>1 DEF IInv, TableTypeOK
  <1>3. held' \in [Tasks -> SlotOrNone] /\ \A u \in Tasks \ {t} : held'[u] = held[u]
    BY <1>1, SlotsAre, ClearedHeld DEF IInv, TableTypeOK
  <1>4. CASE ok /\ ~i.mount
    <2> DEFINE j == [i EXCEPT !.mount = TRUE, !.dirt = TRUE]
    <2>1. IsInode(j) /\ j.id = i.id
      BY <1>2, SlotValues, Zenon
    <2>2. /\ super' = [super EXCEPT !.imount = s, !.lock = FALSE]
          /\ Set(s, j) /\ call' = [call EXCEPT ![t] = Idle]
      BY <1>4 DEF SuperRead, Goto
    <2>3. IsSuper(super')
      BY <1>2, <2>2, SlotsAre DEF IsSuper
    <2> HIDE DEF j, s
    <2> QED BY <1>1, <1>2, <1>3, <2>1, <2>2, <2>3, IdleGoes, SetStep, Zenon
  <1>5. CASE ~(ok /\ ~i.mount)
    <2>1. /\ super' = [dev |-> ok, imount |-> 0, lock |-> FALSE]
          /\ Goto(t, Iput(Idle, s, "idle")) /\ UNCHANGED inode_table
      BY <1>5 DEF SuperRead
    <2>2. IsSuper(super')
      BY <2>1, SlotsAre DEF IsSuper
    <2> QED BY <1>1, <1>2, <1>3, <2>1, <2>2, FirstMoves, SameStep DEF Goto
  <1> QED BY <1>4, <1>5

LEMMA UmountSteps ==
  ASSUME IInv, NEW t \in Tasks, Umount(t) \/ PutSuper(t)
  PROVE  IInv'
  <1>1. UNCHANGED <<imap, held>> /\ held \in [Tasks -> SlotOrNone] /\ raced \in BOOLEAN
    BY DEF Umount, PutSuper, IInv, TableTypeOK
  <1>2. CASE Umount(t)
    <2> DEFINE s == super.imount
               i == inode_table[s]
               j == [i EXCEPT !.mount = FALSE]
               c == Iput(Idle, s, "umount")
    <2>1. /\ s # 0 /\ UNCHANGED super /\ raced' = (raced \/ ~i.mount)
          /\ call' = [call EXCEPT ![t] = c] /\ Set(s, j)
      BY <1>2 DEF Umount, Goto
    <2>2. s \in Slots /\ IsInode(i) /\ IsSuper(super')
      BY <2>1, InodeTableAssumption DEF IInv, TableTypeOK, IsSuper, SlotOrNone, Slots
    <2>3. IsInode(j) /\ j.id = i.id /\ Goes(c)
      BY <2>2, SlotValues, FirstMoves, Zenon
    <2>4. raced' \in BOOLEAN /\ (raced => raced')
      BY <1>1, <2>1
    <2> HIDE DEF j, c, s
    <2> QED BY <1>1, <2>1, <2>2, <2>3, <2>4, SetStep, Zenon
  <1>3. CASE PutSuper(t)
    <2>1. /\ UNCHANGED <<inode_table, raced>> /\ call' = [call EXCEPT ![t] = Idle]
          /\ super' = [dev |-> FALSE, imount |-> 0, lock |-> FALSE]
      BY <1>3 DEF PutSuper, Goto
    <2>2. IsSuper(super')
      BY <2>1, SlotsAre DEF IsSuper
    <2> QED BY <1>1, <2>1, <2>2, IdleGoes, SameStep
  <1> QED BY <1>2, <1>3

-----------------------------------------------------------------------------
LEMMA NextIInv ==
  ASSUME IInv, [Next]_vars
  PROVE  IInv'
  <1>1. ASSUME NEW t \in Tasks, Step(t) PROVE IInv'
    <2>1. CASE Blocks(t) \/ Leave(t) \/ \E n \in {-1, 1} : Links(t, n)
      BY <2>1, StayStep
    <2>2. CASE Lock(t) \/ Written(t) \/ Sync(t) \/ SyncInode(t)
      BY <2>2, WriteSteps
    <2>3. CASE GetEmpty(t) \/ Empty(t)
      BY <2>3, EmptySteps
    <2>4. CASE (\E i \in Inodes : Iget(t, i)) \/ Cross(t) \/ ReadInode(t) \/ Got(t)
      BY <2>4, FindSteps
    <2>5. CASE Scan(t) \/ TakeFound(t)
      BY <2>5, ScanStep, TakeFoundStep
    <2>6. CASE Close(t) \/ PutInode(t) \/ Truncated(t)
      BY <2>6, PutSteps
    <2>7. CASE Create(t) \/ NewInode(t)
      BY <2>7, CreateStep, NewInodeStep
    <2>8. CASE Mount(t) \/ (\E ok \in BOOLEAN : SuperRead(t, ok)) \/ Umount(t) \/ PutSuper(t)
      BY <2>8, MountStep, SuperReadStep, UmountSteps
    <2> QED BY <1>1, <2>1, <2>2, <2>3, <2>4, <2>5, <2>6, <2>7, <2>8 DEF Step
  <1>2. CASE UNCHANGED vars
    BY <1>2 DEF vars, kernel, IInv, TableTypeOK, IsSuper, InMemoryIsAllocated, OneInodeInMemory
  <1> QED BY <1>1, <1>2 DEF Next

(* A call is always somewhere in the kernel, and has the slots it is about to
   look at: no index of inode_table is made up (inode.c). *)
THEOREM TableTypeCorrect == Spec => []TableTypeOK
  <1>1. IInv => TableTypeOK
    BY DEF IInv
  <1> QED BY InitIInv, NextIInv, <1>1, PTL DEF Spec

(* iget sleeps between its search and its result, and yet an inode of a disk
   is at most once in memory, unless an entry was removed after it had been
   read (inode.c:284). *)
THEOREM InodeIsOnceInMemory == Spec => []OneInodeInMemory
  <1>1. IInv => OneInodeInMemory
    BY DEF IInv
  <1> QED BY InitIInv, NextIInv, <1>1, PTL DEF Spec

-----------------------------------------------------------------------------
(* Who refers to an inode. *)
One(p) == IF p THEN 1 ELSE 0

(* A call that is about to give back the inode in slot c.s, and one that gives
   back a reference of its own rather than the empty inode it got. *)
Putting(c) == c.pc \in InIput \/ (c.pc \in InWrite /\ c.back = "iput")
Gives(c) == Putting(c) /\ c.ret \in {"idle", "cross", "umount"}

(* What a task whose call is c and that holds h has of the references to s,
   and what the mounted device has. *)
Refs(c, h, s) ==
  One(h = s) + One(c.got = s) + One(c.empty = s /\ c.pc # "got") + One(c.s = s /\ Gives(c))
MountRef(s) == One(super.imount = s /\ inode_table[s].mount)

(* A call that has an inode from get_empty_inode which it has not used yet. *)
Fresh(c) == c.pc \in Having \/ (Putting(c) /\ c.ret \in {"got", "cross"})

(* What the fields of a call say of each other. *)
Settled(c, h) ==
  /\ c.pc = "idle" => c = Idle
  /\ c.ret \in {"idle", "umount"} \/ h = 0
  /\ c.pc \in Having \cup {"read_inode", "got"} => c.ret \in {"scan", "new_inode", "cross", "got"}
  /\ c.got # 0 => c.pc = "got" \/ (Putting(c) /\ c.ret = "got")
  /\ c.empty # 0 => Fresh(c) \/ c.pc \in {"read_inode", "got"}
  /\ Putting(c) /\ c.ret \in {"got", "cross"} => c.empty \in Slots
  /\ Putting(c) /\ c.ret = "got" => c.s = c.empty
  /\ c.pc \in {"scan", "found", "cross", "read_inode"} => c.want \in Inodes
  /\ c.ret \in {"scan", "cross"} => c.want \in Inodes
  /\ c.pc = "read_super" => c.ret = "idle"
  /\ c.pc = "umount" => c.ret = "umount"

Records ==
  [id : Inodes \cup {NULL}, count : Nat, dirt : BOOLEAN, lock : BOOLEAN, mount : BOOLEAN, nlinks : Int]

StateOK ==
  /\ inode_table \in [Slots -> Records]
  /\ imap \subseteq Inodes /\ disk \in [Inodes -> Int] /\ truth \in [Inodes -> Int]
  /\ super \in [dev : BOOLEAN, imount : SlotOrNone, lock : BOOLEAN]
  /\ call = [t \in Tasks |-> call[t]]
  /\ \A t \in Tasks : Settled(call[t], held[t])

CountsOK == \A s \in Slots : inode_table[s].count = Users(s)

(* The slots that only one call knows of. *)
OwnIn(table, c) ==
  /\ Fresh(c) => table[c.empty] = [Zero EXCEPT !.count = 1]
  /\ c.pc = "truncate" => table[c.s].count = 1
  /\ c.pc = "read_inode" =>
       /\ c.s = c.empty
       /\ table[c.s].count = 1 /\ table[c.s].id = c.want
       /\ ~table[c.s].dirt
OwnOK(c) == OwnIn(inode_table, c)

(* Who reads or writes an inode has its lock, alone. *)
HasLock(c) == c.pc \in {"writing", "read_inode"}
LocksOK ==
  /\ \A t \in Tasks : HasLock(call[t]) => inode_table[call[t].s].lock
  /\ \A t, u \in Tasks : HasLock(call[t]) /\ HasLock(call[u]) /\ call[t].s = call[u].s => t = u

(* The mounted inode; the super block while it is read, or given up. *)
MountOK ==
  /\ \A s \in Slots : inode_table[s].mount => super.dev /\ super.imount = s
  /\ \A t \in Tasks : call[t].pc = "read_super" => super.dev /\ super.imount = 0
  /\ \A t \in Tasks : call[t].ret = "umount" =>
       super.dev /\ super.imount # 0 /\ ~inode_table[super.imount].mount
  /\ \A t, u \in Tasks : \/ call[t].pc = "read_super" /\ call[u].pc = "read_super"
                         \/ call[t].ret = "umount" /\ call[u].ret = "umount"
                         => t = u

(* The device is used only while its root is mounted. *)
RootOK ==
  \A s \in Slots : inode_table[s].id = Root /\ inode_table[s].count > 0 =>
    super.imount # 0 /\ inode_table[super.imount].mount

(* The link count in memory is right once it has been read; it is on the disk
   as well unless the inode is dirty. *)
ContentOK ==
  /\ \A s \in Slots : inode_table[s].id # NULL =>
       \/ inode_table[s].nlinks = truth[inode_table[s].id]
       \/ \E t \in Tasks : call[t].pc = "read_inode" /\ call[t].s = s
  /\ \A i \in imap : disk[i] = truth[i] \/ \E s \in Slots : inode_table[s].id = i /\ inode_table[s].dirt

Accounts ==
  /\ StateOK /\ CountsOK
  /\ \A t \in Tasks : OwnOK(call[t])
  /\ LocksOK /\ MountOK /\ RootOK /\ ContentOK

UInv == ~raced => Accounts

-----------------------------------------------------------------------------
(* Counting: a set with and without one of its elements. *)
LEMMA OneMore ==
  ASSUME NEW S, IsFiniteSet(S), NEW x
  PROVE  /\ Cardinality(S \ {x}) \in Nat
         /\ Cardinality(S) = Cardinality(S \ {x}) + One(x \in S)
  <1>1. IsFiniteSet(S \ {x}) /\ Cardinality(S \ {x}) \in Nat /\ Cardinality(S) \in Nat
    BY FS_RemoveElement, FS_CardinalityType
  <1>2. CASE x \in S
    <2>1. Cardinality(S \ {x}) = Cardinality(S) - 1
      BY <1>2, FS_RemoveElement
    <2>2. One(x \in S) = 1
      BY <1>2 DEF One
    <2> QED BY <1>1, <2>1, <2>2
  <1>3. CASE x \notin S
    <2>1. S \ {x} = S
      BY <1>3
    <2>2. Cardinality(S \ {x}) = Cardinality(S)
      BY <2>1
    <2>3. One(x \in S) = 0
      BY <1>3 DEF One
    <2> QED BY <1>1, <2>2, <2>3
  <1> QED BY <1>2, <1>3

LEMMA CountChanges ==
  ASSUME NEW S, NEW T, IsFiniteSet(S), IsFiniteSet(T), NEW x, S \ {x} = T \ {x}
  PROVE  /\ Cardinality(S) \in Nat /\ Cardinality(T) \in Nat
         /\ Cardinality(T) = Cardinality(S) - One(x \in S) + One(x \in T)
  <1>1. /\ Cardinality(S \ {x}) \in Nat
        /\ Cardinality(S) = Cardinality(S \ {x}) + One(x \in S)
        /\ Cardinality(T) = Cardinality(S \ {x}) + One(x \in T)
    BY OneMore
  <1> QED BY <1>1 DEF One

LEMMA TasksFinite == \A S \in SUBSET Tasks : IsFiniteSet(S)
  BY InodeTableAssumption, FS_Subset

LEMMA GivesBackIs == \A t \in Tasks : GivesBack(t) <=> Gives(call[t])
  BY DEF GivesBack, Gives, Putting, InIput, InWrite

(* The users of a slot, when one task goes on. *)
LEMMA UsersChange ==
  ASSUME NEW t \in Tasks, NEW s,
         \A u \in Tasks \ {t} : call'[u] = call[u] /\ held'[u] = held[u]
  PROVE  Users(s)' = Users(s) - Refs(call[t], held[t], s) + Refs(call'[t], held'[t], s)
                     - MountRef(s) + MountRef(s)'
  <1> DEFINE H == {u \in Tasks : held[u] = s}
             G == {u \in Tasks : call[u].got = s}
             E == {u \in Tasks : call[u].empty = s /\ call[u].pc # "got"}
             P == {u \in Tasks : call[u].s = s /\ GivesBack(u)}
             H1 == {u \in Tasks : held'[u] = s}
             G1 == {u \in Tasks : call'[u].got = s}
             E1 == {u \in Tasks : call'[u].empty = s /\ call'[u].pc # "got"}
             P1 == {u \in Tasks : call'[u].s = s /\ GivesBack(u)'}
  <1>1. \A u \in Tasks \ {t} : GivesBack(u)' <=> GivesBack(u)
    BY DEF GivesBack
  <1>2. /\ GivesBack(t) <=> Gives(call[t])
        /\ GivesBack(t)' <=> Gives(call'[t])
    BY DEF GivesBack, Gives, Putting, InIput, InWrite
  <1>3. /\ Cardinality(H) \in Nat /\ Cardinality(H1) \in Nat
        /\ Cardinality(H1) = Cardinality(H) - One(t \in H) + One(t \in H1)
    <2>1. IsFiniteSet(H) /\ IsFiniteSet(H1) /\ H \ {t} = H1 \ {t}
      BY TasksFinite
    <2> HIDE DEF H, H1
    <2> QED BY <2>1, CountChanges
  <1>4. /\ Cardinality(G) \in Nat /\ Cardinality(G1) \in Nat
        /\ Cardinality(G1) = Cardinality(G) - One(t \in G) + One(t \in G1)
    <2>1. IsFiniteSet(G) /\ IsFiniteSet(G1) /\ G \ {t} = G1 \ {t}
      BY TasksFinite
    <2> HIDE DEF G, G1
    <2> QED BY <2>1, CountChanges
  <1>5. /\ Cardinality(E) \in Nat /\ Cardinality(E1) \in Nat
        /\ Cardinality(E1) = Cardinality(E) - One(t \in E) + One(t \in E1)
    <2>1. IsFiniteSet(E) /\ IsFiniteSet(E1) /\ E \ {t} = E1 \ {t}
      BY TasksFinite
    <2> HIDE DEF E, E1
    <2> QED BY <2>1, CountChanges
  <1>6. /\ Cardinality(P) \in Nat /\ Cardinality(P1) \in Nat
        /\ Cardinality(P1) = Cardinality(P) - One(t \in P) + One(t \in P1)
    <2>1. IsFiniteSet(P) /\ IsFiniteSet(P1) /\ P \ {t} = P1 \ {t}
      BY <1>1, TasksFinite
    <2> HIDE DEF P, P1
    <2> QED BY <2>1, CountChanges
  <1>7. /\ Users(s) = Cardinality(H) + Cardinality(G) + Cardinality(E) + Cardinality(P) + MountRef(s)
        /\ Users(s)' = Cardinality(H1) + Cardinality(G1) + Cardinality(E1) + Cardinality(P1) + MountRef(s)'
    BY DEF Users, MountRef, One
  <1>8. /\ Refs(call[t], held[t], s) = One(t \in H) + One(t \in G) + One(t \in E) + One(t \in P)
        /\ Refs(call'[t], held'[t], s) = One(t \in H1) + One(t \in G1) + One(t \in E1) + One(t \in P1)
    BY <1>2 DEF Refs, One
  <1>9. MountRef(s) \in Nat /\ MountRef(s)' \in Nat
    BY DEF MountRef, One
  <1>10. /\ One(t \in H) \in Nat /\ One(t \in G) \in Nat /\ One(t \in E) \in Nat /\ One(t \in P) \in Nat
         /\ One(t \in H1) \in Nat /\ One(t \in G1) \in Nat /\ One(t \in E1) \in Nat /\ One(t \in P1) \in Nat
    BY DEF One
  <1> HIDE DEF H, G, E, P, H1, G1, E1, P1
  <1> QED BY <1>3, <1>4, <1>5, <1>6, <1>7, <1>8, <1>9, <1>10

(* A slot has at least the users that two tasks and the device are. *)
LEMMA UsersAtLeast ==
  ASSUME NEW t \in Tasks, NEW s
  PROVE  /\ Users(s) \in Nat
         /\ Users(s) >= Refs(call[t], held[t], s) + MountRef(s)
         /\ \A u \in Tasks \ {t} :
              Users(s) >= Refs(call[t], held[t], s) + Refs(call[u], held[u], s) + MountRef(s)
  <1> DEFINE H == {u \in Tasks : held[u] = s}
             G == {u \in Tasks : call[u].got = s}
             E == {u \in Tasks : call[u].empty = s /\ call[u].pc # "got"}
             P == {u \in Tasks : call[u].s = s /\ GivesBack(u)}
  <1>1. IsFiniteSet(H) /\ IsFiniteSet(G) /\ IsFiniteSet(E) /\ IsFiniteSet(P)
    BY TasksFinite
  <1>2. Users(s) = Cardinality(H) + Cardinality(G) + Cardinality(E) + Cardinality(P) + MountRef(s)
    BY DEF Users, MountRef, One
  <1>3. MountRef(s) \in Nat
    BY DEF MountRef, One
  <1>4. \A u \in Tasks : Refs(call[u], held[u], s) = One(u \in H) + One(u \in G) + One(u \in E) + One(u \in P)
    BY GivesBackIs DEF Refs, One
  <1>5. ASSUME NEW S, IsFiniteSet(S), NEW u, u # t
        PROVE  /\ Cardinality(S) \in Nat /\ One(t \in S) \in Nat /\ One(u \in S) \in Nat
               /\ Cardinality(S) >= One(t \in S) + One(u \in S)
    <2>1. IsFiniteSet(S \ {t})
      BY <1>5, FS_RemoveElement
    <2>2. Cardinality(S) = Cardinality(S \ {t}) + One(t \in S)
      BY <1>5, OneMore
    <2>3. /\ Cardinality((S \ {t}) \ {u}) \in Nat
          /\ Cardinality(S \ {t}) = Cardinality((S \ {t}) \ {u}) + One(u \in S \ {t})
      BY <2>1, OneMore
    <2>4. One(u \in S \ {t}) = One(u \in S) /\ One(t \in S) \in Nat /\ One(u \in S) \in Nat
      BY <1>5 DEF One
    <2> QED BY <2>2, <2>3, <2>4
  <1>6. ASSUME NEW S, IsFiniteSet(S)
        PROVE  Cardinality(S) \in Nat /\ One(t \in S) \in Nat /\ Cardinality(S) >= One(t \in S)
    <2>1. Cardinality(S \ {t}) \in Nat /\ Cardinality(S) = Cardinality(S \ {t}) + One(t \in S)
      BY <1>6, OneMore
    <2>2. One(t \in S) \in Nat
      BY DEF One
    <2> QED BY <2>1, <2>2
  <1> HIDE DEF H, G, E, P
  <1>7. Users(s) \in Nat /\ Users(s) >= Refs(call[t], held[t], s) + MountRef(s)
    <2>1. /\ Cardinality(H) \in Nat /\ One(t \in H) \in Nat /\ Cardinality(H) >= One(t \in H)
          /\ Cardinality(G) \in Nat /\ One(t \in G) \in Nat /\ Cardinality(G) >= One(t \in G)
          /\ Cardinality(E) \in Nat /\ One(t \in E) \in Nat /\ Cardinality(E) >= One(t \in E)
          /\ Cardinality(P) \in Nat /\ One(t \in P) \in Nat /\ Cardinality(P) >= One(t \in P)
      BY <1>1, <1>6
    <2> QED BY <2>1, <1>2, <1>3, <1>4
  <1>8. ASSUME NEW u \in Tasks \ {t}
        PROVE  Users(s) >= Refs(call[t], held[t], s) + Refs(call[u], held[u], s) + MountRef(s)
    <2>1. /\ Cardinality(H) \in Nat /\ One(t \in H) \in Nat /\ One(u \in H) \in Nat
          /\ Cardinality(H) >= One(t \in H) + One(u \in H)
          /\ Cardinality(G) \in Nat /\ One(t \in G) \in Nat /\ One(u \in G) \in Nat
          /\ Cardinality(G) >= One(t \in G) + One(u \in G)
          /\ Cardinality(E) \in Nat /\ One(t \in E) \in Nat /\ One(u \in E) \in Nat
          /\ Cardinality(E) >= One(t \in E) + One(u \in E)
          /\ Cardinality(P) \in Nat /\ One(t \in P) \in Nat /\ One(u \in P) \in Nat
          /\ Cardinality(P) >= One(t \in P) + One(u \in P)
      BY <1>1, <1>5
    <2>2. /\ Refs(call[t], held[t], s) = One(t \in H) + One(t \in G) + One(t \in E) + One(t \in P)
          /\ Refs(call[u], held[u], s) = One(u \in H) + One(u \in G) + One(u \in E) + One(u \in P)
      BY <1>4
    <2> QED BY <2>1, <2>2, <1>2, <1>3
  <1> QED BY <1>7, <1>8

LEMMA RefsType == \A c, h, s : Refs(c, h, s) \in Nat /\ MountRef(s) \in Nat
  BY DEF Refs, MountRef, One

-----------------------------------------------------------------------------
(* The slots of its own that a call refers to: nobody else does. *)
OwnSlot(c, s) ==
  \/ Fresh(c) /\ c.empty = s
  \/ c.pc \in {"truncate", "read_inode"} /\ c.s = s

LEMMA OwnIsOne ==
  ASSUME NEW c, NEW h, NEW s, IsCall(c), Settled(c, h), OwnOK(c), OwnSlot(c, s)
  PROVE  inode_table[s].count = 1 /\ Refs(c, h, s) >= 1
  <1>1. CASE Fresh(c) /\ c.empty = s
    <2>1. inode_table[s].count = 1
      BY <1>1 DEF OwnOK, OwnIn, Zero
    <2>2. c.pc # "got"
      BY <1>1 DEF Fresh, Having, Putting, InIput, InWrite
    <2> QED BY <1>1, <2>1, <2>2 DEF Refs, One
  <1>2. CASE c.pc = "read_inode" /\ c.s = s
    BY <1>2 DEF OwnOK, OwnIn, Refs, One
  <1>3. CASE c.pc = "truncate" /\ c.s = s
    <2>1. inode_table[s].count = 1
      BY <1>3 DEF OwnOK, OwnIn
    <2>2. Gives(c) \/ c.empty = s
      BY <1>3 DEF IsCall, Gives, Putting, InIput, Settled
    <2> QED BY <1>3, <2>1, <2>2 DEF Refs, One
  <1> QED BY <1>1, <1>2, <1>3 DEF OwnSlot

LEMMA OwnIsAlone ==
  ASSUME IInv, Accounts, NEW t \in Tasks, NEW u \in Tasks, t # u, NEW s \in Slots, OwnSlot(call[u], s)
  PROVE  Refs(call[t], held[t], s) = 0 /\ MountRef(s) = 0 /\ inode_table[s].count = 1
  <1>1. IsCall(call[u]) /\ Settled(call[u], held[u]) /\ OwnOK(call[u])
    BY DEF IInv, TableTypeOK, Accounts, StateOK
  <1>2. inode_table[s].count = 1 /\ Refs(call[u], held[u], s) >= 1
    BY <1>1, OwnIsOne
  <1>3. Users(s) = 1
    BY <1>2 DEF Accounts, CountsOK
  <1>4. Users(s) >= Refs(call[t], held[t], s) + Refs(call[u], held[u], s) + MountRef(s)
    BY UsersAtLeast
  <1>5. Refs(call[t], held[t], s) \in Nat /\ Refs(call[u], held[u], s) \in Nat /\ MountRef(s) \in Nat
    BY RefsType
  <1> QED BY <1>2, <1>3, <1>4, <1>5

(* A task changes a slot it or the device refers to, or nobody. *)
LEMMA OthersOwn ==
  ASSUME IInv, Accounts, NEW t \in Tasks, NEW s \in Slots, NEW j, Set(s, j),
         Refs(call[t], held[t], s) >= 1 \/ MountRef(s) = 1 \/ inode_table[s].count = 0,
         \A u \in Tasks \ {t} : call'[u] = call[u]
  PROVE  \A u \in Tasks \ {t} : OwnOK(call[u])'
  <1> SUFFICES ASSUME NEW u \in Tasks \ {t} PROVE OwnOK(call[u])'
    OBVIOUS
  <1>1. ~OwnSlot(call[u], s)
    BY OwnIsAlone
  <1>2. \A x : x # s => inode_table'[x] = inode_table[x]
    BY DEF Set, IInv, TableTypeOK
  <1>3. OwnOK(call[u]) /\ call'[u] = call[u]
    BY DEF Accounts
  <1> DEFINE c == call[u]
  <1>4. Fresh(c) => inode_table'[c.empty] = inode_table[c.empty]
    BY <1>1, <1>2 DEF OwnSlot
  <1>5. c.pc \in {"truncate", "read_inode"} => inode_table'[c.s] = inode_table[c.s]
    BY <1>1, <1>2 DEF OwnSlot
  <1> QED BY <1>3, <1>4, <1>5 DEF OwnOK, OwnIn

(* A task goes on and changes nothing but where it is: it keeps the
   references it has. *)
LEMMA CallStep ==
  ASSUME IInv, Accounts, NEW t \in Tasks, NEW c, NEW h \in SlotOrNone,
         call' = [call EXCEPT ![t] = c], held' = [held EXCEPT ![t] = h],
         UNCHANGED <<inode_table, imap, disk, super, truth>>,
         Settled(c, h), OwnOK(c), c.pc # "read_super",
         ~HasLock(c), ~HasLock(call[t]),
         c.ret = "umount" => call[t].ret = "umount",
         \A s \in Slots : Refs(c, h, s) = Refs(call[t], held[t], s)
  PROVE  Accounts'
  <1>1. /\ call'[t] = c /\ held'[t] = h
        /\ \A u \in Tasks \ {t} : call'[u] = call[u] /\ held'[u] = held[u]
    BY DEF IInv, TableTypeOK
  <1>2. StateOK'
    <2>1. call' = [u \in Tasks |-> call'[u]]
      BY DEF Accounts, StateOK
    <2> QED BY <1>1, <2>1 DEF Accounts, StateOK
  <1>3. CountsOK'
    <2> SUFFICES ASSUME NEW s \in Slots PROVE inode_table'[s].count = Users(s)'
      BY DEF CountsOK
    <2>1. Users(s)' = Users(s) - Refs(call[t], held[t], s) + Refs(c, h, s) - MountRef(s) + MountRef(s)'
      BY <1>1, UsersChange
    <2>2. MountRef(s)' = MountRef(s)
      BY DEF MountRef
    <2>3. inode_table[s].count = Users(s) /\ Users(s) \in Nat
      BY UsersAtLeast DEF Accounts, CountsOK
    <2> QED BY <2>1, <2>2, <2>3, RefsType
  <1>4. \A u \in Tasks : OwnOK(call[u])'
    BY <1>1 DEF Accounts, OwnOK, OwnIn
  <1>5. LocksOK'
    BY <1>1 DEF Accounts, LocksOK, HasLock
  <1>6. MountOK'
    BY <1>1 DEF Accounts, MountOK
  <1>7. RootOK'
    BY DEF Accounts, RootOK
  <1>8. ContentOK'
    BY <1>1 DEF Accounts, ContentOK, HasLock
  <1> QED BY <1>2, <1>3, <1>4, <1>5, <1>6, <1>7, <1>8 DEF Accounts

(* A task goes on and changes a single slot. *)
LEMMA SlotStep ==
  ASSUME IInv, Accounts, NEW t \in Tasks, NEW c, NEW h \in SlotOrNone,
         call' = [call EXCEPT ![t] = c], held' = [held EXCEPT ![t] = h],
         NEW s \in Slots, NEW j \in Records, Set(s, j), UNCHANGED super,
         imap' \subseteq Inodes, disk' \in [Inodes -> Int], truth' \in [Inodes -> Int],
         Settled(c, h), OwnIn(inode_table', c), \A u \in Tasks \ {t} : OwnOK(call[u])',
         \A x \in Slots \ {s} : Refs(c, h, x) = Refs(call[t], held[t], x),
         j.count = inode_table[s].count + Refs(c, h, s) - Refs(call[t], held[t], s)
                   + One(super.imount = s /\ j.mount) - MountRef(s),
         j.lock \/ \A u \in Tasks \ {t} : HasLock(call[u]) => call[u].s # s,
         HasLock(c) => c.s = s /\ j.lock /\ \A u \in Tasks \ {t} : HasLock(call[u]) => call[u].s # s,
         j.mount => inode_table[s].mount, c.pc # "read_super",
         c.ret = "umount" => call[t].ret = "umount" \/ (super.dev /\ super.imount = s /\ ~j.mount
                                /\ \A u \in Tasks : call[u].ret # "umount"),
         RootOK', ContentOK'
  PROVE  Accounts'
  <1>1. /\ call'[t] = c /\ held'[t] = h
        /\ \A u \in Tasks \ {t} : call'[u] = call[u] /\ held'[u] = held[u]
    BY DEF IInv, TableTypeOK
  <1>2. inode_table'[s] = j /\ \A x \in Slots \ {s} : inode_table'[x] = inode_table[x]
    BY DEF Set, IInv, TableTypeOK
  <1>3. StateOK'
    <2>1. inode_table' \in [Slots -> Records]
      BY DEF Set, Accounts, StateOK
    <2>2. call' = [u \in Tasks |-> call'[u]]
      BY DEF Accounts, StateOK
    <2> QED BY <1>1, <2>1, <2>2 DEF Accounts, StateOK
  <1>4. CountsOK'
    <2> SUFFICES ASSUME NEW x \in Slots PROVE inode_table'[x].count = Users(x)'
      BY DEF CountsOK
    <2>1. Users(x)' = Users(x) - Refs(call[t], held[t], x) + Refs(c, h, x) - MountRef(x) + MountRef(x)'
      BY <1>1, UsersChange
    <2>2. MountRef(x)' = IF x = s THEN One(super.imount = s /\ j.mount) ELSE MountRef(x)
      BY <1>2 DEF MountRef
    <2>3. inode_table[x].count = Users(x) /\ Users(x) \in Nat
      BY UsersAtLeast DEF Accounts, CountsOK
    <2>4. One(super.imount = s /\ j.mount) \in Nat
      BY DEF One
    <2>5. CASE x = s
      BY <1>2, <2>1, <2>2, <2>3, <2>4, <2>5, RefsType
    <2>6. CASE x # s
      BY <1>2, <2>1, <2>2, <2>3, <2>6, RefsType
    <2> QED BY <2>5, <2>6
  <1>5. \A u \in Tasks : OwnOK(call[u])'
    BY <1>1 DEF OwnOK, OwnIn
  <1>6. LocksOK'
    <2>1. \A u \in Tasks : HasLock(call[u]) => inode_table[call[u].s].lock
      BY DEF Accounts, LocksOK
    <2>2. \A u \in Tasks : HasLock(call[u]) => call[u].s \in Slots
      BY DEF HasLock, IInv, TableTypeOK, IsCall, InWrite
    <2>3. \A u \in Tasks \ {t} : HasLock(call[u]) => inode_table'[call[u].s].lock
      BY <1>2, <2>1, <2>2
    <2>4. \A u, v \in Tasks : HasLock(call[u]) /\ HasLock(call[v]) /\ call[u].s = call[v].s => u = v
      BY DEF Accounts, LocksOK
    <2>5. HasLock(c) => inode_table'[c.s].lock
      BY <1>2
    <2>6. \A u \in Tasks : HasLock(call'[u]) => inode_table'[call'[u].s].lock
      BY <1>1, <2>3, <2>5
    <2>7. \A u, v \in Tasks : HasLock(call'[u]) /\ HasLock(call'[v]) /\ call'[u].s = call'[v].s => u = v
      BY <1>1, <2>4
    <2> QED BY <2>6, <2>7 DEF LocksOK, HasLock
  <1>7. MountOK'
    <2> USE DEF Accounts, MountOK
    <2>1. \A x \in Slots : inode_table'[x].mount => super.dev /\ super.imount = x
      BY <1>2
    <2>2. \A u \in Tasks : call'[u].pc = "read_super" => super.dev /\ super.imount = 0
      BY <1>1
    <2>3. \A u \in Tasks : call[u].ret = "umount" =>
            super.dev /\ super.imount # 0 /\ ~inode_table'[super.imount].mount
      <3>1. super.imount # 0 => super.imount \in Slots
        BY InodeTableAssumption DEF StateOK, SlotOrNone, Slots
      <3> QED BY <1>2, <3>1
    <2>4. \A u \in Tasks : call'[u].ret = "umount" =>
            super.dev /\ super.imount # 0 /\ ~inode_table'[super.imount].mount
      BY <1>1, <1>2, <2>3, SlotsAre
    <2>5. \A u, v \in Tasks : \/ call'[u].pc = "read_super" /\ call'[v].pc = "read_super"
                              \/ call'[u].ret = "umount" /\ call'[v].ret = "umount"
                              => u = v
      BY <1>1
    <2> QED BY <2>1, <2>2, <2>4, <2>5
  <1> QED BY <1>3, <1>4, <1>5, <1>6, <1>7 DEF Accounts

-----------------------------------------------------------------------------
(* The moves from k to c that keep the references of a task. *)
Quiet(k, h, c, h1) ==
  /\ Settled(c, h1) /\ c.pc # "read_super" /\ ~HasLock(c)
  /\ c.ret = "umount" => k.ret = "umount"
  /\ Fresh(c) => Fresh(k) /\ c.empty = k.empty
  /\ \A s \in Slots : Refs(c, h1, s) = Refs(k, h, s)

LEMMA QuietMoves ==
  ASSUME NEW k, NEW h, IsCall(k), Settled(k, h)
  PROVE  /\ k.pc \in {"idle", "sync", "synced"} =>
              Quiet(k, h, Idle, h) /\ \A s \in Slots : Quiet(k, h, [k EXCEPT !.pc = "sync", !.s = s], h)
         /\ k.pc = "write_inode" => Quiet(k, h, [k EXCEPT !.pc = k.back], h)
         /\ k.pc = "sync" => Quiet(k, h, WriteInode(k, "synced"), h)
         /\ k.pc = "get_empty_inode" => \A s \in Slots : Quiet(k, h, [k EXCEPT !.pc = "empty", !.s = s], h)
         /\ k.pc = "empty" => /\ Quiet(k, h, WriteInode(k, "empty"), h)
                              /\ Quiet(k, h, [k EXCEPT !.pc = "get_empty_inode"], h)
         /\ k.pc = "scan" => \A s \in Slots : Quiet(k, h, [k EXCEPT !.pc = "found", !.s = s], h)
         /\ k.pc = "found" => Quiet(k, h, [k EXCEPT !.pc = "scan"], h)
         /\ k.pc = "cross" => Quiet(k, h, [k EXCEPT !.pc = "scan", !.want = Root], h)
         /\ k.pc = "iput" => /\ Quiet(k, h, WriteInode(k, "iput"), h)
                             /\ Quiet(k, h, [k EXCEPT !.pc = "truncate"], h)
  <1> USE DEF Quiet, Settled, HasLock, Fresh, Putting, Gives, Refs, One,
              IsCall, CallStates, Labels, InIput, InWrite, Getting, Having
  <1>1. k.pc \in {"idle", "sync", "synced"} => Quiet(k, h, Idle, h)
    BY SlotsAre DEF Idle
  <1>2. k.pc \in {"idle", "sync", "synced"} => \A s \in Slots : Quiet(k, h, [k EXCEPT !.pc = "sync", !.s = s], h)
    BY SlotsAre DEF Idle
  <1>3. k.pc = "write_inode" => Quiet(k, h, [k EXCEPT !.pc = k.back], h)
    OBVIOUS
  <1>4. k.pc = "sync" => Quiet(k, h, WriteInode(k, "synced"), h)
    BY DEF WriteInode
  <1>5. k.pc = "get_empty_inode" => \A s \in Slots : Quiet(k, h, [k EXCEPT !.pc = "empty", !.s = s], h)
    OBVIOUS
  <1>6. k.pc = "empty" => Quiet(k, h, WriteInode(k, "empty"), h)
    BY DEF WriteInode
  <1>7. k.pc = "empty" => Quiet(k, h, [k EXCEPT !.pc = "get_empty_inode"], h)
    OBVIOUS
  <1>8. k.pc = "scan" => \A s \in Slots : Quiet(k, h, [k EXCEPT !.pc = "found", !.s = s], h)
    OBVIOUS
  <1>9. k.pc = "found" => Quiet(k, h, [k EXCEPT !.pc = "scan"], h)
    OBVIOUS
  <1>10. k.pc = "cross" => Quiet(k, h, [k EXCEPT !.pc = "scan", !.want = Root], h)
    BY DEF Inodes
  <1>11. k.pc = "iput" => Quiet(k, h, WriteInode(k, "iput"), h)
    BY DEF WriteInode
  <1>12. k.pc = "iput" => Quiet(k, h, [k EXCEPT !.pc = "truncate"], h)
    OBVIOUS
  <1> QED BY <1>1, <1>2, <1>3, <1>4, <1>5, <1>6, <1>7, <1>8, <1>9, <1>10, <1>11, <1>12

(* The calls a task starts with, and how it comes to hold an inode. *)
LEMMA QuietStarts ==
  ASSUME NEW k, NEW h \in SlotOrNone, IsCall(k), Settled(k, h)
  PROVE  /\ k.pc = "idle" /\ h = 0 =>
              /\ \A i \in Inodes : Quiet(k, h, [Idle EXCEPT !.pc = "get_empty_inode", !.ret = "scan", !.want = i], h)
              /\ Quiet(k, h, [Idle EXCEPT !.pc = "get_empty_inode", !.ret = "new_inode"], h)
         /\ k.pc = "idle" /\ h # 0 => Quiet(k, h, Iput(Idle, h, "idle"), 0)
         /\ k.pc = "got" => Quiet(k, h, Idle, k.got)
         /\ k.pc = "new_inode" => Quiet(k, h, Iput(Idle, k.empty, "idle"), h)
  <1> USE DEF Quiet, Settled, HasLock, Fresh, Putting, Gives, Refs, One, Idle,
              IsCall, CallStates, Labels, InIput, InWrite, Getting, Having
  <1>1. ASSUME k.pc = "idle", h = 0, NEW i \in Inodes
        PROVE  Quiet(k, h, [Idle EXCEPT !.pc = "get_empty_inode", !.ret = "scan", !.want = i], h)
    BY <1>1, SlotsAre
  <1>2. k.pc = "idle" /\ h = 0 => Quiet(k, h, [Idle EXCEPT !.pc = "get_empty_inode", !.ret = "new_inode"], h)
    BY SlotsAre
  <1>3. k.pc = "idle" /\ h # 0 => Quiet(k, h, Iput(Idle, h, "idle"), 0)
    BY SlotsAre DEF Iput
  <1>4. k.pc = "got" => Quiet(k, h, Idle, k.got)
    BY SlotsAre
  <1>5. k.pc = "new_inode" => Quiet(k, h, Iput(Idle, k.empty, "idle"), h)
    BY SlotsAre DEF Iput
  <1> QED BY <1>1, <1>2, <1>3, <1>4, <1>5

LEMMA QuietStep ==
  ASSUME IInv, Accounts, NEW t \in Tasks, NEW c, NEW h \in SlotOrNone,
         call' = [call EXCEPT ![t] = c], held' = [held EXCEPT ![t] = h],
         UNCHANGED <<inode_table, imap, disk, super, truth>>,
         Quiet(call[t], held[t], c, h), ~HasLock(call[t]),
         c.pc = "truncate" => inode_table[c.s].count = 1
  PROVE  Accounts'
  <1>1. OwnOK(call[t])
    BY DEF Accounts
  <1>2. OwnOK(c)
    BY <1>1 DEF OwnOK, OwnIn, Quiet, HasLock
  <1> QED BY <1>2, CallStep DEF Quiet

-----------------------------------------------------------------------------
LEMMA TypeFacts ==
  ASSUME IInv, Accounts, NEW t \in Tasks
  PROVE  /\ IsCall(call[t]) /\ Settled(call[t], held[t]) /\ OwnOK(call[t])
         /\ held[t] \in SlotOrNone /\ call[t] \in CallStates
         /\ \A s \in Slots : inode_table[s] \in Records
         /\ held' = held => held' = [held EXCEPT ![t] = held[t]]
         /\ \A c : call' = [call EXCEPT ![t] = c] => \A u \in Tasks \ {t} : call'[u] = call[u]
  BY DEF IInv, TableTypeOK, IsCall, Accounts, StateOK

(* One slot is changed. *)
LEMMA TableChanges ==
  ASSUME IInv, NEW s \in Slots, NEW j, Set(s, j)
  PROVE  inode_table'[s] = j /\ \A x \in Slots \ {s} : inode_table'[x] = inode_table[x]
  BY DEF IInv, TableTypeOK, Set

LEMMA SameOwn ==
  ASSUME IInv, Accounts, NEW s \in Slots, NEW j, Set(s, j), NEW c, OwnOK(c),
         j.count = inode_table[s].count, inode_table[s] # [Zero EXCEPT !.count = 1],
         c.pc = "read_inode" => c.s # s
  PROVE  OwnIn(inode_table', c)
  <1>1. \A x : x # s => inode_table'[x] = inode_table[x]
    BY DEF Set, IInv, TableTypeOK
  <1>2. inode_table'[s] = j
    BY TableChanges
  <1>3. Fresh(c) => c.empty # s
    BY DEF OwnOK, OwnIn
  <1> QED BY <1>1, <1>2, <1>3 DEF OwnOK, OwnIn

LEMMA SameRoot ==
  ASSUME IInv, Accounts, NEW s \in Slots, NEW j, Set(s, j), UNCHANGED super,
         j.mount \/ MountRef(s) = 0,
         j.id = Root /\ j.count > 0 => super.imount # 0 /\ inode_table[super.imount].mount
  PROVE  RootOK'
  <1>1. inode_table'[s] = j /\ \A x \in Slots \ {s} : inode_table'[x] = inode_table[x]
    BY TableChanges
  <1>2. super.imount # 0 => super.imount \in Slots
    BY InodeTableAssumption DEF Accounts, StateOK, SlotOrNone, Slots
  <1>3. super.imount # 0 /\ inode_table[super.imount].mount =>
          super.imount # 0 /\ inode_table'[super.imount].mount
    BY <1>1, <1>2 DEF MountRef, One
  <1> QED BY <1>1, <1>3 DEF RootOK, Accounts

LEMMA SameContent ==
  ASSUME IInv, Accounts, NEW s \in Slots, NEW j, Set(s, j), UNCHANGED <<imap, disk, truth>>,
         j.id = inode_table[s].id, j.nlinks = inode_table[s].nlinks,
         inode_table[s].dirt => j.dirt,
         \A u \in Tasks : call[u].pc = "read_inode" => call'[u] = call[u]
  PROVE  ContentOK'
  <1>1. inode_table'[s] = j /\ \A x \in Slots \ {s} : inode_table'[x] = inode_table[x]
    BY TableChanges
  <1>2. \A x \in Slots : inode_table'[x].id = inode_table[x].id
                         /\ inode_table'[x].nlinks = inode_table[x].nlinks
                         /\ (inode_table[x].dirt => inode_table'[x].dirt)
    BY <1>1
  <1>3. \A x \in Slots : inode_table'[x].id # NULL =>
          \/ inode_table'[x].nlinks = truth'[inode_table'[x].id]
          \/ \E u \in Tasks : call'[u].pc = "read_inode" /\ call'[u].s = x
    BY <1>2 DEF Accounts, ContentOK
  <1>4. \A i \in imap' : disk'[i] = truth'[i] \/ \E x \in Slots : inode_table'[x].id = i /\ inode_table'[x].dirt
    BY <1>2 DEF Accounts, ContentOK
  <1> QED BY <1>3, <1>4 DEF ContentOK

(* An inode that is not locked has nobody who reads or writes it. *)
LEMMA NotLocked ==
  ASSUME Accounts, NEW s, ~inode_table[s].lock
  PROVE  \A u \in Tasks : HasLock(call[u]) => call[u].s # s
  BY SMTT(60) DEF Accounts, LocksOK

(* The values of a slot that is cleared, taken or filled. *)
LEMMA ClearedSlots ==
  /\ Zero \in Records /\ [Zero EXCEPT !.count = 1] \in Records
  /\ \A i \in Inodes :
       /\ [Zero EXCEPT !.count = 1, !.lock = TRUE, !.id = i] \in Records
       /\ [Zero EXCEPT !.id = i, !.count = 1, !.nlinks = 1, !.dirt = TRUE] \in Records
  <1>1. Zero \in Records
    BY DEF Zero, Records
  <1> HIDE DEF Zero
  <1>2. [Zero EXCEPT !.count = 1] \in Records
    BY <1>1 DEF Records
  <1>3. ASSUME NEW i \in Inodes
        PROVE  /\ [Zero EXCEPT !.count = 1, !.lock = TRUE, !.id = i] \in Records
               /\ [Zero EXCEPT !.id = i, !.count = 1, !.nlinks = 1, !.dirt = TRUE] \in Records
    <2>1. i \in Inodes \cup {NULL} /\ 1 \in Nat /\ 1 \in Int /\ TRUE \in BOOLEAN
      OBVIOUS
    <2>2. [Zero EXCEPT !.count = 1, !.lock = TRUE, !.id = i] \in Records
      BY <1>1, <2>1 DEF Records
    <2>3. [Zero EXCEPT !.id = i, !.count = 1, !.nlinks = 1, !.dirt = TRUE] \in Records
      BY <1>1, <2>1 DEF Records
    <2> QED BY <2>2, <2>3
  <1> QED BY <1>1, <1>2, <1>3

-----------------------------------------------------------------------------
LEMMA LockKeeps ==
  ASSUME IInv, Accounts, NEW t \in Tasks, Lock(t)
  PROVE  Accounts'
  <1> DEFINE k == call[t]
             s == k.s
             i == inode_table[s]
  <1>1. /\ k.pc = "write_inode" /\ ~i.lock /\ UNCHANGED <<imap, disk, super, held, truth, raced>>
    BY DEF Lock, Unlocked, Runs, Inode
  <1>2. /\ IsCall(k) /\ Settled(k, held[t]) /\ OwnOK(k) /\ held[t] \in SlotOrNone /\ k \in CallStates
        /\ held' = [held EXCEPT ![t] = held[t]]
    BY <1>1, TypeFacts
  <1>3. s \in Slots /\ i \in Records
    BY <1>1, <1>2, TypeFacts DEF IsCall, InWrite
  <1>4. CASE i.dirt /\ i.id # NULL
    <2> DEFINE c == [k EXCEPT !.pc = "writing"]
               j == [i EXCEPT !.lock = TRUE]
    <2>1. call' = [call EXCEPT ![t] = c] /\ Set(s, j)
      BY <1>4 DEF Lock, Sleep, Inode
    <2>2. /\ j \in Records /\ j.count = i.count /\ j.mount = i.mount /\ j.id = i.id /\ j.lock
          /\ j.nlinks = i.nlinks /\ j.dirt = i.dirt
      BY <1>3 DEF Records
    <2>3. i # [Zero EXCEPT !.count = 1]
      BY <1>4 DEF Zero
    <2>4. \A u \in Tasks : HasLock(call[u]) => call[u].s # s
      BY <1>1, NotLocked
    <2>5. /\ c.pc = "writing" /\ c.s = s /\ c.ret = k.ret /\ c.empty = k.empty
          /\ Settled(c, held[t]) /\ (Fresh(c) <=> Fresh(k))
          /\ \A x : Refs(c, held[t], x) = Refs(k, held[t], x)
      BY <1>1, <1>2 DEF Settled, Fresh, Putting, Gives, Refs, CallStates, Having, InIput, InWrite
    <2>6. OwnOK(c) 
      BY <1>2, <2>5 DEF OwnOK, OwnIn
    <2>7. \A u \in Tasks \ {t} : call'[u] = call[u]
      BY <2>1, TypeFacts
    <2> HIDE DEF c, j, s, k
    <2>8. OwnIn(inode_table', c)
      BY <1>3, <2>1, <2>2, <2>3, <2>5, <2>6, SameOwn
    <2>9. \A u \in Tasks \ {t} : OwnOK(call[u])'
      <3> SUFFICES ASSUME NEW u \in Tasks \ {t} PROVE OwnIn(inode_table', call'[u])
        BY DEF OwnOK
      <3>1. OwnOK(call[u]) /\ (call[u].pc = "read_inode" => call[u].s # s)
        BY <2>4, TypeFacts DEF HasLock
      <3>2. OwnIn(inode_table', call[u])
        BY <1>3, <2>1, <2>2, <2>3, <3>1, SameOwn
      <3> QED BY <2>7, <3>2
    <2>10. RootOK'
      <3>1. j.id = Root /\ j.count > 0 => super.imount # 0 /\ inode_table[super.imount].mount
        BY <1>3, <2>2 DEF Accounts, RootOK
      <3>2. j.mount \/ MountRef(s) = 0
        BY <2>2 DEF MountRef, One
      <3> QED BY <1>1, <1>3, <2>1, <3>1, <3>2, SameRoot
    <2>11. ContentOK'
      <3>1. \A u \in Tasks : call[u].pc = "read_inode" => call'[u] = call[u]
        BY <1>1, <2>7 DEF k
      <3> QED BY <1>1, <1>3, <2>1, <2>2, <3>1, SameContent
    <2>12. One(super.imount = s /\ j.mount) = MountRef(s) /\ MountRef(s) \in Nat
      BY <2>2 DEF MountRef, One
    <2>13. j.count = inode_table[s].count + Refs(c, held[t], s) - Refs(call[t], held[t], s)
                     + One(super.imount = s /\ j.mount) - MountRef(s)
      <3>1. inode_table[s].count \in Nat
        BY <1>3 DEF Records
      <3> QED BY <2>2, <2>5, <2>12, <3>1, RefsType DEF k
    <2>14. UNCHANGED super /\ imap' \subseteq Inodes /\ disk' \in [Inodes -> Int] /\ truth' \in [Inodes -> Int]
      BY <1>1 DEF Accounts, StateOK
    <2>15. c.pc # "read_super" /\ (c.ret = "umount" => call[t].ret = "umount")
           /\ \A x \in Slots \ {s} : Refs(c, held[t], x) = Refs(call[t], held[t], x)
      BY <2>5 DEF k
    <2>16. /\ HasLock(c) => c.s = s /\ j.lock /\ \A u \in Tasks \ {t} : HasLock(call[u]) => call[u].s # s
           /\ j.lock
      BY <2>2, <2>4, <2>5
    <2> QED BY <1>2, <1>3, <2>1, <2>2, <2>5, <2>8, <2>9, <2>10, <2>11, <2>13, <2>14, <2>15, <2>16, SlotStep, ZenonT(60)
  <1>5. CASE ~(i.dirt /\ i.id # NULL)
    <2> DEFINE c == [k EXCEPT !.pc = k.back]
    <2>1. call' = [call EXCEPT ![t] = c] /\ UNCHANGED inode_table
      BY <1>5 DEF Lock, Goto, Inode
    <2>2. Quiet(k, held[t], c, held[t]) /\ ~HasLock(k) /\ c.pc # "truncate"
      BY <1>1, <1>2, QuietMoves DEF HasLock, IsCall, CallStates
    <2> HIDE DEF c
    <2> QED BY <1>1, <1>2, <2>1, <2>2, QuietStep
  <1> QED BY <1>4, <1>5

LEMMA WrittenKeeps ==
  ASSUME IInv, Accounts, NEW t \in Tasks, Written(t)
  PROVE  Accounts'
  <1> DEFINE k == call[t]
             s == k.s
             i == inode_table[s]
             c == [k EXCEPT !.pc = k.back]
             j == [i EXCEPT !.dirt = FALSE, !.lock = FALSE]
  <1>1. /\ k.pc = "writing" /\ UNCHANGED <<imap, super, held, truth, raced>>
        /\ disk' = [disk EXCEPT ![i.id] = i.nlinks]
        /\ call' = [call EXCEPT ![t] = c] /\ Set(s, j)
    BY DEF Written, Runs, Inode, Goto
  <1>2. /\ IsCall(k) /\ Settled(k, held[t]) /\ OwnOK(k) /\ held[t] \in SlotOrNone /\ k \in CallStates
        /\ held' = [held EXCEPT ![t] = held[t]] /\ \A u \in Tasks \ {t} : call'[u] = call[u]
    BY <1>1, TypeFacts
  <1>3. s \in Slots /\ i \in Records
    BY <1>1, <1>2, TypeFacts DEF IsCall, InWrite
  <1>4. /\ j \in Records /\ j.count = i.count /\ j.mount = i.mount /\ j.id = i.id
        /\ j.nlinks = i.nlinks /\ ~j.dirt
    BY <1>3 DEF Records
  <1>5. i.lock /\ i # [Zero EXCEPT !.count = 1]
    BY <1>1 DEF Accounts, LocksOK, HasLock, Zero
  <1>6. \A u \in Tasks \ {t} : HasLock(call[u]) => call[u].s # s
    BY <1>1 DEF Accounts, LocksOK, HasLock
  <1>7. /\ c.pc \in {"iput", "empty", "synced"} /\ c.ret = k.ret /\ c.empty = k.empty
        /\ Settled(c, held[t]) /\ (Fresh(c) <=> Fresh(k))
        /\ \A x : Refs(c, held[t], x) = Refs(k, held[t], x)
    BY <1>1, <1>2 DEF IsCall, Settled, Fresh, Putting, Gives, Refs, CallStates, Having, InIput, InWrite
  <1>8. OwnOK(c)
    BY <1>2, <1>7 DEF OwnOK, OwnIn
  <1> HIDE DEF c, j, s, k
  <1>9. OwnIn(inode_table', c)
    BY <1>1, <1>3, <1>4, <1>5, <1>7, <1>8, SameOwn
  <1>10. \A u \in Tasks \ {t} : OwnOK(call[u])'
    <2> SUFFICES ASSUME NEW u \in Tasks \ {t} PROVE OwnIn(inode_table', call'[u])
      BY DEF OwnOK
    <2>1. OwnOK(call[u]) /\ (call[u].pc = "read_inode" => call[u].s # s)
      BY <1>6, TypeFacts DEF HasLock
    <2>2. OwnIn(inode_table', call[u])
      BY <1>1, <1>3, <1>4, <1>5, <2>1, SameOwn
    <2> QED BY <1>2, <2>2
  <1>11. RootOK'
    <2>1. j.id = Root /\ j.count > 0 => super.imount # 0 /\ inode_table[super.imount].mount
      BY <1>3, <1>4 DEF Accounts, RootOK
    <2>2. j.mount \/ MountRef(s) = 0
      BY <1>4 DEF MountRef, One
    <2> QED BY <1>1, <1>3, <2>1, <2>2, SameRoot
  <1>12. disk' \in [Inodes -> Int] /\ ContentOK'
    <2>1. inode_table'[s] = j /\ \A x \in Slots \ {s} : inode_table'[x] = inode_table[x]
      BY <1>1, <1>3, TableChanges
    <2>2. i.id # NULL => i.nlinks = truth[i.id]
      <3>1. \A u \in Tasks : call[u].pc = "read_inode" => call[u].s # s
        BY <1>1, <1>6 DEF HasLock, k
      <3> QED BY <1>3, <3>1 DEF Accounts, ContentOK
    <2>3. disk \in [Inodes -> Int] /\ NULL \notin Inodes /\ imap \subseteq Inodes
      BY InodeTableAssumption DEF Accounts, StateOK, Inodes
    <2>4. disk' \in [Inodes -> Int]
      BY <1>1, <1>3, <2>3 DEF Records
    <2>5. \A x \in Slots : inode_table'[x].id # NULL =>
            \/ inode_table'[x].nlinks = truth'[inode_table'[x].id]
            \/ \E u \in Tasks : call'[u].pc = "read_inode" /\ call'[u].s = x
      <3> SUFFICES ASSUME NEW x \in Slots, inode_table'[x].id # NULL,
                          inode_table'[x].nlinks # truth'[inode_table'[x].id]
                   PROVE  \E u \in Tasks : call'[u].pc = "read_inode" /\ call'[u].s = x
        OBVIOUS
      <3>1. inode_table'[x].id = inode_table[x].id /\ inode_table'[x].nlinks = inode_table[x].nlinks
        BY <1>4, <2>1
      <3>2. PICK u \in Tasks : call[u].pc = "read_inode" /\ call[u].s = x
        BY <1>1, <3>1 DEF Accounts, ContentOK
      <3>3. u # t
        BY <1>1, <3>2 DEF k
      <3> QED BY <1>2, <3>2, <3>3
    <2>6. \A e \in imap' : disk'[e] = truth'[e] \/ \E x \in Slots : inode_table'[x].id = e /\ inode_table'[x].dirt
      <3> SUFFICES ASSUME NEW e \in imap, disk'[e] # truth[e]
                   PROVE  \E x \in Slots : inode_table'[x].id = e /\ inode_table'[x].dirt
        BY <1>1
      <3>1. e # i.id
        BY <1>1, <2>2, <2>3
      <3>2. disk[e] # truth[e]
        BY <1>1, <2>3, <3>1
      <3>3. PICK x \in Slots : inode_table[x].id = e /\ inode_table[x].dirt
        BY <3>2 DEF Accounts, ContentOK
      <3>4. x # s
        BY <3>1, <3>3
      <3> QED BY <2>1, <3>3, <3>4
    <2> QED BY <2>4, <2>5, <2>6 DEF ContentOK
  <1>13. One(super.imount = s /\ j.mount) = MountRef(s) /\ MountRef(s) \in Nat
    BY <1>4 DEF MountRef, One
  <1>14. j.count = inode_table[s].count + Refs(c, held[t], s) - Refs(call[t], held[t], s)
                   + One(super.imount = s /\ j.mount) - MountRef(s)
    <2>1. inode_table[s].count \in Nat
      BY <1>3 DEF Records
    <2> QED BY <1>4, <1>7, <1>13, <2>1, RefsType DEF k
  <1>15. imap' \subseteq Inodes /\ truth' \in [Inodes -> Int]
    BY <1>1 DEF Accounts, StateOK
  <1>16. /\ c.pc # "read_super" /\ (c.ret = "umount" => call[t].ret = "umount") /\ ~HasLock(c)
         /\ \A x \in Slots \ {s} : Refs(c, held[t], x) = Refs(call[t], held[t], x)
    BY <1>7 DEF k, HasLock
  <1> QED BY <1>1, <1>2, <1>3, <1>4, <1>6, <1>7, <1>9, <1>10, <1>11, <1>12, <1>14, <1>15, <1>16, SlotStep

(* sync_inodes, and what goes on without a change of a slot. *)
LEMMA SyncKeeps ==
  ASSUME IInv, Accounts, NEW t \in Tasks, Sync(t) \/ SyncInode(t)
  PROVE  Accounts'
  <1> DEFINE k == call[t]
  <1>1. UNCHANGED <<inode_table, imap, disk, super, held, truth>>
    BY DEF Sync, SyncInode
  <1>2. /\ IsCall(k) /\ Settled(k, held[t]) /\ held[t] \in SlotOrNone /\ k \in CallStates
        /\ held' = [held EXCEPT ![t] = held[t]]
    BY <1>1, TypeFacts
  <1>3. CASE Sync(t)
    <2> DEFINE c == [Idle EXCEPT !.pc = "sync", !.s = 1]
    <2>1. k.pc = "idle" /\ call' = [call EXCEPT ![t] = c]
      BY <1>3 DEF Sync, Runs, Goto
    <2>2. k = Idle
      BY <1>2, <2>1 DEF Settled
    <2>3. Quiet(k, held[t], c, held[t])
      BY <1>2, <2>1, <2>2, SlotsAre, QuietMoves
    <2>4. c.pc # "truncate" /\ ~HasLock(k)
      BY <2>1 DEF HasLock, Idle
    <2> HIDE DEF c
    <2> QED BY <1>1, <1>2, <2>1, <2>3, <2>4, QuietStep
  <1>4. CASE SyncInode(t)
    <2>1. k.pc \in {"sync", "synced"} /\ ~HasLock(k)
      BY <1>4 DEF SyncInode, Unlocked, Runs, HasLock
    <2>2. CASE Goto(t, NextSynced(t))
      <3> DEFINE c == NextSynced(t)
      <3>1. k.s \in Slots /\ (k.s # NR_INODE => k.s + 1 \in Slots)
        BY <1>2, <2>1, InodeTableAssumption DEF IsCall, Slots
      <3>2. k.s # NR_INODE => c = [k EXCEPT !.pc = "sync", !.s = k.s + 1]
        BY <1>2 DEF NextSynced, CallStates
      <3>3. k.s # NR_INODE => Quiet(k, held[t], [k EXCEPT !.pc = "sync", !.s = k.s + 1], held[t])
        BY <1>2, <2>1, <3>1, QuietMoves, ZenonT(60)
      <3>4. k.s = NR_INODE => c = Idle /\ Quiet(k, held[t], Idle, held[t])
        BY <1>2, <2>1, QuietMoves DEF NextSynced
      <3>5. c.pc # "truncate"
        <4>1. [k EXCEPT !.pc = "sync", !.s = k.s + 1].pc = "sync" /\ Idle.pc = "idle"
          BY <1>2 DEF Idle, CallStates
        <4> HIDE DEF c, k
        <4> QED BY <3>2, <3>4, <4>1
      <3>6. call' = [call EXCEPT ![t] = c]
        BY <2>2 DEF Goto
      <3>7. Quiet(k, held[t], c, held[t])
        BY <3>2, <3>3, <3>4
      <3> HIDE DEF c
      <3> QED BY <1>1, <1>2, <2>1, <3>5, <3>6, <3>7, QuietStep
    <2>3. CASE k.pc = "sync" /\ Goto(t, WriteInode(k, "synced"))
      <3> DEFINE c == WriteInode(k, "synced")
      <3>1. Quiet(k, held[t], c, held[t])
        BY <1>2, <2>3, QuietMoves
      <3>2. c.pc # "truncate" /\ call' = [call EXCEPT ![t] = c]
        BY <1>2, <2>3 DEF WriteInode, Goto, CallStates
      <3> HIDE DEF c
      <3> QED BY <1>1, <1>2, <2>1, <3>1, <3>2, QuietStep
    <2> QED BY <1>4, <2>2, <2>3 DEF SyncInode, Unlocked, Runs
  <1> QED BY <1>3, <1>4

(* A slot that is not dirty gets another content. *)
LEMMA OtherContent ==
  ASSUME IInv, Accounts, NEW s \in Slots, NEW j, Set(s, j), UNCHANGED <<imap, disk, truth>>,
         ~inode_table[s].dirt,
         \/ j.id = NULL
         \/ j.nlinks = truth[j.id]
         \/ \E u \in Tasks : call'[u].pc = "read_inode" /\ call'[u].s = s,
         \A u \in Tasks : call[u].pc = "read_inode" /\ call[u].s # s => call'[u] = call[u]
  PROVE  ContentOK'
  <1>1. inode_table'[s] = j /\ \A x \in Slots \ {s} : inode_table'[x] = inode_table[x]
    BY TableChanges
  <1>2. ASSUME NEW x \in Slots, inode_table'[x].id # NULL,
               inode_table'[x].nlinks # truth'[inode_table'[x].id]
        PROVE  \E u \in Tasks : call'[u].pc = "read_inode" /\ call'[u].s = x
    <2>1. CASE x = s
      BY <1>1, <1>2, <2>1
    <2>2. CASE x # s
      <3>1. PICK u \in Tasks : call[u].pc = "read_inode" /\ call[u].s = x
        BY <1>1, <1>2, <2>2 DEF Accounts, ContentOK
      <3> QED BY <2>2, <3>1
    <2> QED BY <2>1, <2>2
  <1>3. ASSUME NEW e \in imap', disk'[e] # truth'[e]
        PROVE  \E x \in Slots : inode_table'[x].id = e /\ inode_table'[x].dirt
    <2>1. PICK x \in Slots : inode_table[x].id = e /\ inode_table[x].dirt
      BY <1>3 DEF Accounts, ContentOK
    <2> QED BY <1>1, <2>1
  <1> QED BY <1>2, <1>3 DEF ContentOK

LEMMA EmptyKeeps ==
  ASSUME IInv, Accounts, NEW t \in Tasks, GetEmpty(t) \/ Empty(t)
  PROVE  Accounts'
  <1> DEFINE k == call[t]
             s == k.s
             i == inode_table[s]
  <1>1. UNCHANGED <<imap, disk, super, held, truth>> /\ k.pc \in {"get_empty_inode", "empty"}
    BY DEF GetEmpty, Empty, Unlocked, Runs
  <1>2. /\ IsCall(k) /\ Settled(k, held[t]) /\ held[t] \in SlotOrNone /\ k \in CallStates
        /\ held' = [held EXCEPT ![t] = held[t]] /\ ~HasLock(k)
    BY <1>1, TypeFacts DEF HasLock
  <1>3. CASE GetEmpty(t)
    <2>1. k.pc = "get_empty_inode" /\ UNCHANGED inode_table
      BY <1>3 DEF GetEmpty, Runs
    <2>2. PICK x \in Slots : call' = [call EXCEPT ![t] = [k EXCEPT !.pc = "empty", !.s = x]]
      BY <1>3 DEF GetEmpty, Clean, Unused, Goto
    <2> DEFINE c == [k EXCEPT !.pc = "empty", !.s = x]
    <2>3. Quiet(k, held[t], c, held[t])
      BY <1>2, <2>1, QuietMoves
    <2>4. c.pc # "truncate"
      BY <1>2 DEF CallStates
    <2> HIDE DEF c
    <2> QED BY <1>1, <1>2, <2>1, <2>2, <2>3, <2>4, QuietStep DEF c
  <1>4. CASE Empty(t)
    <2>1. k.pc = "empty" /\ ~i.lock
      BY <1>4 DEF Empty, Unlocked, Runs, Inode
    <2>2. s \in Slots /\ i \in Records
      BY <1>2, <2>1, TypeFacts DEF IsCall
    <2>3. CASE Goto(t, WriteInode(k, "empty")) /\ UNCHANGED inode_table
      <3> DEFINE c == WriteInode(k, "empty")
      <3>1. Quiet(k, held[t], c, held[t]) /\ c.pc # "truncate" /\ call' = [call EXCEPT ![t] = c]
        BY <1>2, <2>1, <2>3, QuietMoves, Zenon DEF WriteInode, CallStates, Goto
      <3> HIDE DEF c
      <3> QED BY <1>1, <1>2, <2>3, <3>1, QuietStep, Zenon
    <2>4. CASE Goto(t, [k EXCEPT !.pc = "get_empty_inode"]) /\ UNCHANGED inode_table
      <3> DEFINE c == [k EXCEPT !.pc = "get_empty_inode"]
      <3>1. Quiet(k, held[t], c, held[t]) /\ c.pc # "truncate" /\ call' = [call EXCEPT ![t] = c]
        BY <1>2, <2>1, <2>4, QuietMoves DEF CallStates, Goto
      <3> HIDE DEF c
      <3> QED BY <1>1, <1>2, <2>4, <3>1, QuietStep
    <2>5. CASE ~i.dirt /\ i.count = 0
      <3> DEFINE c == [k EXCEPT !.pc = k.ret, !.empty = s]
                 j == [Zero EXCEPT !.count = 1]
      <3>1. call' = [call EXCEPT ![t] = c] /\ Set(s, j)
        BY <1>4, <2>5 DEF Empty, Goto, Inode
      <3>2. /\ j \in Records /\ j.count = 1 /\ ~j.mount /\ ~j.lock /\ j.id = NULL
        BY ClearedSlots DEF Zero
      <3>3. MountRef(s) = 0 /\ Refs(k, held[t], s) = 0
        <4>1. Users(s) = 0
          BY <2>2, <2>5 DEF Accounts, CountsOK
        <4>2. Users(s) >= Refs(call[t], held[t], s) + MountRef(s)
          BY UsersAtLeast
        <4> QED BY <4>1, <4>2, RefsType
      <3>4. /\ c.pc \in {"scan", "new_inode"} /\ c.ret = k.ret /\ c.empty = s
            /\ Settled(c, held[t]) /\ Fresh(c)
            /\ \A x \in Slots \ {s} : Refs(c, held[t], x) = Refs(k, held[t], x)
            /\ Refs(c, held[t], s) = Refs(k, held[t], s) + 1
        <4>1. /\ c.pc \in {"scan", "new_inode"} /\ c.ret = k.ret /\ c.empty = s
              /\ c.s = k.s /\ c.got = k.got /\ c.want = k.want /\ k.ret \in {"scan", "new_inode"}
          BY <1>2, <2>1 DEF IsCall, CallStates, Getting
        <4>2. k.empty = 0 /\ k.got = 0
          BY <1>2, <2>1 DEF Settled, Fresh, Having, Putting, InIput, InWrite
        <4>3. Settled(c, held[t]) /\ Fresh(c)
          BY <1>2, <2>1, <4>1, <4>2 DEF Settled, Fresh, Having, Putting, InIput, InWrite
        <4>4. ~Gives(c) /\ ~Gives(k)
          BY <2>1, <4>1 DEF Gives, Putting, InIput, InWrite
        <4> HIDE DEF c
        <4>5. \A x \in Slots \ {s} : Refs(c, held[t], x) = Refs(k, held[t], x)
          BY <4>1, <4>2, <4>4, SlotsAre DEF Refs, One
        <4>6. Refs(c, held[t], s) = Refs(k, held[t], s) + 1
          BY <2>2, <4>1, <4>2, <4>4, SlotsAre DEF Refs, One
        <4> QED BY <4>1, <4>3, <4>5, <4>6
      <3>5. \A u \in Tasks : HasLock(call[u]) => call[u].s # s
        BY <2>1, NotLocked
      <3>6. \A u \in Tasks \ {t} : call'[u] = call[u]
        BY <3>1, TypeFacts
      <3> HIDE DEF c, j, s, k
      <3>7. inode_table'[s] = j
        BY <2>2, <3>1, TableChanges
      <3>8. OwnIn(inode_table', c)
        BY <3>4, <3>7 DEF OwnIn, j
      <3>9. \A u \in Tasks \ {t} : OwnOK(call[u])'
        BY <2>2, <2>5, <3>1, <3>6, OthersOwn
      <3>10. RootOK'
        BY <1>1, <2>2, <3>1, <3>2, <3>3, InodeTableAssumption, SameRoot
      <3>11. ContentOK'
        <4>1. \A u \in Tasks : call[u].pc = "read_inode" => call'[u] = call[u]
          BY <1>1, <3>6 DEF k
        <4> QED BY <1>1, <2>2, <2>5, <3>1, <3>2, <4>1, OtherContent
      <3>12. One(super.imount = s /\ j.mount) = 0
        BY <3>2 DEF One
      <3>13. j.count = inode_table[s].count + Refs(c, held[t], s) - Refs(call[t], held[t], s)
                       + One(super.imount = s /\ j.mount) - MountRef(s)
        BY <2>5, <3>2, <3>3, <3>4, <3>12 DEF k
      <3>14. imap' \subseteq Inodes /\ disk' \in [Inodes -> Int] /\ truth' \in [Inodes -> Int]
        BY <1>1 DEF Accounts, StateOK
      <3>15. /\ c.pc # "read_super" /\ (c.ret = "umount" => call[t].ret = "umount") /\ ~HasLock(c)
             /\ \A x \in Slots \ {s} : Refs(c, held[t], x) = Refs(call[t], held[t], x)
        BY <3>4 DEF k, HasLock
      <3> QED BY <1>1, <1>2, <2>2, <3>1, <3>2, <3>4, <3>5, <3>8, <3>9, <3>10, <3>11, <3>13, <3>14, <3>15, SlotStep
    <2> QED BY <1>4, <2>3, <2>4, <2>5 DEF Empty, Inode
  <1> QED BY <1>3, <1>4

LEMMA FindKeeps ==
  ASSUME IInv, Accounts, NEW t \in Tasks,
         (\E w \in Inodes : Iget(t, w)) \/ Cross(t) \/ Got(t) \/ Close(t) \/ Create(t)
  PROVE  Accounts'
  <1> DEFINE k == call[t]
  <1>1. UNCHANGED <<inode_table, imap, disk, super, truth>> /\ k.pc \in {"idle", "cross", "got"}
    BY DEF Iget, Cross, Got, Close, Create, Runs
  <1>2. /\ IsCall(k) /\ Settled(k, held[t]) /\ held[t] \in SlotOrNone /\ k \in CallStates /\ ~HasLock(k)
        /\ held' = held => held' = [held EXCEPT ![t] = held[t]]
    BY <1>1, TypeFacts DEF HasLock
  <1>3. ASSUME NEW w \in Inodes, Iget(t, w) PROVE Accounts'
    <2> DEFINE c == [Idle EXCEPT !.pc = "get_empty_inode", !.ret = "scan", !.want = w]
    <2>1. k.pc = "idle" /\ held[t] = 0 /\ held' = held /\ call' = [call EXCEPT ![t] = c]
      BY <1>3 DEF Iget, Runs, Goto
    <2>2. Quiet(k, held[t], c, held[t]) /\ c.pc # "truncate"
      BY <1>2, <2>1, QuietStarts DEF Idle
    <2> HIDE DEF c
    <2> QED BY <1>1, <1>2, <2>1, <2>2, QuietStep
  <1>4. CASE Cross(t)
    <2> DEFINE c == [k EXCEPT !.pc = "scan", !.want = Root]
    <2>1. k.pc = "cross" /\ held' = held /\ call' = [call EXCEPT ![t] = c]
      BY <1>4 DEF Cross, Runs, Goto
    <2>2. Quiet(k, held[t], c, held[t]) /\ c.pc # "truncate"
      BY <1>2, <2>1, QuietMoves DEF CallStates
    <2> HIDE DEF c
    <2> QED BY <1>1, <1>2, <2>1, <2>2, QuietStep
  <1>5. CASE Got(t)
    <2>1. k.pc = "got" /\ held' = [held EXCEPT ![t] = k.got] /\ call' = [call EXCEPT ![t] = Idle]
      BY <1>5 DEF Got, Runs, Goto
    <2>2. Quiet(k, held[t], Idle, k.got) /\ Idle.pc # "truncate" /\ k.got \in SlotOrNone
      BY <1>2, <2>1, QuietStarts DEF Idle, CallStates
    <2> QED BY <1>1, <1>2, <2>1, <2>2, QuietStep
  <1>6. CASE Close(t)
    <2> DEFINE c == Iput(Idle, held[t], "idle")
    <2>1. k.pc = "idle" /\ held[t] # 0 /\ held' = [held EXCEPT ![t] = 0] /\ call' = [call EXCEPT ![t] = c]
      BY <1>6 DEF Close, Runs, Goto
    <2>2. Quiet(k, held[t], c, 0) /\ c.pc # "truncate" /\ 0 \in SlotOrNone
      BY <1>2, <2>1, SlotsAre, QuietStarts DEF Idle, Iput
    <2> HIDE DEF c
    <2> QED BY <1>1, <1>2, <2>1, <2>2, QuietStep
  <1>7. CASE Create(t)
    <2> DEFINE c == [Idle EXCEPT !.pc = "get_empty_inode", !.ret = "new_inode"]
    <2>1. k.pc = "idle" /\ held[t] = 0 /\ held' = held /\ call' = [call EXCEPT ![t] = c]
      BY <1>7 DEF Create, Runs, Goto
    <2>2. Quiet(k, held[t], c, held[t]) /\ c.pc # "truncate"
      BY <1>2, <2>1, QuietStarts DEF Idle
    <2> HIDE DEF c
    <2> QED BY <1>1, <1>2, <2>1, <2>2, QuietStep
  <1> QED BY <1>3, <1>4, <1>5, <1>6, <1>7

-----------------------------------------------------------------------------
(* A root directory that is entered while it is not on its way out has its
   device mounted. *)
LEMMA NotDying ==
  ASSUME NEW e, ~Dying(e)
  PROVE  /\ e = Root => super.imount # 0 /\ inode_table[super.imount].mount
         /\ \A u \in Tasks : call[u].pc = "truncate" => inode_table[call[u].s].id # e
  BY DEF Dying, Inode

LEMMA ScanKeeps ==
  ASSUME IInv, Accounts, ~raced', NEW t \in Tasks, Scan(t)
  PROVE  Accounts'
  <1> DEFINE k == call[t]
             s == k.empty
             i == inode_table[s]
  <1>1. UNCHANGED <<imap, disk, super, held, truth>> /\ k.pc = "scan"
    BY DEF Scan, Runs
  <1>2. /\ IsCall(k) /\ Settled(k, held[t]) /\ held[t] \in SlotOrNone /\ k \in CallStates /\ OwnOK(k)
        /\ held' = [held EXCEPT ![t] = held[t]] /\ ~HasLock(k)
    BY <1>1, TypeFacts DEF HasLock
  <1>3. CASE Found(t) # {}
    <2>1. PICK x \in Slots : call' = [call EXCEPT ![t] = [k EXCEPT !.pc = "found", !.s = x]]
      BY <1>3 DEF Scan, Found, Goto
    <2> DEFINE c == [k EXCEPT !.pc = "found", !.s = x]
    <2>2. Quiet(k, held[t], c, held[t])
      BY <1>1, <1>2, QuietMoves
    <2>3. c.pc # "truncate" /\ UNCHANGED inode_table
      BY <1>2, <1>3 DEF CallStates, Scan
    <2> HIDE DEF c
    <2> QED BY <1>1, <1>2, <2>1, <2>2, <2>3, QuietStep DEF c
  <1>4. CASE Found(t) = {}
    <2> DEFINE c == [k EXCEPT !.pc = "read_inode", !.s = s]
               j == [Zero EXCEPT !.count = 1, !.lock = TRUE, !.id = k.want]
    <2>1. call' = [call EXCEPT ![t] = c] /\ Set(s, j) /\ ~Dying(k.want)
      BY <1>4 DEF Scan, Sleep
    <2>2. s \in Slots /\ k.want \in Inodes /\ Fresh(k) /\ OwnSlot(k, s)
      BY <1>1, <1>2 DEF IsCall, Settled, Having, Fresh, OwnSlot
    <2>3. i.count = 1 /\ ~i.dirt /\ ~i.lock /\ ~i.mount /\ i.id = NULL
      BY <1>2, <2>2 DEF OwnOK, OwnIn, Zero
    <2>4. j \in Records /\ j.count = 1 /\ ~j.mount /\ j.lock /\ j.id = k.want /\ ~j.dirt
      BY <2>2, ClearedSlots DEF Zero
    <2>5. MountRef(s) = 0 /\ Refs(k, held[t], s) >= 1
      BY <1>2, <2>2, <2>3, OwnIsOne DEF MountRef, One
    <2>6. /\ c.pc = "read_inode" /\ c.ret = k.ret /\ c.empty = s /\ c.s = s /\ c.want = k.want
          /\ Settled(c, held[t]) /\ ~Fresh(c)
          /\ \A x : Refs(c, held[t], x) = Refs(k, held[t], x)
      <3>1. /\ c.pc = "read_inode" /\ c.ret = k.ret /\ c.empty = s /\ c.s = s /\ c.want = k.want
            /\ c.got = k.got
        BY <1>2 DEF CallStates
      <3>2. Settled(c, held[t]) /\ ~Fresh(c)
        BY <1>1, <1>2, <3>1 DEF Settled, Fresh, Having, Putting, InIput, InWrite
      <3>3. ~Gives(c) /\ ~Gives(k)
        BY <1>1, <3>1 DEF Gives, Putting, InIput, InWrite
      <3> HIDE DEF c
      <3>4. \A x : Refs(c, held[t], x) = Refs(k, held[t], x)
        BY <1>1, <3>1, <3>3 DEF Refs, One
      <3> QED BY <3>1, <3>2, <3>4
    <2>7. \A u \in Tasks : HasLock(call[u]) => call[u].s # s
      BY <2>3, NotLocked
    <2>8. call'[t] = c /\ \A u \in Tasks \ {t} : call'[u] = call[u]
      BY <2>1, TypeFacts DEF IInv, TableTypeOK
    <2> HIDE DEF c, j, s, k
    <2>9. inode_table'[s] = j
      BY <2>1, <2>2, TableChanges
    <2>10. OwnIn(inode_table', c)
      BY <2>4, <2>6, <2>9 DEF OwnIn
    <2>11. \A u \in Tasks \ {t} : OwnOK(call[u])'
      BY <2>1, <2>2, <2>5, <2>8, OthersOwn DEF k
    <2>12. RootOK'
      <3>1. j.id = Root => super.imount # 0 /\ inode_table[super.imount].mount
        BY <2>1, <2>4, NotDying
      <3> QED BY <1>1, <2>1, <2>2, <2>5, <3>1, SameRoot
    <2>13. ContentOK'
      <3>1. \A u \in Tasks : call[u].pc = "read_inode" => call'[u] = call[u]
        BY <1>1, <2>8 DEF k
      <3>2. \E u \in Tasks : call'[u].pc = "read_inode" /\ call'[u].s = s
        BY <2>6, <2>8
      <3> QED BY <1>1, <2>1, <2>2, <2>3, <3>1, <3>2, OtherContent
    <2>14. One(super.imount = s /\ j.mount) = 0
      BY <2>4 DEF One
    <2>15. j.count = inode_table[s].count + Refs(c, held[t], s) - Refs(call[t], held[t], s)
                     + One(super.imount = s /\ j.mount) - MountRef(s)
      BY <2>3, <2>4, <2>5, <2>6, <2>14, RefsType DEF k
    <2>16. imap' \subseteq Inodes /\ disk' \in [Inodes -> Int] /\ truth' \in [Inodes -> Int]
      BY <1>1 DEF Accounts, StateOK
    <2>17. /\ c.pc # "read_super" /\ (c.ret = "umount" => call[t].ret = "umount")
           /\ \A x \in Slots \ {s} : Refs(c, held[t], x) = Refs(call[t], held[t], x)
      BY <2>6 DEF k
    <2> QED BY <1>1, <1>2, <2>1, <2>2, <2>4, <2>6, <2>7, <2>10, <2>11, <2>12, <2>13, <2>15, <2>16, <2>17, SlotStep
  <1> QED BY <1>3, <1>4

LEMMA TakeFoundKeeps ==
  ASSUME IInv, Accounts, ~raced', NEW t \in Tasks, TakeFound(t)
  PROVE  Accounts'
  <1> DEFINE k == call[t]
             s == k.s
             i == inode_table[s]
  <1>1. UNCHANGED <<imap, disk, super, held, truth>> /\ k.pc = "found" /\ ~i.lock
    BY DEF TakeFound, Unlocked, Runs, Inode
  <1>2. /\ IsCall(k) /\ Settled(k, held[t]) /\ held[t] \in SlotOrNone /\ k \in CallStates /\ OwnOK(k)
        /\ held' = [held EXCEPT ![t] = held[t]] /\ ~HasLock(k)
    BY <1>1, TypeFacts DEF HasLock
  <1>3. s \in Slots /\ k.empty \in Slots /\ k.want \in Inodes /\ i \in Records /\ Fresh(k)
    BY <1>1, <1>2, TypeFacts DEF IsCall, Having, Settled, Fresh
  <1>4. CASE i.id # k.want
    <2> DEFINE c == [k EXCEPT !.pc = "scan"]
    <2>1. call' = [call EXCEPT ![t] = c] /\ UNCHANGED inode_table
      BY <1>4 DEF TakeFound, Goto, Inode
    <2>2. Quiet(k, held[t], c, held[t]) /\ c.pc # "truncate"
      BY <1>1, <1>2, QuietMoves DEF CallStates
    <2> HIDE DEF c
    <2> QED BY <1>1, <1>2, <2>1, <2>2, QuietStep
  <1>5. CASE i.id = k.want
    <2> DEFINE c == IF i.mount THEN Iput(k, s, "cross") ELSE Iput([k EXCEPT !.got = s], k.empty, "got")
               j == [i EXCEPT !.count = @ + 1]
    <2>1. call' = [call EXCEPT ![t] = c] /\ Set(s, j) /\ ~Dying(i.id)
      BY <1>5 DEF TakeFound, Goto, Inode
    <2>2. /\ j \in Records /\ j.count = i.count + 1 /\ j.mount = i.mount /\ j.id = i.id /\ j.lock = i.lock
          /\ j.dirt = i.dirt /\ j.nlinks = i.nlinks
      BY <1>3 DEF Records
    <2>3. i.id # NULL /\ i # [Zero EXCEPT !.count = 1]
      BY <1>3, <1>5, InodeTableAssumption DEF Zero, Inodes
    <2>4. k.empty # s
      BY <1>2, <1>3, <2>3 DEF OwnOK, OwnIn
    <2>5. /\ c.pc = "iput" /\ c.ret \in {"cross", "got"} /\ c.empty = k.empty
          /\ Settled(c, held[t]) /\ Fresh(c)
          /\ \A x \in Slots \ {s} : Refs(c, held[t], x) = Refs(k, held[t], x)
          /\ Refs(c, held[t], s) = Refs(k, held[t], s) + 1
      <3>1. k.got = 0 /\ k.ret \in {"scan", "new_inode", "cross", "got"} /\ held[t] = 0 /\ ~Gives(k)
        BY <1>1, <1>2 DEF Settled, Having, Putting, InIput, InWrite, Gives
      <3>2. CASE i.mount
        <4>1. /\ c.pc = "iput" /\ c.ret = "cross" /\ c.empty = k.empty /\ c.s = s /\ c.got = 0
              /\ c.want = k.want
          BY <1>2, <3>1, <3>2 DEF CallStates, Iput
        <4> HIDE DEF c, s, k
        <4>2. Settled(c, held[t]) /\ Fresh(c) /\ Gives(c)
          BY <1>3, <3>1, <4>1 DEF Settled, Fresh, Having, Putting, InIput, InWrite, Gives
        <4>3. \A x \in Slots \ {s} : Refs(c, held[t], x) = Refs(k, held[t], x)
          BY <1>1, <3>1, <4>1, <4>2 DEF Refs, One
        <4>4. Refs(c, held[t], s) = Refs(k, held[t], s) + 1
          BY <1>1, <1>3, <2>4, <3>1, <4>1, <4>2, SlotsAre DEF Refs, One
        <4> QED BY <4>1, <4>2, <4>3, <4>4
      <3>3. CASE ~i.mount
        <4>1. /\ c.pc = "iput" /\ c.ret = "got" /\ c.empty = k.empty /\ c.s = k.empty /\ c.got = s
              /\ c.want = k.want
          BY <1>2, <3>1, <3>3 DEF CallStates, Iput
        <4> HIDE DEF c, s, k
        <4>2. Settled(c, held[t]) /\ Fresh(c) /\ ~Gives(c)
          BY <1>3, <3>1, <4>1 DEF Settled, Fresh, Having, Putting, InIput, InWrite, Gives
        <4>3. \A x \in Slots \ {s} : Refs(c, held[t], x) = Refs(k, held[t], x)
          BY <1>1, <3>1, <4>1, <4>2, SlotsAre DEF Refs, One
        <4>4. Refs(c, held[t], s) = Refs(k, held[t], s) + 1
          BY <1>1, <1>3, <2>4, <3>1, <4>1, <4>2, SlotsAre DEF Refs, One
        <4> QED BY <4>1, <4>2, <4>3, <4>4
      <3> QED BY <3>2, <3>3
    <2>6. \A u \in Tasks : HasLock(call[u]) => call[u].s # s
      BY <1>1, NotLocked
    <2>7. \A u \in Tasks \ {t} : call'[u] = call[u]
      BY <2>1, TypeFacts
    <2> HIDE DEF c, j, s, k
    <2>8. inode_table'[s] = j /\ \A x : x # s => inode_table'[x] = inode_table[x]
      BY <1>3, <2>1, TableChanges DEF Set, IInv, TableTypeOK
    <2>9. OwnIn(inode_table', c)
      BY <1>2, <1>3, <2>4, <2>5, <2>8 DEF OwnOK, OwnIn
    <2>10. \A u \in Tasks \ {t} : OwnOK(call[u])'
      <3> SUFFICES ASSUME NEW u \in Tasks \ {t} PROVE OwnIn(inode_table', call'[u])
        BY DEF OwnOK
      <3>1. OwnOK(call[u]) /\ (call[u].pc = "read_inode" => call[u].s # s)
        BY <2>6, TypeFacts DEF HasLock
      <3>2. Fresh(call[u]) => call[u].empty # s
        BY <2>3, <3>1 DEF OwnOK, OwnIn
      <3>3. call[u].pc = "truncate" => call[u].s # s
        BY <2>1, NotDying
      <3> QED BY <2>7, <2>8, <3>1, <3>2, <3>3 DEF OwnOK, OwnIn
    <2>11. RootOK'
      <3>1. j.id = Root => super.imount # 0 /\ inode_table[super.imount].mount
        BY <2>1, <2>2, NotDying
      <3>2. j.mount \/ MountRef(s) = 0
        BY <2>2 DEF MountRef, One
      <3> QED BY <1>1, <1>3, <2>1, <3>1, <3>2, SameRoot
    <2>12. ContentOK'
      <3>1. \A u \in Tasks : call[u].pc = "read_inode" => call'[u] = call[u]
        BY <1>1, <2>7 DEF k
      <3> QED BY <1>1, <1>3, <2>1, <2>2, <3>1, SameContent
    <2>13. One(super.imount = s /\ j.mount) = MountRef(s) /\ MountRef(s) \in Nat
      BY <2>2 DEF MountRef, One
    <2>14. j.count = inode_table[s].count + Refs(c, held[t], s) - Refs(call[t], held[t], s)
                     + One(super.imount = s /\ j.mount) - MountRef(s)
      <3>1. inode_table[s].count \in Nat
        BY <1>3 DEF Records
      <3> QED BY <2>2, <2>5, <2>13, <3>1, RefsType DEF k
    <2>15. imap' \subseteq Inodes /\ disk' \in [Inodes -> Int] /\ truth' \in [Inodes -> Int]
      BY <1>1 DEF Accounts, StateOK
    <2>16. /\ c.pc # "read_super" /\ (c.ret = "umount" => call[t].ret = "umount") /\ ~HasLock(c)
           /\ \A x \in Slots \ {s} : Refs(c, held[t], x) = Refs(call[t], held[t], x)
      BY <2>5 DEF k, HasLock
    <2> QED BY <1>1, <1>2, <1>3, <2>1, <2>2, <2>5, <2>6, <2>9, <2>10, <2>11, <2>12, <2>14, <2>15, <2>16, SlotStep
  <1> QED BY <1>4, <1>5

LEMMA ReadInodeKeeps ==
  ASSUME IInv, Accounts, ~raced, NEW t \in Tasks, ReadInode(t)
  PROVE  Accounts'
  <1> DEFINE k == call[t]
             s == k.s
             i == inode_table[s]
             j == [i EXCEPT !.nlinks = disk[i.id], !.lock = FALSE]
  <1>1. /\ UNCHANGED <<imap, disk, super, truth, raced>> /\ k.pc = "read_inode"
        /\ call' = [call EXCEPT ![t] = Idle] /\ Set(s, j) /\ held' = [held EXCEPT ![t] = s]
    BY DEF ReadInode, Runs, Goto, Inode
  <1>2. /\ IsCall(k) /\ Settled(k, held[t]) /\ k \in CallStates /\ OwnOK(k)
        /\ \A u \in Tasks \ {t} : call'[u] = call[u]
    BY <1>1, TypeFacts
  <1>3. s \in Slots /\ s \in SlotOrNone /\ i \in Records /\ OwnSlot(k, s)
    BY <1>1, <1>2, TypeFacts, SlotsAre DEF IsCall, OwnSlot
  <1>4. k.empty = s /\ i.count = 1 /\ i.id = k.want /\ ~i.dirt /\ i.id \in Inodes
    BY <1>1, <1>2 DEF OwnOK, OwnIn, Settled
  <1>5. /\ j \in Records /\ j.count = 1 /\ j.mount = i.mount /\ j.id = i.id /\ ~j.lock
        /\ ~j.dirt /\ j.nlinks = disk[i.id]
    BY <1>3, <1>4 DEF Records, Accounts, StateOK
  <1>6. \A u \in Tasks \ {t} : HasLock(call[u]) => call[u].s # s
    BY <1>1 DEF Accounts, LocksOK, HasLock
  <1>7. Refs(k, held[t], s) >= 1
    BY <1>2, <1>3, OwnIsOne
  <1>8. Settled(Idle, s) /\ ~Fresh(Idle) /\ Idle.pc = "idle" /\ Idle.ret = "idle"
    BY DEF Settled, Fresh, Having, Putting, InIput, InWrite, Idle
  <1>9. \A x \in Slots : Refs(Idle, s, x) = Refs(k, held[t], x)
    <2>1. held[t] = 0 /\ k.got = 0 /\ ~Gives(k) /\ ~Gives(Idle)
      BY <1>1, <1>2 DEF Settled, Having, Gives, Putting, InIput, InWrite, Idle
    <2>2. Idle.got = 0 /\ Idle.empty = 0
      BY DEF Idle
    <2> HIDE DEF k, s
    <2> QED BY <1>1, <1>4, <2>1, <2>2, SlotsAre DEF Refs, One
  <1> HIDE DEF j, s, k
  <1>10. OwnIn(inode_table', Idle)
    BY <1>8 DEF OwnIn
  <1>11. \A u \in Tasks \ {t} : OwnOK(call[u])'
    BY <1>1, <1>2, <1>3, <1>7, OthersOwn DEF k
  <1>12. RootOK'
    <2>1. j.id = Root /\ j.count > 0 => super.imount # 0 /\ inode_table[super.imount].mount
      BY <1>3, <1>4, <1>5 DEF Accounts, RootOK
    <2>2. j.mount \/ MountRef(s) = 0
      BY <1>5 DEF MountRef, One
    <2> QED BY <1>1, <1>3, <2>1, <2>2, SameRoot
  <1>13. ContentOK'
    <2>1. disk[i.id] = truth[i.id]
      <3>1. i.id \in imap /\ NULL \notin Inodes
        BY <1>3, <1>4, InodeTableAssumption DEF IInv, InMemoryIsAllocated, Inodes
      <3>2. \A x \in Slots : inode_table[x].id = i.id => ~inode_table[x].dirt
        BY <1>3, <1>4, <3>1 DEF IInv, OneInodeInMemory
      <3> QED BY <3>1, <3>2 DEF Accounts, ContentOK
    <2>2. j.nlinks = truth[j.id]
      BY <1>5, <2>1
    <2>3. \A u \in Tasks : call[u].pc = "read_inode" /\ call[u].s # s => call'[u] = call[u]
      BY <1>2 DEF s, k
    <2> QED BY <1>1, <1>3, <1>4, <2>2, <2>3, OtherContent
  <1>14. One(super.imount = s /\ j.mount) = MountRef(s) /\ MountRef(s) \in Nat
    BY <1>5 DEF MountRef, One
  <1>15. j.count = inode_table[s].count + Refs(Idle, s, s) - Refs(call[t], held[t], s)
                   + One(super.imount = s /\ j.mount) - MountRef(s)
    BY <1>3, <1>4, <1>5, <1>9, <1>14, RefsType DEF k
  <1>16. imap' \subseteq Inodes /\ disk' \in [Inodes -> Int] /\ truth' \in [Inodes -> Int]
    BY <1>1 DEF Accounts, StateOK
  <1>17. /\ Idle.pc # "read_super" /\ (Idle.ret = "umount" => call[t].ret = "umount") /\ ~HasLock(Idle)
         /\ \A x \in Slots \ {s} : Refs(Idle, s, x) = Refs(call[t], held[t], x)
    BY <1>8, <1>9 DEF k, HasLock
  <1>18. j.mount => inode_table[s].mount
    BY <1>5
  <1> QED BY <1>1, <1>3, <1>5, <1>6, <1>8, <1>10, <1>11, <1>12, <1>13, <1>15, <1>16, <1>17, <1>18, SlotStep

-----------------------------------------------------------------------------
(* iput gives back a reference of its own, or the empty inode. *)
After(k) == IF k.ret = "idle" THEN Idle ELSE [k EXCEPT !.pc = k.ret]

LEMMA AfterRefs ==
  ASSUME NEW k, NEW h \in SlotOrNone, IsCall(k), Settled(k, h), k.pc \in InIput
  PROVE  /\ After(k).pc \in {"idle", "got", "cross", "umount"} /\ ~Gives(After(k))
         /\ After(k).pc = "idle" => After(k) = Idle
         /\ After(k).ret = k.ret /\ Settled(After(k), h)
         /\ Fresh(After(k)) => Fresh(k) /\ After(k).empty = k.empty /\ k.empty \in Slots /\ Gives(k)
         /\ \A x \in Slots \ {k.s} : Refs(After(k), h, x) = Refs(k, h, x)
         /\ Refs(k, h, k.s) = Refs(After(k), h, k.s) + 1
  <1>1. k.ret \in {"idle", "got", "cross", "umount"} /\ k \in CallStates /\ k.s \in Slots
    BY DEF IsCall
  <1>2. CASE k.ret = "idle"
    <2>1. After(k) = Idle
      BY <1>2 DEF After
    <2>2. /\ Gives(k) /\ ~Gives(Idle) /\ Idle.got = 0 /\ Idle.empty = 0
          /\ Idle.pc = "idle" /\ Idle.ret = "idle"
      BY <1>2 DEF Gives, Putting, InIput, InWrite, Idle
    <2>3. k.got = 0 /\ k.empty = 0
      BY <1>2 DEF Settled, Fresh, Having, Putting, InIput, InWrite
    <2>4. Settled(Idle, h) /\ ~Fresh(Idle)
      BY DEF Settled, Fresh, Having, Putting, InIput, InWrite, Idle
    <2>5. \A x \in Slots \ {k.s} : Refs(Idle, h, x) = Refs(k, h, x)
      BY <2>2, <2>3, SlotsAre DEF Refs, One
    <2>6. Refs(k, h, k.s) = Refs(Idle, h, k.s) + 1
      BY <1>1, <2>2, <2>3, SlotsAre DEF Refs, One
    <2> QED BY <1>2, <2>1, <2>2, <2>4, <2>5, <2>6
  <1>3. CASE k.ret # "idle"
    <2> DEFINE c == After(k)
    <2>1. /\ c.pc = k.ret /\ c.ret = k.ret /\ c.s = k.s /\ c.empty = k.empty /\ c.got = k.got
          /\ c.want = k.want /\ c.back = k.back
      BY <1>1, <1>3 DEF After, CallStates
    <2> HIDE DEF c
    <2>2. /\ ~Gives(c) /\ (Gives(k) <=> k.ret # "got")
      BY <1>1, <1>3, <2>1 DEF Gives, Putting, InIput, InWrite
    <2>3. Settled(c, h)
      BY <1>1, <1>3, <2>1 DEF Settled, Fresh, Having, Putting, InIput, InWrite
    <2>4. Fresh(c) => Fresh(k) /\ k.empty \in Slots /\ Gives(k)
      BY <1>1, <1>3, <2>1, <2>2 DEF Settled, Fresh, Having, Putting, InIput, InWrite
    <2>5. k.ret = "got" => k.empty = k.s
      BY DEF Settled, Putting
    <2>6. k.pc # "got"
      BY DEF InIput
    <2>7. \A x \in Slots \ {k.s} : Refs(c, h, x) = Refs(k, h, x)
      BY <1>1, <2>1, <2>2, <2>5, <2>6 DEF Refs, One
    <2>8. Refs(k, h, k.s) = Refs(c, h, k.s) + 1
      BY <1>1, <2>1, <2>2, <2>5, <2>6 DEF Refs, One
    <2> QED BY <1>1, <1>3, <2>1, <2>2, <2>3, <2>4, <2>7, <2>8 DEF c
  <1> QED BY <1>2, <1>3

(* The task has a reference to what it gives back, and its empty inode, if it
   goes on with it, is another one. *)
LEMMA AfterFacts ==
  ASSUME IInv, Accounts, NEW t \in Tasks, call[t].pc \in InIput
  PROVE  /\ call[t].s \in Slots /\ inode_table[call[t].s].count \in Nat
         /\ inode_table[call[t].s].count >= 1
         /\ inode_table[call[t].s].count = 1 => MountRef(call[t].s) = 0
         /\ Refs(call[t], held[t], call[t].s) >= 1
         /\ Fresh(After(call[t])) => call[t].empty # call[t].s
  <1> DEFINE k == call[t]
             s == k.s
  <1>1. /\ IsCall(k) /\ Settled(k, held[t]) /\ OwnOK(k) /\ held[t] \in SlotOrNone
    BY TypeFacts
  <1>2. s \in Slots
    BY <1>1 DEF IsCall
  <1>3. inode_table[s].count = Users(s) /\ Users(s) \in Nat /\ Users(s) >= Refs(k, held[t], s) + MountRef(s)
    BY <1>2, UsersAtLeast DEF Accounts, CountsOK
  <1>4. Refs(k, held[t], s) >= 1
    <2>1. k.pc \in InIput
      OBVIOUS
    <2> HIDE DEF k
    <2>2. Refs(k, held[t], s) = Refs(After(k), held[t], s) + 1
      BY <1>1, <2>1, AfterRefs
    <2> QED BY <2>2, RefsType
  <1>5. Fresh(After(k)) => k.empty # s
    <2> SUFFICES ASSUME Fresh(After(k)), k.empty = s PROVE FALSE
      OBVIOUS
    <2>1. Fresh(k) /\ Gives(k)
      BY <1>1, AfterRefs
    <2>2. inode_table[s].count = 1
      BY <1>1, <2>1 DEF OwnOK, OwnIn, Zero
    <2>3. Refs(k, held[t], s) >= 2
      <3>1. k.pc # "got"
        BY DEF InIput
      <3> HIDE DEF k
      <3>2. One(k.empty = s /\ k.pc # "got") = 1 /\ One(k.s = s /\ Gives(k)) = 1
        BY <2>1, <3>1 DEF One, s
      <3>3. One(held[t] = s) \in Nat /\ One(k.got = s) \in Nat
        BY DEF One
      <3> QED BY <3>2, <3>3 DEF Refs
    <2> QED BY <1>3, <2>2, <2>3, RefsType
  <1> QED BY <1>2, <1>3, <1>4, <1>5, RefsType

LEMMA PutInodeKeeps ==
  ASSUME IInv, Accounts, NEW t \in Tasks, PutInode(t)
  PROVE  Accounts'
  <1> DEFINE k == call[t]
             s == k.s
             i == inode_table[s]
  <1>1. /\ UNCHANGED <<imap, disk, super, held, truth, raced>> /\ k.pc = "iput" /\ ~i.lock
    BY DEF PutInode, Unlocked, Runs, Inode
  <1>2. /\ IsCall(k) /\ Settled(k, held[t]) /\ k \in CallStates /\ OwnOK(k) /\ held[t] \in SlotOrNone
        /\ held' = [held EXCEPT ![t] = held[t]] /\ ~HasLock(k)
    BY <1>1, TypeFacts DEF HasLock
  <1>3. /\ s \in Slots /\ i \in Records /\ i.count \in Nat /\ i.count >= 1 /\ k.pc \in InIput
    BY <1>1, AfterFacts, TypeFacts DEF InIput
  <1>4. CASE ~(i.count > 1) /\ Sleep(t, [k EXCEPT !.pc = "truncate"]) /\ UNCHANGED inode_table
    <2> DEFINE c == [k EXCEPT !.pc = "truncate"]
    <2>1. Quiet(k, held[t], c, held[t]) /\ c.s = s /\ call' = [call EXCEPT ![t] = c]
      BY <1>1, <1>2, <1>4, QuietMoves DEF CallStates, Sleep
    <2>2. i.count = 1
      BY <1>3, <1>4 DEF Records
    <2> HIDE DEF c
    <2> QED BY <1>1, <1>2, <1>4, <2>1, <2>2, QuietStep
  <1>5. CASE Goto(t, WriteInode(k, "iput")) /\ UNCHANGED inode_table
    <2> DEFINE c == WriteInode(k, "iput")
    <2>1. Quiet(k, held[t], c, held[t]) /\ c.pc # "truncate" /\ call' = [call EXCEPT ![t] = c]
      BY <1>1, <1>2, <1>5, QuietMoves, Zenon DEF CallStates, WriteInode, Goto
    <2> HIDE DEF c
    <2> QED BY <1>1, <1>2, <1>5, <2>1, QuietStep, Zenon
  <1>6. CASE Release(t)
    <2> DEFINE c == After(k)
               j == [i EXCEPT !.count = @ - 1]
    <2>1. call' = [call EXCEPT ![t] = c] /\ Set(s, j)
      BY <1>6 DEF Release, Goto, Inode, After
    <2>2. /\ j \in Records /\ j.count = i.count - 1 /\ j.mount = i.mount /\ j.id = i.id
          /\ j.dirt = i.dirt /\ j.nlinks = i.nlinks
      BY <1>3 DEF Records
    <2>3. /\ c.pc \in {"idle", "got", "cross", "umount"} /\ c.ret = k.ret /\ Settled(c, held[t])
          /\ Fresh(c) => Fresh(k) /\ c.empty = k.empty /\ k.empty \in Slots
          /\ \A x \in Slots \ {s} : Refs(c, held[t], x) = Refs(k, held[t], x)
          /\ Refs(k, held[t], s) = Refs(c, held[t], s) + 1
      BY <1>2, <1>3, AfterRefs, SMTT(60)
    <2>4. Fresh(c) => k.empty # s
      BY <1>3, AfterFacts
    <2>5. Refs(k, held[t], s) >= 1
      BY <1>3, AfterFacts
    <2>6. \A u \in Tasks : HasLock(call[u]) => call[u].s # s
      BY <1>1, NotLocked
    <2>7. \A u \in Tasks \ {t} : call'[u] = call[u]
      BY <2>1, TypeFacts
    <2> HIDE DEF c, j, s, k
    <2>8. \A x \in Slots \ {s} : inode_table'[x] = inode_table[x]
      BY <1>3, <2>1, TableChanges
    <2>9. OwnIn(inode_table', c)
      BY <1>2, <2>3, <2>4, <2>8 DEF OwnOK, OwnIn
    <2>10. \A u \in Tasks \ {t} : OwnOK(call[u])'
      BY <1>3, <2>1, <2>5, <2>7, OthersOwn DEF k
    <2>11. RootOK'
      <3>1. inode_table[s].count > 0
        <4>1. inode_table[s].count \in Nat /\ inode_table[s].count >= 1
          BY <1>3
        <4> QED BY <4>1
      <3>2. j.id = Root => super.imount # 0 /\ inode_table[super.imount].mount
        BY <1>3, <2>2, <3>1 DEF Accounts, RootOK
      <3>3. j.mount \/ MountRef(s) = 0
        BY <2>2 DEF MountRef, One
      <3> QED BY <1>1, <1>3, <2>1, <3>2, <3>3, SameRoot
    <2>12. ContentOK'
      <3>1. \A u \in Tasks : call[u].pc = "read_inode" => call'[u] = call[u]
        BY <1>1, <2>7 DEF k
      <3> QED BY <1>1, <1>3, <2>1, <2>2, <3>1, SameContent
    <2>13. One(super.imount = s /\ j.mount) = MountRef(s) /\ MountRef(s) \in Nat
      BY <2>2 DEF MountRef, One
    <2>14. j.count = inode_table[s].count + Refs(c, held[t], s) - Refs(call[t], held[t], s)
                     + One(super.imount = s /\ j.mount) - MountRef(s)
      <3>1. inode_table[s].count \in Nat
        BY <1>3 DEF Records
      <3> QED BY <2>2, <2>3, <2>13, <3>1, RefsType DEF k
    <2>15. imap' \subseteq Inodes /\ disk' \in [Inodes -> Int] /\ truth' \in [Inodes -> Int]
      BY <1>1 DEF Accounts, StateOK
    <2>16. /\ c.pc # "read_super" /\ (c.ret = "umount" => call[t].ret = "umount") /\ ~HasLock(c)
           /\ \A x \in Slots \ {s} : Refs(c, held[t], x) = Refs(call[t], held[t], x)
      BY <2>3 DEF k, HasLock
    <2> QED BY <1>1, <1>2, <1>3, <2>1, <2>2, <2>3, <2>6, <2>9, <2>10, <2>11, <2>12, <2>14, <2>15, <2>16, SlotStep
  <1> QED BY <1>4, <1>5, <1>6 DEF PutInode, Inode

LEMMA TruncatedKeeps ==
  ASSUME IInv, Accounts, ~raced', NEW t \in Tasks, Truncated(t)
  PROVE  Accounts'
  <1> DEFINE k == call[t]
             s == k.s
             i == inode_table[s]
             c == After(k)
  <1>1. /\ UNCHANGED <<disk, super, held, truth>> /\ k.pc = "truncate" /\ ~i.lock
        /\ imap' = imap \ {i.id} /\ call' = [call EXCEPT ![t] = c] /\ Set(s, Zero)
    BY DEF Truncated, Runs, Inode, Goto, After
  <1>2. /\ IsCall(k) /\ Settled(k, held[t]) /\ OwnOK(k) /\ held[t] \in SlotOrNone
        /\ held' = [held EXCEPT ![t] = held[t]] /\ \A u \in Tasks \ {t} : call'[u] = call[u]
    BY <1>1, TypeFacts
  <1>3. /\ k.pc \in InIput
    BY <1>1 DEF InIput
  <1>4. /\ s \in Slots /\ i.count = 1 /\ MountRef(s) = 0 /\ Refs(k, held[t], s) >= 1
        /\ Fresh(c) => k.empty # s
    <2>1. i.count = 1
      BY <1>1, <1>2, SMTT(60) DEF OwnOK, OwnIn
    <2> QED BY <1>3, <2>1, AfterFacts
  <1>5. Zero \in Records /\ Zero.count = 0 /\ ~Zero.mount /\ ~Zero.lock /\ Zero.id = NULL
    BY ClearedSlots DEF Zero
  <1>6. /\ c.pc \in {"idle", "got", "cross", "umount"} /\ c.ret = k.ret /\ Settled(c, held[t])
        /\ Fresh(c) => Fresh(k) /\ c.empty = k.empty /\ k.empty \in Slots
        /\ \A x \in Slots \ {s} : Refs(c, held[t], x) = Refs(k, held[t], x)
        /\ Refs(k, held[t], s) = Refs(c, held[t], s) + 1
    BY <1>2, <1>3, AfterRefs
  <1>7. \A u \in Tasks : HasLock(call[u]) => call[u].s # s
    BY <1>1, NotLocked
  <1> HIDE DEF c, s, k
  <1>8. inode_table'[s] = Zero /\ \A x \in Slots \ {s} : inode_table'[x] = inode_table[x]
    BY <1>1, <1>4, TableChanges
  <1>9. OwnIn(inode_table', c)
    BY <1>2, <1>4, <1>6, <1>8 DEF OwnOK, OwnIn
  <1>10. \A u \in Tasks \ {t} : OwnOK(call[u])'
    BY <1>1, <1>2, <1>4, OthersOwn DEF k
  <1>11. RootOK'
    BY <1>1, <1>4, <1>5, SameRoot
  <1>12. ContentOK'
    <2>1. ASSUME NEW x \in Slots, inode_table'[x].id # NULL,
                 inode_table'[x].nlinks # truth'[inode_table'[x].id]
          PROVE  \E u \in Tasks : call'[u].pc = "read_inode" /\ call'[u].s = x
      <3>1. x # s
        BY <1>5, <1>8, <2>1
      <3>2. PICK u \in Tasks : call[u].pc = "read_inode" /\ call[u].s = x
        BY <1>1, <1>8, <2>1, <3>1 DEF Accounts, ContentOK
      <3>3. u # t
        BY <1>1, <3>2 DEF k
      <3> QED BY <1>2, <3>2, <3>3
    <2>2. ASSUME NEW e \in imap', disk'[e] # truth'[e]
          PROVE  \E x \in Slots : inode_table'[x].id = e /\ inode_table'[x].dirt
      <3>1. PICK x \in Slots : inode_table[x].id = e /\ inode_table[x].dirt
        BY <1>1, <2>2 DEF Accounts, ContentOK
      <3>2. x # s
        BY <1>1, <2>2, <3>1
      <3> QED BY <1>8, <3>1, <3>2
    <2> QED BY <2>1, <2>2 DEF ContentOK
  <1>13. One(super.imount = s /\ Zero.mount) = 0
    BY <1>5 DEF One
  <1>14. Zero.count = inode_table[s].count + Refs(c, held[t], s) - Refs(call[t], held[t], s)
                      + One(super.imount = s /\ Zero.mount) - MountRef(s)
    BY <1>4, <1>5, <1>6, <1>13, RefsType DEF k
  <1>15. imap' \subseteq Inodes /\ disk' \in [Inodes -> Int] /\ truth' \in [Inodes -> Int]
    BY <1>1 DEF Accounts, StateOK
  <1>16. /\ c.pc # "read_super" /\ (c.ret = "umount" => call[t].ret = "umount") /\ ~HasLock(c)
         /\ \A x \in Slots \ {s} : Refs(c, held[t], x) = Refs(call[t], held[t], x)
    BY <1>6 DEF k, HasLock
  <1> QED BY <1>1, <1>2, <1>4, <1>5, <1>6, <1>7, <1>9, <1>10, <1>11, <1>12, <1>14, <1>15, <1>16, SlotStep

-----------------------------------------------------------------------------
LEMMA NewInodeKeeps ==
  ASSUME IInv, Accounts, ~raced, NEW t \in Tasks, NewInode(t)
  PROVE  Accounts'
  <1> DEFINE k == call[t]
             s == k.empty
             i == inode_table[s]
  <1>1. UNCHANGED <<disk, super, raced>> /\ k.pc = "new_inode"
    BY DEF NewInode, Runs
  <1>2. /\ IsCall(k) /\ Settled(k, held[t]) /\ k \in CallStates /\ OwnOK(k) /\ held[t] \in SlotOrNone
        /\ ~HasLock(k) /\ (held' = held => held' = [held EXCEPT ![t] = held[t]])
    BY <1>1, TypeFacts DEF HasLock
  <1>3. s \in Slots /\ s \in SlotOrNone /\ Fresh(k) /\ OwnSlot(k, s)
    BY <1>1, <1>2, SlotsAre DEF IsCall, Having, Fresh, OwnSlot
  <1>4. CASE Files \subseteq imap
    <2> DEFINE c == Iput(Idle, s, "idle")
    <2>1. UNCHANGED <<inode_table, imap, held, truth>> /\ call' = [call EXCEPT ![t] = c]
      BY <1>4 DEF NewInode, Goto
    <2>2. Quiet(k, held[t], c, held[t]) /\ c.pc # "truncate"
      BY <1>1, <1>2, QuietStarts DEF Iput, Idle
    <2> HIDE DEF c
    <2> QED BY <1>1, <1>2, <2>1, <2>2, QuietStep
  <1>5. CASE ~(Files \subseteq imap)
    <2>1. PICK f \in Files \ imap :
            /\ imap' = imap \cup {f}
            /\ Set(s, [Zero EXCEPT !.id = f, !.count = 1, !.nlinks = 1, !.dirt = TRUE])
            /\ truth' = [truth EXCEPT ![f] = 1]
            /\ held' = [held EXCEPT ![t] = s]
            /\ call' = [call EXCEPT ![t] = Idle]
      BY <1>5 DEF NewInode, Goto
    <2> DEFINE j == [Zero EXCEPT !.id = f, !.count = 1, !.nlinks = 1, !.dirt = TRUE]
    <2>2. f \in Inodes /\ f # Root /\ f \notin imap
      BY <2>1, InodeTableAssumption DEF Inodes
    <2>3. i.count = 1 /\ ~i.dirt /\ ~i.lock /\ ~i.mount
      BY <1>2, <1>3, SMTT(60) DEF OwnOK, OwnIn, Zero
    <2>4. j \in Records /\ j.count = 1 /\ ~j.mount /\ ~j.lock /\ j.id = f /\ j.dirt /\ j.nlinks = 1
      BY <2>2, ClearedSlots DEF Zero
    <2>5. MountRef(s) = 0 /\ Refs(k, held[t], s) >= 1
      BY <1>2, <1>3, <2>3, OwnIsOne DEF MountRef, One
    <2>6. Settled(Idle, s) /\ ~Fresh(Idle) /\ Idle.pc = "idle" /\ Idle.ret = "idle"
      BY DEF Settled, Fresh, Having, Putting, InIput, InWrite, Idle
    <2>7. \A x \in Slots : Refs(Idle, s, x) = Refs(k, held[t], x)
      <3>1. held[t] = 0 /\ k.got = 0 /\ ~Gives(k) /\ ~Gives(Idle)
        BY <1>1, <1>2 DEF Settled, Having, Gives, Putting, InIput, InWrite, Idle
      <3>2. Idle.got = 0 /\ Idle.empty = 0
        BY DEF Idle
      <3>3. k.empty = s
        OBVIOUS
      <3> HIDE DEF k, s
      <3> QED BY <1>1, <3>1, <3>2, <3>3, SlotsAre DEF Refs, One
    <2>8. \A u \in Tasks : HasLock(call[u]) => call[u].s # s
      BY <2>3, NotLocked
    <2>9. \A u \in Tasks \ {t} : call'[u] = call[u]
      BY <2>1, TypeFacts
    <2> HIDE DEF j, s, k
    <2>10. inode_table'[s] = j /\ Set(s, j) /\ \A x \in Slots \ {s} : inode_table'[x] = inode_table[x]
      BY <1>3, <2>1, TableChanges DEF j
    <2>11. OwnIn(inode_table', Idle)
      BY <2>6 DEF OwnIn
    <2>12. \A u \in Tasks \ {t} : OwnOK(call[u])'
      BY <1>3, <2>5, <2>9, <2>10, OthersOwn DEF k
    <2>13. RootOK'
      BY <1>1, <1>3, <2>2, <2>4, <2>5, <2>10, SameRoot
    <2>14. imap' \subseteq Inodes /\ disk' \in [Inodes -> Int] /\ truth' \in [Inodes -> Int]
      BY <1>1, <2>1, <2>2 DEF Accounts, StateOK
    <2>15. truth'[f] = 1 /\ \A e \in Inodes : e # f => truth'[e] = truth[e]
      BY <2>1, <2>2 DEF Accounts, StateOK
    <2>16. ContentOK'
      <3>1. ASSUME NEW x \in Slots, inode_table'[x].id # NULL,
                   inode_table'[x].nlinks # truth'[inode_table'[x].id]
            PROVE  \E u \in Tasks : call'[u].pc = "read_inode" /\ call'[u].s = x
        <4>1. x # s
          BY <2>4, <2>10, <2>15, <3>1
        <4>2. inode_table[x].id \in imap
          BY <1>1, <2>10, <3>1, <4>1 DEF IInv, InMemoryIsAllocated
        <4>3. truth'[inode_table[x].id] = truth[inode_table[x].id]
          BY <2>2, <2>15, <4>2 DEF Accounts, StateOK
        <4>4. PICK u \in Tasks : call[u].pc = "read_inode" /\ call[u].s = x
          BY <2>10, <3>1, <4>1, <4>3 DEF Accounts, ContentOK
        <4>5. u # t
          BY <1>1, <4>4 DEF k
        <4> QED BY <2>9, <4>4, <4>5
      <3>2. ASSUME NEW e \in imap', disk'[e] # truth'[e]
            PROVE  \E x \in Slots : inode_table'[x].id = e /\ inode_table'[x].dirt
        <4>1. CASE e = f
          BY <1>3, <2>4, <2>10, <4>1
        <4>2. CASE e # f
          <5>1. e \in imap /\ disk[e] # truth[e]
            BY <1>1, <2>1, <2>15, <3>2, <4>2 DEF Accounts, StateOK
          <5>2. PICK x \in Slots : inode_table[x].id = e /\ inode_table[x].dirt
            BY <5>1 DEF Accounts, ContentOK
          <5> QED BY <2>3, <2>10, <5>2
        <4> QED BY <4>1, <4>2
      <3> QED BY <3>1, <3>2 DEF ContentOK
    <2>17. One(super.imount = s /\ j.mount) = 0
      BY <2>4 DEF One
    <2>18. j.count = inode_table[s].count + Refs(Idle, s, s) - Refs(call[t], held[t], s)
                     + One(super.imount = s /\ j.mount) - MountRef(s)
      BY <1>3, <2>3, <2>4, <2>5, <2>7, <2>17, RefsType DEF k
    <2>19. /\ Idle.pc # "read_super" /\ (Idle.ret = "umount" => call[t].ret = "umount") /\ ~HasLock(Idle)
           /\ \A x \in Slots \ {s} : Refs(Idle, s, x) = Refs(call[t], held[t], x)
      BY <2>6, <2>7 DEF k, HasLock
    <2>20. j.mount => inode_table[s].mount
      BY <2>4
    <2> QED BY <1>1, <1>3, <2>1, <2>4, <2>6, <2>8, <2>10, <2>11, <2>12, <2>13, <2>14, <2>16, <2>18, <2>19, <2>20, SlotStep
  <1> QED BY <1>4, <1>5

LEMMA LinksKeeps ==
  ASSUME IInv, Accounts, ~raced, NEW t \in Tasks, NEW n \in {-1, 1}, Links(t, n)
  PROVE  Accounts'
  <1> DEFINE s == held[t]
             i == inode_table[s]
             j == [i EXCEPT !.nlinks = @ + n, !.dirt = TRUE]
  <1>1. /\ UNCHANGED <<imap, disk, super, call, held, raced>> /\ call[t].pc = "idle" /\ s # 0
        /\ i.id \in Files /\ Set(s, j) /\ truth' = [truth EXCEPT ![i.id] = @ + n]
    BY DEF Links, Runs, kernel
  <1>2. /\ Settled(call[t], s) /\ s \in SlotOrNone /\ call[t] = Idle
        /\ held' = [held EXCEPT ![t] = s] /\ call' = [call EXCEPT ![t] = Idle]
    <2>1. call[t] = Idle
      BY <1>1, TypeFacts DEF Settled
    <2>2. Settled(call[t], s) /\ s \in SlotOrNone /\ held' = [held EXCEPT ![t] = s]
      BY <1>1, TypeFacts
    <2>3. call' = [call EXCEPT ![t] = call[t]]
      BY <1>1 DEF Accounts, StateOK
    <2> QED BY <2>1, <2>2, <2>3
  <1>3. s \in Slots /\ i \in Records /\ i.id \in Inodes /\ i.id # NULL
    BY <1>1, HeldIsSlot, TypeFacts, InodeTableAssumption DEF IInv, TableTypeOK, Inodes
  <1>4. /\ j \in Records /\ j.count = i.count /\ j.mount = i.mount /\ j.lock = i.lock /\ j.id = i.id
        /\ j.dirt /\ j.nlinks = i.nlinks + n
    <2>1. i.nlinks \in Int /\ n \in Int /\ i.nlinks + n \in Int
      BY <1>3 DEF Records
    <2> QED BY <1>3, <2>1 DEF Records
  <1>5. Refs(Idle, s, s) >= 1
    BY <1>2, TypeFacts DEF Refs, One
  <1>6. i.lock \/ \A u \in Tasks : HasLock(call[u]) => call[u].s # s
    BY NotLocked
  <1>7. Idle.pc = "idle" /\ Idle.ret = "idle" /\ ~Fresh(Idle) /\ ~HasLock(Idle)
    BY DEF Idle, Fresh, Having, Putting, InIput, InWrite, HasLock
  <1>8. i.nlinks = truth[i.id]
    <2>1. ASSUME NEW u \in Tasks, call[u].pc = "read_inode", call[u].s = s PROVE FALSE
      <3>1. u # t /\ OwnSlot(call[u], s)
        BY <1>1, <2>1 DEF OwnSlot
      <3>2. Refs(call[t], held[t], s) = 0
        BY <1>3, <3>1, OwnIsAlone
      <3> QED BY <1>2, <1>5, <3>2
    <2> QED BY <1>3, <2>1 DEF Accounts, ContentOK
  <1>9. \A u \in Tasks : Refs(call[u], held[u], s) \in Nat
    BY RefsType
  <1> HIDE DEF j, s
  <1>10. inode_table'[s] = j /\ \A x \in Slots \ {s} : inode_table'[x] = inode_table[x]
    BY <1>1, <1>3, TableChanges
  <1>11. OwnIn(inode_table', Idle)
    BY <1>7 DEF OwnIn
  <1>12. \A u \in Tasks \ {t} : OwnOK(call[u])'
    BY <1>1, <1>2, <1>3, <1>5, OthersOwn DEF s
  <1>13. RootOK'
    <2>1. j.id = Root /\ j.count > 0 => super.imount # 0 /\ inode_table[super.imount].mount
      BY <1>3, <1>4 DEF Accounts, RootOK
    <2>2. j.mount \/ MountRef(s) = 0
      BY <1>4 DEF MountRef, One
    <2> QED BY <1>1, <1>3, <2>1, <2>2, SameRoot
  <1>14. /\ truth' \in [Inodes -> Int] /\ truth'[i.id] = truth[i.id] + n
         /\ \A e \in Inodes : e # i.id => truth'[e] = truth[e]
    BY <1>1, <1>3 DEF Accounts, StateOK
  <1>15. ContentOK'
    <2>1. ASSUME NEW x \in Slots, inode_table'[x].id # NULL,
                 inode_table'[x].nlinks # truth'[inode_table'[x].id]
          PROVE  \E u \in Tasks : call'[u].pc = "read_inode" /\ call'[u].s = x
      <3>1. x # s
        BY <1>4, <1>8, <1>10, <1>14, <2>1
      <3>2. inode_table[x].id # i.id /\ inode_table[x].id \in Inodes
        BY <1>1, <1>3, <1>10, <2>1, <3>1, TypeFacts DEF IInv, OneInodeInMemory, Records
      <3>3. PICK u \in Tasks : call[u].pc = "read_inode" /\ call[u].s = x
        BY <1>10, <1>14, <2>1, <3>1, <3>2 DEF Accounts, ContentOK
      <3> QED BY <1>1, <3>3
    <2>2. ASSUME NEW e \in imap', disk'[e] # truth'[e]
          PROVE  \E x \in Slots : inode_table'[x].id = e /\ inode_table'[x].dirt
      <3>1. CASE e = i.id
        BY <1>3, <1>4, <1>10, <3>1
      <3>2. CASE e # i.id
        <4>1. disk[e] # truth[e] /\ e \in imap
          BY <1>1, <1>14, <2>2, <3>2 DEF Accounts, StateOK
        <4>2. PICK x \in Slots : inode_table[x].id = e /\ inode_table[x].dirt
          BY <4>1 DEF Accounts, ContentOK
        <4> QED BY <1>10, <3>2, <4>2
      <3> QED BY <3>1, <3>2
    <2> QED BY <2>1, <2>2 DEF ContentOK
  <1>16. One(super.imount = s /\ j.mount) = MountRef(s) /\ MountRef(s) \in Nat
    BY <1>4 DEF MountRef, One
  <1>17. j.count = inode_table[s].count + Refs(Idle, s, s) - Refs(call[t], held[t], s)
                   + One(super.imount = s /\ j.mount) - MountRef(s)
    <2>1. inode_table[s].count \in Nat
      BY <1>3 DEF Records
    <2> QED BY <1>2, <1>4, <1>16, <2>1, RefsType DEF s
  <1>18. \A x \in Slots \ {s} : Refs(Idle, s, x) = Refs(call[t], held[t], x)
    BY <1>2 DEF s
  <1>19. /\ imap' \subseteq Inodes /\ disk' \in [Inodes -> Int] /\ Settled(Idle, s)
         /\ Idle.pc # "read_super" /\ (Idle.ret = "umount" => call[t].ret = "umount")
         /\ (j.mount => inode_table[s].mount)
         /\ (j.lock \/ \A u \in Tasks \ {t} : HasLock(call[u]) => call[u].s # s)
    BY <1>1, <1>2, <1>4, <1>6, <1>7 DEF Accounts, StateOK
  <1> QED BY <1>1, <1>2, <1>3, <1>4, <1>7, <1>11, <1>12, <1>13, <1>14, <1>15, <1>17, <1>18, <1>19, SlotStep

-----------------------------------------------------------------------------
(* While the device is not mounted, and nobody is in mount or umount but the
   task itself, none of its inodes is in use. *)
NotMounted ==
  \A s \in Slots : /\ ~inode_table[s].mount
                   /\ ~(inode_table[s].id = Root /\ inode_table[s].count > 0)
OnlyMounts(t) == \A u \in Tasks \ {t} : call[u].pc # "read_super" /\ call[u].ret # "umount"

LEMMA MountsAlone ==
  ASSUME Accounts, NEW t \in Tasks,
         call[t].pc = "read_super" \/ call[t].ret = "umount" \/ ~super.dev
  PROVE  NotMounted /\ OnlyMounts(t)
  <1> USE DEF Accounts, MountOK, RootOK, StateOK
  <1>1. super.imount # 0 => super.imount \in Slots
    BY InodeTableAssumption DEF SlotOrNone, Slots
  <1>2. CASE call[t].pc = "read_super"
    BY <1>2, SlotsAre DEF NotMounted, OnlyMounts
  <1>3. CASE call[t].ret = "umount"
    BY <1>3, SlotsAre DEF NotMounted, OnlyMounts
  <1>4. CASE ~super.dev
    BY <1>1, <1>4 DEF NotMounted, OnlyMounts
  <1> QED BY <1>2, <1>3, <1>4

(* The super block is taken or given up. *)
LEMMA SuperStep ==
  ASSUME IInv, Accounts, NEW t \in Tasks, NEW c, NEW h \in SlotOrNone,
         call' = [call EXCEPT ![t] = c], held' = [held EXCEPT ![t] = h],
         UNCHANGED <<inode_table, imap, disk, truth>>,
         super' \in [dev : BOOLEAN, imount : SlotOrNone, lock : BOOLEAN],
         NotMounted, OnlyMounts(t), Settled(c, h), ~Fresh(c), c.pc # "truncate",
         ~HasLock(c), ~HasLock(call[t]), c.ret # "umount",
         c.pc = "read_super" => super'.dev /\ super'.imount = 0,
         \A s \in Slots : Refs(c, h, s) = Refs(call[t], held[t], s)
  PROVE  Accounts'
  <1>1. /\ call'[t] = c /\ held'[t] = h
        /\ \A u \in Tasks \ {t} : call'[u] = call[u] /\ held'[u] = held[u]
    BY DEF IInv, TableTypeOK
  <1>2. StateOK'
    <2>1. call' = [u \in Tasks |-> call'[u]]
      BY DEF Accounts, StateOK
    <2> QED BY <1>1, <2>1 DEF Accounts, StateOK
  <1>3. CountsOK'
    <2> SUFFICES ASSUME NEW s \in Slots PROVE inode_table'[s].count = Users(s)'
      BY DEF CountsOK
    <2>1. Users(s)' = Users(s) - Refs(call[t], held[t], s) + Refs(c, h, s) - MountRef(s) + MountRef(s)'
      BY <1>1, UsersChange
    <2>2. MountRef(s)' = 0 /\ MountRef(s) = 0
      BY DEF MountRef, One, NotMounted
    <2>3. inode_table[s].count = Users(s) /\ Users(s) \in Nat
      BY UsersAtLeast DEF Accounts, CountsOK
    <2> QED BY <2>1, <2>2, <2>3, RefsType
  <1>4. \A u \in Tasks : OwnOK(call[u])'
    BY <1>1 DEF Accounts, OwnOK, OwnIn, HasLock
  <1>5. LocksOK'
    BY <1>1 DEF Accounts, LocksOK, HasLock
  <1>6. MountOK'
    BY <1>1 DEF NotMounted, OnlyMounts, MountOK
  <1>7. RootOK'
    BY DEF NotMounted, RootOK
  <1>8. ContentOK'
    BY <1>1 DEF Accounts, ContentOK, HasLock
  <1> QED BY <1>2, <1>3, <1>4, <1>5, <1>6, <1>7, <1>8 DEF Accounts

(* What a task does in mount and umount keeps its references. *)
LEMMA MountMoves ==
  ASSUME NEW h \in SlotOrNone
  PROVE  /\ LET c == [Idle EXCEPT !.pc = "read_super"] IN
              /\ Settled(c, h) /\ ~Fresh(c) /\ c.pc = "read_super" /\ c.ret = "idle"
              /\ \A s \in Slots : Refs(c, h, s) = Refs(Idle, h, s)
         /\ h # 0 => LET c == Iput(Idle, h, "idle") IN
              /\ Settled(c, 0) /\ ~Fresh(c) /\ c.pc = "iput" /\ c.ret = "idle"
              /\ \A k : k.pc = "read_super" /\ Settled(k, h) =>
                          \A s \in Slots : Refs(c, 0, s) = Refs(k, h, s)
         /\ Settled(Idle, h) /\ ~Fresh(Idle) /\ Idle.pc = "idle" /\ Idle.ret = "idle"
         /\ \A k : k.pc = "umount" /\ Settled(k, h) =>
                     \A s \in Slots : Refs(Idle, h, s) = Refs(k, h, s)
  <1> USE DEF Settled, Fresh, Having, Putting, InIput, InWrite, Gives, Refs, One
  <1>1. LET c == [Idle EXCEPT !.pc = "read_super"] IN
          /\ Settled(c, h) /\ ~Fresh(c) /\ c.pc = "read_super" /\ c.ret = "idle"
          /\ \A s \in Slots : Refs(c, h, s) = Refs(Idle, h, s)
    BY DEF Idle
  <1>2. ASSUME h # 0
        PROVE  LET c == Iput(Idle, h, "idle") IN
                 Settled(c, 0) /\ ~Fresh(c) /\ c.pc = "iput" /\ c.ret = "idle"
    BY <1>2 DEF Idle, Iput
  <1>3. ASSUME h # 0, NEW k, k.pc = "read_super", Settled(k, h), NEW s \in Slots
        PROVE  Refs(Iput(Idle, h, "idle"), 0, s) = Refs(k, h, s)
    BY <1>3, SlotsAre DEF Idle, Iput
  <1>4. Settled(Idle, h) /\ ~Fresh(Idle) /\ Idle.pc = "idle" /\ Idle.ret = "idle"
    BY DEF Idle
  <1>5. ASSUME NEW k, k.pc = "umount", Settled(k, h), NEW s \in Slots
        PROVE  Refs(Idle, h, s) = Refs(k, h, s)
    BY <1>5, SlotsAre DEF Idle
  <1> QED BY <1>1, <1>2, <1>3, <1>4, <1>5

LEMMA MountKeeps ==
  ASSUME IInv, Accounts, NEW t \in Tasks,
         Mount(t) \/ (\E ok \in BOOLEAN : SuperRead(t, ok) /\ ~(ok /\ ~inode_table[held[t]].mount))
           \/ PutSuper(t)
  PROVE  Accounts'
  <1> DEFINE k == call[t]
             h == held[t]
  <1>1. /\ Settled(k, h) /\ h \in SlotOrNone /\ (held' = held => held' = [held EXCEPT ![t] = h])
    BY TypeFacts
  <1>2. CASE Mount(t)
    <2> DEFINE c == [Idle EXCEPT !.pc = "read_super"]
    <2>1. /\ UNCHANGED <<inode_table, imap, disk, held, truth>> /\ k.pc = "idle" /\ ~super.dev
          /\ super' = [dev |-> TRUE, imount |-> 0, lock |-> TRUE]
          /\ call' = [call EXCEPT ![t] = c]
      BY <1>2 DEF Mount, Runs, Sleep
    <2>2. k = Idle
      BY <1>1, <2>1 DEF Settled
    <2>3. /\ Settled(c, h) /\ ~Fresh(c) /\ c.pc = "read_super" /\ c.ret = "idle"
          /\ \A s \in Slots : Refs(c, h, s) = Refs(k, h, s)
      BY <1>1, <2>2, MountMoves
    <2>4. /\ super' \in [dev : BOOLEAN, imount : SlotOrNone, lock : BOOLEAN]
          /\ super'.dev /\ super'.imount = 0
      BY <2>1, SlotsAre
    <2>5. NotMounted /\ OnlyMounts(t)
      BY <2>1, MountsAlone
    <2>6. ~HasLock(c) /\ ~HasLock(call[t]) /\ c.pc # "truncate" /\ c.ret # "umount"
      BY <2>1, <2>3 DEF HasLock
    <2> HIDE DEF c
    <2> QED BY <1>1, <2>1, <2>3, <2>4, <2>5, <2>6, SuperStep
  <1>3. ASSUME NEW ok \in BOOLEAN, SuperRead(t, ok), ~(ok /\ ~inode_table[h].mount)
        PROVE  Accounts'
    <2> DEFINE c == Iput(Idle, h, "idle")
    <2>1. /\ UNCHANGED <<inode_table, imap, disk, truth>> /\ k.pc = "read_super"
          /\ super' = [dev |-> ok, imount |-> 0, lock |-> FALSE]
          /\ call' = [call EXCEPT ![t] = c] /\ held' = [held EXCEPT ![t] = 0]
      BY <1>3 DEF SuperRead, Runs, Goto
    <2>2. h # 0
      BY <2>1, SlotsAre DEF IInv, TableTypeOK
    <2>3. /\ Settled(c, 0) /\ ~Fresh(c) /\ c.pc = "iput" /\ c.ret = "idle"
          /\ \A s \in Slots : Refs(c, 0, s) = Refs(k, h, s)
      BY <1>1, <2>1, <2>2, MountMoves
    <2>4. super' \in [dev : BOOLEAN, imount : SlotOrNone, lock : BOOLEAN]
      BY <2>1, SlotsAre
    <2>5. NotMounted /\ OnlyMounts(t)
      BY <2>1, MountsAlone
    <2>6. /\ ~HasLock(c) /\ ~HasLock(call[t]) /\ c.pc # "truncate" /\ c.ret # "umount"
          /\ c.pc # "read_super" /\ 0 \in SlotOrNone
      BY <2>1, <2>3, SlotsAre DEF HasLock
    <2> HIDE DEF c
    <2> QED BY <1>1, <2>1, <2>3, <2>4, <2>5, <2>6, SuperStep
  <1>4. CASE PutSuper(t)
    <2>1. /\ UNCHANGED <<inode_table, imap, disk, held, truth>> /\ k.pc = "umount"
          /\ super' = [dev |-> FALSE, imount |-> 0, lock |-> FALSE]
          /\ call' = [call EXCEPT ![t] = Idle]
      BY <1>4 DEF PutSuper, Runs, Goto
    <2>2. k.ret = "umount"
      BY <1>1, <2>1 DEF Settled
    <2>3. /\ Settled(Idle, h) /\ ~Fresh(Idle) /\ Idle.pc = "idle" /\ Idle.ret = "idle"
          /\ \A s \in Slots : Refs(Idle, h, s) = Refs(k, h, s)
      BY <1>1, <2>1, MountMoves
    <2>4. super' \in [dev : BOOLEAN, imount : SlotOrNone, lock : BOOLEAN]
      BY <2>1, SlotsAre
    <2>5. NotMounted /\ OnlyMounts(t)
      BY <2>2, MountsAlone
    <2>6. /\ ~HasLock(Idle) /\ ~HasLock(call[t]) /\ Idle.pc # "truncate" /\ Idle.ret # "umount"
          /\ Idle.pc # "read_super"
      BY <2>1, <2>3 DEF HasLock
    <2> QED BY <1>1, <2>1, <2>3, <2>4, <2>5, <2>6, SuperStep
  <1> QED BY <1>2, <1>3, <1>4

(* The directory that is mounted on: the reference of the task becomes that
   of the device. *)
LEMMA MountedKeeps ==
  ASSUME IInv, Accounts, NEW t \in Tasks, SuperRead(t, TRUE), ~inode_table[held[t]].mount
  PROVE  Accounts'
  <1> DEFINE k == call[t]
             s == held[t]
             i == inode_table[s]
             j == [i EXCEPT !.mount = TRUE, !.dirt = TRUE]
  <1>1. /\ k.pc = "read_super" /\ UNCHANGED <<imap, disk, truth>>
        /\ super' = [super EXCEPT !.imount = s, !.lock = FALSE]
        /\ Set(s, j) /\ call' = [call EXCEPT ![t] = Idle] /\ held' = [held EXCEPT ![t] = 0]
    BY DEF SuperRead, Runs, Goto
  <1>2. /\ Settled(k, s) /\ s \in Slots /\ i \in Records
        /\ \A u \in Tasks \ {t} : call'[u] = call[u]
    BY <1>1, TypeFacts DEF IInv, TableTypeOK
  <1>3. /\ j \in Records /\ j.count = i.count /\ j.lock = i.lock /\ j.id = i.id
        /\ j.nlinks = i.nlinks /\ j.dirt /\ j.mount
    BY <1>2 DEF Records
  <1>4. NotMounted /\ OnlyMounts(t) /\ super.dev
    BY <1>1, MountsAlone DEF Accounts, MountOK
  <1>5. Refs(k, s, s) = 1 /\ Refs(Idle, 0, s) = 0 /\ \A x \in Slots \ {s} : Refs(Idle, 0, x) = Refs(k, s, x)
    BY <1>1, <1>2, SlotsAre DEF Settled, Refs, One, Gives, Fresh, Putting, Having, InIput, InWrite, Idle
  <1>6. /\ Settled(Idle, 0) /\ ~Fresh(Idle) /\ Idle.pc = "idle" /\ Idle.ret = "idle" /\ ~HasLock(Idle)
    BY DEF Settled, Fresh, Having, Putting, InIput, InWrite, Idle, HasLock
  <1>7. super'.dev /\ super'.imount = s /\ super' \in [dev : BOOLEAN, imount : SlotOrNone, lock : BOOLEAN]
    BY <1>1, <1>2, <1>4, SlotsAre DEF Accounts, StateOK
  <1> HIDE DEF j, s, k
  <1>8. inode_table'[s] = j /\ \A x \in Slots \ {s} : inode_table'[x] = inode_table[x]
    BY <1>1, <1>2, TableChanges
  <1>9. /\ call'[t] = Idle /\ held'[t] = 0
        /\ \A u \in Tasks \ {t} : call'[u] = call[u] /\ held'[u] = held[u]
    BY <1>1 DEF IInv, TableTypeOK
  <1>10. StateOK'
    <2>1. inode_table' \in [Slots -> Records]
      BY <1>1, <1>2, <1>3 DEF Set, Accounts, StateOK
    <2>2. call' = [u \in Tasks |-> call'[u]]
      BY <1>1 DEF Accounts, StateOK
    <2> QED BY <1>1, <1>6, <1>7, <1>9, <2>1, <2>2 DEF Accounts, StateOK
  <1>11. CountsOK'
    <2> SUFFICES ASSUME NEW x \in Slots PROVE inode_table'[x].count = Users(x)'
      BY DEF CountsOK
    <2>1. Users(x)' = Users(x) - Refs(k, s, x) + Refs(Idle, 0, x) - MountRef(x) + MountRef(x)'
      BY <1>9, UsersChange DEF k, s
    <2>2. MountRef(x) = 0 /\ MountRef(x)' = One(x = s)
      BY <1>3, <1>4, <1>7, <1>8 DEF MountRef, One, NotMounted
    <2>3. inode_table[x].count = Users(x) /\ Users(x) \in Nat
      BY UsersAtLeast DEF Accounts, CountsOK
    <2>4. One(x = s) = IF x = s THEN 1 ELSE 0
      BY DEF One
    <2>5. CASE x = s
      BY <1>3, <1>5, <1>8, <2>1, <2>2, <2>3, <2>4, <2>5
    <2>6. CASE x # s
      BY <1>5, <1>8, <2>1, <2>2, <2>3, <2>4, <2>6, RefsType
    <2> QED BY <2>5, <2>6
  <1>12. \A u \in Tasks : OwnOK(call[u])'
    <2>1. \A u \in Tasks \ {t} : OwnOK(call[u])'
      <3>1. Refs(call[t], held[t], s) >= 1
        BY <1>5 DEF k, s
      <3> QED BY <1>1, <1>2, <3>1, OthersOwn
    <2>2. OwnOK(call[t])'
      BY <1>6, <1>9 DEF OwnOK, OwnIn
    <2> QED BY <2>1, <2>2
  <1>13. LocksOK'
    <2>1. \A u \in Tasks : HasLock(call[u]) => call[u].s \in Slots /\ inode_table[call[u].s].lock
      BY DEF Accounts, LocksOK, HasLock, IInv, TableTypeOK, IsCall, InWrite
    <2>2. \A u \in Tasks : HasLock(call'[u]) => u # t /\ HasLock(call[u])
      BY <1>6, <1>9
    <2>3. \A u \in Tasks : HasLock(call'[u]) => inode_table'[call'[u].s].lock
      BY <1>3, <1>8, <1>9, <2>1, <2>2
    <2>4. \A u, v \in Tasks : HasLock(call'[u]) /\ HasLock(call'[v]) /\ call'[u].s = call'[v].s => u = v
      BY <1>9, <2>2 DEF Accounts, LocksOK
    <2> QED BY <2>3, <2>4 DEF LocksOK, HasLock
  <1>14. MountOK'
    BY <1>4, <1>6, <1>7, <1>8, <1>9 DEF NotMounted, OnlyMounts, MountOK
  <1>15. RootOK'
    BY <1>3, <1>4, <1>8 DEF NotMounted, RootOK
  <1>16. ContentOK'
    <2>1. \A u \in Tasks : call[u].pc = "read_inode" => call'[u] = call[u]
      BY <1>1, <1>9 DEF k
    <2> QED BY <1>1, <1>2, <1>3, <2>1, SameContent
  <1> QED BY <1>10, <1>11, <1>12, <1>13, <1>14, <1>15, <1>16 DEF Accounts

(* The inode that was mounted on: the reference of the device becomes one of
   the task, which gives it back. *)
LEMMA UmountKeeps ==
  ASSUME IInv, Accounts, NEW t \in Tasks, Umount(t), ~raced'
  PROVE  Accounts'
  <1> DEFINE k == call[t]
             s == super.imount
             i == inode_table[s]
             c == Iput(Idle, s, "umount")
             j == [i EXCEPT !.mount = FALSE]
  <1>1. /\ k.pc = "idle" /\ UNCHANGED <<imap, disk, super, held, truth>>
        /\ super.dev /\ s # 0 /\ ~InUse /\ i.mount
        /\ Set(s, j) /\ call' = [call EXCEPT ![t] = c]
    BY DEF Umount, Runs, Goto
  <1>2. /\ Settled(k, held[t]) /\ k = Idle /\ held[t] \in SlotOrNone
        /\ held' = [held EXCEPT ![t] = held[t]] /\ \A u \in Tasks \ {t} : call'[u] = call[u]
    <2>1. k = Idle
      BY <1>1, TypeFacts DEF Settled
    <2> QED BY <1>1, <2>1, TypeFacts
  <1>3. s \in Slots /\ i \in Records
    <2>1. s \in Slots
      BY <1>1, InodeTableAssumption DEF Accounts, StateOK, SlotOrNone, Slots
    <2> QED BY <2>1, TypeFacts
  <1>4. /\ j \in Records /\ j.count = i.count /\ j.lock = i.lock /\ j.id = i.id
        /\ j.nlinks = i.nlinks /\ j.dirt = i.dirt /\ ~j.mount
    BY <1>3 DEF Records
  <1>5. MountRef(s) = 1 /\ One(super.imount = s /\ j.mount) = 0
    BY <1>1, <1>4 DEF MountRef, One
  <1>6. /\ Settled(c, held[t]) /\ ~Fresh(c) /\ c.pc = "iput" /\ c.ret = "umount" /\ ~HasLock(c)
    BY DEF Settled, Fresh, Having, Putting, InIput, InWrite, Iput, Idle, HasLock
  <1>7. /\ Refs(c, held[t], s) = Refs(Idle, held[t], s) + 1
        /\ \A x \in Slots \ {s} : Refs(c, held[t], x) = Refs(Idle, held[t], x)
    <2>1. Gives(c) /\ ~Gives(Idle) /\ c.got = 0 /\ c.empty = 0 /\ c.s = s /\ c.pc = "iput"
      BY DEF Gives, Putting, InIput, InWrite, Iput, Idle
    <2>2. Idle.got = 0 /\ Idle.empty = 0 /\ Idle.s = 0 /\ Idle.pc = "idle"
      BY DEF Idle
    <2> HIDE DEF c, s
    <2> QED BY <1>3, <2>1, <2>2, SlotsAre DEF Refs, One
  <1>8. \A u \in Tasks : call[u].ret # "umount"
    BY <1>1 DEF Accounts, MountOK
  <1>9. i.lock \/ \A u \in Tasks : HasLock(call[u]) => call[u].s # s
    BY NotLocked
  <1> HIDE DEF c, j, s, k
  <1>10. inode_table'[s] = j /\ \A x \in Slots \ {s} : inode_table'[x] = inode_table[x]
    BY <1>1, <1>3, TableChanges
  <1>11. OwnIn(inode_table', c)
    BY <1>6 DEF OwnIn
  <1>12. \A u \in Tasks \ {t} : OwnOK(call[u])'
    BY <1>1, <1>2, <1>3, <1>5, OthersOwn
  <1>13. RootOK'
    <2>1. \A x \in Slots : ~(inode_table[x].id = Root /\ inode_table[x].count > 0)
      BY <1>1 DEF InUse
    <2> QED BY <1>3, <1>4, <1>10, <2>1 DEF RootOK
  <1>14. ContentOK'
    <2>1. \A u \in Tasks : call[u].pc = "read_inode" => call'[u] = call[u]
      BY <1>1, <1>2 DEF k
    <2> QED BY <1>1, <1>3, <1>4, <2>1, SameContent
  <1>15. imap' \subseteq Inodes /\ disk' \in [Inodes -> Int] /\ truth' \in [Inodes -> Int]
    BY <1>1 DEF Accounts, StateOK
  <1>16. j.count = inode_table[s].count + Refs(c, held[t], s) - Refs(call[t], held[t], s)
                   + One(super.imount = s /\ j.mount) - MountRef(s)
    <2>1. inode_table[s].count \in Nat /\ Refs(Idle, held[t], s) \in Nat
      BY <1>3, RefsType DEF Records
    <2>2. Refs(call[t], held[t], s) = Refs(Idle, held[t], s)
      BY <1>2 DEF k
    <2> QED BY <1>4, <1>5, <1>7, <2>1, <2>2
  <1>17. \A x \in Slots \ {s} : Refs(c, held[t], x) = Refs(call[t], held[t], x)
    BY <1>2, <1>7 DEF k
  <1>18. /\ super.dev /\ super.imount = s /\ ~j.mount /\ \A u \in Tasks : call[u].ret # "umount"
         /\ (j.mount => inode_table[s].mount) /\ c.pc # "read_super" /\ UNCHANGED super
         /\ (j.lock \/ \A u \in Tasks \ {t} : HasLock(call[u]) => call[u].s # s)
    BY <1>1, <1>4, <1>6, <1>8, <1>9 DEF s
  <1> QED BY <1>1, <1>2, <1>3, <1>4, <1>6, <1>11, <1>12, <1>13, <1>14, <1>15, <1>16, <1>17, <1>18, SlotStep

-----------------------------------------------------------------------------
LEMMA StayKeeps ==
  ASSUME IInv, Accounts, UNCHANGED <<inode_table, imap, disk, super, call, held, truth>>
  PROVE  Accounts'
  <1>1. StateOK'
    BY DEF Accounts, StateOK
  <1>2. CountsOK'
    BY DEF Accounts, CountsOK, Users, GivesBack
  <1>3. (\A t \in Tasks : OwnOK(call[t])')
    BY DEF Accounts, OwnOK, OwnIn
  <1>4. LocksOK' /\ MountOK' /\ RootOK' /\ ContentOK'
    BY DEF Accounts, LocksOK, MountOK, RootOK, ContentOK, HasLock
  <1> QED BY <1>1, <1>2, <1>3, <1>4 DEF Accounts

LEMMA InitUInv == Init => UInv
  <1> SUFFICES ASSUME Init PROVE Accounts
    BY DEF UInv
  <1>1. \A t \in Tasks : call[t] = Idle /\ held[t] = 0
    BY DEF Init
  <1>2. \A s \in Slots : inode_table[s] = Zero
    BY DEF Init
  <1>3. Settled(Idle, 0) /\ ~Fresh(Idle) /\ Idle.pc = "idle" /\ Idle.ret = "idle" /\ ~HasLock(Idle) /\ ~Gives(Idle)
    BY DEF Settled, Fresh, Having, Putting, InIput, InWrite, Idle, HasLock, Gives
  <1>4. StateOK
    <2>1. inode_table \in [Slots -> Records]
      BY ClearedSlots DEF Init
    <2>2. /\ imap \subseteq Inodes /\ disk \in [Inodes -> Int] /\ truth \in [Inodes -> Int]
          /\ super \in [dev : BOOLEAN, imount : SlotOrNone, lock : BOOLEAN]
      BY SlotsAre DEF Init, Inodes
    <2>3. call = [t \in Tasks |-> call[t]]
      BY DEF Init
    <2> QED BY <1>1, <1>3, <2>1, <2>2, <2>3, SMTT(60) DEF StateOK
  <1>5. CountsOK
    <2> SUFFICES ASSUME NEW s \in Slots PROVE inode_table[s].count = Users(s)
      BY DEF CountsOK
    <2> DEFINE H == {t \in Tasks : held[t] = s}
               G == {t \in Tasks : call[t].got = s}
               E == {t \in Tasks : call[t].empty = s /\ call[t].pc # "got"}
               P == {t \in Tasks : call[t].s = s /\ GivesBack(t)}
    <2>1. s # 0 /\ Idle.got = 0 /\ Idle.empty = 0 /\ Idle.s = 0
      BY SlotsAre DEF Idle
    <2>2. H = {} /\ G = {} /\ E = {} /\ P = {}
      BY <1>1, <2>1
    <2>3. Cardinality({}) = 0
      BY FS_EmptySet
    <2>4. ~(super.imount = s /\ inode_table[s].mount) /\ inode_table[s].count = 0
      BY <1>2 DEF Zero
    <2>5. Users(s) = Cardinality(H) + Cardinality(G) + Cardinality(E) + Cardinality(P) + 0
      BY <2>4 DEF Users
    <2> HIDE DEF H, G, E, P
    <2> QED BY <2>2, <2>3, <2>4, <2>5
  <1>6. \A t \in Tasks : OwnOK(call[t])
    BY <1>1, <1>3 DEF OwnOK, OwnIn
  <1>7. LocksOK /\ MountOK /\ RootOK
    <2>1. ~Zero.mount /\ Zero.count = 0
      BY DEF Zero
    <2> QED BY <1>1, <1>2, <1>3, <2>1 DEF LocksOK, MountOK, RootOK
  <1>8. ContentOK
    <2>1. Zero.id = NULL
      BY DEF Zero
    <2>2. disk = truth
      BY DEF Init
    <2> QED BY <1>2, <2>1, <2>2 DEF ContentOK
  <1> QED BY <1>4, <1>5, <1>6, <1>7, <1>8 DEF Accounts

LEMMA NextUInv ==
  ASSUME IInv, UInv, [Next]_vars
  PROVE  UInv'
  <1> SUFFICES ASSUME ~raced' PROVE Accounts'
    BY DEF UInv
  <1>1. ASSUME NEW t \in Tasks, Step(t), ~raced PROVE Accounts'
    <2> Accounts
      BY <1>1 DEF UInv
    <2>1. CASE Blocks(t) \/ Leave(t)
      BY <2>1, StayKeeps DEF Blocks, Leave
    <2>2. CASE Lock(t) \/ Written(t) \/ Sync(t) \/ SyncInode(t)
      BY <1>1, <2>2, LockKeeps, WrittenKeeps, SyncKeeps
    <2>3. CASE GetEmpty(t) \/ Empty(t)
      BY <1>1, <2>3, EmptyKeeps
    <2>4. CASE (\E w \in Inodes : Iget(t, w)) \/ Cross(t) \/ Got(t) \/ Close(t) \/ Create(t)
      BY <1>1, <2>4, FindKeeps
    <2>5. CASE Scan(t) \/ TakeFound(t)
      BY <1>1, <2>5, ScanKeeps, TakeFoundKeeps
    <2>6. CASE ReadInode(t) \/ NewInode(t)
      BY <1>1, <2>6, ReadInodeKeeps, NewInodeKeeps
    <2>7. CASE PutInode(t) \/ Truncated(t)
      BY <1>1, <2>7, PutInodeKeeps, TruncatedKeeps
    <2>8. CASE \E n \in {-1, 1} : Links(t, n)
      BY <1>1, <2>8, LinksKeeps
    <2>9. CASE Mount(t) \/ (\E ok \in BOOLEAN : SuperRead(t, ok)) \/ PutSuper(t)
      <3>1. ASSUME NEW ok \in BOOLEAN, SuperRead(t, ok), ok, ~inode_table[held[t]].mount PROVE Accounts'
        <4>1. SuperRead(t, TRUE)
          BY <3>1
        <4> QED BY <1>1, <3>1, <4>1, MountedKeeps
      <3> QED BY <1>1, <2>9, <3>1, MountKeeps
    <2>10. CASE Umount(t)
      BY <1>1, <2>10, UmountKeeps
    <2> QED BY <1>1, <2>1, <2>2, <2>3, <2>4, <2>5, <2>6, <2>7, <2>8, <2>9, <2>10 DEF Step
  <1>2. CASE UNCHANGED vars
    <2>1. /\ UNCHANGED <<inode_table, imap, disk, super, call, held, truth>> /\ raced' = raced
      BY <1>2 DEF vars, kernel
    <2> QED BY <2>1, StayKeeps DEF UInv
  <1> QED BY <1>1, <1>2 DEF Next

-----------------------------------------------------------------------------
(* i_count is the number of references: of tasks, of calls that have an empty
   or a found inode or are about to give one back, and of a mounted device.
   iget, iput, new_inode, mount and umount sleep between taking a reference
   and noting it, and none is counted twice or forgotten (inode.c). *)
THEOREM CountsAreUsers == Spec => []InodeCountsUsers
  <1>1. UInv => InodeCountsUsers
    BY DEF UInv, Accounts, CountsOK, InodeCountsUsers
  <1> QED BY InitIInv, NextIInv, InitUInv, NextUInv, <1>1, PTL DEF Spec

(* sys_umount looks once for an inode of the device in use, and sleeps before
   it gives up the super block: no inode of the device comes into use in
   between, unless somebody was on the way into it (super.c:213). *)
THEOREM UsedInodesAreMounted == Spec => []UsedIsMounted
  <1>1. IInv /\ UInv => UsedIsMounted
    <2> SUFFICES ASSUME IInv, Accounts, NEW s \in Slots,
                        inode_table[s].id = Root, inode_table[s].count > 0
                 PROVE  super.dev
      BY DEF UInv, UsedIsMounted
    <2>1. super.imount # 0 /\ inode_table[super.imount].mount
      BY DEF Accounts, RootOK
    <2>2. super.imount \in Slots
      BY <2>1, InodeTableAssumption DEF Accounts, StateOK, SlotOrNone, Slots
    <2> QED BY <2>1, <2>2 DEF Accounts, MountOK
  <1> QED BY InitIInv, NextIInv, InitUInv, NextUInv, <1>1, PTL DEF Spec

(* No change of an inode is lost: write_inode, sync_inodes, the last iput and
   whoever wants the slot write it back before it is forgotten, though each
   of them sleeps on the way (inode.c). *)
THEOREM ChangesAreKept == Spec => []NoInodeChangeLost
  <1>1. IInv /\ UInv => NoInodeChangeLost
    <2> SUFFICES ASSUME IInv, Accounts, NEW i \in imap, disk[i] # truth[i]
                 PROVE  \E s \in Slots : /\ inode_table[s].id = i /\ inode_table[s].nlinks = truth[i]
                                         /\ inode_table[s].dirt
      BY DEF UInv, NoInodeChangeLost
    <2>1. PICK s \in Slots : inode_table[s].id = i /\ inode_table[s].dirt
      BY DEF Accounts, ContentOK
    <2>2. i # NULL
      BY InodeTableAssumption DEF Accounts, StateOK, Inodes
    <2>3. \A t \in Tasks : ~(call[t].pc = "read_inode" /\ call[t].s = s)
      BY <2>1 DEF Accounts, OwnOK, OwnIn
    <2>4. inode_table[s].nlinks = truth[i]
      BY <2>1, <2>2, <2>3 DEF Accounts, ContentOK
    <2> QED BY <2>1, <2>4
  <1> QED BY InitIInv, NextIInv, InitUInv, NextUInv, <1>1, PTL DEF Spec

-----------------------------------------------------------------------------
(* A set of natural numbers has a least element. *)
LEMMA LeastOf ==
  ASSUME NEW A \in SUBSET Nat, A # {}
  PROVE  \E n \in A : \A m \in A : n <= m
  <1> DEFINE T == {0..k : k \in A}
  <1>1. IsWellFoundedOn(StrictSubsetOrdering(Nat), FiniteSubsetsOf(Nat))
    BY FS_StrictSubsetOrderingWellFounded
  <1>2. T \subseteq FiniteSubsetsOf(Nat) /\ T # {}
    <2>1. ASSUME NEW k \in A PROVE IsFiniteSet(0..k) /\ 0..k \in SUBSET Nat
      BY FS_Interval
    <2> QED BY <2>1, Zenon DEF FiniteSubsetsOf
  <1>3. PICK x \in T : \A y \in T : ~ (<<y, x>> \in StrictSubsetOrdering(Nat))
    BY <1>1, <1>2, WFMin, Zenon
  <1>4. PICK n \in A : x = 0..n
    OBVIOUS
  <1>5. ASSUME NEW m \in A, m < n PROVE FALSE
    <2>1. 0..m \in SUBSET Nat /\ 0..n \in SUBSET Nat /\ 0..m \subseteq 0..n /\ n \in 0..n /\ n \notin 0..m
      BY <1>5
    <2>2. 0..m # 0..n
      BY <2>1
    <2>3. <<0..m, 0..n>> \in (SUBSET Nat) \X (SUBSET Nat)
      BY <2>1
    <2>4. <<0..m, 0..n>> \in StrictSubsetOrdering(Nat)
      BY <2>1, <2>2, <2>3, Zenon DEF StrictSubsetOrdering
    <2> QED BY <1>3, <1>4, <2>4
  <1> QED BY <1>5

(* The blocks of files.

   The block at a depth of the way from a pointer of an inode. *)
PointerIn(b) == IF b = 0 THEN 0 ELSE pointer[b]

On(f, k, d) ==
  IF d = 1 THEN i_zone[f][k]
  ELSE IF d = 2 THEN PointerIn(i_zone[f][k])
  ELSE IF d = 3 THEN PointerIn(PointerIn(i_zone[f][k]))
  ELSE PointerIn(PointerIn(PointerIn(i_zone[f][k])))

IsOn(b) == \E f \in FileNrs, k \in Kinds : \E d \in 1..k : On(f, k, d) = b
IsNew(t, b) == walk[t].pc = "new_block" /\ walk[t].new = b

(* What truncate could not read the way to, and what that points to. *)
IsOff(b) == b \in lost \/ \E a \in zmap : ~IsOn(a) /\ pointer[a] = b

Pcs == {"idle", "pointer", "new_block", "bread", "getblk", "using", "truncate"}
Walks ==
  [pc : Pcs, f : FileNrs \cup {0}, kind : Kinds \cup {0}, depth : Nat, create : BOOLEAN,
   bh : Zones \cup {0}, new : Zones \cup {0}]

BlocksTypeOK ==
  /\ zmap \subseteq Zones /\ i_zone \in [FileNrs -> [Kinds -> Zones \cup {0}]]
  /\ pointer \in [Zones -> Zones \cup {0}]
  /\ walk \in [Callers -> Walks] /\ lost \subseteq Zones /\ walkRaced \in BOOLEAN

(* The blocks of the files are trees: none is at two places, and each that is
   marked is in a file, or off the files for ever, or somebody has just
   allocated it. *)
LeavesOK == \A f \in FileNrs, k \in Kinds : On(f, k, k + 1) = 0
InFilesOK == \A f \in FileNrs, k \in Kinds : \A d \in 1..k : On(f, k, d) \in zmap \cup {0}
PlacesDiffer ==
  \A f, g \in FileNrs, k, l \in Kinds : \A d \in 1..k, e \in 1..l :
    On(f, k, d) # 0 /\ On(f, k, d) = On(g, l, e) => f = g /\ k = l /\ d = e
MarkedOK == \A b \in zmap : IsOn(b) \/ IsOff(b) \/ \E t \in Callers : IsNew(t, b)
FreeOK == \A b \in Zones \ zmap : pointer[b] = 0
OffOK == \A b \in Zones : IsOff(b) => b \in zmap /\ ~IsOn(b) /\ \A t \in Callers : ~IsNew(t, b)
OffDiffer ==
  \A a, b \in zmap : ~IsOn(a) /\ ~IsOn(b) /\ pointer[a] # 0 =>
    pointer[a] \notin lost /\ (pointer[a] = pointer[b] => a = b)

(* What a task on its way knows of the place it has come to. *)
OnWay(c) == c.f \in FileNrs /\ c.kind \in Kinds /\ c.depth \in 1..c.kind
AtPointer(c) ==
  /\ OnWay(c)
  /\ c.depth = 1 => c.bh = 0
  /\ c.depth > 1 => c.bh # 0 /\ (c.bh = On(c.f, c.kind, c.depth - 1) \/ IsOff(c.bh))
AtBlock(c) ==
  /\ OnWay(c) /\ (c.pc = "bread" => c.depth < c.kind)
  /\ c.new # 0 /\ c.bh = 0
  /\ (c.new = On(c.f, c.kind, c.depth) /\ ~ Truncates(c.f)) \/ IsOff(c.new)
NewOK(t) ==
  /\ walk[t].new \in zmap /\ pointer[walk[t].new] = 0 /\ ~ IsOn(walk[t].new)
  /\ \A u \in Callers \ {t} : ~ IsNew(u, walk[t].new)

WalkOK(t) ==
  /\ walk[t].pc \in {"pointer", "new_block"} => AtPointer(walk[t])
  /\ walk[t].pc = "new_block" => NewOK(t)
  /\ walk[t].pc \in {"bread", "getblk"} => AtBlock(walk[t])
  /\ walk[t].pc = "truncate" => walk[t].f \in FileNrs /\ walk[t].bh = 0
  /\ walk[t].pc = "using" => walk[t].bh \in zmap
  /\ walk[t].pc = "idle" => walk[t].bh = 0

TreesOK == LeavesOK /\ InFilesOK /\ PlacesDiffer /\ MarkedOK /\ FreeOK /\ OffOK /\ OffDiffer
BlocksInv == BlocksTypeOK /\ (~walkRaced => TreesOK /\ \A t \in Callers : WalkOK(t))

LEMMA OnIs ==
  ASSUME BlocksTypeOK, NEW f \in FileNrs, NEW k \in Kinds
  PROVE  /\ On(f, k, 1) = i_zone[f][k] /\ On(f, k, 2) = PointerIn(On(f, k, 1))
         /\ On(f, k, 3) = PointerIn(On(f, k, 2)) /\ On(f, k, 4) = PointerIn(On(f, k, 3))
         /\ \A d \in 1..4 : On(f, k, d) \in Zones \cup {0}
  <1>1. /\ On(f, k, 1) = i_zone[f][k] /\ On(f, k, 2) = PointerIn(On(f, k, 1))
        /\ On(f, k, 3) = PointerIn(On(f, k, 2)) /\ On(f, k, 4) = PointerIn(On(f, k, 3))
    BY DEF On
  <1>2. \A b \in Zones \cup {0} : PointerIn(b) \in Zones \cup {0}
    BY DEF BlocksTypeOK, PointerIn
  <1>3. On(f, k, 1) \in Zones \cup {0}
    BY <1>1 DEF BlocksTypeOK
  <1>4. \A d \in 1..4 : d = 1 \/ d = 2 \/ d = 3 \/ d = 4
    OBVIOUS
  <1>5. On(f, k, 2) \in Zones \cup {0}
    BY <1>1, <1>2, <1>3
  <1>6. On(f, k, 3) \in Zones \cup {0}
    BY <1>1, <1>2, <1>5
  <1>7. On(f, k, 4) \in Zones \cup {0}
    BY <1>1, <1>2, <1>6
  <1> QED BY <1>1, <1>3, <1>4, <1>5, <1>6, <1>7

(* One place changes: the pointer at (f, k, m) is v, which points to nothing
   and is nowhere yet. *)
Changes(f, k, m, v) ==
  \/ m = 1 /\ i_zone' = [i_zone EXCEPT ![f][k] = v] /\ pointer' = pointer
  \/ m > 1 /\ i_zone' = i_zone /\ pointer' = [pointer EXCEPT ![On(f, k, m - 1)] = v] /\ On(f, k, m - 1) # 0

LEMMA KindsAre == \A k \in Kinds : k \in 1..3 /\ \A d \in 1..k : d \in 1..3
  BY DEF Kinds

LEMMA OnChanges ==
  ASSUME BlocksTypeOK, LeavesOK, PlacesDiffer,
         NEW f \in FileNrs, NEW k \in Kinds, NEW m \in 1..k, NEW v \in Zones \cup {0},
         PointerIn(On(f, k, m)) = 0,
         v # 0 => ~IsOn(v) /\ pointer[v] = 0, Changes(f, k, m, v)
  PROVE  /\ \A g \in FileNrs, l \in Kinds : \A e \in 1..l :
              On(g, l, e)' = IF g = f /\ l = k /\ e = m THEN v ELSE On(g, l, e)
         /\ LeavesOK'
  <1> DEFINE NextOf(b) == IF b = 0 THEN 0 ELSE pointer'[b]
  <1>1. m \in 1..3 /\ Kinds = 1..3
    BY DEF Kinds
  <1>2. \A g \in FileNrs, l \in Kinds :
          /\ On(g, l, 1)' = i_zone'[g][l] /\ On(g, l, 2)' = NextOf(On(g, l, 1)')
          /\ On(g, l, 3)' = NextOf(On(g, l, 2)') /\ On(g, l, 4)' = NextOf(On(g, l, 3)')
    BY DEF On, PointerIn
  <1>3. NextOf(0) = 0 /\ PointerIn(0) = 0
    BY DEF PointerIn
  <1> HIDE DEF NextOf
  <1>4. CASE m = 1 /\ i_zone' = [i_zone EXCEPT ![f][k] = v] /\ pointer' = pointer
    <2>1. \A b : NextOf(b) = PointerIn(b)
      BY <1>4 DEF PointerIn, NextOf
    <2>2. \A g \in FileNrs, l \in Kinds : i_zone'[g][l] = IF g = f /\ l = k THEN v ELSE i_zone[g][l]
      BY <1>4 DEF BlocksTypeOK
    <2>3. PointerIn(v) = 0
      BY DEF PointerIn
    <2>4. ASSUME NEW g \in FileNrs, NEW l \in Kinds, ~ (g = f /\ l = k)
          PROVE  On(g, l, 1)' = On(g, l, 1) /\ On(g, l, 2)' = On(g, l, 2) /\ On(g, l, 3)' = On(g, l, 3)
                 /\ On(g, l, 4)' = On(g, l, 4)
      BY <1>2, <2>1, <2>2, <2>4, OnIs
    <2>5. /\ On(f, k, 1)' = v /\ On(f, k, 2)' = 0 /\ On(f, k, 3)' = 0 /\ On(f, k, 4)' = 0
          /\ On(f, k, 2) = 0 /\ On(f, k, 3) = 0 /\ On(f, k, 4) = 0
      BY <1>2, <1>3, <1>4, <2>1, <2>2, <2>3, OnIs
    <2>6. LeavesOK'
      <3> SUFFICES ASSUME NEW g \in FileNrs, NEW l \in Kinds PROVE On(g, l, l + 1)' = 0
        BY DEF LeavesOK
      <3>1. l = 1 \/ l = 2 \/ l = 3
        BY <1>1
      <3>2. On(g, l, l + 1) = 0
        BY DEF LeavesOK
      <3>3. CASE g = f /\ l = k
        BY <2>5, <3>1, <3>3
      <3>4. CASE ~ (g = f /\ l = k)
        BY <2>4, <3>1, <3>2, <3>4
      <3> QED BY <3>3, <3>4
    <2> QED BY <1>1, <1>4, <2>4, <2>5, <2>6
  <1>5. CASE m > 1 /\ i_zone' = i_zone /\ pointer' = [pointer EXCEPT ![On(f, k, m - 1)] = v] /\ On(f, k, m - 1) # 0
    <2> DEFINE h == On(f, k, m - 1)
    <2>1. h \in Zones /\ m - 1 \in 1..k /\ m \in {2, 3} /\ k \in {2, 3} /\ (m = 3 => k = 3)
      BY <1>1, <1>5, OnIs
    <2>2. h # v
      BY <1>5, <2>1 DEF IsOn
    <2>3. /\ NextOf(v) = 0 /\ NextOf(h) = v
          /\ \A b \in Zones \cup {0} : b # h => NextOf(b) = PointerIn(b)
      <3>1. \A b \in Zones : pointer'[b] = IF b = h THEN v ELSE pointer[b]
        BY <1>5, <2>1 DEF BlocksTypeOK
      <3>2. h # 0 /\ 0 \notin Zones
        BY <1>5 DEF Zones
      <3> QED BY <2>1, <2>2, <3>1, <3>2 DEF PointerIn, NextOf
    <2>4. \A g \in FileNrs, l \in Kinds : \A e \in 1..l : On(g, l, e) = h => g = f /\ l = k /\ e = m - 1
      BY <1>5, <2>1 DEF PlacesDiffer
    <2> HIDE DEF h
    <2>5. \A g \in FileNrs, l \in Kinds : On(g, l, 1)' = On(g, l, 1)
      BY <1>2, <1>5, OnIs
    <2>6. h = On(f, k, m - 1)
      BY DEF h
    <2>7. ASSUME NEW g \in FileNrs, NEW l \in Kinds, l >= 2
          PROVE  On(g, l, 2)' = IF g = f /\ l = k /\ m = 2 THEN v ELSE On(g, l, 2)
      <3>1. 1 \in 1..l /\ On(g, l, 1) \in Zones \cup {0} /\ On(g, l, 2) = PointerIn(On(g, l, 1))
        BY <2>7, OnIs DEF Kinds
      <3>2. CASE On(g, l, 1) = h
        <4>1. g = f /\ l = k /\ 1 = m - 1
          BY <2>4, <3>1, <3>2
        <4> QED BY <1>2, <2>3, <2>5, <3>2, <4>1
      <3>3. CASE On(g, l, 1) # h
        BY <1>2, <2>3, <2>5, <2>6, <3>1, <3>3
      <3> QED BY <3>2, <3>3
    <2>8. ASSUME NEW g \in FileNrs, NEW l \in Kinds, l >= 3
          PROVE  On(g, l, 3)' = IF g = f /\ l = k /\ m = 3 THEN v ELSE On(g, l, 3)
      <3>1. 2 \in 1..l /\ On(g, l, 2) \in Zones \cup {0} /\ On(g, l, 3) = PointerIn(On(g, l, 2))
        BY <2>8, OnIs DEF Kinds
      <3>2. CASE g = f /\ l = k /\ m = 2
        <4>1. On(g, l, 2)' = v /\ On(g, l, 3)' = 0
          BY <1>2, <2>3, <2>7, <2>8, <3>2
        <4>2. On(g, l, 3) = 0
          BY <3>1, <3>2
        <4> QED BY <3>2, <4>1, <4>2
      <3>3. CASE ~ (g = f /\ l = k /\ m = 2)
        <4>1. On(g, l, 2)' = On(g, l, 2)
          BY <1>1, <2>7, <2>8, <3>3
        <4>2. CASE On(g, l, 2) = h
          <5>1. g = f /\ l = k /\ 2 = m - 1
            BY <2>4, <3>1, <4>2
          <5> QED BY <1>2, <2>3, <4>1, <4>2, <5>1
        <4>3. CASE On(g, l, 2) # h
          BY <1>2, <2>3, <2>6, <3>1, <4>1, <4>3
        <4> QED BY <4>2, <4>3
      <3> QED BY <3>2, <3>3
    <2>9. ASSUME NEW g \in FileNrs, NEW l \in Kinds, NEW e \in 1..l
          PROVE  On(g, l, e)' = IF g = f /\ l = k /\ e = m THEN v ELSE On(g, l, e)
      <3>1. e \in {1, 2, 3} /\ l >= e
        BY <1>1
      <3> QED BY <1>5, <2>5, <2>7, <2>8, <3>1
    <2>10. LeavesOK'
      <3> SUFFICES ASSUME NEW g \in FileNrs, NEW l \in Kinds PROVE On(g, l, l + 1)' = 0
        BY DEF LeavesOK
      <3>1. /\ l = 1 \/ l = 2 \/ l = 3
            /\ l \in 1..l /\ On(g, l, l) \in Zones \cup {0}
            /\ On(g, l, l + 1) = PointerIn(On(g, l, l)) /\ On(g, l, l + 1)' = NextOf(On(g, l, l)')
        <4>1. l = 1 \/ l = 2 \/ l = 3
          BY <1>1
        <4> QED BY <1>2, <4>1, OnIs
      <3>2. PointerIn(On(g, l, l)) = 0
        BY <3>1 DEF LeavesOK
      <3>3. CASE g = f /\ l = k /\ l = m
        <4>1. On(g, l, l)' = v
          BY <2>9, <3>1, <3>3
        <4> QED BY <2>3, <3>1, <4>1
      <3>4. CASE ~ (g = f /\ l = k /\ l = m)
        <4>1. On(g, l, l)' = On(g, l, l)
          BY <2>9, <3>1, <3>4
        <4>2. On(g, l, l) # h
          <5>1. SUFFICES ASSUME On(g, l, l) = h PROVE FALSE
            OBVIOUS
          <5>2. l = k /\ l = m - 1
            BY <2>4, <3>1, <5>1
          <5> QED BY <1>1, <5>2
        <4> QED BY <2>3, <3>1, <3>2, <4>1, <4>2
      <3> QED BY <3>3, <3>4
    <2> QED BY <2>9, <2>10
  <1> QED BY <1>4, <1>5 DEF Changes

(* What a task sees of the place it has come to: one in a file, or off them. *)
LEMMA PointerIs ==
  ASSUME BlocksTypeOK, NEW t \in Callers, AtPointer(walk[t])
  PROVE  LET c == walk[t] IN
         /\ c.f \in FileNrs /\ c.kind \in Kinds /\ c.depth \in 1..c.kind /\ c.depth \in 1..3
         /\ Pointer(t) \in Zones \cup {0}
         /\ \/ c.depth > 1 /\ c.bh \in Zones /\ IsOff(c.bh) /\ Pointer(t) = pointer[c.bh]
            \/ /\ Pointer(t) = On(c.f, c.kind, c.depth)
               /\ c.depth > 1 => c.bh = On(c.f, c.kind, c.depth - 1) /\ c.bh # 0
  <1> DEFINE c == walk[t]
  <1>1. /\ c.f \in FileNrs /\ c.kind \in Kinds /\ c.depth \in 1..c.kind /\ c.depth \in 1..3
        /\ c.bh \in Zones \cup {0}
    BY DEF AtPointer, OnWay, Kinds, BlocksTypeOK, Walks
  <1>2. CASE c.depth = 1
    <2>1. Pointer(t) = On(c.f, c.kind, 1)
      BY <1>1, <1>2, OnIs DEF Pointer
    <2>2. On(c.f, c.kind, 1) \in Zones \cup {0}
      BY <1>1, OnIs
    <2> QED BY <1>1, <1>2, <2>1, <2>2
  <1>3. CASE c.depth # 1
    <2>1. c.depth \in {2, 3} /\ c.bh \in Zones /\ (c.bh = On(c.f, c.kind, c.depth - 1) \/ IsOff(c.bh)) /\ c.bh # 0
      BY <1>1, <1>3 DEF AtPointer
    <2>2. Pointer(t) = pointer[c.bh]
      BY <1>3 DEF Pointer
    <2>3. pointer[c.bh] \in Zones \cup {0}
      BY <2>1 DEF BlocksTypeOK
    <2> HIDE DEF c
    <2>4. PointerIn(c.bh) = pointer[c.bh]
      BY <2>1 DEF PointerIn
    <2>5. c.bh = On(c.f, c.kind, c.depth - 1) => On(c.f, c.kind, c.depth) = PointerIn(c.bh)
      BY <1>1, <2>1, OnIs
    <2> QED BY <1>1, <2>1, <2>2, <2>3, <2>4, <2>5 DEF c
  <1> QED BY <1>2, <1>3

(* The steps that change nothing but where a task is. *)
LocalOK(c) ==
  /\ c.pc = "pointer" => AtPointer(c)
  /\ c.pc \in {"bread", "getblk"} => AtBlock(c)
  /\ c.pc = "truncate" => /\ c.f \in FileNrs /\ c.bh = 0
                          /\ \A u \in Callers : walk[u].pc \in {"bread", "getblk"} => walk[u].f # c.f
  /\ c.pc = "using" => c.bh \in zmap
  /\ c.pc = "idle" => c.bh = 0

LEMMA QuietWalk ==
  ASSUME BlocksInv, ~walkRaced, NEW t \in Callers, NEW c \in Walks, WalksOn(t, c),
         UNCHANGED <<zmap, i_zone, pointer, lost>>, walkRaced' \in BOOLEAN,
         walk[t].pc # "new_block", c.pc # "new_block", LocalOK(c)
  PROVE  BlocksInv'
  <1>1. BlocksTypeOK /\ TreesOK /\ \A u \in Callers : WalkOK(u)
    BY DEF BlocksInv
  <1>2. walk' = [walk EXCEPT ![t] = c] /\ walk \in [Callers -> Walks]
    BY <1>1 DEF WalksOn, BlocksTypeOK
  <1>3. walk'[t] = c /\ \A u \in Callers \ {t} : walk'[u] = walk[u]
    BY <1>2
  <1>4. BlocksTypeOK'
    BY <1>1, <1>2 DEF BlocksTypeOK
  <1>5. \A f, k, d : On(f, k, d)' = On(f, k, d)
    BY DEF On, PointerIn
  <1>6. \A u \in Callers : \A b : IsNew(u, b)' <=> IsNew(u, b)
    BY <1>3 DEF IsNew
  <1>7. \A b : IsOn(b)' <=> IsOn(b)
    BY <1>5 DEF IsOn
  <1>10. \A b : IsOff(b)' <=> IsOff(b)
    BY <1>7 DEF IsOff
  <1>8. TreesOK'
    <2>1. LeavesOK' /\ InFilesOK' /\ PlacesDiffer' /\ FreeOK'
      BY <1>1, <1>5 DEF TreesOK, LeavesOK, InFilesOK, PlacesDiffer, FreeOK
    <2>2. MarkedOK'
      BY <1>1, <1>6, <1>7, <1>10 DEF TreesOK, MarkedOK
    <2>3. OffOK' /\ OffDiffer'
      BY <1>1, <1>6, <1>7, <1>10 DEF TreesOK, OffOK, OffDiffer
    <2> QED BY <2>1, <2>2, <2>3 DEF TreesOK
  <1>9. ASSUME NEW u \in Callers PROVE WalkOK(u)'
    <2>1. \A r : AtPointer(r) => AtPointer(r)'
      BY <1>5, <1>10 DEF AtPointer, OnWay
    <2>4. \A r : r = walk'[u] /\ AtPointer(r)' => AtPointer(walk[u])'
      BY DEF AtPointer, OnWay
    <2>2. CASE u = t
      <3>1. c.pc = "pointer" => AtPointer(walk[t])'
        BY <1>3, <2>1, <2>2, <2>4 DEF LocalOK
      <3>2. c.pc \in {"bread", "getblk"} => AtBlock(walk[t])'
        <4> SUFFICES ASSUME c.pc \in {"bread", "getblk"} PROVE AtBlock(walk[t])'
          OBVIOUS
        <4>1. AtBlock(c)
          BY DEF LocalOK
        <4>2. ~ Truncates(c.f) => ~ Truncates(c.f)'
          BY <1>3 DEF Truncates
        <4>3. ~ Truncates(c.f)' => ~ Truncates(walk[t].f)'
          BY <1>3 DEF Truncates
        <4> QED BY <1>3, <1>5, <1>10, <4>1, <4>2, <4>3 DEF AtBlock, OnWay
      <3> QED BY <1>3, <2>2, <3>1, <3>2 DEF LocalOK, WalkOK
    <2>3. CASE u # t
      <3>1. WalkOK(u) /\ walk'[u] = walk[u]
        BY <1>1, <1>3, <2>3
      <3>2. AtPointer(walk[u]) => AtPointer(walk[u])'
        BY <2>1, <2>4, <3>1
      <3>3. walk[u].pc = "new_block" /\ NewOK(u) => NewOK(u)'
        BY <1>6, <1>7, <3>1 DEF NewOK
      <3>4. walk[u].pc \in {"bread", "getblk"} /\ AtBlock(walk[u]) => AtBlock(walk[u])'
        <4> SUFFICES ASSUME walk[u].pc \in {"bread", "getblk"}, AtBlock(walk[u]) PROVE AtBlock(walk[u])'
          OBVIOUS
        <4>1. c.pc = "truncate" => walk[u].f # c.f
          BY DEF LocalOK
        <4>2. ~ Truncates(walk[u].f) => ~ Truncates(walk[u].f)'
          BY <1>3, <3>1, <4>1 DEF Truncates
        <4> QED BY <1>5, <1>10, <3>1, <4>2 DEF AtBlock, OnWay
      <3> QED BY <3>1, <3>2, <3>3, <3>4 DEF WalkOK
    <2> QED BY <2>2, <2>3
  <1> QED BY <1>4, <1>8, <1>9 DEF BlocksInv

LEMMA NoWalkType == NoWalk \in Walks /\ NoWalk.pc = "idle" /\ NoWalk.bh = 0
  <1> DEFINE z == 0
  <1>1. NoWalk = [pc |-> "idle", f |-> z, kind |-> z, depth |-> z, create |-> FALSE, bh |-> z, new |-> z]
    BY DEF NoWalk
  <1>2. z \in Nat /\ z \in FileNrs \cup {0} /\ z \in Kinds \cup {0} /\ z \in Zones \cup {0} /\ "idle" \in Pcs
    BY DEF Pcs
  <1> HIDE DEF z
  <1>3. NoWalk \in Walks /\ NoWalk.pc = "idle" /\ NoWalk.bh = z
    BY <1>1, <1>2 DEF Walks
  <1> QED BY <1>3 DEF z

LEMMA NoWalkIs ==
  ASSUME BlocksInv, ~walkRaced, NEW t \in Callers, WalksOn(t, NoWalk), UNCHANGED <<zmap, i_zone, pointer, lost>>,
         walkRaced' \in BOOLEAN, walk[t].pc # "new_block"
  PROVE  BlocksInv'
  <1>1. NoWalk \in Walks /\ NoWalk.pc = "idle" /\ NoWalk.bh = 0
    BY NoWalkType
  <1>2. LocalOK(NoWalk)
    BY <1>1 DEF LocalOK
  <1> QED BY <1>1, <1>2, QuietWalk

LEMMA BmapKeeps ==
  ASSUME BlocksInv, ~walkRaced, NEW t \in Callers, NEW f \in FileNrs, NEW k \in Kinds, NEW create \in BOOLEAN,
         Bmap(t, f, k, create)
  PROVE  BlocksInv'
  <1> DEFINE d == 1
             c == [NoWalk EXCEPT !.pc = "pointer", !.f = f, !.kind = k, !.depth = d, !.create = create]
  <1>1. WalksOn(t, c) /\ UNCHANGED <<zmap, i_zone, pointer, lost>> /\ walkRaced' = walkRaced /\ walk[t].pc # "new_block"
    BY DEF Bmap
  <1>2. d \in Nat /\ d \in 1..k /\ d = 1 /\ "pointer" \in Pcs
    BY DEF Pcs, Kinds
  <1> HIDE DEF d
  <1>3. c \in Walks
    BY <1>2, NoWalkType DEF Walks
  <1>4. c.pc = "pointer" /\ c.f = f /\ c.kind = k /\ c.depth = d /\ c.bh = NoWalk.bh
    BY NoWalkType DEF Walks
  <1> HIDE DEF c
  <1>5. LocalOK(c)
    BY <1>2, <1>4, NoWalkType DEF LocalOK, AtPointer, OnWay
  <1>6. walkRaced' \in BOOLEAN
    BY <1>1 DEF BlocksInv, BlocksTypeOK
  <1> QED BY <1>1, <1>3, <1>4, <1>5, <1>6, QuietWalk

LEMMA FollowKeeps ==
  ASSUME BlocksInv, ~walkRaced, NEW t \in Callers, Follow(t)
  PROVE  BlocksInv'
  <1> DEFINE pc == IF walk[t].depth = walk[t].kind THEN "getblk" ELSE "bread"
             b == Pointer(t)
             c == [walk[t] EXCEPT !.pc = pc, !.new = b, !.bh = 0]
  <1>1. /\ walk[t].pc = "pointer" /\ b # 0 /\ WalksOn(t, c)
        /\ walkRaced' = (walkRaced \/ Truncates(walk[t].f)) /\ UNCHANGED <<zmap, i_zone, pointer, lost>>
    BY DEF Follow
  <1>2. BlocksTypeOK /\ walk[t] \in Walks /\ AtPointer(walk[t])
    BY <1>1 DEF BlocksInv, BlocksTypeOK, WalkOK
  <1>3. /\ walk[t].f \in FileNrs /\ walk[t].kind \in Kinds /\ walk[t].depth \in 1..walk[t].kind
        /\ b \in Zones \cup {0}
        /\ b = On(walk[t].f, walk[t].kind, walk[t].depth)
           \/ (walk[t].bh \in Zones /\ IsOff(walk[t].bh) /\ b = pointer[walk[t].bh])
    BY <1>2, PointerIs
  <1>7. b = On(walk[t].f, walk[t].kind, walk[t].depth) \/ IsOff(b) \/ walkRaced
    BY <1>3 DEF BlocksInv, TreesOK, OffOK, IsOff
  <1>4. walkRaced' \in BOOLEAN
    BY <1>1 DEF BlocksInv, BlocksTypeOK
  <1>5. CASE walkRaced'
    <2>1. BlocksTypeOK'
      <3>1. pc \in Pcs
        BY DEF Pcs
      <3> HIDE DEF b, pc
      <3>2. c \in Walks
        BY <1>2, <1>3, <3>1 DEF Walks
      <3> QED BY <1>1, <1>2, <1>4, <3>2 DEF BlocksTypeOK, WalksOn
    <2> QED BY <1>5, <2>1 DEF BlocksInv
  <1>6. CASE ~walkRaced'
    <2>1. ~ Truncates(walk[t].f)
      BY <1>1, <1>6
    <2>2. pc \in {"getblk", "bread"} /\ pc \in Pcs /\ (pc = "bread" => walk[t].depth < walk[t].kind)
      BY <1>3 DEF Pcs, Kinds
    <2> HIDE DEF b, pc
    <2>3. c \in Walks
      BY <1>2, <1>3, <2>2 DEF Walks
    <2>4. c.pc = pc /\ c.new = b /\ c.bh = 0 /\ c.f = walk[t].f /\ c.kind = walk[t].kind /\ c.depth = walk[t].depth
      BY <1>2 DEF Walks
    <2> HIDE DEF c
    <2>5. AtBlock(c)
      BY <1>1, <1>3, <1>7, <2>1, <2>2, <2>4 DEF AtBlock, OnWay
    <2>6. LocalOK(c)
      BY <2>2, <2>4, <2>5 DEF LocalOK
    <2> QED BY <1>1, <1>4, <2>2, <2>3, <2>4, <2>6, QuietWalk
  <1> QED BY <1>5, <1>6

LEMMA ReadKeeps ==
  ASSUME BlocksInv, ~walkRaced, NEW t \in Callers, Read(t)
  PROVE  BlocksInv'
  <1> DEFINE d == walk[t].depth + 1
             b == walk[t].new
             c == [walk[t] EXCEPT !.pc = "pointer", !.depth = d, !.bh = b, !.new = 0]
  <1>1. walk[t].pc = "bread" /\ WalksOn(t, c) /\ UNCHANGED <<zmap, i_zone, pointer, lost, walkRaced>>
    BY DEF Read
  <1>2. walk[t] \in Walks /\ AtBlock(walk[t])
    BY <1>1 DEF BlocksInv, BlocksTypeOK, WalkOK
  <1>3. d \in Nat /\ b \in Zones \cup {0} /\ "pointer" \in Pcs /\ 0 \in Zones \cup {0}
    BY <1>2 DEF Walks, Pcs
  <1>4. /\ walk[t].f \in FileNrs /\ walk[t].kind \in Kinds /\ d \in 2..walk[t].kind
        /\ b = On(walk[t].f, walk[t].kind, d - 1) \/ IsOff(b)
        /\ b # 0
    BY <1>1, <1>2 DEF AtBlock, OnWay, Kinds
  <1> HIDE DEF d, b
  <1>5. c \in Walks
    BY <1>2, <1>3 DEF Walks
  <1>6. c.pc = "pointer" /\ c.depth = d /\ c.bh = b /\ c.f = walk[t].f /\ c.kind = walk[t].kind
    BY <1>2 DEF Walks
  <1> HIDE DEF c
  <1>7. AtPointer(c)
    BY <1>4, <1>6 DEF AtPointer, OnWay, Kinds
  <1>8. LocalOK(c)
    BY <1>6, <1>7 DEF LocalOK
  <1>9. walkRaced' \in BOOLEAN
    BY <1>1 DEF BlocksInv, BlocksTypeOK
  <1> QED BY <1>1, <1>5, <1>6, <1>8, <1>9, QuietWalk

LEMMA UseKeeps ==
  ASSUME BlocksInv, ~walkRaced, NEW t \in Callers, Use(t)
  PROVE  BlocksInv'
  <1> DEFINE b == walk[t].new
             c == [walk[t] EXCEPT !.pc = "using", !.bh = b, !.new = 0]
  <1>1. walk[t].pc = "getblk" /\ WalksOn(t, c) /\ UNCHANGED <<zmap, i_zone, pointer, lost, walkRaced>>
    BY DEF Use
  <1>2. walk[t] \in Walks /\ AtBlock(walk[t]) /\ InFilesOK /\ OffOK
    BY <1>1 DEF BlocksInv, BlocksTypeOK, WalkOK, TreesOK
  <1>3. b \in Zones \cup {0} /\ "using" \in Pcs
    BY <1>2 DEF Walks, Pcs
  <1>4. b \in zmap
    BY <1>2, <1>3 DEF AtBlock, OnWay, InFilesOK, OffOK
  <1> HIDE DEF b
  <1>5. c \in Walks
    BY <1>2, <1>3 DEF Walks
  <1>6. c.pc = "using" /\ c.bh = b
    BY <1>2 DEF Walks
  <1> HIDE DEF c
  <1>7. LocalOK(c)
    BY <1>4, <1>6 DEF LocalOK
  <1>8. walkRaced' \in BOOLEAN
    BY <1>1 DEF BlocksInv, BlocksTypeOK
  <1> QED BY <1>1, <1>5, <1>6, <1>7, <1>8, QuietWalk

LEMMA TruncateKeeps ==
  ASSUME BlocksInv, ~walkRaced, NEW t \in Callers, NEW f \in FileNrs, Truncate(t, f)
  PROVE  BlocksInv'
  <1> DEFINE c == [NoWalk EXCEPT !.pc = "truncate", !.f = f]
  <1>1. "truncate" \in Pcs
    BY DEF Pcs
  <1>2. c \in Walks
    BY <1>1, NoWalkType DEF Walks
  <1>3. c.pc = "truncate" /\ c.f = f /\ c.bh = 0
    BY NoWalkType DEF Walks
  <1>4. /\ WalksOn(t, c) /\ UNCHANGED <<zmap, i_zone, pointer, lost>> /\ walkRaced' = (walkRaced \/ OnTheWay(f))
        /\ walk[t].pc # "new_block"
    BY DEF Truncate
  <1> HIDE DEF c
  <1>5. walkRaced' \in BOOLEAN
    BY <1>4 DEF BlocksInv, BlocksTypeOK
  <1>6. CASE walkRaced'
    BY <1>2, <1>4, <1>5, <1>6 DEF BlocksInv, BlocksTypeOK, WalksOn
  <1>7. CASE ~walkRaced'
    <2>1. \A u \in Callers : walk[u].pc \in {"bread", "getblk"} => walk[u].f # f
      BY <1>4, <1>7 DEF OnTheWay
    <2>2. LocalOK(c)
      BY <1>3, <2>1 DEF LocalOK
    <2> QED BY <1>2, <1>3, <1>4, <1>5, <2>2, QuietWalk
  <1> QED BY <1>6, <1>7

LEMMA ZonesAre ==
  ASSUME FileBlocksAssumption
  PROVE  Zones \subseteq Nat /\ 0 \notin Zones
  BY DEF FileBlocksAssumption, Zones

(* new_block marks a block that is nowhere and points to nothing. *)
LEMMA NewBlockKeeps ==
  ASSUME FileBlocksAssumption, BlocksInv, ~walkRaced, NEW t \in Callers, NewBlock(t)
  PROVE  BlocksInv'
  <1> DEFINE b == Min(Zones \ zmap)
             c == [walk[t] EXCEPT !.pc = "new_block", !.new = b]
  <1>1. /\ walk[t].pc = "pointer" /\ Pointer(t) = 0 /\ zmap # Zones /\ WalksOn(t, c) /\ zmap' = zmap \cup {b}
        /\ UNCHANGED <<i_zone, pointer, lost, walkRaced>>
    BY DEF NewBlock, FirstFree
  <1>2. BlocksTypeOK /\ TreesOK /\ \A u \in Callers : WalkOK(u)
    BY DEF BlocksInv
  <1>3. b \in Zones \ zmap
    <2>1. Zones \ zmap # {}
      BY <1>1, <1>2 DEF BlocksTypeOK
    <2>3. Zones \ zmap \in SUBSET Nat
      BY ZonesAre
    <2>2. \E n \in Zones \ zmap : \A m \in Zones \ zmap : n <= m
      BY <2>1, <2>3, LeastOf
    <2> QED BY <2>2 DEF Min
  <1>4. walk[t] \in Walks /\ AtPointer(walk[t]) /\ "new_block" \in Pcs
    BY <1>1, <1>2 DEF BlocksTypeOK, WalkOK, Pcs
  <1> HIDE DEF b
  <1>5. c \in Walks
    BY <1>3, <1>4 DEF Walks
  <1>6. c.pc = "new_block" /\ c.new = b /\ c.f = walk[t].f /\ c.kind = walk[t].kind /\ c.depth = walk[t].depth
        /\ c.bh = walk[t].bh
    BY <1>4 DEF Walks
  <1> HIDE DEF c
  <1>7. walk' = [walk EXCEPT ![t] = c] /\ walk'[t] = c /\ \A u \in Callers \ {t} : walk'[u] = walk[u]
    BY <1>1, <1>2 DEF WalksOn, BlocksTypeOK
  <1>8. BlocksTypeOK'
    BY <1>1, <1>2, <1>3, <1>5, <1>7 DEF BlocksTypeOK
  <1>9. \A f, k, d : On(f, k, d)' = On(f, k, d)
    BY <1>1 DEF On, PointerIn
  <1>10. \A a : IsOn(a)' <=> IsOn(a)
    BY <1>9 DEF IsOn
  <1>11. \A u \in Callers \ {t} : \A a : IsNew(u, a)' <=> IsNew(u, a)
    BY <1>7 DEF IsNew
  <1>16. \A a \in Zones : IsOff(a)' <=> IsOff(a)
    <2>1. pointer[b] = 0 /\ 0 \notin Zones
      BY <1>2, <1>3, ZonesAre DEF TreesOK, FreeOK
    <2> QED BY <1>1, <1>10, <2>1 DEF IsOff
  <1>12. pointer[b] = 0 /\ ~ IsOn(b) /\ b # 0
    <2>1. b # 0
      BY <1>3 DEF Zones
    <2> QED BY <1>2, <1>3, <2>1 DEF TreesOK, FreeOK, InFilesOK, IsOn
  <1>13. ASSUME NEW u \in Callers, walk[u].pc = "new_block" PROVE u # t /\ walk[u].new # b
    BY <1>1, <1>2, <1>3, <1>13 DEF WalkOK, NewOK
  <1>14. TreesOK'
    <2>1. LeavesOK' /\ InFilesOK' /\ PlacesDiffer' /\ FreeOK'
      BY <1>1, <1>2, <1>9 DEF TreesOK, LeavesOK, InFilesOK, PlacesDiffer, FreeOK
    <2>2. ASSUME NEW a \in zmap' PROVE IsOn(a)' \/ IsOff(a)' \/ \E u \in Callers : IsNew(u, a)'
      <3>1. CASE a = b
        BY <1>6, <1>7, <3>1 DEF IsNew
      <3>2. CASE a \in zmap
        <4>1. IsOn(a) \/ IsOff(a) \/ \E u \in Callers : IsNew(u, a)
          BY <1>2, <3>2 DEF TreesOK, MarkedOK
        <4>2. \A u \in Callers : IsNew(u, a) => u # t
          BY <1>13 DEF IsNew
        <4>3. a \in Zones
          BY <1>2, <3>2 DEF BlocksTypeOK
        <4> QED BY <1>10, <1>11, <1>16, <4>1, <4>2, <4>3
      <3> QED BY <1>1, <3>1, <3>2
    <2>3. OffOK'
      <3>1. ASSUME NEW a \in Zones, IsOff(a) PROVE a \in zmap /\ ~ IsOn(a) /\ \A u \in Callers : ~ IsNew(u, a)
        BY <1>2, <3>1 DEF TreesOK, OffOK
      <3>2. ASSUME NEW a \in zmap PROVE ~ IsNew(t, a)'
        BY <1>3, <1>6, <1>7 DEF IsNew
      <3> QED BY <1>1, <1>10, <1>11, <1>16, <3>1, <3>2 DEF OffOK
    <2>4. OffDiffer'
      BY <1>1, <1>2, <1>10, <1>12 DEF TreesOK, OffDiffer
    <2> QED BY <2>1, <2>2, <2>3, <2>4 DEF TreesOK, MarkedOK
  <1>15. ASSUME NEW u \in Callers PROVE WalkOK(u)'
    <2>1. CASE u = t
      <3>1. AtPointer(walk[t])'
        BY <1>2, <1>4, <1>6, <1>7, <1>9, <1>16 DEF AtPointer, OnWay, BlocksTypeOK, Walks
      <3>2. NewOK(t)'
        <4>1. \A w \in Callers \ {t} : ~ IsNew(w, b)
          BY <1>13 DEF IsNew
        <4> QED BY <1>1, <1>6, <1>7, <1>10, <1>11, <1>12, <4>1 DEF NewOK
      <3> QED BY <1>6, <1>7, <2>1, <3>1, <3>2 DEF WalkOK
    <2>2. CASE u # t
      <3>1. WalkOK(u) /\ walk'[u] = walk[u]
        BY <1>2, <1>7, <2>2
      <3>2. AtPointer(walk[u]) => AtPointer(walk[u])'
        BY <1>2, <1>9, <1>16, <3>1 DEF AtPointer, OnWay, BlocksTypeOK, Walks
      <3>3. walk[u].pc = "new_block" /\ NewOK(u) => NewOK(u)'
        <4> SUFFICES ASSUME walk[u].pc = "new_block", NewOK(u) PROVE NewOK(u)'
          OBVIOUS
        <4>1. ~ IsNew(t, walk[u].new)'
          BY <1>6, <1>7, <1>13 DEF IsNew
        <4> QED BY <1>1, <1>10, <1>11, <3>1, <4>1 DEF NewOK
      <3>4. AtBlock(walk[u]) => AtBlock(walk[u])'
        <4>1. \A f : Truncates(f)' => Truncates(f)
          BY <1>6, <1>7 DEF Truncates
        <4> QED BY <1>2, <1>9, <1>16, <3>1, <4>1 DEF AtBlock, OnWay, BlocksTypeOK, Walks
      <3> QED BY <1>1, <3>1, <3>2, <3>3, <3>4 DEF WalkOK
    <2> QED BY <2>1, <2>2
  <1> QED BY <1>8, <1>14, <1>15 DEF BlocksInv

LEMMA SetPointerIs ==
  ASSUME BlocksTypeOK, NEW t \in Callers, AtPointer(walk[t]), NEW v \in Zones, pointer[v] = 0,
         v # walk[t].bh, SetPointer(t, v)
  PROVE  LET c == walk[t] IN
         /\ (c.depth > 1 => c.bh = On(c.f, c.kind, c.depth - 1) /\ c.bh # 0) => Changes(c.f, c.kind, c.depth, v)
         /\ c.depth > 1 => i_zone' = i_zone /\ c.bh \in Zones /\ pointer' = [pointer EXCEPT ![c.bh] = v]
         /\ i_zone' \in [FileNrs -> [Kinds -> Zones \cup {0}]] /\ pointer' \in [Zones -> Zones \cup {0}]
         /\ pointer'[v] = 0
  <1>1. walk[t].f \in FileNrs /\ walk[t].kind \in Kinds /\ walk[t].depth \in 1..3
    BY PointerIs
  <1>2. CASE walk[t].depth = 1
    <2>1. i_zone' = [i_zone EXCEPT ![walk[t].f][walk[t].kind] = v] /\ pointer' = [pointer EXCEPT ![v] = 0]
      BY <1>2 DEF SetPointer
    <2>2. pointer' = pointer
      BY <2>1 DEF BlocksTypeOK
    <2>3. Changes(walk[t].f, walk[t].kind, walk[t].depth, v)
      BY <1>2, <2>1, <2>2 DEF Changes
    <2>4. i_zone' \in [FileNrs -> [Kinds -> Zones \cup {0}]]
      BY <1>1, <2>1 DEF BlocksTypeOK
    <2> QED BY <1>2, <2>2, <2>3, <2>4 DEF BlocksTypeOK
  <1>3. CASE walk[t].depth # 1
    <2>1. pointer' = [pointer EXCEPT ![walk[t].bh] = v, ![v] = 0] /\ i_zone' = i_zone
      BY <1>3 DEF SetPointer
    <2>2. walk[t].bh # 0 /\ walk[t].depth > 1
      BY <1>1, <1>3 DEF AtPointer
    <2>3. walk[t].bh \in Zones
      BY <2>2 DEF BlocksTypeOK, Walks
    <2>4. pointer' = [pointer EXCEPT ![walk[t].bh] = v]
      BY <2>1, <2>3 DEF BlocksTypeOK
    <2>5. walk[t].bh = On(walk[t].f, walk[t].kind, walk[t].depth - 1) =>
            Changes(walk[t].f, walk[t].kind, walk[t].depth, v)
      BY <2>1, <2>2, <2>4 DEF Changes
    <2>6. pointer' \in [Zones -> Zones \cup {0}] /\ pointer'[v] = 0
      BY <2>3, <2>4 DEF BlocksTypeOK
    <2> QED BY <2>1, <2>2, <2>3, <2>4, <2>5, <2>6 DEF BlocksTypeOK
  <1> QED BY <1>2, <1>3

(* What a block in no file points to does not matter to the files. *)
LEMMA OnStays ==
  ASSUME BlocksTypeOK, LeavesOK, i_zone' = i_zone, \A b \in Zones : IsOn(b) => pointer'[b] = pointer[b]
  PROVE  LeavesOK' /\ \A g \in FileNrs, l \in Kinds : \A e \in 1..l : On(g, l, e)' = On(g, l, e)
  <1> SUFFICES ASSUME NEW g \in FileNrs, NEW l \in Kinds
               PROVE  On(g, l, l + 1)' = 0 /\ \A e \in 1..l : On(g, l, e)' = On(g, l, e)
    BY DEF LeavesOK
  <1> DEFINE NextOf(b) == IF b = 0 THEN 0 ELSE pointer'[b]
  <1>1. /\ On(g, l, 1)' = i_zone'[g][l] /\ On(g, l, 2)' = NextOf(On(g, l, 1)')
        /\ On(g, l, 3)' = NextOf(On(g, l, 2)') /\ On(g, l, 4)' = NextOf(On(g, l, 3)')
    BY DEF On, PointerIn
  <1>2. l \in {1, 2, 3} /\ On(g, l, 1)' = On(g, l, 1) /\ On(g, l, l + 1) = 0
    BY <1>1, OnIs DEF Kinds, LeavesOK
  <1>3. ASSUME NEW e \in 1..l PROVE NextOf(On(g, l, e)) = PointerIn(On(g, l, e))
    <2>1. On(g, l, e) \in Zones \cup {0} /\ IsOn(On(g, l, e))
      BY <1>2, OnIs DEF IsOn
    <2> QED BY <2>1 DEF PointerIn
  <1> HIDE DEF NextOf
  <1>4. l >= 1 => On(g, l, 2)' = On(g, l, 2)
    BY <1>1, <1>2, <1>3, OnIs
  <1>5. l >= 2 => On(g, l, 3)' = On(g, l, 3)
    BY <1>1, <1>2, <1>3, <1>4, OnIs
  <1>6. l >= 3 => On(g, l, 4)' = On(g, l, 4)
    BY <1>1, <1>2, <1>3, <1>5, OnIs
  <1> QED BY <1>2, <1>4, <1>5, <1>6

LEMMA AllocatedKeeps ==
  ASSUME FileBlocksAssumption, BlocksInv, ~walkRaced, NEW t \in Callers, Allocated(t)
  PROVE  BlocksInv'
  <1> DEFINE v == walk[t].new
             c == [walk[t] EXCEPT !.pc = "pointer", !.new = 0]
             f == walk[t].f
             k == walk[t].kind
             m == walk[t].depth
  <1>1. /\ walk[t].pc = "new_block" /\ SetPointer(t, v) /\ WalksOn(t, c)
        /\ walkRaced' = (walkRaced \/ Pointer(t) # 0) /\ zmap' = zmap /\ lost' = lost
    BY DEF Allocated
  <1>2. BlocksTypeOK /\ TreesOK /\ \A u \in Callers : WalkOK(u)
    BY DEF BlocksInv
  <1>3. walk[t] \in Walks /\ AtPointer(walk[t]) /\ NewOK(t) /\ "pointer" \in Pcs
    BY <1>1, <1>2 DEF BlocksTypeOK, WalkOK, Pcs
  <1>4. v \in Zones /\ v \in zmap /\ v # 0 /\ pointer[v] = 0 /\ ~ IsOn(v)
    BY <1>2, <1>3, ZonesAre DEF NewOK, BlocksTypeOK
  <1> DEFINE h == walk[t].bh
             Placed == m > 1 => h = On(f, k, m - 1) /\ h # 0
  <1>5. /\ f \in FileNrs /\ k \in Kinds /\ m \in 1..k /\ m \in 1..3 /\ Pointer(t) \in Zones \cup {0}
        /\ \/ m > 1 /\ h \in Zones /\ IsOff(h) /\ Pointer(t) = pointer[h]
           \/ Pointer(t) = On(f, k, m) /\ Placed
    BY <1>2, <1>3, PointerIs
  <1>6. c \in Walks
    BY <1>3 DEF Walks
  <1>7. c.pc = "pointer" /\ c.f = f /\ c.kind = k /\ c.depth = m /\ c.bh = walk[t].bh
    BY <1>3 DEF Walks
  <1> HIDE DEF c
  <1>8. walk' = [walk EXCEPT ![t] = c] /\ walk'[t] = c /\ \A u \in Callers \ {t} : walk'[u] = walk[u]
    BY <1>1, <1>2 DEF WalksOn, BlocksTypeOK
  <1>9. walkRaced' \in BOOLEAN /\ walk' \in [Callers -> Walks] /\ zmap' \subseteq Zones
    BY <1>1, <1>2, <1>6, <1>8 DEF BlocksTypeOK
  <1>10. v # h
    <2>1. SUFFICES ASSUME v = h PROVE FALSE
      OBVIOUS
    <2>2. ~ IsOff(v)
      BY <1>1, <1>2, <1>4 DEF TreesOK, OffOK, IsNew
    <2>3. m > 1 /\ h = On(f, k, m - 1) /\ m - 1 \in 1..k
      BY <1>3, <1>4, <1>5, <2>1, <2>2 DEF AtPointer, Kinds
    <2> QED BY <1>4, <1>5, <2>1, <2>3 DEF IsOn
  <1> HIDE DEF Placed
  <1>11. /\ Placed => Changes(f, k, m, v)
         /\ m > 1 => i_zone' = i_zone /\ h \in Zones /\ pointer' = [pointer EXCEPT ![h] = v]
         /\ BlocksTypeOK' /\ pointer'[v] = 0
    BY <1>1, <1>2, <1>3, <1>4, <1>9, <1>10, SetPointerIs DEF BlocksTypeOK, Placed
  <1>12. CASE walkRaced'
    BY <1>11, <1>12 DEF BlocksInv
  <1>13. CASE ~walkRaced'
    <2>1. Pointer(t) = 0
      BY <1>1, <1>13
    <2>3. LeavesOK /\ InFilesOK /\ PlacesDiffer /\ MarkedOK /\ FreeOK /\ OffOK /\ OffDiffer
      BY <1>2 DEF TreesOK
    <2>12. \A u \in Callers \ {t} : \A b : IsNew(u, b)' <=> IsNew(u, b)
      BY <1>8 DEF IsNew
    <2>13. \A b : ~ IsNew(t, b)'
      BY <1>7, <1>8 DEF IsNew
    <2>18. IsNew(t, v) /\ ~ IsOff(v) /\ v \notin lost
      BY <1>1, <1>4, <2>3 DEF IsNew, OffOK, IsOff
    <2>19. \A u \in Callers \ {t} : ~ IsNew(u, v)
      BY <1>3 DEF NewOK
    <2>22. \A b : IsNew(t, b) => b = v
      BY DEF IsNew
    <2> DEFINE Kept == /\ TreesOK'
                       /\ \A g \in FileNrs, l \in Kinds : \A e \in 1..l : On(g, l, e) # 0 => On(g, l, e)' = On(g, l, e)
                       /\ \A b \in Zones : IsOff(b) => IsOff(b)'
                       /\ \A b \in Zones : IsOn(b)' => b = v \/ IsOn(b)
                       /\ \A b \in Zones : pointer[b] = 0 /\ b # v /\ ~ IsOff(b) /\ ~ IsOn(b) => pointer'[b] = 0
    <2> HIDE DEF f, k, m, v, h
    <2>20. ASSUME Placed, Pointer(t) = On(f, k, m) PROVE Kept
      <3>1. On(f, k, m) = 0 /\ PointerIn(On(f, k, m)) = 0
        BY <2>1, <2>20 DEF PointerIn
      <3>2. v \in Zones \cup {0} /\ (v # 0 => ~IsOn(v) /\ pointer[v] = 0)
        BY <1>4
      <3>3. /\ \A g \in FileNrs, l \in Kinds : \A e \in 1..l :
                 On(g, l, e)' = IF g = f /\ l = k /\ e = m THEN v ELSE On(g, l, e)
            /\ LeavesOK'
        BY <1>2, <1>5, <1>11, <2>3, <2>20, <3>1, <3>2, OnChanges
      <3>4. \A g \in FileNrs, l \in Kinds : \A e \in 1..l :
              On(g, l, e) # 0 => On(g, l, e)' = On(g, l, e) /\ On(g, l, e) # v
        BY <1>4, <3>1, <3>3 DEF IsOn
      <3>5. InFilesOK'
        BY <1>1, <1>4, <2>3, <3>3 DEF InFilesOK
      <3>6. PlacesDiffer'
        <4> SUFFICES ASSUME NEW g \in FileNrs, NEW i \in FileNrs, NEW l \in Kinds, NEW n \in Kinds,
                            NEW d \in 1..l, NEW e \in 1..n, On(g, l, d)' # 0, On(g, l, d)' = On(i, n, e)'
                     PROVE  g = i /\ l = n /\ d = e
          BY DEF PlacesDiffer
        <4>1. CASE (g = f /\ l = k /\ d = m) \/ (i = f /\ n = k /\ e = m)
          <5>1. On(g, l, d)' = v
            BY <3>3, <4>1
          <5>2. On(g, l, d) = v \/ (g = f /\ l = k /\ d = m)
            BY <3>3, <5>1
          <5>3. On(i, n, e) = v \/ (i = f /\ n = k /\ e = m)
            BY <3>3, <5>1
          <5> QED BY <1>4, <5>2, <5>3 DEF IsOn
        <4>2. CASE ~ (g = f /\ l = k /\ d = m) /\ ~ (i = f /\ n = k /\ e = m)
          <5>1. On(g, l, d) # 0 /\ On(g, l, d) = On(i, n, e)
            BY <3>3, <4>2
          <5> QED BY <2>3, <5>1 DEF PlacesDiffer
        <4> QED BY <4>1, <4>2
      <3>7. \A b : (IsOn(b) /\ b # 0) \/ b = v => IsOn(b)'
        BY <1>5, <3>3, <3>4 DEF IsOn
      <3>8. \A b : IsOn(b)' => b = v \/ IsOn(b)
        BY <3>3 DEF IsOn
      <3>9. \A b \in Zones : ~ IsOn(b) => pointer'[b] = pointer[b]
        <4>1. CASE pointer' = pointer
          BY <4>1
        <4>2. CASE m > 1 /\ pointer' = [pointer EXCEPT ![On(f, k, m - 1)] = v]
          <5>1. m - 1 \in 1..k
            BY <1>5, <4>2 DEF Kinds
          <5>2. IsOn(On(f, k, m - 1))
            BY <1>5, <5>1 DEF IsOn
          <5> QED BY <1>2, <4>2, <5>2 DEF BlocksTypeOK
        <4> QED BY <1>11, <2>20, <4>1, <4>2 DEF Changes
      <3>10. FreeOK'
        <4> SUFFICES ASSUME NEW b \in Zones \ zmap' PROVE pointer'[b] = 0
          BY DEF FreeOK
        <4>1. pointer[b] = 0 /\ ~ IsOn(b)
          BY <1>1, <2>3, ZonesAre DEF FreeOK, InFilesOK, IsOn
        <4> QED BY <3>9, <4>1
      <3>11. \A b \in Zones : IsOff(b)' <=> IsOff(b)
        <4> SUFFICES ASSUME NEW b \in Zones, NEW a \in zmap
                     PROVE  ~ IsOn(a)' /\ pointer'[a] = b <=> ~ IsOn(a) /\ pointer[a] = b
          BY <1>1 DEF IsOff
        <4>1. a \in Zones /\ a # 0 /\ b # 0
          BY <1>2, ZonesAre DEF BlocksTypeOK
        <4> QED BY <1>4, <3>7, <3>8, <3>9, <4>1
      <3>12. OffOK'
        BY <1>1, <2>3, <2>12, <2>13, <2>18, <3>8, <3>11 DEF OffOK
      <3>13. OffDiffer'
        <4>1. \A a \in zmap : ~ IsOn(a)' => ~ IsOn(a) /\ pointer'[a] = pointer[a]
          <5> SUFFICES ASSUME NEW a \in zmap, ~ IsOn(a)' PROVE ~ IsOn(a) /\ pointer'[a] = pointer[a]
            OBVIOUS
          <5>1. a \in Zones /\ a # 0
            BY <1>2, ZonesAre DEF BlocksTypeOK
          <5> QED BY <3>7, <3>9, <5>1
        <4> QED BY <1>1, <2>3, <4>1 DEF OffDiffer
      <3>14. MarkedOK'
        <4> SUFFICES ASSUME NEW b \in zmap PROVE IsOn(b)' \/ IsOff(b)' \/ \E u \in Callers : IsNew(u, b)'
          BY <1>1 DEF MarkedOK
        <4>1. b # 0 /\ b \in Zones /\ (IsOn(b) \/ IsOff(b) \/ \E u \in Callers : IsNew(u, b))
          BY <1>2, <2>3, ZonesAre DEF MarkedOK, BlocksTypeOK
        <4> QED BY <2>12, <2>22, <3>7, <3>11, <4>1
      <3> QED BY <3>3, <3>4, <3>5, <3>6, <3>8, <3>9, <3>10, <3>11, <3>12, <3>13, <3>14 DEF TreesOK
    <2>21. ASSUME m > 1, h \in Zones, IsOff(h), Pointer(t) = pointer[h] PROVE Kept
      <3>1. pointer[h] = 0 /\ h \in zmap /\ ~ IsOn(h) /\ h # v /\ h # 0
        BY <1>10, <2>1, <2>3, <2>21, ZonesAre DEF OffOK
      <3>2. i_zone' = i_zone /\ pointer' = [pointer EXCEPT ![h] = v] /\ pointer \in [Zones -> Zones \cup {0}]
        BY <1>2, <1>11, <2>21 DEF BlocksTypeOK
      <3>3. \A b \in Zones : pointer'[b] = IF b = h THEN v ELSE pointer[b]
        BY <3>2
      <3>4. LeavesOK' /\ \A g \in FileNrs, l \in Kinds : \A e \in 1..l : On(g, l, e)' = On(g, l, e)
        BY <1>2, <2>3, <3>1, <3>2, <3>3, OnStays
      <3>5. \A b : IsOn(b)' <=> IsOn(b)
        BY <3>4 DEF IsOn
      <3>6. InFilesOK' /\ PlacesDiffer'
        BY <1>1, <2>3, <3>4 DEF InFilesOK, PlacesDiffer
      <3>7. FreeOK'
        BY <1>1, <2>3, <3>1, <3>3 DEF FreeOK
      <3>8. \A b \in Zones : IsOff(b)' <=> IsOff(b) \/ b = v
        <4> SUFFICES ASSUME NEW b \in Zones PROVE IsOff(b)' <=> IsOff(b) \/ b = v
          OBVIOUS
        <4>1. \A a \in zmap : a \in Zones
          BY <1>2 DEF BlocksTypeOK
        <4>2. b # 0
          BY ZonesAre
        <4>3. IsOff(b)' <=> b \in lost \/ \E a \in zmap : ~ IsOn(a) /\ pointer'[a] = b
          BY <1>1, <3>5 DEF IsOff
        <4> QED BY <3>1, <3>3, <4>1, <4>2, <4>3 DEF IsOff
      <3>9. OffOK'
        BY <1>1, <1>4, <2>3, <2>12, <2>13, <2>18, <2>19, <3>5, <3>8 DEF OffOK
      <3>10. OffDiffer'
        <4> SUFFICES ASSUME NEW a \in zmap, NEW b \in zmap, ~ IsOn(a), ~ IsOn(b), pointer'[a] # 0
                     PROVE  pointer'[a] \notin lost /\ (pointer'[a] = pointer'[b] => a = b)
          BY <1>1, <3>5 DEF OffDiffer
        <4>1. a \in Zones /\ b \in Zones
          BY <1>2 DEF BlocksTypeOK
        <4>2. pointer[a] # v /\ pointer[b] # v
          BY <2>18 DEF IsOff
        <4> QED BY <2>3, <2>18, <3>3, <4>1, <4>2 DEF OffDiffer
      <3>11. MarkedOK'
        <4> SUFFICES ASSUME NEW b \in zmap PROVE IsOn(b)' \/ IsOff(b)' \/ \E u \in Callers : IsNew(u, b)'
          BY <1>1 DEF MarkedOK
        <4>1. b \in Zones /\ (IsOn(b) \/ IsOff(b) \/ \E u \in Callers : IsNew(u, b))
          BY <1>2, <2>3 DEF MarkedOK, BlocksTypeOK
        <4> QED BY <2>12, <2>22, <3>5, <3>8, <4>1
      <3> QED BY <2>21, <3>3, <3>4, <3>5, <3>6, <3>7, <3>8, <3>9, <3>10, <3>11 DEF TreesOK
    <2>23. Kept
      BY <1>5, <2>20, <2>21
    <2>24. /\ TreesOK'
           /\ \A g \in FileNrs, l \in Kinds : \A e \in 1..l : On(g, l, e) # 0 => On(g, l, e)' = On(g, l, e)
           /\ \A b \in Zones : IsOff(b) => IsOff(b)'
           /\ \A b \in Zones : IsOn(b)' => b = v \/ IsOn(b)
           /\ \A b \in Zones : pointer[b] = 0 /\ b # v /\ ~ IsOff(b) /\ ~ IsOn(b) => pointer'[b] = 0
      BY <2>23
    <2> HIDE DEF Kept
    <2>17. ASSUME NEW u \in Callers PROVE WalkOK(u)'
      <3>1. ASSUME NEW r, r.bh \in Zones \cup {0}, AtPointer(r) PROVE AtPointer(r)'
        <4>1. CASE r.depth = 1
          BY <3>1, <4>1 DEF AtPointer, OnWay
        <4>2. CASE r.depth # 1
          <5>1. r.f \in FileNrs /\ r.kind \in Kinds /\ r.depth \in 1..3 /\ r.depth - 1 \in 1..r.kind /\ OnWay(r)
                /\ (r.bh = On(r.f, r.kind, r.depth - 1) \/ IsOff(r.bh)) /\ r.bh # 0
            BY <3>1, <4>2 DEF AtPointer, OnWay, Kinds
          <5>2. r.bh = On(r.f, r.kind, r.depth - 1) => r.bh = On(r.f, r.kind, r.depth - 1)'
            BY <2>24, <5>1
          <5>3. IsOff(r.bh) => IsOff(r.bh)'
            BY <2>24, <3>1, <5>1
          <5> QED BY <4>2, <5>1, <5>2, <5>3 DEF AtPointer, OnWay
        <4> QED BY <4>1, <4>2
      <3>4. walk[u].bh \in Zones \cup {0} /\ c.bh \in Zones \cup {0} /\ walk[u].new \in Zones \cup {0}
        BY <1>2, <1>6 DEF BlocksTypeOK, Walks
      <3>2. CASE u = t
        <4>1. AtPointer(c)
          BY <1>3, <1>7 DEF AtPointer, OnWay, f, k, m
        <4>2. PICK r : r = c
          OBVIOUS
        <4>4. AtPointer(r)'
          BY <3>1, <3>4, <4>1, <4>2
        <4>3. AtPointer(walk[t])'
          BY <1>8, <4>2, <4>4 DEF AtPointer, OnWay
        <4> QED BY <1>7, <1>8, <3>2, <4>3 DEF WalkOK
      <3>3. CASE u # t
        <4>1. WalkOK(u) /\ walk'[u] = walk[u]
          BY <1>2, <1>8, <3>3
        <4>2. AtPointer(walk[u]) => AtPointer(walk[u])'
          <5>1. \A r : r = walk[u] /\ AtPointer(r)' => AtPointer(walk[u])'
            BY <4>1 DEF AtPointer, OnWay
          <5> QED BY <3>1, <3>4, <5>1
        <4>3. walk[u].pc = "new_block" /\ NewOK(u) => NewOK(u)'
          <5> SUFFICES ASSUME walk[u].pc = "new_block", NewOK(u) PROVE NewOK(u)'
            OBVIOUS
          <5>1. ~ IsNew(t, walk[u].new)
            BY <3>3 DEF NewOK
          <5>2. walk[u].new # v
            BY <2>18, <5>1
          <5>3. walk[u].new \in zmap /\ pointer[walk[u].new] = 0 /\ ~ IsOn(walk[u].new) /\ walk[u].new \in Zones
                /\ ~ IsOff(walk[u].new)
            BY <1>2, <2>3 DEF NewOK, BlocksTypeOK, OffOK, IsNew
          <5>4. pointer'[walk[u].new] = 0 /\ ~ IsOn(walk[u].new)'
            BY <2>24, <5>2, <5>3, <4>1
          <5>5. \A w \in Callers \ {u} : ~ IsNew(w, walk[u].new)'
            BY <2>12, <2>13, <4>1 DEF NewOK, IsNew
          <5> QED BY <1>1, <4>1, <5>3, <5>4, <5>5 DEF NewOK
        <4>4. AtBlock(walk[u]) => AtBlock(walk[u])'
          <5> SUFFICES ASSUME AtBlock(walk[u]) PROVE AtBlock(walk[u])'
            OBVIOUS
          <5>1. \A g : Truncates(g)' => Truncates(g)
            BY <1>7, <1>8 DEF Truncates
          <5>2. walk[u].new = On(walk[u].f, walk[u].kind, walk[u].depth) =>
                  On(walk[u].f, walk[u].kind, walk[u].depth)' = On(walk[u].f, walk[u].kind, walk[u].depth)
            <6>1. walk'[u] = walk[u]
              BY <4>1
            <6>2. walk[u].f \in FileNrs /\ walk[u].kind \in Kinds /\ walk[u].depth \in 1..walk[u].kind
                  /\ walk[u].new # 0
              BY DEF AtBlock, OnWay
            <6> QED BY <2>24, <6>1, <6>2
          <5>3. IsOff(walk[u].new) => IsOff(walk[u].new)'
            <6>1. \A b : b = walk[u].new /\ IsOff(b) /\ b # 0 => IsOff(b)'
              BY <2>24, <3>4
            <6>2. \A b : b = walk[u].new /\ IsOff(b)' => IsOff(walk[u].new)'
              BY <4>1 DEF IsOff
            <6> QED BY <6>1, <6>2 DEF AtBlock
          <5> QED BY <4>1, <5>1, <5>2, <5>3 DEF AtBlock, OnWay
        <4> QED BY <1>1, <4>1, <4>2, <4>3, <4>4 DEF WalkOK
      <3> QED BY <3>2, <3>3
    <2> QED BY <1>11, <2>24, <2>17 DEF BlocksInv
  <1> QED BY <1>12, <1>13

(* The last block from a pointer of an inode on points to nothing. *)
LEMMA DeepestIs ==
  ASSUME BlocksTypeOK, LeavesOK, NEW f \in FileNrs, NEW k \in Kinds, Deepest(f, k)[1] # 0
  PROVE  \E m \in 1..k :
           /\ On(f, k, m) = Deepest(f, k)[1] /\ PointerIn(Deepest(f, k)[1]) = 0
           /\ \/ m = 1 /\ Deepest(f, k)[2] = 0
              \/ m > 1 /\ Deepest(f, k)[2] # 0 /\ Deepest(f, k)[2] = On(f, k, m - 1)
  <1> DEFINE a == On(f, k, 1)
             b == On(f, k, 2)
             c == On(f, k, 3)
  <1>1. k \in {1, 2, 3} /\ i_zone[f][k] = a
    BY DEF Kinds, On
  <1>2. /\ (k = 1 => b = 0) /\ (k = 2 => c = 0) /\ (k = 3 => On(f, k, 4) = 0)
        /\ b = PointerIn(a) /\ c = PointerIn(b) /\ On(f, k, 4) = PointerIn(c)
    BY OnIs, <1>1 DEF LeavesOK
  <1>3. (a = 0 => b = 0) /\ (b = 0 => c = 0) /\ PointerIn(0) = 0
    BY <1>2 DEF PointerIn
  <1>4. Deepest(f, k) = IF c # 0 THEN <<c, b>> ELSE IF b # 0 THEN <<b, a>> ELSE <<a, 0>>
    <2> DEFINE bb == IF a = 0 \/ k < 2 THEN 0 ELSE pointer[a]
               cc == IF bb = 0 \/ k < 3 THEN 0 ELSE pointer[bb]
    <2>1. Deepest(f, k) = IF cc # 0 THEN <<cc, bb>> ELSE IF bb # 0 THEN <<bb, a>> ELSE <<a, 0>>
      BY <1>1 DEF Deepest
    <2>2. bb = b
      BY <1>1, <1>2 DEF PointerIn
    <2>3. cc = c
      <3> HIDE DEF bb, a, b, c
      <3>1. k < 3 => c = 0
        BY <1>1, <1>2, <1>3
      <3> QED BY <1>1, <1>2, <2>2, <3>1 DEF PointerIn
    <2> HIDE DEF bb, cc, a, b, c
    <2> QED BY <2>1, <2>2, <2>3
  <1>5. a = On(f, k, 2 - 1) /\ b = On(f, k, 3 - 1)
    OBVIOUS
  <1>6. c = On(f, k, 3) /\ b = On(f, k, 2) /\ a = On(f, k, 1)
    OBVIOUS
  <1> HIDE DEF a, b, c
  <1>7. CASE c # 0
    <2>1. 3 \in 1..k /\ b # 0 /\ 3 > 1
      BY <1>1, <1>2, <1>3, <1>7
    <2>2. Deepest(f, k)[1] = c /\ Deepest(f, k)[2] = b
      BY <1>4, <1>7
    <2>3. PointerIn(c) = 0
      BY <1>1, <1>2, <1>3, <1>7
    <2> QED BY <1>5, <1>6, <2>1, <2>2, <2>3
  <1>8. CASE c = 0 /\ b # 0
    <2>1. 2 \in 1..k /\ a # 0 /\ 2 > 1
      BY <1>1, <1>2, <1>3, <1>8
    <2>2. Deepest(f, k)[1] = b /\ Deepest(f, k)[2] = a
      BY <1>4, <1>8
    <2>3. PointerIn(b) = 0
      BY <1>2, <1>8
    <2> QED BY <1>5, <1>6, <2>1, <2>2, <2>3
  <1>9. CASE c = 0 /\ b = 0
    <2>1. 1 \in 1..k
      BY <1>1
    <2>2. Deepest(f, k)[1] = a /\ Deepest(f, k)[2] = 0
      BY <1>4, <1>9
    <2>3. PointerIn(a) = 0
      BY <1>2, <1>9
    <2> QED BY <1>5, <1>6, <2>1, <2>2, <2>3
  <1> QED BY <1>7, <1>8, <1>9

(* A block of a file is freed and its pointer cleared; what it pointed to, if
   anything, is lost. *)
Cuts(f, k, m, b) ==
  /\ zmap' = zmap \ {b} /\ lost' = lost \cup ({pointer[b]} \ {0})
  /\ m = 1 => i_zone' = [i_zone EXCEPT ![f][k] = 0]
  /\ m > 1 => i_zone' = i_zone
  /\ pointer' \in [Zones -> Zones \cup {0}]
  /\ \A a \in Zones : pointer'[a] = IF a = b \/ (m > 1 /\ a = On(f, k, m - 1)) THEN 0 ELSE pointer[a]

LEMMA OnNext ==
  ASSUME NEW g, NEW l
  PROVE  LET NextOf(a) == IF a = 0 THEN 0 ELSE pointer'[a] IN
         /\ On(g, l, 1)' = i_zone'[g][l] /\ On(g, l, 2)' = NextOf(On(g, l, 1)')
         /\ On(g, l, 3)' = NextOf(On(g, l, 2)') /\ On(g, l, 4)' = NextOf(On(g, l, 3)')
  BY DEF On, PointerIn

LEMMA OnCut ==
  ASSUME FileBlocksAssumption, BlocksTypeOK, LeavesOK, PlacesDiffer,
         NEW f \in FileNrs, NEW k \in Kinds, NEW m \in 1..k, NEW b \in Zones, b = On(f, k, m), Cuts(f, k, m, b)
  PROVE  /\ \A g \in FileNrs, l \in Kinds : \A e \in 1..l :
              On(g, l, e)' = IF g = f /\ l = k /\ e >= m THEN 0 ELSE On(g, l, e)
         /\ LeavesOK'
  <1> DEFINE NextOf(a) == IF a = 0 THEN 0 ELSE pointer'[a]
  <1>1. m \in 1..3 /\ k \in 1..3 /\ m <= k /\ Kinds = 1..3 /\ b # 0 /\ 0 \notin Zones
    BY ZonesAre DEF Kinds
  <1>2. \A g \in FileNrs, l \in Kinds :
          /\ On(g, l, 1)' = i_zone'[g][l] /\ On(g, l, 2)' = NextOf(On(g, l, 1)')
          /\ On(g, l, 3)' = NextOf(On(g, l, 2)') /\ On(g, l, 4)' = NextOf(On(g, l, 3)')
    BY OnNext
  <1>3. \A g \in FileNrs, l \in Kinds :
          On(g, l, 1)' = IF g = f /\ l = k /\ m = 1 THEN 0 ELSE On(g, l, 1)
    <2>1. CASE m = 1
      BY <1>2, <2>1, OnIs DEF Cuts, BlocksTypeOK
    <2>2. CASE m > 1
      BY <1>2, <2>2, OnIs DEF Cuts
    <2> QED BY <1>1, <2>1, <2>2
  <1>4. ASSUME NEW g \in FileNrs, NEW l \in Kinds, NEW e \in 1..l, ~ (g = f /\ l = k /\ e >= m - 1)
        PROVE  NextOf(On(g, l, e)) = PointerIn(On(g, l, e))
    <2>1. e \in 1..3 /\ On(g, l, e) \in Zones \cup {0}
      BY <1>1, OnIs
    <2>2. On(g, l, e) = b => g = f /\ l = k /\ e = m
      BY <1>1 DEF PlacesDiffer
    <2>3. m > 1 /\ On(g, l, e) = On(f, k, m - 1) /\ On(g, l, e) # 0 => g = f /\ l = k /\ e = m - 1
      BY <1>1 DEF PlacesDiffer
    <2> QED BY <1>1, <1>4, <2>1, <2>2, <2>3 DEF Cuts, PointerIn
  <1>5. NextOf(0) = 0 /\ (m > 1 => NextOf(On(f, k, m - 1)) = 0)
    <2>1. m > 1 => On(f, k, m - 1) \in Zones \cup {0}
      BY <1>1, OnIs
    <2> QED BY <2>1 DEF Cuts
  <1> HIDE DEF NextOf
  <1>6. \A g \in FileNrs, l \in Kinds : l >= 1 =>
          On(g, l, 2)' = IF g = f /\ l = k /\ 2 >= m THEN 0 ELSE On(g, l, 2)
    <2> SUFFICES ASSUME NEW g \in FileNrs, NEW l \in Kinds
                 PROVE  On(g, l, 2)' = IF g = f /\ l = k /\ 2 >= m THEN 0 ELSE On(g, l, 2)
      OBVIOUS
    <2>1. On(g, l, 2)' = NextOf(On(g, l, 1)') /\ On(g, l, 2) = PointerIn(On(g, l, 1)) /\ 1 \in 1..l
      BY <1>1, <1>2, OnIs
    <2>2. CASE g = f /\ l = k /\ m = 1
      BY <1>3, <1>5, <2>1, <2>2
    <2>3. CASE g = f /\ l = k /\ m = 2
      BY <1>3, <1>5, <2>1, <2>3
    <2>4. CASE ~ (g = f /\ l = k /\ 1 >= m - 1)
      BY <1>1, <1>3, <1>4, <2>1, <2>4
    <2> QED BY <1>1, <2>2, <2>3, <2>4
  <1>7. \A g \in FileNrs, l \in Kinds : l >= 2 =>
          On(g, l, 3)' = IF g = f /\ l = k /\ 3 >= m THEN 0 ELSE On(g, l, 3)
    <2> SUFFICES ASSUME NEW g \in FileNrs, NEW l \in Kinds, l >= 2
                 PROVE  On(g, l, 3)' = IF g = f /\ l = k /\ 3 >= m THEN 0 ELSE On(g, l, 3)
      OBVIOUS
    <2>1. On(g, l, 3)' = NextOf(On(g, l, 2)') /\ On(g, l, 3) = PointerIn(On(g, l, 2)) /\ 2 \in 1..l /\ l >= 1
      BY <1>1, <1>2, OnIs
    <2>2. CASE g = f /\ l = k /\ 2 >= m
      BY <1>1, <1>5, <1>6, <2>1, <2>2
    <2>3. CASE g = f /\ l = k /\ m = 3
      BY <1>5, <1>6, <2>1, <2>3
    <2>4. CASE ~ (g = f /\ l = k /\ 2 >= m - 1)
      BY <1>1, <1>4, <1>6, <2>1, <2>4
    <2> QED BY <1>1, <2>2, <2>3, <2>4
  <1>8. \A g \in FileNrs, l \in Kinds : l = 3 =>
          On(g, l, 4)' = IF g = f /\ l = k THEN 0 ELSE On(g, l, 4)
    <2> SUFFICES ASSUME NEW g \in FileNrs, NEW l \in Kinds, l = 3
                 PROVE  On(g, l, 4)' = IF g = f /\ l = k THEN 0 ELSE On(g, l, 4)
      OBVIOUS
    <2>1. On(g, l, 4)' = NextOf(On(g, l, 3)') /\ On(g, l, 4) = PointerIn(On(g, l, 3)) /\ 3 \in 1..l /\ l >= 2
      BY <1>2, OnIs
    <2>2. CASE g = f /\ l = k
      BY <1>1, <1>5, <1>7, <2>1, <2>2
    <2>3. CASE ~ (g = f /\ l = k)
      BY <1>4, <1>7, <2>1, <2>3
    <2> QED BY <2>2, <2>3
  <1>9. LeavesOK'
    <2> SUFFICES ASSUME NEW g \in FileNrs, NEW l \in Kinds PROVE On(g, l, l + 1)' = 0
      BY DEF LeavesOK
    <2>1. l \in {1, 2, 3} /\ On(g, l, l + 1) = 0
      BY <1>1 DEF LeavesOK
    <2> QED BY <1>6, <1>7, <1>8, <2>1
  <1>10. ASSUME NEW g \in FileNrs, NEW l \in Kinds, NEW e \in 1..l
         PROVE  On(g, l, e)' = IF g = f /\ l = k /\ e >= m THEN 0 ELSE On(g, l, e)
    <2>1. e \in {1, 2, 3} /\ l >= e
      BY <1>1
    <2> QED BY <1>1, <1>3, <1>6, <1>7, <2>1
  <1> QED BY <1>9, <1>10

(* truncate frees a block that nobody uses; the tasks on their way to another
   one keep the place they have come to, in a file or off it. *)
LEMMA CutKeeps ==
  ASSUME FileBlocksAssumption, BlocksInv, ~walkRaced, NEW t \in Callers,
         NEW f \in FileNrs, NEW k \in Kinds, NEW m \in 1..k, NEW b \in Zones, b = On(f, k, m),
         walk[t].pc = "truncate", walk[t].f = f, ~ Busy(b, {t}), walk' = walk, walkRaced' = walkRaced, Cuts(f, k, m, b)
  PROVE  BlocksInv'
  <1>1. zmap' = zmap \ {b} /\ lost' = lost \cup ({pointer[b]} \ {0}) /\ pointer' \in [Zones -> Zones \cup {0}]
    BY DEF Cuts
  <1>2. BlocksTypeOK /\ \A u \in Callers : WalkOK(u)
    BY DEF BlocksInv
  <1>3. LeavesOK /\ InFilesOK /\ PlacesDiffer /\ MarkedOK /\ FreeOK /\ OffOK /\ OffDiffer
    BY DEF BlocksInv, TreesOK
  <1>4. m \in 1..3 /\ k \in 1..3 /\ Kinds = 1..3 /\ 0 \notin Zones /\ b # 0 /\ walk[t].bh = 0 /\ IsOn(b)
    BY <1>2, ZonesAre DEF Kinds, WalkOK, IsOn
  <1>5. b \in zmap /\ zmap \subseteq Zones /\ pointer[b] \in Zones \cup {0}
    BY <1>2, <1>3, <1>4 DEF InFilesOK, BlocksTypeOK
  <1>6. /\ \A g \in FileNrs, l \in Kinds : \A e \in 1..l :
             On(g, l, e)' = IF g = f /\ l = k /\ e >= m THEN 0 ELSE On(g, l, e)
        /\ LeavesOK'
    BY <1>2, <1>3, OnCut
  <1> DEFINE Below(a) == \E e \in 1..k : e > m /\ On(f, k, e) = a
  <1>7. ASSUME NEW g \in FileNrs, NEW l \in Kinds, NEW e \in 1..l, On(g, l, e)' # 0
        PROVE  On(g, l, e)' = On(g, l, e) /\ On(g, l, e) # b
    <2>1. ~ (g = f /\ l = k /\ e >= m) /\ On(g, l, e)' = On(g, l, e)
      BY <1>6, <1>7
    <2>2. On(g, l, e) = b => g = f /\ l = k /\ e = m
      BY <1>3, <1>4 DEF PlacesDiffer
    <2> QED BY <1>4, <2>1, <2>2
  <1>8. \A a : a # 0 /\ IsOn(a)' => IsOn(a) /\ a # b
    BY <1>7 DEF IsOn
  <1>9. ASSUME NEW g \in FileNrs, NEW l \in Kinds, NEW e \in 1..l
        PROVE  On(g, l, e)' = On(g, l, e) \/ On(g, l, e) = b \/ Below(On(g, l, e))
    <2>1. CASE g = f /\ l = k /\ e >= m
      BY <1>4, <2>1
    <2>2. CASE ~ (g = f /\ l = k /\ e >= m)
      BY <1>6, <2>2
    <2> QED BY <2>1, <2>2
  <1>10. \A a \in Zones : IsOn(a) => IsOn(a)' \/ a = b \/ Below(a)
    BY <1>9 DEF IsOn
  <1>11. ASSUME NEW a \in Zones, Below(a) PROVE IsOn(a) /\ a # b /\ ~ IsOn(a)' /\ a \in zmap
    <2>1. PICK e \in 1..k : e > m /\ On(f, k, e) = a
      BY <1>11
    <2>2. IsOn(a) /\ a # 0
      BY <1>4, <2>1 DEF IsOn
    <2>3. a # b
      BY <1>3, <1>4, <2>1 DEF PlacesDiffer
    <2>4. a \in zmap
      BY <1>3, <2>1, <2>2 DEF InFilesOK
    <2>5. ASSUME NEW g \in FileNrs, NEW l \in Kinds, NEW d \in 1..l, On(g, l, d)' = a PROVE FALSE
      <3>1. On(g, l, d) = a /\ ~ (g = f /\ l = k /\ d >= m)
        BY <1>6, <1>7, <2>2, <2>5
      <3>2. g = f /\ l = k /\ d = e
        BY <1>3, <2>1, <2>2, <3>1 DEF PlacesDiffer
      <3> QED BY <1>4, <2>1, <3>1, <3>2
    <2> QED BY <2>2, <2>3, <2>4, <2>5 DEF IsOn
  <1>12. \A a \in Zones : ~ IsOn(a) \/ Below(a) => pointer'[a] = pointer[a]
    <2> SUFFICES ASSUME NEW a \in Zones, ~ IsOn(a) \/ Below(a) PROVE pointer'[a] = pointer[a]
      OBVIOUS
    <2>1. a # b
      BY <1>4, <1>11
    <2>2. ASSUME m > 1 PROVE a # On(f, k, m - 1)
      <3>1. m - 1 \in 1..k
        BY <1>4, <2>2
      <3>2. On(f, k, m - 1) # 0 => IsOn(On(f, k, m - 1))'
        BY <1>4, <1>6, <3>1 DEF IsOn
      <3>3. IsOn(On(f, k, m - 1))
        BY <3>1 DEF IsOn
      <3>4. SUFFICES ASSUME a = On(f, k, m - 1), Below(a) PROVE FALSE
        BY <3>3
      <3>5. PICK e \in 1..k : e > m /\ On(f, k, e) = a
        BY <3>4
      <3>6. a # 0
        BY <1>4
      <3>7. e = m - 1
        BY <1>3, <3>1, <3>4, <3>5, <3>6 DEF PlacesDiffer
      <3> QED BY <1>4, <3>5, <3>7
    <2> QED BY <1>4, <2>1, <2>2 DEF Cuts
  <1>13. \A a \in Zones : Below(a) /\ pointer[a] # 0 => Below(pointer[a])
    <2> SUFFICES ASSUME NEW a \in Zones, Below(a), pointer[a] # 0 PROVE Below(pointer[a])
      OBVIOUS
    <2>1. PICK e \in 1..k : e > m /\ On(f, k, e) = a
      OBVIOUS
    <2>2. On(f, k, e + 1) = pointer[a] /\ e \in 1..3
      BY <1>2, <1>4, <2>1, OnIs DEF PointerIn
    <2>3. e # k
      BY <1>3, <2>2 DEF LeavesOK
    <2> QED BY <1>4, <2>1, <2>2, <2>3
  <1>14. pointer[b] # 0 => Below(pointer[b])
    <2>1. On(f, k, m + 1) = pointer[b]
      BY <1>2, <1>4, OnIs DEF PointerIn
    <2>2. pointer[b] # 0 => m # k
      BY <1>3, <2>1 DEF LeavesOK
    <2> QED BY <1>4, <2>1, <2>2
  <1>15. \A a \in Zones : Below(a) => a = pointer[b] \/ \E c \in zmap : Below(c) /\ pointer[c] = a
    <2> SUFFICES ASSUME NEW a \in Zones, Below(a)
                 PROVE  a = pointer[b] \/ \E c \in zmap : Below(c) /\ pointer[c] = a
      OBVIOUS
    <2>1. PICK e \in 1..k : e > m /\ On(f, k, e) = a
      OBVIOUS
    <2> DEFINE c == On(f, k, e - 1)
    <2>2. e - 1 \in 1..k /\ e - 1 >= m /\ e \in 2..3 /\ a # 0
      BY <1>4, <2>1
    <2>3. a = PointerIn(c) /\ c \in Zones \cup {0}
      BY <1>2, <2>1, <2>2, OnIs
    <2>4. c # 0 /\ a = pointer[c]
      BY <2>2, <2>3 DEF PointerIn
    <2>5. CASE e - 1 = m
      BY <2>4, <2>5
    <2>6. CASE e - 1 > m
      <3>1. Below(c) /\ c \in Zones
        BY <2>2, <2>3, <2>4, <2>6
      <3> HIDE DEF c, Below
      <3> QED BY <1>11, <2>4, <3>1
    <2> QED BY <2>2, <2>5, <2>6
  <1> HIDE DEF Below
  <1>16. \A a \in zmap : a # b => (~ IsOn(a)' <=> ~ IsOn(a) \/ Below(a))
    BY <1>5, <1>4, <1>8, <1>10, <1>11
  <1>17. \A a \in Zones : IsOff(a) \/ Below(a) => IsOff(a)'
    <2>2. ASSUME NEW c \in zmap, ~ IsOn(c) \/ Below(c), NEW a \in Zones, pointer[c] = a PROVE IsOff(a)'
      <3>1. pointer'[c] = a /\ c # b
        BY <1>4, <1>5, <1>11, <1>12, <2>2
      <3> QED BY <1>1, <1>16, <2>2, <3>1 DEF IsOff
    <2>3. ASSUME NEW a \in Zones, a \in lost \/ a = pointer[b] PROVE IsOff(a)'
      BY <1>1, <1>4, <2>3 DEF IsOff
    <2> QED BY <1>15, <2>2, <2>3 DEF IsOff
  <1>18. \A a \in Zones : IsOff(a)' => IsOff(a) \/ Below(a)
    <2> SUFFICES ASSUME NEW a \in Zones, IsOff(a)' PROVE IsOff(a) \/ Below(a)
      OBVIOUS
    <2>1. CASE a \in lost'
      BY <1>1, <1>14, <2>1 DEF IsOff
    <2>2. CASE a \notin lost'
      <3>1. PICK c \in zmap' : ~ IsOn(c)' /\ pointer'[c] = a
        BY <2>2 DEF IsOff
      <3>2. c \in zmap /\ c \in Zones /\ c # b /\ (~ IsOn(c) \/ Below(c))
        BY <1>1, <1>5, <1>16, <3>1
      <3>3. pointer[c] = a
        BY <1>12, <3>1, <3>2
      <3> QED BY <1>4, <1>13, <3>2, <3>3 DEF IsOff
    <2> QED BY <2>1, <2>2
  <1>19. BlocksTypeOK'
    <2>1. i_zone' \in [FileNrs -> [Kinds -> Zones \cup {0}]]
      <3>1. CASE m > 1
        BY <1>2, <3>1 DEF BlocksTypeOK, Cuts
      <3>2. CASE m = 1
        BY <1>2, <3>2 DEF BlocksTypeOK, Cuts
      <3> QED BY <1>4, <3>1, <3>2
    <2> QED BY <1>1, <1>2, <1>5, <2>1 DEF BlocksTypeOK
  <1>20. TreesOK'
    <2>1. InFilesOK'
      BY <1>1, <1>3, <1>7 DEF InFilesOK
    <2>2. PlacesDiffer'
      <3> SUFFICES ASSUME NEW g \in FileNrs, NEW h \in FileNrs, NEW l \in Kinds, NEW n \in Kinds,
                          NEW d \in 1..l, NEW e \in 1..n, On(g, l, d)' # 0, On(g, l, d)' = On(h, n, e)'
                   PROVE  g = h /\ l = n /\ d = e
        BY DEF PlacesDiffer
      <3>1. On(g, l, d) # 0 /\ On(g, l, d) = On(h, n, e)
        BY <1>7
      <3> QED BY <1>3, <3>1 DEF PlacesDiffer
    <2>3. FreeOK'
      BY <1>1, <1>3 DEF FreeOK, Cuts
    <2>4. MarkedOK'
      <3> SUFFICES ASSUME NEW a \in zmap' PROVE IsOn(a)' \/ IsOff(a)' \/ \E u \in Callers : IsNew(u, a)'
        BY DEF MarkedOK
      <3>1. a \in zmap /\ a # b /\ a \in Zones
        BY <1>1, <1>5
      <3>2. \A u \in Callers : IsNew(u, a)' <=> IsNew(u, a)
        BY DEF IsNew
      <3> QED BY <1>3, <1>10, <1>17, <3>1, <3>2 DEF MarkedOK
    <2>5. OffOK'
      <3> SUFFICES ASSUME NEW a \in Zones, IsOff(a)'
                   PROVE  a \in zmap' /\ ~ IsOn(a)' /\ \A u \in Callers : ~ IsNew(u, a)'
        BY DEF OffOK
      <3>1. \A u \in Callers : IsNew(u, a)' <=> IsNew(u, a)
        BY DEF IsNew
      <3>2. CASE IsOff(a)
        BY <1>1, <1>3, <1>4, <1>8, <3>1, <3>2 DEF OffOK
      <3>3. CASE Below(a)
        <4>1. \A u \in Callers : ~ IsNew(u, a)
          BY <1>2, <1>11, <3>3 DEF WalkOK, NewOK, IsNew
        <4> QED BY <1>1, <1>11, <3>1, <3>3, <4>1
      <3> QED BY <1>18, <3>2, <3>3
    <2>6. OffDiffer'
      <3> SUFFICES ASSUME NEW a \in zmap', NEW c \in zmap', ~ IsOn(a)', ~ IsOn(c)', pointer'[a] # 0
                   PROVE  pointer'[a] \notin lost' /\ (pointer'[a] = pointer'[c] => a = c)
        BY DEF OffDiffer
      <3>1. /\ a \in zmap /\ a # b /\ a \in Zones /\ (~ IsOn(a) \/ Below(a)) /\ pointer'[a] = pointer[a]
            /\ c \in zmap /\ c # b /\ c \in Zones /\ (~ IsOn(c) \/ Below(c)) /\ pointer'[c] = pointer[c]
        BY <1>1, <1>5, <1>12, <1>16
      <3>2. pointer[a] \in Zones
        BY <1>2, <3>1 DEF BlocksTypeOK
      <3>3. \A x \in zmap : ~ IsOn(x) /\ pointer[x] = pointer[a] => IsOff(pointer[a])
        BY DEF IsOff
      <3>4. \A x \in Zones : Below(x) /\ pointer[x] = pointer[a] => Below(pointer[a])
        BY <1>13, <3>1
      <3>5. IsOff(pointer[a]) => ~ Below(pointer[a])
        BY <1>3, <1>11, <3>2 DEF OffOK
      <3>6. ASSUME Below(a), NEW x \in zmap, Below(x) \/ x = b, pointer[x] = pointer[a] PROVE x = a
        <4>1. PICK e \in 1..k : On(f, k, e) = a
          BY <3>6 DEF Below
        <4>2. PICK d \in 1..k : On(f, k, d) = x
          BY <1>4, <3>6 DEF Below
        <4>3. e + 1 \in 1..(k + 1) /\ d + 1 \in 1..(k + 1) /\ e \in 1..3 /\ d \in 1..3 /\ x # 0 /\ a # 0
          BY <1>4, <1>5, <3>1
        <4>4. On(f, k, e + 1) = pointer[a] /\ On(f, k, d + 1) = pointer[a]
          BY <1>2, <3>6, <4>1, <4>2, <4>3, OnIs DEF PointerIn
        <4>5. e + 1 # k + 1 /\ d + 1 # k + 1
          BY <1>3, <3>1, <4>4 DEF LeavesOK
        <4>6. e + 1 \in 1..k /\ d + 1 \in 1..k
          BY <1>4, <4>3, <4>5
        <4>7. e + 1 = d + 1
          BY <1>3, <3>1, <4>4, <4>6 DEF PlacesDiffer
        <4> QED BY <4>1, <4>2, <4>3, <4>7
      <3>7. CASE ~ IsOn(a)
        <4>1. pointer[a] \notin lost /\ IsOff(pointer[a])
          BY <1>3, <3>1, <3>3, <3>7 DEF OffDiffer
        <4>2. pointer[a] # pointer[b]
          BY <1>14, <3>1, <3>5, <4>1
        <4>3. pointer[c] = pointer[a] => ~ IsOn(c)
          BY <3>1, <3>4, <3>5, <4>1
        <4> QED BY <1>1, <1>3, <3>1, <3>7, <4>1, <4>2, <4>3 DEF OffDiffer
      <3>8. CASE Below(a)
        <4>1. Below(pointer[a]) /\ ~ IsOff(pointer[a])
          BY <3>1, <3>4, <3>5, <3>8
        <4>2. pointer[a] # pointer[b]
          BY <1>5, <3>1, <3>6, <3>8
        <4>3. pointer[c] = pointer[a] => Below(c)
          BY <3>1, <3>3, <4>1
        <4> QED BY <1>1, <3>1, <3>6, <3>8, <4>1, <4>2, <4>3 DEF IsOff
      <3> QED BY <3>1, <3>7, <3>8
    <2> QED BY <1>6, <2>1, <2>2, <2>3, <2>4, <2>5, <2>6 DEF TreesOK
  <1>21. ASSUME NEW u \in Callers PROVE WalkOK(u)'
    <2> PICK w : w = walk[u]
      OBVIOUS
    <2>1. /\ WalkOK(u) /\ w.bh # b /\ walk'[u] = w /\ walk[u] = w
          /\ w.bh \in Zones \cup {0} /\ w.new \in Zones \cup {0}
      BY <1>2, <1>4 DEF Busy, BlocksTypeOK, Walks
    <2>2. AtPointer(w) => AtPointer(w)'
      <3> SUFFICES ASSUME AtPointer(w) PROVE AtPointer(w)'
        OBVIOUS
      <3>1. CASE w.depth = 1
        BY <3>1 DEF AtPointer, OnWay
      <3>2. CASE w.depth # 1
        <4>1. /\ w.f \in FileNrs /\ w.kind \in Kinds /\ w.depth - 1 \in 1..w.kind /\ w.bh \in Zones
              /\ w.bh = On(w.f, w.kind, w.depth - 1) \/ IsOff(w.bh)
          BY <2>1, <3>2 DEF AtPointer, OnWay, Kinds
        <4>2. w.bh = On(w.f, w.kind, w.depth - 1) => w.bh = On(w.f, w.kind, w.depth - 1)' \/ Below(w.bh)
          BY <1>9, <2>1, <4>1
        <4>3. w.bh = On(w.f, w.kind, w.depth - 1)' \/ IsOff(w.bh)'
          BY <1>17, <4>1, <4>2
        <4> QED BY <3>2, <4>3 DEF AtPointer, OnWay
      <3> QED BY <3>1, <3>2
    <2>3. w.pc = "new_block" /\ NewOK(u) => NewOK(u)'
      <3> SUFFICES ASSUME w.pc = "new_block", NewOK(u) PROVE NewOK(u)'
        OBVIOUS
      <3>1. w.new \in zmap /\ pointer[w.new] = 0 /\ ~ IsOn(w.new) /\ w.new \in Zones /\ w.new # b /\ w.new # 0
        BY <1>4, <1>5, <2>1 DEF NewOK
      <3>2. ~ IsOn(w.new)' /\ pointer'[w.new] = 0
        BY <1>8, <1>12, <3>1
      <3>3. \A v \in Callers \ {u} : ~ IsNew(v, w.new)'
        BY <2>1 DEF NewOK, IsNew
      <3>4. \A a : a = w.new => (IsOn(a)' <=> IsOn(walk[u].new)') /\ \A v : IsNew(v, a)' <=> IsNew(v, walk[u].new)'
        BY <2>1 DEF IsOn, IsNew
      <3> QED BY <1>1, <2>1, <3>1, <3>2, <3>3, <3>4 DEF NewOK
    <2>4. AtBlock(w) => AtBlock(w)'
      <3> SUFFICES ASSUME AtBlock(w) PROVE AtBlock(w)'
        OBVIOUS
      <3>1. Truncates(f) /\ \A g : Truncates(g)' => Truncates(g)
        BY DEF Truncates
      <3>2. w.f # f => On(w.f, w.kind, w.depth)' = On(w.f, w.kind, w.depth)
        BY <1>6 DEF AtBlock, OnWay
      <3>3. IsOff(w.new) => IsOff(w.new)'
        BY <1>17, <2>1 DEF AtBlock
      <3> QED BY <3>1, <3>2, <3>3 DEF AtBlock, OnWay
    <2>5. (AtPointer(w)' => AtPointer(walk[u])') /\ (AtBlock(w)' => AtBlock(walk[u])')
      BY <2>1 DEF AtPointer, AtBlock, OnWay
    <2> QED BY <1>1, <2>1, <2>2, <2>3, <2>4, <2>5 DEF WalkOK
  <1> QED BY <1>19, <1>20, <1>21 DEF BlocksInv

LEMMA FreeBlockKeeps ==
  ASSUME FileBlocksAssumption, BlocksInv, ~walkRaced, NEW t \in Callers, NEW k \in Kinds, FreeBlock(t, k)
  PROVE  BlocksInv'
  <1>1. PICK f, b, from : f = walk[t].f /\ b = Deepest(f, k)[1] /\ from = Deepest(f, k)[2]
    OBVIOUS
  <1>2. /\ walk[t].pc = "truncate" /\ b # 0 /\ ~ Busy(b, {t}) /\ zmap' = zmap \ {b} /\ lost' = lost
        /\ walk' = walk /\ walkRaced' = walkRaced
        /\ IF from = 0 THEN i_zone' = [i_zone EXCEPT ![f][k] = 0] /\ pointer' = pointer
           ELSE pointer' = [pointer EXCEPT ![from] = 0] /\ i_zone' = i_zone
    BY <1>1 DEF FreeBlock, MayFree
  <1>3. BlocksTypeOK /\ LeavesOK /\ f \in FileNrs
    BY <1>1, <1>2 DEF BlocksInv, TreesOK, WalkOK
  <1>4. PICK m \in 1..k : /\ On(f, k, m) = b /\ PointerIn(b) = 0
                          /\ (m = 1 /\ from = 0) \/ (m > 1 /\ from # 0 /\ from = On(f, k, m - 1))
    BY <1>1, <1>2, <1>3, DeepestIs
  <1>5. m \in 1..3 /\ b \in Zones /\ (m > 1 => from \in Zones)
    <2>1. m \in 1..3
      BY DEF Kinds
    <2> QED BY <1>2, <1>3, <1>4, <2>1, OnIs
  <1>6. pointer[b] = 0
    BY <1>2, <1>4 DEF PointerIn
  <1>7. Cuts(f, k, m, b)
    BY <1>2, <1>3, <1>4, <1>5, <1>6 DEF Cuts, BlocksTypeOK
  <1> QED BY <1>1, <1>2, <1>3, <1>4, <1>5, <1>7, CutKeeps

(* truncate frees a block of pointers that it could not read. *)
LEMMA FreeUnreadKeeps ==
  ASSUME FileBlocksAssumption, BlocksInv, ~walkRaced, NEW t \in Callers, NEW k \in Kinds, NEW m \in 1..2,
         FreeUnread(t, k, m)
  PROVE  BlocksInv'
  <1>1. PICK f, b, from : f = walk[t].f /\ b = Indirect(f, k, m)[1] /\ from = Indirect(f, k, m)[2]
    OBVIOUS
  <1>2. /\ walk[t].pc = "truncate" /\ m < k /\ b # 0 /\ ~ Busy(b, {t}) /\ zmap' = zmap \ {b}
        /\ lost' = lost \cup ({pointer[b]} \ {0}) /\ walk' = walk /\ walkRaced' = walkRaced
        /\ IF from = 0 THEN i_zone' = [i_zone EXCEPT ![f][k] = 0] /\ pointer' = [pointer EXCEPT ![b] = 0]
           ELSE pointer' = [pointer EXCEPT ![from] = 0, ![b] = 0] /\ i_zone' = i_zone
    BY <1>1 DEF FreeUnread, MayFree
  <1>3. BlocksTypeOK /\ f \in FileNrs
    BY <1>1, <1>2 DEF BlocksInv, WalkOK
  <1>4. m \in 1..k /\ m \in 1..3 /\ m - 1 \in 0..1
    BY <1>2 DEF Kinds
  <1>5. b = On(f, k, m) /\ ((m = 1 /\ from = 0) \/ (m = 2 /\ from # 0 /\ from = On(f, k, 1)))
    <2>1. CASE m = 1
      BY <1>1, <2>1 DEF Indirect, On
    <2>2. CASE m = 2
      BY <1>1, <1>2, <2>2 DEF Indirect, On, PointerIn
    <2> QED BY <2>1, <2>2
  <1>6. b \in Zones /\ (m > 1 => from \in Zones)
    BY <1>2, <1>3, <1>4, <1>5, OnIs
  <1>7. Cuts(f, k, m, b)
    BY <1>2, <1>3, <1>4, <1>5, <1>6 DEF Cuts, BlocksTypeOK
  <1> QED BY <1>1, <1>2, <1>3, <1>4, <1>5, <1>6, <1>7, CutKeeps

LEMMA LeavesKeep ==
  ASSUME BlocksInv, ~walkRaced, NEW t \in Callers,
         NoBlock(t) \/ Brelse(t) \/ ReadFails(t) \/ BlocksTruncated(t)
  PROVE  BlocksInv'
  <1>1. walkRaced' \in BOOLEAN
    BY DEF BlocksInv, BlocksTypeOK, NoBlock, Brelse, ReadFails, BlocksTruncated
  <1> QED BY <1>1, NoWalkIs DEF NoBlock, Brelse, ReadFails, BlocksTruncated

LEMMA BlocksInitOK == BlocksInit => BlocksInv
  <1> SUFFICES ASSUME BlocksInit PROVE BlocksInv
    OBVIOUS
  <1>1. BlocksTypeOK
    <2>1. walk \in [Callers -> Walks]
      BY NoWalkType DEF BlocksInit
    <2> QED BY <2>1 DEF BlocksTypeOK, BlocksInit
  <1>2. \A t \in Callers : walk[t] = NoWalk
    BY DEF BlocksInit
  <1>3. ASSUME NEW f \in FileNrs, NEW k \in Kinds PROVE \A d \in 1..4 : On(f, k, d) = 0
    <2>1. i_zone[f][k] = 0
      BY DEF BlocksInit
    <2> QED BY <2>1 DEF On, PointerIn
  <1>4. TreesOK
    <2>1. LeavesOK
      <3> SUFFICES ASSUME NEW f \in FileNrs, NEW k \in Kinds PROVE On(f, k, k + 1) = 0
        BY DEF LeavesOK
      <3>1. k + 1 \in 1..4
        BY DEF Kinds
      <3> QED BY <1>3, <3>1
    <2>2. \A f \in FileNrs, k \in Kinds : \A d \in 1..k : On(f, k, d) = 0
      <3> SUFFICES ASSUME NEW f \in FileNrs, NEW k \in Kinds, NEW d \in 1..k PROVE On(f, k, d) = 0
        OBVIOUS
      <3>1. d \in 1..4
        BY DEF Kinds
      <3> QED BY <1>3, <3>1
    <2> QED BY <2>1, <2>2 DEF TreesOK, InFilesOK, PlacesDiffer, MarkedOK, FreeOK, OffOK, OffDiffer, IsOff, BlocksInit
  <1>5. \A t \in Callers : WalkOK(t)
    BY <1>2, NoWalkType DEF WalkOK
  <1> QED BY <1>1, <1>4, <1>5 DEF BlocksInv

LEMMA BlocksNextOK == FileBlocksAssumption /\ BlocksInv /\ [BlocksNext]_blockVars => BlocksInv'
  <1> SUFFICES ASSUME FileBlocksAssumption, BlocksInv, [BlocksNext]_blockVars PROVE BlocksInv'
    OBVIOUS
  <1>1. CASE BlocksNext
    <2>1. ~walkRaced
      BY <1>1 DEF BlocksNext
    <2>2. PICK t \in Callers :
            \/ BlocksStep(t)
            \/ \E f \in FileNrs, kind \in Kinds, create \in BOOLEAN : Bmap(t, f, kind, create)
            \/ \E f \in FileNrs : Truncate(t, f)
      BY <1>1 DEF BlocksNext
    <2>3. CASE BlocksStep(t)
      <3>1. CASE Follow(t)
        BY <2>1, <3>1, FollowKeeps
      <3>2. CASE NoBlock(t) \/ Brelse(t) \/ ReadFails(t) \/ BlocksTruncated(t)
        BY <2>1, <3>2, LeavesKeep
      <3>3. CASE NewBlock(t)
        BY <2>1, <3>3, NewBlockKeeps
      <3>4. CASE Allocated(t)
        BY <2>1, <3>4, AllocatedKeeps
      <3>5. CASE Read(t)
        BY <2>1, <3>5, ReadKeeps
      <3>6. CASE Use(t)
        BY <2>1, <3>6, UseKeeps
      <3>7. CASE \E kind \in Kinds : FreeBlock(t, kind)
        BY <2>1, <3>7, FreeBlockKeeps
      <3>8. CASE \E kind \in Kinds : \E depth \in 1..2 : FreeUnread(t, kind, depth)
        BY <2>1, <3>8, FreeUnreadKeeps
      <3> QED BY <2>3, <3>1, <3>2, <3>3, <3>4, <3>5, <3>6, <3>7, <3>8 DEF BlocksStep
    <2>4. CASE \E f \in FileNrs, kind \in Kinds, create \in BOOLEAN : Bmap(t, f, kind, create)
      BY <2>1, <2>4, BmapKeeps
    <2>5. CASE \E f \in FileNrs : Truncate(t, f)
      BY <2>1, <2>5, TruncateKeeps
    <2> QED BY <2>2, <2>3, <2>4, <2>5
  <1>2. CASE UNCHANGED blockVars
    <2>1. zmap' = zmap /\ i_zone' = i_zone /\ pointer' = pointer /\ walk' = walk /\ lost' = lost
          /\ walkRaced' = walkRaced
      BY <1>2 DEF blockVars
    <2>2. \A f, k, d : On(f, k, d)' = On(f, k, d)
      BY <2>1 DEF On, PointerIn
    <2>3. \A b : IsOn(b)' <=> IsOn(b)
      BY <2>2 DEF IsOn
    <2>4. \A u, b : IsNew(u, b)' <=> IsNew(u, b)
      BY <2>1 DEF IsNew
    <2>5. BlocksTypeOK'
      BY <2>1 DEF BlocksInv, BlocksTypeOK
    <2>8. \A b : IsOff(b)' <=> IsOff(b)
      BY <2>1, <2>3 DEF IsOff
    <2>6. TreesOK => TreesOK'
      BY <2>1, <2>2, <2>3, <2>4, <2>8
         DEF TreesOK, LeavesOK, InFilesOK, PlacesDiffer, MarkedOK, FreeOK, OffOK, OffDiffer
    <2>7. ASSUME NEW u \in Callers, WalkOK(u) PROVE WalkOK(u)'
      <3>1. AtPointer(walk[u]) => AtPointer(walk[u])'
        BY <2>1, <2>2, <2>8 DEF AtPointer, OnWay
      <3>2. NewOK(u) => NewOK(u)'
        BY <2>1, <2>3, <2>4 DEF NewOK
      <3>3. AtBlock(walk[u]) => AtBlock(walk[u])'
        BY <2>1, <2>2, <2>8 DEF AtBlock, OnWay, Truncates
      <3> QED BY <2>1, <2>7, <3>1, <3>2, <3>3 DEF WalkOK
    <2> QED BY <2>1, <2>5, <2>6, <2>7 DEF BlocksInv
  <1> QED BY <1>1, <1>2

(* What a block of pointers in a file points to is the next one. *)
LEMMA PointsOn ==
  ASSUME BlocksInv, ~walkRaced, NEW a \in zmap, IsOn(a), pointer[a] # 0
  PROVE  \E g \in FileNrs, l \in Kinds : \E e \in 1..l :
           e + 1 \in 1..l /\ On(g, l, e) = a /\ On(g, l, e + 1) = pointer[a]
  <1>1. BlocksTypeOK /\ TreesOK /\ \A u \in Callers : WalkOK(u)
    BY DEF BlocksInv
  <1>3. PICK g \in FileNrs, l \in Kinds : \E e \in 1..l : On(g, l, e) = a
    BY DEF IsOn
  <1>4. PICK e \in 1..l : On(g, l, e) = a
    BY <1>3
  <1>5. On(g, l, e + 1) = PointerIn(a) /\ e + 1 \in 1..(l + 1) /\ e \in 1..3 /\ l \in 1..3
    <2>1. e \in {1, 2, 3} /\ l \in 1..3
      BY DEF Kinds
    <2> QED BY <1>1, <1>4, <2>1, OnIs
  <1>6. PointerIn(a) = pointer[a]
    <2>1. a # 0
      BY <1>1 DEF BlocksTypeOK, Zones
    <2> QED BY <2>1 DEF PointerIn
  <1>7. e + 1 # l + 1
    BY <1>1, <1>5, <1>6 DEF TreesOK, LeavesOK
  <1> QED BY <1>4, <1>5, <1>6, <1>7

LEMMA InvIsExact ==
  ASSUME FileBlocksAssumption, BlocksInv
  PROVE  BitmapIsExact
  <1> SUFFICES ASSUME ~walkRaced, NEW b \in Zones
               PROVE  /\ Places(b) = IF b \in zmap \ lost THEN 1 ELSE 0
                      /\ b \in lost \/ (\E t \in Callers : walk[t].bh = b) => b \in zmap
    BY DEF BitmapIsExact
  <1>1. BlocksTypeOK /\ TreesOK /\ \A u \in Callers : WalkOK(u)
    BY DEF BlocksInv
  <1>2. LeavesOK /\ InFilesOK /\ PlacesDiffer /\ MarkedOK /\ FreeOK /\ OffOK /\ OffDiffer
    BY <1>1 DEF TreesOK
  <1>3. b # 0
    BY ZonesAre
  <1> DEFINE I == {p \in FileNrs \X Kinds : i_zone[p[1]][p[2]] = b}
             P == {a \in zmap : pointer[a] = b}
             N == {t \in Callers : walk[t].pc = "new_block" /\ walk[t].new = b}
  <1>4. \A g \in FileNrs, l \in Kinds : 1 \in 1..l /\ i_zone[g][l] = On(g, l, 1)
    BY DEF Kinds, On
  <1>5. IsOn(b) => b \in zmap
    BY <1>2, <1>3 DEF IsOn, InFilesOK
  <1>6. ASSUME ~ IsOn(b) PROVE I = {} /\ \A a \in P : ~ IsOn(a) /\ IsOff(b) /\ b \notin lost /\ P = {a}
    <2>1. I = {}
      BY <1>4, <1>6 DEF IsOn
    <2>2. ASSUME NEW a \in P PROVE ~ IsOn(a)
      BY <1>3, <1>6, <2>2, PointsOn DEF IsOn
    <2>3. ASSUME NEW a \in P PROVE IsOff(b) /\ b \notin lost /\ P = {a}
      BY <1>2, <1>3, <2>2 DEF OffDiffer, IsOff
    <2> QED BY <2>1, <2>2, <2>3
  <1>12. ASSUME IsOff(b) PROVE b \in zmap /\ ~ IsOn(b) /\ N = {}
    BY <1>2, <1>12 DEF OffOK, IsNew
  <1>13. ASSUME IsOn(b), NEW a \in P PROVE IsOn(a)
    BY <1>12, <1>13 DEF IsOff
  <1>7. ASSUME NEW t \in N PROVE ~ IsOn(b) /\ b \in zmap /\ N = {t}
    <2>1. IsNew(t, b)
      BY DEF IsNew
    <2>2. NewOK(t) /\ walk[t].new = b
      BY <1>1 DEF WalkOK
    <2>3. \A u \in Callers \ {t} : ~ IsNew(u, b)
      BY <2>2 DEF NewOK
    <2> QED BY <2>2, <2>3 DEF NewOK, IsNew
  <1>8. Places(b) = Cardinality(I) + Cardinality(P) + Cardinality(N)
    BY DEF Places
  <1>14. ASSUME b \in lost PROVE Places(b) = 0 /\ b \in zmap
    <2>1. I = {} /\ P = {} /\ N = {} /\ b \in zmap
      BY <1>6, <1>12, <1>14 DEF IsOff
    <2> HIDE DEF I, P, N
    <2> QED BY <1>8, <2>1, FS_EmptySet
  <1>9. ASSUME b \in zmap, b \notin lost PROVE Places(b) = 1
    <2>1. CASE IsOn(b)
      <3>1. N = {}
        BY <1>7, <2>1
      <3>2. PICK f \in FileNrs, k \in Kinds : \E d \in 1..k : On(f, k, d) = b
        BY <2>1 DEF IsOn
      <3>3. PICK d \in 1..k : On(f, k, d) = b
        BY <3>2
      <3>4. \A g \in FileNrs, l \in Kinds : \A e \in 1..l : On(g, l, e) = b => g = f /\ l = k /\ e = d
        BY <1>2, <1>3, <3>3 DEF PlacesDiffer
      <3>5. CASE d = 1
        <4>1. I = {<<f, k>>}
          BY <1>4, <3>3, <3>4, <3>5
        <4>2. ASSUME NEW a \in P PROVE FALSE
          <5>1. PICK g \in FileNrs, l \in Kinds : \E e \in 1..l : e + 1 \in 1..l /\ On(g, l, e + 1) = b
            BY <1>3, <1>13, <2>1, <4>2, PointsOn
          <5>2. PICK e \in 1..l : e + 1 \in 1..l /\ On(g, l, e + 1) = b
            BY <5>1
          <5>3. e + 1 = d
            BY <3>4, <5>2
          <5> QED BY <3>5, <5>3 DEF Kinds
        <4>3. P = {}
          BY <4>2
        <4> HIDE DEF I, P, N
        <4>4. Cardinality(I) = 1 /\ Cardinality(P) = 0 /\ Cardinality(N) = 0
          BY <3>1, <4>1, <4>3, FS_EmptySet, FS_Singleton
        <4> QED BY <1>8, <4>4
      <3>6. CASE d # 1
        <4>1. I = {}
          BY <1>4, <3>4, <3>6
        <4>2. d - 1 \in 1..k /\ d \in 2..3
          BY <3>6 DEF Kinds
        <4> DEFINE h == On(f, k, d - 1)
        <4>3. On(f, k, d) = PointerIn(h) /\ h \in zmap \cup {0}
          BY <1>1, <1>2, <4>2, OnIs DEF InFilesOK
        <4>4. h \in zmap /\ pointer[h] = b
          BY <1>3, <3>3, <4>3 DEF PointerIn
        <4>5. ASSUME NEW a \in P PROVE a = h
          <5>1. PICK g \in FileNrs, l \in Kinds :
                  \E e \in 1..l : e + 1 \in 1..l /\ On(g, l, e) = a /\ On(g, l, e + 1) = b
            BY <1>3, <1>13, <2>1, <4>5, PointsOn
          <5>2. PICK e \in 1..l : e + 1 \in 1..l /\ On(g, l, e) = a /\ On(g, l, e + 1) = b
            BY <5>1
          <5>3. g = f /\ l = k /\ e + 1 = d
            BY <3>4, <5>2
          <5>4. e = d - 1
            BY <5>3, <4>2, <5>2 DEF Kinds
          <5> QED BY <5>2, <5>3, <5>4
        <4> HIDE DEF h
        <4>6. P = {h}
          BY <4>4, <4>5
        <4> HIDE DEF I, P, N
        <4>7. Cardinality(I) = 0 /\ Cardinality(P) = 1 /\ Cardinality(N) = 0
          BY <3>1, <4>1, <4>6, FS_EmptySet, FS_Singleton
        <4> QED BY <1>8, <4>7
      <3> QED BY <3>5, <3>6
    <2>3. CASE IsOff(b)
      <3>1. PICK a \in P : TRUE
        BY <1>9, <2>3 DEF IsOff
      <3>2. I = {} /\ P = {a} /\ N = {}
        BY <1>6, <1>12, <2>3, <3>1
      <3> HIDE DEF I, P, N
      <3>3. Cardinality(I) = 0 /\ Cardinality(P) = 1 /\ Cardinality(N) = 0
        BY <3>2, FS_EmptySet, FS_Singleton
      <3> QED BY <1>8, <3>3
    <2>2. CASE ~ IsOn(b) /\ ~ IsOff(b)
      <3>1. PICK t \in Callers : IsNew(t, b)
        BY <1>2, <1>9, <2>2 DEF MarkedOK
      <3>2. t \in N
        BY <3>1 DEF IsNew
      <3>3. N = {t} /\ I = {} /\ P = {}
        BY <1>6, <1>7, <2>2, <3>2
      <3> HIDE DEF I, P, N
      <3>4. Cardinality(I) = 0 /\ Cardinality(P) = 0 /\ Cardinality(N) = 1
        BY <3>3, FS_EmptySet, FS_Singleton
      <3> QED BY <1>8, <3>4
    <2> QED BY <2>1, <2>2, <2>3
  <1>10. ASSUME b \notin zmap PROVE Places(b) = 0
    <2>1. I = {} /\ P = {} /\ N = {}
      BY <1>5, <1>6, <1>7, <1>10, <1>12
    <2> HIDE DEF I, P, N
    <2> QED BY <1>8, <2>1, FS_EmptySet
  <1>11. ASSUME NEW t \in Callers, walk[t].bh = b PROVE b \in zmap
    <2>1. WalkOK(t) /\ walk[t].pc \in Pcs
      BY <1>1 DEF BlocksTypeOK, Walks
    <2>2. ASSUME AtPointer(walk[t]) PROVE b \in zmap
      <3>1. /\ walk[t].depth - 1 \in 1..walk[t].kind /\ walk[t].f \in FileNrs /\ walk[t].kind \in Kinds
            /\ b = On(walk[t].f, walk[t].kind, walk[t].depth - 1) \/ IsOff(b)
        BY <1>3, <1>11, <2>2 DEF AtPointer, OnWay, Kinds
      <3> QED BY <1>2, <1>3, <1>12, <3>1 DEF InFilesOK
    <2> QED BY <1>3, <1>11, <2>1, <2>2 DEF WalkOK, Pcs, AtBlock
  <1> QED BY <1>9, <1>10, <1>11, <1>14

(* The bitmap of blocks is exact (new_block, free_block, _bmap and truncate):
   unless two tasks have allocated the same block of a file or one has
   truncated a file under another, every marked block is at one place, in one
   file or with the task that just allocated it, or below a block of pointers
   that truncate freed without reading it; no other is marked that is nowhere,
   and no buffer that somebody holds is of a free block. *)
THEOREM BitmapStaysExact == FileBlocksAssumption => (BlocksSpec => []BitmapIsExact)
  <1> SUFFICES ASSUME FileBlocksAssumption PROVE BlocksSpec => []BitmapIsExact
    OBVIOUS
  <1>1. BlocksInit => BlocksInv
    BY BlocksInitOK
  <1>2. BlocksInv /\ [BlocksNext]_blockVars => BlocksInv'
    BY BlocksNextOK
  <1>3. BlocksInv => BitmapIsExact
    BY InvIsExact
  <1> QED BY <1>1, <1>2, <1>3, PTL DEF BlocksSpec

-----------------------------------------------------------------------------
(* Descriptors and open files.

   Where a task goes on after it has put an inode, and where else it may be. *)
Resumed == {"out", "pwd", "exec", "exit", "executable", "zombie", "dup2"}
Stations == Resumed \cup {"opening", "pipe", "fork", "read", "write", "written"}

OpenTypeOK ==
  /\ filp \in [Processes -> [Fds -> FileTable \cup {Nil}]]
  /\ close_on_exec \in [Processes -> SUBSET Fds]
  /\ pwd \in [Processes -> InodeNrs \cup {Nil}] /\ executable \in [Processes -> InodeNrs \cup {Nil}]
  /\ taskState \in [Processes -> {"none", "forked", "running"}]
  /\ f_count \in [FileTable -> Int] /\ f_inode \in [FileTable -> InodeNrs \cup {Nil}]
  /\ f_pos \in [FileTable -> Int] /\ f_append \in [FileTable -> BOOLEAN]
  /\ i_count \in [InodeNrs -> Int] /\ i_size \in [InodeNrs -> Int] /\ written \in [InodeNrs -> Int]
  /\ syscall = [t \in Processes |-> syscall[t]] /\ posRaced \in BOOLEAN

(* The inodes, descriptors and files in what a task does next are such. *)
NextOK(r) ==
  /\ r.pc \in {"pwd", "exec"} => r.inode \in InodeNrs
  /\ r.pc = "dup2" => r.old \in Fds /\ r.new \in Fds
  /\ r.pc = "opening" => r.fd \in Fds
  /\ r.pc = "pipe" => \E a, b \in Fds : a # b /\ r.fds = {a, b}
  /\ r.pc = "fork" => r.child \in Processes
  /\ r.pc \in {"read", "write", "written"} => r.file \in FileTable
  /\ r.pc = "read" => r.left \in Int
  /\ r.pc = "write" => r.pos \in Int /\ r.left \in Int
  /\ r.pc = "written" => r.pos \in Int

CallOK(c) ==
  /\ c.pc = "iput" => c.inode \in InodeNrs /\ c.then.pc \in Resumed /\ NextOK(c.then)
  /\ c.pc # "iput" => c.pc \in Stations /\ NextOK(c)

(* The state, the call, the descriptors, the pwd and the executable of a task;
   what one that exits has left. *)
ResumedBy(c) == IF c.pc = "iput" THEN c.then ELSE c
Leaving == {"executable", "zombie"}
TaskIs(s, c, g, p, x) ==
  /\ s # "running" => c = Out
  /\ s = "none" => g = NoFiles
  /\ s = "running" /\ ResumedBy(c).pc \notin Leaving => p \in InodeNrs
  /\ ResumedBy(c).pc \in Leaving => p = Nil /\ g = NoFiles
  /\ ResumedBy(c).pc = "zombie" => x = Nil
TaskOK(t) == TaskIs(taskState[t], syscall[t], filp[t], pwd[t], executable[t])

(* A task and the copy it has made, which nobody else has. *)
Forks(t) == syscall[t].pc = "fork"
IsCopyOf(c, t) ==
  taskState[c] = "forked" /\ filp[c] = filp[t] /\ pwd[c] = pwd[t] /\ executable[c] = executable[t]
CopiesOK ==
  /\ \A t \in Processes : Forks(t) => IsCopyOf(syscall[t].child, t)
  /\ \A t, u \in Processes : Forks(t) /\ Forks(u) /\ syscall[t].child = syscall[u].child => t = u
  /\ \A c \in Processes : taskState[c] = "forked" => \E t \in Processes : Forks(t) /\ syscall[t].child = c

(* The descriptors of files whose inode is not known yet: nobody else has the
   file; all others are of files with an inode. *)
PendingOf(c) == IF c.pc = "opening" THEN {c.fd} ELSE IF c.pc = "pipe" THEN c.fds ELSE {}
Pending(t) == PendingOf(syscall[t])
PendingOK ==
  \A t \in Processes : \A fd \in Pending(t) :
    /\ filp[t][fd] \in FileTable /\ f_inode[filp[t][fd]] = Nil
    /\ \A u \in Processes, e \in Fds : filp[u][e] = filp[t][fd] => u = t /\ e = fd
OpenOK ==
  \A t \in Running : \A fd \in Fds \ Pending(t) : filp[t][fd] # Nil => f_inode[filp[t][fd]] \in InodeNrs
UnusedOK == \A f \in FileTable : f_count[f] = 0 => f_inode[f] = Nil

OpenInv ==
  /\ OpenTypeOK /\ \A t \in Processes : CallOK(syscall[t]) /\ TaskOK(t)
  /\ CopiesOK /\ PendingOK /\ OpenOK /\ UnusedOK /\ CountsAreExact
LEMMA FdsAre ==
  ASSUME OpenFilesAssumption
  PROVE  /\ IsFiniteSet(Fds) /\ IsFiniteSet(FileTable) /\ Fds \subseteq Nat /\ FileTable \subseteq Nat
         /\ Nil \notin FileTable /\ Nil \notin InodeNrs
         /\ \A R \in SUBSET Processes : IsFiniteSet(R) /\ IsFiniteSet(R \X Fds)
  <1>1. NR_OPEN \in Nat /\ NR_FILE \in Nat /\ IsFiniteSet(Processes)
    BY DEF OpenFilesAssumption
  <1>2. IsFiniteSet(Fds) /\ IsFiniteSet(FileTable)
    BY <1>1, FS_Interval DEF Fds, FileTable
  <1>3. Fds \subseteq Nat /\ FileTable \subseteq Nat
    BY <1>1 DEF Fds, FileTable
  <1>4. \A R \in SUBSET Processes : IsFiniteSet(R) /\ IsFiniteSet(R \X Fds)
    BY <1>1, <1>2, FS_Subset, FS_Product
  <1> QED BY <1>2, <1>3, <1>4 DEF OpenFilesAssumption, FileTable

LEMMA MinIs ==
  ASSUME NEW S, S \subseteq Nat, S # {}
  PROVE  Min(S) \in S
  <1>1. \E n \in S : \A m \in S : n <= m
    BY LeastOf
  <1> QED BY <1>1 DEF Min

LEMMA CountType ==
  ASSUME OpenFilesAssumption
  PROVE  /\ \A f : IsFiniteSet(Descriptors(f)) /\ Cardinality(Descriptors(f)) \in Nat
         /\ \A R \in SUBSET Processes : Cardinality(R) \in Nat
         /\ \A F \in SUBSET FileTable : IsFiniteSet(F) /\ Cardinality(F) \in Nat
  <1>1. Running \in SUBSET Processes
    BY DEF Running
  <1>2. \A f : Descriptors(f) \in SUBSET (Running \X Fds)
    BY DEF Descriptors
  <1>3. \A f : IsFiniteSet(Descriptors(f))
    BY <1>1, <1>2, FdsAre, FS_Subset
  <1> QED BY <1>3, FdsAre, FS_CardinalityType, FS_Subset

(* The descriptors of a file when one descriptor changes. *)
LEMMA DescriptorsChange ==
  ASSUME OpenFilesAssumption, NEW x \in Processes, NEW d \in Fds, NEW f,
         \A u \in Processes, e \in Fds : ~ (u = x /\ e = d) =>
           ((u \in Running' /\ filp'[u][e] = f) <=> (u \in Running /\ filp[u][e] = f))
  PROVE  /\ Cardinality(Descriptors(f)) \in Nat
         /\ Cardinality(Descriptors(f))' = Cardinality(Descriptors(f))
              - One(x \in Running /\ filp[x][d] = f) + One(x \in Running' /\ filp'[x][d] = f)
  <1> DEFINE D == {p \in Running \X Fds : filp[p[1]][p[2]] = f}
             E == {p \in Running' \X Fds : filp'[p[1]][p[2]] = f}
             y == <<x, d>>
  <1>1. Running \in SUBSET Processes /\ Running' \in SUBSET Processes
    BY DEF Running
  <1>2. IsFiniteSet(Running \X Fds) /\ IsFiniteSet(Running' \X Fds)
    BY <1>1, FdsAre
  <1>3. IsFiniteSet(D) /\ IsFiniteSet(E)
    BY <1>2, FS_Subset
  <1>4. \A p : p # y => (p \in D <=> p \in E)
    <2> SUFFICES ASSUME NEW p, p # y PROVE p \in D <=> p \in E
      OBVIOUS
    <2>1. CASE p \in Processes \X Fds
      <3>1. PICK u \in Processes, e \in Fds : p = <<u, e>>
        BY <2>1
      <3>2. ~ (u = x /\ e = d)
        BY <3>1
      <3> QED BY <3>1, <3>2
    <2>2. CASE p \notin Processes \X Fds
      BY <1>1, <2>2
    <2> QED BY <2>1, <2>2
  <1>5. (y \in D <=> (x \in Running /\ filp[x][d] = f)) /\ (y \in E <=> (x \in Running' /\ filp'[x][d] = f))
    OBVIOUS
  <1>6. Descriptors(f) = D /\ Descriptors(f)' = E
    BY DEF Descriptors
  <1> HIDE DEF D, E, y
  <1>7. D \ {y} = E \ {y}
    BY <1>4
  <1>8. Cardinality(D) \in Nat /\ Cardinality(E) = Cardinality(D) - One(y \in D) + One(y \in E)
    BY <1>3, <1>7, CountChanges
  <1> QED BY <1>5, <1>6, <1>8

(* The references of a task to an inode, and those of all tasks when one
   changes. *)
RefsOf(c, p, x, i) ==
  One((IF ResumedBy(c).pc = "pwd" THEN ResumedBy(c).inode ELSE p) = i)
  + One((IF ResumedBy(c).pc = "exec" THEN ResumedBy(c).inode ELSE x) = i)
  + One(c.pc = "iput" /\ c.inode = i)
RefsOfTask(t, i) == IF t \in Running THEN RefsOf(syscall[t], pwd[t], executable[t], i) ELSE 0
TaskRefs(i) ==
  Cardinality({t \in Running : PwdOf(t) = i})
  + Cardinality({t \in Running : ExecutableOf(t) = i})
  + Cardinality({t \in Running : Puts(t) /\ syscall[t].inode = i})
FileRefs(i) == Cardinality({f \in FileTable : f_inode[f] = i})

LEMMA TaskRefsChange ==
  ASSUME OpenFilesAssumption, NEW x \in Processes, NEW i,
         \A u \in Processes \ {x} : u \in Running' <=> u \in Running,
         \A u \in Running \ {x} :
           /\ PwdOf(u)' = PwdOf(u) /\ ExecutableOf(u)' = ExecutableOf(u) /\ (Puts(u)' <=> Puts(u))
           /\ Puts(u) => syscall'[u].inode = syscall[u].inode
  PROVE  TaskRefs(i) \in Nat /\ RefsOfTask(x, i) \in Nat
         /\ TaskRefs(i)' = TaskRefs(i) - RefsOfTask(x, i) + RefsOfTask(x, i)'
  <1> DEFINE P == {t \in Running : PwdOf(t) = i}
             E == {t \in Running : ExecutableOf(t) = i}
             U == {t \in Running : Puts(t) /\ syscall[t].inode = i}
             P1 == {t \in Running' : PwdOf(t)' = i}
             E1 == {t \in Running' : ExecutableOf(t)' = i}
             U1 == {t \in Running' : Puts(t)' /\ syscall'[t].inode = i}
  <1>1. Running \in SUBSET Processes /\ Running' \in SUBSET Processes
    BY DEF Running
  <1>2. IsFiniteSet(P) /\ IsFiniteSet(E) /\ IsFiniteSet(U) /\ IsFiniteSet(P1) /\ IsFiniteSet(E1) /\ IsFiniteSet(U1)
    BY <1>1, FdsAre
  <1>3. P \ {x} = P1 \ {x} /\ E \ {x} = E1 \ {x} /\ U \ {x} = U1 \ {x}
    BY <1>1
  <1>4. /\ Cardinality(P) \in Nat /\ Cardinality(P1) = Cardinality(P) - One(x \in P) + One(x \in P1)
        /\ Cardinality(E) \in Nat /\ Cardinality(E1) = Cardinality(E) - One(x \in E) + One(x \in E1)
        /\ Cardinality(U) \in Nat /\ Cardinality(U1) = Cardinality(U) - One(x \in U) + One(x \in U1)
    <2> HIDE DEF P, E, U, P1, E1, U1
    <2> QED BY <1>2, <1>3, CountChanges
  <1>5. RefsOfTask(x, i) = One(x \in P) + One(x \in E) + One(x \in U)
    BY DEF RefsOfTask, RefsOf, PwdOf, ExecutableOf, Puts, Resumes, ResumedBy, One
  <1>6. RefsOfTask(x, i)' = One(x \in P1) + One(x \in E1) + One(x \in U1)
    BY DEF RefsOfTask, RefsOf, PwdOf, ExecutableOf, Puts, Resumes, ResumedBy, One
  <1>7. /\ TaskRefs(i) = Cardinality(P) + Cardinality(E) + Cardinality(U)
        /\ TaskRefs(i)' = Cardinality(P1) + Cardinality(E1) + Cardinality(U1)
    BY DEF TaskRefs
  <1> HIDE DEF P, E, U, P1, E1, U1
  <1>8. \A p : One(p) \in Nat
    BY DEF One
  <1> QED BY <1>4, <1>5, <1>6, <1>7, <1>8

LEMMA ReferencesAre ==
  ASSUME OpenFilesAssumption
  PROVE  \A i : References(i) = FileRefs(i) + TaskRefs(i) /\ FileRefs(i) \in Nat /\ TaskRefs(i) \in Nat
  <1> SUFFICES ASSUME NEW i PROVE References(i) = FileRefs(i) + TaskRefs(i) /\ FileRefs(i) \in Nat /\ TaskRefs(i) \in Nat
    OBVIOUS
  <1> DEFINE F == Cardinality({f \in FileTable : f_inode[f] = i})
             P == Cardinality({t \in Running : PwdOf(t) = i})
             E == Cardinality({t \in Running : ExecutableOf(t) = i})
             U == Cardinality({t \in Running : Puts(t) /\ syscall[t].inode = i})
  <1>1. F \in Nat /\ P \in Nat /\ E \in Nat /\ U \in Nat
    BY CountType DEF Running
  <1>2. References(i) = F + P + E + U /\ FileRefs(i) = F /\ TaskRefs(i) = P + E + U
    BY DEF References, FileRefs, TaskRefs
  <1> HIDE DEF F, P, E, U
  <1> QED BY <1>1, <1>2

LEMMA ReferencesNext ==
  ASSUME OpenFilesAssumption
  PROVE  \A i : References(i)' = FileRefs(i)' + TaskRefs(i)' /\ FileRefs(i)' \in Nat /\ TaskRefs(i)' \in Nat
  <1> SUFFICES ASSUME NEW i PROVE References(i)' = FileRefs(i)' + TaskRefs(i)' /\ FileRefs(i)' \in Nat /\ TaskRefs(i)' \in Nat
    OBVIOUS
  <1> DEFINE F == Cardinality({f \in FileTable : f_inode'[f] = i})
             P == Cardinality({t \in Running' : PwdOf(t)' = i})
             E == Cardinality({t \in Running' : ExecutableOf(t)' = i})
             U == Cardinality({t \in Running' : Puts(t)' /\ syscall'[t].inode = i})
  <1>1. F \in Nat /\ P \in Nat /\ E \in Nat /\ U \in Nat
    BY CountType DEF Running
  <1>2. References(i)' = F + P + E + U /\ FileRefs(i)' = F /\ TaskRefs(i)' = P + E + U
    BY DEF References, FileRefs, TaskRefs
  <1> HIDE DEF F, P, E, U
  <1> QED BY <1>1, <1>2

(* The files of an inode when one file changes. *)
LEMMA FileRefsChange ==
  ASSUME OpenFilesAssumption, NEW f \in FileTable, NEW i, \A g \in FileTable \ {f} : f_inode'[g] = f_inode[g]
  PROVE  FileRefs(i) \in Nat /\ FileRefs(i)' = FileRefs(i) - One(f_inode[f] = i) + One(f_inode'[f] = i)
  <1> DEFINE F == {g \in FileTable : f_inode[g] = i}
             F1 == {g \in FileTable : f_inode'[g] = i}
  <1>1. IsFiniteSet(F) /\ IsFiniteSet(F1)
    BY CountType
  <1>2. F \ {f} = F1 \ {f}
    OBVIOUS
  <1>3. Cardinality(F) \in Nat /\ Cardinality(F1) = Cardinality(F) - One(f \in F) + One(f \in F1)
    <2> HIDE DEF F, F1
    <2> QED BY <1>1, <1>2, CountChanges
  <1>4. FileRefs(i) = Cardinality(F) /\ FileRefs(i)' = Cardinality(F1)
    BY DEF FileRefs
  <1> QED BY <1>3, <1>4

(* A file that somebody has is one of a running task, who has it or has copied
   the one that has it. *)
LEMMA UsersAre ==
  ASSUME OpenFilesAssumption, OpenInv, NEW u \in Processes, NEW e \in Fds, filp[u][e] \in FileTable
  PROVE  \E w \in Running : filp[w][e] = filp[u][e] /\ (w = u \/ Forks(w))
  <1>1. Nil \notin FileTable
    BY FdsAre
  <1>2. taskState[u] # "none"
    BY <1>1 DEF OpenInv, TaskOK, TaskIs, NoFiles
  <1>3. CASE taskState[u] = "running"
    BY <1>3 DEF Running
  <1>4. CASE taskState[u] = "forked"
    <2>1. PICK w \in Processes : Forks(w) /\ syscall[w].child = u
      BY <1>4 DEF OpenInv, CopiesOK
    <2>2. filp[u] = filp[w]
      BY <2>1 DEF OpenInv, CopiesOK, IsCopyOf
    <2>3. w \in Running
      BY <2>1 DEF OpenInv, TaskOK, TaskIs, Forks, Out, Running
    <2> QED BY <2>1, <2>2, <2>3
  <1> QED BY <1>2, <1>3, <1>4 DEF OpenInv, OpenTypeOK

LEMMA NoUser ==
  ASSUME OpenFilesAssumption, OpenInv, NEW f \in FileTable, f_count[f] = 0,
         NEW u \in Processes, NEW e \in Fds
  PROVE  filp[u][e] # f
  <1> SUFFICES ASSUME filp[u][e] = f PROVE FALSE
    OBVIOUS
  <1>1. PICK w \in Running : filp[w][e] = f
    BY UsersAre
  <1>2. <<w, e>> \in Descriptors(f)
    BY <1>1 DEF Descriptors
  <1>3. Cardinality(Descriptors(f)) = 0 /\ IsFiniteSet(Descriptors(f))
    BY CountType DEF OpenInv, CountsAreExact
  <1> QED BY <1>2, <1>3, FS_EmptySet

LEMMA SoleUser ==
  ASSUME OpenFilesAssumption, OpenInv, NEW t \in Running, NEW d \in Fds, filp[t][d] \in FileTable,
         f_count[filp[t][d]] <= 1, ~ Forks(t)
  PROVE  /\ f_count[filp[t][d]] = 1
         /\ \A u \in Processes, e \in Fds : filp[u][e] = filp[t][d] => u = t /\ e = d
  <1> DEFINE f == filp[t][d]
             D == Descriptors(f)
  <1>1. <<t, d>> \in D
    BY DEF Descriptors
  <1>2. Cardinality(D) = f_count[f] /\ IsFiniteSet(D) /\ Cardinality(D) \in Nat
    BY CountType DEF OpenInv, CountsAreExact
  <1>3. /\ Cardinality(D \ {<<t, d>>}) \in Nat /\ Cardinality(D) = Cardinality(D \ {<<t, d>>}) + One(<<t, d>> \in D)
        /\ IsFiniteSet(D \ {<<t, d>>})
    <2> HIDE DEF D
    <2> QED BY <1>2, OneMore, FS_RemoveElement
  <1>4. Cardinality(D) = 1 /\ D \ {<<t, d>>} = {}
    <2>1. One(<<t, d>> \in D) = 1
      BY <1>1 DEF One
    <2>2. Cardinality(D) = 1 /\ Cardinality(D \ {<<t, d>>}) = 0
      <3> HIDE DEF D
      <3> QED BY <1>2, <1>3, <2>1
    <2> HIDE DEF D
    <2> QED BY <1>3, <2>2, FS_EmptySet
  <1>5. ASSUME NEW u \in Processes, NEW e \in Fds, filp[u][e] = f PROVE u = t /\ e = d
    <2>1. PICK w \in Running : filp[w][e] = f /\ (w = u \/ Forks(w))
      BY <1>5, UsersAre
    <2>2. <<w, e>> \in D
      BY <2>1 DEF Descriptors
    <2>3. w = t /\ e = d
      BY <1>4, <2>2
    <2> QED BY <2>1, <2>3
  <1> QED BY <1>2, <1>4, <1>5

(* A step of one task, which goes on with r. *)
MovesTo(t, r, p, x) ==
  /\ taskState' = taskState /\ syscall' = [syscall EXCEPT ![t] = r]
  /\ pwd' = [pwd EXCEPT ![t] = p] /\ executable' = [executable EXCEPT ![t] = x]

PendingFits(t, r, g) ==
  \A d \in PendingOf(r) :
    /\ g[d] \in FileTable /\ f_inode'[g[d]] = Nil /\ \A e \in Fds : g[e] = g[d] => e = d
    /\ \A u \in Processes \ {t}, e \in Fds : filp[u][e] # g[d]

LEMMA TaskStep ==
  ASSUME OpenFilesAssumption, OpenInv, NEW t \in Running, NEW r, CallOK(r), ~ Forks(t), r.pc # "fork",
         NEW g \in [Fds -> FileTable \cup {Nil}], filp' = [filp EXCEPT ![t] = g],
         NEW p \in InodeNrs \cup {Nil}, NEW x \in InodeNrs \cup {Nil}, MovesTo(t, r, p, x),
         close_on_exec' \in [Processes -> SUBSET Fds],
         f_count' \in [FileTable -> Int], f_inode' \in [FileTable -> InodeNrs \cup {Nil}],
         f_pos' \in [FileTable -> Int], f_append' \in [FileTable -> BOOLEAN],
         i_count' \in [InodeNrs -> Int], i_size' \in [InodeNrs -> Int], written' \in [InodeNrs -> Int],
         posRaced' \in BOOLEAN,
         TaskIs("running", r, g, p, x),
         \A d \in Fds \ PendingOf(r) : g[d] # Nil => f_inode'[g[d]] \in InodeNrs,
         PendingFits(t, r, g),
         \A u \in Processes \ {t}, e \in Fds : filp[u][e] # Nil => f_inode'[filp[u][e]] = f_inode[filp[u][e]],
         \A u \in Processes \ {t} : \A d \in Pending(u) : \A e \in Fds : g[e] # filp[u][d],
         UnusedOK', CountsAreExact'
  PROVE  OpenInv'
  <1>1. OpenTypeOK /\ t \in Processes /\ taskState[t] = "running"
    BY DEF OpenInv, Running
  <1>2. /\ syscall'[t] = r /\ filp'[t] = g /\ pwd'[t] = p /\ executable'[t] = x
        /\ \A u \in Processes \ {t} : syscall'[u] = syscall[u] /\ filp'[u] = filp[u] /\ pwd'[u] = pwd[u]
                                      /\ executable'[u] = executable[u]
    BY <1>1 DEF OpenTypeOK, MovesTo
  <1>3. OpenTypeOK'
    <2>1. filp' \in [Processes -> [Fds -> FileTable \cup {Nil}]]
      BY <1>1 DEF OpenTypeOK
    <2>2. pwd' \in [Processes -> InodeNrs \cup {Nil}] /\ executable' \in [Processes -> InodeNrs \cup {Nil}]
      BY <1>1 DEF OpenTypeOK, MovesTo
    <2>3. taskState' \in [Processes -> {"none", "forked", "running"}]
      BY <1>1 DEF OpenTypeOK, MovesTo
    <2>4. syscall' = [u \in Processes |-> syscall'[u]]
      BY <1>1 DEF OpenTypeOK, MovesTo
    <2> QED BY <2>1, <2>2, <2>3, <2>4 DEF OpenTypeOK
  <1>0. taskState' = taskState
    BY DEF MovesTo
  <1>4. ASSUME NEW u \in Processes PROVE CallOK(syscall'[u]) /\ TaskOK(u)'
    <2>1. CASE u = t
      BY <1>0, <1>1, <1>2, <2>1 DEF TaskOK
    <2>2. CASE u # t
      BY <1>0, <1>2, <2>2 DEF TaskOK, OpenInv
    <2> QED BY <2>1, <2>2
  <1>5. \A u \in Processes : Forks(u)' <=> Forks(u)
    BY <1>2 DEF Forks
  <1>6. CopiesOK'
    <2>1. CopiesOK
      BY DEF OpenInv
    <2>2. ASSUME NEW u \in Processes, Forks(u) PROVE IsCopyOf(syscall[u].child, u)' /\ syscall'[u] = syscall[u]
      <3>1. u # t
        BY <2>2
      <3>2. syscall[u].child \in Processes /\ IsCopyOf(syscall[u].child, u)
        BY <2>1, <2>2 DEF CopiesOK, OpenInv, CallOK, NextOK, Forks
      <3>3. syscall[u].child # t
        BY <1>1, <3>2 DEF IsCopyOf
      <3> QED BY <1>0, <1>2, <3>1, <3>2, <3>3 DEF IsCopyOf
    <2>3. ASSUME NEW c \in Processes, taskState'[c] = "forked"
          PROVE  \E u \in Processes : Forks(u)' /\ syscall'[u].child = c
      BY <1>0, <1>5, <2>1, <2>2, <2>3 DEF CopiesOK
    <2> QED BY <1>5, <2>1, <2>2, <2>3 DEF CopiesOK
  <1>7. PendingOK'
    <2> SUFFICES ASSUME NEW u \in Processes, NEW d \in PendingOf(syscall'[u])
                 PROVE  /\ filp'[u][d] \in FileTable /\ f_inode'[filp'[u][d]] = Nil
                        /\ \A w \in Processes, e \in Fds : filp'[w][e] = filp'[u][d] => w = u /\ e = d
      BY DEF PendingOK, Pending
    <2>1. CASE u = t
      BY <1>2, <2>1 DEF PendingFits
    <2>2. CASE u # t
      <3>1. d \in Pending(u) /\ filp'[u][d] = filp[u][d]
        BY <1>2, <2>2 DEF Pending
      <3>2. /\ filp[u][d] \in FileTable /\ f_inode[filp[u][d]] = Nil
            /\ \A w \in Processes, e \in Fds : filp[w][e] = filp[u][d] => w = u /\ e = d
        BY <3>1 DEF OpenInv, PendingOK
      <3>3. d \in Fds
        BY <2>2, <1>2 DEF OpenInv, CallOK, NextOK, PendingOf
      <3>4. filp[u][d] # Nil
        BY <3>2, FdsAre
      <3> QED BY <1>2, <2>2, <3>1, <3>2, <3>3, <3>4
    <2> QED BY <2>1, <2>2
  <1>8. OpenOK'
    <2> SUFFICES ASSUME NEW u \in Processes, taskState'[u] = "running", NEW d \in Fds \ PendingOf(syscall'[u]),
                        filp'[u][d] # Nil
                 PROVE  f_inode'[filp'[u][d]] \in InodeNrs
      BY DEF OpenOK, Pending, Running
    <2>1. CASE u = t
      BY <1>2, <2>1
    <2>2. CASE u # t
      <3>1. u \in Running /\ d \in Fds \ Pending(u) /\ filp'[u][d] = filp[u][d]
        BY <1>0, <1>2, <2>2 DEF Pending, Running
      <3>2. f_inode[filp[u][d]] \in InodeNrs
        BY <3>1 DEF OpenInv, OpenOK
      <3> QED BY <2>2, <3>1, <3>2
    <2> QED BY <2>1, <2>2
  <1> QED BY <1>3, <1>4, <1>6, <1>7, <1>8 DEF OpenInv

-----------------------------------------------------------------------------
(* The counts after a step of one task. *)
LEMMA RunningSame ==
  ASSUME taskState' = taskState
  PROVE  Running' = Running
  BY DEF Running

LEMMA TaskCounts ==
  ASSUME OpenFilesAssumption, OpenInv, NEW t \in Running, NEW r, NEW p, NEW x, NEW i,
         MovesTo(t, r, p, x)
  PROVE  /\ TaskRefs(i) \in Nat /\ RefsOf(syscall[t], pwd[t], executable[t], i) \in Nat
         /\ TaskRefs(i)' = TaskRefs(i) - RefsOf(syscall[t], pwd[t], executable[t], i) + RefsOf(r, p, x, i)
  <1>1. t \in Processes /\ OpenTypeOK /\ Running' = Running
    BY RunningSame DEF OpenInv, Running, MovesTo
  <1>2. /\ syscall'[t] = r /\ pwd'[t] = p /\ executable'[t] = x
        /\ \A u \in Processes \ {t} : syscall'[u] = syscall[u] /\ pwd'[u] = pwd[u] /\ executable'[u] = executable[u]
    BY <1>1 DEF OpenTypeOK, MovesTo
  <1>3. \A u \in Running \ {t} :
           /\ PwdOf(u)' = PwdOf(u) /\ ExecutableOf(u)' = ExecutableOf(u) /\ (Puts(u)' <=> Puts(u))
           /\ Puts(u) => syscall'[u].inode = syscall[u].inode
    BY <1>1, <1>2 DEF Running, PwdOf, ExecutableOf, Puts, Resumes
  <1>4. TaskRefs(i) \in Nat /\ RefsOfTask(t, i) \in Nat
        /\ TaskRefs(i)' = TaskRefs(i) - RefsOfTask(t, i) + RefsOfTask(t, i)'
    BY <1>1, <1>3, TaskRefsChange
  <1>5. RefsOfTask(t, i) = RefsOf(syscall[t], pwd[t], executable[t], i)
    BY DEF RefsOfTask
  <1>6. RefsOfTask(t, i)' = RefsOf(r, p, x, i)
    BY <1>1, <1>2 DEF RefsOfTask, RefsOf
  <1> QED BY <1>4, <1>5, <1>6

(* i_count changes as the references of the task do. *)
Balanced(t, r, p, x) ==
  \A i \in InodeNrs :
    i_count'[i] = i_count[i] - RefsOf(syscall[t], pwd[t], executable[t], i) + RefsOf(r, p, x, i)

(* The steps that leave the descriptors and the files as they are. *)
LEMMA QuietCall ==
  ASSUME OpenFilesAssumption, OpenInv, NEW t \in Running, NEW r, CallOK(r), ~ Forks(t), r.pc # "fork",
         Pending(t) = {}, PendingOf(r) = {},
         UNCHANGED <<filp, f_count, f_inode>>,
         NEW p \in InodeNrs \cup {Nil}, NEW x \in InodeNrs \cup {Nil}, MovesTo(t, r, p, x),
         close_on_exec' \in [Processes -> SUBSET Fds],
         f_pos' \in [FileTable -> Int], f_append' \in [FileTable -> BOOLEAN],
         i_count' \in [InodeNrs -> Int], i_size' \in [InodeNrs -> Int], written' \in [InodeNrs -> Int],
         posRaced' \in BOOLEAN,
         TaskIs("running", r, filp[t], p, x),
         Balanced(t, r, p, x)
  PROVE  OpenInv'
  <1> DEFINE g == filp[t]
  <1>1. OpenTypeOK /\ t \in Processes /\ PendingOK /\ OpenOK /\ UnusedOK /\ CountsAreExact
    BY DEF OpenInv, Running
  <1>2. g \in [Fds -> FileTable \cup {Nil}] /\ filp' = [filp EXCEPT ![t] = g]
    BY <1>1 DEF OpenTypeOK
  <1>3. f_count' \in [FileTable -> Int] /\ f_inode' \in [FileTable -> InodeNrs \cup {Nil}]
    BY <1>1 DEF OpenTypeOK
  <1>4. \A d \in Fds \ PendingOf(r) : g[d] # Nil => f_inode'[g[d]] \in InodeNrs
    BY <1>1 DEF OpenOK
  <1>5. \A u \in Processes, e \in Fds : f_inode'[filp[u][e]] = f_inode[filp[u][e]]
    OBVIOUS
  <1>6. \A u \in Processes \ {t} : \A d \in Pending(u) : \A e \in Fds : g[e] # filp[u][d]
    BY <1>1 DEF PendingOK
  <1>7. UnusedOK'
    BY <1>1 DEF UnusedOK
  <1>8. CountsAreExact'
    <2>1. \A f : Descriptors(f)' = Descriptors(f)
      BY RunningSame DEF Descriptors, MovesTo
    <2>2. ASSUME NEW i \in InodeNrs PROVE i_count'[i] = References(i)'
      <3>1. TaskRefs(i)' = TaskRefs(i) - RefsOf(syscall[t], pwd[t], executable[t], i) + RefsOf(r, p, x, i)
        BY TaskCounts
      <3>2. FileRefs(i)' = FileRefs(i)
        BY DEF FileRefs
      <3>3. References(i) = FileRefs(i) + TaskRefs(i) /\ FileRefs(i) \in Nat /\ TaskRefs(i) \in Nat
        BY ReferencesAre
      <3>4. References(i)' = FileRefs(i)' + TaskRefs(i)'
        BY ReferencesNext
      <3>5. i_count[i] = References(i)
        BY <1>1 DEF CountsAreExact
      <3>6. RefsOf(r, p, x, i) \in Nat /\ RefsOf(syscall[t], pwd[t], executable[t], i) \in Nat
        BY DEF RefsOf, One
      <3> QED BY <3>1, <3>2, <3>3, <3>4, <3>5, <3>6 DEF Balanced
    <2> QED BY <1>1, <2>1, <2>2 DEF CountsAreExact
  <1>9. TaskIs("running", r, g, p, x) /\ PendingFits(t, r, g)
    BY DEF PendingFits
  <1> HIDE DEF g
  <1> QED BY <1>1, <1>2, <1>3, <1>4, <1>5, <1>6, <1>7, <1>8, <1>9, TaskStep

(* What is known of a task that runs, and the calls it goes on with. *)
LEMMA TaskHere ==
  ASSUME OpenInv, NEW t \in Processes, taskState[t] = "running"
  PROVE  /\ t \in Running /\ CallOK(syscall[t])
         /\ TaskIs("running", syscall[t], filp[t], pwd[t], executable[t])
         /\ filp[t] \in [Fds -> FileTable \cup {Nil}]
         /\ pwd[t] \in InodeNrs \cup {Nil} /\ executable[t] \in InodeNrs \cup {Nil}
         /\ syscall = [syscall EXCEPT ![t] = syscall[t]]
         /\ pwd = [pwd EXCEPT ![t] = pwd[t]] /\ executable = [executable EXCEPT ![t] = executable[t]]
         /\ OpenTypeOK
  BY DEF OpenInv, OpenTypeOK, TaskOK, Running

PutOf(j, r) == [pc |-> "iput", inode |-> j, then |-> r]

LEMMA RefsAre ==
  /\ \A c, p, x, i : RefsOf(c, p, x, i) \in Nat
  /\ \A c, p, x, i : c.pc \notin {"iput", "pwd", "exec"} => RefsOf(c, p, x, i) = One(p = i) + One(x = i)
  /\ \A c, p, x, i : c.pc = "pwd" => RefsOf(c, p, x, i) = One(c.inode = i) + One(x = i)
  /\ \A c, p, x, i : c.pc = "exec" => RefsOf(c, p, x, i) = One(p = i) + One(c.inode = i)
  /\ \A r, j, p, x, i : r.pc # "iput" => RefsOf(PutOf(j, r), p, x, i) = RefsOf(r, p, x, i) + One(j = i)
  /\ \A p : One(p) \in Nat
  <1>1. \A p : One(p) \in Nat
    BY DEF One
  <1>2. ASSUME NEW c, NEW p, NEW x, NEW i
        PROVE  /\ RefsOf(c, p, x, i) \in Nat
               /\ c.pc \notin {"iput", "pwd", "exec"} => RefsOf(c, p, x, i) = One(p = i) + One(x = i)
               /\ c.pc = "pwd" => RefsOf(c, p, x, i) = One(c.inode = i) + One(x = i)
               /\ c.pc = "exec" => RefsOf(c, p, x, i) = One(p = i) + One(c.inode = i)
    <2>1. RefsOf(c, p, x, i) \in Nat
      BY DEF RefsOf, One
    <2>2. ASSUME c.pc \notin {"iput", "pwd", "exec"} PROVE RefsOf(c, p, x, i) = One(p = i) + One(x = i)
      BY <2>2 DEF RefsOf, ResumedBy, One
    <2>3. ASSUME c.pc = "pwd" PROVE RefsOf(c, p, x, i) = One(c.inode = i) + One(x = i)
      BY <2>3 DEF RefsOf, ResumedBy, One
    <2>4. ASSUME c.pc = "exec" PROVE RefsOf(c, p, x, i) = One(p = i) + One(c.inode = i)
      BY <2>4 DEF RefsOf, ResumedBy, One
    <2> QED BY <2>1, <2>2, <2>3, <2>4
  <1>3. ASSUME NEW r, NEW j, NEW p, NEW x, NEW i, r.pc # "iput"
        PROVE  RefsOf(PutOf(j, r), p, x, i) = RefsOf(r, p, x, i) + One(j = i)
    BY <1>3 DEF RefsOf, ResumedBy, PutOf, One
  <1> QED BY <1>1, <1>2, <1>3

LEMMA CallsAre ==
  /\ \A r, j : j \in InodeNrs /\ r.pc \in Resumed /\ NextOK(r) =>
       CallOK(PutOf(j, r)) /\ PutOf(j, r).pc = "iput" /\ ResumedBy(PutOf(j, r)) = r /\ PendingOf(PutOf(j, r)) = {}
  /\ \A c : c.pc \notin {"opening", "pipe"} => PendingOf(c) = {}
  /\ \A pc : pc \in {"out", "exit", "executable", "zombie"} => NextOK([pc |-> pc]) /\ CallOK([pc |-> pc])
  /\ Out.pc = "out" /\ NextOK(Out) /\ CallOK(Out) /\ PendingOf(Out) = {} /\ ResumedBy(Out) = Out
  /\ \A r, t : PutThen(t, r, Out) <=> Sleeps(t, PutOf(r, Out))
  /\ \A j \in InodeNrs : NextOK([pc |-> "pwd", inode |-> j]) /\ NextOK([pc |-> "exec", inode |-> j])
  <1>1. ASSUME NEW r, NEW j, j \in InodeNrs, r.pc \in Resumed, NextOK(r)
        PROVE  CallOK(PutOf(j, r)) /\ PutOf(j, r).pc = "iput" /\ ResumedBy(PutOf(j, r)) = r /\ PendingOf(PutOf(j, r)) = {}
    <2> DEFINE c == PutOf(j, r)
    <2>1. c.pc = "iput" /\ c.inode = j /\ c.then = r
      BY DEF PutOf
    <2> HIDE DEF c
    <2> QED BY <1>1, <2>1 DEF CallOK, ResumedBy, PendingOf, c
  <1>2. \A c : c.pc \notin {"opening", "pipe"} => PendingOf(c) = {}
    BY DEF PendingOf
  <1>3. \A pc : pc \in {"out", "exit", "executable", "zombie"} => NextOK([pc |-> pc]) /\ CallOK([pc |-> pc])
    BY DEF NextOK, CallOK, Stations, Resumed
  <1>4. Out.pc = "out" /\ NextOK(Out) /\ CallOK(Out) /\ PendingOf(Out) = {} /\ ResumedBy(Out) = Out
    BY <1>3 DEF Out, PendingOf, ResumedBy
  <1>5. \A j \in InodeNrs : NextOK([pc |-> "pwd", inode |-> j]) /\ NextOK([pc |-> "exec", inode |-> j])
    BY DEF NextOK
  <1> QED BY <1>1, <1>2, <1>3, <1>4, <1>5 DEF PutThen, PutOf

LEMMA Iputs_Keeps ==
  ASSUME OpenFilesAssumption, OpenInv, NEW t \in Processes, Iputs(t)
  PROVE  OpenInv'
  <1> DEFINE c == syscall[t]
             r == c.then
             p == pwd[t]
             x == executable[t]
  <1>1. t \in Running /\ c.pc = "iput" /\ OpenTypeOK /\ CallOK(c) /\ TaskIs("running", c, filp[t], p, x)
        /\ p \in InodeNrs \cup {Nil} /\ x \in InodeNrs \cup {Nil}
    BY TaskHere DEF Iputs, At
  <1>2. r.pc \in Resumed /\ NextOK(r) /\ c.inode \in InodeNrs
    BY <1>1 DEF CallOK
  <1>3. CallOK(r) /\ r.pc # "iput" /\ r.pc # "fork" /\ ~ Forks(t) /\ Pending(t) = {} /\ PendingOf(r) = {}
    BY <1>1, <1>2 DEF CallOK, Resumed, Stations, Forks, Pending, PendingOf
  <1>4. TaskIs("running", r, filp[t], p, x)
    BY <1>1, <1>3 DEF TaskIs, ResumedBy
  <1>5. MovesTo(t, r, p, x)
    BY <1>1, TaskHere DEF Iputs, At, Sleeps, taskVars, MovesTo
  <1>6. UNCHANGED <<filp, close_on_exec, f_count, f_inode, f_pos, f_append, i_size, written, posRaced>>
    BY DEF Iputs, taskVars, fileVars
  <1>7. \A i \in InodeNrs : i_count'[i] = i_count[i] - One(c.inode = i)
    BY <1>1 DEF Iputs, OpenTypeOK, One
  <1>8. i_count' \in [InodeNrs -> Int]
    <2>1. i_count[c.inode] - 1 \in Int /\ i_count \in [InodeNrs -> Int]
      BY <1>1, <1>2 DEF OpenTypeOK
    <2>2. i_count' = [i_count EXCEPT ![c.inode] = i_count[c.inode] - 1]
      BY DEF Iputs
    <2> HIDE DEF c
    <2> QED BY <2>1, <2>2
  <1>9. Balanced(t, r, p, x)
    <2> SUFFICES ASSUME NEW i \in InodeNrs
                 PROVE  i_count'[i] = i_count[i] - RefsOf(c, p, x, i) + RefsOf(r, p, x, i)
      BY DEF Balanced
    <2>1. RefsOf(c, p, x, i) = RefsOf(r, p, x, i) + One(c.inode = i)
      BY <1>1, <1>3 DEF RefsOf, ResumedBy, One
    <2>2. RefsOf(r, p, x, i) \in Nat /\ One(c.inode = i) \in Nat /\ i_count[i] \in Int
      BY <1>1, RefsAre DEF OpenTypeOK
    <2> HIDE DEF c, r, p, x
    <2> QED BY <1>7, <2>1, <2>2
  <1>10. /\ close_on_exec' \in [Processes -> SUBSET Fds] /\ f_pos' \in [FileTable -> Int] /\ f_append' \in [FileTable -> BOOLEAN]
         /\ i_size' \in [InodeNrs -> Int] /\ written' \in [InodeNrs -> Int] /\ posRaced' \in BOOLEAN
    BY <1>1, <1>6 DEF OpenTypeOK
  <1>11. UNCHANGED <<filp, f_count, f_inode>>
    BY <1>6
  <1> HIDE DEF c, r, p, x
  <1> QED BY <1>1, <1>3, <1>4, <1>5, <1>8, <1>9, <1>10, <1>11, QuietCall DEF c, p, x

(* A call that goes on, and neither takes nor gives a reference. *)
Simple(c) == c.pc \notin {"iput", "pwd", "exec", "opening", "pipe", "fork", "executable", "zombie"}

LEMMA SimpleCall ==
  ASSUME OpenFilesAssumption, OpenInv, NEW t \in Processes, taskState[t] = "running",
         NEW r, CallOK(r), Simple(r), Simple(syscall[t]), Sleeps(t, r),
         UNCHANGED <<filp, pwd, executable, taskState, f_count, f_inode, i_count>>,
         close_on_exec' \in [Processes -> SUBSET Fds],
         f_pos' \in [FileTable -> Int], f_append' \in [FileTable -> BOOLEAN],
         i_size' \in [InodeNrs -> Int], written' \in [InodeNrs -> Int], posRaced' \in BOOLEAN
  PROVE  OpenInv'
  <1> DEFINE c == syscall[t]
             p == pwd[t]
             x == executable[t]
  <1>1. t \in Running /\ OpenTypeOK /\ CallOK(c) /\ TaskIs("running", c, filp[t], p, x)
        /\ p \in InodeNrs \cup {Nil} /\ x \in InodeNrs \cup {Nil}
    BY TaskHere
  <1>2. r.pc # "fork" /\ ~ Forks(t) /\ Pending(t) = {} /\ PendingOf(r) = {}
    BY DEF Simple, Forks, Pending, PendingOf
  <1>3. TaskIs("running", r, filp[t], p, x)
    BY <1>1 DEF TaskIs, ResumedBy, Simple, Leaving
  <1>4. MovesTo(t, r, p, x)
    BY TaskHere DEF Sleeps, MovesTo
  <1>5. i_count' \in [InodeNrs -> Int] /\ i_count' = i_count
    BY <1>1 DEF OpenTypeOK
  <1>6. Balanced(t, r, p, x)
    <2> SUFFICES ASSUME NEW i \in InodeNrs
                 PROVE  i_count'[i] = i_count[i] - RefsOf(c, p, x, i) + RefsOf(r, p, x, i)
      BY DEF Balanced
    <2>1. RefsOf(c, p, x, i) = One(p = i) + One(x = i) /\ RefsOf(r, p, x, i) = One(p = i) + One(x = i)
      BY RefsAre DEF Simple
    <2>2. RefsOf(r, p, x, i) \in Nat /\ i_count[i] \in Int
      BY <1>1, RefsAre DEF OpenTypeOK
    <2> HIDE DEF c, p, x
    <2> QED BY <1>5, <2>1, <2>2
  <1>7. UNCHANGED <<filp, f_count, f_inode>>
    OBVIOUS
  <1> HIDE DEF c, p, x
  <1> QED BY <1>1, <1>2, <1>3, <1>4, <1>5, <1>6, <1>7, QuietCall DEF c, p, x

LEMMA SetCloexec_Keeps ==
  ASSUME OpenFilesAssumption, OpenInv, NEW t \in Processes, SetCloexec(t)
  PROVE  OpenInv'
  <1> DEFINE c == syscall[t]
  <1>1. taskState[t] = "running" /\ c.pc = "out" /\ OpenTypeOK /\ CallOK(c) /\ syscall = [syscall EXCEPT ![t] = c]
    BY TaskHere DEF SetCloexec, Starts, At
  <1>2. UNCHANGED <<filp, pwd, executable, taskState, fileVars, inodeVars, syscall, posRaced>>
    BY DEF SetCloexec
  <1>3. /\ f_pos' \in [FileTable -> Int] /\ f_append' \in [FileTable -> BOOLEAN]
        /\ i_size' \in [InodeNrs -> Int] /\ written' \in [InodeNrs -> Int] /\ posRaced' \in BOOLEAN
    BY <1>1, <1>2 DEF OpenTypeOK, fileVars, inodeVars
  <1>4. close_on_exec' \in [Processes -> SUBSET Fds]
    <2>1. PICK fd \in Fds, on \in BOOLEAN :
            close_on_exec' = [close_on_exec EXCEPT ![t] = IF on THEN @ \union {fd} ELSE @ \ {fd}]
      BY DEF SetCloexec
    <2> QED BY <1>1, <2>1 DEF OpenTypeOK
  <1>5. UNCHANGED <<filp, pwd, executable, taskState, f_count, f_inode, i_count>> /\ syscall' = syscall
    BY <1>2 DEF fileVars, inodeVars
  <1>6. Simple(c) /\ Sleeps(t, c)
    BY <1>1, <1>5 DEF Simple, Sleeps
  <1> HIDE DEF c
  <1> QED BY <1>1, <1>3, <1>4, <1>5, <1>6, SimpleCall DEF c

LEMMA Seek_Keeps ==
  ASSUME OpenFilesAssumption, OpenInv, NEW t \in Processes, Seek(t)
  PROVE  OpenInv'
  <1> DEFINE c == syscall[t]
  <1>1. taskState[t] = "running" /\ c.pc = "out" /\ OpenTypeOK /\ CallOK(c) /\ syscall = [syscall EXCEPT ![t] = c]
    BY TaskHere DEF Seek, Starts, At
  <1>2. UNCHANGED <<taskVars, f_count, f_inode, f_append, inodeVars, syscall, posRaced>>
    BY DEF Seek
  <1>3. PICK fd \in Fds \ Free(t), pos \in 0..MaxSize : f_pos' = [f_pos EXCEPT ![filp[t][fd]] = pos]
    BY DEF Seek
  <1>4. /\ f_pos' \in [FileTable -> Int] /\ f_append' \in [FileTable -> BOOLEAN]
        /\ i_size' \in [InodeNrs -> Int] /\ written' \in [InodeNrs -> Int] /\ posRaced' \in BOOLEAN
        /\ close_on_exec' \in [Processes -> SUBSET Fds]
    <2>1. f_pos' \in [FileTable -> Int]
      <3>1. pos \in Int /\ f_pos \in [FileTable -> Int]
        BY <1>1 DEF OpenTypeOK, OpenFilesAssumption
      <3> QED BY <1>3, <3>1
    <2>2. close_on_exec' \in [Processes -> SUBSET Fds] /\ f_append' \in [FileTable -> BOOLEAN]
      BY <1>1, <1>2 DEF OpenTypeOK, taskVars
    <2> QED BY <1>1, <1>2, <2>1, <2>2 DEF OpenTypeOK, inodeVars
  <1>5. UNCHANGED <<filp, pwd, executable, taskState, f_count, f_inode, i_count>> /\ syscall' = syscall
    BY <1>2 DEF taskVars, inodeVars
  <1>6. Simple(c) /\ Sleeps(t, c)
    BY <1>1, <1>5 DEF Simple, Sleeps
  <1> HIDE DEF c
  <1> QED BY <1>1, <1>4, <1>5, <1>6, SimpleCall DEF c

(* What reading and writing goes on with. *)
LEMMA FileCalls ==
  ASSUME NEW f \in FileTable, NEW n \in Int, NEW b, NEW pos \in Int
  PROVE  /\ CallOK([pc |-> "read", file |-> f, left |-> n, block |-> b])
         /\ CallOK([pc |-> "write", file |-> f, pos |-> pos, left |-> n])
         /\ CallOK([pc |-> "written", file |-> f, pos |-> pos])
         /\ Simple([pc |-> "read", file |-> f, left |-> n, block |-> b])
         /\ Simple([pc |-> "write", file |-> f, pos |-> pos, left |-> n])
         /\ Simple([pc |-> "written", file |-> f, pos |-> pos])
  BY DEF CallOK, NextOK, Stations, Simple

(* Positions and sizes are numbers. *)
LEMMA FilesHere ==
  ASSUME OpenFilesAssumption, OpenInv, NEW t \in Processes, taskState[t] = "running", Pending(t) = {},
         NEW fd \in Fds \ Free(t)
  PROVE  filp[t][fd] \in FileTable /\ f_inode[filp[t][fd]] \in InodeNrs
         /\ f_pos[filp[t][fd]] \in Int /\ i_size[f_inode[filp[t][fd]]] \in Int
  <1>1. OpenTypeOK /\ OpenOK /\ t \in Running /\ filp[t][fd] # Nil
    BY DEF OpenInv, Running, Free
  <1>2. filp[t][fd] \in FileTable
    BY <1>1 DEF OpenTypeOK
  <1>3. f_inode[filp[t][fd]] \in InodeNrs
    BY <1>1 DEF OpenOK
  <1> QED BY <1>1, <1>2, <1>3 DEF OpenTypeOK

LEMMA StartRead_Keeps ==
  ASSUME OpenFilesAssumption, OpenInv, NEW t \in Processes, StartRead(t)
  PROVE  OpenInv'
  <1> DEFINE c == syscall[t]
  <1>1. taskState[t] = "running" /\ c.pc = "out" /\ OpenTypeOK
    BY TaskHere DEF StartRead, Starts, At
  <1>2. UNCHANGED <<taskVars, fileVars, inodeVars, posRaced>>
    BY DEF StartRead
  <1>3. PICK fd \in Fds \ Free(t), n \in 1..MaxSize :
          LET f == filp[t][fd]
              left == Least(n, i_size[f_inode[f]] - f_pos[f])
          IN  Sleeps(t, [pc |-> "read", file |-> f, left |-> left, block |-> f_pos[f] \div BLOCK_SIZE])
    BY DEF StartRead
  <1> DEFINE f == filp[t][fd]
             left == Least(n, i_size[f_inode[f]] - f_pos[f])
             b == f_pos[f] \div BLOCK_SIZE
             r == [pc |-> "read", file |-> f, left |-> left, block |-> b]
  <1>4. Pending(t) = {}
    BY <1>1 DEF Pending, PendingOf
  <1>5. f \in FileTable /\ left \in Int
    <2>1. f \in FileTable /\ f_pos[f] \in Int /\ i_size[f_inode[f]] \in Int
      BY <1>1, <1>4, FilesHere
    <2> HIDE DEF f
    <2> QED BY <2>1 DEF Least
  <1>6. CallOK(r) /\ Simple(r)
    <2> HIDE DEF f, left, b
    <2> QED BY <1>5, FileCalls
  <1>7. Simple(c) /\ Sleeps(t, r)
    BY <1>1, <1>3 DEF Simple
  <1>8. /\ f_pos' \in [FileTable -> Int] /\ f_append' \in [FileTable -> BOOLEAN]
        /\ i_size' \in [InodeNrs -> Int] /\ written' \in [InodeNrs -> Int] /\ posRaced' \in BOOLEAN
        /\ close_on_exec' \in [Processes -> SUBSET Fds]
    BY <1>1, <1>2 DEF OpenTypeOK, taskVars, fileVars, inodeVars
  <1>9. UNCHANGED <<filp, pwd, executable, taskState, f_count, f_inode, i_count>>
    BY <1>2 DEF taskVars, fileVars, inodeVars
  <1> HIDE DEF c, r
  <1> QED BY <1>1, <1>6, <1>7, <1>8, <1>9, SimpleCall DEF c

LEMMA ReadBlock_Keeps ==
  ASSUME OpenFilesAssumption, OpenInv, NEW t \in Processes, ReadBlock(t)
  PROVE  OpenInv'
  <1> DEFINE c == syscall[t]
             pos == f_pos[c.file]
             n == Least(c.left, InBlock(pos))
             b == (pos + n) \div BLOCK_SIZE
             r == [pc |-> "read", file |-> c.file, left |-> c.left - n, block |-> b]
             s == IF n = c.left THEN Out ELSE r
  <1>1. taskState[t] = "running" /\ c.pc = "read" /\ OpenTypeOK /\ CallOK(c)
    BY TaskHere DEF ReadBlock, At
  <1>2. UNCHANGED <<taskVars, f_count, f_inode, f_append, inodeVars>>
    BY DEF ReadBlock
  <1>3. posRaced' = (pos \div BLOCK_SIZE # c.block) /\ f_pos' = [f_pos EXCEPT ![c.file] = pos + n] /\ Sleeps(t, s)
    BY DEF ReadBlock, Done
  <1>4. c.file \in FileTable /\ c.left \in Int
    BY <1>1 DEF CallOK, NextOK
  <1>5. n \in Int /\ pos \in Int
    <2>1. pos \in Int /\ BLOCK_SIZE \in Nat \ {0}
      BY <1>1, <1>4 DEF OpenTypeOK, OpenFilesAssumption
    <2>2. InBlock(pos) \in Int
      <3> HIDE DEF pos
      <3> QED BY <2>1 DEF InBlock
    <2> QED BY <1>4, <2>1, <2>2 DEF Least
  <1>6. CallOK(s) /\ Simple(s)
    <2>1. CallOK(r) /\ Simple(r)
      <3>1. c.left - n \in Int
        BY <1>4, <1>5
      <3> HIDE DEF n, b, c
      <3> QED BY <1>4, <3>1, <1>5, FileCalls
    <2>2. CallOK(Out) /\ Simple(Out)
      BY CallsAre DEF Simple, Out
    <2> HIDE DEF r
    <2> QED BY <2>1, <2>2
  <1>7. f_pos' \in [FileTable -> Int]
    <2>1. pos + n \in Int /\ f_pos \in [FileTable -> Int]
      BY <1>1, <1>5 DEF OpenTypeOK
    <2> HIDE DEF pos, n, c
    <2> QED BY <1>3, <2>1
  <1>8. Simple(c)
    BY <1>1 DEF Simple
  <1>9. posRaced' \in BOOLEAN
    <2> HIDE DEF pos, c
    <2> QED BY <1>3
  <1>10. /\ f_append' \in [FileTable -> BOOLEAN] /\ i_size' \in [InodeNrs -> Int] /\ written' \in [InodeNrs -> Int]
         /\ close_on_exec' \in [Processes -> SUBSET Fds]
    BY <1>1, <1>2 DEF OpenTypeOK, taskVars, inodeVars
  <1>11. UNCHANGED <<filp, pwd, executable, taskState, f_count, f_inode, i_count>>
    BY <1>2 DEF taskVars, inodeVars
  <1>12. Sleeps(t, s)
    BY <1>3
  <1> HIDE DEF c, s
  <1> QED BY <1>1, <1>6, <1>7, <1>8, <1>9, <1>10, <1>11, <1>12, SimpleCall DEF c

LEMMA StartWrite_Keeps ==
  ASSUME OpenFilesAssumption, OpenInv, NEW t \in Processes, StartWrite(t)
  PROVE  OpenInv'
  <1> DEFINE c == syscall[t]
  <1>1. taskState[t] = "running" /\ c.pc = "out" /\ OpenTypeOK
    BY TaskHere DEF StartWrite, Starts, At
  <1>2. UNCHANGED <<taskVars, fileVars, inodeVars, posRaced>>
    BY DEF StartWrite
  <1>3. PICK fd \in Fds \ Free(t), n \in 1..MaxSize :
          LET f == filp[t][fd]
              pos == IF f_append[f] THEN i_size[f_inode[f]] ELSE f_pos[f]
          IN  Sleeps(t, [pc |-> "write", file |-> f, pos |-> pos, left |-> n])
    BY DEF StartWrite
  <1> DEFINE f == filp[t][fd]
             pos == IF f_append[f] THEN i_size[f_inode[f]] ELSE f_pos[f]
             r == [pc |-> "write", file |-> f, pos |-> pos, left |-> n]
  <1>4. Pending(t) = {}
    BY <1>1 DEF Pending, PendingOf
  <1>5. f \in FileTable /\ pos \in Int
    <2>1. f \in FileTable /\ f_pos[f] \in Int /\ i_size[f_inode[f]] \in Int
      BY <1>1, <1>4, FilesHere
    <2> QED BY <2>1
  <1>6. CallOK(r) /\ Simple(r)
    <2>1. n \in Int
      BY DEF OpenFilesAssumption
    <2> HIDE DEF f, pos
    <2> QED BY <1>5, <2>1, FileCalls
  <1>7. Simple(c) /\ Sleeps(t, r)
    BY <1>1, <1>3 DEF Simple
  <1>8. /\ f_pos' \in [FileTable -> Int] /\ f_append' \in [FileTable -> BOOLEAN]
        /\ i_size' \in [InodeNrs -> Int] /\ written' \in [InodeNrs -> Int] /\ posRaced' \in BOOLEAN
        /\ close_on_exec' \in [Processes -> SUBSET Fds]
    BY <1>1, <1>2 DEF OpenTypeOK, taskVars, fileVars, inodeVars
  <1>9. UNCHANGED <<filp, pwd, executable, taskState, f_count, f_inode, i_count>>
    BY <1>2 DEF taskVars, fileVars, inodeVars
  <1> HIDE DEF c, r
  <1> QED BY <1>1, <1>6, <1>7, <1>8, <1>9, SimpleCall DEF c

LEMMA WriteBlock_Keeps ==
  ASSUME OpenFilesAssumption, OpenInv, NEW t \in Processes, WriteBlock(t)
  PROVE  OpenInv'
  <1> DEFINE c == syscall[t]
             i == f_inode[c.file]
             n == Least(c.left, InBlock(c.pos))
             pos == c.pos + n
             r == [pc |-> "write", file |-> c.file, pos |-> pos, left |-> c.left - n]
             w == [pc |-> "written", file |-> c.file, pos |-> pos]
             s == IF n = c.left THEN w ELSE r
             size == Size(i_size[i], pos)
             far == IF pos > written[i] THEN pos ELSE written[i]
  <1>1. taskState[t] = "running" /\ c.pc = "write" /\ OpenTypeOK /\ CallOK(c)
    BY TaskHere DEF WriteBlock, At
  <1>2. UNCHANGED <<taskVars, fileVars, i_count, posRaced>>
    BY DEF WriteBlock
  <1>3. i_size' = [i_size EXCEPT ![i] = size] /\ written' = [written EXCEPT ![i] = far] /\ Sleeps(t, s)
    BY DEF WriteBlock
  <1>4. c.file \in FileTable /\ c.left \in Int /\ c.pos \in Int
    BY <1>1 DEF CallOK, NextOK
  <1>5. n \in Int /\ pos \in Int
    <2>1. BLOCK_SIZE \in Nat \ {0}
      BY DEF OpenFilesAssumption
    <2>2. InBlock(c.pos) \in Int
      <3> HIDE DEF c
      <3> QED BY <1>4, <2>1 DEF InBlock
    <2>3. n \in Int
      BY <1>4, <2>2 DEF Least
    <2> HIDE DEF n, c
    <2> QED BY <1>4, <2>3
  <1>6. CallOK(s) /\ Simple(s)
    <2>1. c.left - n \in Int
      <3> HIDE DEF n, c
      <3> QED BY <1>4, <1>5
    <2>2. CallOK(r) /\ Simple(r) /\ CallOK(w) /\ Simple(w)
      <3> HIDE DEF n, pos, c
      <3> QED BY <1>4, <1>5, <2>1, FileCalls
    <2> HIDE DEF r, w
    <2> QED BY <2>2
  <1>7. i_size' \in [InodeNrs -> Int] /\ written' \in [InodeNrs -> Int]
    <2>1. i_size \in [InodeNrs -> Int] /\ written \in [InodeNrs -> Int]
      BY <1>1 DEF OpenTypeOK
    <2>2. ASSUME i \in InodeNrs PROVE size \in Int /\ far \in Int
      <3>1. i_size[i] \in Int /\ written[i] \in Int
        BY <2>1, <2>2
      <3> HIDE DEF i, pos
      <3> QED BY <1>5, <3>1 DEF Size
    <2> HIDE DEF i, size, far
    <2> QED BY <1>3, <2>1, <2>2
  <1>8. Simple(c) /\ Sleeps(t, s)
    BY <1>1, <1>3 DEF Simple
  <1>9. /\ f_pos' \in [FileTable -> Int] /\ f_append' \in [FileTable -> BOOLEAN] /\ posRaced' \in BOOLEAN
        /\ close_on_exec' \in [Processes -> SUBSET Fds]
    BY <1>1, <1>2 DEF OpenTypeOK, taskVars, fileVars
  <1>10. UNCHANGED <<filp, pwd, executable, taskState, f_count, f_inode, i_count>>
    BY <1>2 DEF taskVars, fileVars
  <1> HIDE DEF c, s
  <1> QED BY <1>1, <1>6, <1>7, <1>8, <1>9, <1>10, SimpleCall DEF c

LEMMA NotWritten_Keeps ==
  ASSUME OpenFilesAssumption, OpenInv, NEW t \in Processes, NotWritten(t)
  PROVE  OpenInv'
  <1> DEFINE c == syscall[t]
             r == [pc |-> "written", file |-> c.file, pos |-> c.pos]
  <1>1. taskState[t] = "running" /\ c.pc = "write" /\ OpenTypeOK /\ CallOK(c)
    BY TaskHere DEF NotWritten, At
  <1>2. UNCHANGED <<taskVars, fileVars, inodeVars, posRaced>> /\ Sleeps(t, r)
    BY DEF NotWritten
  <1>3. c.file \in FileTable /\ c.pos \in Int
    BY <1>1 DEF CallOK, NextOK
  <1>4. CallOK(r) /\ Simple(r)
    <2>1. 0 \in Int
      OBVIOUS
    <2> HIDE DEF c
    <2> QED BY <1>3, <2>1, FileCalls
  <1>5. Simple(c) /\ Sleeps(t, r)
    BY <1>1, <1>2 DEF Simple
  <1>6. /\ f_pos' \in [FileTable -> Int] /\ f_append' \in [FileTable -> BOOLEAN]
        /\ i_size' \in [InodeNrs -> Int] /\ written' \in [InodeNrs -> Int] /\ posRaced' \in BOOLEAN
        /\ close_on_exec' \in [Processes -> SUBSET Fds]
    BY <1>1, <1>2 DEF OpenTypeOK, taskVars, fileVars, inodeVars
  <1>7. UNCHANGED <<filp, pwd, executable, taskState, f_count, f_inode, i_count>>
    BY <1>2 DEF taskVars, fileVars, inodeVars
  <1> HIDE DEF c, r
  <1> QED BY <1>1, <1>4, <1>5, <1>6, <1>7, SimpleCall DEF c

LEMMA WriteDone_Keeps ==
  ASSUME OpenFilesAssumption, OpenInv, NEW t \in Processes, WriteDone(t)
  PROVE  OpenInv'
  <1> DEFINE c == syscall[t]
             v == IF f_append[c.file] THEN f_pos[c.file] ELSE c.pos
  <1>1. taskState[t] = "running" /\ c.pc = "written" /\ OpenTypeOK /\ CallOK(c)
    BY TaskHere DEF WriteDone, At
  <1>2. UNCHANGED <<taskVars, f_count, f_inode, f_append, inodeVars, posRaced>> /\ Sleeps(t, Out)
    BY DEF WriteDone, Done
  <1>3. f_pos' = [f_pos EXCEPT ![c.file] = v]
    BY DEF WriteDone
  <1>4. CallOK(Out) /\ Simple(Out)
    BY CallsAre DEF Simple, Out
  <1>5. Simple(c)
    BY <1>1 DEF Simple
  <1>6. f_pos' \in [FileTable -> Int]
    <2>1. f_pos \in [FileTable -> Int] /\ c.file \in FileTable /\ c.pos \in Int
      BY <1>1 DEF OpenTypeOK, CallOK, NextOK
    <2>2. v \in Int
      BY <2>1
    <2> HIDE DEF v, c
    <2> QED BY <1>3, <2>1, <2>2
  <1>7. /\ f_append' \in [FileTable -> BOOLEAN] /\ close_on_exec' \in [Processes -> SUBSET Fds]
        /\ i_size' \in [InodeNrs -> Int] /\ written' \in [InodeNrs -> Int] /\ posRaced' \in BOOLEAN
    BY <1>1, <1>2 DEF OpenTypeOK, taskVars, inodeVars
  <1>8. UNCHANGED <<filp, pwd, executable, taskState, f_count, f_inode, i_count>>
    BY <1>2 DEF taskVars, inodeVars
  <1>9. Sleeps(t, Out)
    BY <1>2
  <1> HIDE DEF c
  <1> QED BY <1>1, <1>4, <1>5, <1>6, <1>7, <1>8, <1>9, SimpleCall DEF c

(* A call that changes what the task refers to. *)
Apart(c) == c.pc \notin {"opening", "pipe", "fork"}

LEMMA RefsCall ==
  ASSUME OpenFilesAssumption, OpenInv, NEW t \in Processes, taskState[t] = "running",
         NEW r, CallOK(r), Apart(r), Apart(syscall[t]),
         UNCHANGED <<filp, fileVars, i_size, written, posRaced>>,
         NEW p \in InodeNrs \cup {Nil}, NEW x \in InodeNrs \cup {Nil}, MovesTo(t, r, p, x),
         close_on_exec' \in [Processes -> SUBSET Fds], i_count' \in [InodeNrs -> Int],
         TaskIs("running", r, filp[t], p, x),
         Balanced(t, r, p, x)
  PROVE  OpenInv'
  <1>1. t \in Running /\ OpenTypeOK
    BY TaskHere
  <1>2. r.pc # "fork" /\ ~ Forks(t) /\ Pending(t) = {} /\ PendingOf(r) = {}
    BY DEF Apart, Forks, Pending, PendingOf
  <1>3. UNCHANGED <<filp, f_count, f_inode>>
    BY DEF fileVars
  <1>4. /\ f_pos' \in [FileTable -> Int] /\ f_append' \in [FileTable -> BOOLEAN]
        /\ i_size' \in [InodeNrs -> Int] /\ written' \in [InodeNrs -> Int] /\ posRaced' \in BOOLEAN
    BY <1>1 DEF OpenTypeOK, fileVars
  <1> QED BY <1>1, <1>2, <1>3, <1>4, QuietCall

LEMMA SamePlaces ==
  ASSUME OpenInv, NEW t \in Processes, taskState[t] = "running", NEW r, Sleeps(t, r),
         UNCHANGED <<pwd, executable, taskState>>
  PROVE  MovesTo(t, r, pwd[t], executable[t])
  BY TaskHere DEF Sleeps, MovesTo

(* One more reference to an inode. *)
LEMMA Counted ==
  ASSUME OpenTypeOK, NEW i \in InodeNrs, i_count' = [i_count EXCEPT ![i] = i_count[i] + 1]
  PROVE  /\ i_count' \in [InodeNrs -> Int] /\ i_count \in [InodeNrs -> Int]
         /\ \A k \in InodeNrs : i_count'[k] = i_count[k] + One(i = k)
  <1>1. i_count[i] + 1 \in Int /\ i_count \in [InodeNrs -> Int]
    BY DEF OpenTypeOK
  <1>2. i_count' \in [InodeNrs -> Int]
    BY <1>1
  <1>3. \A k \in InodeNrs : i_count'[k] = i_count[k] + One(i = k)
    BY <1>1 DEF One
  <1> QED BY <1>1, <1>2, <1>3

LEMMA Chdir_Keeps ==
  ASSUME OpenFilesAssumption, OpenInv, NEW t \in Processes, Chdir(t)
  PROVE  OpenInv'
  <1> DEFINE c == syscall[t]
             p == pwd[t]
             x == executable[t]
  <1>1. taskState[t] = "running" /\ c.pc = "out" /\ OpenTypeOK /\ TaskIs("running", c, filp[t], p, x)
        /\ p \in InodeNrs \cup {Nil} /\ x \in InodeNrs \cup {Nil}
    BY TaskHere DEF Chdir, Starts, At
  <1>2. p \in InodeNrs
    BY <1>1 DEF TaskIs, ResumedBy, Leaving
  <1>3. PICK i \in InodeNrs \ Pipes, isDirectory \in BOOLEAN :
       /\ i_count' = [i_count EXCEPT ![i] = @ + 1]
       /\ IF isDirectory THEN PutThen(t, p, [pc |-> "pwd", inode |-> i]) ELSE PutThen(t, i, Out)
    BY DEF Chdir
  <1>4. UNCHANGED <<taskVars, fileVars, i_size, written, posRaced>>
    BY DEF Chdir
  <1>5. /\ i_count' \in [InodeNrs -> Int] /\ i_count \in [InodeNrs -> Int]
        /\ \A k \in InodeNrs : i_count'[k] = i_count[k] + One(i = k)
    BY <1>1, <1>3, Counted
  <1> DEFINE q == [pc |-> "pwd", inode |-> i]
             j == IF isDirectory THEN p ELSE i
             s == IF isDirectory THEN q ELSE Out
             r == PutOf(j, s)
  <1>6. q.pc = "pwd" /\ q.inode = i /\ NextOK(q)
    BY CallsAre
  <1>7. Sleeps(t, r)
    BY <1>3 DEF PutThen, PutOf
  <1> HIDE DEF q
  <1>8. j \in InodeNrs /\ s.pc \in Resumed /\ NextOK(s) /\ s.pc \in {"pwd", "out"}
    BY <1>2, <1>6, CallsAre DEF Resumed
  <1>9. CallOK(r) /\ Apart(r) /\ Apart(c) /\ ResumedBy(r) = s
    BY <1>1, <1>8, CallsAre DEF Apart
  <1>10. MovesTo(t, r, p, x)
    BY <1>1, <1>4, <1>7, SamePlaces DEF taskVars
  <1>11. TaskIs("running", r, filp[t], p, x)
    BY <1>1, <1>2, <1>8, <1>9 DEF TaskIs, Leaving
  <1>12. Balanced(t, r, p, x)
    <2> SUFFICES ASSUME NEW k \in InodeNrs
                 PROVE  i_count'[k] = i_count[k] - RefsOf(c, p, x, k) + RefsOf(r, p, x, k)
      BY DEF Balanced
    <2>1. RefsOf(c, p, x, k) = One(p = k) + One(x = k)
      BY <1>1, RefsAre
    <2>2. RefsOf(r, p, x, k) = RefsOf(s, p, x, k) + One(j = k)
      BY <1>8, RefsAre
    <2>3. RefsOf(s, p, x, k) + One(j = k) = One(p = k) + One(x = k) + One(i = k)
      <3>1. CASE isDirectory
        <4>1. RefsOf(q, p, x, k) = One(i = k) + One(x = k)
          BY <1>6, RefsAre
        <4>2. One(i = k) \in Nat /\ One(x = k) \in Nat /\ One(p = k) \in Nat
          BY RefsAre
        <4>3. s = q /\ j = p
          BY <3>1
        <4> HIDE DEF p, x, s, j
        <4> QED BY <4>1, <4>2, <4>3
      <3>2. CASE ~ isDirectory
        <4>1. RefsOf(Out, p, x, k) = One(p = k) + One(x = k)
          BY CallsAre, RefsAre
        <4>3. s = Out /\ j = i
          BY <3>2
        <4> HIDE DEF p, x, s, j
        <4> QED BY <4>1, <4>3
      <3> QED BY <3>1, <3>2
    <2>4. i_count'[k] = i_count[k] + One(i = k) /\ i_count[k] \in Int /\ One(p = k) \in Nat /\ One(x = k) \in Nat /\ One(i = k) \in Nat
      BY <1>5, RefsAre
    <2> HIDE DEF c, p, x, r, s, j
    <2> QED BY <2>1, <2>2, <2>3, <2>4
  <1>13. UNCHANGED <<filp, fileVars, i_size, written, posRaced>> /\ close_on_exec' \in [Processes -> SUBSET Fds]
    BY <1>1, <1>4 DEF taskVars, OpenTypeOK
  <1> HIDE DEF c, p, x, r
  <1> QED BY <1>1, <1>5, <1>9, <1>10, <1>11, <1>12, <1>13, RefsCall DEF c, p, x

LEMMA Chdired_Keeps ==
  ASSUME OpenFilesAssumption, OpenInv, NEW t \in Processes, Chdired(t)
  PROVE  OpenInv'
  <1> DEFINE c == syscall[t]
             p == c.inode
             x == executable[t]
  <1>1. taskState[t] = "running" /\ c.pc = "pwd" /\ OpenTypeOK /\ TaskIs("running", c, filp[t], pwd[t], x)
        /\ CallOK(c) /\ x \in InodeNrs \cup {Nil}
    BY TaskHere DEF Chdired, At
  <1>2. p \in InodeNrs
    BY <1>1 DEF CallOK, NextOK
  <1>3. UNCHANGED <<filp, close_on_exec, executable, taskState, fileVars, inodeVars, posRaced>>
        /\ pwd' = [pwd EXCEPT ![t] = p] /\ Sleeps(t, Out)
    BY DEF Chdired, Done
  <1>4. CallOK(Out) /\ Apart(Out) /\ Apart(c)
    BY <1>1, CallsAre DEF Apart
  <1>5. MovesTo(t, Out, p, x)
    BY <1>1, <1>3, TaskHere DEF MovesTo, Sleeps
  <1>6. TaskIs("running", Out, filp[t], p, x)
    BY <1>2, CallsAre DEF TaskIs, Leaving
  <1>7. i_count' \in [InodeNrs -> Int] /\ i_count' = i_count
    BY <1>1, <1>3 DEF inodeVars, OpenTypeOK
  <1>8. Balanced(t, Out, p, x)
    <2> SUFFICES ASSUME NEW k \in InodeNrs
                 PROVE  i_count'[k] = i_count[k] - RefsOf(c, pwd[t], x, k) + RefsOf(Out, p, x, k)
      BY DEF Balanced
    <2>1. RefsOf(c, pwd[t], x, k) = One(p = k) + One(x = k) /\ RefsOf(Out, p, x, k) = One(p = k) + One(x = k)
      BY <1>1, CallsAre, RefsAre
    <2>2. i_count'[k] = i_count[k] /\ i_count[k] \in Int /\ One(p = k) \in Nat /\ One(x = k) \in Nat
      BY <1>7, RefsAre
    <2> HIDE DEF c, p, x
    <2> QED BY <2>1, <2>2
  <1>9. UNCHANGED <<filp, fileVars, i_size, written, posRaced>> /\ close_on_exec' \in [Processes -> SUBSET Fds]
    BY <1>1, <1>3 DEF inodeVars, OpenTypeOK
  <1> HIDE DEF c, p, x
  <1> QED BY <1>1, <1>2, <1>4, <1>5, <1>6, <1>7, <1>8, <1>9, RefsCall DEF c, x

LEMMA Exec_Keeps ==
  ASSUME OpenFilesAssumption, OpenInv, NEW t \in Processes, Exec(t)
  PROVE  OpenInv'
  <1> DEFINE c == syscall[t]
             p == pwd[t]
             x == executable[t]
  <1>1. taskState[t] = "running" /\ c.pc = "out" /\ OpenTypeOK /\ TaskIs("running", c, filp[t], p, x)
        /\ p \in InodeNrs \cup {Nil} /\ x \in InodeNrs \cup {Nil}
    BY TaskHere DEF Exec, Starts, At
  <1>2. p \in InodeNrs
    BY <1>1 DEF TaskIs, ResumedBy, Leaving
  <1>3. PICK i \in InodeNrs \ Pipes :
       /\ i_count' = [i_count EXCEPT ![i] = @ + 1]
       /\ LET r == [pc |-> "exec", inode |-> i] IN
          \/ PutThen(t, i, Out)
          \/ x = Nil /\ Sleeps(t, r)
          \/ x # Nil /\ PutThen(t, x, r)
    BY DEF Exec
  <1>4. UNCHANGED <<taskVars, fileVars, i_size, written, posRaced>>
    BY DEF Exec
  <1>5. /\ i_count' \in [InodeNrs -> Int] /\ i_count \in [InodeNrs -> Int]
        /\ \A k \in InodeNrs : i_count'[k] = i_count[k] + One(i = k)
    BY <1>1, <1>3, Counted
  <1>6. UNCHANGED <<filp, fileVars, i_size, written, posRaced>> /\ close_on_exec' \in [Processes -> SUBSET Fds]
    BY <1>1, <1>4 DEF taskVars, OpenTypeOK
  <1> DEFINE q == [pc |-> "exec", inode |-> i]
  <1>7. q.pc = "exec" /\ q.inode = i /\ NextOK(q)
    BY CallsAre
  <1>8. \/ Sleeps(t, PutOf(i, Out))
        \/ x = Nil /\ Sleeps(t, q)
        \/ x # Nil /\ Sleeps(t, PutOf(x, q))
    BY <1>3 DEF PutThen, PutOf
  <1>9. Nil \notin InodeNrs
    BY FdsAre
  <1> HIDE DEF q
  <1>10. \A k : RefsOf(c, p, x, k) = One(p = k) + One(x = k)
    BY <1>1, RefsAre
  <1>11. ASSUME NEW r, Sleeps(t, r), CallOK(r), Apart(r), ResumedBy(r).pc \in {"out", "exec"},
                \A k \in InodeNrs : RefsOf(r, p, x, k) = One(p = k) + One(x = k) + One(i = k)
         PROVE  OpenInv'
    <2>1. Apart(c)
      BY <1>1 DEF Apart
    <2>2. MovesTo(t, r, p, x)
      BY <1>1, <1>4, <1>11, SamePlaces DEF taskVars
    <2>3. TaskIs("running", r, filp[t], p, x)
      BY <1>2, <1>11 DEF TaskIs, Leaving
    <2>4. Balanced(t, r, p, x)
      <3> SUFFICES ASSUME NEW k \in InodeNrs
                   PROVE  i_count'[k] = i_count[k] - RefsOf(c, p, x, k) + RefsOf(r, p, x, k)
        BY DEF Balanced
      <3>1. i_count[k] \in Int /\ One(p = k) \in Nat /\ One(x = k) \in Nat /\ One(i = k) \in Nat
            /\ i_count'[k] = i_count[k] + One(i = k)
        BY <1>5, RefsAre
      <3>2. RefsOf(r, p, x, k) = One(p = k) + One(x = k) + One(i = k) /\ RefsOf(c, p, x, k) = One(p = k) + One(x = k)
        BY <1>10, <1>11
      <3> HIDE DEF c, p, x
      <3> QED BY <3>1, <3>2
    <2> HIDE DEF c, p, x
    <2> QED BY <1>1, <1>5, <1>6, <1>11, <2>1, <2>2, <2>3, <2>4, RefsCall DEF c, p, x
  <1>12. CASE Sleeps(t, PutOf(i, Out))
    <2> DEFINE r == PutOf(i, Out)
    <2>1. CallOK(r) /\ Apart(r) /\ ResumedBy(r).pc = "out"
      BY CallsAre DEF Resumed, Apart
    <2>2. \A k \in InodeNrs : RefsOf(r, p, x, k) = One(p = k) + One(x = k) + One(i = k)
      BY CallsAre, RefsAre
    <2> HIDE DEF r
    <2> QED BY <1>11, <1>12, <2>1, <2>2 DEF r
  <1>13. CASE x = Nil /\ Sleeps(t, q)
    <2>1. CallOK(q) /\ Apart(q) /\ ResumedBy(q).pc = "exec"
      BY <1>7 DEF CallOK, Stations, Resumed, Apart, ResumedBy
    <2>2. \A k \in InodeNrs : RefsOf(q, p, x, k) = One(p = k) + One(x = k) + One(i = k)
      <3> TAKE k \in InodeNrs
      <3>1. One(x = k) = 0 /\ One(p = k) \in Nat /\ One(i = k) \in Nat
        BY <1>9, <1>13, RefsAre DEF One
      <3>2. RefsOf(q, p, x, k) = One(p = k) + One(i = k)
        BY <1>7, RefsAre
      <3> HIDE DEF p, x
      <3> QED BY <3>1, <3>2
    <2> QED BY <1>11, <1>13, <2>1, <2>2
  <1>14. CASE x # Nil /\ Sleeps(t, PutOf(x, q))
    <2> DEFINE r == PutOf(x, q)
    <2>1. CallOK(r) /\ Apart(r) /\ ResumedBy(r).pc = "exec"
      BY <1>1, <1>7, <1>14, CallsAre DEF Resumed, Apart
    <2>2. \A k \in InodeNrs : RefsOf(r, p, x, k) = One(p = k) + One(x = k) + One(i = k)
      <3> TAKE k \in InodeNrs
      <3>1. One(x = k) \in Nat /\ One(p = k) \in Nat /\ One(i = k) \in Nat
        BY RefsAre
      <3>2. RefsOf(q, p, x, k) = One(p = k) + One(i = k) /\ RefsOf(r, p, x, k) = RefsOf(q, p, x, k) + One(x = k)
        BY <1>7, RefsAre
      <3> HIDE DEF p, x, r
      <3> QED BY <3>1, <3>2
    <2> HIDE DEF r
    <2> QED BY <1>11, <1>14, <2>1, <2>2 DEF r
  <1> QED BY <1>8, <1>12, <1>13, <1>14

LEMMA ExitPwd_Keeps ==
  ASSUME OpenFilesAssumption, OpenInv, NEW t \in Processes, ExitPwd(t)
  PROVE  OpenInv'
  <1> DEFINE c == syscall[t]
             p == pwd[t]
             x == executable[t]
             e == [pc |-> "executable"]
             r == PutOf(p, e)
  <1>1. taskState[t] = "running" /\ c.pc \in {"out", "exit"} /\ OpenTypeOK /\ TaskIs("running", c, filp[t], p, x)
        /\ p \in InodeNrs \cup {Nil} /\ x \in InodeNrs \cup {Nil} /\ filp[t] \in [Fds -> FileTable \cup {Nil}]
    BY TaskHere DEF ExitPwd, Exits, Starts, At
  <1>2. p \in InodeNrs
    BY <1>1 DEF TaskIs, ResumedBy, Leaving
  <1>3. UNCHANGED <<filp, close_on_exec, executable, taskState, fileVars, inodeVars, posRaced>>
        /\ pwd' = [pwd EXCEPT ![t] = Nil] /\ Sleeps(t, r) /\ Free(t) = Fds
    BY DEF ExitPwd, PutThen, PutOf
  <1>4. filp[t] = NoFiles
    <2>1. \A fd \in Fds : filp[t][fd] = Nil
      BY <1>3 DEF Free
    <2> QED BY <1>1, <2>1 DEF NoFiles
  <1>5. e.pc = "executable" /\ NextOK(e)
    BY CallsAre
  <1> HIDE DEF e
  <1>6. CallOK(r) /\ Apart(r) /\ Apart(c) /\ ResumedBy(r) = e
    BY <1>1, <1>2, <1>5, CallsAre DEF Apart, Resumed
  <1>7. MovesTo(t, r, Nil, x)
    BY <1>1, <1>3, TaskHere DEF MovesTo, Sleeps
  <1>8. TaskIs("running", r, filp[t], Nil, x)
    BY <1>4, <1>5, <1>6 DEF TaskIs, Leaving
  <1>9. i_count' \in [InodeNrs -> Int] /\ i_count' = i_count
    BY <1>1, <1>3 DEF inodeVars, OpenTypeOK
  <1>10. Balanced(t, r, Nil, x)
    <2> SUFFICES ASSUME NEW k \in InodeNrs
                 PROVE  i_count'[k] = i_count[k] - RefsOf(c, p, x, k) + RefsOf(r, Nil, x, k)
      BY DEF Balanced
    <2>1. RefsOf(c, p, x, k) = One(p = k) + One(x = k)
      BY <1>1, RefsAre
    <2>2. RefsOf(r, Nil, x, k) = RefsOf(e, Nil, x, k) + One(p = k) /\ RefsOf(e, Nil, x, k) = One(Nil = k) + One(x = k)
      BY <1>5, RefsAre
    <2>3. One(Nil = k) = 0
      BY FdsAre DEF One
    <2>4. i_count'[k] = i_count[k] /\ i_count[k] \in Int /\ One(p = k) \in Nat /\ One(x = k) \in Nat
      BY <1>9, RefsAre
    <2>5. RefsOf(r, Nil, x, k) = One(x = k) + One(p = k)
      <3> DEFINE n == One(Nil = k)
                 m == One(x = k)
      <3>1. n = 0 /\ m \in Nat /\ RefsOf(e, Nil, x, k) = n + m
        BY <2>2, <2>3, <2>4
      <3> HIDE DEF n, m, r
      <3>2. RefsOf(e, Nil, x, k) = m
        BY <3>1
      <3> QED BY <2>2, <3>2 DEF m
    <2> HIDE DEF c, p, x, r
    <2> QED BY <2>1, <2>4, <2>5
  <1>11. UNCHANGED <<filp, fileVars, i_size, written, posRaced>> /\ close_on_exec' \in [Processes -> SUBSET Fds]
    BY <1>1, <1>3 DEF inodeVars, OpenTypeOK
  <1>12. Nil \in InodeNrs \cup {Nil}
    OBVIOUS
  <1> HIDE DEF c, x, r
  <1> QED BY <1>1, <1>6, <1>7, <1>8, <1>9, <1>10, <1>11, <1>12, RefsCall DEF c, x

LEMMA ExitExecutable_Keeps ==
  ASSUME OpenFilesAssumption, OpenInv, NEW t \in Processes, ExitExecutable(t)
  PROVE  OpenInv'
  <1> DEFINE c == syscall[t]
             p == pwd[t]
             x == executable[t]
             e == [pc |-> "zombie"]
             r == IF x = Nil THEN e ELSE PutOf(x, e)
  <1>1. taskState[t] = "running" /\ c.pc = "executable" /\ OpenTypeOK /\ TaskIs("running", c, filp[t], p, x)
        /\ p \in InodeNrs \cup {Nil} /\ x \in InodeNrs \cup {Nil}
    BY TaskHere DEF ExitExecutable, At
  <1>2. p = Nil /\ filp[t] = NoFiles
    BY <1>1 DEF TaskIs, ResumedBy, Leaving
  <1>3. UNCHANGED <<filp, close_on_exec, pwd, taskState, fileVars, inodeVars, posRaced>>
        /\ executable' = [executable EXCEPT ![t] = Nil] /\ Sleeps(t, r)
    BY DEF ExitExecutable, PutThen, PutOf
  <1>4. e.pc = "zombie" /\ NextOK(e) /\ CallOK(e)
    BY CallsAre
  <1> HIDE DEF e
  <1>5. CallOK(r) /\ Apart(r) /\ Apart(c) /\ ResumedBy(r) = e
    <2>1. x # Nil => x \in InodeNrs
      BY <1>1
    <2>2. e.pc \in Resumed /\ ResumedBy(e) = e /\ Apart(e)
      BY <1>4 DEF Resumed, ResumedBy, Apart
    <2>3. x # Nil => CallOK(PutOf(x, e)) /\ PutOf(x, e).pc = "iput" /\ ResumedBy(PutOf(x, e)) = e
      BY <1>4, <2>1, <2>2, CallsAre
    <2> QED BY <1>1, <1>4, <2>2, <2>3 DEF Apart
  <1>6. MovesTo(t, r, p, Nil)
    BY <1>1, <1>3, TaskHere DEF MovesTo, Sleeps
  <1>7. TaskIs("running", r, filp[t], p, Nil)
    BY <1>2, <1>4, <1>5 DEF TaskIs, Leaving
  <1>8. i_count' \in [InodeNrs -> Int] /\ i_count' = i_count
    BY <1>1, <1>3 DEF inodeVars, OpenTypeOK
  <1>9. Balanced(t, r, p, Nil)
    <2> SUFFICES ASSUME NEW k \in InodeNrs
                 PROVE  i_count'[k] = i_count[k] - RefsOf(c, p, x, k) + RefsOf(r, p, Nil, k)
      BY DEF Balanced
    <2>1. RefsOf(c, p, x, k) = One(p = k) + One(x = k)
      BY <1>1, RefsAre
    <2>2. One(Nil = k) = 0
      BY FdsAre DEF One
    <2>3. RefsOf(e, p, Nil, k) = One(p = k) + One(Nil = k)
      BY <1>4, RefsAre
    <2>4. RefsOf(r, p, Nil, k) = RefsOf(e, p, Nil, k) + One(x = k)
      <3>1. CASE x = Nil
        <4>1. One(x = k) = 0 /\ r = e /\ RefsOf(e, p, Nil, k) \in Nat
          BY <2>2, <3>1, RefsAre
        <4> HIDE DEF r, p, x
        <4> QED BY <4>1
      <3>2. CASE x # Nil
        BY <1>4, <3>2, RefsAre
      <3> QED BY <3>1, <3>2
    <2>5. i_count'[k] = i_count[k] /\ i_count[k] \in Int /\ One(p = k) \in Nat /\ One(x = k) \in Nat
      BY <1>8, RefsAre
    <2> HIDE DEF c, p, x, r
    <2> QED BY <2>1, <2>2, <2>3, <2>4, <2>5
  <1>10. UNCHANGED <<filp, fileVars, i_size, written, posRaced>> /\ close_on_exec' \in [Processes -> SUBSET Fds]
    BY <1>1, <1>3 DEF inodeVars, OpenTypeOK
  <1>11. Nil \in InodeNrs \cup {Nil}
    OBVIOUS
  <1> HIDE DEF c, p, r
  <1> QED BY <1>1, <1>5, <1>6, <1>7, <1>8, <1>9, <1>10, <1>11, RefsCall DEF c, p

-----------------------------------------------------------------------------
(* The steps that change one descriptor and one file. *)
Recounted(t, r, p, x, f) ==
  \A i \in InodeNrs :
    i_count'[i] = i_count[i] - RefsOf(syscall[t], pwd[t], executable[t], i) + RefsOf(r, p, x, i)
                  - One(f_inode[f] = i) + One(f_inode'[f] = i)
FileRecounted(old, new) ==
  \A h \in FileTable : f_count'[h] = f_count[h] - One(old = h) + One(new = h)

LEMMA CountsAfter ==
  ASSUME OpenFilesAssumption, OpenInv, NEW t \in Running, NEW r, NEW p, NEW x, MovesTo(t, r, p, x),
         NEW fd \in Fds, NEW b, filp' = [filp EXCEPT ![t] = [filp[t] EXCEPT ![fd] = b]],
         NEW f \in FileTable, \A h \in FileTable \ {f} : f_inode'[h] = f_inode[h],
         FileRecounted(filp[t][fd], b), Recounted(t, r, p, x, f)
  PROVE  CountsAreExact'
  <1>1. t \in Processes /\ OpenTypeOK /\ Running' = Running /\ CountsAreExact
    BY RunningSame DEF OpenInv, Running, MovesTo
  <1>2. /\ filp'[t][fd] = b
        /\ \A u \in Processes, e \in Fds : ~ (u = t /\ e = fd) => filp'[u][e] = filp[u][e]
    BY <1>1 DEF OpenTypeOK
  <1>3. ASSUME NEW h \in FileTable PROVE f_count'[h] = Cardinality(Descriptors(h))'
    <2> DEFINE D == Cardinality(Descriptors(h))
    <2>1. \A u \in Processes, e \in Fds : ~ (u = t /\ e = fd) =>
            ((u \in Running' /\ filp'[u][e] = h) <=> (u \in Running /\ filp[u][e] = h))
      BY <1>1, <1>2
    <2>2. D \in Nat /\ D' = D - One(t \in Running /\ filp[t][fd] = h) + One(t \in Running' /\ filp'[t][fd] = h)
      BY <1>1, <2>1, DescriptorsChange
    <2>3. One(t \in Running /\ filp[t][fd] = h) = One(filp[t][fd] = h) /\ One(t \in Running' /\ filp'[t][fd] = h) = One(b = h)
      BY <1>1, <1>2 DEF One
    <2>4. f_count[h] = D
      BY <1>1 DEF CountsAreExact
    <2>5. f_count'[h] = f_count[h] - One(filp[t][fd] = h) + One(b = h)
      BY DEF FileRecounted
    <2> HIDE DEF D
    <2>6. f_count'[h] = D'
      BY <2>2, <2>3, <2>4, <2>5
    <2> QED BY <2>6 DEF D
  <1>4. ASSUME NEW i \in InodeNrs PROVE i_count'[i] = References(i)'
    <2> DEFINE old == RefsOf(syscall[t], pwd[t], executable[t], i)
               new == RefsOf(r, p, x, i)
               was == One(f_inode[f] = i)
               is == One(f_inode'[f] = i)
    <2>1. TaskRefs(i)' = TaskRefs(i) - old + new
      BY TaskCounts
    <2>2. FileRefs(i)' = FileRefs(i) - was + is
      BY FileRefsChange
    <2>3. References(i) = FileRefs(i) + TaskRefs(i) /\ FileRefs(i) \in Nat /\ TaskRefs(i) \in Nat
      BY ReferencesAre
    <2>4. References(i)' = FileRefs(i)' + TaskRefs(i)'
      BY ReferencesNext
    <2>5. i_count[i] = References(i) /\ i_count'[i] = i_count[i] - old + new - was + is
      BY <1>1 DEF CountsAreExact, Recounted
    <2>6. old \in Nat /\ new \in Nat /\ was \in Nat /\ is \in Nat
      BY RefsAre
    <2> HIDE DEF old, new, was, is
    <2> QED BY <2>1, <2>2, <2>3, <2>4, <2>5, <2>6
  <1> QED BY <1>3, <1>4 DEF CountsAreExact

LEMMA FilpAt ==
  ASSUME OpenTypeOK, NEW t \in Processes, NEW fd \in Fds, NEW b
  PROVE  [filp EXCEPT ![t][fd] = b] = [filp EXCEPT ![t] = [filp[t] EXCEPT ![fd] = b]]
  BY DEF OpenTypeOK

LEMMA ClearedIs ==
  ASSUME OpenTypeOK, NEW F, Cleared(F), Nil \notin InodeNrs
  PROVE  /\ f_count' \in [FileTable -> Int] /\ f_inode' \in [FileTable -> InodeNrs \cup {Nil}]
         /\ f_pos' \in [FileTable -> Int] /\ f_append' \in [FileTable -> BOOLEAN]
         /\ \A h \in FileTable : f_count'[h] = (IF h \in F THEN 0 ELSE f_count[h])
                                 /\ f_inode'[h] = (IF h \in F THEN Nil ELSE f_inode[h])
  <1>1. /\ f_count \in [FileTable -> Int] /\ f_inode \in [FileTable -> InodeNrs \cup {Nil}]
        /\ f_pos \in [FileTable -> Int] /\ f_append \in [FileTable -> BOOLEAN]
    BY DEF OpenTypeOK
  <1>2. f_count' \in [FileTable -> Int] /\ f_pos' \in [FileTable -> Int]
    BY <1>1 DEF Cleared
  <1>3. f_append' \in [FileTable -> BOOLEAN]
    BY <1>1, Zenon DEF Cleared
  <1> QED BY <1>1, <1>2, <1>3 DEF Cleared

ExecutableIs(t, x) == executable' = [executable EXCEPT ![t] = x]
SameRefs(t, r, x) == \A i : RefsOf(r, pwd[t], x, i) = RefsOf(syscall[t], pwd[t], executable[t], i)

LEMMA ClosedKeeps ==
  ASSUME OpenFilesAssumption, OpenInv, NEW t \in Processes, taskState[t] = "running",
         syscall[t].pc \in {"out", "exec", "exit"},
         NEW r, r.pc \in {"out", "dup2", "exec", "exit"}, NextOK(r),
         NEW x \in InodeNrs \cup {Nil}, ExecutableIs(t, x),
         SameRefs(t, r, x),
         NEW fd \in Fds, fd \notin Free(t), Closed(t, fd, r)
  PROVE  OpenInv'
  <1> DEFINE c == syscall[t]
             p == pwd[t]
             f == filp[t][fd]
             g == [filp[t] EXCEPT ![fd] = Nil]
             k == f_inode[f]
             s == IF f_count[f] > 1 THEN r ELSE PutOf(k, r)
  <1>1. t \in Running /\ OpenTypeOK /\ TaskIs("running", c, filp[t], p, executable[t])
        /\ p \in InodeNrs \cup {Nil} /\ filp[t] \in [Fds -> FileTable \cup {Nil}]
        /\ PendingOK /\ OpenOK /\ UnusedOK
    BY TaskHere DEF OpenInv
  <1>2. Pending(t) = {} /\ ~ Forks(t) /\ p \in InodeNrs
    BY <1>1, CallsAre DEF Pending, Forks, TaskIs, ResumedBy, Leaving
  <1>3. f \in FileTable /\ k \in InodeNrs /\ fd \in Fds
    BY <1>2, FilesHere
  <1>4. f_count \in [FileTable -> Int]
    BY <1>1 DEF OpenTypeOK
  <1>5. r.pc # "iput" /\ r.pc \in Resumed /\ r.pc # "fork" /\ CallOK(r) /\ ResumedBy(r) = r /\ PendingOf(r) = {}
    BY DEF Resumed, Stations, CallOK, ResumedBy, PendingOf
  <1>6. CallOK(s) /\ s.pc # "fork" /\ ResumedBy(s) = r /\ PendingOf(s) = {}
    <2>1. CallOK(PutOf(k, r)) /\ PutOf(k, r).pc = "iput" /\ ResumedBy(PutOf(k, r)) = r /\ PendingOf(PutOf(k, r)) = {}
      BY <1>3, <1>5, CallsAre
    <2> HIDE DEF k, f
    <2> QED BY <1>5, <2>1
  <1>7. Sleeps(t, s) /\ UNCHANGED <<pwd, taskState, inodeVars, posRaced>>
        /\ close_on_exec' = [close_on_exec EXCEPT ![t] = @ \ {fd}] /\ filp' = [filp EXCEPT ![t] = g]
    <2>1. Sleeps(t, s)
      BY DEF Closed, PutThen, PutOf
    <2>2. filp' = [filp EXCEPT ![t][fd] = Nil]
      BY DEF Closed
    <2>3. filp' = [filp EXCEPT ![t] = g]
      BY <1>1, <1>3, <2>2, FilpAt
    <2> QED BY <2>1, <2>3 DEF Closed
  <1>8. MovesTo(t, s, p, x)
    BY <1>1, <1>7, TaskHere DEF MovesTo, Sleeps, ExecutableIs
  <1>9. Nil \notin FileTable /\ Nil \notin InodeNrs
    BY FdsAre
  <1>10. f_count[f] <= 1 => f_count[f] = 1 /\ \A u \in Processes, e \in Fds : filp[u][e] = f => u = t /\ e = fd
    BY <1>1, <1>2, <1>3, SoleUser
  <1>11. /\ f_count' \in [FileTable -> Int] /\ f_inode' \in [FileTable -> InodeNrs \cup {Nil}]
         /\ f_pos' \in [FileTable -> Int] /\ f_append' \in [FileTable -> BOOLEAN]
         /\ f_count'[f] = f_count[f] - 1 /\ f_inode'[f] = (IF f_count[f] > 1 THEN k ELSE Nil)
         /\ \A h \in FileTable \ {f} : f_count'[h] = f_count[h] /\ f_inode'[h] = f_inode[h]
    <2>1. CASE f_count[f] > 1
      <3>1. f_count' = [f_count EXCEPT ![f] = f_count[f] - 1] /\ UNCHANGED <<f_inode, f_pos, f_append>>
        BY <2>1 DEF Closed
      <3>2. f_count[f] - 1 \in Int
        BY <1>3, <1>4
      <3>3. f_count' \in [FileTable -> Int] /\ f_count'[f] = f_count[f] - 1
            /\ \A h \in FileTable \ {f} : f_count'[h] = f_count[h]
        <4> HIDE DEF f
        <4> QED BY <1>3, <1>4, <3>1, <3>2
      <3> QED BY <1>1, <2>1, <3>1, <3>3 DEF OpenTypeOK
    <2>2. CASE ~ f_count[f] > 1
      <3>1. Cleared({f})
        BY <2>2 DEF Closed
      <3>2. f_count[f] = 1
        BY <1>3, <1>4, <1>10, <2>2
      <3> HIDE DEF f
      <3>3. /\ f_count' \in [FileTable -> Int] /\ f_inode' \in [FileTable -> InodeNrs \cup {Nil}]
            /\ f_pos' \in [FileTable -> Int] /\ f_append' \in [FileTable -> BOOLEAN]
            /\ \A h \in FileTable : f_count'[h] = (IF h \in {f} THEN 0 ELSE f_count[h])
                                    /\ f_inode'[h] = (IF h \in {f} THEN Nil ELSE f_inode[h])
        BY <1>1, <1>9, <3>1, ClearedIs
      <3> QED BY <1>3, <3>2, <3>3
    <2> QED BY <2>1, <2>2
  <1>12. FileRecounted(f, Nil)
    <2> SUFFICES ASSUME NEW h \in FileTable PROVE f_count'[h] = f_count[h] - One(f = h) + One(Nil = h)
      BY DEF FileRecounted
    <2>1. One(Nil = h) = 0 /\ f_count[h] \in Int
      BY <1>4, <1>9 DEF One
    <2>2. One(f = h) = (IF f = h THEN 1 ELSE 0)
      BY DEF One
    <2> HIDE DEF f
    <2> QED BY <1>3, <1>11, <2>1, <2>2
  <1>13. Recounted(t, s, p, x, f)
    <2> SUFFICES ASSUME NEW i \in InodeNrs
                 PROVE  i_count'[i] = i_count[i] - RefsOf(c, p, executable[t], i) + RefsOf(s, p, x, i)
                                      - One(f_inode[f] = i) + One(f_inode'[f] = i)
      BY DEF Recounted
    <2> DEFINE old == RefsOf(c, p, executable[t], i)
               new == RefsOf(s, p, x, i)
               was == One(f_inode[f] = i)
               is == One(f_inode'[f] = i)
    <2>1. i_count'[i] = i_count[i] /\ i_count[i] \in Int /\ old \in Nat /\ was \in Nat /\ RefsOf(r, p, x, i) = old
      BY <1>1, <1>7, RefsAre DEF inodeVars, OpenTypeOK, SameRefs
    <2>2. CASE f_count[f] > 1
      <3>1. is = was /\ new = old
        BY <1>11, <2>1, <2>2
      <3>2. i_count'[i] = i_count[i] - old + new - was + is
        <4> HIDE DEF old, new, was, is
        <4> QED BY <2>1, <3>1
      <3> QED BY <3>2
    <2>3. CASE ~ f_count[f] > 1
      <3>1. s = PutOf(k, r)
        BY <2>3
      <3>2. RefsOf(PutOf(k, r), p, x, i) = RefsOf(r, p, x, i) + One(k = i)
        BY <1>5, RefsAre
      <3>3. new = old + was
        BY <2>1, <3>1, <3>2
      <3>4. is = 0
        BY <1>9, <1>11, <2>3 DEF One
      <3>5. i_count'[i] = i_count[i] - old + new - was + is
        <4> HIDE DEF old, new, was, is
        <4> QED BY <2>1, <3>3, <3>4
      <3> QED BY <3>5
    <2> QED BY <2>2, <2>3
  <1>14. CountsAreExact'
    <2>1. filp' = [filp EXCEPT ![t] = [filp[t] EXCEPT ![fd] = Nil]]
      BY <1>7
    <2>2. \A h \in FileTable \ {f} : f_inode'[h] = f_inode[h]
      BY <1>11
    <2> HIDE DEF s, f, g
    <2> QED BY <1>1, <1>3, <1>8, <1>12, <1>13, <2>1, <2>2, CountsAfter DEF f
  <1>15. UnusedOK'
    BY <1>1, <1>4, <1>3, <1>11 DEF UnusedOK
  <1>16. g \in [Fds -> FileTable \cup {Nil}] /\ g[fd] = Nil /\ \A d \in Fds \ {fd} : g[d] = filp[t][d]
    BY <1>1, <1>3
  <1>17. \A d \in Fds \ PendingOf(s) : g[d] # Nil => f_inode'[g[d]] \in InodeNrs
    <2> SUFFICES ASSUME NEW d \in Fds, g[d] # Nil PROVE f_inode'[g[d]] \in InodeNrs
      OBVIOUS
    <2>1. d # fd /\ g[d] = filp[t][d] /\ filp[t][d] \in FileTable
      BY <1>1, <1>16
    <2>2. f_inode[filp[t][d]] \in InodeNrs
      BY <1>1, <1>2, <2>1 DEF OpenOK
    <2>3. CASE filp[t][d] = f
      <3>1. f_count[f] > 1
        BY <1>1, <1>3, <1>4, <1>10, <2>1, <2>3
      <3> QED BY <1>3, <1>11, <2>1, <2>3, <3>1
    <2>4. CASE filp[t][d] # f
      BY <1>11, <2>1, <2>2, <2>4
    <2> QED BY <2>3, <2>4
  <1>18. \A u \in Processes \ {t}, e \in Fds : filp[u][e] # Nil => f_inode'[filp[u][e]] = f_inode[filp[u][e]]
    <2> SUFFICES ASSUME NEW u \in Processes \ {t}, NEW e \in Fds, filp[u][e] # Nil
                 PROVE  f_inode'[filp[u][e]] = f_inode[filp[u][e]]
      OBVIOUS
    <2>1. filp[u][e] \in FileTable
      BY <1>1 DEF OpenTypeOK
    <2>2. CASE filp[u][e] = f
      <3>1. f_count[f] > 1
        BY <1>1, <1>3, <1>4, <1>10, <2>2
      <3> QED BY <1>11, <2>2, <3>1
    <2>3. CASE filp[u][e] # f
      BY <1>11, <2>1, <2>3
    <2> QED BY <2>2, <2>3
  <1>19. \A u \in Processes \ {t} : \A d \in Pending(u) : \A e \in Fds : g[e] # filp[u][d]
    BY <1>1, <1>9, <1>16 DEF PendingOK
  <1>20. TaskIs("running", s, g, p, x)
    <2> HIDE DEF s, g, p
    <2> QED BY <1>2, <1>6, <1>5 DEF TaskIs, Leaving
  <1>21. /\ close_on_exec' \in [Processes -> SUBSET Fds]
         /\ i_count' \in [InodeNrs -> Int] /\ i_size' \in [InodeNrs -> Int] /\ written' \in [InodeNrs -> Int]
         /\ posRaced' \in BOOLEAN
    BY <1>1, <1>7 DEF inodeVars, OpenTypeOK
  <1>22. filp' = [filp EXCEPT ![t] = g] /\ PendingFits(t, s, g)
    BY <1>6, <1>7 DEF PendingFits
  <1> HIDE DEF c, p, f, g, k, s
  <1> QED BY <1>1, <1>2, <1>6, <1>8, <1>11, <1>14, <1>15, <1>16, <1>17, <1>18, <1>19, <1>20, <1>21, <1>22, TaskStep

LEMMA CloseFd_Keeps ==
  ASSUME OpenFilesAssumption, OpenInv, NEW t \in Processes, CloseFd(t)
  PROVE  OpenInv'
  <1> DEFINE x == executable[t]
  <1>1. taskState[t] = "running" /\ syscall[t].pc = "out" /\ x \in InodeNrs \cup {Nil} /\ ExecutableIs(t, x)
    BY TaskHere DEF CloseFd, Starts, At, ExecutableIs
  <1>2. PICK fd \in Fds : fd \notin Free(t) /\ Closed(t, fd, Out)
    BY DEF CloseFd
  <1>3. SameRefs(t, Out, x)
    BY <1>1, CallsAre, RefsAre DEF SameRefs
  <1>4. Out.pc = "out" /\ NextOK(Out)
    BY CallsAre
  <1> HIDE DEF x
  <1> QED BY <1>1, <1>2, <1>3, <1>4, ClosedKeeps

LEMMA Dup2_Keeps ==
  ASSUME OpenFilesAssumption, OpenInv, NEW t \in Processes, Dup2(t)
  PROVE  OpenInv'
  <1> DEFINE x == executable[t]
  <1>1. taskState[t] = "running" /\ syscall[t].pc = "out" /\ x \in InodeNrs \cup {Nil} /\ OpenTypeOK
        /\ ExecutableIs(t, x) /\ executable' = executable
    BY TaskHere DEF Dup2, Starts, At, ExecutableIs
  <1>2. PICK old \in Fds, new \in Fds :
       LET r == [pc |-> "dup2", old |-> old, new |-> new] IN
       IF new \in Free(t)
       THEN Sleeps(t, r) /\ UNCHANGED <<filp, close_on_exec, pwd, taskState, fileVars, inodeVars, posRaced>>
       ELSE Closed(t, new, r)
    BY DEF Dup2
  <1> DEFINE r == [pc |-> "dup2", old |-> old, new |-> new]
  <1>3. r.pc = "dup2" /\ NextOK(r)
    BY DEF NextOK
  <1>4. CASE new \in Free(t)
    <2>1. Sleeps(t, r) /\ UNCHANGED <<filp, close_on_exec, pwd, taskState, fileVars, inodeVars, posRaced>>
      BY <1>2, <1>4
    <2> HIDE DEF r
    <2>2. CallOK(r) /\ Simple(r) /\ Simple(syscall[t])
      BY <1>1, <1>3 DEF CallOK, Simple, Stations, Resumed
    <2>3. /\ f_pos' \in [FileTable -> Int] /\ f_append' \in [FileTable -> BOOLEAN]
          /\ i_size' \in [InodeNrs -> Int] /\ written' \in [InodeNrs -> Int] /\ posRaced' \in BOOLEAN
          /\ close_on_exec' \in [Processes -> SUBSET Fds]
      BY <1>1, <2>1 DEF OpenTypeOK, fileVars, inodeVars
    <2>4. UNCHANGED <<filp, pwd, executable, taskState, f_count, f_inode, i_count>>
      BY <1>1, <2>1 DEF fileVars, inodeVars
    <2> QED BY <1>1, <2>1, <2>2, <2>3, <2>4, SimpleCall
  <1>5. CASE new \notin Free(t)
    <2>1. Closed(t, new, r)
      BY <1>2, <1>5
    <2> HIDE DEF r
    <2>2. SameRefs(t, r, x)
      BY <1>1, <1>3, RefsAre DEF SameRefs
    <2> HIDE DEF x
    <2> QED BY <1>1, <1>3, <1>5, <2>1, <2>2, ClosedKeeps
  <1> QED BY <1>4, <1>5

LEMMA ExitFiles_Keeps ==
  ASSUME OpenFilesAssumption, OpenInv, NEW t \in Processes, ExitFiles(t)
  PROVE  OpenInv'
  <1> DEFINE x == executable[t]
             r == [pc |-> "exit"]
             fd == Min(Fds \ Free(t))
  <1>1. taskState[t] = "running" /\ syscall[t].pc \in {"out", "exit"} /\ x \in InodeNrs \cup {Nil}
        /\ ExecutableIs(t, x)
    BY TaskHere DEF ExitFiles, Exits, Starts, At, ExecutableIs
  <1>2. Closed(t, fd, r) /\ Free(t) # Fds
    BY DEF ExitFiles
  <1>3. fd \in Fds /\ fd \notin Free(t)
    <2>1. Fds \ Free(t) \subseteq Nat /\ Fds \ Free(t) # {}
      BY <1>2, FdsAre DEF Free
    <2> QED BY <2>1, MinIs
  <1>4. r.pc = "exit" /\ NextOK(r)
    BY CallsAre
  <1> HIDE DEF r
  <1>5. SameRefs(t, r, x)
    BY <1>1, <1>4, RefsAre DEF SameRefs
  <1> HIDE DEF x, fd
  <1> QED BY <1>1, <1>2, <1>3, <1>4, <1>5, ClosedKeeps

LEMMA Execed_Keeps ==
  ASSUME OpenFilesAssumption, OpenInv, NEW t \in Processes, Execed(t)
  PROVE  OpenInv'
  <1> DEFINE c == syscall[t]
             x == c.inode
             close == close_on_exec[t] \ Free(t)
             fd == Min(close)
  <1>1. taskState[t] = "running" /\ c.pc = "exec" /\ CallOK(c) /\ OpenTypeOK /\ executable[t] \in InodeNrs \cup {Nil}
        /\ TaskIs("running", c, filp[t], pwd[t], executable[t]) /\ pwd[t] \in InodeNrs \cup {Nil}
    BY TaskHere DEF Execed, At
  <1>2. x \in InodeNrs /\ NextOK(c)
    BY <1>1 DEF CallOK, NextOK
  <1>3. ExecutableIs(t, x)
    BY DEF Execed, ExecutableIs
  <1>4. CASE close # {}
    <2>1. Closed(t, fd, c)
      BY <1>4 DEF Execed
    <2>2. close \subseteq Nat /\ close \subseteq Fds
      BY <1>1, FdsAre DEF OpenTypeOK
    <2>3. fd \in Fds /\ fd \notin Free(t)
      BY <1>4, <2>2, MinIs
    <2>4. SameRefs(t, c, x)
      BY <1>1, RefsAre DEF SameRefs
    <2>5. x \in InodeNrs \cup {Nil} /\ c.pc \in {"out", "dup2", "exec", "exit"} /\ c.pc \in {"out", "exec", "exit"}
      BY <1>1, <1>2
    <2> HIDE DEF x, fd
    <2> QED BY <1>1, <1>2, <1>3, <2>1, <2>3, <2>4, <2>5, ClosedKeeps
  <1>5. CASE close = {}
    <2> DEFINE p == pwd[t]
    <2>1. close_on_exec' = [close_on_exec EXCEPT ![t] = {}] /\ Sleeps(t, Out)
          /\ UNCHANGED <<filp, pwd, taskState, fileVars, inodeVars, posRaced>>
      BY <1>5 DEF Execed, Done
    <2>2. CallOK(Out) /\ Apart(Out) /\ Apart(c)
      BY <1>1, CallsAre DEF Apart
    <2>3. MovesTo(t, Out, p, x)
      BY <1>1, <1>3, <2>1, TaskHere DEF MovesTo, Sleeps, ExecutableIs
    <2>4. TaskIs("running", Out, filp[t], p, x)
      BY <1>1, CallsAre DEF TaskIs, Leaving, ResumedBy
    <2>5. i_count' \in [InodeNrs -> Int] /\ i_count' = i_count
      BY <1>1, <2>1 DEF inodeVars, OpenTypeOK
    <2>6. Balanced(t, Out, p, x)
      <3> SUFFICES ASSUME NEW k \in InodeNrs
                   PROVE  i_count'[k] = i_count[k] - RefsOf(c, p, executable[t], k) + RefsOf(Out, p, x, k)
        BY DEF Balanced
      <3>1. RefsOf(c, p, executable[t], k) = One(p = k) + One(x = k) /\ RefsOf(Out, p, x, k) = One(p = k) + One(x = k)
        BY <1>1, CallsAre, RefsAre
      <3>2. i_count'[k] = i_count[k] /\ i_count[k] \in Int /\ One(p = k) \in Nat /\ One(x = k) \in Nat
        BY <2>5, RefsAre
      <3> HIDE DEF c, p, x
      <3> QED BY <3>1, <3>2
    <2>7. UNCHANGED <<filp, fileVars, i_size, written, posRaced>> /\ close_on_exec' \in [Processes -> SUBSET Fds]
      BY <1>1, <2>1 DEF inodeVars, OpenTypeOK
    <2>8. x \in InodeNrs \cup {Nil} /\ p \in InodeNrs \cup {Nil}
      BY <1>1, <1>2
    <2> HIDE DEF c, p, x
    <2> QED BY <1>1, <2>2, <2>3, <2>4, <2>5, <2>6, <2>7, <2>8, RefsCall DEF c
  <1> QED BY <1>4, <1>5

LEMMA DupFdKeeps ==
  ASSUME OpenFilesAssumption, OpenInv, NEW t \in Processes, taskState[t] = "running", Simple(syscall[t]),
         NEW r, CallOK(r), Simple(r), Sleeps(t, r), NEW fd \in Fds, NEW arg \in Fds, DupFd(t, fd, arg),
         UNCHANGED <<pwd, executable, taskState, f_inode, f_pos, f_append, inodeVars, posRaced>>
  PROVE  OpenInv'
  <1> DEFINE c == syscall[t]
             p == pwd[t]
             x == executable[t]
             f == filp[t][fd]
             n == Min(Above(t, arg))
             g == [filp[t] EXCEPT ![n] = f]
  <1>1. t \in Running /\ OpenTypeOK /\ TaskIs("running", c, filp[t], p, x) /\ CallOK(c)
        /\ p \in InodeNrs \cup {Nil} /\ x \in InodeNrs \cup {Nil} /\ filp[t] \in [Fds -> FileTable \cup {Nil}]
        /\ PendingOK /\ OpenOK /\ UnusedOK
    BY TaskHere DEF OpenInv
  <1>2. Pending(t) = {} /\ ~ Forks(t) /\ p \in InodeNrs /\ PendingOf(r) = {} /\ r.pc # "fork" /\ ResumedBy(r) = r
    BY <1>1, CallsAre DEF Pending, Forks, TaskIs, ResumedBy, Leaving, Simple
  <1>3. /\ f_inode' \in [FileTable -> InodeNrs \cup {Nil}]
        /\ f_pos' \in [FileTable -> Int] /\ f_append' \in [FileTable -> BOOLEAN]
        /\ i_count' \in [InodeNrs -> Int] /\ i_size' \in [InodeNrs -> Int] /\ written' \in [InodeNrs -> Int]
        /\ posRaced' \in BOOLEAN
    BY <1>1 DEF OpenTypeOK, inodeVars
  <1>4. CASE fd \in Free(t) \/ Above(t, arg) = {}
    <2>1. UNCHANGED <<filp, close_on_exec, f_count>>
      BY <1>4 DEF DupFd
    <2>2. UNCHANGED <<filp, pwd, executable, taskState, f_count, f_inode, i_count>>
          /\ close_on_exec' \in [Processes -> SUBSET Fds]
      BY <1>1, <2>1 DEF inodeVars, OpenTypeOK
    <2> QED BY <1>3, <2>2, SimpleCall
  <1>5. CASE ~ (fd \in Free(t) \/ Above(t, arg) = {})
    <2>1. f \in FileTable /\ f_inode[f] \in InodeNrs
      BY <1>2, <1>5, FilesHere
    <2>2. n \in Fds /\ filp[t][n] = Nil
      <3>1. Above(t, arg) \subseteq Free(t) /\ Free(t) \subseteq Fds
        BY DEF Above, Free
      <3>2. n \in Above(t, arg)
        BY <1>5, <3>1, FdsAre, MinIs
      <3> HIDE DEF n
      <3> QED BY <3>1, <3>2 DEF Free
    <2>3. filp' = [filp EXCEPT ![t] = g] /\ close_on_exec' = [close_on_exec EXCEPT ![t] = @ \ {n}]
          /\ f_count' = [f_count EXCEPT ![f] = f_count[f] + 1]
      <3>1. filp' = [filp EXCEPT ![t][n] = f] /\ close_on_exec' = [close_on_exec EXCEPT ![t] = @ \ {n}]
            /\ f_count' = [f_count EXCEPT ![f] = f_count[f] + 1]
        BY <1>5 DEF DupFd
      <3> HIDE DEF n, f
      <3>2. filp' = [filp EXCEPT ![t] = g]
        BY <1>1, <2>2, <3>1, FilpAt
      <3> QED BY <3>1, <3>2
    <2>4. Nil \notin FileTable
      BY FdsAre
    <2>5. /\ f_count' \in [FileTable -> Int] /\ f_count'[f] = f_count[f] + 1 /\ f_count[f] \in Nat
          /\ \A h \in FileTable \ {f} : f_count'[h] = f_count[h]
      <3>1. f_count[f] \in Nat /\ f_count \in [FileTable -> Int]
        BY <1>1, <2>1, CountType DEF OpenInv, CountsAreExact, OpenTypeOK
      <3>2. f_count[f] + 1 \in Int
        BY <3>1
      <3> HIDE DEF f
      <3> QED BY <2>1, <2>3, <3>1, <3>2
    <2>6. FileRecounted(Nil, f)
      <3> SUFFICES ASSUME NEW h \in FileTable PROVE f_count'[h] = f_count[h] - One(Nil = h) + One(f = h)
        BY DEF FileRecounted
      <3>1. One(Nil = h) = 0 /\ f_count[h] \in Int /\ One(f = h) = (IF f = h THEN 1 ELSE 0)
        BY <1>1, <2>4 DEF One, OpenTypeOK
      <3> HIDE DEF f
      <3> QED BY <2>1, <2>5, <3>1
    <2>7. MovesTo(t, r, p, x)
      BY SamePlaces
    <2>8. Recounted(t, r, p, x, f)
      <3> SUFFICES ASSUME NEW i \in InodeNrs
                   PROVE  i_count'[i] = i_count[i] - RefsOf(c, p, x, i) + RefsOf(r, p, x, i)
                                        - One(f_inode[f] = i) + One(f_inode'[f] = i)
        BY DEF Recounted
      <3> DEFINE old == RefsOf(c, p, x, i)
                 new == RefsOf(r, p, x, i)
                 was == One(f_inode[f] = i)
                 is == One(f_inode'[f] = i)
      <3>1. old = One(p = i) + One(x = i) /\ new = One(p = i) + One(x = i)
        BY RefsAre DEF Simple
      <3>2. old \in Nat /\ new \in Nat /\ was \in Nat /\ is = was /\ i_count'[i] = i_count[i] /\ i_count[i] \in Int
        BY <1>1, RefsAre DEF OpenTypeOK, inodeVars
      <3>3. new = old
        BY <3>1
      <3>4. i_count'[i] = i_count[i] - old + new - was + is
        <4> HIDE DEF old, new, was, is
        <4> QED BY <3>2, <3>3
      <3> QED BY <3>4
    <2>9. CountsAreExact'
      <3>1. \A h \in FileTable \ {f} : f_inode'[h] = f_inode[h]
        OBVIOUS
      <3>2. filp' = [filp EXCEPT ![t] = [filp[t] EXCEPT ![n] = f]] /\ FileRecounted(filp[t][n], f)
        BY <2>2, <2>3, <2>6
      <3> HIDE DEF n, f, g, p, x
      <3> QED BY <1>1, <2>1, <2>2, <2>7, <2>8, <3>1, <3>2, CountsAfter
    <2>10. UnusedOK'
      BY <1>1, <2>5 DEF UnusedOK
    <2>11. g \in [Fds -> FileTable \cup {Nil}] /\ g[n] = f /\ \A d \in Fds \ {n} : g[d] = filp[t][d]
      <3> HIDE DEF n, f
      <3> QED BY <1>1, <2>1, <2>2
    <2>12. \A d \in Fds \ PendingOf(r) : g[d] # Nil => f_inode'[g[d]] \in InodeNrs
      BY <1>1, <1>2, <2>1, <2>11 DEF OpenOK
    <2>13. \A u \in Processes \ {t}, e \in Fds : filp[u][e] # Nil => f_inode'[filp[u][e]] = f_inode[filp[u][e]]
      OBVIOUS
    <2>14. \A u \in Processes \ {t} : \A d \in Pending(u) : \A e \in Fds : g[e] # filp[u][d]
      BY <1>1, <2>11 DEF PendingOK
    <2>15. TaskIs("running", r, g, p, x) /\ PendingFits(t, r, g)
      <3> HIDE DEF g, p
      <3> QED BY <1>2 DEF TaskIs, Leaving, Simple, PendingFits
    <2>16. close_on_exec' \in [Processes -> SUBSET Fds]
      BY <1>1, <2>3 DEF OpenTypeOK
    <2>17. filp' = [filp EXCEPT ![t] = g]
      BY <2>3
    <2> HIDE DEF c, p, x, f, g, n
    <2> QED BY <1>1, <1>2, <1>3, <2>5, <2>7, <2>9, <2>10, <2>11, <2>12, <2>13, <2>14, <2>15, <2>16, <2>17, TaskStep
  <1> QED BY <1>4, <1>5

LEMMA Dup_Keeps ==
  ASSUME OpenFilesAssumption, OpenInv, NEW t \in Processes, Dup(t)
  PROVE  OpenInv'
  <1> DEFINE c == syscall[t]
  <1>1. taskState[t] = "running" /\ c.pc = "out" /\ CallOK(c) /\ syscall = [syscall EXCEPT ![t] = c]
    BY TaskHere DEF Dup, Starts, At
  <1>2. PICK fd \in Fds, arg \in Fds : DupFd(t, fd, arg)
    BY DEF Dup
  <1>3. UNCHANGED <<pwd, executable, taskState, f_inode, f_pos, f_append, inodeVars, posRaced>> /\ syscall' = syscall
    BY DEF Dup
  <1>4. Simple(c) /\ Sleeps(t, c)
    BY <1>1, <1>3 DEF Simple, Sleeps
  <1> HIDE DEF c
  <1> QED BY <1>1, <1>2, <1>3, <1>4, DupFdKeeps DEF c

LEMMA Dup2Closed_Keeps ==
  ASSUME OpenFilesAssumption, OpenInv, NEW t \in Processes, Dup2Closed(t)
  PROVE  OpenInv'
  <1> DEFINE c == syscall[t]
  <1>1. taskState[t] = "running" /\ c.pc = "dup2" /\ CallOK(c)
    BY TaskHere DEF Dup2Closed, At
  <1>2. DupFd(t, c.old, c.new) /\ c.old \in Fds /\ c.new \in Fds
    BY <1>1 DEF Dup2Closed, CallOK, NextOK
  <1>3. UNCHANGED <<pwd, executable, taskState, f_inode, f_pos, f_append, inodeVars, posRaced>> /\ Sleeps(t, Out)
    BY DEF Dup2Closed, Done
  <1>4. Simple(c) /\ CallOK(Out) /\ Simple(Out)
    BY <1>1, CallsAre DEF Simple
  <1> HIDE DEF c
  <1> QED BY <1>1, <1>2, <1>3, <1>4, DupFdKeeps DEF c

(* Opening a file. *)
LEMMA PendingFds ==
  ASSUME OpenInv, NEW u \in Processes
  PROVE  Pending(u) \subseteq Fds
  BY DEF OpenInv, CallOK, NextOK, Pending, PendingOf

LEMMA PendingCount ==
  ASSUME OpenFilesAssumption, OpenInv, NEW t \in Running, NEW fd \in Pending(t)
  PROVE  f_count[filp[t][fd]] = 1
  <1> DEFINE f == filp[t][fd]
  <1>1. t \in Processes /\ fd \in Fds
    BY PendingFds DEF Running
  <1>2. f \in FileTable /\ \A u \in Processes, e \in Fds : filp[u][e] = f => u = t /\ e = fd
    BY <1>1 DEF OpenInv, PendingOK
  <1>3. Descriptors(f) = {<<t, fd>>}
    BY <1>1, <1>2 DEF Descriptors, Running
  <1>4. Cardinality({<<t, fd>>}) = 1
    BY FS_Singleton
  <1>5. f_count[f] = Cardinality(Descriptors(f))
    BY <1>2 DEF OpenInv, CountsAreExact
  <1> QED BY <1>3, <1>4, <1>5

LEMMA SameCount ==
  ASSUME OpenTypeOK, NEW t, NEW r, NEW p, NEW x, NEW f, f_inode'[f] = f_inode[f], i_count' = i_count,
         \A i : RefsOf(r, p, x, i) = RefsOf(syscall[t], pwd[t], executable[t], i)
  PROVE  Recounted(t, r, p, x, f)
  <1> SUFFICES ASSUME NEW i \in InodeNrs
               PROVE  i_count'[i] = i_count[i] - RefsOf(syscall[t], pwd[t], executable[t], i) + RefsOf(r, p, x, i)
                                    - One(f_inode[f] = i) + One(f_inode'[f] = i)
    BY DEF Recounted
  <1> DEFINE old == RefsOf(syscall[t], pwd[t], executable[t], i)
             new == RefsOf(r, p, x, i)
             was == One(f_inode[f] = i)
             is == One(f_inode'[f] = i)
  <1>1. old \in Nat /\ new = old /\ was \in Nat /\ is = was /\ i_count'[i] = i_count[i] /\ i_count[i] \in Int
    BY RefsAre DEF OpenTypeOK
  <1>2. i_count'[i] = i_count[i] - old + new - was + is
    <2> HIDE DEF old, new, was, is
    <2> QED BY <1>1
  <1> QED BY <1>2

LEMMA Open_Keeps ==
  ASSUME OpenFilesAssumption, OpenInv, NEW t \in Processes, Open(t)
  PROVE  OpenInv'
  <1> DEFINE c == syscall[t]
             p == pwd[t]
             x == executable[t]
             f == Min(FreeFiles)
             fd == Min(Free(t))
             g == [filp[t] EXCEPT ![fd] = f]
             r == [pc |-> "opening", fd |-> fd]
  <1>1. taskState[t] = "running" /\ c.pc = "out" /\ t \in Running /\ OpenTypeOK /\ TaskIs("running", c, filp[t], p, x)
        /\ CallOK(c) /\ syscall = [syscall EXCEPT ![t] = c]
        /\ p \in InodeNrs \cup {Nil} /\ x \in InodeNrs \cup {Nil} /\ filp[t] \in [Fds -> FileTable \cup {Nil}]
        /\ PendingOK /\ OpenOK /\ UnusedOK
    BY TaskHere DEF OpenInv, Open, Starts, At
  <1>2. Pending(t) = {} /\ ~ Forks(t) /\ p \in InodeNrs
    BY <1>1, CallsAre DEF Pending, Forks, TaskIs, ResumedBy, Leaving
  <1>3. /\ f_inode' \in [FileTable -> InodeNrs \cup {Nil}]
        /\ f_pos' \in [FileTable -> Int] /\ f_append' \in [FileTable -> BOOLEAN]
        /\ i_count' \in [InodeNrs -> Int] /\ i_size' \in [InodeNrs -> Int] /\ written' \in [InodeNrs -> Int]
        /\ posRaced' \in BOOLEAN
    BY <1>1 DEF Open, OpenTypeOK, inodeVars
  <1>4. UNCHANGED <<pwd, executable, taskState, f_inode, i_count>>
    BY DEF Open, inodeVars
  <1>5. close_on_exec' \in [Processes -> SUBSET Fds]
    BY <1>1 DEF Open, OpenTypeOK
  <1>6. fd \in Fds /\ filp[t][fd] = Nil
    <2>1. Free(t) # {} /\ Free(t) \subseteq Fds
      BY DEF Open, Free
    <2>2. fd \in Free(t)
      BY <2>1, FdsAre, MinIs
    <2> HIDE DEF fd
    <2> QED BY <2>1, <2>2 DEF Free
  <1>7. CASE FreeFiles = {}
    <2>1. UNCHANGED <<filp, f_count, syscall>>
      BY <1>7 DEF Open
    <2>2. Simple(c) /\ Sleeps(t, c)
      BY <1>1, <2>1 DEF Simple, Sleeps
    <2>3. UNCHANGED <<filp, pwd, executable, taskState, f_count, f_inode, i_count>>
      BY <1>4, <2>1
    <2> HIDE DEF c
    <2> QED BY <1>1, <1>3, <1>5, <2>2, <2>3, SimpleCall DEF c
  <1>8. CASE FreeFiles # {}
    <2>1. f \in FileTable /\ f_count[f] = 0
      <3>1. FreeFiles \subseteq FileTable
        BY DEF FreeFiles
      <3>2. f \in FreeFiles
        BY <1>8, <3>1, FdsAre, MinIs
      <3> HIDE DEF f
      <3> QED BY <3>1, <3>2 DEF FreeFiles
    <2>2. f_inode[f] = Nil /\ \A u \in Processes, e \in Fds : filp[u][e] # f
      BY <1>1, <2>1, NoUser DEF UnusedOK
    <2>3. filp' = [filp EXCEPT ![t] = g] /\ Sleeps(t, r) /\ f_count' = [f_count EXCEPT ![f] = f_count[f] + 1]
      <3>1. filp' = [filp EXCEPT ![t][fd] = f] /\ Sleeps(t, r) /\ f_count' = [f_count EXCEPT ![f] = f_count[f] + 1]
        BY <1>8 DEF Open
      <3> HIDE DEF fd, f
      <3>2. filp' = [filp EXCEPT ![t] = g]
        BY <1>1, <1>6, <3>1, FilpAt
      <3> QED BY <3>1, <3>2
    <2>4. Nil \notin FileTable
      BY FdsAre
    <2>5. f_count' \in [FileTable -> Int] /\ f_count'[f] = 1 /\ \A h \in FileTable \ {f} : f_count'[h] = f_count[h]
      <3>1. f_count \in [FileTable -> Int]
        BY <1>1 DEF OpenTypeOK
      <3>2. f_count[f] + 1 = 1 /\ 1 \in Int
        BY <2>1
      <3> HIDE DEF f
      <3> QED BY <2>1, <2>3, <3>1, <3>2
    <2>6. FileRecounted(Nil, f)
      <3> SUFFICES ASSUME NEW h \in FileTable PROVE f_count'[h] = f_count[h] - One(Nil = h) + One(f = h)
        BY DEF FileRecounted
      <3>1. One(Nil = h) = 0 /\ f_count[h] \in Int /\ One(f = h) = (IF f = h THEN 1 ELSE 0)
        BY <1>1, <2>4 DEF One, OpenTypeOK
      <3> HIDE DEF f
      <3> QED BY <2>1, <2>5, <3>1
    <2>7. r.pc = "opening" /\ CallOK(r) /\ PendingOf(r) = {fd} /\ ResumedBy(r) = r
      <3> HIDE DEF fd
      <3> QED BY <1>6 DEF CallOK, NextOK, Stations, PendingOf, ResumedBy
    <2>8. MovesTo(t, r, p, x)
      BY <1>1, <1>4, <2>3, SamePlaces
    <2>9. Recounted(t, r, p, x, f)
      <3>1. \A i : RefsOf(r, p, x, i) = RefsOf(c, p, x, i)
        BY <1>1, <2>7, RefsAre
      <3>2. f_inode'[f] = f_inode[f] /\ i_count' = i_count
        BY <1>4
      <3> HIDE DEF f, r
      <3> QED BY <1>1, <3>1, <3>2, SameCount
    <2>10. CountsAreExact'
      <3>1. \A h \in FileTable \ {f} : f_inode'[h] = f_inode[h]
        BY <1>4
      <3>2. filp' = [filp EXCEPT ![t] = [filp[t] EXCEPT ![fd] = f]] /\ FileRecounted(filp[t][fd], f)
        BY <1>6, <2>3, <2>6
      <3> HIDE DEF fd, f, g, p, x, r
      <3> QED BY <1>1, <1>6, <2>1, <2>8, <2>9, <3>1, <3>2, CountsAfter
    <2>11. UnusedOK'
      BY <1>1, <1>4, <2>5 DEF UnusedOK
    <2>12. g \in [Fds -> FileTable \cup {Nil}] /\ g[fd] = f /\ \A d \in Fds \ {fd} : g[d] = filp[t][d]
      <3> HIDE DEF fd, f
      <3> QED BY <1>1, <1>6, <2>1
    <2>13. \A d \in Fds \ PendingOf(r) : g[d] # Nil => f_inode'[g[d]] \in InodeNrs
      BY <1>1, <1>2, <1>4, <2>7, <2>12 DEF OpenOK
    <2>14. \A u \in Processes \ {t}, e \in Fds : filp[u][e] # Nil => f_inode'[filp[u][e]] = f_inode[filp[u][e]]
      BY <1>4
    <2>15. \A u \in Processes \ {t} : \A d \in Pending(u) : \A e \in Fds : g[e] # filp[u][d]
      <3> SUFFICES ASSUME NEW u \in Processes \ {t}, NEW d \in Pending(u), NEW e \in Fds PROVE g[e] # filp[u][d]
        OBVIOUS
      <3>1. d \in Fds
        BY PendingFds
      <3>2. filp[u][d] # f /\ filp[t][e] # filp[u][d]
        BY <1>1, <2>2, <3>1 DEF PendingOK
      <3> QED BY <2>12, <3>2
    <2>16. PendingFits(t, r, g)
      <3> HIDE DEF r, fd, f, g
      <3> QED BY <1>4, <2>1, <2>2, <2>7, <2>12 DEF PendingFits
    <2>17. TaskIs("running", r, g, p, x)
      <3> HIDE DEF g, p, r
      <3> QED BY <1>2, <2>7 DEF TaskIs, Leaving
    <2>18. filp' = [filp EXCEPT ![t] = g] /\ r.pc # "fork"
      BY <2>3
    <2> HIDE DEF c, p, x, f, g, r, fd
    <2> QED BY <1>1, <1>2, <1>3, <1>5, <2>5, <2>7, <2>8, <2>10, <2>11, <2>12, <2>13, <2>14, <2>15, <2>16, <2>17, <2>18, TaskStep
  <1> QED BY <1>7, <1>8

(* The files a call was to open. *)
PendingFiles(t) == {filp[t][d] : d \in Pending(t)}

LEMMA PendingAre ==
  ASSUME OpenFilesAssumption, OpenInv, NEW t \in Running
  PROVE  /\ PendingFiles(t) \subseteq FileTable
         /\ \A h \in PendingFiles(t) : f_inode[h] = Nil /\ f_count[h] = 1
         /\ \A d \in Fds : filp[t][d] \in PendingFiles(t) => d \in Pending(t)
         /\ \A u \in Processes \ {t}, e \in Fds : filp[u][e] \notin PendingFiles(t)
  BY PendingFds, PendingCount DEF PendingFiles, OpenInv, PendingOK, Running

LEMMA Dropped ==
  ASSUME OpenFilesAssumption, OpenInv, NEW t \in Processes, taskState[t] = "running",
         syscall[t].pc \in {"opening", "pipe"},
         NEW g, g = [d \in Fds |-> IF d \in Pending(t) THEN Nil ELSE filp[t][d]],
         filp' = [filp EXCEPT ![t] = g], Cleared(PendingFiles(t)), Done(t),
         UNCHANGED <<close_on_exec, pwd, executable, taskState, inodeVars, posRaced>>
  PROVE  OpenInv'
  <1> DEFINE c == syscall[t]
             p == pwd[t]
             x == executable[t]
             F == PendingFiles(t)
  <1>1. t \in Running /\ OpenTypeOK /\ TaskIs("running", c, filp[t], p, x)
        /\ p \in InodeNrs \cup {Nil} /\ x \in InodeNrs \cup {Nil} /\ filp[t] \in [Fds -> FileTable \cup {Nil}]
        /\ PendingOK /\ OpenOK /\ UnusedOK /\ CountsAreExact
    BY TaskHere DEF OpenInv
  <1>2. ~ Forks(t) /\ p \in InodeNrs
    BY <1>1 DEF Forks, TaskIs, ResumedBy, Leaving
  <1>3. Nil \notin FileTable /\ Nil \notin InodeNrs
    BY FdsAre
  <1>4. /\ F \subseteq FileTable /\ \A h \in F : f_inode[h] = Nil /\ f_count[h] = 1
        /\ \A d \in Fds : filp[t][d] \in F => d \in Pending(t)
        /\ \A u \in Processes \ {t}, e \in Fds : filp[u][e] \notin F
        /\ \A d \in Pending(t) : filp[t][d] \in F
    BY <1>1, PendingAre DEF PendingFiles
  <1>5. /\ f_count' \in [FileTable -> Int] /\ f_inode' \in [FileTable -> InodeNrs \cup {Nil}]
        /\ f_pos' \in [FileTable -> Int] /\ f_append' \in [FileTable -> BOOLEAN]
        /\ \A h \in FileTable : f_count'[h] = (IF h \in F THEN 0 ELSE f_count[h])
                                /\ f_inode'[h] = (IF h \in F THEN Nil ELSE f_inode[h])
    <2> HIDE DEF F
    <2> QED BY <1>1, <1>3, ClearedIs DEF F
  <1>6. f_inode' = f_inode
    BY <1>1, <1>4, <1>5 DEF OpenTypeOK
  <1>7. g \in [Fds -> FileTable \cup {Nil}] /\ \A d \in Fds : g[d] # Nil => g[d] = filp[t][d] /\ d \notin Pending(t)
    BY <1>1
  <1>8. filp'[t] = g /\ \A u \in Processes \ {t} : filp'[u] = filp[u]
    BY <1>1 DEF OpenTypeOK
  <1>9. MovesTo(t, Out, p, x)
    BY SamePlaces DEF Done
  <1>10. Running' = Running
    BY RunningSame
  <1>11. ASSUME NEW h \in FileTable PROVE f_count'[h] = Cardinality(Descriptors(h))'
    <2>1. CASE h \in F
      <3>1. Descriptors(h)' = {}
        <4> SUFFICES ASSUME NEW u \in Running, NEW e \in Fds, filp'[u][e] = h PROVE FALSE
          BY <1>10 DEF Descriptors
        <4>1. u \in Processes
          BY DEF Running
        <4> QED BY <1>3, <1>4, <1>7, <1>8, <2>1, <4>1
      <3> QED BY <1>5, <2>1, <3>1, FS_EmptySet
    <2>2. CASE h \notin F
      <3>1. Descriptors(h)' = Descriptors(h)
        <4>1. \A u \in Processes, e \in Fds : filp'[u][e] = h <=> filp[u][e] = h
          BY <1>3, <1>4, <1>7, <1>8, <2>2
        <4> QED BY <1>10, <4>1 DEF Descriptors, Running
      <3> QED BY <1>1, <1>5, <2>2, <3>1 DEF CountsAreExact
    <2> QED BY <2>1, <2>2
  <1>12. ASSUME NEW i \in InodeNrs PROVE i_count'[i] = References(i)'
    <2>1. TaskRefs(i)' = TaskRefs(i) - RefsOf(c, p, x, i) + RefsOf(Out, p, x, i)
      BY <1>1, <1>9, TaskCounts
    <2>2. RefsOf(c, p, x, i) = RefsOf(Out, p, x, i) /\ RefsOf(c, p, x, i) \in Nat
      BY CallsAre, RefsAre
    <2>3. FileRefs(i)' = FileRefs(i)
      BY <1>6 DEF FileRefs
    <2>4. References(i) = FileRefs(i) + TaskRefs(i) /\ FileRefs(i) \in Nat /\ TaskRefs(i) \in Nat
      BY ReferencesAre
    <2>5. References(i)' = FileRefs(i)' + TaskRefs(i)'
      BY ReferencesNext
    <2>6. i_count'[i] = References(i)
      BY <1>1 DEF CountsAreExact, inodeVars
    <2> QED BY <2>1, <2>2, <2>3, <2>4, <2>5, <2>6
  <1>13. CountsAreExact'
    BY <1>11, <1>12 DEF CountsAreExact
  <1>14. UnusedOK'
    BY <1>1, <1>4, <1>5 DEF UnusedOK
  <1>15. \A d \in Fds \ PendingOf(Out) : g[d] # Nil => f_inode'[g[d]] \in InodeNrs
    BY <1>1, <1>6, <1>7 DEF OpenOK
  <1>16. \A u \in Processes \ {t}, e \in Fds : filp[u][e] # Nil => f_inode'[filp[u][e]] = f_inode[filp[u][e]]
    BY <1>6
  <1>17. \A u \in Processes \ {t} : \A d \in Pending(u) : \A e \in Fds : g[e] # filp[u][d]
    BY <1>1, <1>3, <1>7 DEF PendingOK
  <1>18. TaskIs("running", Out, g, p, x) /\ PendingFits(t, Out, g) /\ CallOK(Out) /\ Out.pc # "fork"
    BY <1>2, CallsAre DEF TaskIs, Leaving, PendingFits
  <1>19. /\ close_on_exec' \in [Processes -> SUBSET Fds]
         /\ i_count' \in [InodeNrs -> Int] /\ i_size' \in [InodeNrs -> Int] /\ written' \in [InodeNrs -> Int]
         /\ posRaced' \in BOOLEAN
    BY <1>1 DEF inodeVars, OpenTypeOK
  <1> HIDE DEF c, p, x, F
  <1> QED BY <1>1, <1>2, <1>5, <1>7, <1>9, <1>13, <1>14, <1>15, <1>16, <1>17, <1>18, <1>19, TaskStep

LEMMA NotOpened_Keeps ==
  ASSUME OpenFilesAssumption, OpenInv, NEW t \in Processes, NotOpened(t)
  PROVE  OpenInv'
  <1> DEFINE c == syscall[t]
             g == [d \in Fds |-> IF d \in Pending(t) THEN Nil ELSE filp[t][d]]
  <1>1. taskState[t] = "running" /\ c.pc = "opening" /\ CallOK(c) /\ OpenTypeOK /\ filp[t] \in [Fds -> FileTable \cup {Nil}]
    BY TaskHere DEF NotOpened, At
  <1>2. Pending(t) = {c.fd} /\ c.fd \in Fds
    BY <1>1 DEF Pending, PendingOf, CallOK, NextOK
  <1>3. filp' = [filp EXCEPT ![t][c.fd] = Nil] /\ Cleared({filp[t][c.fd]}) /\ Done(t)
        /\ UNCHANGED <<close_on_exec, pwd, executable, taskState, inodeVars, posRaced>>
    BY DEF NotOpened
  <1>4. g = [filp[t] EXCEPT ![c.fd] = Nil]
    BY <1>1, <1>2
  <1>5. filp' = [filp EXCEPT ![t] = g]
    <2>1. filp' = [filp EXCEPT ![t] = [filp[t] EXCEPT ![c.fd] = Nil]]
      BY <1>1, <1>2, <1>3, FilpAt
    <2> QED BY <1>4, <2>1
  <1>6. PendingFiles(t) = {filp[t][c.fd]}
    BY <1>2 DEF PendingFiles
  <1>7. Cleared(PendingFiles(t))
    BY <1>3, <1>6
  <1> QED BY <1>1, <1>3, <1>5, <1>7, Dropped

LEMMA NotPiped_Keeps ==
  ASSUME OpenFilesAssumption, OpenInv, NEW t \in Processes, NotPiped(t)
  PROVE  OpenInv'
  <1> DEFINE c == syscall[t]
             g == [d \in Fds |-> IF d \in Pending(t) THEN Nil ELSE filp[t][d]]
  <1>1. taskState[t] = "running" /\ c.pc = "pipe"
    BY TaskHere DEF NotPiped, At
  <1>2. Pending(t) = c.fds /\ PendingFiles(t) = PipeFiles(t)
    BY <1>1 DEF Pending, PendingOf, PendingFiles, PipeFiles
  <1>3. filp' = [filp EXCEPT ![t] = [fd \in Fds |-> IF fd \in c.fds THEN Nil ELSE filp[t][fd]]]
        /\ Cleared(PipeFiles(t)) /\ Done(t)
        /\ UNCHANGED <<close_on_exec, pwd, executable, taskState, inodeVars, posRaced>>
    BY DEF NotPiped
  <1>4. filp' = [filp EXCEPT ![t] = g] /\ Cleared(PendingFiles(t))
    BY <1>2, <1>3
  <1> QED BY <1>1, <1>3, <1>4, Dropped

LEMMA TwoElements ==
  ASSUME NEW a, NEW b, a # b
  PROVE  IsFiniteSet({a, b}) /\ Cardinality({a, b}) = 2
  <1>1. IsFiniteSet({a}) /\ Cardinality({a}) = 1
    BY FS_Singleton
  <1>2. IsFiniteSet({a} \cup {b}) /\ Cardinality({a} \cup {b}) = Cardinality({a}) + 1
    BY <1>1, FS_AddElement
  <1>3. {a} \cup {b} = {a, b}
    OBVIOUS
  <1>4. Cardinality({a, b}) = Cardinality({a} \cup {b}) /\ IsFiniteSet({a, b})
    BY <1>2, <1>3
  <1> QED BY <1>1, <1>2, <1>4

LEMMA Named ==
  ASSUME OpenFilesAssumption, OpenInv, NEW t \in Processes, taskState[t] = "running",
         syscall[t].pc \in {"opening", "pipe"}, Done(t), UNCHANGED <<taskVars, f_count, posRaced>>,
         NEW i \in InodeNrs,
         f_inode' = [h \in FileTable |-> IF h \in PendingFiles(t) THEN i ELSE f_inode[h]],
         f_pos' \in [FileTable -> Int], f_append' \in [FileTable -> BOOLEAN],
         i_size' \in [InodeNrs -> Int], written' \in [InodeNrs -> Int], i_count' \in [InodeNrs -> Int],
         \A k \in InodeNrs : i_count'[k] = i_count[k] + (IF k = i THEN Cardinality(PendingFiles(t)) ELSE 0)
  PROVE  OpenInv'
  <1> DEFINE c == syscall[t]
             p == pwd[t]
             x == executable[t]
             g == filp[t]
             F == PendingFiles(t)
  <1>1. t \in Running /\ OpenTypeOK /\ TaskIs("running", c, g, p, x)
        /\ p \in InodeNrs \cup {Nil} /\ x \in InodeNrs \cup {Nil} /\ g \in [Fds -> FileTable \cup {Nil}]
        /\ PendingOK /\ OpenOK /\ UnusedOK /\ CountsAreExact
    BY TaskHere DEF OpenInv
  <1>2. ~ Forks(t) /\ p \in InodeNrs
    BY <1>1 DEF Forks, TaskIs, ResumedBy, Leaving
  <1>3. Nil \notin FileTable /\ Nil \notin InodeNrs
    BY FdsAre
  <1>4. /\ F \subseteq FileTable /\ \A h \in F : f_inode[h] = Nil /\ f_count[h] = 1
        /\ \A d \in Fds : g[d] \in F => d \in Pending(t)
        /\ \A u \in Processes \ {t}, e \in Fds : filp[u][e] \notin F
        /\ \A d \in Pending(t) : g[d] \in F
    BY <1>1, PendingAre DEF PendingFiles
  <1>5. UNCHANGED <<filp, pwd, executable, taskState>>
    BY DEF taskVars
  <1>6. MovesTo(t, Out, p, x)
    BY <1>5, SamePlaces DEF Done
  <1>7. ASSUME NEW h \in FileTable PROVE f_count'[h] = Cardinality(Descriptors(h))'
    <2>1. Descriptors(h)' = Descriptors(h)
      BY <1>5, RunningSame DEF Descriptors
    <2> QED BY <1>1, <2>1 DEF CountsAreExact
  <1>8. ASSUME NEW k \in InodeNrs PROVE i_count'[k] = References(k)'
    <2> DEFINE n == IF k = i THEN Cardinality(F) ELSE 0
    <2>1. TaskRefs(k)' = TaskRefs(k) - RefsOf(c, p, x, k) + RefsOf(Out, p, x, k)
      BY <1>1, <1>6, TaskCounts
    <2>2. RefsOf(c, p, x, k) = RefsOf(Out, p, x, k) /\ RefsOf(c, p, x, k) \in Nat
      BY CallsAre, RefsAre
    <2>3. FileRefs(k)' = FileRefs(k) + n /\ n \in Nat
      <3> DEFINE S == {h \in FileTable : f_inode[h] = k}
                 T == {h \in FileTable : f_inode'[h] = k}
      <3>1. FileRefs(k) = Cardinality(S) /\ FileRefs(k)' = Cardinality(T)
        BY DEF FileRefs
      <3>2. IsFiniteSet(S) /\ IsFiniteSet(F) /\ Cardinality(S) \in Nat /\ Cardinality(F) \in Nat
        BY <1>4, CountType
      <3>3. CASE k = i
        <4>1. T = S \cup F /\ S \cap F = {}
          <5> HIDE DEF F
          <5> QED BY <1>3, <1>4, <3>3 DEF F
        <4>2. Cardinality(S \cup F) = Cardinality(S) + Cardinality(F) - Cardinality(S \cap F)
          <5> HIDE DEF S, F
          <5> QED BY <3>2, FS_Union
        <4>3. Cardinality(S \cap F) = 0
          BY <4>1, FS_EmptySet
        <4>4. Cardinality(T) = Cardinality(S \cup F)
          BY <4>1
        <4>5. n = Cardinality(F)
          BY <3>3
        <4> HIDE DEF S, T, F, n
        <4> QED BY <3>1, <3>2, <4>2, <4>3, <4>4, <4>5
      <3>4. CASE k # i
        <4>1. T = S
          <5> HIDE DEF F
          <5> QED BY <1>3, <1>4, <3>4 DEF F
        <4>2. n = 0
          BY <3>4
        <4> HIDE DEF S, T, n
        <4> QED BY <3>1, <3>2, <4>1, <4>2
      <3> QED BY <3>3, <3>4
    <2>4. References(k) = FileRefs(k) + TaskRefs(k) /\ FileRefs(k) \in Nat /\ TaskRefs(k) \in Nat
      BY ReferencesAre
    <2>5. References(k)' = FileRefs(k)' + TaskRefs(k)'
      BY ReferencesNext
    <2>6. i_count[k] = References(k) /\ i_count'[k] = i_count[k] + n
      BY <1>1 DEF CountsAreExact
    <2> HIDE DEF n
    <2> QED BY <2>1, <2>2, <2>3, <2>4, <2>5, <2>6
  <1>9. CountsAreExact'
    BY <1>7, <1>8 DEF CountsAreExact
  <1>10. UnusedOK'
    <2> HIDE DEF F
    <2> QED BY <1>1, <1>4 DEF UnusedOK, F
  <1>11. \A d \in Fds \ PendingOf(Out) : g[d] # Nil => f_inode'[g[d]] \in InodeNrs
    <2> SUFFICES ASSUME NEW d \in Fds, g[d] # Nil PROVE f_inode'[g[d]] \in InodeNrs
      OBVIOUS
    <2>1. g[d] \in FileTable
      BY <1>1
    <2>2. CASE d \in Pending(t)
      BY <1>4, <2>1, <2>2
    <2>3. CASE d \notin Pending(t)
      <3>1. f_inode[g[d]] \in InodeNrs
        BY <1>1, <2>3 DEF OpenOK
      <3> QED BY <2>1, <3>1
    <2> QED BY <2>2, <2>3
  <1>12. \A u \in Processes \ {t}, e \in Fds : filp[u][e] # Nil => f_inode'[filp[u][e]] = f_inode[filp[u][e]]
    <2> SUFFICES ASSUME NEW u \in Processes \ {t}, NEW e \in Fds, filp[u][e] # Nil
                 PROVE  f_inode'[filp[u][e]] = f_inode[filp[u][e]]
      OBVIOUS
    <2>1. filp[u][e] \in FileTable
      BY <1>1 DEF OpenTypeOK
    <2> QED BY <1>4, <2>1
  <1>13. \A u \in Processes \ {t} : \A d \in Pending(u) : \A e \in Fds : g[e] # filp[u][d]
    BY <1>1 DEF PendingOK
  <1>14. TaskIs("running", Out, g, p, x) /\ PendingFits(t, Out, g) /\ CallOK(Out) /\ Out.pc # "fork"
    BY <1>2, CallsAre DEF TaskIs, Leaving, PendingFits
  <1>15. /\ f_count' \in [FileTable -> Int] /\ f_inode' \in [FileTable -> InodeNrs \cup {Nil}]
         /\ close_on_exec' \in [Processes -> SUBSET Fds] /\ posRaced' \in BOOLEAN
    BY <1>1 DEF taskVars, OpenTypeOK
  <1>16. filp' = [filp EXCEPT ![t] = g]
    BY <1>1, <1>5 DEF OpenTypeOK
  <1> HIDE DEF c, p, x, g, F
  <1> QED BY <1>1, <1>2, <1>6, <1>9, <1>10, <1>11, <1>12, <1>13, <1>14, <1>15, <1>16, TaskStep

LEMMA Opened_Keeps ==
  ASSUME OpenFilesAssumption, OpenInv, NEW t \in Processes, Opened(t)
  PROVE  OpenInv'
  <1> DEFINE c == syscall[t]
             f == filp[t][c.fd]
             F == PendingFiles(t)
  <1>1. taskState[t] = "running" /\ c.pc = "opening" /\ CallOK(c) /\ OpenTypeOK /\ t \in Running
    BY TaskHere DEF Opened, At
  <1>2. Pending(t) = {c.fd} /\ F = {f} /\ f \in FileTable /\ f_count[f] = 1
    <2>1. Pending(t) = {c.fd}
      BY <1>1 DEF Pending, PendingOf
    <2>2. F = {f}
      BY <2>1 DEF PendingFiles
    <2> QED BY <1>1, <2>1, <2>2, PendingAre
  <1>3. PICK i \in InodeNrs \ Pipes, trunc \in BOOLEAN, append \in Appends :
       /\ i_count' = [i_count EXCEPT ![i] = i_count[i] + 1]
       /\ i_size' = [i_size EXCEPT ![i] = IF trunc THEN 0 ELSE i_size[i]]
       /\ written' = [written EXCEPT ![i] = IF trunc THEN 0 ELSE written[i]]
       /\ f_count' = [f_count EXCEPT ![f] = 1]
       /\ f_inode' = [f_inode EXCEPT ![f] = i]
       /\ f_pos' = [f_pos EXCEPT ![f] = 0]
       /\ f_append' = [f_append EXCEPT ![f] = append]
    BY DEF Opened
  <1>4. UNCHANGED <<taskVars, posRaced>> /\ Done(t)
    BY DEF Opened
  <1> HIDE DEF f, F
  <1>5. f_count' = f_count /\ f_inode' = [h \in FileTable |-> IF h \in F THEN i ELSE f_inode[h]]
    BY <1>1, <1>2, <1>3 DEF OpenTypeOK
  <1>6. f_pos' \in [FileTable -> Int] /\ f_append' \in [FileTable -> BOOLEAN]
    <2>1. append \in BOOLEAN
      BY DEF OpenFilesAssumption
    <2>2. f_append' \in [FileTable -> BOOLEAN]
      BY <1>1, <1>3, <2>1, Zenon DEF OpenTypeOK
    <2> QED BY <1>1, <1>3, <2>2 DEF OpenTypeOK
  <1>7. i_size' \in [InodeNrs -> Int] /\ written' \in [InodeNrs -> Int]
    <2> DEFINE n == IF trunc THEN 0 ELSE i_size[i]
               m == IF trunc THEN 0 ELSE written[i]
    <2>1. n \in Int /\ m \in Int /\ i_size \in [InodeNrs -> Int] /\ written \in [InodeNrs -> Int]
      BY <1>1 DEF OpenTypeOK
    <2>2. i_size' = [i_size EXCEPT ![i] = n] /\ written' = [written EXCEPT ![i] = m]
      BY <1>3
    <2> HIDE DEF n, m
    <2> QED BY <2>1, <2>2
  <1>8. /\ i_count' \in [InodeNrs -> Int] /\ i_count \in [InodeNrs -> Int]
        /\ \A k \in InodeNrs : i_count'[k] = i_count[k] + One(i = k)
    BY <1>1, <1>3, Counted
  <1>9. Cardinality(F) = 1
    BY <1>2, FS_Singleton
  <1>10. \A k \in InodeNrs : i_count'[k] = i_count[k] + (IF k = i THEN Cardinality(F) ELSE 0)
    BY <1>8, <1>9 DEF One
  <1>11. UNCHANGED <<taskVars, f_count, posRaced>>
    BY <1>4, <1>5
  <1> QED BY <1>1, <1>4, <1>5, <1>6, <1>7, <1>8, <1>10, <1>11, Named DEF F

LEMMA Piped_Keeps ==
  ASSUME OpenFilesAssumption, OpenInv, NEW t \in Processes, Piped(t)
  PROVE  OpenInv'
  <1> DEFINE c == syscall[t]
             F == PendingFiles(t)
  <1>1. taskState[t] = "running" /\ c.pc = "pipe" /\ CallOK(c) /\ OpenTypeOK /\ t \in Running
    BY TaskHere DEF Piped, At
  <1>2. Pending(t) = c.fds /\ F = PipeFiles(t)
    BY <1>1 DEF Pending, PendingOf, PendingFiles, PipeFiles
  <1>3. PICK a \in Fds, b \in Fds : a # b /\ c.fds = {a, b}
    BY <1>1 DEF CallOK, NextOK
  <1>4. F = {filp[t][a], filp[t][b]} /\ filp[t][a] # filp[t][b]
    <2>1. F = {filp[t][a], filp[t][b]}
      BY <1>2, <1>3 DEF PendingFiles
    <2>2. filp[t][a] # filp[t][b]
      BY <1>1, <1>2, <1>3 DEF OpenInv, PendingOK
    <2> QED BY <2>1, <2>2
  <1>5. Cardinality(F) = 2
    BY <1>4, TwoElements
  <1>6. PICK i \in Pipes :
       /\ i_count[i] = 0
       /\ i_count' = [i_count EXCEPT ![i] = 2]
       /\ f_inode' = [f \in FileTable |-> IF f \in PipeFiles(t) THEN i ELSE f_inode[f]]
    BY DEF Piped
  <1>7. i \in InodeNrs
    BY DEF OpenFilesAssumption
  <1>8. UNCHANGED <<taskVars, f_count, f_pos, f_append, i_size, written, posRaced>> /\ Done(t)
    BY DEF Piped
  <1> HIDE DEF F
  <1>9. f_inode' = [h \in FileTable |-> IF h \in F THEN i ELSE f_inode[h]]
    BY <1>2, <1>6
  <1>10. i_count' \in [InodeNrs -> Int]
         /\ \A k \in InodeNrs : i_count'[k] = i_count[k] + (IF k = i THEN Cardinality(F) ELSE 0)
    BY <1>1, <1>5, <1>6, <1>7 DEF OpenTypeOK
  <1>11. /\ f_pos' \in [FileTable -> Int] /\ f_append' \in [FileTable -> BOOLEAN]
         /\ i_size' \in [InodeNrs -> Int] /\ written' \in [InodeNrs -> Int]
    BY <1>1, <1>8 DEF OpenTypeOK
  <1>12. UNCHANGED <<taskVars, f_count, posRaced>>
    BY <1>8
  <1> QED BY <1>1, <1>7, <1>8, <1>9, <1>10, <1>11, <1>12, Named DEF F

LEMMA TwoFirst ==
  ASSUME NEW S, S \subseteq Nat, IsFiniteSet(S), Cardinality(S) > 1
  PROVE  Min(S) \in S /\ Min(S \ {Min(S)}) \in S /\ Min(S) # Min(S \ {Min(S)})
  <1> DEFINE a == Min(S)
             T == S \ {a}
  <1>1. S # {}
    <2>1. Cardinality({}) = 0
      BY FS_EmptySet
    <2> QED BY <2>1
  <1>2. a \in S
    BY <1>1, MinIs
  <1>3. Cardinality(T) = Cardinality(S) - 1 /\ Cardinality(S) \in Nat
    <2> HIDE DEF a
    <2> QED BY <1>2, FS_RemoveElement, FS_CardinalityType
  <1>4. T # {}
    <2>1. Cardinality({}) = 0
      BY FS_EmptySet
    <2> HIDE DEF T
    <2> QED BY <1>3, <2>1
  <1>5. Min(T) \in T
    <2> HIDE DEF a
    <2> QED BY <1>4, MinIs
  <1> HIDE DEF a
  <1>6. a \in S /\ Min(T) \in S /\ a # Min(T)
    BY <1>2, <1>5
  <1> QED BY <1>6 DEF a

LEMMA Pipe_Keeps ==
  ASSUME OpenFilesAssumption, OpenInv, NEW t \in Processes, Pipe(t)
  PROVE  OpenInv'
  <1> DEFINE c == syscall[t]
             p == pwd[t]
             x == executable[t]
             f0 == Min(FreeFiles)
             f1 == Min(FreeFiles \ {f0})
             fd0 == Min(Free(t))
             fd1 == Min(Free(t) \ {fd0})
             g == [filp[t] EXCEPT ![fd0] = f0, ![fd1] = f1]
             r == [pc |-> "pipe", fds |-> {fd0, fd1}]
  <1>1. taskState[t] = "running" /\ c.pc = "out" /\ t \in Running /\ OpenTypeOK /\ TaskIs("running", c, filp[t], p, x)
        /\ p \in InodeNrs \cup {Nil} /\ x \in InodeNrs \cup {Nil} /\ filp[t] \in [Fds -> FileTable \cup {Nil}]
        /\ PendingOK /\ OpenOK /\ UnusedOK /\ CountsAreExact
    BY TaskHere DEF OpenInv, Pipe, Starts, At
  <1>2. Pending(t) = {} /\ ~ Forks(t) /\ p \in InodeNrs
    BY <1>1, CallsAre DEF Pending, Forks, TaskIs, ResumedBy, Leaving
  <1>3. Nil \notin FileTable
    BY FdsAre
  <1>4. f0 \in FileTable /\ f1 \in FileTable /\ f0 # f1 /\ f_count[f0] = 0 /\ f_count[f1] = 0
    <2>1. FreeFiles \subseteq FileTable /\ FreeFiles \subseteq Nat /\ IsFiniteSet(FreeFiles) /\ Cardinality(FreeFiles) > 1
      BY FdsAre, FS_Subset DEF FreeFiles, Pipe
    <2>2. f0 \in FreeFiles /\ f1 \in FreeFiles /\ f0 # f1
      BY <2>1, TwoFirst
    <2> HIDE DEF f0, f1
    <2> QED BY <2>1, <2>2 DEF FreeFiles
  <1>5. fd0 \in Fds /\ fd1 \in Fds /\ fd0 # fd1 /\ filp[t][fd0] = Nil /\ filp[t][fd1] = Nil
    <2>1. Free(t) \subseteq Fds /\ Free(t) \subseteq Nat /\ IsFiniteSet(Free(t)) /\ Cardinality(Free(t)) > 1
      BY FdsAre, FS_Subset DEF Free, Pipe
    <2>2. fd0 \in Free(t) /\ fd1 \in Free(t) /\ fd0 # fd1
      BY <2>1, TwoFirst
    <2> HIDE DEF fd0, fd1
    <2> QED BY <2>1, <2>2 DEF Free
  <1>6. f_inode[f0] = Nil /\ f_inode[f1] = Nil /\ \A u \in Processes, e \in Fds : filp[u][e] # f0 /\ filp[u][e] # f1
    BY <1>1, <1>4, NoUser DEF UnusedOK
  <1>7. /\ f_count' = [f_count EXCEPT ![f0] = 1, ![f1] = 1] /\ Sleeps(t, r)
        /\ filp' = [filp EXCEPT ![t] = g]
        /\ UNCHANGED <<close_on_exec, pwd, executable, taskState, f_inode, f_pos, f_append, inodeVars, posRaced>>
    BY DEF Pipe
  <1> HIDE DEF f0, f1, fd0, fd1
  <1>8. /\ f_count' \in [FileTable -> Int] /\ f_count'[f0] = 1 /\ f_count'[f1] = 1
        /\ \A h \in FileTable \ {f0, f1} : f_count'[h] = f_count[h]
    <2>1. f_count \in [FileTable -> Int] /\ 1 \in Int
      BY <1>1 DEF OpenTypeOK
    <2> QED BY <1>4, <1>7, <2>1
  <1>9. /\ g \in [Fds -> FileTable \cup {Nil}] /\ g[fd0] = f0 /\ g[fd1] = f1
        /\ \A d \in Fds \ {fd0, fd1} : g[d] = filp[t][d]
    BY <1>1, <1>4, <1>5
  <1>10. r.pc = "pipe" /\ CallOK(r) /\ PendingOf(r) = {fd0, fd1} /\ ResumedBy(r) = r /\ r.pc # "fork"
    BY <1>5 DEF CallOK, NextOK, Stations, PendingOf, ResumedBy
  <1> HIDE DEF r
  <1>11. MovesTo(t, r, p, x)
    BY <1>1, <1>7, SamePlaces
  <1> HIDE DEF g
  <1>12. filp'[t] = g /\ \A u \in Processes \ {t} : filp'[u] = filp[u]
    BY <1>1, <1>7 DEF OpenTypeOK
  <1>13. Running' = Running
    BY <1>7, RunningSame
  <1>14. ASSUME NEW h \in FileTable PROVE f_count'[h] = Cardinality(Descriptors(h))'
    <2>1. ASSUME NEW d \in {fd0, fd1}, g[d] = h, h \in {f0, f1} PROVE Descriptors(h)' = {<<t, d>>}
      <3>1. \A u \in Running, e \in Fds : filp'[u][e] = h <=> u = t /\ e = d
        <4> SUFFICES ASSUME NEW u \in Running, NEW e \in Fds PROVE filp'[u][e] = h <=> u = t /\ e = d
          OBVIOUS
        <4>1. u \in Processes
          BY DEF Running
        <4> QED BY <1>4, <1>6, <1>9, <1>12, <2>1, <4>1
      <3>2. d \in Fds
        BY <1>5, <2>1
      <3> QED BY <1>1, <1>13, <3>1, <3>2 DEF Descriptors
    <2>2. CASE h \in {f0, f1}
      <3>1. PICK d \in {fd0, fd1} : g[d] = h
        BY <1>9, <2>2
      <3>2. Descriptors(h)' = {<<t, d>>}
        BY <2>1, <2>2, <3>1
      <3>3. Cardinality({<<t, d>>}) = 1
        BY FS_Singleton
      <3> QED BY <1>8, <2>2, <3>2, <3>3
    <2>3. CASE h \notin {f0, f1}
      <3>1. \A u \in Running, e \in Fds : filp'[u][e] = h <=> filp[u][e] = h
        <4> SUFFICES ASSUME NEW u \in Running, NEW e \in Fds PROVE filp'[u][e] = h <=> filp[u][e] = h
          OBVIOUS
        <4>1. u \in Processes
          BY DEF Running
        <4> QED BY <1>3, <1>5, <1>9, <1>12, <2>3, <4>1
      <3>2. Descriptors(h)' = Descriptors(h)
        BY <1>13, <3>1 DEF Descriptors
      <3> QED BY <1>1, <1>8, <2>3, <3>2 DEF CountsAreExact
    <2> QED BY <2>2, <2>3
  <1>15. ASSUME NEW i \in InodeNrs PROVE i_count'[i] = References(i)'
    <2>1. TaskRefs(i)' = TaskRefs(i) - RefsOf(c, p, x, i) + RefsOf(r, p, x, i)
      BY <1>1, <1>11, TaskCounts
    <2>2. RefsOf(c, p, x, i) = RefsOf(r, p, x, i) /\ RefsOf(c, p, x, i) \in Nat
      BY <1>1, <1>10, RefsAre
    <2>3. FileRefs(i)' = FileRefs(i)
      BY <1>7 DEF FileRefs
    <2>4. References(i) = FileRefs(i) + TaskRefs(i) /\ FileRefs(i) \in Nat /\ TaskRefs(i) \in Nat
      BY ReferencesAre
    <2>5. References(i)' = FileRefs(i)' + TaskRefs(i)'
      BY ReferencesNext
    <2>6. i_count'[i] = References(i)
      BY <1>1, <1>7 DEF CountsAreExact, inodeVars
    <2> QED BY <2>1, <2>2, <2>3, <2>4, <2>5, <2>6
  <1>16. CountsAreExact'
    BY <1>14, <1>15 DEF CountsAreExact
  <1>17. UnusedOK'
    BY <1>1, <1>4, <1>7, <1>8 DEF UnusedOK
  <1>18. \A d \in Fds \ PendingOf(r) : g[d] # Nil => f_inode'[g[d]] \in InodeNrs
    BY <1>1, <1>2, <1>7, <1>9, <1>10 DEF OpenOK
  <1>19. \A u \in Processes \ {t}, e \in Fds : filp[u][e] # Nil => f_inode'[filp[u][e]] = f_inode[filp[u][e]]
    BY <1>7
  <1>20. \A u \in Processes \ {t} : \A d \in Pending(u) : \A e \in Fds : g[e] # filp[u][d]
    <2> SUFFICES ASSUME NEW u \in Processes \ {t}, NEW d \in Pending(u), NEW e \in Fds PROVE g[e] # filp[u][d]
      OBVIOUS
    <2>1. d \in Fds
      BY PendingFds
    <2>2. filp[u][d] # f0 /\ filp[u][d] # f1 /\ filp[t][e] # filp[u][d]
      BY <1>1, <1>6, <2>1 DEF PendingOK
    <2> QED BY <1>9, <2>2
  <1>21. PendingFits(t, r, g)
    BY <1>4, <1>5, <1>6, <1>7, <1>9, <1>10 DEF PendingFits
  <1>22. TaskIs("running", r, g, p, x)
    <2> HIDE DEF p
    <2> QED BY <1>2, <1>10 DEF TaskIs, Leaving
  <1>23. /\ f_inode' \in [FileTable -> InodeNrs \cup {Nil}] /\ close_on_exec' \in [Processes -> SUBSET Fds]
         /\ f_pos' \in [FileTable -> Int] /\ f_append' \in [FileTable -> BOOLEAN]
         /\ i_count' \in [InodeNrs -> Int] /\ i_size' \in [InodeNrs -> Int] /\ written' \in [InodeNrs -> Int]
         /\ posRaced' \in BOOLEAN
    BY <1>1, <1>7 DEF OpenTypeOK, inodeVars
  <1>24. filp' = [filp EXCEPT ![t] = g]
    BY <1>7
  <1> HIDE DEF c, p, x
  <1> QED BY <1>1, <1>2, <1>8, <1>9, <1>10, <1>11, <1>16, <1>17, <1>18, <1>19, <1>20, <1>21, <1>22, <1>23, <1>24, TaskStep

-----------------------------------------------------------------------------
(* fork and exit: the copy that is made, and the task that is removed. *)
LEMMA Fork_Keeps ==
  ASSUME OpenFilesAssumption, OpenInv, NEW t \in Processes, Fork(t)
  PROVE  OpenInv'
  <1>1. PICK c \in Processes :
       /\ taskState[c] = "none" /\ taskState' = [taskState EXCEPT ![c] = "forked"]
       /\ filp' = [filp EXCEPT ![c] = filp[t]] /\ close_on_exec' = [close_on_exec EXCEPT ![c] = close_on_exec[t]]
       /\ pwd' = [pwd EXCEPT ![c] = pwd[t]] /\ executable' = [executable EXCEPT ![c] = executable[t]]
       /\ Sleeps(t, [pc |-> "fork", child |-> c])
    BY DEF Fork
  <1> DEFINE r == [pc |-> "fork", child |-> c]
  <1>2. taskState[t] = "running" /\ syscall[t].pc = "out" /\ UNCHANGED <<fileVars, inodeVars, posRaced>>
    BY DEF Fork, Starts, At
  <1>3. OpenTypeOK /\ CopiesOK /\ PendingOK /\ OpenOK /\ UnusedOK /\ CountsAreExact
        /\ \A u \in Processes : CallOK(syscall[u]) /\ TaskOK(u)
    BY DEF OpenInv
  <1>4. r.pc = "fork" /\ r.child = c /\ CallOK(r) /\ ResumedBy(r) = r /\ PendingOf(r) = {}
    BY DEF CallOK, NextOK, Stations, ResumedBy, PendingOf
  <1>5. Sleeps(t, r)
    BY <1>1
  <1> HIDE DEF r
  <1>6. c # t /\ syscall[c] = Out
    BY <1>1, <1>2, <1>3 DEF TaskOK, TaskIs
  <1>7. /\ taskState'[c] = "forked" /\ filp'[c] = filp[t] /\ pwd'[c] = pwd[t] /\ executable'[c] = executable[t]
        /\ \A u \in Processes \ {c} : taskState'[u] = taskState[u] /\ filp'[u] = filp[u] /\ pwd'[u] = pwd[u]
                                      /\ executable'[u] = executable[u]
        /\ syscall'[t] = r /\ \A u \in Processes \ {t} : syscall'[u] = syscall[u]
    BY <1>1, <1>3, <1>5 DEF OpenTypeOK, Sleeps
  <1>8. Running' = Running /\ c \notin Running /\ t \in Running
    BY <1>1, <1>2, <1>7 DEF Running
  <1>9. OpenTypeOK'
    <2>1. filp' \in [Processes -> [Fds -> FileTable \cup {Nil}]] /\ close_on_exec' \in [Processes -> SUBSET Fds]
      BY <1>1, <1>3 DEF OpenTypeOK
    <2>2. pwd' \in [Processes -> InodeNrs \cup {Nil}] /\ executable' \in [Processes -> InodeNrs \cup {Nil}]
      BY <1>1, <1>3 DEF OpenTypeOK
    <2>3. taskState' \in [Processes -> {"none", "forked", "running"}]
      BY <1>1, <1>3 DEF OpenTypeOK
    <2>4. syscall' = [u \in Processes |-> syscall'[u]]
      BY <1>3, <1>5 DEF OpenTypeOK, Sleeps
    <2> QED BY <1>2, <1>3, <2>1, <2>2, <2>3, <2>4 DEF OpenTypeOK, fileVars, inodeVars
  <1>10. ASSUME NEW u \in Processes PROVE CallOK(syscall'[u]) /\ TaskOK(u)'
    <2>1. CASE u = t
      BY <1>2, <1>3, <1>4, <1>6, <1>7, <2>1 DEF TaskOK, TaskIs, Leaving, ResumedBy
    <2>2. CASE u = c
      BY <1>3, <1>6, <1>7, <2>2, CallsAre DEF TaskOK, TaskIs, Leaving
    <2>3. CASE u # t /\ u # c
      BY <1>3, <1>7, <2>3 DEF TaskOK
    <2> QED BY <2>1, <2>2, <2>3
  <1>11. \A u \in Processes \ {t} : (Forks(u)' <=> Forks(u)) /\ (Forks(u) => u # c /\ syscall[u].child # c
                                    /\ syscall[u].child \in Processes /\ IsCopyOf(syscall[u].child, u))
    BY <1>1, <1>3, <1>6, <1>7, CallsAre DEF Forks, CopiesOK, IsCopyOf, CallOK, NextOK
  <1>12. Forks(t)' /\ ~ Forks(t) /\ syscall'[t].child = c
    BY <1>2, <1>4, <1>7 DEF Forks
  <1>13. CopiesOK'
    <2>1. ASSUME NEW u \in Processes, Forks(u)' PROVE IsCopyOf(syscall[u].child, u)'
      <3>1. CASE u = t
        BY <1>6, <1>7, <1>12, <3>1 DEF IsCopyOf
      <3>2. CASE u # t
        BY <1>7, <1>11, <2>1, <3>2 DEF IsCopyOf
      <3> QED BY <3>1, <3>2
    <2>2. ASSUME NEW u \in Processes, NEW w \in Processes, Forks(u)', Forks(w)', syscall'[u].child = syscall'[w].child
          PROVE  u = w
      BY <1>3, <1>7, <1>11, <1>12, <2>2 DEF CopiesOK
    <2>3. ASSUME NEW d \in Processes, taskState'[d] = "forked"
          PROVE  \E u \in Processes : Forks(u)' /\ syscall'[u].child = d
      BY <1>3, <1>7, <1>11, <1>12, <2>3 DEF CopiesOK
    <2> QED BY <2>1, <2>2, <2>3 DEF CopiesOK
  <1>14. \A u \in Processes : Pending(u)' = Pending(u) /\ (Pending(u) # {} => u # c /\ u # t)
    <2>1. Pending(t) = {} /\ Pending(c) = {}
      BY <1>2, <1>6, CallsAre DEF Pending
    <2>2. Pending(t)' = {}
      BY <1>4, <1>7 DEF Pending
    <2>3. \A u \in Processes \ {t} : Pending(u)' = Pending(u)
      BY <1>7 DEF Pending
    <2> QED BY <2>1, <2>2, <2>3
  <1>15. PendingOK'
    <2> SUFFICES ASSUME NEW u \in Processes, NEW d \in Pending(u)
                 PROVE  /\ filp'[u][d] \in FileTable /\ f_inode'[filp'[u][d]] = Nil
                        /\ \A w \in Processes, e \in Fds : filp'[w][e] = filp'[u][d] => w = u /\ e = d
      BY <1>14 DEF PendingOK
    <2>1. u # c /\ u # t /\ filp'[u][d] = filp[u][d] /\ f_inode' = f_inode
      BY <1>2, <1>7, <1>14 DEF fileVars
    <2>2. /\ filp[u][d] \in FileTable /\ f_inode[filp[u][d]] = Nil
          /\ \A w \in Processes, e \in Fds : filp[w][e] = filp[u][d] => w = u /\ e = d
      BY <1>3 DEF PendingOK
    <2> QED BY <1>7, <2>1, <2>2
  <1>16. OpenOK' /\ UnusedOK'
    <2>1. f_inode' = f_inode /\ f_count' = f_count /\ Running \subseteq Processes
      BY <1>2 DEF fileVars, Running
    <2>2. \A u \in Running : filp'[u] = filp[u] /\ Pending(u)' = Pending(u)
      BY <1>7, <1>8, <1>14, <2>1
    <2> QED BY <1>3, <1>8, <2>1, <2>2 DEF OpenOK, UnusedOK
  <1>17. CountsAreExact'
    <2>1. Running \subseteq Processes
      BY DEF Running
    <2>2. \A u \in Running : filp'[u] = filp[u]
      BY <1>7, <1>8, <2>1
    <2>3. \A h : Descriptors(h)' = Descriptors(h)
      BY <1>8, <2>2 DEF Descriptors
    <2>4. ASSUME NEW u \in Running
          PROVE  /\ PwdOf(u)' = PwdOf(u) /\ ExecutableOf(u)' = ExecutableOf(u) /\ (Puts(u)' <=> Puts(u))
                 /\ Puts(u) => syscall'[u].inode = syscall[u].inode
      <3>1. pwd'[u] = pwd[u] /\ executable'[u] = executable[u] /\ u \in Processes
        BY <1>7, <1>8, <2>1
      <3>2. CASE u = t
        BY <1>2, <1>4, <1>7, <3>1, <3>2 DEF PwdOf, ExecutableOf, Puts, Resumes
      <3>3. CASE u # t
        BY <1>7, <3>1, <3>3 DEF PwdOf, ExecutableOf, Puts, Resumes
      <3> QED BY <3>2, <3>3
    <2>5. \A i : References(i)' = References(i)
      <3> SUFFICES ASSUME NEW i PROVE References(i)' = References(i)
        OBVIOUS
      <3>1. {u \in Running' : PwdOf(u)' = i} = {u \in Running : PwdOf(u) = i}
        BY <1>8, <2>4
      <3>2. {u \in Running' : ExecutableOf(u)' = i} = {u \in Running : ExecutableOf(u) = i}
        BY <1>8, <2>4
      <3>3. {u \in Running' : Puts(u)' /\ syscall'[u].inode = i} = {u \in Running : Puts(u) /\ syscall[u].inode = i}
        BY <1>8, <2>4
      <3>4. {h \in FileTable : f_inode'[h] = i} = {h \in FileTable : f_inode[h] = i}
        BY <1>2 DEF fileVars
      <3> QED BY <3>1, <3>2, <3>3, <3>4 DEF References
    <2> QED BY <1>2, <1>3, <2>3, <2>5 DEF CountsAreExact, fileVars, inodeVars
  <1> QED BY <1>9, <1>10, <1>13, <1>15, <1>16, <1>17 DEF OpenInv

(* The end of a fork: the task whose copy it was is forking no more. *)
CopyIs(c, s) ==
  /\ taskState' = [taskState EXCEPT ![c] = s]
  /\ \A u \in Processes \ {c} : filp'[u] = filp[u] /\ pwd'[u] = pwd[u] /\ executable'[u] = executable[u]
  /\ \A e \in Fds : filp'[c][e] \in {filp[c][e], Nil}

LEMMA CopyGoes ==
  ASSUME OpenFilesAssumption, OpenInv, NEW t \in Processes, Forks(t), NEW c \in Processes, c = syscall[t].child,
         Done(t), NEW s \in {"none", "running"}, CopyIs(c, s), UNCHANGED f_inode
  PROVE  /\ c \in Processes /\ c # t /\ taskState[c] = "forked" /\ IsCopyOf(c, t) /\ syscall[c] = Out
         /\ taskState'[c] = s /\ syscall'[t] = Out /\ syscall'[c] = Out
         /\ \A u \in Processes \ {c} : taskState'[u] = taskState[u]
         /\ \A u \in Processes \ {t} : syscall'[u] = syscall[u]
         /\ \A u \in Processes : Pending(u)' = Pending(u)
         /\ Pending(t) = {} /\ Pending(c) = {}
         /\ CopiesOK' /\ PendingOK' /\ \A u \in Processes \ {c} : CallOK(syscall'[u]) /\ TaskOK(u)'
         /\ taskState[t] = "running"
  <1>1. OpenTypeOK /\ CopiesOK /\ PendingOK /\ \A u \in Processes : CallOK(syscall[u]) /\ TaskOK(u)
    BY DEF OpenInv
  <1>2. c \in Processes /\ IsCopyOf(c, t) /\ taskState[c] = "forked"
    BY <1>1 DEF CopiesOK, IsCopyOf, CallOK, NextOK, Forks
  <1>3. taskState[t] = "running" /\ syscall[c] = Out /\ c # t
    <2>1. syscall[t] # Out
      BY CallsAre DEF Forks
    <2>2. taskState[t] = "running"
      BY <1>1, <2>1 DEF TaskOK, TaskIs
    <2> QED BY <1>1, <1>2, <2>2 DEF TaskOK, TaskIs
  <1>4. /\ taskState'[c] = s /\ syscall'[t] = Out /\ syscall'[c] = Out
        /\ \A u \in Processes \ {c} : taskState'[u] = taskState[u]
        /\ \A u \in Processes \ {t} : syscall'[u] = syscall[u]
    BY <1>1, <1>2, <1>3 DEF OpenTypeOK, Done, Sleeps, CopyIs
  <1>5. /\ Pending(t) = {} /\ Pending(c) = {} /\ \A u \in Processes : Pending(u)' = Pending(u)
    <2>1. Pending(t) = {} /\ Pending(c) = {}
      BY <1>3, CallsAre DEF Pending, Forks
    <2>2. Pending(t)' = {}
      BY <1>4, CallsAre DEF Pending
    <2>3. \A u \in Processes \ {t} : Pending(u)' = Pending(u)
      BY <1>4 DEF Pending
    <2> QED BY <2>1, <2>2, <2>3
  <1>6. ~ Forks(t)' /\ \A u \in Processes \ {t} : (Forks(u)' <=> Forks(u))
    BY <1>4, CallsAre DEF Forks
  <1>7. \A u \in Processes \ {t} : Forks(u) => u # c /\ syscall[u].child # c /\ syscall[u].child \in Processes
                                             /\ IsCopyOf(syscall[u].child, u)
    <2> SUFFICES ASSUME NEW u \in Processes \ {t}, Forks(u)
                 PROVE  u # c /\ syscall[u].child # c /\ syscall[u].child \in Processes /\ IsCopyOf(syscall[u].child, u)
      OBVIOUS
    <2>1. u # c
      BY <1>3, CallsAre DEF Forks
    <2>2. syscall[u].child # c /\ IsCopyOf(syscall[u].child, u)
      BY <1>1 DEF CopiesOK
    <2>3. syscall[u].child \in Processes
      BY <1>1 DEF CallOK, NextOK, Forks
    <2> QED BY <2>1, <2>2, <2>3
  <1>8. CopiesOK'
    <2>1. ASSUME NEW u \in Processes, Forks(u)' PROVE IsCopyOf(syscall[u].child, u)'
      <3>1. u # t /\ Forks(u)
        BY <1>6, <2>1
      <3>2. IsCopyOf(syscall[u].child, u)'
        BY <1>4, <1>7, <3>1 DEF IsCopyOf, CopyIs
      <3> QED BY <1>4, <3>1, <3>2
    <2>2. ASSUME NEW u \in Processes, NEW w \in Processes, Forks(u)', Forks(w)', syscall'[u].child = syscall'[w].child
          PROVE  u = w
      <3>1. u # t /\ w # t /\ Forks(u) /\ Forks(w)
        BY <1>6, <2>2
      <3> QED BY <1>1, <1>4, <2>2, <3>1 DEF CopiesOK
    <2>3. ASSUME NEW d \in Processes, taskState'[d] = "forked"
          PROVE  \E u \in Processes : Forks(u)' /\ syscall'[u].child = d
      <3>1. d # c /\ taskState[d] = "forked"
        BY <1>4, <2>3
      <3>2. PICK u \in Processes : Forks(u) /\ syscall[u].child = d
        BY <1>1, <3>1 DEF CopiesOK
      <3> QED BY <1>4, <1>6, <3>1, <3>2
    <2> QED BY <2>1, <2>2, <2>3 DEF CopiesOK
  <1>9. PendingOK'
    <2> SUFFICES ASSUME NEW u \in Processes, NEW d \in Pending(u)
                 PROVE  /\ filp'[u][d] \in FileTable /\ f_inode'[filp'[u][d]] = Nil
                        /\ \A w \in Processes, e \in Fds : filp'[w][e] = filp'[u][d] => w = u /\ e = d
      BY <1>5 DEF PendingOK
    <2>1. u # c /\ filp'[u][d] = filp[u][d]
      BY <1>5 DEF CopyIs
    <2>2. /\ filp[u][d] \in FileTable /\ f_inode[filp[u][d]] = Nil
          /\ \A w \in Processes, e \in Fds : filp[w][e] = filp[u][d] => w = u /\ e = d
      BY <1>1 DEF PendingOK
    <2>3. Nil \notin FileTable
      BY FdsAre
    <2>4. \A w \in Processes, e \in Fds : filp'[w][e] \in {filp[w][e], Nil}
      BY DEF CopyIs
    <2> QED BY <2>1, <2>2, <2>3, <2>4
  <1>10. ASSUME NEW u \in Processes \ {c} PROVE CallOK(syscall'[u]) /\ TaskOK(u)'
    <2>1. CASE u = t
      <3>1. CallOK(Out) /\ ResumedBy(Out).pc = "out"
        BY CallsAre
      <3>2. TaskIs(taskState[t], syscall[t], filp[t], pwd[t], executable[t])
        BY <1>1 DEF TaskOK
      <3>3. TaskIs("running", Out, filp[t], pwd[t], executable[t])
        BY <1>3, <3>1, <3>2 DEF TaskIs, Leaving, ResumedBy, Forks
      <3> QED BY <1>3, <1>4, <2>1, <3>1, <3>3 DEF TaskOK, CopyIs
    <2>2. CASE u # t
      BY <1>1, <1>4, <2>2 DEF TaskOK, CopyIs
    <2> QED BY <2>1, <2>2
  <1> QED BY <1>2, <1>3, <1>4, <1>5, <1>8, <1>9, <1>10

(* The counts when the tasks that run, and their references, are the same. *)
LEMMA CountsStay ==
  ASSUME OpenInv, Running' = Running, \A u \in Running : filp'[u] = filp[u],
         UNCHANGED <<f_count, f_inode, i_count>>,
         \A u \in Running :
           /\ PwdOf(u)' = PwdOf(u) /\ ExecutableOf(u)' = ExecutableOf(u) /\ (Puts(u)' <=> Puts(u))
           /\ Puts(u) => syscall'[u].inode = syscall[u].inode
  PROVE  CountsAreExact'
  <1>1. \A h : Descriptors(h)' = Descriptors(h)
    BY DEF Descriptors
  <1>2. ASSUME NEW i PROVE References(i)' = References(i)
    <2>1. {u \in Running' : PwdOf(u)' = i} = {u \in Running : PwdOf(u) = i}
      OBVIOUS
    <2>2. {u \in Running' : ExecutableOf(u)' = i} = {u \in Running : ExecutableOf(u) = i}
      OBVIOUS
    <2>3. {u \in Running' : Puts(u)' /\ syscall'[u].inode = i} = {u \in Running : Puts(u) /\ syscall[u].inode = i}
      OBVIOUS
    <2>4. {h \in FileTable : f_inode'[h] = i} = {h \in FileTable : f_inode[h] = i}
      OBVIOUS
    <2> QED BY <2>1, <2>2, <2>3, <2>4 DEF References
  <1> QED BY <1>1, <1>2 DEF OpenInv, CountsAreExact

LEMMA NoFilesIs ==
  NoFiles \in [Fds -> FileTable \cup {Nil}] /\ \A e \in Fds : NoFiles[e] = Nil
  BY DEF NoFiles

LEMMA RemovedIs ==
  ASSUME OpenTypeOK, NEW c \in Processes, Removed(c)
  PROVE  /\ filp' \in [Processes -> [Fds -> FileTable \cup {Nil}]] /\ close_on_exec' \in [Processes -> SUBSET Fds]
         /\ pwd' \in [Processes -> InodeNrs \cup {Nil}] /\ executable' \in [Processes -> InodeNrs \cup {Nil}]
         /\ taskState' \in [Processes -> {"none", "forked", "running"}]
         /\ filp'[c] = NoFiles /\ pwd'[c] = Nil /\ executable'[c] = Nil /\ taskState'[c] = "none"
         /\ \A u \in Processes \ {c} : filp'[u] = filp[u] /\ pwd'[u] = pwd[u] /\ executable'[u] = executable[u]
                                       /\ taskState'[u] = taskState[u]
  <1>1. filp' \in [Processes -> [Fds -> FileTable \cup {Nil}]]
    BY NoFilesIs DEF OpenTypeOK, Removed
  <1>2. close_on_exec' \in [Processes -> SUBSET Fds] /\ taskState' \in [Processes -> {"none", "forked", "running"}]
    BY DEF OpenTypeOK, Removed
  <1>3. pwd' \in [Processes -> InodeNrs \cup {Nil}] /\ executable' \in [Processes -> InodeNrs \cup {Nil}]
    BY DEF OpenTypeOK, Removed
  <1> QED BY <1>1, <1>2, <1>3 DEF OpenTypeOK, Removed

LEMMA NotForked_Keeps ==
  ASSUME OpenFilesAssumption, OpenInv, NEW t \in Processes, NotForked(t)
  PROVE  OpenInv'
  <1>0. PICK c : c = syscall[t].child
    OBVIOUS
  <1>1. Forks(t) /\ Removed(c) /\ Done(t) /\ UNCHANGED <<fileVars, inodeVars, posRaced>>
    BY <1>0 DEF NotForked, At, Forks
  <1>2. OpenTypeOK /\ OpenOK /\ UnusedOK /\ CopiesOK /\ c \in Processes
    BY <1>0, <1>1 DEF OpenInv, CallOK, NextOK, Forks
  <1>3. /\ filp' \in [Processes -> [Fds -> FileTable \cup {Nil}]] /\ close_on_exec' \in [Processes -> SUBSET Fds]
        /\ pwd' \in [Processes -> InodeNrs \cup {Nil}] /\ executable' \in [Processes -> InodeNrs \cup {Nil}]
        /\ taskState' \in [Processes -> {"none", "forked", "running"}]
        /\ filp'[c] = NoFiles
        /\ \A u \in Processes \ {c} : filp'[u] = filp[u] /\ pwd'[u] = pwd[u] /\ executable'[u] = executable[u]
    BY <1>1, <1>2, RemovedIs
  <1>4. CopyIs(c, "none") /\ f_inode' = f_inode
    BY <1>1, <1>3, NoFilesIs DEF Removed, CopyIs, fileVars
  <1>5. UNCHANGED <<f_inode, posRaced>> /\ f_count' = f_count /\ i_count' = i_count
    BY <1>1 DEF fileVars, inodeVars
  <1>6. c = syscall[t].child /\ "none" \in {"none", "running"}
    BY <1>0
  <1>7. /\ c # t /\ taskState[c] = "forked" /\ syscall[c] = Out /\ taskState[t] = "running"
        /\ taskState'[c] = "none" /\ syscall'[t] = Out /\ syscall'[c] = Out
        /\ \A u \in Processes \ {c} : taskState'[u] = taskState[u]
        /\ \A u \in Processes \ {t} : syscall'[u] = syscall[u]
        /\ \A u \in Processes : Pending(u)' = Pending(u)
        /\ CopiesOK' /\ PendingOK' /\ \A u \in Processes \ {c} : CallOK(syscall'[u]) /\ TaskOK(u)'
    BY <1>1, <1>2, <1>4, <1>6, CopyGoes
  <1>8. Running' = Running /\ c \notin Running /\ Running \subseteq Processes
    BY <1>7 DEF Running
  <1>9. OpenTypeOK'
    <2>1. syscall' = [u \in Processes |-> syscall'[u]]
      BY <1>1, <1>2 DEF OpenTypeOK, Done, Sleeps
    <2> QED BY <1>1, <1>2, <1>3, <2>1 DEF OpenTypeOK, fileVars, inodeVars
  <1>10. CallOK(syscall'[c]) /\ TaskOK(c)'
    BY <1>3, <1>7, CallsAre DEF TaskOK, TaskIs, Leaving
  <1>11. \A u \in Running : filp'[u] = filp[u] /\ pwd'[u] = pwd[u] /\ executable'[u] = executable[u]
    BY <1>3, <1>8
  <1>12. OpenOK' /\ UnusedOK'
    BY <1>2, <1>5, <1>7, <1>8, <1>11 DEF OpenOK, UnusedOK
  <1>13. CountsAreExact'
    <2>1. ASSUME NEW u \in Running
          PROVE  /\ PwdOf(u)' = PwdOf(u) /\ ExecutableOf(u)' = ExecutableOf(u) /\ (Puts(u)' <=> Puts(u))
                 /\ Puts(u) => syscall'[u].inode = syscall[u].inode
      <3>1. CASE u = t
        BY <1>1, <1>7, <1>11, <3>1, CallsAre DEF PwdOf, ExecutableOf, Puts, Resumes, Forks
      <3>2. CASE u # t
        BY <1>7, <1>8, <1>11, <3>2 DEF PwdOf, ExecutableOf, Puts, Resumes
      <3> QED BY <3>1, <3>2
    <2>2. UNCHANGED <<f_count, f_inode, i_count>>
      BY <1>5
    <2> QED BY <1>8, <1>11, <2>1, <2>2, CountsStay
  <1>14. \A u \in Processes : CallOK(syscall'[u]) /\ TaskOK(u)'
    BY <1>7, <1>10
  <1> QED BY <1>7, <1>9, <1>12, <1>13, <1>14 DEF OpenInv

LEMMA Forked_Keeps ==
  ASSUME OpenFilesAssumption, OpenInv, NEW t \in Processes, Forked(t)
  PROVE  OpenInv'
  <1>0. PICK c : c = syscall[t].child
    OBVIOUS
  <1> DEFINE n(f) == Cardinality({fd \in Fds : filp[c][fd] = f})
             m(i) == (IF pwd[c] = i THEN 1 ELSE 0) + (IF executable[c] = i THEN 1 ELSE 0)
  <1>1. /\ Forks(t) /\ taskState[t] = "running" /\ Done(t) /\ taskState' = [taskState EXCEPT ![c] = "running"]
        /\ f_count' = [f \in FileTable |-> f_count[f] + n(f)]
        /\ i_count' = [i \in InodeNrs |-> i_count[i] + (IF pwd[c] = i THEN 1 ELSE 0) + (IF executable[c] = i THEN 1 ELSE 0)]
        /\ UNCHANGED <<filp, close_on_exec, pwd, executable, f_inode, f_pos, f_append, i_size, written, posRaced>>
    BY <1>0 DEF Forked, At, Forks
  <1>2. OpenTypeOK /\ OpenOK /\ UnusedOK /\ CopiesOK /\ c \in Processes /\ CountsAreExact
        /\ \A u \in Processes : CallOK(syscall[u]) /\ TaskOK(u)
    BY <1>0, <1>1 DEF OpenInv, CallOK, NextOK, Forks
  <1>3. CopyIs(c, "running") /\ f_inode' = f_inode /\ "running" \in {"none", "running"}
    BY <1>1 DEF CopyIs
  <1>4. /\ c # t /\ taskState[c] = "forked" /\ syscall[c] = Out /\ IsCopyOf(c, t)
        /\ taskState'[c] = "running" /\ syscall'[t] = Out /\ syscall'[c] = Out
        /\ \A u \in Processes \ {c} : taskState'[u] = taskState[u]
        /\ \A u \in Processes \ {t} : syscall'[u] = syscall[u]
        /\ \A u \in Processes : Pending(u)' = Pending(u)
        /\ Pending(t) = {} /\ Pending(c) = {}
        /\ CopiesOK' /\ PendingOK' /\ \A u \in Processes \ {c} : CallOK(syscall'[u]) /\ TaskOK(u)'
    BY <1>0, <1>1, <1>2, <1>3, CopyGoes
  <1>5. Running' = Running \cup {c} /\ c \notin Running /\ Running \subseteq Processes /\ t \in Running
    BY <1>1, <1>2, <1>4 DEF Running
  <1>6. \A f \in FileTable : f_count[f] \in Nat /\ n(f) \in Nat
    <2> SUFFICES ASSUME NEW f \in FileTable PROVE f_count[f] \in Nat /\ n(f) \in Nat
      OBVIOUS
    <2>1. IsFiniteSet({fd \in Fds : filp[c][fd] = f})
      BY FdsAre, FS_Subset
    <2> QED BY <1>2, <2>1, CountType, FS_CardinalityType DEF CountsAreExact
  <1>7. /\ f_count' \in [FileTable -> Int] /\ \A f \in FileTable : f_count'[f] = f_count[f] + n(f)
    <2> HIDE DEF n
    <2> QED BY <1>1, <1>6
  <1>8. /\ i_count' \in [InodeNrs -> Int] /\ i_count \in [InodeNrs -> Int]
        /\ \A i \in InodeNrs : i_count'[i] = i_count[i] + One(pwd[c] = i) + One(executable[c] = i)
    BY <1>1, <1>2 DEF OpenTypeOK, One
  <1>9. OpenTypeOK'
    <2>1. syscall' = [u \in Processes |-> syscall'[u]]
      BY <1>1, <1>2 DEF OpenTypeOK, Done, Sleeps
    <2>2. taskState' \in [Processes -> {"none", "forked", "running"}]
      BY <1>1, <1>2 DEF OpenTypeOK
    <2> QED BY <1>1, <1>2, <1>7, <1>8, <2>1, <2>2 DEF OpenTypeOK
  <1>10. CallOK(syscall'[c]) /\ TaskOK(c)'
    <2>1. pwd[c] \in InodeNrs
      <3>1. pwd[t] \in InodeNrs
        BY <1>1, <1>2 DEF TaskOK, TaskIs, Forks, ResumedBy, Leaving
      <3> QED BY <1>4, <3>1 DEF IsCopyOf
    <2>2. TaskIs("running", Out, filp[c], pwd[c], executable[c])
      BY <2>1, CallsAre DEF TaskIs, Leaving
    <2> QED BY <1>1, <1>4, <2>2, CallsAre DEF TaskOK
  <1>11. OpenOK'
    <2> SUFFICES ASSUME NEW u \in Running', NEW d \in Fds, d \notin Pending(u), filp[u][d] # Nil
                 PROVE  f_inode[filp[u][d]] \in InodeNrs
      BY <1>1, <1>2, <1>4, <1>5 DEF OpenOK
    <2>1. CASE u = c
      <3>1. filp[c] = filp[t]
        BY <1>4 DEF IsCopyOf
      <3> QED BY <1>2, <1>4, <1>5, <2>1, <3>1 DEF OpenOK
    <2>2. CASE u # c
      BY <1>2, <1>5, <2>2 DEF OpenOK
    <2> QED BY <2>1, <2>2
  <1>12. UnusedOK'
    <2> SUFFICES ASSUME NEW f \in FileTable, f_count'[f] = 0 PROVE f_inode[f] = Nil
      BY <1>1 DEF UnusedOK
    <2>1. f_count[f] = 0
      <3> HIDE DEF n
      <3> QED BY <1>6, <1>7
    <2> QED BY <1>2, <2>1 DEF UnusedOK
  <1>13. ASSUME NEW f \in FileTable PROVE f_count'[f] = Cardinality(Descriptors(f))'
    <2> DEFINE D == Descriptors(f)
               G == {fd \in Fds : filp[c][fd] = f}
               E == {c} \X G
    <2>1. Descriptors(f)' = D \cup E
      BY <1>1, <1>5 DEF Descriptors
    <2>2. D \cap E = {}
      BY <1>5 DEF Descriptors
    <2>3. IsFiniteSet(D) /\ Cardinality(D) \in Nat /\ IsFiniteSet(G) /\ Cardinality(G) = n(f)
      BY CountType, FdsAre, FS_Subset
    <2>4. IsFiniteSet({c}) /\ Cardinality({c}) = 1
      BY FS_Singleton
    <2>5. IsFiniteSet(E) /\ Cardinality(E) = n(f)
      <3>1. IsFiniteSet({c} \X G) /\ Cardinality({c} \X G) = Cardinality({c}) * Cardinality(G)
        <4> HIDE DEF G
        <4> QED BY <2>3, <2>4, FS_Product
      <3>2. n(f) \in Nat
        BY <1>6
      <3> HIDE DEF G, n
      <3> QED BY <2>3, <2>4, <3>1, <3>2
    <2>6. Cardinality(D \cup E) = Cardinality(D) + Cardinality(E) - Cardinality(D \cap E)
      <3> HIDE DEF D, E
      <3> QED BY <2>3, <2>5, FS_Union
    <2>7. Cardinality(D \cap E) = 0
      BY <2>2, FS_EmptySet
    <2>8. Cardinality(Descriptors(f))' = Cardinality(D \cup E)
      BY <2>1
    <2>9. Cardinality(D) = f_count[f] /\ f_count'[f] = f_count[f] + n(f) /\ n(f) \in Nat
      BY <1>2, <1>6, <1>7 DEF CountsAreExact
    <2> HIDE DEF D, E, n
    <2> QED BY <2>3, <2>5, <2>6, <2>7, <2>8, <2>9
  <1>14. ASSUME NEW i \in InodeNrs PROVE i_count'[i] = References(i)'
    <2>1. \A u \in Processes \ {c} : u \in Running' <=> u \in Running
      BY <1>5
    <2>2. ASSUME NEW u \in Running \ {c}
          PROVE  /\ PwdOf(u)' = PwdOf(u) /\ ExecutableOf(u)' = ExecutableOf(u) /\ (Puts(u)' <=> Puts(u))
                 /\ Puts(u) => syscall'[u].inode = syscall[u].inode
      <3>1. CASE u = t
        BY <1>1, <1>4, <3>1, CallsAre DEF PwdOf, ExecutableOf, Puts, Resumes, Forks
      <3>2. CASE u # t
        BY <1>1, <1>4, <1>5, <3>2 DEF PwdOf, ExecutableOf, Puts, Resumes
      <3> QED BY <3>1, <3>2
    <2>3. TaskRefs(i) \in Nat /\ RefsOfTask(c, i) \in Nat
          /\ TaskRefs(i)' = TaskRefs(i) - RefsOfTask(c, i) + RefsOfTask(c, i)'
      BY <1>2, <2>1, <2>2, TaskRefsChange
    <2>4. RefsOfTask(c, i) = 0
      BY <1>5 DEF RefsOfTask
    <2>5. RefsOfTask(c, i)' = One(pwd[c] = i) + One(executable[c] = i)
      <3>1. RefsOfTask(c, i)' = RefsOf(Out, pwd[c], executable[c], i)
        BY <1>1, <1>4, <1>5 DEF RefsOfTask, RefsOf
      <3> QED BY <3>1, CallsAre, RefsAre
    <2>6. FileRefs(i)' = FileRefs(i)
      BY <1>1 DEF FileRefs
    <2>7. References(i) = FileRefs(i) + TaskRefs(i) /\ FileRefs(i) \in Nat /\ TaskRefs(i) \in Nat
      BY ReferencesAre
    <2>8. References(i)' = FileRefs(i)' + TaskRefs(i)'
      BY ReferencesNext
    <2>9. i_count[i] = References(i) /\ One(pwd[c] = i) \in Nat /\ One(executable[c] = i) \in Nat
      BY <1>2, RefsAre DEF CountsAreExact
    <2> QED BY <1>8, <2>3, <2>4, <2>5, <2>6, <2>7, <2>8, <2>9
  <1>15. CountsAreExact'
    BY <1>13, <1>14 DEF CountsAreExact
  <1>16. \A u \in Processes : CallOK(syscall'[u]) /\ TaskOK(u)'
    BY <1>4, <1>10
  <1> QED BY <1>4, <1>9, <1>11, <1>12, <1>15, <1>16 DEF OpenInv

LEMMA Zombie_Keeps ==
  ASSUME OpenFilesAssumption, OpenInv, NEW t \in Processes, Zombie(t)
  PROVE  OpenInv'
  <1>1. taskState[t] = "running" /\ syscall[t].pc = "zombie" /\ Removed(t) /\ Done(t)
        /\ UNCHANGED <<fileVars, inodeVars, posRaced>>
    BY DEF Zombie, At
  <1>2. OpenTypeOK /\ OpenOK /\ UnusedOK /\ CopiesOK /\ PendingOK /\ CountsAreExact
        /\ \A u \in Processes : CallOK(syscall[u]) /\ TaskOK(u)
    BY DEF OpenInv
  <1>3. filp[t] = NoFiles /\ pwd[t] = Nil /\ executable[t] = Nil
    BY <1>1, <1>2 DEF TaskOK, TaskIs, ResumedBy, Leaving
  <1>4. /\ filp' \in [Processes -> [Fds -> FileTable \cup {Nil}]] /\ close_on_exec' \in [Processes -> SUBSET Fds]
        /\ pwd' \in [Processes -> InodeNrs \cup {Nil}] /\ executable' \in [Processes -> InodeNrs \cup {Nil}]
        /\ taskState' \in [Processes -> {"none", "forked", "running"}]
        /\ taskState'[t] = "none"
        /\ \A u \in Processes \ {t} : taskState'[u] = taskState[u]
    BY <1>1, <1>2, RemovedIs
  <1>5. \A u \in Processes : filp'[u] = filp[u] /\ pwd'[u] = pwd[u] /\ executable'[u] = executable[u]
    BY <1>1, <1>2, <1>3, RemovedIs
  <1>6. syscall'[t] = Out /\ \A u \in Processes \ {t} : syscall'[u] = syscall[u]
    BY <1>1, <1>2 DEF OpenTypeOK, Done, Sleeps
  <1>7. Running' = Running \ {t} /\ t \in Running /\ Running \subseteq Processes
    BY <1>1, <1>4 DEF Running
  <1>8. \A u \in Processes : (Forks(u)' <=> Forks(u)) /\ (Forks(u) => u # t /\ syscall[u].child # t
                             /\ syscall[u].child \in Processes /\ IsCopyOf(syscall[u].child, u))
    <2>1. ~ Forks(t) /\ ~ Forks(t)'
      BY <1>1, <1>6, CallsAre DEF Forks
    <2>2. \A u \in Processes \ {t} : Forks(u)' <=> Forks(u)
      BY <1>6 DEF Forks
    <2>3. \A u \in Processes : Forks(u) => syscall[u].child # t
                             /\ syscall[u].child \in Processes /\ IsCopyOf(syscall[u].child, u)
      BY <1>1, <1>2 DEF Forks, CopiesOK, IsCopyOf, CallOK, NextOK
    <2> QED BY <2>1, <2>2, <2>3
  <1>9. \A u \in Processes : Pending(u)' = Pending(u)
    <2>1. Pending(t) = {} /\ Pending(t)' = {}
      BY <1>1, <1>6, CallsAre DEF Pending
    <2> QED BY <1>6, <2>1 DEF Pending
  <1>10. OpenTypeOK'
    <2>1. syscall' = [u \in Processes |-> syscall'[u]]
      BY <1>1, <1>2 DEF OpenTypeOK, Done, Sleeps
    <2> QED BY <1>1, <1>2, <1>4, <2>1 DEF OpenTypeOK, fileVars, inodeVars
  <1>11. ASSUME NEW u \in Processes PROVE CallOK(syscall'[u]) /\ TaskOK(u)'
    <2>1. CASE u = t
      BY <1>3, <1>4, <1>5, <1>6, <2>1, CallsAre DEF TaskOK, TaskIs, Leaving
    <2>2. CASE u # t
      BY <1>2, <1>4, <1>5, <1>6, <2>2 DEF TaskOK
    <2> QED BY <2>1, <2>2
  <1>12. CopiesOK'
    <2>1. ASSUME NEW u \in Processes, Forks(u)' PROVE IsCopyOf(syscall[u].child, u)' /\ syscall'[u] = syscall[u]
      BY <1>4, <1>5, <1>6, <1>8, <2>1 DEF IsCopyOf
    <2>2. ASSUME NEW u \in Processes, NEW w \in Processes, Forks(u)', Forks(w)', syscall'[u].child = syscall'[w].child
          PROVE  u = w
      BY <1>2, <1>8, <2>1, <2>2 DEF CopiesOK
    <2>3. ASSUME NEW d \in Processes, taskState'[d] = "forked"
          PROVE  \E u \in Processes : Forks(u)' /\ syscall'[u].child = d
      <3>1. taskState[d] = "forked"
        BY <1>4, <2>3
      <3>2. PICK u \in Processes : Forks(u) /\ syscall[u].child = d
        BY <1>2, <3>1 DEF CopiesOK
      <3> QED BY <1>8, <2>1, <3>2
    <2> QED BY <2>1, <2>2, <2>3 DEF CopiesOK
  <1>13. PendingOK' /\ OpenOK' /\ UnusedOK'
    <2>1. f_inode' = f_inode /\ f_count' = f_count
      BY <1>1 DEF fileVars
    <2>2. PendingOK'
      BY <1>2, <1>5, <1>9, <2>1 DEF PendingOK
    <2> QED BY <1>2, <1>5, <1>7, <1>9, <2>1, <2>2 DEF OpenOK, UnusedOK
  <1>14. ASSUME NEW f \in FileTable PROVE f_count'[f] = Cardinality(Descriptors(f))'
    <2>1. Descriptors(f)' = Descriptors(f)
      <3>1. \A e \in Fds : filp[t][e] # f
        BY <1>3, NoFilesIs, FdsAre
      <3> QED BY <1>5, <1>7, <3>1 DEF Descriptors
    <2> QED BY <1>1, <1>2, <2>1 DEF CountsAreExact, fileVars
  <1>15. ASSUME NEW i \in InodeNrs PROVE i_count'[i] = References(i)'
    <2>1. \A u \in Processes \ {t} : u \in Running' <=> u \in Running
      BY <1>7
    <2>2. \A u \in Running \ {t} :
            /\ PwdOf(u)' = PwdOf(u) /\ ExecutableOf(u)' = ExecutableOf(u) /\ (Puts(u)' <=> Puts(u))
            /\ Puts(u) => syscall'[u].inode = syscall[u].inode
      BY <1>5, <1>6, <1>7 DEF PwdOf, ExecutableOf, Puts, Resumes
    <2>3. TaskRefs(i) \in Nat /\ RefsOfTask(t, i) \in Nat
          /\ TaskRefs(i)' = TaskRefs(i) - RefsOfTask(t, i) + RefsOfTask(t, i)'
      BY <2>1, <2>2, TaskRefsChange
    <2>4. RefsOfTask(t, i) = 0 /\ RefsOfTask(t, i)' = 0
      <3>1. RefsOfTask(t, i)' = 0
        BY <1>7 DEF RefsOfTask
      <3>2. RefsOf(syscall[t], Nil, Nil, i) = One(Nil = i) + One(Nil = i)
        BY <1>1, RefsAre
      <3>3. One(Nil = i) = 0
        BY FdsAre DEF One
      <3>4. RefsOfTask(t, i) = RefsOf(syscall[t], Nil, Nil, i)
        BY <1>3, <1>7 DEF RefsOfTask
      <3> QED BY <3>1, <3>2, <3>3, <3>4
    <2>5. FileRefs(i)' = FileRefs(i)
      BY <1>1 DEF FileRefs, fileVars
    <2>6. References(i) = FileRefs(i) + TaskRefs(i) /\ FileRefs(i) \in Nat /\ TaskRefs(i) \in Nat
      BY ReferencesAre
    <2>7. References(i)' = FileRefs(i)' + TaskRefs(i)'
      BY ReferencesNext
    <2>8. i_count'[i] = References(i)
      BY <1>1, <1>2 DEF CountsAreExact, inodeVars
    <2> QED BY <2>3, <2>4, <2>5, <2>6, <2>7, <2>8
  <1>16. CountsAreExact'
    BY <1>14, <1>15 DEF CountsAreExact
  <1> QED BY <1>10, <1>11, <1>12, <1>13, <1>16 DEF OpenInv

-----------------------------------------------------------------------------
(* The invariant holds at first and is kept by every step. *)
LEMMA OpenInit_Holds ==
  ASSUME OpenFilesAssumption, OpenInit
  PROVE  OpenInv
  <1>1. First \in Processes /\ Pwd \in InodeNrs /\ Nil \notin FileTable /\ Nil \notin InodeNrs
    BY FdsAre DEF OpenFilesAssumption
  <1>2. OpenTypeOK
    <2>1. filp \in [Processes -> [Fds -> FileTable \cup {Nil}]]
      BY NoFilesIs DEF OpenInit
    <2>2. pwd \in [Processes -> InodeNrs \cup {Nil}] /\ executable \in [Processes -> InodeNrs \cup {Nil}]
      BY <1>1 DEF OpenInit
    <2>3. close_on_exec \in [Processes -> SUBSET Fds] /\ taskState \in [Processes -> {"none", "forked", "running"}]
      BY DEF OpenInit
    <2>4. /\ f_count \in [FileTable -> Int] /\ f_inode \in [FileTable -> InodeNrs \cup {Nil}]
          /\ f_pos \in [FileTable -> Int]
          /\ i_count \in [InodeNrs -> Int] /\ i_size \in [InodeNrs -> Int] /\ written \in [InodeNrs -> Int]
      BY DEF OpenInit
    <2>5. f_append \in [FileTable -> BOOLEAN] /\ posRaced \in BOOLEAN
      BY Zenon DEF OpenInit
    <2>6. syscall = [t \in Processes |-> syscall[t]]
      BY DEF OpenInit
    <2> QED BY <2>1, <2>2, <2>3, <2>4, <2>5, <2>6 DEF OpenTypeOK
  <1>3. /\ \A t \in Processes : syscall[t] = Out /\ executable[t] = Nil /\ filp[t] = NoFiles
                                /\ pwd[t] = (IF t = First THEN Pwd ELSE Nil)
                                /\ taskState[t] = (IF t = First THEN "running" ELSE "none")
        /\ \A f \in FileTable : f_count[f] = 0 /\ f_inode[f] = Nil
        /\ \A i \in InodeNrs : i_count[i] = (IF i = Pwd THEN 1 ELSE 0)
    BY DEF OpenInit
  <1>4. \A t \in Processes : CallOK(syscall[t]) /\ TaskOK(t)
    BY <1>1, <1>3, CallsAre DEF TaskOK, TaskIs, Leaving
  <1>5. \A t \in Processes : ~ Forks(t) /\ Pending(t) = {} /\ taskState[t] # "forked"
    BY <1>3, CallsAre DEF Forks, Pending
  <1>6. Running = {First}
    BY <1>1, <1>3 DEF Running
  <1>7. CopiesOK /\ PendingOK /\ OpenOK /\ UnusedOK
    BY <1>1, <1>3, <1>5, <1>6, NoFilesIs DEF CopiesOK, PendingOK, OpenOK, UnusedOK
  <1>8. ASSUME NEW f \in FileTable PROVE f_count[f] = Cardinality(Descriptors(f))
    <2>1. Descriptors(f) = {}
      BY <1>1, <1>3, <1>6, NoFilesIs DEF Descriptors
    <2> QED BY <1>3, <2>1, FS_EmptySet
  <1>9. ASSUME NEW i \in InodeNrs PROVE i_count[i] = References(i)
    <2>1. {f \in FileTable : f_inode[f] = i} = {} /\ {t \in Running : ExecutableOf(t) = i} = {}
          /\ {t \in Running : Puts(t) /\ syscall[t].inode = i} = {}
      BY <1>1, <1>3, <1>6, CallsAre DEF ExecutableOf, Puts, Resumes
    <2>2. {t \in Running : PwdOf(t) = i} = (IF i = Pwd THEN {First} ELSE {})
      BY <1>1, <1>3, <1>6, CallsAre DEF PwdOf, Puts, Resumes
    <2>3. Cardinality({}) = 0 /\ Cardinality({First}) = 1
      BY FS_EmptySet, FS_Singleton
    <2>4. Cardinality({t \in Running : PwdOf(t) = i}) = (IF i = Pwd THEN 1 ELSE 0)
      BY <2>2, <2>3
    <2>5. References(i) = 0 + (IF i = Pwd THEN 1 ELSE 0) + 0 + 0
      BY <2>1, <2>3, <2>4 DEF References
    <2> QED BY <1>3, <2>5
  <1>10. CountsAreExact
    BY <1>8, <1>9 DEF CountsAreExact
  <1> QED BY <1>2, <1>4, <1>7, <1>10 DEF OpenInv

LEMMA OpenStutters ==
  ASSUME OpenInv, UNCHANGED openVars
  PROVE  OpenInv'
  <1>1. UNCHANGED <<filp, close_on_exec, pwd, executable, taskState, f_count, f_inode, f_pos, f_append,
                    i_count, i_size, written, syscall, posRaced>>
    BY DEF openVars, taskVars, fileVars, inodeVars
  <1>2. OpenTypeOK'
    BY <1>1 DEF OpenInv, OpenTypeOK
  <1>3. \A t \in Processes : CallOK(syscall[t])' /\ TaskOK(t)'
    BY <1>1 DEF OpenInv, TaskOK
  <1>4. CopiesOK'
    BY <1>1 DEF OpenInv, CopiesOK, Forks, IsCopyOf
  <1>5. PendingOK' /\ OpenOK' /\ UnusedOK'
    BY <1>1 DEF OpenInv, PendingOK, OpenOK, UnusedOK, Pending, Running
  <1>6. CountsAreExact'
    <2>1. Running' = Running
      BY <1>1, RunningSame
    <2>2. ASSUME NEW u \in Running
          PROVE  /\ PwdOf(u)' = PwdOf(u) /\ ExecutableOf(u)' = ExecutableOf(u) /\ (Puts(u)' <=> Puts(u))
                 /\ Puts(u) => syscall'[u].inode = syscall[u].inode
      BY <1>1 DEF PwdOf, ExecutableOf, Puts, Resumes
    <2>3. UNCHANGED <<f_count, f_inode, i_count>> /\ \A u \in Running : filp'[u] = filp[u]
      BY <1>1
    <2> QED BY <2>1, <2>2, <2>3, CountsStay
  <1> QED BY <1>2, <1>3, <1>4, <1>5, <1>6 DEF OpenInv

LEMMA OpenStep ==
  ASSUME OpenFilesAssumption, OpenInv, [OpenNext]_openVars
  PROVE  OpenInv'
  <1>1. CASE UNCHANGED openVars
    BY <1>1, OpenStutters
  <1>2. CASE OpenNext
    <2>1. PICK t \in Processes :
      \/ Iputs(t) \/ Open(t) \/ NotOpened(t) \/ Opened(t) \/ CloseFd(t) \/ Dup(t) \/ Dup2(t) \/ Dup2Closed(t)
      \/ SetCloexec(t) \/ Pipe(t) \/ NotPiped(t) \/ Piped(t) \/ Chdir(t) \/ Chdired(t) \/ Exec(t) \/ Execed(t)
      \/ Fork(t) \/ NotForked(t) \/ Forked(t) \/ ExitFiles(t) \/ ExitPwd(t) \/ ExitExecutable(t) \/ Zombie(t)
      \/ Seek(t) \/ StartRead(t) \/ ReadBlock(t) \/ StartWrite(t) \/ WriteBlock(t) \/ NotWritten(t) \/ WriteDone(t)
      BY <1>2 DEF OpenNext
    <2>2. CASE Iputs(t) \/ Open(t) \/ NotOpened(t) \/ Opened(t) \/ CloseFd(t) \/ Dup(t) \/ Dup2(t) \/ Dup2Closed(t)
      BY <2>2, Iputs_Keeps, Open_Keeps, NotOpened_Keeps, Opened_Keeps, CloseFd_Keeps, Dup_Keeps, Dup2_Keeps,
         Dup2Closed_Keeps
    <2>3. CASE SetCloexec(t) \/ Pipe(t) \/ NotPiped(t) \/ Piped(t) \/ Chdir(t) \/ Chdired(t) \/ Exec(t) \/ Execed(t)
      BY <2>3, SetCloexec_Keeps, Pipe_Keeps, NotPiped_Keeps, Piped_Keeps, Chdir_Keeps, Chdired_Keeps, Exec_Keeps,
         Execed_Keeps
    <2>4. CASE Fork(t) \/ NotForked(t) \/ Forked(t) \/ ExitFiles(t) \/ ExitPwd(t) \/ ExitExecutable(t) \/ Zombie(t)
      BY <2>4, Fork_Keeps, NotForked_Keeps, Forked_Keeps, ExitFiles_Keeps, ExitPwd_Keeps, ExitExecutable_Keeps,
         Zombie_Keeps
    <2>5. CASE Seek(t) \/ StartRead(t) \/ ReadBlock(t) \/ StartWrite(t) \/ WriteBlock(t) \/ NotWritten(t) \/ WriteDone(t)
      BY <2>5, Seek_Keeps, StartRead_Keeps, ReadBlock_Keeps, StartWrite_Keeps, WriteBlock_Keeps, NotWritten_Keeps,
         WriteDone_Keeps
    <2> QED BY <2>1, <2>2, <2>3, <2>4, <2>5
  <1> QED BY <1>1, <1>2

LEMMA OpenInvariant ==
  ASSUME OpenFilesAssumption
  PROVE  OpenSpec => []OpenInv
  <1>1. OpenInit => OpenInv
    BY OpenInit_Holds
  <1>2. OpenInv /\ [OpenNext]_openVars => OpenInv'
    BY OpenStep
  <1> QED BY <1>1, <1>2, PTL DEF OpenSpec

(* f_count is the number of descriptors of a file, and i_count that of the
   references to an inode, whatever the tasks open, close, duplicate, copy,
   execute and leave, and wherever a call sleeps or fails (fs/open.c, fs/fcntl.c,
   fs/pipe.c, kernel/fork.c, kernel/exit.c): no file and no inode is released
   while somebody uses it, and none is kept that nobody uses. *)
THEOREM ReferencesAreCounted ==
  OpenFilesAssumption => (OpenSpec => []CountsAreExact)
  <1> SUFFICES ASSUME OpenFilesAssumption PROVE OpenSpec => []CountsAreExact
    OBVIOUS
  <1>1. OpenInv => CountsAreExact
    BY DEF OpenInv
  <1> QED BY <1>1, OpenInvariant, PTL

LEMMA WritesCovered ==
  ASSUME OpenFilesAssumption, OpenInv, SizeCoversWrites, [OpenNext]_openVars
  PROVE  SizeCoversWrites'
  <1>1. OpenTypeOK
    BY DEF OpenInv
  <1>2. ASSUME UNCHANGED <<i_size, written>> PROVE SizeCoversWrites'
    BY <1>2 DEF SizeCoversWrites
  <1>3. ASSUME NEW t \in Processes, Opened(t) PROVE SizeCoversWrites'
    <2>1. PICK i \in InodeNrs \ Pipes, trunc \in BOOLEAN :
         /\ i_size' = [i_size EXCEPT ![i] = IF trunc THEN 0 ELSE i_size[i]]
         /\ written' = [written EXCEPT ![i] = IF trunc THEN 0 ELSE written[i]]
      BY <1>3 DEF Opened
    <2> QED BY <1>1, <2>1 DEF SizeCoversWrites, OpenTypeOK
  <1>4. ASSUME NEW t \in Processes, WriteBlock(t) PROVE SizeCoversWrites'
    <2> DEFINE c == syscall[t]
               i == f_inode[c.file]
               n == Least(c.left, InBlock(c.pos))
               pos == c.pos + n
    <2>1. i_size' = [i_size EXCEPT ![i] = Size(i_size[i], pos)]
          /\ written' = [written EXCEPT ![i] = IF pos > written[i] THEN pos ELSE written[i]]
      BY <1>4 DEF WriteBlock
    <2>2. c.left \in Int /\ c.pos \in Int
      <3>1. c.pc = "write" /\ CallOK(c)
        BY <1>4, TaskHere DEF WriteBlock, At
      <3> QED BY <3>1 DEF CallOK, NextOK
    <2>3. pos \in Int
      <3>1. BLOCK_SIZE \in Nat \ {0}
        BY DEF OpenFilesAssumption
      <3>2. InBlock(c.pos) \in Int
        <4> HIDE DEF c
        <4> QED BY <2>2, <3>1 DEF InBlock
      <3>3. n \in Int
        BY <2>2, <3>2 DEF Least
      <3> HIDE DEF n, c
      <3> QED BY <2>2, <3>3
    <2> HIDE DEF pos, i
    <2>4. ASSUME NEW k \in InodeNrs PROVE written'[k] <= i_size'[k]
      <3>1. i_size[k] \in Int /\ written[k] \in Int /\ written[k] <= i_size[k]
        BY <1>1 DEF OpenTypeOK, SizeCoversWrites
      <3>2. CASE k = i
        <4>1. i_size'[k] = (IF pos > i_size[k] THEN pos ELSE i_size[k])
              /\ written'[k] = (IF pos > written[k] THEN pos ELSE written[k])
          BY <1>1, <2>1, <3>2 DEF OpenTypeOK, Size
        <4> QED BY <2>3, <3>1, <4>1
      <3>3. CASE k # i
        BY <1>1, <2>1, <3>1, <3>3 DEF OpenTypeOK
      <3> QED BY <3>2, <3>3
    <2> QED BY <2>4 DEF SizeCoversWrites
  <1>5. CASE OpenNext
    <2>1. PICK t \in Processes :
      \/ Iputs(t) \/ Open(t) \/ NotOpened(t) \/ Opened(t) \/ CloseFd(t) \/ Dup(t) \/ Dup2(t) \/ Dup2Closed(t)
      \/ SetCloexec(t) \/ Pipe(t) \/ NotPiped(t) \/ Piped(t) \/ Chdir(t) \/ Chdired(t) \/ Exec(t) \/ Execed(t)
      \/ Fork(t) \/ NotForked(t) \/ Forked(t) \/ ExitFiles(t) \/ ExitPwd(t) \/ ExitExecutable(t) \/ Zombie(t)
      \/ Seek(t) \/ StartRead(t) \/ ReadBlock(t) \/ StartWrite(t) \/ WriteBlock(t) \/ NotWritten(t) \/ WriteDone(t)
      BY <1>5 DEF OpenNext
    <2>2. CASE Iputs(t) \/ Open(t) \/ NotOpened(t) \/ CloseFd(t) \/ Dup(t) \/ Dup2(t) \/ Dup2Closed(t)
      <3>1. ASSUME Iputs(t) PROVE UNCHANGED <<i_size, written>>
        BY <3>1 DEF Iputs, inodeVars
      <3>2. ASSUME Open(t) PROVE UNCHANGED <<i_size, written>>
        BY <3>2 DEF Open, inodeVars
      <3>3. ASSUME NotOpened(t) PROVE UNCHANGED <<i_size, written>>
        BY <3>3 DEF NotOpened, inodeVars
      <3>4. ASSUME CloseFd(t) PROVE UNCHANGED <<i_size, written>>
        BY <3>4 DEF CloseFd, Closed, inodeVars
      <3>5. ASSUME Dup(t) PROVE UNCHANGED <<i_size, written>>
        BY <3>5 DEF Dup, inodeVars
      <3>6. ASSUME Dup2(t) PROVE UNCHANGED <<i_size, written>>
        BY <3>6 DEF Dup2, Closed, DupFd, inodeVars
      <3>7. ASSUME Dup2Closed(t) PROVE UNCHANGED <<i_size, written>>
        BY <3>7 DEF Dup2Closed, inodeVars
      <3> QED BY <1>2, <2>2, <3>1, <3>2, <3>3, <3>4, <3>5, <3>6, <3>7
    <2>3. CASE SetCloexec(t) \/ Pipe(t) \/ NotPiped(t) \/ Piped(t) \/ Chdir(t) \/ Chdired(t) \/ Exec(t) \/ Execed(t)
      <3>1. ASSUME SetCloexec(t) PROVE UNCHANGED <<i_size, written>>
        BY <3>1 DEF SetCloexec, inodeVars
      <3>2. ASSUME Pipe(t) PROVE UNCHANGED <<i_size, written>>
        BY <3>2 DEF Pipe, inodeVars
      <3>3. ASSUME NotPiped(t) PROVE UNCHANGED <<i_size, written>>
        BY <3>3 DEF NotPiped, inodeVars
      <3>4. ASSUME Piped(t) PROVE UNCHANGED <<i_size, written>>
        BY <3>4 DEF Piped, inodeVars
      <3>5. ASSUME Chdir(t) PROVE UNCHANGED <<i_size, written>>
        BY <3>5 DEF Chdir, inodeVars
      <3>6. ASSUME Chdired(t) PROVE UNCHANGED <<i_size, written>>
        BY <3>6 DEF Chdired, inodeVars
      <3>7. ASSUME Exec(t) PROVE UNCHANGED <<i_size, written>>
        BY <3>7 DEF Exec, inodeVars
      <3>8. ASSUME Execed(t) PROVE UNCHANGED <<i_size, written>>
        BY <3>8 DEF Execed, Closed, inodeVars
      <3> QED BY <1>2, <2>3, <3>1, <3>2, <3>3, <3>4, <3>5, <3>6, <3>7, <3>8
    <2>4. CASE Fork(t) \/ NotForked(t) \/ Forked(t) \/ ExitFiles(t) \/ ExitPwd(t) \/ ExitExecutable(t) \/ Zombie(t)
      <3>1. ASSUME Fork(t) PROVE UNCHANGED <<i_size, written>>
        BY <3>1 DEF Fork, inodeVars
      <3>2. ASSUME NotForked(t) PROVE UNCHANGED <<i_size, written>>
        BY <3>2 DEF NotForked, inodeVars
      <3>3. ASSUME Forked(t) PROVE UNCHANGED <<i_size, written>>
        BY <3>3 DEF Forked, inodeVars
      <3>4. ASSUME ExitFiles(t) PROVE UNCHANGED <<i_size, written>>
        BY <3>4 DEF ExitFiles, Closed, inodeVars
      <3>5. ASSUME ExitPwd(t) PROVE UNCHANGED <<i_size, written>>
        BY <3>5 DEF ExitPwd, inodeVars
      <3>6. ASSUME ExitExecutable(t) PROVE UNCHANGED <<i_size, written>>
        BY <3>6 DEF ExitExecutable, inodeVars
      <3>7. ASSUME Zombie(t) PROVE UNCHANGED <<i_size, written>>
        BY <3>7 DEF Zombie, inodeVars
      <3> QED BY <1>2, <2>4, <3>1, <3>2, <3>3, <3>4, <3>5, <3>6, <3>7
    <2>5. CASE Seek(t) \/ StartRead(t) \/ ReadBlock(t) \/ StartWrite(t) \/ NotWritten(t) \/ WriteDone(t)
      <3>1. ASSUME Seek(t) PROVE UNCHANGED <<i_size, written>>
        BY <3>1 DEF Seek, inodeVars
      <3>2. ASSUME StartRead(t) PROVE UNCHANGED <<i_size, written>>
        BY <3>2 DEF StartRead, inodeVars
      <3>3. ASSUME ReadBlock(t) PROVE UNCHANGED <<i_size, written>>
        BY <3>3 DEF ReadBlock, inodeVars
      <3>4. ASSUME StartWrite(t) PROVE UNCHANGED <<i_size, written>>
        BY <3>4 DEF StartWrite, inodeVars
      <3>5. ASSUME NotWritten(t) PROVE UNCHANGED <<i_size, written>>
        BY <3>5 DEF NotWritten, inodeVars
      <3>6. ASSUME WriteDone(t) PROVE UNCHANGED <<i_size, written>>
        BY <3>6 DEF WriteDone, inodeVars
      <3> QED BY <1>2, <2>5, <3>1, <3>2, <3>3, <3>4, <3>5, <3>6
    <2> QED BY <1>3, <1>4, <2>1, <2>2, <2>3, <2>4, <2>5
  <1>6. CASE UNCHANGED openVars
    BY <1>2, <1>6 DEF openVars, inodeVars
  <1> QED BY <1>5, <1>6

(* A file is as long as what was written to it since it was truncated, whoever
   else writes, appends or truncates it between two blocks of a write
   (fs/file_dev.c:70-98). *)
THEOREM FilesCoverWrites ==
  OpenFilesAssumption => (OpenSpec => []SizeCoversWrites)
  <1> SUFFICES ASSUME OpenFilesAssumption PROVE OpenSpec => []SizeCoversWrites
    OBVIOUS
  <1>1. OpenInit => SizeCoversWrites
    BY DEF OpenInit, SizeCoversWrites
  <1>2. OpenInv /\ SizeCoversWrites /\ [OpenNext]_openVars => SizeCoversWrites'
    BY WritesCovered
  <1> QED BY <1>1, <1>2, OpenInvariant, PTL DEF OpenSpec
=============================================================================
