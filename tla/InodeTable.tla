----------------------------- MODULE InodeTable -----------------------------
(***************************************************************************)
(* The inodes in memory, fs/inode.c, with what fs/bitmap.c and fs/super.c  *)
(* do with them: iget and iput, creating and freeing inodes, writing them  *)
(* back, mounting and unmounting.                                          *)
(*                                                                         *)
(* An inode is its device and number together, an element of Inodes; of    *)
(* its content only the link count is kept.  Root is the root directory    *)
(* of the one device that can be mounted, and Point the directory it is    *)
(* mounted on.  A directory entry is read before iget is called for it.    *)
(* Pipes, and syncing a device when its special file is closed, are left   *)
(* out.                                                                    *)
(***************************************************************************)
EXTENDS Integers, FiniteSets

CONSTANTS
  Tasks,
  NR_INODE,   \* slots of inode_table
  Files,      \* inodes that can be created and unlinked
  Point, Root,
  MaxLinks,   \* bound on the links of a file
  NULL

ASSUME InodeTableAssumption ==
  /\ NR_INODE \in Nat \ {0} /\ MaxLinks \in Nat \ {0}
  /\ Point # Root /\ {Point, Root, NULL} \cap Files = {} /\ NULL \notin {Point, Root}
  /\ IsFiniteSet(Tasks)

Inodes == Files \cup {Point, Root}
Slots == 1..NR_INODE

VARIABLES
  inode_table,  \* id (NULL for device 0), count, dirt, lock, mount, nlinks
  imap,         \* inodes that are allocated
  disk,         \* link counts on the disk
  super,        \* the super block: is it of the device, s_imount, locked?
  call,         \* where in the kernel a task is
  held,         \* the inode a task has a reference to, or 0
  running,      \* the task that has the processor and has not slept
  truth,        \* history: the link counts as they should be
  raced         \* history: an inode was entered that was on its way out

kernel == <<call, running>>
vars == <<inode_table, imap, disk, super, kernel, held, truth, raced>>

Zero == [id |-> NULL, count |-> 0, dirt |-> FALSE, lock |-> FALSE, mount |-> FALSE, nlinks |-> 0]
Idle == [pc |-> "idle", ret |-> "idle", back |-> "idle", s |-> 0, want |-> NULL, empty |-> 0, got |-> 0]

Runs(t, pc) == call[t].pc = pc /\ running \in {t, NULL}
Goto(t, c) == call' = [call EXCEPT ![t] = c] /\ running' = t
Sleep(t, c) == call' = [call EXCEPT ![t] = c] /\ running' = NULL
Inode(t) == inode_table[call[t].s]
Set(s, i) == inode_table' = [inode_table EXCEPT ![s] = i]
Iput(c, s, then) == [c EXCEPT !.pc = "iput", !.s = s, !.ret = then]
WriteInode(c, then) == [c EXCEPT !.pc = "write_inode", !.back = then]

(* wait_on_inode and lock_inode: these steps wait until nobody else has the
   lock; a task that has the processor gives it up. *)
Waits(t) == call[t].pc \in {"empty", "found", "iput", "write_inode", "sync"} /\ Inode(t).lock

Blocks(t) ==
  /\ running = t /\ Waits(t) /\ running' = NULL
  /\ UNCHANGED <<inode_table, imap, disk, super, call, held, truth, raced>>

Unlocked(t, pc) == Runs(t, pc) /\ ~Inode(t).lock

-----------------------------------------------------------------------------
(* write_inode: the inode is locked while its block is read. *)
Lock(t) ==
  /\ Unlocked(t, "write_inode")
  /\ IF Inode(t).dirt /\ Inode(t).id # NULL
     THEN Set(call[t].s, [Inode(t) EXCEPT !.lock = TRUE]) /\ Sleep(t, [call[t] EXCEPT !.pc = "writing"])
     ELSE Goto(t, [call[t] EXCEPT !.pc = call[t].back]) /\ UNCHANGED inode_table
  /\ UNCHANGED <<imap, disk, super, held, truth, raced>>

Written_Lost(t) ==                     \* faulty: the buffer is not changed
  /\ Runs(t, "writing")
  /\ UNCHANGED disk
  /\ Set(call[t].s, [Inode(t) EXCEPT !.dirt = FALSE, !.lock = FALSE])
  /\ Goto(t, [call[t] EXCEPT !.pc = call[t].back])
  /\ UNCHANGED <<imap, super, held, truth, raced>>

Written(t) ==
  /\ Runs(t, "writing")
  /\ disk' = [disk EXCEPT ![Inode(t).id] = Inode(t).nlinks]
  /\ Set(call[t].s, [Inode(t) EXCEPT !.dirt = FALSE, !.lock = FALSE])
  /\ Goto(t, [call[t] EXCEPT !.pc = call[t].back])
  /\ UNCHANGED <<imap, super, held, truth, raced>>

(* sync_inodes. *)
Sync(t) ==
  /\ Runs(t, "idle")
  /\ Goto(t, [Idle EXCEPT !.pc = "sync", !.s = 1])
  /\ UNCHANGED <<inode_table, imap, disk, super, held, truth, raced>>

NextSynced(t) == IF call[t].s = NR_INODE THEN Idle ELSE [call[t] EXCEPT !.pc = "sync", !.s = @ + 1]

SyncInode(t) ==
  /\ \/ Unlocked(t, "sync") /\ Inode(t).dirt /\ Goto(t, WriteInode(call[t], "synced"))
     \/ Unlocked(t, "sync") /\ ~Inode(t).dirt /\ Goto(t, NextSynced(t))
     \/ Runs(t, "synced") /\ Goto(t, NextSynced(t))
  /\ UNCHANGED <<inode_table, imap, disk, super, held, truth, raced>>

-----------------------------------------------------------------------------
(* get_empty_inode: any clean and unlocked slot that nobody uses, or else one
   that has to be written or waited for (iput leaves none behind). Which one depends on where the last
   search has stopped. *)
Unused == {s \in Slots : inode_table[s].count = 0}
Clean == {s \in Unused : ~inode_table[s].dirt /\ ~inode_table[s].lock}

GetEmpty(t) ==
  /\ Runs(t, "get_empty_inode")
  /\ \E s \in IF Clean # {} THEN Clean ELSE Unused : Goto(t, [call[t] EXCEPT !.pc = "empty", !.s = s])
  /\ UNCHANGED <<inode_table, imap, disk, super, held, truth, raced>>

Empty(t) ==
  /\ Unlocked(t, "empty")
  /\ IF Inode(t).dirt THEN Goto(t, WriteInode(call[t], "empty")) /\ UNCHANGED inode_table
     ELSE IF Inode(t).count # 0
     THEN Goto(t, [call[t] EXCEPT !.pc = "get_empty_inode"]) /\ UNCHANGED inode_table
     ELSE /\ Set(call[t].s, [Zero EXCEPT !.count = 1])
          /\ Goto(t, [call[t] EXCEPT !.pc = call[t].ret, !.empty = call[t].s])
  /\ UNCHANGED <<imap, disk, super, held, truth, raced>>

-----------------------------------------------------------------------------
(* iget: an empty inode first, then the search, which starts again after each
   sleep. *)
Iget(t, i) ==
  /\ Runs(t, "idle") /\ held[t] = 0
  /\ i # Root /\ truth[i] > 0
  /\ Goto(t, [Idle EXCEPT !.pc = "get_empty_inode", !.ret = "scan", !.want = i])
  /\ UNCHANGED <<inode_table, imap, disk, super, held, truth, raced>>

(* Is the inode being freed, or its device unmounted? *)
Dying(i) ==
  \/ i \notin imap
  \/ \E t \in Tasks : call[t].pc = "truncate" /\ Inode(t).id = i
  \/ i = Root /\ (super.imount = 0 \/ ~inode_table[super.imount].mount)

Found_InUse(t) ==                      \* faulty: passes over inodes nobody uses
  {s \in Slots : inode_table[s].id = call[t].want /\ inode_table[s].count > 0}
Found(t) == {s \in Slots : inode_table[s].id = call[t].want}

Scan(t) ==
  /\ Runs(t, "scan")
  /\ IF Found(t) # {}
     THEN /\ \E s \in Found(t) : Goto(t, [call[t] EXCEPT !.pc = "found", !.s = s])
          /\ UNCHANGED <<inode_table, raced>>
     ELSE /\ Set(call[t].empty, [Zero EXCEPT !.count = 1, !.lock = TRUE, !.id = call[t].want])
          /\ Sleep(t, [call[t] EXCEPT !.pc = "read_inode", !.s = call[t].empty])
          /\ raced' = (raced \/ Dying(call[t].want))
  /\ UNCHANGED <<imap, disk, super, held, truth>>

(* After wait_on_inode the slot may be of another inode. An inode that has
   been mounted on is given back, and the search goes on for the root. *)
TakeFound(t) ==
  /\ Unlocked(t, "found")
  /\ IF Inode(t).id # call[t].want
     THEN Goto(t, [call[t] EXCEPT !.pc = "scan"]) /\ UNCHANGED <<inode_table, raced>>
     ELSE /\ Set(call[t].s, [Inode(t) EXCEPT !.count = @ + 1])
          /\ raced' = (raced \/ Dying(Inode(t).id))
          /\ Goto(t, IF Inode(t).mount THEN Iput(call[t], call[t].s, "cross")
                     ELSE Iput([call[t] EXCEPT !.got = call[t].s], call[t].empty, "got"))
  /\ UNCHANGED <<imap, disk, super, held, truth>>

Cross(t) ==
  /\ Runs(t, "cross")
  /\ Goto(t, [call[t] EXCEPT !.pc = "scan", !.want = Root])
  /\ raced' = (raced \/ ~super.dev)
  /\ UNCHANGED <<inode_table, imap, disk, super, held, truth>>

ReadInode(t) ==
  /\ Runs(t, "read_inode")
  /\ Set(call[t].s, [Inode(t) EXCEPT !.nlinks = disk[Inode(t).id], !.lock = FALSE])
  /\ held' = [held EXCEPT ![t] = call[t].s]
  /\ Goto(t, Idle)
  /\ UNCHANGED <<imap, disk, super, truth, raced>>

Got(t) ==
  /\ Runs(t, "got")
  /\ held' = [held EXCEPT ![t] = call[t].got]
  /\ Goto(t, Idle)
  /\ UNCHANGED <<inode_table, imap, disk, super, truth, raced>>

-----------------------------------------------------------------------------
(* iput: the last user frees the inode if it has no links, or sees to it that
   it is written, and looks again at who uses it after each sleep. *)
Close(t) ==
  /\ Runs(t, "idle") /\ held[t] # 0
  /\ Goto(t, Iput(Idle, held[t], "idle"))
  /\ held' = [held EXCEPT ![t] = 0]
  /\ UNCHANGED <<inode_table, imap, disk, super, truth, raced>>

Release(t) ==
  /\ Set(call[t].s, [Inode(t) EXCEPT !.count = @ - 1])
  /\ Goto(t, IF call[t].ret = "idle" THEN Idle ELSE [call[t] EXCEPT !.pc = call[t].ret])

PutInode_FreesFirst(t) ==              \* faulty: looks at the links before the users
  /\ Unlocked(t, "iput")
  /\ IF Inode(t).id # NULL /\ Inode(t).nlinks = 0
     THEN Sleep(t, [call[t] EXCEPT !.pc = "truncate"]) /\ UNCHANGED inode_table
     ELSE Release(t)
  /\ UNCHANGED <<imap, disk, super, held, truth, raced>>

PutInode(t) ==
  /\ Unlocked(t, "iput")
  /\ IF Inode(t).id = NULL \/ Inode(t).count > 1 THEN Release(t)
     ELSE IF Inode(t).nlinks = 0
     THEN Sleep(t, [call[t] EXCEPT !.pc = "truncate"]) /\ UNCHANGED inode_table
     ELSE IF Inode(t).dirt
     THEN Goto(t, WriteInode(call[t], "iput")) /\ UNCHANGED inode_table
     ELSE Release(t)
  /\ UNCHANGED <<imap, disk, super, held, truth, raced>>

(* free_inode, after truncate has slept. The slot is cleared although another
   task may be writing the inode and hold the lock (bitmap.c:160). *)
Truncated(t) ==
  /\ Runs(t, "truncate")
  /\ imap' = imap \ {Inode(t).id}
  /\ Set(call[t].s, Zero)
  /\ Goto(t, IF call[t].ret = "idle" THEN Idle ELSE [call[t] EXCEPT !.pc = call[t].ret])
  /\ raced' = (raced \/ Inode(t).lock)
  /\ UNCHANGED <<disk, super, held, truth>>

-----------------------------------------------------------------------------
(* new_inode, and the calls that change the links of an inode. *)
Create(t) ==
  /\ Runs(t, "idle") /\ held[t] = 0
  /\ Goto(t, [Idle EXCEPT !.pc = "get_empty_inode", !.ret = "new_inode"])
  /\ UNCHANGED <<inode_table, imap, disk, super, held, truth, raced>>

NewInode(t) ==
  /\ Runs(t, "new_inode")
  /\ IF Files \subseteq imap
     THEN Goto(t, Iput(Idle, call[t].empty, "idle")) /\ UNCHANGED <<inode_table, imap, held, truth>>
     ELSE \E i \in Files \ imap :
            /\ imap' = imap \cup {i}
            /\ Set(call[t].empty, [Zero EXCEPT !.id = i, !.count = 1, !.nlinks = 1, !.dirt = TRUE])
            /\ truth' = [truth EXCEPT ![i] = 1]
            /\ held' = [held EXCEPT ![t] = call[t].empty]
            /\ Goto(t, Idle)
  /\ UNCHANGED <<disk, super, raced>>

Links(t, n) ==
  LET i == inode_table[held[t]] IN
  /\ Runs(t, "idle") /\ held[t] # 0
  /\ i.id \in Files /\ i.nlinks > 0 /\ i.nlinks + n <= MaxLinks
  /\ Set(held[t], [i EXCEPT !.nlinks = @ + n, !.dirt = TRUE])
  /\ truth' = [truth EXCEPT ![i.id] = @ + n]
  /\ UNCHANGED <<imap, disk, super, kernel, held, raced>>

-----------------------------------------------------------------------------
(* sys_mount, by a task that has got the directory; read_super takes the super
   block and sleeps. *)
Mount(t) ==
  /\ Runs(t, "idle") /\ held[t] # 0
  /\ inode_table[held[t]].id = Point /\ inode_table[held[t]].count = 1
  /\ ~super.dev
  /\ super' = [dev |-> TRUE, imount |-> 0, lock |-> TRUE]
  /\ Sleep(t, [Idle EXCEPT !.pc = "read_super"])
  /\ UNCHANGED <<inode_table, imap, disk, held, truth, raced>>

SuperRead(t, ok) ==
  /\ Runs(t, "read_super")
  /\ IF ok /\ ~inode_table[held[t]].mount
     THEN /\ super' = [super EXCEPT !.imount = held[t], !.lock = FALSE]
          /\ Set(held[t], [inode_table[held[t]] EXCEPT !.mount = TRUE, !.dirt = TRUE])
          /\ Goto(t, Idle)
     ELSE /\ super' = [dev |-> ok, imount |-> 0, lock |-> FALSE]
          /\ Goto(t, Iput(Idle, held[t], "idle"))
          /\ UNCHANGED inode_table
  /\ held' = [held EXCEPT ![t] = 0]
  /\ UNCHANGED <<imap, disk, truth, raced>>

(* sys_umount: nobody may use an inode of the device, but it sleeps in iput
   before the super block is gone. *)
InUse_Locked == \E s \in Slots :       \* faulty: looks at the wrong field
  inode_table[s].id = Root /\ inode_table[s].lock
InUse == \E s \in Slots : inode_table[s].id = Root /\ inode_table[s].count # 0

Umount(t) ==
  /\ Runs(t, "idle")
  /\ super.dev /\ ~super.lock /\ super.imount # 0 /\ ~InUse
  /\ Set(super.imount, [inode_table[super.imount] EXCEPT !.mount = FALSE])
  /\ Goto(t, Iput(Idle, super.imount, "umount"))
  /\ raced' = (raced \/ ~inode_table[super.imount].mount)    \* printk("Mounted inode has i_mount=0")
  /\ UNCHANGED <<imap, disk, super, held, truth>>

PutSuper(t) ==
  /\ Runs(t, "umount")
  /\ super' = [dev |-> FALSE, imount |-> 0, lock |-> FALSE]
  /\ Goto(t, Idle)
  /\ UNCHANGED <<inode_table, imap, disk, held, truth, raced>>

-----------------------------------------------------------------------------
Init ==
  /\ inode_table = [s \in Slots |-> Zero] /\ imap = {Point, Root}
  /\ disk = [i \in Inodes |-> IF i \in Files THEN 0 ELSE 1] /\ truth = disk
  /\ super = [dev |-> FALSE, imount |-> 0, lock |-> FALSE]
  /\ call = [t \in Tasks |-> Idle] /\ held = [t \in Tasks |-> 0] /\ running = NULL
  /\ raced = FALSE

(* Back in user mode the task may be preempted. *)
Leave(t) ==
  /\ running = t /\ call[t].pc = "idle" /\ running' = NULL
  /\ UNCHANGED <<inode_table, imap, disk, super, call, held, truth, raced>>

Step(t) ==
  \/ Blocks(t) \/ Leave(t)
  \/ Lock(t) \/ Written(t) \/ Sync(t) \/ SyncInode(t)
  \/ GetEmpty(t) \/ Empty(t)
  \/ \E i \in Inodes : Iget(t, i)
  \/ Scan(t) \/ TakeFound(t) \/ Cross(t) \/ ReadInode(t) \/ Got(t)
  \/ Close(t) \/ PutInode(t) \/ Truncated(t)
  \/ Create(t) \/ NewInode(t) \/ \E n \in {-1, 1} : Links(t, n)
  \/ Mount(t) \/ \E ok \in BOOLEAN : SuperRead(t, ok)
  \/ Umount(t) \/ PutSuper(t)

(* What follows an inode that is used on its way out is not modelled. *)
Next == ~raced /\ \E t \in Tasks : Step(t)

Spec == Init /\ [][Next]_vars

-----------------------------------------------------------------------------
(* An inode of a disk is at most once in memory, though iget sleeps between
   its search and its result - unless an entry was removed after it had been
   read, and the inode freed (inode.c:284). *)
OneInodeInMemory ==
  ~raced => \A s, u \in Slots :
    inode_table[s].id = inode_table[u].id /\ inode_table[s].id # NULL => s = u

(* i_count is the number of references: of tasks, of calls that have an empty
   or a found inode, or are about to give one back, and of a mounted device.
   So no slot is taken, and no inode freed, that somebody uses. *)
GivesBack(t) ==
  /\ call[t].ret \in {"idle", "cross", "umount"}
  /\ \/ call[t].pc \in {"iput", "truncate"}
     \/ call[t].pc \in {"write_inode", "writing"} /\ call[t].back = "iput"

Users(s) ==
  Cardinality({t \in Tasks : held[t] = s})
  + Cardinality({t \in Tasks : call[t].got = s})
  + Cardinality({t \in Tasks : call[t].empty = s /\ call[t].pc # "got"})
  + Cardinality({t \in Tasks : call[t].s = s /\ GivesBack(t)})
  + (IF super.imount = s /\ inode_table[s].mount THEN 1 ELSE 0)

InodeCountsUsers == ~raced => \A s \in Slots : inode_table[s].count = Users(s)

(* No change of an inode is lost: it is in memory until it has been written,
   whoever else wants the slot, writes the inode or changes it meanwhile. *)
NoInodeChangeLost ==
  ~raced => \A i \in imap :
    \/ disk[i] = truth[i]
    \/ \E s \in Slots : inode_table[s].id = i /\ inode_table[s].nlinks = truth[i] /\ inode_table[s].dirt

(* Inodes of a device are in use only while it is mounted - unless somebody
   was on the way into it when it was unmounted (super.c:213). *)
UsedIsMounted ==
  ~raced => \A s \in Slots : inode_table[s].id = Root /\ inode_table[s].count > 0 => super.dev
=============================================================================
