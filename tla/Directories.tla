---------------------------- MODULE Directories ----------------------------
(***************************************************************************)
(* Directories and links, fs/namei.c: walking a path, open_namei, mknod,   *)
(* mkdir, rmdir, unlink, symlink and link.                                 *)
(*                                                                         *)
(* A task may lose the processor wherever it reads a block of a directory, *)
(* gets or puts an inode; a step goes from one such place to the next one. *)
(* One file system, whose directories are one block; modes are left out    *)
(* but for what permission() says of a removed file; "." and ".." are      *)
(* counted, not looked up; a symbolic link holds one name.                 *)
(*                                                                         *)
(* Some interleavings make a task go on with what it read before it slept, *)
(* and the tree is no longer right.  The model finds them all and stops    *)
(* there (raced).                                                          *)
(***************************************************************************)
EXTENDS Integers, Sequences, FiniteSets

CONSTANTS
  Walkers,                     \* tasks
  DirInodes, RootDir,          \* inodes, and that of the root directory
  Names, NrSlots,              \* names, and the entries in a directory
  Paths, Operations,           \* the paths and the operations of the calls
  Null

DirectoriesAssumption ==
  /\ RootDir \in DirInodes /\ NrSlots \in Nat \ {0} /\ Null \notin DirInodes
  /\ Paths \subseteq Seq(Names) \ {<<>>}
  /\ Operations \subseteq {"open", "creat", "excl", "mknod", "mkdir", "rmdir", "unlink", "symlink", "link", "namei"}
  /\ IsFiniteSet(Walkers) /\ IsFiniteSet(DirInodes)

VARIABLES
  inode,   \* type, i_nlinks, i_count, the entries of a directory, the text of a link
  task,    \* where each task is, and what it holds: dir, ino and old are references
  dirRaced

nameVars == <<inode, task, dirRaced>>

EntrySlots == 1..NrSlots
FreeSlot == [name |-> Null, ino |-> Null]
NoEntries == [k \in EntrySlots |-> FreeSlot]
New(type, text) ==
  [type |-> type, nlinks |-> IF type = "dir" THEN 2 ELSE 1, count |-> 1, slots |-> NoEntries, text |-> text]
NoInode == [type |-> "free", nlinks |-> 0, count |-> 0, slots |-> NoEntries, text |-> Null]
IdleCall == [pc |-> "idle", op |-> Null, path |-> <<>>, name |-> Null, nr |-> Null, slot |-> Null,
         dir |-> Null, ino |-> Null, old |-> Null, puts |-> <<>>]

Creators == {"creat", "excl", "mknod", "mkdir", "symlink"}
Type(op) == CASE op = "mkdir" -> "dir" [] op = "symlink" -> "link" [] OTHER -> "file"

-----------------------------------------------------------------------------
Permitted(tab, n) == tab[n].nlinks > 0
FoundIn(d, name) == {k \in EntrySlots : inode[d].slots[k].ino # Null /\ inode[d].slots[k].name = name}

GetRef(tab, n) == [tab EXCEPT ![n].count = @ + 1]
Put(tab, n) ==
  IF tab[n].count > 1 \/ tab[n].nlinks > 0 THEN [tab EXCEPT ![n].count = @ - 1]
  ELSE [tab EXCEPT ![n] = NoInode]

(* The next place of t where it may sleep, or its return, with iputs to do. *)
GoesTo(t, pc, r) == task' = [task EXCEPT ![t] = [r EXCEPT !.pc = pc]]
Leaves(t, r, puts) ==
  task' = [task EXCEPT ![t] = [IdleCall EXCEPT !.pc = "put", !.dir = r.dir, !.ino = r.ino, !.old = r.old, !.puts = puts]]
IsAt(t, pc) == task[t].pc = pc /\ ~dirRaced

(* The head of get_dir's loop: what the path has left is looked up in d. *)
Enter(t, tab, r, d) ==
  /\ inode' = tab
  /\ LET s == [r EXCEPT !.dir = d] IN
     IF tab[d].type # "dir" \/ ~Permitted(tab, d) THEN Leaves(t, s, IF s.old = Null THEN <<"dir">> ELSE <<"dir", "old">>)
     ELSE IF Len(r.path) > 1 THEN GoesTo(t, "step", s)
     ELSE GoesTo(t, IF r.op = "symlink" THEN "new" ELSE "find", [s EXCEPT !.name = Head(r.path)])

(* link takes the old name as its first path and then the new one. *)
Begin(t) ==
  /\ IsAt(t, "idle")
  /\ \E op \in Operations, p \in Paths :
       Enter(t, GetRef(inode, RootDir), [IdleCall EXCEPT !.op = IF op = "link" THEN "linkold" ELSE op, !.path = p], RootDir)
  /\ UNCHANGED dirRaced

NextName(t) ==
  /\ IsAt(t, "step")
  /\ LET r == task[t]
         found == FoundIn(r.dir, Head(r.path))
     IN  IF found = {} THEN Leaves(t, r, IF r.old = Null THEN <<"dir">> ELSE <<"dir", "old">>)
         ELSE \E k \in found : GoesTo(t, "get", [r EXCEPT !.nr = inode[r.dir].slots[k].ino])
  /\ UNCHANGED <<inode, dirRaced>>

(* What each operation does once find_entry has read the last directory. *)
Find(t) ==
  /\ IsAt(t, "find")
  /\ LET r == task[t]
         found == FoundIn(r.dir, r.name)
     IN  CASE found = {} /\ r.op \in {"creat", "excl"} /\ ~Permitted(inode, r.dir) ->
                Leaves(t, r, <<"dir">>) /\ UNCHANGED inode
           [] found = {} /\ r.op \in {"creat", "excl"} /\ Permitted(inode, r.dir) -> GoesTo(t, "new", r) /\ UNCHANGED inode
           [] found = {} /\ r.op \in {"mknod", "mkdir"} -> GoesTo(t, "new", r) /\ UNCHANGED inode
           [] found = {} /\ r.op \in {"symlink", "link"} -> GoesTo(t, "add", r) /\ UNCHANGED inode
           [] found = {} /\ r.op \notin {"creat", "excl", "mknod", "mkdir", "symlink", "link"} -> Leaves(t, r, <<"dir">>) /\ UNCHANGED inode
           [] found # {} /\ r.op \in {"excl", "mknod", "mkdir"} -> Leaves(t, r, <<"dir">>) /\ UNCHANGED inode
           [] found # {} /\ r.op = "symlink" ->
                inode' = [inode EXCEPT ![r.ino].nlinks = @ - 1] /\ Leaves(t, r, <<"ino", "dir">>)
           [] found # {} /\ r.op = "link" -> Leaves(t, r, <<"dir", "old">>) /\ UNCHANGED inode
           [] OTHER ->
                /\ \E k \in found : GoesTo(t, "get", [r EXCEPT !.nr = inode[r.dir].slots[k].ino, !.slot = k])
                /\ UNCHANGED inode
  /\ UNCHANGED dirRaced

(* new_inode, and new_block for a directory or a link. *)
MakeInode(t) ==
  /\ IsAt(t, "new")
  /\ LET r == task[t]
         free == {n \in DirInodes : inode[n].type = "free"}
     IN  \/ free = {} /\ Leaves(t, r, <<"dir">>) /\ UNCHANGED inode
         \/ \E n \in free : \E text \in IF r.op = "symlink" THEN Names ELSE {Null} :
              LET s == [r EXCEPT !.ino = n] IN
              \/ /\ inode' = [inode EXCEPT ![n] = New(Type(r.op), text)]
                 /\ GoesTo(t, IF r.op = "symlink" THEN "find" ELSE "add", s)
              \/ /\ r.op \in {"mkdir", "symlink"}          \* no block left
                 /\ inode' = [inode EXCEPT ![n] = New("file", Null)]
                 /\ GoesTo(t, "giveup", s)
  /\ UNCHANGED dirRaced

-----------------------------------------------------------------------------
(* add_entry and what follows it without a sleep.  mknod and mkdir put the
   directory before they take back the link of the new inode. *)
NoSpace(t, r) ==
  CASE r.op = "link" -> Leaves(t, r, <<"dir", "old">>) /\ UNCHANGED inode
    [] r.op \in {"mknod", "mkdir"} -> GoesTo(t, "giveup", r) /\ UNCHANGED inode
    [] OTHER -> inode' = [inode EXCEPT ![r.ino].nlinks = @ - 1] /\ Leaves(t, r, <<"ino", "dir">>)

Added(t, r, k) ==
  /\ inode' = [inode EXCEPT
       ![r.dir].slots[k] = [name |-> r.name, ino |-> IF r.op = "link" THEN r.old ELSE r.ino],
       ![r.dir].nlinks = IF r.op = "mkdir" THEN @ + 1 ELSE @]
  /\ CASE r.op = "link" -> GoesTo(t, "linked", r)
       [] r.op \in {"creat", "excl"} -> GoesTo(t, "created", r)
       [] OTHER -> Leaves(t, r, <<"dir", "ino">>)

(* Another task may have made the name, or removed the directory, after they
   were looked at (namei.c:466, 554, 608, 901, 964). *)
Add(t) ==
  /\ IsAt(t, "add")
  /\ LET r == task[t]
         free == {k \in EntrySlots : inode[r.dir].slots[k] = FreeSlot}
     IN  /\ dirRaced' = (free # {} /\ (FoundIn(r.dir, r.name) # {} \/ ~Permitted(inode, r.dir)))
         /\ IF free = {} THEN NoSpace(t, r) ELSE Added(t, r, CHOOSE k \in free : \A j \in free : k <= j)

(* iput(dir) of a call that failed, of open_namei and of link, and what they do
   then. *)
GivesUp(t) ==
  /\ IsAt(t, "giveup")
  /\ inode' = [Put(inode, task[t].dir) EXCEPT ![task[t].ino].nlinks = 0]
  /\ Leaves(t, [task[t] EXCEPT !.dir = Null], <<"ino">>)
  /\ UNCHANGED dirRaced

Created(t) ==
  /\ IsAt(t, "created")
  /\ inode' = Put(inode, task[t].dir)
  /\ GoesTo(t, "open", [IdleCall EXCEPT !.ino = task[t].ino])
  /\ UNCHANGED dirRaced

Linked(t) ==
  /\ IsAt(t, "linked")
  /\ inode' = [Put(inode, task[t].dir) EXCEPT ![task[t].old].nlinks = @ + 1]
  /\ Leaves(t, [task[t] EXCEPT !.dir = Null], <<"old">>)
  /\ UNCHANGED dirRaced

-----------------------------------------------------------------------------
(* iget has returned n.  What is done depends on the operation; a symbolic link
   is read first, where follow_link is called. *)
Follows(r) == Len(r.path) > 1 \/ r.op \in {"open", "creat", "namei", "linkold"}

Target(t, tab, r, n) ==              \* the inode a path, or a part of it, names
  IF Len(r.path) > 1 THEN Enter(t, tab, [r EXCEPT !.path = Tail(@)], n)
  ELSE CASE r.op = "namei" -> inode' = tab /\ Leaves(t, [r EXCEPT !.dir = Null, !.ino = n], <<"ino">>)
         [] r.op = "linkold" /\ tab[n].type = "dir" ->
              inode' = tab /\ Leaves(t, [r EXCEPT !.dir = Null, !.ino = n], <<"ino">>)
         [] r.op = "linkold" /\ tab[n].type # "dir" ->
              \E p \in Paths : Enter(t, GetRef(tab, RootDir), [IdleCall EXCEPT !.op = "link", !.path = p, !.old = n], RootDir)
         [] OTHER ->                  \* a directory may be opened for reading
              /\ inode' = tab
              /\ \/ /\ tab[n].type = "dir" \/ ~Permitted(tab, n)
                    /\ Leaves(t, [r EXCEPT !.dir = Null, !.ino = n], <<"ino">>)
                 \/ Permitted(tab, n) /\ GoesTo(t, "open", [IdleCall EXCEPT !.ino = n])

Unlink(t, r, n) ==
  LET s == [r EXCEPT !.ino = n] IN
  IF inode[n].type = "dir" THEN inode' = GetRef(inode, n) /\ Leaves(t, s, <<"ino", "dir">>) /\ UNCHANGED dirRaced
  ELSE /\ inode' = [GetRef(inode, n) EXCEPT ![r.dir].slots[r.slot] = FreeSlot, ![n].nlinks = @ - 1]
       /\ Leaves(t, s, <<"ino", "dir">>)
       /\ dirRaced' = (inode[r.dir].slots[r.slot] # [name |-> r.name, ino |-> n] \/ inode[n].nlinks = 0)

RmdirLooks(t, r, n) ==
  LET s == [r EXCEPT !.ino = n] IN
  /\ inode' = GetRef(inode, n)
  /\ IF inode'[n].count > 1 THEN Leaves(t, s, <<"dir", "ino">>)
     ELSE IF inode[n].type # "dir" THEN Leaves(t, s, <<"ino", "dir">>)
     ELSE GoesTo(t, "empty", s)
  /\ UNCHANGED dirRaced

(* The entry may be gone by now, and its inode free or on the way to be another
   file, with a link and no entry yet (namei.c:340, 403, 513, 740, 816). *)
Entering(n) == {t \in Walkers : task[t].op \in Creators /\ task[t].ino = n /\ task[t].pc \in {"find", "add", "giveup"}}
Stale(r) == inode[r.nr].type = "free" \/ Entering(r.nr) # {}

Get(t) ==
  /\ IsAt(t, "get")
  /\ LET r == task[t]
         n == r.nr
     IN  IF Stale(r) THEN dirRaced' = TRUE /\ UNCHANGED <<inode, task>>
         ELSE IF Follows(r) /\ inode[n].type = "link"
         THEN inode' = GetRef(inode, n) /\ GoesTo(t, "read", [r EXCEPT !.ino = n]) /\ UNCHANGED dirRaced
         ELSE IF Follows(r) THEN Target(t, Put(GetRef(inode, n), r.dir), r, n) /\ UNCHANGED dirRaced
         ELSE CASE r.op = "unlink" -> Unlink(t, r, n)
                [] r.op = "rmdir" -> RmdirLooks(t, r, n)

EmptyDir_NotRead(t) ==               \* faulty: does not look for entries
  /\ IsAt(t, "empty")
  /\ LET r == task[t] IN
     /\ inode' = [inode EXCEPT ![r.dir].slots[r.slot] = FreeSlot, ![r.ino].nlinks = 0, ![r.dir].nlinks = @ - 1]
     /\ dirRaced' = (inode[r.dir].slots[r.slot].ino # r.ino)
     /\ Leaves(t, r, <<"dir", "ino">>)

(* The rest of rmdir, once empty_dir has read the block. *)
EmptyDir(t) ==
  /\ IsAt(t, "empty")
  /\ LET r == task[t] IN
     IF inode[r.ino].slots # NoEntries THEN Leaves(t, r, <<"ino", "dir">>) /\ UNCHANGED <<inode, dirRaced>>
     ELSE /\ inode' = [inode EXCEPT ![r.dir].slots[r.slot] = FreeSlot, ![r.ino].nlinks = 0, ![r.dir].nlinks = @ - 1]
          /\ dirRaced' = (inode[r.dir].slots[r.slot].ino # r.ino)
          /\ Leaves(t, r, <<"dir", "ino">>)

(* follow_link: the text is looked up in the directory of the link; the last
   name is not followed again. *)
ReadLink(t) ==
  /\ IsAt(t, "read")
  /\ LET r == task[t] IN
     /\ inode' = Put(inode, r.ino)
     /\ GoesTo(t, IF Permitted(inode, r.dir) THEN "target" ELSE "nowhere",
             [r EXCEPT !.ino = Null, !.name = inode[r.ino].text])
  /\ UNCHANGED dirRaced

FindTarget(t) ==
  /\ IsAt(t, "target")
  /\ LET r == task[t]
         found == FoundIn(r.dir, r.name)
     IN  IF found = {} THEN GoesTo(t, "nowhere", r)
         ELSE \E k \in found : GoesTo(t, "gettarget", [r EXCEPT !.nr = inode[r.dir].slots[k].ino])
  /\ UNCHANGED <<inode, dirRaced>>

GetTarget(t) ==
  /\ IsAt(t, "gettarget")
  /\ LET r == task[t] IN
     IF Stale(r) THEN dirRaced' = TRUE /\ UNCHANGED <<inode, task>>
     ELSE Target(t, Put(GetRef(inode, r.nr), r.dir), r, r.nr) /\ UNCHANGED dirRaced

Nowhere_KeepsDir(t) ==               \* faulty: no iput(dir)
  /\ IsAt(t, "nowhere")
  /\ Leaves(t, [task[t] EXCEPT !.dir = Null], <<>>)
  /\ UNCHANGED <<inode, dirRaced>>

(* follow_link returns NULL.  _namei then writes through it (namei.c:412). *)
Nowhere(t) ==
  /\ IsAt(t, "nowhere")
  /\ LET r == task[t] IN
     /\ inode' = Put(inode, r.dir)
     /\ IF Len(r.path) = 1 /\ r.op \in {"namei", "linkold"} THEN GoesTo(t, "wild", [r EXCEPT !.dir = Null])
        ELSE Leaves(t, [r EXCEPT !.dir = Null], IF r.old = Null THEN <<>> ELSE <<"old">>)
  /\ UNCHANGED dirRaced

Wild(t) == IsAt(t, "wild") /\ Leaves(t, task[t], <<>>) /\ UNCHANGED <<inode, dirRaced>>

-----------------------------------------------------------------------------
(* The iputs at the end, in the order of the code; each may sleep first. *)
PutNext(t) ==
  /\ IsAt(t, "put")
  /\ LET r == task[t] IN
     IF r.puts = <<>> THEN task' = [task EXCEPT ![t] = IdleCall] /\ UNCHANGED inode
     ELSE /\ inode' = Put(inode, r[Head(r.puts)])
          /\ GoesTo(t, "put", [r EXCEPT ![Head(r.puts)] = Null, !.puts = Tail(@)])
  /\ UNCHANGED dirRaced

(* The file is closed. *)
CloseFile(t) == IsAt(t, "open") /\ Leaves(t, task[t], <<"ino">>) /\ UNCHANGED <<inode, dirRaced>>

NamesInit ==
  /\ inode = [n \in DirInodes |-> IF n = RootDir THEN New("dir", Null) ELSE NoInode]
  /\ task = [t \in Walkers |-> IdleCall]
  /\ dirRaced = FALSE

NamesNext ==
  \E t \in Walkers :
    \/ Begin(t) \/ NextName(t) \/ Find(t) \/ MakeInode(t) \/ Add(t) \/ GivesUp(t) \/ Created(t)
    \/ Linked(t)
    \/ Get(t) \/ EmptyDir(t) \/ ReadLink(t) \/ FindTarget(t) \/ GetTarget(t) \/ Nowhere(t) \/ Wild(t)
    \/ PutNext(t) \/ CloseFile(t)

NamesSpec == NamesInit /\ [][NamesNext]_nameVars

-----------------------------------------------------------------------------
(* i_count is the number of references tasks hold: whichever way an operation
   fails it gives back what it took, once (namei.c:441-989). Root is also held
   by the mount. *)
ReferencesAreHeld ==
  \A n \in DirInodes :
    inode[n].count = Cardinality({h \in Walkers \X {"dir", "ino", "old"} : task[h[1]][h[2]] = n})
                     + IF n = RootDir THEN 1 ELSE 0

AllEntries == UNION {{d} \X DOMAIN inode[d].slots : d \in DirInodes}
Entries(n) == {e \in AllEntries : inode[e[1]].slots[e[2]].ino = n}
Uncounted(n) == {t \in Walkers : task[t].pc = "linked" /\ task[t].old = n}
SubDirectories(n) ==
  {k \in DOMAIN inode[n].slots : inode[n].slots[k].ino # Null /\ inode[inode[n].slots[k].ino].type = "dir"}

(* Until a race, i_nlinks counts the entries that name an inode, "." and ".."
   among them, and the link of a new inode that has no entry yet, or will have
   none (namei.c:577, 653); and no entry names a freed inode. An inode is freed when its
   count falls to zero (inode.c:203), so that a link too few loses a file that
   still has a name, and one too many its space. *)
LinksAreEntries ==
  ~dirRaced =>
    \A n \in DirInodes :
      LET named == Cardinality(Entries(n)) + Cardinality(Entering(n)) + IF n = RootDir THEN 1 ELSE 0 IN
      /\ inode[n].type = "free" => named = 0
      /\ inode[n].type = "dir" =>
           inode[n].nlinks = IF named = 0 THEN 0 ELSE named + 1 + Cardinality(SubDirectories(n))
      /\ inode[n].type \in {"file", "link"} => inode[n].nlinks = named - Cardinality(Uncounted(n))

(* namei returns NULL for what is not there, as its callers expect, and does
   not use it (namei.c:288-291, 431). *)
NamesAnInode == \A t \in Walkers : task[t].pc # "wild"
=============================================================================
