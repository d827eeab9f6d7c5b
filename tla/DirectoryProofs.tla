--------------------------- MODULE DirectoryProofs ---------------------------
(***************************************************************************)
(* Proofs about directories and links for any tasks, inodes, names, paths  *)
(* and sizes of directories.                                               *)
(***************************************************************************)
EXTENDS Directories, FiniteSetTheorems, TLAPS

(* The types of inodes and calls. *)
Refs == {"dir", "ino", "old"}
Types == {"free", "dir", "file", "link"}
Entry == [name : Names \cup {Null}, ino : DirInodes \cup {Null}]
InodeRecords ==
  [type : Types, nlinks : Int, count : Int, slots : [EntrySlots -> Entry], text : Names \cup {Null}]

(* An inode that is free has no references. *)
IsTable(tab) ==
  /\ tab \in [DirInodes -> InodeRecords]
  /\ \A n \in DirInodes : tab[n].type = "free" => tab[n].count = 0

Walking == {"step", "find", "get", "target", "gettarget", "nowhere", "new", "add"}
Pcs == Walking \cup {"idle", "created", "linked", "giveup", "read", "empty", "open", "wild", "put"}
Ops == {"open", "creat", "excl", "mknod", "mkdir", "rmdir", "unlink", "symlink", "link", "linkold", "namei"}

CallRecords ==
  [pc : Pcs, op : Ops \cup {Null}, path : Seq(Names), name : Names \cup {Null}, nr : DirInodes \cup {Null},
   slot : EntrySlots \cup {Null}, dir : DirInodes \cup {Null}, ino : DirInodes \cup {Null},
   old : DirInodes \cup {Null}, puts : Seq(Refs)]

(* The references in s are what is left to put, each once. *)
Lists(puts, s) ==
  /\ puts \in Seq(Refs)
  /\ \A i, j \in 1..Len(puts) : puts[i] = puts[j] => i = j
  /\ \A i \in 1..Len(puts) : s[puts[i]] \in DirInodes
  /\ \A f \in Refs : s[f] # Null => \E i \in 1..Len(puts) : puts[i] = f

(* Which references a call holds at which place. *)
HoldsIno(s) ==
  \/ s.pc \in {"created", "giveup", "open", "read", "empty"}
  \/ s.pc = "find" /\ s.op = "symlink"
  \/ s.pc = "add" /\ s.op # "link"
Holds(s) ==
  /\ s.dir # Null <=> s.pc \in Walking \cup {"created", "giveup", "linked", "read", "empty"}
  /\ s.ino # Null <=> HoldsIno(s)
  /\ s.old # Null <=> s.op = "link" /\ s.pc \in Walking \cup {"linked", "read"}

IsCall(s) ==
  /\ s \in CallRecords
  /\ s.pc = "put" => Lists(s.puts, s)
  /\ s.pc # "put" => Holds(s)
  /\ s.pc \in Walking \cup {"read"} => s.op \in Ops /\ Len(s.path) > 0
  /\ s.pc \in {"new", "add", "created", "linked", "giveup"} => s.op \in Creators \cup {"link"}
  /\ s.pc = "step" => Len(s.path) > 1
  /\ s.pc = "new" => s.op # "link"
  /\ s.pc = "created" => s.op \in {"creat", "excl"}
  /\ s.pc = "linked" => s.op = "link"
  /\ s.pc \in {"get", "gettarget"} => s.nr \in DirInodes
  /\ s.pc = "get" => Follows(s) \/ s.op \in {"unlink", "rmdir"}
  /\ s.pc \in {"read", "target", "gettarget"} => Follows(s)
  /\ s.pc = "empty" => s.op = "rmdir"
  /\ s.pc \in {"get", "empty"} /\ s.op \in {"unlink", "rmdir"} /\ ~Follows(s) => s.slot \in EntrySlots

NamesInv ==
  /\ IsTable(inode) /\ task = [t \in Walkers |-> task[t]] /\ \A t \in Walkers : IsCall(task[t])
  /\ ReferencesAreHeld

-----------------------------------------------------------------------------
(* References to an inode, and what a step of one task does to their number. *)
One(b) == IF b THEN 1 ELSE 0
Held(s, n) == One(s.dir = n) + One(s.ino = n) + One(s.old = n)
HoldersOf(n) == {h \in Walkers \X {"dir", "ino", "old"} : task[h[1]][h[2]] = n}

LEMMA HeldIs ==
  ASSUME NEW s, NEW n
  PROVE  /\ Held(s, n) \in Nat /\ (Held(s, n) = 0 <=> s.dir # n /\ s.ino # n /\ s.old # n)
         /\ One(s.dir = n) \in Nat /\ One(s.ino = n) \in Nat /\ One(s.old = n) \in Nat
  BY DEF Held, One

LEMMA CountBoth ==
  ASSUME NEW A, NEW B, IsFiniteSet(A), IsFiniteSet(B), A \cap B = {}
  PROVE  /\ IsFiniteSet(A \cup B) /\ Cardinality(A \cup B) = Cardinality(A) + Cardinality(B)
         /\ Cardinality(A) \in Nat /\ Cardinality(B) \in Nat
  <1>1. Cardinality(A \cap B) = 0
    BY FS_EmptySet
  <1>2. Cardinality(A) \in Nat /\ Cardinality(B) \in Nat
    BY FS_CardinalityType
  <1>3. IsFiniteSet(A \cup B) /\ Cardinality(A \cup B) = Cardinality(A) + Cardinality(B) - Cardinality(A \cap B)
    BY FS_Union
  <1> QED BY <1>1, <1>2, <1>3

Own(t, s, n) == {h \in {t} \X {"dir", "ino", "old"} : s[h[2]] = n}

LEMMA OwnCount ==
  ASSUME NEW t, NEW s, NEW n
  PROVE  IsFiniteSet(Own(t, s, n)) /\ Cardinality(Own(t, s, n)) = Held(s, n)
  <1> DEFINE M == Own(t, s, n)
             D == IF s.dir = n THEN {<<t, "dir">>} ELSE {}
             I == IF s.ino = n THEN {<<t, "ino">>} ELSE {}
             O == IF s.old = n THEN {<<t, "old">>} ELSE {}
  <1>1. /\ IsFiniteSet(D) /\ Cardinality(D) = One(s.dir = n)
        /\ IsFiniteSet(I) /\ Cardinality(I) = One(s.ino = n)
        /\ IsFiniteSet(O) /\ Cardinality(O) = One(s.old = n)
    BY FS_EmptySet, FS_Singleton DEF One
  <1>2. M = (D \cup I) \cup O
    <2>1. \A h : h \in M <=> /\ h \in {<<t, "dir">>, <<t, "ino">>, <<t, "old">>}
                            /\ s[h[2]] = n
      BY DEF Own
    <2>2. \A h : h \in D <=> h = <<t, "dir">> /\ s.dir = n
      OBVIOUS
    <2>3. \A h : h \in I <=> h = <<t, "ino">> /\ s.ino = n
      OBVIOUS
    <2>4. \A h : h \in O <=> h = <<t, "old">> /\ s.old = n
      OBVIOUS
    <2> HIDE DEF M, D, I, O
    <2> QED BY <2>1, <2>2, <2>3, <2>4
  <1>3. D \cap I = {} /\ (D \cup I) \cap O = {}
    OBVIOUS
  <1> HIDE DEF D, I, O
  <1>4. IsFiniteSet(D \cup I) /\ Cardinality(D \cup I) = Cardinality(D) + Cardinality(I)
    BY <1>1, <1>3, CountBoth
  <1>5. IsFiniteSet((D \cup I) \cup O) /\ Cardinality((D \cup I) \cup O) = Cardinality(D \cup I) + Cardinality(O)
    BY <1>1, <1>3, <1>4, CountBoth
  <1> HIDE DEF M
  <1>6. IsFiniteSet(M) /\ Cardinality(M) = One(s.dir = n) + One(s.ino = n) + One(s.old = n)
    BY <1>1, <1>2, <1>4, <1>5
  <1> QED BY <1>6 DEF Held, M

LEMMA HoldersAre ==
  ASSUME DirectoriesAssumption, NEW t \in Walkers, NEW s, NEW n
  PROVE  LET O == {h \in (Walkers \ {t}) \X {"dir", "ino", "old"} : task[h[1]][h[2]] = n} IN
         /\ Cardinality(O \cup Own(t, s, n)) = Cardinality(O) + Held(s, n)
         /\ Cardinality(O) \in Nat
  <1> DEFINE O == {h \in (Walkers \ {t}) \X {"dir", "ino", "old"} : task[h[1]][h[2]] = n}
  <1>1. IsFiniteSet(O)
    <2>1. IsFiniteSet({"dir"}) /\ IsFiniteSet({"dir"} \cup {"ino"}) /\ IsFiniteSet(({"dir"} \cup {"ino"}) \cup {"old"})
      BY FS_Singleton, FS_AddElement
    <2>2. {"dir", "ino", "old"} = ({"dir"} \cup {"ino"}) \cup {"old"}
      OBVIOUS
    <2>3. IsFiniteSet({"dir", "ino", "old"})
      BY <2>1, <2>2
    <2>4. IsFiniteSet(Walkers \ {t})
      BY FS_Difference DEF DirectoriesAssumption
    <2>5. IsFiniteSet((Walkers \ {t}) \X {"dir", "ino", "old"})
      BY <2>3, <2>4, FS_Product
    <2> QED BY <2>5, FS_Subset
  <1>2. IsFiniteSet(Own(t, s, n)) /\ Cardinality(Own(t, s, n)) = Held(s, n)
    BY OwnCount
  <1>3. O \cap Own(t, s, n) = {}
    BY DEF Own
  <1> HIDE DEF O
  <1>4. Cardinality(O \cup Own(t, s, n)) = Cardinality(O) + Cardinality(Own(t, s, n)) /\ Cardinality(O) \in Nat
    BY <1>1, <1>2, <1>3, CountBoth
  <1> QED BY <1>2, <1>4 DEF O

LEMMA HoldersCount ==
  ASSUME DirectoriesAssumption, NEW t \in Walkers, NEW n
  PROVE  Cardinality(HoldersOf(n)) \in Nat /\ Cardinality(HoldersOf(n)) >= Held(task[t], n)
  <1> DEFINE O == {h \in (Walkers \ {t}) \X {"dir", "ino", "old"} : task[h[1]][h[2]] = n}
  <1>1. HoldersOf(n) = O \cup Own(t, task[t], n)
    BY DEF HoldersOf, Own
  <1>2. Cardinality(O \cup Own(t, task[t], n)) = Cardinality(O) + Held(task[t], n) /\ Cardinality(O) \in Nat
    BY HoldersAre
  <1> HIDE DEF O
  <1> QED BY <1>1, <1>2, HeldIs

LEMMA HoldersChange ==
  ASSUME DirectoriesAssumption, NEW t \in Walkers, NEW s, NEW n,
         task = [u \in Walkers |-> task[u]], task' = [task EXCEPT ![t] = s]
  PROVE  Cardinality(HoldersOf(n)') = Cardinality(HoldersOf(n)) - Held(task[t], n) + Held(s, n)
  <1> DEFINE O == {h \in (Walkers \ {t}) \X {"dir", "ino", "old"} : task[h[1]][h[2]] = n}
  <1>1. HoldersOf(n) = O \cup Own(t, task[t], n)
    BY DEF HoldersOf, Own
  <1>2. HoldersOf(n)' = O \cup Own(t, s, n)
    <2>1. task'[t] = s /\ \A u \in Walkers \ {t} : task'[u] = task[u]
      OBVIOUS
    <2>2. HoldersOf(n)' = {h \in Walkers \X {"dir", "ino", "old"} : task'[h[1]][h[2]] = n}
      BY DEF HoldersOf
    <2> QED BY <2>1, <2>2 DEF Own
  <1>3. Cardinality(O \cup Own(t, task[t], n)) = Cardinality(O) + Held(task[t], n) /\ Cardinality(O) \in Nat
    BY HoldersAre
  <1>4. Cardinality(O \cup Own(t, s, n)) = Cardinality(O) + Held(s, n)
    BY HoldersAre
  <1> HIDE DEF O
  <1> QED BY <1>1, <1>2, <1>3, <1>4, HeldIs

-----------------------------------------------------------------------------
(* The table and one call after a step. *)

(* The counts move with the references of the task that goes on. *)
Counts(tab, tab2, r, s) ==
  \A n \in DirInodes : tab2[n].count = tab[n].count - Held(r, n) + Held(s, n)

LEMMA CountsFact ==
  ASSUME NamesInv, DirectoriesAssumption, NEW t \in Walkers, NEW n \in DirInodes
  PROVE  inode[n].count \in Nat /\ inode[n].count >= Held(task[t], n) + One(n = RootDir)
  <1>1. Cardinality(HoldersOf(n)) \in Nat /\ Cardinality(HoldersOf(n)) >= Held(task[t], n)
    BY HoldersCount DEF NamesInv
  <1>2. inode[n].count = Cardinality(HoldersOf(n)) + One(n = RootDir)
    BY DEF NamesInv, ReferencesAreHeld, HoldersOf, One
  <1> QED BY <1>1, <1>2, HeldIs DEF One

LEMMA CallStep ==
  ASSUME NamesInv, DirectoriesAssumption, NEW t \in Walkers, NEW s, IsCall(s),
         task' = [task EXCEPT ![t] = s], IsTable(inode'), Counts(inode, inode', task[t], s)
  PROVE  NamesInv'
  <1>1. task = [u \in Walkers |-> task[u]] /\ \A u \in Walkers : IsCall(task[u])
    BY DEF NamesInv
  <1>2. task' = [u \in Walkers |-> task'[u]] /\ task'[t] = s /\ \A u \in Walkers \ {t} : task'[u] = task[u]
    BY <1>1
  <1>3. \A u \in Walkers : IsCall(task[u])'
    <2> SUFFICES ASSUME NEW u \in Walkers PROVE IsCall(task'[u])
      BY DEF IsCall, Holds, HoldsIno, Lists, Follows
    <2> QED BY <1>1, <1>2
  <1>4. ReferencesAreHeld'
    <2> SUFFICES ASSUME NEW n \in DirInodes
                 PROVE  inode'[n].count = Cardinality(HoldersOf(n)') + One(n = RootDir)
      BY DEF ReferencesAreHeld, HoldersOf, One
    <2>1. inode[n].count = Cardinality(HoldersOf(n)) + One(n = RootDir)
      BY DEF NamesInv, ReferencesAreHeld, HoldersOf, One
    <2>2. Cardinality(HoldersOf(n)') = Cardinality(HoldersOf(n)) - Held(task[t], n) + Held(s, n)
      BY <1>1, HoldersChange
    <2>3. inode'[n].count = inode[n].count - Held(task[t], n) + Held(s, n)
      BY DEF Counts
    <2>4. Cardinality(HoldersOf(n)) \in Nat /\ Held(task[t], n) \in Nat /\ Held(s, n) \in Nat /\ One(n = RootDir) \in Nat
      BY <1>1, HoldersCount, HeldIs DEF One
    <2> QED BY <2>1, <2>2, <2>3, <2>4
  <1>5. IsTable(inode)'
    BY DEF IsTable, InodeRecords, Entry, EntrySlots
  <1> QED BY <1>2, <1>3, <1>4, <1>5 DEF NamesInv

LEMMA GetCounts ==
  ASSUME NEW tab, IsTable(tab), NEW n \in DirInodes, tab[n].type # "free"
  PROVE  /\ IsTable(GetRef(tab, n))
         /\ \A m \in DirInodes : GetRef(tab, n)[m].count = tab[m].count + One(n = m)
         /\ \A m \in DirInodes : GetRef(tab, n)[m].type = tab[m].type
  <1> DEFINE j == [tab[n] EXCEPT !.count = @ + 1]
             new == [tab EXCEPT ![n] = j]
  <1>1. GetRef(tab, n) = new
    BY DEF GetRef
  <1>2. tab[n] \in InodeRecords /\ tab \in [DirInodes -> InodeRecords]
    BY DEF IsTable
  <1>3. j \in InodeRecords /\ j.count = tab[n].count + 1 /\ j.type = tab[n].type /\ tab[n].count \in Int
    BY <1>2 DEF InodeRecords
  <1> HIDE DEF j
  <1>4. new \in [DirInodes -> InodeRecords] /\ new[n] = j /\ \A m \in DirInodes \ {n} : new[m] = tab[m]
    BY <1>2, <1>3
  <1>5. \A m \in DirInodes : tab[m].count \in Int
    BY <1>2 DEF InodeRecords
  <1> HIDE DEF new
  <1>6. IsTable(new)
    BY <1>3, <1>4 DEF IsTable
  <1>7. \A m \in DirInodes : new[m].count = tab[m].count + One(n = m)
    BY <1>3, <1>4, <1>5 DEF One
  <1>8. \A m \in DirInodes : new[m].type = tab[m].type
    BY <1>3, <1>4
  <1> QED BY <1>1, <1>6, <1>7, <1>8

LEMMA GetRootIs ==
  ASSUME NEW tab, IsTable(tab), RootDir \in DirInodes, tab[RootDir].count >= 1
  PROVE  /\ IsTable(GetRef(tab, RootDir)) /\ tab[RootDir].type # "free"
         /\ \A m \in DirInodes : GetRef(tab, RootDir)[m].count = tab[m].count + One(RootDir = m)
         /\ \A m \in DirInodes : GetRef(tab, RootDir)[m].type = tab[m].type
  <1>1. tab[RootDir].type # "free"
    BY DEF IsTable
  <1> QED BY <1>1, GetCounts

(* iput takes a reference away, and the inode with the last one of a file that
   has no names. *)
LEMMA PutCounts ==
  ASSUME NEW tab, IsTable(tab), NEW n \in DirInodes, tab[n].count >= 1
  PROVE  IsTable(Put(tab, n)) /\ \A m \in DirInodes : Put(tab, n)[m].count = tab[m].count - One(n = m)
  <1>1. tab[n] \in InodeRecords /\ tab \in [DirInodes -> InodeRecords] /\ \A m \in DirInodes : tab[m].count \in Int
    BY DEF IsTable, InodeRecords
  <1>2. tab[n].count \in Int /\ tab[n].nlinks \in Int
    BY <1>1 DEF InodeRecords
  <1> DEFINE j == [tab[n] EXCEPT !.count = @ - 1]
  <1>3. CASE tab[n].count > 1 \/ tab[n].nlinks > 0
    <2> DEFINE new == [tab EXCEPT ![n] = j]
    <2>1. Put(tab, n) = new
      BY <1>3 DEF Put
    <2>2. j \in InodeRecords /\ j.count = tab[n].count - 1 /\ j.type = tab[n].type
      BY <1>1 DEF InodeRecords
    <2>3. tab[n].type # "free"
      BY DEF IsTable
    <2> HIDE DEF j
    <2>4. new \in [DirInodes -> InodeRecords] /\ new[n] = j /\ \A m \in DirInodes \ {n} : new[m] = tab[m]
      BY <1>1, <2>2
    <2> HIDE DEF new
    <2>5. IsTable(new)
      BY <2>2, <2>3, <2>4 DEF IsTable
    <2>6. \A m \in DirInodes : new[m].count = tab[m].count - One(n = m)
      BY <1>1, <2>2, <2>4 DEF One
    <2> QED BY <2>1, <2>5, <2>6
  <1>4. CASE ~(tab[n].count > 1 \/ tab[n].nlinks > 0)
    <2> DEFINE new == [tab EXCEPT ![n] = NoInode]
    <2>1. Put(tab, n) = new
      BY <1>4 DEF Put
    <2>2. NoInode \in InodeRecords /\ NoInode.count = 0
      BY DEF InodeRecords, NoInode, NoEntries, FreeSlot, Entry, Types
    <2>3. tab[n].count = 1 /\ tab[n].nlinks <= 0
      BY <1>2, <1>4
    <2>4. new \in [DirInodes -> InodeRecords] /\ new[n] = NoInode /\ \A m \in DirInodes \ {n} : new[m] = tab[m]
      BY <1>1, <2>2
    <2> HIDE DEF new
    <2>5. IsTable(new)
      BY <2>2, <2>4 DEF IsTable
    <2>6. \A m \in DirInodes : new[m].count = tab[m].count - One(n = m)
      BY <1>1, <2>2, <2>3, <2>4 DEF One
    <2> QED BY <2>1, <2>5, <2>6
  <1> QED BY <1>3, <1>4

-----------------------------------------------------------------------------
(* A call goes to another place. *)
Same(c, s) ==
  /\ c.op = s.op /\ c.path = s.path /\ c.dir = s.dir /\ c.ino = s.ino /\ c.old = s.old /\ c.puts = s.puts
  /\ c.slot = s.slot

LEMMA GoIs ==
  ASSUME NEW s \in CallRecords, NEW pc \in Pcs
  PROVE  LET c == [s EXCEPT !.pc = pc] IN
         c \in CallRecords /\ c.pc = pc /\ Same(c, s) /\ c.nr = s.nr /\ c.name = s.name
  BY DEF CallRecords, Same

LEMMA NameIs ==
  ASSUME NEW s \in CallRecords, NEW name \in Names \cup {Null}
  PROVE  LET c == [s EXCEPT !.name = name] IN
         c \in CallRecords /\ c.pc = s.pc /\ Same(c, s) /\ c.nr = s.nr /\ c.name = name
  BY DEF CallRecords, Same

LEMMA NrIs ==
  ASSUME NEW s \in CallRecords, NEW nr \in DirInodes \cup {Null}
  PROVE  LET c == [s EXCEPT !.nr = nr] IN
         c \in CallRecords /\ c.pc = s.pc /\ Same(c, s) /\ c.nr = nr /\ c.name = s.name
  BY DEF CallRecords, Same

(* What is left of a call that has iputs to do. *)
Left(s, puts) == [IdleCall EXCEPT !.pc = "put", !.dir = s.dir, !.ino = s.ino, !.old = s.old, !.puts = puts]

LEMMA LeftIs ==
  ASSUME NEW s, NEW puts, Lists(puts, s),
         s.dir \in DirInodes \cup {Null}, s.ino \in DirInodes \cup {Null}, s.old \in DirInodes \cup {Null}
  PROVE  /\ IsCall(Left(s, puts)) /\ \A n : Held(Left(s, puts), n) = Held(s, n)
         /\ Left(s, puts).pc = "put" /\ Left(s, puts).op = Null
  <1> DEFINE c == Left(s, puts)
  <1>1. /\ c.pc = "put" /\ c.dir = s.dir /\ c.ino = s.ino /\ c.old = s.old /\ c.puts = puts /\ c.op = Null
    BY DEF Left, IdleCall
  <1>2. c \in CallRecords
    <2>1. "put" \in Pcs /\ puts \in Seq(Refs)
      BY DEF Pcs, Lists
    <2>2. IdleCall \in CallRecords
      <3>1. <<>> \in Seq(Names) /\ <<>> \in Seq(Refs) /\ "idle" \in Pcs
        BY DEF Pcs
      <3> QED BY <3>1 DEF IdleCall, CallRecords
    <2>3. \A a \in CallRecords : [a EXCEPT !.pc = "put", !.dir = s.dir] \in CallRecords
      BY <2>1 DEF CallRecords
    <2>4. \A a \in CallRecords : [a EXCEPT !.ino = s.ino, !.old = s.old, !.puts = puts] \in CallRecords
      BY <2>1 DEF CallRecords
    <2>5. c = [[IdleCall EXCEPT !.pc = "put", !.dir = s.dir] EXCEPT !.ino = s.ino, !.old = s.old, !.puts = puts]
      BY DEF Left
    <2> HIDE DEF c
    <2> QED BY <2>2, <2>3, <2>4, <2>5
  <1>3. Lists(c.puts, c)
    <2>1. \A f \in Refs : c[f] = s[f]
      BY <1>1 DEF Refs
    <2>2. \A i \in 1..Len(puts) : puts[i] \in Refs
      BY DEF Lists
    <2> HIDE DEF c
    <2> QED BY <1>1, <2>1, <2>2 DEF Lists
  <1> HIDE DEF c
  <1>4. IsCall(c)
    BY <1>1, <1>2, <1>3 DEF IsCall, Walking
  <1>5. \A n : Held(c, n) = Held(s, n)
    BY <1>1 DEF Held
  <1> QED BY <1>1, <1>4, <1>5 DEF c

(* The lists of one and of two iputs. *)
LEMMA ListsNone ==
  ASSUME NEW s, \A f \in Refs : s[f] = Null
  PROVE  Lists(<<>>, s)
  BY DEF Lists

LEMMA ListsOne ==
  ASSUME NEW s, NEW f \in Refs, s[f] \in DirInodes, \A g \in Refs \ {f} : s[g] = Null
  PROVE  Lists(<<f>>, s)
  <1> DEFINE puts == <<f>>
  <1>1. puts \in Seq(Refs) /\ Len(puts) = 1 /\ puts[1] = f
    OBVIOUS
  <1> HIDE DEF puts
  <1>2. \A i \in 1..Len(puts) : i = 1
    BY <1>1
  <1>3. Lists(puts, s)
    BY <1>1, <1>2 DEF Lists
  <1> QED BY <1>3 DEF puts

LEMMA ListsTwo ==
  ASSUME NEW s, NEW f \in Refs, NEW g \in Refs \ {f}, s[f] \in DirInodes, s[g] \in DirInodes,
         \A h \in Refs \ {f, g} : s[h] = Null
  PROVE  Lists(<<f, g>>, s)
  <1> DEFINE puts == <<f, g>>
  <1>1. puts \in Seq(Refs) /\ Len(puts) = 2 /\ puts[1] = f /\ puts[2] = g
    OBVIOUS
  <1> HIDE DEF puts
  <1>2. \A i \in 1..Len(puts) : i = 1 \/ i = 2
    BY <1>1
  <1>3. Lists(puts, s)
    BY <1>1, <1>2 DEF Lists
  <1> QED BY <1>3 DEF puts

LEMMA CallTypes ==
  ASSUME DirectoriesAssumption, NEW s, IsCall(s)
  PROVE  /\ s.dir \in DirInodes \cup {Null} /\ s.ino \in DirInodes \cup {Null} /\ s.old \in DirInodes \cup {Null}
         /\ s.nr \in DirInodes \cup {Null} /\ s.path \in Seq(Names) /\ s.pc \in Pcs /\ s.op \in Ops \cup {Null}
         /\ s.name \in Names \cup {Null} /\ s.slot \in EntrySlots \cup {Null}
         /\ Null \notin DirInodes
  BY DEF IsCall, CallRecords, DirectoriesAssumption

(* get_dir is at the head of its loop in d: it goes on, or leaves with iputs
   for what the call holds. *)
InDirectory(s) ==
  /\ s \in CallRecords /\ s.op \in Ops /\ Len(s.path) > 0 /\ s.ino = Null
  /\ s.old # Null <=> s.op = "link"

Entered(c, s, d, tab) ==
  \/ c = Left([s EXCEPT !.dir = d], IF s.old = Null THEN <<"dir">> ELSE <<"dir", "old">>)
  \/ /\ tab[d].type = "dir" /\ c.pc \in {"step", "find", "new"} /\ c.op = s.op /\ c.ino = Null
     /\ c.pc = "find" => c.op # "symlink"

LEMMA EnterIs ==
  ASSUME DirectoriesAssumption, NEW t \in Walkers, NEW tab, NEW s, InDirectory(s), NEW d \in DirInodes,
         Enter(t, tab, s, d)
  PROVE  \E c : /\ IsCall(c) /\ task' = [task EXCEPT ![t] = c] /\ inode' = tab
                /\ c.dir = d /\ c.ino = Null /\ c.old = s.old
                /\ Entered(c, s, d, tab)
  <1> DEFINE r == [s EXCEPT !.dir = d]
  <1>1. /\ r \in CallRecords /\ r.dir = d /\ r.ino = Null /\ r.old = s.old /\ r.op = s.op /\ r.path = s.path
        /\ r.puts = s.puts
    BY DEF InDirectory, CallRecords
  <1>2. s.old \in DirInodes \cup {Null} /\ Null \notin DirInodes
    BY DEF InDirectory, CallRecords, DirectoriesAssumption
  <1>3. inode' = tab
    BY DEF Enter
  <1>4. CASE tab[d].type # "dir" \/ ~Permitted(tab, d)
    <2> DEFINE puts == IF s.old = Null THEN <<"dir">> ELSE <<"dir", "old">>
    <2>1. task' = [task EXCEPT ![t] = Left(r, puts)]
      BY <1>1, <1>4 DEF Enter, Leaves, Left
    <2>2. Lists(puts, r)
      <3>1. r["dir"] = d /\ r["ino"] = Null /\ r["old"] = s.old /\ "dir" \in Refs /\ "old" \in Refs
        BY <1>1 DEF Refs
      <3> HIDE DEF r
      <3>2. CASE s.old = Null
        <4>1. \A g \in Refs \ {"dir"} : r[g] = Null
          BY <3>1, <3>2 DEF Refs
        <4> QED BY <3>1, <3>2, <4>1, ListsOne
      <3>3. CASE s.old # Null
        <4>1. \A g \in Refs \ {"old", "dir"} : r[g] = Null
          BY <3>1 DEF Refs
        <4> QED BY <1>2, <3>1, <3>3, <4>1, ListsTwo
      <3> QED BY <3>2, <3>3
    <2>3. IsCall(Left(r, puts))
      BY <1>1, <1>2, <2>2, LeftIs
    <2>4. Left(r, puts).dir = d /\ Left(r, puts).ino = Null /\ Left(r, puts).old = s.old
      BY <1>1 DEF Left, IdleCall
    <2> QED BY <1>3, <2>1, <2>3, <2>4 DEF Entered
  <1>5. CASE tab[d].type = "dir" /\ Permitted(tab, d)
    <2>1. PICK pc \in {"step", "find", "new"}, name \in Names \cup {Null} :
            /\ task' = [task EXCEPT ![t] = [[r EXCEPT !.name = name] EXCEPT !.pc = pc]]
            /\ pc = "find" => s.op # "symlink"
            /\ pc = "new" => s.op = "symlink"
            /\ pc = "step" => Len(s.path) > 1
      <3>1. CASE Len(s.path) > 1
        <4>1. task' = [task EXCEPT ![t] = [r EXCEPT !.pc = "step"]]
          BY <1>5, <3>1 DEF Enter, GoesTo
        <4>2. [r EXCEPT !.name = r.name] = r /\ r.name \in Names \cup {Null}
          BY <1>1 DEF CallRecords
        <4> QED BY <3>1, <4>1, <4>2
      <3>2. CASE ~(Len(s.path) > 1)
        <4> DEFINE pc == IF s.op = "symlink" THEN "new" ELSE "find"
        <4>1. task' = [task EXCEPT ![t] = [[r EXCEPT !.name = Head(s.path)] EXCEPT !.pc = pc]]
          BY <1>5, <3>2 DEF Enter, GoesTo
        <4>2. Head(s.path) \in Names
          <5>1. s.path \in Seq(Names) /\ s.path # <<>>
            BY DEF InDirectory, CallRecords
          <5> QED BY <5>1
        <4> QED BY <4>1, <4>2
      <3> QED BY <3>1, <3>2
    <2> DEFINE c == [[r EXCEPT !.name = name] EXCEPT !.pc = pc]
    <2>2. /\ c \in CallRecords /\ c.pc = pc /\ c.op = s.op /\ c.dir = d /\ c.ino = Null /\ c.old = s.old
          /\ c.path = s.path
      <3> DEFINE a == [r EXCEPT !.name = name]
      <3> HIDE DEF r
      <3>1. a \in CallRecords /\ Same(a, r)
        BY <1>1, NameIs
      <3>2. c = [a EXCEPT !.pc = pc]
        OBVIOUS
      <3>3. pc \in Pcs
        BY DEF Pcs, Walking
      <3> HIDE DEF a, c
      <3>4. c \in CallRecords /\ c.pc = pc /\ Same(c, a)
        BY <3>1, <3>2, <3>3, GoIs
      <3> QED BY <1>1, <3>1, <3>4 DEF Same
    <2>3. s.op \in Ops /\ Len(s.path) > 0 /\ (s.old # Null <=> s.op = "link")
      BY DEF InDirectory
    <2> HIDE DEF c, r
    <2>4. IsCall(c)
      BY <1>2, <2>1, <2>2, <2>3 DEF IsCall, Holds, HoldsIno, Walking, Creators
    <2>5. Entered(c, s, d, tab)
      BY <1>5, <2>1, <2>2 DEF Entered
    <2> QED BY <1>3, <2>1, <2>2, <2>4, <2>5 DEF c
  <1> QED BY <1>4, <1>5

(* A path, or a part of it, names n, to which the call has a reference, and
   neither to a directory nor to another inode, but for the old one of link. *)
Arrived(s) == InDirectory(s) /\ Follows(s)

(* The call that goes on holds n, or has gone on from there. *)
GoesOn(c, s, n, tab, tab2) ==
  /\ IsCall(c) /\ IsTable(tab2)
  /\ \A m \in DirInodes : tab2[m].count - Held(c, m) = tab[m].count - One(n = m) - One(s.old = m)
  /\ c.pc \in {"put", "step", "find", "new", "open"}
  /\ c.pc \in {"step", "find", "new"} => tab[c.dir].type = "dir" /\ c.ino = Null
  /\ c.pc \in {"step", "find", "new"} /\ c.op = "link" => c.old = s.old \/ (c.old = n /\ tab[n].type # "dir")
  /\ tab2 = tab \/ (tab2 = GetRef(tab, RootDir) /\ tab[RootDir].type # "free")

LEMMA OpenIs ==
  ASSUME DirectoriesAssumption, NEW n \in DirInodes
  PROVE  LET c == [[IdleCall EXCEPT !.ino = n] EXCEPT !.pc = "open"] IN
         IsCall(c) /\ c.dir = Null /\ c.ino = n /\ c.old = Null /\ c.pc = "open"
  <1> DEFINE c == [[IdleCall EXCEPT !.ino = n] EXCEPT !.pc = "open"]
  <1>1. c.dir = Null /\ c.ino = n /\ c.old = Null /\ c.pc = "open" /\ c.op = Null
    BY DEF IdleCall
  <1>2. c \in CallRecords
    <2>1. <<>> \in Seq(Names) /\ <<>> \in Seq(Refs) /\ "idle" \in Pcs /\ "open" \in Pcs
      BY DEF Pcs
    <2>2. IdleCall \in CallRecords
      BY <2>1 DEF IdleCall, CallRecords
    <2>3. \A a \in CallRecords : [[a EXCEPT !.ino = n] EXCEPT !.pc = "open"] \in CallRecords
      BY <2>1 DEF CallRecords
    <2> QED BY <2>2, <2>3
  <1> HIDE DEF c
  <1>3. IsCall(c)
    BY <1>1, <1>2 DEF IsCall, Holds, HoldsIno, Walking, DirectoriesAssumption
  <1> QED BY <1>1, <1>3 DEF c

LEMMA TargetIs ==
  ASSUME DirectoriesAssumption, NEW t \in Walkers, NEW tab, IsTable(tab), tab[RootDir].count >= 1,
         NEW s, Arrived(s), NEW n \in DirInodes, Target(t, tab, s, n)
  PROVE  \E c : task' = [task EXCEPT ![t] = c] /\ GoesOn(c, s, n, tab, inode')
  <1>1. /\ s \in CallRecords /\ s.op \in Ops /\ s.ino = Null /\ (s.old # Null <=> s.op = "link") /\ Len(s.path) > 0
        /\ s.path \in Seq(Names) /\ s.old \in DirInodes \cup {Null} /\ Null \notin DirInodes /\ RootDir \in DirInodes
        /\ Len(s.path) > 1 \/ s.op \in {"open", "creat", "namei", "linkold"}
    BY DEF Arrived, InDirectory, CallRecords, Follows, DirectoriesAssumption
  <1>2. \A m \in DirInodes : tab[m].count \in Int
    BY DEF IsTable, InodeRecords
  <1>3. ASSUME NEW r, InDirectory(r), NEW tab2, NEW d \in DirInodes, Enter(t, tab2, r, d), IsTable(tab2),
               \A m \in DirInodes : tab2[m].type = tab[m].type,
               tab2 = tab \/ (tab2 = GetRef(tab, RootDir) /\ tab[RootDir].type # "free"),
               \A m \in DirInodes :
                 tab2[m].count - One(d = m) - One(r.old = m) = tab[m].count - One(n = m) - One(s.old = m),
               r.op = "link" => r.old = s.old \/ (r.old = n /\ tab[n].type # "dir")
        PROVE  \E c : task' = [task EXCEPT ![t] = c] /\ GoesOn(c, s, n, tab, inode')
    <2>1. PICK c : /\ IsCall(c) /\ task' = [task EXCEPT ![t] = c] /\ inode' = tab2
                   /\ c.dir = d /\ c.ino = Null /\ c.old = r.old /\ Entered(c, r, d, tab2)
      BY <1>3, EnterIs
    <2>2. \A m \in DirInodes : Held(c, m) = One(d = m) + One(r.old = m)
      BY <1>1, <2>1 DEF Held, One
    <2>3. \A m \in DirInodes : tab2[m].count \in Int
      BY <1>3 DEF IsTable, InodeRecords
    <2>4. \A m \in DirInodes : inode'[m].count - Held(c, m) = tab[m].count - One(n = m) - One(s.old = m)
      BY <1>3, <2>1, <2>2, <2>3 DEF One
    <2>5. \/ c.pc = "put"
          \/ tab[d].type = "dir" /\ c.pc \in {"step", "find", "new"} /\ c.op = r.op
      <3>1. Left([r EXCEPT !.dir = d], IF r.old = Null THEN <<"dir">> ELSE <<"dir", "old">>).pc = "put"
        BY DEF Left, IdleCall
      <3> QED BY <1>3, <2>1, <3>1 DEF Entered
    <2> QED BY <1>3, <2>1, <2>4, <2>5 DEF GoesOn
  <1>4. CASE Len(s.path) > 1
    <2> DEFINE r == [s EXCEPT !.path = Tail(@)]
    <2>1. Enter(t, tab, r, n)
      BY <1>4 DEF Target
    <2>2. Tail(s.path) \in Seq(Names) /\ Len(Tail(s.path)) > 0
      BY <1>1, <1>4
    <2>3. r \in CallRecords /\ r.op = s.op /\ r.ino = Null /\ r.old = s.old /\ r.path = Tail(s.path)
      BY <1>1, <2>2 DEF CallRecords
    <2> HIDE DEF r
    <2>4. InDirectory(r)
      BY <1>1, <2>2, <2>3 DEF InDirectory
    <2>5. \A m \in DirInodes :
            tab[m].count - One(n = m) - One(r.old = m) = tab[m].count - One(n = m) - One(s.old = m)
      BY <2>3
    <2> QED BY <1>3, <2>1, <2>3, <2>4, <2>5
  <1>5. ASSUME inode' = tab, s.op # "link", Leaves(t, [s EXCEPT !.dir = Null, !.ino = n], <<"ino">>)
        PROVE  \E c : task' = [task EXCEPT ![t] = c] /\ GoesOn(c, s, n, tab, inode')
    <2> DEFINE r == [s EXCEPT !.dir = Null, !.ino = n]
               c == Left(r, <<"ino">>)
    <2>1. r \in CallRecords /\ r.dir = Null /\ r.ino = n /\ r.old = Null
      BY <1>1, <1>5 DEF CallRecords
    <2>2. task' = [task EXCEPT ![t] = c]
      BY <1>5 DEF Leaves, Left
    <2>3. Lists(<<"ino">>, r)
      <3>1. "ino" \in Refs /\ r["ino"] \in DirInodes /\ \A g \in Refs \ {"ino"} : r[g] = Null
        BY <2>1 DEF Refs
      <3> HIDE DEF r
      <3> QED BY <3>1, ListsOne
    <2> HIDE DEF r
    <2>4. IsCall(c) /\ c.pc = "put" /\ \A m : Held(c, m) = Held(r, m)
      BY <2>1, <2>3, LeftIs
    <2>5. \A m \in DirInodes : Held(r, m) = One(n = m) /\ One(s.old = m) = 0
      BY <1>1, <1>5, <2>1 DEF Held, One
    <2>6. \A m \in DirInodes : One(n = m) \in Int
      BY DEF One
    <2> HIDE DEF c
    <2>7. \A m \in DirInodes : inode'[m].count - Held(c, m) = tab[m].count - One(n = m) - One(s.old = m)
      BY <1>2, <1>5, <2>4, <2>5, <2>6
    <2> QED BY <1>5, <2>2, <2>4, <2>7 DEF GoesOn
  <1>6. CASE ~(Len(s.path) > 1) /\ (s.op = "namei" \/ (s.op = "linkold" /\ tab[n].type = "dir"))
    BY <1>5, <1>6 DEF Target
  <1>7. CASE ~(Len(s.path) > 1) /\ s.op = "linkold" /\ tab[n].type # "dir"
    <2>1. PICK p \in Paths :
            Enter(t, GetRef(tab, RootDir), [IdleCall EXCEPT !.op = "link", !.path = p, !.old = n], RootDir)
      BY <1>7 DEF Target
    <2> DEFINE r == [IdleCall EXCEPT !.op = "link", !.path = p, !.old = n]
               tab2 == GetRef(tab, RootDir)
    <2>2. r.op = "link" /\ r.path = p /\ r.old = n /\ r.ino = Null
      BY DEF IdleCall
    <2>3. p \in Seq(Names) /\ Len(p) > 0
      <3>1. p \in Seq(Names) /\ p # <<>>
        BY DEF DirectoriesAssumption
      <3> QED BY <3>1
    <2>4. r \in CallRecords
      <3>1. <<>> \in Seq(Names) /\ <<>> \in Seq(Refs) /\ "idle" \in Pcs /\ "link" \in Ops
        BY DEF Pcs, Ops
      <3>2. IdleCall \in CallRecords
        BY <3>1 DEF IdleCall, CallRecords
      <3>3. \A a \in CallRecords : [a EXCEPT !.op = "link", !.path = p, !.old = n] \in CallRecords
        BY <2>3, <3>1 DEF CallRecords
      <3> QED BY <3>2, <3>3
    <2>5. tab[RootDir].type # "free"
      BY <1>1 DEF IsTable
    <2>6. IsTable(tab2) /\ \A m \in DirInodes : tab2[m].count = tab[m].count + One(RootDir = m)
      BY <1>1, GetRootIs
    <2>7. \A m \in DirInodes : tab2[m].type = tab[m].type
      BY <1>1, GetRootIs
    <2> HIDE DEF r, tab2
    <2>8. InDirectory(r)
      BY <1>1, <2>2, <2>3, <2>4 DEF InDirectory, Ops
    <2>9. \A m \in DirInodes :
            tab2[m].count - One(RootDir = m) - One(r.old = m) = tab[m].count - One(n = m) - One(s.old = m)
      <3>1. \A m \in DirInodes : One(s.old = m) = 0
        BY <1>1, <1>7 DEF One
      <3>2. \A m \in DirInodes : One(RootDir = m) \in Int /\ One(n = m) \in Int
        BY DEF One
      <3> QED BY <1>2, <2>2, <2>6, <3>1, <3>2
    <2>10. Enter(t, tab2, r, RootDir)
      BY <2>1 DEF r, tab2
    <2>11. tab2 = GetRef(tab, RootDir)
      BY DEF tab2
    <2> QED BY <1>1, <1>3, <1>7, <2>2, <2>5, <2>6, <2>7, <2>8, <2>9, <2>10, <2>11
  <1>8. CASE ~(Len(s.path) > 1) /\ s.op \notin {"namei", "linkold"}
    <2>1. s.op # "link"
      BY <1>1, <1>8
    <2>2. /\ inode' = tab
          /\ \/ Leaves(t, [s EXCEPT !.dir = Null, !.ino = n], <<"ino">>)
             \/ GoesTo(t, "open", [IdleCall EXCEPT !.ino = n])
      BY <1>8 DEF Target
    <2>3. CASE GoesTo(t, "open", [IdleCall EXCEPT !.ino = n])
      <3> DEFINE c == [[IdleCall EXCEPT !.ino = n] EXCEPT !.pc = "open"]
      <3>1. task' = [task EXCEPT ![t] = c]
        BY <2>3 DEF GoesTo
      <3>2. IsCall(c) /\ c.dir = Null /\ c.ino = n /\ c.old = Null /\ c.pc = "open"
        BY OpenIs
      <3> HIDE DEF c
      <3>3. \A m \in DirInodes : Held(c, m) = One(n = m) /\ One(s.old = m) = 0 /\ One(n = m) \in Int
        BY <1>1, <2>1, <3>2 DEF Held, One
      <3>4. \A m \in DirInodes : inode'[m].count - Held(c, m) = tab[m].count - One(n = m) - One(s.old = m)
        BY <1>2, <2>2, <3>3
      <3> QED BY <2>2, <3>1, <3>2, <3>4 DEF GoesOn
    <2> QED BY <1>5, <2>1, <2>2, <2>3
  <1> QED BY <1>4, <1>6, <1>7, <1>8

-----------------------------------------------------------------------------
(* One lemma per action. *)
LEMMA CallFacts ==
  ASSUME NamesInv, DirectoriesAssumption, NEW t \in Walkers
  PROVE  /\ IsCall(task[t]) /\ task[t] \in CallRecords /\ IsTable(inode) /\ inode[RootDir].count >= 1
         /\ task[t].dir \in DirInodes \cup {Null} /\ task[t].ino \in DirInodes \cup {Null}
         /\ task[t].old \in DirInodes \cup {Null} /\ task[t].path \in Seq(Names)
         /\ Null \notin DirInodes /\ RootDir \in DirInodes
         /\ \A n \in DirInodes : inode[n].count \in Nat /\ inode[n].count >= Held(task[t], n)
  <1>1. IsCall(task[t]) /\ IsTable(inode) /\ RootDir \in DirInodes
    BY DEF NamesInv, DirectoriesAssumption
  <1>2. \A n \in DirInodes : inode[n].count \in Nat /\ inode[n].count >= Held(task[t], n) + One(n = RootDir)
    BY CountsFact
  <1>3. \A n \in DirInodes : Held(task[t], n) \in Nat /\ One(n = RootDir) \in Nat /\ One(RootDir = RootDir) = 1
    BY HeldIs DEF One
  <1>4. \A n \in DirInodes : inode[n].count >= Held(task[t], n)
    BY <1>2, <1>3
  <1>5. inode[RootDir].count >= 1
    <2>1. inode[RootDir].count >= Held(task[t], RootDir) + One(RootDir = RootDir)
      BY <1>1, <1>2
    <2> QED BY <1>1, <1>2, <1>3, <2>1
  <1> QED BY <1>1, <1>2, <1>4, <1>5, CallTypes DEF IsCall

LEMMA LeaveStep ==
  ASSUME NamesInv, DirectoriesAssumption, NEW t \in Walkers, NEW s, NEW puts,
         Leaves(t, s, puts), Lists(puts, s),
         s.dir \in DirInodes \cup {Null}, s.ino \in DirInodes \cup {Null}, s.old \in DirInodes \cup {Null},
         IsTable(inode'), Counts(inode, inode', task[t], s)
  PROVE  NamesInv'
  <1>1. task' = [task EXCEPT ![t] = Left(s, puts)]
    BY DEF Leaves, Left
  <1>2. IsCall(Left(s, puts)) /\ \A n : Held(Left(s, puts), n) = Held(s, n)
    BY LeftIs
  <1>3. Counts(inode, inode', task[t], Left(s, puts))
    BY <1>2 DEF Counts
  <1> QED BY <1>1, <1>2, <1>3, CallStep

LEMMA GoStep ==
  ASSUME NamesInv, DirectoriesAssumption, NEW t \in Walkers, NEW s \in CallRecords, NEW pc \in Pcs,
         GoesTo(t, pc, s), IsCall([s EXCEPT !.pc = pc]),
         IsTable(inode'), Counts(inode, inode', task[t], s)
  PROVE  NamesInv'
  <1> DEFINE c == [s EXCEPT !.pc = pc]
  <1>1. task' = [task EXCEPT ![t] = c]
    BY DEF GoesTo
  <1>2. Same(c, s)
    BY GoIs
  <1> HIDE DEF c
  <1>3. \A n : Held(c, n) = Held(s, n)
    BY <1>2 DEF Held, Same
  <1>4. Counts(inode, inode', task[t], c)
    BY <1>3 DEF Counts
  <1> QED BY <1>1, <1>4, CallStep DEF c

(* A step that changes no reference. *)
LEMMA SameCounts ==
  ASSUME NamesInv, DirectoriesAssumption, NEW t \in Walkers, NEW s,
         s.dir = task[t].dir, s.ino = task[t].ino, s.old = task[t].old,
         \A n \in DirInodes : inode'[n].count = inode[n].count
  PROVE  Counts(inode, inode', task[t], s)
  <1>1. \A n \in DirInodes : inode[n].count \in Nat /\ Held(task[t], n) \in Nat /\ Held(s, n) = Held(task[t], n)
    BY CallFacts, HeldIs DEF Held
  <1> QED BY <1>1 DEF Counts

LEMMA BeginStep ==
  ASSUME NamesInv, DirectoriesAssumption, NEW t \in Walkers, Begin(t)
  PROVE  NamesInv'
  <1>1. /\ IsCall(task[t]) /\ IsTable(inode) /\ inode[RootDir].count >= 1 /\ RootDir \in DirInodes
        /\ Null \notin DirInodes
    BY CallFacts
  <1>2. task[t].dir = Null /\ task[t].ino = Null /\ task[t].old = Null
    BY <1>1 DEF Begin, IsAt, IsCall, Holds, HoldsIno, Walking
  <1>3. PICK op \in Operations, p \in Paths :
          Enter(t, GetRef(inode, RootDir), [IdleCall EXCEPT !.op = IF op = "link" THEN "linkold" ELSE op, !.path = p], RootDir)
    BY Zenon DEF Begin
  <1> DEFINE r == [IdleCall EXCEPT !.op = IF op = "link" THEN "linkold" ELSE op, !.path = p]
             tab == GetRef(inode, RootDir)
  <1>4. InDirectory(r)
    <2>1. p \in Seq(Names) /\ Len(p) > 0
      <3>1. p \in Seq(Names) /\ p # <<>>
        BY DEF DirectoriesAssumption
      <3> QED BY <3>1
    <2>2. (IF op = "link" THEN "linkold" ELSE op) \in Ops \ {"link"}
      BY DEF DirectoriesAssumption, Ops
    <2>3. IdleCall \in CallRecords
      <3>1. <<>> \in Seq(Names) /\ <<>> \in Seq(Refs) /\ "idle" \in Pcs
        BY DEF Pcs
      <3> QED BY <3>1 DEF IdleCall, CallRecords
    <2>5. r.op \in Ops \ {"link"} /\ r.path = p /\ r.ino = Null /\ r.old = Null
      BY <2>2 DEF IdleCall
    <2>6. r \in CallRecords
      <3> DEFINE o == IF op = "link" THEN "linkold" ELSE op
      <3>1. r = [IdleCall EXCEPT !.op = o, !.path = p]
        OBVIOUS
      <3>2. o \in Ops
        BY <2>2
      <3> HIDE DEF o, r
      <3>3. [IdleCall EXCEPT !.op = o, !.path = p] \in CallRecords
        BY <2>1, <2>3, <3>2 DEF CallRecords
      <3> QED BY <3>1, <3>3, Zenon
    <2> HIDE DEF r
    <2> QED BY <2>1, <2>5, <2>6 DEF InDirectory
  <1>5. IsTable(tab) /\ \A m \in DirInodes : tab[m].count = inode[m].count + One(RootDir = m)
    BY <1>1, GetRootIs
  <1>6. r.old = Null
    BY DEF IdleCall
  <1> HIDE DEF r, tab
  <1>7. Enter(t, tab, r, RootDir)
    BY <1>3 DEF r, tab
  <1>8. PICK c : IsCall(c) /\ task' = [task EXCEPT ![t] = c] /\ inode' = tab
                 /\ c.dir = RootDir /\ c.ino = Null /\ c.old = r.old
    BY <1>1, <1>4, <1>7, EnterIs
  <1>9. Counts(inode, inode', task[t], c)
    <2>1. \A m \in DirInodes : inode[m].count \in Nat
      BY CallFacts
    <2>2. \A m \in DirInodes : Held(task[t], m) = 0 /\ Held(c, m) = One(RootDir = m) /\ One(RootDir = m) \in Nat
      BY <1>1, <1>2, <1>6, <1>8 DEF Held, One
    <2> QED BY <1>5, <1>8, <2>1, <2>2 DEF Counts
  <1> QED BY <1>5, <1>8, <1>9, CallStep

(* What find_entry finds is an inode. *)
LEMMA FoundIs ==
  ASSUME IsTable(inode), NEW d \in DirInodes, NEW name, NEW k \in FoundIn(d, name)
  PROVE  k \in EntrySlots /\ inode[d].slots[k].ino \in DirInodes
  BY DEF FoundIn, IsTable, InodeRecords, Entry

(* The lists of iputs of the code, for what is held there. *)
LEMMA DirLists ==
  ASSUME NEW s, Null \notin DirInodes, s.dir \in DirInodes, s.ino \in DirInodes \cup {Null}, s.old \in DirInodes \cup {Null}
  PROVE  /\ s.ino = Null /\ s.old = Null => Lists(<<"dir">>, s)
         /\ s.ino = Null /\ s.old # Null => Lists(<<"old", "dir">>, s) /\ Lists(<<"dir", "old">>, s)
         /\ s.ino # Null /\ s.old = Null => Lists(<<"dir", "ino">>, s) /\ Lists(<<"ino", "dir">>, s)
  <1>1. "dir" \in Refs /\ "ino" \in Refs \ {"dir"} /\ "old" \in Refs \ {"dir"} /\ "dir" \in Refs \ {"old"} /\ "dir" \in Refs \ {"ino"}
        /\ "ino" \in Refs /\ "old" \in Refs
    BY DEF Refs
  <1>2. ASSUME s.ino = Null, s.old = Null PROVE Lists(<<"dir">>, s)
    <2>1. \A g \in Refs \ {"dir"} : s[g] = Null
      BY <1>2 DEF Refs
    <2>2. s["dir"] \in DirInodes
      OBVIOUS
    <2> QED BY <1>1, <2>1, <2>2, ListsOne
  <1>3. ASSUME s.ino = Null, s.old # Null PROVE Lists(<<"old", "dir">>, s) /\ Lists(<<"dir", "old">>, s)
    <2>1. (\A g \in Refs \ {"dir", "old"} : s[g] = Null) /\ (\A g \in Refs \ {"old", "dir"} : s[g] = Null)
      BY <1>3 DEF Refs
    <2>2. s["dir"] \in DirInodes /\ s["old"] \in DirInodes
      BY <1>3
    <2> QED BY <1>1, <2>1, <2>2, ListsTwo
  <1>4. ASSUME s.ino # Null, s.old = Null PROVE Lists(<<"dir", "ino">>, s) /\ Lists(<<"ino", "dir">>, s)
    <2>1. (\A g \in Refs \ {"dir", "ino"} : s[g] = Null) /\ (\A g \in Refs \ {"ino", "dir"} : s[g] = Null)
      BY <1>4 DEF Refs
    <2>2. s["dir"] \in DirInodes /\ s["ino"] \in DirInodes
      BY <1>4
    <2> QED BY <1>1, <2>1, <2>2, ListsTwo
  <1> QED BY <1>2, <1>3, <1>4

LEMMA NoDirLists ==
  ASSUME NEW s, Null \notin DirInodes, s.dir = Null, s.ino \in DirInodes \cup {Null}, s.old \in DirInodes \cup {Null}
  PROVE  /\ s.ino = Null /\ s.old = Null => Lists(<<>>, s)
         /\ s.ino # Null /\ s.old = Null => Lists(<<"ino">>, s)
         /\ s.ino = Null /\ s.old # Null => Lists(<<"old">>, s)
  <1>1. "ino" \in Refs /\ "old" \in Refs
    BY DEF Refs
  <1>2. ASSUME s.ino = Null, s.old = Null PROVE Lists(<<>>, s)
    <2>1. \A g \in Refs : s[g] = Null
      BY <1>2 DEF Refs
    <2> QED BY <2>1, ListsNone
  <1>3. ASSUME s.ino # Null, s.old = Null PROVE Lists(<<"ino">>, s)
    <2>1. (\A g \in Refs \ {"ino"} : s[g] = Null) /\ s["ino"] \in DirInodes
      BY <1>3 DEF Refs
    <2> QED BY <1>1, <2>1, ListsOne
  <1>4. ASSUME s.ino = Null, s.old # Null PROVE Lists(<<"old">>, s)
    <2>1. (\A g \in Refs \ {"old"} : s[g] = Null) /\ s["old"] \in DirInodes
      BY <1>4 DEF Refs
    <2> QED BY <1>1, <2>1, ListsOne
  <1> QED BY <1>2, <1>3, <1>4

LEMMA NextNameStep ==
  ASSUME NamesInv, DirectoriesAssumption, NEW t \in Walkers, NextName(t)
  PROVE  NamesInv'
  <1> DEFINE r == task[t]
  <1>1. /\ IsCall(r) /\ r \in CallRecords /\ IsTable(inode) /\ Null \notin DirInodes
        /\ r.dir \in DirInodes \cup {Null} /\ r.ino \in DirInodes \cup {Null} /\ r.old \in DirInodes \cup {Null}
    BY CallFacts
  <1>2. r.pc = "step" /\ inode' = inode
    BY DEF NextName, IsAt
  <1>3. /\ r.dir \in DirInodes /\ r.ino = Null /\ (r.old # Null <=> r.op = "link") /\ r.op \in Ops /\ Len(r.path) > 1
    BY <1>1, <1>2 DEF IsCall, Holds, HoldsIno, Walking
  <1>4. CASE Leaves(t, r, IF r.old = Null THEN <<"dir">> ELSE <<"dir", "old">>)
    <2>1. Counts(inode, inode', task[t], r)
      BY <1>2, SameCounts
    <2>2. Lists(IF r.old = Null THEN <<"dir">> ELSE <<"dir", "old">>, r)
      BY <1>1, <1>3, DirLists
    <2> HIDE DEF r
    <2> QED BY <1>1, <1>2, <1>4, <2>1, <2>2, LeaveStep
  <1>5. CASE \E k \in FoundIn(r.dir, Head(r.path)) : GoesTo(t, "get", [r EXCEPT !.nr = inode[r.dir].slots[k].ino])
    <2>1. PICK k \in FoundIn(r.dir, Head(r.path)) : GoesTo(t, "get", [r EXCEPT !.nr = inode[r.dir].slots[k].ino])
      BY <1>5
    <2>2. inode[r.dir].slots[k].ino \in DirInodes
      BY <1>1, <1>3, FoundIs
    <2> DEFINE s == [r EXCEPT !.nr = inode[r.dir].slots[k].ino]
    <2>3. s \in CallRecords /\ Same(s, r) /\ s.nr \in DirInodes
      BY <1>1, <2>2, NrIs
    <2>4. Counts(inode, inode', task[t], s)
      BY <1>2, <2>3, SameCounts DEF Same
    <2> HIDE DEF s, r
    <2>5. GoesTo(t, "get", s)
      BY <2>1 DEF s
    <2> DEFINE c == [s EXCEPT !.pc = "get"]
    <2>6. "get" \in Pcs
      BY DEF Pcs, Walking
    <2>7. c \in CallRecords /\ c.pc = "get" /\ Same(c, s) /\ c.nr = s.nr
      BY <2>3, <2>6, GoIs
    <2> HIDE DEF c
    <2>8. IsCall(c)
      BY <1>1, <1>3, <2>3, <2>7 DEF IsCall, Holds, HoldsIno, Walking, Same, Follows
    <2> QED BY <1>1, <1>2, <2>3, <2>4, <2>5, <2>6, <2>8, GoStep DEF c
  <1> QED BY <1>4, <1>5 DEF NextName

(* A step that changes the links or the entries of an inode, not its references. *)
Changed(new, tab, n, j) == new = [tab EXCEPT ![n] = j]

LEMMA ChangedIs ==
  ASSUME NEW tab, IsTable(tab), NEW n \in DirInodes, NEW j \in InodeRecords,
         j.count = tab[n].count, j.type = tab[n].type, NEW new, Changed(new, tab, n, j)
  PROVE  IsTable(new) /\ \A m \in DirInodes : new[m].count = tab[m].count
  <1>1. new \in [DirInodes -> InodeRecords] /\ new[n] = j /\ \A m \in DirInodes \ {n} : new[m] = tab[m]
    BY DEF IsTable, Changed
  <1>2. IsTable(new)
    BY <1>1 DEF IsTable
  <1> QED BY <1>1, <1>2

LEMMA FindStep ==
  ASSUME NamesInv, DirectoriesAssumption, NEW t \in Walkers, Find(t)
  PROVE  NamesInv'
  <1> DEFINE r == task[t]
             found == FoundIn(r.dir, r.name)
  <1>1. /\ IsCall(r) /\ r \in CallRecords /\ IsTable(inode) /\ Null \notin DirInodes
        /\ r.dir \in DirInodes \cup {Null} /\ r.ino \in DirInodes \cup {Null} /\ r.old \in DirInodes \cup {Null}
    BY CallFacts
  <1>2. r.pc = "find"
    BY DEF Find, IsAt
  <1>3. /\ r.dir \in DirInodes /\ (r.ino # Null <=> r.op = "symlink") /\ (r.old # Null <=> r.op = "link")
        /\ r.op \in Ops /\ Len(r.path) > 0
    BY <1>1, <1>2 DEF IsCall, Holds, HoldsIno, Walking
  <1>4. \/ UNCHANGED inode /\ GoesTo(t, "new", r) /\ r.op \in {"creat", "excl", "mknod", "mkdir"}
        \/ UNCHANGED inode /\ GoesTo(t, "add", r) /\ r.op \in {"symlink", "link"}
        \/ UNCHANGED inode /\ Leaves(t, r, <<"dir">>) /\ r.op \notin {"symlink", "link"}
        \/ inode' = [inode EXCEPT ![r.ino].nlinks = @ - 1] /\ Leaves(t, r, <<"ino", "dir">>) /\ r.op = "symlink"
        \/ UNCHANGED inode /\ Leaves(t, r, <<"dir", "old">>) /\ r.op = "link"
        \/ /\ UNCHANGED inode /\ r.op \in Ops \ {"excl", "mknod", "mkdir", "symlink", "link"}
           /\ \E k \in found : GoesTo(t, "get", [r EXCEPT !.nr = inode[r.dir].slots[k].ino, !.slot = k])
    <2>1. CASE found = {}
      BY <1>3, <2>1 DEF Find, Ops
    <2>2. CASE found # {}
      BY <1>3, <2>2 DEF Find, Ops
    <2> QED BY <2>1, <2>2
  <1>5. ASSUME UNCHANGED inode, NEW puts, Leaves(t, r, puts), Lists(puts, r) PROVE NamesInv'
    <2>1. Counts(inode, inode', task[t], r)
      BY <1>5, SameCounts
    <2> HIDE DEF r
    <2> QED BY <1>1, <1>5, <2>1, LeaveStep
  <1>6. ASSUME UNCHANGED inode, NEW pc \in Pcs, GoesTo(t, pc, r), IsCall([r EXCEPT !.pc = pc]) PROVE NamesInv'
    <2>1. Counts(inode, inode', task[t], r)
      BY <1>6, SameCounts
    <2> HIDE DEF r
    <2> QED BY <1>1, <1>6, <2>1, GoStep
  <1>7. CASE UNCHANGED inode /\ GoesTo(t, "new", r) /\ r.op \in {"creat", "excl", "mknod", "mkdir"}
    <2> DEFINE c == [r EXCEPT !.pc = "new"]
    <2>1. "new" \in Pcs
      BY DEF Pcs, Walking
    <2>2. c \in CallRecords /\ c.pc = "new" /\ Same(c, r)
      BY <1>1, <2>1, GoIs
    <2> HIDE DEF c
    <2>3. IsCall(c)
      BY <1>1, <1>3, <1>7, <2>2 DEF IsCall, Holds, HoldsIno, Walking, Same, Creators
    <2> QED BY <1>6, <1>7, <2>1, <2>3 DEF c
  <1>8. CASE UNCHANGED inode /\ GoesTo(t, "add", r) /\ r.op \in {"symlink", "link"}
    <2> DEFINE c == [r EXCEPT !.pc = "add"]
    <2>1. "add" \in Pcs
      BY DEF Pcs, Walking
    <2>2. c \in CallRecords /\ c.pc = "add" /\ Same(c, r)
      BY <1>1, <2>1, GoIs
    <2> HIDE DEF c
    <2>3. IsCall(c)
      BY <1>1, <1>3, <1>8, <2>2 DEF IsCall, Holds, HoldsIno, Walking, Same, Creators
    <2> QED BY <1>6, <1>8, <2>1, <2>3 DEF c
  <1>9. CASE UNCHANGED inode /\ Leaves(t, r, <<"dir">>) /\ r.op \notin {"symlink", "link"}
    <2>1. Lists(<<"dir">>, r)
      BY <1>1, <1>3, <1>9, DirLists
    <2> QED BY <1>5, <1>9, <2>1
  <1>10. CASE inode' = [inode EXCEPT ![r.ino].nlinks = @ - 1] /\ Leaves(t, r, <<"ino", "dir">>) /\ r.op = "symlink"
    <2> DEFINE n == r.ino
               j == [inode[n] EXCEPT !.nlinks = @ - 1]
    <2>1. Lists(<<"ino", "dir">>, r) /\ n \in DirInodes
      BY <1>1, <1>3, <1>10, DirLists
    <2>2. inode[n] \in InodeRecords
      BY <1>1, <2>1 DEF IsTable
    <2>3. j \in InodeRecords /\ j.count = inode[n].count /\ j.type = inode[n].type
      BY <2>2 DEF InodeRecords
    <2>4. Changed(inode', inode, n, j)
      BY <1>10 DEF Changed
    <2> HIDE DEF j, n
    <2>5. IsTable(inode') /\ \A m \in DirInodes : inode'[m].count = inode[m].count
      BY <1>1, <2>1, <2>3, <2>4, ChangedIs
    <2>6. Counts(inode, inode', task[t], r)
      BY <2>5, SameCounts
    <2> HIDE DEF r
    <2> QED BY <1>1, <1>10, <2>1, <2>5, <2>6, LeaveStep
  <1>11. CASE UNCHANGED inode /\ Leaves(t, r, <<"dir", "old">>) /\ r.op = "link"
    <2>1. Lists(<<"dir", "old">>, r)
      BY <1>1, <1>3, <1>11, DirLists
    <2> QED BY <1>5, <1>11, <2>1
  <1>12. CASE /\ UNCHANGED inode /\ r.op \in Ops \ {"excl", "mknod", "mkdir", "symlink", "link"}
              /\ \E k \in found : GoesTo(t, "get", [r EXCEPT !.nr = inode[r.dir].slots[k].ino, !.slot = k])
    <2>1. PICK k \in found : GoesTo(t, "get", [r EXCEPT !.nr = inode[r.dir].slots[k].ino, !.slot = k])
      BY <1>12
    <2> DEFINE x == inode[r.dir].slots[k].ino
               s == [r EXCEPT !.nr = x, !.slot = k]
               c == [s EXCEPT !.pc = "get"]
    <2>2. x \in DirInodes /\ k \in EntrySlots
      BY <1>1, <1>3, FoundIs
    <2>3. GoesTo(t, "get", s)
      BY <2>1
    <2> HIDE DEF x, r
    <2>4. /\ s \in CallRecords /\ s.nr = x /\ s.slot = k /\ s.dir = r.dir /\ s.ino = r.ino /\ s.old = r.old
          /\ s.op = r.op /\ s.path = r.path
      BY <1>1, <2>2 DEF CallRecords
    <2>5. "get" \in Pcs
      BY DEF Pcs, Walking
    <2> HIDE DEF s
    <2>6. c \in CallRecords /\ c.pc = "get" /\ Same(c, s) /\ c.nr = s.nr
      BY <2>4, <2>5, GoIs
    <2> HIDE DEF c
    <2>7. IsCall(c)
      BY <1>1, <1>3, <1>12, <2>2, <2>4, <2>6 DEF IsCall, Holds, HoldsIno, Walking, Same, Follows, Ops
    <2>8. Counts(inode, inode', task[t], s)
      BY <1>12, <2>4, SameCounts DEF r
    <2>9. IsTable(inode')
      BY <1>1, <1>12
    <2> QED BY <2>3, <2>4, <2>5, <2>7, <2>8, <2>9, GoStep DEF c
  <1> HIDE DEF r, found
  <1> QED BY <1>4, <1>7, <1>8, <1>9, <1>10, <1>11, <1>12

LEMMA MadeIs ==
  ASSUME NEW tab, IsTable(tab), NEW n \in DirInodes, NEW j \in InodeRecords,
         j.count = 1, j.type # "free", tab[n].type = "free", NEW new, Changed(new, tab, n, j)
  PROVE  IsTable(new) /\ \A m \in DirInodes : new[m].count = tab[m].count + One(n = m)
  <1>1. new \in [DirInodes -> InodeRecords] /\ new[n] = j /\ \A m \in DirInodes \ {n} : new[m] = tab[m]
    BY DEF IsTable, Changed
  <1>2. IsTable(new)
    BY <1>1 DEF IsTable
  <1>3. tab[n].count = 0 /\ \A m \in DirInodes : tab[m].count \in Int
    BY DEF IsTable, InodeRecords
  <1> QED BY <1>1, <1>2, <1>3 DEF One

LEMMA NewIs ==
  ASSUME NEW type \in {"file", "dir", "link"}, NEW text \in Names \cup {Null}
  PROVE  /\ New(type, text) \in InodeRecords /\ New(type, text).count = 1 /\ New(type, text).type = type
         /\ [New(type, text) EXCEPT !.nlinks = 0] \in InodeRecords
         /\ [New(type, text) EXCEPT !.nlinks = 0].count = 1 /\ [New(type, text) EXCEPT !.nlinks = 0].type = type
  <1>1. NoEntries \in [EntrySlots -> Entry]
    BY DEF NoEntries, FreeSlot, Entry
  <1>2. New(type, text) \in InodeRecords /\ New(type, text).count = 1 /\ New(type, text).type = type
    BY <1>1 DEF New, InodeRecords, Types
  <1>3. \A a \in InodeRecords : /\ [a EXCEPT !.nlinks = 0] \in InodeRecords
                                /\ [a EXCEPT !.nlinks = 0].count = a.count /\ [a EXCEPT !.nlinks = 0].type = a.type
    BY DEF InodeRecords
  <1> QED BY <1>2, <1>3

LEMMA MakeInodeStep ==
  ASSUME NamesInv, DirectoriesAssumption, NEW t \in Walkers, MakeInode(t)
  PROVE  NamesInv'
  <1> DEFINE r == task[t]
  <1>1. /\ IsCall(r) /\ r \in CallRecords /\ IsTable(inode) /\ Null \notin DirInodes
        /\ r.dir \in DirInodes \cup {Null} /\ r.ino \in DirInodes \cup {Null} /\ r.old \in DirInodes \cup {Null}
        /\ \A n \in DirInodes : inode[n].count \in Nat
    BY CallFacts
  <1>2. r.pc = "new"
    BY DEF MakeInode, IsAt
  <1>3. /\ r.dir \in DirInodes /\ r.ino = Null /\ r.old = Null /\ r.op \in Creators /\ Len(r.path) > 0
    BY <1>1, <1>2 DEF IsCall, Holds, HoldsIno, Walking, Creators
  <1>4. CASE Leaves(t, r, <<"dir">>) /\ UNCHANGED inode
    <2>1. Counts(inode, inode', task[t], r)
      BY <1>4, SameCounts
    <2>2. Lists(<<"dir">>, r)
      BY <1>1, <1>3, DirLists
    <2> HIDE DEF r
    <2> QED BY <1>1, <1>4, <2>1, <2>2, LeaveStep
  <1>5. ASSUME NEW n \in DirInodes, inode[n].type = "free", NEW text \in Names \cup {Null},
               LET s == [r EXCEPT !.ino = n] IN
               \/ /\ inode' = [inode EXCEPT ![n] = New(Type(r.op), text)]
                  /\ GoesTo(t, IF r.op = "symlink" THEN "find" ELSE "add", s)
               \/ /\ r.op \in {"mkdir", "symlink"}
                  /\ inode' = [inode EXCEPT ![n] = New("file", Null)]
                  /\ GoesTo(t, "giveup", s)
        PROVE  NamesInv'
    <2> DEFINE s == [r EXCEPT !.ino = n]
    <2>1. /\ s \in CallRecords /\ s.ino = n /\ s.dir = r.dir /\ s.old = Null /\ s.op = r.op /\ s.path = r.path
      BY <1>1, <1>3 DEF CallRecords
    <2>2. ASSUME NEW j \in InodeRecords, j.count = 1, j.type # "free", Changed(inode', inode, n, j)
          PROVE  IsTable(inode') /\ Counts(inode, inode', task[t], s)
      <3>1. IsTable(inode') /\ \A m \in DirInodes : inode'[m].count = inode[m].count + One(n = m)
        BY <1>1, <1>5, <2>2, MadeIs
      <3>2. \A m \in DirInodes : One(n = m) \in Nat /\ Held(r, m) \in Nat /\ Held(s, m) = Held(r, m) + One(n = m)
        BY <1>1, <1>3, <2>1 DEF Held, One
      <3> HIDE DEF s
      <3> QED BY <1>1, <3>1, <3>2 DEF Counts
    <2>3. CASE inode' = [inode EXCEPT ![n] = New(Type(r.op), text)]
               /\ GoesTo(t, IF r.op = "symlink" THEN "find" ELSE "add", s)
      <3> DEFINE j == New(Type(r.op), text)
                 pc == IF r.op = "symlink" THEN "find" ELSE "add"
                 c == [s EXCEPT !.pc = pc]
      <3>1. Type(r.op) \in {"file", "dir", "link"}
        BY DEF Type
      <3>2. j \in InodeRecords /\ j.count = 1 /\ j.type # "free"
        BY <3>1, NewIs
      <3>3. Changed(inode', inode, n, j)
        BY <2>3 DEF Changed
      <3> HIDE DEF j, s
      <3>4. IsTable(inode') /\ Counts(inode, inode', task[t], s)
        BY <2>2, <3>2, <3>3
      <3>5. pc \in Pcs /\ (pc = "find" <=> r.op = "symlink") /\ pc \in {"find", "add"}
        BY DEF Pcs, Walking
      <3>6. GoesTo(t, pc, s)
        BY <2>3
      <3> HIDE DEF pc
      <3>7. c \in CallRecords /\ c.pc = pc /\ Same(c, s)
        BY <2>1, <3>5, GoIs
      <3> HIDE DEF c
      <3>8. IsCall(c)
        BY <1>1, <1>3, <1>5, <2>1, <3>5, <3>7 DEF IsCall, Holds, HoldsIno, Walking, Same, Creators, Ops
      <3> QED BY <2>1, <3>4, <3>5, <3>6, <3>8, GoStep DEF c
    <2>4. CASE /\ r.op \in {"mkdir", "symlink"}
               /\ inode' = [inode EXCEPT ![n] = New("file", Null)]
               /\ GoesTo(t, "giveup", s)
      <3> DEFINE j == New("file", Null)
                 c == [s EXCEPT !.pc = "giveup"]
      <3>1. j \in InodeRecords /\ j.count = 1 /\ j.type # "free"
        BY NewIs
      <3>2. Changed(inode', inode, n, j)
        BY <2>4 DEF Changed
      <3> HIDE DEF j, s
      <3>3. IsTable(inode') /\ Counts(inode, inode', task[t], s)
        BY <2>2, <3>1, <3>2
      <3>4. "giveup" \in Pcs
        BY DEF Pcs
      <3>5. c \in CallRecords /\ c.pc = "giveup" /\ Same(c, s)
        BY <2>1, <3>4, GoIs
      <3> HIDE DEF c
      <3>6. IsCall(c)
        BY <1>1, <1>3, <1>5, <2>1, <3>5 DEF IsCall, Holds, HoldsIno, Walking, Same, Creators, Ops
      <3> QED BY <2>1, <2>4, <3>3, <3>4, <3>6, GoStep DEF c
    <2> QED BY <1>5, <2>3, <2>4
  <1>6. (IF r.op = "symlink" THEN Names ELSE {Null}) \subseteq Names \cup {Null}
    OBVIOUS
  <1>7. \/ Leaves(t, r, <<"dir">>) /\ UNCHANGED inode
        \/ \E n \in {m \in DirInodes : inode[m].type = "free"}, text \in IF r.op = "symlink" THEN Names ELSE {Null} :
              LET s == [r EXCEPT !.ino = n] IN
              \/ /\ inode' = [inode EXCEPT ![n] = New(Type(r.op), text)]
                 /\ GoesTo(t, IF r.op = "symlink" THEN "find" ELSE "add", s)
              \/ /\ r.op \in {"mkdir", "symlink"}
                 /\ inode' = [inode EXCEPT ![n] = New("file", Null)]
                 /\ GoesTo(t, "giveup", s)
    BY Zenon DEF MakeInode
  <1> HIDE DEF r
  <1> QED BY <1>4, <1>5, <1>6, <1>7

LEMMA AddedIs ==
  ASSUME IsTable(inode), NEW t, NEW r, NEW k, Added(t, r, k), r.dir \in DirInodes,
         r.name \in Names \cup {Null}, r.ino \in DirInodes \cup {Null}, r.old \in DirInodes \cup {Null}
  PROVE  IsTable(inode') /\ \A m \in DirInodes : inode'[m].count = inode[m].count
  <1> DEFINE d == r.dir
             e == [name |-> r.name, ino |-> IF r.op = "link" THEN r.old ELSE r.ino]
             x == IF r.op = "mkdir" THEN inode[d].nlinks + 1 ELSE inode[d].nlinks
             j == [inode[d] EXCEPT !.slots[k] = e, !.nlinks = x]
  <1>1. inode[d] \in InodeRecords /\ d \in DirInodes /\ inode \in [DirInodes -> InodeRecords]
    BY DEF IsTable
  <1>2. e \in Entry
    BY DEF Entry
  <1>3. x \in Int
    BY <1>1 DEF InodeRecords
  <1>4. inode' = [inode EXCEPT ![d] = j]
    <2>1. inode' = [inode EXCEPT ![d].slots[k] = e, ![d].nlinks = IF r.op = "mkdir" THEN @ + 1 ELSE @]
      BY DEF Added
    <2> QED BY <1>1, <2>1 DEF InodeRecords
  <1> HIDE DEF e, x, d
  <1>5. j \in InodeRecords /\ j.count = inode[d].count /\ j.type = inode[d].type
    BY <1>1, <1>2, <1>3 DEF InodeRecords
  <1> HIDE DEF j
  <1>6. Changed(inode', inode, d, j)
    BY <1>4 DEF Changed
  <1> QED BY <1>1, <1>5, <1>6, ChangedIs

LEMMA AddStep ==
  ASSUME NamesInv, DirectoriesAssumption, NEW t \in Walkers, Add(t)
  PROVE  NamesInv'
  <1> DEFINE r == task[t]
  <1>1. /\ IsCall(r) /\ r \in CallRecords /\ IsTable(inode) /\ Null \notin DirInodes
        /\ r.dir \in DirInodes \cup {Null} /\ r.ino \in DirInodes \cup {Null} /\ r.old \in DirInodes \cup {Null}
        /\ r.name \in Names \cup {Null}
    BY CallFacts, CallTypes
  <1>2. r.pc = "add"
    BY DEF Add, IsAt
  <1>3. /\ r.dir \in DirInodes /\ (r.ino # Null <=> r.op # "link") /\ (r.old # Null <=> r.op = "link")
        /\ r.op \in Creators \cup {"link"}
    BY <1>1, <1>2 DEF IsCall, Holds, HoldsIno, Walking
  <1>4. CASE NoSpace(t, r)
    <2>1. CASE r.op = "link"
      <3>1. UNCHANGED inode /\ Leaves(t, r, <<"dir", "old">>)
        BY <1>4, <2>1 DEF NoSpace
      <3>2. Lists(<<"dir", "old">>, r)
        BY <1>1, <1>3, <2>1, DirLists
      <3>3. Counts(inode, inode', task[t], r)
        BY <3>1, SameCounts
      <3> HIDE DEF r
      <3> QED BY <1>1, <3>1, <3>2, <3>3, LeaveStep
    <2>2. CASE r.op \in {"mknod", "mkdir"}
      <3> DEFINE c == [r EXCEPT !.pc = "giveup"]
      <3>1. UNCHANGED inode /\ GoesTo(t, "giveup", r)
        BY <1>4, <2>2 DEF NoSpace
      <3>2. "giveup" \in Pcs
        BY DEF Pcs
      <3>3. c \in CallRecords /\ c.pc = "giveup" /\ Same(c, r)
        BY <1>1, <3>2, GoIs
      <3> HIDE DEF c
      <3>4. IsCall(c)
        BY <1>1, <1>3, <2>2, <3>3 DEF IsCall, Holds, HoldsIno, Walking, Same, Creators, Ops
      <3>5. Counts(inode, inode', task[t], r)
        BY <3>1, SameCounts
      <3> HIDE DEF r
      <3> QED BY <1>1, <3>1, <3>2, <3>4, <3>5, GoStep DEF c
    <2>3. CASE r.op \notin {"link", "mknod", "mkdir"}
      <3> DEFINE n == r.ino
                 j == [inode[n] EXCEPT !.nlinks = @ - 1]
      <3>1. inode' = [inode EXCEPT ![n].nlinks = @ - 1] /\ Leaves(t, r, <<"ino", "dir">>)
        BY <1>4, <2>3 DEF NoSpace
      <3>2. Lists(<<"ino", "dir">>, r) /\ n \in DirInodes
        BY <1>1, <1>3, <2>3, DirLists
      <3>3. inode[n] \in InodeRecords
        BY <1>1, <3>2 DEF IsTable
      <3>4. j \in InodeRecords /\ j.count = inode[n].count /\ j.type = inode[n].type
        BY <3>3 DEF InodeRecords
      <3>5. Changed(inode', inode, n, j)
        BY <3>1 DEF Changed
      <3> HIDE DEF j, n
      <3>6. IsTable(inode') /\ \A m \in DirInodes : inode'[m].count = inode[m].count
        BY <1>1, <3>2, <3>4, <3>5, ChangedIs
      <3>7. Counts(inode, inode', task[t], r)
        BY <3>6, SameCounts
      <3> HIDE DEF r
      <3> QED BY <1>1, <3>1, <3>2, <3>6, <3>7, LeaveStep
    <2> QED BY <2>1, <2>2, <2>3
  <1>5. ASSUME NEW k, Added(t, r, k) PROVE NamesInv'
    <2> HIDE DEF r
    <2>1. IsTable(inode') /\ \A m \in DirInodes : inode'[m].count = inode[m].count
      BY <1>1, <1>3, <1>5, AddedIs
    <2>2. Counts(inode, inode', task[t], r)
      BY <2>1, SameCounts DEF r
    <2>3. CASE r.op = "link" \/ r.op \in {"creat", "excl"}
      <3> DEFINE pc == IF r.op = "link" THEN "linked" ELSE "created"
                 c == [r EXCEPT !.pc = pc]
      <3>1. GoesTo(t, pc, r)
        BY <1>5, <2>3 DEF Added
      <3>2. pc \in Pcs /\ pc = (IF r.op = "link" THEN "linked" ELSE "created")
        BY DEF Pcs
      <3> HIDE DEF pc
      <3>3. c \in CallRecords /\ c.pc = pc /\ Same(c, r)
        BY <1>1, <3>2, GoIs
      <3> HIDE DEF c
      <3>4. IsCall(c)
        BY <1>1, <1>3, <2>3, <3>2, <3>3 DEF IsCall, Holds, HoldsIno, Walking, Same, Creators, Ops
      <3> QED BY <1>1, <2>1, <2>2, <3>1, <3>2, <3>4, GoStep DEF c
    <2>4. CASE r.op \notin {"link", "creat", "excl"}
      <3>1. Leaves(t, r, <<"dir", "ino">>)
        BY <1>5, <2>4 DEF Added
      <3>2. Lists(<<"dir", "ino">>, r)
        BY <1>1, <1>3, <2>4, DirLists
      <3> QED BY <1>1, <2>1, <2>2, <3>1, <3>2, LeaveStep
    <2> QED BY <2>3, <2>4
  <1>6. \E k : NoSpace(t, r) \/ Added(t, r, k)
    BY Zenon DEF Add
  <1> QED BY <1>4, <1>5, <1>6

LEMMA IdleIs == IsCall(IdleCall) /\ \A n : n # Null => Held(IdleCall, n) = 0
  <1>1. IdleCall \in CallRecords
    <2>1. <<>> \in Seq(Names) /\ <<>> \in Seq(Refs) /\ "idle" \in Pcs
      BY DEF Pcs
    <2> QED BY <2>1 DEF IdleCall, CallRecords
  <1>2. IdleCall.pc = "idle" /\ IdleCall.dir = Null /\ IdleCall.ino = Null /\ IdleCall.old = Null
    BY DEF IdleCall
  <1>3. IsCall(IdleCall)
    BY <1>1, <1>2 DEF IsCall, Holds, HoldsIno, Walking
  <1> QED BY <1>2, <1>3 DEF Held, One

LEMMA CreatedStep ==
  ASSUME NamesInv, DirectoriesAssumption, NEW t \in Walkers, Created(t)
  PROVE  NamesInv'
  <1> DEFINE r == task[t]
             c == [[IdleCall EXCEPT !.ino = r.ino] EXCEPT !.pc = "open"]
  <1>1. /\ IsCall(r) /\ IsTable(inode) /\ Null \notin DirInodes
        /\ r.dir \in DirInodes \cup {Null} /\ r.ino \in DirInodes \cup {Null} /\ r.old \in DirInodes \cup {Null}
        /\ \A n \in DirInodes : inode[n].count \in Nat /\ inode[n].count >= Held(r, n)
    BY CallFacts
  <1>2. r.pc = "created"
    BY DEF Created, IsAt
  <1>3. r.dir \in DirInodes /\ r.ino \in DirInodes /\ r.old = Null
    BY <1>1, <1>2 DEF IsCall, Holds, HoldsIno, Walking
  <1>4. inode' = Put(inode, r.dir) /\ task' = [task EXCEPT ![t] = c]
    BY DEF Created, GoesTo
  <1>5. Held(r, r.dir) >= 1
    BY <1>3 DEF Held, One
  <1>6. IsCall(c) /\ c.dir = Null /\ c.ino = r.ino /\ c.old = Null
    BY <1>3, OpenIs
  <1> HIDE DEF c, r
  <1>7. IsTable(inode') /\ \A m \in DirInodes : inode'[m].count = inode[m].count - One(r.dir = m)
    <2> DEFINE tab == Put(inode, r.dir)
    <2>1. inode[r.dir].count >= 1
      BY <1>1, <1>3, <1>5, HeldIs
    <2>2. IsTable(tab) /\ \A m \in DirInodes : tab[m].count = inode[m].count - One(r.dir = m)
      BY <1>1, <1>3, <2>1, PutCounts
    <2>3. inode' = tab
      BY <1>4
    <2> HIDE DEF tab
    <2> QED BY <2>2, <2>3
  <1>8. \A m \in DirInodes : /\ Held(r, m) = One(r.dir = m) + One(r.ino = m) /\ Held(c, m) = One(r.ino = m)
                             /\ One(r.dir = m) \in Nat /\ One(r.ino = m) \in Nat
    BY <1>1, <1>3, <1>6 DEF Held, One
  <1>9. Counts(inode, inode', r, c)
    BY <1>1, <1>7, <1>8 DEF Counts
  <1> QED BY <1>4, <1>6, <1>7, <1>9, CallStep DEF r

LEMMA LinkedStep ==
  ASSUME NamesInv, DirectoriesAssumption, NEW t \in Walkers, Linked(t)
  PROVE  NamesInv'
  <1> DEFINE r == task[t]
             s == [r EXCEPT !.dir = Null]
             tab == Put(inode, r.dir)
             n == r.old
             j == [tab[n] EXCEPT !.nlinks = @ + 1]
  <1>1. /\ IsCall(r) /\ r \in CallRecords /\ IsTable(inode) /\ Null \notin DirInodes
        /\ r.dir \in DirInodes \cup {Null} /\ r.ino \in DirInodes \cup {Null} /\ r.old \in DirInodes \cup {Null}
        /\ \A m \in DirInodes : inode[m].count \in Nat /\ inode[m].count >= Held(r, m)
    BY CallFacts
  <1>2. r.pc = "linked"
    BY DEF Linked, IsAt
  <1>3. r.dir \in DirInodes /\ r.ino = Null /\ n \in DirInodes
    BY <1>1, <1>2 DEF IsCall, Holds, HoldsIno, Walking
  <1>4. s.dir = Null /\ s.ino = Null /\ s.old = n
    BY <1>1, <1>3 DEF CallRecords
  <1>5. inode' = [tab EXCEPT ![n].nlinks = @ + 1] /\ Leaves(t, s, <<"old">>)
    BY DEF Linked
  <1>6. Changed(inode', tab, n, j)
    BY <1>5 DEF Changed
  <1>7. Held(r, r.dir) >= 1
    BY <1>3 DEF Held, One
  <1> HIDE DEF s, r
  <1>8. IsTable(tab) /\ \A m \in DirInodes : tab[m].count = inode[m].count - One(r.dir = m)
    <2>1. inode[r.dir].count >= 1
      BY <1>1, <1>3, <1>7, HeldIs
    <2> QED BY <1>1, <1>3, <2>1, PutCounts
  <1> HIDE DEF tab, n
  <1>9. tab[n] \in InodeRecords
    BY <1>3, <1>8 DEF IsTable
  <1>10. j \in InodeRecords /\ j.count = tab[n].count /\ j.type = tab[n].type
    BY <1>9 DEF InodeRecords
  <1> HIDE DEF j
  <1>11. IsTable(inode') /\ \A m \in DirInodes : inode'[m].count = tab[m].count
    BY <1>3, <1>6, <1>8, <1>10, ChangedIs
  <1>12. \A m \in DirInodes : /\ Held(r, m) = One(r.dir = m) + One(n = m) /\ Held(s, m) = One(n = m)
                              /\ One(r.dir = m) \in Nat /\ One(n = m) \in Nat
    BY <1>1, <1>3, <1>4 DEF Held, One, n
  <1>13. Counts(inode, inode', r, s)
    BY <1>1, <1>8, <1>11, <1>12 DEF Counts
  <1>14. Lists(<<"old">>, s)
    BY <1>1, <1>3, <1>4, NoDirLists
  <1> QED BY <1>3, <1>4, <1>5, <1>11, <1>13, <1>14, LeaveStep DEF r

LEMMA GivesUpStep ==
  ASSUME NamesInv, DirectoriesAssumption, NEW t \in Walkers, GivesUp(t)
  PROVE  NamesInv'
  <1> DEFINE r == task[t]
             s == [r EXCEPT !.dir = Null]
             tab == Put(inode, r.dir)
             n == r.ino
             j == [tab[n] EXCEPT !.nlinks = 0]
  <1>1. /\ IsCall(r) /\ r \in CallRecords /\ IsTable(inode) /\ Null \notin DirInodes
        /\ r.dir \in DirInodes \cup {Null} /\ r.ino \in DirInodes \cup {Null} /\ r.old \in DirInodes \cup {Null}
        /\ \A m \in DirInodes : inode[m].count \in Nat /\ inode[m].count >= Held(r, m)
    BY CallFacts
  <1>2. r.pc = "giveup"
    BY DEF GivesUp, IsAt
  <1>3. r.dir \in DirInodes /\ r.old = Null /\ n \in DirInodes
    BY <1>1, <1>2 DEF IsCall, Holds, HoldsIno, Walking, Creators
  <1>4. s.dir = Null /\ s.old = Null /\ s.ino = n
    BY <1>1, <1>3 DEF CallRecords
  <1>5. inode' = [tab EXCEPT ![n].nlinks = 0] /\ Leaves(t, s, <<"ino">>)
    BY DEF GivesUp
  <1>6. Changed(inode', tab, n, j)
    BY <1>5 DEF Changed
  <1>7. Held(r, r.dir) >= 1
    BY <1>3 DEF Held, One
  <1> HIDE DEF s, r
  <1>8. IsTable(tab) /\ \A m \in DirInodes : tab[m].count = inode[m].count - One(r.dir = m)
    <2>1. inode[r.dir].count >= 1
      BY <1>1, <1>3, <1>7, HeldIs
    <2> QED BY <1>1, <1>3, <2>1, PutCounts
  <1> HIDE DEF tab, n
  <1>9. tab[n] \in InodeRecords
    BY <1>3, <1>8 DEF IsTable
  <1>10. j \in InodeRecords /\ j.count = tab[n].count /\ j.type = tab[n].type
    BY <1>9 DEF InodeRecords
  <1> HIDE DEF j
  <1>11. IsTable(inode') /\ \A m \in DirInodes : inode'[m].count = tab[m].count
    BY <1>3, <1>6, <1>8, <1>10, ChangedIs
  <1>12. \A m \in DirInodes : /\ Held(r, m) = One(r.dir = m) + One(n = m) /\ Held(s, m) = One(n = m)
                              /\ One(r.dir = m) \in Nat /\ One(n = m) \in Nat
    BY <1>1, <1>3, <1>4 DEF Held, One, n
  <1>13. Counts(inode, inode', r, s)
    BY <1>1, <1>8, <1>11, <1>12 DEF Counts
  <1>14. Lists(<<"ino">>, s)
    BY <1>1, <1>3, <1>4, NoDirLists
  <1> QED BY <1>3, <1>4, <1>5, <1>11, <1>13, <1>14, LeaveStep DEF r

LEMMA CloseFileStep ==
  ASSUME NamesInv, DirectoriesAssumption, NEW t \in Walkers, CloseFile(t)
  PROVE  NamesInv'
  <1> DEFINE r == task[t]
  <1>1. /\ IsCall(r) /\ IsTable(inode) /\ Null \notin DirInodes
        /\ r.dir \in DirInodes \cup {Null} /\ r.ino \in DirInodes \cup {Null} /\ r.old \in DirInodes \cup {Null}
    BY CallFacts
  <1>2. r.pc = "open" /\ Leaves(t, r, <<"ino">>) /\ UNCHANGED inode
    BY DEF CloseFile, IsAt
  <1>3. r.dir = Null /\ r.ino # Null /\ r.old = Null
    BY <1>1, <1>2 DEF IsCall, Holds, HoldsIno, Walking
  <1>4. Lists(<<"ino">>, r)
    BY <1>1, <1>3, NoDirLists
  <1>5. Counts(inode, inode', r, r)
    BY <1>2, SameCounts
  <1> QED BY <1>1, <1>2, <1>4, <1>5, LeaveStep

LEMMA WildStep ==
  ASSUME NamesInv, DirectoriesAssumption, NEW t \in Walkers, Wild(t)
  PROVE  NamesInv'
  <1> DEFINE r == task[t]
  <1>1. /\ IsCall(r) /\ IsTable(inode) /\ Null \notin DirInodes
        /\ r.dir \in DirInodes \cup {Null} /\ r.ino \in DirInodes \cup {Null} /\ r.old \in DirInodes \cup {Null}
    BY CallFacts
  <1>2. r.pc = "wild" /\ Leaves(t, r, <<>>) /\ UNCHANGED inode
    BY DEF Wild, IsAt
  <1>3. r.dir = Null /\ r.ino = Null /\ r.old = Null
    BY <1>1, <1>2 DEF IsCall, Holds, HoldsIno, Walking
  <1>4. Lists(<<>>, r)
    BY <1>1, <1>3, NoDirLists
  <1>5. Counts(inode, inode', r, r)
    BY <1>2, SameCounts
  <1> QED BY <1>1, <1>2, <1>4, <1>5, LeaveStep

LEMMA NowhereStep ==
  ASSUME NamesInv, DirectoriesAssumption, NEW t \in Walkers, Nowhere(t)
  PROVE  NamesInv'
  <1> DEFINE r == task[t]
             s == [r EXCEPT !.dir = Null]
             tab == Put(inode, r.dir)
  <1>1. /\ IsCall(r) /\ r \in CallRecords /\ IsTable(inode) /\ Null \notin DirInodes
        /\ r.dir \in DirInodes \cup {Null} /\ r.ino \in DirInodes \cup {Null} /\ r.old \in DirInodes \cup {Null}
        /\ \A m \in DirInodes : inode[m].count \in Nat /\ inode[m].count >= Held(r, m)
    BY CallFacts
  <1>2. r.pc = "nowhere" /\ inode' = tab
    BY DEF Nowhere, IsAt
  <1>3. r.dir \in DirInodes /\ r.ino = Null /\ (r.old # Null <=> r.op = "link")
    BY <1>1, <1>2 DEF IsCall, Holds, HoldsIno, Walking
  <1>4. s \in CallRecords /\ s.dir = Null /\ s.ino = Null /\ s.old = r.old /\ s.op = r.op
    BY <1>1, <1>3 DEF CallRecords
  <1>5. \/ GoesTo(t, "wild", s) /\ r.op \in {"namei", "linkold"}
        \/ Leaves(t, s, IF r.old = Null THEN <<>> ELSE <<"old">>)
    BY DEF Nowhere
  <1>6. Held(r, r.dir) >= 1
    BY <1>3 DEF Held, One
  <1> HIDE DEF s, r
  <1>7. IsTable(tab) /\ \A m \in DirInodes : tab[m].count = inode[m].count - One(r.dir = m)
    <2>1. inode[r.dir].count >= 1
      BY <1>1, <1>3, <1>6, HeldIs
    <2> QED BY <1>1, <1>3, <2>1, PutCounts
  <1> HIDE DEF tab
  <1>8. \A m \in DirInodes : /\ Held(r, m) = One(r.dir = m) + One(r.old = m) /\ Held(s, m) = One(r.old = m)
                             /\ One(r.dir = m) \in Nat /\ One(r.old = m) \in Nat
    BY <1>1, <1>3, <1>4 DEF Held, One
  <1>9. Counts(inode, inode', r, s)
    BY <1>1, <1>2, <1>7, <1>8 DEF Counts
  <1>10. CASE GoesTo(t, "wild", s) /\ r.op \in {"namei", "linkold"}
    <2> DEFINE c == [s EXCEPT !.pc = "wild"]
    <2>1. "wild" \in Pcs
      BY DEF Pcs
    <2>2. c \in CallRecords /\ c.pc = "wild" /\ Same(c, s)
      BY <1>4, <2>1, GoIs
    <2> HIDE DEF c
    <2>3. IsCall(c)
      BY <1>3, <1>4, <1>10, <2>2 DEF IsCall, Holds, HoldsIno, Walking, Same
    <2> QED BY <1>2, <1>4, <1>7, <1>9, <1>10, <2>1, <2>3, GoStep DEF c, r
  <1>11. CASE Leaves(t, s, IF r.old = Null THEN <<>> ELSE <<"old">>)
    <2>1. Lists(IF r.old = Null THEN <<>> ELSE <<"old">>, s)
      BY <1>1, <1>4, NoDirLists
    <2> QED BY <1>1, <1>2, <1>4, <1>7, <1>9, <1>11, <2>1, LeaveStep DEF r
  <1> QED BY <1>5, <1>10, <1>11

LEMMA PutNextStep ==
  ASSUME NamesInv, DirectoriesAssumption, NEW t \in Walkers, PutNext(t)
  PROVE  NamesInv'
  <1> DEFINE r == task[t]
  <1>1. /\ IsCall(r) /\ r \in CallRecords /\ IsTable(inode) /\ Null \notin DirInodes
        /\ r.dir \in DirInodes \cup {Null} /\ r.ino \in DirInodes \cup {Null} /\ r.old \in DirInodes \cup {Null}
        /\ \A m \in DirInodes : inode[m].count \in Nat /\ inode[m].count >= Held(r, m)
    BY CallFacts
  <1>2. r.pc = "put"
    BY DEF PutNext, IsAt
  <1>3. Lists(r.puts, r)
    BY <1>1, <1>2 DEF IsCall
  <1>4. CASE r.puts = <<>>
    <2>1. task' = [task EXCEPT ![t] = IdleCall] /\ UNCHANGED inode
      BY <1>4 DEF PutNext
    <2>2. \A f \in Refs : r[f] = Null
      BY <1>3, <1>4 DEF Lists
    <2>3. r.dir = Null /\ r.ino = Null /\ r.old = Null
      <3>1. r["dir"] = Null /\ r["ino"] = Null /\ r["old"] = Null
        BY <2>2 DEF Refs
      <3> QED BY <3>1
    <2>4. \A m \in DirInodes : Held(r, m) = 0 /\ Held(IdleCall, m) = 0
      BY <1>1, <2>3, IdleIs DEF Held, One
    <2> HIDE DEF r
    <2>5. Counts(inode, inode', r, IdleCall)
      BY <1>1, <2>1, <2>4 DEF Counts
    <2> QED BY <1>1, <2>1, <2>5, IdleIs, CallStep DEF r
  <1>5. CASE r.puts # <<>>
    <2> DEFINE puts == r.puts
               f == Head(puts)
               s == [r EXCEPT ![f] = Null, !.puts = Tail(@)]
               n == r[f]
               tab == Put(inode, n)
               c == [s EXCEPT !.pc = "put"]
    <2>1. inode' = tab /\ GoesTo(t, "put", s)
      BY <1>5 DEF PutNext
    <2>2. /\ puts \in Seq(Refs) /\ puts # <<>>
          /\ Len(puts) \in Nat /\ Len(puts) >= 1 /\ f = puts[1] /\ f \in Refs
          /\ Tail(puts) \in Seq(Refs) /\ Len(Tail(puts)) = Len(puts) - 1
          /\ \A i \in 1..Len(Tail(puts)) : Tail(puts)[i] = puts[i + 1]
      BY <1>3, <1>5 DEF Lists
    <2>3. n \in DirInodes
      BY <1>3, <2>2 DEF Lists
    <2>4. /\ s \in CallRecords /\ s.puts = Tail(puts) /\ s.pc = r.pc
          /\ s.dir = IF f = "dir" THEN Null ELSE r.dir
          /\ s.ino = IF f = "ino" THEN Null ELSE r.ino
          /\ s.old = IF f = "old" THEN Null ELSE r.old
      <3> DEFINE rest == Tail(puts)
      <3>1. f \in {"dir", "ino", "old"} /\ rest \in Seq(Refs)
        BY <2>2 DEF Refs
      <3>2. s = [r EXCEPT ![f] = Null, !.puts = rest]
        OBVIOUS
      <3> HIDE DEF f, r, rest, s
      <3>3. CASE f = "dir"
        BY <1>1, <3>1, <3>2, <3>3 DEF CallRecords, rest
      <3>4. CASE f = "ino"
        BY <1>1, <3>1, <3>2, <3>4 DEF CallRecords, rest
      <3>5. CASE f = "old"
        BY <1>1, <3>1, <3>2, <3>5 DEF CallRecords, rest
      <3> QED BY <3>1, <3>3, <3>4, <3>5
    <2>5. \A g \in Refs : s[g] = IF f = g THEN Null ELSE r[g]
      BY <2>4 DEF Refs
    <2>6. Held(r, n) >= 1 /\ \A m \in DirInodes : Held(s, m) = Held(r, m) - One(n = m)
      <3>1. n = IF f = "dir" THEN r.dir ELSE IF f = "ino" THEN r.ino ELSE r.old
        BY <2>2 DEF Refs
      <3> HIDE DEF n, r, s, f
      <3> QED BY <1>1, <2>2, <2>3, <2>4, <3>1 DEF Held, One, Refs
    <2> HIDE DEF s
    <2>7. "put" \in Pcs
      BY DEF Pcs
    <2>8. c \in CallRecords /\ c.pc = "put" /\ Same(c, s)
      BY <2>4, <2>7, GoIs
    <2>9. Lists(Tail(puts), c)
      <3>1. \A g \in Refs : c[g] = s[g]
        BY <2>8 DEF Same, Refs
      <3>2. \A i \in 1..Len(Tail(puts)) : i + 1 \in 2..Len(puts) /\ Tail(puts)[i] = puts[i + 1] /\ puts[i + 1] \in Refs
        BY <2>2
      <3>3. \A i, j \in 1..Len(puts) : puts[i] = puts[j] => i = j
        BY <1>3 DEF Lists
      <3>4. \A i \in 1..Len(Tail(puts)) : Tail(puts)[i] # f
        BY <2>2, <3>2, <3>3
      <3>5. \A i \in 1..Len(Tail(puts)) : c[Tail(puts)[i]] \in DirInodes
        <4> SUFFICES ASSUME NEW i \in 1..Len(Tail(puts)) PROVE c[puts[i + 1]] \in DirInodes
          BY <3>2
        <4>1. puts[i + 1] \in Refs /\ puts[i + 1] # f /\ i + 1 \in 1..Len(puts)
          BY <2>2, <3>2, <3>4
        <4>2. r[puts[i + 1]] \in DirInodes
          BY <1>3, <4>1 DEF Lists
        <4> HIDE DEF c, r, f, puts
        <4> QED BY <2>5, <3>1, <4>1, <4>2
      <3>6. \A i, j \in 1..Len(Tail(puts)) : Tail(puts)[i] = Tail(puts)[j] => i = j
        BY <2>2, <3>2, <3>3
      <3>7. \A g \in Refs : c[g] # Null => \E i \in 1..Len(Tail(puts)) : Tail(puts)[i] = g
        <4> SUFFICES ASSUME NEW g \in Refs, c[g] # Null PROVE \E i \in 1..Len(Tail(puts)) : Tail(puts)[i] = g
          OBVIOUS
        <4>1. f # g /\ r[g] # Null
          BY <2>5, <3>1
        <4>2. PICK k \in 1..Len(puts) : puts[k] = g
          BY <1>3, <4>1 DEF Lists
        <4>3. k # 1
          BY <2>2, <4>1, <4>2
        <4>4. k - 1 \in 1..Len(Tail(puts)) /\ (k - 1) + 1 = k
          BY <2>2, <4>3
        <4>5. Tail(puts)[k - 1] = g
          BY <2>2, <4>2, <4>4
        <4> QED BY <4>4, <4>5
      <3> HIDE DEF c, puts
      <3> QED BY <2>2, <3>5, <3>6, <3>7 DEF Lists
    <2>10. IsCall(c)
      <3> HIDE DEF c
      <3> QED BY <2>4, <2>8, <2>9 DEF IsCall, Walking, Same
    <2> HIDE DEF n, r
    <2>11. IsTable(tab) /\ \A m \in DirInodes : tab[m].count = inode[m].count - One(n = m)
      <3>1. inode[n].count >= 1
        BY <1>1, <2>3, <2>6, HeldIs
      <3> QED BY <1>1, <2>3, <3>1, PutCounts
    <2> HIDE DEF tab
    <2>12. Counts(inode, inode', r, s)
      <3>1. \A m \in DirInodes : Held(r, m) \in Nat /\ One(n = m) \in Nat
        BY HeldIs DEF One
      <3> QED BY <1>1, <2>1, <2>6, <2>11, <3>1 DEF Counts
    <2> QED BY <2>1, <2>4, <2>7, <2>10, <2>11, <2>12, GoStep DEF r
  <1> QED BY <1>4, <1>5

LEMMA ReadLinkStep ==
  ASSUME NamesInv, DirectoriesAssumption, NEW t \in Walkers, ReadLink(t)
  PROVE  NamesInv'
  <1> DEFINE r == task[t]
             text == inode[r.ino].text
             pc == IF Permitted(inode, r.dir) THEN "target" ELSE "nowhere"
             s == [r EXCEPT !.ino = Null, !.name = text]
             tab == Put(inode, r.ino)
             c == [s EXCEPT !.pc = pc]
  <1>1. /\ IsCall(r) /\ r \in CallRecords /\ IsTable(inode) /\ Null \notin DirInodes
        /\ r.dir \in DirInodes \cup {Null} /\ r.ino \in DirInodes \cup {Null} /\ r.old \in DirInodes \cup {Null}
        /\ \A m \in DirInodes : inode[m].count \in Nat /\ inode[m].count >= Held(r, m)
    BY CallFacts
  <1>2. r.pc = "read" /\ inode' = tab /\ GoesTo(t, pc, s)
    BY DEF ReadLink, IsAt
  <1>3. /\ r.dir \in DirInodes /\ r.ino \in DirInodes /\ (r.old # Null <=> r.op = "link")
        /\ r.op \in Ops /\ Len(r.path) > 0 /\ Follows(r)
    BY <1>1, <1>2 DEF IsCall, Holds, HoldsIno, Walking
  <1>4. text \in Names \cup {Null}
    BY <1>1, <1>3 DEF IsTable, InodeRecords
  <1>5. pc \in {"target", "nowhere"} /\ pc \in Pcs
    BY DEF Pcs, Walking
  <1>6. Held(r, r.ino) >= 1
    BY <1>3 DEF Held, One
  <1> HIDE DEF r, text, pc
  <1>7. s \in CallRecords /\ s.dir = r.dir /\ s.ino = Null /\ s.old = r.old /\ s.op = r.op /\ s.path = r.path
    BY <1>1, <1>4 DEF CallRecords
  <1> HIDE DEF s
  <1>8. IsTable(tab) /\ \A m \in DirInodes : tab[m].count = inode[m].count - One(r.ino = m)
    <2>1. inode[r.ino].count >= 1
      BY <1>1, <1>3, <1>6, HeldIs
    <2> QED BY <1>1, <1>3, <2>1, PutCounts
  <1> HIDE DEF tab
  <1>9. Counts(inode, inode', r, s)
    <2>1. \A m \in DirInodes : Held(r, m) \in Nat /\ One(r.ino = m) \in Nat /\ Held(s, m) = Held(r, m) - One(r.ino = m)
      BY <1>1, <1>7 DEF Held, One
    <2> QED BY <1>1, <1>2, <1>8, <2>1 DEF Counts
  <1>10. c \in CallRecords /\ c.pc = pc /\ Same(c, s)
    BY <1>5, <1>7, GoIs
  <1> HIDE DEF c
  <1>11. IsCall(c)
    BY <1>1, <1>3, <1>5, <1>7, <1>10 DEF IsCall, Holds, HoldsIno, Walking, Same, Follows
  <1> QED BY <1>2, <1>5, <1>7, <1>8, <1>9, <1>11, GoStep DEF c, r

LEMMA FindTargetStep ==
  ASSUME NamesInv, DirectoriesAssumption, NEW t \in Walkers, FindTarget(t)
  PROVE  NamesInv'
  <1> DEFINE r == task[t]
             found == FoundIn(r.dir, r.name)
  <1>1. /\ IsCall(r) /\ r \in CallRecords /\ IsTable(inode) /\ Null \notin DirInodes
        /\ r.dir \in DirInodes \cup {Null} /\ r.ino \in DirInodes \cup {Null} /\ r.old \in DirInodes \cup {Null}
    BY CallFacts
  <1>2. r.pc = "target" /\ inode' = inode
    BY DEF FindTarget, IsAt
  <1>3. /\ r.dir \in DirInodes /\ r.ino = Null /\ (r.old # Null <=> r.op = "link")
        /\ r.op \in Ops /\ Len(r.path) > 0 /\ Follows(r)
    BY <1>1, <1>2 DEF IsCall, Holds, HoldsIno, Walking
  <1>4. PICK pc \in {"nowhere", "gettarget"}, s \in CallRecords :
          /\ GoesTo(t, pc, s) /\ Same(s, r)
          /\ pc = "gettarget" => s.nr \in DirInodes
    <2>1. CASE GoesTo(t, "nowhere", r)
      BY <1>1, <2>1 DEF Same
    <2>2. CASE \E k \in found : GoesTo(t, "gettarget", [r EXCEPT !.nr = inode[r.dir].slots[k].ino])
      <3>1. PICK k \in found : GoesTo(t, "gettarget", [r EXCEPT !.nr = inode[r.dir].slots[k].ino])
        BY <2>2
      <3>2. inode[r.dir].slots[k].ino \in DirInodes
        BY <1>1, <1>3, FoundIs
      <3> DEFINE s == [r EXCEPT !.nr = inode[r.dir].slots[k].ino]
      <3>3. s \in CallRecords /\ Same(s, r) /\ s.nr \in DirInodes
        BY <1>1, <3>2, NrIs
      <3> HIDE DEF s, r
      <3>4. GoesTo(t, "gettarget", s)
        BY <3>1 DEF s
      <3> QED BY <3>3, <3>4
    <2> QED BY <2>1, <2>2 DEF FindTarget
  <1> DEFINE c == [s EXCEPT !.pc = pc]
  <1>5. Counts(inode, inode', r, s)
    BY <1>2, <1>4, SameCounts DEF Same
  <1>6. pc \in Pcs
    BY DEF Pcs, Walking
  <1> HIDE DEF r
  <1>7. c \in CallRecords /\ c.pc = pc /\ Same(c, s) /\ c.nr = s.nr
    BY <1>6, GoIs
  <1> HIDE DEF c
  <1>8. IsCall(c)
    BY <1>1, <1>3, <1>4, <1>7 DEF IsCall, Holds, HoldsIno, Walking, Same, Follows
  <1> QED BY <1>1, <1>2, <1>4, <1>5, <1>6, <1>8, GoStep DEF c, r

LEMMA EmptyDirStep ==
  ASSUME NamesInv, DirectoriesAssumption, NEW t \in Walkers, EmptyDir(t)
  PROVE  NamesInv'
  <1> DEFINE r == task[t]
             d == r.dir
             n == r.ino
  <1>1. /\ IsCall(r) /\ r \in CallRecords /\ IsTable(inode) /\ Null \notin DirInodes
        /\ r.dir \in DirInodes \cup {Null} /\ r.ino \in DirInodes \cup {Null} /\ r.old \in DirInodes \cup {Null}
    BY CallFacts
  <1>2. r.pc = "empty"
    BY DEF EmptyDir, IsAt
  <1>3. d \in DirInodes /\ n \in DirInodes /\ r.old = Null
    BY <1>1, <1>2 DEF IsCall, Holds, HoldsIno, Walking
  <1>4. Lists(<<"ino", "dir">>, r) /\ Lists(<<"dir", "ino">>, r)
    BY <1>1, <1>3, DirLists
  <1>5. CASE inode[r.ino].slots # NoEntries
    <2>1. Leaves(t, r, <<"ino", "dir">>) /\ UNCHANGED inode
      BY <1>5 DEF EmptyDir
    <2>2. Counts(inode, inode', r, r)
      BY <2>1, SameCounts
    <2> QED BY <1>1, <1>4, <2>1, <2>2, LeaveStep
  <1>6. CASE ~(inode[r.ino].slots # NoEntries)
    <2> DEFINE j1 == [inode[d] EXCEPT !.slots[r.slot] = FreeSlot]
               tab1 == [inode EXCEPT ![d] = j1]
               j2 == [tab1[n] EXCEPT !.nlinks = 0]
               tab2 == [tab1 EXCEPT ![n] = j2]
               j3 == [tab2[d] EXCEPT !.nlinks = @ - 1]
               tab3 == [tab2 EXCEPT ![d] = j3]
    <2>1. /\ inode' = [inode EXCEPT ![d].slots[r.slot] = FreeSlot, ![n].nlinks = 0, ![d].nlinks = @ - 1]
          /\ Leaves(t, r, <<"dir", "ino">>)
      BY <1>6 DEF EmptyDir
    <2>2. inode' = tab3
      <3>1. inode \in [DirInodes -> InodeRecords]
        BY <1>1 DEF IsTable
      <3> HIDE DEF d, n, r
      <3>2. CASE d = n
        BY <1>3, <2>1, <3>1, <3>2 DEF InodeRecords
      <3>3. CASE d # n
        BY <1>3, <2>1, <3>1, <3>3 DEF InodeRecords
      <3> QED BY <3>2, <3>3
    <2>3. Changed(tab1, inode, d, j1) /\ Changed(tab2, tab1, n, j2) /\ Changed(inode', tab2, d, j3)
      BY <2>2 DEF Changed
    <2>4. j1 \in InodeRecords /\ j1.count = inode[d].count /\ j1.type = inode[d].type
      <3>1. inode[d] \in InodeRecords
        BY <1>1, <1>3 DEF IsTable
      <3>2. FreeSlot \in Entry
        BY DEF FreeSlot, Entry
      <3> HIDE DEF d, r
      <3> QED BY <3>1, <3>2 DEF InodeRecords
    <2> HIDE DEF r, d, n, j1, tab1
    <2>5. IsTable(tab1) /\ \A m \in DirInodes : tab1[m].count = inode[m].count
      BY <1>1, <1>3, <2>3, <2>4, ChangedIs
    <2>6. j2 \in InodeRecords /\ j2.count = tab1[n].count /\ j2.type = tab1[n].type
      <3>1. tab1[n] \in InodeRecords
        BY <1>3, <2>5 DEF IsTable
      <3> QED BY <3>1 DEF InodeRecords
    <2> HIDE DEF j2, tab2
    <2>7. IsTable(tab2) /\ \A m \in DirInodes : tab2[m].count = tab1[m].count
      BY <1>3, <2>3, <2>5, <2>6, ChangedIs
    <2>8. j3 \in InodeRecords /\ j3.count = tab2[d].count /\ j3.type = tab2[d].type
      <3>1. tab2[d] \in InodeRecords
        BY <1>3, <2>7 DEF IsTable
      <3> QED BY <3>1 DEF InodeRecords
    <2> HIDE DEF j3, tab3
    <2>9. IsTable(inode') /\ \A m \in DirInodes : inode'[m].count = tab2[m].count
      BY <1>3, <2>3, <2>7, <2>8, ChangedIs
    <2>10. Counts(inode, inode', r, r)
      BY <2>5, <2>7, <2>9, SameCounts DEF r
    <2> QED BY <1>1, <1>4, <2>1, <2>9, <2>10, LeaveStep DEF r
  <1> QED BY <1>5, <1>6

(* A call takes a reference to the inode it found and gives its directory back. *)
LEMMA ArriveStep ==
  ASSUME NamesInv, DirectoriesAssumption, NEW t \in Walkers, NEW n \in DirInodes, inode[n].type # "free",
         Arrived(task[t]), task[t].dir \in DirInodes,
         Target(t, Put(GetRef(inode, n), task[t].dir), task[t], n)
  PROVE  NamesInv'
  <1> DEFINE r == task[t]
             tab1 == GetRef(inode, n)
             tab == Put(tab1, r.dir)
  <1>1. /\ IsTable(inode) /\ Null \notin DirInodes /\ RootDir \in DirInodes
        /\ \A m \in DirInodes : inode[m].count \in Nat
    BY CallFacts
  <1>2. \A m \in DirInodes : inode[m].count >= Held(r, m) + One(m = RootDir)
    BY CountsFact
  <1>3. IsTable(tab1) /\ \A m \in DirInodes : tab1[m].count = inode[m].count + One(n = m)
    BY <1>1, GetCounts
  <1>4. r.ino = Null
    BY DEF Arrived, InDirectory
  <1> HIDE DEF r
  <1>5. /\ r.dir \in DirInodes /\ Arrived(r)
    BY DEF r
  <1>6. \A m \in DirInodes : /\ Held(r, m) = One(r.dir = m) + One(r.old = m)
                             /\ One(r.dir = m) \in Nat /\ One(r.old = m) \in Nat /\ One(n = m) \in Nat
    BY <1>1, <1>4 DEF Held, One
  <1>7. One(r.dir = r.dir) = 1 /\ One(RootDir = RootDir) = 1 /\ One(r.dir = RootDir) \in Nat
    BY DEF One
  <1> HIDE DEF tab1
  <1>8. IsTable(tab) /\ \A m \in DirInodes : tab[m].count = tab1[m].count - One(r.dir = m)
    <2>1. inode[r.dir].count >= 1
      <3>1. inode[r.dir].count >= Held(r, r.dir) + One(r.dir = RootDir) /\ inode[r.dir].count \in Nat
        BY <1>1, <1>2, <1>5
      <3>2. Held(r, r.dir) = 1 + One(r.old = r.dir) /\ One(r.old = r.dir) \in Nat
        BY <1>5, <1>6, <1>7
      <3> QED BY <1>7, <3>1, <3>2
    <2>2. tab1[r.dir].count >= 1
      <3>1. tab1[r.dir].count = inode[r.dir].count + One(n = r.dir) /\ One(n = r.dir) \in Nat /\ inode[r.dir].count \in Nat
        BY <1>1, <1>3, <1>5, <1>6
      <3> QED BY <2>1, <3>1
    <2> QED BY <1>3, <1>5, <2>2, PutCounts
  <1> HIDE DEF tab
  <1>9. tab[RootDir].count >= 1
    <2>1. inode[RootDir].count >= Held(r, RootDir) + One(RootDir = RootDir) /\ inode[RootDir].count \in Nat
      BY <1>1, <1>2
    <2>2. Held(r, RootDir) = One(r.dir = RootDir) + One(r.old = RootDir) /\ One(r.old = RootDir) \in Nat /\ One(n = RootDir) \in Nat
      BY <1>1, <1>6
    <2>3. tab[RootDir].count = inode[RootDir].count + One(n = RootDir) - One(r.dir = RootDir)
      BY <1>1, <1>3, <1>7, <1>8, <2>2
    <2> QED BY <1>7, <2>1, <2>2, <2>3
  <1>10. PICK c : task' = [task EXCEPT ![t] = c] /\ GoesOn(c, r, n, tab, inode')
    <2>1. Target(t, tab, r, n)
      BY DEF tab, tab1, r
    <2> QED BY <1>5, <1>8, <1>9, <2>1, TargetIs
  <1>11. /\ IsCall(c) /\ IsTable(inode')
         /\ \A m \in DirInodes : inode'[m].count - Held(c, m) = tab[m].count - One(n = m) - One(r.old = m)
    BY <1>10 DEF GoesOn
  <1>12. Counts(inode, inode', r, c)
    <2> SUFFICES ASSUME NEW m \in DirInodes PROVE inode'[m].count = inode[m].count - Held(r, m) + Held(c, m)
      BY DEF Counts
    <2>1. inode'[m].count - Held(c, m) = tab[m].count - One(n = m) - One(r.old = m)
      BY <1>11
    <2>2. tab[m].count = inode[m].count + One(n = m) - One(r.dir = m) /\ inode[m].count \in Nat
      BY <1>1, <1>3, <1>6, <1>8
    <2>3. inode'[m].count \in Int /\ Held(c, m) \in Nat
      BY <1>11, HeldIs DEF IsTable, InodeRecords
    <2>4. Held(r, m) = One(r.dir = m) + One(r.old = m)
          /\ One(r.dir = m) \in Nat /\ One(r.old = m) \in Nat /\ One(n = m) \in Nat
      BY <1>6
    <2> QED BY <2>1, <2>2, <2>3, <2>4
  <1> QED BY <1>10, <1>11, <1>12, CallStep DEF r

LEMMA NothingStep ==
  ASSUME NamesInv, DirectoriesAssumption, UNCHANGED <<inode, task>>
  PROVE  NamesInv'
  <1>1. IsTable(inode')
    BY DEF NamesInv
  <1>2. \A t \in Walkers : IsCall(task'[t])
    BY DEF NamesInv
  <1>3. ReferencesAreHeld'
    BY DEF NamesInv, ReferencesAreHeld
  <1>4. IsTable(inode)'
    BY <1>1 DEF IsTable, InodeRecords, Entry, EntrySlots
  <1>5. \A t \in Walkers : IsCall(task[t])'
    BY <1>2 DEF IsCall, Holds, HoldsIno, Lists, Follows
  <1> QED BY <1>3, <1>4, <1>5 DEF NamesInv

LEMMA GetTargetStep ==
  ASSUME NamesInv, DirectoriesAssumption, NEW t \in Walkers, GetTarget(t)
  PROVE  NamesInv'
  <1> DEFINE r == task[t]
  <1>1. /\ IsCall(r) /\ r \in CallRecords /\ Null \notin DirInodes
        /\ r.dir \in DirInodes \cup {Null} /\ r.ino \in DirInodes \cup {Null} /\ r.old \in DirInodes \cup {Null}
    BY CallFacts
  <1>2. r.pc = "gettarget"
    BY DEF GetTarget, IsAt
  <1>3. /\ r.dir \in DirInodes /\ r.ino = Null /\ (r.old # Null <=> r.op = "link")
        /\ r.op \in Ops /\ Len(r.path) > 0 /\ Follows(r) /\ r.nr \in DirInodes
    BY <1>1, <1>2 DEF IsCall, Holds, HoldsIno, Walking
  <1>4. CASE Stale(r)
    <2>1. UNCHANGED <<inode, task>>
      BY <1>4 DEF GetTarget
    <2> QED BY <2>1, NothingStep
  <1>5. CASE ~Stale(r)
    <2>1. Target(t, Put(GetRef(inode, r.nr), r.dir), r, r.nr)
      BY <1>5 DEF GetTarget
    <2>2. inode[r.nr].type # "free"
      BY <1>5 DEF Stale
    <2>3. Arrived(r)
      BY <1>1, <1>3 DEF Arrived, InDirectory
    <2> QED BY <1>3, <2>1, <2>2, <2>3, ArriveStep
  <1> QED BY <1>4, <1>5

LEMMA UnlinkStep ==
  ASSUME NamesInv, DirectoriesAssumption, NEW t \in Walkers, task[t].pc = "get",
         NEW n \in DirInodes, inode[n].type # "free", task[t].op = "unlink", Unlink(t, task[t], n)
  PROVE  NamesInv'
  <1> DEFINE r == task[t]
             d == r.dir
             s == [r EXCEPT !.ino = n]
             tab == GetRef(inode, n)
  <1>1. /\ IsCall(r) /\ r \in CallRecords /\ IsTable(inode) /\ Null \notin DirInodes
        /\ r.dir \in DirInodes \cup {Null} /\ r.ino \in DirInodes \cup {Null} /\ r.old \in DirInodes \cup {Null}
        /\ \A m \in DirInodes : inode[m].count \in Nat
    BY CallFacts
  <1>2. d \in DirInodes /\ r.ino = Null /\ r.old = Null
    BY <1>1 DEF IsCall, Holds, HoldsIno, Walking
  <1>3. s.dir = d /\ s.ino = n /\ s.old = Null
    BY <1>1, <1>2 DEF CallRecords
  <1>4. Leaves(t, s, <<"ino", "dir">>)
    BY DEF Unlink
  <1>5. IsTable(tab) /\ \A m \in DirInodes : tab[m].count = inode[m].count + One(n = m)
    BY <1>1, GetCounts
  <1>6. IsTable(inode') /\ \A m \in DirInodes : inode'[m].count = inode[m].count + One(n = m)
    <2>1. CASE inode[n].type = "dir"
      <3>1. inode' = tab
        BY <2>1 DEF Unlink
      <3> HIDE DEF tab
      <3> QED BY <1>5, <3>1
    <2>2. CASE inode[n].type # "dir"
      <3> DEFINE j1 == [tab[d] EXCEPT !.slots[r.slot] = FreeSlot]
                 tab1 == [tab EXCEPT ![d] = j1]
                 j2 == [tab1[n] EXCEPT !.nlinks = @ - 1]
                 tab2 == [tab1 EXCEPT ![n] = j2]
      <3>1. inode' = [tab EXCEPT ![d].slots[r.slot] = FreeSlot, ![n].nlinks = @ - 1]
        BY <2>2 DEF Unlink
      <3>2. inode' = tab2
        <4>1. tab \in [DirInodes -> InodeRecords]
          BY <1>5 DEF IsTable
        <4> HIDE DEF d, r, tab
        <4>2. CASE d = n
          BY <1>2, <3>1, <4>1, <4>2 DEF InodeRecords
        <4>3. CASE d # n
          BY <1>2, <3>1, <4>1, <4>3 DEF InodeRecords
        <4> QED BY <4>2, <4>3
      <3>3. Changed(tab1, tab, d, j1) /\ Changed(inode', tab1, n, j2)
        BY <3>2 DEF Changed
      <3> HIDE DEF tab
      <3>4. j1 \in InodeRecords /\ j1.count = tab[d].count /\ j1.type = tab[d].type
        <4>1. tab[d] \in InodeRecords
          BY <1>2, <1>5 DEF IsTable
        <4>2. FreeSlot \in Entry
          BY DEF FreeSlot, Entry
        <4> HIDE DEF d, r
        <4> QED BY <4>1, <4>2 DEF InodeRecords
      <3> HIDE DEF r, d, j1, tab1
      <3>5. IsTable(tab1) /\ \A m \in DirInodes : tab1[m].count = tab[m].count
        BY <1>2, <1>5, <3>3, <3>4, ChangedIs
      <3>6. j2 \in InodeRecords /\ j2.count = tab1[n].count /\ j2.type = tab1[n].type
        <4>1. tab1[n] \in InodeRecords
          BY <3>5 DEF IsTable
        <4> QED BY <4>1 DEF InodeRecords
      <3> HIDE DEF j2, tab2
      <3>7. IsTable(inode') /\ \A m \in DirInodes : inode'[m].count = tab1[m].count
        BY <3>3, <3>5, <3>6, ChangedIs
      <3> QED BY <1>5, <3>5, <3>7
    <2> QED BY <2>1, <2>2
  <1> HIDE DEF s, tab
  <1>7. Counts(inode, inode', r, s)
    <2>1. \A m \in DirInodes : Held(r, m) \in Nat /\ One(n = m) \in Nat /\ Held(s, m) = Held(r, m) + One(n = m)
      BY <1>1, <1>2, <1>3 DEF Held, One
    <2> QED BY <1>1, <1>6, <2>1 DEF Counts
  <1>8. Lists(<<"ino", "dir">>, s)
    BY <1>1, <1>2, <1>3, DirLists
  <1> QED BY <1>2, <1>3, <1>4, <1>6, <1>7, <1>8, LeaveStep

LEMMA RmdirLooksStep ==
  ASSUME NamesInv, DirectoriesAssumption, NEW t \in Walkers, task[t].pc = "get", ~Follows(task[t]),
         NEW n \in DirInodes, inode[n].type # "free", task[t].op = "rmdir", RmdirLooks(t, task[t], n)
  PROVE  NamesInv'
  <1> DEFINE r == task[t]
             s == [r EXCEPT !.ino = n]
             tab == GetRef(inode, n)
  <1>1. /\ IsCall(r) /\ r \in CallRecords /\ IsTable(inode) /\ Null \notin DirInodes
        /\ r.dir \in DirInodes \cup {Null} /\ r.ino \in DirInodes \cup {Null} /\ r.old \in DirInodes \cup {Null}
        /\ \A m \in DirInodes : inode[m].count \in Nat
    BY CallFacts
  <1>2. r.dir \in DirInodes /\ r.ino = Null /\ r.old = Null /\ r.op \in Ops /\ Len(r.path) > 0 /\ r.slot \in EntrySlots
    BY <1>1 DEF IsCall, Holds, HoldsIno, Walking
  <1>3. s \in CallRecords /\ s.dir = r.dir /\ s.ino = n /\ s.old = Null /\ s.op = r.op /\ s.path = r.path /\ s.slot = r.slot
    BY <1>1, <1>2 DEF CallRecords
  <1>4. /\ inode' = tab
        /\ Leaves(t, s, <<"dir", "ino">>) \/ Leaves(t, s, <<"ino", "dir">>) \/ GoesTo(t, "empty", s)
    BY Zenon DEF RmdirLooks
  <1>5. IsTable(tab) /\ \A m \in DirInodes : tab[m].count = inode[m].count + One(n = m)
    BY <1>1, GetCounts
  <1> HIDE DEF s, tab
  <1>6. Counts(inode, inode', r, s)
    <2>1. \A m \in DirInodes : Held(r, m) \in Nat /\ One(n = m) \in Nat /\ Held(s, m) = Held(r, m) + One(n = m)
      BY <1>1, <1>2, <1>3 DEF Held, One
    <2> QED BY <1>1, <1>4, <1>5, <2>1 DEF Counts
  <1>7. IsTable(inode')
    BY <1>4, <1>5
  <1>8. ASSUME NEW puts \in {<<"dir", "ino">>, <<"ino", "dir">>}, Leaves(t, s, puts) PROVE NamesInv'
    <2>1. Lists(puts, s)
      BY <1>1, <1>2, <1>3, DirLists
    <2> QED BY <1>2, <1>3, <1>6, <1>7, <1>8, <2>1, LeaveStep
  <1>9. CASE GoesTo(t, "empty", s)
    <2> DEFINE c == [s EXCEPT !.pc = "empty"]
    <2>1. "empty" \in Pcs
      BY DEF Pcs
    <2>2. c \in CallRecords /\ c.pc = "empty" /\ Same(c, s)
      BY <1>3, <2>1, GoIs
    <2> HIDE DEF c
    <2>3. IsCall(c)
      BY <1>1, <1>2, <1>3, <2>2 DEF IsCall, Holds, HoldsIno, Walking, Same, Creators
    <2> QED BY <1>3, <1>6, <1>7, <1>9, <2>1, <2>3, GoStep DEF c
  <1> QED BY <1>4, <1>8, <1>9

LEMMA GetStep ==
  ASSUME NamesInv, DirectoriesAssumption, NEW t \in Walkers, Get(t)
  PROVE  NamesInv'
  <1> DEFINE r == task[t]
             n == r.nr
  <1>1. /\ IsCall(r) /\ r \in CallRecords /\ IsTable(inode) /\ Null \notin DirInodes
        /\ r.dir \in DirInodes \cup {Null} /\ r.ino \in DirInodes \cup {Null} /\ r.old \in DirInodes \cup {Null}
        /\ \A m \in DirInodes : inode[m].count \in Nat
    BY CallFacts
  <1>2. r.pc = "get"
    BY DEF Get, IsAt
  <1>3. /\ r.dir \in DirInodes /\ r.ino = Null /\ (r.old # Null <=> r.op = "link")
        /\ r.op \in Ops /\ Len(r.path) > 0 /\ n \in DirInodes
        /\ Follows(r) \/ r.op \in {"unlink", "rmdir"}
    BY <1>1, <1>2 DEF IsCall, Holds, HoldsIno, Walking
  <1>4. CASE Stale(r)
    <2>1. UNCHANGED <<inode, task>>
      BY <1>4 DEF Get
    <2> QED BY <2>1, NothingStep
  <1>5. CASE ~Stale(r) /\ Follows(r)
    <2>1. inode[n].type # "free"
      BY <1>5 DEF Stale
    <2>2. CASE inode[n].type = "link"
      <3> DEFINE s == [r EXCEPT !.ino = n]
                 tab == GetRef(inode, n)
                 c == [s EXCEPT !.pc = "read"]
      <3>1. inode' = tab /\ GoesTo(t, "read", s)
        BY <1>5, <2>2 DEF Get
      <3>2. s \in CallRecords /\ s.dir = r.dir /\ s.ino = n /\ s.old = r.old /\ s.op = r.op /\ s.path = r.path
        BY <1>1, <1>3 DEF CallRecords
      <3>3. IsTable(tab) /\ \A m \in DirInodes : tab[m].count = inode[m].count + One(n = m)
        BY <1>1, <1>3, <2>1, GetCounts
      <3>4. "read" \in Pcs
        BY DEF Pcs
      <3> HIDE DEF s, r, n, tab
      <3>5. Counts(inode, inode', r, s)
        <4>1. \A m \in DirInodes : Held(r, m) \in Nat /\ One(n = m) \in Nat /\ Held(s, m) = Held(r, m) + One(n = m)
          BY <1>1, <1>3, <3>2 DEF Held, One
        <4> QED BY <1>1, <3>1, <3>3, <4>1 DEF Counts
      <3>6. c \in CallRecords /\ c.pc = "read" /\ Same(c, s)
        BY <3>2, <3>4, GoIs
      <3> HIDE DEF c
      <3>7. IsCall(c)
        BY <1>1, <1>3, <1>5, <3>2, <3>6 DEF IsCall, Holds, HoldsIno, Walking, Same, Follows
      <3>8. IsTable(inode')
        BY <3>1, <3>3
      <3> QED BY <3>1, <3>2, <3>4, <3>5, <3>7, <3>8, GoStep DEF c, r
    <2>3. CASE inode[n].type # "link"
      <3>1. Target(t, Put(GetRef(inode, n), r.dir), r, n)
        BY <1>5, <2>3 DEF Get
      <3>2. Arrived(r)
        BY <1>1, <1>3, <1>5 DEF Arrived, InDirectory
      <3> QED BY <1>3, <2>1, <3>1, <3>2, ArriveStep
    <2> QED BY <2>2, <2>3
  <1>6. CASE ~Stale(r) /\ ~Follows(r)
    <2>1. inode[n].type # "free"
      BY <1>6 DEF Stale
    <2>2. CASE r.op = "unlink"
      <3>1. Unlink(t, r, n)
        BY <1>6, <2>2 DEF Get
      <3> QED BY <1>2, <1>3, <2>1, <2>2, <3>1, UnlinkStep
    <2>3. CASE r.op = "rmdir"
      <3>1. RmdirLooks(t, r, n)
        BY <1>6, <2>3 DEF Get
      <3> QED BY <1>2, <1>3, <1>6, <2>1, <2>3, <3>1, RmdirLooksStep
    <2> QED BY <1>3, <1>6, <2>2, <2>3
  <1> QED BY <1>4, <1>5, <1>6

LEMMA InitNames == ASSUME DirectoriesAssumption, NamesInit PROVE NamesInv
  <1>1. \A t \in Walkers : task[t] = IdleCall
    BY DEF NamesInit
  <1>2. \A t \in Walkers : IsCall(task[t])
    BY <1>1, IdleIs
  <1>3. task = [t \in Walkers |-> task[t]]
    BY DEF NamesInit
  <1>4. \A n \in DirInodes : inode[n] = IF n = RootDir THEN New("dir", Null) ELSE NoInode
    BY DEF NamesInit
  <1>5. New("dir", Null) \in InodeRecords /\ New("dir", Null).count = 1 /\ New("dir", Null).type = "dir"
    BY NewIs
  <1>6. NoInode \in InodeRecords /\ NoInode.count = 0
    BY DEF InodeRecords, NoInode, NoEntries, FreeSlot, Entry, Types
  <1>7. IsTable(inode)
    <2>1. inode \in [DirInodes -> InodeRecords]
      <3>1. inode = [n \in DirInodes |-> IF n = RootDir THEN New("dir", Null) ELSE NoInode]
        BY DEF NamesInit
      <3> QED BY <1>5, <1>6, <3>1
    <2> QED BY <1>4, <1>5, <1>6, <2>1 DEF IsTable
  <1>8. ReferencesAreHeld
    <2> SUFFICES ASSUME NEW n \in DirInodes
                 PROVE  inode[n].count = Cardinality(HoldersOf(n)) + One(n = RootDir)
      BY DEF ReferencesAreHeld, HoldersOf, One
    <2>1. HoldersOf(n) = {}
      <3>1. \A t \in Walkers : task[t].dir # n /\ task[t].ino # n /\ task[t].old # n
        BY <1>1 DEF IdleCall, DirectoriesAssumption
      <3>2. \A t \in Walkers : task[t]["dir"] # n /\ task[t]["ino"] # n /\ task[t]["old"] # n
        BY <3>1
      <3> QED BY <3>2 DEF HoldersOf
    <2>2. Cardinality(HoldersOf(n)) = 0
      BY <2>1, FS_EmptySet
    <2> QED BY <1>4, <1>5, <1>6, <2>2 DEF One
  <1> QED BY <1>2, <1>3, <1>7, <1>8 DEF NamesInv

(* Whichever way an operation on names goes, and whatever other tasks do where
   it sleeps, until one goes on with what is no longer so, i_count is the number
   of the references that tasks hold: each iget has its iput
   (namei.c:284-989). *)
THEOREM ReferencesStayHeld ==
  ASSUME DirectoriesAssumption
  PROVE  NamesSpec => []ReferencesAreHeld
  <1>1. NamesInit => NamesInv
    BY InitNames
  <1>2. NamesInv /\ [NamesNext]_nameVars => NamesInv'
    <2> SUFFICES ASSUME NamesInv, [NamesNext]_nameVars PROVE NamesInv'
      OBVIOUS
    <2>1. CASE UNCHANGED nameVars
      BY <2>1, NothingStep DEF nameVars
    <2>2. ASSUME NEW t \in Walkers,
                 \/ Begin(t) \/ NextName(t) \/ Find(t) \/ MakeInode(t) \/ Add(t) \/ GivesUp(t) \/ Created(t)
                 \/ Linked(t)
                 \/ Get(t) \/ EmptyDir(t) \/ ReadLink(t) \/ FindTarget(t) \/ GetTarget(t) \/ Nowhere(t) \/ Wild(t)
                 \/ PutNext(t) \/ CloseFile(t)
          PROVE  NamesInv'
      <3>1. CASE Begin(t) \/ NextName(t) \/ Find(t) \/ MakeInode(t)
        BY <3>1, BeginStep, NextNameStep, FindStep, MakeInodeStep
      <3>2. CASE Add(t) \/ GivesUp(t) \/ Created(t) \/ Linked(t) \/ Get(t)
        BY <3>2, AddStep, GivesUpStep, CreatedStep, LinkedStep, GetStep
      <3>3. CASE EmptyDir(t) \/ ReadLink(t) \/ FindTarget(t) \/ GetTarget(t)
        BY <3>3, EmptyDirStep, ReadLinkStep, FindTargetStep, GetTargetStep
      <3>4. CASE Nowhere(t) \/ Wild(t) \/ PutNext(t) \/ CloseFile(t)
        BY <3>4, NowhereStep, WildStep, PutNextStep, CloseFileStep
      <3> QED BY <2>2, <3>1, <3>2, <3>3, <3>4
    <2> QED BY <2>1, <2>2 DEF NamesNext
  <1>3. NamesInv => ReferencesAreHeld
    BY DEF NamesInv
  <1> QED BY <1>1, <1>2, <1>3, PTL DEF NamesSpec
=============================================================================
