---------------------------- MODULE MemoryProofs ----------------------------
(***************************************************************************)
(* Proofs about pages and swap slots, for any number of tasks a byte can   *)
(* count, pages, frames and slots: mem_map counts the references to each   *)
(* page, a slot has one owner, and what may be dropped can be read again;  *)
(* and Memory implements PrivateMemory: whatever is shared, copied,        *)
(* dropped and swapped, a task finds in its memory what it has put there.  *)
(***************************************************************************)
EXTENDS Memory, FiniteSetTheorems, WellFoundedInduction, TLAPS

(* Whatever refers to a page of memory: the entries of page tables, the tables
   themselves, and what a call in the kernel has in hand, from get_free_page or,
   while put_page wants a second page, from before. *)
TABLE == -1
PAGE == -2
KEPT == -3
References == Tasks \X (Pages \cup {TABLE, PAGE, KEPT})
InHand(c) == IF "put_page" \in {c.pc, c.ret} THEN c.kept ELSE NONE
RefsOf(tables, calls, entries) ==
  [r \in References |->
     IF r[2] = TABLE THEN tables[r[1]]
     ELSE IF r[2] = PAGE THEN calls[r[1]].page
     ELSE IF r[2] = KEPT THEN InHand(calls[r[1]])
     ELSE entries[r[1]][r[2]].frame]
Refs == RefsOf(table, call, pte)

(* The functions of the kernel. *)
Getters == {"swap_in", "put_page", "load", "share", "copy_page", "copy_table", "copy_swapped"}
AtPage == {"share", "put_page", "load", "bread_page", "swap_in", "read_swap_page",
           "copy_page", "copy_swapped", "copy_read"}
Labels == Getters \cup Copying \cup AtPage \cup {"user", "unused", "new", "get_free_page", "swap_out"}

PageEntry == [frame : 0..NrFrames, rw : BOOLEAN, dirty : BOOLEAN, slot : Slots \cup {NONE}]
Calls == [pc : Labels, ret : Labels, v : Nat, page : 0..NrFrames, kept : 0..NrFrames,
          other : Tasks \cup {NONE}, from : 0..NrFrames, slot : Slots \cup {NONE}]

MemoryTypeOK ==
  /\ mem_map \in [Frames -> 0..255]
  /\ table \in [Tasks -> 0..NrFrames]
  /\ pte \in [Tasks -> [Pages -> PageEntry]]
  /\ swap_bitmap \subseteq Slots
  /\ DOMAIN data = Frames /\ DOMAIN disk = Slots
  /\ call \in [Tasks -> Calls]
  /\ running \in Tasks \cup {NONE}

(* What a call has got and what it is about, at each place of the kernel. *)
InKernelOK(t) ==
  LET c == call[t]
      at == Stage(c)
  IN  /\ c.pc \in {"get_free_page", "swap_out"} => c.ret \in Getters
      /\ c.page # NONE => c.pc \in Getters \cup {"swap_out", "bread_page", "read_swap_page", "copy_read"}
      /\ c.pc \in {"swap_out", "bread_page", "read_swap_page", "copy_read"} => c.page # NONE
      /\ at \in AtPage => c.v \in Pages
      /\ at \in {"share", "copy_page"} => c.kept # NONE
      /\ at = "share" => c.other \in Tasks \ {t}
      /\ at = "share" /\ (c.pc # "share" \/ c.page # NONE) => table[t] = NONE
      /\ InHand(c) # NONE => at = "put_page" /\ table[t] = NONE
      /\ at \in {"load", "bread_page"} => c.kept = NONE

(* The entry a fault is about stays what it was when the call took it to be
   missing or on the swap device. *)
EntryIsAsRead(t) ==
  LET at == Stage(call[t])
      e == pte[t][call[t].v]
  IN  /\ at \in {"share", "put_page", "load", "bread_page"} => e = Empty
      /\ at \in {"swap_in", "read_swap_page", "copy_swapped", "copy_read"} => e.slot # NONE
      /\ call[t].pc = "unused" => table[t] = NONE /\ \A v \in Pages : pte[t][v] = Empty

(* The child of a fork is not alive yet, has no other parent, and no entries
   from the one on that is being copied. *)
ChildOK(t) ==
  LET c == call[t] IN
  Stage(c) \in Copying =>
    /\ c.other \in Tasks /\ call[c.other].pc = "new"
    /\ \A u \in Tasks : Stage(call[u]) \in Copying /\ call[u].other = c.other => u = t
    /\ Stage(c) = "copy_table" => table[c.other] = NONE /\ \A v \in Pages : pte[c.other][v] = Empty
    /\ c.v \in Pages => \A v \in Pages : v >= c.v => pte[c.other][v] = Empty

(* The page that put_page is given is what the program expects there. *)
PageIsFilled(t) ==
  LET c == call[t]
      at == Stage(c)
  IN  /\ at \in {"load", "bread_page"} => c.v \in Code
      /\ at = "put_page" /\ c.kept # NONE => data[c.kept] = Backing(c.v)
      /\ at = "put_page" /\ c.kept = NONE =>
           IF c.pc = "put_page" THEN c.page # NONE => data[c.page] = Backing(c.v) ELSE c.v \in Data

CallsOK == \A t \in Tasks : InKernelOK(t) /\ EntryIsAsRead(t) /\ ChildOK(t) /\ PageIsFilled(t)

(* An entry has a page, or a slot, or is empty; a page is at the same address
   for all who have it, and may be written by one that has it alone. *)
EntriesOK ==
  /\ \A t \in Tasks, v \in Pages :
       /\ ~Present(pte[t][v]) => ~pte[t][v].rw /\ ~pte[t][v].dirty
       /\ pte[t][v].slot # NONE => ~Present(pte[t][v])
  /\ \A t, u \in Tasks, v, w \in Pages :
       Present(pte[t][v]) /\ pte[t][v].frame = pte[u][w].frame =>
         v = w /\ (pte[t][v].rw => t = u)

(* A slot is in one entry or in the bitmap. *)
SlotsOK ==
  /\ \A t, u \in Tasks, v, w \in Pages :
       pte[t][v].slot # NONE /\ pte[t][v].slot = pte[u][w].slot => t = u /\ v = w
  /\ \A t \in Tasks, v \in Pages : pte[t][v].slot \notin swap_bitmap
  /\ \A nr \in Slots \ swap_bitmap : \E t \in Tasks, v \in Pages : pte[t][v].slot = nr

(* mem_map counts the references, and what is not in an entry has one. *)
Counts(R, m) == \A f \in Frames : m[f] = Cardinality({r \in References : R[r] = f})
Exclusive(R) ==
  \A r, s \in References : R[r] # NONE /\ R[r] = R[s] /\ r[2] \notin Pages => r = s
CountsOK == Counts(Refs, mem_map) /\ Exclusive(Refs)

(* What is clean is as it was in the executable, copies by un_wp_page apart. *)
CleanOK ==
  \A t \in Tasks, v \in Pages :
    MayDrop(pte[t][v]) /\ pte[t][v].frame \notin copied => data[pte[t][v].frame] = Backing(v)

Inv ==
  /\ MemoryTypeOK /\ CallsOK /\ EntriesOK /\ SlotsOK /\ CountsOK /\ CleanOK /\ ~panic

IInv == ~raced => Inv
-----------------------------------------------------------------------------
(* The least and the greatest element of a set of numbers. *)
LEMMA LeastIs ==
  ASSUME NEW S, S \subseteq Nat, S # {}
  PROVE  Min(S) \in S /\ \A n \in S : Min(S) <= n
  <1> DEFINE Less == {p \in Nat \X Nat : p[1] < p[2]}
  <1>1. IsWellFoundedOn(Less, Nat)
    BY NatLessThanWellFounded DEF OpToRel
  <1>2. \E m \in S : \A n \in S : <<n, m>> \notin Less
    <2> HIDE DEF Less
    <2> QED BY <1>1, WFMin, Zenon
  <1>3. PICK m \in S : \A n \in S : ~ (n < m)
    BY <1>2
  <1>4. \A n \in S : m <= n
    BY <1>3
  <1> QED BY <1>4 DEF Min

LEMMA GreatestIs ==
  ASSUME NEW N \in Nat, NEW S, S \subseteq 1..N, S # {}
  PROVE  Max(S) \in S
  <1> DEFINE D == {d \in Nat : \E n \in S : d = N - n}
  <1>1. D \subseteq Nat /\ \A n \in S : N - n \in D
    OBVIOUS
  <1>2. Min(D) \in D /\ \A d \in D : Min(D) <= d
    <2> HIDE DEF D
    <2> QED BY <1>1, LeastIs
  <1>3. PICK m \in S : Min(D) = N - m
    BY <1>2
  <1>4. \A n \in S : N - m <= N - n
    BY <1>2, <1>3
  <1>5. \A n \in S : m >= n
    BY <1>4
  <1> QED BY <1>5 DEF Max

LEMMA OneLess ==
  ASSUME NEW n \in Nat, n >= 1 PROVE Max({n - 1, 0}) = n - 1
  <1>1. \E x \in {n - 1, 0} : \A y \in {n - 1, 0} : x >= y
    OBVIOUS
  <1>2. Max({n - 1, 0}) \in {n - 1, 0} /\ \A y \in {n - 1, 0} : Max({n - 1, 0}) >= y
    BY <1>1 DEF Max
  <1> QED BY <1>2

-----------------------------------------------------------------------------
(* References. *)
LEMMA ReferencesAre ==
  ASSUME MemoryAssumption
  PROVE  /\ IsFiniteSet(References)
         /\ TABLE \notin Pages /\ PAGE \notin Pages /\ KEPT \notin Pages
         /\ TABLE # PAGE /\ TABLE # KEPT /\ PAGE # KEPT
         /\ \A t \in Tasks : /\ <<t, TABLE>> \in References /\ <<t, PAGE>> \in References
                             /\ <<t, KEPT>> \in References
                             /\ \A v \in Pages : <<t, v>> \in References
         /\ \A r \in References : r = <<r[1], r[2]>> /\ r[1] \in Tasks
                                 /\ r[2] \in Pages \cup {TABLE, PAGE, KEPT}
  <1>1. IsFiniteSet(Tasks) /\ IsFiniteSet(Pages) /\ Pages \subseteq Nat
    BY DEF MemoryAssumption, Pages
  <1>2. IsFiniteSet(Pages \cup {TABLE}) /\ IsFiniteSet(Pages \cup {TABLE} \cup {PAGE})
    BY <1>1, FS_AddElement
  <1>3. IsFiniteSet(Pages \cup {TABLE} \cup {PAGE} \cup {KEPT})
    BY <1>2, FS_AddElement
  <1>4. Pages \cup {TABLE} \cup {PAGE} \cup {KEPT} = Pages \cup {TABLE, PAGE, KEPT}
    OBVIOUS
  <1>5. IsFiniteSet(References)
    BY <1>1, <1>3, <1>4, FS_Product DEF References
  <1>6. TABLE \notin Pages /\ PAGE \notin Pages /\ KEPT \notin Pages
        /\ TABLE # PAGE /\ TABLE # KEPT /\ PAGE # KEPT
    BY <1>1 DEF TABLE, PAGE, KEPT
  <1> QED BY <1>5, <1>6 DEF References

LEMMA RefsOfAre ==
  ASSUME MemoryAssumption, NEW tables, NEW calls, NEW entries
  PROVE  LET R == RefsOf(tables, calls, entries) IN
         /\ DOMAIN R = References
         /\ \A t \in Tasks :
              /\ R[<<t, TABLE>>] = tables[t] /\ R[<<t, PAGE>>] = calls[t].page
              /\ R[<<t, KEPT>>] = InHand(calls[t])
              /\ \A v \in Pages : R[<<t, v>>] = entries[t][v].frame
  BY ReferencesAre DEF RefsOf

(* What the changes of references do to the counts: one takes the place of
   another, which was the only one to its page; *)
Moved(i, j, R, Q) ==
  /\ i \in References /\ j \in References /\ i # j /\ R[i] \in Frames /\ R[j] = NONE
  /\ \A r \in References : R[r] = R[i] => r = i
  /\ \A r \in References : Q[r] = IF r = i THEN NONE ELSE IF r = j THEN R[i] ELSE R[r]

LEMMA MovedRef ==
  ASSUME MemoryAssumption, NEW i, NEW j, NEW R, NEW Q, NEW m, Counts(R, m), Exclusive(R),
         Moved(i, j, R, Q)
  PROVE  Counts(Q, m) /\ Exclusive(Q)
  <1>0. /\ i \in References /\ j \in References /\ i # j /\ R[i] \in Frames /\ R[j] = NONE
        /\ \A r \in References : R[r] = R[i] => r = i
        /\ \A r \in References : Q[r] = IF r = i THEN NONE ELSE IF r = j THEN R[i] ELSE R[r]
    BY DEF Moved
  <1>1. NONE \notin Frames
    BY DEF NONE, Frames
  <1>2. ASSUME NEW f \in Frames PROVE m[f] = Cardinality({r \in References : Q[r] = f})
    <2>1. CASE f = R[i]
      <3>1. {r \in References : R[r] = f} = {i} /\ {r \in References : Q[r] = f} = {j}
        BY <1>0, <1>1, <2>1
      <3>2. m[f] = Cardinality({i})
        BY <3>1 DEF Counts
      <3>3. Cardinality({i}) = 1 /\ Cardinality({j}) = 1
        BY FS_Singleton
      <3> QED BY <3>1, <3>2, <3>3
    <2>2. CASE f # R[i]
      <3>1. {r \in References : R[r] = f} = {r \in References : Q[r] = f}
        BY <1>0, <1>1, <2>2
      <3> QED BY <3>1 DEF Counts
    <2> QED BY <2>1, <2>2
  <1>3. Exclusive(Q)
    BY <1>0, <1>1 DEF Exclusive
  <1> QED BY <1>2, <1>3 DEF Counts

(* one more, to a page that was free or is only in entries, as this one is; *)
Added(j, f, R, Q, m, n) ==
  /\ j \in References /\ f \in Frames /\ R[j] = NONE
  /\ \A r \in References : R[r] = f => r[2] \in Pages /\ j[2] \in Pages
  /\ \A r \in References : Q[r] = IF r = j THEN f ELSE R[r]
  /\ \A g \in Frames : n[g] = IF g = f THEN m[f] + 1 ELSE m[g]

LEMMA AddedRef ==
  ASSUME MemoryAssumption, NEW j, NEW f, NEW R, NEW Q, NEW m, NEW n, Counts(R, m), Exclusive(R),
         Added(j, f, R, Q, m, n)
  PROVE  Counts(Q, n) /\ Exclusive(Q)
  <1>0. /\ j \in References /\ f \in Frames /\ R[j] = NONE
        /\ \A r \in References : R[r] = f => r[2] \in Pages /\ j[2] \in Pages
        /\ \A r \in References : Q[r] = IF r = j THEN f ELSE R[r]
        /\ \A g \in Frames : n[g] = IF g = f THEN m[f] + 1 ELSE m[g]
    BY DEF Added
  <1>1. NONE \notin Frames
    BY DEF NONE, Frames
  <1>2. ASSUME NEW g \in Frames PROVE n[g] = Cardinality({r \in References : Q[r] = g})
    <2>1. CASE g = f
      <3> DEFINE S == {r \in References : R[r] = f}
      <3>1. {r \in References : Q[r] = f} = S \cup {j} /\ j \notin S
        BY <1>0, <1>1
      <3>2. IsFiniteSet(S)
        BY ReferencesAre, FS_Subset
      <3>3. Cardinality(S \cup {j}) = Cardinality(S) + 1
        BY <3>1, <3>2, FS_AddElement
      <3> QED BY <1>0, <2>1, <3>1, <3>3 DEF Counts
    <2>2. CASE g # f
      <3>1. {r \in References : R[r] = g} = {r \in References : Q[r] = g}
        BY <1>0, <1>1, <2>2
      <3> QED BY <1>0, <2>2, <3>1 DEF Counts
    <2> QED BY <2>1, <2>2
  <1>3. Exclusive(Q)
    BY <1>0, <1>1 DEF Exclusive
  <1> QED BY <1>2, <1>3 DEF Counts

(* those in D are given up, each of them to another page. *)
Freed(D, R, Q, m, n) ==
  /\ D \in SUBSET References
  /\ \A r, s \in D : R[r] = R[s] /\ R[r] # NONE => r = s
  /\ \A r \in References : Q[r] = IF r \in D THEN NONE ELSE R[r]
  /\ \A f \in Frames : n[f] = IF \E d \in D : R[d] = f THEN Max({m[f] - 1, 0}) ELSE m[f]

LEMMA FreedRefs ==
  ASSUME MemoryAssumption, NEW D, NEW R, NEW Q, NEW m, NEW n, Counts(R, m), Exclusive(R),
         Freed(D, R, Q, m, n)
  PROVE  /\ Counts(Q, n) /\ Exclusive(Q)
         /\ \A d \in D : R[d] \in Frames => m[R[d]] # 0
  <1>0. /\ D \in SUBSET References
        /\ \A r, s \in D : R[r] = R[s] /\ R[r] # NONE => r = s
        /\ \A r \in References : Q[r] = IF r \in D THEN NONE ELSE R[r]
        /\ \A f \in Frames :
             n[f] = IF \E d \in D : R[d] = f THEN Max({m[f] - 1, 0}) ELSE m[f]
    BY DEF Freed
  <1>1. NONE \notin Frames
    BY DEF NONE, Frames
  <1>2. ASSUME NEW f \in Frames
        PROVE  /\ n[f] = Cardinality({r \in References : Q[r] = f})
               /\ (\E d \in D : R[d] = f) => m[f] # 0
    <2> DEFINE S == {r \in References : R[r] = f}
    <2>1. IsFiniteSet(S) /\ Cardinality(S) \in Nat /\ m[f] = Cardinality(S)
      BY ReferencesAre, FS_Subset, FS_CardinalityType DEF Counts
    <2>2. CASE \E d \in D : R[d] = f
      <3>1. PICK d \in D : R[d] = f
        BY <2>2
      <3>2. {r \in References : Q[r] = f} = S \ {d} /\ d \in S
        BY <1>0, <1>1, <3>1
      <3>3. Cardinality(S \ {d}) = Cardinality(S) - 1 /\ S # {}
        BY <2>1, <3>2, FS_RemoveElement
      <3>4. Cardinality(S) >= 1
        <4> HIDE DEF S
        <4> QED BY <2>1, <3>3, FS_EmptySet
      <3>5. Max({m[f] - 1, 0}) = m[f] - 1
        BY <2>1, <3>4, OneLess
      <3>6. n[f] = Cardinality(S) - 1
        BY <1>0, <2>1, <2>2, <3>5
      <3>7. n[f] = Cardinality({r \in References : Q[r] = f})
        BY <3>2, <3>3, <3>6
      <3>8. m[f] # 0
        <4> HIDE DEF S
        <4> QED BY <2>1, <3>4
      <3> QED BY <3>7, <3>8
    <2>3. CASE ~ \E d \in D : R[d] = f
      <3>1. {r \in References : Q[r] = f} = S
        BY <1>0, <1>1, <2>3
      <3> QED BY <1>0, <2>1, <2>3, <3>1
    <2> QED BY <2>2, <2>3
  <1>3. Exclusive(Q)
    BY <1>0, <1>1 DEF Exclusive
  <1> QED BY <1>0, <1>2, <1>3 DEF Counts

-----------------------------------------------------------------------------
(* What the invariant says of single pages. *)
LEMMA Typed ==
  ASSUME MemoryTypeOK, NEW t \in Tasks
  PROVE  /\ call[t] \in Calls /\ table[t] \in Frames \cup {NONE}
         /\ call[t].page \in Frames \cup {NONE} /\ InHand(call[t]) \in Frames \cup {NONE}
         /\ call[t].kept \in Frames \cup {NONE}
         /\ \A v \in Pages : pte[t][v] \in PageEntry /\ pte[t][v].frame \in Frames \cup {NONE}
  <1>1. Frames \cup {NONE} = 0..NrFrames \/ NrFrames \notin Nat
    BY DEF Frames, NONE
  <1>2. call[t] \in Calls /\ table[t] \in 0..NrFrames /\ pte[t] \in [Pages -> PageEntry]
    BY DEF MemoryTypeOK
  <1>3. \A v \in Pages : pte[t][v] \in PageEntry /\ pte[t][v].frame \in 0..NrFrames
    BY <1>2 DEF PageEntry
  <1>4. call[t].page \in 0..NrFrames /\ call[t].kept \in 0..NrFrames
    BY <1>2 DEF Calls
  <1>5. InHand(call[t]) \in 0..NrFrames \cup {NONE}
    BY <1>4 DEF InHand
  <1>6. 0..NrFrames \subseteq Frames \cup {NONE}
    BY DEF Frames, NONE
  <1> QED BY <1>2, <1>3, <1>4, <1>5, <1>6

LEMMA RefsAre ==
  ASSUME MemoryAssumption
  PROVE  /\ DOMAIN Refs = References
         /\ \A t \in Tasks :
              /\ Refs[<<t, TABLE>>] = table[t] /\ Refs[<<t, PAGE>>] = call[t].page
              /\ Refs[<<t, KEPT>>] = InHand(call[t])
              /\ \A v \in Pages : Refs[<<t, v>>] = pte[t][v].frame
  BY RefsOfAre DEF Refs

LEMMA RefsOfTask ==
  ASSUME MemoryAssumption, NEW u \in Tasks
  PROVE  /\ <<u, TABLE>> \in References /\ Refs[<<u, TABLE>>] = table[u]
         /\ <<u, PAGE>> \in References /\ Refs[<<u, PAGE>>] = call[u].page
         /\ <<u, KEPT>> \in References /\ Refs[<<u, KEPT>>] = InHand(call[u])
         /\ \A v \in Pages : <<u, v>> \in References /\ Refs[<<u, v>>] = pte[u][v].frame
  BY ReferencesAre, RefsAre

(* The page of a table, and one a call has in hand, is nobody else's; *)
LEMMA TableIsAlone ==
  ASSUME MemoryAssumption, Exclusive(Refs), NEW t \in Tasks, table[t] # NONE, NEW u \in Tasks
  PROVE  /\ table[u] = table[t] => u = t
         /\ call[u].page # table[t]
         /\ InHand(call[u]) # table[t]
         /\ \A v \in Pages : pte[u][v].frame # table[t]
  <1>1. /\ <<t, TABLE>> \in References /\ Refs[<<t, TABLE>>] = table[t] /\ <<t, TABLE>>[2] \notin Pages
        /\ TABLE # PAGE /\ TABLE # KEPT /\ PAGE # KEPT
    BY RefsOfTask, ReferencesAre
  <1>2. \A r \in References : Refs[r] = table[t] => r = <<t, TABLE>>
    BY <1>1 DEF Exclusive
  <1>3. /\ <<u, TABLE>> \in References /\ Refs[<<u, TABLE>>] = table[u]
        /\ <<u, PAGE>> \in References /\ Refs[<<u, PAGE>>] = call[u].page
        /\ <<u, KEPT>> \in References /\ Refs[<<u, KEPT>>] = InHand(call[u])
    BY RefsOfTask
  <1>4. ASSUME NEW v \in Pages PROVE pte[u][v].frame # table[t]
    <2>1. <<u, v>> \in References /\ Refs[<<u, v>>] = pte[u][v].frame /\ v # TABLE
      BY RefsOfTask, ReferencesAre
    <2> QED BY <1>2, <2>1
  <1> QED BY <1>1, <1>2, <1>3, <1>4

LEMMA PageIsAlone ==
  ASSUME MemoryAssumption, Exclusive(Refs), NEW t \in Tasks, call[t].page # NONE, NEW u \in Tasks
  PROVE  /\ call[u].page = call[t].page => u = t
         /\ table[u] # call[t].page
         /\ InHand(call[u]) # call[t].page
         /\ \A v \in Pages : pte[u][v].frame # call[t].page
  <1>1. /\ <<t, PAGE>> \in References /\ Refs[<<t, PAGE>>] = call[t].page /\ <<t, PAGE>>[2] \notin Pages
        /\ TABLE # PAGE /\ TABLE # KEPT /\ PAGE # KEPT
    BY RefsOfTask, ReferencesAre
  <1>2. \A r \in References : Refs[r] = call[t].page => r = <<t, PAGE>>
    BY <1>1 DEF Exclusive
  <1>3. /\ <<u, TABLE>> \in References /\ Refs[<<u, TABLE>>] = table[u]
        /\ <<u, PAGE>> \in References /\ Refs[<<u, PAGE>>] = call[u].page
        /\ <<u, KEPT>> \in References /\ Refs[<<u, KEPT>>] = InHand(call[u])
    BY RefsOfTask
  <1>4. ASSUME NEW v \in Pages PROVE pte[u][v].frame # call[t].page
    <2>1. <<u, v>> \in References /\ Refs[<<u, v>>] = pte[u][v].frame /\ v # PAGE
      BY RefsOfTask, ReferencesAre
    <2> QED BY <1>2, <2>1
  <1> QED BY <1>1, <1>2, <1>3, <1>4

LEMMA KeptIsAlone ==
  ASSUME MemoryAssumption, Exclusive(Refs), NEW t \in Tasks, InHand(call[t]) # NONE, NEW u \in Tasks
  PROVE  /\ InHand(call[u]) = InHand(call[t]) => u = t
         /\ table[u] # InHand(call[t])
         /\ call[u].page # InHand(call[t])
         /\ \A v \in Pages : pte[u][v].frame # InHand(call[t])
  <1>1. /\ <<t, KEPT>> \in References /\ Refs[<<t, KEPT>>] = InHand(call[t]) /\ <<t, KEPT>>[2] \notin Pages
        /\ TABLE # PAGE /\ TABLE # KEPT /\ PAGE # KEPT
    BY RefsOfTask, ReferencesAre
  <1>2. \A r \in References : Refs[r] = InHand(call[t]) => r = <<t, KEPT>>
    BY <1>1 DEF Exclusive
  <1>3. /\ <<u, TABLE>> \in References /\ Refs[<<u, TABLE>>] = table[u]
        /\ <<u, PAGE>> \in References /\ Refs[<<u, PAGE>>] = call[u].page
        /\ <<u, KEPT>> \in References /\ Refs[<<u, KEPT>>] = InHand(call[u])
    BY RefsOfTask
  <1>4. ASSUME NEW v \in Pages PROVE pte[u][v].frame # InHand(call[t])
    <2>1. <<u, v>> \in References /\ Refs[<<u, v>>] = pte[u][v].frame /\ v # KEPT
      BY RefsOfTask, ReferencesAre
    <2> QED BY <1>2, <2>1
  <1> QED BY <1>1, <1>2, <1>3, <1>4

(* one in an entry is in no table, and nobody has it in hand; *)
LEMMA EntryIsAlone ==
  ASSUME MemoryAssumption, Exclusive(Refs), NEW t \in Tasks, NEW v \in Pages, Present(pte[t][v]),
         NEW u \in Tasks
  PROVE  /\ table[u] # pte[t][v].frame /\ call[u].page # pte[t][v].frame
         /\ InHand(call[u]) # pte[t][v].frame
  BY TableIsAlone, PageIsAlone, KeptIsAlone DEF Present

(* a free page is nobody's; *)
LEMMA FreeIsNobodys ==
  ASSUME MemoryAssumption, Counts(Refs, mem_map), NEW f \in Frames, mem_map[f] = 0
  PROVE  /\ \A r \in References : Refs[r] # f
         /\ \A u \in Tasks :
              /\ table[u] # f /\ call[u].page # f /\ InHand(call[u]) # f
              /\ \A v \in Pages : pte[u][v].frame # f
  <1> DEFINE S == {r \in References : Refs[r] = f}
  <1>1. IsFiniteSet(S) /\ Cardinality(S) = 0
    BY ReferencesAre, FS_Subset DEF Counts
  <1>2. S = {}
    <2> HIDE DEF S
    <2> QED BY <1>1, FS_EmptySet
  <1>3. \A r \in References : Refs[r] # f
    BY <1>2
  <1>4. ASSUME NEW u \in Tasks
        PROVE  /\ table[u] # f /\ call[u].page # f /\ InHand(call[u]) # f
               /\ \A v \in Pages : pte[u][v].frame # f
    BY <1>3, RefsOfTask, ZenonT(60)
  <1> QED BY <1>3, <1>4

(* and one that is counted once has a single reference. *)
LEMMA CountedOnce ==
  ASSUME MemoryAssumption, Counts(Refs, mem_map), NEW i \in References, Refs[i] \in Frames,
         mem_map[Refs[i]] = 1
  PROVE  \A r \in References : Refs[r] = Refs[i] => r = i
  <1> DEFINE S == {r \in References : Refs[r] = Refs[i]}
  <1>1. IsFiniteSet(S) /\ Cardinality(S) = 1 /\ i \in S
    BY ReferencesAre, FS_Subset DEF Counts
  <1>2. PICK x : S = {x}
    <2> HIDE DEF S
    <2> QED BY <1>1, FS_Singleton
  <1> QED BY <1>1, <1>2

(* A page that another task has at v is only in entries, and its count does not
   wrap when a task that has it not gets it. *)
LEMMA MayBeShared ==
  ASSUME MemoryAssumption, MemoryTypeOK, EntriesOK, CountsOK,
         NEW t \in Tasks, NEW u \in Tasks, NEW v \in Pages, Present(pte[u][v]),
         NEW f, f = pte[u][v].frame, pte[t][v].frame # f
  PROVE  /\ f \in Frames /\ (mem_map[f] + 1) % 256 = mem_map[f] + 1
         /\ \A r \in References : Refs[r] = f => r[2] \in Pages
  <1>1. f \in Frames /\ f # NONE
    BY Typed DEF Present
  <1>2. \A r \in References : Refs[r] = f => r \in (Tasks \ {t}) \X {v}
    <2> SUFFICES ASSUME NEW r \in References, Refs[r] = f PROVE r \in (Tasks \ {t}) \X {v}
      OBVIOUS
    <2>1. r = <<r[1], r[2]>> /\ r[1] \in Tasks /\ r[2] \in Pages \cup {TABLE, PAGE, KEPT}
      BY ReferencesAre
    <2>2. <<u, v>> \in References /\ Refs[<<u, v>>] = f /\ <<u, v>>[2] \in Pages
      BY ReferencesAre, RefsAre
    <2>3. r[2] \in Pages
      BY <1>1, <2>2 DEF CountsOK, Exclusive
    <2>4. pte[r[1]][r[2]].frame = f
      BY <2>1, <2>3, RefsAre, ZenonT(60)
    <2>5. r[2] = v
      BY <2>1, <2>3, <2>4 DEF EntriesOK
    <2>6. r[1] # t
      BY <2>4, <2>5
    <2> QED BY <2>1, <2>5, <2>6
  <1> DEFINE S == {r \in References : Refs[r] = f}
             T == (Tasks \ {t}) \X {v}
  <1>3. IsFiniteSet(T) /\ Cardinality(T) = Cardinality(Tasks) - 1
    <2>1. IsFiniteSet(Tasks \ {t}) /\ Cardinality(Tasks \ {t}) = Cardinality(Tasks) - 1
          /\ Cardinality(Tasks) \in Nat
      BY FS_RemoveElement, FS_CardinalityType DEF MemoryAssumption
    <2>2. IsFiniteSet({v}) /\ Cardinality({v}) = 1
      BY FS_Singleton
    <2>3. IsFiniteSet(T) /\ Cardinality(T) = Cardinality(Tasks \ {t}) * 1
      BY <2>1, <2>2, FS_Product, SMTT(60)
    <2> QED BY <2>1, <2>3
  <1>4. S \in SUBSET T
    BY <1>2
  <1>5. Cardinality(S) <= Cardinality(T) /\ Cardinality(S) \in Nat
    <2> HIDE DEF S, T
    <2> QED BY <1>3, <1>4, FS_Subset, FS_CardinalityType
  <1>6. mem_map[f] = Cardinality(S)
    BY <1>1 DEF CountsOK, Counts
  <1>7. Cardinality(Tasks) < 256 /\ Cardinality(Tasks) \in Nat
    BY FS_CardinalityType DEF MemoryAssumption
  <1>8. mem_map[f] \in Nat /\ mem_map[f] + 1 < 256
    <2> HIDE DEF S, T
    <2> QED BY <1>3, <1>5, <1>6, <1>7
  <1>9. (mem_map[f] + 1) % 256 = mem_map[f] + 1
    BY <1>8
  <1>10. \A r \in References : Refs[r] = f => r[2] \in Pages
    BY <1>2
  <1> QED BY <1>1, <1>9, <1>10

-----------------------------------------------------------------------------
(* The calls that are not in C do not notice a step, if it leaves what they have
   read and have in hand. *)
LEMMA CallsOfOthers ==
  ASSUME CallsOK, NEW C \in SUBSET Tasks,
         \A u \in Tasks \ C :
           /\ call'[u] = call[u]
           /\ call[u].page # NONE => data'[call[u].page] = data[call[u].page]
           /\ InHand(call[u]) # NONE => data'[InHand(call[u])] = data[InHand(call[u])]
           /\ call[u].pc # "new" =>
                /\ table'[u] = table[u]
                /\ \A v \in Pages : /\ pte[u][v] = Empty => pte'[u][v] = Empty
                                    /\ pte[u][v].slot # NONE => pte'[u][v].slot # NONE
           /\ Stage(call[u]) \in Copying =>
                /\ call'[call[u].other] = call[call[u].other]
                /\ table'[call[u].other] = table[call[u].other]
                /\ \A v \in Pages : pte[call[u].other][v] = Empty => pte'[call[u].other][v] = Empty
                /\ \A w \in C : Stage(call'[w]) \in Copying => call'[w].other # call[u].other,
         \A w \in C : InKernelOK(w)' /\ EntryIsAsRead(w)' /\ ChildOK(w)' /\ PageIsFilled(w)'
  PROVE  CallsOK'
  <1> SUFFICES ASSUME NEW u \in Tasks \ C
               PROVE  InKernelOK(u)' /\ EntryIsAsRead(u)' /\ ChildOK(u)' /\ PageIsFilled(u)'
    BY DEF CallsOK
  <1>0. InKernelOK(u) /\ EntryIsAsRead(u) /\ ChildOK(u) /\ PageIsFilled(u) /\ call'[u] = call[u]
    BY DEF CallsOK
  <1>1. CASE call[u].pc = "new"
    <2>1. Stage(call[u]) = "new" /\ Stage(call'[u]) = "new"
      BY <1>0, <1>1 DEF Stage
    <2>2. InKernelOK(u)'
      BY <1>0, <1>1, <2>1 DEF InKernelOK, AtPage
    <2>3. EntryIsAsRead(u)' /\ PageIsFilled(u)'
      BY <1>0, <1>1, <2>1 DEF EntryIsAsRead, PageIsFilled
    <2>4. ChildOK(u)'
      BY <1>0, <2>1 DEF ChildOK, Copying
    <2> QED BY <2>2, <2>3, <2>4
  <1>2. CASE call[u].pc # "new"
    <2>1. InKernelOK(u)'
      BY <1>0, <1>2 DEF InKernelOK
    <2>2. EntryIsAsRead(u)'
      <3>1. Stage(call[u]) \in AtPage => call[u].v \in Pages
        BY <1>0 DEF InKernelOK
      <3> QED BY <1>0, <1>2, <3>1 DEF EntryIsAsRead, AtPage
    <2>3. PageIsFilled(u)'
      <3>1. Stage(call[u]) = "put_page" => InHand(call[u]) = call[u].kept
        BY <1>0 DEF Stage, InHand
      <3> QED BY <1>0, <1>2, <3>1 DEF PageIsFilled
    <2>4. ChildOK(u)'
      <3> SUFFICES ASSUME Stage(call[u]) \in Copying PROVE ChildOK(u)'
        BY <1>0 DEF ChildOK
      <3> DEFINE x == call[u].other
      <3>1. /\ x \in Tasks /\ call[x].pc = "new" /\ call'[x] = call[x]
            /\ Stage(call[u]) = "copy_table" => table[x] = NONE /\ \A v \in Pages : pte[x][v] = Empty
            /\ call[u].v \in Pages => \A v \in Pages : v >= call[u].v => pte[x][v] = Empty
            /\ table'[x] = table[x] /\ \A v \in Pages : pte[x][v] = Empty => pte'[x][v] = Empty
        BY <1>0 DEF ChildOK
      <3>2. ASSUME NEW w \in Tasks, Stage(call'[w]) \in Copying, call'[w].other = x PROVE w = u
        <4>1. w \notin C
          BY <3>2
        <4>2. call'[w] = call[w]
          BY <4>1
        <4> QED BY <1>0, <3>2, <4>2 DEF ChildOK
      <3> QED BY <1>0, <3>1, <3>2 DEF ChildOK
    <2> QED BY <2>1, <2>2, <2>3, <2>4
  <1> QED BY <1>1, <1>2

(* With one call that moves, and the child it copies to. *)
LEMMA CallsStep ==
  ASSUME CallsOK, NEW t \in Tasks, call[t].pc # "new",
         \A u \in Tasks \ {t} :
           /\ call'[u] = call[u]
           /\ call[u].page # NONE => data'[call[u].page] = data[call[u].page]
           /\ InHand(call[u]) # NONE => data'[InHand(call[u])] = data[InHand(call[u])]
           /\ \/ Stage(call[t]) \in Copying /\ u = call[t].other
              \/ /\ table'[u] = table[u]
                 /\ \A v \in Pages : /\ pte[u][v] = Empty => pte'[u][v] = Empty
                                     /\ pte[u][v].slot # NONE => pte'[u][v].slot # NONE,
         Stage(call'[t]) \in Copying => Stage(call[t]) \in Copying /\ call'[t].other = call[t].other,
         InKernelOK(t)', EntryIsAsRead(t)', ChildOK(t)', PageIsFilled(t)'
  PROVE  CallsOK'
  <1>1. ASSUME NEW u \in Tasks \ {t}, Stage(call[u]) \in Copying
        PROVE  /\ call[u].other \in Tasks \ {t}
               /\ Stage(call[t]) \in Copying => call[t].other # call[u].other
    <2>1. ChildOK(u)
      BY DEF CallsOK
    <2> QED BY <1>1, <2>1 DEF ChildOK
  <1>2. Stage(call[t]) \in Copying => call[call[t].other].pc = "new"
    BY DEF CallsOK, ChildOK
  <1> DEFINE C == {t}
  <1>3. C \in SUBSET Tasks /\ \A w \in C : w = t
    OBVIOUS
  <1>4. \A u \in Tasks \ C :
           /\ call'[u] = call[u]
           /\ call[u].page # NONE => data'[call[u].page] = data[call[u].page]
           /\ InHand(call[u]) # NONE => data'[InHand(call[u])] = data[InHand(call[u])]
           /\ call[u].pc # "new" =>
                /\ table'[u] = table[u]
                /\ \A v \in Pages : /\ pte[u][v] = Empty => pte'[u][v] = Empty
                                    /\ pte[u][v].slot # NONE => pte'[u][v].slot # NONE
    BY <1>2
  <1>5. \A u \in Tasks \ C :
           Stage(call[u]) \in Copying =>
                /\ call'[call[u].other] = call[call[u].other]
                /\ table'[call[u].other] = table[call[u].other]
                /\ \A v \in Pages : pte[call[u].other][v] = Empty => pte'[call[u].other][v] = Empty
                /\ \A w \in C : Stage(call'[w]) \in Copying => call'[w].other # call[u].other
    BY <1>1
  <1>6. \A w \in C : InKernelOK(w)' /\ EntryIsAsRead(w)' /\ ChildOK(w)' /\ PageIsFilled(w)'
    OBVIOUS
  <1> HIDE DEF C
  <1> QED BY <1>3, <1>4, <1>5, <1>6, CallsOfOthers, ZenonT(60)

(* What is clean after a step, if what is new in an entry was so in another, with
   the same page, or is what the program expects. *)
LEMMA CleanStays ==
  ASSUME CleanOK, copied' = copied,
         \A u \in Tasks, w \in Pages :
           MayDrop(pte'[u][w]) =>
             \/ data'[pte'[u][w].frame] = Backing(w)
             \/ \E x \in Tasks : /\ MayDrop(pte[x][w]) /\ pte[x][w].frame = pte'[u][w].frame
                                 /\ data'[pte'[u][w].frame] = data[pte[x][w].frame]
  PROVE  CleanOK'
  BY DEF CleanOK

-----------------------------------------------------------------------------
(* A step of t that leaves all pages, tables and entries: what the call has in
   hand stays, or is kept while it gets another page. *)
LEMMA QuietStep ==
  ASSUME MemoryAssumption, Inv, NEW t \in Tasks, running \in {t, NONE},
         call[t].pc # "new",
         UNCHANGED <<mem_map, table, pte, swap_bitmap, data, disk, panic, copied>>,
         call' \in [Tasks -> Calls], \A u \in Tasks \ {t} : call'[u] = call[u],
         running' \in Tasks \cup {NONE},
         \/ call'[t].page = call[t].page /\ InHand(call'[t]) = InHand(call[t])
         \/ /\ call[t].page # NONE /\ InHand(call[t]) = NONE
            /\ call'[t].page = NONE /\ InHand(call'[t]) = call[t].page,
         Stage(call'[t]) \in Copying => Stage(call[t]) \in Copying /\ call'[t].other = call[t].other,
         InKernelOK(t)', EntryIsAsRead(t)', ChildOK(t)', PageIsFilled(t)'
  PROVE  Inv'
  <1>1. MemoryTypeOK'
    BY DEF Inv, MemoryTypeOK
  <1>2. EntriesOK' /\ SlotsOK'
    BY DEF Inv, EntriesOK, SlotsOK, Present
  <1>3. CallsOK'
    BY CallsStep DEF Inv
  <1>4. CleanOK'
    BY DEF Inv, CleanOK
  <1>5. CountsOK'
    <2>1. Counts(Refs, mem_map) /\ Exclusive(Refs)
      BY DEF Inv, CountsOK
    <2>2. /\ Refs' = RefsOf(table', call', pte') /\ Refs = RefsOf(table, call, pte)
          /\ DOMAIN Refs' = References /\ DOMAIN Refs = References
      BY RefsOfAre DEF Refs
    <2>3. CASE call'[t].page = call[t].page /\ InHand(call'[t]) = InHand(call[t])
      <3>1. \A u \in Tasks : call'[u].page = call[u].page /\ InHand(call'[u]) = InHand(call[u])
        BY <2>3
      <3>2. ASSUME NEW r \in References PROVE Refs'[r] = Refs[r]
        <4>1. r[1] \in Tasks
          BY ReferencesAre, SMTT(60)
        <4> QED BY <2>2, <3>1, <4>1 DEF RefsOf
      <3>3. Refs' = Refs
        BY <2>2, <3>2 DEF RefsOf
      <3> QED BY <2>1, <3>3 DEF CountsOK
    <2>4. CASE /\ call[t].page # NONE /\ InHand(call[t]) = NONE
               /\ call'[t].page = NONE /\ InHand(call'[t]) = call[t].page
      <3> DEFINE i == <<t, PAGE>>
                 j == <<t, KEPT>>
      <3>1. i \in References /\ j \in References /\ i # j /\ Refs[i] = call[t].page /\ Refs[j] = NONE
        BY <2>4, ReferencesAre, RefsOfTask
      <3>2. Refs[i] \in Frames
        BY <2>4, <3>1, Typed DEF Inv
      <3>3. \A r \in References : Refs[r] = Refs[i] => r = i
        BY <2>1, <2>4, <3>1, ReferencesAre DEF Exclusive
      <3>4. ASSUME NEW r \in References
            PROVE  Refs'[r] = IF r = i THEN NONE ELSE IF r = j THEN Refs[i] ELSE Refs[r]
        <4>1. r = <<r[1], r[2]>> /\ r[1] \in Tasks
          BY ReferencesAre, SMTT(60)
        <4>2. CASE r[1] # t
          <5>1. r # i /\ r # j /\ call'[r[1]] = call[r[1]]
            BY <4>1, <4>2, SMTT(60)
          <5> QED BY <2>2, <5>1 DEF RefsOf
        <4>3. CASE r[1] = t
          <5>1. (r = i <=> r[2] = PAGE) /\ (r = j <=> r[2] = KEPT)
            BY <4>1, <4>3
          <5> QED BY <2>2, <2>4, <3>1, <4>3, <5>1, ReferencesAre DEF RefsOf
        <4> QED BY <4>2, <4>3
      <3> HIDE DEF i, j
      <3>5. Moved(i, j, Refs, Refs')
        BY <3>1, <3>2, <3>3, <3>4 DEF Moved
      <3>6. Counts(Refs', mem_map) /\ Exclusive(Refs')
        BY <2>1, <3>5, MovedRef
      <3> QED BY <3>6 DEF CountsOK
    <2> QED BY <2>3, <2>4
  <1> QED BY <1>1, <1>2, <1>3, <1>4, <1>5 DEF Inv

LEMMA EmptyIs ==
  ASSUME EntriesOK, MemoryTypeOK, NEW t \in Tasks, NEW v \in Pages,
         ~Present(pte[t][v]), pte[t][v].slot = NONE
  PROVE  pte[t][v] = Empty
  <1>1. pte[t][v] \in PageEntry /\ ~pte[t][v].rw /\ ~pte[t][v].dirty /\ pte[t][v].frame = NONE
    BY Typed DEF EntriesOK, Present
  <1>2. pte[t][v].rw = FALSE /\ pte[t][v].dirty = FALSE
    BY <1>1 DEF PageEntry
  <1> QED BY <1>1, <1>2 DEF PageEntry, Empty

LEMMA ChildStays ==
  ASSUME NEW t \in Tasks, ChildOK(t), Stage(call[t]) \in Copying, Stage(call'[t]) # "copy_table",
         call'[t].other = call[t].other, \A u \in Tasks \ {t} : call'[u] = call[u],
         call'[t].v \in Pages =>
           \A v \in Pages : v >= call'[t].v => pte'[call[t].other][v] = Empty
  PROVE  ChildOK(t)'
  <1>1. call[t].pc # "new" => call[t].other # t
    BY DEF ChildOK
  <1>2. call[t].pc # "new"
    BY DEF Stage, Copying
  <1>3. call'[call[t].other].pc = "new"
    BY <1>1, <1>2 DEF ChildOK
  <1>4. \A u \in Tasks : Stage(call'[u]) \in Copying /\ call'[u].other = call[t].other => u = t
    BY DEF ChildOK
  <1> QED BY <1>3, <1>4 DEF ChildOK

(* The steps of this kind. *)
LEMMA NoPageStep ==
  ASSUME MemoryAssumption, Inv, NEW t \in Tasks, NoPage(t) PROVE Inv'
  <1> DEFINE c == call[t]
             d == [call[t] EXCEPT !.pc = call[t].ret, !.page = NONE]
  <1>1. /\ c \in Calls /\ InKernelOK(t) /\ EntryIsAsRead(t) /\ ChildOK(t) /\ PageIsFilled(t)
        /\ call \in [Tasks -> Calls]
    BY Typed DEF Inv, CallsOK, MemoryTypeOK
  <1>2. /\ c.pc = "get_free_page" /\ running = t /\ running' = t /\ call' = [call EXCEPT ![t] = d]
        /\ UNCHANGED <<mem_map, table, pte, swap_bitmap, data, disk, panic, copied>>
    BY DEF NoPage, Runs, Enter, pages, history
  <1>3. c.ret \in Getters /\ c.page = NONE
    BY <1>1, <1>2 DEF InKernelOK, Getters
  <1>4. /\ d \in Calls /\ d.pc = c.ret /\ d.ret = c.ret /\ d.v = c.v /\ d.page = NONE
        /\ d.kept = c.kept /\ d.other = c.other
    BY <1>1, <1>3 DEF Calls, Labels, NONE
  <1> HIDE DEF d
  <1>5. call'[t] = d /\ call' \in [Tasks -> Calls] /\ \A u \in Tasks \ {t} : call'[u] = call[u]
    BY <1>1, <1>2, <1>4
  <1>6. Stage(c) = c.ret /\ Stage(d) = c.ret /\ InHand(d) = InHand(c)
    BY <1>2, <1>3, <1>4 DEF Stage, InHand, Getters
  <1>7. InKernelOK(t)'
    BY <1>1, <1>2, <1>3, <1>4, <1>5, <1>6 DEF InKernelOK, Getters, AtPage
  <1>8. EntryIsAsRead(t)'
    BY <1>1, <1>2, <1>3, <1>4, <1>5, <1>6 DEF EntryIsAsRead, Getters
  <1>9. PageIsFilled(t)'
    BY <1>1, <1>2, <1>3, <1>4, <1>5, <1>6 DEF PageIsFilled, Getters
  <1>10. ChildOK(t)'
    <2>1. CASE Stage(c) = "copy_table" \/ Stage(c) \notin Copying
      BY <1>1, <1>2, <1>4, <1>5, <1>6, <2>1 DEF ChildOK, Copying
    <2>2. CASE Stage(c) # "copy_table" /\ Stage(c) \in Copying
      <3>1. c.v \in Pages => \A v \in Pages : v >= c.v => pte[c.other][v] = Empty
        BY <1>1, <2>2 DEF ChildOK
      <3> QED BY <1>1, <1>2, <1>4, <1>5, <1>6, <2>2, <3>1, ChildStays
    <2> QED BY <2>1, <2>2
  <1> QED BY <1>2, <1>3, <1>4, <1>5, <1>6, <1>7, <1>8, <1>9, <1>10, QuietStep

(* A page fault: what a program asks for. *)
Fault(t, v, at, kept, other) ==
  /\ Wakes(t, "user") /\ running' = t
  /\ at \in {"swap_in", "put_page", "load", "share", "copy_page"}
  /\ kept \in 0..NrFrames /\ other \in Tasks \cup {NONE}
  /\ \E pc, ret \in Labels :
       /\ \/ pc = "get_free_page" /\ ret = at
          \/ pc = "share" /\ ret = "user" /\ at = "share"
       /\ \E from \in 0..NrFrames :
            call' = [call EXCEPT ![t] = [pc |-> pc, ret |-> ret, v |-> v, page |-> NONE, kept |-> kept,
                                         other |-> other, from |-> from, slot |-> NONE]]
       /\ at = "share" /\ pc # "share" => table[t] = NONE
  /\ UNCHANGED <<mem_map, table, pte, swap_bitmap, data, disk, panic, copied>>
  /\ at = "swap_in" => pte[t][v].slot # NONE
  /\ at \in {"share", "put_page", "load"} => ~Present(pte[t][v]) /\ pte[t][v].slot = NONE
  /\ at \notin {"share", "copy_page"} => kept = NONE
  /\ at = "put_page" => v \in Data
  /\ at = "load" => v \in Code
  /\ at = "share" => other \in Tasks \ {t}
  /\ at \in {"share", "copy_page"} => kept # NONE

LEMMA FaultStep ==
  ASSUME MemoryAssumption, Inv, NEW t \in Tasks, NEW v \in Pages, NEW at, NEW kept, NEW other,
         Fault(t, v, at, kept, other)
  PROVE  Inv'
  <1>1. /\ InKernelOK(t) /\ call \in [Tasks -> Calls] /\ call[t].pc = "user" /\ running = NONE
    BY DEF Inv, CallsOK, MemoryTypeOK, Fault, Wakes
  <1>2. Stage(call[t]) = "user" /\ call[t].page = NONE /\ InHand(call[t]) = NONE
    BY <1>1 DEF InKernelOK, Stage, Getters
  <1>3. PICK pc \in Labels, ret \in Labels, from \in 0..NrFrames :
          /\ \/ pc = "get_free_page" /\ ret = at
             \/ pc = "share" /\ ret = "user" /\ at = "share"
          /\ call' = [call EXCEPT ![t] = [pc |-> pc, ret |-> ret, v |-> v, page |-> NONE, kept |-> kept,
                                          other |-> other, from |-> from, slot |-> NONE]]
          /\ at = "share" /\ pc # "share" => table[t] = NONE
    BY DEF Fault
  <1> DEFINE d == [pc |-> pc, ret |-> ret, v |-> v, page |-> NONE, kept |-> kept, other |-> other,
                   from |-> from, slot |-> NONE]
  <1>4. d \in Calls
    BY <1>3 DEF Calls, Fault, NONE, MemoryAssumption, Pages
  <1>5. d.pc = pc /\ d.ret = ret /\ d.v = v /\ d.page = NONE /\ d.kept = kept /\ d.other = other
    OBVIOUS
  <1>6. call'[t] = d /\ call' \in [Tasks -> Calls] /\ \A u \in Tasks \ {t} : call'[u] = call[u]
    BY <1>1, <1>3, <1>4
  <1> HIDE DEF d
  <1>7. Stage(d) = at /\ InHand(d) = NONE
    BY <1>3, <1>5 DEF Stage, InHand, Fault
  <1>8. at \in {"share", "put_page", "load"} => pte[t][v] = Empty
    BY EmptyIs DEF Inv, Fault
  <1>9. InKernelOK(t)'
    BY <1>3, <1>5, <1>6, <1>7 DEF InKernelOK, Getters, Fault
  <1>10. EntryIsAsRead(t)'
    BY <1>3, <1>5, <1>6, <1>7, <1>8 DEF EntryIsAsRead, Fault
  <1>11. PageIsFilled(t)'
    BY <1>3, <1>5, <1>6, <1>7 DEF PageIsFilled, Fault
  <1>12. ChildOK(t)' /\ Stage(call'[t]) \notin Copying
    BY <1>6, <1>7 DEF ChildOK, Copying, Fault
  <1>13. /\ UNCHANGED <<mem_map, table, pte, swap_bitmap, data, disk, panic, copied>>
         /\ running' \in Tasks \cup {NONE}
         /\ call'[t].page = call[t].page /\ InHand(call'[t]) = InHand(call[t])
    BY <1>2, <1>3, <1>5, <1>6, <1>7 DEF Fault
  <1> QED BY <1>1, <1>6, <1>9, <1>10, <1>11, <1>12, <1>13, QuietStep

LEMMA NoPageFaultStep ==
  ASSUME MemoryAssumption, Inv, NEW t \in Tasks, NEW v \in Pages, NoPageFault(t, v) PROVE Inv'
  <1> DEFINE e == pte[t][v]
             gets(then, kept, other, from) ==
               call' = [call EXCEPT ![t] = [pc |-> "get_free_page", ret |-> then, v |-> v, page |-> NONE,
                                            kept |-> kept, other |-> other, from |-> from, slot |-> NONE]]
             c == [At("user") EXCEPT !.v = v]
  <1>1. /\ Wakes(t, "user") /\ ~Present(e)
        /\ UNCHANGED <<mem_map, table, pte, swap_bitmap, data, disk, panic, copied>>
    BY DEF NoPageFault, pages, history
  <1>2. v \in Nat /\ NONE \in 0..NrFrames /\ 0..NrFrames = Frames \cup {NONE}
        /\ NONE \in Tasks \cup {NONE}
        /\ {"get_free_page", "share", "user", "swap_in", "put_page", "load"} \subseteq Labels
    BY DEF MemoryAssumption, Pages, NONE, Frames, Labels, Getters
  <1>3. \A then : GetFreePage(t, then, c) => gets(then, NONE, NONE, NONE) /\ running' = t
    BY DEF GetFreePage, Enter, At
  <1>4. CASE e.slot # NONE
    <2>1. GetFreePage(t, "swap_in", c)
      BY <1>4 DEF NoPageFault
    <2>2. Fault(t, v, "swap_in", NONE, NONE)
      BY <1>1, <1>2, <1>3, <1>4, <2>1 DEF Fault
    <2> QED BY <2>2, FaultStep
  <1>5. CASE e.slot = NONE /\ v \in Data
    <2>1. GetFreePage(t, "put_page", c)
      BY <1>5 DEF NoPageFault
    <2>2. Fault(t, v, "put_page", NONE, NONE)
      BY <1>1, <1>2, <1>3, <1>5, <2>1 DEF Fault
    <2> QED BY <2>2, FaultStep
  <1>6. CASE e.slot = NONE /\ v \notin Data /\ Sharers(t, v) = {}
    <2>1. GetFreePage(t, "load", c)
      BY <1>6 DEF NoPageFault
    <2>2. v \in Code
      BY <1>6 DEF Pages
    <2>3. Fault(t, v, "load", NONE, NONE)
      BY <1>1, <1>2, <1>3, <1>6, <2>1, <2>2 DEF Fault
    <2> QED BY <2>3, FaultStep
  <1>7. CASE e.slot = NONE /\ v \notin Data /\ Sharers(t, v) # {}
    <2>1. PICK u \in Sharers(t, v) :
            LET found == [c EXCEPT !.other = u, !.kept = pte[u][v].frame, !.from = table[u]] IN
            IF table[t] = NONE THEN GetFreePage(t, "share", found)
            ELSE Enter(t, [found EXCEPT !.pc = "share"])
      BY <1>7 DEF NoPageFault
    <2>2. u \in Tasks \ {t} /\ MayDrop(pte[u][v])
      BY DEF Sharers
    <2> DEFINE f == pte[u][v].frame
    <2>3. f \in 0..NrFrames /\ f # NONE /\ table[u] \in 0..NrFrames
      BY <1>2, <2>2, Typed DEF Inv, MayDrop, Present, Sharers, MemoryTypeOK
    <2> HIDE DEF f
    <2>4. CASE table[t] = NONE
      <3>1. gets("share", f, u, table[u]) /\ running' = t
        BY <2>1, <2>4 DEF GetFreePage, Enter, At, f
      <3>2. Fault(t, v, "share", f, u)
        BY <1>1, <1>2, <1>7, <2>2, <2>3, <2>4, <3>1 DEF Fault
      <3> QED BY <3>2, FaultStep
    <2>5. CASE table[t] # NONE
      <3>1. call' = [call EXCEPT ![t] = [pc |-> "share", ret |-> "user", v |-> v, page |-> NONE,
                                         kept |-> f, other |-> u, from |-> table[u], slot |-> NONE]] /\ running' = t
        BY <2>1, <2>5 DEF GetFreePage, Enter, At, f
      <3>2. Fault(t, v, "share", f, u)
        BY <1>1, <1>2, <1>7, <2>2, <2>3, <2>5, <3>1 DEF Fault
      <3> QED BY <3>2, FaultStep
    <2> QED BY <2>4, <2>5, SMTT(60)
  <1> QED BY <1>4, <1>5, <1>6, <1>7, SMTT(60)

LEMMA CopyLaterStep ==
  ASSUME MemoryAssumption, Inv, NEW t \in Tasks, NEW v \in Pages, UnWpPage(t, v),
         mem_map[pte[t][v].frame] # 1
  PROVE  Inv'
  <1> DEFINE f == pte[t][v].frame
  <1>1. f \in 0..NrFrames /\ f # NONE
    <2>1. f \in Frames \cup {NONE} /\ 0..NrFrames = Frames \cup {NONE}
      BY Typed DEF Inv, MemoryAssumption, Frames, NONE
    <2> QED BY <2>1 DEF UnWpPage, Present
  <1> HIDE DEF f
  <1>2. /\ Wakes(t, "user") /\ running' = t
        /\ call' = [call EXCEPT ![t] = [pc |-> "get_free_page", ret |-> "copy_page", v |-> v, page |-> NONE,
                                        kept |-> f, other |-> NONE, from |-> NONE, slot |-> NONE]]
        /\ UNCHANGED <<mem_map, table, pte, swap_bitmap, data, disk, panic, copied>>
    BY DEF UnWpPage, GetFreePage, Enter, At, pages, history, f
  <1>3. {"get_free_page", "copy_page"} \subseteq Labels /\ NONE \in 0..NrFrames
    BY DEF Labels, Getters, MemoryAssumption, NONE
  <1>4. Fault(t, v, "copy_page", f, NONE)
    BY <1>1, <1>2, <1>3 DEF Fault
  <1> QED BY <1>4, FaultStep

(* What a call of t does next where it only moves on. *)
LEMMA MoveOn ==
  ASSUME MemoryAssumption, Inv, NEW t \in Tasks, running \in {t, NONE},
         call[t].pc # "new",
         NEW d, d \in Calls, call' = [call EXCEPT ![t] = d], running' \in {t, NONE},
         UNCHANGED <<mem_map, table, pte, swap_bitmap, data, disk, panic, copied>>,
         d.pc # "copy_table",
         \/ d.page = call[t].page /\ InHand(d) = InHand(call[t])
         \/ /\ call[t].page # NONE /\ InHand(call[t]) = NONE
            /\ d.page = NONE /\ InHand(d) = call[t].page,
         d.v = call[t].v, d.other = call[t].other,
         Stage(d) # "copy_table",
         Stage(d) \in Copying => Stage(call[t]) \in Copying,
         (call'[t] = d) => InKernelOK(t)' /\ EntryIsAsRead(t)' /\ PageIsFilled(t)'
  PROVE  Inv'
  <1>1. call \in [Tasks -> Calls] /\ ChildOK(t)
    BY DEF Inv, CallsOK, MemoryTypeOK
  <1>2. call'[t] = d /\ call' \in [Tasks -> Calls] /\ \A u \in Tasks \ {t} : call'[u] = call[u]
    BY <1>1
  <1>3. ChildOK(t)'
    <2>1. CASE Stage(d) \notin Copying
      BY <1>2, <2>1 DEF ChildOK
    <2>2. CASE Stage(d) \in Copying
      <3>1. Stage(call[t]) \in Copying
        BY <2>2
      <3>2. call[t].v \in Pages => \A v \in Pages : v >= call[t].v => pte[call[t].other][v] = Empty
        BY <1>1, <3>1 DEF ChildOK
      <3> QED BY <1>1, <1>2, <3>1, <3>2, ChildStays
    <2> QED BY <2>1, <2>2
  <1>4. running' \in Tasks \cup {NONE}
    OBVIOUS
  <1> QED BY <1>2, <1>3, <1>4, QuietStep

LEMMA LoadStep ==
  ASSUME MemoryAssumption, Inv, NEW t \in Tasks, Load(t), call[t].page # NONE PROVE Inv'
  <1> DEFINE d == [call[t] EXCEPT !.pc = "bread_page"]
  <1>1. /\ call[t] \in Calls /\ InKernelOK(t) /\ EntryIsAsRead(t) /\ PageIsFilled(t)
    BY Typed DEF Inv, CallsOK
  <1>2. /\ call[t].pc = "load" /\ running = t /\ call' = [call EXCEPT ![t] = d] /\ running' = NONE
        /\ UNCHANGED <<mem_map, table, pte, swap_bitmap, data, disk, panic, copied>>
    BY DEF Load, Runs, Sleep, pages, history
  <1>3. /\ d \in Calls /\ d.pc = "bread_page" /\ d.ret = call[t].ret /\ d.v = call[t].v
        /\ d.page = call[t].page /\ d.kept = call[t].kept /\ d.other = call[t].other
    BY <1>1 DEF Calls, Labels, AtPage
  <1> HIDE DEF d
  <1>4. Stage(call[t]) = "load" /\ Stage(d) = "bread_page" /\ call[t].kept = NONE
    BY <1>1, <1>2, <1>3 DEF Stage, InKernelOK
  <1>5. InHand(d) = NONE /\ InHand(call[t]) = NONE
    BY <1>3, <1>4 DEF InHand
  <1>6. ASSUME call'[t] = d PROVE InKernelOK(t)' /\ EntryIsAsRead(t)' /\ PageIsFilled(t)'
    <2>1. InKernelOK(t)'
      BY <1>1, <1>2, <1>3, <1>4, <1>5, <1>6 DEF InKernelOK, AtPage
    <2>2. EntryIsAsRead(t)' /\ PageIsFilled(t)'
      BY <1>1, <1>2, <1>3, <1>4, <1>6 DEF EntryIsAsRead, PageIsFilled
    <2> QED BY <2>1, <2>2
  <1>7. Stage(d) \notin Copying
    BY <1>4 DEF Copying
  <1> QED BY <1>2, <1>3, <1>4, <1>5, <1>6, <1>7, MoveOn

LEMMA TablePageStep ==
  ASSUME MemoryAssumption, Inv, NEW t \in Tasks, PutPage(t),
         call[t].page # NONE, table[t] = NONE, call[t].kept = NONE
  PROVE  Inv'
  <1> DEFINE d == [call[t] EXCEPT !.kept = call[t].page, !.page = NONE, !.pc = "get_free_page", !.ret = "put_page"]
  <1>1. /\ call[t] \in Calls /\ InKernelOK(t) /\ EntryIsAsRead(t) /\ PageIsFilled(t)
        /\ call[t].page \in Frames \cup {NONE} /\ Frames \cup {NONE} = 0..NrFrames
    BY Typed DEF Inv, CallsOK, MemoryAssumption, Frames, NONE
  <1>2. /\ call[t].pc = "put_page" /\ running = t /\ call' = [call EXCEPT ![t] = d] /\ running' = t
        /\ UNCHANGED <<mem_map, table, pte, swap_bitmap, data, disk, panic, copied>>
    BY DEF PutPage, Runs, GetFreePage, Enter, pages, history
  <1>3. /\ d \in Calls /\ d.pc = "get_free_page" /\ d.ret = "put_page" /\ d.v = call[t].v
        /\ d.page = NONE /\ d.kept = call[t].page /\ d.other = call[t].other
    BY <1>1 DEF Calls, Labels, Getters
  <1> HIDE DEF d
  <1>4. Stage(call[t]) = "put_page" /\ Stage(d) = "put_page"
    BY <1>2, <1>3 DEF Stage
  <1>5. InHand(d) = call[t].page /\ InHand(call[t]) = NONE
    BY <1>2, <1>3 DEF InHand
  <1>6. ASSUME call'[t] = d PROVE InKernelOK(t)' /\ EntryIsAsRead(t)' /\ PageIsFilled(t)'
    <2>1. InKernelOK(t)'
      BY <1>1, <1>2, <1>3, <1>4, <1>5, <1>6 DEF InKernelOK, AtPage, Getters
    <2>2. EntryIsAsRead(t)'
      BY <1>1, <1>2, <1>3, <1>4, <1>6 DEF EntryIsAsRead
    <2>3. PageIsFilled(t)'
      BY <1>1, <1>2, <1>3, <1>4, <1>6 DEF PageIsFilled
    <2> QED BY <2>1, <2>2, <2>3
  <1>7. Stage(d) \notin Copying
    BY <1>4 DEF Copying
  <1> QED BY <1>2, <1>3, <1>4, <1>5, <1>6, <1>7, MoveOn

LEMMA NextEntryIs ==
  ASSUME MemoryAssumption, NEW c \in Calls, NEW n, n = NextEntry(c)
  PROVE  /\ n \in Calls /\ n.pc = "copy_entries" /\ n.ret = c.ret /\ n.v = c.v + 1
         /\ n.page = NONE /\ n.kept = c.kept /\ n.other = c.other
  <1>1. NONE \in 0..NrFrames
    BY DEF MemoryAssumption, NONE
  <1>2. "copy_entries" \in Labels
    BY DEF Labels, Copying
  <1>3. c.v \in Nat
    BY DEF Calls
  <1>4. c.v + 1 \in Nat
    BY <1>3
  <1> HIDE DEF Calls
  <1>5. n = [c EXCEPT !.v = c.v + 1, !.page = NONE, !.pc = "copy_entries"]
    BY DEF NextEntry
  <1> QED BY <1>1, <1>2, <1>4, <1>5 DEF Calls

(* copy_page_tables at an entry that is empty, or in a slot. *)
LEMMA CopyNothingStep ==
  ASSUME MemoryAssumption, Inv, NEW t \in Tasks, CopyEntry(t), ~Present(pte[t][call[t].v])
  PROVE  Inv'
  <1> DEFINE c == call[t]
             d == [call[t] EXCEPT !.pc = "get_free_page", !.ret = "copy_swapped"]
             n == NextEntry(call[t])
  <1>1. /\ c \in Calls /\ InKernelOK(t) /\ EntryIsAsRead(t) /\ PageIsFilled(t) /\ ChildOK(t)
    BY Typed DEF Inv, CallsOK
  <1>2. c.pc = "copy_entries" /\ c.v \in Pages /\ running = t
    BY DEF CopyEntry, Runs
  <1>3. Stage(c) = "copy_entries" /\ c.page = NONE /\ InHand(c) = NONE
    BY <1>1, <1>2 DEF InKernelOK, Stage, Getters
  <1>4. CASE pte[t][c.v].slot # NONE
    <2>1. /\ call' = [call EXCEPT ![t] = d] /\ running' = t
          /\ UNCHANGED <<mem_map, table, pte, swap_bitmap, data, disk, panic, copied>>
      BY <1>4 DEF CopyEntry, GetFreePage, Enter, pages, history
    <2>2. /\ d \in Calls /\ d.pc = "get_free_page" /\ d.ret = "copy_swapped" /\ d.v = c.v
          /\ d.page = c.page /\ d.other = c.other
      BY <1>1 DEF Calls, Labels, Getters
    <2> HIDE DEF d
    <2>3. Stage(d) = "copy_swapped" /\ InHand(d) = NONE /\ Stage(d) # "copy_table"
      BY <2>2 DEF Stage, InHand
    <2>4. ASSUME call'[t] = d PROVE InKernelOK(t)' /\ EntryIsAsRead(t)' /\ PageIsFilled(t)'
      <3>1. InKernelOK(t)'
        BY <1>2, <1>3, <2>2, <2>3, <2>4 DEF InKernelOK, AtPage, Getters
      <3>2. EntryIsAsRead(t)'
        BY <1>4, <2>1, <2>2, <2>3, <2>4 DEF EntryIsAsRead
      <3>3. PageIsFilled(t)'
        BY <2>2, <2>3, <2>4 DEF PageIsFilled
      <3> QED BY <3>1, <3>2, <3>3
    <2>5. Stage(c) \in Copying
      BY <1>3 DEF Copying
    <2> HIDE DEF n
    <2> QED BY <1>2, <1>3, <2>1, <2>2, <2>3, <2>4, <2>5, MoveOn
  <1>5. CASE pte[t][c.v].slot = NONE
    <2>1. /\ call' = [call EXCEPT ![t] = n] /\ running' = t
          /\ UNCHANGED <<mem_map, table, pte, swap_bitmap, data, disk, panic, copied>>
      BY <1>5 DEF CopyEntry, Enter, history
    <2>2. /\ n \in Calls /\ n.pc = "copy_entries" /\ n.ret = c.ret /\ n.v = c.v + 1
          /\ n.page = NONE /\ n.kept = c.kept /\ n.other = c.other
      BY <1>1, NextEntryIs
    <2> HIDE DEF n
    <2>3. Stage(n) = "copy_entries"
      BY <2>2 DEF Stage
    <2>4. InHand(n) = NONE
      BY <1>2, <1>3, <2>2 DEF InHand
    <2>5. /\ call \in [Tasks -> Calls] /\ call'[t] = n /\ call' \in [Tasks -> Calls]
          /\ \A u \in Tasks \ {t} : call'[u] = call[u]
      BY <2>1, <2>2 DEF Inv, MemoryTypeOK
    <2>6. InKernelOK(t)'
      BY <1>2, <1>3, <2>2, <2>3, <2>4, <2>5 DEF InKernelOK, AtPage, Getters
    <2>7. EntryIsAsRead(t)' /\ PageIsFilled(t)'
      BY <2>2, <2>3, <2>5 DEF EntryIsAsRead, PageIsFilled
    <2>8. ChildOK(t)'
      <3>1. Stage(c) \in Copying /\ c.v \in Nat
        BY <1>1, <1>3 DEF Copying, Calls
      <3>2. \A v \in Pages : v >= c.v => pte[c.other][v] = Empty
        BY <1>1, <1>2, <3>1 DEF ChildOK
      <3>3. \A v \in Pages : v \in Nat
        BY DEF MemoryAssumption, Pages
      <3>4. \A v \in Pages : v >= n.v => pte'[c.other][v] = Empty
        BY <2>1, <2>2, <3>1, <3>2, <3>3
      <3> QED BY <1>1, <2>2, <2>3, <2>5, <3>1, <3>4, ChildStays
    <2>9. Stage(c) \in Copying
      BY <1>3 DEF Copying
    <2> HIDE DEF d
    <2> QED BY <1>2, <1>3, <2>1, <2>2, <2>3, <2>4, <2>5, <2>6, <2>7, <2>8, <2>9, QuietStep
  <1> QED BY <1>4, <1>5

-----------------------------------------------------------------------------
(* The references after a step. *)
LEMMA RefsAfter ==
  ASSUME MemoryAssumption, NEW u \in Tasks
  PROVE  /\ Refs'[<<u, TABLE>>] = table'[u] /\ Refs'[<<u, PAGE>>] = call'[u].page
         /\ Refs'[<<u, KEPT>>] = InHand(call'[u])
         /\ \A v \in Pages : Refs'[<<u, v>>] = pte'[u][v].frame
  BY RefsOfAre DEF Refs

LEMMA EachReference ==
  ASSUME NEW r \in References
  PROVE  \E u \in Tasks : \/ r = <<u, TABLE>> \/ r = <<u, PAGE>> \/ r = <<u, KEPT>>
                          \/ \E v \in Pages : r = <<u, v>>
  BY DEF References

LEMMA OtherReferences ==
  ASSUME MemoryAssumption, NEW t \in Tasks
  PROVE  /\ \A u \in Tasks : /\ <<u, TABLE>> = <<t, TABLE>> <=> u = t
                             /\ <<u, PAGE>> = <<t, PAGE>> <=> u = t
                             /\ <<u, KEPT>> = <<t, KEPT>> <=> u = t
                             /\ <<u, TABLE>> \notin {<<t, PAGE>>, <<t, KEPT>>}
                             /\ <<u, PAGE>> \notin {<<t, TABLE>>, <<t, KEPT>>}
                             /\ <<u, KEPT>> \notin {<<t, PAGE>>, <<t, TABLE>>}
         /\ \A u \in Tasks, v, w \in Pages :
              /\ <<u, w>> \notin {<<t, TABLE>>, <<t, PAGE>>, <<t, KEPT>>}
              /\ <<u, w>> = <<t, v>> <=> u = t /\ w = v
              /\ <<t, v>> \notin {<<u, TABLE>>, <<u, PAGE>>, <<u, KEPT>>}
  BY ReferencesAre

(* A fork moves two calls. *)
LEMMA TwoCalls ==
  ASSUME CallsOK, NEW t \in Tasks, NEW u \in Tasks, call[t].pc # "new",
         call[u].pc = "new" => Stage(call[t]) \in Copying /\ call[t].other = u,
         \A w \in Tasks \ {t, u} : call'[w] = call[w] /\ table'[w] = table[w] /\ pte'[w] = pte[w],
         data' = data,
         Stage(call'[t]) \in Copying => call'[t].other = u, Stage(call'[u]) \notin Copying,
         InKernelOK(t)', EntryIsAsRead(t)', ChildOK(t)', PageIsFilled(t)',
         InKernelOK(u)', EntryIsAsRead(u)', ChildOK(u)', PageIsFilled(u)'
  PROVE  CallsOK'
  <1> DEFINE C == {t, u}
  <1>1. ASSUME NEW w \in Tasks \ C, Stage(call[w]) \in Copying
        PROVE  call[w].other \notin C /\ call[w].other \in Tasks
    <2>1. ChildOK(w) /\ w # t /\ w # u /\ ChildOK(t)
      BY DEF CallsOK
    <2>2. call[w].other \in Tasks /\ call[call[w].other].pc = "new"
      BY <1>1, <2>1 DEF ChildOK
    <2>3. call[w].other # u
      <3> SUFFICES ASSUME call[w].other = u PROVE FALSE
        OBVIOUS
      <3>1. Stage(call[t]) \in Copying /\ call[t].other = u
        BY <2>2
      <3> QED BY <1>1, <2>1, <3>1 DEF ChildOK
    <2> QED BY <2>2, <2>3
  <1>2. C \in SUBSET Tasks /\ \A w \in C : w = t \/ w = u
    OBVIOUS
  <1>3. \A w \in Tasks \ C : w # t /\ w # u
    OBVIOUS
  <1> HIDE DEF C
  <1>4. \A w \in C : Stage(call'[w]) \in Copying => call'[w].other = u
    BY <1>2
  <1>5. \A w \in C : InKernelOK(w)' /\ EntryIsAsRead(w)' /\ ChildOK(w)' /\ PageIsFilled(w)'
    <2>1. ASSUME NEW w \in C PROVE InKernelOK(w)' /\ EntryIsAsRead(w)' /\ ChildOK(w)' /\ PageIsFilled(w)'
      <3>1. CASE w = t
        BY <3>1
      <3>2. CASE w = u
        BY <3>2
      <3> QED BY <1>2, <3>1, <3>2
    <2> QED BY <2>1
  <1>6. \A w \in Tasks \ C :
         /\ call'[w] = call[w]
         /\ call[w].page # NONE => data'[call[w].page] = data[call[w].page]
         /\ InHand(call[w]) # NONE => data'[InHand(call[w])] = data[InHand(call[w])]
         /\ call[w].pc # "new" =>
              /\ table'[w] = table[w]
              /\ \A v \in Pages : /\ pte[w][v] = Empty => pte'[w][v] = Empty
                                  /\ pte[w][v].slot # NONE => pte'[w][v].slot # NONE
    BY <1>3
  <1>7. \A w \in Tasks \ C :
         Stage(call[w]) \in Copying =>
              /\ call'[call[w].other] = call[call[w].other]
              /\ table'[call[w].other] = table[call[w].other]
              /\ \A v \in Pages : pte[call[w].other][v] = Empty => pte'[call[w].other][v] = Empty
              /\ \A x \in C : Stage(call'[x]) \in Copying => call'[x].other # call[w].other
    <2> SUFFICES ASSUME NEW w \in Tasks \ C, Stage(call[w]) \in Copying
                 PROVE  /\ call'[call[w].other] = call[call[w].other]
                        /\ table'[call[w].other] = table[call[w].other]
                        /\ pte'[call[w].other] = pte[call[w].other]
                        /\ \A x \in C : Stage(call'[x]) \in Copying => call'[x].other # call[w].other
      OBVIOUS
    <2>1. call[w].other \in Tasks \ {t, u}
      BY <1>1 DEF C
    <2> QED BY <1>4, <2>1
  <1> QED BY <1>2, <1>5, <1>6, <1>7, CallsOfOthers, ZenonT(60)

(* A call that is in a program again, or gone. *)
LEMMA AtUser ==
  ASSUME NEW t \in Tasks, NEW pc \in {"user", "unused", "new"}, call'[t].pc = pc,
         call'[t].ret \in {"user", "unused", "new"}, call'[t].page = NONE,
         pc = "unused" => table'[t] = NONE /\ \A v \in Pages : pte'[t][v] = Empty
  PROVE  /\ InKernelOK(t)' /\ EntryIsAsRead(t)' /\ ChildOK(t)' /\ PageIsFilled(t)'
         /\ Stage(call'[t]) \notin Copying /\ InHand(call'[t]) = NONE
  <1>1. Stage(call'[t]) = pc /\ InHand(call'[t]) = NONE
    BY DEF Stage, InHand
  <1>2. InKernelOK(t)'
    BY <1>1 DEF InKernelOK, AtPage
  <1>3. EntryIsAsRead(t)' /\ PageIsFilled(t)'
    BY <1>1 DEF EntryIsAsRead, PageIsFilled
  <1>4. ChildOK(t)' /\ Stage(call'[t]) \notin Copying
    BY <1>1 DEF ChildOK, Copying
  <1> QED BY <1>1, <1>2, <1>3, <1>4

LEMMA AtIs ==
  ASSUME MemoryAssumption, NEW pc \in Labels
  PROVE  /\ At(pc) \in Calls /\ At(pc).pc = pc /\ At(pc).ret = pc /\ At(pc).v = NONE
         /\ At(pc).page = NONE /\ At(pc).kept = NONE /\ At(pc).other = NONE
  BY DEF At, Calls, MemoryAssumption, NONE

(* free_page_tables gives back all that is the task's. *)
LEMMA FreedTables ==
  ASSUME MemoryAssumption, Inv, NEW u \in Tasks, NEW fs, FreePageTables(u, fs),
         fs \subseteq {InHand(call[u])}, InHand(call[u]) \in fs \cup {NONE},
         call' \in [Tasks -> Calls], InHand(call'[u]) = NONE,
         \A w \in Tasks : call'[w].page = call[w].page,
         \A w \in Tasks \ {u} : InHand(call'[w]) = InHand(call[w]),
         running' \in Tasks \cup {NONE}
  PROVE  /\ MemoryTypeOK' /\ EntriesOK' /\ SlotsOK' /\ CountsOK' /\ ~panic'
         /\ table'[u] = NONE /\ (\A v \in Pages : pte'[u][v] = Empty)
         /\ \A w \in Tasks \ {u} : table'[w] = table[w] /\ pte'[w] = pte[w]
         /\ data' = data /\ disk' = disk
  <1>1. MemoryTypeOK /\ EntriesOK /\ SlotsOK /\ ~panic /\ Counts(Refs, mem_map) /\ Exclusive(Refs)
    BY DEF Inv, CountsOK
  <1>2. /\ table'[u] = NONE /\ (\A v \in Pages : pte'[u][v] = Empty)
        /\ \A w \in Tasks \ {u} : table'[w] = table[w] /\ pte'[w] = pte[w]
        /\ data' = data /\ disk' = disk
    BY <1>1 DEF FreePageTables, MemoryTypeOK
  <1>3. Empty \in PageEntry /\ NONE \in 0..NrFrames /\ Empty.frame = NONE /\ Empty.slot = NONE
        /\ ~Empty.rw /\ ~Empty.dirty
    BY DEF MemoryAssumption, Empty, PageEntry, NONE
  <1>4. /\ table' \in [Tasks -> 0..NrFrames] /\ pte' \in [Tasks -> [Pages -> PageEntry]]
    BY <1>1, <1>3 DEF FreePageTables, MemoryTypeOK
  <1>5. swap_bitmap' \subseteq Slots
    BY <1>1, Typed DEF FreePageTables, MemoryTypeOK, PageEntry
  <1>6. EntriesOK'
    <2>1. ASSUME NEW w \in Tasks, NEW v \in Pages PROVE pte'[w][v] = IF w = u THEN Empty ELSE pte[w][v]
      BY <1>2
    <2>2. \A w \in Tasks, v \in Pages :
            /\ ~Present(pte'[w][v]) => ~pte'[w][v].rw /\ ~pte'[w][v].dirty
            /\ pte'[w][v].slot # NONE => ~Present(pte'[w][v])
      BY <1>1, <1>3, <2>1 DEF EntriesOK, Present
    <2>3. ASSUME NEW w \in Tasks, NEW x \in Tasks, NEW v \in Pages, NEW y \in Pages,
                 Present(pte'[w][v]) /\ pte'[w][v].frame = pte'[x][y].frame
          PROVE  v = y /\ (pte'[w][v].rw => w = x)
      <3>1. w # u /\ x # u
        BY <1>3, <2>1, <2>3 DEF Present
      <3> QED BY <1>1, <2>1, <2>3, <3>1 DEF EntriesOK
    <2> QED BY <2>2, <2>3 DEF EntriesOK
  <1>7. SlotsOK'
    <2>1. ASSUME NEW w \in Tasks, NEW v \in Pages PROVE pte'[w][v] = IF w = u THEN Empty ELSE pte[w][v]
      BY <1>2
    <2>2. swap_bitmap' = swap_bitmap \cup ({pte[u][v].slot : v \in Pages} \ {NONE})
      BY DEF FreePageTables
    <2>3. \A w, x \in Tasks, v, y \in Pages :
            pte'[w][v].slot # NONE /\ pte'[w][v].slot = pte'[x][y].slot => w = x /\ v = y
      BY <1>1, <1>3, <2>1, SMTT(60) DEF SlotsOK
    <2>4. ASSUME NEW w \in Tasks, NEW v \in Pages PROVE pte'[w][v].slot \notin swap_bitmap'
      <3>1. CASE w = u
        <4>1. NONE \notin Slots
          BY DEF MemoryAssumption, NONE
        <4> QED BY <1>1, <1>3, <2>1, <2>2, <3>1, <4>1 DEF MemoryTypeOK
      <3>2. CASE w # u
        BY <1>1, <2>1, <2>2, <3>2 DEF SlotsOK
      <3> QED BY <3>1, <3>2
    <2>5. ASSUME NEW nr \in Slots \ swap_bitmap'
          PROVE  \E w \in Tasks, v \in Pages : pte'[w][v].slot = nr
      <3>1. nr # NONE /\ nr \notin swap_bitmap /\ \A v \in Pages : pte[u][v].slot # nr
        BY <2>2 DEF MemoryAssumption, NONE
      <3>2. PICK w \in Tasks, v \in Pages : pte[w][v].slot = nr
        BY <1>1, <3>1 DEF SlotsOK
      <3> QED BY <2>1, <3>1, <3>2
    <2> QED BY <2>3, <2>4, <2>5 DEF SlotsOK
  <1> DEFINE D == {<<u, v>> : v \in Pages} \cup {<<u, TABLE>>, <<u, KEPT>>}
  <1>8. D \in SUBSET References
    BY RefsOfTask, ZenonT(60)
  <1>9. ASSUME NEW r \in D, NEW s \in D, Refs[r] = Refs[s], Refs[r] # NONE PROVE r = s
    <2>1. CASE r[2] \notin Pages \/ s[2] \notin Pages
      BY <1>1, <1>8, <1>9, <2>1 DEF Exclusive
    <2>2. CASE r[2] \in Pages /\ s[2] \in Pages
      <3>1. PICK v \in Pages, y \in Pages : r = <<u, v>> /\ s = <<u, y>>
        BY <2>2, ReferencesAre
      <3>2. Refs[<<u, v>>] = pte[u][v].frame /\ Refs[<<u, y>>] = pte[u][y].frame
        BY RefsOfTask
      <3>3. Present(pte[u][v]) /\ pte[u][v].frame = pte[u][y].frame
        BY <1>9, <3>1, <3>2 DEF Present
      <3>4. v = y
        BY <1>1, <3>3 DEF EntriesOK
      <3> QED BY <3>1, <3>4
    <2> QED BY <2>1, <2>2
  <1>10. ASSUME NEW r \in References PROVE Refs'[r] = IF r \in D THEN NONE ELSE Refs[r]
    <2>1. PICK w \in Tasks : \/ r = <<w, TABLE>> \/ r = <<w, PAGE>> \/ r = <<w, KEPT>>
                             \/ \E v \in Pages : r = <<w, v>>
      BY EachReference
    <2>2. r \in D <=> w = u /\ r # <<w, PAGE>>
      BY <2>1, ReferencesAre
    <2>3. /\ w = u => table'[w] = NONE /\ InHand(call'[w]) = NONE /\ \A v \in Pages : pte'[w][v].frame = NONE
          /\ w # u => table'[w] = table[w] /\ InHand(call'[w]) = InHand(call[w]) /\ pte'[w] = pte[w]
          /\ call'[w].page = call[w].page
      BY <1>2, <1>3
    <2> HIDE DEF D
    <2>4. CASE r = <<w, TABLE>>
      <3>1. Refs'[r] = table'[w] /\ Refs[r] = table[w] /\ r # <<w, PAGE>>
        BY <2>4, RefsAfter, RefsOfTask, ReferencesAre
      <3> QED BY <2>2, <2>3, <3>1
    <2>5. CASE r = <<w, PAGE>>
      <3>1. Refs'[r] = call'[w].page /\ Refs[r] = call[w].page
        BY <2>5, RefsAfter, RefsOfTask
      <3> QED BY <2>2, <2>3, <2>5, <3>1
    <2>6. CASE r = <<w, KEPT>>
      <3>1. Refs'[r] = InHand(call'[w]) /\ Refs[r] = InHand(call[w]) /\ r # <<w, PAGE>>
        BY <2>6, RefsAfter, RefsOfTask, ReferencesAre
      <3> QED BY <2>2, <2>3, <3>1
    <2>7. ASSUME NEW v \in Pages, r = <<w, v>> PROVE Refs'[r] = IF r \in D THEN NONE ELSE Refs[r]
      <3>1. Refs'[r] = pte'[w][v].frame /\ Refs[r] = pte[w][v].frame /\ r # <<w, PAGE>>
        BY <2>7, RefsAfter, RefsOfTask, ReferencesAre, ZenonT(60)
      <3> QED BY <2>2, <2>3, <3>1
    <2> QED BY <2>1, <2>4, <2>5, <2>6, <2>7
  <1>11. ASSUME NEW f \in Frames
         PROVE  mem_map'[f] = IF \E d \in D : Refs[d] = f THEN Max({mem_map[f] - 1, 0}) ELSE mem_map[f]
    <2>1. f # NONE
      BY DEF Frames, NONE
    <2>2. mem_map'[f] = IF f \in {pte[u][v].frame : v \in Pages} \cup {table[u]} \cup fs
                        THEN Max({mem_map[f] - 1, 0}) ELSE mem_map[f]
      BY DEF FreePageTables, FreePages
    <2>3. f \in fs <=> InHand(call[u]) = f
      BY <2>1
    <2>4. (\E d \in D : Refs[d] = f) <=>
            (\E v \in Pages : Refs[<<u, v>>] = f) \/ Refs[<<u, TABLE>>] = f \/ Refs[<<u, KEPT>>] = f
      OBVIOUS
    <2>5. /\ (\A v \in Pages : Refs[<<u, v>>] = pte[u][v].frame)
          /\ Refs[<<u, TABLE>>] = table[u] /\ Refs[<<u, KEPT>>] = InHand(call[u])
      BY RefsOfTask
    <2>6. (\E v \in Pages : Refs[<<u, v>>] = f) <=> f \in {pte[u][v].frame : v \in Pages}
      BY <2>5
    <2>7. (\E d \in D : Refs[d] = f) <=> f \in {pte[u][v].frame : v \in Pages} \cup {table[u]} \cup fs
      <3> HIDE DEF D
      <3> QED BY <2>3, <2>4, <2>5, <2>6
    <2> HIDE DEF D
    <2> QED BY <2>2, <2>7
  <1>12. /\ Counts(Refs', mem_map') /\ Exclusive(Refs')
         /\ \A d \in D : Refs[d] \in Frames => mem_map[Refs[d]] # 0
    <2> HIDE DEF D
    <2>1. /\ \A r, s \in D : Refs[r] = Refs[s] /\ Refs[r] # NONE => r = s
          /\ \A r \in References : Refs'[r] = IF r \in D THEN NONE ELSE Refs[r]
      BY <1>9, <1>10
    <2>2. \A f \in Frames :
           mem_map'[f] = IF \E d \in D : Refs[d] = f THEN Max({mem_map[f] - 1, 0}) ELSE mem_map[f]
      BY <1>11
    <2>3. Freed(D, Refs, Refs', mem_map, mem_map')
      BY <1>8, <2>1, <2>2 DEF Freed
    <2> QED BY <1>1, <2>3, FreedRefs
  <1>13. mem_map' \in [Frames -> 0..255]
    <2>1. mem_map' = [f \in Frames |-> mem_map'[f]]
      BY DEF FreePageTables, FreePages
    <2>2. ASSUME NEW f \in Frames PROVE mem_map'[f] \in 0..255
      <3>1. mem_map[f] \in 0..255
        BY <1>1 DEF MemoryTypeOK
      <3>2. CASE \E d \in D : Refs[d] = f
        <4>1. mem_map[f] # 0
          <5> HIDE DEF D
          <5> QED BY <1>12, <3>2
        <4>2. mem_map[f] \in Nat /\ mem_map[f] >= 1
          BY <3>1, <4>1
        <4>3. Max({mem_map[f] - 1, 0}) = mem_map[f] - 1
          BY <4>2, OneLess
        <4> HIDE DEF D
        <4> QED BY <1>11, <3>1, <3>2, <4>2, <4>3, SMTT(60)
      <3>3. CASE ~ \E d \in D : Refs[d] = f
        <4> HIDE DEF D
        <4> QED BY <1>11, <3>1, <3>3
      <3> QED BY <3>2, <3>3
    <2> QED BY <2>1, <2>2
  <1>14. ~panic'
    <2>1. \A f \in fs \cup {table[u]} \cup {pte[u][v].frame : v \in Pages} :
            f # NONE => f \in Frames /\ \E d \in D : Refs[d] = f
      <3>1. ASSUME NEW f \in fs, f # NONE PROVE f \in Frames /\ Refs[<<u, KEPT>>] = f
        BY <1>1, <3>1, Typed, RefsOfTask
      <3>2. table[u] # NONE => table[u] \in Frames /\ Refs[<<u, TABLE>>] = table[u]
        BY <1>1, Typed, RefsOfTask
      <3>3. ASSUME NEW v \in Pages, pte[u][v].frame # NONE
            PROVE  pte[u][v].frame \in Frames /\ Refs[<<u, v>>] = pte[u][v].frame
        BY <1>1, <3>3, Typed, RefsOfTask, ZenonT(60)
      <3>4. <<u, KEPT>> \in D /\ <<u, TABLE>> \in D /\ \A v \in Pages : <<u, v>> \in D
        OBVIOUS
      <3> HIDE DEF D
      <3> QED BY <3>1, <3>2, <3>3, <3>4, ZenonT(60)
    <2>2. panic' = (panic \/ \E f \in ({pte[u][v].frame : v \in Pages} \cup {table[u]} \cup fs) \ {NONE} : mem_map[f] = 0)
      BY DEF FreePageTables, FreePages
    <2> HIDE DEF D
    <2> QED BY <1>1, <1>12, <2>1, <2>2, ZenonT(60)
  <1>15. MemoryTypeOK'
    BY <1>1, <1>2, <1>4, <1>5, <1>13 DEF MemoryTypeOK
  <1> QED BY <1>2, <1>6, <1>7, <1>12, <1>14, <1>15 DEF CountsOK

LEMMA OutOfMemoryStep ==
  ASSUME MemoryAssumption, Inv, NEW t \in Tasks, NEW fs, OutOfMemory(t, fs), running \in {t, NONE},
         call[t].pc # "new", call[t].page = NONE,
         fs \subseteq {InHand(call[t])}, InHand(call[t]) \in fs \cup {NONE}
  PROVE  Inv'
  <1> DEFINE d == At("unused")
  <1>1. "unused" \in Labels
    BY DEF Labels
  <1>2. d \in Calls /\ d.pc = "unused" /\ d.ret = "unused" /\ d.page = NONE
    BY <1>1, AtIs
  <1>3. FreePageTables(t, fs) /\ call' = [call EXCEPT ![t] = d] /\ running' = NONE
    BY DEF OutOfMemory, Sleep
  <1> HIDE DEF d
  <1>4. /\ call \in [Tasks -> Calls] /\ call'[t] = d /\ call' \in [Tasks -> Calls]
        /\ \A u \in Tasks \ {t} : call'[u] = call[u]
    BY <1>2, <1>3 DEF Inv, MemoryTypeOK
  <1>5. InHand(call'[t]) = NONE
    BY <1>2, <1>4 DEF InHand
  <1>6. /\ \A w \in Tasks : call'[w].page = call[w].page
        /\ \A w \in Tasks \ {t} : InHand(call'[w]) = InHand(call[w])
        /\ running' \in Tasks \cup {NONE}
    BY <1>2, <1>3, <1>4
  <1>7. /\ MemoryTypeOK' /\ EntriesOK' /\ SlotsOK' /\ CountsOK' /\ ~panic'
        /\ table'[t] = NONE /\ (\A v \in Pages : pte'[t][v] = Empty)
        /\ \A w \in Tasks \ {t} : table'[w] = table[w] /\ pte'[w] = pte[w]
        /\ data' = data
    BY <1>3, <1>4, <1>5, <1>6, FreedTables
  <1>8. /\ InKernelOK(t)' /\ EntryIsAsRead(t)' /\ ChildOK(t)' /\ PageIsFilled(t)'
        /\ Stage(call'[t]) \notin Copying
    BY <1>2, <1>4, <1>7, AtUser
  <1>9. CallsOK'
    <2>1. CallsOK
      BY DEF Inv
    <2> QED BY <1>4, <1>7, <1>8, <2>1, CallsStep
  <1>10. CleanOK'
    <2>1. ~MayDrop(Empty)
      BY DEF MayDrop, Present, Empty
    <2>2. \A w \in Tasks, v \in Pages : MayDrop(pte'[w][v]) => pte'[w][v] = pte[w][v]
      BY <1>3, <1>7, <2>1
    <2>3. CleanOK /\ copied' = copied
      BY DEF Inv, OutOfMemory, history
    <2> QED BY <1>3, <1>7, <2>2, <2>3, CleanStays
  <1> QED BY <1>7, <1>9, <1>10 DEF Inv

LEMMA ExitStep ==
  ASSUME MemoryAssumption, Inv, NEW t \in Tasks, Exit(t) PROVE Inv'
  <1>1. call[t].pc = "user" /\ running = NONE /\ OutOfMemory(t, {}) /\ InKernelOK(t)
    BY DEF Exit, Wakes, Inv, CallsOK
  <1>2. call[t].page = NONE /\ InHand(call[t]) = NONE
    BY <1>1 DEF InKernelOK, Stage, Getters
  <1> QED BY <1>1, <1>2, OutOfMemoryStep

LEMMA ExecStep ==
  ASSUME MemoryAssumption, Inv, NEW t \in Tasks, Exec(t) PROVE Inv'
  <1>1. call[t].pc = "user" /\ running = NONE /\ FreePageTables(t, {}) /\ InKernelOK(t)
        /\ call' = call /\ running' = running
    BY DEF Exec, Wakes, Inv, CallsOK
  <1>2. call[t].page = NONE /\ InHand(call[t]) = NONE /\ Stage(call[t]) = "user"
    BY <1>1 DEF InKernelOK, Stage, Getters
  <1>3. call' \in [Tasks -> Calls] /\ running' \in Tasks \cup {NONE} /\ InHand(call'[t]) = NONE
        /\ CallsOK
    BY <1>1, <1>2 DEF Inv, MemoryTypeOK
  <1>4. /\ MemoryTypeOK' /\ EntriesOK' /\ SlotsOK' /\ CountsOK' /\ ~panic'
        /\ table'[t] = NONE /\ (\A v \in Pages : pte'[t][v] = Empty)
        /\ \A w \in Tasks \ {t} : table'[w] = table[w] /\ pte'[w] = pte[w]
        /\ data' = data
    BY <1>1, <1>2, <1>3, FreedTables
  <1>5. InKernelOK(t)' /\ EntryIsAsRead(t)' /\ ChildOK(t)' /\ PageIsFilled(t)' /\ Stage(call'[t]) \notin Copying
    <2>1. InKernelOK(t)'
      BY <1>1, <1>2, <1>4 DEF InKernelOK, AtPage
    <2> QED BY <1>1, <1>2, <2>1 DEF EntryIsAsRead, ChildOK, PageIsFilled, Copying
  <1>6. CallsOK'
    BY <1>1, <1>3, <1>4, <1>5, CallsStep
  <1>7. CleanOK'
    <2>1. ~MayDrop(Empty)
      BY DEF MayDrop, Present, Empty
    <2>2. \A w \in Tasks, v \in Pages : MayDrop(pte'[w][v]) => pte'[w][v] = pte[w][v]
      BY <1>1, <1>4, <2>1
    <2>3. CleanOK /\ copied' = copied
      BY DEF Inv, Exec, history
    <2> QED BY <1>1, <1>4, <2>2, <2>3, CleanStays
  <1> QED BY <1>4, <1>6, <1>7 DEF Inv

LEMMA ForkFailsStep ==
  ASSUME MemoryAssumption, Inv, NEW t \in Tasks, ForkFails(t), running = t,
         call[t].pc \in {"copy_table", "copy_swapped"}, call[t].page = NONE
  PROVE  Inv'
  <1>1. InKernelOK(t) /\ ChildOK(t) /\ Stage(call[t]) \in Copying /\ call \in [Tasks -> Calls]
        /\ CallsOK
    BY DEF Inv, CallsOK, MemoryTypeOK, Stage, Copying
  <1>0. PICK u \in Tasks : u = call[t].other
    BY <1>1 DEF ChildOK
  <1>2. call[u].pc = "new" /\ u # t /\ InKernelOK(u)
    BY <1>0, <1>1 DEF ChildOK, CallsOK
  <1>3. call[u].page = NONE /\ InHand(call[u]) = NONE /\ InHand(call[t]) = NONE
    BY <1>1, <1>2 DEF InKernelOK, Stage, Getters, Copying
  <1>4. /\ FreePageTables(u, {}) /\ running' = NONE
        /\ call' = [call EXCEPT ![t] = At("user"), ![u] = At("unused")]
    BY <1>0 DEF ForkFails
  <1>5. /\ At("user") \in Calls /\ At("user").pc = "user" /\ At("user").ret = "user" /\ At("user").page = NONE
        /\ At("unused") \in Calls /\ At("unused").pc = "unused" /\ At("unused").ret = "unused"
        /\ At("unused").page = NONE
    <2>1. "user" \in Labels /\ "unused" \in Labels
      BY DEF Labels
    <2> QED BY <2>1, AtIs
  <1>6. /\ call'[t] = At("user") /\ call'[u] = At("unused") /\ call' \in [Tasks -> Calls]
        /\ \A w \in Tasks \ {t, u} : call'[w] = call[w]
    BY <1>1, <1>2, <1>4, <1>5
  <1>7. InHand(call'[t]) = NONE /\ InHand(call'[u]) = NONE
    BY <1>5, <1>6 DEF InHand
  <1>8. /\ \A w \in Tasks : call'[w].page = call[w].page
        /\ \A w \in Tasks \ {u} : InHand(call'[w]) = InHand(call[w])
        /\ running' \in Tasks \cup {NONE}
    BY <1>3, <1>4, <1>5, <1>6, <1>7
  <1>9. /\ MemoryTypeOK' /\ EntriesOK' /\ SlotsOK' /\ CountsOK' /\ ~panic'
        /\ table'[u] = NONE /\ (\A v \in Pages : pte'[u][v] = Empty)
        /\ \A w \in Tasks \ {u} : table'[w] = table[w] /\ pte'[w] = pte[w]
        /\ data' = data
    BY <1>2, <1>3, <1>4, <1>6, <1>7, <1>8, FreedTables
  <1>10. /\ InKernelOK(t)' /\ EntryIsAsRead(t)' /\ ChildOK(t)' /\ PageIsFilled(t)'
         /\ Stage(call'[t]) \notin Copying
    BY <1>5, <1>6, AtUser
  <1>11. /\ InKernelOK(u)' /\ EntryIsAsRead(u)' /\ ChildOK(u)' /\ PageIsFilled(u)'
         /\ Stage(call'[u]) \notin Copying
    <2>1. call'[u].pc = "unused" /\ call'[u].ret = "unused" /\ call'[u].page = NONE
      BY <1>5, <1>6
    <2> QED BY <1>2, <1>9, <2>1, AtUser
  <1>12. CallsOK'
    BY <1>0, <1>1, <1>2, <1>6, <1>9, <1>10, <1>11, TwoCalls
  <1>13. CleanOK'
    <2>1. ~MayDrop(Empty)
      BY DEF MayDrop, Present, Empty
    <2>2. \A w \in Tasks, v \in Pages : MayDrop(pte'[w][v]) => pte'[w][v] = pte[w][v]
      BY <1>4, <1>9, <2>1
    <2>3. CleanOK /\ copied' = copied
      BY DEF Inv, ForkFails, history
    <2> QED BY <1>4, <1>9, <2>2, <2>3, CleanStays
  <1> QED BY <1>9, <1>12, <1>13 DEF Inv

-----------------------------------------------------------------------------
(* Steps that give or take single pages.  The references that stay; *)
LEMMA OtherRefs ==
  ASSUME MemoryAssumption, NEW X,
         \A u \in Tasks :
           /\ <<u, TABLE>> \in X \/ table'[u] = table[u]
           /\ <<u, PAGE>> \in X \/ call'[u].page = call[u].page
           /\ <<u, KEPT>> \in X \/ InHand(call'[u]) = InHand(call[u])
           /\ \A v \in Pages : <<u, v>> \in X \/ pte'[u][v].frame = pte[u][v].frame
  PROVE  \A r \in References \ X : Refs'[r] = Refs[r]
  <1> SUFFICES ASSUME NEW r \in References \ X PROVE Refs'[r] = Refs[r]
    OBVIOUS
  <1>1. PICK u \in Tasks : \/ r = <<u, TABLE>> \/ r = <<u, PAGE>> \/ r = <<u, KEPT>>
                           \/ \E v \in Pages : r = <<u, v>>
    BY EachReference
  <1>2. CASE r = <<u, TABLE>>
    BY <1>2, RefsAfter, RefsOfTask
  <1>3. CASE r = <<u, PAGE>>
    BY <1>3, RefsAfter, RefsOfTask
  <1>4. CASE r = <<u, KEPT>>
    <2>1. Refs'[r] = InHand(call'[u]) /\ Refs[r] = InHand(call[u])
      BY <1>4, RefsAfter, RefsOfTask
    <2> QED BY <1>4, <2>1
  <1>5. ASSUME NEW v \in Pages, r = <<u, v>> PROVE Refs'[r] = Refs[r]
    BY <1>5, RefsAfter, RefsOfTask, ZenonT(60)
  <1> QED BY <1>1, <1>2, <1>3, <1>4, <1>5

LEMMA SameRefs ==
  ASSUME MemoryAssumption,
         \A u \in Tasks :
           /\ table'[u] = table[u] /\ call'[u].page = call[u].page
           /\ InHand(call'[u]) = InHand(call[u])
           /\ \A v \in Pages : pte'[u][v].frame = pte[u][v].frame
  PROVE  Refs' = Refs
  <1> DEFINE X == {}
  <1>1. \A r \in References \ X : Refs'[r] = Refs[r]
    <2> HIDE DEF X
    <2> QED BY OtherRefs
  <1>2. \A r \in References : Refs'[r] = Refs[r]
    BY <1>1
  <1> QED BY <1>2 DEF Refs, RefsOf

(* the entries, when one is set and others may become read-only; *)
SetsEntry(t, v, e) ==
  /\ pte'[t][v] = e
  /\ \A u \in Tasks, w \in Pages :
       \/ (u = t /\ w = v) \/ pte'[u][w] = pte[u][w] \/ pte'[u][w] = ReadOnly(pte[u][w])
       \/ /\ ~Present(pte[u][w]) /\ ~Present(pte'[u][w])
          /\ ~pte'[u][w].rw /\ ~pte'[u][w].dirty
  /\ ~Present(e) => ~e.rw /\ ~e.dirty
  /\ e.slot # NONE => ~Present(e)
  /\ Present(e) => \A u \in Tasks, w \in Pages :
       pte[u][w].frame = e.frame => w = v /\ (u # t => ~e.rw /\ ~pte'[u][w].rw)

LEMMA EntrySet ==
  ASSUME EntriesOK, MemoryTypeOK, NEW t \in Tasks, NEW v \in Pages, NEW e, SetsEntry(t, v, e)
  PROVE  EntriesOK'
  <1>0. /\ pte'[t][v] = e
        /\ \A u \in Tasks, w \in Pages :
             \/ (u = t /\ w = v) \/ pte'[u][w] = pte[u][w] \/ pte'[u][w] = ReadOnly(pte[u][w])
             \/ /\ ~Present(pte[u][w]) /\ ~Present(pte'[u][w])
                /\ ~pte'[u][w].rw /\ ~pte'[u][w].dirty
        /\ ~Present(e) => ~e.rw /\ ~e.dirty
        /\ e.slot # NONE => ~Present(e)
        /\ Present(e) => \A u \in Tasks, w \in Pages :
             pte[u][w].frame = e.frame => w = v /\ (u # t => ~e.rw /\ ~pte'[u][w].rw)
    BY DEF SetsEntry
  <1>1. ASSUME NEW u \in Tasks, NEW w \in Pages, ~(u = t /\ w = v)
        PROVE  /\ pte'[u][w].frame = pte[u][w].frame /\ (pte'[u][w].rw => pte[u][w].rw)
               /\ ~Present(pte'[u][w]) => ~pte'[u][w].rw /\ ~pte'[u][w].dirty
               /\ pte'[u][w].slot # NONE => ~Present(pte'[u][w])
    <2>1. /\ pte[u][w] \in PageEntry
          /\ ~Present(pte[u][w]) => ~pte[u][w].rw /\ ~pte[u][w].dirty
          /\ pte[u][w].slot # NONE => ~Present(pte[u][w])
      BY Typed DEF EntriesOK
    <2>2. CASE pte'[u][w] = pte[u][w]
      BY <2>1, <2>2
    <2>3. CASE pte'[u][w] = ReadOnly(pte[u][w])
      BY <2>1, <2>3 DEF ReadOnly, PageEntry, Present
    <2>4. CASE ~Present(pte[u][w]) /\ ~Present(pte'[u][w]) /\ ~pte'[u][w].rw /\ ~pte'[u][w].dirty
      BY <2>4 DEF Present
    <2> QED BY <1>0, <1>1, <2>2, <2>3, <2>4
  <1>2. ASSUME NEW u \in Tasks, NEW w \in Pages
        PROVE  /\ ~Present(pte'[u][w]) => ~pte'[u][w].rw /\ ~pte'[u][w].dirty
               /\ pte'[u][w].slot # NONE => ~Present(pte'[u][w])
    <2>1. CASE u = t /\ w = v
      BY <1>0, <2>1
    <2>2. CASE ~(u = t /\ w = v)
      BY <1>0, <1>1, <2>2 DEF EntriesOK, Present
    <2> QED BY <2>1, <2>2
  <1>3. ASSUME NEW x \in Tasks, NEW u \in Tasks, NEW y \in Pages, NEW w \in Pages,
               Present(pte'[x][y]), pte'[x][y].frame = pte'[u][w].frame
        PROVE  y = w /\ (pte'[x][y].rw => x = u)
    <2>1. CASE x = t /\ y = v
      <3>1. CASE u = t /\ w = v
        BY <1>0, <2>1, <3>1
      <3>2. CASE ~(u = t /\ w = v)
        BY <1>0, <1>1, <1>3, <2>1, <3>2
      <3> QED BY <3>1, <3>2
    <2>2. CASE ~(x = t /\ y = v)
      <3>1. CASE u = t /\ w = v
        BY <1>0, <1>1, <1>3, <2>2, <3>1 DEF Present
      <3>2. CASE ~(u = t /\ w = v)
        BY <1>0, <1>1, <1>3, <2>2, <3>2 DEF EntriesOK, Present
      <3> QED BY <3>1, <3>2
    <2> QED BY <2>1, <2>2
  <1> QED BY <1>2, <1>3 DEF EntriesOK

(* slots, if no entry gets another; *)
LEMMA SameSlots ==
  ASSUME SlotsOK, swap_bitmap' = swap_bitmap,
         \A u \in Tasks, w \in Pages : pte'[u][w].slot = pte[u][w].slot
  PROVE  SlotsOK'
  BY DEF SlotsOK

(* free_page, of pages that are not free; *)
LEMMA FreedPages ==
  ASSUME MemoryAssumption, NEW fs, FreePages(fs), mem_map \in [Frames -> 0..255], ~panic,
         \A f \in fs : f # NONE => f \in Frames /\ mem_map[f] # 0
  PROVE  mem_map' \in [Frames -> 0..255] /\ ~panic'
  <1>1. mem_map' = [f \in Frames |-> IF f \in fs THEN Max({mem_map[f] - 1, 0}) ELSE mem_map[f]]
        /\ panic' = (panic \/ \E f \in fs \ {NONE} : mem_map[f] = 0)
    BY DEF FreePages
  <1>2. ASSUME NEW f \in Frames PROVE mem_map'[f] \in 0..255
    <2>1. mem_map[f] \in 0..255 /\ f # NONE
      BY SMTT(60) DEF Frames, NONE, MemoryAssumption
    <2>2. CASE f \in fs
      <3>1. mem_map[f] \in Nat /\ mem_map[f] >= 1
        BY <2>1, <2>2
      <3>2. Max({mem_map[f] - 1, 0}) = mem_map[f] - 1
        BY <3>1, OneLess
      <3>3. mem_map'[f] = mem_map[f] - 1
        BY <1>1, <2>2, <3>2
      <3> QED BY <2>1, <3>1, <3>3
    <2>3. CASE f \notin fs
      BY <1>1, <2>1, <2>3
    <2> QED BY <2>2, <2>3
  <1>3. ~panic'
    BY <1>1
  <1>4. mem_map' \in [Frames -> 0..255]
    BY <1>1, <1>2
  <1> QED BY <1>3, <1>4

LEMMA TakeFreeStep ==
  ASSUME MemoryAssumption, Inv, NEW t \in Tasks, TakeFree(t) PROVE Inv'
  <1>1. /\ call[t] \in Calls /\ InKernelOK(t) /\ EntryIsAsRead(t) /\ ChildOK(t) /\ PageIsFilled(t)
        /\ call \in [Tasks -> Calls] /\ CallsOK /\ CleanOK /\ EntriesOK /\ SlotsOK /\ MemoryTypeOK
        /\ Counts(Refs, mem_map) /\ Exclusive(Refs) /\ ~panic
    BY Typed DEF Inv, CallsOK, MemoryTypeOK, CountsOK
  <1> DEFINE free == {f \in Frames : mem_map[f] = 0}
  <1>2. PICK f \in Frames : f \in free /\ f = Max(free)
    <2>1. free \subseteq 1..NrFrames /\ free # {} /\ NrFrames \in Nat
      BY DEF TakeFree, Frames, MemoryAssumption
    <2> HIDE DEF free
    <2>2. Max(free) \in free
      BY <2>1, GreatestIs
    <2> QED BY <2>1, <2>2 DEF Frames
  <1> DEFINE d == [call[t] EXCEPT !.pc = call[t].ret, !.page = f]
  <1>3. /\ call[t].pc = "get_free_page" /\ running = t /\ running' = t
        /\ call' = [call EXCEPT ![t] = d] /\ mem_map' = [mem_map EXCEPT ![f] = 1]
        /\ data' = [data EXCEPT ![f] = "zero"] /\ mem_map[f] = 0
        /\ UNCHANGED <<table, pte, swap_bitmap, disk, panic>> /\ copied' = copied \ {f}
    BY <1>2 DEF TakeFree, Runs, Enter
  <1> HIDE DEF free
  <1>4. call[t].ret \in Getters /\ call[t].page = NONE
    BY <1>1, <1>3 DEF InKernelOK, Getters
  <1>5. f \in 0..NrFrames /\ f # NONE
    BY DEF Frames, NONE, MemoryAssumption
  <1>6. /\ d \in Calls /\ d.pc = call[t].ret /\ d.ret = call[t].ret /\ d.v = call[t].v /\ d.page = f
        /\ d.kept = call[t].kept /\ d.other = call[t].other
    BY <1>1, <1>4, <1>5 DEF Calls, Labels
  <1> HIDE DEF d
  <1>7. call'[t] = d /\ call' \in [Tasks -> Calls] /\ \A u \in Tasks \ {t} : call'[u] = call[u]
    BY <1>1, <1>3, <1>6
  <1>8. Stage(call[t]) = call[t].ret /\ Stage(d) = call[t].ret /\ InHand(d) = InHand(call[t])
    BY <1>3, <1>4, <1>6 DEF Stage, InHand, Getters
  <1>9. /\ \A r \in References : Refs[r] # f
        /\ \A u \in Tasks : /\ call[u].page # f /\ InHand(call[u]) # f
                            /\ \A v \in Pages : pte[u][v].frame # f
    BY <1>1, <1>3, FreeIsNobodys
  <1>10. DOMAIN data = Frames /\ data'[f] = "zero" /\ DOMAIN data' = Frames /\ \A g : g # f => data'[g] = data[g]
    BY <1>1, <1>3 DEF MemoryTypeOK
  <1>11. MemoryTypeOK'
    BY <1>1, <1>3, <1>7, <1>10 DEF MemoryTypeOK
  <1>12. EntriesOK' /\ SlotsOK'
    BY <1>1, <1>3 DEF EntriesOK, SlotsOK, Present
  <1>13. CountsOK'
    <2> DEFINE j == <<t, PAGE>>
    <2>1. j \in References /\ Refs[j] = NONE /\ Refs'[j] = f
      BY <1>4, <1>6, <1>7, RefsOfTask, RefsAfter
    <2>2. \A r \in References \ {j} : Refs'[r] = Refs[r]
      <3>1. ASSUME NEW u \in Tasks
            PROVE  /\ table'[u] = table[u] /\ InHand(call'[u]) = InHand(call[u]) /\ pte'[u] = pte[u]
                   /\ <<u, PAGE>> \in {j} \/ call'[u].page = call[u].page
        <4>1. CASE u = t
          BY <1>3, <1>7, <1>8, <4>1
        <4>2. CASE u # t
          BY <1>3, <1>7, <4>2
        <4> QED BY <4>1, <4>2
      <3> QED BY <3>1, OtherRefs
    <2>3. \A r \in References : Refs'[r] = IF r = j THEN f ELSE Refs[r]
      BY <2>1, <2>2
    <2>4. \A g \in Frames : mem_map'[g] = IF g = f THEN mem_map[f] + 1 ELSE mem_map[g]
      BY <1>1, <1>3 DEF MemoryTypeOK
    <2>5. \A r \in References : Refs[r] = f => r[2] \in Pages /\ j[2] \in Pages
      BY <1>9
    <2> HIDE DEF j
    <2>6. Added(j, f, Refs, Refs', mem_map, mem_map')
      BY <2>1, <2>3, <2>4, <2>5 DEF Added
    <2>7. Counts(Refs', mem_map') /\ Exclusive(Refs')
      BY <1>1, <2>6, AddedRef
    <2> QED BY <2>7 DEF CountsOK
  <1>14. CallsOK'
    <2>1. InKernelOK(t)'
      BY <1>1, <1>3, <1>4, <1>5, <1>6, <1>7, <1>8 DEF InKernelOK, Getters, AtPage
    <2>2. EntryIsAsRead(t)'
      BY <1>1, <1>3, <1>4, <1>6, <1>7, <1>8 DEF EntryIsAsRead, Getters
    <2>3. PageIsFilled(t)'
      <3>1. call[t].ret = "put_page" /\ call[t].kept # NONE => call[t].kept # f
        BY <1>9 DEF InHand
      <3>2. call[t].v \in Data => Backing(call[t].v) = "zero"
        BY DEF Backing, MemoryAssumption
      <3> QED BY <1>1, <1>3, <1>4, <1>6, <1>7, <1>8, <1>10, <3>1, <3>2 DEF PageIsFilled, Getters
    <2>4. ChildOK(t)'
      <3>1. CASE call[t].ret = "copy_table" \/ Stage(call[t]) \notin Copying
        BY <1>1, <1>3, <1>6, <1>7, <1>8, <3>1 DEF ChildOK, Copying
      <3>2. CASE call[t].ret # "copy_table" /\ Stage(call[t]) \in Copying
        <4>1. call[t].v \in Pages => \A v \in Pages : v >= call[t].v => pte[call[t].other][v] = Empty
          BY <1>1, <3>2 DEF ChildOK
        <4> QED BY <1>1, <1>3, <1>6, <1>7, <1>8, <3>2, <4>1, ChildStays
      <3> QED BY <3>1, <3>2
    <2>5. call[t].pc # "new"
      BY <1>3
    <2> QED BY <1>1, <1>3, <1>6, <1>7, <1>8, <1>9, <1>10, <2>1, <2>2, <2>3, <2>4, <2>5, CallsStep
  <1>15. CleanOK'
    <2>1. \A u \in Tasks, w \in Pages :
            /\ data'[pte'[u][w].frame] = data[pte[u][w].frame] /\ pte' = pte
            /\ pte[u][w].frame # f
      BY <1>3, <1>9, <1>10
    <2> QED BY <1>1, <1>3, <2>1 DEF CleanOK
  <1> QED BY <1>1, <1>3, <1>11, <1>12, <1>13, <1>14, <1>15 DEF Inv

(* What every step lemma below starts from. *)
LEMMA PartsOf ==
  ASSUME MemoryAssumption, Inv
  PROVE  /\ CallsOK /\ CleanOK /\ EntriesOK /\ SlotsOK /\ MemoryTypeOK /\ ~panic
         /\ Counts(Refs, mem_map) /\ Exclusive(Refs)
         /\ call \in [Tasks -> Calls] /\ pte \in [Tasks -> [Pages -> PageEntry]]
         /\ mem_map \in [Frames -> 0..255] /\ table \in [Tasks -> 0..NrFrames]
         /\ Empty \in PageEntry /\ Empty.frame = NONE /\ Empty.slot = NONE /\ ~Empty.rw /\ ~Empty.dirty
         /\ NONE \in 0..NrFrames /\ 0..NrFrames = Frames \cup {NONE} /\ NONE \notin Frames
         /\ NONE \notin Slots
         /\ \A t \in Tasks : /\ call[t] \in Calls /\ InKernelOK(t) /\ EntryIsAsRead(t)
                             /\ ChildOK(t) /\ PageIsFilled(t)
  <1>1. /\ Empty \in PageEntry /\ Empty.frame = NONE /\ Empty.slot = NONE /\ ~Empty.rw /\ ~Empty.dirty
        /\ NONE \in 0..NrFrames /\ 0..NrFrames = Frames \cup {NONE} /\ NONE \notin Frames
        /\ NONE \notin Slots
    BY SMTT(60) DEF MemoryAssumption, Empty, PageEntry, NONE, Frames
  <1> QED BY <1>1 DEF Inv, CallsOK, MemoryTypeOK, CountsOK

LEMMA FrameOfEntry ==
  ASSUME MemoryAssumption, Inv, NEW u \in Tasks, NEW v \in Pages, Present(pte[u][v])
  PROVE  /\ pte[u][v].frame \in Frames /\ pte[u][v].slot = NONE /\ pte[u][v] # Empty
         /\ <<u, v>> \in References /\ Refs[<<u, v>>] = pte[u][v].frame
         /\ mem_map[pte[u][v].frame] \in 1..255
  <1>1. pte[u][v].frame \in Frames
    BY Typed DEF Inv, Present
  <1>2. pte[u][v].slot = NONE /\ pte[u][v] # Empty
    BY PartsOf DEF EntriesOK, Present
  <1>3. <<u, v>> \in References /\ Refs[<<u, v>>] = pte[u][v].frame
    BY RefsOfTask
  <1>4. mem_map[pte[u][v].frame] # 0
    BY <1>1, <1>3, PartsOf, FreeIsNobodys
  <1>5. mem_map[pte[u][v].frame] \in 0..255
    BY <1>1, PartsOf
  <1>6. mem_map[pte[u][v].frame] \in 1..255
    BY <1>4, <1>5, SMTT(60)
  <1> QED BY <1>1, <1>2, <1>3, <1>6, Zenon

(* A step that no call notices. *)
LEMMA NoCallStep ==
  ASSUME MemoryAssumption, Inv, call' = call, table' = table,
         \A x \in Tasks, w \in Pages : /\ pte[x][w] = Empty => pte'[x][w] = Empty
                                       /\ pte[x][w].slot # NONE => pte'[x][w].slot # NONE,
         \A u \in Tasks : /\ call[u].page # NONE => data'[call[u].page] = data[call[u].page]
                          /\ InHand(call[u]) # NONE => data'[InHand(call[u])] = data[InHand(call[u])]
  PROVE  CallsOK'
  <1>1. \A x \in Tasks : Stage(call[x]) \in Copying => call[x].other \in Tasks
    BY PartsOf DEF ChildOK
  <1> DEFINE C == {}
  <1>2. C \in SUBSET Tasks /\ Tasks \ C = Tasks /\ \A w : w \notin C
    OBVIOUS
  <1> HIDE DEF C
  <1>3. \A x \in Tasks \ C :
         /\ call'[x] = call[x]
         /\ call[x].page # NONE => data'[call[x].page] = data[call[x].page]
         /\ InHand(call[x]) # NONE => data'[InHand(call[x])] = data[InHand(call[x])]
         /\ call[x].pc # "new" =>
              /\ table'[x] = table[x]
              /\ \A w \in Pages : /\ pte[x][w] = Empty => pte'[x][w] = Empty
                                  /\ pte[x][w].slot # NONE => pte'[x][w].slot # NONE
    <2> SUFFICES ASSUME NEW x \in Tasks
                 PROVE  /\ call'[x] = call[x]
                        /\ call[x].page # NONE => data'[call[x].page] = data[call[x].page]
                        /\ InHand(call[x]) # NONE => data'[InHand(call[x])] = data[InHand(call[x])]
                        /\ table'[x] = table[x]
                        /\ \A w \in Pages : /\ pte[x][w] = Empty => pte'[x][w] = Empty
                                            /\ pte[x][w].slot # NONE => pte'[x][w].slot # NONE
      OBVIOUS
    <2>1. call'[x] = call[x] /\ table'[x] = table[x]
      OBVIOUS
    <2>2. /\ call[x].page # NONE => data'[call[x].page] = data[call[x].page]
          /\ InHand(call[x]) # NONE => data'[InHand(call[x])] = data[InHand(call[x])]
      OBVIOUS
    <2>3. \A w \in Pages : /\ pte[x][w] = Empty => pte'[x][w] = Empty
                           /\ pte[x][w].slot # NONE => pte'[x][w].slot # NONE
      OBVIOUS
    <2> QED BY <2>1, <2>2, <2>3
  <1>4. \A x \in Tasks \ C :
         Stage(call[x]) \in Copying =>
              /\ call'[call[x].other] = call[call[x].other]
              /\ table'[call[x].other] = table[call[x].other]
              /\ \A w \in Pages : pte[call[x].other][w] = Empty => pte'[call[x].other][w] = Empty
              /\ \A w \in C : Stage(call'[w]) \in Copying => call'[w].other # call[x].other
    <2> SUFFICES ASSUME NEW x \in Tasks \ C, Stage(call[x]) \in Copying
                 PROVE  /\ call'[call[x].other] = call[call[x].other]
                        /\ table'[call[x].other] = table[call[x].other]
                        /\ \A w \in Pages : pte[call[x].other][w] = Empty => pte'[call[x].other][w] = Empty
                        /\ \A w \in C : Stage(call'[w]) \in Copying => call'[w].other # call[x].other
      OBVIOUS
    <2>1. call[x].other \in Tasks
      BY <1>1
    <2>2. \A w \in Pages : pte[call[x].other][w] = Empty => pte'[call[x].other][w] = Empty
      BY <2>1
    <2>3. \A w \in C : Stage(call'[w]) \in Copying => call'[w].other # call[x].other
      BY <1>2
    <2> QED BY <2>1, <2>2, <2>3
  <1>5. \A w \in C : InKernelOK(w)' /\ EntryIsAsRead(w)' /\ ChildOK(w)' /\ PageIsFilled(w)'
    BY <1>2
  <1> QED BY <1>2, <1>3, <1>4, <1>5, PartsOf, CallsOfOthers, ZenonT(60)

LEMMA DropStep ==
  ASSUME MemoryAssumption, Inv, NEW t \in Tasks, NEW u \in Tasks, NEW v \in Pages, Drop(t, u, v)
  PROVE  Inv'
  <1> DEFINE f == pte[u][v].frame
             i == <<u, v>>
             D == {i}
  <1>1. /\ call[t].pc = "get_free_page" /\ running = t /\ Present(pte[u][v])
        /\ pte' = [pte EXCEPT ![u][v] = Empty] /\ FreePages({f})
        /\ UNCHANGED <<table, swap_bitmap, data, disk, call, running>>
    BY DEF Drop, Runs, MayDrop
  <1>2. /\ pte'[u][v] = Empty /\ pte' \in [Tasks -> [Pages -> PageEntry]]
        /\ \A x \in Tasks, w \in Pages : (x = u /\ w = v) \/ pte'[x][w] = pte[x][w]
    BY <1>1, PartsOf, SMTT(60)
  <1>3. /\ f \in Frames /\ pte[u][v].slot = NONE /\ pte[u][v] # Empty /\ mem_map[f] \in 1..255
        /\ i \in References /\ Refs[i] = f
    BY <1>1, FrameOfEntry, ZenonT(60)
  <1> HIDE DEF f, i
  <1>4. mem_map' \in [Frames -> 0..255] /\ ~panic'
    BY <1>1, <1>3, PartsOf, FreedPages, SMTT(60)
  <1>5. MemoryTypeOK'
    BY <1>1, <1>2, <1>4, PartsOf DEF MemoryTypeOK
  <1>6. EntriesOK'
    <2>1. SetsEntry(u, v, Empty)
      BY <1>2, PartsOf DEF Present, SetsEntry
    <2> QED BY <2>1, PartsOf, EntrySet
  <1>7. SlotsOK'
    <2>1. \A x \in Tasks, w \in Pages : pte'[x][w].slot = pte[x][w].slot
      BY <1>2, <1>3, PartsOf
    <2> QED BY <1>1, <2>1, PartsOf, SameSlots
  <1>8. CountsOK'
    <2>1. \A x \in Tasks, w \in Pages : <<x, w>> \in D \/ pte'[x][w].frame = pte[x][w].frame
      BY <1>2 DEF i
    <2>2. \A r \in References \ D : Refs'[r] = Refs[r]
      <3> HIDE DEF D
      <3> QED BY <1>1, <2>1, OtherRefs
    <2>3. Refs'[i] = NONE
      BY <1>2, PartsOf, RefsAfter, ZenonT(60) DEF i
    <2>4. \A g \in Frames :
            mem_map'[g] = IF \E d \in D : Refs[d] = g THEN Max({mem_map[g] - 1, 0}) ELSE mem_map[g]
      BY <1>1, <1>3 DEF FreePages
    <2>5. Freed(D, Refs, Refs', mem_map, mem_map')
      BY <1>3, <2>2, <2>3, <2>4 DEF Freed
    <2> HIDE DEF D
    <2>6. Counts(Refs', mem_map') /\ Exclusive(Refs')
      BY <2>5, PartsOf, FreedRefs
    <2> QED BY <2>6 DEF CountsOK
  <1>9. CallsOK'
    <2>1. \A x \in Tasks, w \in Pages : /\ pte[x][w] = Empty => pte'[x][w] = Empty
                                        /\ pte[x][w].slot # NONE => pte'[x][w].slot # NONE
      BY <1>2, <1>3
    <2> QED BY <1>1, <2>1, NoCallStep
  <1>10. CleanOK'
    <2>1. \A x \in Tasks, w \in Pages :
            MayDrop(pte'[x][w]) =>
              /\ MayDrop(pte[x][w]) /\ pte[x][w].frame = pte'[x][w].frame
              /\ data'[pte'[x][w].frame] = data[pte[x][w].frame]
      BY <1>1, <1>2, PartsOf DEF MayDrop, Present
    <2>9. copied' = copied
      BY DEF Drop, history
    <2> QED BY <2>9, <1>1, <2>1, PartsOf, CleanStays
  <1> QED BY <1>4, <1>5, <1>6, <1>7, <1>8, <1>9, <1>10 DEF Inv

LEMMA SwapOutStep ==
  ASSUME MemoryAssumption, Inv, NEW t \in Tasks, NEW u \in Tasks, NEW v \in Pages, SwapOut(t, u, v)
  PROVE  Inv'
  <1>1. PICK nr \in Slots : nr \in swap_bitmap /\ nr = Min(swap_bitmap)
    <2>1. swap_bitmap \subseteq Nat /\ swap_bitmap # {} /\ swap_bitmap \subseteq Slots
      BY PartsOf DEF SwapOut, MaySwap, MemoryTypeOK, MemoryAssumption
    <2>2. Min(swap_bitmap) \in swap_bitmap
      BY <2>1, LeastIs, Zenon
    <2> QED BY <2>1, <2>2
  <1>2. PICK f \in Frames : f = pte[u][v].frame
    BY FrameOfEntry, ZenonT(60) DEF SwapOut, MaySwap
  <1> DEFINE d == [call[t] EXCEPT !.pc = "swap_out", !.page = f, !.slot = nr]
             i == <<u, v>>
             j == <<t, PAGE>>
  <1>3. /\ call[t].pc = "get_free_page" /\ running = t /\ Present(pte[u][v]) /\ mem_map[f] = 1
        /\ swap_bitmap' = swap_bitmap \ {nr} /\ pte' = [pte EXCEPT ![u][v] = InSlot(nr)]
        /\ call' = [call EXCEPT ![t] = d] /\ running' = NONE
        /\ UNCHANGED <<mem_map, table, data, panic, copied>> /\ \E x : disk' = [disk EXCEPT ![nr] = x]
    BY <1>1, <1>2 DEF SwapOut, MaySwap, Runs, Sleep, InOrder
  <1>4. /\ pte[u][v].slot = NONE /\ pte[u][v] # Empty /\ i \in References /\ Refs[i] = f
    BY <1>2, <1>3, FrameOfEntry, ZenonT(60)
  <1>5. call[t].ret \in Getters /\ call[t].page = NONE
    BY <1>3, PartsOf DEF InKernelOK, Getters
  <1>6. /\ d \in Calls /\ d.pc = "swap_out" /\ d.ret = call[t].ret /\ d.v = call[t].v /\ d.page = f
        /\ d.kept = call[t].kept /\ d.other = call[t].other
    <2>1. call[t] \in Calls /\ f \in 0..NrFrames /\ "swap_out" \in Labels
      BY PartsOf DEF Labels
    <2> QED BY <2>1 DEF Calls
  <1> HIDE DEF d
  <1>7. call'[t] = d /\ call' \in [Tasks -> Calls] /\ \A x \in Tasks \ {t} : call'[x] = call[x]
    BY <1>3, <1>6, PartsOf
  <1>8. Stage(call[t]) = call[t].ret /\ Stage(d) = call[t].ret /\ InHand(d) = InHand(call[t])
    BY <1>3, <1>5, <1>6 DEF Stage, InHand, Getters
  <1>9. /\ InSlot(nr) \in PageEntry /\ InSlot(nr).slot = nr /\ InSlot(nr).frame = NONE
        /\ ~InSlot(nr).rw /\ ~InSlot(nr).dirty /\ nr # NONE
    BY PartsOf DEF InSlot, Empty, PageEntry
  <1>10. /\ pte'[u][v] = InSlot(nr) /\ pte' \in [Tasks -> [Pages -> PageEntry]]
         /\ \A x \in Tasks, w \in Pages : (x = u /\ w = v) \/ pte'[x][w] = pte[x][w]
    BY <1>3, <1>9, PartsOf
  <1>11. MemoryTypeOK'
    BY <1>3, <1>7, <1>10, PartsOf DEF MemoryTypeOK
  <1>12. EntriesOK'
    <2>1. SetsEntry(u, v, InSlot(nr))
      BY <1>9, <1>10 DEF Present, SetsEntry
    <2> QED BY <2>1, PartsOf, EntrySet
  <1>13. SlotsOK'
    <2>1. \A x \in Tasks, w \in Pages : pte[x][w].slot # nr
      BY <1>1, PartsOf DEF SlotsOK
    <2>2. \A x \in Tasks, w \in Pages :
            IF x = u /\ w = v THEN pte'[x][w].slot = nr ELSE pte'[x][w].slot = pte[x][w].slot
      BY <1>9, <1>10
    <2>3. \A x, y \in Tasks, w, z \in Pages :
            pte'[x][w].slot # NONE /\ pte'[x][w].slot = pte'[y][z].slot => x = y /\ w = z
      <3>1. \A x, y \in Tasks, w, z \in Pages :
              pte[x][w].slot # NONE /\ pte[x][w].slot = pte[y][z].slot => x = y /\ w = z
        BY PartsOf DEF SlotsOK
      <3>2. ASSUME NEW x \in Tasks, NEW y \in Tasks, NEW w \in Pages, NEW z \in Pages,
                   pte'[x][w].slot # NONE, pte'[x][w].slot = pte'[y][z].slot
            PROVE  x = y /\ w = z
        <4>1. CASE x = u /\ w = v
          BY <2>1, <2>2, <3>2, <4>1
        <4>2. CASE ~(x = u /\ w = v)
          <5>1. pte'[x][w].slot = pte[x][w].slot
            BY <2>2, <4>2
          <5>2. ~(y = u /\ z = v)
            BY <2>1, <2>2, <3>2, <5>1, ZenonT(60)
          <5>3. pte'[y][z].slot = pte[y][z].slot
            BY <2>2, <5>2
          <5>4. pte[x][w].slot # NONE /\ pte[x][w].slot = pte[y][z].slot
            BY <3>2, <5>1, <5>3
          <5> QED BY <3>1, <5>4
        <4> QED BY <4>1, <4>2
      <3> QED BY <3>2
    <2>4. \A x \in Tasks, w \in Pages : pte'[x][w].slot \notin swap_bitmap'
      BY <1>3, <2>2, PartsOf DEF SlotsOK
    <2>5. \A n \in Slots \ swap_bitmap' : \E x \in Tasks, w \in Pages : pte'[x][w].slot = n
      <3> SUFFICES ASSUME NEW n \in Slots \ swap_bitmap'
                   PROVE  \E x \in Tasks, w \in Pages : pte'[x][w].slot = n
        OBVIOUS
      <3>1. CASE n = nr
        BY <2>2, <3>1
      <3>2. CASE n # nr
        <4>1. PICK x \in Tasks, w \in Pages : pte[x][w].slot = n
          BY <1>3, <3>2, PartsOf DEF SlotsOK
        <4>2. n # NONE
          BY PartsOf
        <4> QED BY <1>4, <2>2, <4>1, <4>2
      <3> QED BY <3>1, <3>2
    <2> QED BY <2>3, <2>4, <2>5 DEF SlotsOK
  <1>14. CountsOK'
    <2>1. j \in References /\ Refs[j] = NONE /\ Refs'[j] = f /\ i # j
      BY <1>5, <1>6, <1>7, RefsOfTask, RefsAfter, ReferencesAre
    <2>2. Refs'[i] = NONE
      BY <1>9, <1>10, RefsAfter, ZenonT(60)
    <2> DEFINE X == {i, j}
    <2>3. \A r \in References \ X : Refs'[r] = Refs[r]
      <3>1. ASSUME NEW x \in Tasks
            PROVE  /\ table'[x] = table[x] /\ InHand(call'[x]) = InHand(call[x])
                   /\ <<x, PAGE>> \in X \/ call'[x].page = call[x].page
                   /\ \A w \in Pages : <<x, w>> \in X \/ pte'[x][w].frame = pte[x][w].frame
        <4>1. \A w \in Pages : <<x, w>> \in X \/ pte'[x][w].frame = pte[x][w].frame
          BY <1>10
        <4>2. CASE x = t
          BY <1>3, <1>7, <1>8, <4>1, <4>2
        <4>3. CASE x # t
          BY <1>3, <1>7, <4>1, <4>3
        <4> QED BY <4>2, <4>3
      <3> HIDE DEF X
      <3> QED BY <3>1, OtherRefs
    <2>4. \A r \in References : Refs'[r] = IF r = i THEN NONE ELSE IF r = j THEN Refs[i] ELSE Refs[r]
      BY <1>4, <2>1, <2>2, <2>3
    <2>5. \A r \in References : Refs[r] = Refs[i] => r = i
      BY <1>3, <1>4, PartsOf, CountedOnce
    <2> HIDE DEF i, j
    <2>6. Moved(i, j, Refs, Refs')
      BY <1>4, <2>1, <2>4, <2>5 DEF Moved
    <2>7. Counts(Refs', mem_map) /\ Exclusive(Refs')
      BY <2>6, PartsOf, MovedRef
    <2> QED BY <1>3, <2>7 DEF CountsOK
  <1>15. CallsOK'
    <2>1. \A x \in Tasks, w \in Pages : /\ pte[x][w] = Empty => pte'[x][w] = Empty
                                        /\ pte[x][w].slot # NONE => pte'[x][w].slot # NONE
      BY <1>4, <1>10
    <2>2. InKernelOK(t)'
      BY <1>3, <1>5, <1>6, <1>7, <1>8, PartsOf DEF InKernelOK, Getters, AtPage
    <2>3. EntryIsAsRead(t)'
      <3>1. call[t].ret \in AtPage => call[t].v \in Pages
        BY <1>8, PartsOf DEF InKernelOK
      <3>2. EntryIsAsRead(t)
        BY PartsOf
      <3> QED BY <1>6, <1>7, <1>8, <2>1, <3>1, <3>2 DEF EntryIsAsRead, AtPage
    <2>4. PageIsFilled(t)'
      <3>1. PageIsFilled(t)
        BY PartsOf
      <3> QED BY <1>3, <1>6, <1>7, <1>8, <3>1 DEF PageIsFilled
    <2>5. ChildOK(t)'
      <3>1. ChildOK(t) /\ call[t].pc # "new"
        BY <1>3, PartsOf
      <3>2. CASE Stage(call[t]) \notin Copying
        BY <1>7, <1>8, <3>2 DEF ChildOK
      <3>3. CASE Stage(call[t]) \in Copying
        <4>1. call[t].other \in Tasks \ {t}
          BY <3>1, <3>3 DEF ChildOK
        <4> QED BY <1>3, <1>6, <1>7, <1>8, <2>1, <3>1, <3>3, <4>1 DEF ChildOK
      <3> QED BY <3>2, <3>3
    <2>6. call[t].pc # "new"
      BY <1>3
    <2> QED BY <1>3, <1>6, <1>7, <1>8, <2>1, <2>2, <2>3, <2>4, <2>5, <2>6, PartsOf, CallsStep, SMTT(60)
  <1>16. CleanOK'
    <2>1. \A x \in Tasks, w \in Pages :
            MayDrop(pte'[x][w]) =>
              /\ MayDrop(pte[x][w]) /\ pte[x][w].frame = pte'[x][w].frame
              /\ data'[pte'[x][w].frame] = data[pte[x][w].frame]
      BY <1>3, <1>9, <1>10 DEF MayDrop, Present
    <2>9. copied' = copied
      BY DEF SwapOut, InOrder
    <2> QED BY <2>9, <1>3, <2>1, PartsOf, CleanStays, ZenonT(60)
  <1> QED BY <1>3, <1>11, <1>12, <1>13, <1>14, <1>15, <1>16, PartsOf DEF Inv

LEMMA SwappedOutStep ==
  ASSUME MemoryAssumption, Inv, NEW t \in Tasks, SwappedOut(t) PROVE Inv'
  <1>1. PICK f \in Frames : f = call[t].page
    <2>1. call[t].page # NONE
      BY PartsOf DEF SwappedOut, Wakes, InKernelOK
    <2> QED BY <2>1, Typed, PartsOf
  <1> DEFINE d == [call[t] EXCEPT !.pc = "get_free_page", !.page = NONE, !.slot = NONE]
             i == <<t, PAGE>>
             D == {i}
  <1>2. /\ call[t].pc = "swap_out" /\ running = NONE /\ running' = t /\ FreePages({f})
        /\ call' = [call EXCEPT ![t] = d]
        /\ UNCHANGED <<table, pte, swap_bitmap, data, disk>>
    BY <1>1 DEF SwappedOut, Wakes, Enter
  <1>3. call[t].ret \in Getters
    BY <1>2, PartsOf DEF InKernelOK
  <1>4. /\ d \in Calls /\ d.pc = "get_free_page" /\ d.ret = call[t].ret /\ d.v = call[t].v
        /\ d.page = NONE /\ d.kept = call[t].kept /\ d.other = call[t].other
    <2>1. call[t] \in Calls /\ "get_free_page" \in Labels /\ NONE \in 0..NrFrames
      BY PartsOf DEF Labels
    <2> QED BY <2>1 DEF Calls
  <1> HIDE DEF d
  <1>5. call'[t] = d /\ call' \in [Tasks -> Calls] /\ \A x \in Tasks \ {t} : call'[x] = call[x]
    BY <1>2, <1>4, PartsOf
  <1>6. Stage(call[t]) = call[t].ret /\ Stage(d) = call[t].ret /\ InHand(d) = InHand(call[t])
    BY <1>2, <1>3, <1>4 DEF Stage, InHand, Getters
  <1>7. i \in References /\ Refs[i] = f /\ Refs'[i] = NONE
    BY <1>1, <1>4, <1>5, RefsOfTask, RefsAfter
  <1>8. mem_map[f] # 0
    BY <1>7, PartsOf, FreeIsNobodys
  <1>9. mem_map' \in [Frames -> 0..255] /\ ~panic'
    BY <1>2, <1>8, PartsOf, FreedPages
  <1>10. MemoryTypeOK'
    BY <1>2, <1>5, <1>9, PartsOf DEF MemoryTypeOK
  <1>11. EntriesOK' /\ SlotsOK'
    BY <1>2, PartsOf DEF EntriesOK, SlotsOK, Present
  <1>12. CountsOK'
    <2>1. \A r \in References \ D : Refs'[r] = Refs[r]
      <3>1. ASSUME NEW x \in Tasks
            PROVE  /\ table'[x] = table[x] /\ InHand(call'[x]) = InHand(call[x])
                   /\ <<x, PAGE>> \in D \/ call'[x].page = call[x].page
                   /\ pte'[x] = pte[x]
        <4>1. CASE x = t
          BY <1>2, <1>5, <1>6, <4>1
        <4>2. CASE x # t
          BY <1>2, <1>5, <4>2
        <4> QED BY <4>1, <4>2
      <3> HIDE DEF D
      <3> QED BY <3>1, OtherRefs
    <2>2. \A g \in Frames :
            mem_map'[g] = IF \E x \in D : Refs[x] = g THEN Max({mem_map[g] - 1, 0}) ELSE mem_map[g]
      BY <1>2, <1>7 DEF FreePages
    <2> HIDE DEF i
    <2>3. Freed(D, Refs, Refs', mem_map, mem_map')
      BY <1>7, <2>1, <2>2 DEF Freed
    <2> HIDE DEF D
    <2>4. Counts(Refs', mem_map') /\ Exclusive(Refs')
      BY <2>3, PartsOf, FreedRefs
    <2> QED BY <2>4 DEF CountsOK
  <1>13. CallsOK'
    <2>1. InKernelOK(t)'
      BY <1>2, <1>3, <1>4, <1>5, <1>6, PartsOf DEF InKernelOK, Getters, AtPage
    <2>2. EntryIsAsRead(t)'
      <3>1. EntryIsAsRead(t)
        BY PartsOf
      <3> QED BY <1>2, <1>4, <1>5, <1>6, <3>1 DEF EntryIsAsRead
    <2>3. PageIsFilled(t)'
      <3>1. PageIsFilled(t)
        BY PartsOf
      <3> QED BY <1>2, <1>4, <1>5, <1>6, <3>1 DEF PageIsFilled
    <2>4. ChildOK(t)'
      <3>1. ChildOK(t) /\ call[t].pc # "new"
        BY <1>2, PartsOf
      <3>2. CASE Stage(call[t]) \notin Copying
        BY <1>5, <1>6, <3>2 DEF ChildOK
      <3>3. CASE Stage(call[t]) \in Copying
        <4>1. call[t].other \in Tasks \ {t}
          BY <3>1, <3>3 DEF ChildOK
        <4> QED BY <1>2, <1>4, <1>5, <1>6, <3>1, <3>3, <4>1 DEF ChildOK
      <3> QED BY <3>2, <3>3
    <2>5. call[t].pc # "new"
      BY <1>2
    <2> QED BY <1>2, <1>4, <1>5, <1>6, <2>1, <2>2, <2>3, <2>4, <2>5, PartsOf, CallsStep
  <1>14. CleanOK'
    <2>1. \A x \in Tasks, w \in Pages :
            MayDrop(pte'[x][w]) =>
              /\ MayDrop(pte[x][w]) /\ pte[x][w].frame = pte'[x][w].frame
              /\ data'[pte'[x][w].frame] = data[pte[x][w].frame]
      BY <1>2
    <2>9. copied' = copied
      BY DEF SwappedOut, history
    <2> QED BY <2>9, <1>2, <2>1, PartsOf, CleanStays
  <1> QED BY <1>9, <1>10, <1>11, <1>12, <1>13, <1>14 DEF Inv

(* A call whose page has just been filled, or is being filled. *)
Fills(t, pc, x) ==
  /\ call[t].page # NONE
  /\ \/ call[t].pc = "bread_page" /\ pc = "put_page" /\ x = "file"
     \/ call[t].pc = "swap_in" /\ pc = "read_swap_page"
     \/ call[t].pc = "copy_swapped" /\ pc = "copy_read"
  /\ call' = [call EXCEPT ![t] = [call[t] EXCEPT !.pc = pc]]
  /\ running \in {t, NONE} /\ running' \in {t, NONE}
  /\ data' = [data EXCEPT ![call[t].page] = x]
  /\ UNCHANGED <<mem_map, table, pte, swap_bitmap, disk, panic, copied>>

LEMMA FillStep ==
  ASSUME MemoryAssumption, Inv, NEW t \in Tasks, NEW pc, NEW x, Fills(t, pc, x)
  PROVE  Inv'
  <1>0. /\ call[t].page # NONE
        /\ call' = [call EXCEPT ![t] = [call[t] EXCEPT !.pc = pc]]
        /\ running \in {t, NONE} /\ running' \in {t, NONE}
        /\ data' = [data EXCEPT ![call[t].page] = x]
        /\ UNCHANGED <<mem_map, table, pte, swap_bitmap, disk, panic, copied>>
    BY DEF Fills
  <1> DEFINE d == [call[t] EXCEPT !.pc = pc]
  <1>1. PICK f \in Frames : f = call[t].page
    BY <1>0, Typed, PartsOf
  <1>2. \/ call[t].pc = "bread_page" /\ pc = "put_page" /\ x = "file"
        \/ call[t].pc = "swap_in" /\ pc = "read_swap_page"
        \/ call[t].pc = "copy_swapped" /\ pc = "copy_read"
    BY DEF Fills
  <1>3. /\ d \in Calls /\ d.pc = pc /\ d.ret = call[t].ret /\ d.v = call[t].v
        /\ d.page = f /\ d.kept = call[t].kept /\ d.other = call[t].other
    <2>1. call[t] \in Calls /\ pc \in Labels
      BY <1>2, PartsOf DEF Labels, Getters, AtPage
    <2> QED BY <1>1, <2>1 DEF Calls
  <1> HIDE DEF d
  <1>4. call'[t] = d /\ call' \in [Tasks -> Calls] /\ \A u \in Tasks \ {t} : call'[u] = call[u]
    BY <1>0, <1>3, PartsOf DEF d
  <1>5. Stage(call[t]) = call[t].pc /\ Stage(d) = pc
    BY <1>2, <1>3 DEF Stage
  <1>6. InHand(call[t]) = NONE /\ InHand(d) = NONE
    <2>1. InKernelOK(t)
      BY PartsOf
    <2>2. InHand(call[t]) = NONE
      BY <1>2, <1>5, <2>1 DEF InKernelOK
    <2>3. call[t].pc = "bread_page" => call[t].kept = NONE
      BY <1>5, <2>1 DEF InKernelOK
    <2> QED BY <1>2, <1>3, <2>2, <2>3 DEF InHand
  <1>7. \A u \in Tasks : /\ u # t => call[u].page # f
                         /\ InHand(call[u]) # f
                         /\ \A v \in Pages : pte[u][v].frame # f
    BY <1>0, <1>1, PartsOf, PageIsAlone
  <1>8. DOMAIN data = Frames /\ data'[f] = x /\ DOMAIN data' = Frames /\ \A g : g # f => data'[g] = data[g]
    BY <1>0, <1>1, PartsOf DEF MemoryTypeOK
  <1>9. MemoryTypeOK'
    <2>1. running' \in Tasks \cup {NONE}
      BY <1>0
    <2> QED BY <1>0, <1>4, <1>8, <2>1, PartsOf DEF MemoryTypeOK
  <1>10. EntriesOK' /\ SlotsOK'
    BY <1>0, PartsOf DEF EntriesOK, SlotsOK, Present
  <1>11. CountsOK'
    <2>1. ASSUME NEW u \in Tasks
          PROVE  /\ table'[u] = table[u] /\ InHand(call'[u]) = InHand(call[u]) /\ pte'[u] = pte[u]
                 /\ call'[u].page = call[u].page
      <3>1. CASE u = t
        BY <1>0, <1>1, <1>3, <1>4, <1>6, <3>1
      <3>2. CASE u # t
        BY <1>0, <1>4, <3>2
      <3> QED BY <3>1, <3>2
    <2> DEFINE X == {}
    <2>2. \A r \in References \ X : Refs'[r] = Refs[r]
      <3> HIDE DEF X
      <3> QED BY <2>1, OtherRefs
    <2>3. DOMAIN Refs = References /\ DOMAIN Refs' = References
      BY RefsOfAre DEF Refs
    <2>4. Refs' = Refs
      BY <2>2, <2>3 DEF Refs, RefsOf
    <2> QED BY <1>0, <2>4, PartsOf DEF CountsOK
  <1>12. CallsOK'
    <2>1. InKernelOK(t)'
      <3>1. InKernelOK(t)
        BY PartsOf
      <3>2. pc \in AtPage /\ call[t].pc \in AtPage /\ pc \notin {"get_free_page", "swap_out", "share", "copy_page"}
        BY <1>2 DEF AtPage
      <3>3. call[t].v \in Pages
        BY <1>5, <3>1, <3>2 DEF InKernelOK
      <3>4. pc \in {"load", "bread_page"} => FALSE
        BY <1>2
      <3>5. pc \in Getters \cup {"swap_out", "bread_page", "read_swap_page", "copy_read"} /\ f # NONE
        BY <1>0, <1>1, <1>2 DEF Getters
      <3> QED BY <1>0, <1>3, <1>4, <1>5, <1>6, <3>2, <3>3, <3>4, <3>5 DEF InKernelOK
    <2>2. EntryIsAsRead(t)'
      <3>1. EntryIsAsRead(t)
        BY PartsOf
      <3> QED BY <1>0, <1>2, <1>3, <1>4, <1>5, <3>1 DEF EntryIsAsRead
    <2>3. PageIsFilled(t)'
      <3>1. PageIsFilled(t) /\ InKernelOK(t)
        BY PartsOf
      <3>2. pc = "put_page" => call[t].v \in Code /\ call[t].kept = NONE
        BY <1>2, <1>5, <3>1 DEF PageIsFilled, InKernelOK
      <3> QED BY <1>0, <1>2, <1>3, <1>4, <1>5, <1>8, <3>2 DEF PageIsFilled, Backing
    <2>4. ChildOK(t)'
      <3>1. ChildOK(t) /\ call[t].pc # "new"
        BY <1>2, PartsOf
      <3>2. CASE pc # "copy_read"
        BY <1>0, <1>2, <1>4, <1>5, <3>2 DEF ChildOK, Copying
      <3>3. CASE pc = "copy_read"
        <4>1. Stage(call[t]) \in Copying
          BY <1>2, <1>5, <3>3 DEF Copying
        <4>2. call[t].other \in Tasks \ {t}
          BY <3>1, <4>1 DEF ChildOK
        <4> QED BY <1>0, <1>3, <1>4, <1>5, <3>1, <3>3, <4>1, <4>2, ChildStays DEF ChildOK
      <3> QED BY <3>2, <3>3
    <2>5. call[t].pc # "new"
      BY <1>2
    <2>6. Stage(call'[t]) \in Copying => Stage(call[t]) \in Copying /\ call'[t].other = call[t].other
      BY <1>2, <1>3, <1>4, <1>5 DEF Copying
    <2> QED BY <1>0, <1>4, <1>7, <1>8, <2>1, <2>2, <2>3, <2>4, <2>5, <2>6, PartsOf, CallsStep, ZenonT(60)
  <1>13. CleanOK'
    <2>1. \A u \in Tasks, w \in Pages : data'[pte'[u][w].frame] = data[pte[u][w].frame] /\ pte' = pte
      BY <1>0, <1>7, <1>8
    <2> QED BY <1>0, <2>1, PartsOf, CleanStays, ZenonT(60)
  <1> QED BY <1>0, <1>9, <1>10, <1>11, <1>12, <1>13, PartsOf DEF Inv

LEMMA LoadedStep ==
  ASSUME MemoryAssumption, Inv, NEW t \in Tasks, Loaded(t) PROVE Inv'
  <1>1. /\ call[t].pc = "bread_page" /\ running = NONE /\ running' = t /\ call[t].page # NONE
        /\ call' = [call EXCEPT ![t] = [call[t] EXCEPT !.pc = "put_page"]]
        /\ data' = [data EXCEPT ![call[t].page] = "file"]
        /\ UNCHANGED <<mem_map, table, pte, swap_bitmap, disk, panic, copied>>
    BY PartsOf DEF Loaded, Wakes, Enter, InKernelOK, history
  <1>2. Fills(t, "put_page", "file")
    BY <1>1 DEF Fills
  <1> QED BY <1>2, FillStep

LEMMA SwapInStep ==
  ASSUME MemoryAssumption, Inv, NEW t \in Tasks, SwapIn(t), call[t].page # NONE PROVE Inv'
  <1>0. ReadSwapPage(t, "read_swap_page") /\ call[t].pc = "swap_in" /\ running = t
    BY DEF SwapIn, Runs
  <1>1. PICK x : data' = [data EXCEPT ![call[t].page] = x] /\ copied' = copied
    BY <1>0 DEF ReadSwapPage, InOrder
  <1>2. Fills(t, "read_swap_page", x)
    BY <1>0, <1>1 DEF Fills, ReadSwapPage, Sleep
  <1> QED BY <1>2, FillStep

LEMMA CopySwappedStep ==
  ASSUME MemoryAssumption, Inv, NEW t \in Tasks, CopySwapped(t), call[t].page # NONE PROVE Inv'
  <1>0. ReadSwapPage(t, "copy_read") /\ call[t].pc = "copy_swapped" /\ running = t
    BY DEF CopySwapped, Runs
  <1>1. PICK x : data' = [data EXCEPT ![call[t].page] = x] /\ copied' = copied
    BY <1>0 DEF ReadSwapPage, InOrder
  <1>2. Fills(t, "copy_read", x)
    BY <1>0, <1>1 DEF Fills, ReadSwapPage, Sleep
  <1> QED BY <1>2, FillStep

(* A call that returns to the program, with its page in an entry. *)
Returns(t, d) ==
  /\ d \in Calls /\ d.pc = "user" /\ d.ret = "user" /\ d.page = NONE
  /\ call' = [call EXCEPT ![t] = d] /\ call[t].pc # "new"
  /\ \A u \in Tasks \ {t} :
       /\ call[u].page # NONE => data'[call[u].page] = data[call[u].page]
       /\ InHand(call[u]) # NONE => data'[InHand(call[u])] = data[InHand(call[u])]
       /\ table'[u] = table[u]
       /\ \A v \in Pages : /\ pte[u][v] = Empty => pte'[u][v] = Empty
                           /\ pte[u][v].slot # NONE => pte'[u][v].slot # NONE

LEMMA CallsReturn ==
  ASSUME MemoryAssumption, Inv, NEW t \in Tasks, NEW d, Returns(t, d)
  PROVE  /\ CallsOK' /\ call' \in [Tasks -> Calls] /\ call'[t] = d /\ InHand(call'[t]) = NONE
         /\ \A u \in Tasks \ {t} : call'[u] = call[u]
  <1>1. /\ call'[t] = d /\ call' \in [Tasks -> Calls] /\ \A u \in Tasks \ {t} : call'[u] = call[u]
    BY PartsOf DEF Returns
  <1>2. /\ InKernelOK(t)' /\ EntryIsAsRead(t)' /\ ChildOK(t)' /\ PageIsFilled(t)'
        /\ Stage(call'[t]) \notin Copying /\ InHand(call'[t]) = NONE
    BY <1>1, AtUser DEF Returns
  <1>3. \A u \in Tasks \ {t} :
          /\ call'[u] = call[u]
          /\ call[u].page # NONE => data'[call[u].page] = data[call[u].page]
          /\ InHand(call[u]) # NONE => data'[InHand(call[u])] = data[InHand(call[u])]
          /\ table'[u] = table[u]
          /\ \A v \in Pages : /\ pte[u][v] = Empty => pte'[u][v] = Empty
                              /\ pte[u][v].slot # NONE => pte'[u][v].slot # NONE
    BY <1>1 DEF Returns
  <1>4. call[t].pc # "new" /\ CallsOK
    BY PartsOf DEF Returns
  <1>5. CallsOK'
    BY <1>2, <1>3, <1>4, CallsStep
  <1> QED BY <1>1, <1>2, <1>5

LEMMA InFrameIs ==
  ASSUME MemoryAssumption, NEW f \in Frames, NEW rw \in BOOLEAN, NEW dirty \in BOOLEAN
  PROVE  /\ InFrame(f, rw, dirty) \in PageEntry /\ InFrame(f, rw, dirty).frame = f
         /\ InFrame(f, rw, dirty).rw = rw /\ InFrame(f, rw, dirty).dirty = dirty
         /\ InFrame(f, rw, dirty).slot = NONE /\ Present(InFrame(f, rw, dirty))
  <1>1. f \in 0..NrFrames /\ f # NONE
    BY DEF MemoryAssumption, Frames, NONE
  <1> QED BY <1>1 DEF InFrame, Empty, PageEntry, Present

(* A page that a call has alone is put in an entry that has none. *)
PutsEntry(t, v, e) ==
  /\ pte' = [pte EXCEPT ![t][v] = e]
  /\ e \in PageEntry /\ Present(e) /\ e.slot = NONE
  /\ \A u \in Tasks, w \in Pages : pte[u][w].frame # e.frame

LEMMA PutEntry ==
  ASSUME MemoryAssumption, Inv, NEW t \in Tasks, NEW v \in Pages, NEW e, PutsEntry(t, v, e)
  PROVE  /\ EntriesOK' /\ pte' \in [Tasks -> [Pages -> PageEntry]] /\ pte'[t][v] = e
         /\ \A u \in Tasks, w \in Pages : (u = t /\ w = v) \/ pte'[u][w] = pte[u][w]
  <1>1. /\ e \in PageEntry /\ Present(e) /\ e.slot = NONE
        /\ \A u \in Tasks, w \in Pages : pte[u][w].frame # e.frame
    BY DEF PutsEntry
  <1>2. /\ pte'[t][v] = e /\ pte' \in [Tasks -> [Pages -> PageEntry]]
        /\ \A u \in Tasks, w \in Pages : (u = t /\ w = v) \/ pte'[u][w] = pte[u][w]
    BY PartsOf DEF PutsEntry
  <1>3. SetsEntry(t, v, e)
    BY <1>1, <1>2 DEF SetsEntry
  <1>4. EntriesOK'
    BY <1>3, PartsOf, EntrySet
  <1> QED BY <1>1, <1>2, <1>4

LEMMA SwappedInStep ==
  ASSUME MemoryAssumption, Inv, NEW t \in Tasks, SwappedIn(t) PROVE Inv'
  <1>1. PICK v \in Pages : v = call[t].v
    BY PartsOf DEF SwappedIn, Wakes, InKernelOK, Stage, AtPage
  <1>2. PICK f \in Frames : f = call[t].page
    <2>1. call[t].page # NONE
      BY PartsOf DEF SwappedIn, Wakes, InKernelOK
    <2> QED BY <2>1, Typed, PartsOf
  <1>3. PICK nr \in Slots : nr = pte[t][v].slot
    <2>1. pte[t][v].slot # NONE
      BY <1>1, PartsOf DEF SwappedIn, Wakes, EntryIsAsRead, Stage
    <2>2. pte[t][v] \in PageEntry
      BY PartsOf
    <2> QED BY <2>1, <2>2 DEF PageEntry
  <1> DEFINE d == At("user")
             i == <<t, PAGE>>
             j == <<t, v>>
             X == {i, j}
  <1>4. /\ call[t].pc = "read_swap_page" /\ running = NONE /\ running' = NONE
        /\ call' = [call EXCEPT ![t] = d] /\ pte' = [pte EXCEPT ![t][v] = InFrame(f, TRUE, TRUE)]
        /\ swap_bitmap' = swap_bitmap \cup {nr}
        /\ UNCHANGED <<mem_map, table, data, disk, panic>>
    BY <1>1, <1>2, <1>3 DEF SwappedIn, Wakes, Return, Sleep
  <1>5. d \in Calls /\ d.pc = "user" /\ d.ret = "user" /\ d.page = NONE
    <2>1. "user" \in Labels
      BY DEF Labels
    <2> QED BY <2>1, AtIs
  <1> HIDE DEF d
  <1>6. \A u \in Tasks, w \in Pages : pte[u][w].frame # f
    BY <1>2, PartsOf, PageIsAlone
  <1>7. /\ EntriesOK' /\ pte' \in [Tasks -> [Pages -> PageEntry]]
        /\ pte'[t][v].frame = f /\ pte'[t][v].slot = NONE /\ pte'[t][v].dirty
        /\ \A u \in Tasks, w \in Pages : (u = t /\ w = v) \/ pte'[u][w] = pte[u][w]
    <2> DEFINE e == InFrame(f, TRUE, TRUE)
    <2>1. e \in PageEntry /\ e.frame = f /\ e.dirty /\ e.slot = NONE /\ Present(e)
      BY InFrameIs
    <2>2. PutsEntry(t, v, e)
      BY <1>4, <1>6, <2>1 DEF PutsEntry
    <2> HIDE DEF e
    <2> QED BY <2>1, <2>2, PutEntry
  <1>8. Returns(t, d)
    BY <1>4, <1>5, <1>7 DEF Returns
  <1>9. /\ CallsOK' /\ call' \in [Tasks -> Calls] /\ call'[t] = d /\ InHand(call'[t]) = NONE
        /\ \A u \in Tasks \ {t} : call'[u] = call[u]
    BY <1>8, CallsReturn
  <1>10. MemoryTypeOK'
    BY <1>4, <1>7, <1>9, PartsOf DEF MemoryTypeOK
  <1>11. SlotsOK'
    <2>1. /\ \A x, y \in Tasks, w, z \in Pages :
               pte[x][w].slot # NONE /\ pte[x][w].slot = pte[y][z].slot => x = y /\ w = z
          /\ \A x \in Tasks, w \in Pages : pte[x][w].slot \notin swap_bitmap
          /\ \A n \in Slots \ swap_bitmap : \E x \in Tasks, w \in Pages : pte[x][w].slot = n
      BY PartsOf DEF SlotsOK
    <2>2. \A x \in Tasks, w \in Pages :
            pte'[x][w].slot = IF x = t /\ w = v THEN NONE ELSE pte[x][w].slot
      BY <1>7
    <2>3. ASSUME NEW x \in Tasks, NEW y \in Tasks, NEW w \in Pages, NEW z \in Pages,
                 pte'[x][w].slot # NONE, pte'[x][w].slot = pte'[y][z].slot
          PROVE  x = y /\ w = z
      <3>1. pte[x][w].slot # NONE /\ pte[x][w].slot = pte[y][z].slot
        BY <2>2, <2>3
      <3> QED BY <2>1, <3>1
    <2>4. ASSUME NEW x \in Tasks, NEW w \in Pages PROVE pte'[x][w].slot \notin swap_bitmap'
      <3>1. CASE x = t /\ w = v
        <4>1. pte'[x][w].slot = NONE
          BY <2>2, <3>1
        <4> QED BY <1>4, <4>1, PartsOf, ZenonT(60) DEF MemoryTypeOK
      <3>2. CASE ~(x = t /\ w = v)
        <4>1. pte'[x][w].slot = pte[x][w].slot
          BY <2>2, <3>2
        <4>2. pte[x][w].slot # nr
          BY <1>3, <2>1, <3>2, PartsOf
        <4>3. pte[x][w].slot \notin swap_bitmap
          BY <2>1
        <4>4. \A n : n \in swap_bitmap' => n \in swap_bitmap \/ n = nr
          BY <1>4
        <4> QED BY <4>1, <4>2, <4>3, <4>4
      <3> QED BY <3>1, <3>2
    <2>5. ASSUME NEW n \in Slots \ swap_bitmap' PROVE \E x \in Tasks, w \in Pages : pte'[x][w].slot = n
      <3>1. PICK x \in Tasks, w \in Pages : pte[x][w].slot = n
        BY <1>4, <2>1
      <3>2. n # nr
        BY <1>4
      <3> QED BY <1>3, <2>2, <3>1, <3>2
    <2> QED BY <2>3, <2>4, <2>5 DEF SlotsOK
  <1>12. CountsOK'
    <2>1. i \in References /\ j \in References /\ Refs[i] = f /\ Refs'[i] = NONE /\ Refs'[j] = f /\ i # j
      BY <1>2, <1>5, <1>7, <1>9, RefsOfTask, RefsAfter, ReferencesAre, ZenonT(60)
    <2>2. Refs[j] = NONE
      <3>1. ~Present(pte[t][v])
        BY <1>3, PartsOf DEF EntriesOK
      <3> QED BY <3>1, RefsOfTask DEF Present
    <2>3. \A r \in References \ X : Refs'[r] = Refs[r]
      <3>1. ASSUME NEW x \in Tasks
            PROVE  /\ table'[x] = table[x] /\ InHand(call'[x]) = InHand(call[x])
                   /\ <<x, PAGE>> \in X \/ call'[x].page = call[x].page
                   /\ \A w \in Pages : <<x, w>> \in X \/ pte'[x][w].frame = pte[x][w].frame
        <4>1. \A w \in Pages : <<x, w>> \in X \/ pte'[x][w].frame = pte[x][w].frame
          BY <1>7
        <4>2. CASE x = t
          <5>1. InHand(call[t]) = NONE
            BY <1>4, PartsOf DEF InKernelOK, Stage
          <5> QED BY <1>4, <1>9, <4>1, <4>2, <5>1
        <4>3. CASE x # t
          BY <1>4, <1>9, <4>1, <4>3
        <4> QED BY <4>2, <4>3
      <3> HIDE DEF X
      <3> QED BY <3>1, OtherRefs
    <2>4. \A r \in References : Refs'[r] = IF r = i THEN NONE ELSE IF r = j THEN Refs[i] ELSE Refs[r]
      BY <2>1, <2>3
    <2>5. \A r \in References : Refs[r] = Refs[i] => r = i
      BY <2>1, PartsOf, ReferencesAre DEF Exclusive
    <2> HIDE DEF i, j
    <2>6. Moved(i, j, Refs, Refs')
      BY <2>1, <2>2, <2>4, <2>5 DEF Moved
    <2>7. Counts(Refs', mem_map) /\ Exclusive(Refs')
      BY <2>6, PartsOf, MovedRef
    <2> QED BY <1>4, <2>7 DEF CountsOK
  <1>13. CleanOK'
    <2>1. \A x \in Tasks, w \in Pages :
            MayDrop(pte'[x][w]) =>
              /\ MayDrop(pte[x][w]) /\ pte[x][w].frame = pte'[x][w].frame
              /\ data'[pte'[x][w].frame] = data[pte[x][w].frame]
      BY <1>4, <1>7 DEF MayDrop
    <2>9. copied' = copied
      BY DEF SwappedIn, history
    <2> QED BY <2>9, <1>4, <2>1, PartsOf, CleanStays, ZenonT(60)
  <1> QED BY <1>4, <1>7, <1>9, <1>10, <1>11, <1>12, <1>13, PartsOf DEF Inv

LEMMA PutPageStep ==
  ASSUME MemoryAssumption, Inv, NEW t \in Tasks, PutPage(t), call[t].page # NONE,
         ~(table[t] = NONE /\ call[t].kept = NONE)
  PROVE  Inv'
  <1>0. /\ call[t].pc = "put_page" /\ Stage(call[t]) = "put_page" /\ InHand(call[t]) = call[t].kept
        /\ InKernelOK(t) /\ EntryIsAsRead(t) /\ PageIsFilled(t)
    BY PartsOf DEF PutPage, Runs, Stage, InHand
  <1>1. PICK v \in Pages : v = call[t].v /\ pte[t][v] = Empty
    BY <1>0 DEF InKernelOK, EntryIsAsRead, AtPage
  <1>2. PICK f \in Frames : f = call[t].page
    BY Typed, PartsOf
  <1>3. PICK g \in Frames : /\ table[t] # NONE => g = f /\ call[t].kept = NONE
                            /\ table[t] = NONE => g = call[t].kept
                            /\ data[g] = Backing(v)
    <2>1. CASE table[t] # NONE
      <3>1. call[t].kept = NONE
        BY <1>0, <2>1 DEF InKernelOK
      <3>2. data[f] = Backing(v)
        BY <1>0, <1>1, <1>2, <3>1 DEF PageIsFilled
      <3> QED BY <2>1, <3>1, <3>2
    <2>2. CASE table[t] = NONE
      <3>1. call[t].kept \in Frames
        BY <2>2, Typed, PartsOf
      <3>2. data[call[t].kept] = Backing(v)
        BY <1>0, <1>1, <2>2 DEF PageIsFilled
      <3> QED BY <2>2, <3>1, <3>2
    <2> QED BY <2>1, <2>2
  <1> DEFINE d == At("user")
             e == InFrame(g, TRUE, FALSE)
  <1>4. /\ running = t /\ running' = NONE /\ call' = [call EXCEPT ![t] = d]
        /\ table' = [table EXCEPT ![t] = IF table[t] = NONE THEN f ELSE table[t]]
        /\ pte' = [pte EXCEPT ![t][v] = e]
        /\ UNCHANGED <<mem_map, swap_bitmap, data, disk, panic>>
    <2>1. pte' = [pte EXCEPT ![t][v] = InFrame(IF table[t] = NONE THEN call[t].kept ELSE call[t].page, TRUE, FALSE)]
      BY <1>1 DEF PutPage
    <2>2. (IF table[t] = NONE THEN call[t].kept ELSE call[t].page) = g
      BY <1>2, <1>3
    <2>3. pte' = [pte EXCEPT ![t][v] = e]
      BY <2>1, <2>2
    <2> HIDE DEF e
    <2> QED BY <1>2, <2>3 DEF PutPage, Runs, Return, Sleep
  <1>5. d \in Calls /\ d.pc = "user" /\ d.ret = "user" /\ d.page = NONE
    <2>1. "user" \in Labels
      BY DEF Labels
    <2> QED BY <2>1, AtIs
  <1>6. e \in PageEntry /\ e.frame = g /\ e.rw = TRUE /\ e.dirty = FALSE /\ e.slot = NONE /\ Present(e)
    BY InFrameIs
  <1> HIDE DEF d, e
  <1>7. \A u \in Tasks, w \in Pages : pte[u][w].frame # g
    <2>1. CASE table[t] # NONE
      BY <1>2, <1>3, <2>1, PartsOf, PageIsAlone
    <2>2. CASE table[t] = NONE
      BY <1>0, <1>3, <2>2, PartsOf, KeptIsAlone
    <2> QED BY <2>1, <2>2
  <1>8. /\ EntriesOK' /\ pte' \in [Tasks -> [Pages -> PageEntry]] /\ pte'[t][v] = e
        /\ \A u \in Tasks, w \in Pages : (u = t /\ w = v) \/ pte'[u][w] = pte[u][w]
    <2>1. PutsEntry(t, v, e)
      BY <1>4, <1>6, <1>7 DEF PutsEntry
    <2> QED BY <2>1, PutEntry
  <1>9. /\ table' \in [Tasks -> 0..NrFrames] /\ \A u \in Tasks \ {t} : table'[u] = table[u]
        /\ table'[t] = IF table[t] = NONE THEN f ELSE table[t]
    <2>1. f \in 0..NrFrames
      BY PartsOf
    <2> QED BY <1>4, <2>1, PartsOf
  <1>10. Returns(t, d)
    BY <1>0, <1>4, <1>5, <1>8, <1>9 DEF Returns
  <1>11. /\ CallsOK' /\ call' \in [Tasks -> Calls] /\ call'[t] = d /\ InHand(call'[t]) = NONE
         /\ \A u \in Tasks \ {t} : call'[u] = call[u]
    BY <1>10, CallsReturn
  <1>12. MemoryTypeOK'
    BY <1>4, <1>8, <1>9, <1>11, PartsOf DEF MemoryTypeOK
  <1>13. SlotsOK'
    <2>1. \A x \in Tasks, w \in Pages : pte'[x][w].slot = pte[x][w].slot
      BY <1>1, <1>6, <1>8, PartsOf
    <2> QED BY <1>4, <2>1, PartsOf, SameSlots
  <1>14. CountsOK'
    <2> DEFINE i == <<t, PAGE>>
               j == <<t, v>>
               k == <<t, KEPT>>
               l == <<t, TABLE>>
               X == {i, j, k, l}
    <2>1. /\ i \in References /\ j \in References /\ k \in References /\ l \in References
          /\ i # j /\ i # k /\ i # l /\ j # k /\ j # l /\ k # l
          /\ i[2] \notin Pages /\ k[2] \notin Pages
      BY ReferencesAre
    <2>2. /\ Refs[i] = f /\ Refs[j] = NONE /\ Refs[k] = call[t].kept /\ Refs[l] = table[t]
          /\ Refs'[i] = NONE /\ Refs'[j] = g /\ Refs'[k] = NONE
          /\ Refs'[l] = IF table[t] = NONE THEN f ELSE table[t]
      BY <1>0, <1>1, <1>2, <1>5, <1>6, <1>8, <1>9, <1>11, PartsOf, RefsOfTask, RefsAfter
    <2>3. \A r \in References \ X : Refs'[r] = Refs[r]
      <3>1. ASSUME NEW x \in Tasks
            PROVE  /\ <<x, TABLE>> \in X \/ table'[x] = table[x]
                   /\ <<x, KEPT>> \in X \/ InHand(call'[x]) = InHand(call[x])
                   /\ <<x, PAGE>> \in X \/ call'[x].page = call[x].page
                   /\ \A w \in Pages : <<x, w>> \in X \/ pte'[x][w].frame = pte[x][w].frame
        <4>1. \A w \in Pages : <<x, w>> \in X \/ pte'[x][w].frame = pte[x][w].frame
          BY <1>8
        <4>2. CASE x = t
          BY <4>1, <4>2
        <4>3. CASE x # t
          BY <1>9, <1>11, <4>1, <4>3
        <4> QED BY <4>2, <4>3
      <3> HIDE DEF X
      <3> QED BY <3>1, OtherRefs
    <2>4. \A r \in References \ {i, j, k, l} : Refs'[r] = Refs[r]
      BY <2>3
    <2>5. \A r \in References : (r # i /\ Refs[r] = f => FALSE) /\ (call[t].kept # NONE /\ r # k /\ Refs[r] = call[t].kept => FALSE)
      <3>1. f # NONE
        BY PartsOf
      <3> HIDE DEF i, k
      <3> QED BY <2>1, <2>2, <3>1, PartsOf DEF Exclusive
    <2> HIDE DEF i, j, k, l, X
    <2>6. CASE table[t] # NONE
      <3>1. Moved(i, j, Refs, Refs')
        BY <1>3, <2>1, <2>2, <2>4, <2>5, <2>6 DEF Moved
      <3>2. Counts(Refs', mem_map) /\ Exclusive(Refs')
        BY <3>1, PartsOf, MovedRef
      <3> QED BY <1>4, <3>2 DEF CountsOK
    <2>7. CASE table[t] = NONE
      <3> DEFINE Q == [r \in References |-> IF r = i THEN NONE ELSE IF r = l THEN Refs[i] ELSE Refs[r]]
      <3>1. Moved(i, l, Refs, Q)
        BY <2>1, <2>2, <2>5, <2>7 DEF Moved
      <3>2. \A r \in References : Q[r] = IF r = i THEN NONE ELSE IF r = l THEN f ELSE Refs[r]
        BY <2>2
      <3> HIDE DEF Q
      <3>3. Counts(Q, mem_map) /\ Exclusive(Q)
        BY <3>1, PartsOf, MovedRef
      <3>4. Q[k] = g /\ Q[j] = NONE /\ g # NONE /\ f # g
        <4>1. g # NONE
          BY PartsOf
        <4>2. call[t].kept = g
          BY <1>3, <2>7
        <4> QED BY <2>1, <2>2, <2>5, <3>2, <4>1, <4>2
      <3>5. \A r \in References : Q[r] = Q[k] => r = k
        BY <2>1, <3>3, <3>4 DEF Exclusive
      <3>6. \A r \in References : Refs'[r] = IF r = k THEN NONE ELSE IF r = j THEN Q[k] ELSE Q[r]
        BY <2>1, <2>2, <2>4, <2>7, <3>2, <3>4
      <3>7. Moved(k, j, Q, Refs')
        BY <2>1, <3>4, <3>5, <3>6 DEF Moved
      <3>8. Counts(Refs', mem_map) /\ Exclusive(Refs')
        BY <3>3, <3>7, MovedRef
      <3> QED BY <1>4, <3>8 DEF CountsOK
    <2> QED BY <2>6, <2>7
  <1>15. CleanOK'
    <2>1. ASSUME NEW x \in Tasks, NEW w \in Pages, MayDrop(pte'[x][w])
          PROVE  \/ data'[pte'[x][w].frame] = Backing(w)
                 \/ \E y \in Tasks : /\ MayDrop(pte[y][w]) /\ pte[y][w].frame = pte'[x][w].frame
                                     /\ data'[pte'[x][w].frame] = data[pte[y][w].frame]
      <3>1. CASE x = t /\ w = v
        BY <1>3, <1>4, <1>6, <1>8, <3>1
      <3>2. CASE ~(x = t /\ w = v)
        BY <1>4, <1>8, <2>1, <3>2
      <3> QED BY <3>1, <3>2
    <2>9. copied' = copied
      BY DEF PutPage, history
    <2> QED BY <2>9, <1>0, <1>4, <2>1, PartsOf, CleanStays
  <1> QED BY <1>4, <1>8, <1>11, <1>12, <1>13, <1>14, <1>15, PartsOf DEF Inv

-----------------------------------------------------------------------------
(* Writes.  An entry that may be written is the only one with its page. *)
LEMMA WritableIsAlone ==
  ASSUME MemoryAssumption, Inv, NEW t \in Tasks, NEW v \in Pages, pte[t][v].rw
  PROVE  /\ Present(pte[t][v])
         /\ \A u \in Tasks, w \in Pages :
              pte[u][w].frame = pte[t][v].frame => u = t /\ w = v
  BY PartsOf DEF EntriesOK

(* The one owner of a page may write it from now on. *)
LEMMA OwnerStep ==
  ASSUME MemoryAssumption, Inv, NEW t \in Tasks, NEW v \in Pages, UnWpPage(t, v),
         mem_map[pte[t][v].frame] = 1
  PROVE  Inv'
  <1>1. PICK f \in Frames : f = pte[t][v].frame
    BY FrameOfEntry DEF UnWpPage
  <1> DEFINE e == [pte[t][v] EXCEPT !.rw = TRUE]
  <1>2. /\ Present(pte[t][v]) /\ pte' = [pte EXCEPT ![t][v] = e]
        /\ UNCHANGED <<mem_map, table, swap_bitmap, data, disk, call, running, panic, copied>>
    BY DEF UnWpPage, history
  <1>4. /\ e \in PageEntry /\ e.frame = f /\ e.rw = TRUE /\ e.dirty = pte[t][v].dirty
        /\ e.slot = NONE /\ Present(e)
    <2>1. pte[t][v] \in PageEntry /\ pte[t][v].slot = NONE
      <3>1. pte[t][v].slot = NONE
        BY <1>2, FrameOfEntry
      <3> QED BY <3>1, PartsOf
    <2> QED BY <1>1, <1>2, <2>1 DEF PageEntry, Present
  <1>5. \A u \in Tasks, w \in Pages : pte[u][w].frame = f => u = t /\ w = v
    <2> DEFINE i == <<t, v>>
    <2>1. i \in References /\ Refs[i] = f
      BY <1>1, RefsOfTask
    <2>2. \A r \in References : Refs[r] = Refs[i] => r = i
      <3> HIDE DEF i
      <3> QED BY <1>1, <2>1, PartsOf, CountedOnce
    <2>3. \A u \in Tasks, w \in Pages : <<u, w>> \in References /\ Refs[<<u, w>>] = pte[u][w].frame
      BY RefsOfTask
    <2>4. ASSUME NEW u \in Tasks, NEW w \in Pages, pte[u][w].frame = f PROVE u = t /\ w = v
      <3>1. <<u, w>> = i
        BY <2>1, <2>2, <2>3, <2>4, ZenonT(60)
      <3> QED BY <3>1
    <2> QED BY <2>4
  <1> HIDE DEF e
  <1>6. /\ pte'[t][v] = e /\ pte' \in [Tasks -> [Pages -> PageEntry]]
        /\ \A u \in Tasks, w \in Pages : (u = t /\ w = v) \/ pte'[u][w] = pte[u][w]
    BY <1>2, <1>4, PartsOf
  <1>7. EntriesOK'
    <2>1. SetsEntry(t, v, e)
      BY <1>4, <1>5, <1>6, SMTT(60) DEF SetsEntry
    <2> QED BY <2>1, PartsOf, EntrySet
  <1>8. pte[t][v].slot = NONE /\ pte[t][v] # Empty
    BY <1>2, FrameOfEntry, ZenonT(60)
  <1>9. CallsOK'
    <2>1. \A u \in Tasks, w \in Pages : /\ pte[u][w] = Empty => pte'[u][w] = Empty
                                        /\ pte[u][w].slot # NONE => pte'[u][w].slot # NONE
      BY <1>6, <1>8
    <2> QED BY <1>2, <2>1, NoCallStep
  <1>10. MemoryTypeOK'
    BY <1>2, <1>6, PartsOf DEF MemoryTypeOK
  <1>11. SlotsOK'
    <2>1. \A x \in Tasks, w \in Pages : pte'[x][w].slot = pte[x][w].slot
      BY <1>4, <1>6, <1>8
    <2> QED BY <1>2, <2>1, PartsOf, SameSlots
  <1>12. \A x \in Tasks, w \in Pages : pte'[x][w].frame = pte[x][w].frame
    BY <1>1, <1>4, <1>6
  <1>13. CountsOK'
    <2>1. Refs' = Refs
      BY <1>2, <1>12, SameRefs
    <2> QED BY <1>2, <2>1, PartsOf DEF CountsOK
  <1>14. CleanOK'
    <2>1. \A x \in Tasks, w \in Pages : MayDrop(pte'[x][w]) => MayDrop(pte[x][w])
      BY <1>2, <1>4, <1>6 DEF MayDrop
    <2> QED BY <1>2, <1>12, <2>1, PartsOf, CleanStays
  <1> QED BY <1>2, <1>7, <1>9, <1>10, <1>11, <1>13, <1>14, PartsOf DEF Inv

(* A write: nobody else has the page, which is dirty from now on. *)
LEMMA WrittenIs ==
  ASSUME MemoryAssumption, Inv, NEW t \in Tasks, NEW v \in Pages, pte[t][v].rw,
         NEW d, Write(t, v, d)
  PROVE  /\ EntriesOK' /\ SlotsOK' /\ pte' \in [Tasks -> [Pages -> PageEntry]]
         /\ DOMAIN data' = Frames
         /\ \A u \in Tasks, w \in Pages :
              /\ pte'[u][w].frame = pte[u][w].frame /\ pte'[u][w].slot = pte[u][w].slot
              /\ pte[u][w] = Empty => pte'[u][w] = Empty
              /\ pte'[u][w].rw = pte[u][w].rw
              /\ MayDrop(pte'[u][w]) =>
                   /\ MayDrop(pte[u][w]) /\ ~(u = t /\ w = v)
                   /\ data'[pte'[u][w].frame] = data[pte[u][w].frame]
         /\ \A u \in Tasks : /\ call[u].page # NONE => data'[call[u].page] = data[call[u].page]
                             /\ InHand(call[u]) # NONE => data'[InHand(call[u])] = data[InHand(call[u])]
         /\ UNCHANGED <<mem_map, table, swap_bitmap, disk, panic>>
  <1>1. /\ Present(pte[t][v])
        /\ \A u \in Tasks, w \in Pages : pte[u][w].frame = pte[t][v].frame => u = t /\ w = v
    BY WritableIsAlone, SMTT(60)
  <1>2. PICK f \in Frames : f = pte[t][v].frame
    BY <1>1, FrameOfEntry, ZenonT(60)
  <1> DEFINE e == [pte[t][v] EXCEPT !.dirty = TRUE]
  <1>3. /\ pte' = [pte EXCEPT ![t][v] = e] /\ data' = [data EXCEPT ![f] = d]
        /\ UNCHANGED <<mem_map, table, swap_bitmap, disk, panic>>
    BY <1>2 DEF Write
  <1>4. pte[t][v] \in PageEntry /\ pte[t][v].slot = NONE /\ pte[t][v] # Empty
    <2>1. pte[t][v].slot = NONE /\ pte[t][v] # Empty
      BY <1>1, FrameOfEntry, ZenonT(60)
    <2> QED BY <2>1, PartsOf
  <1>5. /\ e \in PageEntry /\ e.frame = f /\ e.rw = pte[t][v].rw /\ e.dirty = TRUE
        /\ e.slot = NONE /\ Present(e) /\ ~MayDrop(e)
    BY <1>1, <1>2, <1>4 DEF PageEntry, Present, MayDrop
  <1> HIDE DEF e
  <1>6. /\ pte'[t][v] = e /\ pte' \in [Tasks -> [Pages -> PageEntry]]
        /\ \A u \in Tasks, w \in Pages : (u = t /\ w = v) \/ pte'[u][w] = pte[u][w]
    BY <1>3, <1>5, PartsOf
  <1>7. EntriesOK'
    <2>1. SetsEntry(t, v, e)
      BY <1>1, <1>2, <1>5, <1>6 DEF SetsEntry
    <2> QED BY <2>1, PartsOf, EntrySet
  <1>8. \A x \in Tasks, w \in Pages : pte'[x][w].slot = pte[x][w].slot /\ pte'[x][w].frame = pte[x][w].frame
                                    /\ pte'[x][w].rw = pte[x][w].rw
    BY <1>2, <1>4, <1>5, <1>6
  <1>9. SlotsOK'
    BY <1>3, <1>8, PartsOf, SameSlots
  <1>10. DOMAIN data' = Frames /\ \A g : g # f => data'[g] = data[g]
    BY <1>3, PartsOf DEF MemoryTypeOK
  <1>11. ASSUME NEW u \in Tasks, NEW w \in Pages
         PROVE  /\ pte[u][w] = Empty => pte'[u][w] = Empty
                /\ MayDrop(pte'[u][w]) =>
                     /\ MayDrop(pte[u][w]) /\ ~(u = t /\ w = v)
                     /\ data'[pte'[u][w].frame] = data[pte[u][w].frame]
    <2>1. CASE u = t /\ w = v
      BY <1>4, <1>5, <1>6, <2>1
    <2>2. CASE ~(u = t /\ w = v)
      <3>1. pte'[u][w] = pte[u][w] /\ pte[u][w].frame # f
        BY <1>1, <1>2, <1>6, <2>2
      <3> QED BY <1>10, <2>2, <3>1
    <2> QED BY <2>1, <2>2
  <1>12. \A u \in Tasks : /\ call[u].page # NONE => data'[call[u].page] = data[call[u].page]
                          /\ InHand(call[u]) # NONE => data'[InHand(call[u])] = data[InHand(call[u])]
    BY <1>1, <1>2, <1>10, PartsOf, EntryIsAlone
  <1> QED BY <1>3, <1>6, <1>7, <1>8, <1>9, <1>10, <1>11, <1>12

LEMMA WriteStep ==
  ASSUME MemoryAssumption, Inv, NEW t \in Tasks, NEW v \in Pages, NEW d, Write(t, v, d) PROVE Inv'
  <1>1. /\ pte[t][v].rw /\ call' = call /\ running' = running
        /\ copied' = copied \ {pte[t][v].frame}
    BY DEF Write
  <1>2. /\ EntriesOK' /\ SlotsOK' /\ pte' \in [Tasks -> [Pages -> PageEntry]]
        /\ DOMAIN data' = Frames
        /\ \A u \in Tasks, w \in Pages :
             /\ pte'[u][w].frame = pte[u][w].frame /\ pte'[u][w].slot = pte[u][w].slot
             /\ pte[u][w] = Empty => pte'[u][w] = Empty
             /\ pte'[u][w].rw = pte[u][w].rw
             /\ MayDrop(pte'[u][w]) =>
                  /\ MayDrop(pte[u][w]) /\ ~(u = t /\ w = v)
                  /\ data'[pte'[u][w].frame] = data[pte[u][w].frame]
        /\ \A u \in Tasks : /\ call[u].page # NONE => data'[call[u].page] = data[call[u].page]
                            /\ InHand(call[u]) # NONE => data'[InHand(call[u])] = data[InHand(call[u])]
        /\ UNCHANGED <<mem_map, table, swap_bitmap, disk, panic>>
    BY <1>1, WrittenIs
  <1>3. MemoryTypeOK'
    BY <1>1, <1>2, PartsOf DEF MemoryTypeOK
  <1>4. CountsOK'
    <2>1. Refs' = Refs
      BY <1>1, <1>2, SameRefs
    <2> QED BY <1>2, <2>1, PartsOf DEF CountsOK
  <1>5. CallsOK'
    BY <1>1, <1>2, NoCallStep
  <1>6. CleanOK'
    <2>1. ASSUME NEW u \in Tasks, NEW w \in Pages, MayDrop(pte'[u][w]), pte'[u][w].frame \notin copied'
          PROVE  data'[pte'[u][w].frame] = Backing(w)
      <3>1. MayDrop(pte[u][w]) /\ ~(u = t /\ w = v) /\ data'[pte'[u][w].frame] = data[pte[u][w].frame]
        BY <1>2, <2>1
      <3>2. pte[u][w].frame \notin copied
        BY <1>1, <1>2, <2>1, <3>1, WritableIsAlone
      <3> QED BY <3>1, <3>2, PartsOf DEF CleanOK
    <2> QED BY <2>1 DEF CleanOK
  <1> QED BY <1>2, <1>3, <1>4, <1>5, <1>6, PartsOf DEF Inv

(* The copy of a page takes the place of the page in the task's entry. *)
LEMMA CopyPageStep ==
  ASSUME MemoryAssumption, Inv, NEW t \in Tasks, CopyPage(t), call[t].page # NONE, ~raced'
  PROVE  Inv'
  <1>0. call[t].pc = "copy_page" /\ Stage(call[t]) = "copy_page" /\ InKernelOK(t) /\ running = t
    BY PartsOf DEF CopyPage, Runs, Stage
  <1>1. PICK v \in Pages : v = call[t].v
    BY <1>0 DEF InKernelOK, AtPage
  <1>2. PICK f \in Frames : f = call[t].page
    BY Typed, PartsOf
  <1>3. PICK g \in Frames : g = call[t].kept /\ pte[t][v].frame = g
    <2>1. call[t].kept \in Frames
      BY <1>0, Typed, PartsOf DEF InKernelOK
    <2>2. pte[t][v].frame = call[t].kept
      BY <1>1 DEF CopyPage
    <2> QED BY <2>1, <2>2
  <1> DEFINE d == At("user")
             e == InFrame(f, TRUE, FALSE)
             i == <<t, PAGE>>
             j == <<t, v>>
             X == {i, j}
             D == {j}
  <1>4. /\ mem_map' = [mem_map EXCEPT ![g] = (mem_map[g] - 1) % 256]
        /\ data' = [data EXCEPT ![f] = data[g]] /\ pte' = [pte EXCEPT ![t][v] = e]
        /\ call' = [call EXCEPT ![t] = d] /\ running' = NONE
        /\ UNCHANGED <<table, swap_bitmap, disk, panic>> /\ copied' = copied \cup {f}
    BY <1>1, <1>2, <1>3, ZenonT(60) DEF CopyPage, Copied, Return, Sleep
  <1>5. d \in Calls /\ d.pc = "user" /\ d.ret = "user" /\ d.page = NONE
    <2>1. "user" \in Labels
      BY DEF Labels
    <2> QED BY <2>1, AtIs
  <1>6. e \in PageEntry /\ e.frame = f /\ e.rw = TRUE /\ e.dirty = FALSE /\ e.slot = NONE /\ Present(e)
    BY InFrameIs
  <1> HIDE DEF d, e
  <1>7. Present(pte[t][v]) /\ f # NONE /\ g # NONE
    BY <1>3, PartsOf DEF Present
  <1>8. pte[t][v].slot = NONE /\ pte[t][v] # Empty /\ mem_map[g] \in 1..255
    BY <1>3, <1>7, FrameOfEntry, ZenonT(60)
  <1>9. \A u \in Tasks : /\ u # t => call[u].page # f
                         /\ InHand(call[u]) # f
                         /\ \A w \in Pages : pte[u][w].frame # f
    BY <1>2, <1>7, PartsOf, PageIsAlone
  <1>10. /\ EntriesOK' /\ pte' \in [Tasks -> [Pages -> PageEntry]] /\ pte'[t][v] = e
         /\ \A u \in Tasks, w \in Pages : (u = t /\ w = v) \/ pte'[u][w] = pte[u][w]
    <2>1. PutsEntry(t, v, e)
      BY <1>4, <1>6, <1>9 DEF PutsEntry
    <2> QED BY <2>1, PutEntry
  <1>11. DOMAIN data' = Frames /\ data'[f] = data[g] /\ \A h : h # f => data'[h] = data[h]
    BY <1>4, PartsOf DEF MemoryTypeOK
  <1>12. Returns(t, d)
    <2>1. \A u \in Tasks \ {t} :
           /\ call[u].page # NONE => data'[call[u].page] = data[call[u].page]
           /\ InHand(call[u]) # NONE => data'[InHand(call[u])] = data[InHand(call[u])]
      BY <1>9, <1>11
    <2> QED BY <1>0, <1>4, <1>5, <1>8, <1>10, <2>1 DEF Returns
  <1>13. /\ CallsOK' /\ call' \in [Tasks -> Calls] /\ call'[t] = d /\ InHand(call'[t]) = NONE
         /\ \A u \in Tasks \ {t} : call'[u] = call[u]
    BY <1>12, CallsReturn
  <1>14. /\ mem_map' \in [Frames -> 0..255]
         /\ \A h \in Frames : mem_map'[h] = IF h = g THEN mem_map[g] - 1 ELSE mem_map[h]
    <2>1. (mem_map[g] - 1) % 256 = mem_map[g] - 1 /\ mem_map[g] - 1 \in 0..255
      BY <1>8
    <2> QED BY <1>4, <2>1, PartsOf
  <1>15. MemoryTypeOK'
    BY <1>4, <1>10, <1>11, <1>13, <1>14, PartsOf DEF MemoryTypeOK
  <1>16. SlotsOK'
    <2>1. \A x \in Tasks, w \in Pages : pte'[x][w].slot = pte[x][w].slot
      BY <1>6, <1>8, <1>10
    <2> QED BY <1>4, <2>1, PartsOf, SameSlots
  <1>17. CountsOK'
    <2>1. /\ i \in References /\ j \in References /\ i # j /\ i[2] \notin Pages
          /\ Refs[i] = f /\ Refs[j] = g /\ Refs'[i] = NONE /\ Refs'[j] = f
      BY <1>2, <1>3, <1>5, <1>6, <1>10, <1>13, RefsOfTask, RefsAfter, ReferencesAre, ZenonT(60)
    <2>2. \A r \in References \ X : Refs'[r] = Refs[r]
      <3>1. ASSUME NEW x \in Tasks
            PROVE  /\ table'[x] = table[x] /\ InHand(call'[x]) = InHand(call[x])
                   /\ <<x, PAGE>> \in X \/ call'[x].page = call[x].page
                   /\ \A w \in Pages : <<x, w>> \in X \/ pte'[x][w].frame = pte[x][w].frame
        <4>1. \A w \in Pages : <<x, w>> \in X \/ pte'[x][w].frame = pte[x][w].frame
          BY <1>10
        <4>2. CASE x = t
          <5>1. InHand(call[t]) = NONE
            BY <1>0 DEF InKernelOK
          <5> QED BY <1>4, <1>13, <4>1, <4>2, <5>1
        <4>3. CASE x # t
          BY <1>4, <1>13, <4>1, <4>3
        <4> QED BY <4>2, <4>3
      <3> HIDE DEF X
      <3> QED BY <3>1, OtherRefs
    <2>3. \A r \in References \ {i, j} : Refs'[r] = Refs[r]
      BY <2>2
    <2>4. \A r \in References : Refs[r] = f => r = i
      <3> HIDE DEF i
      <3> QED BY <1>7, <2>1, PartsOf DEF Exclusive
    <2> DEFINE Q == [r \in References |-> IF r \in D THEN NONE ELSE Refs[r]]
    <2> HIDE DEF i, j
    <2>5. \A h \in Frames :
            mem_map'[h] = IF \E x \in D : Refs[x] = h THEN Max({mem_map[h] - 1, 0}) ELSE mem_map[h]
      <3>1. mem_map[g] \in Nat /\ mem_map[g] >= 1
        BY <1>8
      <3>2. Max({mem_map[g] - 1, 0}) = mem_map[g] - 1
        BY <3>1, OneLess
      <3> QED BY <1>14, <2>1, <3>2
    <2>6. Freed(D, Refs, Q, mem_map, mem_map')
      BY <2>1, <2>5 DEF Freed
    <2>7. \A r \in References : Q[r] = IF r = j THEN NONE ELSE Refs[r]
      OBVIOUS
    <2> HIDE DEF Q, D, X
    <2>8. Counts(Q, mem_map') /\ Exclusive(Q)
      BY <2>6, PartsOf, FreedRefs
    <2>9. Moved(i, j, Q, Refs')
      BY <1>7, <2>1, <2>3, <2>4, <2>7 DEF Moved
    <2>10. Counts(Refs', mem_map') /\ Exclusive(Refs')
      BY <2>8, <2>9, MovedRef
    <2> QED BY <2>10 DEF CountsOK
  <1>18. CleanOK'
    <2>1. ASSUME NEW u \in Tasks, NEW w \in Pages, MayDrop(pte'[u][w]), pte'[u][w].frame \notin copied'
          PROVE  data'[pte'[u][w].frame] = Backing(w)
      <3>1. ~(u = t /\ w = v)
        BY <1>4, <1>6, <1>10, <2>1
      <3>2. pte'[u][w] = pte[u][w] /\ pte[u][w].frame # f /\ pte[u][w].frame \notin copied
        BY <1>4, <1>9, <1>10, <2>1, <3>1
      <3> QED BY <1>11, <2>1, <3>2, PartsOf DEF CleanOK
    <2> QED BY <2>1 DEF CleanOK
  <1> QED BY <1>4, <1>10, <1>13, <1>15, <1>16, <1>17, <1>18, PartsOf DEF Inv

-----------------------------------------------------------------------------
(* Sharing.  A page gets another entry, and no entry with it may be written. *)
LEMMA ReadOnlyIs ==
  ASSUME NEW e \in PageEntry
  PROVE  /\ ReadOnly(e) \in PageEntry /\ ReadOnly(e).frame = e.frame /\ ReadOnly(e).slot = e.slot
         /\ ReadOnly(e).dirty = e.dirty /\ ReadOnly(e).rw = FALSE
         /\ (Present(ReadOnly(e)) <=> Present(e)) /\ (MayDrop(ReadOnly(e)) <=> MayDrop(e))
  BY DEF ReadOnly, PageEntry, Present, MayDrop

(* t gets at v the page that u has there. *)
Shares(t, u, v, m) ==
  /\ t # u /\ pte[t][v] = Empty /\ Present(pte[u][v])
  /\ pte' = [pte EXCEPT ![u][v] = ReadOnly(pte[u][v]), ![t][v] = ReadOnly(pte[u][v])]
  /\ m = [mem_map EXCEPT ![pte[u][v].frame] = (mem_map[pte[u][v].frame] + 1) % 256]

LEMMA SharedIs ==
  ASSUME MemoryAssumption, Inv, NEW t \in Tasks, NEW u \in Tasks, NEW v \in Pages, NEW m,
         Shares(t, u, v, m)
  PROVE  /\ EntriesOK' /\ pte' \in [Tasks -> [Pages -> PageEntry]] /\ m \in [Frames -> 0..255]
         /\ pte[u][v].frame \in Frames /\ pte'[t][v].frame = pte[u][v].frame
         /\ \A x \in Tasks, w \in Pages :
              /\ pte'[x][w].slot = pte[x][w].slot
              /\ (x = t /\ w = v) \/ pte'[x][w].frame = pte[x][w].frame
              /\ (x = t /\ w = v) \/ (pte[x][w] = Empty => pte'[x][w] = Empty)
              /\ (x = t /\ w = v) \/ (x = u /\ w = v) \/ pte'[x][w] = pte[x][w]
              /\ MayDrop(pte'[x][w]) =>
                   \E y \in Tasks : MayDrop(pte[y][w]) /\ pte'[x][w].frame = pte[y][w].frame
         /\ \A g \in Frames : m[g] = IF g = pte[u][v].frame THEN mem_map[g] + 1 ELSE mem_map[g]
         /\ \A r \in References : Refs[r] = pte[u][v].frame => r[2] \in Pages
  <1> DEFINE old == pte[u][v]
  <1>1. PICK f \in Frames : f = old.frame
    BY FrameOfEntry, ZenonT(60) DEF Shares
  <1>2. old \in PageEntry /\ Present(old) /\ old # Empty /\ old.slot = NONE /\ t # u /\ pte[t][v] = Empty
    <2>1. Present(old) /\ t # u /\ pte[t][v] = Empty
      BY DEF Shares
    <2>2. old # Empty /\ old.slot = NONE
      BY <2>1, FrameOfEntry, ZenonT(60)
    <2> QED BY <2>1, <2>2, PartsOf
  <1>3. PICK e \in PageEntry : e = ReadOnly(old)
    BY <1>2, ReadOnlyIs
  <1>4. /\ e.frame = f /\ e.slot = NONE /\ e.dirty = old.dirty /\ e.rw = FALSE /\ Present(e)
        /\ MayDrop(e) <=> MayDrop(old)
    BY <1>1, <1>2, <1>3, ReadOnlyIs
  <1>5. /\ pte' \in [Tasks -> [Pages -> PageEntry]] /\ pte'[t][v] = e /\ pte'[u][v] = e
        /\ \A x \in Tasks, w \in Pages : (x = t /\ w = v) \/ (x = u /\ w = v) \/ pte'[x][w] = pte[x][w]
    <2>1. pte' = [pte EXCEPT ![u][v] = e, ![t][v] = e]
      BY <1>3 DEF Shares
    <2> QED BY <1>2, <2>1, PartsOf, ZenonT(60)
  <1>6. EntriesOK'
    <2>1. ASSUME NEW x \in Tasks, NEW w \in Pages, pte[x][w].frame = f
          PROVE  w = v /\ (x # t => ~pte'[x][w].rw)
      <3>1. w = v /\ (pte[x][w].rw => x = u)
        BY <1>1, <1>2, <2>1, PartsOf DEF EntriesOK, Present
      <3>2. x # t => ~pte'[x][w].rw
        BY <1>4, <1>5, <3>1
      <3> QED BY <3>1, <3>2
    <2>2. SetsEntry(t, v, e)
      BY <1>3, <1>4, <1>5, <2>1 DEF SetsEntry
    <2> QED BY <2>2, PartsOf, EntrySet
  <1>7. f \in Frames /\ (mem_map[f] + 1) % 256 = mem_map[f] + 1
        /\ \A r \in References : Refs[r] = f => r[2] \in Pages
    <2>1. pte[t][v].frame # f
      BY <1>2, PartsOf
    <2>2. CountsOK
      BY DEF Inv
    <2> QED BY <1>1, <1>2, <2>1, <2>2, PartsOf, MayBeShared
  <1>8. m = [mem_map EXCEPT ![f] = mem_map[f] + 1] /\ mem_map[f] + 1 \in 0..255
    <2>1. m = [mem_map EXCEPT ![f] = (mem_map[f] + 1) % 256]
      BY <1>1 DEF Shares
    <2>2. mem_map[f] \in 0..255
      BY PartsOf
    <2>3. (mem_map[f] + 1) % 256 \in 0..255
      BY <2>2
    <2> QED BY <1>7, <2>1, <2>3
  <1>9. m \in [Frames -> 0..255] /\ \A g \in Frames : m[g] = IF g = f THEN mem_map[g] + 1 ELSE mem_map[g]
    BY <1>8, PartsOf
  <1>10. ASSUME NEW x \in Tasks, NEW w \in Pages
         PROVE  /\ pte'[x][w].slot = pte[x][w].slot
                /\ (x = t /\ w = v) \/ pte'[x][w].frame = pte[x][w].frame
                /\ (x = t /\ w = v) \/ (pte[x][w] = Empty => pte'[x][w] = Empty)
                /\ MayDrop(pte'[x][w]) =>
                     \E y \in Tasks : MayDrop(pte[y][w]) /\ pte'[x][w].frame = pte[y][w].frame
    <2>1. CASE x = t /\ w = v
      <3>1. pte[t][v].slot = NONE
        BY <1>2, PartsOf
      <3> QED BY <1>1, <1>4, <1>5, <2>1, <3>1
    <2>2. CASE x = u /\ w = v
      BY <1>1, <1>2, <1>4, <1>5, <2>2
    <2>3. CASE ~(x = t /\ w = v) /\ ~(x = u /\ w = v)
      BY <1>5, <2>3
    <2> QED BY <2>1, <2>2, <2>3
  <1> QED BY <1>1, <1>4, <1>5, <1>6, <1>7, <1>9, <1>10

LEMMA TryToShareStep ==
  ASSUME MemoryAssumption, Inv, NEW t \in Tasks, TryToShare(t), ~raced',
         ~(table[t] = NONE /\ call[t].page = NONE)
  PROVE  Inv'
  <1>0. call[t].pc = "share" /\ Stage(call[t]) = "share" /\ InKernelOK(t) /\ EntryIsAsRead(t) /\ running = t
    BY PartsOf DEF TryToShare, Runs, Stage
  <1>1. PICK v \in Pages, u \in Tasks : v = call[t].v /\ u = call[t].other /\ u # t /\ pte[t][v] = Empty
    <2>1. call[t].v \in Pages /\ call[t].other \in Tasks \ {t}
      BY <1>0 DEF InKernelOK, AtPage
    <2> QED BY <1>0, <2>1 DEF EntryIsAsRead
  <1>2. PICK f \in Frames : f = pte[u][v].frame /\ call[t].kept = f
    <2>1. call[t].kept # NONE /\ call[t].kept = pte[u][v].frame
      BY <1>0, <1>1 DEF InKernelOK, TryToShare
    <2> QED BY <2>1, Typed, PartsOf, SMTT(60)
  <1> DEFINE d == At("user")
             g == call[t].page
  <1>3. g \in Frames \cup {NONE} /\ (table[t] = NONE <=> g # NONE)
    BY <1>0, Typed, PartsOf DEF InKernelOK
  <1>4. /\ running' = NONE /\ call' = [call EXCEPT ![t] = d]
        /\ table' = [table EXCEPT ![t] = IF table[t] = NONE THEN g ELSE table[t]]
        /\ Shares(t, u, v, mem_map')
        /\ UNCHANGED <<swap_bitmap, data, disk, panic>>
    <2>1. Present(pte[u][v]) /\ pte[u][v] \in PageEntry
      BY <1>2, PartsOf, SMTT(60) DEF Present
    <2>2. /\ pte' = [pte EXCEPT ![u][v].rw = FALSE, ![t][v] = [pte[u][v] EXCEPT !.rw = FALSE]]
          /\ mem_map' = [mem_map EXCEPT ![f] = (mem_map[f] + 1) % 256]
      BY <1>1, <1>2, ZenonT(60) DEF TryToShare
    <2>3. pte' = [pte EXCEPT ![u][v] = ReadOnly(pte[u][v]), ![t][v] = ReadOnly(pte[u][v])]
      BY <2>2, SMTT(60) DEF ReadOnly
    <2>4. Shares(t, u, v, mem_map')
      BY <1>1, <1>2, <2>1, <2>2, <2>3, Zenon DEF Shares
    <2> QED BY <2>4 DEF TryToShare, Return, Sleep
  <1>5. d \in Calls /\ d.pc = "user" /\ d.ret = "user" /\ d.page = NONE
    <2>1. "user" \in Labels
      BY DEF Labels
    <2> QED BY <2>1, AtIs
  <1> HIDE DEF d
  <1>6. /\ EntriesOK' /\ pte' \in [Tasks -> [Pages -> PageEntry]] /\ mem_map' \in [Frames -> 0..255]
        /\ pte'[t][v].frame = f
        /\ \A x \in Tasks, w \in Pages :
             /\ pte'[x][w].slot = pte[x][w].slot
             /\ (x = t /\ w = v) \/ pte'[x][w].frame = pte[x][w].frame
             /\ (x = t /\ w = v) \/ (pte[x][w] = Empty => pte'[x][w] = Empty)
             /\ MayDrop(pte'[x][w]) =>
                  \E y \in Tasks : MayDrop(pte[y][w]) /\ pte'[x][w].frame = pte[y][w].frame
        /\ \A h \in Frames : mem_map'[h] = IF h = f THEN mem_map[h] + 1 ELSE mem_map[h]
        /\ \A r \in References : Refs[r] = f => r[2] \in Pages
    BY <1>2, <1>4, SharedIs
  <1>7. /\ table' \in [Tasks -> 0..NrFrames] /\ \A x \in Tasks \ {t} : table'[x] = table[x]
        /\ table'[t] = IF table[t] = NONE THEN g ELSE table[t]
    BY <1>3, <1>4, PartsOf
  <1>8. Returns(t, d)
    BY <1>0, <1>4, <1>5, <1>6, <1>7 DEF Returns
  <1>9. /\ CallsOK' /\ call' \in [Tasks -> Calls] /\ call'[t] = d /\ InHand(call'[t]) = NONE
        /\ \A x \in Tasks \ {t} : call'[x] = call[x]
    BY <1>8, CallsReturn
  <1>10. MemoryTypeOK'
    BY <1>4, <1>6, <1>7, <1>9, PartsOf DEF MemoryTypeOK
  <1>11. SlotsOK'
    BY <1>4, <1>6, PartsOf, SameSlots
  <1>12. CountsOK'
    <2> DEFINE i == <<t, PAGE>>
               j == <<t, v>>
               l == <<t, TABLE>>
               X == {i, j, l}
               Q == [r \in References |-> IF r = i THEN NONE
                                          ELSE IF r = l THEN (IF table[t] = NONE THEN g ELSE table[t])
                                          ELSE Refs[r]]
    <2>1. /\ i \in References /\ j \in References /\ l \in References
          /\ i # j /\ i # l /\ j # l /\ i[2] \notin Pages /\ l[2] \notin Pages /\ j[2] \in Pages
      BY ReferencesAre
    <2>2. /\ Refs[i] = g /\ Refs[j] = NONE /\ Refs[l] = table[t]
          /\ Refs'[i] = NONE /\ Refs'[j] = f /\ Refs'[l] = IF table[t] = NONE THEN g ELSE table[t]
      <3>1. Refs[i] = g /\ Refs[j] = NONE /\ Refs[l] = table[t]
        BY <1>1, PartsOf, RefsOfTask
      <3>2. Refs'[i] = NONE /\ Refs'[l] = table'[t] /\ Refs'[j] = pte'[t][v].frame
        BY <1>5, <1>9, RefsAfter
      <3> QED BY <1>6, <1>7, <3>1, <3>2
    <2>3. \A r \in References \ X : Refs'[r] = Refs[r]
      <3>1. ASSUME NEW x \in Tasks
            PROVE  /\ <<x, TABLE>> \in X \/ table'[x] = table[x]
                   /\ InHand(call'[x]) = InHand(call[x])
                   /\ <<x, PAGE>> \in X \/ call'[x].page = call[x].page
                   /\ \A w \in Pages : <<x, w>> \in X \/ pte'[x][w].frame = pte[x][w].frame
        <4>1. \A w \in Pages : <<x, w>> \in X \/ pte'[x][w].frame = pte[x][w].frame
          BY <1>6
        <4>2. CASE x = t
          <5>1. InHand(call[t]) = NONE
            BY <1>0 DEF InKernelOK
          <5> QED BY <1>9, <4>1, <4>2, <5>1
        <4>3. CASE x # t
          BY <1>7, <1>9, <4>1, <4>3
        <4> QED BY <4>2, <4>3
      <3> HIDE DEF X
      <3> QED BY <3>1, OtherRefs
    <2>4. \A r \in References \ {i, j, l} : Refs'[r] = Refs[r]
      BY <2>3
    <2>5. \A r \in References : Q[r] = IF r = i THEN NONE
                                      ELSE IF r = l THEN (IF table[t] = NONE THEN g ELSE table[t])
                                      ELSE Refs[r]
      OBVIOUS
    <2>6. g # f /\ table[t] # f
      BY <1>2, PartsOf, EntryIsAlone DEF Present
    <2> HIDE DEF i, j, l, X, Q, g
    <2>7. Counts(Q, mem_map) /\ Exclusive(Q)
      <3>1. CASE table[t] = NONE
        <4>1. \A r \in References : Refs[r] = Refs[i] => r = i
          BY <1>3, <2>1, <2>2, <3>1, PartsOf DEF Exclusive
        <4>2. Moved(i, l, Refs, Q)
          BY <1>3, <2>1, <2>2, <2>5, <3>1, <4>1 DEF Moved
        <4> QED BY <4>2, PartsOf, MovedRef
      <3>2. CASE table[t] # NONE
        <4>1. \A r \in References : Q[r] = Refs[r]
          BY <1>3, <2>2, <2>5, <3>2
        <4>2. Q = Refs
          BY <4>1 DEF Q, Refs, RefsOf
        <4> QED BY <4>2, PartsOf
      <3> QED BY <3>1, <3>2
    <2>8. Added(j, f, Q, Refs', mem_map, mem_map')
      <3>1. \A r \in References : Q[r] = f => r[2] \in Pages /\ j[2] \in Pages
        BY <1>6, <2>1, <2>5, <2>6, PartsOf, ZenonT(60)
      <3>2. \A r \in References : Refs'[r] = IF r = j THEN f ELSE Q[r]
        BY <2>1, <2>2, <2>4, <2>5
      <3>3. Q[j] = NONE
        BY <2>1, <2>2, <2>5
      <3> QED BY <1>6, <2>1, <3>1, <3>2, <3>3 DEF Added
    <2>9. Counts(Refs', mem_map') /\ Exclusive(Refs')
      BY <2>7, <2>8, AddedRef
    <2> QED BY <2>9 DEF CountsOK
  <1>13. CleanOK'
    <2>2. \A x \in Tasks, w \in Pages :
            MayDrop(pte'[x][w]) =>
              \E y \in Tasks : /\ MayDrop(pte[y][w]) /\ pte[y][w].frame = pte'[x][w].frame
                             /\ data'[pte'[x][w].frame] = data[pte[y][w].frame]
      BY <1>4, <1>6, ZenonT(60)
    <2>9. copied' = copied
      BY DEF TryToShare
    <2> QED BY <2>9, <1>0, <2>2, PartsOf, CleanStays, SMTT(60)
  <1> QED BY <1>4, <1>6, <1>9, <1>10, <1>11, <1>12, <1>13, PartsOf DEF Inv


(* copy_page_tables at an entry with a page: the child gets it too. *)
LEMMA CopySharedStep ==
  ASSUME MemoryAssumption, Inv, NEW t \in Tasks, CopyEntry(t), Present(pte[t][call[t].v])
  PROVE  Inv'
  <1>0. /\ call[t].pc = "copy_entries" /\ Stage(call[t]) = "copy_entries" /\ running = t
        /\ InKernelOK(t) /\ ChildOK(t) /\ call[t] \in Calls /\ Stage(call[t]) \in Copying
    BY PartsOf DEF CopyEntry, Runs, Stage, Copying
  <1>1. PICK v \in Pages : v = call[t].v /\ v \in Nat
    BY <1>0 DEF CopyEntry, Calls
  <1>2. PICK o \in Tasks : o = call[t].other
    BY <1>0 DEF ChildOK
  <1>3. /\ call[o].pc = "new" /\ o # t /\ call[t].page = NONE /\ InHand(call[t]) = NONE
        /\ \A w \in Pages : w >= v => pte[o][w] = Empty
    <2>1. call[o].pc = "new" /\ \A w \in Pages : w >= v => pte[o][w] = Empty
      BY <1>0, <1>1, <1>2 DEF ChildOK
    <2>2. call[t].page = NONE /\ InHand(call[t]) = NONE
      BY <1>0, SMTT(60) DEF InKernelOK, Getters
    <2> QED BY <1>0, <2>1, <2>2
  <1>4. PICK f \in Frames : f = pte[t][v].frame /\ pte[t][v].slot = NONE
    BY <1>1, FrameOfEntry, ZenonT(60)
  <1>5. PICK n \in Calls : n = NextEntry(call[t])
    BY <1>0, NextEntryIs
  <1>6. /\ n.pc = "copy_entries" /\ n.v = v + 1 /\ n.page = NONE /\ n.other = o /\ n.ret = call[t].ret
        /\ n.kept = call[t].kept
    BY <1>0, <1>1, <1>2, <1>5, NextEntryIs
  <1>7. /\ running' = t /\ call' = [call EXCEPT ![t] = n] /\ Shares(o, t, v, mem_map')
        /\ UNCHANGED <<table, swap_bitmap, data, disk, panic>>
    <2>1. /\ running' = t /\ call' = [call EXCEPT ![t] = n]
          /\ pte' = [pte EXCEPT ![o][v] = ReadOnly(pte[t][v]), ![t][v] = ReadOnly(pte[t][v])]
          /\ mem_map' = [mem_map EXCEPT ![f] = (mem_map[f] + 1) % 256]
          /\ UNCHANGED <<table, swap_bitmap, data, disk, panic>>
      BY <1>1, <1>2, <1>4, <1>5 DEF CopyEntry, Enter, Shared
    <2>2. pte' = [pte EXCEPT ![t][v] = ReadOnly(pte[t][v]), ![o][v] = ReadOnly(pte[t][v])]
      <3> DEFINE e == ReadOnly(pte[t][v])
      <3>1. pte' = [pte EXCEPT ![o][v] = e, ![t][v] = e]
        BY <2>1
      <3> HIDE DEF e
      <3>2. pte' = [pte EXCEPT ![t][v] = e, ![o][v] = e]
        BY <1>3, <3>1, PartsOf
      <3> QED BY <3>2 DEF e
    <2>3. pte[o][v] = Empty
      BY <1>1, <1>3
    <2>4. Present(pte[t][v])
      BY <1>1
    <2> QED BY <1>3, <1>4, <2>1, <2>2, <2>3, <2>4 DEF Shares
  <1>8. /\ EntriesOK' /\ pte' \in [Tasks -> [Pages -> PageEntry]] /\ mem_map' \in [Frames -> 0..255]
        /\ pte'[o][v].frame = f
        /\ \A x \in Tasks, w \in Pages :
             /\ pte'[x][w].slot = pte[x][w].slot
             /\ (x = o /\ w = v) \/ pte'[x][w].frame = pte[x][w].frame
             /\ (x = o /\ w = v) \/ (pte[x][w] = Empty => pte'[x][w] = Empty)
             /\ MayDrop(pte'[x][w]) =>
                  \E y \in Tasks : MayDrop(pte[y][w]) /\ pte'[x][w].frame = pte[y][w].frame
        /\ \A h \in Frames : mem_map'[h] = IF h = f THEN mem_map[h] + 1 ELSE mem_map[h]
        /\ \A r \in References : Refs[r] = f => r[2] \in Pages
    BY <1>4, <1>7, SharedIs
  <1>9. /\ call' \in [Tasks -> Calls] /\ call'[t] = n /\ \A x \in Tasks \ {t} : call'[x] = call[x]
    BY <1>7, PartsOf
  <1>10. Stage(n) = "copy_entries" /\ InHand(n) = NONE
    BY <1>0, <1>3, <1>6 DEF Stage, InHand
  <1>11. CallsOK'
    <2>1. InKernelOK(t)'
      BY <1>6, <1>9, <1>10 DEF InKernelOK, AtPage, Getters
    <2>2. EntryIsAsRead(t)' /\ PageIsFilled(t)'
      BY <1>6, <1>9, <1>10 DEF EntryIsAsRead, PageIsFilled
    <2>3. ChildOK(t)'
      <3>1. \A w \in Pages : w \in Nat
        BY DEF MemoryAssumption, Pages
      <3>2. ASSUME NEW w \in Pages, w >= v + 1 PROVE pte'[o][w] = Empty
        <4>1. w # v /\ w >= v
          BY <1>1, <3>1, <3>2
        <4> QED BY <1>3, <1>8, <4>1
      <3>3. \A w \in Pages : w >= call'[t].v => pte'[call[t].other][w] = Empty
        BY <1>2, <1>6, <1>9, <3>2
      <3> QED BY <1>0, <1>2, <1>6, <1>9, <1>10, <3>3, ChildStays
    <2>4. \A u \in Tasks \ {t} :
           /\ call'[u] = call[u]
           /\ call[u].page # NONE => data'[call[u].page] = data[call[u].page]
           /\ InHand(call[u]) # NONE => data'[InHand(call[u])] = data[InHand(call[u])]
           /\ \/ Stage(call[t]) \in Copying /\ u = call[t].other
              \/ /\ table'[u] = table[u]
                 /\ \A w \in Pages : /\ pte[u][w] = Empty => pte'[u][w] = Empty
                                     /\ pte[u][w].slot # NONE => pte'[u][w].slot # NONE
      BY <1>0, <1>2, <1>7, <1>8, <1>9
    <2>5. call[t].pc # "new" /\ call'[t].other = call[t].other
      BY <1>0, <1>2, <1>6, <1>9
    <2> QED BY <1>0, <2>1, <2>2, <2>3, <2>4, <2>5, PartsOf, CallsStep
  <1>12. MemoryTypeOK'
    BY <1>7, <1>8, <1>9, PartsOf DEF MemoryTypeOK
  <1>13. SlotsOK'
    BY <1>7, <1>8, PartsOf, SameSlots
  <1>14. CountsOK'
    <2> DEFINE j == <<o, v>>
               X == {j}
    <2>1. j \in References /\ j[2] \in Pages /\ Refs[j] = NONE /\ Refs'[j] = f
      <3>1. Refs[j] = NONE
        <4>1. pte[o][v] = Empty
          BY <1>1, <1>3
        <4>2. Refs[j] = pte[o][v].frame
          BY RefsOfTask
        <4> QED BY <4>1, <4>2, PartsOf
      <3>2. Refs'[j] = f
        BY <1>8, RefsAfter
      <3> QED BY <3>1, <3>2, ReferencesAre
    <2>2. \A r \in References \ X : Refs'[r] = Refs[r]
      <3>1. ASSUME NEW x \in Tasks
            PROVE  /\ table'[x] = table[x] /\ InHand(call'[x]) = InHand(call[x])
                   /\ call'[x].page = call[x].page
                   /\ \A w \in Pages : <<x, w>> \in X \/ pte'[x][w].frame = pte[x][w].frame
        <4>1. \A w \in Pages : <<x, w>> \in X \/ pte'[x][w].frame = pte[x][w].frame
          BY <1>8
        <4>2. InHand(call'[x]) = InHand(call[x]) /\ call'[x].page = call[x].page
          BY <1>3, <1>6, <1>9, <1>10
        <4> QED BY <1>7, <4>1, <4>2
      <3> HIDE DEF X
      <3> QED BY <3>1, OtherRefs
    <2>3. \A r \in References : Refs'[r] = IF r = j THEN f ELSE Refs[r]
      BY <2>1, <2>2
    <2> HIDE DEF j, X
    <2>4. Added(j, f, Refs, Refs', mem_map, mem_map')
      <3>1. \A r \in References : Refs[r] = f => r[2] \in Pages /\ j[2] \in Pages
        BY <1>8, <2>1
      <3> QED BY <1>8, <2>1, <2>3, <3>1 DEF Added
    <2>5. Counts(Refs', mem_map') /\ Exclusive(Refs')
      BY <2>4, PartsOf, AddedRef
    <2> QED BY <2>5 DEF CountsOK
  <1>15. CleanOK'
    <2>2. \A x \in Tasks, w \in Pages :
            MayDrop(pte'[x][w]) =>
              \E y \in Tasks : /\ MayDrop(pte[y][w]) /\ pte[y][w].frame = pte'[x][w].frame
                             /\ data'[pte'[x][w].frame] = data[pte[y][w].frame]
      BY <1>7, <1>8, ZenonT(60)
    <2>9. copied' = copied
      BY DEF CopyEntry, history
    <2> QED BY <2>9, <1>0, <2>2, PartsOf, CleanStays, SMTT(60)
  <1> QED BY <1>7, <1>8, <1>11, <1>12, <1>13, <1>14, <1>15, PartsOf DEF Inv

(* The child's page table: the page moves from the call to the child. *)
LEMMA CopyTableStep ==
  ASSUME MemoryAssumption, Inv, NEW t \in Tasks, CopyTable(t), call[t].page # NONE
  PROVE  Inv'
  <1>0. /\ call[t].pc = "copy_table" /\ Stage(call[t]) = "copy_table" /\ running = t
        /\ InKernelOK(t) /\ ChildOK(t) /\ call[t] \in Calls /\ Stage(call[t]) \in Copying
    BY PartsOf DEF CopyTable, Runs, Stage, Copying
  <1>1. PICK o \in Tasks : o = call[t].other
    BY <1>0 DEF ChildOK
  <1>2. /\ call[o].pc = "new" /\ o # t /\ InHand(call[t]) = NONE
        /\ table[o] = NONE /\ \A w \in Pages : pte[o][w] = Empty
    <2>1. call[o].pc = "new" /\ table[o] = NONE /\ \A w \in Pages : pte[o][w] = Empty
      BY <1>0, <1>1 DEF ChildOK
    <2>2. InHand(call[t]) = NONE
      BY <1>0 DEF InKernelOK
    <2> QED BY <1>0, <2>1, <2>2
  <1>3. PICK f \in Frames : f = call[t].page
    BY Typed, PartsOf
  <1>4. PICK m \in Nat : m = Min(Pages) /\ m \in Pages
    <2>1. Pages \subseteq Nat /\ Pages # {}
      BY DEF MemoryAssumption, Pages
    <2> QED BY <2>1, LeastIs
  <1> DEFINE d == [call[t] EXCEPT !.pc = "copy_entries", !.page = NONE, !.v = m]
  <1>5. /\ running' = t /\ call' = [call EXCEPT ![t] = d] /\ table' = [table EXCEPT ![o] = f]
        /\ UNCHANGED <<mem_map, pte, swap_bitmap, data, disk, panic, copied>>
    BY <1>1, <1>3, <1>4 DEF CopyTable, Enter, history
  <1>6. /\ d \in Calls /\ d.pc = "copy_entries" /\ d.v = m /\ d.page = NONE /\ d.other = o
        /\ d.ret = call[t].ret /\ d.kept = call[t].kept
    <2>1. "copy_entries" \in Labels /\ NONE \in 0..NrFrames
      BY PartsOf DEF Labels, Copying
    <2> QED BY <1>0, <1>1, <2>1 DEF Calls
  <1> HIDE DEF d
  <1>7. /\ call' \in [Tasks -> Calls] /\ call'[t] = d /\ \A x \in Tasks \ {t} : call'[x] = call[x]
    BY <1>5, <1>6, PartsOf
  <1>8. Stage(d) = "copy_entries" /\ InHand(d) = NONE
    BY <1>0, <1>2, <1>6 DEF Stage, InHand
  <1>9. /\ table' \in [Tasks -> 0..NrFrames] /\ table'[o] = f
        /\ \A x \in Tasks \ {o} : table'[x] = table[x]
    BY <1>3, <1>5, PartsOf
  <1>10. CallsOK'
    <2>1. InKernelOK(t)'
      BY <1>6, <1>7, <1>8 DEF InKernelOK, AtPage, Getters
    <2>2. EntryIsAsRead(t)' /\ PageIsFilled(t)'
      BY <1>6, <1>7, <1>8 DEF EntryIsAsRead, PageIsFilled
    <2>3. ChildOK(t)'
      <3>1. \A w \in Pages : pte'[call[t].other][w] = Empty
        BY <1>1, <1>2, <1>5
      <3> QED BY <1>0, <1>1, <1>6, <1>7, <1>8, <3>1, ChildStays
    <2>4. \A u \in Tasks \ {t} :
           /\ call'[u] = call[u]
           /\ call[u].page # NONE => data'[call[u].page] = data[call[u].page]
           /\ InHand(call[u]) # NONE => data'[InHand(call[u])] = data[InHand(call[u])]
           /\ \/ Stage(call[t]) \in Copying /\ u = call[t].other
              \/ /\ table'[u] = table[u]
                 /\ \A w \in Pages : /\ pte[u][w] = Empty => pte'[u][w] = Empty
                                     /\ pte[u][w].slot # NONE => pte'[u][w].slot # NONE
      BY <1>0, <1>1, <1>5, <1>7, <1>9
    <2>5. call[t].pc # "new" /\ call'[t].other = call[t].other
      BY <1>0, <1>1, <1>6, <1>7
    <2> QED BY <1>0, <2>1, <2>2, <2>3, <2>4, <2>5, PartsOf, CallsStep
  <1>11. MemoryTypeOK'
    BY <1>5, <1>7, <1>9, PartsOf DEF MemoryTypeOK
  <1>12. SlotsOK' /\ EntriesOK'
    BY <1>5, PartsOf DEF SlotsOK, EntriesOK
  <1>13. CountsOK'
    <2> DEFINE i == <<t, PAGE>>
               l == <<o, TABLE>>
               X == {i, l}
    <2>1. i \in References /\ l \in References /\ i # l /\ i[2] \notin Pages
      BY ReferencesAre
    <2>2. Refs[i] = f /\ Refs[l] = NONE
      BY <1>2, <1>3, RefsOfTask
    <2>3. Refs'[i] = NONE /\ Refs'[l] = f
      BY <1>6, <1>7, <1>9, RefsAfter
    <2>4. \A r \in References \ X : Refs'[r] = Refs[r]
      <3>1. ASSUME NEW x \in Tasks
            PROVE  /\ <<x, TABLE>> \in X \/ table'[x] = table[x]
                   /\ InHand(call'[x]) = InHand(call[x])
                   /\ <<x, PAGE>> \in X \/ call'[x].page = call[x].page
                   /\ \A w \in Pages : pte'[x][w].frame = pte[x][w].frame
        <4>1. <<x, TABLE>> \in X \/ table'[x] = table[x]
          BY <1>9
        <4>2. InHand(call'[x]) = InHand(call[x])
          BY <1>2, <1>7, <1>8
        <4>3. <<x, PAGE>> \in X \/ call'[x].page = call[x].page
          BY <1>7
        <4> QED BY <1>5, <4>1, <4>2, <4>3
      <3> HIDE DEF X
      <3> QED BY <3>1, OtherRefs
    <2>5. \A r \in References : Refs'[r] = IF r = i THEN NONE ELSE IF r = l THEN Refs[i] ELSE Refs[r]
      BY <2>2, <2>3, <2>4
    <2>6. \A r \in References : Refs[r] = Refs[i] => r = i
      BY <2>1, <2>2, PartsOf DEF Exclusive
    <2> HIDE DEF i, l, X
    <2>7. Moved(i, l, Refs, Refs')
      BY <2>1, <2>2, <2>5, <2>6 DEF Moved
    <2>8. Counts(Refs', mem_map) /\ Exclusive(Refs')
      BY <2>7, PartsOf, MovedRef
    <2> QED BY <1>5, <2>8 DEF CountsOK
  <1>14. CleanOK'
    <2>2. \A x \in Tasks, w \in Pages :
            MayDrop(pte'[x][w]) =>
              /\ MayDrop(pte[x][w]) /\ pte[x][w].frame = pte'[x][w].frame
              /\ data'[pte'[x][w].frame] = data[pte[x][w].frame]
      BY <1>5
    <2> QED BY <1>5, <2>2, PartsOf, CleanStays, ZenonT(60)
  <1> QED BY <1>5, <1>10, <1>11, <1>12, <1>13, <1>14, PartsOf DEF Inv

(* The child gets the slot, the parent the page that was read from it. *)
LEMMA CopyReadStep ==
  ASSUME MemoryAssumption, Inv, NEW t \in Tasks, CopyRead(t)
  PROVE  Inv'
  <1>0. /\ call[t].pc = "copy_read" /\ Stage(call[t]) = "copy_read" /\ running = NONE
        /\ InKernelOK(t) /\ ChildOK(t) /\ EntryIsAsRead(t) /\ call[t] \in Calls
        /\ Stage(call[t]) \in Copying
    BY PartsOf DEF CopyRead, Wakes, Stage, Copying
  <1>1. PICK v \in Pages : v = call[t].v /\ v \in Nat
    BY <1>0 DEF InKernelOK, AtPage, Calls
  <1>2. PICK o \in Tasks : o = call[t].other
    BY <1>0 DEF ChildOK
  <1>3. /\ call[o].pc = "new" /\ o # t /\ InHand(call[t]) = NONE
        /\ \A w \in Pages : w >= v => pte[o][w] = Empty
    <2>1. call[o].pc = "new" /\ \A w \in Pages : w >= v => pte[o][w] = Empty
      BY <1>0, <1>1, <1>2 DEF ChildOK
    <2>2. InHand(call[t]) = NONE
      BY <1>0 DEF InKernelOK
    <2> QED BY <1>0, <2>1, <2>2
  <1>4. PICK f \in Frames : f = call[t].page
    <2>1. call[t].page # NONE
      BY <1>0 DEF InKernelOK
    <2> QED BY <2>1, Typed, PartsOf
  <1>5. PICK s \in PageEntry : s = pte[t][v] /\ s.slot # NONE /\ ~Present(s)
    <2>1. pte[t][v].slot # NONE /\ ~Present(pte[t][v])
      BY <1>0, <1>1, PartsOf DEF EntryIsAsRead, EntriesOK
    <2> QED BY <2>1, PartsOf
  <1>6. PICK e \in PageEntry : /\ e = InFrame(f, TRUE, TRUE) /\ e.frame = f /\ e.dirty
                               /\ e.slot = NONE /\ Present(e)
    BY InFrameIs
  <1>7. PICK n \in Calls : n = NextEntry(call[t])
    BY <1>0, NextEntryIs
  <1>8. /\ n.pc = "copy_entries" /\ n.v = v + 1 /\ n.page = NONE /\ n.other = o /\ n.ret = call[t].ret
        /\ n.kept = call[t].kept
    BY <1>0, <1>1, <1>2, <1>7, NextEntryIs
  <1>9. /\ running' = t /\ call' = [call EXCEPT ![t] = n]
        /\ pte' = [pte EXCEPT ![o][v] = s, ![t][v] = e]
        /\ UNCHANGED <<mem_map, table, swap_bitmap, data, disk, panic>>
    BY <1>1, <1>2, <1>4, <1>5, <1>6, <1>7 DEF CopyRead, Enter
  <1>10. /\ pte' \in [Tasks -> [Pages -> PageEntry]] /\ pte'[o][v] = s /\ pte'[t][v] = e
         /\ \A x \in Tasks, w \in Pages : (x = t /\ w = v) \/ (x = o /\ w = v) \/ pte'[x][w] = pte[x][w]
    BY <1>3, <1>9, PartsOf, ZenonT(60)
  <1>11. pte[o][v] = Empty
    BY <1>1, <1>3
  <1>12. /\ call' \in [Tasks -> Calls] /\ call'[t] = n /\ \A x \in Tasks \ {t} : call'[x] = call[x]
    BY <1>9, PartsOf
  <1>13. Stage(n) = "copy_entries" /\ InHand(n) = NONE
    BY <1>0, <1>3, <1>8 DEF Stage, InHand
  <1>14. CallsOK'
    <2>1. InKernelOK(t)'
      BY <1>8, <1>12, <1>13 DEF InKernelOK, AtPage, Getters
    <2>2. EntryIsAsRead(t)' /\ PageIsFilled(t)'
      BY <1>8, <1>12, <1>13 DEF EntryIsAsRead, PageIsFilled
    <2>3. ChildOK(t)'
      <3>1. \A w \in Pages : w \in Nat
        BY DEF MemoryAssumption, Pages
      <3>2. ASSUME NEW w \in Pages, w >= v + 1 PROVE pte'[o][w] = Empty
        <4>1. w # v /\ w >= v
          BY <1>1, <3>1, <3>2
        <4> QED BY <1>3, <1>10, <4>1
      <3>3. \A w \in Pages : w >= call'[t].v => pte'[call[t].other][w] = Empty
        BY <1>2, <1>8, <1>12, <3>2
      <3> QED BY <1>0, <1>2, <1>8, <1>12, <1>13, <3>3, ChildStays
    <2>4. \A u \in Tasks \ {t} :
           /\ call'[u] = call[u]
           /\ call[u].page # NONE => data'[call[u].page] = data[call[u].page]
           /\ InHand(call[u]) # NONE => data'[InHand(call[u])] = data[InHand(call[u])]
           /\ \/ Stage(call[t]) \in Copying /\ u = call[t].other
              \/ /\ table'[u] = table[u]
                 /\ \A w \in Pages : /\ pte[u][w] = Empty => pte'[u][w] = Empty
                                     /\ pte[u][w].slot # NONE => pte'[u][w].slot # NONE
      BY <1>0, <1>2, <1>9, <1>10, <1>12
    <2>5. call[t].pc # "new" /\ call'[t].other = call[t].other
      BY <1>0, <1>2, <1>8, <1>12
    <2> QED BY <1>0, <2>1, <2>2, <2>3, <2>4, <2>5, PartsOf, CallsStep
  <1>15. MemoryTypeOK'
    BY <1>9, <1>10, <1>12, PartsOf DEF MemoryTypeOK
  <1>16. EntriesOK'
    <2>1. ~Present(pte[o][v]) /\ ~Present(s) /\ ~s.rw /\ ~s.dirty
      BY <1>1, <1>5, <1>11, PartsOf DEF EntriesOK, Present
    <2>2. \A x \in Tasks, w \in Pages : pte[x][w].frame # f
      BY <1>4, PartsOf, PageIsAlone
    <2>3. SetsEntry(t, v, e)
      BY <1>6, <1>10, <2>1, <2>2, ZenonT(60) DEF SetsEntry
    <2> QED BY <2>3, PartsOf, EntrySet
  <1>17. SlotsOK'
    <2>1. /\ \A x, y \in Tasks, w, z \in Pages :
               pte[x][w].slot # NONE /\ pte[x][w].slot = pte[y][z].slot => x = y /\ w = z
          /\ \A x \in Tasks, w \in Pages : pte[x][w].slot \notin swap_bitmap
          /\ \A nr \in Slots \ swap_bitmap : \E x \in Tasks, w \in Pages : pte[x][w].slot = nr
      BY PartsOf DEF SlotsOK
    <2>2. \A x \in Tasks, w \in Pages :
            pte'[x][w].slot = IF x = t /\ w = v THEN NONE
                              ELSE IF x = o /\ w = v THEN s.slot ELSE pte[x][w].slot
      BY <1>3, <1>6, <1>10
    <2>3. ASSUME NEW x \in Tasks, NEW y \in Tasks, NEW w \in Pages, NEW z \in Pages,
                 pte'[x][w].slot # NONE, pte'[x][w].slot = pte'[y][z].slot
          PROVE  x = y /\ w = z
      <3>1. CASE x = o /\ w = v
        BY <1>3, <1>5, <2>1, <2>2, <2>3, <3>1
      <3>2. CASE ~(x = o /\ w = v)
        BY <1>3, <1>5, <2>1, <2>2, <2>3, <3>2
      <3> QED BY <3>1, <3>2
    <2>4. ASSUME NEW x \in Tasks, NEW w \in Pages PROVE pte'[x][w].slot \notin swap_bitmap'
      <3>1. NONE \notin swap_bitmap
        BY PartsOf DEF MemoryTypeOK
      <3>2. \A y \in Tasks, z \in Pages : pte[y][z].slot \notin swap_bitmap
        BY <2>1
      <3>3. s.slot \notin swap_bitmap
        BY <1>5, <3>2
      <3>4. pte'[x][w].slot \notin swap_bitmap
        BY <2>2, <3>1, <3>2, <3>3
      <3> QED BY <1>9, <3>4
    <2>5. ASSUME NEW nr \in Slots \ swap_bitmap' PROVE \E x \in Tasks, w \in Pages : pte'[x][w].slot = nr
      <3>1. PICK x \in Tasks, w \in Pages : pte[x][w].slot = nr
        BY <1>9, <2>1
      <3>2. CASE x = t /\ w = v
        BY <1>3, <1>5, <2>2, <3>1, <3>2
      <3>3. CASE ~(x = t /\ w = v)
        <4>1. ~(x = o /\ w = v)
          BY <1>11, <3>1, PartsOf
        <4> QED BY <2>2, <3>1, <3>3, <4>1
      <3> QED BY <3>2, <3>3
    <2> QED BY <2>3, <2>4, <2>5 DEF SlotsOK
  <1>18. CountsOK'
    <2> DEFINE i == <<t, PAGE>>
               j == <<t, v>>
               X == {i, j}
    <2>1. i \in References /\ j \in References /\ i # j /\ i[2] \notin Pages
      BY ReferencesAre
    <2>2. Refs[i] = f /\ Refs[j] = NONE
      <3>1. Refs[j] = s.frame
        BY <1>5, RefsOfTask
      <3> QED BY <1>4, <1>5, <3>1, RefsOfTask DEF Present
    <2>3. Refs'[i] = NONE /\ Refs'[j] = f
      <3>1. Refs'[i] = call'[t].page /\ Refs'[j] = pte'[t][v].frame
        BY RefsAfter
      <3>2. call'[t].page = NONE /\ pte'[t][v].frame = f
        BY <1>6, <1>8, <1>10, <1>12
      <3> QED BY <3>1, <3>2
    <2>4. \A r \in References \ X : Refs'[r] = Refs[r]
      <3>1. ASSUME NEW x \in Tasks
            PROVE  /\ table'[x] = table[x] /\ InHand(call'[x]) = InHand(call[x])
                   /\ <<x, PAGE>> \in X \/ call'[x].page = call[x].page
                   /\ \A w \in Pages : <<x, w>> \in X \/ pte'[x][w].frame = pte[x][w].frame
        <4>1. InHand(call'[x]) = InHand(call[x])
          BY <1>3, <1>12, <1>13
        <4>2. <<x, PAGE>> \in X \/ call'[x].page = call[x].page
          BY <1>12
        <4>3. ASSUME NEW w \in Pages PROVE <<x, w>> \in X \/ pte'[x][w].frame = pte[x][w].frame
          <5>1. CASE x = o /\ w = v
            BY <1>5, <1>10, <1>11, <5>1, PartsOf DEF Present
          <5>2. CASE ~(x = o /\ w = v)
            BY <1>10, <5>2
          <5> QED BY <5>1, <5>2
        <4> QED BY <1>9, <4>1, <4>2, <4>3
      <3> HIDE DEF X
      <3> QED BY <3>1, OtherRefs
    <2>5. \A r \in References : Refs'[r] = IF r = i THEN NONE ELSE IF r = j THEN Refs[i] ELSE Refs[r]
      BY <2>2, <2>3, <2>4
    <2>6. \A r \in References : Refs[r] = Refs[i] => r = i
      BY <2>1, <2>2, PartsOf DEF Exclusive
    <2> HIDE DEF i, j, X
    <2>7. Moved(i, j, Refs, Refs')
      BY <2>1, <2>2, <2>5, <2>6 DEF Moved
    <2>8. Counts(Refs', mem_map) /\ Exclusive(Refs')
      BY <2>7, PartsOf, MovedRef
    <2> QED BY <1>9, <2>8 DEF CountsOK
  <1>19. CleanOK'
    <2>2. ~MayDrop(s) /\ ~MayDrop(e)
      BY <1>5, <1>6 DEF MayDrop
    <2>3. \A x \in Tasks, w \in Pages :
            MayDrop(pte'[x][w]) =>
              /\ MayDrop(pte[x][w]) /\ pte[x][w].frame = pte'[x][w].frame
              /\ data'[pte'[x][w].frame] = data[pte[x][w].frame]
      BY <1>9, <1>10, <2>2, ZenonT(60)
    <2>9. copied' = copied
      BY DEF CopyRead, history
    <2> QED BY <2>9, <1>0, <2>3, PartsOf, CleanStays, ZenonT(60)
  <1> QED BY <1>9, <1>14, <1>15, <1>16, <1>17, <1>18, <1>19, PartsOf DEF Inv

(* The beginning and the end of a fork: calls move, and nothing else. *)
LEMMA OnlyCallsStep ==
  ASSUME MemoryAssumption, Inv, NEW t \in Tasks, running \in {t, NONE},
         UNCHANGED <<mem_map, table, pte, swap_bitmap, data, disk, panic, copied>>,
         call' \in [Tasks -> Calls], running' \in Tasks \cup {NONE}, CallsOK',
         \A u \in Tasks : /\ call'[u].page = call[u].page /\ InHand(call'[u]) = InHand(call[u])
  PROVE  Inv'
  <1>1. MemoryTypeOK'
    BY PartsOf DEF MemoryTypeOK
  <1>2. SlotsOK' /\ EntriesOK'
    BY PartsOf DEF SlotsOK, EntriesOK
  <1>3. CountsOK'
    <2>1. Refs' = Refs
      BY SameRefs
    <2> QED BY <2>1, PartsOf DEF CountsOK
  <1>4. CleanOK'
    <2>1. \A x \in Tasks, w \in Pages :
            MayDrop(pte'[x][w]) =>
              /\ MayDrop(pte[x][w]) /\ pte[x][w].frame = pte'[x][w].frame
              /\ data'[pte'[x][w].frame] = data[pte[x][w].frame]
      OBVIOUS
    <2> QED BY <2>1, PartsOf, CleanStays
  <1> QED BY <1>1, <1>2, <1>3, <1>4, PartsOf DEF Inv

LEMMA ForkStep ==
  ASSUME MemoryAssumption, Inv, NEW t \in Tasks, NEW u \in Tasks, Fork(t, u)
  PROVE  Inv'
  <1>0. /\ call[t].pc = "user" /\ call[u].pc = "unused" /\ running = NONE /\ t # u
        /\ UNCHANGED <<mem_map, table, pte, swap_bitmap, data, disk, panic, copied>>
    BY DEF Fork, Wakes, pages, history
  <1>1. /\ call[t].page = NONE /\ call[u].page = NONE
        /\ InHand(call[t]) = NONE /\ InHand(call[u]) = NONE
        /\ table[u] = NONE /\ \A v \in Pages : pte[u][v] = Empty
    <2>1. Stage(call[t]) = "user" /\ Stage(call[u]) = "unused"
      BY <1>0 DEF Stage
    <2>2. InKernelOK(t) /\ InKernelOK(u) /\ EntryIsAsRead(u)
      BY PartsOf
    <2> QED BY <1>0, <2>1, <2>2 DEF InKernelOK, EntryIsAsRead, Getters
  <1>2. CASE table[t] = NONE
    <2>1. PICK d \in Calls : d = At("user") /\ d.pc = "user" /\ d.ret = "user" /\ d.page = NONE
      <3>1. "user" \in Labels
        BY DEF Labels
      <3> QED BY <3>1, AtIs
    <2>2. call' = [call EXCEPT ![u] = d] /\ running' = NONE
      BY <1>0, <1>2, <2>1 DEF Fork
    <2>3. /\ call' \in [Tasks -> Calls] /\ call'[u] = d /\ \A w \in Tasks \ {u} : call'[w] = call[w]
      BY <2>2, PartsOf
    <2>4. /\ InKernelOK(u)' /\ EntryIsAsRead(u)' /\ ChildOK(u)' /\ PageIsFilled(u)'
          /\ Stage(call'[u]) \notin Copying /\ InHand(call'[u]) = NONE
      BY <2>1, <2>3, AtUser
    <2>5. CallsOK'
      BY <1>0, <2>3, <2>4, PartsOf, CallsStep
    <2>6. \A w \in Tasks : /\ call'[w].page = call[w].page /\ InHand(call'[w]) = InHand(call[w])
      BY <1>1, <2>1, <2>3, <2>4
    <2> QED BY <1>0, <2>2, <2>3, <2>5, <2>6, OnlyCallsStep
  <1>3. CASE table[t] # NONE
    <2>1. PICK d \in Calls : d = At("new") /\ d.pc = "new" /\ d.ret = "new" /\ d.page = NONE
      <3>1. "new" \in Labels
        BY DEF Labels
      <3> QED BY <3>1, AtIs
    <2>2. PICK c \in Calls :
            /\ c = [At("get_free_page") EXCEPT !.ret = "copy_table", !.other = u]
            /\ c.pc = "get_free_page" /\ c.ret = "copy_table" /\ c.page = NONE /\ c.other = u
            /\ c.v = NONE
      <3>1. "get_free_page" \in Labels /\ "copy_table" \in Labels
        BY DEF Labels, Getters
      <3> DEFINE a == At("get_free_page")
                 b == [a EXCEPT !.ret = "copy_table", !.other = u]
      <3>2. a \in Calls /\ a.pc = "get_free_page" /\ a.v = NONE /\ a.page = NONE
        BY <3>1, AtIs
      <3> HIDE DEF a
      <3>3. /\ b \in Calls /\ b.pc = "get_free_page" /\ b.ret = "copy_table" /\ b.page = NONE
            /\ b.other = u /\ b.v = NONE
        BY <3>1, <3>2 DEF Calls
      <3> QED BY <3>3 DEF a
    <2>3. call' = [call EXCEPT ![u] = d, ![t] = c] /\ running' = t
      BY <1>3, <2>1, <2>2 DEF Fork
    <2>4. /\ call' \in [Tasks -> Calls] /\ call'[u] = d /\ call'[t] = c
          /\ \A w \in Tasks \ {t, u} : call'[w] = call[w]
      BY <1>0, <2>3, PartsOf
    <2>5. /\ InKernelOK(u)' /\ EntryIsAsRead(u)' /\ ChildOK(u)' /\ PageIsFilled(u)'
          /\ Stage(call'[u]) \notin Copying /\ InHand(call'[u]) = NONE
      BY <2>1, <2>4, AtUser
    <2>6. Stage(c) = "copy_table" /\ InHand(c) = NONE
      BY <2>2 DEF Stage, InHand
    <2>7. InKernelOK(t)' /\ EntryIsAsRead(t)' /\ PageIsFilled(t)'
      <3>1. InKernelOK(t)'
        BY <2>2, <2>4, <2>6 DEF InKernelOK, AtPage, Getters
      <3> QED BY <2>2, <2>4, <2>6, <3>1 DEF EntryIsAsRead, PageIsFilled
    <2>8. ChildOK(t)'
      <3>1. ASSUME NEW w \in Tasks, Stage(call'[w]) \in Copying, call'[w].other = u PROVE w = t
        <4>1. CASE w = u
          BY <2>5, <3>1, <4>1
        <4>2. CASE w \in Tasks \ {t, u}
          <5>1. Stage(call[w]) \in Copying /\ call[w].other = u /\ ChildOK(w)
            BY <2>4, <3>1, <4>2, PartsOf
          <5>2. call[u].pc = "new"
            BY <5>1 DEF ChildOK
          <5> QED BY <1>0, <5>2
        <4> QED BY <4>1, <4>2
      <3>2. table'[u] = NONE /\ \A v \in Pages : pte'[u][v] = Empty
        BY <1>0, <1>1
      <3>3. call'[u].pc = "new"
        BY <2>1, <2>4
      <3> QED BY <2>2, <2>4, <2>6, <3>1, <3>2, <3>3 DEF ChildOK
    <2>9. CallsOK'
      BY <1>0, <2>2, <2>4, <2>5, <2>7, <2>8, PartsOf, TwoCalls, ZenonT(60)
    <2>10. \A w \in Tasks : /\ call'[w].page = call[w].page /\ InHand(call'[w]) = InHand(call[w])
      BY <1>1, <2>1, <2>2, <2>4, <2>5, <2>6, ZenonT(60)
    <2> QED BY <1>0, <2>3, <2>4, <2>9, <2>10, OnlyCallsStep
  <1> QED BY <1>2, <1>3

LEMMA ForkedStep ==
  ASSUME MemoryAssumption, Inv, NEW t \in Tasks, Forked(t)
  PROVE  Inv'
  <1>0. /\ call[t].pc = "copy_entries" /\ Stage(call[t]) = "copy_entries" /\ running = t /\ running' = NONE
        /\ UNCHANGED <<mem_map, table, pte, swap_bitmap, data, disk, panic, copied>>
        /\ Stage(call[t]) \in Copying /\ InKernelOK(t) /\ ChildOK(t)
    BY PartsOf DEF Forked, Runs, Stage, Copying, pages, history
  <1>1. PICK u \in Tasks : u = call[t].other
    BY <1>0 DEF ChildOK
  <1>2. call[u].pc = "new" /\ u # t
    BY <1>0, <1>1 DEF ChildOK
  <1>3. call[t].page = NONE /\ call[u].page = NONE /\ InHand(call[t]) = NONE /\ InHand(call[u]) = NONE
    <2>1. Stage(call[u]) = "new" /\ InKernelOK(u)
      BY <1>2, PartsOf DEF Stage
    <2> QED BY <1>0, <1>2, <2>1 DEF InKernelOK, Getters
  <1>4. PICK d \in Calls : d = At("user") /\ d.pc = "user" /\ d.ret = "user" /\ d.page = NONE
    <2>1. "user" \in Labels
      BY DEF Labels
    <2> QED BY <2>1, AtIs
  <1>5. call' = [call EXCEPT ![t] = d, ![u] = d]
    BY <1>1, <1>4 DEF Forked
  <1>6. /\ call' \in [Tasks -> Calls] /\ call'[u] = d /\ call'[t] = d
        /\ \A w \in Tasks \ {t, u} : call'[w] = call[w]
    BY <1>2, <1>5, PartsOf
  <1>7. /\ InKernelOK(u)' /\ EntryIsAsRead(u)' /\ ChildOK(u)' /\ PageIsFilled(u)'
        /\ Stage(call'[u]) \notin Copying /\ InHand(call'[u]) = NONE
    BY <1>4, <1>6, AtUser
  <1>8. /\ InKernelOK(t)' /\ EntryIsAsRead(t)' /\ ChildOK(t)' /\ PageIsFilled(t)'
        /\ Stage(call'[t]) \notin Copying /\ InHand(call'[t]) = NONE
    BY <1>4, <1>6, AtUser
  <1>9. CallsOK'
    BY <1>0, <1>1, <1>6, <1>7, <1>8, PartsOf, TwoCalls
  <1>10. \A w \in Tasks : /\ call'[w].page = call[w].page /\ InHand(call'[w]) = InHand(call[w])
    BY <1>3, <1>4, <1>6, <1>7, <1>8
  <1> QED BY <1>0, <1>6, <1>9, <1>10, OnlyCallsStep

-----------------------------------------------------------------------------
(* All steps.  Without a page the caller goes, or its fork fails. *)
LEMMA NoMemoryStep ==
  ASSUME MemoryAssumption, Inv, NEW t \in Tasks, call[t].page = NONE,
         \/ TryToShare(t) /\ table[t] = NONE
         \/ PutPage(t) \/ Load(t) \/ SwapIn(t) \/ CopyPage(t)
  PROVE  Inv'
  <1>1. ASSUME NEW pc, Runs(t, pc), pc \in {"share", "load", "swap_in", "copy_page"},
               OutOfMemory(t, {})
        PROVE  Inv'
    <2>1. call[t].pc = pc /\ running = t /\ Stage(call[t]) = pc /\ InKernelOK(t)
      BY <1>1, PartsOf DEF Runs, Stage
    <2>2. InHand(call[t]) = NONE
      BY <1>1, <2>1 DEF InKernelOK
    <2> QED BY <1>1, <2>1, <2>2, OutOfMemoryStep
  <1>2. CASE TryToShare(t) /\ table[t] = NONE
    <2>1. Runs(t, "share") /\ OutOfMemory(t, {})
      BY <1>2 DEF TryToShare
    <2> QED BY <1>1, <2>1
  <1>3. CASE PutPage(t)
    <2>1. call[t].pc = "put_page" /\ running = t /\ OutOfMemory(t, {call[t].kept})
      BY <1>3 DEF PutPage, Runs
    <2>2. InHand(call[t]) = call[t].kept
      BY <2>1 DEF InHand
    <2> DEFINE fs == {InHand(call[t])}
    <2>3. OutOfMemory(t, fs) /\ fs \subseteq {InHand(call[t])} /\ InHand(call[t]) \in fs \cup {NONE}
      BY <2>1, <2>2
    <2> HIDE DEF fs
    <2> QED BY <2>1, <2>3, OutOfMemoryStep
  <1>4. CASE Load(t)
    <2>1. Runs(t, "load") /\ OutOfMemory(t, {})
      BY <1>4 DEF Load
    <2> QED BY <1>1, <2>1
  <1>5. CASE SwapIn(t)
    <2>1. Runs(t, "swap_in") /\ OutOfMemory(t, {})
      BY <1>5 DEF SwapIn
    <2> QED BY <1>1, <2>1
  <1>6. CASE CopyPage(t)
    <2>1. Runs(t, "copy_page") /\ OutOfMemory(t, {})
      BY <1>6 DEF CopyPage
    <2> QED BY <1>1, <2>1
  <1> QED BY <1>2, <1>3, <1>4, <1>5, <1>6

LEMMA NoForkStep ==
  ASSUME MemoryAssumption, Inv, NEW t \in Tasks, call[t].page = NONE, CopyTable(t) \/ CopySwapped(t)
  PROVE  Inv'
  <1>1. CASE CopyTable(t)
    <2>1. ForkFails(t) /\ running = t /\ call[t].pc = "copy_table"
      BY <1>1 DEF CopyTable, Runs
    <2> QED BY <2>1, ForkFailsStep
  <1>2. CASE CopySwapped(t)
    <2>1. ForkFails(t) /\ running = t /\ call[t].pc = "copy_swapped"
      BY <1>2 DEF CopySwapped, Runs
    <2> QED BY <2>1, ForkFailsStep
  <1> QED BY <1>1, <1>2

LEMMA InvStep ==
  ASSUME MemoryAssumption, Inv, NEW t \in Tasks, Step(t), ~raced'
  PROVE  Inv'
  <1>1. CASE GetPage(t)
    BY <1>1, TakeFreeStep, SwappedOutStep, NoPageStep, DropStep, SwapOutStep DEF GetPage
  <1>2. CASE TryToShare(t)
    BY <1>2, NoMemoryStep, TryToShareStep
  <1>3. CASE PutPage(t)
    BY <1>3, NoMemoryStep, TablePageStep, PutPageStep
  <1>4. CASE Load(t) \/ Loaded(t)
    BY <1>4, NoMemoryStep, LoadStep, LoadedStep
  <1>5. CASE SwapIn(t) \/ SwappedIn(t)
    BY <1>5, NoMemoryStep, SwapInStep, SwappedInStep
  <1>6. CASE CopyPage(t)
    BY <1>6, NoMemoryStep, CopyPageStep
  <1>7. CASE CopyTable(t) \/ CopySwapped(t)
    BY <1>7, NoForkStep, CopyTableStep, CopySwappedStep
  <1>8. CASE CopyEntry(t) \/ CopyRead(t)
    BY <1>8, CopyNothingStep, CopySharedStep, CopyReadStep
  <1>9. CASE Exit(t) \/ Exec(t)
    BY <1>9, ExitStep, ExecStep
  <1>10. ASSUME NEW v \in Pages, PageFault(t, v) PROVE Inv'
    BY <1>10, OwnerStep, CopyLaterStep, NoPageFaultStep DEF PageFault
  <1>11. ASSUME NEW v \in Pages, NEW d \in Values, Write(t, v, d) PROVE Inv'
    BY <1>11, WriteStep
  <1>12. ASSUME NEW u \in Tasks, Fork(t, u) PROVE Inv'
    BY <1>12, ForkStep
  <1>13. CASE Forked(t)
    BY <1>13, ForkedStep
  <1> QED BY <1>1, <1>2, <1>3, <1>4, <1>5, <1>6, <1>7, <1>8, <1>9, <1>10, <1>11, <1>12, <1>13
       DEF Step

(* What was used though it had changed stays so. *)
LEMMA RacedStays ==
  ASSUME NEW t \in Tasks, Step(t), ~raced' PROVE ~raced
  <1>1. CASE GetPage(t)
    BY <1>1 DEF GetPage, TakeFree, SwappedOut, NoPage, Drop, SwapOut, InOrder, history
  <1>2. CASE TryToShare(t)
    BY <1>2 DEF TryToShare, OutOfMemory, history
  <1>3. CASE PutPage(t)
    BY <1>3 DEF PutPage, OutOfMemory, history
  <1>4. CASE Load(t) \/ Loaded(t)
    BY <1>4 DEF Load, Loaded, OutOfMemory, history
  <1>5. CASE SwapIn(t) \/ SwappedIn(t)
    BY <1>5 DEF SwapIn, ReadSwapPage, InOrder, SwappedIn, OutOfMemory, history
  <1>6. CASE CopyPage(t)
    BY <1>6 DEF CopyPage, OutOfMemory, history
  <1>7. CASE CopyTable(t) \/ CopySwapped(t)
    BY <1>7 DEF CopyTable, CopySwapped, ReadSwapPage, InOrder, ForkFails, history
  <1>8. CASE CopyEntry(t) \/ CopyRead(t) \/ Forked(t)
    BY <1>8 DEF CopyEntry, CopyRead, Forked, history
  <1>9. CASE Exit(t) \/ Exec(t)
    BY <1>9 DEF Exit, Exec, OutOfMemory, history
  <1>10. ASSUME NEW v \in Pages, PageFault(t, v) PROVE ~raced
    BY <1>10 DEF PageFault, UnWpPage, NoPageFault, history
  <1>11. ASSUME NEW v \in Pages, NEW d \in Values, Write(t, v, d) PROVE ~raced
    BY <1>11 DEF Write
  <1>12. ASSUME NEW u \in Tasks, Fork(t, u) PROVE ~raced
    BY <1>12 DEF Fork, history
  <1> QED BY <1>1, <1>2, <1>3, <1>4, <1>5, <1>6, <1>7, <1>8, <1>9, <1>10, <1>11, <1>12, SMTT(60) DEF Step

LEMMA InitInv ==
  ASSUME MemoryAssumption, Init PROVE Inv
  <1>1. PICK u \in Tasks : call = [t \in Tasks |-> At(IF t = u THEN "user" ELSE "unused")]
    BY DEF Init, NoPages
  <1>2. /\ Empty \in PageEntry /\ Empty.frame = NONE /\ Empty.slot = NONE /\ ~Empty.rw /\ ~Empty.dirty
        /\ NONE \in 0..NrFrames /\ NONE \notin Frames /\ NONE \notin Slots
    BY DEF MemoryAssumption, Empty, PageEntry, NONE, Frames
  <1>3. \A t \in Tasks :
          /\ call[t] \in Calls /\ call[t].pc \in {"user", "unused"} /\ call[t].ret = call[t].pc
          /\ call[t].page = NONE /\ call[t].kept = NONE
    <2>1. "user" \in Labels /\ "unused" \in Labels
      BY DEF Labels
    <2>2. \A pc \in {"user", "unused"} :
            /\ At(pc) \in Calls /\ At(pc).pc = pc /\ At(pc).ret = pc
            /\ At(pc).page = NONE /\ At(pc).kept = NONE
      BY <2>1, AtIs
    <2> QED BY <1>1, <2>2
  <1>4. /\ table = [t \in Tasks |-> NONE] /\ pte = [t \in Tasks |-> [v \in Pages |-> Empty]]
        /\ mem_map = [f \in Frames |-> 0] /\ swap_bitmap = Slots /\ running = NONE /\ panic = FALSE
        /\ data = [f \in Frames |-> "zero"] /\ disk = [nr \in Slots |-> "zero"]
    BY DEF Init, NoPages
  <1>5. MemoryTypeOK
    <2>1. call \in [Tasks -> Calls]
      BY <1>1, <1>3
    <2> QED BY <1>2, <1>4, <2>1 DEF MemoryTypeOK
  <1>6. CallsOK
    <2> SUFFICES ASSUME NEW t \in Tasks
                 PROVE  InKernelOK(t) /\ EntryIsAsRead(t) /\ ChildOK(t) /\ PageIsFilled(t)
      BY DEF CallsOK
    <2>1. Stage(call[t]) \in {"user", "unused"} /\ InHand(call[t]) = NONE
      BY <1>3 DEF Stage, InHand
    <2>2. InKernelOK(t)
      BY <1>3, <2>1 DEF InKernelOK, AtPage
    <2>3. EntryIsAsRead(t) /\ PageIsFilled(t)
      BY <1>4, <2>1 DEF EntryIsAsRead, PageIsFilled
    <2>4. ChildOK(t)
      BY <2>1 DEF ChildOK, Copying
    <2> QED BY <2>2, <2>3, <2>4
  <1>7. EntriesOK
    BY <1>2, <1>4 DEF EntriesOK, Present
  <1>8. SlotsOK
    BY <1>2, <1>4 DEF SlotsOK
  <1>9. CountsOK
    <2>1. ASSUME NEW r \in References PROVE Refs[r] = NONE
      <3>1. PICK t \in Tasks : \/ r = <<t, TABLE>> \/ r = <<t, PAGE>> \/ r = <<t, KEPT>>
                               \/ \E v \in Pages : r = <<t, v>>
        BY EachReference
      <3>2. CASE r = <<t, TABLE>>
        BY <1>4, <3>2, RefsOfTask
      <3>3. CASE r = <<t, PAGE>>
        BY <1>3, <3>3, RefsOfTask
      <3>4. CASE r = <<t, KEPT>>
        <4>1. InHand(call[t]) = NONE
          BY <1>3 DEF InHand
        <4> QED BY <3>4, <4>1, RefsOfTask
      <3>5. ASSUME NEW v \in Pages, r = <<t, v>> PROVE Refs[r] = NONE
        <4>1. pte[t][v].frame = NONE
          BY <1>2, <1>4
        <4> QED BY <3>5, <4>1, RefsOfTask
      <3> QED BY <3>1, <3>2, <3>3, <3>4, <3>5
    <2>2. ASSUME NEW f \in Frames PROVE mem_map[f] = Cardinality({r \in References : Refs[r] = f})
      <3>1. {r \in References : Refs[r] = f} = {}
        BY <1>2, <2>1
      <3>2. Cardinality({}) = 0
        BY FS_EmptySet
      <3> QED BY <1>4, <3>1, <3>2
    <2> QED BY <2>1, <2>2 DEF CountsOK, Counts, Exclusive
  <1>10. CleanOK
    <2>1. \A t \in Tasks, v \in Pages : ~MayDrop(pte[t][v])
      BY <1>2, <1>4 DEF MayDrop, Present
    <2> QED BY <1>3, <2>1 DEF CleanOK
  <1> QED BY <1>4, <1>5, <1>6, <1>7, <1>8, <1>9, <1>10 DEF Inv

LEMMA NextIInv ==
  ASSUME MemoryAssumption, IInv, [Next]_vars PROVE IInv'
  <1> SUFFICES ASSUME ~raced' PROVE Inv'
    BY DEF IInv
  <1>1. CASE Next
    <2>1. PICK t \in Tasks : Step(t)
      BY <1>1 DEF Next
    <2>2. Inv
      BY <2>1, RacedStays DEF IInv
    <2> QED BY <2>1, <2>2, InvStep
  <1>2. CASE UNCHANGED vars
    <2>1. /\ ~raced
          /\ UNCHANGED <<mem_map, table, pte, swap_bitmap, data, disk, call, running, panic, copied>>
      BY <1>2 DEF vars, pages, history
    <2>2. Inv
      BY <2>1 DEF IInv
    <2>3. CallsOK'
      BY <2>1, <2>2
         DEF Inv, CallsOK, InKernelOK, EntryIsAsRead, ChildOK, PageIsFilled
    <2>4. CountsOK'
      BY <2>1, <2>2 DEF Inv, CountsOK, Refs
    <2>5. CleanOK'
      BY <2>1, <2>2 DEF Inv, CleanOK
    <2>6. MemoryTypeOK' /\ EntriesOK' /\ SlotsOK' /\ ~panic'
      BY <2>1, <2>2 DEF Inv, MemoryTypeOK, EntriesOK, SlotsOK
    <2> QED BY <2>3, <2>4, <2>5, <2>6 DEF Inv
  <1> QED BY <1>1, <1>2

(* The invariant holds in every state before an entry was used that had changed
   while its reader waited for memory (memory.c:262, 362). *)
THEOREM IInvAlways == Spec => []IInv
  <1>1. Init => IInv
    BY MemoryConstants, InitInv DEF IInv
  <1>2. IInv /\ [Next]_vars => IInv'
    BY MemoryConstants, NextIInv
  <1> QED BY <1>1, <1>2, PTL DEF Spec

-----------------------------------------------------------------------------
(* What the invariant says of the properties.  A set of tasks is as large as
   that of their references. *)
LEMMA SameNumber ==
  ASSUME MemoryAssumption, NEW S \in SUBSET Tasks, NEW k
  PROVE  /\ IsFiniteSet({<<t, k>> : t \in S})
         /\ Cardinality({<<t, k>> : t \in S}) = Cardinality(S)
  <1> DEFINE T == {<<t, k>> : t \in S}
             b == [t \in S |-> <<t, k>>]
  <1>1. IsFiniteSet(S)
    BY FS_Subset DEF MemoryAssumption
  <1>2. b \in Bijection(S, T)
    BY DEF Bijection, Injection, Surjection, IsInjective
  <1>3. ExistsBijection(S, T)
    BY <1>2 DEF ExistsBijection
  <1> HIDE DEF T
  <1>4. IsFiniteSet(T) /\ Cardinality(T) = Cardinality(S)
    BY <1>1, <1>3, FS_Bijection
  <1> QED BY <1>4 DEF T

LEMMA DisjointUnion ==
  ASSUME NEW S, NEW T, IsFiniteSet(S), IsFiniteSet(T), S \cap T = {}
  PROVE  /\ IsFiniteSet(S \cup T)
         /\ Cardinality(S \cup T) = Cardinality(S) + Cardinality(T)
  <1>1. /\ IsFiniteSet(S \cup T)
        /\ Cardinality(S \cup T) = Cardinality(S) + Cardinality(T) - Cardinality(S \cap T)
    BY FS_Union
  <1>2. Cardinality(S \cap T) = 0
    BY FS_EmptySet
  <1>3. Cardinality(S) \in Nat /\ Cardinality(T) \in Nat
    BY FS_CardinalityType
  <1> QED BY <1>1, <1>2, <1>3

LEMMA EveryReferenceIsCounted ==
  ASSUME MemoryAssumption, Inv, NEW f \in Frames
  PROVE  mem_map[f] = Cardinality(EntriesOf(f)) + Cardinality({t \in Tasks : table[t] = f})
                      + Cardinality(Holders(f))
  <1> DEFINE A == EntriesOf(f)
             B == {t \in Tasks : table[t] = f}
             C == {t \in Tasks : call[t].page = f}
             D == {t \in Tasks : call[t].kept = f /\ "put_page" \in {call[t].pc, call[t].ret}}
             RB == {<<t, TABLE>> : t \in B}
             RC == {<<t, PAGE>> : t \in C}
             RD == {<<t, KEPT>> : t \in D}
             R == {r \in References : Refs[r] = f}
  <1>0. f # NONE
    BY PartsOf
  <1>1. B \in SUBSET Tasks /\ C \in SUBSET Tasks /\ D \in SUBSET Tasks
    OBVIOUS
  <1>2. \A t \in Tasks : InHand(call[t]) = f <=> t \in D
    BY <1>0 DEF InHand
  <1>3. \A r \in R : r \in A \/ r \in RB \/ r \in RC \/ r \in RD
    <2> SUFFICES ASSUME NEW r \in References, Refs[r] = f
                 PROVE  r \in A \/ r \in RB \/ r \in RC \/ r \in RD
      OBVIOUS
    <2>1. PICK t \in Tasks : \/ r = <<t, TABLE>> \/ r = <<t, PAGE>> \/ r = <<t, KEPT>>
                             \/ \E v \in Pages : r = <<t, v>>
      BY EachReference
    <2>2. CASE r = <<t, TABLE>>
      <3>1. t \in B
        BY <2>2, RefsOfTask
      <3> QED BY <2>2, <3>1
    <2>3. CASE r = <<t, PAGE>>
      <3>1. t \in C
        BY <2>3, RefsOfTask
      <3> QED BY <2>3, <3>1
    <2>4. CASE r = <<t, KEPT>>
      <3>1. InHand(call[t]) = f
        BY <2>4, RefsOfTask
      <3>2. t \in D
        BY <1>2, <3>1
      <3> QED BY <2>4, <3>2
    <2>5. ASSUME NEW v \in Pages, r = <<t, v>> PROVE r \in A
      <3>1. pte[t][v].frame = f
        BY <2>5, RefsOfTask
      <3> QED BY <2>5, <3>1 DEF EntriesOf, Entries
    <2> QED BY <2>1, <2>2, <2>3, <2>4, <2>5
  <1>4. A \subseteq R /\ RB \subseteq R /\ RC \subseteq R /\ RD \subseteq R
    <2>1. ASSUME NEW r \in A PROVE r \in R
      <3>1. PICK t \in Tasks, v \in Pages : r = <<t, v>> /\ pte[t][v].frame = f
        BY <2>1 DEF EntriesOf, Entries
      <3> QED BY <3>1, RefsOfTask
    <2>2. ASSUME NEW t \in B PROVE <<t, TABLE>> \in R
      BY <2>2, RefsOfTask
    <2>3. ASSUME NEW t \in C PROVE <<t, PAGE>> \in R
      BY <2>3, RefsOfTask
    <2>4. ASSUME NEW t \in D PROVE <<t, KEPT>> \in R
      <3>1. InHand(call[t]) = f
        BY <1>2, <2>4
      <3> QED BY <3>1, RefsOfTask
    <2> QED BY <2>1, <2>2, <2>3, <2>4
  <1>5. R = A \cup (RB \cup (RC \cup RD))
    BY <1>3, <1>4
  <1>6. RC \cap RD = {} /\ RB \cap (RC \cup RD) = {} /\ A \cap (RB \cup (RC \cup RD)) = {}
    <2>1. \A r \in RB : r[2] = TABLE
      OBVIOUS
    <2>2. \A r \in RC : r[2] = PAGE
      OBVIOUS
    <2>3. \A r \in RD : r[2] = KEPT
      OBVIOUS
    <2>4. \A r \in A : r[2] \in Pages
      BY DEF EntriesOf, Entries
    <2> HIDE DEF A, RB, RC, RD
    <2> QED BY <2>1, <2>2, <2>3, <2>4, ReferencesAre
  <1>7. C \cap D = {}
    <2> SUFFICES ASSUME NEW t \in Tasks, t \in C, t \in D PROVE FALSE
      OBVIOUS
    <2>1. <<t, PAGE>> \in R /\ <<t, KEPT>> \in R
      BY <1>4
    <2>2. <<t, PAGE>>[2] \notin Pages
      BY ReferencesAre
    <2>3. <<t, PAGE>> = <<t, KEPT>>
      BY <1>0, <2>1, <2>2, PartsOf DEF Exclusive
    <2> QED BY <2>3, ReferencesAre
  <1>8. Holders(f) = C \cup D
    BY DEF Holders
  <1>9. /\ IsFiniteSet(RB) /\ Cardinality(RB) = Cardinality(B)
        /\ IsFiniteSet(RC) /\ Cardinality(RC) = Cardinality(C)
        /\ IsFiniteSet(RD) /\ Cardinality(RD) = Cardinality(D)
    <2> HIDE DEF B, C, D
    <2> QED BY <1>1, SameNumber
  <1>10. IsFiniteSet(A) /\ IsFiniteSet(C) /\ IsFiniteSet(D) /\ IsFiniteSet(B)
    <2>1. A \subseteq References
      BY <1>4
    <2>2. IsFiniteSet(Tasks)
      BY DEF MemoryAssumption
    <2> HIDE DEF A, B, C, D
    <2> QED BY <1>1, <2>1, <2>2, ReferencesAre, FS_Subset
  <1>11. mem_map[f] = Cardinality(R)
    BY PartsOf DEF Counts
  <1> HIDE DEF A, B, C, D, RB, RC, RD, R
  <1>12. IsFiniteSet(RC \cup RD) /\ Cardinality(RC \cup RD) = Cardinality(C) + Cardinality(D)
    BY <1>6, <1>9, DisjointUnion
  <1>13. /\ IsFiniteSet(RB \cup (RC \cup RD))
         /\ Cardinality(RB \cup (RC \cup RD)) = Cardinality(B) + Cardinality(RC \cup RD)
    BY <1>6, <1>9, <1>12, DisjointUnion
  <1>14. Cardinality(R) = Cardinality(A) + Cardinality(RB \cup (RC \cup RD))
    BY <1>5, <1>6, <1>10, <1>13, DisjointUnion
  <1>15. Cardinality(Holders(f)) = Cardinality(C) + Cardinality(D)
    BY <1>7, <1>8, <1>10, DisjointUnion
  <1>16. Cardinality(A) \in Nat /\ Cardinality(B) \in Nat /\ Cardinality(C) \in Nat /\ Cardinality(D) \in Nat
    BY <1>10, FS_CardinalityType
  <1>17. mem_map[f] = Cardinality(A) + Cardinality(B) + Cardinality(Holders(f))
    BY <1>11, <1>12, <1>13, <1>14, <1>15, <1>16
  <1> QED BY <1>17 DEF A, B

LEMMA EverySlotHasAnOwner ==
  ASSUME MemoryAssumption, Inv, NEW nr \in Slots
  PROVE  Cardinality({e \in Entries : pte[e[1]][e[2]].slot = nr}) = IF nr \in swap_bitmap THEN 0 ELSE 1
  <1> DEFINE S == {e \in Entries : pte[e[1]][e[2]].slot = nr}
  <1>1. /\ \A t, u \in Tasks, v, w \in Pages :
             pte[t][v].slot # NONE /\ pte[t][v].slot = pte[u][w].slot => t = u /\ v = w
        /\ \A t \in Tasks, v \in Pages : pte[t][v].slot \notin swap_bitmap
        /\ \A n \in Slots \ swap_bitmap : \E t \in Tasks, v \in Pages : pte[t][v].slot = n
    BY PartsOf DEF SlotsOK
  <1>2. CASE nr \in swap_bitmap
    <2>1. S = {}
      BY <1>1, <1>2 DEF Entries
    <2> QED BY <1>2, <2>1, FS_EmptySet
  <1>3. CASE nr \notin swap_bitmap
    <2>1. PICK t \in Tasks, v \in Pages : pte[t][v].slot = nr
      BY <1>1, <1>3
    <2>2. nr # NONE
      BY PartsOf
    <2>3. \A u \in Tasks, w \in Pages : pte[u][w].slot = nr <=> u = t /\ w = v
      BY <1>1, <2>1, <2>2
    <2>4. S = {<<t, v>>}
      BY <2>3 DEF Entries
    <2>5. Cardinality({<<t, v>>}) = 1
      BY FS_Singleton
    <2> QED BY <1>3, <2>4, <2>5
  <1> QED BY <1>2, <1>3

-----------------------------------------------------------------------------
(* mem_map[f] is the number of entries, page tables and calls in the kernel
   that have the page f, unless an entry was used that had changed while its
   reader waited for memory. *)
THEOREM MapCounts == Spec => []MapCountsReferences
  <1>1. IInv => MapCountsReferences
    BY MemoryConstants, EveryReferenceIsCounted DEF IInv, MapCountsReferences
  <1> QED BY <1>1, IInvAlways, PTL

(* A slot of the swap device is in the bitmap or in one entry. *)
THEOREM SlotHasOneOwner == Spec => []SlotsHaveOneOwner
  <1>1. IInv => SlotsHaveOneOwner
    BY MemoryConstants, EverySlotHasAnOwner DEF IInv, SlotsHaveOneOwner
  <1> QED BY <1>1, IInvAlways, PTL

(* A page that may be dropped is as it was in the executable, unless un_wp_page
   has copied it and nobody has written to the copy: with the slots, swapping
   loses nothing else. *)
THEOREM SwappingIsExact == Spec => []SwapIsExact
  <1>1. IInv => SwapIsExact
    <2>1. IInv => SlotsHaveOneOwner
      BY MemoryConstants, EverySlotHasAnOwner DEF IInv, SlotsHaveOneOwner
    <2>2. ASSUME ~raced, IInv, NEW t \in Tasks, NEW v \in Pages,
                 MayDrop(pte[t][v]), pte[t][v].frame \notin copied
          PROVE  data[pte[t][v].frame] = Backing(v)
      BY <2>2 DEF IInv, Inv, CleanOK
    <2> QED BY <2>1, <2>2 DEF SwapIsExact, CleanIsReloadable
  <1> QED BY <1>1, IInvAlways, PTL

(* free_page is called for a free page only after such an entry was used. *)
THEOREM FreesUsedPages == Spec => [](panic => raced)
  <1>1. IInv => (panic => raced)
    BY DEF IInv, Inv
  <1> QED BY <1>1, IInvAlways, PTL

-----------------------------------------------------------------------------
(* Memory implements PrivateMemory. *)

(* Who has no page table has no pages. *)
TableOK(t) == table[t] = NONE => \A v \in Pages : pte[t][v] = Empty

(* A page that is being read from the swap device is what is in the slot. *)
Reading == {"read_swap_page", "copy_read"}
ReadOK(t) ==
  LET c == call[t] IN c.pc \in Reading => data[c.page] = disk[pte[t][c.v].slot]

(* Where copy_page_tables is: it has made the table, then copies one entry
   after the other. *)
PastTable == Copying \ {"copy_table"}
ForkOK(t) ==
  LET c == call[t] IN
  /\ Stage(c) = "copy_table" => c.v = NONE
  /\ Stage(c) \in PastTable => table[c.other] # NONE /\ (c.v \in Pages \/ c.v - 1 \in Pages)

SeenOK == \A t \in Tasks : TableOK(t) /\ ReadOK(t) /\ ForkOK(t)
SeenInv == ~raced /\ ~overtaken => SeenOK

(* A step that leaves the fork t is in, if any, where it is. *)
KeepsFork(t) ==
  \/ Stage(call[t]) \notin Copying /\ Stage(call'[t]) \notin Copying
  \/ /\ \/ Stage(call[t]) = Stage(call'[t])
        \/ Stage(call[t]) \in PastTable /\ Stage(call'[t]) \in PastTable
     /\ call'[t].v = call[t].v /\ call'[t].other = call[t].other
-----------------------------------------------------------------------------
(* An entry with the same page or slot, of the same content, holds the same. *)
LEMMA EntryKept ==
  ASSUME NEW u \in Tasks, NEW w \in Pages,
         pte'[u][w].frame = pte[u][w].frame, pte'[u][w].slot = pte[u][w].slot,
         pte[u][w].frame # NONE => data'[pte[u][w].frame] = data[pte[u][w].frame],
         pte[u][w].slot # NONE => disk'[pte[u][w].slot] = disk[pte[u][w].slot]
  PROVE  Holds(u, w)' = Holds(u, w)
  BY DEF Holds, Present

(* Who takes no part in a step, and whose pages stay what they are, goes on
   with what it knows. A child is only in the hands of its parent. *)
LEMMA OthersSeen ==
  ASSUME MemoryAssumption, Inv, SeenOK, NEW C \in SUBSET Tasks,
         \A x \in C : call[x].pc = "new" =>
           \E t \in C : Stage(call[t]) \in Copying /\ call[t].other = x,
         \A u \in Tasks \ C :
           /\ call'[u] = call[u]
           /\ call[u].page # NONE => data'[call[u].page] = data[call[u].page]
           /\ \/ table'[u] # NONE
              \/ table'[u] = table[u] /\ \A w \in Pages : pte[u][w] = Empty => pte'[u][w] = Empty
           /\ \A w \in Pages : pte[u][w].slot # NONE =>
                /\ pte'[u][w].slot = pte[u][w].slot
                /\ disk'[pte[u][w].slot] = disk[pte[u][w].slot]
  PROVE  \A u \in Tasks \ C : TableOK(u)' /\ ReadOK(u)' /\ ForkOK(u)'
  <1> SUFFICES ASSUME NEW u \in Tasks \ C PROVE TableOK(u)' /\ ReadOK(u)' /\ ForkOK(u)'
    OBVIOUS
  <1>0. /\ InKernelOK(u) /\ EntryIsAsRead(u) /\ ChildOK(u)
        /\ TableOK(u) /\ ReadOK(u) /\ ForkOK(u)
    BY PartsOf DEF SeenOK
  <1>1. TableOK(u)'
    BY <1>0 DEF TableOK
  <1>2. ASSUME call[u].pc \in Reading
        PROVE  data'[call[u].page] = disk'[pte'[u][call[u].v].slot]
    <2>1. Stage(call[u]) = call[u].pc /\ call[u].pc \in {"read_swap_page", "copy_read"}
      BY <1>2 DEF Stage, Reading
    <2>2. call[u].v \in Pages /\ call[u].page # NONE
      BY <1>0, <2>1 DEF InKernelOK, AtPage
    <2>3. pte[u][call[u].v].slot # NONE
      BY <1>0, <2>1 DEF EntryIsAsRead
    <2>4. data[call[u].page] = disk[pte[u][call[u].v].slot]
      BY <1>0, <1>2 DEF ReadOK
    <2> QED BY <2>2, <2>3, <2>4
  <1>3. ReadOK(u)'
    BY <1>2 DEF ReadOK
  <1>4. ASSUME Stage(call[u]) \in PastTable PROVE table'[call[u].other] # NONE
    <2>1. /\ Stage(call[u]) \in Copying /\ call[u].other \in Tasks /\ call[call[u].other].pc = "new"
          /\ \A x \in Tasks : Stage(call[x]) \in Copying /\ call[x].other = call[u].other => x = u
      BY <1>0, <1>4 DEF PastTable, ChildOK
    <2>2. call[u].other \in Tasks \ C
      BY <2>1
    <2>3. table[call[u].other] # NONE
      BY <1>0, <1>4 DEF ForkOK
    <2> QED BY <2>2, <2>3
  <1>5. ForkOK(u)'
    BY <1>0, <1>4 DEF ForkOK
  <1> QED BY <1>1, <1>3, <1>5

(* Only one task copies entries for a child, and nobody for anybody else. *)
LEMMA OneCopies ==
  ASSUME MemoryAssumption, Inv, NEW u \in Tasks, NEW w \in Pages
  PROVE  /\ CopiesFor(u, w) = {} \/ \E t \in Tasks : CopiesFor(u, w) = {t}
         /\ call[u].pc # "new" => CopiesFor(u, w) = {}
  <1>1. ASSUME NEW t \in CopiesFor(u, w)
        PROVE  t \in Tasks /\ call[u].pc = "new" /\ \A x \in CopiesFor(u, w) : x = t
    BY <1>1, PartsOf DEF CopiesFor, ChildOK
  <1> QED BY <1>1

(* What a task sees is what its entry holds, or its parent's during a fork. *)
LEMMA ContentIs ==
  ASSUME NEW u, NEW w, NEW x
  PROVE  /\ ~Alive(u) => Content(u, w) = Backing(w)
         /\ Alive(u) /\ CopiesFor(u, w) = {} => Content(u, w) = Holds(u, w)
         /\ Alive(u) /\ CopiesFor(u, w) = {x} => Content(u, w) = Holds(x, w)
         /\ ~Alive(u)' => Content(u, w)' = Backing(w)
         /\ Alive(u)' /\ CopiesFor(u, w)' = {} => Content(u, w)' = Holds(u, w)'
         /\ Alive(u)' /\ CopiesFor(u, w)' = {x} => Content(u, w)' = Holds(x, w)'
  <1>1. CopiesFor(u, w) = {x} => (CHOOSE t \in CopiesFor(u, w) : TRUE) = x
    OBVIOUS
  <1>2. CopiesFor(u, w)' = {x} => (CHOOSE t \in CopiesFor(u, w)' : TRUE) = x
    OBVIOUS
  <1> QED BY <1>1, <1>2 DEF Content

LEMMA ContentStays ==
  ASSUME MemoryAssumption, Inv, NEW u \in Tasks, NEW w \in Pages,
         Alive(u)' <=> Alive(u), CopiesFor(u, w)' = CopiesFor(u, w),
         \A x \in CopiesFor(u, w) \cup {u} : Holds(x, w)' = Holds(x, w)
  PROVE  Content(u, w)' = Content(u, w)
  <1>1. CASE ~Alive(u)
    BY <1>1, ContentIs
  <1>2. CASE Alive(u) /\ CopiesFor(u, w) = {}
    BY <1>2, ContentIs
  <1>3. ASSUME NEW x, Alive(u), CopiesFor(u, w) = {x} PROVE Content(u, w)' = Content(u, w)
    BY <1>3, ContentIs
  <1> QED BY <1>1, <1>2, <1>3, OneCopies

LEMMA SameCopies ==
  ASSUME NEW t \in Tasks, KeepsFork(t), \A x \in Tasks \ {t} : call'[x] = call[x]
  PROVE  \A u, w : CopiesFor(u, w)' = CopiesFor(u, w)
  <1>1. \A x \in Tasks : \A u, w :
          Stage(call'[x]) \in Copying /\ call'[x].other = u /\ call'[x].v <= w <=>
          Stage(call[x]) \in Copying /\ call[x].other = u /\ call[x].v <= w
    BY DEF KeepsFork, PastTable
  <1> QED BY <1>1 DEF CopiesFor

(* What can be seen is what the living hold. *)
LEMMA SameMemory ==
  ASSUME MemoryAssumption, Inv,
         \A u \in Tasks : Alive(u)' <=> Alive(u),
         \A u \in Tasks, w \in Pages : CopiesFor(u, w)' = CopiesFor(u, w),
         \A u \in Tasks, w \in Pages : Holds(u, w)' = Holds(u, w)
  PROVE  UNCHANGED Private!vars
  <1>1. \A u \in Tasks, w \in Pages : Content(u, w)' = Content(u, w)
    <2> SUFFICES ASSUME NEW u \in Tasks, NEW w \in Pages PROVE Content(u, w)' = Content(u, w)
      OBVIOUS
    <2>1. CopiesFor(u, w) \subseteq Tasks
      BY DEF CopiesFor
    <2> QED BY <2>1, ContentStays
  <1> QED BY <1>1 DEF Private!vars

(* A step of one task that leaves what all entries hold as it is. *)
LEMMA QuietSeen ==
  ASSUME MemoryAssumption, Inv, SeenOK, NEW t \in Tasks,
         call[t].pc \notin {"new", "unused"}, call'[t].pc \notin {"new", "unused"},
         \A u \in Tasks \ {t} : /\ call'[u] = call[u]
                                /\ call[u].page # NONE => data'[call[u].page] = data[call[u].page],
         \A u \in Tasks :
           \/ table'[u] # NONE
           \/ table'[u] = table[u] /\ \A w \in Pages : pte[u][w] = Empty => pte'[u][w] = Empty,
         \A u \in Tasks, w \in Pages : Holds(u, w)' = Holds(u, w),
         \A u \in Tasks \ {t}, w \in Pages : pte[u][w].slot # NONE =>
           pte'[u][w].slot = pte[u][w].slot /\ disk'[pte[u][w].slot] = disk[pte[u][w].slot],
         call'[t].pc \in Reading => ReadOK(t)', KeepsFork(t)
  PROVE  SeenOK' /\ UNCHANGED Private!vars
  <1> DEFINE C == {t}
  <1>1. C \in SUBSET Tasks /\ \A x \in C : call[x].pc # "new"
    OBVIOUS
  <1>2. \A u \in Tasks \ C :
          /\ call'[u] = call[u]
          /\ call[u].page # NONE => data'[call[u].page] = data[call[u].page]
          /\ \/ table'[u] # NONE
             \/ table'[u] = table[u] /\ \A w \in Pages : pte[u][w] = Empty => pte'[u][w] = Empty
          /\ \A w \in Pages : pte[u][w].slot # NONE =>
                    /\ pte'[u][w].slot = pte[u][w].slot
                    /\ disk'[pte[u][w].slot] = disk[pte[u][w].slot]
    OBVIOUS
  <1>3. \A u \in Tasks \ C : TableOK(u)' /\ ReadOK(u)' /\ ForkOK(u)'
    <2> HIDE DEF C
    <2> QED BY <1>1, <1>2, OthersSeen
  <1>4. TableOK(t)'
    <2>1. TableOK(t)
      BY DEF SeenOK
    <2> QED BY <2>1 DEF TableOK
  <1>5. ReadOK(t)'
    BY DEF ReadOK
  <1>6. ASSUME Stage(call'[t]) \in PastTable PROVE table'[call'[t].other] # NONE
    <2>1. /\ ForkOK(t) /\ ChildOK(t) /\ Stage(call[t]) \in PastTable /\ call'[t].other = call[t].other
      BY <1>6, PartsOf DEF SeenOK, KeepsFork, PastTable
    <2>2. call[t].other \in Tasks /\ table[call[t].other] # NONE
      BY <2>1 DEF ForkOK, ChildOK, PastTable
    <2>3. table'[call[t].other] # NONE
      BY <2>2
    <2> QED BY <2>1, <2>3
  <1>7. ForkOK(t)'
    <2>1. ForkOK(t)
      BY DEF SeenOK
    <2> QED BY <1>6, <2>1 DEF ForkOK, KeepsFork, PastTable, Copying
  <1>8. SeenOK'
    BY <1>3, <1>4, <1>5, <1>7 DEF SeenOK
  <1>9. \A u \in Tasks : Alive(u)' <=> Alive(u)
    BY DEF Alive
  <1>10. \A u \in Tasks, w \in Pages : CopiesFor(u, w)' = CopiesFor(u, w)
    BY SameCopies
  <1> QED BY <1>8, <1>9, <1>10, SameMemory

-----------------------------------------------------------------------------
(* A page in hand is in no entry and in nobody else's hand. *)
LEMMA OnlyInHand ==
  ASSUME MemoryAssumption, Inv, NEW t \in Tasks, call[t].page # NONE, NEW x,
         data' = [data EXCEPT ![call[t].page] = x]
  PROVE  /\ data'[call[t].page] = x
         /\ \A f \in Frames \ {call[t].page} : data'[f] = data[f]
         /\ \A u \in Tasks, w \in Pages :
              pte[u][w].frame # NONE => data'[pte[u][w].frame] = data[pte[u][w].frame]
         /\ \A u \in Tasks \ {t} : call[u].page # NONE => data'[call[u].page] = data[call[u].page]
  <1>1. DOMAIN data = Frames /\ call[t].page \in Frames
    BY PartsOf, Typed DEF MemoryTypeOK
  <1>2. data'[call[t].page] = x /\ \A f \in Frames \ {call[t].page} : data'[f] = data[f]
    BY <1>1
  <1>3. ASSUME NEW u \in Tasks, NEW w \in Pages, pte[u][w].frame # NONE
        PROVE  data'[pte[u][w].frame] = data[pte[u][w].frame]
    <2>1. pte[u][w].frame \in Frames /\ pte[u][w].frame # call[t].page
      BY <1>3, PartsOf, Typed, PageIsAlone
    <2> QED BY <1>2, <2>1
  <1>4. ASSUME NEW u \in Tasks \ {t}, call[u].page # NONE
        PROVE  data'[call[u].page] = data[call[u].page]
    <2>1. call[u].page \in Frames /\ call[u].page # call[t].page
      BY <1>4, PartsOf, Typed, PageIsAlone
    <2> QED BY <1>2, <2>1
  <1> QED BY <1>2, <1>3, <1>4

(* What a call that asks for a page is in goes on when it has one, or none. *)
LEMMA GetterGoesOn ==
  ASSUME MemoryAssumption, Inv, NEW t \in Tasks, call[t].pc = "get_free_page", NEW p,
         call' = [call EXCEPT ![t] = [call[t] EXCEPT !.pc = call[t].ret, !.page = p]]
  PROVE  /\ call[t].pc \notin {"new", "unused"} /\ call'[t].pc \notin {"new", "unused"} \cup Reading
         /\ \A u \in Tasks \ {t} : call'[u] = call[u]
         /\ KeepsFork(t)
  <1>1. call \in [Tasks -> Calls] /\ call[t].ret \in Getters
    BY PartsOf DEF InKernelOK
  <1>2. /\ call'[t] = [call[t] EXCEPT !.pc = call[t].ret, !.page = p]
        /\ \A u \in Tasks \ {t} : call'[u] = call[u]
    BY <1>1
  <1>3. /\ call'[t].pc = call[t].ret /\ call'[t].ret = call[t].ret
        /\ call'[t].v = call[t].v /\ call'[t].other = call[t].other
    BY <1>1, <1>2 DEF Calls
  <1> QED BY <1>1, <1>2, <1>3 DEF Getters, Reading, Stage, KeepsFork

LEMMA TakeFreeSeen ==
  ASSUME MemoryAssumption, Inv, SeenOK, NEW t \in Tasks, TakeFree(t)
  PROVE  SeenOK' /\ UNCHANGED Private!vars
  <1> DEFINE free == {f \in Frames : mem_map[f] = 0}
  <1>1. PICK f \in Frames : f \in free /\ f = Max(free)
    <2>1. free \subseteq 1..NrFrames /\ free # {} /\ NrFrames \in Nat
      BY DEF TakeFree, Frames, MemoryAssumption
    <2> HIDE DEF free
    <2>2. Max(free) \in free
      BY <2>1, GreatestIs
    <2> QED BY <2>1, <2>2 DEF Frames
  <1>2. /\ call[t].pc = "get_free_page" /\ mem_map[f] = 0 /\ data' = [data EXCEPT ![f] = "zero"]
        /\ call' = [call EXCEPT ![t] = [call[t] EXCEPT !.pc = call[t].ret, !.page = f]]
        /\ UNCHANGED <<table, pte, disk>>
    BY <1>1 DEF TakeFree, Runs, Enter
  <1>3. \A u \in Tasks : call[u].page # f /\ \A w \in Pages : pte[u][w].frame # f
    BY <1>2, PartsOf, FreeIsNobodys
  <1>4. \A g \in Frames \ {f} : data'[g] = data[g]
    BY <1>2, PartsOf DEF MemoryTypeOK
  <1>5. ASSUME NEW u \in Tasks, NEW w \in Pages PROVE Holds(u, w)' = Holds(u, w)
    <2>1. pte[u][w].frame # NONE => data'[pte[u][w].frame] = data[pte[u][w].frame]
      BY <1>3, <1>4, PartsOf, Typed
    <2> QED BY <1>2, <2>1, EntryKept
  <1>6. ASSUME NEW u \in Tasks, call[u].page # NONE PROVE data'[call[u].page] = data[call[u].page]
    BY <1>3, <1>4, <1>6, PartsOf, Typed
  <1>7. /\ call[t].pc \notin {"new", "unused"} /\ call'[t].pc \notin {"new", "unused"} \cup Reading
        /\ \A u \in Tasks \ {t} : call'[u] = call[u]
        /\ KeepsFork(t)
    BY <1>2, GetterGoesOn
  <1> QED BY <1>2, <1>5, <1>6, <1>7, QuietSeen

(* A step that only moves a call on. *)
LEMMA MoveSeen ==
  ASSUME MemoryAssumption, Inv, SeenOK, NEW t \in Tasks, UNCHANGED <<table, pte, data, disk>>,
         call[t].pc \notin {"new", "unused"}, call'[t].pc \notin {"new", "unused"} \cup Reading,
         \A u \in Tasks \ {t} : call'[u] = call[u], KeepsFork(t)
  PROVE  SeenOK' /\ UNCHANGED Private!vars
  <1>1. \A u \in Tasks, w \in Pages : Holds(u, w)' = Holds(u, w)
    BY DEF Holds
  <1> QED BY <1>1, QuietSeen

LEMMA SwappedOutSeen ==
  ASSUME MemoryAssumption, Inv, SeenOK, NEW t \in Tasks, SwappedOut(t) \/ NoPage(t)
  PROVE  SeenOK' /\ UNCHANGED Private!vars
  <1>1. CASE SwappedOut(t)
    <2>1. /\ call[t].pc = "swap_out" /\ UNCHANGED <<table, pte, data, disk>>
          /\ call' = [call EXCEPT ![t] = [call[t] EXCEPT !.pc = "get_free_page", !.page = NONE,
                                                  !.slot = NONE]]
      BY <1>1 DEF SwappedOut, Wakes, Enter, history
    <2>2. /\ call'[t] = [call[t] EXCEPT !.pc = "get_free_page", !.page = NONE, !.slot = NONE]
          /\ call[t] \in Calls /\ \A u \in Tasks \ {t} : call'[u] = call[u]
      BY <2>1, PartsOf
    <2>3. /\ call'[t].pc = "get_free_page" /\ call'[t].ret = call[t].ret
          /\ call'[t].v = call[t].v /\ call'[t].other = call[t].other
      BY <2>2 DEF Calls
    <2>4. KeepsFork(t)
      BY <2>1, <2>3 DEF Stage, KeepsFork
    <2> QED BY <2>1, <2>2, <2>3, <2>4, MoveSeen DEF Reading
  <1>2. CASE NoPage(t)
    <2>1. /\ call[t].pc = "get_free_page" /\ UNCHANGED <<table, pte, data, disk>>
          /\ call' = [call EXCEPT ![t] = [call[t] EXCEPT !.pc = call[t].ret, !.page = NONE]]
      BY <1>2 DEF NoPage, Runs, Enter, pages
    <2>2. /\ call[t].pc \notin {"new", "unused"} /\ call'[t].pc \notin {"new", "unused"} \cup Reading
          /\ \A u \in Tasks \ {t} : call'[u] = call[u]
          /\ KeepsFork(t)
      BY <2>1, GetterGoesOn
    <2> QED BY <2>1, <2>2, MoveSeen
  <1> QED BY <1>1, <1>2

(* What may be dropped can be had again, if it is no copy. *)
LEMMA DropSeen ==
  ASSUME MemoryAssumption, Inv, SeenOK, NEW t \in Tasks, NEW x \in Tasks, NEW v \in Pages,
         Drop(t, x, v)
  PROVE  SeenOK' /\ (DropsCopy(t) \/ UNCHANGED Private!vars)
  <1>1. /\ call[t].pc = "get_free_page" /\ running = t /\ MayDrop(pte[x][v])
        /\ pte' = [pte EXCEPT ![x][v] = Empty] /\ UNCHANGED <<table, data, disk, call>>
    BY DEF Drop, Runs
  <1>2. /\ Empty.frame = NONE /\ Empty.slot = NONE /\ pte'[x][v] = Empty
        /\ \A u \in Tasks, w \in Pages : (u = x /\ w = v) \/ pte'[u][w] = pte[u][w]
    BY <1>1, PartsOf, SMTT(60)
  <1>3. Present(pte[x][v]) /\ pte[x][v].slot = NONE
    <2>1. Present(pte[x][v])
      BY <1>1 DEF MayDrop
    <2> QED BY <2>1, FrameOfEntry, ZenonT(60)
  <1>4. \A u \in Tasks, w \in Pages :
          /\ pte[u][w] = Empty => pte'[u][w] = Empty
          /\ pte[u][w].slot # NONE => pte'[u][w].slot = pte[u][w].slot
    BY <1>2, <1>3
  <1>5. SeenOK'
    <2> DEFINE C == {}
    <2>1. \A u \in Tasks \ C :
            /\ call'[u] = call[u]
            /\ call[u].page # NONE => data'[call[u].page] = data[call[u].page]
            /\ \/ table'[u] # NONE
               \/ table'[u] = table[u] /\ \A w \in Pages : pte[u][w] = Empty => pte'[u][w] = Empty
            /\ \A w \in Pages : pte[u][w].slot # NONE =>
                 /\ pte'[u][w].slot = pte[u][w].slot
                 /\ disk'[pte[u][w].slot] = disk[pte[u][w].slot]
      BY <1>1, <1>4
    <2>2. \A u \in Tasks \ C : TableOK(u)' /\ ReadOK(u)' /\ ForkOK(u)'
      BY <2>1, OthersSeen
    <2> QED BY <2>2 DEF SeenOK
  <1>6. CASE pte[x][v].frame \in copied
    BY <1>5, <1>6 DEF DropsCopy
  <1>7. CASE pte[x][v].frame \notin copied
    <2>1. data[pte[x][v].frame] = Backing(v)
      BY <1>1, <1>7, PartsOf DEF CleanOK
    <2>2. Holds(x, v)' = Holds(x, v)
      BY <1>2, <1>3, <2>1 DEF Holds, Present
    <2>3. \A u \in Tasks, w \in Pages : (u = x /\ w = v) \/ Holds(u, w)' = Holds(u, w)
      BY <1>1, <1>2 DEF Holds
    <2>4. \A u \in Tasks, w \in Pages : Holds(u, w)' = Holds(u, w) /\ CopiesFor(u, w)' = CopiesFor(u, w)
      BY <1>1, <2>2, <2>3 DEF CopiesFor
    <2>5. \A u \in Tasks : Alive(u)' <=> Alive(u)
      BY <1>1 DEF Alive
    <2> QED BY <1>5, <2>4, <2>5, SameMemory
  <1> QED BY <1>6, <1>7

(* A page that is swapped out was one task's only, and its slot nobody's. *)
LEMMA SwapOutSeen ==
  ASSUME MemoryAssumption, Inv, SeenOK, NEW t \in Tasks, NEW x \in Tasks, NEW v \in Pages,
         SwapOut(t, x, v), ~overtaken'
  PROVE  SeenOK' /\ UNCHANGED Private!vars
  <1>1. PICK nr \in swap_bitmap : nr = Min(swap_bitmap)
    <2>1. swap_bitmap # {} /\ swap_bitmap \subseteq Nat
      BY PartsOf DEF SwapOut, MaySwap, MemoryTypeOK, MemoryAssumption
    <2> QED BY <2>1, LeastIs
  <1>2. /\ call[t].pc = "get_free_page" /\ Present(pte[x][v])
        /\ disk' = [disk EXCEPT ![nr] = data[pte[x][v].frame]]
        /\ pte' = [pte EXCEPT ![x][v] = InSlot(nr)]
        /\ call' = [call EXCEPT ![t] = [call[t] EXCEPT !.pc = "swap_out", !.page = pte[x][v].frame,
                                              !.slot = nr]]
        /\ UNCHANGED <<table, data>>
    BY <1>1 DEF SwapOut, Runs, MaySwap, Sleep, InOrder
  <1>3. nr \in Slots /\ nr # NONE /\ \A u \in Tasks, w \in Pages : pte[u][w].slot # nr
    BY PartsOf DEF SlotsOK, MemoryTypeOK
  <1>4. disk'[nr] = data[pte[x][v].frame] /\ \A s \in Slots \ {nr} : disk'[s] = disk[s]
    BY <1>2, <1>3, PartsOf DEF MemoryTypeOK
  <1>5. /\ InSlot(nr).frame = NONE /\ InSlot(nr).slot = nr /\ pte'[x][v] = InSlot(nr)
        /\ \A u \in Tasks, w \in Pages : (u = x /\ w = v) \/ pte'[u][w] = pte[u][w]
    BY <1>2, PartsOf, SMTT(60) DEF InSlot, Empty
  <1>6. pte[x][v].slot = NONE /\ pte[x][v] # Empty
    BY <1>2, FrameOfEntry
  <1>7. Holds(x, v)' = Holds(x, v)
    BY <1>2, <1>3, <1>4, <1>5 DEF Holds, Present
  <1>8. ASSUME NEW u \in Tasks, NEW w \in Pages, pte[u][w].slot # NONE
        PROVE  disk'[pte[u][w].slot] = disk[pte[u][w].slot] /\ pte'[u][w].slot = pte[u][w].slot
    <2>1. pte[u][w].slot \in Slots
      BY <1>8, PartsOf, Typed DEF PageEntry
    <2> QED BY <1>3, <1>4, <1>5, <1>6, <1>8, <2>1
  <1>9. ASSUME NEW u \in Tasks, NEW w \in Pages PROVE Holds(u, w)' = Holds(u, w)
    <2>1. CASE u = x /\ w = v
      BY <1>7, <2>1
    <2>2. CASE ~(u = x /\ w = v)
      <3>1. pte'[u][w] = pte[u][w]
        BY <1>5, <2>2
      <3> QED BY <1>2, <1>8, <3>1, EntryKept
    <2> QED BY <2>1, <2>2
  <1>10. \A u \in Tasks :
           \/ table'[u] # NONE
           \/ table'[u] = table[u] /\ \A w \in Pages : pte[u][w] = Empty => pte'[u][w] = Empty
    BY <1>2, <1>5, <1>6
  <1>11. /\ call'[t] = [call[t] EXCEPT !.pc = "swap_out", !.page = pte[x][v].frame, !.slot = nr]
         /\ call[t] \in Calls /\ \A u \in Tasks \ {t} : call'[u] = call[u]
    BY <1>2, PartsOf
  <1>12. /\ call'[t].pc = "swap_out" /\ call'[t].ret = call[t].ret
         /\ call'[t].v = call[t].v /\ call'[t].other = call[t].other
    BY <1>11 DEF Calls
  <1>13. KeepsFork(t)
    BY <1>2, <1>12 DEF Stage, KeepsFork
  <1> QED BY <1>2, <1>8, <1>9, <1>10, <1>11, <1>12, <1>13, QuietSeen DEF Reading

LEMMA GetPageSeen ==
  ASSUME MemoryAssumption, Inv, SeenOK, NEW t \in Tasks, GetPage(t), ~overtaken'
  PROVE  SeenOK' /\ (DropsCopy(t) \/ UNCHANGED Private!vars)
  BY TakeFreeSeen, SwappedOutSeen, DropSeen, SwapOutSeen DEF GetPage

-----------------------------------------------------------------------------
(* Faults. *)
LEMMA NoPageFaultSeen ==
  ASSUME MemoryAssumption, Inv, SeenOK, NEW t \in Tasks, NEW v \in Pages, NoPageFault(t, v)
  PROVE  SeenOK' /\ UNCHANGED Private!vars
  <1>1. call[t].pc = "user" /\ UNCHANGED <<table, pte, data, disk>> /\ call \in [Tasks -> Calls]
    BY PartsOf DEF NoPageFault, Wakes, pages
  <1>2. PICK d : /\ call' = [call EXCEPT ![t] = d]
                 /\ \/ d.pc = "get_free_page" /\ d.ret \in {"swap_in", "put_page", "load", "share"}
                    \/ d.pc = "share"
    <2> DEFINE c == [At("user") EXCEPT !.v = v]
               gets(then, x) == [x EXCEPT !.pc = "get_free_page", !.ret = then]
               found(u) == [c EXCEPT !.other = u, !.kept = pte[u][v].frame, !.from = table[u]]
    <2>1. \A then : GetFreePage(t, then, c) =>
            /\ call' = [call EXCEPT ![t] = gets(then, c)]
            /\ gets(then, c).pc = "get_free_page" /\ gets(then, c).ret = then
      BY DEF GetFreePage, Enter, At
    <2>2. \A u : GetFreePage(t, "share", found(u)) =>
            /\ call' = [call EXCEPT ![t] = gets("share", found(u))]
            /\ gets("share", found(u)).pc = "get_free_page" /\ gets("share", found(u)).ret = "share"
      BY DEF GetFreePage, Enter, At
    <2>3. \A u : Enter(t, [found(u) EXCEPT !.pc = "share"]) =>
            /\ call' = [call EXCEPT ![t] = [found(u) EXCEPT !.pc = "share"]]
            /\ [found(u) EXCEPT !.pc = "share"].pc = "share"
      BY DEF Enter, At
    <2>4. \/ GetFreePage(t, "swap_in", c) \/ GetFreePage(t, "put_page", c) \/ GetFreePage(t, "load", c)
          \/ \E u \in Sharers(t, v) :
               GetFreePage(t, "share", found(u)) \/ Enter(t, [found(u) EXCEPT !.pc = "share"])
      BY DEF NoPageFault
    <2> HIDE DEF c, gets, found
    <2> QED BY <2>1, <2>2, <2>3, <2>4
  <1>3. call'[t] = d /\ \A u \in Tasks \ {t} : call'[u] = call[u]
    BY <1>1, <1>2
  <1>4. KeepsFork(t)
    BY <1>1, <1>2, <1>3 DEF Stage, KeepsFork, Copying
  <1> QED BY <1>1, <1>2, <1>3, <1>4, MoveSeen, SMTT(60) DEF Reading

LEMMA UnWpPageSeen ==
  ASSUME MemoryAssumption, Inv, SeenOK, NEW t \in Tasks, NEW v \in Pages, UnWpPage(t, v)
  PROVE  SeenOK' /\ UNCHANGED Private!vars
  <1>1. /\ call[t].pc = "user" /\ Present(pte[t][v]) /\ call \in [Tasks -> Calls]
        /\ pte \in [Tasks -> [Pages -> PageEntry]] /\ UNCHANGED <<table, data, disk>>
    BY PartsOf DEF UnWpPage, Wakes, pages
  <1>2. CASE mem_map[pte[t][v].frame] = 1
    <2> DEFINE e == [pte[t][v] EXCEPT !.rw = TRUE]
    <2>1. call' = call /\ pte' = [pte EXCEPT ![t][v] = e]
      BY <1>2 DEF UnWpPage
    <2>2. pte[t][v] \in PageEntry /\ e.frame = pte[t][v].frame /\ e.slot = pte[t][v].slot
      BY <1>1 DEF PageEntry
    <2> HIDE DEF e
    <2>3. \A u \in Tasks, w \in Pages :
            /\ pte'[u][w].frame = pte[u][w].frame /\ pte'[u][w].slot = pte[u][w].slot
            /\ (u = t /\ w = v) \/ pte'[u][w] = pte[u][w]
      BY <1>1, <2>1, <2>2
    <2>4. \A u \in Tasks, w \in Pages : Holds(u, w)' = Holds(u, w)
      BY <1>1, <2>3, EntryKept, SMTT(60)
    <2>5. pte[t][v] # Empty
      BY <1>1, FrameOfEntry
    <2>6. KeepsFork(t)
      BY <2>1 DEF KeepsFork
    <2> QED BY <1>1, <2>1, <2>3, <2>4, <2>5, <2>6, QuietSeen, SMTT(60) DEF Reading
  <1>3. CASE mem_map[pte[t][v].frame] # 1
    <2> DEFINE d == [pc |-> "get_free_page", ret |-> "copy_page", v |-> v, page |-> NONE,
                     kept |-> pte[t][v].frame, other |-> NONE, from |-> NONE, slot |-> NONE]
    <2>1. call' = [call EXCEPT ![t] = d] /\ UNCHANGED pte
      BY <1>3 DEF UnWpPage, GetFreePage, Enter, At, pages
    <2>2. call'[t] = d /\ \A u \in Tasks \ {t} : call'[u] = call[u]
      BY <1>1, <2>1
    <2>3. call'[t].pc = "get_free_page" /\ call'[t].ret = "copy_page"
      BY <2>2
    <2>4. KeepsFork(t)
      BY <1>1, <2>3 DEF Stage, KeepsFork, Copying
    <2> HIDE DEF d
    <2> QED BY <1>1, <2>1, <2>2, <2>3, <2>4, MoveSeen DEF Reading
  <1> QED BY <1>2, <1>3

(* What the page of another task has is what the executable has, if it has not
   been written meanwhile and is no copy. *)
LEMMA TryToShareSeen ==
  ASSUME MemoryAssumption, Inv, SeenOK, NEW t \in Tasks, TryToShare(t), ~raced',
         table[t] # NONE \/ call[t].page # NONE
  PROVE  SeenOK' /\ (SharesChanged(t) \/ UNCHANGED Private!vars)
  <1>1. PICK v \in Pages : v = call[t].v
    BY PartsOf DEF TryToShare, Runs, InKernelOK, Stage, AtPage
  <1>2. PICK x \in Tasks \ {t} : x = call[t].other
    BY PartsOf DEF TryToShare, Runs, InKernelOK, Stage
  <1> DEFINE e == pte[x][v]
             n == ReadOnly(e)
  <1>3. /\ call[t].pc = "share" /\ running = t /\ call[t].kept # NONE /\ e.frame = call[t].kept
        /\ pte[t][v] = Empty /\ e \in PageEntry /\ Present(e)
    <2>1. call[t].pc = "share" /\ running = t
      BY DEF TryToShare, Runs
    <2>2. call[t].kept # NONE /\ pte[t][v] = Empty
      BY <1>1, <2>1, PartsOf DEF InKernelOK, EntryIsAsRead, Stage
    <2>3. e.frame = call[t].kept
      BY <1>1, <1>2 DEF TryToShare
    <2>4. e \in PageEntry
      BY PartsOf
    <2> HIDE DEF e
    <2> QED BY <2>1, <2>2, <2>3, <2>4 DEF Present
  <1>4. /\ table' = [table EXCEPT ![t] = IF table[t] = NONE THEN call[t].page ELSE table[t]]
        /\ pte' = [pte EXCEPT ![x][v] = n, ![t][v] = n]
        /\ call' = [call EXCEPT ![t] = At("user")] /\ UNCHANGED <<data, disk>>
    BY <1>1, <1>2, <1>3 DEF TryToShare, Return, Sleep, ReadOnly
  <1>5. n.frame = e.frame /\ n.slot = e.slot /\ e.slot = NONE /\ n # Empty /\ e # Empty
    <2>1. n.frame = e.frame /\ n.slot = e.slot
      BY <1>3, ReadOnlyIs
    <2> HIDE DEF n
    <2>2. e.slot = NONE /\ e # Empty /\ Empty.frame = NONE
      BY <1>3, FrameOfEntry, PartsOf, ZenonT(60)
    <2> QED BY <1>3, <2>1, <2>2 DEF Present
  <1> HIDE DEF n
  <1>6. /\ pte'[x][v] = n /\ pte'[t][v] = n
        /\ \A u \in Tasks, w \in Pages : (w = v /\ u \in {t, x}) \/ pte'[u][w] = pte[u][w]
    BY <1>2, <1>4, PartsOf
  <1>7. /\ call'[t] = At("user") /\ (\A u \in Tasks \ {t} : call'[u] = call[u])
        /\ At("user").pc = "user"
    BY <1>4, PartsOf DEF At
  <1>8. \A u \in Tasks :
          \/ table'[u] # NONE
          \/ table'[u] = table[u] /\ \A w \in Pages : pte[u][w] = Empty => pte'[u][w] = Empty
    <2>1. table'[t] # NONE /\ \A u \in Tasks \ {t} : table'[u] = table[u]
      BY <1>4, PartsOf
    <2>2. \A u \in Tasks \ {t}, w \in Pages : pte[u][w] = Empty => pte'[u][w] = Empty
      BY <1>5, <1>6
    <2>3. ASSUME NEW u \in Tasks \ {t}
          PROVE  table'[u] = table[u] /\ \A w \in Pages : pte[u][w] = Empty => pte'[u][w] = Empty
      BY <2>1, <2>2
    <2> QED BY <2>1, <2>3
  <1>9. \A u \in Tasks, w \in Pages : (u = t /\ w = v) \/ Holds(u, w)' = Holds(u, w)
    <2>1. \A u \in Tasks, w \in Pages : (u = t /\ w = v) \/
            (pte'[u][w].frame = pte[u][w].frame /\ pte'[u][w].slot = pte[u][w].slot)
      BY <1>5, <1>6
    <2> QED BY <1>4, <2>1, EntryKept
  <1>10. \A u \in Tasks \ {t}, w \in Pages : pte[u][w].slot # NONE => pte'[u][w].slot = pte[u][w].slot
    BY <1>5, <1>6
  <1>11. KeepsFork(t) /\ Stage(call'[t]) \notin Copying
    BY <1>3, <1>7 DEF Stage, KeepsFork, Copying
  <1>12. CASE e.dirty \/ e.frame \in copied
    <2>1. SharesChanged(t)
      BY <1>1, <1>2, <1>12 DEF SharesChanged
    <2> DEFINE C == {t}
    <2>2. \A u \in Tasks \ C : TableOK(u)' /\ ReadOK(u)' /\ ForkOK(u)'
      <3>1. C \in SUBSET Tasks /\ \A y \in C : call[y].pc # "new"
        BY <1>3
      <3>2. \A u \in Tasks \ C :
              /\ call'[u] = call[u]
              /\ call[u].page # NONE => data'[call[u].page] = data[call[u].page]
              /\ \/ table'[u] # NONE
                 \/ table'[u] = table[u] /\ \A w \in Pages : pte[u][w] = Empty => pte'[u][w] = Empty
              /\ \A w \in Pages : pte[u][w].slot # NONE =>
                        /\ pte'[u][w].slot = pte[u][w].slot
                        /\ disk'[pte[u][w].slot] = disk[pte[u][w].slot]
        BY <1>4, <1>7, <1>8, <1>9, <1>10, ZenonT(60)
      <3> HIDE DEF C
      <3> QED BY <3>1, <3>2, OthersSeen
    <2>3. TableOK(t)'
      BY <1>3, <1>4, PartsOf DEF TableOK
    <2>4. ReadOK(t)' /\ ForkOK(t)'
      BY <1>7, <1>11 DEF ReadOK, ForkOK, Reading, PastTable, Copying
    <2> QED BY <2>1, <2>2, <2>3, <2>4 DEF SeenOK
  <1>13. CASE ~e.dirty /\ e.frame \notin copied
    <2>1. data[e.frame] = Backing(v)
      BY <1>3, <1>13, PartsOf DEF CleanOK, MayDrop
    <2>2. Holds(t, v) = Backing(v)
      BY <1>3, PartsOf DEF Holds, Present
    <2>3. Holds(t, v)' = data[e.frame]
      BY <1>3, <1>4, <1>5, <1>6 DEF Holds, Present
    <2>4. \A u \in Tasks, w \in Pages : Holds(u, w)' = Holds(u, w)
      BY <1>9, <2>1, <2>2, <2>3
    <2>5. \A u \in Tasks \ {t}, w \in Pages : pte[u][w].slot # NONE =>
            pte'[u][w].slot = pte[u][w].slot /\ disk'[pte[u][w].slot] = disk[pte[u][w].slot]
      BY <1>4, <1>10
    <2>6. \A u \in Tasks \ {t} : /\ call'[u] = call[u]
                                 /\ call[u].page # NONE => data'[call[u].page] = data[call[u].page]
      BY <1>4, <1>7
    <2>7. /\ call[t].pc \notin {"new", "unused"}
          /\ call'[t].pc \notin {"new", "unused"} /\ call'[t].pc \notin Reading
      BY <1>3, <1>7 DEF Reading
    <2> HIDE DEF e
    <2> QED BY <1>8, <1>11, <2>4, <2>5, <2>6, <2>7, QuietSeen
  <1> QED BY <1>12, <1>13

-----------------------------------------------------------------------------
(* The rest of a fault, when there is memory. *)

(* What is in an entry keeps its content. *)
KeepsContent ==
  \A u \in Tasks, w \in Pages :
    /\ pte[u][w].frame # NONE => data'[pte[u][w].frame] = data[pte[u][w].frame]
    /\ pte[u][w].slot # NONE => disk'[pte[u][w].slot] = disk[pte[u][w].slot]

(* An entry that is set to a page of the same content. *)
LEMMA EntryMoves ==
  ASSUME MemoryAssumption, Inv, NEW t \in Tasks, NEW v \in Pages, NEW e,
         pte' = [pte EXCEPT ![t][v] = e], e.frame # NONE, data'[e.frame] = Holds(t, v), KeepsContent
  PROVE  /\ \A u \in Tasks, w \in Pages : Holds(u, w)' = Holds(u, w)
         /\ \A u \in Tasks \ {t}, w \in Pages : pte'[u][w] = pte[u][w]
  <1>1. /\ pte'[t][v] = e
        /\ \A u \in Tasks, w \in Pages : (u = t /\ w = v) \/ pte'[u][w] = pte[u][w]
    BY PartsOf
  <1>2. Holds(t, v)' = Holds(t, v)
    BY <1>1 DEF Holds, Present
  <1>3. ASSUME NEW u \in Tasks, NEW w \in Pages PROVE Holds(u, w)' = Holds(u, w)
    <2>1. CASE u = t /\ w = v
      BY <1>2, <2>1
    <2>2. CASE ~(u = t /\ w = v)
      BY <1>1, <2>2, EntryKept DEF KeepsContent
    <2> QED BY <2>1, <2>2
  <1> QED BY <1>1, <1>3

LEMMA PutPageSeen ==
  ASSUME MemoryAssumption, Inv, SeenOK, NEW t \in Tasks, PutPage(t), call[t].page # NONE
  PROVE  SeenOK' /\ UNCHANGED Private!vars
  <1>1. PICK v \in Pages : v = call[t].v
    BY PartsOf DEF PutPage, Runs, InKernelOK, Stage, AtPage
  <1>2. /\ call[t].pc = "put_page" /\ Stage(call[t]) = "put_page" /\ InHand(call[t]) = call[t].kept
        /\ UNCHANGED <<data, disk>>
    BY DEF PutPage, Runs, Stage, InHand, pages
  <1>3. CASE table[t] = NONE /\ call[t].kept = NONE
    <2> DEFINE d == [[call[t] EXCEPT !.kept = call[t].page, !.page = NONE]
                       EXCEPT !.pc = "get_free_page", !.ret = "put_page"]
    <2>1. call' = [call EXCEPT ![t] = d] /\ UNCHANGED <<table, pte>>
      BY <1>3 DEF PutPage, GetFreePage, Enter, pages
    <2>2. d.pc = "get_free_page" /\ d.ret = "put_page"
      BY PartsOf DEF Calls
    <2> HIDE DEF d
    <2>3. call'[t] = d /\ \A u \in Tasks \ {t} : call'[u] = call[u]
      BY <2>1, PartsOf
    <2>4. KeepsFork(t)
      BY <1>2, <2>2, <2>3 DEF Stage, KeepsFork, Copying
    <2> QED BY <1>2, <2>1, <2>2, <2>3, <2>4, MoveSeen DEF Reading
  <1>4. CASE ~(table[t] = NONE /\ call[t].kept = NONE)
    <2> DEFINE f == IF table[t] = NONE THEN call[t].kept ELSE call[t].page
               e == InFrame(f, TRUE, FALSE)
    <2>1. /\ table' = [table EXCEPT ![t] = IF table[t] = NONE THEN call[t].page ELSE table[t]]
          /\ pte' = [pte EXCEPT ![t][v] = e] /\ call' = [call EXCEPT ![t] = At("user")]
      BY <1>1, <1>4 DEF PutPage, Return, Sleep
    <2>2. f # NONE /\ data[f] = Backing(v)
      BY <1>1, <1>2, <1>4, PartsOf DEF InKernelOK, PageIsFilled
    <2>3. e.frame = f
      BY DEF InFrame, Empty
    <2> HIDE DEF f, e
    <2>4. Holds(t, v) = Backing(v)
      BY <1>1, <1>2, PartsOf DEF EntryIsAsRead, Holds, Present
    <2>5. /\ \A u \in Tasks, w \in Pages : Holds(u, w)' = Holds(u, w)
          /\ \A u \in Tasks \ {t}, w \in Pages : pte'[u][w] = pte[u][w]
      <3>1. e.frame # NONE /\ data'[e.frame] = Holds(t, v) /\ data' = data /\ disk' = disk
        BY <1>2, <2>2, <2>3, <2>4
      <3>2. pte' = [pte EXCEPT ![t][v] = e]
        BY <2>1
      <3> QED BY <3>1, <3>2, EntryMoves, ZenonT(60) DEF KeepsContent
    <2>6. \A u \in Tasks :
            \/ table'[u] # NONE
            \/ table'[u] = table[u] /\ \A w \in Pages : pte[u][w] = Empty => pte'[u][w] = Empty
      <3>1. table'[t] # NONE /\ \A u \in Tasks \ {t} : table'[u] = table[u]
        BY <2>1, PartsOf
      <3> QED BY <2>5, <3>1
    <2>7. call'[t] = At("user") /\ At("user").pc = "user" /\ \A u \in Tasks \ {t} : call'[u] = call[u]
      BY <2>1, PartsOf DEF At
    <2>8. KeepsFork(t)
      BY <1>2, <2>7 DEF Stage, KeepsFork, Copying
    <2> QED BY <1>2, <2>5, <2>6, <2>7, <2>8, QuietSeen DEF Reading
  <1> QED BY <1>3, <1>4

LEMMA LoadSeen ==
  ASSUME MemoryAssumption, Inv, SeenOK, NEW t \in Tasks, Load(t) \/ Loaded(t), call[t].page # NONE
  PROVE  SeenOK' /\ UNCHANGED Private!vars
  <1>1. CASE Load(t)
    <2> DEFINE d == [call[t] EXCEPT !.pc = "bread_page"]
    <2>1. call[t].pc = "load" /\ call' = [call EXCEPT ![t] = d] /\ UNCHANGED <<table, pte, data, disk>>
      BY <1>1 DEF Load, Runs, Sleep, pages
    <2>2. d.pc = "bread_page"
      BY PartsOf DEF Calls
    <2> HIDE DEF d
    <2>3. call'[t] = d /\ \A u \in Tasks \ {t} : call'[u] = call[u]
      BY <2>1, PartsOf
    <2>4. KeepsFork(t)
      BY <2>1, <2>2, <2>3 DEF Stage, KeepsFork, Copying
    <2> QED BY <2>1, <2>2, <2>3, <2>4, MoveSeen DEF Reading
  <1>2. CASE Loaded(t)
    <2> DEFINE d == [call[t] EXCEPT !.pc = "put_page"]
    <2>1. /\ call[t].pc = "bread_page" /\ call' = [call EXCEPT ![t] = d]
          /\ data' = [data EXCEPT ![call[t].page] = "file"] /\ UNCHANGED <<table, pte, disk>>
      BY <1>2 DEF Loaded, Wakes, Enter
    <2>2. d.pc = "put_page"
      BY PartsOf DEF Calls
    <2> HIDE DEF d
    <2>3. call'[t] = d /\ \A u \in Tasks \ {t} : call'[u] = call[u]
      BY <2>1, PartsOf
    <2>4. KeepsFork(t)
      BY <2>1, <2>2, <2>3 DEF Stage, KeepsFork, Copying
    <2>5. /\ \A u \in Tasks, w \in Pages :
               pte[u][w].frame # NONE => data'[pte[u][w].frame] = data[pte[u][w].frame]
          /\ \A u \in Tasks \ {t} : call[u].page # NONE => data'[call[u].page] = data[call[u].page]
      BY <2>1, OnlyInHand
    <2>6. \A u \in Tasks, w \in Pages : Holds(u, w)' = Holds(u, w)
      BY <2>1, <2>5, EntryKept, SMTT(60)
    <2> QED BY <2>1, <2>2, <2>3, <2>4, <2>5, <2>6, QuietSeen DEF Reading
  <1> QED BY <1>1, <1>2

(* What is read from a slot is what is in it, and stays so. *)
LEMMA ReadSeen ==
  ASSUME MemoryAssumption, Inv, SeenOK, NEW t \in Tasks, SwapIn(t) \/ CopySwapped(t),
         call[t].page # NONE, ~overtaken'
  PROVE  SeenOK' /\ UNCHANGED Private!vars
  <1>1. PICK pc \in Reading :
          /\ call' = [call EXCEPT ![t] = [call[t] EXCEPT !.pc = pc]]
          /\ call[t].pc = IF pc = "copy_read" THEN "copy_swapped" ELSE "swap_in"
          /\ data' = [data EXCEPT ![call[t].page] = disk[pte[t][call[t].v].slot]]
          /\ UNCHANGED <<table, pte, disk>>
    <2>1. \A pc : ReadSwapPage(t, pc) =>
            /\ call' = [call EXCEPT ![t] = [call[t] EXCEPT !.pc = pc]]
            /\ data' = [data EXCEPT ![call[t].page] = disk[pte[t][call[t].v].slot]]
            /\ UNCHANGED <<table, pte, disk>>
      BY DEF ReadSwapPage, InOrder, Sleep
    <2>2. CASE SwapIn(t)
      <3>1. call[t].pc = "swap_in" /\ ReadSwapPage(t, "read_swap_page")
        BY <2>2 DEF SwapIn, Runs
      <3> QED BY <2>1, <3>1 DEF Reading
    <2>3. CASE CopySwapped(t)
      <3>1. call[t].pc = "copy_swapped" /\ ReadSwapPage(t, "copy_read")
        BY <2>3 DEF CopySwapped, Runs
      <3> QED BY <2>1, <3>1 DEF Reading
    <2> QED BY <2>2, <2>3
  <1> DEFINE d == [call[t] EXCEPT !.pc = pc]
  <1>2. d.pc = pc /\ d.v = call[t].v /\ d.page = call[t].page /\ d.other = call[t].other
    BY PartsOf DEF Calls
  <1> HIDE DEF d
  <1>3. call'[t] = d /\ \A u \in Tasks \ {t} : call'[u] = call[u]
    BY <1>1, PartsOf DEF d
  <1>4. KeepsFork(t)
    BY <1>1, <1>2, <1>3 DEF Stage, KeepsFork, PastTable, Copying, Reading
  <1>5. /\ data'[call[t].page] = disk[pte[t][call[t].v].slot]
        /\ \A u \in Tasks, w \in Pages :
             pte[u][w].frame # NONE => data'[pte[u][w].frame] = data[pte[u][w].frame]
        /\ \A u \in Tasks \ {t} : call[u].page # NONE => data'[call[u].page] = data[call[u].page]
    <2> DEFINE x == disk[pte[t][call[t].v].slot]
    <2>1. data' = [data EXCEPT ![call[t].page] = x]
      BY <1>1
    <2> HIDE DEF x
    <2>2. /\ data'[call[t].page] = x
          /\ \A u \in Tasks, w \in Pages :
               pte[u][w].frame # NONE => data'[pte[u][w].frame] = data[pte[u][w].frame]
          /\ \A u \in Tasks \ {t} : call[u].page # NONE => data'[call[u].page] = data[call[u].page]
      BY <2>1, OnlyInHand
    <2> QED BY <2>2 DEF x
  <1>6. \A u \in Tasks, w \in Pages : Holds(u, w)' = Holds(u, w)
    BY <1>1, <1>5, EntryKept
  <1>7. ReadOK(t)'
    BY <1>1, <1>2, <1>3, <1>5 DEF ReadOK
  <1>8. call[t].pc \notin {"new", "unused"} /\ call'[t].pc \notin {"new", "unused"}
    BY <1>1, <1>2, <1>3 DEF Reading
  <1> QED BY <1>1, <1>2, <1>3, <1>4, <1>5, <1>6, <1>7, <1>8, QuietSeen

LEMMA SwappedInSeen ==
  ASSUME MemoryAssumption, Inv, SeenOK, NEW t \in Tasks, SwappedIn(t)
  PROVE  SeenOK' /\ UNCHANGED Private!vars
  <1>1. PICK v \in Pages : v = call[t].v
    BY PartsOf DEF SwappedIn, Wakes, InKernelOK, Stage, AtPage
  <1> DEFINE e == InFrame(call[t].page, TRUE, TRUE)
  <1>2. /\ call[t].pc = "read_swap_page" /\ pte' = [pte EXCEPT ![t][v] = e]
        /\ call' = [call EXCEPT ![t] = At("user")] /\ UNCHANGED <<table, data, disk>>
    BY <1>1 DEF SwappedIn, Wakes, Return, Sleep
  <1>3. call[t].page # NONE /\ pte[t][v].slot # NONE /\ ~Present(pte[t][v])
    BY <1>1, <1>2, PartsOf DEF InKernelOK, EntryIsAsRead, EntriesOK, Stage
  <1>4. data[call[t].page] = Holds(t, v)
    BY <1>1, <1>2, <1>3 DEF SeenOK, ReadOK, Reading, Holds
  <1>5. e.frame = call[t].page
    BY DEF InFrame, Empty
  <1> HIDE DEF e
  <1>6. /\ \A u \in Tasks, w \in Pages : Holds(u, w)' = Holds(u, w)
        /\ \A u \in Tasks \ {t}, w \in Pages : pte'[u][w] = pte[u][w]
    <2>1. e.frame # NONE /\ data'[e.frame] = Holds(t, v) /\ data' = data /\ disk' = disk
      BY <1>2, <1>3, <1>4, <1>5
    <2>2. pte' = [pte EXCEPT ![t][v] = e]
      BY <1>2
    <2> QED BY <2>1, <2>2, EntryMoves, ZenonT(60) DEF KeepsContent
  <1>7. \A u \in Tasks :
          \/ table'[u] # NONE
          \/ table'[u] = table[u] /\ \A w \in Pages : pte[u][w] = Empty => pte'[u][w] = Empty
    <2>1. table[t] # NONE
      BY <1>3, PartsOf DEF SeenOK, TableOK
    <2> QED BY <1>2, <1>6, <2>1
  <1>8. call'[t] = At("user") /\ At("user").pc = "user" /\ \A u \in Tasks \ {t} : call'[u] = call[u]
    BY <1>2, PartsOf DEF At
  <1>9. KeepsFork(t)
    BY <1>2, <1>8 DEF Stage, KeepsFork, Copying
  <1> QED BY <1>2, <1>6, <1>7, <1>8, <1>9, QuietSeen DEF Reading

LEMMA CopyPageSeen ==
  ASSUME MemoryAssumption, Inv, SeenOK, NEW t \in Tasks, CopyPage(t), ~raced', call[t].page # NONE
  PROVE  SeenOK' /\ UNCHANGED Private!vars
  <1>1. PICK v \in Pages : v = call[t].v
    BY PartsOf DEF CopyPage, Runs, InKernelOK, Stage, AtPage
  <1> DEFINE e == InFrame(call[t].page, TRUE, FALSE)
             x == data[call[t].kept]
             d == At("user")
  <1>2. /\ call[t].pc = "copy_page" /\ pte[t][v].frame = call[t].kept
        /\ data' = [data EXCEPT ![call[t].page] = x]
        /\ pte' = [pte EXCEPT ![t][v] = e] /\ call' = [call EXCEPT ![t] = d]
        /\ UNCHANGED <<table, disk>>
    BY <1>1 DEF CopyPage, Runs, Return, Sleep
  <1>3. call[t].kept # NONE
    BY <1>2, PartsOf DEF InKernelOK, Stage
  <1>4. e.frame = call[t].page /\ d.pc = "user"
    BY DEF InFrame, Empty, At
  <1>5. Holds(t, v) = x /\ pte[t][v] # Empty
    BY <1>2, <1>3, PartsOf DEF Holds, Present
  <1> HIDE DEF e, x, d
  <1>6. /\ data'[call[t].page] = x
        /\ \A u \in Tasks, w \in Pages :
             pte[u][w].frame # NONE => data'[pte[u][w].frame] = data[pte[u][w].frame]
        /\ \A u \in Tasks \ {t} : call[u].page # NONE => data'[call[u].page] = data[call[u].page]
    BY <1>2, OnlyInHand
  <1>7. /\ \A u \in Tasks, w \in Pages : Holds(u, w)' = Holds(u, w)
        /\ \A u \in Tasks \ {t}, w \in Pages : pte'[u][w] = pte[u][w]
    <2>1. e.frame # NONE /\ data'[e.frame] = Holds(t, v) /\ disk' = disk
      BY <1>2, <1>4, <1>5, <1>6
    <2>2. pte' = [pte EXCEPT ![t][v] = e]
      BY <1>2
    <2>3. KeepsContent
      BY <1>6, <2>1 DEF KeepsContent
    <2> QED BY <2>1, <2>2, <2>3, EntryMoves, ZenonT(60)
  <1>8. \A u \in Tasks :
          \/ table'[u] # NONE
          \/ table'[u] = table[u] /\ \A w \in Pages : pte[u][w] = Empty => pte'[u][w] = Empty
    <2>1. table[t] # NONE
      BY <1>5, PartsOf DEF SeenOK, TableOK
    <2> QED BY <1>2, <1>7, <2>1
  <1>9. call'[t].pc = "user" /\ \A u \in Tasks \ {t} : call'[u] = call[u]
    BY <1>2, <1>4, PartsOf
  <1>10. KeepsFork(t)
    BY <1>2, <1>9 DEF Stage, KeepsFork, Copying
  <1> QED BY <1>2, <1>6, <1>7, <1>8, <1>9, <1>10, QuietSeen DEF Reading

-----------------------------------------------------------------------------
(* Only the writer sees a write. *)
LEMMA WriteSeen ==
  ASSUME MemoryAssumption, Inv, SeenOK, NEW t \in Tasks, NEW v \in Pages, NEW d,
         Write(t, v, d)
  PROVE  SeenOK' /\ Private!Write(t, v, d)
  <1> DEFINE f == pte[t][v].frame
             e == [pte[t][v] EXCEPT !.dirty = TRUE]
             C == {t}
  <1>0. pte[t][v].rw /\ call[t].pc = "user" /\ call' = call
    BY DEF Write, Wakes
  <1>1. /\ data' = [data EXCEPT ![f] = d] /\ pte' = [pte EXCEPT ![t][v] = e]
        /\ UNCHANGED <<table, disk>>
    BY DEF Write
  <1>2. /\ f \in Frames /\ f # NONE /\ pte[t][v] # Empty /\ pte[t][v].slot = NONE
        /\ \A u \in Tasks, w \in Pages : pte[u][w].frame = f => u = t /\ w = v
        /\ \A u \in Tasks : call[u].page # f
    <2>1. /\ Present(pte[t][v])
          /\ \A u \in Tasks, w \in Pages : pte[u][w].frame = f => u = t /\ w = v
      BY <1>0, WritableIsAlone
    <2>2. \A u \in Tasks : call[u].page # f
      BY <2>1, PartsOf, EntryIsAlone
    <2> QED BY <2>1, <2>2, FrameOfEntry, ZenonT(60) DEF Present
  <1>3. e.frame = f /\ e.slot = NONE
    BY <1>2, PartsOf DEF PageEntry
  <1> HIDE DEF e
  <1>4. data'[f] = d /\ \A g \in Frames \ {f} : data'[g] = data[g]
    BY <1>1, <1>2, PartsOf DEF MemoryTypeOK
  <1>5. /\ pte'[t][v] = e
        /\ \A u \in Tasks, w \in Pages : (u = t /\ w = v) \/ pte'[u][w] = pte[u][w]
    BY <1>1, PartsOf
  <1>6. Holds(t, v)' = d
    BY <1>2, <1>3, <1>4, <1>5 DEF Holds, Present
  <1>7. ASSUME NEW u \in Tasks, NEW w \in Pages, ~(u = t /\ w = v) PROVE Holds(u, w)' = Holds(u, w)
    <2>1. pte[u][w].frame # NONE => data'[pte[u][w].frame] = data[pte[u][w].frame]
      BY <1>2, <1>4, <1>7, PartsOf, Typed
    <2>2. pte'[u][w] = pte[u][w]
      BY <1>5, <1>7
    <2> QED BY <1>1, <2>1, <2>2, EntryKept
  <1>8. \A u \in Tasks \ C : TableOK(u)' /\ ReadOK(u)' /\ ForkOK(u)'
    <2>1. C \in SUBSET Tasks /\ \A x \in C : call[x].pc # "new"
      BY <1>0
    <2>2. \A u \in Tasks : call[u].page # NONE => data'[call[u].page] = data[call[u].page]
      BY <1>2, <1>4, PartsOf, Typed
    <2>3. \A u \in Tasks \ C :
            /\ call'[u] = call[u]
            /\ call[u].page # NONE => data'[call[u].page] = data[call[u].page]
            /\ \/ table'[u] # NONE
               \/ table'[u] = table[u] /\ \A w \in Pages : pte[u][w] = Empty => pte'[u][w] = Empty
            /\ \A w \in Pages : pte[u][w].slot # NONE =>
                      /\ pte'[u][w].slot = pte[u][w].slot
                      /\ disk'[pte[u][w].slot] = disk[pte[u][w].slot]
      BY <1>0, <1>1, <1>5, <2>2
    <2> HIDE DEF C
    <2> QED BY <2>1, <2>3, OthersSeen
  <1>9. TableOK(t)' /\ ReadOK(t)' /\ ForkOK(t)'
    <2>1. TableOK(t)'
      BY <1>1, <1>2, PartsOf DEF SeenOK, TableOK
    <2>2. Stage(call'[t]) = "user"
      BY <1>0 DEF Stage
    <2> QED BY <1>0, <2>1, <2>2 DEF ReadOK, ForkOK, PastTable, Copying, Reading
  <1>10. SeenOK'
    BY <1>8, <1>9 DEF SeenOK
  <1>11. /\ Alive(t) /\ \A u \in Tasks : Alive(u)' <=> Alive(u)
         /\ \A u \in Tasks, w \in Pages : CopiesFor(u, w)' = CopiesFor(u, w)
    BY <1>0 DEF Alive, CopiesFor
  <1>12. Content(t, v)' = d
    <2>1. CopiesFor(t, v) = {}
      BY <1>0, OneCopies
    <2> QED BY <1>6, <1>11, <2>1, ContentIs
  <1>13. ASSUME NEW u \in Tasks, NEW w \in Pages, ~(u = t /\ w = v) PROVE Content(u, w)' = Content(u, w)
    <2>1. t \notin CopiesFor(u, w) /\ CopiesFor(u, w) \subseteq Tasks
      BY <1>0 DEF CopiesFor, Copying, Stage
    <2>2. \A x \in CopiesFor(u, w) \cup {u} : Holds(x, w)' = Holds(x, w)
      BY <1>7, <1>13, <2>1
    <2> QED BY <1>11, <2>2, ContentStays
  <1> QED BY <1>10, <1>11, <1>12, <1>13, ZenonT(60) DEF Private!Write

-----------------------------------------------------------------------------
(* Forks.  Calls that begin and end with the pages as they are. *)
OnlyCalls(C) ==
  /\ UNCHANGED <<table, pte, data, disk>>
  /\ \A x \in C : call[x].pc = "new" =>
       \E t \in C : Stage(call[t]) \in Copying /\ call[t].other = x
  /\ \A u \in Tasks \ C : call'[u] = call[u]
  /\ \A x \in C : /\ call'[x].pc \notin Reading /\ Stage(call'[x]) \notin PastTable
                  /\ Stage(call'[x]) = "copy_table" => call'[x].v = NONE

LEMMA CallsSeen ==
  ASSUME MemoryAssumption, Inv, SeenOK, NEW C \in SUBSET Tasks, OnlyCalls(C)
  PROVE  SeenOK' /\ \A u \in Tasks, w \in Pages : Holds(u, w)' = Holds(u, w)
  <1>0. /\ UNCHANGED <<table, pte, data, disk>>
        /\ \A x \in C : call[x].pc = "new" =>
             \E t \in C : Stage(call[t]) \in Copying /\ call[t].other = x
        /\ \A u \in Tasks \ C : call'[u] = call[u]
        /\ \A x \in C : /\ call'[x].pc \notin Reading /\ Stage(call'[x]) \notin PastTable
                        /\ Stage(call'[x]) = "copy_table" => call'[x].v = NONE
    BY DEF OnlyCalls
  <1>1. \A u \in Tasks, w \in Pages : Holds(u, w)' = Holds(u, w)
    BY <1>0 DEF Holds
  <1>2. \A u \in Tasks \ C :
          /\ call'[u] = call[u]
          /\ call[u].page # NONE => data'[call[u].page] = data[call[u].page]
          /\ \/ table'[u] # NONE
             \/ table'[u] = table[u] /\ \A w \in Pages : pte[u][w] = Empty => pte'[u][w] = Empty
          /\ \A w \in Pages : pte[u][w].slot # NONE =>
                    /\ pte'[u][w].slot = pte[u][w].slot
                    /\ disk'[pte[u][w].slot] = disk[pte[u][w].slot]
    BY <1>0, <1>1
  <1>3. \A u \in Tasks \ C : TableOK(u)' /\ ReadOK(u)' /\ ForkOK(u)'
    BY <1>0, <1>2, OthersSeen
  <1>4. \A x \in C : TableOK(x)'
    BY <1>0 DEF SeenOK, TableOK
  <1>5. ASSUME NEW x \in C PROVE ReadOK(x)' /\ ForkOK(x)'
    <2>1. /\ call'[x].pc \notin Reading /\ Stage(call'[x]) \notin PastTable
          /\ Stage(call'[x]) = "copy_table" => call'[x].v = NONE
      BY <1>0
    <2> QED BY <2>1 DEF ReadOK, ForkOK
  <1> QED BY <1>1, <1>3, <1>4, <1>5 DEF SeenOK

LEMMA ForkSeen ==
  ASSUME MemoryAssumption, Inv, SeenOK, NEW t \in Tasks, NEW u \in Tasks, Fork(t, u)
  PROVE  SeenOK' /\ Private!Fork(t, u)
  <1>1. /\ call[t].pc = "user" /\ call[u].pc = "unused" /\ t # u
        /\ UNCHANGED <<table, pte, data, disk>> /\ call \in [Tasks -> Calls]
    BY PartsOf DEF Fork, Wakes, pages
  <1> DEFINE C == {t, u}
             d == [At("get_free_page") EXCEPT !.ret = "copy_table", !.other = u]
  <1>2. \/ /\ table[t] = NONE
           /\ call'[u] = At("user") /\ \A x \in Tasks \ {u} : call'[x] = call[x]
        \/ /\ call'[u] = At("new") /\ call'[t] = d
           /\ \A x \in Tasks \ C : call'[x] = call[x]
    <2>1. CASE table[t] = NONE
      <3>1. call' = [call EXCEPT ![u] = At("user")]
        BY <2>1 DEF Fork
      <3> QED BY <1>1, <2>1, <3>1
    <2>2. CASE table[t] # NONE
      <3>1. call' = [call EXCEPT ![u] = At("new"), ![t] = d]
        BY <2>2 DEF Fork
      <3> HIDE DEF d
      <3> QED BY <1>1, <3>1
    <2> QED BY <2>1, <2>2
  <1>3. /\ d.pc = "get_free_page" /\ d.ret = "copy_table" /\ d.other = u /\ d.v = NONE
        /\ At("new").pc = "new" /\ At("user").pc = "user"
    BY DEF At
  <1> HIDE DEF d
  <1>4. /\ call'[u].pc \in {"user", "new"} /\ Stage(call'[u]) \notin Copying
        /\ \/ /\ table[t] = NONE /\ call'[t] = call[t]
           \/ /\ call'[t].pc = "get_free_page" /\ Stage(call'[t]) = "copy_table"
              /\ call'[t].other = u /\ call'[t].v = NONE
        /\ \A x \in Tasks \ C : call'[x] = call[x]
    BY <1>1, <1>2, <1>3 DEF Stage, Copying
  <1>5. SeenOK' /\ \A x \in Tasks, w \in Pages : Holds(x, w)' = Holds(x, w)
    <2>1. /\ C \in SUBSET Tasks /\ \A x \in C : call[x].pc # "new"
          /\ \A x \in C : /\ call'[x].pc \notin Reading /\ Stage(call'[x]) \notin PastTable
                          /\ Stage(call'[x]) = "copy_table" => call'[x].v = NONE
      BY <1>1, <1>4 DEF Reading, PastTable, Copying, Stage
    <2> HIDE DEF C
    <2>2. OnlyCalls(C)
      BY <1>1, <1>4, <2>1 DEF OnlyCalls
    <2> QED BY <2>1, <2>2, CallsSeen
  <1>6. /\ Alive(t) /\ ~Alive(u) /\ Alive(u)'
        /\ \A x \in Tasks \ {u} : Alive(x)' <=> Alive(x)
    BY <1>1, <1>4 DEF Alive
  <1>7. \A w \in Pages : CopiesFor(t, w) = {} /\ CopiesFor(u, w) = {}
    BY <1>1, OneCopies
  <1>8. \A x \in Tasks \ {u}, w \in Pages : CopiesFor(x, w)' = CopiesFor(x, w)
    <2>1. \A y \in Tasks, x \in Tasks \ {u}, w \in Pages :
            Stage(call'[y]) \in Copying /\ call'[y].other = x /\ call'[y].v <= w <=>
            Stage(call[y]) \in Copying /\ call[y].other = x /\ call[y].v <= w
      BY <1>1, <1>4 DEF Stage, Copying
    <2> QED BY <2>1 DEF CopiesFor
  <1>9. ASSUME NEW w \in Pages PROVE Content(u, w)' = Content(t, w)
    <2>1. Content(t, w) = Holds(t, w)
      BY <1>6, <1>7, ContentIs
    <2>2. CASE table[t] = NONE /\ call'[t] = call[t]
      <3>1. Holds(t, w) = Backing(w) /\ Holds(u, w) = Backing(w)
        <4>1. pte[t][w] = Empty /\ pte[u][w] = Empty
          BY <1>1, <2>2, PartsOf DEF SeenOK, TableOK, EntryIsAsRead
        <4> QED BY <4>1, PartsOf DEF Holds, Present
      <3>2. CopiesFor(u, w)' = {}
        <4>1. \A y \in Tasks :
                Stage(call'[y]) \in Copying /\ call'[y].other = u /\ call'[y].v <= w =>
                Stage(call[y]) \in Copying /\ call[y].other = u /\ call[y].v <= w
          BY <1>4, <2>2
        <4> QED BY <1>7, <4>1 DEF CopiesFor
      <3> QED BY <1>5, <1>6, <2>1, <3>1, <3>2, ContentIs
    <2>3. CASE Stage(call'[t]) = "copy_table" /\ call'[t].other = u /\ call'[t].v = NONE
      <3>1. NONE <= w
        BY DEF MemoryAssumption, Pages, NONE
      <3>2. \A y \in Tasks \ {t} : ~(Stage(call'[y]) \in Copying /\ call'[y].other = u)
        <4>1. \A y \in Tasks : ~(Stage(call[y]) \in Copying /\ call[y].other = u)
          BY <1>1, PartsOf DEF ChildOK
        <4> QED BY <1>4, <4>1
      <3>3. CopiesFor(u, w)' = {t}
        BY <2>3, <3>1, <3>2 DEF CopiesFor, Copying
      <3>4. Content(u, w)' = Holds(t, w)'
        BY <1>6, <3>3, ContentIs
      <3> QED BY <1>5, <2>1, <3>4
    <2> QED BY <1>4, <2>2, <2>3
  <1>10. \A x \in Tasks \ {u}, w \in Pages : Content(x, w)' = Content(x, w)
    <2>1. \A x \in Tasks, w \in Pages : CopiesFor(x, w) \subseteq Tasks
      BY DEF CopiesFor
    <2> QED BY <1>5, <1>6, <1>8, <2>1, ContentStays
  <1> QED BY <1>5, <1>6, <1>9, <1>10 DEF Private!Fork

(* The table of the child is empty at first. *)
LEMMA CopyTableSeen ==
  ASSUME MemoryAssumption, Inv, SeenOK, NEW t \in Tasks, CopyTable(t), call[t].page # NONE
  PROVE  SeenOK' /\ UNCHANGED Private!vars
  <1>1. call[t].pc = "copy_table" /\ Stage(call[t]) = "copy_table" /\ UNCHANGED <<pte, data, disk>>
    BY DEF CopyTable, Runs, Stage
  <1>2. PICK u \in Tasks : u = call[t].other /\ call[u].pc = "new"
    BY <1>1, PartsOf DEF ChildOK, Copying
  <1> DEFINE m == Min(Pages)
             d == [call[t] EXCEPT !.pc = "copy_entries", !.page = NONE, !.v = m]
             C == {t}
  <1>3. table' = [table EXCEPT ![u] = call[t].page] /\ call' = [call EXCEPT ![t] = d]
    BY <1>2 DEF CopyTable, Enter
  <1>4. m \in Pages /\ \A w \in Pages : m <= w
    <2>1. Pages # {} /\ Pages \subseteq Nat
      BY DEF MemoryAssumption, Pages
    <2> QED BY <2>1, LeastIs
  <1> HIDE DEF m
  <1>5. d.pc = "copy_entries" /\ d.v = m /\ d.other = u
    BY <1>2, PartsOf DEF Calls
  <1> HIDE DEF d
  <1>6. /\ call'[t] = d /\ table'[u] # NONE
        /\ \A x \in Tasks \ {t} : call'[x] = call[x]
        /\ \A x \in Tasks \ {u} : table'[x] = table[x]
    BY <1>3, PartsOf
  <1>7. \A x \in Tasks, w \in Pages : Holds(x, w)' = Holds(x, w)
    BY <1>1 DEF Holds
  <1>8. \A x \in Tasks : /\ table'[x] # NONE \/ table'[x] = table[x]
                         /\ TableOK(x)'
    BY <1>1, <1>6 DEF SeenOK, TableOK
  <1>9. \A x \in Tasks \ C : TableOK(x)' /\ ReadOK(x)' /\ ForkOK(x)'
    <2>1. C \in SUBSET Tasks /\ \A x \in C : call[x].pc # "new"
      BY <1>1
    <2>2. \A x \in Tasks \ C :
            /\ call'[x] = call[x]
            /\ call[x].page # NONE => data'[call[x].page] = data[call[x].page]
            /\ \/ table'[x] # NONE
               \/ table'[x] = table[x] /\ \A w \in Pages : pte[x][w] = Empty => pte'[x][w] = Empty
            /\ \A w \in Pages : pte[x][w].slot # NONE =>
                      /\ pte'[x][w].slot = pte[x][w].slot
                      /\ disk'[pte[x][w].slot] = disk[pte[x][w].slot]
      BY <1>1, <1>6, <1>7, <1>8
    <2> HIDE DEF C
    <2> QED BY <2>1, <2>2, OthersSeen
  <1>10. ReadOK(t)' /\ ForkOK(t)'
    <2>1. ~(call'[t].pc \in Reading)
      BY <1>5, <1>6 DEF Reading
    <2>2. table'[call'[t].other] # NONE /\ call'[t].v = m
      BY <1>5, <1>6
    <2>3. Stage(call'[t]) = "copy_entries"
      BY <1>5, <1>6 DEF Stage
    <2> QED BY <1>4, <2>1, <2>2, <2>3 DEF ReadOK, ForkOK
  <1>11. \A x \in Tasks : Alive(x)' <=> Alive(x)
    BY <1>1, <1>5, <1>6 DEF Alive
  <1>12. ASSUME NEW x \in Tasks, NEW w \in Pages PROVE CopiesFor(x, w)' = CopiesFor(x, w)
    <2>1. NONE <= w /\ m <= w /\ call[t].v = NONE
      BY <1>1, <1>4 DEF MemoryAssumption, Pages, NONE, SeenOK, ForkOK
    <2>2. Stage(call'[t]) \in Copying /\ Stage(call[t]) \in Copying
      BY <1>1, <1>5, <1>6 DEF Stage, Copying
    <2>3. call'[t].other = call[t].other /\ call'[t].v = m
      BY <1>2, <1>5, <1>6
    <2>4. \A y \in Tasks :
            Stage(call'[y]) \in Copying /\ call'[y].other = x /\ call'[y].v <= w <=>
            Stage(call[y]) \in Copying /\ call[y].other = x /\ call[y].v <= w
      BY <1>6, <2>1, <2>2, <2>3
    <2> QED BY <2>4 DEF CopiesFor
  <1> QED BY <1>7, <1>8, <1>9, <1>10, <1>11, <1>12, SameMemory DEF SeenOK

(* One more entry is copied: the child has there what the parent has. *)
CopiesEntry(t, u, v) ==
  /\ v = call[t].v /\ u = call[t].other /\ Stage(call[t]) \in PastTable
  /\ call'[t].pc = "copy_entries" /\ call'[t].v = v + 1 /\ call'[t].other = u
  /\ \A x \in Tasks \ {t} : call'[x] = call[x]
  /\ UNCHANGED <<table, data, disk>>
  /\ \A x \in Tasks \ {t, u} : pte'[x] = pte[x]
  /\ table[t] # NONE \/ pte'[t] = pte[t]
  /\ \A w \in Pages : Holds(t, w)' = Holds(t, w) /\ (w = v \/ Holds(u, w)' = Holds(u, w))
  /\ Holds(u, v)' = Holds(t, v)

LEMMA CopiedSeen ==
  ASSUME MemoryAssumption, Inv, SeenOK, NEW t \in Tasks, NEW u \in Tasks, NEW v \in Pages,
         CopiesEntry(t, u, v)
  PROVE  SeenOK' /\ UNCHANGED Private!vars
  <1> DEFINE C == {t, u}
  <1>1. /\ v = call[t].v /\ u = call[t].other /\ Stage(call[t]) \in Copying
        /\ call'[t].pc = "copy_entries" /\ call'[t].v = v + 1 /\ call'[t].other = u
        /\ (\A x \in Tasks \ {t} : call'[x] = call[x])
        /\ UNCHANGED <<table, data, disk>>
        /\ \A x \in Tasks \ C : pte'[x] = pte[x]
    BY DEF CopiesEntry, PastTable
  <1>2. /\ \A w \in Pages : Holds(t, w)' = Holds(t, w) /\ (w = v \/ Holds(u, w)' = Holds(u, w))
        /\ Holds(u, v)' = Holds(t, v)
    BY DEF CopiesEntry
  <1>3. call[u].pc = "new" /\ table[u] # NONE /\ u # t /\ call[t].pc \notin {"new", "unused"}
    <2>1. call[u].pc = "new" /\ call[t].pc \notin {"new", "unused"}
      BY <1>1, PartsOf DEF ChildOK, Copying, Stage
    <2>2. ForkOK(t) /\ Stage(call[t]) \in PastTable
      BY DEF SeenOK, CopiesEntry
    <2> QED BY <1>1, <2>1, <2>2 DEF ForkOK
  <1>4. \A x \in Tasks \ C : TableOK(x)' /\ ReadOK(x)' /\ ForkOK(x)'
    <2>1. /\ C \in SUBSET Tasks
          /\ \A x \in C : call[x].pc = "new" =>
               \E y \in C : Stage(call[y]) \in Copying /\ call[y].other = x
      BY <1>1, <1>3
    <2>3. \A x \in Tasks \ C :
            /\ call'[x] = call[x]
            /\ call[x].page # NONE => data'[call[x].page] = data[call[x].page]
            /\ \/ table'[x] # NONE
               \/ table'[x] = table[x] /\ \A w \in Pages : pte[x][w] = Empty => pte'[x][w] = Empty
            /\ \A w \in Pages : pte[x][w].slot # NONE =>
                      /\ pte'[x][w].slot = pte[x][w].slot
                      /\ disk'[pte[x][w].slot] = disk[pte[x][w].slot]
      BY <1>1
    <2> HIDE DEF C
    <2> QED BY <2>1, <2>3, OthersSeen
  <1>5. TableOK(u)' /\ ReadOK(u)' /\ ForkOK(u)'
    <2>1. call'[u].pc = "new" /\ Stage(call'[u]) = "new"
      BY <1>1, <1>3 DEF Stage
    <2> QED BY <1>1, <1>3, <2>1 DEF TableOK, ReadOK, ForkOK, Reading, PastTable, Copying
  <1>6. TableOK(t)'
    BY <1>1 DEF SeenOK, TableOK, CopiesEntry
  <1>7. ReadOK(t)' /\ ForkOK(t)'
    <2>1. call'[t].v - 1 \in Pages
      BY <1>1 DEF MemoryAssumption, Pages
    <2>2. table'[call'[t].other] # NONE /\ Stage(call'[t]) = "copy_entries"
      BY <1>1, <1>3 DEF Stage
    <2>3. ForkOK(t)'
      BY <2>1, <2>2 DEF ForkOK
    <2>4. ReadOK(t)'
      BY <1>1 DEF ReadOK, Reading
    <2> QED BY <2>3, <2>4
  <1>8. SeenOK'
    BY <1>4, <1>5, <1>6, <1>7 DEF SeenOK
  <1>9. Alive(t) /\ Alive(u) /\ \A x \in Tasks : Alive(x)' <=> Alive(x)
    BY <1>1, <1>3 DEF Alive
  <1>10. Stage(call[t]) \in Copying /\ Stage(call'[t]) \in Copying
    BY <1>1 DEF Stage, Copying
  <1>11. ASSUME NEW x \in Tasks \ {u}, NEW w \in Pages PROVE Content(x, w)' = Content(x, w)
    <2>1. \A y \in Tasks :
            Stage(call'[y]) \in Copying /\ call'[y].other = x /\ call'[y].v <= w <=>
            Stage(call[y]) \in Copying /\ call[y].other = x /\ call[y].v <= w
      BY <1>1
    <2>2. CopiesFor(x, w)' = CopiesFor(x, w)
      BY <2>1 DEF CopiesFor
    <2>3. u \notin CopiesFor(x, w) /\ CopiesFor(x, w) \subseteq Tasks
      BY <1>3, SMTT(60) DEF CopiesFor, Stage, Copying
    <2>4. \A y \in Tasks \ {u} : Holds(y, w)' = Holds(y, w)
      BY <1>1, <1>2, ZenonT(60) DEF Holds
    <2> QED BY <1>9, <2>2, <2>3, <2>4, ContentStays
  <1>12. ASSUME NEW w \in Pages PROVE Content(u, w)' = Content(u, w)
    <2>1. \A y \in Tasks : Stage(call[y]) \in Copying /\ call[y].other = u => y = t
      BY <1>1, <1>10, PartsOf DEF ChildOK
    <2>2. \A y \in Tasks : Stage(call'[y]) \in Copying /\ call'[y].other = u => y = t
      BY <1>1, <2>1
    <2>3. /\ v <= w => CopiesFor(u, w) = {t}
          /\ ~(v <= w) => CopiesFor(u, w) = {}
      BY <1>1, <2>1 DEF CopiesFor
    <2>4. /\ v + 1 <= w => CopiesFor(u, w)' = {t}
          /\ ~(v + 1 <= w) => CopiesFor(u, w)' = {}
      BY <1>1, <1>10, <2>2 DEF CopiesFor
    <2>5. v \in Nat /\ w \in Nat
      BY DEF MemoryAssumption, Pages
    <2>6. CASE v + 1 <= w
      <3>1. v <= w
        BY <2>5, <2>6
      <3> QED BY <1>2, <1>9, <2>3, <2>4, <2>6, <3>1, ContentIs
    <2>7. CASE ~(v <= w)
      <3>1. w # v /\ ~(v + 1 <= w)
        BY <2>5, <2>7
      <3> QED BY <1>2, <1>9, <2>3, <2>4, <2>7, <3>1, ContentIs
    <2>8. CASE w = v
      <3>1. v <= w /\ ~(v + 1 <= w)
        BY <2>5, <2>8
      <3> QED BY <1>2, <1>9, <2>3, <2>4, <2>8, <3>1, ContentIs
    <2>9. v + 1 <= w \/ ~(v <= w) \/ w = v
      BY <2>5
    <2> QED BY <2>6, <2>7, <2>8, <2>9
  <1> QED BY <1>8, <1>9, <1>11, <1>12 DEF Private!vars

LEMMA CopyEntrySeen ==
  ASSUME MemoryAssumption, Inv, SeenOK, NEW t \in Tasks, CopyEntry(t)
  PROVE  SeenOK' /\ UNCHANGED Private!vars
  <1>1. PICK v \in Pages : v = call[t].v
    BY DEF CopyEntry
  <1>2. /\ call[t].pc = "copy_entries" /\ Stage(call[t]) = "copy_entries"
        /\ UNCHANGED <<table, data, disk>>
    BY DEF CopyEntry, Runs, Stage, pages
  <1>3. PICK u \in Tasks : u = call[t].other /\ call[u].pc = "new"
    BY <1>2, PartsOf DEF ChildOK, Copying
  <1> DEFINE e == pte[t][v]
             n == ReadOnly(e)
  <1>4. CASE e.slot # NONE
    <2> DEFINE d == [call[t] EXCEPT !.pc = "get_free_page", !.ret = "copy_swapped"]
    <2>1. call' = [call EXCEPT ![t] = d] /\ UNCHANGED pte
      BY <1>1, <1>4 DEF CopyEntry, GetFreePage, Enter, pages
    <2>2. d.pc = "get_free_page" /\ d.ret = "copy_swapped" /\ d.v = call[t].v /\ d.other = call[t].other
      BY PartsOf DEF Calls
    <2> HIDE DEF d
    <2>3. call'[t] = d /\ \A x \in Tasks \ {t} : call'[x] = call[x]
      BY <2>1, PartsOf
    <2>4. KeepsFork(t)
      BY <1>2, <2>2, <2>3 DEF KeepsFork, PastTable, Copying, Stage
    <2> QED BY <1>2, <2>1, <2>2, <2>3, <2>4, MoveSeen DEF Reading
  <1>5. CASE e.slot = NONE
    <2> DEFINE d == NextEntry(call[t])
    <2>1. d.pc = "copy_entries" /\ d.v = v + 1 /\ d.other = u
      BY <1>1, <1>3, PartsOf, NextEntryIs
    <2>2. call' = [call EXCEPT ![t] = d]
      BY <1>1, <1>5 DEF CopyEntry, Enter
    <2> HIDE DEF d
    <2>3. call'[t] = d /\ \A x \in Tasks \ {t} : call'[x] = call[x]
      BY <2>2, PartsOf
    <2>4. Stage(call[t]) \in PastTable /\ u # t
      BY <1>2, <1>3 DEF PastTable, Copying
    <2>5. CASE Present(e)
      <3>1. pte' = [pte EXCEPT ![u][v] = n, ![t][v] = n]
        BY <1>1, <1>3, <1>5, <2>5 DEF CopyEntry, Shared
      <3>2. n.frame = e.frame /\ n.frame # NONE /\ e # Empty
        <4>1. e \in PageEntry
          BY PartsOf
        <4>2. n.frame = e.frame
          BY <4>1, ReadOnlyIs
        <4> QED BY <2>5, <4>2, PartsOf DEF Present
      <3> HIDE DEF n
      <3>3. /\ pte'[t][v] = n /\ pte'[u][v] = n /\ (\A x \in Tasks \ {t, u} : pte'[x] = pte[x])
            /\ \A w \in Pages : w = v \/ (pte'[t][w] = pte[t][w] /\ pte'[u][w] = pte[u][w])
        BY <2>4, <3>1, PartsOf
      <3>4. Holds(t, v) = data[e.frame] /\ Holds(t, v)' = data[e.frame] /\ Holds(u, v)' = data[e.frame]
        BY <1>2, <2>5, <3>2, <3>3 DEF Holds, Present
      <3>5. \A w \in Pages : w = v \/ (Holds(t, w)' = Holds(t, w) /\ Holds(u, w)' = Holds(u, w))
        BY <1>2, <3>3 DEF Holds
      <3>6. table[t] # NONE
        BY <3>2 DEF SeenOK, TableOK
      <3>7. CopiesEntry(t, u, v)
        BY <1>1, <1>2, <1>3, <2>1, <2>3, <2>4, <3>3, <3>4, <3>5, <3>6 DEF CopiesEntry
      <3> HIDE DEF e, n, d
      <3> QED BY <3>7, CopiedSeen, SMTT(60)
    <2>6. CASE ~Present(e)
      <3>1. UNCHANGED pte
        BY <1>1, <1>5, <2>6 DEF CopyEntry
      <3>2. \A x \in Tasks, w \in Pages : Holds(x, w)' = Holds(x, w)
        BY <1>2, <3>1 DEF Holds
      <3>3. Holds(t, v) = Backing(v)
        BY <1>5, <2>6 DEF Holds
      <3>4. pte[u][v] = Empty
        <4>1. v >= v
          BY DEF MemoryAssumption, Pages
        <4> QED BY <1>1, <1>2, <1>3, <4>1, PartsOf DEF ChildOK, Copying
      <3>5. Holds(u, v) = Backing(v)
        BY <3>4, PartsOf DEF Holds, Present
      <3>6. CopiesEntry(t, u, v)
        BY <1>1, <1>2, <1>3, <2>1, <2>3, <2>4, <3>1, <3>2, <3>3, <3>5 DEF CopiesEntry
      <3> HIDE DEF e, n, d
      <3> QED BY <3>6, CopiedSeen, SMTT(60)
    <2> QED BY <2>5, <2>6
  <1> QED BY <1>4, <1>5

(* The child has the slot and the parent what has been read from it. *)
LEMMA CopyReadSeen ==
  ASSUME MemoryAssumption, Inv, SeenOK, NEW t \in Tasks, CopyRead(t)
  PROVE  SeenOK' /\ UNCHANGED Private!vars
  <1>1. call[t].pc = "copy_read" /\ Stage(call[t]) = "copy_read" /\ UNCHANGED <<table, data, disk>>
    BY DEF CopyRead, Wakes, Stage
  <1>2. PICK v \in Pages : v = call[t].v
    BY <1>1, PartsOf DEF InKernelOK, AtPage
  <1>3. PICK u \in Tasks : u = call[t].other /\ call[u].pc = "new"
    BY <1>1, PartsOf DEF ChildOK, Copying
  <1> DEFINE e == pte[t][v]
             n == InFrame(call[t].page, TRUE, TRUE)
             d == NextEntry(call[t])
  <1>4. /\ pte' = [pte EXCEPT ![u][v] = e, ![t][v] = n] /\ call' = [call EXCEPT ![t] = d]
    BY <1>2, <1>3 DEF CopyRead, Enter
  <1>5. d.pc = "copy_entries" /\ d.v = v + 1 /\ d.other = u
    BY <1>2, <1>3, PartsOf, NextEntryIs
  <1>6. call[t].page # NONE /\ e.slot # NONE /\ e.frame = NONE /\ e # Empty
    BY <1>1, <1>2, PartsOf DEF InKernelOK, EntryIsAsRead, EntriesOK, Present
  <1>7. data[call[t].page] = disk[e.slot]
    BY <1>1, <1>2 DEF SeenOK, ReadOK, Reading
  <1>8. n.frame = call[t].page
    BY DEF InFrame, Empty
  <1> HIDE DEF n, d
  <1>9. Stage(call[t]) \in PastTable /\ u # t
    BY <1>1, <1>3 DEF PastTable, Copying
  <1>10. /\ call'[t] = d /\ (\A x \in Tasks \ {t} : call'[x] = call[x])
         /\ pte'[t][v] = n /\ pte'[u][v] = e /\ (\A x \in Tasks \ {t, u} : pte'[x] = pte[x])
         /\ \A w \in Pages : w = v \/ (pte'[t][w] = pte[t][w] /\ pte'[u][w] = pte[u][w])
    BY <1>4, <1>9, PartsOf
  <1>11. Holds(t, v) = disk[e.slot] /\ Holds(t, v)' = disk[e.slot] /\ Holds(u, v)' = disk[e.slot]
    BY <1>1, <1>6, <1>7, <1>8, <1>10 DEF Holds, Present
  <1>12. \A w \in Pages : w = v \/ (Holds(t, w)' = Holds(t, w) /\ Holds(u, w)' = Holds(u, w))
    BY <1>1, <1>10 DEF Holds
  <1>13. table[t] # NONE
    BY <1>6 DEF SeenOK, TableOK
  <1>14. CopiesEntry(t, u, v)
    BY <1>1, <1>2, <1>3, <1>5, <1>9, <1>10, <1>11, <1>12, <1>13 DEF CopiesEntry
  <1> HIDE DEF e
  <1> QED BY <1>14, CopiedSeen, SMTT(60)

(* When all entries have been copied the child has what it sees. *)
LEMMA ForkedSeen ==
  ASSUME MemoryAssumption, Inv, SeenOK, NEW t \in Tasks, Forked(t)
  PROVE  SeenOK' /\ UNCHANGED Private!vars
  <1>1. /\ call[t].pc = "copy_entries" /\ Stage(call[t]) = "copy_entries" /\ call[t].v \notin Pages
        /\ UNCHANGED <<table, pte, data, disk>>
    BY DEF Forked, Runs, Stage, pages
  <1>2. PICK u \in Tasks : u = call[t].other /\ call[u].pc = "new"
    BY <1>1, PartsOf DEF ChildOK, Copying
  <1> DEFINE C == {t, u}
  <1>3. /\ u # t /\ call'[t].pc = "user" /\ call'[u].pc = "user"
        /\ Stage(call'[t]) = "user" /\ Stage(call'[u]) = "user"
        /\ \A x \in Tasks \ C : call'[x] = call[x]
    BY <1>1, <1>2, PartsOf DEF Forked, At, Stage
  <1>4. SeenOK' /\ \A x \in Tasks, w \in Pages : Holds(x, w)' = Holds(x, w)
    <2>1. /\ C \in SUBSET Tasks
          /\ \A x \in C : call[x].pc = "new" =>
               \E y \in C : Stage(call[y]) \in Copying /\ call[y].other = x
          /\ \A x \in C : /\ call'[x].pc \notin Reading /\ Stage(call'[x]) \notin PastTable
                          /\ Stage(call'[x]) = "copy_table" => call'[x].v = NONE
      BY <1>1, <1>2, <1>3 DEF Reading, PastTable, Copying, Stage
    <2> HIDE DEF C
    <2>2. OnlyCalls(C)
      BY <1>1, <1>3, <2>1 DEF OnlyCalls
    <2> QED BY <2>1, <2>2, CallsSeen
  <1>5. ASSUME NEW w \in Pages PROVE ~(call[t].v <= w)
    <2>1. ForkOK(t) /\ Stage(call[t]) \in PastTable /\ call[t].v \in Nat
      BY <1>1, PartsOf DEF SeenOK, PastTable, Copying, Calls
    <2>2. call[t].v - 1 \in Pages
      BY <1>1, <2>1 DEF ForkOK
    <2>3. w \in Nat
      BY DEF MemoryAssumption, Pages
    <2>4. ASSUME call[t].v <= w PROVE FALSE
      <3>1. call[t].v \in (call[t].v - 1)..w
        BY <2>1, <2>3, <2>4
      <3> QED BY <1>1, <2>2, <3>1, PagesInARow
    <2> QED BY <2>4
  <1>6. ASSUME NEW x \in Tasks, NEW w \in Pages PROVE CopiesFor(x, w)' = CopiesFor(x, w)
    <2>1. \A y \in Tasks :
            Stage(call'[y]) \in Copying /\ call'[y].other = x /\ call'[y].v <= w <=>
            Stage(call[y]) \in Copying /\ call[y].other = x /\ call[y].v <= w
      BY <1>2, <1>3, <1>5 DEF Copying, Stage
    <2> QED BY <2>1 DEF CopiesFor
  <1>7. \A x \in Tasks : Alive(x)' <=> Alive(x)
    BY <1>1, <1>2, <1>3 DEF Alive
  <1> QED BY <1>4, <1>6, <1>7, SameMemory

-----------------------------------------------------------------------------
(* What is given back: by who ends, by a new program, by a fork that fails. *)
LEMMA FreedSeen ==
  ASSUME MemoryAssumption, Inv, SeenOK, NEW u \in Tasks, NEW fs, FreePageTables(u, fs),
         NEW C \in SUBSET Tasks, u \in C, \A x \in Tasks \ C : call'[x] = call[x],
         \A x \in C : call[x].pc = "new" =>
           \E t \in C : Stage(call[t]) \in Copying /\ call[t].other = x,
         \A x \in C : call'[x].pc \notin Reading /\ Stage(call'[x]) \notin Copying
  PROVE  /\ SeenOK'
         /\ \A w \in Pages : Holds(u, w)' = Backing(w)
         /\ \A x \in Tasks \ {u}, w \in Pages : Holds(x, w)' = Holds(x, w)
  <1>1. /\ (\A w \in Pages : pte'[u][w] = Empty) /\ UNCHANGED <<data, disk>>
        /\ \A x \in Tasks \ {u} : table'[x] = table[x] /\ pte'[x] = pte[x]
    BY PartsOf DEF FreePageTables
  <1>2. \A w \in Pages : Holds(u, w)' = Backing(w)
    BY <1>1, PartsOf DEF Holds, Present
  <1>3. \A x \in Tasks \ {u}, w \in Pages : Holds(x, w)' = Holds(x, w)
    BY <1>1 DEF Holds
  <1>4. \A x \in Tasks \ C :
          /\ call'[x] = call[x]
          /\ call[x].page # NONE => data'[call[x].page] = data[call[x].page]
          /\ \/ table'[x] # NONE
             \/ table'[x] = table[x] /\ \A w \in Pages : pte[x][w] = Empty => pte'[x][w] = Empty
          /\ \A w \in Pages : pte[x][w].slot # NONE =>
                    /\ pte'[x][w].slot = pte[x][w].slot
                    /\ disk'[pte[x][w].slot] = disk[pte[x][w].slot]
    BY <1>1, <1>3
  <1>5. \A x \in Tasks \ C : TableOK(x)' /\ ReadOK(x)' /\ ForkOK(x)'
    BY <1>4, OthersSeen
  <1>6. \A x \in C : TableOK(x)'
    BY <1>1 DEF SeenOK, TableOK
  <1>7. \A x \in C : ReadOK(x)' /\ ForkOK(x)'
    BY DEF ReadOK, ForkOK, PastTable, Copying
  <1> QED BY <1>2, <1>3, <1>5, <1>6, <1>7 DEF SeenOK

LEMMA OutOfMemorySeen ==
  ASSUME MemoryAssumption, Inv, SeenOK, NEW t \in Tasks, NEW fs, OutOfMemory(t, fs),
         call[t].pc \notin {"new", "unused"}, Stage(call[t]) \notin Copying
  PROVE  SeenOK' /\ Private!Exit(t)
  <1> DEFINE C == {t}
  <1>1. call'[t].pc = "unused" /\ Stage(call'[t]) = "unused" /\ \A x \in Tasks \ C : call'[x] = call[x]
    BY PartsOf DEF OutOfMemory, Sleep, At, Stage
  <1>2. /\ SeenOK'
        /\ \A x \in Tasks \ {t}, w \in Pages : Holds(x, w)' = Holds(x, w)
    <2>1. /\ C \in SUBSET Tasks /\ t \in C /\ \A x \in C : call[x].pc # "new"
          /\ \A x \in C : call'[x].pc \notin Reading /\ Stage(call'[x]) \notin Copying
      BY <1>1 DEF Reading, Copying
    <2>2. FreePageTables(t, fs)
      BY DEF OutOfMemory
    <2> HIDE DEF C
    <2> QED BY <1>1, <2>1, <2>2, FreedSeen
  <1>3. Alive(t) /\ ~Alive(t)' /\ \A x \in Tasks \ {t} : Alive(x)' <=> Alive(x)
    BY <1>1 DEF Alive
  <1>4. \A w \in Pages : Content(t, w)' = Backing(w)
    BY <1>3, ContentIs
  <1>5. ASSUME NEW x \in Tasks \ {t}, NEW w \in Pages PROVE Content(x, w)' = Content(x, w)
    <2>1. KeepsFork(t)
      BY <1>1 DEF KeepsFork, Copying
    <2>2. CopiesFor(x, w)' = CopiesFor(x, w)
      BY <1>1, <2>1, SameCopies
    <2>3. t \notin CopiesFor(x, w) /\ CopiesFor(x, w) \subseteq Tasks
      BY DEF CopiesFor
    <2> QED BY <1>2, <1>3, <2>2, <2>3, ContentStays
  <1> QED BY <1>2, <1>3, <1>4, <1>5 DEF Private!Exit

LEMMA ExecSeen ==
  ASSUME MemoryAssumption, Inv, SeenOK, NEW t \in Tasks, Exec(t)
  PROVE  SeenOK' /\ Private!Exec(t)
  <1> DEFINE C == {t}
  <1>1. call[t].pc = "user" /\ Stage(call[t]) = "user" /\ call' = call
    BY DEF Exec, Wakes, Stage
  <1>2. /\ SeenOK'
        /\ \A w \in Pages : Holds(t, w)' = Backing(w)
        /\ \A x \in Tasks \ {t}, w \in Pages : Holds(x, w)' = Holds(x, w)
    <2>1. /\ C \in SUBSET Tasks /\ t \in C /\ (\A x \in C : call[x].pc # "new")
          /\ \A x \in Tasks \ C : call'[x] = call[x]
          /\ \A x \in C : call'[x].pc \notin Reading /\ Stage(call'[x]) \notin Copying
      BY <1>1 DEF Reading, Copying
    <2>2. FreePageTables(t, {})
      BY DEF Exec
    <2> HIDE DEF C
    <2> QED BY <2>1, <2>2, FreedSeen
  <1>3. Alive(t) /\ \A x \in Tasks : Alive(x)' <=> Alive(x)
    BY <1>1 DEF Alive
  <1>4. \A x \in Tasks, w \in Pages : CopiesFor(x, w)' = CopiesFor(x, w) /\ t \notin CopiesFor(x, w)
    BY <1>1 DEF CopiesFor, Copying
  <1>5. \A w \in Pages : Content(t, w)' = Backing(w)
    <2>1. \A w \in Pages : CopiesFor(t, w) = {}
      BY <1>1, OneCopies
    <2> QED BY <1>2, <1>3, <1>4, <2>1, ContentIs
  <1>6. ASSUME NEW x \in Tasks \ {t}, NEW w \in Pages PROVE Content(x, w)' = Content(x, w)
    <2>1. CopiesFor(x, w) \subseteq Tasks
      BY DEF CopiesFor
    <2> QED BY <1>2, <1>3, <1>4, <2>1, ContentStays
  <1> QED BY <1>2, <1>3, <1>5, <1>6 DEF Private!Exec

LEMMA ForkFailsSeen ==
  ASSUME MemoryAssumption, Inv, SeenOK, NEW t \in Tasks, ForkFails(t), Stage(call[t]) \in Copying
  PROVE  SeenOK' /\ \E u \in Tasks : Private!Exit(u)
  <1>1. PICK u \in Tasks : u = call[t].other /\ call[u].pc = "new"
    BY PartsOf DEF ChildOK
  <1> DEFINE C == {t, u}
  <1>2. u # t /\ call[t].pc \notin {"new", "unused"}
    BY <1>1, PartsOf DEF ChildOK, Copying, Stage
  <1>3. /\ call'[t].pc = "user" /\ call'[u].pc = "unused"
        /\ Stage(call'[t]) = "user" /\ Stage(call'[u]) = "unused"
        /\ \A x \in Tasks \ C : call'[x] = call[x]
    BY <1>1, <1>2, PartsOf DEF ForkFails, At, Stage
  <1>4. /\ SeenOK'
        /\ \A x \in Tasks \ {u}, w \in Pages : Holds(x, w)' = Holds(x, w)
    <2>1. /\ C \in SUBSET Tasks /\ u \in C
          /\ \A x \in C : call[x].pc = "new" =>
               \E y \in C : Stage(call[y]) \in Copying /\ call[y].other = x
          /\ \A x \in C : call'[x].pc \notin Reading /\ Stage(call'[x]) \notin Copying
      BY <1>1, <1>2, <1>3 DEF Reading, Copying
    <2>2. FreePageTables(u, {})
      BY <1>1 DEF ForkFails
    <2> HIDE DEF C
    <2> QED BY <1>3, <2>1, <2>2, FreedSeen
  <1>5. Alive(u) /\ ~Alive(u)' /\ \A x \in Tasks \ {u} : Alive(x)' <=> Alive(x)
    BY <1>1, <1>2, <1>3 DEF Alive
  <1>6. \A w \in Pages : Content(u, w)' = Backing(w)
    BY <1>5, ContentIs
  <1>7. ASSUME NEW x \in Tasks \ {u}, NEW w \in Pages PROVE Content(x, w)' = Content(x, w)
    <2>1. \A y \in Tasks :
            Stage(call'[y]) \in Copying /\ call'[y].other = x /\ call'[y].v <= w <=>
            Stage(call[y]) \in Copying /\ call[y].other = x /\ call[y].v <= w
      BY <1>1, <1>3 DEF Copying, Stage
    <2>2. CopiesFor(x, w)' = CopiesFor(x, w)
      BY <2>1 DEF CopiesFor
    <2>3. u \notin CopiesFor(x, w) /\ CopiesFor(x, w) \subseteq Tasks
      BY <1>1 DEF CopiesFor, Stage, Copying
    <2> QED BY <1>4, <1>5, <2>2, <2>3, ContentStays
  <1>8. Private!Exit(u)
    BY <1>4, <1>5, <1>6, <1>7 DEF Private!Exit
  <1> QED BY <1>4, <1>8

-----------------------------------------------------------------------------
(* Every step is one that is seen as it should be. *)
LEMMA NoMemorySeen ==
  ASSUME MemoryAssumption, Inv, SeenOK, NEW t \in Tasks,
         \/ TryToShare(t) /\ table[t] = NONE /\ call[t].page = NONE
         \/ (PutPage(t) \/ Load(t) \/ SwapIn(t) \/ CopyPage(t)) /\ call[t].page = NONE
         \/ Exit(t)
  PROVE  SeenOK' /\ Private!Exit(t)
  <1>1. /\ \E fs : OutOfMemory(t, fs)
        /\ call[t].pc \in {"share", "put_page", "load", "swap_in", "copy_page", "user"}
    BY Zenon DEF TryToShare, PutPage, Load, SwapIn, CopyPage, Exit, Runs, Wakes
  <1>2. Stage(call[t]) \notin Copying /\ call[t].pc \notin {"new", "unused"}
    BY <1>1 DEF Stage, Copying
  <1> QED BY <1>1, <1>2, OutOfMemorySeen

LEMMA NoForkSeen ==
  ASSUME MemoryAssumption, Inv, SeenOK, NEW t \in Tasks, CopyTable(t) \/ CopySwapped(t),
         call[t].page = NONE
  PROVE  SeenOK' /\ \E u \in Tasks : Private!Exit(u)
  <1>1. ForkFails(t) /\ Stage(call[t]) \in Copying
    BY DEF CopyTable, CopySwapped, Runs, Stage, Copying
  <1> QED BY <1>1, ForkFailsSeen

LEMMA StepSeen ==
  ASSUME MemoryAssumption, Inv, SeenOK, NEW t \in Tasks, Step(t), ~raced', ~overtaken'
  PROVE  SeenOK' /\ PrivateStep
  <1> DEFINE Seen == SeenOK' /\ (\/ UNCHANGED Private!vars \/ SharesChanged(t) \/ DropsCopy(t)
                                 \/ \E u \in Tasks : Private!Exit(u))
  <1>1. Seen => SeenOK' /\ PrivateStep
    BY DEF PrivateStep
  <1> HIDE DEF Seen
  <1>2. CASE GetPage(t)
    BY <1>1, <1>2, GetPageSeen DEF Seen
  <1>3. CASE TryToShare(t)
    BY <1>1, <1>3, NoMemorySeen, TryToShareSeen DEF Seen
  <1>4. CASE PutPage(t)
    BY <1>1, <1>4, NoMemorySeen, PutPageSeen DEF Seen
  <1>5. CASE Load(t) \/ Loaded(t)
    <2>1. Loaded(t) => call[t].page # NONE
      BY PartsOf DEF Loaded, Wakes, InKernelOK
    <2> QED BY <1>1, <1>5, <2>1, NoMemorySeen, LoadSeen DEF Seen
  <1>6. CASE SwapIn(t) \/ SwappedIn(t)
    BY <1>1, <1>6, NoMemorySeen, ReadSeen, SwappedInSeen DEF Seen
  <1>7. CASE CopyPage(t)
    BY <1>1, <1>7, NoMemorySeen, CopyPageSeen DEF Seen
  <1>8. CASE CopyTable(t) \/ CopySwapped(t)
    BY <1>1, <1>8, NoForkSeen, CopyTableSeen, ReadSeen DEF Seen
  <1>9. CASE CopyEntry(t) \/ CopyRead(t)
    BY <1>1, <1>9, CopyEntrySeen, CopyReadSeen DEF Seen
  <1>10. CASE Exit(t)
    BY <1>1, <1>10, NoMemorySeen DEF Seen
  <1>11. ASSUME NEW v \in Pages, PageFault(t, v) PROVE SeenOK' /\ PrivateStep
    BY <1>1, <1>11, UnWpPageSeen, NoPageFaultSeen DEF PageFault, Seen
  <1>12. CASE Exec(t)
    BY <1>12, ExecSeen DEF PrivateStep
  <1>13. ASSUME NEW v \in Pages, NEW d \in Values, Write(t, v, d) PROVE SeenOK' /\ PrivateStep
    BY <1>13, WriteSeen DEF PrivateStep
  <1>14. ASSUME NEW u \in Tasks, Fork(t, u) PROVE SeenOK' /\ PrivateStep
    BY <1>14, ForkSeen DEF PrivateStep
  <1>15. CASE Forked(t)
    BY <1>1, <1>15, ForkedSeen DEF Seen
  <1> QED BY <1>2, <1>3, <1>4, <1>5, <1>6, <1>7, <1>8, <1>9, <1>10, <1>11, <1>12, <1>13, <1>14,
             <1>15 DEF Step

LEMMA InitSeen ==
  ASSUME MemoryAssumption, Init PROVE SeenOK /\ Private!Init
  <1>1. PICK u \in Tasks : call = [t \in Tasks |-> At(IF t = u THEN "user" ELSE "unused")]
    BY DEF Init
  <1>2. \A t \in Tasks : /\ call[t].pc \in {"user", "unused"} /\ Stage(call[t]) = call[t].pc
                         /\ \A w \in Pages : pte[t][w] = Empty
    BY <1>1 DEF Init, NoPages, At, Stage
  <1>3. SeenOK
    BY <1>2 DEF SeenOK, TableOK, ReadOK, ForkOK, Reading, PastTable, Copying
  <1>4. \A t \in Tasks, w \in Pages : Content(t, w) = Backing(w)
    <2>1. Empty.frame = NONE /\ Empty.slot = NONE
      BY DEF Empty
    <2> QED BY <1>2, <2>1 DEF Content, CopiesFor, Copying, Holds, Present
  <1> QED BY <1>3, <1>4 DEF Private!Init

(* What was done out of order stays so. *)
LEMMA OvertakenStays ==
  ASSUME NEW t \in Tasks, Step(t), ~overtaken' PROVE ~overtaken
  <1>1. CASE GetPage(t)
    BY <1>1 DEF GetPage, TakeFree, SwappedOut, NoPage, Drop, SwapOut, InOrder, history
  <1>2. CASE TryToShare(t)
    BY <1>2 DEF TryToShare, OutOfMemory, history
  <1>3. CASE PutPage(t)
    BY <1>3 DEF PutPage, OutOfMemory, history
  <1>4. CASE Load(t) \/ Loaded(t)
    BY <1>4 DEF Load, Loaded, OutOfMemory, history
  <1>5. CASE SwapIn(t) \/ SwappedIn(t)
    BY <1>5 DEF SwapIn, ReadSwapPage, InOrder, SwappedIn, OutOfMemory, history
  <1>6. CASE CopyPage(t)
    BY <1>6 DEF CopyPage, OutOfMemory, history
  <1>7. CASE CopyTable(t) \/ CopySwapped(t)
    BY <1>7 DEF CopyTable, CopySwapped, ReadSwapPage, InOrder, ForkFails, history
  <1>8. CASE CopyEntry(t) \/ CopyRead(t) \/ Forked(t)
    BY <1>8 DEF CopyEntry, CopyRead, Forked, history
  <1>9. CASE Exit(t) \/ Exec(t)
    BY <1>9 DEF Exit, Exec, OutOfMemory, history
  <1>10. ASSUME NEW v \in Pages, PageFault(t, v) PROVE ~overtaken
    BY <1>10 DEF PageFault, UnWpPage, NoPageFault, history
  <1>11. ASSUME NEW v \in Pages, NEW d \in Values, Write(t, v, d) PROVE ~overtaken
    BY <1>11 DEF Write
  <1>12. ASSUME NEW u \in Tasks, Fork(t, u) PROVE ~overtaken
    BY <1>12 DEF Fork, history
  <1> QED BY <1>1, <1>2, <1>3, <1>4, <1>5, <1>6, <1>7, <1>8, <1>9, <1>10, <1>11, <1>12, SMTT(60) DEF Step

LEMMA NextSeen ==
  ASSUME MemoryAssumption, IInv, SeenInv, [Next]_vars
  PROVE  SeenInv' /\ [PrivateStep]_vars
  <1>1. CASE Next /\ ~raced' /\ ~overtaken'
    <2>1. PICK t \in Tasks : Step(t)
      BY <1>1 DEF Next
    <2>2. Inv /\ SeenOK
      BY <1>1, <2>1, RacedStays, OvertakenStays DEF IInv, SeenInv
    <2> QED BY <1>1, <2>1, <2>2, StepSeen DEF SeenInv
  <1>2. CASE raced' \/ overtaken'
    BY <1>2 DEF SeenInv, PrivateStep
  <1>3. CASE UNCHANGED vars
    <2>1. UNCHANGED <<table, pte, data, disk, call, raced, overtaken>>
      BY <1>3 DEF vars, pages, history
    <2>2. SeenInv'
      BY <2>1 DEF SeenInv, SeenOK, TableOK, ReadOK, ForkOK
    <2> QED BY <1>3, <2>2
  <1> QED BY <1>1, <1>2, <1>3

(* Sharing, copying and swapping cannot be seen: until an entry is used that had
   changed, or a swap request is done before an earlier one to the same slot,
   every step leaves what all tasks have in memory, or is the write, fork, exec
   or exit that it looks like, but for a page that is shared after it has been
   written (memory.c:362) and for copies that are not dirty (memory.c:267),
   which may be shared and dropped. *)
THEOREM MemoryStaysPrivate == Spec => MemoryIsPrivate
  <1>1. Init => SeenInv /\ Private!Init
    BY MemoryConstants, InitSeen DEF SeenInv
  <1>2. IInv /\ SeenInv /\ [Next]_vars => SeenInv' /\ [PrivateStep]_vars
    BY MemoryConstants, NextSeen
  <1> QED BY <1>1, <1>2, IInvAlways, PTL DEF Spec, MemoryIsPrivate
=============================================================================
