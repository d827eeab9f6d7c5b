------------------------------- MODULE Memory -------------------------------
(***************************************************************************)
(* Pages, mm/memory.c and mm/swap.c: page tables, sharing, copy on write   *)
(* and swapping.                                                           *)
(*                                                                         *)
(* Every task has one page table, which it gets with its first page.  What *)
(* makes it hard is get_free_page: it may take pages away from any task,   *)
(* the caller included, and sleep while it writes one of them to the swap  *)
(* device; what its caller read in a page table before may then be wrong.  *)
(* A page is its content; disk is what the slots have once the requests    *)
(* made so far are done in their order, which the queue need not keep.     *)
(***************************************************************************)
EXTENDS Integers, FiniteSets, FiniteSetsExt

CONSTANTS
  Tasks,      \* address spaces, all of the same executable
  NrFrames,   \* pages of memory
  Code,       \* pages of an address space that are read from the executable
  Data,       \* those that are empty at first
  Slots,      \* pages of the swap device, numbered from 1
  Values      \* what programs write

MemoryAssumption ==
  /\ NrFrames \in Nat \ {0} /\ Slots \subseteq Nat \ {0}
  /\ Code \cup Data \subseteq Nat /\ Code \cap Data = {}
  /\ Code \cup Data # {} /\ IsFiniteSet(Code \cup Data)
  \* mem_map is an array of bytes, NR_TASKS is 64, and 0 is nobody.
  /\ IsFiniteSet(Tasks) /\ Cardinality(Tasks) < 256 /\ 0 \notin Tasks

ASSUME MemoryConstants == MemoryAssumption

Frames == 1..NrFrames
Pages == Code \cup Data
NONE == 0
Backing(v) == IF v \in Code THEN "file" ELSE "zero"

(* copy_page_tables counts from one entry to the next. *)
ASSUME PagesInARow == \A v, w \in Pages : v..w \subseteq Pages

VARIABLES
  mem_map,      \* references to each page of memory
  table,        \* the page that is the task's page table
  pte,          \* entries of the page tables
  swap_bitmap,  \* slots that are free
  data, disk,   \* contents of the pages and of the slots
  call,         \* where in the kernel a task is, with its local variables
  running,      \* the task that is in the kernel and has the processor
  panic,        \* free_page was asked to free a free page
  raced,        \* history: a page-table entry was used that had changed,
  overtaken,    \* a request for a slot was done before an earlier one,
  copied        \* pages un_wp_page has copied and nobody has written since

history == <<raced, overtaken, copied>>
pages == <<mem_map, table, pte, swap_bitmap, data, disk>>
vars == <<pages, call, running, panic, history>>

-----------------------------------------------------------------------------
(* Entries of a page table: the frame with the bits for write and dirty, the
   number of a swap slot, or 0. *)
Empty == [frame |-> NONE, rw |-> FALSE, dirty |-> FALSE, slot |-> NONE]
InFrame(f, rw, dirty) == [Empty EXCEPT !.frame = f, !.rw = rw, !.dirty = dirty]
InSlot(nr) == [Empty EXCEPT !.slot = nr]
Present(e) == e.frame # NONE

(* In the kernel: the next step, the one after get_free_page, the page a fault
   is about, the result of get_free_page, a frame read before, the task that a
   page is shared with or copied to, its page table, and the slot that
   swap_out writes. *)
At(pc) == [pc |-> pc, ret |-> pc, v |-> NONE, page |-> NONE, kept |-> NONE, other |-> NONE,
           from |-> NONE, slot |-> NONE]

Enter(t, c) == call' = [call EXCEPT ![t] = c] /\ running' = t
Sleep(t, c) == call' = [call EXCEPT ![t] = c] /\ running' = NONE
Return(t) == Sleep(t, At("user"))

GetFreePage(t, then, c) == Enter(t, [c EXCEPT !.pc = "get_free_page", !.ret = then])

Runs(t, pc) == call[t].pc = pc /\ running = t
Wakes(t, pc) == call[t].pc = pc /\ running = NONE

(* free_page of the frames in fs. *)
FreePages(fs) ==
  /\ mem_map' = [f \in Frames |-> IF f \in fs THEN Max({mem_map[f] - 1, 0}) ELSE mem_map[f]]
  /\ panic' = (panic \/ \E f \in fs \ {NONE} : mem_map[f] = 0)

(* free_page_tables of the task u, with the frames fs of the caller. *)
FreePageTables(u, fs) ==
  /\ FreePages({pte[u][v].frame : v \in Pages} \cup {table[u]} \cup fs)
  /\ swap_bitmap' = swap_bitmap \cup ({pte[u][v].slot : v \in Pages} \ {NONE})
  /\ table' = [table EXCEPT ![u] = NONE]
  /\ pte' = [pte EXCEPT ![u] = [v \in Pages |-> Empty]]
  /\ UNCHANGED <<data, disk>>

(* oom() exits. *)
OutOfMemory(t, fs) ==
  /\ FreePageTables(t, fs)
  /\ Sleep(t, At("unused"))
  /\ UNCHANGED history

-----------------------------------------------------------------------------
(* get_free_page: the last free page, or what swap_out can free.  Which entry
   swap_out comes to first depends on where it stopped the last time. *)
MayDrop(e) == Present(e) /\ ~e.dirty
MaySwap(e) == Present(e) /\ e.dirty /\ mem_map[e.frame] = 1 /\ swap_bitmap # {}

TakeFree(t) ==
  /\ Runs(t, "get_free_page")
  /\ LET free == {f \in Frames : mem_map[f] = 0}
         f == Max(free)
     IN  /\ free # {}
         /\ mem_map' = [mem_map EXCEPT ![f] = 1]
         /\ data' = [data EXCEPT ![f] = "zero"]
         /\ copied' = copied \ {f}
         /\ Enter(t, [call[t] EXCEPT !.pc = call[t].ret, !.page = f])
  /\ UNCHANGED <<table, pte, swap_bitmap, disk, panic, raced, overtaken>>

Full == \A f \in Frames : mem_map[f] # 0

(* A clean page is dropped: it can be read from the executable again. *)
Drop(t, u, v) ==
  /\ Runs(t, "get_free_page") /\ Full
  /\ MayDrop(pte[u][v])
  /\ pte' = [pte EXCEPT ![u][v] = Empty]
  /\ FreePages({pte[u][v].frame})
  /\ UNCHANGED <<table, swap_bitmap, data, disk, call, running, history>>

(* A transfer to or from a slot to which a write is still in the queue may be
   done before that one (ll_rw_blk.c:97): a read finds what was there then, and
   a write is undone by the earlier one. *)
BeingWritten(nr) == \E u \in Tasks : call[u].pc = "swap_out" /\ call[u].slot = nr
Contents == Values \cup {"file", "zero"}
InOrder(d, last) == overtaken' = (overtaken \/ d # last) /\ UNCHANGED <<raced, copied>>

(* A dirty page is written; the task sleeps and frees it afterwards. *)
SwapOut(t, u, v) ==
  /\ Runs(t, "get_free_page") /\ Full
  /\ MaySwap(pte[u][v])
  /\ LET nr == Min(swap_bitmap)
         f == pte[u][v].frame
     IN  /\ swap_bitmap' = swap_bitmap \ {nr}
         /\ \E d \in {data[f]} \cup (IF BeingWritten(nr) THEN {disk[nr]} ELSE {}) :
              disk' = [disk EXCEPT ![nr] = d] /\ InOrder(d, data[f])
         /\ pte' = [pte EXCEPT ![u][v] = InSlot(nr)]
         /\ Sleep(t, [call[t] EXCEPT !.pc = "swap_out", !.page = f, !.slot = nr])
  /\ UNCHANGED <<mem_map, table, data, panic>>

SwappedOut(t) ==
  /\ Wakes(t, "swap_out")
  /\ FreePages({call[t].page})
  /\ Enter(t, [call[t] EXCEPT !.pc = "get_free_page", !.page = NONE, !.slot = NONE])
  /\ UNCHANGED <<table, pte, swap_bitmap, data, disk, history>>

NoPage(t) ==
  /\ Runs(t, "get_free_page") /\ Full
  /\ \A u \in Tasks, v \in Pages : ~MayDrop(pte[u][v]) /\ ~MaySwap(pte[u][v])
  /\ Enter(t, [call[t] EXCEPT !.pc = call[t].ret, !.page = NONE])
  /\ UNCHANGED <<pages, panic, history>>

GetPage(t) ==
  \/ TakeFree(t) \/ SwappedOut(t) \/ NoPage(t)
  \/ \E u \in Tasks, v \in Pages : Drop(t, u, v) \/ SwapOut(t, u, v)

-----------------------------------------------------------------------------
(* do_no_page: read from the swap device, empty, shared with a task that has
   the page and has not changed it, or read from the executable.  Which of
   several tasks share_page finds first depends on their numbers. *)
Sharers(t, v) == {u \in Tasks \ {t} : MayDrop(pte[u][v])}

NoPageFault(t, v) ==
  /\ Wakes(t, "user") /\ ~Present(pte[t][v])
  /\ LET c == [At("user") EXCEPT !.v = v] IN
     IF pte[t][v].slot # NONE THEN GetFreePage(t, "swap_in", c)
     ELSE IF v \in Data THEN GetFreePage(t, "put_page", c)
     ELSE IF Sharers(t, v) = {} THEN GetFreePage(t, "load", c)
     ELSE \E u \in Sharers(t, v) :
            LET found == [c EXCEPT !.other = u, !.kept = pte[u][v].frame, !.from = table[u]] IN
            IF table[t] = NONE THEN GetFreePage(t, "share", found)
            ELSE Enter(t, [found EXCEPT !.pc = "share"])
  /\ UNCHANGED <<pages, panic, history>>

(* try_to_share, from where it has a page table: the other task's entry is
   copied as it is now in the table that was the task's before, but the page is
   counted that was in it then. *)
TryToShare(t) ==
  /\ Runs(t, "share")
  /\ LET c == call[t]
         e == pte[c.other][c.v]
     IN  IF table[t] = NONE /\ c.page = NONE THEN OutOfMemory(t, {})
         ELSE /\ table' = [table EXCEPT ![t] = IF @ = NONE THEN c.page ELSE @]
              /\ pte' = [pte EXCEPT ![c.other][c.v].rw = FALSE, ![t][c.v] = [e EXCEPT !.rw = FALSE]]
              /\ mem_map' = [mem_map EXCEPT ![c.kept] = (@ + 1) % 256]
              /\ raced' = (raced \/ e.frame # c.kept \/ table[c.other] # c.from)
              /\ Return(t)
              /\ UNCHANGED <<swap_bitmap, data, disk, panic, overtaken, copied>>

(* put_page, which may have to get a page for the table first. *)
PutPage(t) ==
  /\ Runs(t, "put_page")
  /\ LET c == call[t] IN
     IF c.page = NONE THEN OutOfMemory(t, {c.kept})
     ELSE IF table[t] = NONE /\ c.kept = NONE
     THEN /\ GetFreePage(t, "put_page", [c EXCEPT !.kept = c.page, !.page = NONE])
          /\ UNCHANGED <<pages, panic, history>>
     ELSE /\ table' = [table EXCEPT ![t] = IF @ = NONE THEN c.page ELSE @]
          /\ pte' = [pte EXCEPT ![t][c.v] =
                       InFrame(IF table[t] = NONE THEN c.kept ELSE c.page, TRUE, FALSE)]
          /\ Return(t)
          /\ UNCHANGED <<mem_map, swap_bitmap, data, disk, panic, history>>

Load(t) ==
  /\ Runs(t, "load")
  /\ IF call[t].page = NONE THEN OutOfMemory(t, {})
     ELSE Sleep(t, [call[t] EXCEPT !.pc = "bread_page"]) /\ UNCHANGED <<pages, panic, history>>

Loaded(t) ==
  /\ Wakes(t, "bread_page")
  /\ data' = [data EXCEPT ![call[t].page] = "file"]
  /\ Enter(t, [call[t] EXCEPT !.pc = "put_page"])
  /\ UNCHANGED <<mem_map, table, pte, swap_bitmap, disk, panic, history>>

ReadSwapPage(t, then) ==
  /\ LET nr == pte[t][call[t].v].slot IN
     \E d \in {disk[nr]} \cup (IF BeingWritten(nr) THEN Contents ELSE {}) :
       data' = [data EXCEPT ![call[t].page] = d] /\ InOrder(d, disk[nr])
  /\ Sleep(t, [call[t] EXCEPT !.pc = then])
  /\ UNCHANGED <<mem_map, table, pte, swap_bitmap, disk, panic>>

SwapIn(t) ==
  /\ Runs(t, "swap_in")
  /\ IF call[t].page = NONE THEN OutOfMemory(t, {}) ELSE ReadSwapPage(t, "read_swap_page")

(* The slot is free again; the page is dirty, for no slot has it now. *)
SwappedIn_Clean(t) ==                 \* faulty: the page is not marked
  /\ Wakes(t, "read_swap_page")
  /\ pte' = [pte EXCEPT ![t][call[t].v] = InFrame(call[t].page, TRUE, FALSE)]
  /\ swap_bitmap' = swap_bitmap \cup {pte[t][call[t].v].slot}
  /\ Return(t)
  /\ UNCHANGED <<mem_map, table, data, disk, panic, history>>

SwappedIn(t) ==
  /\ Wakes(t, "read_swap_page")
  /\ pte' = [pte EXCEPT ![t][call[t].v] = InFrame(call[t].page, TRUE, TRUE)]
  /\ swap_bitmap' = swap_bitmap \cup {pte[t][call[t].v].slot}
  /\ Return(t)
  /\ UNCHANGED <<mem_map, table, data, disk, panic, history>>

-----------------------------------------------------------------------------
(* A write to a page that may not be written, a fault of a program or
   write_verify for a system call. un_wp_page lets the only owner
   have it and copies it otherwise. It goes on with what it read before it
   asked for a page, though the entry may have been cleared meanwhile and the
   page not be counted for it any more. The new page may be written and is not
   marked dirty: the write does that when it is tried again, which others may
   run before, and which never comes if a system call asked for the page and
   has nothing to put there. *)
UnWpPage(t, v) ==
  /\ Wakes(t, "user") /\ Present(pte[t][v]) /\ ~pte[t][v].rw
  /\ LET f == pte[t][v].frame
         c == [At("user") EXCEPT !.v = v]
     IN  IF mem_map[f] = 1
         THEN /\ pte' = [pte EXCEPT ![t][v].rw = TRUE]
              /\ UNCHANGED <<mem_map, table, swap_bitmap, data, disk>>
              /\ UNCHANGED <<call, running, panic, history>>
         ELSE /\ GetFreePage(t, "copy_page", [c EXCEPT !.kept = f])
              /\ UNCHANGED <<pages, panic, history>>

Copied_StillCounted(t) ==              \* faulty: the old page keeps its count
  [mem_map EXCEPT ![call[t].kept] = @]
Copied(t) == [mem_map EXCEPT ![call[t].kept] = (@ - 1) % 256]

CopyPage(t) ==
  /\ Runs(t, "copy_page")
  /\ LET c == call[t] IN
     IF c.page = NONE THEN OutOfMemory(t, {})
     ELSE /\ mem_map' = Copied(t)
          /\ data' = [data EXCEPT ![c.page] = data[c.kept]]
          /\ pte' = [pte EXCEPT ![t][c.v] = InFrame(c.page, TRUE, FALSE)]
          /\ raced' = (raced \/ pte[t][c.v].frame # c.kept)
          /\ copied' = copied \cup {c.page}
          /\ Return(t)
          /\ UNCHANGED <<table, swap_bitmap, disk, panic, overtaken>>

(* The processor writes to a page that may be written. *)
Write(t, v, d) ==
  /\ Wakes(t, "user") /\ pte[t][v].rw
  /\ data' = [data EXCEPT ![pte[t][v].frame] = d]
  /\ pte' = [pte EXCEPT ![t][v].dirty = TRUE]
  /\ copied' = copied \ {pte[t][v].frame}
  /\ UNCHANGED <<mem_map, table, swap_bitmap, disk, call, running, panic, raced, overtaken>>

(* page_fault: by bit 0 of the error code. *)
PageFault(t, v) == IF Present(pte[t][v]) THEN UnWpPage(t, v) ELSE NoPageFault(t, v)

-----------------------------------------------------------------------------
(* copy_page_tables, for a fork of u from t. A page that is in a swap slot is
   read: the parent has the page then and the child the slot. *)
Fork(t, u) ==
  /\ Wakes(t, "user") /\ call[u].pc = "unused"
  /\ IF table[t] = NONE
     THEN call' = [call EXCEPT ![u] = At("user")] /\ UNCHANGED running
     ELSE /\ call' = [call EXCEPT ![u] = At("new"),
                        ![t] = [At("get_free_page") EXCEPT !.ret = "copy_table", !.other = u]]
          /\ running' = t
  /\ UNCHANGED <<pages, panic, history>>

(* Out of memory: copy_mem frees what the child has. *)
ForkFails(t) ==
  /\ FreePageTables(call[t].other, {})
  /\ call' = [call EXCEPT ![t] = At("user"), ![call[t].other] = At("unused")]
  /\ running' = NONE
  /\ UNCHANGED history

CopyTable(t) ==
  /\ Runs(t, "copy_table")
  /\ IF call[t].page = NONE THEN ForkFails(t)
     ELSE /\ table' = [table EXCEPT ![call[t].other] = call[t].page]
          /\ Enter(t, [call[t] EXCEPT !.pc = "copy_entries", !.page = NONE, !.v = Min(Pages)])
          /\ UNCHANGED <<mem_map, pte, swap_bitmap, data, disk, panic, history>>

ReadOnly(e) == [e EXCEPT !.rw = FALSE]
Shared_ChildOnly(t, e) ==              \* faulty: the parent may go on writing
  [pte EXCEPT ![call[t].other][call[t].v] = ReadOnly(e)]
Shared(t, e) ==
  [pte EXCEPT ![call[t].other][call[t].v] = ReadOnly(e), ![t][call[t].v] = ReadOnly(e)]

NextEntry(c) == [c EXCEPT !.v = @ + 1, !.page = NONE, !.pc = "copy_entries"]

CopyEntry(t) ==
  /\ Runs(t, "copy_entries") /\ call[t].v \in Pages
  /\ LET e == pte[t][call[t].v] IN
     IF e.slot # NONE
     THEN GetFreePage(t, "copy_swapped", call[t]) /\ UNCHANGED <<pages, panic, history>>
     ELSE /\ IF Present(e)
             THEN pte' = Shared(t, e) /\ mem_map' = [mem_map EXCEPT ![e.frame] = (@ + 1) % 256]
             ELSE UNCHANGED <<pte, mem_map>>
          /\ Enter(t, NextEntry(call[t]))
          /\ UNCHANGED <<table, swap_bitmap, data, disk, panic, history>>

CopySwapped(t) ==
  /\ Runs(t, "copy_swapped")
  /\ IF call[t].page = NONE THEN ForkFails(t) ELSE ReadSwapPage(t, "copy_read")

CopyRead(t) ==
  /\ Wakes(t, "copy_read")
  /\ LET c == call[t] IN
     pte' = [pte EXCEPT ![c.other][c.v] = pte[t][c.v], ![t][c.v] = InFrame(c.page, TRUE, TRUE)]
  /\ Enter(t, NextEntry(call[t]))
  /\ UNCHANGED <<mem_map, table, swap_bitmap, data, disk, panic, history>>

Forked(t) ==
  /\ Runs(t, "copy_entries") /\ call[t].v \notin Pages
  /\ call' = [call EXCEPT ![t] = At("user"), ![call[t].other] = At("user")]
  /\ running' = NONE
  /\ UNCHANGED <<pages, panic, history>>

(* do_exit and do_execve give all pages back. *)
Exit(t) == Wakes(t, "user") /\ OutOfMemory(t, {})
Exec(t) == Wakes(t, "user") /\ FreePageTables(t, {}) /\ UNCHANGED <<call, running, history>>

-----------------------------------------------------------------------------
NoPages ==
  /\ mem_map = [f \in Frames |-> 0] /\ table = [t \in Tasks |-> NONE]
  /\ pte = [t \in Tasks |-> [v \in Pages |-> Empty]] /\ swap_bitmap = Slots
  /\ data = [f \in Frames |-> "zero"] /\ disk = [nr \in Slots |-> "zero"]
  /\ running = NONE /\ panic = FALSE
  /\ raced = FALSE /\ overtaken = FALSE /\ copied = {}

Init ==
  /\ NoPages
  /\ call \in {[t \in Tasks |-> At(IF t = u THEN "user" ELSE "unused")] : u \in Tasks}

Step(t) ==
  \/ GetPage(t) \/ TryToShare(t) \/ PutPage(t) \/ Load(t) \/ Loaded(t) \/ SwapIn(t)
  \/ SwappedIn(t) \/ CopyPage(t) \/ CopyTable(t) \/ CopyEntry(t) \/ CopySwapped(t)
  \/ CopyRead(t) \/ Forked(t) \/ Exit(t) \/ Exec(t)
  \/ \E v \in Pages : PageFault(t, v)
  \/ \E v \in Pages, d \in Values : Write(t, v, d)
  \/ \E u \in Tasks : Fork(t, u)

Next == ~panic /\ \E t \in Tasks : Step(t)

Spec == Init /\ [][Next]_vars

-----------------------------------------------------------------------------
Entries == Tasks \X Pages
EntriesOf(f) == {e \in Entries : pte[e[1]][e[2]].frame = f}
Holders(f) ==
  {t \in Tasks : call[t].page = f} \cup
  {t \in Tasks : call[t].kept = f /\ "put_page" \in {call[t].pc, call[t].ret}}

(* mem_map counts the references to each page: entries, page tables, and the
   tasks in the kernel that have just got it or are writing it to the swap
   device - as long as nobody has used an entry that changed while it waited
   for memory (memory.c:262, 362). *)
MapCountsReferences ==
  ~raced => \A f \in Frames :
    mem_map[f] = Cardinality(EntriesOf(f)) + Cardinality({t \in Tasks : table[t] = f})
                 + Cardinality(Holders(f))

(* A slot of the swap device that is not free is in one entry, and no entry
   is in a free one, though owners fork, exit and fault while it is written. *)
SlotsHaveOneOwner ==
  ~raced => \A nr \in Slots :
    Cardinality({e \in Entries : pte[e[1]][e[2]].slot = nr}) = IF nr \in swap_bitmap THEN 0 ELSE 1

(* memory.c:224 wants the dirty bit to be correct "for VM": a page that is not
   dirty, and may be dropped any time, is as it was in the executable, except
   that un_wp_page copies a page without its dirty bit (memory.c:267), so that
   the copy is not, until somebody writes to it. *)
CleanIsReloadable ==
  ~raced => \A t \in Tasks, v \in Pages :
    MayDrop(pte[t][v]) /\ pte[t][v].frame \notin copied => data[pte[t][v].frame] = Backing(v)

(* The swap device and the page tables agree, and what is dropped can be had
   again, through the sleeps of swap_out and swap_in (swap.c:75-128). *)
SwapIsExact == SlotsHaveOneOwner /\ CleanIsReloadable

(* free_page is never called for a free page (the panic in memory.c:69). *)
NeverFreesFree == ~panic

-----------------------------------------------------------------------------
(* What an entry stands for, wherever it is. *)
Holds(t, v) ==
  LET e == pte[t][v] IN
  IF Present(e) THEN data[e.frame] ELSE IF e.slot # NONE THEN disk[e.slot] ELSE Backing(v)

(* What a task sees of its memory; for a child that is being made, the entries
   that are not copied yet are those of its parent. *)
Alive(t) == call[t].pc # "unused"
Stage(c) == IF c.pc \in {"get_free_page", "swap_out"} THEN c.ret ELSE c.pc
Copying == {"copy_table", "copy_entries", "copy_swapped", "copy_read"}
CopiesFor(u, v) ==
  {t \in Tasks : Stage(call[t]) \in Copying /\ call[t].other = u /\ call[t].v <= v}
Content(u, v) ==
  IF ~Alive(u) THEN Backing(v)
  ELSE IF CopiesFor(u, v) = {} THEN Holds(u, v)
  ELSE Holds(CHOOSE t \in CopiesFor(u, v) : TRUE, v)

Private ==
  INSTANCE PrivateMemory WITH
    Initial <- [v \in Pages |-> Backing(v)],
    live <- {t \in Tasks : Alive(t)},
    mem <- [t \in Tasks |-> [v \in Pages |-> Content(t, v)]]

(* A page that is shared as clean and is not as in the executable: it was when
   share_page looked at it, before try_to_share slept for a page table, and has
   been written by its owner since (memory.c:362), or it is a copy without its
   dirty bit (memory.c:267). Such a copy may also be dropped (swap.c:124). *)
SharesChanged(t) ==
  /\ TryToShare(t)
  /\ LET e == pte[call[t].other][call[t].v] IN e.dirty \/ e.frame \in copied
DropsCopy(t) == \E u \in Tasks, v \in Pages : Drop(t, u, v) /\ pte[u][v].frame \in copied

(* Sharing, copying and swapping cannot be seen: every task has a memory that
   only its own writes change, that a fork copies and an exec makes new, as long
   as swap requests are done in order, but for the two steps above. *)
PrivateStep ==
  \/ raced' \/ overtaken' \/ UNCHANGED Private!vars
  \/ \E t \in Tasks :
       \/ SharesChanged(t) \/ DropsCopy(t)
       \/ Private!Exit(t) \/ (Exec(t) /\ Private!Exec(t))
       \/ \E v \in Pages, d \in Values : Write(t, v, d) /\ Private!Write(t, v, d)
       \/ \E u \in Tasks : Fork(t, u) /\ Private!Fork(t, u)

MemoryIsPrivate == Private!Init /\ [][PrivateStep]_vars
=============================================================================
