----------------------------- MODULE FileBlocks -----------------------------
(***************************************************************************)
(* The blocks of files: _bmap of fs/inode.c, which finds and allocates     *)
(* them, new_block and free_block of fs/bitmap.c, and fs/truncate.c.       *)
(*                                                                         *)
(* A pointer to a block is in the inode (direct, indirect, double) or in   *)
(* a block of pointers; of the seven direct ones and the 512 in a block    *)
(* one stands for all.  A block is busy while somebody has its buffer.     *)
(* Most steps sleep, and there is no lock on a file.                       *)
(***************************************************************************)
EXTENDS Integers, FiniteSets, FiniteSetsExt

CONSTANTS
  Callers,    \* tasks
  FileNrs,    \* files
  NrBlocks    \* blocks of the data zone

FileBlocksAssumption == NrBlocks \in Nat \ {0}

Zones == 1..NrBlocks
Kinds == 1..3     \* direct, indirect, double indirect: the pointers on the way

VARIABLES
  zmap,       \* blocks that are marked as used
  i_zone,     \* pointers in the inodes, 0 for none
  pointer,    \* the pointer in a block
  walk,       \* what a task is doing
  lost,       \* history: the first of the blocks under each one that truncate
              \* has freed without being able to read it
  walkRaced   \* history: a file was truncated while somebody was on the way
              \* to a block of it, or two tasks allocated the same one

blockVars == <<zmap, i_zone, pointer, walk, lost, walkRaced>>

NoWalk == [pc |-> "idle", f |-> 0, kind |-> 0, depth |-> 0, create |-> FALSE, bh |-> 0, new |-> 0]
WalksOn(t, c) == walk' = [walk EXCEPT ![t] = c]

(* b_count of the buffer, those of the tasks in us left aside. *)
Busy(b, us) == \E t \in Callers \ us : walk[t].bh = b

-----------------------------------------------------------------------------
(* _bmap has come to a pointer: in the inode, or in the block whose buffer it
   has got. *)
Pointer(t) == LET c == walk[t] IN IF c.depth = 1 THEN i_zone[c.f][c.kind] ELSE pointer[c.bh]

SetPointer(t, b) ==
  LET c == walk[t] IN
  IF c.depth = 1 THEN i_zone' = [i_zone EXCEPT ![c.f][c.kind] = b] /\ pointer' = [pointer EXCEPT ![b] = 0]
  ELSE pointer' = [pointer EXCEPT ![c.bh] = b, ![b] = 0] /\ UNCHANGED i_zone

Bmap(t, f, kind, create) ==
  /\ walk[t].pc = "idle"
  /\ WalksOn(t, [NoWalk EXCEPT !.pc = "pointer", !.f = f, !.kind = kind, !.depth = 1, !.create = create])
  /\ UNCHANGED <<zmap, i_zone, pointer, lost, walkRaced>>

Truncates(f) == \E t \in Callers : walk[t].pc = "truncate" /\ walk[t].f = f

(* The end of the way, or the next block of pointers, which is read. *)
Follow(t) ==
  /\ walk[t].pc = "pointer" /\ Pointer(t) # 0
  /\ WalksOn(t, [walk[t] EXCEPT !.pc = IF walk[t].depth = walk[t].kind THEN "getblk" ELSE "bread",
                             !.new = Pointer(t), !.bh = 0])
  /\ walkRaced' = (walkRaced \/ Truncates(walk[t].f))
  /\ UNCHANGED <<zmap, i_zone, pointer, lost>>

NoBlock(t) ==
  /\ walk[t].pc = "pointer" /\ Pointer(t) = 0
  /\ ~walk[t].create \/ zmap = Zones
  /\ WalksOn(t, NoWalk)
  /\ UNCHANGED <<zmap, i_zone, pointer, lost, walkRaced>>

(* new_block marks the first free block and sleeps for a buffer. *)
FirstFree_Unmarked(t) == /\ WalksOn(t, [walk[t] EXCEPT !.pc = "new_block", !.new = Min(Zones \ zmap)])
                         /\ UNCHANGED zmap            \* faulty: marks it after the sleep
FirstFree(t) ==
  /\ WalksOn(t, [walk[t] EXCEPT !.pc = "new_block", !.new = Min(Zones \ zmap)])
  /\ zmap' = zmap \cup {Min(Zones \ zmap)}

NewBlock(t) ==
  /\ walk[t].pc = "pointer" /\ Pointer(t) = 0
  /\ walk[t].create /\ zmap # Zones
  /\ FirstFree(t)
  /\ UNCHANGED <<i_zone, pointer, lost, walkRaced>>

Allocated(t) ==
  /\ walk[t].pc = "new_block"
  /\ SetPointer(t, walk[t].new)
  /\ WalksOn(t, [walk[t] EXCEPT !.pc = "pointer", !.new = 0])
  /\ walkRaced' = (walkRaced \/ Pointer(t) # 0)
  /\ UNCHANGED <<zmap, lost>>

(* A block of pointers has been read; the block asked for is used. *)
Read(t) ==
  /\ walk[t].pc = "bread"
  /\ WalksOn(t, [walk[t] EXCEPT !.pc = "pointer", !.depth = @ + 1, !.bh = walk[t].new, !.new = 0])
  /\ UNCHANGED <<zmap, i_zone, pointer, lost, walkRaced>>

ReadFails(t) ==
  /\ walk[t].pc \in {"bread", "getblk"}
  /\ WalksOn(t, NoWalk)
  /\ UNCHANGED <<zmap, i_zone, pointer, lost, walkRaced>>

Use(t) ==
  /\ walk[t].pc = "getblk"
  /\ WalksOn(t, [walk[t] EXCEPT !.pc = "using", !.bh = walk[t].new, !.new = 0])
  /\ UNCHANGED <<zmap, i_zone, pointer, lost, walkRaced>>

Brelse(t) ==
  /\ walk[t].pc = "using"
  /\ WalksOn(t, NoWalk)
  /\ UNCHANGED <<zmap, i_zone, pointer, lost, walkRaced>>

-----------------------------------------------------------------------------
(* truncate: free_ind and free_dind free what a block points to before the
   block; free_block does not free a busy one, and truncate tries again. *)
OnTheWay(f) == \E t \in Callers : walk[t].f = f /\ walk[t].pc \in {"getblk", "bread", "truncate"}

Truncate(t, f) ==
  /\ walk[t].pc = "idle"
  /\ WalksOn(t, [NoWalk EXCEPT !.pc = "truncate", !.f = f])
  /\ walkRaced' = (walkRaced \/ OnTheWay(f))
  /\ UNCHANGED <<zmap, i_zone, pointer, lost>>

(* The last block from a pointer of the inode on, and the block that points to
   it, 0 if the inode does. *)
Deepest(f, kind) ==
  LET a == i_zone[f][kind]
      b == IF a = 0 \/ kind < 2 THEN 0 ELSE pointer[a]
      c == IF b = 0 \/ kind < 3 THEN 0 ELSE pointer[b]
  IN  IF c # 0 THEN <<c, b>> ELSE IF b # 0 THEN <<b, a>> ELSE <<a, 0>>

MayFree_InUse(t, b) == TRUE            \* faulty: does not look at b_count
MayFree(t, b) == ~Busy(b, {t})

FreeBlock(t, kind) ==
  LET f == walk[t].f
      b == Deepest(f, kind)[1]
      from == Deepest(f, kind)[2]
  IN  /\ walk[t].pc = "truncate" /\ b # 0
      /\ MayFree(t, b)
      /\ zmap' = zmap \ {b}
      /\ IF from = 0
         THEN i_zone' = [i_zone EXCEPT ![f][kind] = 0] /\ UNCHANGED pointer
         ELSE pointer' = [pointer EXCEPT ![from] = 0] /\ UNCHANGED i_zone
      /\ UNCHANGED <<walk, lost, walkRaced>>

(* A block of pointers that bread fails for is freed all the same, and what it
   points to stays marked. What is in a free block does not matter: new_block
   clears it. *)
Indirect(f, kind, depth) ==
  LET a == i_zone[f][kind] IN
  IF depth = 1 THEN <<a, 0>> ELSE <<IF a = 0 THEN 0 ELSE pointer[a], a>>

FreeUnread(t, kind, depth) ==
  LET f == walk[t].f
      b == Indirect(f, kind, depth)[1]
      from == Indirect(f, kind, depth)[2]
  IN  /\ walk[t].pc = "truncate" /\ depth < kind /\ b # 0
      /\ MayFree(t, b)
      /\ zmap' = zmap \ {b}
      /\ lost' = lost \cup ({pointer[b]} \ {0})
      /\ IF from = 0
         THEN i_zone' = [i_zone EXCEPT ![f][kind] = 0] /\ pointer' = [pointer EXCEPT ![b] = 0]
         ELSE pointer' = [pointer EXCEPT ![from] = 0, ![b] = 0] /\ UNCHANGED i_zone
      /\ UNCHANGED <<walk, walkRaced>>

BlocksTruncated(t) ==
  /\ walk[t].pc = "truncate"
  /\ \A kind \in Kinds : i_zone[walk[t].f][kind] = 0
  /\ WalksOn(t, NoWalk)
  /\ UNCHANGED <<zmap, i_zone, pointer, lost, walkRaced>>

-----------------------------------------------------------------------------
BlocksInit ==
  /\ zmap = {} /\ i_zone = [f \in FileNrs |-> [kind \in Kinds |-> 0]]
  /\ pointer = [b \in Zones |-> 0]
  /\ walk = [t \in Callers |-> NoWalk] /\ lost = {} /\ walkRaced = FALSE

BlocksStep(t) ==
  \/ Follow(t) \/ NoBlock(t) \/ NewBlock(t) \/ Allocated(t) \/ Read(t) \/ ReadFails(t)
  \/ Use(t) \/ Brelse(t)
  \/ \E kind \in Kinds : FreeBlock(t, kind) \/ \E depth \in 1..2 : FreeUnread(t, kind, depth)
  \/ BlocksTruncated(t)

(* What follows a race is not modelled. *)
BlocksNext ==
  /\ ~walkRaced
  /\ \E t \in Callers :
       \/ BlocksStep(t)
       \/ \E f \in FileNrs, kind \in Kinds, create \in BOOLEAN : Bmap(t, f, kind, create)
       \/ \E f \in FileNrs : Truncate(t, f)

BlocksSpec == BlocksInit /\ [][BlocksNext]_blockVars

-----------------------------------------------------------------------------
(* The bitmap is exact, in the middle of allocating and truncating as well: a
   block is marked if it is in one file, at one place, or a task has just
   allocated it, and no block is twice in files. What truncate could not read
   the way to is marked for ever and nowhere (truncate.c:21, 48), and no block
   but those: lost are the first ones, and each of them still points to the
   next. A block that somebody uses is not free. (Disturbed when two tasks
   allocate the same block of a file, inode.c:92, or truncate it under
   somebody's feet, inode.c:111.) *)
Places(b) ==
  Cardinality({p \in FileNrs \X Kinds : i_zone[p[1]][p[2]] = b})
  + Cardinality({a \in zmap : pointer[a] = b})
  + Cardinality({t \in Callers : walk[t].pc = "new_block" /\ walk[t].new = b})

BitmapIsExact ==
  ~walkRaced => \A b \in Zones :
    /\ Places(b) = IF b \in zmap \ lost THEN 1 ELSE 0
    /\ b \in lost \/ (\E t \in Callers : walk[t].bh = b) => b \in zmap
=============================================================================
