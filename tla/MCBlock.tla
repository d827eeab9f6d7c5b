------------------------------ MODULE MCBlock ------------------------------
(***************************************************************************)
(* The buffer cache and the block devices' requests in one run, these once *)
(* with pages swapped and once with a third block and a device that fails. *)
(* They share no state here: each behaviour is one of a single part, while *)
(* the other part stays as it is initially.                                *)
(***************************************************************************)
EXTENDS BufferCache, RequestQueue, TLC

CONSTANT ThreeBlocks

VARIABLE part

(* Two blocks of a device and one of another; what tasks call. *)
A1 == [dev |-> 1, block |-> 1]
A2 == [dev |-> 1, block |-> 2]
B1 == [dev |-> 2, block |-> 1]

AllKeys == {A1, A2, B1}
MixedCalls == {<<"getblk", <<B1>>>>, <<"bread", <<A2>>>>, <<"breada", <<A1, A2>>>>, <<"bread_page", <<A1, B1>>>>}
AllScans == {<<"sys_sync", 0>>, <<"sync_dev", 1>>, <<"invalidate_buffers", 2>>}

R == INSTANCE RequestQueue WITH Blocks <- ThreeBlocks, SwapPages <- {}, DeviceFails <- TRUE

ASSUME RequestQueueAssumption /\ R!RequestQueueAssumption
ASSUME EnoughBuffers

(* While the behaviour is one of the cache it is all the same which block a
   buffer of the queue has. *)
Buffered ==
  blocknr = CHOOSE f \in [BufferHeads -> Blocks] : \A b, c \in BufferHeads : f[b] = f[c] => b = c

BlockInit ==
  /\ Init
  /\ \/ part = "queue" /\ R!QueueInit
     \/ part = "swap" /\ QueueInit
     \/ part = "cache" /\ QueueInit /\ Buffered

Only(p) == part = p /\ part' = p

BlockNext ==
  \/ Only("queue") /\ R!QueueNext /\ UNCHANGED vars
  \/ Only("swap") /\ QueueNext /\ UNCHANGED vars
  \/ Only("cache") /\ Next /\ UNCHANGED queueVars

BlockSpec == BlockInit /\ [][BlockNext]_<<part, queueVars, vars>>

Symmetry == Permutations(Tasks) \union Permutations(BufferHeads)
=============================================================================
