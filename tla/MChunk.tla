------------------------------- MODULE MChunk -------------------------------
(***************************************************************************)
(* A chunk of the Loki small-object allocator (MAllocator/MLOKIAllocator): *)
(* BlockNum blocks of BlockSize bytes in one piece of memory.  The chunk   *)
(* keeps no table: the free blocks are a list threaded through the first   *)
(* byte of each, which the owner of a block is free to overwrite.          *)
(*                                                                         *)
(* The indices are unsigned char, and Deallocate truncates the OFFSET of   *)
(* the block to unsigned char before it divides by the size of a block, so *)
(* that the list is exact only while no block at an offset of Byte or more *)
(* is returned.                                                            *)
(***************************************************************************)
EXTENDS Naturals, Sequences

CONSTANTS
  Byte,        \* values of an unsigned char: 256
  BlockSize,   \* bytes of a block
  BlockNum,    \* blocks of the chunk, an unsigned char
  ClientBytes  \* what owners write to the first byte of their block

ASSUME ChunkAssumption ==
  /\ Byte \in Nat \ {0}
  /\ BlockSize \in Nat \ {0}
  /\ BlockNum \in 1 .. Byte - 1
  /\ ClientBytes \subseteq 0 .. Byte - 1

Blocks == 0 .. BlockNum - 1
Bytes == 0 .. Byte - 1

VARIABLES
  p_data,                 \* the first byte of every block
  first_available_block,  \* the head of the list
  blocks_available,
  owners,                 \* owners[b]: how many callers hold block b
  wild,                   \* Allocate went outside the chunk
  free,                   \* history: the blocks returned, the last one first
  far                     \* history: a block at an offset >= Byte came back

vars == <<p_data, first_available_block, blocks_available, owners, wild, free, far>>

(* Reset: block i is followed by block i + 1, the last one by BlockNum.     *)
Threaded == [b \in Blocks |-> b + 1]
AllBlocks == [i \in 1 .. BlockNum |-> i - 1]

Init ==
  /\ p_data = Threaded
  /\ first_available_block = 0
  /\ blocks_available = BlockNum
  /\ owners = [b \in Blocks |-> 0]
  /\ wild = FALSE
  /\ free = AllBlocks
  /\ far = FALSE

(* A definition whose comment says Slip is the one after it with a plausible *)
(* mistake in it, there to see that the properties notice.                   *)

(* Slip: the pointer is taken for the block that follows it. *)
IndexOffByOne(b) == (b + 1) % BlockNum

(* to_release - p_data *)
Offset(b) == b * BlockSize

(* static_cast<unsigned char>(to_release - p_data) / block_size *)
IndexOf(b) == (Offset(b) % Byte) \div BlockSize

(* The whole chunk again, once nobody holds a block of it. *)
Reset ==
  /\ ~wild
  /\ \A b \in Blocks : owners[b] = 0
  /\ p_data' = Threaded
  /\ first_available_block' = 0
  /\ blocks_available' = BlockNum
  /\ free' = AllBlocks
  /\ far' = FALSE
  /\ UNCHANGED <<owners, wild>>

(* The head of the list; the byte in it is the next head. *)
Allocate ==
  /\ ~wild
  /\ blocks_available > 0
  /\ first_available_block \in Blocks
  /\ owners' = [owners EXCEPT ![first_available_block] = @ + 1]
  /\ first_available_block' = p_data[first_available_block]
  /\ blocks_available' = blocks_available - 1
  /\ free' = SubSeq(free, 2, Len(free))
  /\ UNCHANGED <<p_data, wild, far>>

(* The same when the head is no block: memory after the chunk is read and   *)
(* handed out, and nothing can be said of what follows.                     *)
AllocateWild ==
  /\ ~wild
  /\ blocks_available > 0
  /\ first_available_block \notin Blocks
  /\ wild' = TRUE
  /\ UNCHANGED <<p_data, first_available_block, blocks_available, owners, free, far>>

(* A block comes back: it links to the old head and becomes the head. *)
Deallocate(b) ==
  /\ ~wild
  /\ owners[b] > 0
  /\ p_data' = [p_data EXCEPT ![b] = first_available_block]
  /\ first_available_block' = IndexOf(b)
  /\ blocks_available' = (blocks_available + 1) % Byte
  /\ owners' = [owners EXCEPT ![b] = @ - 1]
  /\ free' = <<b>> \o free
  /\ far' = (far \/ Offset(b) >= Byte)
  /\ UNCHANGED wild

(* The owner of a block uses it. *)
OwnerWrites(b, v) ==
  /\ ~wild
  /\ owners[b] > 0
  /\ p_data' = [p_data EXCEPT ![b] = v]
  /\ UNCHANGED <<first_available_block, blocks_available, owners, wild, free, far>>

Next ==
  \/ Reset
  \/ Allocate
  \/ AllocateWild
  \/ \E b \in Blocks : Deallocate(b)
  \/ \E b \in Blocks, v \in ClientBytes : OwnerWrites(b, v)

Spec == Init /\ [][Next]_vars

-----------------------------------------------------------------------------
TypeOK ==
  /\ p_data \in [Blocks -> Bytes]
  /\ first_available_block \in Bytes
  /\ blocks_available \in Bytes
  /\ owners \in [Blocks -> Nat]
  /\ wild \in BOOLEAN
  /\ free \in Seq(Blocks)
  /\ far \in BOOLEAN

(* The list threaded through the bytes is the stack of the free blocks: it    *)
(* starts at the head, follows the bytes, ends at BlockNum, and holds every   *)
(* block nobody owns exactly once; blocks_available is its length. *)
ListIsStack ==
  /\ Len(free) = blocks_available
  /\ first_available_block = IF Len(free) = 0 THEN BlockNum ELSE free[1]
  /\ \A i \in 1 .. Len(free) :
       p_data[free[i]] = IF i = Len(free) THEN BlockNum ELSE free[i + 1]
  /\ \A i, j \in 1 .. Len(free) : free[i] = free[j] => i = j
  /\ \A b \in Blocks :
       owners[b] = IF \E i \in 1 .. Len(free) : free[i] = b THEN 0 ELSE 1

(* first_available_block is "the block to be supplied next" and               *)
(* blocks_available how many are left (MLOKIAllocator.h:29): the embedded     *)
(* list is exact until a block at an offset of Byte or more comes back,       *)
(* whatever the owners wrote to their blocks and in whatever order they       *)
(* returned them: no block has two owners, and Allocate stays in the chunk.   *)
ChunkInv ==
  /\ TypeOK
  /\ ~far => ~wild /\ ListIsStack
=============================================================================
