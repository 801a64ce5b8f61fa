---------------------------- MODULE MChunk_proofs ----------------------------
(***************************************************************************)
(* ChunkInv for every size of a byte, of a block and of a chunk.           *)
(***************************************************************************)
EXTENDS MChunk, FiniteSetTheorems, SequenceTheorems, TLAPS

(* An index whose offset fits in a byte survives the truncation and the     *)
(* division.                                                                *)
LEMMA IndexExact ==
  ASSUME NEW b \in Nat, NEW s \in Nat \ {0}, NEW w \in Nat \ {0}, b * s < w
  PROVE  ((b * s) % w) \div s = b
<1>1. b * s \in Nat
  OBVIOUS
<1>2. (b * s) % w = b * s
  BY <1>1
<1>3. (b * s) \div s = b
  OBVIOUS
<1> QED
  BY <1>2, <1>3

(* A counter that stays below the width of a byte does not wrap.            *)
LEMMA SmallMod ==
  ASSUME NEW n \in Nat, NEW w \in Nat \ {0}, n < w
  PROVE  n % w = n
OBVIOUS

(* What AllBlocks is: the blocks in order.                                  *)
LEMMA AllBlocksSeq ==
  /\ AllBlocks \in Seq(Blocks)
  /\ Len(AllBlocks) = BlockNum
  /\ \A i \in 1 .. BlockNum : AllBlocks[i] = i - 1
<1>1. BlockNum \in Nat
  BY ChunkAssumption
<1>2. AllBlocks \in [1 .. BlockNum -> Blocks]
  BY <1>1 DEF AllBlocks, Blocks
<1>3. AllBlocks \in Seq(Blocks)
  BY <1>1, <1>2
<1>4. Len(AllBlocks) = BlockNum
  BY <1>1, <1>2, <1>3
<1> QED
  BY <1>3, <1>4 DEF AllBlocks

(* All but the first element of a sequence.                                 *)
LEMMA Rest ==
  ASSUME NEW S, NEW f \in Seq(S)
  PROVE  /\ SubSeq(f, 2, Len(f)) \in Seq(S)
         /\ Len(f) > 0 => Len(SubSeq(f, 2, Len(f))) = Len(f) - 1
         /\ Len(f) = 0 => Len(SubSeq(f, 2, Len(f))) = 0
         /\ \A i \in 1 .. Len(f) - 1 : SubSeq(f, 2, Len(f))[i] = f[i + 1]
<1>1. /\ 2 \in Int /\ Len(f) \in Int /\ Len(f) \in Nat
      /\ \A i \in 2 .. Len(f) : f[i] \in S
  OBVIOUS
<1>2. /\ SubSeq(f, 2, Len(f)) \in Seq(S)
      /\ Len(SubSeq(f, 2, Len(f))) = IF 2 <= Len(f) THEN Len(f) - 2 + 1 ELSE 0
  BY <1>1, SubSeqProperties
<1>3. ASSUME NEW i \in 1 .. Len(f) - 1
      PROVE  SubSeq(f, 2, Len(f))[i] = f[i + 1]
  <2>1. i \in 1 .. Len(f) - 2 + 1 /\ f[i + 1] = f[2 + i - 1]
    BY <1>1
  <2> QED
    BY <1>1, <2>1, SubSeqProperties
<1>4. /\ Len(f) > 0 => Len(SubSeq(f, 2, Len(f))) = Len(f) - 1
      /\ Len(f) = 0 => Len(SubSeq(f, 2, Len(f))) = 0
  <2> DEFINE n == Len(f)
             m == Len(SubSeq(f, 2, Len(f)))
  <2>1. n \in Nat /\ m = IF 2 <= n THEN n - 2 + 1 ELSE 0
    BY <1>1, <1>2
  <2> HIDE DEF n, m
  <2>2. (n > 0 => m = n - 1) /\ (n = 0 => m = 0)
    BY <2>1
  <2> QED
    BY <2>2 DEF n, m
<1> QED
  BY <1>2, <1>3, <1>4, Zenon

(* A stack of different blocks that misses one of them is shorter than the  *)
(* chunk has blocks.                                                        *)
LEMMA Pigeons ==
  ASSUME NEW f \in Seq(Blocks), NEW b \in Blocks,
         \A i, j \in 1 .. Len(f) : f[i] = f[j] => i = j,
         \A i \in 1 .. Len(f) : f[i] # b
  PROVE  Len(f) < BlockNum
<1> DEFINE rest == Blocks \ {b}
<1>1. BlockNum \in Nat /\ BlockNum > 0
  BY ChunkAssumption
<1>2. IsFiniteSet(Blocks) /\ Cardinality(Blocks) = BlockNum
  <2>1. 0 \in Int /\ BlockNum - 1 \in Int /\ ~(0 > BlockNum - 1)
    BY <1>1
  <2>2. /\ IsFiniteSet(0 .. BlockNum - 1)
        /\ Cardinality(0 .. BlockNum - 1) = (BlockNum - 1) - 0 + 1
    BY <2>1, FS_Interval, Zenon
  <2> QED
    BY <1>1, <2>2 DEF Blocks
<1>3. IsFiniteSet(rest) /\ Cardinality(rest) = BlockNum - 1
  <2>1. IsFiniteSet(rest) /\ Cardinality(rest) = Cardinality(Blocks) - 1
    BY <1>2, FS_RemoveElement, Zenon
  <2> QED
    BY <2>1, <1>2
<1>4. Len(f) \in Nat
  OBVIOUS
<1>5. IsFiniteSet(1 .. Len(f)) /\ Cardinality(1 .. Len(f)) = Len(f)
  <2>1. /\ IsFiniteSet(1 .. Len(f))
        /\ Cardinality(1 .. Len(f)) = IF 1 > Len(f) THEN 0 ELSE Len(f) - 1 + 1
    BY <1>4, FS_Interval, 1 \in Int, Len(f) \in Int, Zenon
  <2> QED
    BY <2>1, <1>4
<1>6. f \in [1 .. Len(f) -> rest]
  OBVIOUS
<1>7. SUFFICES ASSUME ~ (Len(f) < BlockNum) PROVE FALSE
  OBVIOUS
<1>8. Cardinality(rest) < Cardinality(1 .. Len(f))
  BY <1>1, <1>3, <1>4, <1>5, <1>7
<1>9. \E x, y \in 1 .. Len(f) : x # y /\ f[x] = f[y]
  <2> DEFINE places == 1 .. Len(f)
  <2>1. /\ IsFiniteSet(places) /\ IsFiniteSet(rest)
        /\ Cardinality(rest) < Cardinality(places)
        /\ f \in [places -> rest]
    BY <1>3, <1>5, <1>6, <1>8
  <2>2. SUFFICES \E x, y \in places : x # y /\ f[x] = f[y]
    OBVIOUS
  <2> HIDE DEF places, rest
  <2> QED
    BY <2>1, FS_PigeonHole
<1> QED
  BY <1>9

-----------------------------------------------------------------------------
THEOREM ChunkInit == Init => ChunkInv
<1> SUFFICES ASSUME Init PROVE ChunkInv
  OBVIOUS
<1> USE DEF Init
<1>0. BlockNum \in Nat /\ BlockNum > 0 /\ BlockNum \in Bytes /\ 0 \in Bytes
  BY ChunkAssumption DEF Bytes
<1>1. /\ free \in Seq(Blocks) /\ Len(free) = BlockNum
      /\ \A i \in 1 .. BlockNum : free[i] = i - 1
  BY AllBlocksSeq
<1>2. TypeOK
  <2>1. p_data \in [Blocks -> Bytes]
    BY ChunkAssumption DEF Threaded, Blocks, Bytes
  <2> QED
    BY <1>0, <1>1, <2>1 DEF TypeOK
<1>3. ListIsStack
  <2>1. \A b \in Blocks : \E i \in 1 .. Len(free) : free[i] = b
    <3> SUFFICES ASSUME NEW b \in Blocks PROVE \E i \in 1 .. Len(free) : free[i] = b
      OBVIOUS
    <3>1. b + 1 \in 1 .. Len(free) /\ free[b + 1] = b
      BY <1>0, <1>1 DEF Blocks
    <3> QED
      BY <3>1
  <2>2. \A i \in 1 .. Len(free) : p_data[free[i]] = i
    BY <1>0, <1>1 DEF Threaded, Blocks
  <2> QED
    BY <1>0, <1>1, <2>1, <2>2 DEF ListIsStack
<1> QED
  BY <1>2, <1>3 DEF ChunkInv

(* Everybody gave their blocks back: the list is threaded anew. *)
LEMMA ResetStep == ChunkInv /\ Reset => ChunkInv'
<1> SUFFICES ASSUME ChunkInv, Reset PROVE ChunkInv'
  OBVIOUS
<1> USE DEF Reset, ChunkInv
<1>0. BlockNum \in Nat /\ BlockNum > 0 /\ BlockNum \in Bytes /\ 0 \in Bytes
  BY ChunkAssumption DEF Bytes
<1>1. /\ free' \in Seq(Blocks) /\ Len(free') = BlockNum
      /\ \A i \in 1 .. BlockNum : free'[i] = i - 1
  BY AllBlocksSeq
<1>2. TypeOK'
  <2>1. p_data' \in [Blocks -> Bytes]
    BY ChunkAssumption DEF Threaded, Blocks, Bytes
  <2> QED
    BY <1>0, <1>1, <2>1 DEF TypeOK
<1>3. ListIsStack'
  <2>1. \A b \in Blocks : \E i \in 1 .. Len(free') : free'[i] = b
    <3> SUFFICES ASSUME NEW b \in Blocks PROVE \E i \in 1 .. Len(free') : free'[i] = b
      OBVIOUS
    <3>1. b + 1 \in 1 .. Len(free') /\ free'[b + 1] = b
      BY <1>0, <1>1 DEF Blocks
    <3> QED
      BY <3>1
  <2>2. \A i \in 1 .. Len(free') : p_data'[free'[i]] = i
    BY <1>0, <1>1 DEF Threaded, Blocks
  <2> QED
    BY <1>0, <1>1, <2>1, <2>2 DEF ListIsStack
<1> QED
  BY <1>2, <1>3

(* The head leaves the stack, and the byte in it is the next head. *)
LEMMA AllocateStep == ChunkInv /\ Allocate => ChunkInv'
<1> SUFFICES ASSUME ChunkInv, Allocate PROVE ChunkInv'
  OBVIOUS
<1> USE ChunkAssumption DEF Allocate, ChunkInv
<1> DEFINE head == first_available_block
<1>0. TypeOK /\ free' \in Seq(Blocks)
  BY Rest DEF TypeOK
<1>1. TypeOK'
  BY <1>0 DEF TypeOK, Bytes
<1>2. ASSUME ~far PROVE ListIsStack'
  <2>1. ListIsStack /\ TypeOK /\ Len(free) > 0
    BY <1>2 DEF ListIsStack, TypeOK, Bytes
  <2>2. free[1] = head
    BY <2>1 DEF ListIsStack
  <2>3. /\ Len(free) \in Nat /\ Len(free') = Len(free) - 1
        /\ \A i \in 1 .. Len(free') : free'[i] = free[i + 1]
    BY <2>1, Rest DEF TypeOK
  <2>4. blocks_available' = Len(free')
    BY <2>1, <2>3 DEF ListIsStack, TypeOK
  <2>5. head' = IF Len(free') = 0 THEN BlockNum ELSE free'[1]
    <3>1. p_data[free[1]] = IF Len(free) = 1 THEN BlockNum ELSE free[2]
      BY <2>1 DEF ListIsStack
    <3>2. head' = p_data[free[1]]
      BY <2>2
    <3> QED
      <4>1. CASE Len(free) = 1
        BY <4>1, <3>1, <3>2, <2>3
      <4>2. CASE Len(free) # 1
        <5>1. 1 \in 1 .. Len(free')
          BY <4>2, <2>1, <2>3
        <5>2. free'[1] = free[2] /\ Len(free') # 0
          BY <5>1, <2>3
        <5> QED
          BY <4>2, <5>2, <3>1, <3>2
      <4> QED
        BY <4>1, <4>2
  <2>6. \A i \in 1 .. Len(free') :
          p_data'[free'[i]] = IF i = Len(free') THEN BlockNum ELSE free'[i + 1]
    <3> SUFFICES ASSUME NEW i \in 1 .. Len(free')
                 PROVE p_data'[free'[i]] = IF i = Len(free') THEN BlockNum ELSE free'[i + 1]
      OBVIOUS
    <3>1. i + 1 \in 1 .. Len(free) /\ (i = Len(free') <=> i + 1 = Len(free))
      BY <2>1, <2>3 DEF TypeOK
    <3>2. p_data[free[i + 1]] = IF i + 1 = Len(free) THEN BlockNum ELSE free[i + 2]
      BY <2>1, <3>1 DEF ListIsStack
    <3> QED
      BY <2>1, <2>3, <3>1, <3>2 DEF TypeOK
  <2>7. \A i, j \in 1 .. Len(free') : free'[i] = free'[j] => i = j
    BY <2>1, <2>3 DEF ListIsStack, TypeOK
  <2>8. \A b \in Blocks :
          owners'[b] = IF \E i \in 1 .. Len(free') : free'[i] = b THEN 0 ELSE 1
    <3> SUFFICES ASSUME NEW b \in Blocks
                 PROVE owners'[b] = IF \E i \in 1 .. Len(free') : free'[i] = b
                                      THEN 0 ELSE 1
      OBVIOUS
    <3>1. CASE b = head
      <4>1. owners[b] = 0
        BY <2>1, <2>2, <3>1, 1 \in 1 .. Len(free) DEF ListIsStack
      <4>2. ~ \E i \in 1 .. Len(free') : free'[i] = b
        <5> SUFFICES ASSUME NEW i \in 1 .. Len(free'), free'[i] = b PROVE FALSE
          OBVIOUS
        <5>1. i + 1 \in 1 .. Len(free) /\ 1 \in 1 .. Len(free) /\ free[i + 1] = free[1]
          BY <2>1, <2>2, <2>3, <3>1 DEF TypeOK
        <5> QED
          BY <2>1, <5>1 DEF ListIsStack
      <4> QED
        BY <2>1, <3>1, <4>1, <4>2 DEF TypeOK
    <3>2. CASE b # head
      <4>1. owners'[b] = owners[b]
        BY <2>1, <3>2 DEF TypeOK
      <4>2. (\E i \in 1 .. Len(free') : free'[i] = b)
             <=> (\E i \in 1 .. Len(free) : free[i] = b)
        <5>1. ASSUME NEW i \in 1 .. Len(free), free[i] = b
              PROVE \E k \in 1 .. Len(free') : free'[k] = b
          <6>1. i # 1
            BY <2>2, <3>2, <5>1
          <6>2. i - 1 \in 1 .. Len(free') /\ free'[i - 1] = b
            BY <2>1, <2>3, <5>1, <6>1 DEF TypeOK
          <6> QED
            BY <6>2
        <5>2. ASSUME NEW i \in 1 .. Len(free'), free'[i] = b
              PROVE \E k \in 1 .. Len(free) : free[k] = b
          <6>1. i + 1 \in 1 .. Len(free) /\ free[i + 1] = b
            BY <2>1, <2>3, <5>2 DEF TypeOK
          <6> QED
            BY <6>1
        <5> QED
          BY <5>1, <5>2
      <4> QED
        BY <2>1, <4>1, <4>2 DEF ListIsStack
    <3> QED
      BY <3>1, <3>2
  <2> QED
    BY <2>4, <2>5, <2>6, <2>7, <2>8 DEF ListIsStack
<1> QED
  BY <1>1, <1>2

(* The index of a block is a byte, and the block's own if its offset is one. *)
LEMMA IndexRange ==
  ASSUME NEW b \in Blocks
  PROVE  /\ Offset(b) \in Nat /\ IndexOf(b) \in Bytes
         /\ Offset(b) < Byte => IndexOf(b) = b
<1>1. b \in Nat /\ BlockSize \in Nat \ {0} /\ Byte \in Nat \ {0}
  BY ChunkAssumption DEF Blocks
<1>2. Offset(b) \in Nat
  BY <1>1 DEF Offset
<1>3. ASSUME NEW k \in Nat PROVE k \div BlockSize \in Nat /\ k \div BlockSize <= k
  <2>1. \A s \in Nat \ {0} : k \div s \in Nat /\ k \div s <= k
    OBVIOUS
  <2> QED
    BY <1>1, <2>1
<1>4. Offset(b) % Byte \in 0 .. Byte - 1
  BY <1>1, <1>2
<1>5. IndexOf(b) \in Bytes
  <2>1. \A x, y \in Nat : x <= y /\ y \in 0 .. Byte - 1 => x \in 0 .. Byte - 1
    BY <1>1
  <2>2. /\ Offset(b) % Byte \in Nat
        /\ IndexOf(b) \in Nat /\ IndexOf(b) <= Offset(b) % Byte
    <3>1. Offset(b) % Byte \in Nat
      BY <1>1, <1>4
    <3> QED
      BY <3>1, <1>3 DEF IndexOf
  <2> QED
    BY <2>1, <2>2, <1>4 DEF Bytes
<1>6. Offset(b) < Byte => IndexOf(b) = b
  BY <1>1, IndexExact DEF Offset, IndexOf
<1> QED
  BY <1>2, <1>5, <1>6

(* The block that comes back is linked in front of the old head. *)
LEMMA DeallocateStep == ChunkInv /\ (\E b \in Blocks : Deallocate(b)) => ChunkInv'
<1> SUFFICES ASSUME ChunkInv, NEW b \in Blocks, Deallocate(b) PROVE ChunkInv'
  OBVIOUS
<1> USE ChunkAssumption DEF Deallocate
<1>0. /\ Offset(b) \in Nat /\ IndexOf(b) \in Bytes
      /\ Offset(b) < Byte => IndexOf(b) = b
  BY IndexRange
<1>1. /\ free' \in Seq(Blocks) /\ Len(free') = Len(free) + 1
      /\ free'[1] = b /\ \A i \in 1 .. Len(free) : free'[i + 1] = free[i]
  <2>1. <<b>> \in Seq(Blocks) /\ free \in Seq(Blocks) /\ Len(free) \in Nat
    BY DEF ChunkInv, TypeOK
  <2> QED
    BY <2>1
<1>2. TypeOK'
  <2>1. blocks_available' \in Bytes
    BY DEF Bytes, ChunkInv, TypeOK
  <2>2. p_data' \in [Blocks -> Bytes] /\ owners' \in [Blocks -> Nat]
    BY DEF ChunkInv, TypeOK
  <2>3. far' \in BOOLEAN /\ wild' \in BOOLEAN
    BY DEF ChunkInv, TypeOK
  <2> QED
    BY <1>0, <1>1, <2>1, <2>2, <2>3 DEF TypeOK
<1>3. ASSUME ~far' PROVE ~wild' /\ ListIsStack'
  <2>1. /\ ListIsStack /\ TypeOK /\ ~wild
        /\ Offset(b) < Byte
    <3>1. ~far /\ ~(Offset(b) >= Byte)
      BY <1>3, Zenon
    <3>2. Offset(b) < Byte
      BY <1>0, <3>1
    <3> QED
      BY <3>1, <3>2 DEF ChunkInv
  <2>2. IndexOf(b) = b
    BY <1>0, <2>1
  <2>3. /\ Len(free) \in Nat
        /\ \A i \in 2 .. Len(free') : i - 1 \in 1 .. Len(free) /\ free'[i] = free[i - 1]
    <3>1. Len(free) \in Nat
      BY <2>1 DEF TypeOK
    <3>2. ASSUME NEW i \in 2 .. Len(free')
          PROVE  i - 1 \in 1 .. Len(free) /\ free'[i] = free[i - 1]
      <4>1. i - 1 \in 1 .. Len(free) /\ (i - 1) + 1 = i
        <5> DEFINE n == Len(free)
                   m == Len(free')
        <5>1. n \in Nat /\ m = n + 1 /\ i \in 2 .. m
          BY <1>1, <3>1
        <5> HIDE DEF n, m
        <5>2. i - 1 \in 1 .. n /\ (i - 1) + 1 = i
          BY <5>1
        <5> QED
          BY <5>2 DEF n
      <4>2. free'[(i - 1) + 1] = free[i - 1]
        BY <1>1, <4>1
      <4> QED
        BY <4>1, <4>2
    <3> QED
      BY <3>1, <3>2
  <2>4. \A i \in 1 .. Len(free) : free[i] # b
    <3> SUFFICES ASSUME NEW i \in 1 .. Len(free), free[i] = b PROVE FALSE
      OBVIOUS
    <3>1. owners[b] = 0
      BY <2>1 DEF ListIsStack
    <3> QED
      BY <3>1
  <2>5. Len(free) < BlockNum
    BY <2>1, <2>4, Pigeons DEF ListIsStack, TypeOK
  <2>6. blocks_available' = Len(free')
    <3>1. Len(free) = blocks_available /\ blocks_available' = (blocks_available + 1) % Byte
      BY <2>1 DEF ListIsStack
    <3>2. /\ Len(free) + 1 \in Nat /\ Byte \in Nat \ {0} /\ Len(free) + 1 < Byte
      BY <2>3, <2>5
    <3>3. (Len(free) + 1) % Byte = Len(free) + 1
      BY <3>2, SmallMod
    <3> QED
      BY <1>1, <3>1, <3>3
  <2>7. first_available_block' = IF Len(free') = 0 THEN BlockNum ELSE free'[1]
    BY <1>1, <2>2, <2>3
  <2>8. \A i \in 1 .. Len(free') :
          p_data'[free'[i]] = IF i = Len(free') THEN BlockNum ELSE free'[i + 1]
    <3> SUFFICES ASSUME NEW i \in 1 .. Len(free')
                 PROVE p_data'[free'[i]] = IF i = Len(free') THEN BlockNum ELSE free'[i + 1]
      OBVIOUS
    <3>1. CASE i = 1
      <4>1. p_data'[free'[i]] = first_available_block
        BY <1>1, <2>1, <3>1 DEF TypeOK
      <4>2. CASE Len(free) = 0
        BY <1>1, <2>1, <3>1, <4>1, <4>2 DEF ListIsStack
      <4>3. CASE Len(free) # 0
        <5>1. 1 \in 1 .. Len(free) /\ i # Len(free')
          BY <1>1, <2>3, <3>1, <4>3
        <5>2. free'[i + 1] = free[1]
          BY <1>1, <3>1, <5>1
        <5>3. first_available_block = free[1]
          BY <2>1, <4>3 DEF ListIsStack
        <5> QED
          BY <4>1, <5>1, <5>2, <5>3
      <4> QED
        BY <4>2, <4>3
    <3>2. CASE i # 1
      <4> DEFINE k == i - 1
      <4>1. /\ k \in 1 .. Len(free) /\ free'[i] = free[k]
            /\ (k = Len(free) <=> i = Len(free'))
            /\ k # Len(free) => i \in 1 .. Len(free) /\ i = k + 1
        BY <1>1, <2>3, <3>2
      <4>2. free[k] \in Blocks /\ free[k] # b
        BY <2>1, <2>4, <4>1 DEF TypeOK
      <4>3. p_data'[free[k]] = p_data[free[k]]
        BY <2>1, <4>2 DEF TypeOK
      <4>4. p_data[free[k]] = IF k = Len(free) THEN BlockNum ELSE free[k + 1]
        BY <2>1, <4>1 DEF ListIsStack
      <4>5. k # Len(free) => free'[i + 1] = free[k + 1]
        BY <1>1, <4>1
      <4> QED
        BY <4>1, <4>3, <4>4, <4>5
    <3> QED
      BY <3>1, <3>2
  <2>9. \A i, j \in 1 .. Len(free') : free'[i] = free'[j] => i = j
    <3> SUFFICES ASSUME NEW i \in 1 .. Len(free'), NEW j \in 1 .. Len(free'),
                        free'[i] = free'[j]
                 PROVE  i = j
      OBVIOUS
    <3>1. CASE i = 1 /\ j = 1
      BY <3>1
    <3>2. CASE i = 1 /\ j # 1
      BY <1>1, <2>3, <2>4, <3>2
    <3>3. CASE i # 1 /\ j = 1
      BY <1>1, <2>3, <2>4, <3>3
    <3>4. CASE i # 1 /\ j # 1
      <4>1. i - 1 \in 1 .. Len(free) /\ j - 1 \in 1 .. Len(free)
            /\ free[i - 1] = free[j - 1]
        BY <1>1, <2>3, <3>4
      <4>2. i - 1 = j - 1
        BY <2>1, <4>1 DEF ListIsStack
      <4> QED
        BY <4>2, <1>1, <2>3
    <3> QED
      BY <3>1, <3>2, <3>3, <3>4
  <2>10. \A c \in Blocks :
           owners'[c] = IF \E i \in 1 .. Len(free') : free'[i] = c THEN 0 ELSE 1
    <3> SUFFICES ASSUME NEW c \in Blocks
                 PROVE owners'[c] = IF \E i \in 1 .. Len(free') : free'[i] = c
                                      THEN 0 ELSE 1
      OBVIOUS
    <3>1. CASE c = b
      <4>1. owners[b] = 1
        BY <2>1, <2>4 DEF ListIsStack
      <4>2. owners'[b] = 0
        BY <2>1, <4>1 DEF TypeOK
      <4>3. 1 \in 1 .. Len(free') /\ free'[1] = c
        BY <1>1, <2>3, <3>1
      <4> QED
        BY <3>1, <4>2, <4>3
    <3>2. CASE c # b
      <4>1. owners'[c] = owners[c]
        BY <2>1, <3>2 DEF TypeOK
      <4>2. ASSUME NEW i \in 1 .. Len(free), free[i] = c
            PROVE  \E k \in 1 .. Len(free') : free'[k] = c
        <5>1. i + 1 \in 1 .. Len(free') /\ free'[i + 1] = c
          BY <1>1, <2>3, <4>2
        <5> QED
          BY <5>1
      <4>3. ASSUME NEW i \in 1 .. Len(free'), free'[i] = c
            PROVE  \E k \in 1 .. Len(free) : free[k] = c
        <5>1. i # 1
          BY <1>1, <3>2, <4>3
        <5>2. i - 1 \in 1 .. Len(free) /\ free[i - 1] = c
          BY <1>1, <2>3, <4>3, <5>1
        <5> QED
          BY <5>2
      <4> QED
        BY <2>1, <4>1, <4>2, <4>3 DEF ListIsStack
    <3> QED
      BY <3>1, <3>2
  <2> QED
    BY <2>1, <2>6, <2>7, <2>8, <2>9, <2>10 DEF ListIsStack
<1> QED
  BY <1>2, <1>3 DEF ChunkInv

(* An owner writes to a block that is not in the list. *)
LEMMA OwnerWritesStep ==
  ChunkInv /\ (\E b \in Blocks, v \in ClientBytes : OwnerWrites(b, v)) => ChunkInv'
<1> SUFFICES ASSUME ChunkInv, NEW b \in Blocks, NEW v \in ClientBytes, OwnerWrites(b, v)
             PROVE  ChunkInv'
  OBVIOUS
<1> USE ChunkAssumption DEF OwnerWrites
<1>1. TypeOK'
  BY DEF ChunkInv, TypeOK, Bytes
<1>2. ASSUME ~far' PROVE ~wild' /\ ListIsStack'
  <2>1. ListIsStack /\ TypeOK /\ ~wild
    BY <1>2 DEF ChunkInv
  <2>2. \A i \in 1 .. Len(free) : free[i] \in Blocks /\ free[i] # b
    <3> SUFFICES ASSUME NEW i \in 1 .. Len(free)
                 PROVE free[i] \in Blocks /\ free[i] # b
      OBVIOUS
    <3>1. free[i] \in Blocks
      BY <2>1 DEF TypeOK
    <3>2. ASSUME free[i] = b PROVE FALSE
      <4>1. owners[b] = 0
        BY <2>1, <3>2 DEF ListIsStack
      <4> QED
        BY <4>1
    <3> QED
      BY <3>1, <3>2
  <2>3. \A i \in 1 .. Len(free) : p_data'[free[i]] = p_data[free[i]]
    BY <2>1, <2>2 DEF TypeOK
  <2> QED
    BY <2>1, <2>3 DEF ListIsStack
<1> QED
  BY <1>1, <1>2 DEF ChunkInv

(* While the list is exact its head is a block whenever one is available. *)
LEMMA AllocateWildStep == ChunkInv /\ AllocateWild => ChunkInv'
<1> SUFFICES ASSUME ChunkInv, AllocateWild PROVE ChunkInv'
  OBVIOUS
<1>1. far
  <2> SUFFICES ASSUME ~far PROVE FALSE
    BY DEF ChunkInv, TypeOK
  <2>1. ListIsStack /\ TypeOK
    BY DEF ChunkInv
  <2>2. Len(free) > 0 /\ 1 \in 1 .. Len(free) /\ free[1] \in Blocks
    BY <2>1 DEF AllocateWild, ListIsStack, TypeOK, Bytes
  <2> QED
    BY <2>1, <2>2 DEF AllocateWild, ListIsStack
<1> QED
  BY <1>1 DEF AllocateWild, ChunkInv, TypeOK

(* The embedded list is the stack of the free blocks, for every size of     *)
(* chunk, block and byte, until a block beyond the byte comes back.         *)
THEOREM ListExact == Spec => []ChunkInv
<1>1. ChunkInv /\ [Next]_vars => ChunkInv'
  <2> SUFFICES ASSUME ChunkInv, [Next]_vars PROVE ChunkInv'
    OBVIOUS
  <2>1. CASE Reset
    BY <2>1, ResetStep
  <2>2. CASE Allocate
    BY <2>2, AllocateStep
  <2>3. CASE AllocateWild
    BY <2>3, AllocateWildStep
  <2>4. CASE \E b \in Blocks : Deallocate(b)
    BY <2>4, DeallocateStep
  <2>5. CASE \E b \in Blocks, v \in ClientBytes : OwnerWrites(b, v)
    BY <2>5, OwnerWritesStep
  <2>6. CASE UNCHANGED vars
    BY <2>6 DEF vars, ChunkInv, TypeOK, ListIsStack
  <2> QED
    BY <2>1, <2>2, <2>3, <2>4, <2>5, <2>6 DEF Next
<1> QED
  BY ChunkInit, <1>1, PTL DEF Spec

(* A chunk none of whose blocks starts beyond a byte never comes to it: the *)
(* allocator is safe for every sequence of calls exactly where its chunks   *)
(* are that small.                                                          *)
THEOREM SmallChunkSafe ==
  ASSUME (BlockNum - 1) * BlockSize < Byte
  PROVE  Spec => [](~wild /\ \A b \in Blocks : owners[b] <= 1)
<1>1. \A b \in Blocks : Offset(b) \in Nat /\ Offset(b) < Byte
  <2> SUFFICES ASSUME NEW b \in Blocks PROVE Offset(b) \in Nat /\ Offset(b) < Byte
    OBVIOUS
  <2>1. /\ b \in Nat /\ BlockNum - 1 \in Nat /\ b <= BlockNum - 1
        /\ BlockSize \in Nat /\ Byte \in Nat
    BY ChunkAssumption DEF Blocks
  <2>2. \A x, y, z \in Nat : x <= y => x * z <= y * z
    OBVIOUS
  <2>3. /\ b * BlockSize <= (BlockNum - 1) * BlockSize
        /\ b * BlockSize \in Nat /\ (BlockNum - 1) * BlockSize \in Nat
    BY <2>1, <2>2
  <2> QED
    BY <2>1, <2>3 DEF Offset
<1>2. Init => ~far
  BY DEF Init
<1>3. ~far /\ [Next]_vars => ~far'
  <2> SUFFICES ASSUME ~far, [Next]_vars PROVE ~far'
    OBVIOUS
  <2>1. ASSUME NEW b \in Blocks, Deallocate(b) PROVE ~far'
    <3>1. ~(Offset(b) >= Byte)
      BY <1>1, ChunkAssumption
    <3> QED
      BY <2>1, <3>1, Zenon DEF Deallocate
  <2> QED
    BY <2>1 DEF Next, vars, Reset, Allocate, AllocateWild, OwnerWrites
<1>4. Spec => []~far
  BY <1>2, <1>3, PTL DEF Spec
<1>5. ChunkInv /\ ~far => ~wild /\ \A b \in Blocks : owners[b] <= 1
  BY DEF ChunkInv, ListIsStack
<1> QED
  BY <1>4, <1>5, ListExact, PTL
=============================================================================
