------------------------- MODULE MHandleRead_proofs -------------------------
(***************************************************************************)
(* Proofs about the ring of received packages, for every set of threads,   *)
(* every capacity and every number of pushes: first MSyncAnnularQueue by   *)
(* itself, then under the callers of MSessionRecv and the handlers of      *)
(* MHandleRead.                                                            *)
(***************************************************************************)
EXTENDS MHandleRead, FiniteSetTheorems, TLAPS

(* The successor of a node is a node. *)
LEMMA NextSlot == \A i \in Slots : next(i) \in Slots
  BY CapacityAssumption DEF Slots, next

-----------------------------------------------------------------------------
(* Pointers stay in the ring and every variable keeps its type. *)
THEOREM TypeCorrect == Spec => []TypeOK
<1>1. Init => TypeOK
  <2> SUFFICES ASSUME Init PROVE TypeOK
    OBVIOUS
  <2>1. 0 \in Slots
    BY CapacityAssumption DEF Slots
  <2> QED
    BY <2>1 DEF Init, TypeOK, Labels
<1>2. TypeOK /\ [Next]_vars => TypeOK'
  <2> SUFFICES ASSUME TypeOK, [Next]_vars PROVE TypeOK'
    OBVIOUS
  <2> USE DEF TypeOK, Goto, Labels, queueVars
  <2>1. ASSUME NEW t \in Threads, Lock(t) PROVE TypeOK'
    BY <2>1 DEF Lock, LockFor
  <2>2. ASSUME NEW t \in Threads, Unlock(t) PROVE TypeOK'
    BY <2>2 DEF Unlock
  <2>3. ASSUME NEW t \in Threads, PushDrop(t) PROVE TypeOK'
    BY <2>3, NextSlot DEF PushDrop
  <2>4. ASSUME NEW t \in Threads, PushStore(t) PROVE TypeOK'
    BY <2>4 DEF PushStore
  <2>5. ASSUME NEW t \in Threads, PushEnd(t) PROVE TypeOK'
    BY <2>5, NextSlot DEF PushEnd
  <2>6. ASSUME NEW t \in Threads, PopAdvance(t) PROVE TypeOK'
    BY <2>6, NextSlot DEF PopAdvance
  <2>7. ASSUME NEW t \in Threads, FrontRead(t) PROVE TypeOK'
    BY <2>7 DEF FrontRead
  <2>8. ASSUME NEW t \in Threads, EmptyEnd(t) PROVE TypeOK'
    BY <2>8 DEF EmptyEnd
  <2>9. ASSUME NEW t \in Producers, CallPush(t) PROVE TypeOK'
    BY <2>9 DEF CallPush, Threads
  <2>10. ASSUME NEW t \in Consumers, CallPop(t) \/ CallFront(t) \/ EmptyBegin(t)
         PROVE  TypeOK'
    BY <2>10 DEF CallPop, CallFront, EmptyBegin, Threads
  <2>11. CASE UNCHANGED vars
    BY <2>11 DEF vars
  <2>12. QED
    BY <2>1, <2>2, <2>3, <2>4, <2>5, <2>6, <2>7, <2>8, <2>9, <2>10, <2>11
       DEF Next, Step
<1>3. QED
  BY <1>1, <1>2, PTL DEF Spec

-----------------------------------------------------------------------------
(* At most one thread is inside a critical section and m_lock is set while   *)
(* one is.  MutualExclusion is inductive given the types: the flag is what   *)
(* makes it so.                                                              *)
LEMMA ExclusionStep ==
  TypeOK /\ MutualExclusion /\ [Next]_vars => MutualExclusion'
<1> SUFFICES ASSUME TypeOK, MutualExclusion, [Next]_vars
             PROVE  MutualExclusion'
  OBVIOUS
<1> USE DEF Goto, Locked
<1>0. pc \in [Threads -> Labels]
  BY DEF TypeOK
<1>1. ASSUME NEW t \in Threads, Lock(t) PROVE MutualExclusion'
  <2>1. \A u \in Threads : pc[u] \notin Locked
    BY <1>1 DEF Lock, LockFor, MutualExclusion
  <2>2. m_lock' /\ pc'[t] \in Locked /\ \A u \in Threads : u # t => pc'[u] = pc[u]
    BY <1>0, <1>1 DEF Lock, LockFor
  <2> QED
    BY <2>1, <2>2 DEF MutualExclusion
<1>2. ASSUME NEW t \in Threads, Unlock(t) PROVE MutualExclusion'
  <2>1. \A u \in Threads : u # t => pc[u] \notin Locked
    BY <1>2 DEF Unlock, MutualExclusion
  <2>2. ~ m_lock' /\ pc'[t] = "idle" /\ \A u \in Threads : u # t => pc'[u] = pc[u]
    BY <1>0, <1>2 DEF Unlock
  <2> QED
    BY <2>1, <2>2 DEF MutualExclusion
<1>3. ASSUME NEW t \in Threads, NEW from \in Labels, NEW to \in Labels,
             Goto(t, from, to), from \in Locked <=> to \in Locked,
             UNCHANGED m_lock
      PROVE  MutualExclusion'
  <2>1. \A u \in Threads : pc'[u] \in Locked <=> pc[u] \in Locked
    BY <1>0, <1>3
  <2> QED
    BY <1>3, <2>1 DEF MutualExclusion
<1>4. ASSUME NEW t \in Threads,
             PushDrop(t) \/ PushStore(t) \/ PushEnd(t) \/ PopAdvance(t) \/ FrontRead(t)
      PROVE  MutualExclusion'
  BY <1>3, <1>4 DEF PushDrop, PushStore, PushEnd, PopAdvance, FrontRead, Labels
<1>5. ASSUME NEW t \in Threads, EmptyEnd(t) PROVE MutualExclusion'
  BY <1>3, <1>5 DEF EmptyEnd, Labels
<1>6. ASSUME NEW t \in Threads,
             CallPush(t) \/ CallPop(t) \/ CallFront(t) \/ EmptyBegin(t)
      PROVE  MutualExclusion'
  BY <1>3, <1>6 DEF CallPush, CallPop, CallFront, EmptyBegin, Labels
<1>7. CASE UNCHANGED vars
  BY <1>7 DEF vars, MutualExclusion
<1>8. QED
  BY <1>1, <1>2, <1>4, <1>5, <1>6, <1>7 DEF Next, Step, Threads

(* The spin lock lets one thread at a time into the bodies of push, pop and  *)
(* front. *)
THEOREM LockExcludes == Spec => []MutualExclusion
<1>1. Init => MutualExclusion
  BY DEF Init, MutualExclusion, Locked
<1>2. QED
  BY <1>1, TypeCorrect, ExclusionStep, PTL DEF Spec

(* Under exclusion the thread that moves on inside a critical section        *)
(* decides alone whether a push is between its steps.                        *)
LEMMA HolderDecides ==
  ASSUME TypeOK, MutualExclusion, NEW t \in Threads, pc[t] \in Locked,
         NEW to \in Labels, pc' = [pc EXCEPT ![t] = to]
  PROVE  /\ Storing <=> pc[t] = "push_store"
         /\ Stored <=> pc[t] = "push_end"
         /\ Storing' <=> to = "push_store"
         /\ Stored' <=> to = "push_end"
<1>1. pc \in [Threads -> Labels]
  BY DEF TypeOK
<1>2. \A u \in Threads : u # t => pc[u] \notin Locked
  BY DEF MutualExclusion
<1>3. \A u \in Threads : u # t => pc'[u] \notin Locked
  BY <1>1, <1>2
<1>4. pc'[t] = to
  BY <1>1
<1> QED
  BY <1>2, <1>3, <1>4 DEF Storing, Stored, Locked

(* A step that enters or leaves no critical section, or only its first or    *)
(* last line, changes nothing about the push under way.                      *)
LEMMA OthersKeepPush ==
  ASSUME TypeOK, NEW t \in Threads, NEW to \in Labels,
         pc' = [pc EXCEPT ![t] = to],
         pc[t] \notin {"push_store", "push_end"},
         to \notin {"push_store", "push_end"}
  PROVE  (Storing' <=> Storing) /\ (Stored' <=> Stored)
<1>1. pc \in [Threads -> Labels]
  BY DEF TypeOK
<1> QED
  BY <1>1 DEF Storing, Stored

-----------------------------------------------------------------------------
(* Distances in the ring.  Moving the write end on by one node puts every    *)
(* node one further back, but for the node at the old end, which is now the  *)
(* one written last.                                                         *)
LEMMA BackNext ==
  ASSUME NEW i \in Slots, NEW e \in Slots
  PROVE  /\ Back(i, e) \in 1 .. CAPACITY
         /\ i # e => Back(i, next(e)) = Back(i, e) + 1
         /\ Back(e, next(e)) = 1
         /\ Back(e, e) = CAPACITY
  BY CapacityAssumption, SMT DEF Slots, Back, next

(* Moving m_begin on takes one element out of a ring that has one, and a     *)
(* ring holds at most CAPACITY - 1, exactly that when it is full.            *)
LEMMA SizeBegin ==
  ASSUME TypeOK
  PROVE  /\ Size \in 0 .. CAPACITY - 1
         /\ Full <=> Size = CAPACITY - 1
         /\ m_begin = m_end <=> Size = 0
         /\ m_begin # m_end => Back(m_begin, m_end) = Size
  BY CapacityAssumption, SMT DEF Slots, Size, Back, Full, next, TypeOK

LEMMA SizeStep ==
  ASSUME TypeOK
  PROVE  /\ (m_begin' = next(m_begin) /\ m_end' = m_end /\ Size > 0) => Size' = Size - 1
         /\ (m_end' = next(m_end) /\ m_begin' = m_begin /\ ~ Full) => Size' = Size + 1
         /\ CAPACITY = 1 => Size = 0
         /\ m_begin' = m_begin /\ m_end' = m_end => Size' = Size
<1> USE CapacityAssumption DEF Slots, Size, TypeOK
<1>1. (m_begin' = next(m_begin) /\ m_end' = m_end /\ Size > 0) => Size' = Size - 1
  BY SMT DEF next
<1>2. (m_end' = next(m_end) /\ m_begin' = m_begin /\ ~ Full) => Size' = Size + 1
  BY SMT DEF next, Full
<1>3. CAPACITY = 1 => Size = 0
  BY SMT
<1>4. m_begin' = m_begin /\ m_end' = m_end => Size' = Size
  BY SMT
<1> QED
  BY <1>1, <1>2, <1>3, <1>4

-----------------------------------------------------------------------------
(* A front pointer that is kept, over a step that leaves the nodes alone.    *)
LEMMA KeepPointers ==
  ASSUME RingInv, UNCHANGED <<ele, pushes, ptr, took>>
  PROVE  TookElement' /\ FrontPointerStable'
  BY DEF RingInv, TookElement, FrontPointerStable

(* A step that moves neither end, stores nothing and starts or ends no push. *)
LEMMA KeepRing ==
  ASSUME RingInv, UNCHANGED queueVars, Storing' <=> Storing, Stored' <=> Stored
  PROVE  LapElements' /\ OnlyWritten' /\ RoomForPush'
<1>1. WriteEnd' = WriteEnd /\ Size' = Size
  BY DEF WriteEnd, Size, next, queueVars
<1>2. LapElements'
  BY <1>1 DEF RingInv, LapElements, Back, queueVars
<1>3. OnlyWritten' /\ RoomForPush'
  BY <1>1 DEF RingInv, OnlyWritten, RoomForPush, queueVars
<1> QED
  BY <1>2, <1>3

LEMMA RingStep ==
  TypeOK /\ MutualExclusion /\ RingInv /\ [Next]_vars => RingInv'
<1> SUFFICES ASSUME TypeOK, MutualExclusion, RingInv, [Next]_vars
             PROVE  RingInv'
  OBVIOUS
<1> USE DEF Goto
<1>0. /\ CAPACITY \in Nat \ {0} /\ pushes \in Nat /\ m_begin \in Slots /\ m_end \in Slots
      /\ pc \in [Threads -> Labels] /\ ele \in [Slots -> Nat] /\ took \in [Threads -> Nat]
      /\ ptr \in [Threads -> Slots \cup {NoSlot}]
  BY CapacityAssumption DEF TypeOK
<1>1. ASSUME NEW t \in Threads, Lock(t) \/ Unlock(t) \/ EmptyEnd(t)
      PROVE  RingInv'
  <2>1. (Storing' <=> Storing) /\ (Stored' <=> Stored)
    <3>1. CASE Lock(t)
      <4>1. CASE LockFor(t, "push", "push_drop")
        BY <4>1, OthersKeepPush DEF LockFor, Labels
      <4>2. CASE LockFor(t, "pop", "pop_advance")
        BY <4>2, OthersKeepPush DEF LockFor, Labels
      <4>3. CASE LockFor(t, "front", "front_read")
        BY <4>3, OthersKeepPush DEF LockFor, Labels
      <4> QED
        BY <3>1, <4>1, <4>2, <4>3 DEF Lock
    <3>2. CASE Unlock(t)
      BY <3>2, OthersKeepPush DEF Unlock, Labels
    <3>3. CASE EmptyEnd(t)
      BY <3>3, OthersKeepPush DEF EmptyEnd, Labels
    <3> QED
      BY <1>1, <3>1, <3>2, <3>3
  <2>2. UNCHANGED <<queueVars, ptr, took>>
    BY <1>1 DEF Lock, LockFor, Unlock, EmptyEnd
  <2> QED
    BY <2>1, <2>2, KeepRing, KeepPointers DEF RingInv, queueVars
<1>2. ASSUME NEW t \in Threads, CallPush(t) \/ CallPop(t) \/ CallFront(t) \/ EmptyBegin(t)
      PROVE  RingInv'
  <2>1. (Storing' <=> Storing) /\ (Stored' <=> Stored)
    <3>1. CASE CallPush(t)
      BY <3>1, OthersKeepPush DEF CallPush, Labels
    <3>2. CASE CallPop(t)
      BY <3>2, OthersKeepPush DEF CallPop, Labels
    <3>3. CASE CallFront(t)
      BY <3>3, OthersKeepPush DEF CallFront, Labels
    <3>4. CASE EmptyBegin(t)
      BY <3>4, OthersKeepPush DEF EmptyBegin, Labels
    <3> QED
      BY <1>2, <3>1, <3>2, <3>3, <3>4
  <2>2. UNCHANGED <<queueVars, ptr, took>>
    BY <1>2 DEF CallPush, CallPop, CallFront, EmptyBegin
  <2> QED
    BY <2>1, <2>2, KeepRing, KeepPointers DEF RingInv, queueVars
<1>3. ASSUME NEW t \in Threads, PushDrop(t) PROVE RingInv'
  <2>1. ~ Storing /\ ~ Stored /\ Storing' /\ ~ Stored'
    BY <1>3, HolderDecides DEF PushDrop, Locked, Labels
  <2>2. WriteEnd = m_end /\ WriteEnd' = m_end
    BY <1>3, <2>1 DEF PushDrop, WriteEnd
  <2>3. LapElements'
    BY <1>3, <2>2 DEF PushDrop, RingInv, LapElements, Back
  <2>4. /\ Size' \in Nat
        /\ Size' <= Size
        /\ CAPACITY = 1 \/ Size' + 2 <= CAPACITY
    <3>1. CASE Full
      <4>1. Size = CAPACITY - 1
        BY <3>1, SizeBegin
      <4>2. CASE CAPACITY = 1
        <5>1. m_begin' \in Slots /\ m_end' = m_end
          BY <1>0, <1>3, NextSlot DEF PushDrop
        <5>2. Size' = 0 /\ Size = 0
          BY <1>0, <4>2, <5>1, SMT DEF Size, Slots
        <5> QED
          BY <4>2, <5>2
      <4>3. CASE CAPACITY # 1
        <5>1. Size > 0
          BY <1>0, <4>1, <4>3
        <5>2. Size' = Size - 1
          BY <1>3, <3>1, <5>1, SizeStep DEF PushDrop
        <5> QED
          BY <1>0, <4>1, <4>3, <5>2
      <4> QED
        BY <4>2, <4>3
    <3>2. CASE ~ Full
      <4>1. Size' = Size
        BY <1>3, <3>2, SizeStep DEF PushDrop
      <4> QED
        BY <1>0, <3>2, <4>1, SizeBegin
    <3> QED
      BY <3>1, <3>2
  <2>5. Size \in Nat /\ Size <= pushes
    BY <1>0, <2>1, SizeBegin DEF RingInv, OnlyWritten
  <2>6. OnlyWritten'
    BY <1>0, <1>3, <2>1, <2>4, <2>5 DEF PushDrop, OnlyWritten
  <2>7. RoomForPush'
    BY <2>4 DEF RoomForPush
  <2>8. TookElement' /\ FrontPointerStable'
    BY <1>3, KeepPointers DEF PushDrop
  <2> QED
    BY <2>3, <2>6, <2>7, <2>8 DEF RingInv
<1>4. ASSUME NEW t \in Threads, PushStore(t) PROVE RingInv'
  <2>1. Storing /\ ~ Stored /\ ~ Storing' /\ Stored'
    BY <1>4, HolderDecides DEF PushStore, Locked, Labels
  <2>2. WriteEnd = m_end /\ WriteEnd' = next(m_end)
    BY <1>4, <2>1 DEF PushStore, WriteEnd, next
  <2>3. pushes' = pushes + 1 /\ ele' = [ele EXCEPT ![m_end] = pushes + 1]
    BY <1>4 DEF PushStore
  <2>4. \A i \in Slots : ele[i] = IF Back(i, m_end) <= pushes
                                  THEN pushes + 1 - Back(i, m_end) ELSE 0
    BY <2>2 DEF RingInv, LapElements
  <2>5. \A i \in Slots : ele'[i] = IF Back(i, next(m_end)) <= pushes'
                                   THEN pushes' + 1 - Back(i, next(m_end)) ELSE 0
    <3> SUFFICES ASSUME NEW i \in Slots
                 PROVE  ele'[i] = IF Back(i, next(m_end)) <= pushes'
                                  THEN pushes' + 1 - Back(i, next(m_end)) ELSE 0
      OBVIOUS
    <3>1. CASE i = m_end
      BY <1>0, <2>3, <3>1, BackNext
    <3>2. CASE i # m_end
      <4>1. ele'[i] = ele[i]
        BY <1>0, <2>3, <3>2
      <4>2. Back(i, next(m_end)) = Back(i, m_end) + 1 /\ Back(i, m_end) \in Nat
        BY <1>0, <3>2, BackNext
      <4> QED
        BY <1>0, <2>3, <2>4, <4>1, <4>2
    <3> QED
      BY <3>1, <3>2
  <2>6. LapElements'
    BY <2>2, <2>5 DEF LapElements, Back
  <2>7. Size' = Size /\ Size \in Nat
    BY <1>4, <1>0, SizeStep, SizeBegin DEF PushStore
  <2>8. OnlyWritten' /\ RoomForPush'
    BY <1>0, <2>1, <2>3, <2>7 DEF RingInv, OnlyWritten, RoomForPush
  <2>9. TookElement'
    BY <1>4 DEF PushStore, RingInv, TookElement
  <2>10. FrontPointerStable'
    <3> SUFFICES ASSUME NEW u \in Threads, ptr[u] # NoSlot
                 PROVE  ele'[ptr[u]] = took[u] \/ pushes' >= took[u] + CAPACITY
      BY <1>4 DEF PushStore, FrontPointerStable
    <3>0. ptr[u] \in Slots /\ took[u] \in Nat /\ took[u] > 0
      BY <1>0 DEF RingInv, TookElement
    <3>1. ele[ptr[u]] = took[u] \/ pushes >= took[u] + CAPACITY
      BY DEF RingInv, FrontPointerStable
    <3>2. CASE ptr[u] = m_end /\ ele[ptr[u]] = took[u]
      <4>1. took[u] = pushes + 1 - CAPACITY
        BY <1>0, <2>4, <3>0, <3>2, BackNext
      <4> QED
        BY <1>0, <2>3, <3>0, <4>1
    <3>3. CASE ptr[u] # m_end /\ ele[ptr[u]] = took[u]
      BY <1>0, <2>3, <3>0, <3>3
    <3>4. CASE pushes >= took[u] + CAPACITY
      BY <1>0, <2>3, <3>0, <3>4
    <3> QED
      BY <3>1, <3>2, <3>3, <3>4
  <2> QED
    BY <2>6, <2>8, <2>9, <2>10 DEF RingInv
<1>5. ASSUME NEW t \in Threads, PushEnd(t) PROVE RingInv'
  <2>1. ~ Storing /\ Stored /\ ~ Storing' /\ ~ Stored'
    BY <1>5, HolderDecides DEF PushEnd, Locked, Labels
  <2>2. WriteEnd = next(m_end) /\ WriteEnd' = next(m_end)
    BY <1>5, <2>1 DEF PushEnd, WriteEnd
  <2>3. LapElements'
    BY <1>5, <2>2 DEF PushEnd, RingInv, LapElements, Back
  <2>4. Size \in Nat /\ Size <= pushes - 1 /\ (CAPACITY = 1 \/ Size + 2 <= CAPACITY)
    BY <2>1, SizeBegin DEF RingInv, OnlyWritten, RoomForPush
  <2>5. Size' <= pushes
    <3>1. CASE CAPACITY = 1
      <4>1. m_end' \in Slots /\ m_begin' = m_begin
        BY <1>0, <1>5, NextSlot DEF PushEnd
      <4>2. Size' = 0
        BY <1>0, <3>1, <4>1, SMT DEF Size, Slots
      <4> QED
        BY <1>0, <4>2
    <3>2. CASE CAPACITY # 1
      <4>1. ~ Full
        BY <1>0, <2>4, <3>2, SizeBegin
      <4>2. Size' = Size + 1
        BY <1>5, <4>1, SizeStep DEF PushEnd
      <4> QED
        BY <1>0, <2>4, <4>2
    <3> QED
      BY <3>1, <3>2
  <2>6. OnlyWritten' /\ RoomForPush'
    BY <1>5, <2>1, <2>5 DEF PushEnd, OnlyWritten, RoomForPush
  <2>7. TookElement' /\ FrontPointerStable'
    BY <1>5, KeepPointers DEF PushEnd
  <2> QED
    BY <2>3, <2>6, <2>7 DEF RingInv
<1>6. ASSUME NEW t \in Threads, PopAdvance(t) PROVE RingInv'
  <2>1. ~ Storing /\ ~ Stored /\ ~ Storing' /\ ~ Stored'
    BY <1>6, HolderDecides DEF PopAdvance, Locked, Labels
  <2>2. WriteEnd = m_end /\ WriteEnd' = m_end
    BY <1>6, <2>1 DEF PopAdvance, WriteEnd
  <2>3. LapElements'
    BY <1>6, <2>2 DEF PopAdvance, RingInv, LapElements, Back
  <2>4. Size \in Nat /\ Size <= pushes
    BY <2>1, SizeBegin DEF RingInv, OnlyWritten
  <2>5. Size' \in Nat /\ Size' <= Size
    <3>1. CASE m_begin = m_end
      BY <1>6, <2>4, <3>1, SizeStep DEF PopAdvance
    <3>2. CASE m_begin # m_end
      <4>1. Size > 0
        BY <3>2, <2>4, SizeBegin
      <4> QED
        BY <1>6, <2>4, <3>2, <4>1, SizeStep DEF PopAdvance
    <3> QED
      BY <3>1, <3>2
  <2>6. OnlyWritten' /\ RoomForPush'
    <3>1. pushes' = pushes /\ Size' <= pushes
      BY <1>0, <1>6, <2>4, <2>5 DEF PopAdvance
    <3> QED
      BY <2>1, <3>1 DEF OnlyWritten, RoomForPush
  <2>7. TookElement' /\ FrontPointerStable'
    BY <1>6, KeepPointers DEF PopAdvance
  <2> QED
    BY <2>3, <2>6, <2>7 DEF RingInv
<1>7. ASSUME NEW t \in Threads, FrontRead(t) PROVE RingInv'
  <2>1. ~ Storing /\ ~ Stored /\ ~ Storing' /\ ~ Stored'
    BY <1>7, HolderDecides DEF FrontRead, Locked, Labels
  <2>2. LapElements' /\ OnlyWritten' /\ RoomForPush'
    BY <1>7, <2>1, KeepRing DEF FrontRead
  <2>3. m_begin # m_end => ele[m_begin] > 0
    <3> SUFFICES ASSUME m_begin # m_end PROVE ele[m_begin] > 0
      OBVIOUS
    <3>1. Back(m_begin, m_end) = Size /\ Size \in Nat /\ Size <= pushes
      BY <2>1, SizeBegin DEF RingInv, OnlyWritten
    <3> QED
      BY <1>0, <2>1, <3>1 DEF RingInv, LapElements, WriteEnd
  <2>4. CASE m_begin = m_end
    <3>1. ptr' = [ptr EXCEPT ![t] = NoSlot] /\ took' = [took EXCEPT ![t] = 0]
          /\ UNCHANGED <<ele, pushes>>
      BY <1>7, <2>4 DEF FrontRead, queueVars
    <3> QED
      BY <1>0, <2>2, <3>1 DEF RingInv, TookElement, FrontPointerStable
  <2>5. CASE m_begin # m_end
    <3>1. ptr' = [ptr EXCEPT ![t] = m_begin] /\ took' = [took EXCEPT ![t] = ele[m_begin]]
          /\ UNCHANGED <<ele, pushes>>
      BY <1>7, <2>5 DEF FrontRead, queueVars
    <3> QED
      BY <1>0, <2>2, <2>3, <2>5, <3>1 DEF RingInv, TookElement, FrontPointerStable
  <2> QED
    BY <2>4, <2>5
<1>8. CASE UNCHANGED vars
  <2>1. (Storing' <=> Storing) /\ (Stored' <=> Stored)
    BY <1>8 DEF vars, Storing, Stored
  <2> QED
    BY <1>8, <2>1, KeepRing, KeepPointers DEF vars, RingInv, queueVars
<1>9. QED
  BY <1>1, <1>2, <1>3, <1>4, <1>5, <1>6, <1>7, <1>8 DEF Next, Step, Threads

(* What front() returned is the element it was taken for during one whole    *)
(* lap, whatever the other threads push, drop and pop after the lock is      *)
(* released; and the ring holds what was pushed, oldest to newest.           *)
THEOREM RingCorrect == Spec => []RingInv
<1>1. Init => RingInv
  <2> SUFFICES ASSUME Init PROVE RingInv
    OBVIOUS
  <2>1. pushes = 0 /\ ~ Storing /\ ~ Stored /\ Size = 0 /\ WriteEnd = 0 /\ 0 \in Slots
    BY CapacityAssumption DEF Init, Storing, Stored, Size, WriteEnd, Slots
  <2>2. LapElements
    BY <2>1, BackNext, CapacityAssumption DEF Init, LapElements
  <2> QED
    BY <2>1, <2>2 DEF Init, RingInv, OnlyWritten, RoomForPush, TookElement, FrontPointerStable
<1>2. QED
  BY <1>1, TypeCorrect, LockExcludes, RingStep, PTL DEF Spec

(* The lock and what it guards, as the run checks them. *)
THEOREM LockCorrect == Spec => []LockInv
<1> QED
  BY TypeCorrect, LockExcludes, PTL DEF LockInv

(* The node that a front pointer points at keeps its element for a lap.      *)
THEOREM PointerStable == Spec => []FrontPointerStable
<1>1. RingInv => FrontPointerStable
  BY DEF RingInv
<1> QED
  BY <1>1, RingCorrect, PTL

-----------------------------------------------------------------------------
(* The refinement.  What the ring holds is determined by two numbers: it is  *)
(* the last Held of the Pushed elements, oldest first.                       *)
Last(n, p) == [k \in 1 .. n |-> p - n + k]

(* Node k of those from m_begin on lies as far behind the node written last  *)
(* as there are elements from it on.                                         *)
LEMMA BackNth ==
  ASSUME TypeOK, RoomForPush, NEW k \in 1 .. Size
  PROVE  /\ Nth(m_begin, k - 1) \in Slots
         /\ Back(Nth(m_begin, k - 1), m_end) = Size - k + 1
         /\ Stored => Back(Nth(m_begin, k - 1), next(m_end)) = Size - k + 2
<1>1. k \in 1 .. Size /\ CAPACITY \in Nat \ {0} /\ m_begin \in Slots /\ m_end \in Slots
  BY CapacityAssumption DEF TypeOK
<1>2. Nth(m_begin, k - 1) \in Slots /\ Back(Nth(m_begin, k - 1), m_end) = Size - k + 1
  BY <1>1, SMT DEF Slots, Size, Back, Nth
<1>3. Nth(m_begin, k - 1) # m_end
  BY <1>1, SMT DEF Slots, Size, Nth
<1> QED
  BY <1>1, <1>2, <1>3, BackNext, SizeBegin

NumbersTell ==
  /\ Held \in Nat
  /\ Pushed \in Nat
  /\ Held <= Pushed
  /\ Contents = Last(Held, Pushed)

LEMMA ContentsAre == TypeOK /\ MutualExclusion /\ RingInv => NumbersTell
<1> SUFFICES ASSUME TypeOK, MutualExclusion, RingInv PROVE NumbersTell
  OBVIOUS
<1>0. /\ CAPACITY \in Nat \ {0} /\ pushes \in Nat /\ m_begin \in Slots /\ m_end \in Slots
      /\ ele \in [Slots -> Nat]
      /\ Size \in 0 .. CAPACITY - 1
  BY CapacityAssumption, SizeBegin DEF TypeOK
<1>1. ~ (Storing /\ Stored)
  BY DEF MutualExclusion, Storing, Stored, Locked
<1>2. Size <= (IF Stored THEN pushes - 1 ELSE pushes)
  BY DEF RingInv, OnlyWritten
<1>3. Held \in Nat /\ Pushed \in Nat /\ Held <= Pushed
  BY <1>0, <1>1, <1>2 DEF Held, Pushed
<1>4. ASSUME NEW k \in 1 .. Held
      PROVE  (IF Storing /\ k = Size + 1 THEN pushes + 1 ELSE ele[Nth(m_begin, k - 1)])
             = Pushed - Held + k
  <2>0. k \in Nat /\ k >= 1 /\ k <= Held
    BY <1>3
  <2>1. CASE k <= Size
    <3>1. k \in 1 .. Size
      BY <1>0, <2>0, <2>1
    <3>2. /\ Nth(m_begin, k - 1) \in Slots
          /\ Back(Nth(m_begin, k - 1), m_end) = Size - k + 1
          /\ Stored => Back(Nth(m_begin, k - 1), next(m_end)) = Size - k + 2
      BY <3>1, BackNth DEF RingInv
    <3>3. ele[Nth(m_begin, k - 1)] = IF Back(Nth(m_begin, k - 1), WriteEnd) <= pushes
                        THEN pushes + 1 - Back(Nth(m_begin, k - 1), WriteEnd) ELSE 0
      BY <3>2 DEF RingInv, LapElements
    <3>4. CASE Stored
      <4>1. CAPACITY > 1
        BY <1>0, <2>0, <2>1
      <4> QED
        BY <1>0, <1>1, <1>2, <2>0, <2>1, <3>2, <3>3, <3>4, <4>1 DEF WriteEnd, Held, Pushed
    <3>5. CASE ~ Stored
      <4>1. CAPACITY > 1
        BY <1>0, <2>0, <2>1
      <4> QED
        BY <1>0, <1>1, <1>2, <2>0, <2>1, <3>2, <3>3, <3>5, <4>1 DEF WriteEnd, Held, Pushed
    <3> QED
      BY <3>4, <3>5
  <2>2. CASE k > Size
    <3>1. Held = Size + 1 /\ k = Size + 1 /\ (Storing \/ Stored) /\ CAPACITY > 1
      BY <1>0, <2>0, <2>2 DEF Held
    <3>2. CASE Storing
      BY <1>0, <3>1, <3>2 DEF Pushed
    <3>3. CASE ~ Storing
      <4>1. Nth(m_begin, k - 1) = m_end
        BY <1>0, <3>1, SMT DEF Slots, Size, Nth
      <4>2. WriteEnd = next(m_end) /\ Back(m_end, next(m_end)) = 1
        BY <1>0, <3>1, <3>3, BackNext DEF WriteEnd
      <4>3. ele[m_end] = IF 1 <= pushes THEN pushes + 1 - 1 ELSE 0
        BY <1>0, <4>2 DEF RingInv, LapElements
      <4> QED
        BY <1>0, <3>1, <3>3, <4>1, <4>3 DEF Pushed
    <3> QED
      BY <3>2, <3>3
  <2> QED
    BY <1>0, <2>0, <2>1, <2>2
<1>5. Contents = Last(Held, Pushed)
  BY <1>4 DEF Contents, Last
<1> QED
  BY <1>3, <1>5 DEF NumbersTell

(* The same of the state a step leads to.                                    *)
LEMMA ContentsNext == TypeOK' /\ MutualExclusion' /\ RingInv' => NumbersTell'
  BY ContentsAre, PTL

(* What push, pop and front of the abstraction do to such a sequence.        *)
LEMMA LastSteps ==
  ASSUME NEW n \in Nat, NEW p \in Nat, n <= p
  PROVE  /\ Last(n, p) \in Seq(Nat)
         /\ Len(Last(n, p)) = n
         /\ n > 0 => Tail(Last(n, p)) = Last(n - 1, p)
         /\ n > 0 => Head(Last(n, p)) = p - n + 1
         /\ Append(Last(n, p), p + 1) = Last(n + 1, p + 1)
<1>1. Last(n, p) \in Seq(Nat) /\ Len(Last(n, p)) = n
  BY DEF Last
<1>2. n > 0 => Tail(Last(n, p)) = Last(n - 1, p)
  BY <1>1 DEF Last
<1>3. n > 0 => Head(Last(n, p)) = p - n + 1
  BY <1>1 DEF Last
<1>4. Append(Last(n, p), p + 1) = Last(n + 1, p + 1)
  BY <1>1 DEF Last
<1> QED
  BY <1>1, <1>2, <1>3, <1>4

(* An empty queue of the abstraction is an empty ring with no push under way. *)
LEMMA LastEmpty ==
  ASSUME NEW n \in Nat, NEW p \in Nat, n <= p
  PROVE  (Last(n, p) = << >>) <=> (n = 0)
<1>1. Len(Last(n, p)) = n
  BY LastSteps
<1>2. n = 0 => Last(n, p) = << >>
  BY DEF Last
<1> QED
  BY <1>1, <1>2

(* A step that changes neither number nor what a front() took is a stutter.  *)
LEMMA SameNumbers ==
  ASSUME TypeOK, MutualExclusion, RingInv, TypeOK', MutualExclusion', RingInv',
         Held' = Held, Pushed' = Pushed, UNCHANGED took
  PROVE  UNCHANGED Abstract!vars
<1>1. Contents = Last(Held, Pushed) /\ Contents' = Last(Held', Pushed')
  BY ContentsAre, ContentsNext DEF NumbersTell, Last
<1> QED
  BY <1>1 DEF Abstract!vars, Last

(* The two numbers over each step.  A push that has made room counts: it is  *)
(* one more, and gives one up if the ring was full; *)
LEMMA PushNumbers ==
  ASSUME TypeOK, MutualExclusion, RingInv, TypeOK', NEW t \in Threads, PushDrop(t)
  PROVE  /\ Pushed' = Pushed + 1
         /\ Held' = IF Held + 1 > CAPACITY - 1 THEN Held ELSE Held + 1
         /\ Held = Size /\ Held <= CAPACITY - 1
         /\ Full <=> Held = CAPACITY - 1
<1>0. /\ CAPACITY \in Nat \ {0} /\ pushes \in Nat /\ m_begin \in Slots /\ m_end \in Slots
      /\ Size \in 0 .. CAPACITY - 1
  BY CapacityAssumption, SizeBegin DEF TypeOK
<1>1. ~ Storing /\ ~ Stored /\ Storing' /\ ~ Stored'
  BY HolderDecides DEF PushDrop, Goto, Locked, Labels
<1>2. Pushed = pushes /\ Pushed' = pushes + 1 /\ Held = Size
  BY <1>1 DEF PushDrop, Pushed, Held
<1>3. Held' = IF Held + 1 > CAPACITY - 1 THEN Held ELSE Held + 1
  <2>1. CASE CAPACITY = 1
    <3>1. m_begin' \in Slots /\ m_end' \in Slots
      BY DEF TypeOK
    <3>2. Size' = 0 /\ Size = 0
      BY <1>0, <2>1, <3>1, SMT DEF Size, Slots
    <3> QED
      BY <1>0, <1>2, <2>1, <3>2 DEF Held
  <2>2. CASE CAPACITY # 1 /\ Full
    <3>1. Size = CAPACITY - 1 /\ Size > 0
      BY <1>0, <2>2, SizeBegin
    <3>2. Size' = Size - 1
      BY <2>2, <3>1, SizeStep DEF PushDrop
    <3> QED
      BY <1>0, <1>1, <1>2, <2>2, <3>1, <3>2 DEF Held
  <2>3. CASE CAPACITY # 1 /\ ~ Full
    <3>1. Size # CAPACITY - 1
      BY <1>0, <2>3, SizeBegin
    <3>2. Size' = Size
      BY <2>3, SizeStep DEF PushDrop
    <3> QED
      BY <1>0, <1>1, <1>2, <2>3, <3>1, <3>2 DEF Held
  <2> QED
    BY <2>1, <2>2, <2>3
<1> QED
  BY <1>0, <1>2, <1>3, SizeBegin

(* a pop takes one away, if there is one; *)
LEMMA PopNumbers ==
  ASSUME TypeOK, MutualExclusion, RingInv, TypeOK', NEW t \in Threads, PopAdvance(t)
  PROVE  /\ Pushed' = Pushed
         /\ m_begin = m_end <=> Held = 0
         /\ Held' = IF Held = 0 THEN 0 ELSE Held - 1
<1>1. ~ Storing /\ ~ Stored /\ ~ Storing' /\ ~ Stored'
  BY HolderDecides DEF PopAdvance, Goto, Locked, Labels
<1>2. Pushed' = Pushed /\ Held = Size /\ Held' = Size'
  BY <1>1 DEF PopAdvance, Pushed, Held
<1>3. CASE m_begin = m_end
  <2>1. Size' = Size
    BY <1>3 DEF PopAdvance, Size
  <2> QED
    BY <1>2, <1>3, <2>1, SizeBegin
<1>4. CASE m_begin # m_end
  <2>1. Size \in Nat /\ Size > 0
    BY <1>4, SizeBegin, CapacityAssumption
  <2>2. Size' = Size - 1
    BY <1>4, <2>1, SizeStep DEF PopAdvance
  <2> QED
    BY <1>2, <1>4, <2>1, <2>2
<1> QED
  BY <1>3, <1>4

(* and nothing else changes them. *)
LEMMA KeepNumbers ==
  ASSUME TypeOK, MutualExclusion, RingInv, TypeOK', [Next]_vars,
         \A t \in Threads : ~ PushDrop(t) /\ ~ PopAdvance(t)
  PROVE  Held' = Held /\ Pushed' = Pushed
<1> USE DEF Goto
<1>0. /\ CAPACITY \in Nat \ {0} /\ pushes \in Nat /\ m_begin \in Slots /\ m_end \in Slots
      /\ pc \in [Threads -> Labels] /\ Size \in 0 .. CAPACITY - 1
  BY CapacityAssumption, SizeBegin DEF TypeOK
<1>1. ASSUME NEW t \in Threads, NEW to \in Labels, pc' = [pc EXCEPT ![t] = to],
             pc[t] \notin {"push_store", "push_end"}, to \notin {"push_store", "push_end"},
             UNCHANGED queueVars
      PROVE  Held' = Held /\ Pushed' = Pushed
  <2>1. (Storing' <=> Storing) /\ (Stored' <=> Stored)
    BY <1>1, OthersKeepPush
  <2>2. Size' = Size /\ pushes' = pushes
    BY <1>1 DEF Size, queueVars
  <2> QED
    BY <2>1, <2>2 DEF Held, Pushed
<1>2. ASSUME NEW t \in Threads, Lock(t) PROVE Held' = Held /\ Pushed' = Pushed
  <2>1. CASE LockFor(t, "push", "push_drop")
    BY <1>1, <2>1 DEF LockFor, Labels
  <2>2. CASE LockFor(t, "pop", "pop_advance")
    BY <1>1, <2>2 DEF LockFor, Labels
  <2>3. CASE LockFor(t, "front", "front_read")
    BY <1>1, <2>3 DEF LockFor, Labels
  <2> QED
    BY <1>2, <2>1, <2>2, <2>3 DEF Lock
<1>3. ASSUME NEW t \in Threads, Unlock(t) PROVE Held' = Held /\ Pushed' = Pushed
  BY <1>1, <1>3 DEF Unlock, Labels
<1>4. ASSUME NEW t \in Threads, EmptyEnd(t) PROVE Held' = Held /\ Pushed' = Pushed
  BY <1>1, <1>4 DEF EmptyEnd, Labels
<1>5. ASSUME NEW t \in Threads, CallPush(t) \/ CallPop(t) \/ CallFront(t) \/ EmptyBegin(t)
      PROVE  Held' = Held /\ Pushed' = Pushed
  <2>1. CASE CallPush(t)
    BY <1>1, <2>1 DEF CallPush, Labels
  <2>2. CASE CallPop(t)
    BY <1>1, <2>2 DEF CallPop, Labels
  <2>3. CASE CallFront(t)
    BY <1>1, <2>3 DEF CallFront, Labels
  <2>4. CASE EmptyBegin(t)
    BY <1>1, <2>4 DEF EmptyBegin, Labels
  <2> QED
    BY <1>5, <2>1, <2>2, <2>3, <2>4
<1>6. ASSUME NEW t \in Threads, PushStore(t) PROVE Held' = Held /\ Pushed' = Pushed
  <2>1. Storing /\ ~ Stored /\ ~ Storing' /\ Stored'
    BY <1>6, HolderDecides DEF PushStore, Locked, Labels
  <2>2. Size' = Size /\ pushes' = pushes + 1
    BY <1>6 DEF PushStore, Size
  <2> QED
    BY <2>1, <2>2 DEF Held, Pushed
<1>7. ASSUME NEW t \in Threads, PushEnd(t) PROVE Held' = Held /\ Pushed' = Pushed
  <2>1. ~ Storing /\ Stored /\ ~ Storing' /\ ~ Stored'
    BY <1>7, HolderDecides DEF PushEnd, Locked, Labels
  <2>2. Held' = Held
    <3>1. CASE CAPACITY = 1
      <4>1. m_begin' \in Slots /\ m_end' \in Slots
        BY DEF TypeOK
      <4>2. Size' = 0 /\ Size = 0
        BY <1>0, <3>1, <4>1, SMT DEF Size, Slots
      <4> QED
        BY <1>0, <3>1, <4>2 DEF Held
    <3>2. CASE CAPACITY # 1
      <4>1. Size + 2 <= CAPACITY
        BY <2>1, <3>2 DEF RingInv, RoomForPush
      <4>2. ~ Full
        BY <1>0, <4>1, SizeBegin
      <4>3. Size' = Size + 1
        BY <1>7, <4>2, SizeStep DEF PushEnd
      <4> QED
        BY <1>0, <2>1, <3>2, <4>3 DEF Held
    <3> QED
      BY <3>1, <3>2
  <2>3. Pushed' = Pushed
    BY <1>7, <2>1 DEF PushEnd, Pushed
  <2> QED
    BY <2>2, <2>3
<1>8. ASSUME NEW t \in Threads, FrontRead(t) PROVE Held' = Held /\ Pushed' = Pushed
  BY <1>1, <1>8 DEF FrontRead, Labels
<1>9. CASE UNCHANGED vars
  BY <1>9 DEF vars, Storing, Stored, Size, Held, Pushed
<1> QED
  BY <1>2, <1>3, <1>4, <1>5, <1>6, <1>7, <1>8, <1>9 DEF Next, Step, Threads

LEMMA AbstractStep ==
  /\ TypeOK /\ MutualExclusion /\ RingInv
  /\ TypeOK' /\ MutualExclusion' /\ RingInv'
  /\ [Next]_vars
  => [Abstract!Next]_(Abstract!vars)
<1> SUFFICES ASSUME TypeOK, MutualExclusion, RingInv, TypeOK', MutualExclusion', RingInv',
                    [Next]_vars
             PROVE  [Abstract!Next]_(Abstract!vars)
  OBVIOUS
<1>0. /\ CAPACITY \in Nat \ {0} /\ pushes \in Nat /\ m_begin \in Slots /\ m_end \in Slots
      /\ pc \in [Threads -> Labels] /\ Size \in 0 .. CAPACITY - 1
      /\ Held \in Nat /\ Pushed \in Nat /\ Held <= Pushed
      /\ Contents = Last(Held, Pushed) /\ Contents' = Last(Held', Pushed')
  BY CapacityAssumption, SizeBegin, ContentsAre, ContentsNext DEF TypeOK, NumbersTell, Last
<1>1. ASSUME NEW t \in Threads, PushDrop(t) PROVE Abstract!Push
  <2>1. /\ Pushed' = Pushed + 1
        /\ Held' = IF Held + 1 > CAPACITY - 1 THEN Held ELSE Held + 1
    BY <1>1, PushNumbers
  <2>2. Append(Contents, Pushed + 1) = Last(Held + 1, Pushed + 1)
    BY <1>0, LastSteps
  <2>3. /\ Len(Last(Held + 1, Pushed + 1)) = Held + 1
        /\ Tail(Last(Held + 1, Pushed + 1)) = Last(Held, Pushed + 1)
    <3> DEFINE n == Held + 1
               p == Pushed + 1
    <3>1. n \in Nat /\ p \in Nat /\ n <= p /\ n > 0 /\ n - 1 = Held
      BY <1>0
    <3> HIDE DEF n, p
    <3>2. Len(Last(n, p)) = n /\ Tail(Last(n, p)) = Last(n - 1, p)
      BY <3>1, LastSteps
    <3> QED
      BY <3>1, <3>2 DEF n, p
  <2>4. Contents' = Abstract!Keep(Append(Contents, Pushed + 1))
    BY <1>0, <2>1, <2>2, <2>3 DEF Abstract!Keep
  <2> QED
    BY <1>1, <2>1, <2>4 DEF PushDrop, Abstract!Push
<1>2. ASSUME NEW t \in Threads, PopAdvance(t) PROVE Abstract!Pop \/ UNCHANGED Abstract!vars
  <2>1. /\ Pushed' = Pushed
        /\ Held' = IF Held = 0 THEN 0 ELSE Held - 1
    BY <1>2, PopNumbers
  <2>2. CASE Held = 0
    BY <1>2, <2>1, <2>2, SameNumbers DEF PopAdvance
  <2>3. CASE Held > 0
    <3>1. Tail(Contents) = Last(Held - 1, Pushed)
      BY <1>0, <2>3, LastSteps
    <3>2. Contents # << >>
      BY <1>0, <2>3, LastEmpty
    <3>3. Contents' = Tail(Contents)
      BY <1>0, <2>1, <2>3, <3>1
    <3> QED
      BY <1>2, <2>1, <3>2, <3>3 DEF PopAdvance, Abstract!Pop
  <2> QED
    BY <1>0, <2>2, <2>3
<1>3. ASSUME NEW t \in Threads, FrontRead(t) PROVE Abstract!Front(t)
  <2>1. ~ Storing /\ ~ Stored /\ ~ Storing' /\ ~ Stored'
    BY <1>3, HolderDecides DEF FrontRead, Goto, Locked, Labels
  <2>2. Held = Size /\ Held' = Held /\ Pushed' = Pushed
    BY <1>3, <2>1 DEF FrontRead, queueVars, Size, Held, Pushed
  <2>3. Contents' = Contents
    BY <1>0, <2>2
  <2>4. CASE m_begin = m_end
    <3>1. Contents = << >>
      BY <1>0, <2>2, <2>4, SizeBegin, LastEmpty
    <3> QED
      BY <1>3, <2>2, <2>3, <2>4, <3>1 DEF FrontRead, Abstract!Front
  <2>5. CASE m_begin # m_end
    <3>1. Size > 0
      BY <1>0, <2>5, SizeBegin
    <3>2. Contents # << >> /\ Head(Contents) = Contents[1]
      BY <1>0, <2>2, <3>1, LastEmpty
    <3>3. Contents[1] = ele[m_begin]
      <4>1. Nth(m_begin, 1 - 1) = m_begin
        BY <1>0 DEF Nth, Slots
      <4> QED
        BY <1>0, <2>1, <2>2, <3>1, <4>1 DEF Contents
    <3> QED
      BY <1>3, <2>2, <2>3, <2>5, <3>2, <3>3 DEF FrontRead, Abstract!Front
  <2> QED
    BY <2>4, <2>5
<1>4. CASE \A t \in Threads : ~ PushDrop(t) /\ ~ PopAdvance(t) /\ ~ FrontRead(t)
  <2>1. Held' = Held /\ Pushed' = Pushed
    BY <1>4, KeepNumbers
  <2>2. took' = took
    BY <1>4 DEF Next, Step, Lock, LockFor, Unlock, PushStore, PushEnd, EmptyEnd,
                CallPush, CallPop, CallFront, EmptyBegin, vars
  <2> QED
    BY <2>1, <2>2, SameNumbers
<1> QED
  BY <1>1, <1>2, <1>3, <1>4 DEF Abstract!Next, Threads

(* For every capacity, and for any number of threads: what MSyncAnnularQueue *)
(* does is what a bounded queue that gives up its oldest element does, with  *)
(* every push, pop and front taking effect at once.                          *)
THEOREM QueueImplemented == Spec => ImplementsQueue
<1>1. Init => Abstract!Init
  <2> SUFFICES ASSUME Init PROVE Abstract!Init
    OBVIOUS
  <2>1. ~ Storing /\ ~ Stored /\ Size = 0
    BY CapacityAssumption DEF Init, Storing, Stored, Size
  <2>2. Held = 0 /\ Pushed = 0
    BY <2>1 DEF Init, Held, Pushed
  <2>3. Contents = << >>
    BY <2>2 DEF Contents
  <2> QED
    BY <2>2, <2>3 DEF Init, Abstract!Init
<1>2. QED
  BY <1>1, AbstractStep, TypeCorrect, LockExcludes, RingCorrect, PTL
     DEF Spec, ImplementsQueue, Abstract!Spec

-----------------------------------------------------------------------------
(* The callers of recv_completed_queue.  What MSessionRecv models is proved  *)
(* for the callers that the library has: one thread, the notified one, calls *)
(* getPopFrontRecvMsg, and it runs no handler of the session.                *)
OneReader ==
  /\ \A c, d \in Consumers : c = d
  /\ Consumers \cap Producers = {}

RingOK == TypeOK /\ MutualExclusion /\ RingInv

(* Which member function a caller is in follows from the call of            *)
(* getPopFrontRecvMsg that it is at, and io threads only push.              *)
Calls ==
  /\ \A c \in Consumers :
       /\ stage[c] = "out" => pc[c] = "idle"
       /\ stage[c] = "poll" => pc[c] \in {"idle", "empty_end"}
       /\ stage[c] = "front" => pc[c] \in {"idle", "front", "front_read", "unlock"}
       /\ stage[c] = "pop" => pc[c] \in {"idle", "pop", "pop_advance", "unlock"}
  /\ \A p \in Producers :
       pc[p] \in {"idle", "push", "push_drop", "push_store", "push_end", "unlock"}

(* front() has returned, and pop() has. *)
HasFront(c) == stage[c] = "front" /\ pc[c] \in {"unlock", "idle"}
HasPopped(c) == stage[c] = "pop" /\ pc[c] \in {"unlock", "idle"}

(* An answer of empty() stays true while its only reader acts on it, though  *)
(* pushes give up elements and the two reads of the answer straddle them:    *)
(* what was not empty holds an element until the reader pops.                *)
Shown == \A c \in Consumers :
  /\ pc[c] = "empty_end" => Held > 0 \/ seen[c] = m_end
  /\ stage[c] = "poll" /\ pc[c] = "idle" /\ ~ isEmpty[c] => Held > 0
  /\ stage[c] \in {"front", "pop"} /\ ~ HasPopped(c) => Held > 0
  /\ HasFront(c) \/ stage[c] = "pop" => ptr[c] # NoSlot

(* A node is only ever written over by the element of its next lap. *)
Laps == \A t \in Threads :
  ptr[t] # NoSlot => \E k \in Nat : ele[ptr[t]] = took[t] + k * CAPACITY

(* Until a push gives up an element, what has left the ring is what was      *)
(* returned, and the element on its way between pop and return.              *)
InOrder == ~ overflowed => \A c \in Consumers :
  /\ \A i \in DOMAIN returned[c] : returned[c][i] = i
  /\ Pushed - Held = IF HasPopped(c) THEN Len(returned[c]) + 1 ELSE Len(returned[c])
  /\ HasFront(c) \/ stage[c] = "pop" => took[c] = Len(returned[c]) + 1

SessionInv == TypeOKSession /\ Calls /\ Shown /\ InOrder

(* The packages that full reads have paid for and no push has delivered:     *)
(* those inside a push, the one whose header is known, and one for each full *)
(* read that still has all its bytes.                                        *)
Pushing == {p \in Producers : at[p] = "pushing"}
FullBuffers == {p \in Producers : at[p] \in {"filled", "loop", "pushing"} /\ bytes[p] = MAX}
Known == IF head_parse /\ cur <= total THEN 1 ELSE 0

Paid ==
  /\ IsFiniteSet(FullBuffers)
  /\ delivered + Cardinality(Pushing) + Known + Cardinality(FullBuffers) <= fulls

NumbersRead ==
  /\ {cur, total, fulls, delivered} \subseteq Nat
  /\ ends \in [0 .. MaxSent -> Nat]
  /\ \A k \in 1 .. MaxSent : SizeOf(k) \in Sizes

-----------------------------------------------------------------------------
(* Every step of the handlers is one of the session's, and that one of the   *)
(* ring's. *)
LEMMA SessionIsRing == [NextSession]_allVars => [Next]_vars
<1> SUFFICES ASSUME [NextSession]_allVars PROVE [Next]_vars
  OBVIOUS
<1>1. ASSUME NEW t \in Threads, Run(t) PROVE Next
  BY <1>1 DEF Run, Next
<1>2. ASSUME NEW p \in Producers, Receive(p) PROVE Next
  BY <1>2 DEF Receive, Next
<1>3. ASSUME NEW c \in Consumers, Consume(c) PROVE [Next]_vars
  BY <1>3 DEF Consume, Poll, PollAgain, TakeFront, PopIt, Return, Next
<1>4. CASE UNCHANGED allVars
  BY <1>4 DEF allVars
<1> QED
  BY <1>1, <1>2, <1>3, <1>4 DEF NextSession

LEMMA ReadIsSession == [NextRead]_readAllVars => [NextSession]_allVars
<1> SUFFICES ASSUME [NextRead]_readAllVars PROVE [NextSession]_allVars
  OBVIOUS
<1>1. ASSUME NEW t \in Threads, Run(t) PROVE NextSession
  BY <1>1 DEF NextSession
<1>2. ASSUME NEW c \in Consumers, Consume(c) PROVE NextSession
  BY <1>2 DEF NextSession
<1>3. ASSUME NEW p \in Producers, Receive(p) PROVE NextSession
  BY <1>3 DEF NextSession
<1>4. ASSUME NEW p \in Producers,
             ReadPackage(p) \/ ReadFromSocket(p) \/ ReadAllFromSocket(p) \/ Fill(p) \/ Fail(p)
      PROVE  UNCHANGED allVars
  BY <1>4 DEF ReadPackage, ReadFromSocket, ReadAllFromSocket, Fill, Fail
<1>5. ASSUME NEW p \in Producers, HandleRead(p) PROVE [NextSession]_allVars
  BY <1>3, <1>5 DEF HandleRead, Handle, AppendHead, RejectHeader, HeadPart, HeadWhole,
                    RestPart, RestWhole, AfterPush, Deliver, Arm
<1>6. ASSUME NEW p \in Producers, Raw(p) PROVE [NextSession]_allVars
  BY <1>3, <1>6 DEF Raw, ReadCallback, RawAgain
<1>7. CASE UNCHANGED readAllVars
  BY <1>7 DEF readAllVars
<1> QED
  BY <1>1, <1>2, <1>4, <1>5, <1>6, <1>7 DEF NextRead

(* The ring under its callers. *)
LEMMA RingUnderSession ==
  InitSession /\ [][NextSession]_allVars => []RingOK
<1>1. InitSession => Init
  BY DEF InitSession
<1>2. [NextSession]_allVars => [Next]_vars
  BY SessionIsRing
<1> QED
  BY <1>1, <1>2, TypeCorrect, LockExcludes, RingCorrect, PTL DEF Spec, RingOK

-----------------------------------------------------------------------------
(* The caller's own state keeps its type. *)
LEMMA SessionTypeStep ==
  TypeOKSession /\ TypeOK' /\ [NextSession]_allVars => TypeOKSession'
<1> SUFFICES ASSUME TypeOKSession, TypeOK', [NextSession]_allVars PROVE TypeOKSession'
  OBVIOUS
<1> USE DEF TypeOKSession
<1>1. ASSUME NEW t \in Threads, Run(t) PROVE TypeOKSession'
  BY <1>1 DEF Run
<1>2. ASSUME NEW p \in Producers, Receive(p) PROVE TypeOKSession'
  BY <1>2 DEF Receive, sessionVars
<1>3. ASSUME NEW c \in Consumers, Poll(c) \/ PollAgain(c) \/ TakeFront(c) \/ PopIt(c)
      PROVE  TypeOKSession'
  BY <1>3 DEF Poll, PollAgain, TakeFront, PopIt, Move
<1>4. ASSUME NEW c \in Consumers, Return(c) PROVE TypeOKSession'
  <2>0. ele[ptr[c]] \in Nat
    BY <1>4 DEF Return, TypeOK, Threads
  <2>1. CopyOf(ptr[c]) \subseteq Nat
    BY <2>0 DEF CopyOf, Torn
  <2>2. PICK e \in CopyOf(ptr[c]) : returned' = [returned EXCEPT ![c] = Append(@, e)]
    BY <1>4 DEF Return
  <2>3. Append(returned[c], e) \in Seq(Nat)
    BY <2>1
  <2> QED
    BY <1>4, <2>2, <2>3 DEF Return
<1>5. CASE UNCHANGED allVars
  BY <1>5 DEF allVars, sessionVars
<1> QED
  BY <1>1, <1>2, <1>3, <1>4, <1>5 DEF NextSession, Consume

LEMMA CallsStep ==
  ASSUME OneReader, TypeOKSession, Calls, [NextSession]_allVars
  PROVE  Calls'
<1> USE DEF Calls, OneReader, Threads
<1>0. pc \in [Threads -> Labels] /\ stage \in [Consumers -> {"out", "poll", "front", "pop"}]
  BY DEF TypeOKSession, TypeOK
<1>1. ASSUME NEW t \in Threads, Run(t) PROVE Calls'
  <2>1. stage' = stage /\ \A u \in Threads : u # t => pc'[u] = pc[u]
    BY <1>0, <1>1 DEF Run, Step, Lock, LockFor, Unlock, PushDrop, PushStore, PushEnd,
                      PopAdvance, FrontRead, EmptyEnd, Goto
  <2>2. \/ pc[t] = "push" /\ pc'[t] = "push_drop"
        \/ pc[t] = "pop" /\ pc'[t] = "pop_advance"
        \/ pc[t] = "front" /\ pc'[t] = "front_read"
        \/ pc[t] = "unlock" /\ pc'[t] = "idle"
        \/ pc[t] = "push_drop" /\ pc'[t] = "push_store"
        \/ pc[t] = "push_store" /\ pc'[t] = "push_end"
        \/ pc[t] = "push_end" /\ pc'[t] = "unlock"
        \/ pc[t] = "pop_advance" /\ pc'[t] = "unlock"
        \/ pc[t] = "front_read" /\ pc'[t] = "unlock"
        \/ pc[t] = "empty_end" /\ pc'[t] = "idle"
    BY <1>0, <1>1 DEF Run, Step, Lock, LockFor, Unlock, PushDrop, PushStore, PushEnd,
                      PopAdvance, FrontRead, EmptyEnd, Goto
  <2> QED
    BY <1>0, <2>1, <2>2
<1>2. ASSUME NEW p \in Producers, Receive(p) PROVE Calls'
  BY <1>0, <1>2 DEF Receive, CallPush, Goto, sessionVars
<1>3. ASSUME NEW c \in Consumers, Consume(c) PROVE Calls'
  BY <1>0, <1>3 DEF Consume, Poll, PollAgain, TakeFront, PopIt, Return, Move,
                    EmptyBegin, CallFront, CallPop, Goto, vars
<1>4. CASE UNCHANGED allVars
  BY <1>4 DEF allVars, vars, sessionVars
<1> QED
  BY <1>1, <1>2, <1>3, <1>4 DEF NextSession

-----------------------------------------------------------------------------
(* How many elements count, from the ring's invariant. *)
LEMMA RingNumbers ==
  ASSUME RingOK
  PROVE  /\ CAPACITY \in Nat \ {0} /\ pushes \in Nat
         /\ Held \in Nat /\ Held <= CAPACITY - 1
         /\ Pushed \in Nat /\ Held <= Pushed /\ pushes <= Pushed
         /\ Held = 0 => m_begin = m_end
<1>1. CAPACITY \in Nat \ {0} /\ pushes \in Nat /\ Size \in 0 .. CAPACITY - 1
  BY CapacityAssumption, SizeBegin DEF RingOK, TypeOK
<1>2. Held \in Nat /\ Pushed \in Nat /\ Held <= Pushed
  BY ContentsAre DEF RingOK, NumbersTell
<1>3. Held <= CAPACITY - 1
  BY <1>1 DEF Held, RingOK, RingInv, RoomForPush
<1>4. Held = 0 => m_begin = m_end
  BY <1>1, SizeBegin DEF Held, RingOK
<1> QED
  BY <1>1, <1>2, <1>3, <1>4 DEF Pushed

(* Only a push that has made room and a pop that has advanced change the     *)
(* numbers, and the pop is the reader's. *)
LEMMA ReaderPops ==
  ASSUME OneReader, TypeOKSession, Calls, NEW c \in Consumers, NEW t \in Threads, Run(t)
  PROVE  /\ pc[t] \in {"pop_advance", "front_read", "empty_end", "front", "pop"} => t = c
         /\ pc[t] \in {"push", "push_drop", "push_store", "push_end"} => t # c
         /\ t # c => pc'[c] = pc[c] /\ ptr'[c] = ptr[c] /\ took'[c] = took[c]
                     /\ seen'[c] = seen[c] /\ isEmpty'[c] = isEmpty[c]
         /\ stage' = stage /\ returned' = returned
<1>0. /\ pc \in [Threads -> Labels] /\ stage \in [Consumers -> {"out", "poll", "front", "pop"}]
      /\ c \in Threads
      /\ ptr \in [Threads -> Slots \cup {NoSlot}] /\ seen \in [Threads -> Slots]
      /\ isEmpty \in [Threads -> BOOLEAN] /\ took \in [Threads -> Nat]
  BY DEF TypeOKSession, TypeOK, Threads
<1>1. /\ pc[t] \in {"pop_advance", "front_read", "empty_end", "front", "pop"} => t = c
      /\ pc[t] \in {"push", "push_drop", "push_store", "push_end"} => t # c
  BY <1>0 DEF Calls, OneReader, Threads
<1>2. t # c => pc'[c] = pc[c] /\ ptr'[c] = ptr[c] /\ took'[c] = took[c]
               /\ seen'[c] = seen[c] /\ isEmpty'[c] = isEmpty[c]
  BY <1>0 DEF Run, Step, Lock, LockFor, Unlock, PushDrop, PushStore, PushEnd,
              PopAdvance, FrontRead, EmptyEnd, Goto
<1> QED
  BY <1>1, <1>2 DEF Run

LEMMA ShownStep ==
  ASSUME OneReader, RingOK, RingOK', TypeOKSession, Calls, Shown, [NextSession]_allVars
  PROVE  Shown'
<1> SUFFICES ASSUME NEW c \in Consumers
             PROVE  (/\ pc[c] = "empty_end" => Held > 0 \/ seen[c] = m_end
                     /\ stage[c] = "poll" /\ pc[c] = "idle" /\ ~ isEmpty[c] => Held > 0
                     /\ stage[c] \in {"front", "pop"} /\ ~ HasPopped(c) => Held > 0
                     /\ HasFront(c) \/ stage[c] = "pop" => ptr[c] # NoSlot)'
  BY DEF Shown
<1> DEFINE S == /\ pc[c] = "empty_end" => Held > 0 \/ seen[c] = m_end
                /\ stage[c] = "poll" /\ pc[c] = "idle" /\ ~ isEmpty[c] => Held > 0
                /\ stage[c] \in {"front", "pop"} /\ ~ HasPopped(c) => Held > 0
                /\ HasFront(c) \/ stage[c] = "pop" => ptr[c] # NoSlot
<1>0. /\ S
      /\ pc \in [Threads -> Labels] /\ stage \in [Consumers -> {"out", "poll", "front", "pop"}]
      /\ c \in Threads
      /\ ptr \in [Threads -> Slots \cup {NoSlot}] /\ seen \in [Threads -> Slots]
      /\ isEmpty \in [Threads -> BOOLEAN] /\ m_begin \in Slots /\ m_end \in Slots
  BY DEF Shown, TypeOKSession, TypeOK, Threads
<1>01. Held \in Nat /\ Held' \in Nat /\ CAPACITY \in Nat \ {0} /\ (Held = 0 => m_begin = m_end)
  BY RingNumbers, ContentsNext DEF RingOK, NumbersTell
<1> HIDE DEF S
<1>1. ASSUME NEW t \in Threads, Run(t) PROVE S'
  <2>0. /\ pc[t] \in {"pop_advance", "front_read", "empty_end", "front", "pop"} => t = c
        /\ pc[t] \in {"push", "push_drop", "push_store", "push_end"} => t # c
        /\ t # c => pc'[c] = pc[c] /\ ptr'[c] = ptr[c] /\ took'[c] = took[c]
                     /\ seen'[c] = seen[c] /\ isEmpty'[c] = isEmpty[c]
        /\ stage' = stage
    BY <1>1, ReaderPops
  <2> USE DEF Goto
  <2>1. CASE PushDrop(t)
    <3>1. Held' >= Held
      BY <1>01, <2>1, PushNumbers DEF RingOK
    <3>2. t # c /\ m_end' = m_end
      BY <2>0, <2>1 DEF PushDrop
    <3> QED
      BY <1>0, <1>01, <2>0, <3>1, <3>2 DEF S, HasFront, HasPopped
  <2>2. CASE PopAdvance(t)
    <3>1. t = c /\ stage[c] = "pop" /\ pc'[c] = "unlock" /\ ptr' = ptr
      BY <1>0, <2>0, <2>2 DEF PopAdvance, Calls
    <3> QED
      BY <1>0, <2>0, <3>1 DEF S, HasFront, HasPopped
  <2>3. CASE ~ PushDrop(t) /\ ~ PopAdvance(t)
    <3>1. Held' = Held
      <4>1. \A u \in Threads : ~ PushDrop(u) /\ ~ PopAdvance(u)
        BY <1>0, <1>1, <2>3 DEF Run, Step, Lock, LockFor, Unlock, PushDrop, PushStore,
                                PushEnd, PopAdvance, FrontRead, EmptyEnd, Labels
      <4> QED
        BY <4>1, SessionIsRing, KeepNumbers DEF RingOK
    <3>2. CASE FrontRead(t)
      <4>1. t = c /\ stage[c] = "front" /\ pc'[c] = "unlock"
        BY <1>0, <2>0, <3>2 DEF FrontRead, Calls
      <4>2. Held > 0
        BY <1>0, <3>2, <4>1 DEF S, HasPopped
      <4>3. m_begin # m_end
        <5>1. ~ Storing /\ ~ Stored
          BY <3>2, HolderDecides DEF FrontRead, Locked, Labels, RingOK
        <5>2. Size > 0
          BY <4>2, <5>1 DEF Held
        <5> QED
          BY <5>2, SizeBegin, CapacityAssumption DEF RingOK
      <4>4. ptr'[c] = m_begin /\ m_begin # NoSlot
        BY <1>0, <1>01, <3>2, <4>1, <4>3 DEF FrontRead, NoSlot, Slots
      <4> QED
        BY <2>0, <3>1, <4>1, <4>2, <4>4 DEF S, HasFront, HasPopped
    <3>3. CASE EmptyEnd(t)
      <4>1. t = c /\ stage[c] = "poll" /\ pc'[c] = "idle" /\ pc[c] = "empty_end"
        BY <1>0, <2>0, <3>3 DEF EmptyEnd, Calls
      <4>2. isEmpty'[c] = (seen[c] = m_end) /\ m_end' = m_end
        BY <1>0, <3>3, <4>1 DEF EmptyEnd, queueVars
      <4> QED
        BY <1>0, <2>0, <3>1, <4>1, <4>2 DEF S, HasFront, HasPopped
    <3>4. CASE PushEnd(t)
      <4>1. Held > 0 \/ m_end' = m_end
        <5>1. Stored
          BY <3>4 DEF PushEnd, Stored
        <5>2. CASE CAPACITY = 1
          BY <1>0, <3>4, <5>2 DEF PushEnd, next, Slots
        <5>3. CASE CAPACITY # 1
          <6>1. Size \in Nat /\ Held = Size + 1
            BY <1>01, <5>1, <5>3, SizeBegin DEF Held, RingOK
          <6> QED
            BY <6>1
        <5> QED
          BY <5>2, <5>3
      <4>2. t # c
        BY <2>0, <3>4 DEF PushEnd
      <4> QED
        BY <1>0, <2>0, <3>1, <4>1, <4>2 DEF S, HasFront, HasPopped
    <3>5. CASE Lock(t) \/ Unlock(t) \/ PushStore(t)
      <4>1. m_end' = m_end /\ ptr' = ptr /\ seen' = seen /\ isEmpty' = isEmpty
        BY <3>5 DEF Lock, LockFor, Unlock, PushStore, queueVars
      <4>2. \/ pc'[c] = pc[c]
            \/ pc[c] = "front" /\ pc'[c] = "front_read"
            \/ pc[c] = "pop" /\ pc'[c] = "pop_advance"
            \/ pc[c] = "unlock" /\ pc'[c] = "idle"
        BY <1>0, <2>0, <3>5 DEF Lock, LockFor, Unlock, PushStore
      <4>3. stage[c] = "poll" => pc[c] # "unlock"
        BY DEF Calls
      <4>4. stage[c] \in {"front", "pop"} => pc[c] \notin {"empty_end", "push"}
        BY DEF Calls
      <4> QED
        BY <1>0, <2>0, <3>1, <4>1, <4>2, <4>3, <4>4 DEF S, HasFront, HasPopped
    <3> QED
      BY <1>1, <2>3, <3>2, <3>3, <3>4, <3>5 DEF Run, Step
  <2> QED
    BY <2>1, <2>2, <2>3
<1>2. ASSUME NextSession, ~ \E t \in Threads : Run(t) PROVE Held' = Held /\ m_end' = m_end
  <2>1. \A u \in Threads : ~ PushDrop(u) /\ ~ PopAdvance(u)
    BY <1>0, <1>2 DEF NextSession, Consume, Receive, Poll, PollAgain, TakeFront, PopIt, Return,
          CallPush, EmptyBegin, CallFront, CallPop, PushDrop, PopAdvance, Goto, vars, Labels
  <2>2. m_end' = m_end
    BY <1>2 DEF NextSession, Consume, Receive, Poll, PollAgain, TakeFront, PopIt, Return,
          CallPush, EmptyBegin, CallFront, CallPop, queueVars, vars
  <2> QED
    BY <2>1, <2>2, SessionIsRing, KeepNumbers DEF RingOK
<1>3. ASSUME NEW p \in Producers, Receive(p), ~ \E t \in Threads : Run(t) PROVE S'
  <2>1. p # c /\ pc'[c] = pc[c] /\ UNCHANGED <<stage, ptr, seen, isEmpty>>
    BY <1>0, <1>3 DEF Receive, CallPush, Goto, sessionVars, OneReader
  <2>2. Held' = Held /\ m_end' = m_end
    BY <1>2, <1>3 DEF NextSession
  <2> QED
    BY <1>0, <2>1, <2>2 DEF S, HasFront, HasPopped
<1>4. ASSUME NEW d \in Consumers, Consume(d), ~ \E t \in Threads : Run(t) PROVE S'
  <2>1. c = d /\ Held' = Held /\ m_end' = m_end
    BY <1>2, <1>4 DEF NextSession, OneReader
  <2>2. CASE Poll(c) \/ PollAgain(c)
    <3>1. pc'[c] = "empty_end" /\ stage'[c] = "poll" /\ seen'[c] = m_begin
      BY <1>0, <2>2 DEF Poll, PollAgain, EmptyBegin, Move, Goto
    <3> QED
      BY <1>01, <2>1, <3>1 DEF S, HasFront, HasPopped
  <2>3. CASE TakeFront(c)
    <3>1. stage[c] = "poll" /\ pc[c] = "idle" /\ ~ isEmpty[c]
          /\ pc'[c] = "front" /\ stage'[c] = "front"
      BY <1>0, <2>3 DEF TakeFront, CallFront, Move, Goto
    <3> QED
      BY <1>0, <2>1, <3>1 DEF S, HasFront, HasPopped
  <2>4. CASE PopIt(c)
    <3>1. stage[c] = "front" /\ pc[c] = "idle" /\ pc'[c] = "pop" /\ stage'[c] = "pop" /\ ptr' = ptr
      BY <1>0, <2>4 DEF PopIt, CallPop, Move, Goto
    <3> QED
      BY <1>0, <2>1, <3>1 DEF S, HasFront, HasPopped
  <2>5. CASE Return(c)
    <3>1. stage'[c] = "out" /\ pc'[c] = "idle"
      BY <1>0, <2>5 DEF Return, vars
    <3> QED
      BY <3>1 DEF S, HasFront, HasPopped
  <2> QED
    BY <1>4, <2>1, <2>2, <2>3, <2>4, <2>5 DEF Consume
<1>5. CASE UNCHANGED allVars
  <2>1. UNCHANGED <<stage, pc, ptr, seen, isEmpty, m_end>> /\ Held' = Held
    BY <1>5 DEF allVars, sessionVars, vars, Held, Storing, Stored, Size
  <2> QED
    BY <1>0, <2>1 DEF S, HasFront, HasPopped
<1> QED
  BY <1>1, <1>3, <1>4, <1>5 DEF NextSession, S

-----------------------------------------------------------------------------
(* Laps *)
LEMMA WholeLaps ==
  ASSUME NEW k \in Nat, NEW n \in Nat \ {0}
  PROVE  (k * n) % n = 0
  OBVIOUS

LEMMA LapsStep ==
  ASSUME RingOK, Laps, [Next]_vars
  PROVE  Laps'
<1> SUFFICES ASSUME NEW u \in Threads, ptr'[u] # NoSlot
             PROVE  \E k \in Nat : ele'[ptr'[u]] = took'[u] + k * CAPACITY
  BY DEF Laps
<1>0. /\ CAPACITY \in Nat \ {0} /\ pushes \in Nat /\ m_begin \in Slots /\ m_end \in Slots
      /\ ele \in [Slots -> Nat] /\ took \in [Threads -> Nat]
      /\ ptr \in [Threads -> Slots \cup {NoSlot}]
  BY CapacityAssumption DEF RingOK, TypeOK
<1>1. ASSUME UNCHANGED <<ele, ptr, took>>
      PROVE  \E k \in Nat : ele'[ptr'[u]] = took'[u] + k * CAPACITY
  BY <1>1 DEF Laps
<1>2. ASSUME NEW t \in Threads, FrontRead(t)
      PROVE  \E k \in Nat : ele'[ptr'[u]] = took'[u] + k * CAPACITY
  <2>1. CASE u = t
    <3>1. ptr'[u] = m_begin /\ took'[u] = ele[m_begin] /\ ele' = ele
      BY <1>0, <1>2, <2>1 DEF FrontRead, queueVars
    <3>2. ele'[ptr'[u]] = took'[u] + 0 * CAPACITY
      BY <1>0, <3>1
    <3> QED
      BY <3>2
  <2>2. CASE u # t
    <3>1. ptr'[u] = ptr[u] /\ took'[u] = took[u] /\ ele' = ele
      BY <1>0, <1>2, <2>2 DEF FrontRead, queueVars
    <3> QED
      BY <3>1 DEF Laps
  <2> QED
    BY <2>1, <2>2
<1>3. ASSUME NEW t \in Threads, PushStore(t)
      PROVE  \E k \in Nat : ele'[ptr'[u]] = took'[u] + k * CAPACITY
  <2>1. ele' = [ele EXCEPT ![m_end] = pushes + 1] /\ ptr' = ptr /\ took' = took
    BY <1>3 DEF PushStore
  <2>2. PICK k \in Nat : ele[ptr[u]] = took[u] + k * CAPACITY
    BY <2>1 DEF Laps
  <2>3. CASE ptr[u] = m_end
    <3>1. ~ Stored
      BY <1>3, HolderDecides DEF PushStore, Goto, Locked, Labels, RingOK
    <3>2. ele[m_end] = IF CAPACITY <= pushes THEN pushes + 1 - CAPACITY ELSE 0
      BY <1>0, <3>1, BackNext DEF RingOK, RingInv, LapElements, WriteEnd
    <3>3. took[u] \in Nat /\ took[u] > 0 /\ k * CAPACITY \in Nat
      BY <1>0, <2>1 DEF RingOK, RingInv, TookElement
    <3>4. pushes + 1 = ele[m_end] + CAPACITY
      BY <1>0, <2>2, <2>3, <3>2, <3>3
    <3>5. (k + 1) * CAPACITY = k * CAPACITY + CAPACITY
      BY <1>0
    <3>6. ele'[ptr'[u]] = took'[u] + (k + 1) * CAPACITY
      BY <1>0, <2>1, <2>2, <2>3, <3>3, <3>4, <3>5
    <3> QED
      BY <3>6
  <2>4. CASE ptr[u] # m_end
    BY <1>0, <2>1, <2>2, <2>4
  <2> QED
    BY <2>3, <2>4
<1>4. ASSUME NEW t \in Threads, Step(t), ~ PushStore(t), ~ FrontRead(t)
      PROVE  UNCHANGED <<ele, ptr, took>>
  BY <1>4 DEF Step, Lock, LockFor, Unlock, PushDrop, PushEnd, PopAdvance, EmptyEnd, queueVars
<1>5. ASSUME NEW t \in Threads, CallPush(t) \/ CallPop(t) \/ CallFront(t) \/ EmptyBegin(t)
      PROVE  UNCHANGED <<ele, ptr, took>>
  BY <1>5 DEF CallPush, CallPop, CallFront, EmptyBegin, queueVars
<1>6. CASE UNCHANGED vars
  BY <1>1, <1>6 DEF vars
<1> QED
  BY <1>1, <1>2, <1>3, <1>4, <1>5, <1>6 DEF Next, Threads

-----------------------------------------------------------------------------
(* The order of what is returned. *)
LEMMA InOrderStep ==
  ASSUME OneReader, RingOK, RingOK', TypeOKSession, Calls, Shown, InOrder,
         [NextSession]_allVars
  PROVE  InOrder'
<1> SUFFICES ASSUME ~ overflowed', NEW c \in Consumers
             PROVE  (/\ \A i \in DOMAIN returned[c] : returned[c][i] = i
                     /\ Pushed - Held = IF HasPopped(c) THEN Len(returned[c]) + 1
                                                        ELSE Len(returned[c])
                     /\ HasFront(c) \/ stage[c] = "pop" => took[c] = Len(returned[c]) + 1)'
  BY DEF InOrder
<1> DEFINE S == /\ \A i \in DOMAIN returned[c] : returned[c][i] = i
                /\ Pushed - Held = IF HasPopped(c) THEN Len(returned[c]) + 1
                                                   ELSE Len(returned[c])
                /\ HasFront(c) \/ stage[c] = "pop" => took[c] = Len(returned[c]) + 1
<1>0. /\ S
      /\ pc \in [Threads -> Labels] /\ stage \in [Consumers -> {"out", "poll", "front", "pop"}]
      /\ c \in Threads
      /\ ptr \in [Threads -> Slots \cup {NoSlot}] /\ took \in [Threads -> Nat]
      /\ returned \in [Consumers -> Seq(Nat)] /\ ele \in [Slots -> Nat]
      /\ m_begin \in Slots /\ m_end \in Slots
  <2>1. ~ overflowed
    BY DEF NextSession, Run, Receive, Consume, Poll, PollAgain, TakeFront, PopIt, Return, Move,
           allVars, sessionVars
  <2> QED
    BY <2>1 DEF InOrder, TypeOKSession, TypeOK, Threads
<1>01. Held \in Nat /\ Held' \in Nat /\ CAPACITY \in Nat \ {0} /\ Held <= CAPACITY - 1
       /\ Pushed \in Nat /\ Pushed' \in Nat /\ Held <= Pushed /\ pushes <= Pushed /\ pushes \in Nat
       /\ Len(returned[c]) \in Nat
  BY <1>0, RingNumbers, ContentsNext DEF RingOK, NumbersTell
<1> HIDE DEF S
<1>1. ASSUME NEW t \in Threads, Run(t) PROVE S'
  <2>0. /\ pc[t] \in {"pop_advance", "front_read", "empty_end", "front", "pop"} => t = c
        /\ pc[t] \in {"push", "push_drop", "push_store", "push_end"} => t # c
        /\ t # c => pc'[c] = pc[c] /\ ptr'[c] = ptr[c] /\ took'[c] = took[c]
                     /\ seen'[c] = seen[c] /\ isEmpty'[c] = isEmpty[c]
        /\ stage' = stage
        /\ returned' = returned
    BY <1>1, ReaderPops
  <2> USE DEF Goto
  <2>1. CASE PushDrop(t)
    <3>1. ~ Full
      BY <1>1, <2>1 DEF Run, PushDrop
    <3>2. Held' = Held + 1 /\ Pushed' = Pushed + 1
      BY <1>01, <2>1, <3>1, PushNumbers DEF RingOK
    <3>3. t # c
      BY <2>0, <2>1 DEF PushDrop
    <3> QED
      BY <1>0, <1>01, <2>0, <3>2, <3>3 DEF S, HasFront, HasPopped
  <2>2. CASE PopAdvance(t)
    <3>1. t = c /\ stage[c] = "pop" /\ pc[c] = "pop_advance" /\ pc'[c] = "unlock" /\ took' = took
      BY <1>0, <2>0, <2>2 DEF PopAdvance, Calls
    <3>2. Held > 0
      BY <3>1 DEF Shown, HasPopped
    <3>3. Held' = Held - 1 /\ Pushed' = Pushed
      BY <1>01, <2>2, <3>2, PopNumbers DEF RingOK
    <3> QED
      BY <1>0, <1>01, <2>0, <3>1, <3>3 DEF S, HasFront, HasPopped
  <2>3. CASE ~ PushDrop(t) /\ ~ PopAdvance(t)
    <3>1. Held' = Held /\ Pushed' = Pushed
      <4>1. \A u \in Threads : ~ PushDrop(u) /\ ~ PopAdvance(u)
        BY <1>0, <1>1, <2>3 DEF Run, Step, Lock, LockFor, Unlock, PushDrop, PushStore,
                                PushEnd, PopAdvance, FrontRead, EmptyEnd, Labels
      <4> QED
        BY <4>1, SessionIsRing, KeepNumbers DEF RingOK
    <3>2. CASE FrontRead(t)
      <4>1. t = c /\ stage[c] = "front" /\ pc'[c] = "unlock" /\ pc[c] = "front_read"
        BY <1>0, <2>0, <3>2 DEF FrontRead, Calls
      <4>2. Held > 0
        BY <1>0, <3>2, <4>1 DEF Shown, HasPopped
      <4>3. ~ Storing /\ ~ Stored
        BY <3>2, HolderDecides DEF FrontRead, Locked, Labels, RingOK
      <4>4. m_begin # m_end
        <5>1. Size > 0
          BY <4>2, <4>3 DEF Held
        <5> QED
          BY <5>1, SizeBegin, CapacityAssumption DEF RingOK
      <4>5. ele[m_begin] = Pushed - Held + 1
        <5>1. Contents = [k \in 1 .. Held |-> Pushed - Held + k]
          BY ContentsAre DEF RingOK, NumbersTell, Last
        <5>2. Contents[1] = Pushed - Held + 1
          BY <1>01, <4>2, <5>1
        <5>3. Nth(m_begin, 1 - 1) = m_begin
          BY <1>0, <1>01 DEF Nth, Slots
        <5>4. Contents[1] = ele[m_begin]
          BY <1>01, <4>2, <4>3, <5>3 DEF Contents
        <5> QED
          BY <5>2, <5>4
      <4>6. took'[c] = ele[m_begin]
        BY <1>0, <3>2, <4>1, <4>4 DEF FrontRead
      <4> QED
        BY <1>0, <1>01, <2>0, <3>1, <4>1, <4>5, <4>6 DEF S, HasFront, HasPopped
    <3>3. CASE ~ FrontRead(t)
      <4>1. took' = took
        BY <1>1, <2>3, <3>3 DEF Run, Step, Lock, LockFor, Unlock, PushStore, PushEnd, EmptyEnd
      <4>2. \/ pc'[c] = pc[c]
            \/ pc[c] = "front" /\ pc'[c] = "front_read"
            \/ pc[c] = "pop" /\ pc'[c] = "pop_advance"
            \/ pc[c] = "empty_end" /\ pc'[c] = "idle"
            \/ pc[c] = "unlock" /\ pc'[c] = "idle"
        BY <1>0, <1>1, <2>0, <2>3, <3>3
           DEF Run, Step, Lock, LockFor, Unlock, PushStore, PushEnd, EmptyEnd
      <4>3. stage[c] \in {"front", "pop"} => pc[c] # "empty_end"
        BY DEF Calls
      <4> QED
        BY <1>0, <2>0, <3>1, <4>1, <4>2, <4>3 DEF S, HasFront, HasPopped
    <3> QED
      BY <3>2, <3>3
  <2> QED
    BY <2>1, <2>2, <2>3
<1>2. ASSUME NextSession, ~ \E t \in Threads : Run(t)
      PROVE  Held' = Held /\ Pushed' = Pushed /\ took' = took
  <2>1. \A u \in Threads : ~ PushDrop(u) /\ ~ PopAdvance(u)
    BY <1>0, <1>2 DEF NextSession, Consume, Receive, Poll, PollAgain, TakeFront, PopIt, Return,
          CallPush, EmptyBegin, CallFront, CallPop, PushDrop, PopAdvance, Goto, vars, Labels
  <2>2. took' = took
    BY <1>2 DEF NextSession, Consume, Receive, Poll, PollAgain, TakeFront, PopIt, Return,
          CallPush, EmptyBegin, CallFront, CallPop, vars
  <2> QED
    BY <2>1, <2>2, SessionIsRing, KeepNumbers DEF RingOK
<1>3. ASSUME NEW p \in Producers, Receive(p), ~ \E t \in Threads : Run(t) PROVE S'
  <2>1. p # c /\ pc'[c] = pc[c] /\ UNCHANGED <<stage, returned>>
    BY <1>0, <1>3 DEF Receive, CallPush, Goto, sessionVars, OneReader
  <2>2. Held' = Held /\ Pushed' = Pushed /\ took' = took
    BY <1>2, <1>3 DEF NextSession
  <2> QED
    BY <1>0, <2>1, <2>2 DEF S, HasFront, HasPopped
<1>4. ASSUME NEW d \in Consumers, Consume(d), ~ \E t \in Threads : Run(t) PROVE S'
  <2>1. c = d /\ Held' = Held /\ Pushed' = Pushed /\ took' = took
    BY <1>2, <1>4 DEF NextSession, OneReader
  <2>2. CASE Poll(c) \/ PollAgain(c)
    <3>1. pc'[c] = "empty_end" /\ stage'[c] = "poll" /\ stage[c] \in {"out", "poll"}
          /\ returned' = returned
      BY <1>0, <2>2 DEF Poll, PollAgain, EmptyBegin, Move, Goto
    <3> QED
      BY <1>0, <2>1, <3>1 DEF S, HasFront, HasPopped
  <2>3. CASE TakeFront(c)
    <3>1. stage[c] = "poll" /\ pc'[c] = "front" /\ stage'[c] = "front" /\ returned' = returned
      BY <1>0, <2>3 DEF TakeFront, CallFront, Move, Goto
    <3> QED
      BY <1>0, <2>1, <3>1 DEF S, HasFront, HasPopped
  <2>4. CASE PopIt(c)
    <3>1. stage[c] = "front" /\ pc[c] = "idle" /\ pc'[c] = "pop" /\ stage'[c] = "pop"
          /\ returned' = returned
      BY <1>0, <2>4 DEF PopIt, CallPop, Move, Goto
    <3> QED
      BY <1>0, <2>1, <3>1 DEF S, HasFront, HasPopped
  <2>5. CASE Return(c)
    <3>1. /\ stage'[c] = "out" /\ pc' = pc
          /\ stage[c] = "pop" /\ pc[c] = "idle" /\ ptr[c] # NoSlot
      BY <1>0, <2>5 DEF Return, vars
    <3>11. PICK e \in CopyOf(ptr[c]) : returned'[c] = Append(returned[c], e)
      BY <1>0, <2>5 DEF Return
    <3>2. took[c] = Len(returned[c]) + 1 /\ Pushed - Held = Len(returned[c]) + 1
      BY <1>0, <3>1 DEF S, HasPopped
    <3>3. took[c] \in Nat /\ pushes < took[c] + CAPACITY
      BY <1>0, <1>01, <3>2
    <3>4. ele[ptr[c]] = took[c]
      BY <1>0, <1>01, <3>1, <3>3 DEF RingOK, RingInv, FrontPointerStable
    <3>41. ~ BeingWritten(ptr[c])
      <4>1. SUFFICES ASSUME ptr[c] = m_end, Storing PROVE FALSE
        BY DEF BeingWritten
      <4>2. ~ Stored
        <5>1. PICK t \in Threads : pc[t] = "push_store"
          BY <4>1 DEF Storing
        <5> QED
          BY <5>1 DEF Stored, MutualExclusion, Locked, RingOK
      <4>3. ele[m_end] = IF CAPACITY <= pushes THEN pushes + 1 - CAPACITY ELSE 0
        BY <1>0, <1>01, <4>2, BackNext DEF RingOK, RingInv, LapElements, WriteEnd
      <4>4. Held = pushes - Len(returned[c])
        BY <1>0, <1>01, <3>2, <4>1 DEF Pushed
      <4> DEFINE l == Len(returned[c])
                 h == Held
      <4>5. l + 1 = IF CAPACITY <= pushes THEN pushes + 1 - CAPACITY ELSE 0
        BY ONLY <3>2, <3>4, <4>1, <4>3
      <4>6. /\ l \in Nat /\ pushes \in Nat /\ CAPACITY \in Nat
            /\ h = pushes - l /\ h <= CAPACITY - 1
        BY ONLY <1>01, <4>4
      <4> HIDE DEF l, h
      <4> QED
        BY ONLY <4>5, <4>6
    <3>42. e = took[c]
      BY <3>11, <3>4, <3>41 DEF CopyOf
    <3>5. /\ Len(returned'[c]) = Len(returned[c]) + 1
          /\ \A i \in DOMAIN returned'[c] : returned'[c][i] = i
      BY <1>0, <3>11, <3>2, <3>42 DEF S
    <3> QED
      BY <1>0, <2>1, <3>1, <3>2, <3>5 DEF S, HasFront, HasPopped
  <2> QED
    BY <1>4, <2>1, <2>2, <2>3, <2>4, <2>5 DEF Consume
<1>5. CASE UNCHANGED allVars
  <2>1. UNCHANGED <<stage, returned, pc, took>> /\ Held' = Held /\ Pushed' = Pushed
    BY <1>5 DEF allVars, sessionVars, vars, Held, Pushed, Storing, Stored, Size
  <2> QED
    BY <1>0, <2>1 DEF S, HasFront, HasPopped
<1> QED
  BY <1>1, <1>3, <1>4, <1>5 DEF NextSession, S

(* All of it together is inductive over the session's steps. *)
LEMMA SessionStart == InitSession => SessionInv /\ Laps
<1> SUFFICES ASSUME InitSession PROVE SessionInv /\ Laps
  OBVIOUS
<1>1. TypeOKSession
  <2>1. 0 \in Slots
    BY CapacityAssumption DEF Slots
  <2>2. TypeOK
    BY <2>1 DEF InitSession, Init, TypeOK, Labels
  <2>3. << >> \in Seq(Nat)
    OBVIOUS
  <2> QED
    BY <2>2, <2>3 DEF InitSession, TypeOKSession
<1>2. Calls /\ Shown /\ Laps
  BY DEF InitSession, Init, Calls, Shown, Laps, HasFront, HasPopped, Threads
<1>3. Pushed = 0 /\ Held = 0
  <2>1. Size = 0 /\ ~ Storing /\ ~ Stored
    BY DEF InitSession, Init, Size, Storing, Stored
  <2> QED
    BY <2>1 DEF InitSession, Init, Pushed, Held
<1>4. InOrder
  BY <1>3 DEF InitSession, InOrder, HasFront, HasPopped
<1> QED
  BY <1>1, <1>2, <1>4 DEF SessionInv

LEMMA SessionCorrect ==
  OneReader /\ InitSession /\ [][NextSession]_allVars => [](SessionInv /\ Laps)
<1>1. OneReader => OneReader'
  BY DEF OneReader
<1>2. /\ OneReader /\ RingOK /\ RingOK' /\ SessionInv /\ Laps /\ [NextSession]_allVars
      => (SessionInv /\ Laps)'
  <2> SUFFICES ASSUME OneReader, RingOK, RingOK', SessionInv, Laps, [NextSession]_allVars
               PROVE  (SessionInv /\ Laps)'
    OBVIOUS
  <2>1. TypeOKSession'
    BY SessionTypeStep DEF SessionInv, RingOK
  <2>2. Calls'
    BY CallsStep DEF SessionInv
  <2>3. Shown'
    BY ShownStep DEF SessionInv
  <2>4. InOrder'
    BY InOrderStep DEF SessionInv
  <2>5. Laps'
    BY LapsStep, SessionIsRing
  <2> QED
    BY <2>1, <2>2, <2>3, <2>4, <2>5 DEF SessionInv
<1> QED
  BY <1>1, <1>2, SessionStart, RingUnderSession, PTL

LEMMA LapsAreLate == RingOK /\ SessionInv /\ Laps => LateReadByLaps /\ NeverNull
<1> SUFFICES ASSUME RingOK, SessionInv, Laps PROVE LateReadByLaps /\ NeverNull
  OBVIOUS
<1>1. NeverNull
  BY DEF SessionInv, Shown, HasFront, NeverNull
<1>2. ASSUME NEW c \in Consumers, stage[c] = "pop"
      PROVE  ele[ptr[c]] >= took[c] /\ (ele[ptr[c]] - took[c]) % CAPACITY = 0
  <2>1. ptr[c] # NoSlot /\ took[c] \in Nat
    BY <1>2 DEF SessionInv, Shown, RingOK, TypeOK, Threads
  <2>2. PICK k \in Nat : ele[ptr[c]] = took[c] + k * CAPACITY
    BY <2>1 DEF Laps, Threads
  <2>3. k * CAPACITY \in Nat /\ (k * CAPACITY) % CAPACITY = 0
    BY WholeLaps, CapacityAssumption
  <2>4. ele[ptr[c]] - took[c] = k * CAPACITY
    BY <2>1, <2>2, <2>3
  <2> QED
    BY <2>1, <2>2, <2>3, <2>4
<1> QED
  BY <1>1, <1>2 DEF LateReadByLaps

-----------------------------------------------------------------------------
(* The handlers.  Their own state keeps its type, and one of them runs at a  *)
(* time. *)
HandlerTypes ==
  /\ at \in [Producers -> {"off", "armed", "filled", "loop", "pushing", "ended",
                           "raw", "raw_filled", "raw_nothing", "raw_pushing"}]
  /\ bytes \in [Producers -> 0 .. MAX]
  /\ {head_parse, recv_pending} \subseteq BOOLEAN
  /\ front \in 0 .. MaxSent
  /\ got \in 0 .. ends[MaxSent]
  /\ \A p \in Producers : at[p] \in {"filled", "loop"} => bytes[p] > 0
  /\ \A p, q \in Producers : at[p] \in Running /\ at[q] \in Running => p = q

LEMMA HandlerTypesStart == InitRead => HandlerTypes /\ NumbersRead
<1> SUFFICES ASSUME InitRead PROVE HandlerTypes /\ NumbersRead
  OBVIOUS
<1> USE SizesAssumption
<1>1. NumbersRead
  BY DEF InitRead, NumbersRead
<1>2. ends[MaxSent] \in Nat
  BY <1>1 DEF NumbersRead
<1>3. /\ at = [p \in Producers |-> "off"] /\ bytes = [p \in Producers |-> 0]
      /\ front = 0 /\ got = 0 /\ head_parse = FALSE /\ recv_pending = FALSE
  BY DEF InitRead
<1>4. {head_parse, recv_pending} \subseteq BOOLEAN
  BY <1>3
<1>41. front \in 0 .. MaxSent /\ got \in 0 .. ends[MaxSent]
  BY <1>2, <1>3
<1>5. /\ at \in [Producers -> {"off", "armed", "filled", "loop", "pushing", "ended",
                               "raw", "raw_filled", "raw_nothing", "raw_pushing"}]
      /\ bytes \in [Producers -> 0 .. MAX]
      /\ \A p \in Producers : at[p] \notin Running \cup {"filled", "loop"}
  BY <1>3 DEF Running
<1>6. HandlerTypes
  BY <1>4, <1>41, <1>5 DEF HandlerTypes
<1> QED
  BY <1>1, <1>6

(* What an acceptable header says. *)
LEMMA AcceptableSize ==
  ASSUME HandlerTypes, NumbersRead, Acceptable(front)
  PROVE  SizeOf(front) \in HEAD + 1 .. MAX
<1>1. front \in 1 .. MaxSent
  BY DEF HandlerTypes, Acceptable
<1>2. SizeOf(front) \in Sizes
  BY <1>1 DEF NumbersRead
<1>3. SizeOf(front) \in HEAD + 1 .. MAX + 1 /\ SizeOf(front) <= MAX
  BY <1>2, SizesAssumption DEF Acceptable
<1> QED
  BY <1>3, SizesAssumption

LEMMA HeaderPlace == \A place : HeaderAt(place) \in 0 .. MaxSent
<1> SUFFICES ASSUME NEW place PROVE HeaderAt(place) \in 0 .. MaxSent
  OBVIOUS
<1>1. CASE \E k \in 1 .. MaxSent : ends[k - 1] = place
  <2>1. HeaderAt(place) \in 1 .. MaxSent
    BY <1>1 DEF HeaderAt
  <2> QED
    BY <2>1, SizesAssumption
<1>2. CASE ~ \E k \in 1 .. MaxSent : ends[k - 1] = place
  BY <1>2, SizesAssumption DEF HeaderAt
<1> QED
  BY <1>1, <1>2

LEMMA HandlerTypesStep ==
  ASSUME HandlerTypes, NumbersRead, [NextRead]_readAllVars
  PROVE  HandlerTypes' /\ NumbersRead'
<1> DEFINE Goal == HandlerTypes' /\ NumbersRead'
<1> USE SizesAssumption
<1>0. /\ HEAD \in Nat /\ MAX \in Nat /\ MaxSent \in Nat /\ ends[MaxSent] \in Nat
      /\ cur \in Nat /\ total \in Nat /\ fulls \in Nat /\ delivered \in Nat
  BY DEF NumbersRead
<1>1. ASSUME UNCHANGED readVars PROVE Goal
  BY <1>1 DEF readVars, nodeVars, peerVars, HandlerTypes, NumbersRead, SizeOf
<1>2. ASSUME NEW p \in Producers, Fill(p) PROVE Goal
  <2>1. got' \in 0 .. ends[MaxSent] /\ fulls' \in Nat
    BY <1>0, <1>2 DEF Fill, HandlerTypes
  <2>2. front' \in 0 .. MaxSent
    BY <1>2, HeaderPlace DEF Fill
  <2>3. PICK n \in 1 .. MAX : bytes' = [bytes EXCEPT ![p] = n]
    BY <1>2 DEF Fill
  <2>4. UNCHANGED <<head_parse, cur, total, recv_pending, ends, delivered>>
    BY <1>2 DEF Fill, nodeVars
  <2>5. /\ at[p] \notin Running /\ at'[p] \notin Running /\ at'[p] \in {"filled", "raw_filled"}
        /\ at' \in [Producers -> {"off", "armed", "filled", "loop", "pushing", "ended",
                           "raw", "raw_filled", "raw_nothing", "raw_pushing"}]
        /\ \A q \in Producers : q # p => at'[q] = at[q]
    BY <1>2 DEF Fill, HandlerTypes, Running
  <2>6. bytes' \in [Producers -> 0 .. MAX] /\ bytes'[p] > 0
        /\ \A q \in Producers : q # p => bytes'[q] = bytes[q]
    BY <1>0, <2>3 DEF HandlerTypes
  <2> QED
    BY <2>1, <2>2, <2>4, <2>5, <2>6 DEF HandlerTypes, NumbersRead, SizeOf
<1>3. ASSUME NEW p \in Producers, NEW to \in {"off", "armed", "ended", "raw", "raw_nothing"},
             at' = [at EXCEPT ![p] = to],
             bytes' = bytes \/ bytes' = [bytes EXCEPT ![p] = 0],
             head_parse' \in BOOLEAN, recv_pending' \in BOOLEAN,
             cur' \in Nat, total' \in Nat,
             UNCHANGED <<front, peerVars, fulls, delivered>>
      PROVE  Goal
  <2>1. bytes' \in [Producers -> 0 .. MAX]
        /\ \A q \in Producers : q # p => bytes'[q] = bytes[q] /\ at'[q] = at[q]
    BY <1>0, <1>3 DEF HandlerTypes
  <2>2. at'[p] = to /\ to \notin Running \cup {"filled", "loop"}
    BY <1>3 DEF Running, HandlerTypes
  <2> QED
    BY <1>3, <2>1, <2>2 DEF HandlerTypes, NumbersRead, peerVars, SizeOf
<1>4. ASSUME NEW p \in Producers,
             \/ ReadPackage(p) \/ ReadFromSocket(p) \/ ReadAllFromSocket(p) \/ Fail(p)
             \/ RejectHeader(p) \/ RawAgain(p) \/ AppendHead(p) \/ HeadPart(p) \/ RestPart(p)
      PROVE  Goal
  <2>0. head_parse \in BOOLEAN /\ recv_pending \in BOOLEAN /\ bytes[p] \in Nat
    BY DEF HandlerTypes
  <2>1. CASE ReadPackage(p) \/ ReadFromSocket(p) \/ ReadAllFromSocket(p) \/ Fail(p)
             \/ RejectHeader(p) \/ RawAgain(p)
    BY <1>0, <1>3, <2>0, <2>1
       DEF ReadPackage, ReadFromSocket, ReadAllFromSocket, Fail, RejectHeader, RawAgain, nodeVars
  <2>2. CASE AppendHead(p) \/ RestPart(p)
    BY <1>0, <1>3, <2>0, <2>2 DEF AppendHead, RestPart, Arm
  <2>3. CASE HeadPart(p)
    <3>1. SizeOf(front) \in Nat
      BY <2>3, AcceptableSize DEF HeadPart
    <3>2. cur' \in Nat
      BY <1>0, <2>3 DEF HeadPart
    <3> QED
      BY <1>3, <2>0, <2>3, <3>1, <3>2 DEF HeadPart, Arm
  <2> QED
    BY <1>4, <2>1, <2>2, <2>3
<1>5. ASSUME NEW p \in Producers, Handle(p) \/ ReadCallback(p) PROVE Goal
  <2>1. PICK to \in {"loop", "raw_pushing"} :
           /\ at' = [at EXCEPT ![p] = to]
           /\ to = "loop" => at[p] = "filled"
    BY <1>5 DEF Handle, ReadCallback
  <2>2. HandlerFree /\ UNCHANGED <<bytes, front, nodeVars, recv_pending, peerVars, fulls, delivered>>
    BY <1>5 DEF Handle, ReadCallback
  <2> QED
    BY <2>1, <2>2 DEF HandlerTypes, NumbersRead, HandlerFree, peerVars, nodeVars, SizeOf
<1>6. ASSUME NEW p \in Producers, NEW to \in {"pushing", "loop", "armed"},
             at[p] \in {"loop", "pushing"},
             NEW left \in 0 .. MAX, to = "loop" => left > 0,
             at' = [at EXCEPT ![p] = to], bytes' = [bytes EXCEPT ![p] = left],
             head_parse' \in BOOLEAN, cur' \in Nat, total' \in Nat, delivered' \in Nat,
             UNCHANGED <<front, recv_pending, peerVars, fulls>>
      PROVE  Goal
  <2>1. at[p] \in Running
    BY <1>6 DEF Running
  <2>2. \A q \in Producers : q # p => bytes'[q] = bytes[q] /\ at'[q] = at[q]
    BY <1>6 DEF HandlerTypes
  <2>3. at'[p] = to /\ bytes'[p] = left /\ bytes' \in [Producers -> 0 .. MAX]
    BY <1>6 DEF HandlerTypes
  <2> QED
    BY <1>6, <2>1, <2>2, <2>3 DEF HandlerTypes, NumbersRead, peerVars, SizeOf
<1>7. ASSUME NEW p \in Producers, HeadWhole(p) PROVE Goal
  <2>1. SizeOf(front) \in HEAD + 1 .. MAX
    BY <1>7, AcceptableSize DEF HeadWhole
  <2>2. MAX - HEAD - (SizeOf(front) - HEAD - 1) \in 0 .. MAX /\ cur' \in Nat /\ total' \in Nat
    BY <1>0, <1>7, <2>1 DEF HeadWhole
  <2> QED
    BY <1>0, <1>6, <1>7, <2>2 DEF HeadWhole, Deliver, FullBuffer, InLoop, HandlerTypes
<1>8. ASSUME NEW p \in Producers, RestWhole(p) PROVE Goal
  <2>1. bytes[p] - (total - cur) \in 0 .. MAX /\ cur' \in Nat /\ total' \in Nat
    BY <1>0, <1>8 DEF RestWhole, HandlerTypes
  <2> QED
    BY <1>0, <1>6, <1>8, <2>1 DEF RestWhole, Deliver, InLoop, HandlerTypes
<1>9. ASSUME NEW p \in Producers, AfterPush(p) PROVE Goal
  <2>1. bytes[p] \in 0 .. MAX /\ bytes' = [bytes EXCEPT ![p] = bytes[p]]
    BY <1>9 DEF AfterPush, HandlerTypes
  <2>0. /\ at[p] = "pushing" /\ head_parse' \in BOOLEAN /\ cur' \in Nat /\ total' \in Nat
        /\ delivered' \in Nat /\ UNCHANGED <<front, recv_pending, peerVars, fulls>>
    <3>1. delivered' = delivered + 1 /\ head_parse' = FALSE /\ cur' = 0 /\ total' = 0
      BY <1>9 DEF AfterPush
    <3>2. at[p] = "pushing" /\ UNCHANGED <<front, recv_pending, peerVars, fulls>>
      BY <1>9 DEF AfterPush
    <3>3. head_parse' \in BOOLEAN
      BY <3>1
    <3>4. cur' \in Nat /\ total' \in Nat /\ delivered' \in Nat
      BY <1>0, <3>1
    <3> QED
      BY <3>2, <3>3, <3>4
  <2>2. CASE bytes[p] = 0
    <3>1. at' = [at EXCEPT ![p] = "armed"]
      BY <1>9, <2>2 DEF AfterPush
    <3> QED
      BY <1>6, <2>0, <2>1, <3>1
  <2>3. CASE bytes[p] # 0
    <3>1. at' = [at EXCEPT ![p] = "loop"] /\ bytes[p] > 0
      BY <1>0, <1>9, <2>1, <2>3 DEF AfterPush
    <3> QED
      BY <1>6, <2>0, <2>1, <3>1
  <2> QED
    BY <2>2, <2>3
<1> QED
  BY <1>1, <1>2, <1>4, <1>5, <1>7, <1>8, <1>9 DEF NextRead, readAllVars, HandleRead, Raw

-----------------------------------------------------------------------------
(* The account of full reads.  A step of one chain changes the full buffers  *)
(* by that chain at most. *)
Alone(p) == \A q \in Producers : q # p => at'[q] = at[q] /\ bytes'[q] = bytes[q]
IsFull(p) == at[p] \in {"filled", "loop", "pushing"} /\ bytes[p] = MAX

LEMMA FullBuffersStep ==
  ASSUME NEW p \in Producers, Alone(p), IsFiniteSet(FullBuffers)
  PROVE  /\ IsFiniteSet(FullBuffers')
         /\ Cardinality(FullBuffers) \in Nat
         /\ Cardinality(FullBuffers') =
              IF IsFull(p) THEN IF IsFull(p)' THEN Cardinality(FullBuffers)
                                              ELSE Cardinality(FullBuffers) - 1
                           ELSE IF IsFull(p)' THEN Cardinality(FullBuffers) + 1
                                              ELSE Cardinality(FullBuffers)
<1>0. Cardinality(FullBuffers) \in Nat
  BY FS_CardinalityType
<1>1. CASE IsFull(p) <=> IsFull(p)'
  <2>1. FullBuffers' = FullBuffers
    BY <1>1 DEF FullBuffers, Alone, IsFull
  <2> QED
    BY <1>0, <1>1, <2>1
<1>2. CASE IsFull(p) /\ ~ IsFull(p)'
  <2>1. p \in FullBuffers /\ FullBuffers' = FullBuffers \ {p}
    BY <1>2 DEF FullBuffers, Alone, IsFull
  <2>2. IsFiniteSet(FullBuffers \ {p}) /\ Cardinality(FullBuffers \ {p}) = Cardinality(FullBuffers) - 1
    BY <2>1, FS_RemoveElement
  <2> QED
    BY <1>0, <1>2, <2>1, <2>2
<1>3. CASE ~ IsFull(p) /\ IsFull(p)'
  <2>1. p \notin FullBuffers /\ FullBuffers' = FullBuffers \cup {p}
    BY <1>3 DEF FullBuffers, Alone, IsFull
  <2>2. IsFiniteSet(FullBuffers \cup {p}) /\ Cardinality(FullBuffers \cup {p}) = Cardinality(FullBuffers) + 1
    BY <2>1, FS_AddElement
  <2> QED
    BY <1>0, <1>3, <2>1, <2>2
<1> QED
  BY <1>1, <1>2, <1>3

(* At most one handler is pushing. *)
LEMMA OnePushing ==
  ASSUME HandlerTypes
  PROVE  /\ Cardinality(Pushing) \in {0, 1}
         /\ \A p \in Producers : at[p] = "pushing" => Cardinality(Pushing) = 1
         /\ \A p \in Producers : at[p] = "loop" => Cardinality(Pushing) = 0
         /\ (\A p \in Producers : at[p] # "pushing") => Cardinality(Pushing) = 0
<1>1. ASSUME NEW p \in Producers, at[p] = "pushing" PROVE Cardinality(Pushing) = 1
  <2>1. Pushing = {p}
    BY <1>1 DEF Pushing, HandlerTypes, Running
  <2> QED
    BY <2>1, FS_Singleton
<1>2. ASSUME \A p \in Producers : at[p] # "pushing" PROVE Cardinality(Pushing) = 0
  <2>1. Pushing = {}
    BY <1>2 DEF Pushing
  <2> QED
    BY <2>1, FS_EmptySet
<1>3. ASSUME NEW p \in Producers, at[p] = "loop" PROVE \A q \in Producers : at[q] # "pushing"
  BY <1>3 DEF HandlerTypes, Running
<1> QED
  BY <1>1, <1>2, <1>3

LEMMA OnePushingNext ==
  HandlerTypes' =>
    /\ Cardinality(Pushing') \in {0, 1}
    /\ \A p \in Producers : at'[p] = "pushing" => Cardinality(Pushing') = 1
    /\ (\A p \in Producers : at'[p] # "pushing") => Cardinality(Pushing') = 0
<1>1. ASSUME HandlerTypes', NEW p \in Producers, at'[p] = "pushing" PROVE Cardinality(Pushing') = 1
  <2>1. Pushing' = {p}
    BY <1>1 DEF Pushing, HandlerTypes, Running
  <2> QED
    BY <2>1, FS_Singleton
<1>2. ASSUME \A p \in Producers : at'[p] # "pushing" PROVE Cardinality(Pushing') = 0
  <2>1. Pushing' = {}
    BY <1>2 DEF Pushing
  <2> QED
    BY <2>1, FS_EmptySet
<1> QED
  BY <1>1, <1>2

LEMMA PaidStart == InitRead => Paid
<1> SUFFICES ASSUME InitRead PROVE Paid
  OBVIOUS
<1>1. FullBuffers = {} /\ Pushing = {} /\ Known = 0 /\ delivered = 0 /\ fulls = 0
  BY DEF InitRead, FullBuffers, Pushing, Known
<1> QED
  BY <1>1, FS_EmptySet DEF Paid

LEMMA PaidStep ==
  ASSUME HandlerTypes, HandlerTypes', NumbersRead, Paid, [NextRead]_readAllVars
  PROVE  Paid'
<1> USE SizesAssumption
<1>0. /\ HEAD \in Nat \ {0} /\ MAX \in Nat /\ HEAD + 1 < MAX /\ cur \in Nat /\ total \in Nat
      /\ fulls \in Nat /\ delivered \in Nat /\ Known \in {0, 1} /\ Known' \in {0, 1}
      /\ Cardinality(Pushing) \in {0, 1} /\ Cardinality(Pushing') \in {0, 1}
      /\ IsFiniteSet(FullBuffers) /\ Cardinality(FullBuffers) \in Nat
      /\ delivered + Cardinality(Pushing) + Known + Cardinality(FullBuffers) <= fulls
  BY OnePushing, OnePushingNext, FS_CardinalityType DEF NumbersRead, Paid, Known
<1>01. at \in [Producers -> {"off", "armed", "filled", "loop", "pushing", "ended",
                             "raw", "raw_filled", "raw_nothing", "raw_pushing"}]
       /\ bytes \in [Producers -> 0 .. MAX]
  BY DEF HandlerTypes
<1>1. ASSUME UNCHANGED readVars PROVE Paid'
  <2>1. UNCHANGED <<at, bytes, head_parse, cur, total, delivered, fulls>>
    BY <1>1 DEF readVars, nodeVars
  <2>2. FullBuffers' = FullBuffers /\ Pushing' = Pushing /\ Known' = Known
    BY <2>1 DEF FullBuffers, Pushing, Known
  <2> QED
    BY <2>1, <2>2 DEF Paid
<1>2. ASSUME NEW p \in Producers,
             Fill(p) \/ ReadPackage(p) \/ ReadFromSocket(p) \/ ReadAllFromSocket(p) \/ Fail(p)
             \/ Handle(p) \/ ReadCallback(p) \/ RawAgain(p)
      PROVE  Paid'
  <2>1. Alone(p) /\ at[p] # "pushing" /\ at'[p] # "pushing"
    <3>1. CASE Fill(p)
      BY <1>01, <3>1 DEF Fill, Alone
    <3>2. CASE ReadPackage(p) \/ ReadFromSocket(p) \/ ReadAllFromSocket(p) \/ Fail(p)
      BY <1>01, <3>2 DEF ReadPackage, ReadFromSocket, ReadAllFromSocket, Fail, Alone
    <3>3. CASE Handle(p) \/ ReadCallback(p) \/ RawAgain(p)
      BY <1>01, <3>3 DEF Handle, ReadCallback, RawAgain, Alone
    <3> QED
      BY <1>2, <3>1, <3>2, <3>3
  <2>2. Pushing' = Pushing
    BY <2>1 DEF Pushing, Alone
  <2>3. Known' = Known /\ delivered' = delivered
    BY <1>2 DEF Fill, ReadPackage, ReadFromSocket, ReadAllFromSocket, Fail, Handle,
                ReadCallback, RawAgain, Known, nodeVars
  <2>4. \/ fulls' = fulls /\ (IsFull(p)' => IsFull(p))
        \/ fulls' = fulls + 1 /\ ~ IsFull(p)
    <3>1. CASE Fill(p)
      BY <1>01, <3>1 DEF Fill, IsFull
    <3>2. CASE ReadPackage(p) \/ ReadFromSocket(p) \/ ReadAllFromSocket(p) \/ Fail(p)
      BY <1>01, <3>2 DEF ReadPackage, ReadFromSocket, ReadAllFromSocket, Fail, IsFull
    <3>3. CASE Handle(p) \/ ReadCallback(p) \/ RawAgain(p)
      BY <1>01, <3>3 DEF Handle, ReadCallback, RawAgain, IsFull
    <3> QED
      BY <1>2, <3>1, <3>2, <3>3
  <2> QED
    BY <1>0, <2>1, <2>2, <2>3, <2>4, FullBuffersStep DEF Paid
<1>3. ASSUME NEW p \in Producers,
             AppendHead(p) \/ RejectHeader(p) \/ HeadPart(p) \/ RestPart(p)
      PROVE  Paid'
  <2>1. Alone(p) /\ at[p] = "loop" /\ at'[p] \in {"armed", "ended"}
        /\ delivered' = delivered /\ fulls' = fulls
    BY <1>01, <1>3 DEF AppendHead, RejectHeader, HeadPart, RestPart, Arm, Alone, InLoop, FullBuffer
  <2>2. Pushing' = Pushing /\ ~ IsFull(p)'
    BY <2>1 DEF Pushing, Alone, IsFull
  <2>3. \/ Known' <= Known
        \/ IsFull(p)
    <3>1. CASE AppendHead(p) \/ RejectHeader(p)
      <4>1. ~ head_parse /\ head_parse' = head_parse
        BY <3>1 DEF AppendHead, RejectHeader, FullBuffer, nodeVars
      <4> QED
        BY <4>1 DEF Known
    <3>2. CASE HeadPart(p)
      BY <3>2 DEF HeadPart, FullBuffer, InLoop, IsFull
    <3>3. CASE RestPart(p)
      <4>1. head_parse /\ head_parse' = head_parse /\ total' = total /\ cur' = cur + bytes[p]
            /\ bytes[p] \in Nat
        BY <1>01, <3>3 DEF RestPart
      <4> QED
        BY <1>0, <4>1 DEF Known
    <3> QED
      BY <1>3, <3>1, <3>2, <3>3
  <2> QED
    BY <1>0, <2>1, <2>2, <2>3, FullBuffersStep DEF Paid
<1>4. ASSUME NEW p \in Producers, HeadWhole(p) \/ RestWhole(p) PROVE Paid'
  <2>1. Alone(p) /\ at[p] = "loop" /\ at'[p] = "pushing"
        /\ delivered' = delivered /\ fulls' = fulls
    BY <1>01, <1>4 DEF HeadWhole, RestWhole, Deliver, Alone, InLoop, FullBuffer
  <2>2. Cardinality(Pushing) = 0 /\ Cardinality(Pushing') = 1
    BY <2>1, OnePushing, OnePushingNext
  <2>3. CASE HeadWhole(p)
    <3>1. IsFull(p) /\ Known' = 0
      BY <2>3 DEF HeadWhole, FullBuffer, InLoop, IsFull, Deliver, Known
    <3>2. SizeOf(front) \in HEAD + 1 .. MAX
      BY <2>3, AcceptableSize DEF HeadWhole
    <3>3. bytes'[p] = MAX - HEAD - (SizeOf(front) - HEAD - 1)
      BY <1>01, <2>3 DEF HeadWhole, Deliver
    <3>4. ~ IsFull(p)'
      <4>1. MAX - HEAD >= SizeOf(front)
        BY <2>3 DEF HeadWhole
      <4> QED
        BY <1>0, <3>2, <3>3 DEF IsFull
    <3> QED
      BY <1>0, <2>1, <2>2, <3>1, <3>4, FullBuffersStep DEF Paid
  <2>4. CASE RestWhole(p)
    <3>1. /\ Known = 1
          /\ bytes'[p] = bytes[p] - (total - cur) /\ total >= cur /\ bytes[p] \in 0 .. MAX
      BY <1>01, <2>4 DEF RestWhole, Deliver, Known
    <3>2. Known' = 0
      BY <1>0, <2>4 DEF RestWhole, Known
    <3>3. IsFull(p)' => IsFull(p)
      BY <1>0, <2>1, <3>1 DEF IsFull
    <3> QED
      BY <1>0, <2>1, <2>2, <3>1, <3>2, <3>3, FullBuffersStep DEF Paid
  <2> QED
    BY <1>4, <2>3, <2>4
<1>5. ASSUME NEW p \in Producers, AfterPush(p) PROVE Paid'
  <2>1. Alone(p) /\ at[p] = "pushing" /\ at'[p] = (IF bytes[p] = 0 THEN "armed" ELSE "loop")
        /\ delivered' = delivered + 1 /\ fulls' = fulls /\ bytes' = bytes
    BY <1>01, <1>5 DEF AfterPush, Alone
  <2>2. Cardinality(Pushing) = 1 /\ Cardinality(Pushing') = 0
    <3>1. \A q \in Producers : at'[q] # "pushing"
      BY <1>01, <2>1 DEF HandlerTypes, Running, Alone
    <3> QED
      BY <2>1, <3>1, OnePushing, OnePushingNext
  <2>3. Known' = 0
    BY <1>5 DEF AfterPush, Known
  <2>4. IsFull(p)' => IsFull(p)
    BY <2>1 DEF IsFull
  <2> QED
    BY <1>0, <2>1, <2>2, <2>3, <2>4, FullBuffersStep DEF Paid
<1> QED
  BY <1>1, <1>2, <1>3, <1>4, <1>5 DEF NextRead, readAllVars, HandleRead, Raw

(* A chain that is past the end of its package stays there. *)
LEMMA StuckStep ==
  ASSUME HandlerTypes, NumbersRead, Stuck, [NextRead]_readAllVars
  PROVE  Stuck'
<1>0. head_parse /\ cur > total /\ cur \in Nat /\ total \in Nat
      /\ (\A p \in Producers : at[p] # "pushing" /\ bytes[p] \in Nat)
      /\ at \in [Producers -> {"off", "armed", "filled", "loop", "pushing", "ended",
                               "raw", "raw_filled", "raw_nothing", "raw_pushing"}]
  BY SizesAssumption DEF Stuck, NumbersRead, HandlerTypes
<1>1. ASSUME UNCHANGED readVars PROVE Stuck'
  BY <1>1 DEF readVars, nodeVars, Stuck
<1>2. ASSUME NEW p \in Producers,
             Fill(p) \/ ReadPackage(p) \/ ReadFromSocket(p) \/ ReadAllFromSocket(p) \/ Fail(p)
             \/ Handle(p) \/ ReadCallback(p) \/ RawAgain(p)
      PROVE  Stuck'
  <2>1. UNCHANGED <<head_parse, cur, total>>
    BY <1>2 DEF Fill, ReadPackage, ReadFromSocket, ReadAllFromSocket, Fail, Handle,
                ReadCallback, RawAgain, nodeVars
  <2>2. \A q \in Producers : at'[q] # "pushing"
    BY <1>0, <1>2 DEF Fill, ReadPackage, ReadFromSocket, ReadAllFromSocket, Fail, Handle,
                      ReadCallback, RawAgain
  <2> QED
    BY <1>0, <2>1, <2>2 DEF Stuck
<1>3. ASSUME NEW p \in Producers, RestPart(p) PROVE Stuck'
  <2>1. head_parse' = head_parse /\ total' = total /\ cur' = cur + bytes[p]
        /\ at' = [at EXCEPT ![p] = "armed"]
    BY <1>3 DEF RestPart, Arm
  <2> QED
    BY <1>0, <2>1 DEF Stuck
<1>4. ASSUME NEW p \in Producers,
             AppendHead(p) \/ RejectHeader(p) \/ HeadPart(p) \/ HeadWhole(p) \/ RestWhole(p)
             \/ AfterPush(p)
      PROVE  FALSE
  BY <1>0, <1>4 DEF AppendHead, RejectHeader, HeadPart, HeadWhole, RestWhole, AfterPush, FullBuffer
<1> QED
  BY <1>1, <1>2, <1>3, <1>4 DEF NextRead, readAllVars, HandleRead, Raw

-----------------------------------------------------------------------------
LEMMA HandlersCorrect ==
  InitRead /\ [][NextRead]_readAllVars => [](HandlerTypes /\ NumbersRead /\ Paid)
<1>1. HandlerTypes /\ NumbersRead /\ Paid /\ [NextRead]_readAllVars
      => (HandlerTypes /\ NumbersRead /\ Paid)'
  BY HandlerTypesStep, PaidStep
<1> QED
  BY <1>1, HandlerTypesStart, PaidStart, PTL

LEMMA SessionUnderRead ==
  OneReader /\ InitRead /\ [][NextRead]_readAllVars => [](RingOK /\ SessionInv /\ Laps)
<1>1. InitRead => InitSession
  BY DEF InitRead
<1> QED
  BY <1>1, ReadIsSession, RingUnderSession, SessionCorrect, PTL

(* For every number of io threads and chains of reads, every capacity and    *)
(* every sizes of packages: with the notified thread as the only reader, the *)
(* pointer that getPopFrontRecvMsg dereferences untested is never null, and  *)
(* what it reads late is the element it was shown or one whole laps newer.   *)
THEOREM ReadCorrect == OneReader /\ SpecRead => []ReadInv
<1>1. RingOK /\ SessionInv /\ Laps /\ HandlerTypes => ReadInv
  BY LapsAreLate DEF ReadInv, TypeOKRead, SessionInv, HandlerTypes
<1> QED
  BY <1>1, HandlersCorrect, SessionUnderRead, PTL DEF SpecRead

(* And until a push gives up an element, every package comes out, once and   *)
(* in the order of the pushes: in handleRead's use of the ring, and in any   *)
(* other that only pushes. *)
THEOREM ReadInOrder == OneReader /\ SpecRead => []FifoUntilOverflow
<1>1. SessionInv => FifoUntilOverflow
  BY DEF SessionInv, InOrder, FifoUntilOverflow
<1> QED
  BY <1>1, SessionUnderRead, PTL DEF SpecRead

(* The session's queue by itself, under any threads that push: the same.     *)
THEOREM SessionInOrder == OneReader /\ SpecSession => []FifoUntilOverflow
<1>1. SessionInv => FifoUntilOverflow
  BY DEF SessionInv, InOrder, FifoUntilOverflow
<1> QED
  BY <1>1, SessionCorrect, PTL DEF SpecSession

(* A package is delivered only out of a read that returned MAX bytes: each   *)
(* full read pays for one. *)
THEOREM OnlyFullReads == SpecRead => []FullReadsOnly
<1>1. HandlerTypes /\ NumbersRead /\ Paid => FullReadsOnly
  <2> SUFFICES ASSUME HandlerTypes, NumbersRead, Paid PROVE FullReadsOnly
    OBVIOUS
  <2>1. /\ Cardinality(Pushing) \in {0, 1} /\ Known \in {0, 1} /\ Cardinality(FullBuffers) \in Nat
        /\ delivered \in Nat /\ fulls \in Nat
    BY OnePushing, FS_CardinalityType DEF Known, Paid, NumbersRead
  <2>2. delivered + Cardinality(Pushing) <= fulls
    BY <2>1 DEF Paid
  <2> QED
    BY <2>2 DEF FullReadsOnly, Pushing
<1> QED
  BY <1>1, HandlersCorrect, PTL DEF SpecRead

(* A session that has taken more than its package's size never gets out of   *)
(* it, whatever arrives. *)
THEOREM StuckStays == SpecRead => StuckForGood
<1>1. HandlerTypes /\ NumbersRead /\ [NextRead]_readAllVars => [Stuck => Stuck']_readAllVars
  BY StuckStep
<1> QED
  BY <1>1, HandlersCorrect, PTL DEF SpecRead, StuckForGood
=============================================================================
