------------------------- MODULE MSyncAnnularQueue -------------------------
(***************************************************************************)
(* MSTL/include/MSyncAnnularQueue.h with the spin lock of MAtomicLock.h,   *)
(* one action per access to shared memory, called by any number of         *)
(* threads.  push, pop and front take the lock; empty does not, and reads  *)
(* m_begin and m_end in two steps.  front hands out a pointer into the     *)
(* ring that outlives the lock.                                            *)
(*                                                                         *)
(* A stored element is its place in the push order: push number n stores   *)
(* n, and 0 is the value-initialised T of a node never written.            *)
(***************************************************************************)
EXTENDS Naturals

CONSTANTS
  Producers,  \* the threads that call push
  Consumers,  \* the threads that call front, pop and empty
  CAPACITY,   \* the template parameter: nodes in the ring
  MaxPushes   \* bound of the model: no push is called after this many

ASSUME CapacityAssumption == CAPACITY \in Nat \ {0}
ASSUME MaxPushesAssumption == MaxPushes \in Nat

Threads == Producers \cup Consumers
Slots == 0 .. CAPACITY - 1
NoSlot == CAPACITY             \* nullptr among the pointers into the ring

VARIABLES
  m_lock,     \* MAtomicLock::m_lock, set or clear
  m_begin,    \* the node of the oldest element
  m_end,      \* the node the next push writes: it holds no element
  ele,        \* ele[i]: m_data[i].ele
  pc,         \* pc[t]: the next access of t
  ptr,        \* ptr[t]: what front() last returned to t
  seen,       \* seen[t]: the m_begin that empty() has read
  isEmpty,    \* isEmpty[t]: what empty() last returned to t
  pushes,     \* history: elements stored so far
  took        \* history: the element *ptr[t] when front() returned it

queueVars == <<m_begin, m_end, ele, pushes>>
vars == <<m_lock, m_begin, m_end, ele, pc, ptr, seen, isEmpty, pushes, took>>

(* A definition whose comment says Slip is the one after it with a plausible *)
(* mistake in it.  It is part of no specification: it is there to see that   *)
(* the properties notice.                                                    *)

(* MSyncAnnularQueueNode::next, as the constructor links the ring. *)
next(i) == IF i = CAPACITY - 1 THEN 0 ELSE i + 1

Full == next(m_end) = m_begin

Init ==
  /\ m_lock = FALSE
  /\ m_begin = 0
  /\ m_end = 0
  /\ ele = [i \in Slots |-> 0]
  /\ pc = [t \in Threads |-> "idle"]
  /\ ptr = [t \in Threads |-> NoSlot]
  /\ seen = [t \in Threads |-> 0]
  /\ isEmpty = [t \in Threads |-> TRUE]
  /\ pushes = 0
  /\ took = [t \in Threads |-> 0]

Goto(t, from, to) ==
  /\ pc[t] = from
  /\ pc' = [pc EXCEPT ![t] = to]

(* A thread enters a member function and reaches m_lock.lock(). *)
CallPush(t) ==
  /\ pushes < MaxPushes
  /\ Goto(t, "idle", "push")
  /\ UNCHANGED <<m_lock, ptr, seen, isEmpty, took, queueVars>>

CallPop(t) ==
  /\ Goto(t, "idle", "pop")
  /\ UNCHANGED <<m_lock, ptr, seen, isEmpty, took, queueVars>>

CallFront(t) ==
  /\ Goto(t, "idle", "front")
  /\ UNCHANGED <<m_lock, ptr, seen, isEmpty, took, queueVars>>

(* Slip: the flag is set without looking at what it was. *)
LockForUnguarded(t, call, body) ==
  /\ m_lock' = TRUE
  /\ Goto(t, call, body)
  /\ UNCHANGED <<ptr, seen, isEmpty, took, queueVars>>

(* MAtomicLock::lock: the test_and_set that finds the flag clear.  One that *)
(* finds it set changes nothing and is repeated.                            *)
LockFor(t, call, body) ==
  /\ ~ m_lock
  /\ m_lock' = TRUE
  /\ Goto(t, call, body)
  /\ UNCHANGED <<ptr, seen, isEmpty, took, queueVars>>

Lock(t) ==
  \/ LockFor(t, "push", "push_drop")
  \/ LockFor(t, "pop", "pop_advance")
  \/ LockFor(t, "front", "front_read")

Unlock(t) ==
  /\ Goto(t, "unlock", "idle")
  /\ m_lock' = FALSE
  /\ UNCHANGED <<ptr, seen, isEmpty, took, queueVars>>

(* Slip: a full ring gives nothing up. *)
PushDropNothing(t) ==
  /\ Goto(t, "push_drop", "push_store")
  /\ UNCHANGED <<m_lock, m_begin, m_end, ele, pushes, ptr, seen, isEmpty, took>>

(* push: on a full ring the oldest element is given up ... *)
PushDrop(t) ==
  /\ Goto(t, "push_drop", "push_store")
  /\ m_begin' = IF Full THEN next(m_begin) ELSE m_begin
  /\ UNCHANGED <<m_lock, m_end, ele, pushes, ptr, seen, isEmpty, took>>

(* Slip: the oldest node is overwritten instead of the free one. *)
PushStoreAtBegin(t) ==
  /\ Goto(t, "push_store", "push_end")
  /\ pushes' = pushes + 1
  /\ ele' = [ele EXCEPT ![m_begin] = pushes + 1]
  /\ UNCHANGED <<m_lock, m_begin, m_end, ptr, seen, isEmpty, took>>

(* ... the node at m_end is written ... *)
PushStore(t) ==
  /\ Goto(t, "push_store", "push_end")
  /\ pushes' = pushes + 1
  /\ ele' = [ele EXCEPT ![m_end] = pushes + 1]
  /\ UNCHANGED <<m_lock, m_begin, m_end, ptr, seen, isEmpty, took>>

(* ... and m_end moves on. *)
PushEnd(t) ==
  /\ Goto(t, "push_end", "unlock")
  /\ m_end' = next(m_end)
  /\ UNCHANGED <<m_lock, m_begin, ele, pushes, ptr, seen, isEmpty, took>>

(* pop: nothing to do on an empty ring. *)
PopAdvance(t) ==
  /\ Goto(t, "pop_advance", "unlock")
  /\ m_begin' = IF m_begin = m_end THEN m_begin ELSE next(m_begin)
  /\ UNCHANGED <<m_lock, m_end, ele, pushes, ptr, seen, isEmpty, took>>

(* front: the address of the oldest element, nullptr on an empty ring. *)
FrontRead(t) ==
  /\ Goto(t, "front_read", "unlock")
  /\ \/ /\ m_begin = m_end
        /\ ptr' = [ptr EXCEPT ![t] = NoSlot]
        /\ took' = [took EXCEPT ![t] = 0]
     \/ /\ m_begin # m_end
        /\ ptr' = [ptr EXCEPT ![t] = m_begin]
        /\ took' = [took EXCEPT ![t] = ele[m_begin]]
  /\ UNCHANGED <<m_lock, seen, isEmpty, queueVars>>

(* empty: two reads, no lock. *)
EmptyBegin(t) ==
  /\ Goto(t, "idle", "empty_end")
  /\ seen' = [seen EXCEPT ![t] = m_begin]
  /\ UNCHANGED <<m_lock, ptr, isEmpty, took, queueVars>>

(* Slip: the answer is never recomputed. *)
EmptyEndStale(t) ==
  /\ Goto(t, "empty_end", "idle")
  /\ UNCHANGED <<m_lock, ptr, seen, isEmpty, took, queueVars>>

EmptyEnd(t) ==
  /\ Goto(t, "empty_end", "idle")
  /\ isEmpty' = [isEmpty EXCEPT ![t] = seen[t] = m_end]
  /\ UNCHANGED <<m_lock, ptr, seen, took, queueVars>>

(* The steps of a thread that is inside a member function. *)
Step(t) ==
  \/ Lock(t)
  \/ Unlock(t)
  \/ PushDrop(t)
  \/ PushStore(t)
  \/ PushEnd(t)
  \/ PopAdvance(t)
  \/ FrontRead(t)
  \/ EmptyEnd(t)

Next ==
  \/ \E t \in Threads : Step(t)
  \/ \E t \in Producers : CallPush(t)
  \/ \E t \in Consumers : CallPop(t) \/ CallFront(t) \/ EmptyBegin(t)

Spec == Init /\ [][Next]_vars

-----------------------------------------------------------------------------
Labels ==
  {"idle", "push", "pop", "front", "push_drop", "push_store", "push_end",
   "pop_advance", "front_read", "unlock", "empty_end"}

(* Where a thread holds m_lock. *)
Locked ==
  {"push_drop", "push_store", "push_end", "pop_advance", "front_read", "unlock"}

(* Type invariant: pointers stay in the ring, flags are flags. *)
TypeOK ==
  /\ m_lock \in BOOLEAN
  /\ m_begin \in Slots
  /\ m_end \in Slots
  /\ ele \in [Slots -> Nat]
  /\ pc \in [Threads -> Labels]
  /\ ptr \in [Threads -> Slots \cup {NoSlot}]
  /\ seen \in [Threads -> Slots]
  /\ isEmpty \in [Threads -> BOOLEAN]
  /\ pushes \in Nat
  /\ took \in [Threads -> Nat]

(* MAtomicLock excludes: of all the threads inside the bodies of push, pop  *)
(* and front at most one, and the flag is set exactly while there is one.   *)
MutualExclusion ==
  /\ \A t, u \in Threads : pc[t] \in Locked /\ pc[u] \in Locked => t = u
  /\ m_lock <=> \E t \in Threads : pc[t] \in Locked

(* At every step of every thread the lock is held by the one thread that is *)
(* in a body of push, pop or front, and what it guards keeps its shape. *)
LockInv == TypeOK /\ MutualExclusion

(* Elements in the ring from m_begin up to m_end. *)
Size == IF m_end >= m_begin THEN m_end - m_begin ELSE m_end + CAPACITY - m_begin

(* How many places node i lies behind node e, 1 .. CAPACITY. *)
Back(i, e) == IF i < e THEN e - i ELSE e + CAPACITY - i

(* A push counts from the moment it has made room: between PushDrop and     *)
(* PushEnd its element is on the way in, first not yet and then written.    *)
Storing == \E t \in Threads : pc[t] = "push_store"
Stored == \E t \in Threads : pc[t] = "push_end"

(* The node after the one written last. *)
WriteEnd == IF Stored THEN next(m_end) ELSE m_end

(* Every node holds the element of its last lap: going back from the node   *)
(* written last, pushes, pushes - 1, ... and then the nodes never written.  *)
LapElements == \A i \in Slots :
  ele[i] = IF Back(i, WriteEnd) <= pushes THEN pushes + 1 - Back(i, WriteEnd) ELSE 0

(* Only written nodes lie between m_begin and m_end. *)
OnlyWritten == Size <= IF Stored THEN pushes - 1 ELSE pushes

(* A push under way has room: moving m_end will not make a ring that holds  *)
(* elements look empty. *)
RoomForPush == Storing \/ Stored => CAPACITY = 1 \/ Size + 2 <= CAPACITY

(* What a caller took by front() was an element. *)
TookElement == \A t \in Threads : ptr[t] # NoSlot => took[t] > 0

(* The pointer that front() returned is read by its callers after the lock  *)
(* is gone (getPopFrontRecvMsg even after pop).  It is good for exactly one *)
(* lap: the element it was taken for stays there, whatever is popped,       *)
(* dropped or pushed meanwhile, until CAPACITY later pushes have stored.    *)
FrontPointerStable ==
  \A t \in Threads : ptr[t] # NoSlot =>
    \/ ele[ptr[t]] = took[t]
    \/ pushes >= took[t] + CAPACITY

(* The inductive invariant: what the nodes hold, how many of them count, and  *)
(* what a front pointer was taken for.  FrontPointerStable follows from it,   *)
(* and so does the refinement below.                                          *)
RingInv ==
  /\ LapElements
  /\ OnlyWritten
  /\ RoomForPush
  /\ TookElement
  /\ FrontPointerStable

(* The node k places after i. *)
Nth(i, k) == IF i + k < CAPACITY THEN i + k ELSE i + k - CAPACITY

(* How many elements the queue of the abstraction holds.  A ring of one node *)
(* never holds an element.                                                   *)
Held == IF (Storing \/ Stored) /\ CAPACITY > 1 THEN Size + 1 ELSE Size

Contents ==
  [k \in 1 .. Held |-> IF Storing /\ k = Size + 1 THEN pushes + 1 ELSE ele[Nth(m_begin, k - 1)]]

(* How many pushes have taken effect. *)
Pushed == IF Storing THEN pushes + 1 ELSE pushes

Abstract ==
  INSTANCE AnnularQueue WITH Bound <- CAPACITY - 1, q <- Contents, pushes <- Pushed

(* The ring, its lock and its unlocked reads implement the bounded queue    *)
(* that gives up its oldest element: every push, pop and front takes effect *)
(* at once, in the order of the lock, and nothing else changes the queue.   *)
ImplementsQueue == Abstract!Spec

=============================================================================
