---------------------------- MODULE MSessionRecv ----------------------------
(***************************************************************************)
(* MSession::getPopFrontRecvMsg on recv_completed_queue: io threads push   *)
(* completed packages, and a logic thread polls empty() without the lock,  *)
(* then calls front(), then pop(), and reads *ret_msg last.  The four      *)
(* calls are four critical sections (or none, for empty), so pushes fall   *)
(* between them.                                                           *)
(*                                                                         *)
(* The notified thread is the only caller of getPopFrontRecvMsg: the       *)
(* module is checked with one consumer.                                    *)
(***************************************************************************)
EXTENDS MSyncAnnularQueue, Sequences

VARIABLES
  stage,       \* stage[c]: the call of getPopFrontRecvMsg that c is at
  returned,    \* returned[c]: what its calls have returned so far
  overflowed   \* history: a push has given up an element

sessionVars == <<stage, returned, overflowed>>
allVars == <<vars, sessionVars>>

InitSession ==
  /\ Init
  /\ stage = [c \in Consumers |-> "out"]
  /\ returned = [c \in Consumers |-> <<>>]
  /\ overflowed = FALSE

(* recv_completed_queue.push in handleRead *)
Receive(p) == CallPush(p) /\ UNCHANGED sessionVars

(* The steps inside push, pop, front and empty. *)
Run(t) ==
  /\ Step(t)
  /\ overflowed' = (overflowed \/ (pc[t] = "push_drop" /\ Full))
  /\ UNCHANGED <<stage, returned>>

Move(c, from, to) ==
  /\ stage[c] = from
  /\ stage' = [stage EXCEPT ![c] = to]
  /\ UNCHANGED <<returned, overflowed>>

(* while (empty()) {} : the first test, and the next ones. *)
Poll(c) == EmptyBegin(c) /\ Move(c, "out", "poll")
PollAgain(c) == isEmpty[c] /\ EmptyBegin(c) /\ Move(c, "poll", "poll")

TakeFront(c) == ~ isEmpty[c] /\ CallFront(c) /\ Move(c, "poll", "front")

(* Slip: the element read is not popped. *)
PopNothing(c) == pc[c] = "idle" /\ Move(c, "front", "pop") /\ UNCHANGED vars

PopIt(c) == CallPop(c) /\ Move(c, "front", "pop")

(* An element is a shared_ptr of two words, and the node is copied outside    *)
(* the lock: a copy made while a push assigns the node may have a word of     *)
(* each element, and is no element. *)
Torn == 0
BeingWritten(i) == i = m_end /\ Storing
CopyOf(i) == {ele[i]} \cup (IF BeingWritten(i) THEN {Torn} ELSE {})

(* return *ret_msg: the node is read now, after pop and outside the lock. *)
Return(c) ==
  /\ stage[c] = "pop"
  /\ pc[c] = "idle"
  /\ ptr[c] # NoSlot
  /\ \E e \in CopyOf(ptr[c]) : returned' = [returned EXCEPT ![c] = Append(@, e)]
  /\ stage' = [stage EXCEPT ![c] = "out"]
  /\ UNCHANGED <<vars, overflowed>>

Consume(c) ==
  \/ Poll(c)
  \/ PollAgain(c)
  \/ TakeFront(c)
  \/ PopIt(c)
  \/ Return(c)

NextSession ==
  \/ \E t \in Threads : Run(t)
  \/ \E p \in Producers : Receive(p)
  \/ \E c \in Consumers : Consume(c)

(* A thread inside a member function keeps running, and the notified thread  *)
(* keeps asking.  The spin lock promises nothing: a waiting thread may lose   *)
(* every race for it.                                                         *)
SpecSession ==
  /\ InitSession
  /\ [][NextSession]_allVars
  /\ \A t \in Threads : WF_allVars(Run(t))
  /\ \A c \in Consumers : WF_allVars(Consume(c))

-----------------------------------------------------------------------------
(* Type invariant of the caller's state. *)
TypeOKSession ==
  /\ TypeOK
  /\ stage \in [Consumers -> {"out", "poll", "front", "pop"}]
  /\ returned \in [Consumers -> Seq(Nat)]
  /\ overflowed \in BOOLEAN

(* getPopFrontRecvMsg dereferences what front() gave it without a test: the *)
(* unlocked empty(), whose two reads straddle pushes, never lets its only   *)
(* consumer through to a nullptr.                                           *)
NeverNull == \A c \in Consumers :
  stage[c] = "pop" \/ (stage[c] = "front" /\ pc[c] \in {"idle", "unlock"})
    => ptr[c] # NoSlot

(* Until the ring first overflows, every package comes out, whole, once and *)
(* in the order of the pushes, although reading, popping and pushing        *)
(* interleave and the copy is made of a node that a push may be writing.    *)
FifoUntilOverflow ==
  ~ overflowed => \A c \in Consumers :
    \A i \in DOMAIN returned[c] : returned[c][i] = i

(* The node that a late read copies holds the element that the caller was   *)
(* shown or one that is whole laps newer.                                   *)
LateReadByLaps == \A c \in Consumers :
  stage[c] = "pop" => ele[ptr[c]] >= took[c] /\ (ele[ptr[c]] - took[c]) % CAPACITY = 0

(* What is in the ring is eventually taken out: an empty() that answers     *)
(* from two moments cannot keep its caller polling for ever.                *)
Drains == m_begin # m_end ~> m_begin = m_end
=============================================================================
