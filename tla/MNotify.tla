------------------------------ MODULE MNotify ------------------------------
(***************************************************************************)
(* How a package that handleRead has completed reaches the logic layer:    *)
(* the recv_completed_queue of its session, the session_notified_queue,    *)
(* the notified thread of MNet/MAsyncSocket/MAsyncSocket.cpp with its      *)
(* mutex and condition variable, and LogicSystem::notifiedFun.             *)
(*                                                                         *)
(* Both queues are the bounded drop-oldest FIFO that MSyncAnnularQueue is  *)
(* shown to implement; of the second, the nodes of its ring are there too, *)
(* because notifiedFun keeps a pointer to one of them.  A package is its   *)
(* number in the order of arrival.                                         *)
(***************************************************************************)
EXTENDS Naturals, Sequences, SequencesExt

CONSTANTS
  Sessions,
  Callers,      \* threads that call LogicSystem::notifiedFun themselves
  Notifier,     \* the notified thread
  NoThread,     \* who holds a free mutex
  Bound,        \* elements a queue holds: CAPACITY - 1
  MaxPackages   \* bound of the model: packages received

ASSUME NotifyAssumption ==
  /\ Sessions # {}
  /\ Notifier \notin Callers
  /\ NoThread \notin Callers \cup {Notifier}
  /\ Bound \in Nat \ {0}
  /\ MaxPackages \in Nat

Threads == Callers \cup {Notifier}
Packages == 1 .. MaxPackages

VARIABLES
  notified_fun,            \* what the socket was given: "default", which does
                           \* nothing, or "logic", LogicSystem::notifiedFun
  recv_completed_queue,    \* per session: its packages, oldest first
  session_notified_queue,  \* a session for each package to be taken
  notified_mutex,          \* the thread that holds it
  pc,                      \* pc[t]: the next step of t
  node,                    \* what the nodes of session_notified_queue's ring hold
  pointer,                 \* pointer[t]: the node front() returned in notifiedFun
  session,                 \* session[t]: the session last seen at that node
  package,                 \* package[t]: what getPopFrontRecvMsg returned
  io,                      \* the io thread in handleRead: its step and session
  logic,                   \* what was handed to pushToMsgQueue
  arrived,                 \* history: packages completed
  from,                    \* history: from[n], the session of package n
  lost,                    \* history: packages a full queue gave up
  tokenLost,               \* history: session_notified_queue has overflowed
  misread,                 \* history: sessions found at a node that front()
                           \* had shown another session at
  notices,                 \* history: sessions put in session_notified_queue
  told,                    \* history: notices when notified_fun last ran
  missed                   \* history: a notification found the notified thread
                           \* not waiting, nor on its way to look at the queue

notifyHistory == <<arrived, from, lost, tokenLost, misread, notices, told, missed>>
ring == <<session_notified_queue, node>>
inFun == <<pointer, session, package>>
notifyVars == <<notified_fun, recv_completed_queue, ring, notified_mutex, pc, inFun,
                io, logic, notifyHistory>>

InitNotify ==
  /\ notified_fun \in {"default", "logic"}
  /\ recv_completed_queue = [s \in Sessions |-> <<>>]
  /\ session_notified_queue = <<>>
  /\ notified_mutex = NoThread
  /\ pc = [t \in Threads |-> IF t = Notifier THEN "start" ELSE "idle"]
  /\ node = [i \in 0 .. Bound |-> CHOOSE s \in Sessions : TRUE]
  /\ pointer = [t \in Threads |-> 0]
  /\ session = [t \in Threads |-> CHOOSE s \in Sessions : TRUE]
  /\ package = [t \in Threads |-> 0]
  /\ io = [step |-> "read", of |-> CHOOSE s \in Sessions : TRUE]
  /\ logic = <<>>
  /\ arrived = 0
  /\ from = [n \in Packages |-> CHOOSE s \in Sessions : TRUE]
  /\ lost = {}
  /\ tokenLost = FALSE
  /\ misread = {}
  /\ notices = 0
  /\ told = 0
  /\ missed = FALSE

Goto(t, label, to) ==
  /\ pc[t] = label
  /\ pc' = [pc EXCEPT ![t] = to]

IsFull(q) == Len(q) = Bound

(* A definition whose comment says Slip is the one after it with a plausible *)
(* mistake in it, there to see that the properties notice.                   *)

(* MSyncAnnularQueue::push and pop, as AnnularQueue has them. *)
PushTo(q, x) == Append(IF IsFull(q) THEN Tail(q) ELSE q, x)
PopFrom(q) == IF q = <<>> THEN q ELSE Tail(q)

(* The ring has one node more than the queue holds elements.  The next push  *)
(* writes the node End; front() returns Begin.  *)
Nodes == Bound + 1
End == notices % Nodes
Begin == (notices - Len(session_notified_queue)) % Nodes

-----------------------------------------------------------------------------
(* The io thread: handleRead has a whole package of s, *)
Complete(s) ==
  /\ io.step = "read"
  /\ arrived < MaxPackages
  /\ arrived' = arrived + 1
  /\ from' = [from EXCEPT ![arrived + 1] = s]
  /\ recv_completed_queue' = [recv_completed_queue EXCEPT ![s] = PushTo(@, arrived + 1)]
  /\ lost' = IF IsFull(recv_completed_queue[s])
             THEN lost \cup {Head(recv_completed_queue[s])} ELSE lost
  /\ io' = [step |-> "notice", of |-> s]
  /\ UNCHANGED <<ring, notified_mutex, pc, inFun, logic,
                 tokenLost, misread, notices, told, missed, notified_fun>>

(* Slip: the session is put in the queue only when it is not in it yet. *)
NoticeOnce ==
  /\ io.step = "notice"
  /\ session_notified_queue' =
       IF Contains(session_notified_queue, io.of) THEN session_notified_queue
       ELSE PushTo(session_notified_queue, io.of)
  /\ node' = [node EXCEPT ![End] = io.of]
  /\ tokenLost' = (tokenLost \/ IsFull(session_notified_queue))
  /\ notices' = notices + 1
  /\ io' = [io EXCEPT !.step = "notify"]
  /\ UNCHANGED <<recv_completed_queue, notified_mutex, pc, inFun, logic,
                 arrived, from, lost, misread, told, missed, notified_fun>>

(* Slip: the session is put in the queue twice. *)
NoticeTwice ==
  /\ io.step = "notice"
  /\ session_notified_queue' = PushTo(PushTo(session_notified_queue, io.of), io.of)
  /\ node' = [node EXCEPT ![End] = io.of, ![(notices + 1) % Nodes] = io.of]
  /\ tokenLost' = (tokenLost \/ Len(session_notified_queue) + 2 > Bound)
  /\ notices' = notices + 1
  /\ io' = [io EXCEPT !.step = "notify"]
  /\ UNCHANGED <<recv_completed_queue, notified_mutex, pc, inFun, logic,
                 arrived, from, lost, misread, told, missed, notified_fun>>

(* puts s in the queue of the logic layer, *)
Notice ==
  /\ io.step = "notice"
  /\ session_notified_queue' = PushTo(session_notified_queue, io.of)
  /\ node' = [node EXCEPT ![End] = io.of]
  /\ tokenLost' = (tokenLost \/ IsFull(session_notified_queue))
  /\ notices' = notices + 1
  /\ io' = [io EXCEPT !.step = "notify"]
  /\ UNCHANGED <<recv_completed_queue, notified_mutex, pc, inFun, logic,
                 arrived, from, lost, misread, told, missed, notified_fun>>

(* and calls notify_all, without the mutex. *)
NotifyAll ==
  /\ io.step = "notify"
  /\ pc' = IF pc[Notifier] = "asleep" THEN [pc EXCEPT ![Notifier] = "woken"] ELSE pc
  /\ missed' = (missed \/ pc[Notifier] \notin {"asleep", "woken", "queue?"})
  /\ io' = [io EXCEPT !.step = "read"]
  /\ UNCHANGED <<notified_fun, recv_completed_queue, ring, notified_mutex, inFun, logic,
                 arrived, from, lost, tokenLost, misread, notices, told>>

-----------------------------------------------------------------------------
(* The notified thread takes the mutex when it starts and when a wait ends, *)
NotifierLock ==
  /\ notified_mutex = NoThread
  /\ \/ Goto(Notifier, "start", "wait")
     \/ Goto(Notifier, "woken", "queue?")
  /\ notified_mutex' = Notifier
  /\ UNCHANGED <<recv_completed_queue, ring, inFun, io, logic, notifyHistory, notified_fun>>

(* waits without a condition, *)
NotifierWait ==
  /\ Goto(Notifier, "wait", "asleep")
  /\ notified_mutex' = NoThread
  /\ UNCHANGED <<recv_completed_queue, ring, inFun, io, logic, notifyHistory, notified_fun>>

NotifierWakes ==
  /\ Goto(Notifier, "asleep", "woken")
  /\ UNCHANGED <<recv_completed_queue, ring, notified_mutex, inFun, io, logic,
                 notifyHistory, notified_fun>>

(* and calls notified_fun once when there is a session, with the mutex held. *)
CallNotifiedFun ==
  /\ pc[Notifier] = "queue?"
  /\ \/ /\ session_notified_queue = <<>>
        /\ Goto(Notifier, "queue?", "wait")
        /\ UNCHANGED told
     \/ /\ session_notified_queue # <<>>
        /\ Goto(Notifier, "queue?", IF notified_fun = "logic" THEN "lock" ELSE "wait")
        /\ told' = notices
  /\ UNCHANGED <<recv_completed_queue, ring, notified_mutex, inFun, io, logic,
                 arrived, from, lost, tokenLost, misread, notices, missed, notified_fun>>

-----------------------------------------------------------------------------
(* A thread of the program finds a session in the queue and calls           *)
(* LogicSystem::notifiedFun. *)
CallLogic(t) ==
  /\ session_notified_queue # <<>>
  /\ Goto(t, "idle", "lock")
  /\ UNCHANGED <<recv_completed_queue, ring, notified_mutex, inFun, io, logic,
                 notifyHistory, notified_fun>>

(* notifiedFun: the lock_guard, *)
LockGuard(t) ==
  /\ notified_mutex = NoThread
  /\ Goto(t, "lock", "front")
  /\ notified_mutex' = t
  /\ UNCHANGED <<recv_completed_queue, ring, inFun, io, logic, notifyHistory, notified_fun>>

(* the pointer to the front session, *)
FrontSession(t) ==
  /\ \/ /\ session_notified_queue = <<>>
        /\ Goto(t, "front", "null")
        /\ UNCHANGED <<pointer, session>>
     \/ /\ session_notified_queue # <<>>
        /\ Goto(t, "front", "deref")
        /\ pointer' = [pointer EXCEPT ![t] = Begin]
        /\ session' = [session EXCEPT ![t] = Head(session_notified_queue)]
  /\ UNCHANGED <<recv_completed_queue, ring, notified_mutex, package, io, logic,
                 notifyHistory, notified_fun>>

(* which is dereferenced when the queue's lock is gone, to call *)
Dereference(t) ==
  /\ Goto(t, "deref", "take")
  /\ session' = [session EXCEPT ![t] = node[pointer[t]]]
  /\ misread' = misread \cup ({node[pointer[t]]} \ {session[t]})
  /\ UNCHANGED <<recv_completed_queue, ring, notified_mutex, pointer, package, io, logic,
                 arrived, from, lost, tokenLost, notices, told, missed, notified_fun>>

(* getPopFrontRecvMsg of that session, which spins for a package, *)
TakePackage(t) ==
  /\ Goto(t, "take", "make")
  /\ recv_completed_queue[session[t]] # <<>>
  /\ package' = [package EXCEPT ![t] = Head(recv_completed_queue[session[t]])]
  /\ recv_completed_queue' = [recv_completed_queue EXCEPT ![session[t]] = PopFrom(@)]
  /\ UNCHANGED <<notified_fun, ring, notified_mutex, pointer, session, io, logic,
                 notifyHistory>>

(* and once more by the constructor of the node for the logic layer, which   *)
(* copies the session, before pushToMsgQueue; *)
MakeNode(t) ==
  /\ Goto(t, "make", "pop")
  /\ logic' = Append(logic, [of |-> node[pointer[t]], package |-> package[t]])
  /\ UNCHANGED <<notified_fun, recv_completed_queue, ring, notified_mutex, inFun, io,
                 notifyHistory>>

(* and the pop of the session. *)
PopSession(t) ==
  /\ Goto(t, "pop", "unlock")
  /\ session_notified_queue' = PopFrom(session_notified_queue)
  /\ UNCHANGED <<notified_fun, recv_completed_queue, node, notified_mutex, inFun, io, logic,
                 notifyHistory>>

UnlockGuard(t) ==
  /\ Goto(t, "unlock", IF t = Notifier THEN "wait" ELSE "idle")
  /\ notified_mutex' = NoThread
  /\ UNCHANGED <<recv_completed_queue, ring, inFun, io, logic, notifyHistory, notified_fun>>

-----------------------------------------------------------------------------
NotifiedFun(t) ==
  \/ LockGuard(t) \/ FrontSession(t) \/ Dereference(t) \/ TakePackage(t)
  \/ MakeNode(t) \/ PopSession(t) \/ UnlockGuard(t)
NotifierStep == NotifierLock \/ NotifierWait \/ CallNotifiedFun \/ NotifiedFun(Notifier)
IoStep == Notice \/ NotifyAll

NextNotify ==
  \/ \E s \in Sessions : Complete(s)
  \/ IoStep
  \/ NotifierStep
  \/ NotifierWakes
  \/ \E t \in Callers : CallLogic(t) \/ NotifiedFun(t)

SpecNotify == InitNotify /\ [][NextNotify]_notifyVars

(* handleRead ends; a thread that polls goes on polling; and a thread that  *)
(* waits for a mutex released again and again is let in sometime.           *)
FairnessNotify ==
  /\ WF_notifyVars(IoStep)
  /\ WF_notifyVars(NotifierStep) /\ SF_notifyVars(NotifierLock)
  /\ \A t \in Callers : WF_notifyVars(CallLogic(t) \/ NotifiedFun(t)) /\ SF_notifyVars(LockGuard(t))
FairSpecNotify == SpecNotify /\ FairnessNotify

-----------------------------------------------------------------------------
NotifyLabels ==
  {"start", "wait", "asleep", "woken", "queue?", "idle", "lock",
   "front", "null", "deref", "take", "make", "pop", "unlock"}

(* Type invariant. *)
TypeOKNotify ==
  /\ notified_fun \in {"default", "logic"}
  /\ recv_completed_queue \in [Sessions -> Seq(Packages)]
  /\ session_notified_queue \in Seq(Sessions)
  /\ Len(session_notified_queue) <= Bound
  /\ notified_mutex \in Threads \cup {NoThread}
  /\ pc \in [Threads -> NotifyLabels]
  /\ node \in [0 .. Bound -> Sessions]
  /\ pointer \in [Threads -> 0 .. Bound]
  /\ session \in [Threads -> Sessions]
  /\ package \in [Threads -> {0} \cup Packages]
  /\ io \in [step : {"read", "notice", "notify"}, of : Sessions]
  /\ logic \in Seq([of : Sessions, package : Packages])
  /\ arrived \in 0 .. MaxPackages
  /\ from \in [Packages -> Sessions]
  /\ lost \subseteq Packages
  /\ tokenLost \in BOOLEAN
  /\ misread \subseteq Sessions
  /\ notices \in 0 .. arrived
  /\ told \in 0 .. notices
  /\ missed \in BOOLEAN

(* getPopFrontRecvMsg spins, with notified_mutex held, for a package that is *)
(* not there only if a full recv_completed_queue gave up one of that session, *)
(* or one was taken in the place of another session's, through a pointer into *)
(* the ring.  It never does because the full session queue dropped a session  *)
(* between front and pop.                                                     *)
NeverSpins ==
  \A t \in Threads :
    pc[t] = "take" => \/ recv_completed_queue[session[t]] # <<>>
                      \/ \E n \in lost : from[n] = session[t]
                      \/ session[t] \in misread

(* What front() showed is still at the node when the pointer to it is used,   *)
(* before the package is taken and after, so that the logic layer gets every  *)
(* package with the session it is from: unless the session queue overflows.   *)
OwnSession ==
  /\ misread # {} => tokenLost
  /\ \A i \in DOMAIN logic : logic[i].of # from[logic[i].package] => tokenLost

(* The logic layer gets the packages of a session in the order they came,     *)
(* each at most once. *)
LogicInOrder ==
  \A i, j \in DOMAIN logic :
    i < j /\ from[logic[i].package] = from[logic[j].package]
      => logic[i].package < logic[j].package

(* The notified thread sleeps over a session that it has not called          *)
(* notified_fun for only if a notification came while it was not waiting:    *)
(* the wait has no condition, and handleRead notifies without the mutex,     *)
(* although its comments (lines 334, 398) promise a notification of each     *)
(* package. *)
SleepsUntold ==
  /\ pc[Notifier] = "asleep" /\ session_notified_queue # <<>>
  /\ notices > told /\ io.step # "notify"
  => missed

(* The thread waits for the mutex that it holds: only LogicSystem's own      *)
(* function, given to the socket as notified_fun, gets it there. *)
SelfLocked(t) == pc[t] = "lock" /\ notified_mutex = t
SelfLockCause == \A t \in Threads : SelfLocked(t) => t = Notifier /\ notified_fun = "logic"

(* Sessions queued and packages queued stay in step: none is waited for that *)
(* does not come, the logic layer has them in order and with their sessions, *)
(* and a thread waits for a package, for a mutex or asleep over a session    *)
(* for nothing only in the ways named. *)
NotifyInv ==
  TypeOKNotify /\ NeverSpins /\ OwnSession /\ LogicInOrder /\ SleepsUntold /\ SelfLockCause

(* A package reaches the logic layer unless a full queue gave up a package   *)
(* or a session (then one session too few is in the queue for good), or the  *)
(* notified thread has locked itself out, with the mutex all callers need.   *)
EachTaken ==
  \A n \in Packages :
    n <= arrived ~>
      \/ \E i \in DOMAIN logic : logic[i].package = n
      \/ lost # {} \/ tokenLost \/ SelfLocked(Notifier)

=============================================================================
