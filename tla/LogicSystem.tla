----------------------------- MODULE LogicSystem -----------------------------
(***************************************************************************)
(* MNet/MLogicSystem/MLogicSystem.h: the work thread of LogicSystem        *)
(* (ctrlRecvMsg), the threads that hand it messages (pushToMsgQueue) and   *)
(* the destructor that stops it.                                           *)
(*                                                                         *)
(* A message is its number in the order of pushes; its id has a registered *)
(* callback or not.  pushToMsgQueue is one critical section of m_lock and  *)
(* one step; the work thread holds m_lock over several.                    *)
(***************************************************************************)
EXTENDS Naturals, Sequences, SequencesExt

CONSTANT MaxMsgs   \* bound of the model: messages pushed

ASSUME MaxMsgsAssumption == MaxMsgs \in Nat

Msgs == 1 .. MaxMsgs

VARIABLES
  m_recv_msg_que,  \* messages, oldest first
  m_work_flag,     \* cleared by the destructor
  locked,          \* the work thread holds m_lock
  worker,          \* the next step of the work thread
  stopping,        \* the destructor: "no", "flag" cleared, "notified"
  known,           \* the messages pushed whose id has a callback
  pushes,          \* history: messages pushed
  beforeStop,      \* history: of those, pushed before the flag was cleared, if the
                   \* work thread was then on its way to test it in its lock
  called           \* history: the messages called for, a run of calls for
                   \* the same message counted once

historyVars == <<known, pushes, beforeStop, called>>
vars == <<m_recv_msg_que, m_work_flag, locked, worker, stopping, historyVars>>

Init ==
  /\ m_recv_msg_que = <<>>
  /\ m_work_flag = TRUE
  /\ locked = FALSE
  /\ worker = "loop"
  /\ stopping = "no"
  /\ known = {}
  /\ pushes = 0
  /\ beforeStop = 0
  /\ called = <<>>

Empty == m_recv_msg_que = <<>>

(* The callback runs. *)
CallFor(n) == IF called # <<>> /\ Last(called) = n THEN called ELSE Append(called, n)

(* notify_all: only the work thread ever waits on m_cond. *)
Wake(label) == IF label = "asleep" THEN "woken" ELSE label

(* A definition whose comment says Slip is the one after it with a plausible *)
(* mistake in it, there to see that the properties notice.                   *)

(* Slip: the size is read before the push. *)
PushToMsgQueueLateNotify(hasCallback) ==
  /\ pushes < MaxMsgs
  /\ ~ locked
  /\ pushes' = pushes + 1
  /\ known' = IF hasCallback THEN known \cup {pushes + 1} ELSE known
  /\ m_recv_msg_que' = Append(m_recv_msg_que, pushes + 1)
  /\ worker' = IF Len(m_recv_msg_que) = 1 THEN Wake(worker) ELSE worker
  /\ UNCHANGED <<m_work_flag, locked, stopping, beforeStop, called>>

(* pushToMsgQueue: the work thread is notified of the first message only. *)
PushToMsgQueue(hasCallback) ==
  /\ pushes < MaxMsgs
  /\ ~ locked
  /\ pushes' = pushes + 1
  /\ known' = IF hasCallback THEN known \cup {pushes + 1} ELSE known
  /\ m_recv_msg_que' = Append(m_recv_msg_que, pushes + 1)
  /\ worker' = IF Len(m_recv_msg_que') = 1 THEN Wake(worker) ELSE worker
  /\ UNCHANGED <<m_work_flag, locked, stopping, beforeStop, called>>

(* The work thread is not yet past its test of the flag in its lock; in a    *)
(* callback, or in the sleep after one, it is. *)
Attending == worker \in {"lock", "empty?", "wait", "asleep", "woken", "stopped?"}

(* The destructor: the flag, then the notification, neither under m_lock. *)
StopFlag ==
  /\ stopping = "no"
  /\ stopping' = "flag"
  /\ m_work_flag' = FALSE
  /\ beforeStop' = IF Attending THEN pushes ELSE 0
  /\ UNCHANGED <<m_recv_msg_que, locked, worker, known, pushes, called>>

StopNotify ==
  /\ stopping = "flag"
  /\ stopping' = "notified"
  /\ worker' = Wake(worker)
  /\ UNCHANGED <<m_recv_msg_que, m_work_flag, locked, historyVars>>

-----------------------------------------------------------------------------
(* The work thread: while (m_work_flag), *)
Loop ==
  /\ worker = "loop"
  /\ worker' = IF m_work_flag THEN "lock" ELSE "done"
  /\ UNCHANGED <<m_recv_msg_que, m_work_flag, locked, stopping, historyVars>>

(* m_lock, at the top of the body and when a wait returns; *)
Lock ==
  /\ worker \in {"lock", "woken"}
  /\ locked' = TRUE
  /\ worker' = "empty?"
  /\ UNCHANGED <<m_recv_msg_que, m_work_flag, stopping, historyVars>>

(* Slip: the wait does not look at the flag. *)
CheckEmptyOnly ==
  /\ worker = "empty?"
  /\ worker' = IF Empty THEN "wait" ELSE "stopped?"
  /\ UNCHANGED <<m_recv_msg_que, m_work_flag, locked, stopping, historyVars>>

(* the condition of the inner while, *)
CheckEmpty ==
  /\ worker = "empty?"
  /\ worker' = IF Empty /\ m_work_flag THEN "wait" ELSE "stopped?"
  /\ UNCHANGED <<m_recv_msg_que, m_work_flag, locked, stopping, historyVars>>

(* m_cond.wait gives m_lock back as it falls asleep, *)
Wait ==
  /\ worker = "wait"
  /\ locked' = FALSE
  /\ worker' = "asleep"
  /\ UNCHANGED <<m_recv_msg_que, m_work_flag, stopping, historyVars>>

(* and may return without a notification. *)
SpuriousWake ==
  /\ worker = "asleep"
  /\ worker' = "woken"
  /\ UNCHANGED <<m_recv_msg_que, m_work_flag, locked, stopping, historyVars>>

CheckStopped ==
  /\ worker = "stopped?"
  /\ worker' = IF m_work_flag THEN "front" ELSE "drain"
  /\ UNCHANGED <<m_recv_msg_que, m_work_flag, locked, stopping, historyVars>>

(* Slip: a message with a callback is dropped before it is called for. *)
DrainPopsFirst ==
  /\ worker = "drain"
  /\ \/ /\ Empty
        /\ worker' = "unlock_end"
        /\ UNCHANGED <<m_recv_msg_que, called>>
     \/ /\ ~ Empty
        /\ m_recv_msg_que' = Tail(m_recv_msg_que)
        /\ called' = IF Tail(m_recv_msg_que) # <<>> /\ Head(Tail(m_recv_msg_que)) \in known
                     THEN CallFor(Head(Tail(m_recv_msg_que))) ELSE called
        /\ UNCHANGED worker
  /\ UNCHANGED <<m_work_flag, locked, stopping, known, pushes, beforeStop>>

(* A stopped thread takes the messages one by one, calling for those that   *)
(* have a callback, and leaves the loop. *)
Drain ==
  /\ worker = "drain"
  /\ \/ /\ Empty
        /\ worker' = "unlock_end"
        /\ UNCHANGED <<m_recv_msg_que, called>>
     \/ /\ ~ Empty
        /\ called' = IF Head(m_recv_msg_que) \in known
                     THEN CallFor(Head(m_recv_msg_que)) ELSE called
        /\ m_recv_msg_que' = Tail(m_recv_msg_que)
        /\ UNCHANGED worker
  /\ UNCHANGED <<m_work_flag, locked, stopping, known, pushes, beforeStop>>

(* Slip: the newest message is taken. *)
CallFrontIsBack ==
  /\ worker = "front"
  /\ \/ /\ Last(m_recv_msg_que) \in known
        /\ called' = CallFor(Last(m_recv_msg_que))
        /\ UNCHANGED m_recv_msg_que
     \/ /\ Last(m_recv_msg_que) \notin known
        /\ m_recv_msg_que' = Tail(m_recv_msg_que)
        /\ UNCHANGED called
  /\ worker' = "unlock"
  /\ UNCHANGED <<m_work_flag, locked, stopping, known, pushes, beforeStop>>

(* A working thread calls for the oldest message and leaves it where it is; *)
(* one without a callback it takes out. *)
CallFront ==
  /\ worker = "front"
  /\ \/ /\ Head(m_recv_msg_que) \in known
        /\ called' = CallFor(Head(m_recv_msg_que))
        /\ UNCHANGED m_recv_msg_que
     \/ /\ Head(m_recv_msg_que) \notin known
        /\ m_recv_msg_que' = Tail(m_recv_msg_que)
        /\ UNCHANGED called
  /\ worker' = "unlock"
  /\ UNCHANGED <<m_work_flag, locked, stopping, known, pushes, beforeStop>>

(* The lock goes with the scope of the body, after the sleep. *)
Unlock ==
  /\ worker \in {"unlock", "unlock_end"}
  /\ locked' = FALSE
  /\ worker' = IF worker = "unlock" THEN "loop" ELSE "done"
  /\ UNCHANGED <<m_recv_msg_que, m_work_flag, stopping, historyVars>>

-----------------------------------------------------------------------------
WorkThread ==
  \/ Loop \/ Lock \/ CheckEmpty \/ Wait \/ CheckStopped
  \/ Drain \/ CallFront \/ Unlock

Next ==
  \/ WorkThread
  \/ SpuriousWake
  \/ \E hasCallback \in BOOLEAN : PushToMsgQueue(hasCallback)
  \/ StopFlag
  \/ StopNotify

Spec == Init /\ [][Next]_vars

(* The work thread is scheduled, and a destructor that has begun ends.  No   *)
(* wait is assumed to end without a notification.                            *)
FairSpec == Spec /\ WF_vars(WorkThread) /\ WF_vars(StopNotify)

-----------------------------------------------------------------------------
Labels == {"loop", "lock", "empty?", "wait", "asleep", "woken", "stopped?",
           "drain", "front", "unlock", "unlock_end", "done"}
Holding == {"empty?", "wait", "stopped?", "drain", "front", "unlock", "unlock_end"}

(* Type invariant; m_lock is held exactly where the code holds it. *)
TypeOK ==
  /\ m_recv_msg_que \in Seq(Msgs)
  /\ m_work_flag \in BOOLEAN
  /\ m_work_flag <=> stopping = "no"
  /\ worker \in Labels
  /\ locked \in BOOLEAN
  /\ locked <=> worker \in Holding
  /\ stopping \in {"no", "flag", "notified"}
  /\ known \subseteq 1 .. pushes
  /\ pushes \in 0 .. MaxMsgs
  /\ beforeStop \in 0 .. pushes
  /\ called \in Seq(known)

(* front() is never called on an empty queue: what CheckEmpty saw is still   *)
(* true two steps later, whatever the flag does in between.                  *)
FrontExists == worker = "front" => ~ Empty

(* Callbacks come in the order of the pushes and none is left out: when one  *)
(* runs for a message, it has run for every earlier one that has a callback. *)
CallsInOrder ==
  /\ \A i \in 2 .. Len(called) : called[i - 1] < called[i]
  /\ called # <<>> => \A n \in known : n < Last(called) => Contains(called, n)

(* No message is taken out of the queue without its callback. *)
NoneSkipped ==
  \A n \in known : Contains(m_recv_msg_que, n) \/ Contains(called, n)

(* A thread that is told to stop before its test of the flag in its lock     *)
(* handles all messages that had been pushed, as the comment at line 113     *)
(* says; one that is told later finds the flag cleared at line 103 and       *)
(* leaves its queue as it is. *)
DrainedIfAttending ==
  worker = "done" => \A n \in known : n <= beforeStop => Contains(called, n)

(* What the work thread saw stays true while it needs it, and the messages  *)
(* it is through with had their callbacks, in the order of the pushes. *)
LogicInv == TypeOK /\ FrontExists /\ CallsInOrder /\ NoneSkipped /\ DrainedIfAttending

(* While it works the thread never gets past the first message that has a    *)
(* callback: it is called for again and again, and only the stop drains      *)
(* what has queued up behind it.                                             *)
HeadOfLine == m_work_flag => Len(called) <= 1

(* A message at the head of the queue is called for or taken out, or the     *)
(* thread is told to stop: the one notification, of the first message, is    *)
(* enough to keep a thread from sleeping over a queue that is not empty.     *)
HeadServed ==
  \A n \in Msgs :
    (~ Empty /\ Head(m_recv_msg_que) = n)
      ~> (n \in Range(called) \/ n \notin known \/ ~ m_work_flag)

(* A stop ends the thread.  The one stop that is lost is the one whose       *)
(* notification comes between the test of the flag and the falling asleep:   *)
(* neither is under m_lock.                                                  *)
StopSeen ==
  /\ ~ m_work_flag
  /\ \/ worker \notin {"wait", "asleep"}
     \/ worker = "asleep" /\ stopping = "flag"
StopEnds == StopSeen ~> worker = "done"

=============================================================================
