--------------------------- MODULE MWebSocketSend ---------------------------
(***************************************************************************)
(* MWebSocketConnection::send of MNet/MWebSocket/MWebSocket.cpp: threads   *)
(* of the program and the completion handler of the last write share       *)
(* m_send_queue, which m_send_mutex guards, and the one async_write that   *)
(* the stream allows at a time, which nothing guards but the queue not     *)
(* being empty.  A block under m_send_mutex is one step.                   *)
(*                                                                         *)
(* A message is its number in the order of the calls.                      *)
(***************************************************************************)
EXTENDS Naturals, Sequences

CONSTANTS
  Users,       \* threads that call send
  Handler,     \* the strand of the connection, which runs the handler
  MaxMessages  \* bound of the model: calls of send

ASSUME HandlerAssumption == Handler \notin Users
ASSUME MaxMessagesAssumption == MaxMessages \in Nat

Agents == Users \cup {Handler}
Messages == 1 .. MaxMessages

VARIABLES
  m_send_queue,  \* messages, oldest first
  pc,            \* pc[a]: the next step of a
  data,          \* data[a]: the message that a's call of send was given
  writes,        \* stream: the messages of the async_writes under way
  posted,        \* stream: the error codes of completions not handled yet
  broken,        \* stream: the connection is lost
  made,          \* history: calls of send by users
  received       \* history: the messages the peer has read, and whether
                 \* their bytes were still there

streamVars == <<writes, posted, broken>>
vars == <<m_send_queue, pc, data, streamVars, made, received>>

Init ==
  /\ m_send_queue = <<>>
  /\ pc = [a \in Agents |-> "idle"]
  /\ data = [a \in Agents |-> 0]
  /\ writes = <<>>
  /\ posted = <<>>
  /\ broken = FALSE
  /\ made = 0
  /\ received = {}

Goto(a, from, to) ==
  /\ pc[a] = from
  /\ pc' = [pc EXCEPT ![a] = to]

(* A definition whose comment says Slip is the one after it with a plausible *)
(* mistake in it, there to see that the properties notice.                   *)

(* A user calls send. *)
Call(u) ==
  /\ made < MaxMessages
  /\ made' = made + 1
  /\ data' = [data EXCEPT ![u] = made + 1]
  /\ Goto(u, "idle", "push")
  /\ UNCHANGED <<m_send_queue, streamVars, received>>

(* Slip: the queue is not asked. *)
PushAlways(a) ==
  /\ m_send_queue' = Append(m_send_queue, data[a])
  /\ Goto(a, "push", "write")
  /\ UNCHANGED <<data, streamVars, made, received>>

(* Slip: one message waiting does not count. *)
PushOffByOne(a) ==
  /\ m_send_queue' = Append(m_send_queue, data[a])
  /\ Goto(a, "push", IF Len(m_send_queue) <= 1 THEN "write" ELSE "idle")
  /\ UNCHANGED <<data, streamVars, made, received>>

(* Slip: the length is taken after the push. *)
PushLateLength(a) ==
  /\ m_send_queue' = Append(m_send_queue, data[a])
  /\ Goto(a, "push", IF m_send_queue' = <<>> THEN "write" ELSE "idle")
  /\ UNCHANGED <<data, streamVars, made, received>>

(* send, under the mutex: the message is queued in any case, and the first  *)
(* in an empty queue is also written by its caller. *)
Push(a) ==
  /\ m_send_queue' = Append(m_send_queue, data[a])
  /\ Goto(a, "push", IF m_send_queue = <<>> THEN "write" ELSE "idle")
  /\ UNCHANGED <<data, streamVars, made, received>>

(* send, after the mutex: async_write. *)
Write(a) ==
  /\ Goto(a, "write", "idle")
  /\ writes' = Append(writes, data[a])
  /\ UNCHANGED <<m_send_queue, data, posted, broken, made, received>>

(* The stream writes.  It reads the bytes where async_write was shown them, *)
(* in the caller's string, which may be gone: the handler's always is.      *)
Transfer ==
  /\ writes # <<>>
  /\ ~ broken
  /\ \E intact \in BOOLEAN : received' = received \cup {<<Head(writes), intact>>}
  /\ writes' = Tail(writes)
  /\ posted' = Append(posted, "success")
  /\ UNCHANGED <<m_send_queue, pc, data, broken, made>>

Break ==
  /\ ~ broken
  /\ broken' = TRUE
  /\ UNCHANGED <<m_send_queue, pc, data, writes, posted, made, received>>

Fail ==
  /\ writes # <<>>
  /\ broken
  /\ writes' = Tail(writes)
  /\ posted' = Append(posted, "error")
  /\ UNCHANGED <<m_send_queue, pc, data, broken, made, received>>

(* The handler of a write: an error is logged, *)
HandleError ==
  /\ pc[Handler] = "idle"
  /\ posted # <<>>
  /\ Head(posted) = "error"
  /\ posted' = Tail(posted)
  /\ UNCHANGED <<m_send_queue, pc, data, writes, broken, made, received>>

HandleWritten ==
  /\ posted # <<>>
  /\ Head(posted) = "success"
  /\ posted' = Tail(posted)
  /\ Goto(Handler, "idle", "pop")
  /\ UNCHANGED <<m_send_queue, data, writes, broken, made, received>>

(* Slip: the message is not taken out. *)
PopNothing ==
  /\ pc[Handler] = "pop"
  /\ Goto(Handler, "pop", "push")
  /\ data' = [data EXCEPT ![Handler] = Head(m_send_queue)]
  /\ UNCHANGED <<m_send_queue, streamVars, made, received>>

(* and after a success the handler takes the oldest message of the queue,   *)
(* under the mutex, and calls send with it. *)
Pop ==
  /\ pc[Handler] = "pop"
  /\ \/ /\ m_send_queue = <<>>
        /\ Goto(Handler, "pop", "idle")
        /\ UNCHANGED <<m_send_queue, data>>
     \/ /\ m_send_queue # <<>>
        /\ Goto(Handler, "pop", "push")
        /\ data' = [data EXCEPT ![Handler] = Head(m_send_queue)]
        /\ m_send_queue' = Tail(m_send_queue)
  /\ UNCHANGED <<streamVars, made, received>>

-----------------------------------------------------------------------------
Send(a) == Push(a) \/ Write(a)
Handle == HandleError \/ HandleWritten \/ Pop \/ Send(Handler)
Stream == Transfer \/ Fail

Next ==
  \/ \E u \in Users : Call(u) \/ Send(u)
  \/ Handle
  \/ Stream
  \/ Break

Spec == Init /\ [][Next]_vars

(* A call that has begun ends, the strand runs, and the peer goes on        *)
(* reading while the connection stands.                                     *)
FairSpec ==
  /\ Spec
  /\ \A u \in Users : WF_vars(Send(u))
  /\ WF_vars(Handle)
  /\ WF_vars(Stream)

-----------------------------------------------------------------------------
(* Type invariant; the queue never holds more than was given to send. *)
TypeOK ==
  /\ m_send_queue \in Seq(Messages)
  /\ Len(m_send_queue) <= made
  /\ pc \in [Agents -> {"idle", "push", "write", "pop"}]
  /\ data \in [Agents -> Messages \cup {0}]
  /\ writes \in Seq(Messages)
  /\ posted \in Seq({"success", "error"})
  /\ broken \in BOOLEAN
  /\ made \in 0 .. MaxMessages
  /\ received \subseteq Messages \X BOOLEAN

(* A write is being started, is under way, or has its completion waiting or *)
(* in the handler. *)
Writing ==
  \/ \E a \in Agents : pc[a] = "write"
  \/ writes # <<>>
  \/ posted # <<>>
  \/ pc[Handler] = "pop"

(* The stream allows one async_write at a time.  send tests the queue under *)
(* the mutex and starts its write after it, while the handler takes the     *)
(* queue down to empty in between: that there is never a second write rests *)
(* on the message written staying in the queue until its write is handled.  *)
OneWrite ==
  /\ Len(writes) + Len(posted) <= 1
  /\ \A a, b \in Agents : pc[a] = "write" /\ pc[b] = "write" => a = b
  /\ (\E a \in Agents : pc[a] = "write") => writes = <<>> /\ posted = <<>>
  /\ pc[Handler] = "pop" =>
       writes = <<>> /\ posted = <<>> /\ \A a \in Agents : pc[a] # "write"

(* The queue a write is taken from is never empty until the write is        *)
(* handled, so that the handler always has a message to take and a caller   *)
(* that finds the queue empty is alone. *)
QueuedWhileWriting == Writing => m_send_queue # <<>>

(* One write at a time, of a message that stays in the queue: what send and *)
(* its handler rest on when they go through the queue in turns. *)
WebSocketInv == TypeOK /\ OneWrite /\ QueuedWhileWriting

(* A queue that holds messages while nothing is being written is stranded   *)
(* for good: every later send finds it not empty and leaves.  It comes      *)
(* about when a message waits behind the one that is written, because the   *)
(* handler puts that one back behind it.                                    *)
Stranded == m_send_queue # <<>> /\ ~ Writing /\ pc[Handler] = "idle"
StrandedForGood == [][Stranded => Stranded']_vars

(* A message pushed on an empty queue is written, whatever other callers     *)
(* and the handler do to the queue meanwhile, unless the connection is       *)
(* lost: one that is alone in the queue with none in the handler's hands,    *)
(* or whose caller is on its way to async_write. *)
First(m) ==
  \/ m_send_queue = <<m>> /\ pc[Handler] # "push"
  \/ \E u \in Users : pc[u] = "write" /\ data[u] = m
FirstIsRead ==
  \A m \in Messages :
    First(m) ~> (\E intact \in BOOLEAN : <<m, intact>> \in received) \/ broken
=============================================================================
