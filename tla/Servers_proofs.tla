---------------------------- MODULE Servers_proofs ----------------------------
(***************************************************************************)
(* Proofs about the two servers over Boost.Beast, which share no state:    *)
(* the connection of MWebSocket, and MHttpServer with its clients.         *)
(*                                                                         *)
(* For any threads, any strand and any number of messages: send starts     *)
(* one async_write at a time, and a stranded queue stays stranded.         *)
(*                                                                         *)
(* OneWrite is not inductive: a caller that finds the queue empty would    *)
(* start a second write if one could be under way with the queue empty.    *)
(* QueuedWhileWriting says that it cannot, and needs OneWrite in turn: the *)
(* handler may empty the queue because its write was the only one.         *)
(* SendTypes is the part of the type invariant that the steps need.        *)
(***************************************************************************)
EXTENDS MWebSocketSend, MHttpClient, FiniteSets, FiniteSetTheorems, SequenceTheorems, TLAPS

SendTypes ==
  /\ m_send_queue \in Seq(Messages)
  /\ pc \in [Agents -> {"idle", "push", "write", "pop"}]
  /\ data \in [Agents -> Messages \cup {0}]
  /\ \A a \in Agents : pc[a] \in {"push", "write"} => data[a] \in Messages
  /\ writes \in Seq(Messages)
  /\ posted \in Seq({"success", "error"})
  /\ made \in 0 .. MaxMessages

WriteInv == OneWrite /\ QueuedWhileWriting

SendInv == SendTypes /\ WriteInv

(* Taking the head of a sequence of at most one element leaves none. *)
LEMMA OneElement ==
  ASSUME NEW S, NEW s \in Seq(S), s # <<>>, Len(s) <= 1
  PROVE  Tail(s) = <<>>
<1>1. \A q \in Seq(S) : q # <<>> => Len(q) \in Nat \ {0}
  BY EmptySeq, Zenon
<1>2. Len(s) = 1
  <2>1. Len(s) \in Nat \ {0}
    BY <1>1, Zenon
  <2>2. QED
    BY <2>1
<1>3. Tail(s) \in Seq(S) /\ Len(Tail(s)) = Len(s) - 1
  BY HeadTailProperties
<1>4. Len(Tail(s)) \notin Nat \ {0}
  BY <1>2, <1>3
<1>5. QED
  BY <1>1, <1>3, <1>4, Zenon

(* The initial states satisfy the invariant. *)
LEMMA SendInit == Init => SendInv
BY HandlerAssumption, MaxMessagesAssumption
DEF Init, SendInv, SendTypes, WriteInv, OneWrite, QueuedWhileWriting, Writing, Agents

(* Every step keeps the types. *)
LEMMA TypesStep == SendTypes /\ [Next]_vars => SendTypes'
<1> SUFFICES ASSUME SendTypes, [Next]_vars PROVE SendTypes'
  OBVIOUS
<1> USE HandlerAssumption, MaxMessagesAssumption DEF SendTypes, Agents, Goto
<1>1. ASSUME NEW u \in Users, Call(u) PROVE SendTypes'
  BY <1>1 DEF Call, streamVars, Messages
<1>2. ASSUME NEW a \in Agents, Push(a) PROVE SendTypes'
  <2>1. data[a] \in Messages
    BY <1>2 DEF Push
  <2>2. m_send_queue' \in Seq(Messages)
    BY <1>2, <2>1 DEF Push
  <2>3. QED
    BY <1>2, <2>2 DEF Push, streamVars
<1>3. ASSUME NEW a \in Agents, Write(a) PROVE SendTypes'
  <2>1. data[a] \in Messages
    BY <1>3 DEF Write
  <2>2. QED
    BY <1>3, <2>1 DEF Write
<1>4. CASE Transfer
  BY <1>4 DEF Transfer
<1>5. CASE Break
  BY <1>5 DEF Break
<1>6. CASE Fail
  BY <1>6 DEF Fail
<1>7. CASE HandleError
  <2>1. Tail(posted) \in Seq({"success", "error"})
    BY <1>7, HeadTailProperties DEF HandleError
  <2>2. QED
    BY <1>7, <2>1 DEF HandleError
<1>8. CASE HandleWritten
  <2>1. Tail(posted) \in Seq({"success", "error"})
    BY <1>8, HeadTailProperties DEF HandleWritten
  <2>2. QED
    BY <1>8, <2>1 DEF HandleWritten
<1>9. CASE Pop
  <2>1. CASE m_send_queue = <<>>
    BY <1>9, <2>1 DEF Pop, streamVars
  <2>2. CASE m_send_queue # <<>>
    <3>1. Head(m_send_queue) \in Messages /\ Tail(m_send_queue) \in Seq(Messages)
      BY <2>2
    <3>2. QED
      BY <1>9, <2>2, <3>1 DEF Pop, streamVars
  <2>3. QED
    BY <2>1, <2>2
<1>10. CASE UNCHANGED vars
  BY <1>10 DEF vars, streamVars
<1>11. QED
  BY <1>1, <1>2, <1>3, <1>4, <1>5, <1>6, <1>7, <1>8, <1>9, <1>10
  DEF Next, Send, Handle, Stream

(* Every step keeps one write at a time and the queue it is written from   *)
(* not empty. *)
LEMMA WriteStep == SendInv /\ [Next]_vars => WriteInv'
<1> SUFFICES ASSUME SendTypes, WriteInv, [Next]_vars PROVE WriteInv'
  BY DEF SendInv
<1> USE HandlerAssumption DEF SendTypes, Agents, Goto, WriteInv, OneWrite, QueuedWhileWriting,
       Writing
<1>1. ASSUME NEW u \in Users, Call(u) PROVE WriteInv'
  BY <1>1 DEF Call, streamVars
<1>2. ASSUME NEW a \in Agents, Push(a) PROVE WriteInv'
  <2>1. data[a] \in Messages
    BY <1>2 DEF Push
  <2>2. m_send_queue' # <<>>
    BY <1>2, <2>1 DEF Push
  <2>3. CASE m_send_queue = <<>>
    <3>1. ~ Writing
      BY <2>3
    <3>2. QED
      BY <1>2, <2>2, <2>3, <3>1 DEF Push, streamVars
  <2>4. CASE m_send_queue # <<>>
    BY <1>2, <2>2, <2>4 DEF Push, streamVars
  <2>5. QED
    BY <2>3, <2>4
<1>3. ASSUME NEW a \in Agents, Write(a) PROVE WriteInv'
  <2>1. writes = <<>> /\ posted = <<>> /\ m_send_queue # <<>>
    BY <1>3 DEF Write
  <2>2. writes' = <<data[a]>>
    BY <1>3, <2>1 DEF Write
  <2>3. QED
    BY <1>3, <2>1, <2>2 DEF Write
<1>4. CASE Transfer
  <2>1. writes # <<>> /\ Len(writes) <= 1 /\ posted = <<>>
    BY <1>4, EmptySeq DEF Transfer
  <2>2. writes' = <<>> /\ posted' = <<"success">>
    BY <1>4, <2>1, OneElement DEF Transfer
  <2>3. QED
    BY <1>4, <2>1, <2>2 DEF Transfer
<1>5. CASE Break
  BY <1>5 DEF Break
<1>6. CASE Fail
  <2>1. writes # <<>> /\ Len(writes) <= 1 /\ posted = <<>>
    BY <1>6, EmptySeq DEF Fail
  <2>2. writes' = <<>> /\ posted' = <<"error">>
    BY <1>6, <2>1, OneElement DEF Fail
  <2>3. QED
    BY <1>6, <2>1, <2>2 DEF Fail
<1>7. CASE HandleError
  <2>1. posted # <<>> /\ Len(posted) <= 1 /\ writes = <<>>
    BY <1>7, EmptySeq DEF HandleError
  <2>2. posted' = <<>>
    BY <1>7, <2>1, OneElement DEF HandleError
  <2>3. QED
    BY <1>7, <2>1, <2>2 DEF HandleError
<1>8. CASE HandleWritten
  <2>1. posted # <<>> /\ Len(posted) <= 1 /\ writes = <<>>
    BY <1>8, EmptySeq DEF HandleWritten
  <2>2. posted' = <<>>
    BY <1>8, <2>1, OneElement DEF HandleWritten
  <2>3. QED
    BY <1>8, <2>1, <2>2 DEF HandleWritten
<1>9. CASE Pop
  <2>1. m_send_queue # <<>>
    BY <1>9 DEF Pop
  <2>2. QED
    BY <1>9, <2>1 DEF Pop, streamVars
<1>10. CASE UNCHANGED vars
  BY <1>10 DEF vars, streamVars
<1>11. QED
  BY <1>1, <1>2, <1>3, <1>4, <1>5, <1>6, <1>7, <1>8, <1>9, <1>10
  DEF Next, Send, Handle, Stream

(* The invariant holds of every reachable state. *)
LEMMA SendInvariant == Spec => []SendInv
<1>1. SendInv /\ [Next]_vars => SendInv'
  BY TypesStep, WriteStep DEF SendInv
<1>2. QED
  BY SendInit, <1>1, PTL DEF Spec

(* send never starts an async_write while another is under way. *)
THEOREM OneWriteCorrect == Spec => []OneWrite
<1>1. SendInv => OneWrite
  BY DEF SendInv, WriteInv
<1>2. QED
  BY SendInvariant, <1>1, PTL

(* The queue a write is taken from is not empty while it is under way. *)
THEOREM QueuedCorrect == Spec => []QueuedWhileWriting
<1>1. SendInv => QueuedWhileWriting
  BY DEF SendInv, WriteInv
<1>2. QED
  BY SendInvariant, <1>1, PTL

(* No step frees a queue that holds messages while nothing is written. *)
THEOREM StrandedStays == Spec => StrandedForGood
<1>1. SendInv /\ [Next]_vars => (Stranded => Stranded')
  <2> SUFFICES ASSUME SendTypes, [Next]_vars, Stranded PROVE Stranded'
    BY DEF SendInv
  <2> USE HandlerAssumption DEF SendTypes, Agents, Goto, Stranded, Writing
  <2>1. ASSUME NEW u \in Users, Call(u) PROVE Stranded'
    BY <2>1 DEF Call, streamVars
  <2>2. ASSUME NEW a \in Agents, Push(a) PROVE Stranded'
    <3>1. data[a] \in Messages
      BY <2>2 DEF Push
    <3>2. m_send_queue' # <<>>
      BY <2>2, <3>1 DEF Push
    <3>3. QED
      BY <2>2, <3>2 DEF Push, streamVars
  <2>3. ASSUME NEW a \in Agents, Write(a) PROVE Stranded'
    BY <2>3 DEF Write
  <2>4. CASE Break
    BY <2>4 DEF Break
  <2>5. CASE Transfer \/ Fail \/ HandleError \/ HandleWritten \/ Pop
    BY <2>5 DEF Transfer, Fail, HandleError, HandleWritten, Pop
  <2>6. CASE UNCHANGED vars
    BY <2>6 DEF vars, streamVars
  <2>7. QED
    BY <2>1, <2>2, <2>3, <2>4, <2>5, <2>6 DEF Next, Send, Handle, Stream
<1>2. QED
  BY SendInvariant, <1>1, PTL DEF Spec, StrandedForGood

-----------------------------------------------------------------------------
(* The rest of the type invariant.  A message is in the queue or with an     *)
(* agent that is about to push it, so that the queue never holds more than   *)
(* was given to send: the handler puts back only what it has taken out.      *)
Pushers == {a \in Agents : pc[a] = "push"}

Bounded ==
  /\ IsFiniteSet(Pushers)
  /\ Len(m_send_queue) + Cardinality(Pushers) <= made
  /\ broken \in BOOLEAN
  /\ received \subseteq Messages \X BOOLEAN

LEMMA BoundedInit == Init => Bounded
<1> SUFFICES ASSUME Init PROVE Bounded
  OBVIOUS
<1>1. Pushers = {}
  BY DEF Init, Pushers
<1>2. IsFiniteSet(Pushers) /\ Cardinality(Pushers) = 0
  BY <1>1, FS_EmptySet
<1>3. Len(m_send_queue) = 0 /\ made = 0 /\ broken \in BOOLEAN /\ received \subseteq Messages \X BOOLEAN
  BY DEF Init
<1>4. QED
  BY <1>2, <1>3 DEF Bounded

LEMMA BoundedStep == SendInv /\ Bounded /\ [Next]_vars => Bounded'
<1> SUFFICES ASSUME SendInv, Bounded, [Next]_vars PROVE Bounded'
  OBVIOUS
<1>0. /\ m_send_queue \in Seq(Messages) /\ Len(m_send_queue) \in Nat
      /\ pc \in [Agents -> {"idle", "push", "write", "pop"}]
      /\ writes \in Seq(Messages) /\ made \in Nat
      /\ IsFiniteSet(Pushers) /\ Cardinality(Pushers) \in Nat
      /\ Len(m_send_queue) + Cardinality(Pushers) <= made
  BY MaxMessagesAssumption, FS_CardinalityType DEF SendInv, SendTypes, Bounded
<1>1. ASSUME NEW u \in Users, Call(u) PROVE Bounded'
  <2>1. u \notin Pushers /\ Pushers' = Pushers \cup {u}
    BY <1>0, <1>1 DEF Call, Goto, Pushers, Agents
  <2>2. IsFiniteSet(Pushers') /\ Cardinality(Pushers') = Cardinality(Pushers) + 1
    BY <1>0, <2>1, FS_AddElement
  <2>3. made' = made + 1 /\ UNCHANGED <<m_send_queue, broken, received>>
    BY <1>1 DEF Call, streamVars
  <2>4. Len(m_send_queue') + Cardinality(Pushers') <= made'
    BY <1>0, <2>2, <2>3
  <2>5. QED
    BY <2>2, <2>3, <2>4 DEF Bounded
<1>2. ASSUME NEW a \in Agents, Push(a) PROVE Bounded'
  <2>1. a \in Pushers /\ Pushers' = Pushers \ {a}
    BY <1>0, <1>2 DEF Push, Goto, Pushers
  <2>2. IsFiniteSet(Pushers') /\ Cardinality(Pushers') = Cardinality(Pushers) - 1
    BY <1>0, <2>1, FS_RemoveElement
  <2>3. Len(m_send_queue') = Len(m_send_queue) + 1
    BY <1>0, <1>2 DEF Push
  <2>4. UNCHANGED <<made, broken, received>>
    BY <1>2 DEF Push, streamVars
  <2>5. QED
    BY <1>0, <2>2, <2>3, <2>4 DEF Bounded
<1>3. CASE Pop
  <2>1. m_send_queue # <<>>
    BY <1>3 DEF Pop, SendInv, WriteInv, QueuedWhileWriting, Writing
  <2>2. m_send_queue' = Tail(m_send_queue) /\ UNCHANGED <<made, broken, received>>
    BY <1>3, <2>1 DEF Pop, streamVars
  <2>3. Len(m_send_queue') = Len(m_send_queue) - 1
    BY <1>0, <2>1, <2>2, HeadTailProperties
  <2>4. Handler \in Agents /\ Handler \notin Pushers /\ Pushers' = Pushers \cup {Handler}
    BY <1>0, <1>3, <2>1 DEF Pop, Goto, Pushers, Agents
  <2>5. IsFiniteSet(Pushers') /\ Cardinality(Pushers') = Cardinality(Pushers) + 1
    BY <1>0, <2>4, FS_AddElement
  <2>6. Len(m_send_queue') + Cardinality(Pushers') <= made'
    <3>1. made' = made
      BY <2>2
    <3>2. QED
      BY <1>0, <2>3, <2>5, <3>1
  <2>7. QED
    BY <2>2, <2>5, <2>6 DEF Bounded
<1>4. CASE Transfer
  <2>1. Head(writes) \in Messages
    BY <1>0, <1>4 DEF Transfer
  <2>2. Pushers' = Pushers /\ UNCHANGED <<m_send_queue, made, broken>>
    BY <1>4 DEF Transfer, Pushers
  <2>3. received' \subseteq Messages \X BOOLEAN
    BY <1>4, <2>1 DEF Transfer, Bounded
  <2>4. QED
    BY <2>2, <2>3 DEF Bounded
<1>5. ASSUME Pushers' = Pushers, UNCHANGED <<m_send_queue, made, received>>, broken' \in BOOLEAN
      PROVE  Bounded'
  BY <1>5 DEF Bounded
<1>6. ASSUME NEW a \in Agents, Write(a) PROVE Bounded'
  <2>1. Pushers' = Pushers
    BY <1>0, <1>6 DEF Write, Goto, Pushers
  <2>2. QED
    BY <1>5, <1>6, <2>1 DEF Write, Bounded
<1>7. CASE Break \/ Fail \/ HandleError
  <2>1. Pushers' = Pushers
    BY <1>7 DEF Break, Fail, HandleError, Pushers
  <2>2. QED
    BY <1>5, <1>7, <2>1 DEF Break, Fail, HandleError, Bounded
<1>8. CASE HandleWritten
  <2>1. Pushers' = Pushers
    BY <1>0, <1>8 DEF HandleWritten, Goto, Pushers, Agents
  <2>2. QED
    BY <1>5, <1>8, <2>1 DEF HandleWritten, Bounded
<1>9. CASE UNCHANGED vars
  <2>1. Pushers' = Pushers
    BY <1>9 DEF vars, Pushers
  <2>2. QED
    BY <1>5, <1>9, <2>1 DEF vars, streamVars, Bounded
<1>10. QED
  BY <1>1, <1>2, <1>3, <1>4, <1>6, <1>7, <1>8, <1>9
  DEF Next, Send, Handle, Stream, Agents

(* One write at a time of a message that stays in the queue, and a queue     *)
(* that never grows past what was given to send, as the run checks them.     *)
THEOREM WebSocketCorrect == Spec => []WebSocketInv
<1>1. SendInv /\ Bounded => WebSocketInv
  <2> SUFFICES ASSUME SendInv, Bounded PROVE WebSocketInv
    OBVIOUS
  <2>1. Cardinality(Pushers) \in Nat /\ Len(m_send_queue) \in Nat /\ made \in Nat
    BY MaxMessagesAssumption, FS_CardinalityType DEF Bounded, SendInv, SendTypes
  <2>2. Len(m_send_queue) <= made
    BY <2>1 DEF Bounded
  <2>3. TypeOK
    BY <2>2 DEF SendInv, SendTypes, Bounded, TypeOK
  <2>4. QED
    BY <2>3 DEF SendInv, WriteInv, WebSocketInv
<1>2. Spec => []Bounded
  BY SendInvariant, BoundedInit, BoundedStep, PTL DEF Spec
<1>3. QED
  BY SendInvariant, <1>1, <1>2, PTL

-----------------------------------------------------------------------------
(* MHttpServer and its clients, for any number of connections and targets.   *)

(* What is known of one connection.  The first three are LifeIsDeadline; of  *)
(* the rest, HandleRead needs that a connection without a mapped deadline    *)
(* was late, and the handler of a failed write why it failed.                *)
ConnOK(c) ==
  /\ m_socket[c] = "none" <=> deadline[c] = "off"
  /\ m_socket[c] = "open" <=> Outstanding(c)
  /\ server = "alive" => (c \in m_connection_mapping <=> Outstanding(c))
  /\ server = "destroyed" /\ Outstanding(c) => c \in orphans
  /\ m_socket[c] = "none" => read[c] = "off"
  /\ read[c] # "handled" => write[c] = "off"
  /\ deadline[c] = "handled" /\ read[c] # "handled" => late[c]
  /\ late[c] => deadline[c] = "handled"
  /\ write[c] = "error" => late[c] \/ peer[c] = "gone"

(* ... and what of its peer. *)
PeerOK(c) ==
  /\ read[c] = "ok" => wire[c] \in Requests
  /\ client[c] \in {"new", "resolve", "connect", "write"} => wire[c] = Nothing
  /\ client[c] \in {"new", "resolve", "connect"} => peer[c] = "absent"
  /\ client[c] = "eof" => deadline[c] = "handled"
  /\ client[c] # "parsed"

HttpIInv ==
  /\ TypeOKHttp
  /\ \A c \in Conns : ConnOK(c)
  /\ \A c \in Conns : PeerOK(c)
  /\ DanglingCause
  /\ ThrowCause

(* A handler has thrown, or used a server that is gone, and nothing follows. *)
LEMMA UpMeans == Up => thrown = {} /\ dangling = {}
  BY DEF Up

LEMMA NothingIsNoRequest == Nothing \notin Requests
<1>1. \A r \in Requests : Len(r) = 2
  BY DEF Requests
<1>2. Len(Nothing) = 0
  BY DEF Nothing
<1> QED
  BY <1>1, <1>2

LEMMA InvHttp == HttpIInv => HttpInv /\ AnswerHeldBack
  BY DEF HttpIInv, HttpInv, AnswerHeldBack, LifeIsDeadline, ConnOK, PeerOK

LEMMA HttpInit == InitHttp => HttpIInv
<1> SUFFICES ASSUME InitHttp PROVE HttpIInv
  OBVIOUS
<1> USE DEF InitHttp, InitServer
<1>1. TypeOKHttp
  BY DEF TypeOKHttp, Operation, Statuses, Sent
<1>2. \A c \in Conns : ConnOK(c) /\ PeerOK(c)
  BY DEF ConnOK, PeerOK, Outstanding
<1>3. DanglingCause /\ ThrowCause
  BY DEF DanglingCause, ThrowCause
<1> QED
  BY <1>1, <1>2, <1>3 DEF HttpIInv

-----------------------------------------------------------------------------
(* The server's handlers. *)
LEMMA AcceptInv ==
  ASSUME HttpIInv, NEW c \in Conns, Accept(c), UNCHANGED clientVars
  PROVE  HttpIInv'
<1> USE DEF Accept, Start, clientVars, peerVars
<1>1. thrown = {} /\ dangling = {} /\ TypeOKHttp
  BY UpMeans DEF HttpIInv
<1>2. TypeOKHttp'
  BY <1>1 DEF TypeOKHttp, Operation
<1>3. ASSUME NEW d \in Conns PROVE ConnOK(d)' /\ PeerOK(d)'
  BY <1>1 DEF HttpIInv, ConnOK, PeerOK, Outstanding, TypeOKHttp
<1>4. DanglingCause' /\ ThrowCause'
  BY <1>1 DEF DanglingCause, ThrowCause
<1> QED
  BY <1>2, <1>3, <1>4 DEF HttpIInv

LEMMA HandleReadInv ==
  ASSUME HttpIInv, NEW c \in Conns, HandleRead(c), UNCHANGED clientVars
  PROVE  HttpIInv'
<1> USE DEF HandleRead, clientVars, peerVars, serverVars
<1>1. thrown = {} /\ dangling = {} /\ TypeOKHttp /\ ConnOK(c) /\ PeerOK(c)
  BY UpMeans DEF HttpIInv
<1>2. TypeOKHttp'
  <2>1. read' \in [Conns -> Operation] /\ write' \in [Conns -> Operation]
    BY <1>1 DEF TypeOKHttp, Operation
  <2>2. m_response' \in [Conns -> Statuses]
    <3>1. \A r \in Requests : Status(r) \in Statuses
      BY DEF Requests, Verbs, Status, Statuses
    <3> QED
      BY <1>1, <3>1 DEF TypeOKHttp, PeerOK
  <2>3. dangling' \subseteq Conns /\ thrown' \subseteq Conns
    BY <1>1
  <2> QED
    BY <1>1, <2>1, <2>2, <2>3 DEF TypeOKHttp
<1>3. ASSUME NEW d \in Conns PROVE ConnOK(d)'
  BY <1>1 DEF HttpIInv, ConnOK, Outstanding, TypeOKHttp, Operation
<1>4. ASSUME NEW d \in Conns PROVE PeerOK(d)'
  BY <1>1 DEF HttpIInv, PeerOK, TypeOKHttp
<1>5. DanglingCause'
  BY <1>1 DEF DanglingCause, ConnOK, Outstanding, TypeOKHttp, Operation
<1>6. ThrowCause'
  <2> SUFFICES ASSUME NEW d \in thrown'
               PROVE  d = c /\ write'[d] = "off" /\ Loads(d)'
    BY DEF ThrowCause
  <2>1. d = c /\ Loads(c) /\ UNCHANGED write
    BY <1>1
  <2>2. write[c] = "off"
    BY <1>1 DEF ConnOK
  <2> QED
    BY <2>1, <2>2 DEF Loads, Gets
<1> QED
  BY <1>2, <1>3, <1>4, <1>5, <1>6 DEF HttpIInv

LEMMA HandleWriteInv ==
  ASSUME HttpIInv, NEW c \in Conns, HandleWrite(c), UNCHANGED clientVars
  PROVE  HttpIInv'
<1> USE DEF HandleWrite, clientVars, peerVars, serverVars
<1>1. thrown = {} /\ dangling = {} /\ TypeOKHttp /\ ConnOK(c)
  BY UpMeans DEF HttpIInv
<1>2. TypeOKHttp'
  BY <1>1 DEF TypeOKHttp, Operation
<1>3. ASSUME NEW d \in Conns PROVE ConnOK(d)'
  BY <1>1 DEF HttpIInv, ConnOK, Outstanding, TypeOKHttp
<1>4. ASSUME NEW d \in Conns PROVE PeerOK(d)'
  BY <1>1 DEF HttpIInv, PeerOK, TypeOKHttp
<1>5. DanglingCause' /\ ThrowCause'
  BY <1>1 DEF DanglingCause, ThrowCause, ConnOK
<1> QED
  BY <1>2, <1>3, <1>4, <1>5 DEF HttpIInv

LEMMA HandleDeadlineInv ==
  ASSUME HttpIInv, NEW c \in Conns, HandleDeadline(c), UNCHANGED clientVars
  PROVE  HttpIInv'
<1> USE DEF HandleDeadline, Aborted, clientVars, peerVars
<1>1. thrown = {} /\ dangling = {} /\ TypeOKHttp /\ ConnOK(c)
  BY UpMeans DEF HttpIInv
<1>2. TypeOKHttp'
  BY <1>1 DEF TypeOKHttp, Operation
<1>3. ASSUME NEW d \in Conns PROVE ConnOK(d)'
  BY <1>1 DEF HttpIInv, ConnOK, Outstanding, TypeOKHttp
<1>4. ASSUME NEW d \in Conns PROVE PeerOK(d)'
  BY <1>1 DEF HttpIInv, PeerOK, TypeOKHttp
<1>5. DanglingCause' /\ ThrowCause'
  BY <1>1 DEF DanglingCause, ThrowCause, ConnOK, Outstanding, TypeOKHttp
<1> QED
  BY <1>2, <1>3, <1>4, <1>5 DEF HttpIInv

(* The network and the clock. *)
LEMMA NetworkInv ==
  ASSUME HttpIInv, NEW c \in Conns, ReadCompletes(c) \/ WriteCompletes(c) \/ Expire(c),
         UNCHANGED clientVars
  PROVE  HttpIInv'
<1> USE DEF ReadCompletes, WriteCompletes, Expire, clientVars, peerVars, serverVars, ghostVars
<1>1. thrown = {} /\ dangling = {} /\ TypeOKHttp /\ ConnOK(c) /\ PeerOK(c)
  BY UpMeans DEF HttpIInv
<1>2. TypeOKHttp'
  BY <1>1 DEF TypeOKHttp, Operation
<1>3. ASSUME NEW d \in Conns PROVE ConnOK(d)'
  BY <1>1 DEF HttpIInv, ConnOK, Outstanding, TypeOKHttp
<1>4. ASSUME NEW d \in Conns PROVE PeerOK(d)'
  BY <1>1 DEF HttpIInv, PeerOK, TypeOKHttp
<1>5. DanglingCause' /\ ThrowCause'
  BY <1>1 DEF DanglingCause, ThrowCause
<1> QED
  BY <1>2, <1>3, <1>4, <1>5 DEF HttpIInv

(* What the program does to the server. *)
LEMMA ProgramInv ==
  ASSUME HttpIInv, Destroy \/ (\E t \in Targets : Register(t)), UNCHANGED clientVars
  PROVE  HttpIInv'
<1> USE DEF Destroy, Register, clientVars, connVars, peerVars, ghostVars
<1>1. thrown = {} /\ dangling = {} /\ TypeOKHttp
  BY UpMeans DEF HttpIInv
<1>2. TypeOKHttp'
  BY <1>1 DEF TypeOKHttp
<1>3. ASSUME NEW d \in Conns PROVE ConnOK(d)' /\ PeerOK(d)'
  BY <1>1 DEF HttpIInv, ConnOK, PeerOK, Outstanding
<1>4. DanglingCause' /\ ThrowCause'
  BY <1>1 DEF DanglingCause, ThrowCause
<1> QED
  BY <1>2, <1>3, <1>4 DEF HttpIInv

-----------------------------------------------------------------------------
(* The peers. *)
LEMMA ClientInv ==
  ASSUME HttpIInv, NEW c \in Conns, ClientStep(c)
  PROVE  HttpIInv'
<1> USE DEF ClientGoto, ServerUnchanged, serverVars, connVars, ghostVars, peerVars
<1>1. thrown = {} /\ dangling = {} /\ TypeOKHttp /\ ConnOK(c) /\ PeerOK(c)
  BY UpMeans DEF HttpIInv, ClientStep, Construct, OtherPeer, HandleResolver, HandleConnect,
                 HandleWriteRequest, HandleResponse, Leave
<1>2. /\ UNCHANGED <<server, m_connection_mapping, m_file_mapping, m_socket, read, write,
                     deadline, m_response, late, orphans, thrown, dangling, delivered>>
      /\ \A d \in Conns : peer[d] = "gone" => peer'[d] = "gone"
  BY <1>1 DEF ClientStep, Construct, OtherPeer, HandleResolver, HandleConnect,
              HandleWriteRequest, HandleResponse, Leave, TypeOKHttp, PeerOK
<1>3. TypeOKHttp'
  <2>1. CASE Construct(c)
    BY <1>1, <2>1 DEF Construct, TypeOKHttp, Sent, Requests, Verbs
  <2>2. CASE OtherPeer(c)
    BY <1>1, <2>2 DEF OtherPeer, TypeOKHttp, Sent
  <2>3. CASE HandleResolver(c) \/ HandleConnect(c)
    BY <1>1, <2>3 DEF HandleResolver, HandleConnect, TypeOKHttp
  <2>4. CASE HandleWriteRequest(c)
    BY <1>1, <2>4 DEF HandleWriteRequest, TypeOKHttp, Sent
  <2>5. CASE HandleResponse(c) \/ Leave(c)
    BY <1>1, <2>5 DEF HandleResponse, Leave, TypeOKHttp
  <2> QED
    BY <2>1, <2>2, <2>3, <2>4, <2>5 DEF ClientStep
<1>4. ASSUME NEW d \in Conns PROVE ConnOK(d)'
  BY <1>2 DEF HttpIInv, ConnOK, Outstanding
<1>5. ASSUME NEW d \in Conns PROVE PeerOK(d)'
  <2>0. PeerOK(d) /\ ConnOK(d)
    BY DEF HttpIInv
  <2>1. CASE Construct(c)
    BY <1>1, <2>0, <2>1 DEF Construct, TypeOKHttp, PeerOK
  <2>2. CASE OtherPeer(c)
    BY <1>1, <2>0, <2>2 DEF OtherPeer, TypeOKHttp, PeerOK
  <2>3. CASE HandleResolver(c) \/ HandleConnect(c)
    BY <1>1, <2>0, <2>3 DEF HandleResolver, HandleConnect, TypeOKHttp, PeerOK
  <2>4. CASE HandleWriteRequest(c)
    <3>1. client[c] = "write" /\ read[c] # "ok"
      BY <1>1, <2>4, NothingIsNoRequest DEF HandleWriteRequest, PeerOK
    <3> QED
      BY <1>1, <1>2, <2>0, <2>4, <3>1 DEF HandleWriteRequest, TypeOKHttp, PeerOK
  <2>5. CASE HandleResponse(c) \/ Leave(c)
    BY <1>1, <2>0, <2>5
       DEF HandleResponse, ReadEnds, Leave, TypeOKHttp, PeerOK, ConnOK, Outstanding, Operation
  <2> QED
    BY <2>1, <2>2, <2>3, <2>4, <2>5 DEF ClientStep
<1>6. DanglingCause' /\ ThrowCause'
  BY <1>1, <1>2 DEF DanglingCause, ThrowCause
<1> QED
  BY <1>3, <1>4, <1>5, <1>6 DEF HttpIInv

-----------------------------------------------------------------------------
LEMMA HttpInductive == SpecHttp => []HttpIInv
<1>1. HttpIInv /\ [NextHttp]_httpVars => HttpIInv'
  <2> SUFFICES ASSUME HttpIInv, [NextHttp]_httpVars PROVE HttpIInv'
    OBVIOUS
  <2>1. ASSUME NEW c \in Conns, Serving(c) PROVE HttpIInv'
    BY <2>1, AcceptInv, HandleReadInv, HandleWriteInv, HandleDeadlineInv, NetworkInv
       DEF Serving, ServerStep, NetworkStep
  <2>2. ASSUME NEW c \in Conns, ClientStep(c) PROVE HttpIInv'
    BY <2>2, ClientInv
  <2>3. ASSUME Destroy \/ (\E t \in Targets : Register(t)), UNCHANGED clientVars
        PROVE  HttpIInv'
    BY <2>3, ProgramInv
  <2>4. CASE UNCHANGED httpVars
    BY <2>4 DEF httpVars, serverVars, connVars, ghostVars, peerVars, clientVars, HttpIInv, TypeOKHttp,
                ConnOK, PeerOK, Outstanding, DanglingCause, ThrowCause, Loads, Gets
  <2> QED
    BY <2>1, <2>2, <2>3, <2>4 DEF NextHttp
<1> QED
  BY HttpInit, <1>1, PTL DEF SpecHttp

(* A connection lives exactly as long as its deadline is outstanding; the    *)
(* thread is ended only by a registered file that could not be loaded for a  *)
(* request, or by an answer that could not be written to a peer that had     *)
(* left or before its deadline; and a server that is gone is used only by    *)
(* connections that were there at its end, or were late, or came after it.   *)
THEOREM HttpCorrect == SpecHttp => []HttpInv
<1> QED
  BY HttpInductive, InvHttp, PTL

(* The client has nothing in its hands before the deadline has closed its    *)
(* connection, and parses no answer at all.                                  *)
THEOREM NothingBeforeDeadline == SpecHttp => []AnswerHeldBack
<1> QED
  BY HttpInductive, InvHttp, PTL
=============================================================================
