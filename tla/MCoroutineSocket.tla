-------------------------- MODULE MCoroutineSocket --------------------------
(***************************************************************************)
(* MNet/MCoroutineSocket: MCoroutineServer::accept and the coroutines that *)
(* MCoroutineSocket::readFromSocket spawns, on one session and one io      *)
(* thread, with a thread of the program that takes packages.               *)
(*                                                                         *)
(* accept arms itself again with the session it was given, and its handler *)
(* looks at no error: while the socket is open every accept completes at   *)
(* once (already_open) and runs the callback again.  Each coroutine reads  *)
(* one package through recv_tmp_buff into recv_tmp_package, which all      *)
(* coroutines of the session, and all entries of recv_completed_queue,     *)
(* share.                                                                  *)
(*                                                                         *)
(* Bytes are grouped in units: the header, the message, and the byte that  *)
(* ends a package.  A read fills recv_tmp_buff when the bytes come (Recv)  *)
(* and its coroutine goes on later (Resume); a closing socket cancels only *)
(* reads that have not been filled.                                        *)
(***************************************************************************)
EXTENDS Naturals, Sequences, FiniteSets

CONSTANTS
  Coros,        \* the coroutines that calls of readFromSocket may spawn
  MaxPackages,  \* bound of the model: packages the peers send
  MaxConns      \* bound of the model: connections the acceptor takes

ASSUME CoroAssumption ==
  IsFiniteSet(Coros) /\ MaxPackages \in Nat /\ MaxConns \in Nat

Heads == {"head", "empty", "bad", "small"}
Parts == Heads \cup {"body", "rest"}
Units == (1 .. MaxPackages) \X Parts
NoUnit == <<0, "none">>
Bytes == Units \cup {NoUnit}

(* Units of a package by its header: one with no message has one unit less,  *)
(* and a small one states fewer bytes than the header itself has. *)
TotalOf(part) == IF part = "small" THEN 0 ELSE IF part = "empty" THEN 2 ELSE 3

VARIABLES
  accepting,      \* the armed async_accept: "waiting", or "posted" with an error
  open,           \* the socket of the session is open
  close_flag,     \* MSession::close_flag
  recv_pending,   \* MSession::recv_pending
  coro,           \* coro[i]: where coroutine i is
  need,           \* need[i]: units its read asks for
  tmp_buff,       \* recv_tmp_buff: the bytes at its start, and after a header
  node,           \* recv_tmp_package
  completed,      \* recv_completed_queue: for each entry, the node when pushed
  notices,        \* entries of session_notified_queue
  stream,         \* the socket's bytes not read yet
  lost,           \* the peer has gone
  sent,           \* packages sent so far, over all connections
  conns,          \* connections accepted so far
  first,          \* history: the first package of the present connection
  overlap,        \* history: two coroutines have read at once
  cut,            \* history: the session was closed under a coroutine
  pushed,         \* history: what was pushed
  polled,         \* history: a package was taken without a notice
  taken           \* history: the last entry taken, what its reader saw, and
                  \* whether it was notified

sessionVars == <<open, close_flag, recv_pending>>
coroVars == <<coro, need, tmp_buff, node>>
queueVars == <<completed, notices, pushed, polled, taken>>
peerVars == <<stream, lost, sent, conns, first>>
historyVars == <<overlap, cut>>
socketVars == <<accepting, sessionVars, coroVars, queueVars, peerVars, historyVars>>

Waiting == {"head", "body", "rest", "beyond"}  \* in an async_read not filled
Filling == Waiting \ {"beyond"}                \* that can be filled
Ready == {"head_ready", "zero", "body_ready", "rest_ready"}
Busy == {"full", "pushed"}                     \* running on the io thread
UnderWay == Waiting \cup Ready \cup Busy
Stages == {"none", "spawned", "done", "dead"} \cup UnderWay

IoFree == \A i \in Coros : coro[i] \notin Busy
Readers == {i \in Coros : coro[i] \in UnderWay}

(* What a reader of the package sees: its header and its message. *)
Content == <<node.head, node.body>>

InitCoro ==
  /\ accepting = "waiting"
  /\ open = FALSE
  /\ close_flag = FALSE
  /\ recv_pending = FALSE
  /\ coro = [i \in Coros |-> "none"]
  /\ need = [i \in Coros |-> 0]
  /\ tmp_buff = <<NoUnit, NoUnit>>
  /\ node = [head |-> NoUnit, body |-> NoUnit, cur |-> 0, total |-> 0,
             kind |-> "none", analyzed |-> FALSE]
  /\ completed = <<>>
  /\ notices = 0
  /\ stream = <<>>
  /\ lost = FALSE
  /\ sent = 0
  /\ conns = 0
  /\ first = 1
  /\ overlap = FALSE
  /\ cut = FALSE
  /\ pushed = <<>>
  /\ polled = FALSE
  /\ taken = <<>>

(* A definition whose comment says Slip is the one after it with a plausible *)
(* mistake in it, there to see that the properties notice.                   *)

-----------------------------------------------------------------------------
(* The acceptor and the peer *)

(* The callback of the program may call readFromSocket, once. *)
MaySpawn ==
  \/ UNCHANGED coro
  \/ \E i \in Coros : coro[i] = "none" /\ coro' = [coro EXCEPT ![i] = "spawned"]

(* A connection is accepted into the session; accept arms itself again, with *)
(* a socket that is open now. *)
Connect ==
  /\ accepting = "waiting" /\ IoFree
  /\ conns < MaxConns
  /\ conns' = conns + 1
  /\ open' = TRUE
  /\ stream' = <<>>
  /\ lost' = FALSE
  /\ first' = sent + 1
  /\ accepting' = "posted"
  /\ MaySpawn
  /\ UNCHANGED <<close_flag, recv_pending, need, tmp_buff, node, queueVars, sent, historyVars>>

(* The accept that found the socket open: its handler does the same. *)
AlreadyOpen ==
  /\ accepting = "posted" /\ IoFree
  /\ accepting' = IF open THEN "posted" ELSE "waiting"
  /\ MaySpawn
  /\ UNCHANGED <<sessionVars, need, tmp_buff, node, queueVars, peerVars, historyVars>>

(* The units of the n-th package. *)
PackageOf(part, n) ==
  IF part = "empty" THEN << <<n, part>>, <<n, "rest">> >>
                    ELSE << <<n, part>>, <<n, "body">>, <<n, "rest">> >>

(* The peer sends a package: its header may hold a wrong id or too great a   *)
(* size ("bad"), or a size smaller than its own. *)
Send(part) ==
  /\ open /\ ~ lost
  /\ sent < MaxPackages
  /\ sent' = sent + 1
  /\ stream' = stream \o PackageOf(part, sent')
  /\ UNCHANGED <<accepting, sessionVars, coroVars, queueVars, lost, conns, first, historyVars>>

Break ==
  /\ open /\ ~ lost
  /\ lost' = TRUE
  /\ stream' = <<>>
  /\ UNCHANGED <<accepting, sessionVars, coroVars, queueVars, sent, conns, first, historyVars>>

-----------------------------------------------------------------------------
(* The reading coroutine *)

(* The program calls readFromSocket. *)
Spawn(i) ==
  /\ coro[i] = "none"
  /\ coro' = [coro EXCEPT ![i] = "spawned"]
  /\ UNCHANGED <<accepting, sessionVars, need, tmp_buff, node, queueVars, peerVars, historyVars>>

(* An async_read of n units is started: on a closed socket it throws. *)
Await(i, stage, n) ==
  /\ coro' = [coro EXCEPT ![i] = IF open THEN stage ELSE "dead"]
  /\ need' = [need EXCEPT ![i] = IF open THEN n ELSE 0]

(* The coroutine starts. *)
Begin(i) ==
  /\ coro[i] = "spawned" /\ IoFree
  /\ recv_pending' = TRUE
  /\ IF close_flag
       THEN coro' = [coro EXCEPT ![i] = "done"] /\ UNCHANGED <<need, overlap>>
       ELSE /\ Await(i, "head", 1)
            /\ overlap' = (overlap \/ (open /\ Readers # {}))
  /\ UNCHANGED <<cut, accepting, open, close_flag, tmp_buff, node, queueVars, peerVars>>

(* Slip: a message is read to the start of the buffer. *)
RecvAtStart(i) ==
  /\ coro[i] \in Filling /\ IoFree
  /\ open
  /\ Len(stream) >= need[i]
  /\ tmp_buff' = <<stream[1], tmp_buff[2]>>
  /\ stream' = SubSeq(stream, need[i] + 1, Len(stream))
  /\ coro' = [coro EXCEPT ![i] = CASE coro[i] = "head" -> "head_ready"
                                   [] coro[i] = "body" -> "body_ready"
                                   [] coro[i] = "rest" -> "rest_ready"]
  /\ UNCHANGED <<accepting, sessionVars, need, node, queueVars, lost, sent, conns, first,
                 historyVars>>

(* The io thread fills the read of i: a header and the rest of a package go  *)
(* to the start of recv_tmp_buff, a message behind the header. *)
Recv(i) ==
  /\ coro[i] \in Filling /\ IoFree
  /\ open
  /\ Len(stream) >= need[i]
  /\ tmp_buff' = IF coro[i] = "body" THEN <<tmp_buff[1], stream[1]>>
                                   ELSE <<stream[1], tmp_buff[2]>>
  /\ stream' = SubSeq(stream, need[i] + 1, Len(stream))
  /\ coro' = [coro EXCEPT ![i] = CASE coro[i] = "head" -> "head_ready"
                                   [] coro[i] = "body" -> "body_ready"
                                   [] coro[i] = "rest" -> "rest_ready"]
  /\ UNCHANGED <<accepting, sessionVars, need, node, queueVars, lost, sent, conns, first,
                 historyVars>>

(* The message of a small header has 2^64 bytes or nearly: all that comes is *)
(* read to the buffer and past its end. *)
Swallow(i) ==
  /\ coro[i] = "beyond" /\ IoFree
  /\ open /\ stream # <<>>
  /\ stream' = <<>>
  /\ UNCHANGED <<accepting, sessionVars, coroVars, queueVars, lost, sent, conns, first,
                 historyVars>>

(* The connection ends under a read: the exception ends the coroutine, and   *)
(* the session stays as it is. *)
Abort(i) ==
  /\ coro[i] \in Waiting /\ IoFree
  /\ lost /\ Len(stream) < need[i]
  /\ coro' = [coro EXCEPT ![i] = "dead"]
  /\ need' = [need EXCEPT ![i] = 0]
  /\ UNCHANGED <<accepting, sessionVars, tmp_buff, node, queueVars, peerVars, historyVars>>

(* closeSession, called with every coroutine at cs: the socket's waiting     *)
(* reads are cancelled and throw. *)
CloseSession(cs) ==
  /\ open' = FALSE
  /\ close_flag' = TRUE
  /\ stream' = <<>>
  /\ coro' = [i \in Coros |-> IF cs[i] \in Waiting THEN "dead" ELSE cs[i]]
  /\ need' = [i \in Coros |-> IF cs[i] \in Waiting THEN 0 ELSE need[i]]
  /\ cut' = (cut \/ \E i \in Coros : cs[i] \in UnderWay)
  /\ UNCHANGED <<overlap, accepting, recv_pending, tmp_buff, queueVars, lost, sent, conns, first>>

(* The program closes the session on the io thread. *)
ProgramCloses ==
  /\ IoFree
  /\ open
  /\ CloseSession(coro)
  /\ UNCHANGED node

(* analyzeHeader: a header is looked at once, until the node is cleared. *)
AnalyzeHeader(n) ==
  IF n.analyzed THEN n
  ELSE [n EXCEPT !.kind = n.head[2], !.total = TotalOf(n.head[2]), !.analyzed = TRUE]

(* The header has come: the size of the message is computed unsigned, and    *)
(* only total_size is looked at. *)
ResumeHead(i) ==
  /\ coro[i] = "head_ready" /\ IoFree
  /\ node' = AnalyzeHeader([node EXCEPT !.head = tmp_buff[1], !.cur = @ + 1])
  /\ IF node'.kind \notin {"head", "empty", "small"}
       THEN CloseSession([coro EXCEPT ![i] = "done"])
       ELSE /\ CASE node'.kind = "empty" -> Await(i, "zero", 0)
                 [] node'.kind = "head" -> Await(i, "body", 1)
                 [] node'.kind = "small" -> Await(i, "beyond", 1)
            /\ UNCHANGED <<accepting, sessionVars, tmp_buff, queueVars, peerVars, historyVars>>

(* A message of no bytes was read: its length is taken for a closed peer. *)
ResumeZero(i) ==
  /\ coro[i] = "zero" /\ IoFree
  /\ CloseSession([coro EXCEPT ![i] = "done"])
  /\ UNCHANGED node

(* The loop that reads up to total_size, or the end of it. *)
GoOn(i) ==
  /\ IF node'.cur < node'.total
       THEN Await(i, "rest", node'.total - node'.cur)
       ELSE coro' = [coro EXCEPT ![i] = "full"] /\ need' = [need EXCEPT ![i] = 0]
  /\ UNCHANGED <<accepting, sessionVars, tmp_buff, queueVars, peerVars, historyVars>>

(* Slip: the length of the message is not counted. *)
ResumeBodyUncounted(i) ==
  /\ coro[i] = "body_ready" /\ IoFree
  /\ node' = [node EXCEPT !.body = tmp_buff[2]]
  /\ GoOn(i)

(* The message has come. *)
ResumeBody(i) ==
  /\ coro[i] = "body_ready" /\ IoFree
  /\ node' = [node EXCEPT !.body = tmp_buff[2], !.cur = @ + 1]
  /\ GoOn(i)

(* The rest has come: it is copied from behind the place it was read to. *)
ResumeRest(i) ==
  /\ coro[i] = "rest_ready" /\ IoFree
  /\ node' = [node EXCEPT !.cur = @ + need[i],
                          !.body = IF node.cur <= 1 THEN tmp_buff[2] ELSE @]
  /\ GoOn(i)

Resume(i) ==
  \/ ResumeHead(i) \/ ResumeZero(i) \/ ResumeBody(i) \/ ResumeRest(i)

(* recv_completed_queue.push: what is stored is a pointer to the one node. *)
Push(i) ==
  /\ coro[i] = "full"
  /\ coro' = [coro EXCEPT ![i] = "pushed"]
  /\ completed' = Append(completed, Content)
  /\ pushed' = Append(pushed, Content)
  /\ UNCHANGED <<accepting, sessionVars, need, tmp_buff, node, notices, polled, taken, peerVars,
                 historyVars>>

(* Slip: a counter is reset, and the node is kept. *)
ClearCounter(i) ==
  /\ coro[i] = "pushed"
  /\ node' = [node EXCEPT !.cur = 0, !.analyzed = FALSE]
  /\ recv_pending' = FALSE
  /\ notices' = notices + 1
  /\ coro' = [coro EXCEPT ![i] = "done"]
  /\ UNCHANGED <<accepting, open, close_flag, need, tmp_buff, completed, pushed, polled, taken,
                 peerVars, historyVars>>

(* The node is cleared, the program is notified, the coroutine returns. *)
Clear(i) ==
  /\ coro[i] = "pushed"
  /\ node' = [node EXCEPT !.head = NoUnit, !.body = NoUnit, !.cur = 0, !.analyzed = FALSE]
  /\ recv_pending' = FALSE
  /\ notices' = notices + 1
  /\ coro' = [coro EXCEPT ![i] = "done"]
  /\ UNCHANGED <<accepting, open, close_flag, need, tmp_buff, completed, pushed, polled, taken,
                 peerVars, historyVars>>

-----------------------------------------------------------------------------
(* getPopFrontRecvMsg, by a thread that polls the queue, or by one that      *)
(* waited to be notified; the package is read when it has been taken. *)
TakeEntry(told) ==
  /\ completed # <<>>
  /\ completed' = Tail(completed)
  /\ taken' = <<Head(completed), Content, told>>
  /\ UNCHANGED <<accepting, sessionVars, coroVars, pushed, peerVars, historyVars>>

TakePolling == TakeEntry(FALSE) /\ polled' = TRUE /\ UNCHANGED notices
TakeNotified == notices > 0 /\ notices' = notices - 1 /\ TakeEntry(TRUE) /\ UNCHANGED polled

RunCoro(i) ==
  Begin(i) \/ Recv(i) \/ Swallow(i) \/ Abort(i) \/ Resume(i) \/ Push(i) \/ Clear(i)

NextCoro ==
  \/ Connect \/ AlreadyOpen \/ Break \/ ProgramCloses
  \/ \E part \in Heads : Send(part)
  \/ \E i \in Coros : Spawn(i) \/ RunCoro(i)
  \/ TakePolling \/ TakeNotified

(* The io thread runs every completion it has. *)
SpecCoro == InitCoro /\ [][NextCoro]_socketVars /\ \A i \in Coros : WF_socketVars(RunCoro(i))

-----------------------------------------------------------------------------
(* Type invariant, with what the counters mean: an unfilled read belongs to  *)
(* a session whose socket is open, and recv_pending is only ever down while  *)
(* a lone reader is not under way. *)
TypeOKCoro ==
  /\ accepting \in {"waiting", "posted"}
  /\ {open, close_flag, recv_pending, lost, overlap, cut, polled} \subseteq BOOLEAN
  /\ coro \in [Coros -> Stages]
  /\ need \in [Coros -> 0 .. 3]
  /\ tmp_buff \in Bytes \X Bytes
  /\ {node.head, node.body} \subseteq Bytes
  /\ notices \in 0 .. Cardinality(Coros)
  /\ \A j \in 1 .. Len(stream) : stream[j] \in Units
  /\ (accepting = "waiting" => ~ open)
  /\ \A i \in Coros : coro[i] \in Waiting => open
  /\ (~ overlap => Cardinality(Readers) <= 1)
  /\ (~ overlap /\ Readers # {} => recv_pending)

(* As long as no two coroutines of the session have read at once, and it was *)
(* not closed under one, every package that is pushed is whole, and they are *)
(* the peer's packages in order: the three reads of a coroutine, the lengths *)
(* it keeps in the shared nodes and the next coroutine agree where a package *)
(* ends. *)
WholeUnlessDisturbed ==
  ~ overlap /\ ~ cut => \A j \in 1 .. Len(pushed) :
    pushed[j] = << <<j, "head">>, <<j, "body">> >>

(* Who takes packages only after being notified does not get to see them:    *)
(* the queue's entry is the node that the next package is read into, and     *)
(* that was cleared first. *)
Emptied ==
  taken # <<>> /\ taken[3] /\ ~ polled /\ ~ overlap => taken[1] # taken[2]

(* The session object that accept goes on accepting into is deaf after its   *)
(* first close: no package whose header came over a later connection is      *)
(* pushed, though a coroutine left from before may still read some of its    *)
(* bytes behind an old header.  (Two left from before, that share the        *)
(* buffer, may take such bytes for a header.) *)
DeafAfterClose ==
  ~ overlap /\ close_flag /\ open =>
    \A j \in 1 .. Len(pushed) : pushed[j][1][1] < first

(* Packages are whole before the session's first close, and none that begins *)
(* after it is read at all. *)
CoroInv == TypeOKCoro /\ WholeUnlessDisturbed /\ DeafAfterClose

(* A package that has wholly arrived for a lone coroutine is pushed, unless  *)
(* coroutines overlap, the session is closed or the connection lost. *)
Arrived(i) ==
  coro[i] = "head" /\ Readers = {i} /\ Len(stream) >= 3 /\ stream[1][2] = "head"
ArrivedIsRead == \A i \in Coros :
  \A n \in 0 .. Cardinality(Coros) :
    Arrived(i) /\ Len(pushed) = n ~> Len(pushed) > n \/ overlap \/ cut \/ lost
=============================================================================
