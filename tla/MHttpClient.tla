----------------------------- MODULE MHttpClient -----------------------------
(***************************************************************************)
(* MNet/MHttpSocket/MHttpClient.cpp, and MHttpServer with clients of this  *)
(* class and of others as the peers of its connections.                    *)
(*                                                                         *)
(* Each handler of the client starts the next operation or, on an error,   *)
(* does nothing at all.  The response is read with an async_read without a *)
(* completion condition, which ends when the peer closes, with an error.   *)
(***************************************************************************)
EXTENDS MHttpServer

VARIABLES
  client,     \* client[c]: the operation c's client waits for
  m_request   \* m_request[c]: what it will send

clientVars == <<client, m_request>>
httpVars == <<serverVars, connVars, ghostVars, peerVars, clientVars>>

InitHttp ==
  /\ InitServer
  /\ client = [c \in Conns |-> "new"]
  /\ m_request = [c \in Conns |-> Nothing]

ClientGoto(c, from, to) ==
  /\ client[c] = from
  /\ client' = [client EXCEPT ![c] = to]

ServerUnchanged == UNCHANGED <<serverVars, connVars, ghostVars>>

(* The constructor.  "GET " << path << "HTTP/1.0": the request line is whole *)
(* only if the path ends in a space. *)
Construct(c) ==
  /\ Up
  /\ ClientGoto(c, "new", "resolve")
  /\ \/ \E t \in Targets :
          m_request' = [m_request EXCEPT ![c] = <<"get", t>>]
     \/ m_request' = [m_request EXCEPT ![c] = Malformed]
  /\ ServerUnchanged /\ UNCHANGED peerVars

(* Another program connects and sends a request of its own. *)
OtherPeer(c) ==
  /\ Up
  /\ ClientGoto(c, "new", "read")
  /\ peer' = [peer EXCEPT ![c] = "there"]
  /\ \E r \in Requests : wire' = [wire EXCEPT ![c] = r]
  /\ ServerUnchanged /\ UNCHANGED <<m_request, delivered>>

HandleResolver(c) ==
  /\ Up
  /\ ClientGoto(c, "resolve", "connect") \/ ClientGoto(c, "resolve", "failed")
  /\ ServerUnchanged /\ UNCHANGED <<m_request, peerVars>>

HandleConnect(c) ==
  /\ Up
  /\ \/ /\ ClientGoto(c, "connect", "write")
        /\ peer' = [peer EXCEPT ![c] = "there"]
     \/ /\ ClientGoto(c, "connect", "failed")
        /\ UNCHANGED peer
  /\ ServerUnchanged /\ UNCHANGED <<m_request, wire, delivered>>

(* The write takes the request out of its buffer. *)
HandleWriteRequest(c) ==
  /\ Up
  /\ \/ /\ ClientGoto(c, "write", "read")
        /\ wire' = [wire EXCEPT ![c] = m_request[c]]
        /\ m_request' = [m_request EXCEPT ![c] = Nothing]
        /\ UNCHANGED peer
     \/ /\ ClientGoto(c, "write", "failed")
        /\ peer' = [peer EXCEPT ![c] = "gone"]
        /\ UNCHANGED <<wire, m_request>>
  /\ ServerUnchanged /\ UNCHANGED delivered

(* Slip: the read is satisfied by the first bytes. *)
ReadEndsAtOnce(c) ==
  IF delivered[c] # "none" THEN "ok" ELSE IF m_socket[c] = "closed" THEN "eof" ELSE "no"

(* async_read with transfer_all. *)
ReadEnds(c) == IF m_socket[c] = "closed" THEN "eof" ELSE "no"

(* handleRead, and handleReadHeaders and handleReadContent, which follow one *)
(* another when the read has not failed. *)
HandleResponse(c) ==
  /\ Up
  /\ client[c] = "read"
  /\ ReadEnds(c) # "no"
  /\ client' = [client EXCEPT ![c] = IF ReadEnds(c) = "ok" THEN "parsed" ELSE "eof"]
  /\ ServerUnchanged /\ UNCHANGED <<m_request, peerVars>>

(* The client's process ends and its socket with it. *)
Leave(c) ==
  /\ Up
  /\ peer[c] = "there"
  /\ client[c] \in {"write", "read"}
  /\ peer' = [peer EXCEPT ![c] = "gone"]
  /\ client' = [client EXCEPT ![c] = "failed"]
  /\ ServerUnchanged /\ UNCHANGED <<m_request, wire, delivered>>

ClientStep(c) ==
  \/ Construct(c) \/ OtherPeer(c)
  \/ HandleResolver(c) \/ HandleConnect(c) \/ HandleWriteRequest(c)
  \/ HandleResponse(c) \/ Leave(c)

Serving(c) == (ServerStep(c) \/ NetworkStep(c)) /\ UNCHANGED clientVars

NextHttp ==
  \/ \E c \in Conns : Serving(c) \/ ClientStep(c)
  \/ (Destroy \/ \E t \in Targets : Register(t)) /\ UNCHANGED clientVars

SpecHttp == InitHttp /\ [][NextHttp]_httpVars

(* Handlers run, deadlines expire and a closed socket is noticed; a peer     *)
(* need not send its request nor read its answer. *)
FairnessHttp ==
  \A c \in Conns :
    /\ WF_httpVars(Accept(c) /\ UNCHANGED clientVars)
    /\ WF_httpVars(HandleRead(c) /\ UNCHANGED clientVars)
    /\ WF_httpVars(HandleWrite(c) /\ UNCHANGED clientVars)
    /\ WF_httpVars(HandleDeadline(c) /\ UNCHANGED clientVars)
    /\ WF_httpVars(Expire(c) /\ UNCHANGED clientVars)
    /\ WF_httpVars(HandleResponse(c))

FairSpecHttp == SpecHttp /\ FairnessHttp

-----------------------------------------------------------------------------
Statuses == {"none", "ok", "not_found", "bad_request"}

TypeOKHttp ==
  /\ server \in {"alive", "destroyed"}
  /\ m_connection_mapping \subseteq Conns
  /\ m_file_mapping \subseteq Targets
  /\ m_socket \in [Conns -> {"none", "open", "closed"}]
  /\ read \in [Conns -> Operation]
  /\ write \in [Conns -> Operation]
  /\ deadline \in [Conns -> Operation]
  /\ m_response \in [Conns -> Statuses]
  /\ late \in [Conns -> BOOLEAN]
  /\ orphans \subseteq Conns
  /\ thrown \subseteq Conns /\ dangling \subseteq Conns
  /\ peer \in [Conns -> {"absent", "there", "gone"}]
  /\ wire \in [Conns -> Sent]
  /\ delivered \in [Conns -> Statuses]
  /\ client \in [Conns -> {"new", "resolve", "connect", "write", "read",
                           "eof", "parsed", "failed"}]
  /\ m_request \in [Conns -> Sent]

Outstanding(c) == deadline[c] \in {"waiting", "ok", "error"}

(* A connection's life is its deadline: the socket is open, and an alive      *)
(* server holds the connection, from accept until the handler of the deadline *)
(* has run, however its exchange went; an answer that was written does not    *)
(* end it (MHttpServer.cpp:21 speaks of requests not processed in time).      *)
LifeIsDeadline ==
  \A c \in Conns :
    /\ m_socket[c] = "none" <=> deadline[c] = "off"
    /\ m_socket[c] = "open" <=> Outstanding(c)
    /\ server = "alive" => (c \in m_connection_mapping <=> Outstanding(c))

(* A server that is gone is only used by a connection that was in its mapping *)
(* when it was destroyed, by one accepted after it, or by one that its        *)
(* deadline had taken from the mapping with a request still to be handled.    *)
DanglingCause ==
  \A c \in dangling :
    /\ server = "destroyed"
    /\ c \in orphans \/ m_socket[c] = "none" \/ late[c]

(* run() is left by an exception only for two reasons.  A file registered     *)
(* for the target of a get could not be loaded, which any peer that asks for  *)
(* it can meet; or an answer could not be written, because its deadline was   *)
(* handled first or its peer had left: the throwing shutdown of writeResponse *)
(* is out of reach of peers that stay and of answers that are in time.        *)
ThrowCause ==
  \A c \in thrown :
    IF write[c] = "off" THEN Loads(c) ELSE late[c] \/ peer[c] = "gone"

(* The life of a connection and of what it points to, and what may end the    *)
(* thread that serves all of them. *)
HttpInv == TypeOKHttp /\ LifeIsDeadline /\ DanglingCause /\ ThrowCause

(* MHttpClient hands nothing to its program, neither a status nor a header,   *)
(* before the server's deadline has closed the connection, even for an answer *)
(* that arrived at once; and then it has an error in its hands and parses     *)
(* nothing. *)
AnswerHeldBack ==
  \A c \in Conns :
    /\ client[c] = "eof" => deadline[c] = "handled"
    /\ client[c] # "parsed"

(* Every connection is released in the end, whatever its peer does. *)
Released ==
  \A c \in Conns : c \in m_connection_mapping ~> (c \notin m_connection_mapping \/ ~Up)

(* A server destroyed with connections is used after its end, always: their   *)
(* deadlines come. *)
OrphansTouch == orphans # {} ~> ~Up
=============================================================================
