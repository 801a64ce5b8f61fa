----------------------------- MODULE MHttpServer -----------------------------
(***************************************************************************)
(* MNet/MHttpSocket/MHttpServer.cpp: one thread runs the io_context and    *)
(* with it the handlers of every connection.  A connection has at most one *)
(* async_read, one async_write and one wait for its deadline; an operation *)
(* is "waiting", then "ok" or "error" once it has completed, "handled"     *)
(* when its handler has run.  A completed read of several packets may be   *)
(* handled after a deadline that expired before it, so handlers of         *)
(* completed operations run in any order.                                  *)
(*                                                                         *)
(* A request is its verb and its target, or what the parser refuses.       *)
(***************************************************************************)
EXTENDS Naturals, FiniteSets

CONSTANTS
  Conns,    \* connections, each with one peer
  Targets   \* request targets

Verbs == {"get", "post", "put"}  \* "post" for patch and delete_ too, "put" for the rest
Requests == Verbs \X Targets
Nothing == <<>>
Malformed == <<"malformed">>
Sent == Requests \cup {Nothing, Malformed}
Operation == {"off", "waiting", "ok", "error", "handled"}

VARIABLES
  server,                \* the MHttpServer object: "alive" or "destroyed"
  m_connection_mapping,  \* connections the server holds
  m_file_mapping,        \* targets with a file
  m_socket,              \* m_socket[c]: "none" before accept, "open", "closed"
  read, write, deadline, \* the operations of each connection
  m_response,            \* m_response[c]: the status, "none" before there is one
  late,                  \* history: c's deadline was handled before its answer
                         \* was written
  orphans,               \* history: connections whose server was destroyed
  thrown, dangling,      \* connections whose handler threw out of run(), or
                         \* used a server that is not there
  peer,                  \* peer[c]: "absent", "there" or "gone"
  wire,                  \* wire[c]: what the peer has sent
  delivered              \* delivered[c]: the status the peer has received

connVars == <<m_socket, read, write, deadline, m_response>>
serverVars == <<server, m_connection_mapping, m_file_mapping>>
ghostVars == <<late, orphans, thrown, dangling>>
peerVars == <<peer, wire, delivered>>

InitServer ==
  /\ server = "alive"
  /\ m_connection_mapping = {}
  /\ m_file_mapping = {}
  /\ m_socket = [c \in Conns |-> "none"]
  /\ read = [c \in Conns |-> "off"]
  /\ write = [c \in Conns |-> "off"]
  /\ deadline = [c \in Conns |-> "off"]
  /\ m_response = [c \in Conns |-> "none"]
  /\ late = [c \in Conns |-> FALSE]
  /\ orphans = {}
  /\ thrown = {}
  /\ dangling = {}
  /\ peer = [c \in Conns |-> "absent"]
  /\ wire = [c \in Conns |-> Nothing]
  /\ delivered = [c \in Conns |-> "none"]

(* An exception has left run(), or memory that was freed has been used:     *)
(* nothing is said of what follows. *)
Up == thrown = {} /\ dangling = {}

(* A definition whose comment says Slip is the one after it with a plausible *)
(* mistake in it, there to see that the properties notice.                   *)

(* Slip: start() forgets checkDeadline(). *)
StartNoDeadline(c) ==
  /\ m_socket' = [m_socket EXCEPT ![c] = "open"]
  /\ read' = [read EXCEPT ![c] = "waiting"]
  /\ UNCHANGED deadline

(* start(): the request is awaited, and so is the deadline. *)
Start(c) ==
  /\ m_socket' = [m_socket EXCEPT ![c] = "open"]
  /\ read' = [read EXCEPT ![c] = "waiting"]
  /\ deadline' = [deadline EXCEPT ![c] = "waiting"]

(* The handler of accept.  It is armed again whatever happened, so that an   *)
(* accept is always outstanding and a server that is destroyed is used by    *)
(* the next one. *)
Accept(c) ==
  /\ Up
  /\ m_socket[c] = "none"
  /\ peer[c] # "absent"
  /\ \/ /\ server = "alive"
        /\ m_connection_mapping' = m_connection_mapping \cup {c}
        /\ Start(c)
        /\ UNCHANGED dangling
     \/ /\ server = "destroyed"
        /\ dangling' = dangling \cup {c}
        /\ UNCHANGED <<m_connection_mapping, m_socket, read, deadline>>
  /\ UNCHANGED <<server, m_file_mapping, write, m_response, late, orphans, thrown, peerVars>>

(* getTargetMapping is the only way in: registerPath compares an extension,  *)
(* which begins with a dot, with "html", and the walks of a directory do not *)
(* step their iterator past a file. *)
Register(t) ==
  /\ Up /\ server = "alive"
  /\ m_file_mapping' = m_file_mapping \cup {t}
  /\ UNCHANGED <<server, m_connection_mapping, connVars, ghostVars, peerVars>>

(* processRequest: the status of the answer.  Only get looks for a file. *)
Status(r) ==
  CASE r[1] = "get"  -> IF r[2] \in m_file_mapping THEN "ok" ELSE "not_found"
    [] r[1] = "post" -> "ok"
    [] r[1] = "put"  -> "bad_request"

(* createGetResponse reads the mapping of the server, and the file that has  *)
(* been registered for the target. *)
Gets(c) == wire[c][1] = "get"
Loads(c) == Gets(c) /\ wire[c][2] \in m_file_mapping

(* readRequest's handler.  A request that is not read leaves the connection  *)
(* to its deadline; load_string_file throws for a file that is missing or    *)
(* cannot be read; a socket that is closed already fails the write at once.  *)
HandleRead(c) ==
  /\ Up
  /\ read[c] \in {"ok", "error"}
  /\ read' = [read EXCEPT ![c] = "handled"]
  /\ \/ /\ read[c] = "error"
        /\ UNCHANGED <<m_response, write, thrown, dangling>>
     \/ /\ read[c] = "ok" /\ Gets(c) /\ server = "destroyed"
        /\ dangling' = dangling \cup {c}
        /\ UNCHANGED <<m_response, write, thrown>>
     \/ /\ read[c] = "ok" /\ Loads(c)
        /\ thrown' = thrown \cup {c}
        /\ UNCHANGED <<m_response, write, dangling>>
     \/ /\ read[c] = "ok" /\ (Gets(c) => server = "alive")
        /\ m_response' = [m_response EXCEPT ![c] = Status(wire[c])]
        /\ write' = [write EXCEPT ![c] =
                       IF m_socket[c] = "open" THEN "waiting" ELSE "error"]
        /\ UNCHANGED <<thrown, dangling>>
  /\ UNCHANGED <<serverVars, m_socket, deadline, late, orphans, peerVars>>

(* writeResponse's handler does nothing for an answer that was written.  For *)
(* one that was not it shuts the socket down, which throws if the socket is  *)
(* closed and may throw if the peer has reset it, and cancels the timer,     *)
(* whose handler closes all.                                                 *)
HandleWrite(c) ==
  /\ Up
  /\ write[c] \in {"ok", "error"}
  /\ write' = [write EXCEPT ![c] = "handled"]
  /\ \/ /\ write[c] = "ok"
        /\ UNCHANGED <<deadline, thrown>>
     \/ /\ write[c] = "error"
        /\ thrown' = thrown \cup {c}
        /\ UNCHANGED deadline
     \/ /\ write[c] = "error"
        /\ m_socket[c] = "open"
        /\ deadline' = [deadline EXCEPT ![c] = IF @ = "waiting" THEN "error" ELSE @]
        /\ UNCHANGED thrown
  /\ UNCHANGED <<serverVars, m_socket, read, m_response, late, orphans, dangling, peerVars>>

Aborted(op) == IF op = "waiting" THEN "error" ELSE op

(* Slip: a wait that was cancelled is no deadline. *)
HandleDeadlineExpired(c) ==
  /\ Up
  /\ deadline[c] \in {"ok", "error"}
  /\ LET all == deadline[c] = "ok" IN
       /\ deadline' = [deadline EXCEPT ![c] = "handled"]
       /\ m_socket' = [m_socket EXCEPT ![c] = IF all THEN "closed" ELSE @]
       /\ read' = [read EXCEPT ![c] = IF all THEN Aborted(@) ELSE @]
       /\ write' = [write EXCEPT ![c] = IF all THEN Aborted(@) ELSE @]
       /\ late' = [late EXCEPT ![c] = write[c] \notin {"ok", "handled"}]
       /\ m_connection_mapping' = m_connection_mapping \ (IF all THEN {c} ELSE {})
       /\ dangling' = dangling \cup (IF all /\ server = "destroyed" THEN {c} ELSE {})
  /\ UNCHANGED <<server, m_file_mapping, m_response, orphans, thrown, peerVars>>

(* checkDeadline's handler, which does not look at its error code. *)
HandleDeadline(c) ==
  /\ Up
  /\ deadline[c] \in {"ok", "error"}
  /\ deadline' = [deadline EXCEPT ![c] = "handled"]
  /\ m_socket' = [m_socket EXCEPT ![c] = "closed"]
  /\ read' = [read EXCEPT ![c] = Aborted(@)]
  /\ write' = [write EXCEPT ![c] = Aborted(@)]
  /\ late' = [late EXCEPT ![c] = write[c] \notin {"ok", "handled"}]
  /\ m_connection_mapping' = m_connection_mapping \ {c}
  /\ dangling' = dangling \cup (IF server = "destroyed" THEN {c} ELSE {})
  /\ UNCHANGED <<server, m_file_mapping, m_response, orphans, thrown, peerVars>>

(* ~MHttpServer.  The handlers that are outstanding keep their connections. *)
Destroy ==
  /\ Up /\ server = "alive"
  /\ server' = "destroyed"
  /\ orphans' = m_connection_mapping
  /\ m_connection_mapping' = {}
  /\ m_file_mapping' = {}
  /\ UNCHANGED <<connVars, late, thrown, dangling, peerVars>>

-----------------------------------------------------------------------------
(* The network and the clock. *)

(* A request has come, or the peer has left before one did. *)
ReadCompletes(c) ==
  /\ Up
  /\ read[c] = "waiting"
  /\ \/ /\ wire[c] \in Requests
        /\ read' = [read EXCEPT ![c] = "ok"]
     \/ /\ wire[c] = Malformed \/ peer[c] = "gone"
        /\ read' = [read EXCEPT ![c] = "error"]
  /\ UNCHANGED <<serverVars, m_socket, write, deadline, m_response, ghostVars, peerVars>>

(* The answer is in the kernel's hands; one to a peer that has left may fail. *)
WriteCompletes(c) ==
  /\ Up
  /\ write[c] = "waiting"
  /\ \/ /\ write' = [write EXCEPT ![c] = "ok"]
        /\ delivered' = [delivered EXCEPT ![c] = IF peer[c] = "there" THEN m_response[c] ELSE @]
     \/ /\ peer[c] = "gone"
        /\ write' = [write EXCEPT ![c] = "error"]
        /\ UNCHANGED delivered
  /\ UNCHANGED <<serverVars, m_socket, read, deadline, m_response, ghostVars, peer, wire>>

(* The 60 seconds are over. *)
Expire(c) ==
  /\ Up
  /\ deadline[c] = "waiting"
  /\ deadline' = [deadline EXCEPT ![c] = "ok"]
  /\ UNCHANGED <<serverVars, m_socket, read, write, m_response, ghostVars, peerVars>>

ServerStep(c) ==
  Accept(c) \/ HandleRead(c) \/ HandleWrite(c) \/ HandleDeadline(c) \/ Expire(c)
NetworkStep(c) == ReadCompletes(c) \/ WriteCompletes(c)
=============================================================================
