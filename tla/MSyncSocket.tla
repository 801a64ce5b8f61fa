---------------------------- MODULE MSyncSocket ----------------------------
(***************************************************************************)
(* MNet/MSyncSocket: a server object and a client object with one          *)
(* connection between them, each used by one thread that is inside at most *)
(* one blocking call.  write and read are loops of write_some and          *)
(* read_some on a socket whose kernel buffers have room for a few bytes.   *)
(*                                                                         *)
(* The client object is modelled as if its constructor allocated its data; *)
(* the one in the code does not call the constructor that does.            *)
(***************************************************************************)
EXTENDS Naturals, Sequences

CONSTANTS
  Wrap,      \* 2^32 in the code: where the total_bytes of write wraps to 0
  Room,      \* bytes that the connection holds in one direction
  Sizes,     \* sizes that write and read are called with
  MaxCalls   \* bound of the model: calls of write and read by one end

ASSUME BoundsAssumption ==
  /\ Wrap \in Nat \ {0} /\ Room \in Nat \ {0}
  /\ Sizes \subseteq Nat /\ MaxCalls \in Nat

Ends == {"server", "client"}
Peer(e) == IF e = "server" THEN "client" ELSE "server"

(* A byte: the call of write it is from, and its place in the data. *)
Byte == Nat \X Nat
NoByte == <<0, 0>>

Astray == Wrap + 1

NoCall == [op |-> "none", size |-> 0, total |-> 0]

VARIABLES
  acceptor,   \* the server's acceptor: "open", "bound", "listening", or
              \* "elsewhere": listening at a port the kernel chose
  adapt,      \* what the client's last connect returned: "empty", a socket
              \* that is "unconnected", or one that is "connected"
  linked,     \* the connection: "no", "backlog" (not accepted yet), "yes"
  call,       \* call[e]: the call e is in, with total_bytes
  calls,      \* calls[e]: how many it has made
  pipe,       \* pipe[e]: the bytes on their way to e
  closed,     \* closed[e]: e's socket object is gone
  reset,      \* reset[e]: e has been told that its connection is reset
  buff,       \* buff[e]: the buffer of the read e is in, or was in last
  wrote,      \* history: wrote[e]: the place up to which its last write has
              \* handed over its data, each byte once and in order, or Astray
  took,       \* history: the bytes that the server's last read has taken
  result      \* history: result[e]: what the last call of e returned

setup == <<acceptor, adapt, linked>>
vars == <<setup, call, calls, pipe, closed, reset, buff, wrote, took, result>>

Init ==
  /\ acceptor = "open"
  /\ adapt = "empty"
  /\ linked = "no"
  /\ call = [e \in Ends |-> NoCall]
  /\ calls = [e \in Ends |-> 0]
  /\ pipe = [e \in Ends |-> <<>>]
  /\ closed = [e \in Ends |-> FALSE]
  /\ reset = [e \in Ends |-> FALSE]
  /\ buff = [e \in Ends |-> <<>>]
  /\ wrote = [e \in Ends |-> 0]
  /\ took = <<>>
  /\ result = [e \in Ends |-> NoCall]

(* A definition whose comment says Slip is the one after it with a plausible *)
(* mistake in it, there to see that the properties notice.                   *)

-----------------------------------------------------------------------------
(* Setting the connection up.  No call of write or read is disturbed by it.  *)
Beside == <<call, calls, pipe, closed, reset, buff, wrote, took, result>>

bind ==
  /\ acceptor = "open"
  /\ acceptor' = "bound"
  /\ UNCHANGED <<adapt, linked, Beside>>

(* Without a bind before it, it listens at a port that nobody knows of, and  *)
(* there is no bind any more. *)
listen ==
  /\ acceptor \in {"open", "bound"}
  /\ acceptor' = IF acceptor = "bound" THEN "listening" ELSE "elsewhere"
  /\ UNCHANGED <<adapt, linked, Beside>>

(* The client's connect returns when the kernel has the connection. *)
connect ==
  /\ acceptor = "listening"
  /\ linked = "no"
  /\ call["client"].op = "none"
  /\ linked' = "backlog"
  /\ adapt' = "connected"
  /\ UNCHANGED <<acceptor, Beside>>

(* A connect that fails, as it may at any time: the one with an end point    *)
(* returns an empty handle, the one with a host and a port a socket that is  *)
(* not connected, and no error.  (One that throws, for a host nobody knows,  *)
(* leaves all as it was.) *)
ConnectFails ==
  /\ linked = "no"
  /\ call["client"].op = "none"
  /\ adapt' \in {"empty", "unconnected"}
  /\ UNCHANGED <<acceptor, linked, Beside>>

accept ==
  /\ linked = "backlog"
  /\ linked' = "yes"
  /\ UNCHANGED <<acceptor, adapt, Beside>>

(* A program does not use an empty handle. *)
HasSocket(e) ==
  /\ ~ closed[e]
  /\ IF e = "server" THEN linked = "yes" ELSE adapt # "empty"

Connected == linked # "no"

Close(e) ==
  /\ HasSocket(e) /\ Connected
  /\ call[e].op = "none"
  /\ closed' = [closed EXCEPT ![e] = TRUE]
  /\ UNCHANGED <<setup, call, calls, pipe, reset, buff, wrote, took, result>>

(* The kernel of an end that is gone resets the connection for bytes that    *)
(* the end has not read, or that come after it; what was still on its way to *)
(* the other end may be lost from some byte on.                              *)
Reset(e) ==
  /\ closed[Peer(e)] /\ ~ closed[e] /\ ~ reset[e]
  /\ pipe[Peer(e)] # <<>>
  /\ reset' = [reset EXCEPT ![e] = TRUE]
  /\ \E n \in 0 .. Len(pipe[e]) : pipe' = [pipe EXCEPT ![e] = SubSeq(@, 1, n)]
  /\ UNCHANGED <<setup, call, calls, closed, buff, wrote, took, result>>

Return(e, code) ==
  /\ call' = [call EXCEPT ![e] = NoCall]
  /\ result' = [result EXCEPT ![e] =
       [op |-> call[e].op, size |-> call[e].size, total |-> code]]

-----------------------------------------------------------------------------
CallWrite(e, size) ==
  /\ HasSocket(e)
  /\ call[e].op = "none" /\ calls[e] < MaxCalls
  /\ calls' = [calls EXCEPT ![e] = @ + 1]
  /\ call' = [call EXCEPT ![e] = [op |-> "write", size |-> size, total |-> 0]]
  /\ wrote' = [wrote EXCEPT ![e] = 0]
  /\ UNCHANGED <<setup, pipe, closed, reset, buff, took, result>>

(* The next n bytes of the data, from total_bytes on. *)
Slice(e, n) == [i \in 1 .. n |-> <<calls[e], call[e].total + i>>]

HandedOver(e, from, n) ==
  wrote' = [wrote EXCEPT ![e] = IF @ = from /\ from + n < Astray THEN from + n ELSE Astray]

(* Slip: the data is written from its start again. *)
WriteSomeAgain(e) ==
  /\ call[e].op = "write" /\ call[e].total # call[e].size
  /\ Connected /\ ~ reset[e]
  /\ \E n \in 1 .. call[e].size - call[e].total :
       /\ Len(pipe[Peer(e)]) + n <= Room
       /\ pipe' = [pipe EXCEPT ![Peer(e)] = @ \o [i \in 1 .. n |-> <<calls[e], i>>]]
       /\ HandedOver(e, 0, n)
       /\ call' = [call EXCEPT ![e].total = (@ + n) % Wrap]
  /\ UNCHANGED <<setup, calls, closed, reset, buff, took, result>>

(* One write_some of the loop: it takes some of what is left, and waits when *)
(* there is no room.  The kernel takes bytes, and the code counts them, until *)
(* it knows that nobody reads them.  total_bytes has 32 bits, the size 64.   *)
WriteSome(e) ==
  /\ call[e].op = "write" /\ call[e].total # call[e].size
  /\ Connected /\ ~ reset[e]
  /\ \E n \in 1 .. call[e].size - call[e].total :
       /\ Len(pipe[Peer(e)]) + n <= Room
       /\ pipe' = [pipe EXCEPT ![Peer(e)] = @ \o Slice(e, n)]
       /\ HandedOver(e, call[e].total, n)
       /\ call' = [call EXCEPT ![e].total = (@ + n) % Wrap]
  /\ UNCHANGED <<setup, calls, closed, reset, buff, took, result>>

WriteEnd(e) ==
  /\ call[e].op = "write"
  /\ \/ call[e].total = call[e].size /\ Return(e, 0)
     \/ call[e].total # call[e].size /\ (reset[e] \/ ~ Connected) /\ Return(e, 1)
  /\ UNCHANGED <<setup, calls, pipe, closed, reset, buff, wrote, took>>

-----------------------------------------------------------------------------
(* read, and the server's read in immediate_request_mode *)
CallRead(e, size, op) ==
  /\ HasSocket(e)
  /\ call[e].op = "none" /\ calls[e] < MaxCalls
  /\ (op = "read_now" => e = "server")
  /\ calls' = [calls EXCEPT ![e] = @ + 1]
  /\ call' = [call EXCEPT ![e] = [op |-> op, size |-> size, total |-> 0]]
  /\ buff' = [buff EXCEPT ![e] = [i \in 1 .. size |-> NoByte]]
  /\ took' = IF e = "server" THEN <<>> ELSE took
  /\ UNCHANGED <<setup, pipe, closed, reset, wrote, result>>

InRead(e) == call[e].op \in {"read", "read_now"}

(* The loop is left: the size is reached, or one read_some was asked for. *)
ReadDone(e) ==
  IF call[e].op = "read" THEN call[e].total = call[e].size
  ELSE took # <<>> \/ call[e].size = 0

(* Who adds what read_some returned to total_bytes: the client does not. *)
Counted(e) == e = "server"

(* One read_some of the loop: the bytes go behind the first total_bytes. *)
ReadSome(e) ==
  /\ InRead(e) /\ ~ ReadDone(e)
  /\ \E n \in 1 .. call[e].size - call[e].total :
       /\ n <= Len(pipe[e])
       /\ buff' = [buff EXCEPT ![e] =
            [i \in 1 .. call[e].size |->
               IF i - call[e].total \in 1 .. n THEN pipe[e][i - call[e].total] ELSE @[i]]]
       /\ took' = IF e = "server" THEN took \o SubSeq(pipe[e], 1, n) ELSE took
       /\ pipe' = [pipe EXCEPT ![e] = SubSeq(@, n + 1, Len(@))]
       /\ call' = IF Counted(e) THEN [call EXCEPT ![e].total = @ + n] ELSE call
  /\ UNCHANGED <<setup, calls, closed, reset, wrote, result>>

(* Slip: the error code is not looked at. *)
ReadEndUntold(e) ==
  /\ InRead(e)
  /\ ReadDone(e) /\ Return(e, 0)
  /\ UNCHANGED <<setup, calls, pipe, closed, reset, buff, wrote, took>>

(* The end of the stream is success for the server; any other error is none, *)
(* and the client fails on both.  A reset is an error until an operation has *)
(* reported it, and the end of the stream after that or behind a close.      *)
ReadEnd(e) ==
  /\ InRead(e)
  /\ \/ ReadDone(e) /\ Return(e, 0)
     \/ /\ ~ ReadDone(e) /\ pipe[e] = <<>>
        /\ closed[Peer(e)]
        /\ Return(e, IF e = "server" THEN 0 ELSE 1)
     \/ /\ ~ ReadDone(e) /\ pipe[e] = <<>>
        /\ reset[e] \/ ~ Connected
        /\ Return(e, 1)
  /\ UNCHANGED <<setup, calls, pipe, closed, reset, buff, wrote, took>>

Run(e) == WriteSome(e) \/ WriteEnd(e) \/ ReadSome(e) \/ ReadEnd(e)

Next ==
  \/ bind \/ listen \/ connect \/ ConnectFails \/ accept
  \/ \E e \in Ends :
       \/ Close(e) \/ Reset(e)
       \/ Run(e)
       \/ \E size \in Sizes :
            CallWrite(e, size) \/ CallRead(e, size, "read") \/ CallRead(e, size, "read_now")

(* A thread inside a call goes on when it can, and the kernel tells of a     *)
(* connection that is reset. *)
Spec ==
  /\ Init /\ [][Next]_vars
  /\ \A e \in Ends : WF_vars(Run(e)) /\ WF_vars(Reset(e))

-----------------------------------------------------------------------------
(* Type invariant. *)
TypeOK ==
  /\ acceptor \in {"open", "bound", "listening", "elsewhere"}
  /\ adapt \in {"empty", "unconnected", "connected"}
  /\ adapt = "connected" <=> linked # "no"
  /\ reset \in [Ends -> BOOLEAN]
  /\ linked \in {"no", "backlog", "yes"}
  /\ \A e \in Ends :
       /\ call[e].op \in {"none", "write", "read", "read_now"}
       /\ call[e].size \in Nat /\ call[e].total \in 0 .. call[e].size
       /\ Len(pipe[e]) <= Room
  /\ (linked # "yes" => pipe["client"] = <<>>)

(* A write that returns 0 has handed over its data, each byte once and in    *)
(* order, however the partial writes fell; but none does whose size          *)
(* total_bytes cannot hold: it repeats the data from its start for as long   *)
(* as the peer takes it. *)
WriteReturns == \A e \in Ends :
  result[e].op = "write" /\ result[e].total = 0 /\ call[e].op # "write" =>
    /\ result[e].size < Wrap
    /\ wrote[e] = result[e].size

(* The server's read has the next bytes of the stream in the buffer when it  *)
(* returns, fewer than asked for with a 0 only if the client is gone or one  *)
(* read_some was asked for; nothing tells its caller how many.  It returns   *)
(* an error only if the client is gone without having read all that the      *)
(* server wrote to it: how a read of the server ends depends on what the     *)
(* client did with the other direction.                                      *)
ServerReadReturns ==
  result["server"].op \in {"read", "read_now"} /\ ~ InRead("server") =>
    /\ (result["server"].total = 0 /\ Len(took) < result["server"].size =>
          closed["client"] \/ result["server"].op = "read_now")
    /\ (result["server"].total # 0 => closed["client"] /\ pipe["client"] # <<>>)
    /\ \A i \in 1 .. Len(took) : buff["server"][i] = took[i]

(* The client's read of a byte or more never succeeds, though every byte may *)
(* have come: it goes on until the server closes, and its buffer then holds  *)
(* only what the last read_some took, over what came before.                 *)
ClientReadFails ==
  /\ (result["client"].op = "read" /\ result["client"].size > 0 =>
        result["client"].total = 1)
  /\ (call["client"].op = "read" => call["client"].total = 0)

(* What the four calls tell their callers and leave with them, whatever      *)
(* partial writes, short reads and closes come between. *)
SyncInv == TypeOK /\ WriteReturns /\ ServerReadReturns /\ ClientReadFails

(* A call ends, or waits for the other end: for bytes from it, for room that *)
(* it makes, or, in the client's read, for it to close.  A call on a socket  *)
(* that is not connected, or whose other end is gone, ends whatever its size; *)
(* otherwise a write that total_bytes cannot count need not.                 *)
Waits(e) ==
  /\ ~ closed[Peer(e)]
  /\ \/ InRead(e) /\ (pipe[e] = <<>> \/ ~ Counted(e))
     \/ call[e].op = "write" /\ Len(pipe[Peer(e)]) = Room
CallsEnd == \A e \in Ends :
  []<>(\/ call[e].op = "none" \/ Waits(e)
       \/ call[e].op = "write" /\ call[e].size >= Wrap /\ Connected /\ ~ closed[Peer(e)])
=============================================================================
