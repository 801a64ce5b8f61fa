----------------------------- MODULE MHandleRead -----------------------------
(***************************************************************************)
(* How bytes become packages in MNet/MAsyncSocket: readPackage and         *)
(* handleRead, the raw readFromSocket and readCallback, and the ring and   *)
(* its consumer of MSessionRecv that both push to.                         *)
(*                                                                         *)
(* The producers of the ring are the chains of reads that calls of         *)
(* readPackage or readFromSocket start: each handler starts the next read. *)
(* Handlers of one session follow one another (one io thread, or the       *)
(* strand of readPackageWithStrand), but an io thread may fill             *)
(* recv_tmp_buff for one chain while a handler of another runs.            *)
(*                                                                         *)
(* A byte is known by its place in the stream; a size is a number of       *)
(* bytes, in the scale of HEAD and MAX.                                    *)
(***************************************************************************)
EXTENDS MSessionRecv, FiniteSets

CONSTANTS
  HEAD,       \* bytes of MMsgNodeDataBaseMsg, the header
  MAX,        \* __MUZI_MMSGNODE_PACKAGE_MAX_SIZE_IN_BYTES__, of recv_tmp_buff too
  Sizes,      \* sizes of the packages that the peer sends
  MaxSent     \* bound of the model: packages sent

ASSUME SizesAssumption ==
  /\ HEAD \in Nat \ {0} /\ MAX \in Nat /\ HEAD + 1 < MAX
  /\ Sizes \subseteq HEAD + 1 .. MAX + 1
  /\ MaxSent \in Nat

VARIABLES
  at,            \* at[p]: where the chain of reads p is
  bytes,         \* bytes[p]: bytes_transafered of its handler
  front,         \* the package whose header is at the start of recv_tmp_buff, or 0
  head_parse,    \* MSession::head_parse
  cur,           \* recv_tmp_package: cur_size ...
  total,         \* ... and total_size, 0 before analyzeHeader
  recv_pending,  \* MSession::recv_pending
  ends,          \* ends[k]: where package k, which the peer sends, ends in the
                 \* stream; ends[0] is the start of the stream
  got,           \* bytes of the stream that reads have taken
  fulls,         \* history: reads that returned MAX bytes
  delivered      \* history: packages pushed and notified

nodeVars == <<head_parse, cur, total>>
peerVars == <<ends, got>>
readVars == <<at, bytes, front, nodeVars, recv_pending, peerVars, fulls, delivered>>
readAllVars == <<allVars, readVars>>

Running == {"loop", "pushing", "raw_pushing"}
HandlerFree == \A p \in Producers : at[p] \notin Running

(* The size of package k.  MAX + 1 also stands for a header whose id is not  *)
(* the one expected, as MSendMsgNode writes it on a little-endian host.      *)
SizeOf(k) == ends[k] - ends[k - 1]

(* The package that starts at a place in the stream, or 0. *)
HeaderAt(place) ==
  IF \E k \in 1 .. MaxSent : ends[k - 1] = place
  THEN CHOOSE k \in 1 .. MaxSent : ends[k - 1] = place
  ELSE 0

InitRead ==
  /\ InitSession
  /\ at = [p \in Producers |-> "off"]
  /\ bytes = [p \in Producers |-> 0]
  /\ front = 0
  /\ head_parse = FALSE
  /\ cur = 0
  /\ total = 0
  /\ recv_pending = FALSE
  /\ ends \in [0 .. MaxSent -> 0 .. MaxSent * (MAX + 1)]
  /\ ends[0] = 0 /\ \A k \in 1 .. MaxSent : SizeOf(k) \in Sizes
  /\ got = 0
  /\ fulls = 0
  /\ delivered = 0

-----------------------------------------------------------------------------
(* The stream: what the peer has sent arrives in whatever pieces. *)

(* async_read_some takes what there is, up to MAX bytes. *)
Fill(p) ==
  /\ at[p] \in {"armed", "raw"}
  /\ ends[MaxSent] > got
  /\ \E n \in 1 .. MAX :
       /\ n <= ends[MaxSent] - got
       /\ bytes' = [bytes EXCEPT ![p] = n]
       /\ got' = got + n
       /\ fulls' = IF n = MAX /\ at[p] = "armed" THEN fulls + 1 ELSE fulls
  /\ front' = HeaderAt(got)
  /\ at' = [at EXCEPT ![p] = IF @ = "armed" THEN "filled" ELSE "raw_filled"]
  /\ UNCHANGED <<allVars, nodeVars, recv_pending, ends, delivered>>

(* A read fails, as the connection does: handleRead drops the session from the map,   *)
(* readCallback only returns; both end their chain. *)
Fail(p) ==
  /\ at[p] \in {"armed", "raw"}
  /\ at' = [at EXCEPT ![p] = "ended"]
  /\ UNCHANGED <<allVars, bytes, front, nodeVars, recv_pending, peerVars, fulls, delivered>>

-----------------------------------------------------------------------------
(* readPackage and handleRead *)

(* recv_pending is asked for, and not set. *)
ReadPackage(p) ==
  /\ at[p] = "off"
  /\ ~ recv_pending
  /\ at' = [at EXCEPT ![p] = "armed"]
  /\ UNCHANGED <<allVars, bytes, front, nodeVars, recv_pending, peerVars, fulls, delivered>>

Handle(p) ==
  /\ at[p] = "filled" /\ HandlerFree
  /\ at' = [at EXCEPT ![p] = "loop"]
  /\ UNCHANGED <<allVars, bytes, front, nodeVars, recv_pending, peerVars, fulls, delivered>>

(* The next read is started, and the handler returns. *)
Arm(p) ==
  /\ at' = [at EXCEPT ![p] = "armed"]
  /\ bytes' = [bytes EXCEPT ![p] = 0]
  /\ UNCHANGED <<allVars, front, recv_pending, peerVars, fulls, delivered>>

InLoop(p) == at[p] = "loop" /\ bytes[p] > 0

(* Fewer bytes than the greatest package has: they wait in the package for   *)
(* the rest of a header, though a header may be among them. *)
AppendHead(p) ==
  /\ InLoop(p) /\ ~ head_parse
  /\ bytes[p] < MAX
  /\ cur' = cur + bytes[p]
  /\ Arm(p)
  /\ UNCHANGED <<head_parse, total>>

(* Slip: as many bytes as a header has are enough. *)
FullBufferByHeader(p) == InLoop(p) /\ ~ head_parse /\ bytes[p] > HEAD

(* A full buffer: its first bytes are taken for a header. *)
FullBuffer(p) == InLoop(p) /\ ~ head_parse /\ bytes[p] = MAX

Acceptable(k) == k # 0 /\ SizeOf(k) <= MAX

(* A header of another id or too large a size: the session leaves the map,   *)
(* and is not read any more. *)
RejectHeader(p) ==
  /\ FullBuffer(p)
  /\ ~ Acceptable(front)
  /\ at' = [at EXCEPT ![p] = "ended"]
  /\ UNCHANGED <<allVars, bytes, front, nodeVars, recv_pending, peerVars, fulls, delivered>>

(* Less than total_size is left behind the header: all of it is taken. *)
HeadPart(p) ==
  /\ FullBuffer(p)
  /\ Acceptable(front)
  /\ MAX - HEAD < SizeOf(front)
  /\ total' = SizeOf(front)
  /\ cur' = cur + HEAD + (MAX - HEAD)
  /\ head_parse' = TRUE
  /\ Arm(p)

(* recv_completed_queue.push, inside the handler. *)
Deliver(p, left) ==
  /\ Receive(p)
  /\ at' = [at EXCEPT ![p] = "pushing"]
  /\ bytes' = [bytes EXCEPT ![p] = left]
  /\ UNCHANGED <<front, head_parse, recv_pending, peerVars, fulls, delivered>>

(* The message, one byte less than what is left of the package, is taken. *)
HeadWhole(p) ==
  /\ FullBuffer(p)
  /\ Acceptable(front)
  /\ MAX - HEAD >= SizeOf(front)
  /\ total' = SizeOf(front)
  /\ LET msg_size == SizeOf(front) - HEAD - 1 IN
     /\ cur' = cur + HEAD + msg_size + 1
     /\ Deliver(p, MAX - HEAD - msg_size)

(* The rest of a package whose header is known, if it is not complete: a     *)
(* negative msg_remain is compared as unsigned, a huge number. *)
RestPart(p) ==
  /\ InLoop(p) /\ head_parse
  /\ total < cur \/ bytes[p] < total - cur
  /\ cur' = cur + bytes[p]
  /\ Arm(p)
  /\ UNCHANGED <<head_parse, total>>

(* Slip: the unsigned comparison with a negative number is not met. *)
RestWholeSigned(p) ==
  /\ InLoop(p) /\ head_parse
  /\ bytes[p] + cur >= total
  /\ cur' = total + 1
  /\ Deliver(p, IF bytes[p] + cur - total > MAX THEN MAX ELSE bytes[p] + cur - total)
  /\ UNCHANGED total

RestWhole(p) ==
  /\ InLoop(p) /\ head_parse
  /\ total >= cur /\ bytes[p] >= total - cur
  /\ cur' = total + 1
  /\ Deliver(p, bytes[p] - (total - cur))
  /\ UNCHANGED total

(* The push is done: the notified thread is told, the node is a new one, and *)
(* what is left is looked at from the start of the buffer again. *)
AfterPush(p) ==
  /\ at[p] = "pushing" /\ pc[p] = "idle"
  /\ delivered' = delivered + 1
  /\ head_parse' = FALSE
  /\ cur' = 0
  /\ total' = 0
  /\ at' = [at EXCEPT ![p] = IF bytes[p] = 0 THEN "armed" ELSE "loop"]
  /\ UNCHANGED <<allVars, bytes, front, recv_pending, peerVars, fulls>>

-----------------------------------------------------------------------------
(* readFromSocket and readCallback, readAllFromSocket and readAllCallback *)

ReadFromSocket(p) ==
  /\ at[p] = "off"
  /\ ~ recv_pending
  /\ recv_pending' = TRUE
  /\ at' = [at EXCEPT ![p] = "raw"]
  /\ UNCHANGED <<allVars, bytes, front, nodeVars, peerVars, fulls, delivered>>

(* The same read, but recv_pending is asked for and not set. *)
ReadAllFromSocket(p) ==
  /\ at[p] = "off"
  /\ ~ recv_pending
  /\ at' = [at EXCEPT ![p] = "raw"]
  /\ UNCHANGED <<allVars, bytes, front, nodeVars, recv_pending, peerVars, fulls, delivered>>

(* recv_tmp_buff itself is pushed, however much was read: its total_size is  *)
(* 0. *)
ReadCallback(p) ==
  /\ at[p] \in {"raw_filled", "raw_nothing"} /\ HandlerFree
  /\ Receive(p)
  /\ at' = [at EXCEPT ![p] = "raw_pushing"]
  /\ UNCHANGED <<bytes, front, nodeVars, recv_pending, peerVars, fulls, delivered>>

(* Slip: the next read asks for the whole buffer. *)
RawAgainWhole(p) ==
  /\ at[p] = "raw_pushing" /\ pc[p] = "idle"
  /\ recv_pending' = FALSE
  /\ at' = [at EXCEPT ![p] = "raw"]
  /\ bytes' = [bytes EXCEPT ![p] = 0]
  /\ UNCHANGED <<allVars, front, nodeVars, peerVars, fulls, delivered>>

(* The next read asks for total_size bytes: for none, and completes at once. *)
RawAgain(p) ==
  /\ at[p] = "raw_pushing" /\ pc[p] = "idle"
  /\ recv_pending' = FALSE
  /\ at' = [at EXCEPT ![p] = "raw_nothing"]
  /\ bytes' = [bytes EXCEPT ![p] = 0]
  /\ UNCHANGED <<allVars, front, nodeVars, peerVars, fulls, delivered>>

-----------------------------------------------------------------------------
HandleRead(p) ==
  \/ Handle(p) \/ AppendHead(p) \/ RejectHeader(p) \/ HeadPart(p) \/ HeadWhole(p)
  \/ RestPart(p) \/ RestWhole(p) \/ AfterPush(p)
Raw(p) == ReadCallback(p) \/ RawAgain(p)

NextRead ==
  \/ \E t \in Threads : Run(t) /\ UNCHANGED readVars
  \/ \E c \in Consumers : Consume(c) /\ UNCHANGED readVars
  \/ \E p \in Producers :
       \/ ReadPackage(p) \/ ReadFromSocket(p) \/ ReadAllFromSocket(p)
       \/ Fill(p) \/ Fail(p) \/ HandleRead(p) \/ Raw(p)

(* A thread inside a member function keeps running, the io thread runs every *)
(* completion, and the notified thread keeps asking. *)
SpecRead ==
  /\ InitRead
  /\ [][NextRead]_readAllVars
  /\ \A t \in Threads : WF_readAllVars(Run(t) /\ UNCHANGED readVars)
  /\ \A c \in Consumers : WF_readAllVars(Consume(c) /\ UNCHANGED readVars)
  /\ \A p \in Producers : WF_readAllVars(HandleRead(p)) /\ WF_readAllVars(Raw(p))

-----------------------------------------------------------------------------
(* Type invariant, and what the handlers hold between their steps. *)
TypeOKRead ==
  /\ TypeOKSession
  /\ at \in [Producers -> {"off", "armed", "filled", "loop", "pushing", "ended",
                           "raw", "raw_filled", "raw_nothing", "raw_pushing"}]
  /\ bytes \in [Producers -> 0 .. MAX]
  /\ {head_parse, recv_pending} \subseteq BOOLEAN
  /\ front \in 0 .. MaxSent
  /\ got \in 0 .. ends[MaxSent]
  /\ \A p \in Producers : at[p] \in {"filled", "loop"} => bytes[p] > 0
  /\ \A p, q \in Producers : at[p] \in Running /\ at[q] \in Running => p = q

(* A package is delivered only out of a read that returned the greatest size *)
(* a package can have, to the byte: shorter reads pile up in the node,       *)
(* although the comment at the branch speaks of the size of a header.        *)
FullReadsOnly == delivered + Cardinality({p \in Producers : at[p] = "pushing"}) <= fulls

(* The ring under the handlers and the session's consumers: a front pointer  *)
(* is never null and is read late only by a lap, and one handler of the      *)
(* session runs at a time. *)
ReadInv == TypeOKRead /\ NeverNull /\ LateReadByLaps

(* A session that has taken more than its package's size waits for ever: no  *)
(* bytes that come later complete the package. *)
Stuck == head_parse /\ cur > total /\ \A p \in Producers : at[p] # "pushing"
StuckForGood == [][Stuck => Stuck']_readAllVars

(* Once a raw read has completed, its chain pushes for ever, with nothing    *)
(* read: up to the bound of the model. *)
RawFloods == \A p \in Producers : at[p] = "raw_pushing" ~> pushes = MaxPushes

=============================================================================
