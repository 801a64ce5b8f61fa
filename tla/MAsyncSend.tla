----------------------------- MODULE MAsyncSend -----------------------------
(***************************************************************************)
(* Sending packages on one session of MNet/MAsyncSocket: writePackage (and *)
(* writePackageWithStrand, the same control), splitSendPackage and the     *)
(* completion handler handleWrite, with the send_queue of the session and  *)
(* the asynchronous writes of its socket.                                  *)
(*                                                                         *)
(* The queue is the bounded drop-oldest FIFO that MSyncAnnularQueue is     *)
(* shown to implement.  A package is its number in the order of pushes and *)
(* its content is PackageSize bytes, a byte being <<package, place>>.      *)
(***************************************************************************)
EXTENDS Naturals, Sequences

CONSTANTS
  Users,        \* callers of writePackage and splitSendPackage
  Io,           \* the thread that runs io_context: it runs handleWrite
  Partial,      \* may async_write_some transfer less than it was given?
  Bound,        \* elements the send_queue holds: CAPACITY - 1
  PackageSize,  \* bytes of a package
  MaxChunks,    \* bound of the model: chunks of one splitSendPackage
  MaxPackages   \* bound of the model: packages pushed

ASSUME SendAssumption ==
  /\ Io \notin Users
  /\ Partial \in BOOLEAN
  /\ {Bound, PackageSize, MaxChunks, MaxPackages} \subseteq Nat \ {0}

Agents == Users \cup {Io}
Packages == 1 .. MaxPackages

VARIABLES
  send_queue,     \* packages waiting, oldest first
  send_tmp_buff,  \* the package being written: 0 before the first
  cur_size,       \* cur_size[n]: bytes of package n that handlers counted
  send_pending,   \* the flag of the session
  inSessions,     \* the session is in the map: handleWrite has not erased it
  pc,             \* pc[a]: the next step of a
  chunks,         \* chunks[u]: what is left to push of u's splitSendPackage
  ops,            \* socket: the async_write_some under way, oldest first
  posted,         \* socket: completions not handled yet; 0 is an error
  wire,           \* socket: the bytes transferred
  broken,         \* socket: the connection is lost
  made,           \* history: packages pushed
  dropped,        \* history: packages a full send_queue gave up, or lost with one
  asked,          \* history: the packages that writePackage pushed
  mine,           \* history: mine[u]: what u has pushed and not tested for
  stranded,       \* history: told pending when the queue had been found empty
  overlap         \* history: writePackage started a write beside another

socketVars == <<ops, posted, wire, broken>>
historyVars == <<made, dropped, asked, mine, stranded, overlap>>
vars == <<send_queue, send_tmp_buff, cur_size, send_pending, inSessions, pc,
          chunks, socketVars, historyVars>>

Init ==
  /\ send_queue = <<>>
  /\ send_tmp_buff = 0
  /\ cur_size = [n \in Packages |-> 0]
  /\ send_pending = FALSE
  /\ inSessions = TRUE
  /\ pc = [a \in Agents |-> "idle"]
  /\ chunks = [u \in Users |-> 0]
  /\ ops = <<>>
  /\ posted = <<>>
  /\ wire = <<>>
  /\ broken = FALSE
  /\ made = 0
  /\ dropped = {}
  /\ asked = {}
  /\ mine = [u \in Users |-> 0]
  /\ stranded = {}
  /\ overlap = FALSE

Goto(a, from, to) ==
  /\ pc[a] = from
  /\ pc' = [pc EXCEPT ![a] = to]

(* A write is under way, is being started, or has ended and its handler may *)
(* start the next one.                                                      *)
Sending ==
  \/ ops # <<>>
  \/ posted # <<>>
  \/ \E a \in Agents : pc[a] \in {"front", "null", "pop", "start", "empty?", "set"}

(* A handler starts when the io thread is free. *)
MayHandle == pc[Io] = "idle"

(* A definition whose comment says Slip is the one after it with a plausible *)
(* mistake in it, there to see that the properties notice.                   *)

(* send_queue.push: a full queue gives up its oldest package. *)
Push ==
  /\ made < MaxPackages
  /\ made' = made + 1
  /\ \/ /\ Len(send_queue) < Bound
        /\ send_queue' = Append(send_queue, made + 1)
        /\ UNCHANGED dropped
     \/ /\ Len(send_queue) = Bound
        /\ send_queue' = Append(Tail(send_queue), made + 1)
        /\ dropped' = dropped \cup {Head(send_queue)}

-----------------------------------------------------------------------------
(* The caller: writePackage. *)
WritePackage(u) ==
  /\ Goto(u, "idle", "pending?")
  /\ Push
  /\ asked' = asked \cup {made + 1}
  /\ mine' = [mine EXCEPT ![u] = made + 1]
  /\ UNCHANGED <<send_tmp_buff, cur_size, send_pending, inSessions, chunks,
                 socketVars, stranded, overlap>>

(* Returns MNET_WRITE_PENDING_NOW, too late when the handler has found the  *)
(* queue empty and is about to clear the flag: the package waits for the    *)
(* next call that starts a write.                                           *)
AnswerPending(u) ==
  /\ send_pending
  /\ Goto(u, "pending?", "idle")
  /\ stranded' = IF pc[Io] = "clear" THEN stranded \cup {mine[u]} ELSE stranded
  /\ mine' = [mine EXCEPT ![u] = 0]
  /\ UNCHANGED <<send_queue, send_tmp_buff, cur_size, send_pending, inSessions,
                 chunks, socketVars, made, dropped, asked, overlap>>

(* Or goes on to start a write: beside another one, or on a queue that      *)
(* another has emptied since the push.                                      *)
GoOn(u) ==
  /\ ~ send_pending
  /\ Goto(u, "pending?", "front")
  /\ stranded' = {}
  /\ overlap' = (overlap \/ Sending \/ send_queue = <<>>)
  /\ mine' = [mine EXCEPT ![u] = 0]
  /\ UNCHANGED <<send_queue, send_tmp_buff, cur_size, send_pending, inSessions,
                 chunks, socketVars, made, dropped, asked>>

CheckPending(u) == AnswerPending(u) \/ GoOn(u)

(* splitSendPackage: pushes the chunks, and that is all it does. *)
SplitSendPackage(u, k) ==
  /\ made + k <= MaxPackages
  /\ Goto(u, "idle", "chunk")
  /\ chunks' = [chunks EXCEPT ![u] = k]
  /\ UNCHANGED <<send_queue, send_tmp_buff, cur_size, send_pending, inSessions,
                 socketVars, historyVars>>

PushChunk(u) ==
  /\ Push
  /\ Goto(u, "chunk", IF chunks[u] = 1 THEN "idle" ELSE "chunk")
  /\ chunks' = [chunks EXCEPT ![u] = @ - 1]
  /\ UNCHANGED <<send_tmp_buff, cur_size, send_pending, inSessions, asked, mine,
                 stranded, overlap, socketVars>>

-----------------------------------------------------------------------------
(* Starting the next package, in writePackage and in handleWrite alike:     *)
(* send_tmp_buff = *front(), which an empty queue makes a null dereference, *)
TakeFront(a) ==
  /\ Goto(a, "front", IF send_queue = <<>> THEN "null" ELSE "pop")
  /\ send_tmp_buff' = IF send_queue = <<>> THEN send_tmp_buff ELSE Head(send_queue)
  /\ UNCHANGED <<send_queue, cur_size, send_pending, inSessions, chunks,
                 socketVars, historyVars>>

(* pop, which takes one that nobody has seen when the queue has given up the *)
(* one just taken; *)
PopFront(a) ==
  /\ Goto(a, "pop", "start")
  /\ send_queue' = IF send_queue = <<>> THEN <<>> ELSE Tail(send_queue)
  /\ dropped' = IF send_queue # <<>> /\ send_tmp_buff \in dropped
                THEN dropped \cup {Head(send_queue)} ELSE dropped
  /\ UNCHANGED <<send_tmp_buff, cur_size, send_pending, inSessions, chunks,
                 socketVars, made, asked, mine, stranded, overlap>>

(* and async_write_some of the whole package. *)
StartWrite(a) ==
  /\ Goto(a, "start", "idle")
  /\ ops' = Append(ops, [package |-> send_tmp_buff, from |-> 0])
  /\ UNCHANGED <<send_queue, send_tmp_buff, cur_size, send_pending, inSessions,
                 chunks, posted, wire, broken, historyVars>>

-----------------------------------------------------------------------------
(* The socket serves its writes in the order they were started: the oldest  *)
(* one transfers some of its bytes and posts its completion.                *)
Transfer ==
  /\ ops # <<>>
  /\ ~ broken
  /\ LET op == Head(ops) IN
       \E k \in 1 .. PackageSize - op.from :
         /\ Partial \/ k = PackageSize - op.from
         /\ wire' = wire \o [b \in 1 .. k |-> <<op.package, op.from + b>>]
         /\ posted' = Append(posted, k)
  /\ ops' = Tail(ops)
  /\ UNCHANGED <<send_queue, send_tmp_buff, cur_size, send_pending, inSessions,
                 pc, chunks, broken, historyVars>>

Break ==
  /\ ~ broken
  /\ broken' = TRUE
  /\ UNCHANGED <<send_queue, send_tmp_buff, cur_size, send_pending, inSessions,
                 pc, chunks, ops, posted, wire, historyVars>>

Fail ==
  /\ ops # <<>>
  /\ broken
  /\ ops' = Tail(ops)
  /\ posted' = Append(posted, 0)
  /\ UNCHANGED <<send_queue, send_tmp_buff, cur_size, send_pending, inSessions,
                 pc, chunks, wire, broken, historyVars>>

-----------------------------------------------------------------------------
(* handleWrite: an error erases the session and nothing else, *)
HandleError ==
  /\ MayHandle /\ posted # <<>> /\ Head(posted) = 0
  /\ posted' = Tail(posted)
  /\ inSessions' = FALSE
  /\ UNCHANGED <<send_queue, send_tmp_buff, cur_size, send_pending, pc, chunks,
                 ops, wire, broken, historyVars>>

(* Is the package in send_tmp_buff written, after this completion? *)
Written == cur_size[send_tmp_buff] + Head(posted) >= PackageSize

(* Slip: the rest is sent from the start of the package again. *)
HandleRestFromStart ==
  /\ MayHandle /\ posted # <<>> /\ Head(posted) # 0 /\ ~ Written
  /\ posted' = Tail(posted)
  /\ cur_size' = [cur_size EXCEPT ![send_tmp_buff] = @ + Head(posted)]
  /\ ops' = Append(ops, [package |-> send_tmp_buff, from |-> 0])
  /\ UNCHANGED <<send_queue, send_tmp_buff, send_pending, inSessions, pc, chunks,
                 wire, broken, historyVars>>

(* a package not written yet has the rest of it written, *)
HandleRest ==
  /\ MayHandle /\ posted # <<>> /\ Head(posted) # 0 /\ ~ Written
  /\ posted' = Tail(posted)
  /\ cur_size' = [cur_size EXCEPT ![send_tmp_buff] = @ + Head(posted)]
  /\ ops' = Append(ops, [package |-> send_tmp_buff,
                         from |-> cur_size[send_tmp_buff] + Head(posted)])
  /\ UNCHANGED <<send_queue, send_tmp_buff, send_pending, inSessions, pc, chunks,
                 wire, broken, historyVars>>

(* and after a whole one the queue is asked, *)
HandleWritten ==
  /\ MayHandle /\ posted # <<>> /\ Head(posted) # 0 /\ Written
  /\ posted' = Tail(posted)
  /\ Goto(Io, "idle", "empty?")
  /\ UNCHANGED <<send_queue, send_tmp_buff, cur_size, send_pending, inSessions,
                 chunks, ops, wire, broken, historyVars>>

(* Slip: the next package is started without asking. *)
CheckQueueNot ==
  /\ Goto(Io, "empty?", "set")
  /\ UNCHANGED <<send_queue, send_tmp_buff, cur_size, send_pending, inSessions,
                 chunks, socketVars, historyVars>>

CheckQueue ==
  /\ Goto(Io, "empty?", IF send_queue = <<>> THEN "clear" ELSE "set")
  /\ UNCHANGED <<send_queue, send_tmp_buff, cur_size, send_pending, inSessions,
                 chunks, socketVars, historyVars>>

(* Slip: the flag is left as it was. *)
ClearPendingForgotten ==
  /\ Goto(Io, "clear", "idle")
  /\ UNCHANGED <<send_queue, send_tmp_buff, cur_size, send_pending, inSessions,
                 chunks, socketVars, historyVars>>

(* which ends the sending when it is empty, *)
ClearPending ==
  /\ Goto(Io, "clear", "idle")
  /\ send_pending' = FALSE
  /\ UNCHANGED <<send_queue, send_tmp_buff, cur_size, inSessions, chunks,
                 socketVars, historyVars>>

(* and otherwise goes on with its oldest package. *)
SetPending ==
  /\ Goto(Io, "set", "front")
  /\ send_pending' = TRUE
  /\ UNCHANGED <<send_queue, send_tmp_buff, cur_size, inSessions, chunks,
                 socketVars, historyVars>>

-----------------------------------------------------------------------------
Starting(a) == TakeFront(a) \/ PopFront(a) \/ StartWrite(a)
Calling(u) == CheckPending(u) \/ PushChunk(u) \/ Starting(u)
Handling ==
  \/ HandleError \/ HandleRest \/ HandleWritten
  \/ CheckQueue \/ ClearPending \/ SetPending \/ Starting(Io)

Next ==
  \/ \E u \in Users : WritePackage(u) \/ Calling(u)
  \/ \E u \in Users, k \in 1 .. MaxChunks : SplitSendPackage(u, k)
  \/ Handling
  \/ Transfer \/ Break \/ Fail

Spec == Init /\ [][Next]_vars

(* A call that has begun goes on, the io thread runs what is posted, and    *)
(* the peer goes on reading while the connection stands.                    *)
Fairness ==
  /\ \A u \in Users : WF_vars(Calling(u))
  /\ WF_vars(Handling)
  /\ WF_vars(Transfer \/ Fail)
FairSpec == Spec /\ Fairness

-----------------------------------------------------------------------------
Labels == {"idle", "pending?", "chunk", "front", "null", "pop", "start",
           "empty?", "clear", "set"}

(* Type invariant of the session, its callers and its socket. *)
TypeOK ==
  /\ send_queue \in Seq(Packages)
  /\ Len(send_queue) <= Bound
  /\ send_tmp_buff \in 0 .. MaxPackages
  /\ cur_size \in [Packages -> 0 .. PackageSize - 1]
  /\ send_pending \in BOOLEAN
  /\ inSessions \in BOOLEAN
  /\ pc \in [Agents -> Labels]
  /\ chunks \in [Users -> 0 .. MaxChunks]
  /\ ops \in Seq([package : Packages, from : 0 .. PackageSize - 1])
  /\ posted \in Seq(0 .. PackageSize)
  /\ wire \in Seq(Packages \X (1 .. PackageSize))
  /\ broken \in BOOLEAN
  /\ made \in 0 .. MaxPackages
  /\ dropped \subseteq Packages
  /\ asked \subseteq Packages
  /\ mine \in [Users -> 0 .. MaxPackages]
  /\ stranded \subseteq 0 .. MaxPackages
  /\ overlap \in BOOLEAN

(* Unless writePackage starts a write beside another, the peer reads whole  *)
(* packages, each at most once and in the order they were pushed: a byte    *)
(* follows the byte before it in its package, and a first byte follows the  *)
(* last byte of an older package.  Nothing in the code says so in one       *)
(* place: it rests on send_tmp_buff, cur_size and the queue being taken     *)
(* from in the same order as the completions come, whatever chunks are      *)
(* pushed between two steps of the handler.                                 *)
WireInOrder ==
  overlap \/ \A i \in DOMAIN wire :
    IF wire[i][2] = 1
    THEN i > 1 => wire[i - 1][1] < wire[i][1] /\ wire[i - 1][2] = PackageSize
    ELSE i > 1 /\ wire[i - 1] = <<wire[i][1], wire[i][2] - 1>>

(* The session has at most one write under way, started, completed or being *)
(* handled, however many callers are told to wait, unless writePackage      *)
(* started one beside another: it only asks send_pending, which a first     *)
(* write does not set, although MAsyncSocket.cpp:896 promises               *)
(* MNET_WRITE_PENDING_NOW to such a caller.                                 *)
OneWrite ==
  \/ overlap
  \/ Len(ops) + Len(posted) + (IF pc[Io] \in {"idle", "clear"} THEN 0 ELSE 1) <= 1

(* front() is not dereferenced on an empty send_queue, in writePackage      *)
(* (which has just pushed) or in handleWrite (which has just asked), unless *)
(* another writePackage took the package in between. *)
NeverNull == overlap \/ \A a \in Agents : pc[a] # "null"

(* A caller that is told MNET_WRITE_PENDING_NOW is right to leave: while    *)
(* the flag is up a write is under way whose handler will ask the queue, or *)
(* that handler runs, however calls overlap; only a failed write leaves the *)
(* flag up with nobody to take it down. *)
PendingGoes ==
  send_pending /\ inSessions =>
    ops # <<>> \/ posted # <<>> \/ \E a \in Agents : pc[a] \notin {"idle", "pending?", "chunk"}

(* What writePackage took does not lie in the queue unattended, however     *)
(* calls overlap: while nothing is being sent, a package of its that waits  *)
(* there is one whose caller has yet to test the flag, or one whose caller  *)
(* was told MNET_WRITE_PENDING_NOW between the handler's test of the queue  *)
(* (MAsyncSocket.cpp:443) and its clearing of the flag (445), since when    *)
(* no call has started a write.                                             *)
Attended ==
  inSessions /\ ~ Sending =>
    \A i \in DOMAIN send_queue : send_queue[i] \in asked =>
      send_queue[i] \in stranded \/ \E u \in Users : mine[u] = send_queue[i]

(* However callers, completions and a lost connection fall, the session has *)
(* one write, takes no package that is not there, and leaves none behind.   *)
SendInv == TypeOK /\ OneWrite /\ NeverNull /\ PendingGoes /\ Attended

(* What writePackage took reaches the peer, written at once or answered     *)
(* MNET_WRITE_PENDING_NOW beside any step of the handler, unless a later    *)
(* push finds the queue full and gives it up, or gives up the one that is   *)
(* taken just then, so that pop takes this one in its place; or the         *)
(* connection is lost, or a writePackage has started a write beside         *)
(* another.  One answered between the handler's test of the queue and its   *)
(* clearing of the flag stays behind, and goes on its way with the next     *)
(* writePackage that starts a write.  (What splitSendPackage took waits for *)
(* such a call too.)                                                        *)
Delivered ==
  \A n \in Packages :
    n \in asked \ stranded ~>
      \/ \E i \in DOMAIN wire : wire[i] = <<n, PackageSize>>
      \/ n \in dropped \cup stranded
      \/ broken
      \/ overlap
=============================================================================
