-------------------------- MODULE MAsioIOServerPool --------------------------
(***************************************************************************)
(* MNet/MIOPool/MAsioIOServerPool: Size io_contexts, each run by a thread  *)
(* of its own and kept alive by a work guard.  Threads of the program take *)
(* contexts in turn, without a lock, and start an operation on the context *)
(* they were given.  stop() is called by the thread that dispatches        *)
(* signals and by the one that destroys the pool.                          *)
(***************************************************************************)
EXTENDS Naturals, FiniteSets

CONSTANTS
  Users,     \* threads that call getIOContext, once each
  Loopers,   \* those whose operation starts itself again, as accept does
  Stoppers,  \* threads that call stop
  Size       \* contexts, numbered from 0

ASSUME SizeAssumption == Size \in Nat \ {0}
ASSUME LoopersAssumption == Loopers \subseteq Users

Contexts == 0 .. Size - 1

VARIABLES
  m_iocontext_index,
  user,     \* user[u]: the next step of u
  context,  \* context[u]: the index that u read
  busy,     \* users whose operation is outstanding
  m_works,  \* contexts that still have their work guard
  ended,    \* contexts whose run() has returned
  joined,   \* contexts whose thread was joined
  stopper,  \* stopper[a]: the next step of a in stop()
  joining,  \* joining[a]: the thread that a joins
  stops,    \* history: calls of stop
  overlap,  \* history: two users were in getIOContext at once
  fault     \* what ended the program, "none" while it runs

takeVars == <<m_iocontext_index, user, context, busy, overlap>>
threadVars == <<m_works, ended, joined>>
stopVars == <<stopper, joining, stops>>
poolVars == <<takeVars, threadVars, stopVars>>

InitPool ==
  /\ m_iocontext_index = 0
  /\ user = [u \in Users |-> "idle"]
  /\ context = [u \in Users |-> 0]
  /\ busy = {}
  /\ m_works = Contexts
  /\ ended = {}
  /\ joined = {}
  /\ stopper = [a \in Stoppers |-> "idle"]
  /\ joining = [a \in Stoppers |-> 0]
  /\ stops = 0
  /\ overlap = FALSE
  /\ fault = "none"

Inside == {u \in Users : user[u] \in {"store", "wrap"}}

Take(u, from, to) ==
  /\ fault = "none"
  /\ user[u] = from
  /\ user' = [user EXCEPT ![u] = to]
  /\ UNCHANGED <<threadVars, stopVars>>

(* A definition whose comment says Slip is the one after it with a plausible *)
(* mistake in it, there to see that the properties notice.                   *)

LoadIndex(u) ==
  /\ Take(u, "idle", "store")
  /\ context' = [context EXCEPT ![u] = m_iocontext_index]
  /\ overlap' = (overlap \/ Inside # {})
  /\ UNCHANGED <<m_iocontext_index, busy, fault>>

(* m_iocontext_index++, after which an index beyond the last context has     *)
(* already been used. *)
StoreIndex(u) ==
  /\ Take(u, "store", "wrap")
  /\ m_iocontext_index' = context[u] + 1
  /\ fault' = IF context[u] \in Contexts THEN fault ELSE "beyond"
  /\ UNCHANGED <<context, busy, overlap>>

(* Slip: the index is compared with > and not with >=. *)
WrapIndexLate(u) ==
  /\ Take(u, "wrap", "have")
  /\ m_iocontext_index' = IF m_iocontext_index > Size THEN 0 ELSE m_iocontext_index
  /\ UNCHANGED <<context, busy, overlap, fault>>

WrapIndex(u) ==
  /\ Take(u, "wrap", "have")
  /\ m_iocontext_index' = IF m_iocontext_index >= Size THEN 0 ELSE m_iocontext_index
  /\ UNCHANGED <<context, busy, overlap, fault>>

(* The user starts an operation on its context. *)
Start(u) ==
  /\ Take(u, "have", "done")
  /\ busy' = busy \cup {u}
  /\ UNCHANGED <<m_iocontext_index, context, overlap, fault>>

(* It completes; one that starts itself again is as before. *)
Complete(u) ==
  /\ fault = "none"
  /\ u \in busy \ Loopers
  /\ context[u] \notin ended
  /\ busy' = busy \ {u}
  /\ UNCHANGED <<m_iocontext_index, user, context, overlap, threadVars, stopVars, fault>>

Busy(i) == \E u \in busy : context[u] = i

(* run() of context i returns. *)
RunReturns(i) ==
  /\ fault = "none"
  /\ i \notin m_works \cup ended
  /\ ~Busy(i)
  /\ ended' = ended \cup {i}
  /\ UNCHANGED <<takeVars, m_works, joined, stopVars, fault>>

Stopping(a, from, to) ==
  /\ fault = "none"
  /\ stopper[a] = from
  /\ stopper' = [stopper EXCEPT ![a] = to]
  /\ UNCHANGED takeVars

CallStop(a) ==
  /\ Stopping(a, "idle", "reset")
  /\ stops' = stops + 1
  /\ UNCHANGED <<joining, threadVars, fault>>

(* Slip: the work guards stay. *)
ResetNothing(a) ==
  /\ Stopping(a, "reset", "join")
  /\ UNCHANGED <<joining, stops, threadVars, fault>>

ResetWorks(a) ==
  /\ Stopping(a, "reset", "join")
  /\ m_works' = {}
  /\ UNCHANGED <<joining, stops, ended, joined, fault>>

(* join() throws for a thread that was joined, or that another stop() joins. *)
JoinFails(a) ==
  /\ Stopping(a, "join", "over")
  /\ joining[a] < Size
  /\ \/ joining[a] \in joined
     \/ \E b \in Stoppers \ {a} : stopper[b] = "join" /\ joining[b] = joining[a]
  /\ fault' = "joined"
  /\ UNCHANGED <<joining, stops, threadVars>>

(* The contexts are not stopped: the join waits until run() has nothing left *)
(* to do. *)
Join(a) ==
  /\ Stopping(a, "join", "join")
  /\ joining[a] \in ended \ joined
  /\ joined' = joined \cup {joining[a]}
  /\ joining' = [joining EXCEPT ![a] = @ + 1]
  /\ UNCHANGED <<stops, m_works, ended, fault>>

StopReturns(a) ==
  /\ Stopping(a, "join", "idle")
  /\ joining[a] = Size
  /\ joining' = [joining EXCEPT ![a] = 0]
  /\ UNCHANGED <<stops, threadVars, fault>>

Taking(u) ==
  LoadIndex(u) \/ StoreIndex(u) \/ WrapIndex(u)
StopStep(a) == ResetWorks(a) \/ JoinFails(a) \/ Join(a) \/ StopReturns(a)
PoolStep ==
  \/ \E u \in Users : Complete(u)
  \/ \E i \in Contexts : RunReturns(i)
  \/ \E a \in Stoppers : StopStep(a)
=============================================================================
