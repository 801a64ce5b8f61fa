---------------------------- MODULE MSignalUtils -----------------------------
(***************************************************************************)
(* MSignal/MSignalUtils.h with MAsioIOServerPool, whose stop() is the      *)
(* callback of SIGINT and SIGTERM.  signal_handler runs on a thread of the *)
(* kernel's choice and takes no lock; the dispatching thread owns          *)
(* m_sig_mutex from the test of the flag to the pop, over the callbacks,   *)
(* and gives it back only while it waits.                                  *)
(***************************************************************************)
EXTENDS MAsioIOServerPool, Sequences

CONSTANTS
  Signals,      \* signals that arrive, each once
  Dispatcher,   \* m_signal_thread
  Owner         \* the thread that owns the pool

ASSUME StoppersAssumption == Stoppers = {Dispatcher, Owner} /\ Dispatcher # Owner

VARIABLES
  m_signal_id_queue,
  m_stop_wait_flag,
  m_thread_loop_work_flag,
  m_sig_mutex,  \* whether the dispatcher owns it
  dispatcher,   \* the next step of m_signal_thread
  handler,      \* handler[s]: the next step of s's signal_handler
  exiting,      \* the static objects are being destroyed
  missed,       \* history: a notification came between the test and the wait
  overtaken     \* history: a signal was taken before its handler set the flag

signalVars == <<m_signal_id_queue, m_stop_wait_flag, m_thread_loop_work_flag,
                m_sig_mutex, dispatcher, handler, exiting,
                missed, overtaken>>
vars == <<poolVars, fault, signalVars>>

Init ==
  /\ InitPool
  /\ m_signal_id_queue = <<>>
  /\ m_stop_wait_flag = FALSE
  /\ m_thread_loop_work_flag = TRUE
  /\ m_sig_mutex = FALSE
  /\ dispatcher = "lock"
  /\ handler = [s \in Signals |-> "none"]
  /\ exiting = FALSE
  /\ missed = FALSE
  /\ overtaken = FALSE

Handling(s, from, to) ==
  /\ fault = "none"
  /\ handler[s] = from
  /\ handler' = [handler EXCEPT ![s] = to]
  /\ UNCHANGED <<poolVars, fault, m_thread_loop_work_flag, m_sig_mutex, exiting>>

(* signal_handler, for a signal that is registered. *)
PushId(s) ==
  /\ Handling(s, "none", "flag")
  /\ ~exiting
  /\ m_signal_id_queue' = Append(m_signal_id_queue, s)
  /\ UNCHANGED <<m_stop_wait_flag, dispatcher, missed, overtaken>>

(* s is in the queue, and the dispatcher has not cleared the flag for it.    *)
Awaited(s) ==
  \E i \in 1 .. Len(m_signal_id_queue) :
    m_signal_id_queue[i] = s /\ ~(i = 1 /\ dispatcher = "call")

(* The flag, and notify_all, which wakes a thread that waits and is lost on  *)
(* one that is about to: what comes between the two is seen by neither.      *)
SetFlag(s) ==
  /\ Handling(s, "flag", "done")
  /\ m_stop_wait_flag' = TRUE
  /\ dispatcher' = IF dispatcher = "waiting" THEN "woken" ELSE dispatcher
  /\ missed' = (missed \/ dispatcher = "wait")
  /\ overtaken' = (overtaken \/ ~Awaited(s))
  /\ UNCHANGED m_signal_id_queue

-----------------------------------------------------------------------------
Dispatching(from, to) ==
  /\ fault = "none"
  /\ dispatcher = from
  /\ dispatcher' = to
  /\ UNCHANGED <<m_thread_loop_work_flag, handler, exiting, overtaken>>

PoolUnchanged == UNCHANGED <<poolVars, fault>>

(* The thread takes the mutex, at the top of its loop or out of the wait, and *)
(* tests whether there is something to do. *)
TestWait ==
  /\ dispatcher \in {"lock", "woken"}
  /\ ~m_sig_mutex
  /\ m_sig_mutex' = TRUE
  /\ missed' = FALSE
  /\ Dispatching(dispatcher, IF m_stop_wait_flag \/ m_signal_id_queue # <<>>
                               THEN "take" ELSE "wait")
  /\ PoolUnchanged /\ UNCHANGED <<m_signal_id_queue, m_stop_wait_flag>>

(* Slip: the wait keeps the mutex. *)
WaitLocked ==
  /\ Dispatching("wait", "waiting")
  /\ PoolUnchanged /\ UNCHANGED <<m_signal_id_queue, m_stop_wait_flag, m_sig_mutex, missed>>

Wait ==
  /\ Dispatching("wait", "waiting")
  /\ m_sig_mutex' = FALSE
  /\ PoolUnchanged /\ UNCHANGED <<m_signal_id_queue, m_stop_wait_flag, missed>>

Spurious ==
  /\ Dispatching("waiting", "woken")
  /\ PoolUnchanged /\ UNCHANGED <<m_signal_id_queue, m_stop_wait_flag, m_sig_mutex, missed>>

(* front() of an empty queue reads what is not there. *)
CallOfEmpty ==
  /\ Dispatching("take", "ended")
  /\ m_signal_id_queue = <<>>
  /\ m_stop_wait_flag' = FALSE
  /\ fault' = "empty"
  /\ UNCHANGED <<poolVars, m_signal_id_queue, m_sig_mutex, missed>>

(* The flag is cleared and the callback of the signal called: the pool's     *)
(* stop(). *)
CallBack ==
  /\ Dispatching("take", "call")
  /\ m_signal_id_queue # <<>>
  /\ m_stop_wait_flag' = FALSE
  /\ CallStop(Dispatcher)
  /\ UNCHANGED <<m_signal_id_queue, m_sig_mutex, missed>>

(* Slip: the mutex is kept from one turn of the loop to the next. *)
PopLocked ==
  /\ Dispatching("call", IF m_thread_loop_work_flag THEN "lock" ELSE "ended")
  /\ stopper[Dispatcher] = "idle"
  /\ m_signal_id_queue' = Tail(m_signal_id_queue)
  /\ PoolUnchanged /\ UNCHANGED <<m_stop_wait_flag, m_sig_mutex, missed>>

PopId ==
  /\ Dispatching("call", IF m_thread_loop_work_flag THEN "lock" ELSE "ended")
  /\ stopper[Dispatcher] = "idle"
  /\ m_signal_id_queue' = Tail(m_signal_id_queue)
  /\ m_sig_mutex' = FALSE
  /\ PoolUnchanged /\ UNCHANGED <<m_stop_wait_flag, missed>>

-----------------------------------------------------------------------------
(* A user constructs an MAsyncSocket on its context, which adds a callback    *)
(* with addFunWhenSignalTrigger under the mutex, and starts its operation.    *)
Add(u) ==
  /\ ~exiting
  /\ ~m_sig_mutex
  /\ Start(u)
  /\ UNCHANGED signalVars

(* ~MSignalUtilsCleanUp, when main has returned and the other threads of the *)
(* program have ended. *)
CleanUp ==
  /\ fault = "none"
  /\ ~exiting
  /\ \A s \in Signals : handler[s] # "flag"
  /\ \A u \in Users : user[u] \in {"idle", "done"}
  /\ stopper[Owner] = "idle"
  /\ exiting' = TRUE
  /\ m_thread_loop_work_flag' = FALSE
  /\ m_stop_wait_flag' = TRUE
  /\ dispatcher' = IF dispatcher = "waiting" THEN "woken" ELSE dispatcher
  /\ missed' = (missed \/ dispatcher = "wait")
  /\ PoolUnchanged
  /\ UNCHANGED <<m_signal_id_queue, m_sig_mutex, handler, overtaken>>

(* m_signal_thread is destroyed next; nobody has joined it. *)
DestroyThread ==
  /\ fault = "none"
  /\ exiting
  /\ fault' = "thread"
  /\ UNCHANGED <<poolVars, signalVars>>

OwnerStops == CallStop(Owner) /\ stops < 2 /\ ~exiting /\ UNCHANGED signalVars
UserStep(u) == Taking(u) /\ ~exiting /\ UNCHANGED signalVars

DispatcherStep ==
  TestWait \/ Wait \/ CallOfEmpty \/ CallBack \/ PopId
HandlerStep(s) == PushId(s) \/ SetFlag(s)

Next ==
  \/ DispatcherStep \/ Spurious
  \/ \E s \in Signals : HandlerStep(s)
  \/ CleanUp \/ DestroyThread \/ OwnerStops
  \/ \E u \in Users : UserStep(u) \/ Add(u)
  \/ PoolStep /\ UNCHANGED signalVars

Spec == Init /\ [][Next]_vars

(* Threads that can take a step do; the mutex is fair to a thread that asks  *)
(* for it again and again.  A signal need not come and an operation need not *)
(* complete, unless it was to be over once. *)
Fairness ==
  /\ WF_vars(DispatcherStep)
  /\ SF_vars(TestWait)
  /\ \A s \in Signals : WF_vars(SetFlag(s))
  /\ \A u \in Users : SF_vars(Add(u))
  /\ \A a \in Stoppers : WF_vars(StopStep(a) /\ UNCHANGED signalVars)
  /\ \A i \in Contexts : WF_vars(RunReturns(i) /\ UNCHANGED signalVars)
  /\ \A u \in Users : WF_vars(Complete(u) /\ UNCHANGED signalVars)

FairSpec == Spec /\ Fairness

-----------------------------------------------------------------------------
TypeOK ==
  /\ m_iocontext_index \in Nat
  /\ user \in [Users -> {"idle", "store", "wrap", "have", "done"}]
  /\ context \in [Users -> Nat]
  /\ busy \subseteq Users
  /\ m_works \subseteq Contexts /\ ended \subseteq Contexts /\ joined \subseteq Contexts
  /\ stopper \in [Stoppers -> {"idle", "reset", "join", "over"}]
  /\ joining \in [Stoppers -> 0 .. Size]
  /\ stops \in Nat
  /\ overlap \in BOOLEAN
  /\ fault \in {"none", "beyond", "joined", "empty", "thread"}
  /\ m_signal_id_queue \in Seq(Signals)
  /\ m_stop_wait_flag \in BOOLEAN /\ m_thread_loop_work_flag \in BOOLEAN
  /\ m_sig_mutex \in BOOLEAN
  /\ dispatcher \in {"lock", "wait", "waiting", "woken", "take", "call", "ended"}
  /\ handler \in [Signals -> {"none", "flag", "done"}]
  /\ exiting \in BOOLEAN /\ missed \in BOOLEAN /\ overtaken \in BOOLEAN

(* The round robin goes past its contexts only when two threads are in        *)
(* getIOContext at once; callers one at a time get a context each time.       *)
BeyondByOverlap ==
  /\ fault = "beyond" => overlap
  /\ ~overlap => m_iocontext_index <= Size

(* The dispatcher takes the front of an empty queue only after a handler that *)
(* was overtaken between its push and its flag, or at the program's end.      *)
EmptyCause == fault = "empty" => overtaken \/ exiting

(* A join throws only in a second stop(): a signal after a stop, two signals, *)
(* or the destructor of a pool that a signal has stopped.                     *)
JoinedCause == fault = "joined" => stops >= 2

(* The dispatcher waits while a signal that was handled is in its queue only  *)
(* if that signal's notification came between its test and its wait. *)
WaitsWithWork ==
  dispatcher = "waiting" /\ m_signal_id_queue # <<>> /\ ~missed
    => \E s \in Signals : handler[s] = "flag"

(* Each of the faults of the pool and the dispatcher has its interleaving,    *)
(* and needs it. *)
ShutdownInv ==
  TypeOK /\ BeyondByOverlap /\ EmptyCause /\ JoinedCause /\ WaitsWithWork

Looping == busy \cap Loopers # {}

(* A signal is dispatched in the end, unless its notification was missed or   *)
(* the dispatcher is held by a stop(), or the program ends.                   *)
Dispatched ==
  m_signal_id_queue # <<>> ~>
    m_signal_id_queue = <<>> \/ missed \/ Looping \/ exiting \/ fault # "none"

(* stop() returns unless an operation that starts itself again is outstanding *)
(* on some context: nothing stops the contexts, so it waits for all of them.  *)
StopEnds ==
  \A a \in Stoppers :
    stopper[a] = "reset" ~> stopper[a] = "idle" \/ Looping \/ fault # "none"

(* A thread that adds a callback gets its turn, unless the dispatcher is in   *)
(* such a stop(), which it is with the mutex.                                 *)
AddReturns ==
  \A u \in Users :
    user[u] = "have" ~>
      \/ user[u] = "done" \/ exiting \/ fault # "none"
      \/ Looping /\ dispatcher = "call"
=============================================================================
