------------------------- MODULE MSignalUtils_proofs -------------------------
(***************************************************************************)
(* For every number of users, contexts and signals: each way in which the  *)
(* pool or the dispatcher of signals fails needs the interleaving that     *)
(* ShutdownInv names.                                                      *)
(*                                                                         *)
(* Its parts are not inductive.  The round robin stays in range because a  *)
(* lone caller still sees the index it read (OneTaker); the front of the   *)
(* queue is there because a flag that is up stands for an element that is  *)
(* not being called (FlagMeans); the threads joined in a lone stop() are   *)
(* those before its own place (LoneStop); and a signal pushed since the    *)
(* test has a handler that has not set the flag yet (WaitMeans).           *)
(***************************************************************************)
EXTENDS MSignalUtils, SequenceTheorems, TLAPS

OneTaker ==
  /\ fault = "beyond" => overlap
  /\ ~ overlap =>
       /\ \A u, v \in Inside : u = v
       /\ \A u \in Users : user[u] = "store" => context[u] = m_iocontext_index
       /\ m_iocontext_index <= Size
       /\ (\A u \in Users : user[u] # "wrap") => m_iocontext_index < Size

(* What the dispatcher finds when it takes the front. *)
FlagMeans ==
  /\ dispatcher = "call" => m_signal_id_queue # <<>>
  /\ ~ overtaken /\ ~ exiting =>
       /\ fault # "empty"
       /\ dispatcher = "take" => m_signal_id_queue # <<>>
       /\ m_stop_wait_flag => Len(m_signal_id_queue) >= IF dispatcher = "call" THEN 2 ELSE 1

LoneStop ==
  /\ fault = "joined" => stops >= 2
  /\ stops < 2 =>
       /\ \A a, b \in Stoppers : stopper[a] # "idle" /\ stopper[b] # "idle" => a = b
       /\ \A a \in Stoppers : stopper[a] # "idle" =>
            stops = 1 /\ joined = 0 .. joining[a] - 1
       /\ stops = 0 => joined = {} /\ \A a \in Stoppers : joining[a] = 0

WaitMeans ==
  dispatcher \in {"wait", "waiting"} /\ m_signal_id_queue # <<>> /\ ~ missed
    => \E s \in Signals : handler[s] = "flag"

IInv == TypeOK /\ OneTaker /\ FlagMeans /\ LoneStop /\ WaitMeans

LEMMA InvShutdown == IInv => ShutdownInv
BY DEF IInv, OneTaker, FlagMeans, LoneStop, WaitMeans,
       ShutdownInv, BeyondByOverlap, EmptyCause, JoinedCause, WaitsWithWork

LEMMA InitInv == Init => IInv
<1> SUFFICES ASSUME Init PROVE IInv
  OBVIOUS
<1> USE SizeAssumption DEF Init, InitPool
<1>1. TypeOK
  <2>1. 0 \in Nat /\ 0 \in 0 .. Size
    OBVIOUS
  <2>2. m_signal_id_queue \in Seq(Signals)
    BY EmptySeq
  <2>3. /\ user \in [Users -> {"idle", "store", "wrap", "have", "done"}]
        /\ context \in [Users -> Nat]
        /\ stopper \in [Stoppers -> {"idle", "reset", "join", "over"}]
        /\ joining \in [Stoppers -> 0 .. Size]
        /\ handler \in [Signals -> {"none", "flag", "done"}]
    BY <2>1
  <2>4. /\ busy \subseteq Users
        /\ m_works \subseteq Contexts /\ ended \subseteq Contexts /\ joined \subseteq Contexts
    OBVIOUS
  <2> QED
    BY <2>1, <2>2, <2>3, <2>4 DEF TypeOK
<1>2. OneTaker
  BY DEF OneTaker, Inside
<1>3. FlagMeans /\ LoneStop /\ WaitMeans
  BY DEF FlagMeans, LoneStop, WaitMeans
<1> QED
  BY <1>1, <1>2, <1>3 DEF IInv

-----------------------------------------------------------------------------
(* Steps by the part of the state that they change.  Nothing of the signals  *)
(* changes when a user takes a context, an operation completes or a stop()   *)
(* goes on. *)
Pool == 
  \/ \E u \in Users : UserStep(u) \/ Add(u)
  \/ OwnerStops
  \/ PoolStep /\ UNCHANGED signalVars

Signal ==
  \/ DispatcherStep \/ Spurious \/ CleanUp
  \/ \E s \in Signals : HandlerStep(s)

LEMMA Steps == Next => Pool \/ Signal \/ DestroyThread
BY DEF Next, Pool, Signal

LEMMA PoolKeepsSignals == Pool => UNCHANGED signalVars
BY DEF Pool, UserStep, Add, OwnerStops

(* And only CallBack, of the dispatcher's and the handlers' steps, touches   *)
(* the pool: it is a call of stop().                                         *)
LEMMA SignalKeepsPool ==
  Signal => /\ UNCHANGED <<takeVars, threadVars, joining>>
            /\ \/ UNCHANGED <<stopper, stops, fault>>
               \/ CallOfEmpty /\ UNCHANGED <<stopper, stops>>
               \/ CallBack
BY DEF Signal, DispatcherStep, TestWait, Wait, CallOfEmpty, CallBack, PopId, Spurious, CleanUp,
       HandlerStep, PushId, SetFlag, Handling, PoolUnchanged, poolVars, stopVars,
       CallStop, Stopping

-----------------------------------------------------------------------------
LEMMA TypeStep == TypeOK /\ FlagMeans /\ [Next]_vars => TypeOK'
<1> SUFFICES ASSUME TypeOK, FlagMeans, [Next]_vars PROVE TypeOK'
  OBVIOUS
<1> USE SizeAssumption, StoppersAssumption DEF TypeOK
<1>1. CASE Pool
  <2>0. UNCHANGED signalVars
    BY <1>1, PoolKeepsSignals
  <2> USE <2>0 DEF signalVars, takeVars, threadVars, stopVars, Take, Stopping
  <2>1. ASSUME NEW u \in Users, LoadIndex(u) PROVE TypeOK'
    BY <2>1 DEF LoadIndex
  <2>2. ASSUME NEW u \in Users, StoreIndex(u) PROVE TypeOK'
    BY <2>2 DEF StoreIndex
  <2>3. ASSUME NEW u \in Users, WrapIndex(u) PROVE TypeOK'
    BY <2>3 DEF WrapIndex
  <2>4. ASSUME NEW u \in Users, Start(u) PROVE TypeOK'
    BY <2>4 DEF Start
  <2>5. ASSUME NEW u \in Users, Complete(u) PROVE TypeOK'
    BY <2>5 DEF Complete
  <2>6. ASSUME NEW i \in Contexts, RunReturns(i) PROVE TypeOK'
    BY <2>6 DEF RunReturns
  <2>7. ASSUME NEW a \in Stoppers, CallStop(a) PROVE TypeOK'
    BY <2>7 DEF CallStop
  <2>8. ASSUME NEW a \in Stoppers, ResetWorks(a) PROVE TypeOK'
    BY <2>8 DEF ResetWorks
  <2>9. ASSUME NEW a \in Stoppers, JoinFails(a) PROVE TypeOK'
    BY <2>9 DEF JoinFails
  <2>10. ASSUME NEW a \in Stoppers, Join(a) PROVE TypeOK'
    <3>1. joining[a] \in Contexts
      BY <2>10 DEF Join
    <3>2. joined' \subseteq Contexts
      BY <2>10, <3>1 DEF Join
    <3>3. joining[a] + 1 \in 0 .. Size
      BY <3>1 DEF Contexts
    <3>4. joining' \in [Stoppers -> 0 .. Size]
      BY <2>10, <3>3 DEF Join
    <3> QED
      BY <2>10, <3>2, <3>4 DEF Join
  <2>11. ASSUME NEW a \in Stoppers, StopReturns(a) PROVE TypeOK'
    BY <2>11 DEF StopReturns
  <2> QED
    BY <1>1, <2>1, <2>2, <2>3, <2>4, <2>5, <2>6, <2>7, <2>8, <2>9, <2>10, <2>11
       DEF Pool, UserStep, Taking, Add, OwnerStops, PoolStep, StopStep
<1>2. CASE Signal
  <2> DEFINE PoolTypes ==
        /\ m_iocontext_index \in Nat
        /\ user \in [Users -> {"idle", "store", "wrap", "have", "done"}]
        /\ context \in [Users -> Nat]
        /\ busy \subseteq Users
        /\ m_works \subseteq Contexts /\ ended \subseteq Contexts /\ joined \subseteq Contexts
        /\ stopper \in [Stoppers -> {"idle", "reset", "join", "over"}]
        /\ joining \in [Stoppers -> 0 .. Size]
        /\ stops \in Nat
        /\ overlap \in BOOLEAN
        /\ fault \in {"none", "beyond", "joined", "empty", "thread"}
  <2>1. PoolTypes'
    <3>1. UNCHANGED <<takeVars, threadVars, joining>>
      BY <1>2, SignalKeepsPool
    <3>2. CASE UNCHANGED <<stopper, stops, fault>>
      BY <3>1, <3>2 DEF takeVars, threadVars
    <3>3. CASE CallOfEmpty /\ UNCHANGED <<stopper, stops>>
      BY <3>1, <3>3 DEF takeVars, threadVars, CallOfEmpty
    <3>4. CASE CallBack
      BY <3>1, <3>4 DEF takeVars, threadVars, CallBack, CallStop, Stopping
    <3> QED
      BY <1>2, <3>2, <3>3, <3>4, SignalKeepsPool
  <2> HIDE DEF PoolTypes
  <2>2. ASSUME NEW s \in Signals, PushId(s) PROVE TypeOK'
    BY <2>1, <2>2 DEF PushId, Handling, PoolTypes
  <2>3. ASSUME NEW s \in Signals, SetFlag(s) PROVE TypeOK'
    <3>1. dispatcher' \in {"lock", "wait", "waiting", "woken", "take", "call", "ended"}
          /\ m_stop_wait_flag' = TRUE /\ missed' \in BOOLEAN /\ overtaken' \in BOOLEAN
      BY <2>3 DEF SetFlag
    <3> QED
      BY <2>1, <2>3, <3>1 DEF SetFlag, Handling, PoolTypes
  <2>4. CASE TestWait
    BY <2>1, <2>4 DEF TestWait, Dispatching, PoolTypes
  <2>5. CASE Wait \/ Spurious \/ CallOfEmpty \/ CallBack
    BY <2>1, <2>5 DEF Wait, Spurious, CallOfEmpty, CallBack, Dispatching, PoolTypes
  <2>6. CASE PopId
    <3>1. Tail(m_signal_id_queue) \in Seq(Signals)
      BY <2>6 DEF PopId, Dispatching, FlagMeans
    <3> QED
      BY <2>1, <2>6, <3>1 DEF PopId, Dispatching, PoolTypes
  <2>7. CASE CleanUp
    <3>1. dispatcher' \in {"lock", "wait", "waiting", "woken", "take", "call", "ended"}
          /\ missed' \in BOOLEAN
      BY <2>7 DEF CleanUp
    <3> QED
      BY <2>1, <2>7, <3>1 DEF CleanUp, PoolTypes
  <2> QED
    BY <1>2, <2>2, <2>3, <2>4, <2>5, <2>6, <2>7 DEF Signal, DispatcherStep, HandlerStep
<1>3. CASE DestroyThread
  BY <1>3 DEF DestroyThread, poolVars, takeVars, threadVars, stopVars, signalVars
<1>4. CASE UNCHANGED vars
  BY <1>4 DEF vars, poolVars, takeVars, threadVars, stopVars, signalVars
<1> QED
  BY <1>1, <1>2, <1>3, <1>4, Steps

-----------------------------------------------------------------------------
(* Callers of getIOContext one at a time. *)
LEMMA OneTakerStep == TypeOK /\ OneTaker /\ [Next]_vars => OneTaker'
<1> SUFFICES ASSUME TypeOK, OneTaker, [Next]_vars PROVE OneTaker'
  OBVIOUS
<1> USE SizeAssumption
<1>0. /\ m_iocontext_index \in Nat /\ context \in [Users -> Nat] /\ overlap \in BOOLEAN
      /\ user \in [Users -> {"idle", "store", "wrap", "have", "done"}]
  BY DEF TypeOK
<1>1. ASSUME UNCHANGED <<m_iocontext_index, user, context, overlap>>,
             fault' = fault \/ fault' # "beyond"
      PROVE  OneTaker'
  BY <1>1 DEF OneTaker, Inside
<1>2. ASSUME NEW u \in Users, LoadIndex(u) PROVE OneTaker'
  <2>1. /\ user[u] = "idle" /\ user' = [user EXCEPT ![u] = "store"]
        /\ context' = [context EXCEPT ![u] = m_iocontext_index]
        /\ m_iocontext_index' = m_iocontext_index /\ fault' = "none"
        /\ ~ overlap' => ~ overlap /\ Inside = {}
    BY <1>2 DEF LoadIndex, Take
  <2>2. ASSUME ~ overlap'
        PROVE  /\ \A v \in Users : v # u => user'[v] \notin {"store", "wrap"}
               /\ \A v \in Users : user[v] # "wrap"
    BY <1>0, <2>1, <2>2 DEF Inside
  <2> QED
    BY <1>0, <2>1, <2>2 DEF OneTaker, Inside
<1>3. ASSUME NEW u \in Users, StoreIndex(u) PROVE OneTaker'
  <2>1. /\ user[u] = "store" /\ user' = [user EXCEPT ![u] = "wrap"]
        /\ m_iocontext_index' = context[u] + 1 /\ fault = "none"
        /\ fault' = (IF context[u] \in Contexts THEN fault ELSE "beyond")
        /\ UNCHANGED <<context, overlap>>
    BY <1>3 DEF StoreIndex, Take
  <2>2. CASE overlap
    BY <2>1, <2>2 DEF OneTaker
  <2>3. CASE ~ overlap
    <3>1. \A v \in Users : v # u => user[v] \notin {"store", "wrap"}
      BY <2>1, <2>3 DEF OneTaker, Inside
    <3>2. context[u] = m_iocontext_index /\ m_iocontext_index < Size
      BY <2>1, <2>3, <3>1 DEF OneTaker
    <3>3. context[u] \in Contexts /\ m_iocontext_index' <= Size
      BY <1>0, <2>1, <3>2 DEF Contexts
    <3>4. \A v \in Users : user'[v] = IF v = u THEN "wrap" ELSE user[v]
      BY <1>0, <2>1
    <3> QED
      BY <2>1, <3>1, <3>3, <3>4 DEF OneTaker, Inside
  <2> QED
    BY <2>2, <2>3
<1>4. ASSUME NEW u \in Users, WrapIndex(u) PROVE OneTaker'
  <2>1. /\ user[u] = "wrap" /\ user' = [user EXCEPT ![u] = "have"]
        /\ m_iocontext_index' = (IF m_iocontext_index >= Size THEN 0 ELSE m_iocontext_index)
        /\ UNCHANGED <<context, overlap, fault>>
    BY <1>4 DEF WrapIndex, Take
  <2>2. m_iocontext_index' < Size
    BY <1>0, <2>1
  <2>3. ~ overlap => \A v \in Users : v # u => user[v] \notin {"store", "wrap"}
    BY <2>1 DEF OneTaker, Inside
  <2>4. \A v \in Users : user'[v] = IF v = u THEN "have" ELSE user[v]
    BY <1>0, <2>1
  <2> QED
    BY <1>0, <2>1, <2>2, <2>3, <2>4 DEF OneTaker, Inside
<1>5. ASSUME NEW u \in Users, Start(u) PROVE OneTaker'
  <2>1. /\ user[u] = "have" /\ user' = [user EXCEPT ![u] = "done"]
        /\ UNCHANGED <<m_iocontext_index, context, overlap, fault>>
    BY <1>5 DEF Start, Take
  <2>2. \A v \in Users : user'[v] \in {"store", "wrap"} \/ user[v] \in {"store", "wrap"}
                           => user'[v] = user[v]
    BY <1>0, <2>1
  <2> QED
    BY <2>1, <2>2 DEF OneTaker, Inside
<1>6. CASE Signal
  <2>1. UNCHANGED <<m_iocontext_index, user, context, overlap>>
    BY <1>6, SignalKeepsPool DEF takeVars
  <2>2. fault' = fault \/ fault' # "beyond"
    BY <1>6, SignalKeepsPool DEF CallOfEmpty, CallBack, CallStop
  <2> QED
    BY <1>1, <2>1, <2>2
<1>7. CASE PoolStep \/ OwnerStops \/ DestroyThread \/ UNCHANGED vars
  <2>1. UNCHANGED <<m_iocontext_index, user, context, overlap>>
    BY <1>7 DEF PoolStep, OwnerStops, DestroyThread, vars, poolVars, takeVars, Complete,
                RunReturns, StopStep, ResetWorks, JoinFails, Join, StopReturns, CallStop, Stopping
  <2>2. fault' = fault \/ fault' # "beyond"
    BY <1>7 DEF PoolStep, OwnerStops, DestroyThread, vars, Complete,
                RunReturns, StopStep, ResetWorks, JoinFails, Join, StopReturns, CallStop
  <2> QED
    BY <1>1, <2>1, <2>2
<1> QED
  BY <1>2, <1>3, <1>4, <1>5, <1>6, <1>7, Steps DEF Pool, UserStep, Taking, Add

-----------------------------------------------------------------------------
(* The flag and the queue. *)
LEMMA FlagStep == TypeOK /\ FlagMeans /\ [Next]_vars => FlagMeans'
<1> SUFFICES ASSUME TypeOK, FlagMeans, [Next]_vars PROVE FlagMeans'
  OBVIOUS
<1>0. /\ m_signal_id_queue \in Seq(Signals) /\ Len(m_signal_id_queue) \in Nat
      /\ (m_signal_id_queue = <<>> <=> Len(m_signal_id_queue) = 0)
      /\ m_stop_wait_flag \in BOOLEAN /\ overtaken \in BOOLEAN /\ exiting \in BOOLEAN
  BY EmptySeq DEF TypeOK
<1>1. ASSUME UNCHANGED <<dispatcher, m_signal_id_queue, m_stop_wait_flag, overtaken, exiting>>,
             fault' = fault \/ fault' # "empty"
      PROVE  FlagMeans'
  BY <1>1 DEF FlagMeans
<1>2. ASSUME NEW s \in Signals, PushId(s) PROVE FlagMeans'
  <2>1. m_signal_id_queue' = Append(m_signal_id_queue, s)
        /\ UNCHANGED <<dispatcher, m_stop_wait_flag, overtaken, exiting, fault>>
    BY <1>2 DEF PushId, Handling
  <2>2. Len(m_signal_id_queue') = Len(m_signal_id_queue) + 1 /\ m_signal_id_queue' # <<>>
    BY <1>0, <2>1
  <2> QED
    BY <1>0, <2>1, <2>2 DEF FlagMeans
<1>3. ASSUME NEW s \in Signals, SetFlag(s) PROVE FlagMeans'
  <2>1. /\ UNCHANGED <<m_signal_id_queue, exiting, fault>>
        /\ ~ overtaken' => ~ overtaken /\ Awaited(s)
        /\ dispatcher' = (IF dispatcher = "waiting" THEN "woken" ELSE dispatcher)
    BY <1>0, <1>3 DEF SetFlag, Handling
  <2>2. Awaited(s) => Len(m_signal_id_queue) >= IF dispatcher = "call" THEN 2 ELSE 1
    BY <1>0 DEF Awaited
  <2>3. /\ dispatcher' = "call" <=> dispatcher = "call"
        /\ dispatcher' = "take" <=> dispatcher = "take"
    BY <2>1
  <2> QED
    BY <1>0, <2>1, <2>2, <2>3 DEF FlagMeans
<1>4. CASE TestWait
  <2>1. /\ dispatcher' = (IF m_stop_wait_flag \/ m_signal_id_queue # <<>> THEN "take" ELSE "wait")
        /\ UNCHANGED <<m_signal_id_queue, m_stop_wait_flag, overtaken, exiting, fault>>
        /\ dispatcher # "call"
    BY <1>4 DEF TestWait, Dispatching, PoolUnchanged
  <2> QED
    BY <1>0, <2>1 DEF FlagMeans
<1>5. CASE Wait \/ Spurious
  <2>1. /\ dispatcher' \notin {"take", "call"} /\ dispatcher # "call"
        /\ UNCHANGED <<m_signal_id_queue, m_stop_wait_flag, overtaken, exiting, fault>>
    BY <1>5 DEF Wait, Spurious, Dispatching, PoolUnchanged
  <2> QED
    BY <2>1 DEF FlagMeans
<1>6. CASE CallOfEmpty
  <2>1. dispatcher = "take" /\ m_signal_id_queue = <<>> /\ dispatcher' = "ended"
        /\ UNCHANGED <<m_signal_id_queue, overtaken, exiting>>
    BY <1>6 DEF CallOfEmpty, Dispatching
  <2> QED
    BY <2>1 DEF FlagMeans
<1>7. CASE CallBack
  <2>1. m_signal_id_queue # <<>> /\ dispatcher' = "call" /\ m_stop_wait_flag' = FALSE
        /\ UNCHANGED <<m_signal_id_queue, overtaken, exiting, fault>>
    BY <1>7 DEF CallBack, Dispatching, CallStop
  <2> QED
    BY <2>1 DEF FlagMeans
<1>8. CASE PopId
  <2>1. dispatcher = "call" /\ dispatcher' \in {"lock", "ended"}
        /\ m_signal_id_queue' = Tail(m_signal_id_queue)
        /\ UNCHANGED <<m_stop_wait_flag, overtaken, exiting, fault>>
    BY <1>8 DEF PopId, Dispatching, PoolUnchanged
  <2>2. m_signal_id_queue # <<>>
    BY <2>1 DEF FlagMeans
  <2>3. Len(m_signal_id_queue') = Len(m_signal_id_queue) - 1
    BY <1>0, <2>1, <2>2, HeadTailProperties
  <2> QED
    BY <1>0, <2>1, <2>3 DEF FlagMeans
<1>9. CASE CleanUp
  <2>1. exiting' /\ m_signal_id_queue' = m_signal_id_queue
        /\ (dispatcher' = "call" => dispatcher = "call")
    BY <1>9 DEF CleanUp
  <2> QED
    BY <2>1 DEF FlagMeans
<1>10. CASE Pool \/ DestroyThread \/ UNCHANGED vars
  <2>1. UNCHANGED <<dispatcher, m_signal_id_queue, m_stop_wait_flag, overtaken, exiting>>
    BY <1>10, PoolKeepsSignals DEF DestroyThread, vars, signalVars
  <2>2. fault' = fault \/ fault' # "empty"
    BY <1>10 DEF Pool, UserStep, Taking, LoadIndex, StoreIndex, WrapIndex, Add, Start, OwnerStops,
                 CallStop, PoolStep, Complete, RunReturns, StopStep, ResetWorks, JoinFails, Join,
                 StopReturns, DestroyThread, vars
  <2> QED
    BY <1>1, <2>1, <2>2
<1> QED
  BY <1>2, <1>3, <1>4, <1>5, <1>6, <1>7, <1>8, <1>9, <1>10, Steps
     DEF Signal, DispatcherStep, HandlerStep

-----------------------------------------------------------------------------
(* A lone stop() joins each thread once. *)
LEMMA LoneStopStep == TypeOK /\ LoneStop /\ [Next]_vars => LoneStop'
<1> SUFFICES ASSUME TypeOK, LoneStop, [Next]_vars PROVE LoneStop'
  OBVIOUS
<1> USE SizeAssumption, StoppersAssumption
<1>0. /\ stopper \in [Stoppers -> {"idle", "reset", "join", "over"}]
      /\ joining \in [Stoppers -> 0 .. Size] /\ stops \in Nat
  BY DEF TypeOK
<1>1. ASSUME UNCHANGED <<stopper, joining, joined, stops>>, fault' = fault \/ fault' # "joined"
      PROVE  LoneStop'
  BY <1>1 DEF LoneStop
<1>2. ASSUME NEW a \in Stoppers, CallStop(a) PROVE LoneStop'
  <2>1. /\ stopper[a] = "idle" /\ stopper' = [stopper EXCEPT ![a] = "reset"]
        /\ stops' = stops + 1 /\ UNCHANGED <<joining, joined>> /\ fault' = "none"
    BY <1>2 DEF CallStop, Stopping, threadVars
  <2>2. CASE stops = 0
    <3>1. (\A b \in Stoppers : stopper[b] = "idle" /\ joining[b] = 0) /\ joined = {}
      BY <2>2 DEF LoneStop
    <3>2. \A b \in Stoppers : stopper'[b] # "idle" => b = a
      BY <1>0, <2>1, <3>1
    <3>3. joined' = 0 .. joining'[a] - 1
      <4>1. 0 .. 0 - 1 = {}
        OBVIOUS
      <4> QED
        BY <2>1, <3>1, <4>1
    <3> QED
      BY <2>1, <2>2, <3>2, <3>3 DEF LoneStop
  <2>3. CASE stops # 0
    <3>1. ~ (stops' < 2)
      BY <1>0, <2>1, <2>3
    <3> QED
      BY <2>1, <3>1 DEF LoneStop
  <2> QED
    BY <2>2, <2>3
<1>3. ASSUME NEW a \in Stoppers, ResetWorks(a) PROVE LoneStop'
  <2>1. /\ stopper[a] # "idle" /\ stopper' = [stopper EXCEPT ![a] = "join"]
        /\ UNCHANGED <<joining, joined, stops, fault>>
    BY <1>3 DEF ResetWorks, Stopping
  <2>2. \A b \in Stoppers : stopper'[b] # "idle" <=> stopper[b] # "idle"
    BY <1>0, <2>1
  <2> QED
    BY <2>1, <2>2 DEF LoneStop
<1>4. ASSUME NEW a \in Stoppers, JoinFails(a) PROVE LoneStop'
  <2>1. stopper[a] = "join" /\ stops' = stops
        /\ (joining[a] \in joined \/ \E b \in Stoppers \ {a} : stopper[b] = "join")
    BY <1>4 DEF JoinFails, Stopping
  <2>2. ~ (stops < 2)
    <3>1. SUFFICES ASSUME stops < 2 PROVE FALSE
      OBVIOUS
    <3>2. joined = 0 .. joining[a] - 1
      BY <2>1, <3>1 DEF LoneStop
    <3>3. joining[a] \notin joined
      BY <1>0, <3>2
    <3>4. \A b \in Stoppers : stopper[b] = "join" => b = a
      BY <2>1, <3>1 DEF LoneStop
    <3> QED
      BY <2>1, <3>3, <3>4
  <2> QED
    BY <1>0, <2>1, <2>2 DEF LoneStop
<1>5. ASSUME NEW a \in Stoppers, Join(a) PROVE LoneStop'
  <2>1. /\ stopper[a] = "join" /\ stopper' = stopper
        /\ joined' = joined \cup {joining[a]}
        /\ joining' = [joining EXCEPT ![a] = joining[a] + 1]
        /\ UNCHANGED <<stops, fault>>
    BY <1>0, <1>5 DEF Join, Stopping
  <2>2. CASE stops < 2
    <3>1. /\ \A b \in Stoppers : stopper[b] # "idle" => b = a
          /\ joined = 0 .. joining[a] - 1 /\ stops = 1
      BY <2>1, <2>2 DEF LoneStop
    <3>2. joined' = 0 .. joining'[a] - 1
      BY <1>0, <2>1, <3>1
    <3> QED
      BY <2>1, <3>1, <3>2 DEF LoneStop
  <2>3. CASE ~ (stops < 2)
    BY <2>1, <2>3 DEF LoneStop
  <2> QED
    BY <2>2, <2>3
<1>6. ASSUME NEW a \in Stoppers, StopReturns(a) PROVE LoneStop'
  <2>1. /\ stopper[a] = "join" /\ stopper' = [stopper EXCEPT ![a] = "idle"]
        /\ joining' = [joining EXCEPT ![a] = 0]
        /\ UNCHANGED <<joined, stops, fault>>
    BY <1>6 DEF StopReturns, Stopping, threadVars
  <2>2. stops < 2 => /\ \A b \in Stoppers : stopper[b] # "idle" => b = a
                     /\ stops = 1
    BY <2>1 DEF LoneStop
  <2>3. stops < 2 => \A b \in Stoppers : stopper'[b] = "idle"
    BY <1>0, <2>1, <2>2
  <2> QED
    BY <2>1, <2>2, <2>3 DEF LoneStop
<1>7. CASE Signal
  <2>1. CASE CallBack
    BY <1>2, <2>1 DEF CallBack
  <2>2. CASE ~ CallBack
    <3>1. UNCHANGED <<stopper, joining, joined, stops>>
      BY <1>7, <2>2, SignalKeepsPool DEF threadVars
    <3>2. fault' = fault \/ fault' # "joined"
      BY <1>7, <2>2, SignalKeepsPool DEF CallOfEmpty
    <3> QED
      BY <1>1, <3>1, <3>2
  <2> QED
    BY <2>1, <2>2
<1>8. ASSUME NEW u \in Users, UserStep(u) \/ Add(u) \/ Complete(u) PROVE LoneStop'
  BY <1>1, <1>8 DEF UserStep, Taking, LoadIndex, StoreIndex, WrapIndex, Add, Start, Take, Complete,
                    threadVars, stopVars
<1>9. ASSUME NEW i \in Contexts, RunReturns(i) PROVE LoneStop'
  BY <1>1, <1>9 DEF RunReturns, stopVars
<1>10. CASE DestroyThread \/ UNCHANGED vars
  BY <1>1, <1>10 DEF DestroyThread, vars, poolVars, threadVars, stopVars
<1> QED
  BY <1>2, <1>3, <1>4, <1>5, <1>6, <1>7, <1>8, <1>9, <1>10, Steps
     DEF Pool, OwnerStops, PoolStep, StopStep

-----------------------------------------------------------------------------
(* A signal that the waiting dispatcher has not seen. *)
LEMMA WaitStep == TypeOK /\ WaitMeans /\ [Next]_vars => WaitMeans'
<1> SUFFICES ASSUME TypeOK, WaitMeans, [Next]_vars PROVE WaitMeans'
  OBVIOUS
<1>0. missed \in BOOLEAN /\ handler \in [Signals -> {"none", "flag", "done"}]
  BY DEF TypeOK
<1>1. ASSUME NEW s \in Signals, PushId(s) PROVE WaitMeans'
  <2>1. handler'[s] = "flag"
    BY <1>0, <1>1 DEF PushId, Handling
  <2> QED
    BY <2>1 DEF WaitMeans
<1>2. ASSUME NEW s \in Signals, SetFlag(s) PROVE WaitMeans'
  <2>1. dispatcher' \notin {"wait", "waiting"} \/ missed'
    BY <1>0, <1>2 DEF SetFlag
  <2> QED
    BY <2>1 DEF WaitMeans
<1>3. CASE TestWait
  BY <1>3 DEF TestWait, Dispatching, WaitMeans
<1>4. CASE Wait
  BY <1>4 DEF Wait, Dispatching, WaitMeans
<1>5. CASE Spurious \/ CallOfEmpty \/ CallBack \/ PopId
  <2>1. dispatcher' \notin {"wait", "waiting"}
    BY <1>5 DEF Spurious, CallOfEmpty, CallBack, PopId, Dispatching
  <2> QED
    BY <2>1 DEF WaitMeans
<1>6. CASE CleanUp
  <2>1. dispatcher' \notin {"wait", "waiting"} \/ missed'
    BY <1>0, <1>6 DEF CleanUp
  <2> QED
    BY <2>1 DEF WaitMeans
<1>7. CASE Pool \/ DestroyThread \/ UNCHANGED vars
  BY <1>7, PoolKeepsSignals DEF DestroyThread, vars, signalVars, WaitMeans
<1> QED
  BY <1>1, <1>2, <1>3, <1>4, <1>5, <1>6, <1>7, Steps DEF Signal, DispatcherStep, HandlerStep

-----------------------------------------------------------------------------
(* Contexts are left behind only by two callers at once, the front of an     *)
(* empty queue is taken only after a handler that was overtaken or at the    *)
(* end of the program, join() throws only in a second stop(), and the        *)
(* dispatcher sleeps over a handled signal only if its notification fell     *)
(* between test and wait. *)
THEOREM ShutdownCorrect == Spec => []ShutdownInv
<1>1. IInv /\ [Next]_vars => IInv'
  BY TypeStep, OneTakerStep, FlagStep, LoneStopStep, WaitStep DEF IInv
<1> QED
  BY <1>1, InitInv, InvShutdown, PTL DEF Spec
=============================================================================
