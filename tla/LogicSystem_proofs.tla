------------------------- MODULE LogicSystem_proofs -------------------------
(***************************************************************************)
(* Proofs about the way of a package from handleRead to a callback.        *)
(*                                                                         *)
(* LogicSystem, for any number of messages: what the work thread calls     *)
(* for, in which order, and what a stop leaves behind.                     *)
(*                                                                         *)
(* MNotify, for any sessions, callers and packages: NeverSpins is not      *)
(* inductive, since a place of a session in session_notified_queue stands  *)
(* for a package only together with all its other places.  Accounts counts *)
(* them, with the one that a thread inside notifiedFun has read and not    *)
(* popped yet.  Kept says where in the ring they are.                      *)
(***************************************************************************)
EXTENDS LogicSystem, MNotify, FiniteSetTheorems, TLAPS

-----------------------------------------------------------------------------
(* Sequences.                                                              *)
LEMMA AppendFacts ==
  ASSUME NEW S, NEW s \in Seq(S), NEW e \in S
  PROVE  /\ Append(s, e) \in Seq(S)
         /\ Len(Append(s, e)) = Len(s) + 1
         /\ \A i \in 1 .. Len(s) : Append(s, e)[i] = s[i]
         /\ Append(s, e)[Len(s) + 1] = e
  OBVIOUS

LEMMA SubsetFacts ==
  ASSUME NEW S, NEW T, S \subseteq T, NEW s \in Seq(S)
  PROVE  s \in Seq(T)
  OBVIOUS

LEMMA TailFacts ==
  ASSUME NEW S, NEW s \in Seq(S), Len(s) > 0
  PROVE  /\ Tail(s) \in Seq(S)
         /\ Len(Tail(s)) = Len(s) - 1
         /\ \A i \in 1 .. Len(s) - 1 : Tail(s)[i] = s[i + 1]
         /\ Head(s) = s[1]
  OBVIOUS

LEMMA EmptyFacts ==
  ASSUME NEW S, NEW s \in Seq(S)
  PROVE  (s = << >> <=> Len(s) = 0) /\ Len(s) \in Nat
  OBVIOUS

-----------------------------------------------------------------------------
(* The inductive invariant.  The messages taken out so far are the first     *)
(* Taken ones, so that the queue is known by its length alone.               *)
Taken == pushes - Len(m_recv_msg_que)

QueueIs ==
  /\ Taken \in Nat
  /\ \A k \in 1 .. Len(m_recv_msg_que) : m_recv_msg_que[k] = Taken + k

(* The calls rise, none is ahead of the head of the queue, and every message *)
(* taken out that has a callback is among them.                              *)
Rising(s) == \A i, j \in 1 .. Len(s) : i < j => s[i] < s[j]
UpTo(s, n) == \A i \in 1 .. Len(s) : s[i] <= n

CallsAre ==
  /\ Rising(called)
  /\ UpTo(called, Taken + 1)
  /\ \A n \in known : n <= Taken => Contains(called, n)

(* What the work thread has seen and relies on; and where a thread can be    *)
(* that the flag was cleared under: on a way that ends with the drain, or on *)
(* one where nothing was promised.                                           *)
Seen ==
  /\ worker = "stopped?" /\ m_work_flag => Len(m_recv_msg_que) > 0
  /\ worker = "front" => Len(m_recv_msg_que) > 0
  /\ worker = "unlock_end" => Len(m_recv_msg_que) = 0

Promised ==
  /\ worker \in {"loop", "front", "unlock"} => beforeStop = 0
  /\ worker = "done" => beforeStop <= Taken
  /\ m_work_flag => beforeStop = 0
  /\ worker \in {"drain", "unlock_end", "done"} => ~ m_work_flag

(* A working thread has called for at most one message, the one at the head. *)
OnlyHead ==
  m_work_flag /\ Len(called) > 0 =>
    Len(called) = 1 /\ Len(m_recv_msg_que) > 0 /\ called[1] = Taken + 1

IInv == TypeOK /\ QueueIs /\ CallsAre /\ Seen /\ Promised /\ OnlyHead

-----------------------------------------------------------------------------
(* The invariant is stronger than what the run checks.                       *)
LEMMA InvLogic == IInv => LogicInv /\ HeadOfLine
<1> SUFFICES ASSUME IInv PROVE LogicInv /\ HeadOfLine
  OBVIOUS
<1> USE DEF IInv
<1>0. /\ m_recv_msg_que \in Seq(Msgs) /\ called \in Seq(known) /\ known \subseteq 1 .. pushes
      /\ pushes \in Nat /\ Len(called) \in Nat /\ Len(m_recv_msg_que) \in Nat /\ Taken \in Nat
      /\ Taken + Len(m_recv_msg_que) = pushes
  BY MaxMsgsAssumption DEF TypeOK, QueueIs, Taken
<1>1. FrontExists
  BY <1>0, EmptyFacts DEF Seen, FrontExists, Empty
<1>2. CallsInOrder
  <2>1. ASSUME NEW i \in 2 .. Len(called) PROVE called[i - 1] < called[i]
    <3>1. i \in 1 .. Len(called) /\ i - 1 \in 1 .. Len(called) /\ i - 1 < i
      BY <1>0, <2>1
    <3> QED
      BY <3>1 DEF CallsAre, Rising
  <2>2. ASSUME called # <<>>, NEW n \in known, n < Last(called) PROVE Contains(called, n)
    <3>1. Len(called) > 0
      BY <1>0, <2>2, EmptyFacts
    <3>2. Len(called) \in 1 .. Len(called) /\ called[Len(called)] \in known
      BY <1>0, <3>1
    <3>3. called[Len(called)] <= Taken + 1
      BY <3>2 DEF CallsAre, UpTo
    <3>4. n \in Nat /\ called[Len(called)] \in Nat
      <4>1. known \subseteq Nat
        BY <1>0
      <4> QED
        BY <3>2, <4>1
    <3>5. n < called[Len(called)]
      BY <2>2, Zenon DEF Last
    <3>6. n <= Taken
      BY <1>0, <3>3, <3>4, <3>5
    <3> QED
      BY <3>6 DEF CallsAre
  <2> QED
    BY <2>1, <2>2 DEF CallsInOrder
<1>3. NoneSkipped
  <2> SUFFICES ASSUME NEW n \in known, n > Taken PROVE Contains(m_recv_msg_que, n)
    BY <1>0 DEF NoneSkipped, CallsAre
  <2>1. n - Taken \in 1 .. Len(m_recv_msg_que)
    BY <1>0
  <2>2. m_recv_msg_que[n - Taken] = n
    BY <1>0, <2>1 DEF QueueIs
  <2> QED
    BY <2>1, <2>2 DEF Contains
<1>4. DrainedIfAttending
  <2> SUFFICES ASSUME worker = "done", NEW n \in known, n <= beforeStop PROVE Contains(called, n)
    BY DEF DrainedIfAttending
  <2>1. n <= Taken
    BY <1>0 DEF Promised, TypeOK
  <2> QED
    BY <2>1 DEF CallsAre
<1>5. HeadOfLine
  <2> SUFFICES ASSUME m_work_flag PROVE Len(called) <= 1
    BY DEF HeadOfLine
  <2>1. CASE Len(called) > 0
    <3>1. Len(called) = 1
      BY <2>1 DEF OnlyHead
    <3> QED
      BY <3>1
  <2>2. CASE ~ (Len(called) > 0)
    BY <1>0, <2>2
  <2> QED
    BY <2>1, <2>2
<1> QED
  BY <1>1, <1>2, <1>3, <1>4, <1>5 DEF LogicInv

-----------------------------------------------------------------------------
(* What a call for the message after the calls so far makes of the calls.    *)
CallsWith(c, n) == IF c # <<>> /\ Last(c) = n THEN c ELSE Append(c, n)

LEMMA CallForAdds ==
  ASSUME NEW S \in SUBSET Nat, NEW c \in Seq(S), NEW n \in S, Rising(c), UpTo(c, n),
         NEW d, d = CallsWith(c, n)
  PROVE  /\ d \in Seq(S) /\ Rising(d) /\ UpTo(d, n)
         /\ Contains(d, n)
         /\ \A e : Contains(c, e) => Contains(d, e)
         /\ Len(d) > 0
         /\ Len(c) = 0 => Len(d) = 1 /\ d[1] = n
         /\ Len(c) = 1 /\ c[1] = n => d = c
<1>0. Len(c) \in Nat /\ (c = <<>> <=> Len(c) = 0) /\ \A i \in 1 .. Len(c) : c[i] \in Nat
  <2>1. Len(c) \in Nat /\ (c = <<>> <=> Len(c) = 0)
    BY EmptyFacts
  <2>2. \A i \in 1 .. Len(c) : c[i] \in S
    OBVIOUS
  <2> QED
    BY <2>1, <2>2
<1>1. CASE c # <<>> /\ Last(c) = n
  <2>1. d = c /\ Len(c) > 0 /\ c[Len(c)] = n
    BY <1>0, <1>1 DEF CallsWith, Last
  <2> QED
    BY <1>0, <2>1 DEF Contains
<1>2. CASE ~ (c # <<>> /\ Last(c) = n)
  <2>1. /\ d \in Seq(S) /\ Len(d) = Len(c) + 1 /\ d[Len(c) + 1] = n
        /\ \A i \in 1 .. Len(c) : d[i] = c[i]
    BY <1>2, AppendFacts DEF CallsWith
  <2>2. ASSUME NEW i \in 1 .. Len(c) PROVE c[i] < n
    <3>1. Len(c) > 0 /\ Len(c) \in 1 .. Len(c) /\ c[Len(c)] # n
      BY <1>0, <1>2, <2>2 DEF Last
    <3>2. c[Len(c)] < n
      BY <1>0, <3>1 DEF UpTo
    <3>3. CASE i = Len(c)
      BY <3>2, <3>3
    <3>4. CASE i < Len(c)
      <4>1. c[i] < c[Len(c)]
        BY <2>2, <3>1, <3>4 DEF Rising
      <4> QED
        BY <1>0, <2>2, <3>1, <3>2, <4>1
    <3> QED
      BY <1>0, <2>2, <3>3, <3>4
  <2>3. Rising(d)
    BY <1>0, <2>1, <2>2 DEF Rising
  <2>4. UpTo(d, n)
    BY <1>0, <2>1, <2>2 DEF UpTo
  <2>5. Contains(d, n) /\ \A e : Contains(c, e) => Contains(d, e)
    BY <1>0, <2>1 DEF Contains
  <2>6. ~ (Len(c) = 1 /\ c[1] = n)
    BY <1>0, <1>2 DEF Last
  <2> QED
    BY <1>0, <2>1, <2>3, <2>4, <2>5, <2>6
<1> QED
  BY <1>1, <1>2

(* A step of the work thread, or of the destructor, that touches neither the *)
(* queue nor the history of the calls.                                       *)
LEMMA KeepQueue ==
  ASSUME IInv, UNCHANGED <<m_recv_msg_que, known, pushes, called>>
  PROVE  QueueIs' /\ CallsAre' /\ Taken' = Taken
  BY DEF IInv, QueueIs, CallsAre, Taken, Rising, UpTo, Contains

LEMMA InitInv == Init => IInv
<1> SUFFICES ASSUME Init PROVE IInv
  OBVIOUS
<1>1. Len(m_recv_msg_que) = 0 /\ Len(called) = 0 /\ pushes = 0
  BY DEF Init
<1>2. TypeOK
  <2>1. m_recv_msg_que \in Seq(Msgs) /\ called \in Seq(known)
    BY DEF Init
  <2>2. worker \in Labels /\ worker \notin Holding
    BY DEF Init, Labels, Holding
  <2>3. 0 \in 0 .. MaxMsgs /\ 0 \in 0 .. 0
    BY MaxMsgsAssumption
  <2>4. (locked \in BOOLEAN /\ (locked <=> worker \in Holding))
    BY <2>2 DEF Init
  <2>5. (m_work_flag \in BOOLEAN /\ (m_work_flag <=> stopping = "no"))
    BY DEF Init
  <2>6. known \subseteq 1 .. pushes /\ stopping \in {"no", "flag", "notified"}
    BY DEF Init
  <2>7. pushes \in 0 .. MaxMsgs /\ beforeStop \in 0 .. pushes
    BY <2>3 DEF Init
  <2> QED
    BY <2>1, <2>2, <2>4, <2>5, <2>6, <2>7 DEF TypeOK
<1>3. QueueIs /\ CallsAre
  BY <1>1 DEF Init, QueueIs, CallsAre, Taken, Rising, UpTo
<1> QED
  BY <1>1, <1>2, <1>3 DEF Init, IInv, Seen, Promised, OnlyHead

(* What the push stores keeps the queue consecutive and behind every call.   *)
LEMMA PushInv == IInv /\ (\E h \in BOOLEAN : PushToMsgQueue(h)) => IInv'
<1> SUFFICES ASSUME IInv, NEW h \in BOOLEAN, PushToMsgQueue(h) PROVE IInv'
  OBVIOUS
<1>0. /\ m_recv_msg_que \in Seq(Msgs) /\ called \in Seq(known) /\ known \subseteq 1 .. pushes
      /\ pushes \in Nat /\ Len(called) \in Nat /\ Len(m_recv_msg_que) \in Nat /\ Taken \in Nat
      /\ Taken + Len(m_recv_msg_que) = pushes /\ MaxMsgs \in Nat
  BY MaxMsgsAssumption DEF IInv, TypeOK, QueueIs, Taken
<1>1. /\ pushes' = pushes + 1 /\ pushes < MaxMsgs /\ pushes + 1 \in Msgs
      /\ m_recv_msg_que' = Append(m_recv_msg_que, pushes + 1)
      /\ known \subseteq known' /\ known' \subseteq known \cup {pushes + 1}
      /\ UNCHANGED <<m_work_flag, locked, stopping, beforeStop, called>> /\ ~ locked
  BY <1>0 DEF PushToMsgQueue, Msgs
<1>2. /\ m_recv_msg_que' \in Seq(Msgs) /\ Len(m_recv_msg_que') = Len(m_recv_msg_que) + 1
      /\ \A k \in 1 .. Len(m_recv_msg_que) : m_recv_msg_que'[k] = m_recv_msg_que[k]
      /\ m_recv_msg_que'[Len(m_recv_msg_que) + 1] = pushes + 1
  BY <1>0, <1>1, AppendFacts
<1>3. Taken' = Taken
  BY <1>0, <1>1, <1>2 DEF Taken
<1>4. worker' = worker \/ (worker = "asleep" /\ worker' = "woken")
  BY DEF PushToMsgQueue, Wake
<1>5. worker \notin Holding
  BY <1>1 DEF IInv, TypeOK
<1>6. TypeOK'
  <2>1. called' \in Seq(known')
    BY <1>0, <1>1, SubsetFacts
  <2>2. (locked' \in BOOLEAN /\ (locked' <=> worker' \in Holding))
    BY <1>1, <1>4, <1>5 DEF IInv, TypeOK, Holding
  <2> QED
    BY <1>0, <1>1, <1>2, <1>4, <2>1, <2>2 DEF IInv, TypeOK, Labels
<1>7. QueueIs'
  <2> SUFFICES ASSUME NEW k \in 1 .. Len(m_recv_msg_que')
               PROVE  m_recv_msg_que'[k] = Taken + k
    BY <1>0, <1>3 DEF QueueIs
  <2>1. CASE k \in 1 .. Len(m_recv_msg_que)
    BY <1>2, <2>1 DEF IInv, QueueIs
  <2>2. CASE k = Len(m_recv_msg_que) + 1
    BY <1>0, <1>2, <2>2
  <2> QED
    BY <1>0, <1>2, <2>1, <2>2
<1>8. CallsAre'
  <2>1. \A n \in known' : n <= Taken => Contains(called, n)
    BY <1>0, <1>1 DEF IInv, CallsAre
  <2> QED
    BY <1>1, <1>3, <2>1 DEF IInv, CallsAre, Rising, UpTo, Contains
<1>9. Seen' /\ Promised' /\ OnlyHead'
  BY <1>0, <1>1, <1>2, <1>3, <1>4, <1>5 DEF IInv, Seen, Promised, OnlyHead, Holding
<1> QED
  BY <1>6, <1>7, <1>8, <1>9 DEF IInv

-----------------------------------------------------------------------------
(* The steps of the destructor, and those of the work thread that only move. *)
LEMMA StopInv == IInv /\ (StopFlag \/ StopNotify) => IInv'
<1> SUFFICES ASSUME IInv, StopFlag \/ StopNotify PROVE IInv'
  OBVIOUS
<1>0. UNCHANGED <<m_recv_msg_que, known, pushes, called, locked>>
  BY DEF StopFlag, StopNotify, historyVars
<1>1. QueueIs' /\ CallsAre' /\ Taken' = Taken /\ Taken \in Nat
  BY <1>0, KeepQueue DEF IInv, QueueIs
<1>2. pushes \in Nat /\ worker \in Labels /\ beforeStop \in 0 .. pushes
  BY MaxMsgsAssumption DEF IInv, TypeOK
<1>3. CASE StopFlag
  <2>1. worker' = worker /\ m_work_flag' = FALSE /\ stopping' = "flag" /\ stopping = "no"
        /\ beforeStop' = (IF Attending THEN pushes ELSE 0)
    BY <1>3 DEF StopFlag
  <2>2. TypeOK'
    <3>1. m_work_flag' \in BOOLEAN /\ (m_work_flag' <=> stopping' = "no")
      BY <2>1
    <3>2. beforeStop' \in 0 .. pushes
      BY <1>2, <2>1
    <3> QED
      BY <1>0, <2>1, <3>1, <3>2 DEF IInv, TypeOK
  <2>3. m_work_flag
    BY <2>1 DEF IInv, TypeOK
  <2>4. Seen' /\ OnlyHead'
    BY <1>0, <2>1 DEF IInv, Seen, OnlyHead
  <2>5. Promised'
    <3>1. worker \in {"loop", "front", "unlock", "done"} => beforeStop' = 0
      BY <2>1 DEF Attending
    <3> QED
      BY <1>1, <2>1, <3>1 DEF Promised
  <2> QED
    BY <1>1, <2>2, <2>4, <2>5 DEF IInv
<1>4. CASE StopNotify
  <2>1. /\ worker' = worker \/ (worker = "asleep" /\ worker' = "woken")
        /\ m_work_flag' = m_work_flag /\ beforeStop' = beforeStop
        /\ stopping = "flag" /\ stopping' = "notified"
    BY <1>4 DEF StopNotify, Wake, historyVars
  <2>2. TypeOK'
    <3>1. worker' \in Labels /\ (worker' \in Holding <=> worker \in Holding)
      BY <1>2, <2>1 DEF Labels, Holding
    <3>2. (locked' \in BOOLEAN /\ (locked' <=> worker' \in Holding))
      BY <1>0, <3>1 DEF IInv, TypeOK
    <3>3. (m_work_flag' \in BOOLEAN /\ (m_work_flag' <=> stopping' = "no"))
      BY <2>1 DEF IInv, TypeOK
    <3> QED
      BY <1>0, <2>1, <3>1, <3>2, <3>3 DEF IInv, TypeOK
  <2>3. Seen' /\ Promised'
    BY <1>0, <1>1, <2>1 DEF IInv, Seen, Promised
  <2>4. OnlyHead'
    BY <1>0, <1>1, <2>1 DEF IInv, OnlyHead
  <2> QED
    BY <1>1, <2>2, <2>3, <2>4 DEF IInv
<1> QED
  BY <1>3, <1>4

LEMMA MoveInv ==
  IInv /\ (Loop \/ Lock \/ CheckEmpty \/ Wait \/ SpuriousWake \/ CheckStopped \/ Unlock)
    => IInv'
<1> SUFFICES ASSUME IInv,
                    Loop \/ Lock \/ CheckEmpty \/ Wait \/ SpuriousWake \/ CheckStopped
                      \/ Unlock
             PROVE  IInv'
  OBVIOUS
<1>0. UNCHANGED <<m_recv_msg_que, known, pushes, called, m_work_flag, stopping, beforeStop>>
  BY DEF Loop, Lock, CheckEmpty, Wait, SpuriousWake, CheckStopped, Unlock, historyVars
<1>1. QueueIs' /\ CallsAre' /\ Taken' = Taken /\ Taken \in Nat
  BY <1>0, KeepQueue DEF IInv, QueueIs
<1>2. /\ m_recv_msg_que \in Seq(Msgs) /\ Len(m_recv_msg_que) \in Nat
      /\ pushes \in Nat /\ beforeStop \in Nat
      /\ Empty => Len(m_recv_msg_que) = 0
      /\ ~ Empty => Len(m_recv_msg_que) > 0
  BY MaxMsgsAssumption, EmptyFacts DEF IInv, TypeOK, Empty
<1>3. OnlyHead'
  BY <1>0, <1>1 DEF IInv, OnlyHead
<1>4. TypeOK'
  <2>1. worker' \in Labels /\ (locked' \in BOOLEAN /\ (locked' <=> worker' \in Holding))
    <3>0. worker \in Labels /\ (locked \in BOOLEAN /\ (locked <=> worker \in Holding))
      BY DEF IInv, TypeOK
    <3>1. CASE Lock
      BY <3>1 DEF Lock, Labels, Holding
    <3>2. CASE Unlock
      <4>1. worker' \in Labels /\ worker' \notin Holding /\ locked' = FALSE
        BY <3>2 DEF Unlock, Labels, Holding
      <4> QED
        BY <4>1
    <3>3. CASE Wait
      <4>1. worker' \in Labels /\ worker' \notin Holding /\ locked' = FALSE
        BY <3>3 DEF Wait, Labels, Holding
      <4> QED
        BY <4>1
    <3>4. CASE Loop \/ CheckEmpty \/ SpuriousWake \/ CheckStopped
      <4>1. worker' \in Labels /\ (worker' \in Holding <=> worker \in Holding) /\ locked' = locked
        BY <3>4 DEF Loop, CheckEmpty, SpuriousWake, CheckStopped, Labels, Holding
      <4> QED
        BY <3>0, <4>1
    <3> QED
      BY <3>1, <3>2, <3>3, <3>4
  <2> QED
    BY <1>0, <2>1 DEF IInv, TypeOK
<1>5. Seen'
  BY <1>0, <1>2 DEF IInv, Seen, Loop, Lock, CheckEmpty, Wait, SpuriousWake, CheckStopped, Unlock
<1>6. Promised'
  <2>1. worker' \in {"loop", "front", "unlock"} => beforeStop = 0
    BY <1>0 DEF IInv, Promised, Loop, Lock, CheckEmpty, Wait, SpuriousWake, CheckStopped, Unlock
  <2>2. worker' = "done" => beforeStop <= Taken
    <3>1. CASE Loop
      BY <1>1, <3>1 DEF IInv, Promised, Loop
    <3>2. CASE Unlock
      <4> SUFFICES ASSUME worker' = "done" PROVE beforeStop <= Taken
        OBVIOUS
      <4>1. worker = "unlock_end"
        BY <3>2 DEF Unlock
      <4>2. Taken = pushes /\ beforeStop <= pushes
        BY <1>2, <4>1 DEF IInv, TypeOK, Seen, Taken
      <4> QED
        BY <1>2, <4>2
    <3> QED
      BY <3>1, <3>2 DEF Lock, CheckEmpty, Wait, SpuriousWake, CheckStopped
  <2>3. worker' \in {"drain", "unlock_end", "done"} => ~ m_work_flag
    BY DEF IInv, Promised, Loop, Lock, CheckEmpty, Wait, SpuriousWake, CheckStopped, Unlock
  <2> QED
    BY <1>0, <1>1, <2>1, <2>2, <2>3 DEF IInv, Promised
<1> QED
  BY <1>1, <1>3, <1>4, <1>5, <1>6 DEF IInv

-----------------------------------------------------------------------------
(* The two steps that call.  At the head of the queue is message Taken + 1.  *)
LEMMA HeadIs ==
  ASSUME IInv, Len(m_recv_msg_que) > 0
  PROVE  /\ Head(m_recv_msg_que) = Taken + 1
         /\ Tail(m_recv_msg_que) \in Seq(Msgs)
         /\ Len(Tail(m_recv_msg_que)) = Len(m_recv_msg_que) - 1
         /\ \A k \in 1 .. Len(m_recv_msg_que) - 1 :
               Tail(m_recv_msg_que)[k] = Taken + 1 + k
<1>1. m_recv_msg_que \in Seq(Msgs) /\ Len(m_recv_msg_que) \in Nat /\ Taken \in Nat
  BY DEF IInv, TypeOK, QueueIs
<1>2. \A k \in 1 .. Len(m_recv_msg_que) : m_recv_msg_que[k] = Taken + k
  BY DEF IInv, QueueIs
<1>3. /\ Tail(m_recv_msg_que) \in Seq(Msgs)
      /\ Len(Tail(m_recv_msg_que)) = Len(m_recv_msg_que) - 1
      /\ \A i \in 1 .. Len(m_recv_msg_que) - 1 : Tail(m_recv_msg_que)[i] = m_recv_msg_que[i + 1]
      /\ Head(m_recv_msg_que) = m_recv_msg_que[1]
  BY <1>1, TailFacts
<1>4. \A k \in 1 .. Len(m_recv_msg_que) - 1 : k + 1 \in 1 .. Len(m_recv_msg_que)
  BY <1>1
<1>5. 1 \in 1 .. Len(m_recv_msg_que)
  BY <1>1
<1> QED
  BY <1>1, <1>2, <1>3, <1>4, <1>5

(* Taking the head out moves Taken on by one, and loses no call if the head  *)
(* was called for or has no callback.                                        *)
LEMMA PopInv ==
  ASSUME IInv, Len(m_recv_msg_que) > 0, m_recv_msg_que' = Tail(m_recv_msg_que),
         UNCHANGED <<known, pushes>>, called' \in Seq(known), Rising(called'),
         UpTo(called', Taken + 1),
         \A e : Contains(called, e) => Contains(called', e),
         Taken + 1 \in known => Contains(called', Taken + 1)
  PROVE  QueueIs' /\ CallsAre' /\ Taken' = Taken + 1
<1>0. /\ Len(m_recv_msg_que) \in Nat /\ Taken \in Nat /\ pushes \in Nat
      /\ called' \in Seq(known) /\ known \subseteq Nat
  BY MaxMsgsAssumption DEF IInv, TypeOK, QueueIs
<1>1. Taken' = Taken + 1
  BY <1>0, HeadIs DEF Taken
<1>2. QueueIs'
  BY <1>0, <1>1, HeadIs DEF QueueIs
<1>3. \A n \in known : n <= Taken + 1 => Contains(called', n)
  BY <1>0 DEF IInv, CallsAre
<1>4. UpTo(called', Taken' + 1)
  <2> DEFINE c == called'
  <2>1. c \in Seq(known) /\ UpTo(c, Taken + 1)
    BY <1>0
  <2> HIDE DEF c
  <2>2. \A i \in 1 .. Len(c) : c[i] \in known
    BY <2>1
  <2>3. \A i \in 1 .. Len(c) : c[i] \in Nat /\ c[i] <= Taken + 1
    <3>1. known \subseteq Nat
      BY <1>0
    <3> QED
      BY <2>1, <2>2, <3>1 DEF UpTo
  <2>4. UpTo(c, Taken + 1 + 1)
    BY <1>0, <2>3 DEF UpTo
  <2> QED
    BY <1>1, <2>4 DEF c
<1>5. CallsAre'
  BY <1>1, <1>3, <1>4 DEF CallsAre, Rising, UpTo, Contains
<1> QED
  BY <1>1, <1>2, <1>5

LEMMA DrainInv == IInv /\ Drain => IInv'
<1> SUFFICES ASSUME IInv, Drain PROVE IInv'
  OBVIOUS
<1>0. /\ UNCHANGED <<m_work_flag, locked, stopping, known, pushes, beforeStop>> /\ worker = "drain"
      /\ m_recv_msg_que \in Seq(Msgs) /\ Len(m_recv_msg_que) \in Nat
      /\ called \in Seq(known) /\ known \in SUBSET Nat /\ Taken \in Nat /\ ~ m_work_flag
  BY MaxMsgsAssumption DEF Drain, IInv, TypeOK, QueueIs, Promised
<1>1. CASE Empty /\ worker' = "unlock_end" /\ UNCHANGED <<m_recv_msg_que, called>>
  <2>1. QueueIs' /\ CallsAre' /\ Taken' = Taken
    BY <1>0, <1>1, KeepQueue
  <2>2. TypeOK'
    <3>1. worker' \in Labels /\ (worker' \in Holding <=> worker \in Holding)
      BY <1>0, <1>1 DEF Labels, Holding
    <3>2. (locked' \in BOOLEAN /\ (locked' <=> worker' \in Holding))
      BY <1>0, <3>1 DEF IInv, TypeOK
    <3> QED
      BY <1>0, <1>1, <3>1, <3>2 DEF IInv, TypeOK
  <2>3. Seen' /\ Promised' /\ OnlyHead'
    BY <1>0, <1>1, EmptyFacts DEF IInv, Seen, Promised, OnlyHead, Empty
  <2> QED
    BY <2>1, <2>2, <2>3 DEF IInv
<1>2. CASE /\ ~ Empty /\ UNCHANGED worker
           /\ called' = IF Head(m_recv_msg_que) \in known
                        THEN CallFor(Head(m_recv_msg_que)) ELSE called
           /\ m_recv_msg_que' = Tail(m_recv_msg_que)
  <2>1. Len(m_recv_msg_que) > 0
    BY <1>0, <1>2, EmptyFacts DEF Empty
  <2>2. Head(m_recv_msg_que) = Taken + 1 /\ Tail(m_recv_msg_que) \in Seq(Msgs)
    BY <2>1, HeadIs
  <2>3. Rising(called) /\ UpTo(called, Taken + 1)
    BY DEF IInv, CallsAre
  <2>4. /\ called' \in Seq(known) /\ Rising(called') /\ UpTo(called', Taken + 1)
        /\ \A e : Contains(called, e) => Contains(called', e)
        /\ Taken + 1 \in known => Contains(called', Taken + 1)
    <3>1. CASE Taken + 1 \in known
      <4>1. called' = CallFor(Taken + 1)
        BY <1>2, <2>2, <3>1
      <4>2. called' = CallsWith(called, Taken + 1)
        BY <4>1 DEF CallFor, CallsWith
      <4> DEFINE d == called'
                 n == Taken + 1
      <4>3. /\ known \in SUBSET Nat /\ called \in Seq(known) /\ n \in known
            /\ Rising(called) /\ UpTo(called, n) /\ d = CallsWith(called, n)
        BY <1>0, <2>3, <3>1, <4>2
      <4> HIDE DEF d, n
      <4>4. /\ d \in Seq(known) /\ Rising(d) /\ UpTo(d, n) /\ Contains(d, n)
            /\ \A e : Contains(called, e) => Contains(d, e)
        BY <4>3, CallForAdds
      <4> QED
        BY <4>4 DEF d, n
    <3>2. CASE Taken + 1 \notin known
      BY <1>0, <1>2, <2>2, <2>3, <3>2
    <3> QED
      BY <3>1, <3>2
  <2>5. QueueIs' /\ CallsAre' /\ Taken' = Taken + 1
    BY <1>0, <1>2, <2>1, <2>4, PopInv
  <2>6. TypeOK'
    BY <1>0, <1>2, <2>2, <2>4 DEF IInv, TypeOK
  <2>7. Seen' /\ Promised' /\ OnlyHead'
    BY <1>0, <1>2 DEF Seen, Promised, OnlyHead
  <2> QED
    BY <2>5, <2>6, <2>7 DEF IInv
<1> QED
  BY <1>1, <1>2 DEF Drain

LEMMA CallFrontInv == IInv /\ CallFront => IInv'
<1> SUFFICES ASSUME IInv, CallFront PROVE IInv'
  OBVIOUS
<1>0. /\ UNCHANGED <<m_work_flag, locked, stopping, known, pushes, beforeStop>>
      /\ worker = "front" /\ worker' = "unlock"
      /\ m_recv_msg_que \in Seq(Msgs) /\ Len(m_recv_msg_que) \in Nat
      /\ called \in Seq(known) /\ Len(called) \in Nat
      /\ known \in SUBSET Nat /\ Taken \in Nat
      /\ Len(m_recv_msg_que) > 0 /\ beforeStop = 0
  BY MaxMsgsAssumption DEF CallFront, IInv, TypeOK, QueueIs, Seen, Promised
<1>1. Head(m_recv_msg_que) = Taken + 1 /\ Tail(m_recv_msg_que) \in Seq(Msgs)
  BY <1>0, HeadIs
<1>2. Rising(called) /\ UpTo(called, Taken + 1)
  BY DEF IInv, CallsAre
<1>3. Seen' /\ Promised'
  BY <1>0 DEF IInv, Seen, Promised
<1>4. (locked' \in BOOLEAN /\ (locked' <=> worker' \in Holding)) /\ worker' \in Labels
  <2>1. worker' \in Labels /\ (worker' \in Holding <=> worker \in Holding)
    BY <1>0 DEF Labels, Holding
  <2> QED
    BY <1>0, <2>1 DEF IInv, TypeOK
<1>5. CASE Taken + 1 \in known
  <2>1. called' = CallFor(Taken + 1) /\ UNCHANGED m_recv_msg_que
    BY <1>1, <1>5 DEF CallFront
  <2>2. /\ called' \in Seq(known) /\ Rising(called') /\ UpTo(called', Taken + 1)
        /\ \A e : Contains(called, e) => Contains(called', e)
        /\ Len(called) = 0 => Len(called') = 1 /\ called'[1] = Taken + 1
        /\ Len(called) = 1 /\ called[1] = Taken + 1 => called' = called
    <3>1. called' = CallsWith(called, Taken + 1)
      BY <2>1 DEF CallFor, CallsWith
    <3> DEFINE d == called'
               n == Taken + 1
    <3>2. /\ known \in SUBSET Nat /\ called \in Seq(known) /\ n \in known
          /\ Rising(called) /\ UpTo(called, n) /\ d = CallsWith(called, n)
      BY <1>0, <1>2, <1>5, <3>1
    <3> HIDE DEF d, n
    <3>3. /\ d \in Seq(known) /\ Rising(d) /\ UpTo(d, n)
          /\ \A e : Contains(called, e) => Contains(d, e)
          /\ Len(called) = 0 => Len(d) = 1 /\ d[1] = n
          /\ Len(called) = 1 /\ called[1] = n => d = called
      BY <3>2, CallForAdds
    <3> QED
      BY <3>3 DEF d, n
  <2>3. Taken' = Taken /\ QueueIs'
    BY <1>0, <2>1 DEF IInv, Taken, QueueIs
  <2>4. CallsAre'
    BY <1>0, <2>2, <2>3 DEF IInv, CallsAre, Rising, UpTo, Contains
  <2>5. OnlyHead'
    <3>1. CASE Len(called) = 0
      BY <1>0, <2>1, <2>2, <2>3, <3>1 DEF OnlyHead
    <3>2. CASE Len(called) > 0
      BY <1>0, <2>1, <2>2, <2>3, <3>2 DEF IInv, OnlyHead
    <3> QED
      BY <1>0, <3>1, <3>2
  <2>6. TypeOK'
    BY <1>0, <1>4, <2>1, <2>2 DEF IInv, TypeOK
  <2> QED
    BY <1>3, <2>3, <2>4, <2>5, <2>6 DEF IInv
<1>6. CASE Taken + 1 \notin known
  <2>1. m_recv_msg_que' = Tail(m_recv_msg_que) /\ UNCHANGED called
    BY <1>1, <1>6 DEF CallFront
  <2>2. QueueIs' /\ CallsAre' /\ Taken' = Taken + 1
    BY <1>0, <1>2, <1>6, <2>1, PopInv
  <2>3. ~ m_work_flag \/ Len(called) = 0
    <3> SUFFICES ASSUME m_work_flag, Len(called) # 0 PROVE FALSE
      OBVIOUS
    <3>1. Len(called) = 1 /\ called[1] = Taken + 1
      BY <1>0 DEF IInv, OnlyHead
    <3>2. 1 \in 1 .. Len(called)
      BY <3>1
    <3>3. called[1] \in known
      BY <1>0, <3>2
    <3> QED
      BY <1>6, <3>1, <3>3
  <2>4. OnlyHead'
    BY <1>0, <2>1, <2>3 DEF OnlyHead
  <2>5. TypeOK'
    BY <1>0, <1>1, <1>4, <2>1 DEF IInv, TypeOK
  <2> QED
    BY <1>3, <2>2, <2>4, <2>5 DEF IInv
<1> QED
  BY <1>5, <1>6

-----------------------------------------------------------------------------
LEMMA Inductive == Spec => []IInv
<1>1. IInv /\ [Next]_vars => IInv'
  <2> SUFFICES ASSUME IInv, [Next]_vars PROVE IInv'
    OBVIOUS
  <2>1. CASE UNCHANGED vars
    BY <2>1 DEF vars, historyVars, IInv, TypeOK, QueueIs, CallsAre, Taken, Rising, UpTo,
                Contains, Seen, Promised, OnlyHead
  <2>2. CASE Next
    BY <2>2, PushInv, StopInv, MoveInv, DrainInv, CallFrontInv DEF Next, WorkThread
  <2> QED
    BY <2>1, <2>2
<1> QED
  BY InitInv, <1>1, PTL DEF Spec

(* For any number of messages: front() is never called on an empty queue,    *)
(* the callbacks come in the order of the pushes with none left out, and a   *)
(* thread told to stop while on its way to look handles what was pushed.     *)
THEOREM LogicCorrect == Spec => []LogicInv
<1> QED
  BY Inductive, InvLogic, PTL

(* A thread that is not told to stop never gets past the first message that  *)
(* has a callback, however many follow it.                                   *)
THEOREM NeverPastHead == Spec => []HeadOfLine
<1> QED
  BY Inductive, InvLogic, PTL

-----------------------------------------------------------------------------
(* Who is where.  A caller between LockGuard and UnlockGuard, at whatever     *)
(* step, is the one that holds the mutex; the notified thread holds it while *)
(* it looks at the queue and up to its wait, and never gets into notifiedFun *)
(* behind its own lock.                                                      *)
InFun == {"front", "null", "deref", "take", "make", "pop", "unlock"}

Turns ==
  /\ \A t \in Callers :
       /\ pc[t] \in {"idle", "lock"} \cup InFun
       /\ pc[t] \in InFun <=> notified_mutex = t
  /\ pc[Notifier] \in {"start", "wait", "asleep", "woken", "queue?", "lock"}
  /\ pc[Notifier] \in {"wait", "queue?", "lock"} <=> notified_mutex = Notifier
  /\ pc[Notifier] = "lock" => notified_fun = "logic"

(* Packages of a session are in the order of their numbers: those that the   *)
(* logic layer has, then those in the session's queue.                       *)
Ascends(q) == \A i, j \in 1 .. Len(q) : i < j => q[i] < q[j]

Arrivals ==
  /\ \A s \in Sessions :
       /\ Ascends(recv_completed_queue[s])
       /\ \A i \in 1 .. Len(recv_completed_queue[s]) :
            /\ recv_completed_queue[s][i] <= arrived
            /\ from[recv_completed_queue[s][i]] = s
            /\ \A j \in 1 .. Len(logic) :
                 from[logic[j].package] = s => logic[j].package < recv_completed_queue[s][i]
  /\ \A j \in 1 .. Len(logic) : logic[j].package <= arrived
  /\ \A n \in lost : n <= arrived
  /\ LogicInOrder

(* Between the two is the package that getPopFrontRecvMsg has returned.      *)
InHand ==
  \A t \in Threads :
    pc[t] = "make" =>
      /\ package[t] \in Packages /\ package[t] <= arrived
      /\ from[package[t]] = session[t]
      /\ \A i \in 1 .. Len(recv_completed_queue[session[t]]) :
           package[t] < recv_completed_queue[session[t]][i]
      /\ \A j \in 1 .. Len(logic) :
           from[logic[j].package] = session[t] => logic[j].package < package[t]

(* How often s is in the queue q, or about to be.                            *)
Places(q, s) == {i \in 1 .. Len(q) : q[i] = s}
Count(q, s) == Cardinality(Places(q, s))
OnWay(s) == IF io.step = "notice" /\ io.of = s THEN 1 ELSE 0
Tokens(s) == Count(session_notified_queue, s) + OnWay(s)
Waiting(s) == Len(recv_completed_queue[s])
InFront(s) == session_notified_queue # <<>> /\ Head(session_notified_queue) = s

(* Each place of a session stands for a package, as long as no package of    *)
(* its is lost, or taken for another session.  A thread between FrontSession *)
(* and PopSession owns one: the first, or one that a full queue has given up *)
(* since.                                                                    *)
Before == {"deref", "take"}
After == {"make", "pop"}

Backed(s) ==
  /\ (\A t \in Threads : pc[t] \in After => session[t] # s) => Tokens(s) <= Waiting(s)
  /\ \A t \in Threads :
       /\ pc[t] \in Before /\ session[t] = s =>
            \/ InFront(s) /\ Tokens(s) <= Waiting(s)
            \/ Tokens(s) + 1 <= Waiting(s)
       /\ pc[t] \in After /\ session[t] = s =>
            \/ InFront(s) /\ Tokens(s) <= Waiting(s) + 1
            \/ Tokens(s) <= Waiting(s)

Accounts ==
  \A s \in Sessions : s \notin misread /\ (\A n \in lost : from[n] # s) => Backed(s)

(* The nodes of the ring from Begin on hold the queue.  While the queue has  *)
(* not overflowed, the pointer that a thread uses is to the first of them,   *)
(* and the first session stays where it is until that thread pops it.        *)
UsesPointer == {"deref", "take", "make"}

Kept ==
  /\ Len(session_notified_queue) <= notices
  /\ \A i \in 1 .. Len(session_notified_queue) :
       node[(notices - Len(session_notified_queue) + (i - 1)) % Nodes] = session_notified_queue[i]
  /\ ~ tokenLost =>
       /\ \A t \in Threads : pc[t] \in UsesPointer =>
            /\ session_notified_queue # <<>>
            /\ pointer[t] = Begin /\ session[t] = Head(session_notified_queue)
       /\ misread = {}
       /\ \A j \in 1 .. Len(logic) : logic[j].of = from[logic[j].package]

(* A session that nobody was told of: somebody is about to look.             *)
Untold ==
  ~ missed /\ notices > told /\ io.step # "notify"
    => pc[Notifier] \in {"woken", "queue?"} \/ session_notified_queue = <<>>

(* A session is announced once for each package. *)
Announced == notices + (IF io.step = "notice" THEN 1 ELSE 0) <= arrived

NotifierInv ==
  TypeOKNotify /\ Turns /\ Arrivals /\ InHand /\ Accounts /\ Kept /\ Untold /\ Announced
-----------------------------------------------------------------------------
(* Arithmetic of a ring. *)
LEMMA DivMod ==
  ASSUME NEW a \in Nat, NEW w \in Nat \ {0}
  PROVE  a = w * (a \div w) + (a % w) /\ a \div w \in Nat /\ a % w \in 0 .. w - 1
  OBVIOUS

(* Less than a lap apart are two different nodes. *)
LEMMA Slots ==
  ASSUME NEW a \in Nat, NEW b \in Nat, NEW w \in Nat \ {0}, a < b, b < a + w
  PROVE  a % w # b % w
<1> SUFFICES ASSUME a % w = b % w PROVE FALSE
  OBVIOUS
<1> DEFINE p == a \div w
           q == b \div w
<1>1. a = w * p + (a % w) /\ b = w * q + (a % w) /\ p \in Nat /\ q \in Nat /\ a % w \in Nat
  <2>1. a = w * p + (a % w) /\ p \in Nat /\ a % w \in 0 .. w - 1
    BY DivMod
  <2>2. b = w * q + (b % w) /\ q \in Nat
    BY DivMod
  <2> QED
    BY <2>1, <2>2
<1> HIDE DEF p, q
<1>2. w * (q - p) = w * q - w * p
  BY <1>1
<1>3. 0 < w * (q - p) /\ w * (q - p) < w
  <2>1. w * q \in Nat /\ w * p \in Nat
    BY <1>1
  <2> QED
    BY <1>1, <1>2, <2>1
<1>4. q - p \in Int /\ (q - p <= 0 => w * (q - p) <= 0) /\ (q - p >= 1 => w * (q - p) >= w)
  BY <1>1
<1> QED
  BY <1>3, <1>4

-----------------------------------------------------------------------------
(* Counting the places of a session in a queue. *)
LEMMA CountNat ==
  ASSUME NEW S, NEW q \in Seq(S), NEW s
  PROVE  IsFiniteSet(Places(q, s)) /\ Count(q, s) \in Nat
<1>1. Len(q) \in Nat
  BY EmptyFacts
<1>2. IsFiniteSet(1 .. Len(q))
  BY <1>1, FS_Interval
<1>3. Places(q, s) \in SUBSET (1 .. Len(q))
  BY DEF Places
<1>4. IsFiniteSet(Places(q, s))
  BY <1>2, <1>3, FS_Subset
<1> QED
  BY <1>4, FS_CardinalityType DEF Count

LEMMA CountEmpty ==
  ASSUME NEW s
  PROVE  Count(<<>>, s) = 0
<1>1. Places(<<>>, s) = {}
  BY DEF Places
<1> QED
  BY <1>1, FS_EmptySet DEF Count

LEMMA CountHead ==
  ASSUME NEW S, NEW q \in Seq(S), NEW s, q # <<>>, Head(q) = s
  PROVE  Count(q, s) >= 1
<1>1. Len(q) \in Nat /\ Len(q) > 0 /\ q[1] = s
  BY EmptyFacts, TailFacts
<1>2. 1 \in Places(q, s)
  BY <1>1 DEF Places
<1>3. IsFiniteSet(Places(q, s)) /\ Count(q, s) \in Nat
  BY CountNat
<1>4. Cardinality(Places(q, s)) # 0
  BY <1>2, <1>3, FS_EmptySet
<1> QED
  BY <1>3, <1>4 DEF Count

LEMMA CountAppend ==
  ASSUME NEW S, NEW q \in Seq(S), NEW x \in S, NEW s
  PROVE  Count(Append(q, x), s) = Count(q, s) + IF x = s THEN 1 ELSE 0
<1> DEFINE k == Len(q) + 1
<1>1. /\ Len(q) \in Nat /\ Len(Append(q, x)) = k
      /\ \A i \in 1 .. Len(q) : Append(q, x)[i] = q[i]
      /\ Append(q, x)[k] = x
  BY EmptyFacts, AppendFacts
<1>2. IsFiniteSet(Places(q, s)) /\ Count(q, s) \in Nat
  BY CountNat
<1>3. k \notin Places(q, s)
  BY <1>1 DEF Places
<1>4. CASE x = s
  <2>1. Places(Append(q, x), s) = Places(q, s) \cup {k}
    BY <1>1, <1>4 DEF Places
  <2> QED
    BY <1>2, <1>3, <1>4, <2>1, FS_AddElement DEF Count
<1>5. CASE x # s
  <2>1. Places(Append(q, x), s) = Places(q, s)
    BY <1>1, <1>5 DEF Places
  <2> QED
    BY <1>2, <1>5, <2>1 DEF Count
<1> QED
  BY <1>4, <1>5

LEMMA CountTail ==
  ASSUME NEW S, NEW q \in Seq(S), NEW s, q # <<>>
  PROVE  Count(Tail(q), s) = Count(q, s) - IF Head(q) = s THEN 1 ELSE 0
<1>1. /\ Len(q) \in Nat /\ Len(q) > 0 /\ Len(Tail(q)) = Len(q) - 1
      /\ \A i \in 1 .. Len(q) - 1 : Tail(q)[i] = q[i + 1]
      /\ Head(q) = q[1] /\ Tail(q) \in Seq(S)
  BY EmptyFacts, TailFacts
<1>2. IsFiniteSet(Places(q, s)) /\ IsFiniteSet(Places(Tail(q), s))
      /\ Count(q, s) \in Nat /\ Count(Tail(q), s) \in Nat
  BY <1>1, CountNat
<1> DEFINE A == Places(Tail(q), s)
           B == Places(q, s) \ {1}
           f == [i \in A |-> i + 1]
<1>3. f \in Bijection(A, B)
  <2>1. A \subseteq 1 .. Len(q) - 1 /\ B \subseteq 2 .. Len(q)
    BY <1>1 DEF Places
  <2>2. \A i \in A : i + 1 \in B
    BY <1>1 DEF Places
  <2>3. \A j \in B : j - 1 \in A /\ f[j - 1] = j
    BY <1>1 DEF Places
  <2>4. f \in Injection(A, B)
    BY <2>1, <2>2 DEF Injection, IsInjective
  <2>5. f \in Surjection(A, B)
    BY <2>1, <2>2, <2>3 DEF Surjection
  <2> QED
    BY <2>4, <2>5 DEF Bijection
<1> HIDE DEF A, B, f
<1>4. IsFiniteSet(B) /\ Cardinality(B) = Cardinality(A)
  BY <1>2, <1>3, FS_Bijection DEF ExistsBijection, A
<1>5. 1 \in Places(q, s) <=> Head(q) = s
  BY <1>1 DEF Places
<1>6. Cardinality(B) = Cardinality(Places(q, s)) - IF Head(q) = s THEN 1 ELSE 0
  <2>1. Cardinality(B) = IF 1 \in Places(q, s) THEN Cardinality(Places(q, s)) - 1
                                               ELSE Cardinality(Places(q, s))
    BY <1>2, FS_RemoveElement DEF B
  <2> QED
    BY <1>2, <1>5, <2>1 DEF Count
<1> QED
  BY <1>4, <1>6 DEF A, Count

(* A push to a bounded queue.                                                *)
LEMMA PushFacts ==
  ASSUME NEW S, NEW q \in Seq(S), NEW x \in S
  PROVE  /\ PushTo(q, x) \in Seq(S) /\ PushTo(q, x) # <<>>
         /\ Len(q) <= Bound => Len(PushTo(q, x)) <= Bound
         /\ ~ IsFull(q) => PushTo(q, x) = Append(q, x)
         /\ IsFull(q) => q # <<>> /\ PushTo(q, x) = Append(Tail(q), x)
<1>1. Len(q) \in Nat /\ (q = <<>> <=> Len(q) = 0) /\ Bound \in Nat /\ Bound > 0
  BY EmptyFacts, NotifyAssumption
<1>2. CASE IsFull(q)
  <2>1. Len(q) > 0 /\ Tail(q) \in Seq(S) /\ Len(Tail(q)) = Len(q) - 1
    BY <1>1, <1>2, TailFacts DEF IsFull
  <2>2. PushTo(q, x) = Append(Tail(q), x)
    BY <1>2 DEF PushTo
  <2>3. PushTo(q, x) \in Seq(S) /\ Len(PushTo(q, x)) = Len(q)
    BY <1>1, <2>1, <2>2, AppendFacts
  <2> QED
    BY <1>1, <1>2, <2>1, <2>2, <2>3, EmptyFacts
<1>3. CASE ~ IsFull(q)
  <2>1. PushTo(q, x) = Append(q, x)
    BY <1>3 DEF PushTo
  <2>2. PushTo(q, x) \in Seq(S) /\ Len(PushTo(q, x)) = Len(q) + 1 /\ Len(q) # Bound
    BY <1>1, <1>3, <2>1, AppendFacts DEF IsFull
  <2> QED
    BY <1>1, <1>3, <2>1, <2>2, EmptyFacts
<1> QED
  BY <1>2, <1>3

LEMMA SeqFacts ==
  ASSUME NEW S, NEW s \in Seq(S)
  PROVE  DOMAIN s = 1 .. Len(s) /\ \A j \in 1 .. Len(s) : s[j] \in S
  OBVIOUS

LEMMA LogicType ==
  ASSUME logic \in Seq([of : Sessions, package : Packages])
  PROVE  /\ DOMAIN logic = 1 .. Len(logic)
         /\ \A j \in 1 .. Len(logic) : logic[j].package \in Packages
<1>1. DOMAIN logic = 1 .. Len(logic)
      /\ \A j \in 1 .. Len(logic) : logic[j] \in [of : Sessions, package : Packages]
  BY SeqFacts, Zenon
<1> QED
  BY <1>1

(* It keeps an order that the new element is at the end of.                  *)
LEMMA PushAscends ==
  ASSUME NEW q \in Seq(Packages), NEW x \in Packages, Ascends(q),
         \A i \in 1 .. Len(q) : q[i] < x
  PROVE  /\ Ascends(PushTo(q, x))
         /\ \A i \in 1 .. Len(PushTo(q, x)) :
              PushTo(q, x)[i] = x \/ \E j \in 1 .. Len(q) : PushTo(q, x)[i] = q[j]
<1> DEFINE B(p) == /\ p \in Seq(Packages) /\ Ascends(p)
                   /\ \A i \in 1 .. Len(p) : \E j \in 1 .. Len(q) : p[i] = q[j]
<1>1. ASSUME NEW p, B(p)
      PROVE  /\ Ascends(Append(p, x))
             /\ \A i \in 1 .. Len(Append(p, x)) :
                  Append(p, x)[i] = x \/ \E j \in 1 .. Len(q) : Append(p, x)[i] = q[j]
  <2>1. /\ Len(p) \in Nat /\ Len(Append(p, x)) = Len(p) + 1
        /\ \A i \in 1 .. Len(p) : Append(p, x)[i] = p[i]
        /\ Append(p, x)[Len(p) + 1] = x
    BY <1>1, EmptyFacts, AppendFacts
  <2>2. \A i \in 1 .. Len(p) : p[i] < x
    BY <1>1
  <2>3. \A i \in 1 .. Len(Append(p, x)) : i \in 1 .. Len(p) \/ i = Len(p) + 1
    BY <2>1
  <2>4. Ascends(Append(p, x))
    BY <1>1, <2>1, <2>2, <2>3 DEF Ascends
  <2> QED
    BY <1>1, <2>1, <2>3, <2>4
<1>2. B(q)
  OBVIOUS
<1>3. IsFull(q) => B(Tail(q))
  <2> SUFFICES ASSUME IsFull(q) PROVE B(Tail(q))
    OBVIOUS
  <2>1. q # <<>> /\ Len(q) \in Nat /\ Len(q) > 0
    BY PushFacts, EmptyFacts
  <2>2. /\ Tail(q) \in Seq(Packages) /\ Len(Tail(q)) = Len(q) - 1
        /\ \A i \in 1 .. Len(q) - 1 : Tail(q)[i] = q[i + 1]
    BY <2>1, TailFacts
  <2>3. \A i \in 1 .. Len(Tail(q)) : i + 1 \in 1 .. Len(q) /\ Tail(q)[i] = q[i + 1]
    BY <2>1, <2>2
  <2>4. Ascends(Tail(q))
    BY <2>1, <2>2, <2>3 DEF Ascends
  <2> QED
    BY <2>2, <2>3, <2>4
<1>4. CASE IsFull(q)
  <2>1. PushTo(q, x) = Append(Tail(q), x)
    BY <1>4, PushFacts
  <2> HIDE DEF B
  <2> QED
    BY <1>1, <1>3, <1>4, <2>1
<1>5. CASE ~ IsFull(q)
  <2>1. PushTo(q, x) = Append(q, x)
    BY <1>5, PushFacts
  <2> HIDE DEF B
  <2> QED
    BY <1>1, <1>2, <2>1
<1> QED
  BY <1>4, <1>5


(* SleepsUntold, NeverSpins and SelfLockCause are what the run checks of it.  *)
LEMMA InvNotify == NotifierInv => NotifyInv
<1> SUFFICES ASSUME NotifierInv PROVE NotifyInv
  OBVIOUS
<1>0. TypeOKNotify /\ Turns /\ Arrivals /\ Accounts /\ Kept /\ Untold
  BY DEF NotifierInv
<1>1. NeverSpins
  <2> SUFFICES ASSUME NEW t \in Threads, pc[t] = "take",
                      \A n \in lost : from[n] # session[t], session[t] \notin misread,
                      NEW s \in Sessions, s = session[t]
               PROVE  recv_completed_queue[s] # <<>>
    BY <1>0 DEF NeverSpins, TypeOKNotify
  <2>1. session_notified_queue \in Seq(Sessions) /\ recv_completed_queue[s] \in Seq(Packages)
    BY <1>0 DEF TypeOKNotify
  <2>2. (InFront(s) /\ Tokens(s) <= Waiting(s)) \/ Tokens(s) + 1 <= Waiting(s)
    BY <1>0, <2>1 DEF Accounts, Backed, Before
  <2>3. /\ Count(session_notified_queue, s) \in Nat
        /\ InFront(s) => Count(session_notified_queue, s) >= 1
    BY <2>1, CountNat, CountHead DEF InFront
  <2>4. OnWay(s) \in {0, 1} /\ Waiting(s) \in Nat
    BY <2>1, EmptyFacts DEF OnWay, Waiting
  <2>5. Waiting(s) >= 1
    <3>1. CASE InFront(s) /\ Tokens(s) <= Waiting(s)
      BY <2>3, <2>4, <3>1 DEF Tokens
    <3>2. CASE Tokens(s) + 1 <= Waiting(s)
      BY <2>3, <2>4, <3>2 DEF Tokens
    <3> QED
      BY <2>2, <3>1, <3>2
  <2> QED
    BY <2>1, <2>5, EmptyFacts DEF Waiting
<1>2. SleepsUntold
  BY <1>0 DEF SleepsUntold, Untold
<1>3. SelfLockCause
  BY <1>0 DEF SelfLockCause, SelfLocked, Turns, InFun, Threads
<1>4. OwnSession
  <2>1. DOMAIN logic = 1 .. Len(logic)
    BY <1>0 DEF TypeOKNotify
  <2> QED
    BY <1>0, <2>1 DEF OwnSession, Kept
<1> QED
  BY <1>0, <1>1, <1>2, <1>3, <1>4 DEF NotifyInv, Arrivals

-----------------------------------------------------------------------------
(* The steps that are left: the notified thread, which only ever asks for    *)
(* the lock of notifiedFun while it has it, never gets any further in it.    *)
CallerStep(t) ==
  \/ CallLogic(t) \/ LockGuard(t) \/ FrontSession(t) \/ Dereference(t)
  \/ TakePackage(t) \/ MakeNode(t) \/ PopSession(t) \/ UnlockGuard(t)

NotifySteps ==
  \/ \E s \in Sessions : Complete(s)
  \/ Notice \/ NotifyAll
  \/ NotifierLock \/ NotifierWait \/ CallNotifiedFun \/ NotifierWakes
  \/ \E t \in Callers : CallerStep(t)
  \/ UNCHANGED notifyVars

LEMMA StepsLeft == Turns /\ [NextNotify]_notifyVars => NotifySteps
<1> SUFFICES ASSUME Turns, [NextNotify]_notifyVars PROVE NotifySteps
  OBVIOUS
<1>1. ~ NotifiedFun(Notifier)
  BY NotifyAssumption DEF Turns, NotifiedFun, LockGuard, FrontSession, Dereference, TakePackage,
                          MakeNode, PopSession, UnlockGuard, Goto
<1> QED
  BY <1>1 DEF NextNotify, IoStep, NotifierStep, NotifiedFun, NotifySteps, CallerStep

LEMMA InitNotifier == InitNotify => NotifierInv
<1> SUFFICES ASSUME InitNotify PROVE NotifierInv
  OBVIOUS
<1> USE DEF InitNotify
<1>0. (CHOOSE s \in Sessions : TRUE) \in Sessions /\ Bound \in Nat /\ MaxPackages \in Nat
  BY NotifyAssumption
<1>1. TypeOKNotify
  <2>1. session_notified_queue \in Seq(Sessions) /\ Len(session_notified_queue) <= Bound
        /\ logic \in Seq([of : Sessions, package : Packages])
    BY <1>0
  <2>2. /\ recv_completed_queue \in [Sessions -> Seq(Packages)]
        /\ pc \in [Threads -> NotifyLabels]
        /\ node \in [0 .. Bound -> Sessions]
        /\ pointer \in [Threads -> 0 .. Bound]
        /\ session \in [Threads -> Sessions]
        /\ package \in [Threads -> {0} \cup Packages]
        /\ from \in [Packages -> Sessions]
        /\ io \in [step : {"read", "notice", "notify"}, of : Sessions]
    BY <1>0 DEF NotifyLabels
  <2>3. arrived \in 0 .. MaxPackages /\ notices \in 0 .. arrived /\ told \in 0 .. notices
    BY <1>0
  <2> QED
    BY <2>1, <2>2, <2>3 DEF TypeOKNotify
<1>2. Turns
  BY NotifyAssumption DEF Turns, Threads, InFun
<1>3. Arrivals /\ InHand
  BY DEF Arrivals, InHand, Ascends, LogicInOrder
<1>4. Accounts
  <2> SUFFICES ASSUME NEW s \in Sessions PROVE Backed(s)
    BY DEF Accounts
  <2>1. Tokens(s) = 0
    BY CountEmpty DEF Tokens, OnWay
  <2>2. Waiting(s) = 0
    BY DEF Waiting
  <2>3. \A t \in Threads : pc[t] \notin Before \cup After
    BY DEF Before, After
  <2> QED
    BY <2>1, <2>2, <2>3 DEF Backed
<1>5. Untold /\ Announced
  BY DEF Untold, Announced
<1>6. Kept
  BY DEF Kept, UsesPointer
<1> QED
  BY <1>1, <1>2, <1>3, <1>4, <1>5, <1>6 DEF NotifierInv

-----------------------------------------------------------------------------
LEMMA NotifyTypes == TypeOKNotify /\ Announced /\ InHand /\ Kept /\ NotifySteps => TypeOKNotify'
<1> SUFFICES ASSUME TypeOKNotify, Announced, InHand, Kept, NotifySteps PROVE TypeOKNotify'
  OBVIOUS
<1>0. /\ arrived \in Nat /\ notices \in 0 .. arrived /\ told \in 0 .. notices
      /\ session_notified_queue \in Seq(Sessions)
      /\ Bound \in Nat /\ Len(session_notified_queue) <= notices
  BY NotifyAssumption DEF TypeOKNotify, Kept
<1> USE NotifyAssumption DEF TypeOKNotify, NotifyLabels
<1>1. ASSUME NEW s \in Sessions, Complete(s) PROVE TypeOKNotify'
  <2>1. arrived + 1 \in Packages /\ recv_completed_queue[s] \in Seq(Packages)
        /\ arrived' \in 0 .. MaxPackages
    BY <1>1 DEF Complete, Packages
  <2>2. PushTo(recv_completed_queue[s], arrived + 1) \in Seq(Packages)
    BY <2>1, PushFacts
  <2>3. lost' \subseteq Packages
    <3>1. CASE IsFull(recv_completed_queue[s])
      <4>1. recv_completed_queue[s] # <<>>
        BY <2>1, <3>1, PushFacts
      <4>2. Head(recv_completed_queue[s]) \in Packages
        BY <2>1, <4>1
      <4> QED
        BY <1>1, <3>1, <4>2 DEF Complete
    <3>2. CASE ~ IsFull(recv_completed_queue[s])
      BY <1>1, <3>2 DEF Complete
    <3> QED
      BY <3>1, <3>2
  <2>4. notices' \in 0 .. arrived' /\ told' \in 0 .. notices'
    BY <1>1 DEF Complete
  <2> QED
    BY <1>1, <2>1, <2>2, <2>3, <2>4 DEF Complete, ring, inFun
<1>2. CASE Notice
  <2>1. io.of \in Sessions /\ io' \in [step : {"read", "notice", "notify"}, of : Sessions]
    BY <1>2 DEF Notice
  <2>2. session_notified_queue' \in Seq(Sessions) /\ Len(session_notified_queue') <= Bound
        /\ node' \in [0 .. Bound -> Sessions]
    BY <1>2, <2>1, PushFacts DEF Notice
  <2>3. notices' \in 0 .. arrived' /\ told' \in 0 .. notices'
    <3> HIDE DEF TypeOKNotify
    <3> QED
      BY <1>0, <1>2 DEF Notice, Announced
  <2>4. tokenLost' \in BOOLEAN
    BY <1>2 DEF Notice
  <2> QED
    BY <1>2, <2>1, <2>2, <2>3, <2>4 DEF Notice, inFun
<1>3. CASE NotifyAll
  <2>1. missed' \in BOOLEAN
    BY <1>3 DEF NotifyAll
  <2> QED
    BY <1>3, <2>1 DEF NotifyAll, ring, inFun
<1>4. CASE NotifierLock \/ NotifierWait \/ NotifierWakes
  BY <1>4 DEF NotifierLock, NotifierWait, NotifierWakes, Goto, notifyHistory, ring, inFun, Threads
<1>5. CASE CallNotifiedFun
  <2>1. told' \in 0 .. notices'
    <3> HIDE DEF TypeOKNotify
    <3> QED
      BY <1>0, <1>5 DEF CallNotifiedFun
  <2> QED
    BY <1>5, <2>1 DEF CallNotifiedFun, Goto, ring, inFun
<1>6. ASSUME NEW t \in Callers, CallLogic(t) \/ LockGuard(t) \/ UnlockGuard(t) PROVE TypeOKNotify'
  BY <1>6 DEF CallLogic, LockGuard, UnlockGuard, Goto, notifyHistory, ring, inFun, Threads
<1>7. ASSUME NEW t \in Callers, FrontSession(t) PROVE TypeOKNotify'
  <2>1. session_notified_queue # <<>> => Head(session_notified_queue) \in Sessions
    OBVIOUS
  <2>2. Begin \in 0 .. Bound
    <3> HIDE DEF TypeOKNotify
    <3> DEFINE k == notices - Len(session_notified_queue)
    <3>1. k \in Nat /\ Nodes \in Nat \ {0} /\ Nodes - 1 = Bound
      BY <1>0, EmptyFacts DEF Nodes
    <3> HIDE DEF k
    <3>2. k % Nodes \in 0 .. Bound
      BY <3>1, DivMod
    <3> QED
      BY <3>2 DEF Begin, k
  <2>3. session' \in [Threads -> Sessions] /\ pointer' \in [Threads -> 0 .. Bound]
    BY <1>7, <2>1, <2>2 DEF FrontSession
  <2> QED
    BY <1>7, <2>3 DEF FrontSession, Goto, notifyHistory, ring, Threads
<1>8. ASSUME NEW t \in Callers, TakePackage(t) PROVE TypeOKNotify'
  <2>1. session[t] \in Sessions /\ recv_completed_queue[session[t]] \in Seq(Packages)
        /\ recv_completed_queue[session[t]] # <<>>
    BY <1>8 DEF TakePackage, Threads
  <2>2. Head(recv_completed_queue[session[t]]) \in Packages
        /\ PopFrom(recv_completed_queue[session[t]]) \in Seq(Packages)
    BY <2>1 DEF PopFrom
  <2> QED
    BY <1>8, <2>1, <2>2 DEF TakePackage, Goto, notifyHistory, ring
<1>9. ASSUME NEW t \in Callers, PopSession(t) PROVE TypeOKNotify'
  <2>1. PopFrom(session_notified_queue) \in Seq(Sessions)
        /\ Len(PopFrom(session_notified_queue)) <= Bound
    <3>1. CASE session_notified_queue = <<>>
      BY <3>1 DEF PopFrom
    <3>2. CASE session_notified_queue # <<>>
      BY <3>2, EmptyFacts, TailFacts DEF PopFrom
    <3> QED
      BY <3>1, <3>2
  <2> QED
    BY <1>9, <2>1 DEF PopSession, Goto, notifyHistory, inFun
<1>10. CASE UNCHANGED notifyVars
  BY <1>10 DEF notifyVars, notifyHistory, ring, inFun
<1>11. ASSUME NEW t \in Callers, Dereference(t) PROVE TypeOKNotify'
  <2>1. t \in Threads /\ node[pointer[t]] \in Sessions
    BY <1>11 DEF Threads
  <2>2. session' \in [Threads -> Sessions] /\ misread' \subseteq Sessions
    BY <1>11, <2>1 DEF Dereference
  <2> QED
    BY <1>11, <2>2 DEF Dereference, Goto, ring
<1>12. ASSUME NEW t \in Callers, MakeNode(t) PROVE TypeOKNotify'
  <2>1. t \in Threads /\ node[pointer[t]] \in Sessions /\ package[t] \in Packages
    BY <1>12 DEF MakeNode, Goto, InHand, Threads
  <2>2. logic' \in Seq([of : Sessions, package : Packages])
    BY <1>12, <2>1, AppendFacts DEF MakeNode
  <2> QED
    BY <1>12, <2>2 DEF MakeNode, Goto, notifyHistory, ring, inFun
<1> QED
  BY <1>1, <1>2, <1>3, <1>4, <1>5, <1>6, <1>7, <1>8, <1>9, <1>10, <1>11, <1>12
     DEF NotifySteps, CallerStep

-----------------------------------------------------------------------------
(* The mutex. *)
LEMMA TurnsStep == TypeOKNotify /\ Turns /\ NotifySteps => Turns'
<1> SUFFICES ASSUME TypeOKNotify, Turns, NotifySteps PROVE Turns'
  OBVIOUS
<1> USE NotifyAssumption DEF Turns, InFun
<1>0. pc \in [Threads -> NotifyLabels] /\ Notifier \in Threads /\ Callers \subseteq Threads
  BY DEF TypeOKNotify, Threads
<1>1. ASSUME UNCHANGED <<pc, notified_mutex, notified_fun>> PROVE Turns'
  BY <1>1
<1>2. CASE Notice \/ (\E s \in Sessions : Complete(s)) \/ UNCHANGED notifyVars
  BY <1>1, <1>2 DEF Notice, Complete, notifyVars
<1>3. CASE NotifyAll
  BY <1>0, <1>3 DEF NotifyAll
<1>4. CASE NotifierLock
  BY <1>0, <1>4 DEF NotifierLock, Goto
<1>5. CASE NotifierWait
  BY <1>0, <1>5 DEF NotifierWait, Goto
<1>6. CASE NotifierWakes
  BY <1>0, <1>6 DEF NotifierWakes, Goto
<1>7. CASE CallNotifiedFun
  BY <1>0, <1>7 DEF CallNotifiedFun, Goto
<1>8. ASSUME NEW t \in Callers, CallerStep(t) PROVE Turns'
  <2>1. t # Notifier /\ t \in Threads /\ t # NoThread
    BY <1>0, Zenon
  <2>2. CASE CallLogic(t)
    BY <1>0, <2>1, <2>2 DEF CallLogic, Goto
  <2>3. CASE LockGuard(t)
    BY <1>0, <2>1, <2>3 DEF LockGuard, Goto
  <2>4. CASE FrontSession(t)
    BY <1>0, <2>1, <2>4 DEF FrontSession, Goto
  <2>5. CASE Dereference(t) \/ TakePackage(t) \/ MakeNode(t) \/ PopSession(t)
    BY <1>0, <2>1, <2>5 DEF Dereference, TakePackage, MakeNode, PopSession, Goto
  <2>6. CASE UnlockGuard(t)
    BY <1>0, <2>1, <2>6 DEF UnlockGuard, Goto
  <2> QED
    BY <1>8, <2>2, <2>3, <2>4, <2>5, <2>6 DEF CallerStep
<1> QED
  BY <1>2, <1>3, <1>4, <1>5, <1>6, <1>7, <1>8 DEF NotifySteps

-----------------------------------------------------------------------------
(* The order of the packages. *)
LEMMA ArrivalsStep == TypeOKNotify /\ Arrivals /\ InHand /\ NotifySteps => Arrivals'
<1> SUFFICES ASSUME TypeOKNotify, Arrivals, InHand, NotifySteps PROVE Arrivals'
  OBVIOUS
<1>0. /\ recv_completed_queue \in [Sessions -> Seq(Packages)] /\ logic \in Seq([of : Sessions, package : Packages])
      /\ from \in [Packages -> Sessions] /\ lost \subseteq Packages /\ arrived \in Nat
      /\ \A s \in Sessions : Len(recv_completed_queue[s]) \in Nat
      /\ Packages \subseteq Nat
  <2>1. /\ recv_completed_queue \in [Sessions -> Seq(Packages)]
        /\ logic \in Seq([of : Sessions, package : Packages])
        /\ from \in [Packages -> Sessions] /\ lost \subseteq Packages
        /\ arrived \in 0 .. MaxPackages
    BY DEF TypeOKNotify
  <2>2. arrived \in Nat
    BY ONLY <2>1, NotifyAssumption
  <2>3. ASSUME NEW s \in Sessions PROVE Len(recv_completed_queue[s]) \in Nat
    <3>1. recv_completed_queue[s] \in Seq(Packages)
      BY <2>1
    <3> QED
      BY <3>1, EmptyFacts
  <2>4. Packages \subseteq Nat
    BY DEF Packages
  <2> QED
    BY <2>1, <2>2, <2>3, <2>4
<1>1. ASSUME UNCHANGED <<recv_completed_queue, logic, from, arrived, lost>> PROVE Arrivals'
  BY <1>1 DEF Arrivals, LogicInOrder
<1>2. ASSUME NEW s \in Sessions, Complete(s) PROVE Arrivals'
  <2> DEFINE n == arrived + 1
             q == recv_completed_queue[s]
  <2>1. /\ arrived' = n /\ logic' = logic
        /\ from' = [from EXCEPT ![n] = s]
        /\ recv_completed_queue' = [recv_completed_queue EXCEPT ![s] = PushTo(q, n)]
        /\ lost' = IF IsFull(q) THEN lost \cup {Head(q)} ELSE lost
    BY <1>2 DEF Complete
  <2>a. arrived < MaxPackages /\ MaxPackages \in Nat
    BY <1>2, NotifyAssumption DEF Complete
  <2>b. n \in Packages /\ n \in Nat /\ \A m \in Nat : m <= arrived => m < n /\ m <= n /\ m # n
    BY <1>0, <2>a DEF Packages
  <2>2. /\ q \in Seq(Packages) /\ Ascends(q)
        /\ \A i \in 1 .. Len(q) : q[i] \in Packages /\ q[i] <= arrived
    BY <1>0 DEF Arrivals
  <2> HIDE DEF n, q
  <2>c. \A i \in 1 .. Len(q) : q[i] < n
    BY <1>0, <2>2, <2>b
  <2>3. /\ Ascends(PushTo(q, n))
        /\ \A i \in 1 .. Len(PushTo(q, n)) :
             PushTo(q, n)[i] = n \/ \E j \in 1 .. Len(q) : PushTo(q, n)[i] = q[j]
    BY <2>b, <2>c, <2>2, PushAscends
  <2>4. from'[n] = s /\ \A m \in Packages : m <= arrived => from'[m] = from[m]
    BY <1>0, <2>1, <2>b
  <2>5. \A j \in 1 .. Len(logic) : /\ logic[j].package \in Packages
                                   /\ logic[j].package <= arrived /\ logic[j].package < n
                                   /\ from'[logic[j].package] = from[logic[j].package]
    <3>1. \A j \in 1 .. Len(logic) : logic[j].package \in Packages /\ logic[j].package <= arrived
      BY <1>0, LogicType DEF Arrivals
    <3> QED
      BY <1>0, <2>4, <2>b, <3>1
  <2>6. \A m \in lost' : m <= arrived'
    <3>1. \A m \in lost : m <= n
      BY <1>0, <2>b DEF Arrivals
    <3>2. IsFull(q) => Head(q) <= n
      <4> SUFFICES ASSUME IsFull(q) PROVE Head(q) <= n
        OBVIOUS
      <4>1. q # <<>>
        BY <2>b, <2>2, PushFacts
      <4>2. Len(q) > 0 /\ Head(q) = q[1] /\ Len(q) \in Nat
        BY <2>2, <4>1, EmptyFacts, TailFacts
      <4>3. q[1] \in Packages /\ q[1] <= arrived
        BY <2>2, <4>2
      <4> QED
        BY <1>0, <2>b, <4>2, <4>3
    <3> QED
      BY <2>1, <3>1, <3>2
  <2>7. LogicInOrder'
    <3>1. DOMAIN logic = 1 .. Len(logic)
      BY <1>0
    <3> QED
      BY <2>1, <2>5, <3>1 DEF Arrivals, LogicInOrder
  <2>8. ASSUME NEW u \in Sessions
        PROVE  /\ Ascends(recv_completed_queue'[u])
               /\ \A i \in 1 .. Len(recv_completed_queue'[u]) :
                    /\ recv_completed_queue'[u][i] <= n
                    /\ from'[recv_completed_queue'[u][i]] = u
                    /\ \A j \in 1 .. Len(logic) :
                         from'[logic[j].package] = u => logic[j].package < recv_completed_queue'[u][i]
    <3>1. \A i \in 1 .. Len(recv_completed_queue[u]) :
            /\ recv_completed_queue[u][i] \in Packages
            /\ recv_completed_queue[u][i] <= arrived
            /\ from[recv_completed_queue[u][i]] = u
            /\ \A j \in 1 .. Len(logic) :
                 from[logic[j].package] = u => logic[j].package < recv_completed_queue[u][i]
      BY <1>0 DEF Arrivals
    <3>2. CASE u = s
      <4>1. recv_completed_queue'[u] = PushTo(q, n)
        BY <1>0, <2>1, <3>2
      <4>2. ASSUME NEW i \in 1 .. Len(PushTo(q, n))
            PROVE  /\ PushTo(q, n)[i] <= n
                   /\ from'[PushTo(q, n)[i]] = u
                   /\ \A j \in 1 .. Len(logic) :
                        from'[logic[j].package] = u => logic[j].package < PushTo(q, n)[i]
        <5>1. CASE PushTo(q, n)[i] = n
          BY <2>b, <2>4, <2>5, <3>2, <5>1
        <5>2. CASE \E j \in 1 .. Len(q) : PushTo(q, n)[i] = q[j]
          <6>1. PICK k \in 1 .. Len(q) : PushTo(q, n)[i] = q[k]
            BY <5>2
          <6>2. /\ q[k] \in Packages /\ q[k] <= arrived /\ q[k] <= n /\ from[q[k]] = u
                /\ \A j \in 1 .. Len(logic) : from[logic[j].package] = u => logic[j].package < q[k]
            BY <1>0, <2>b, <2>2, <3>1, <3>2 DEF q
          <6> QED
            BY <2>4, <2>5, <6>1, <6>2
        <5> QED
          BY <2>3, <5>1, <5>2
      <4> QED
        BY <2>3, <4>1, <4>2
    <3>3. CASE u # s
      <4>1. recv_completed_queue'[u] = recv_completed_queue[u]
        BY <1>0, <2>1, <3>3
      <4>2. Ascends(recv_completed_queue[u])
        BY DEF Arrivals
      <4> QED
        BY <1>0, <2>b, <2>4, <2>5, <3>1, <4>1, <4>2
    <3> QED
      BY <3>2, <3>3
  <2> QED
    <3>1. \A j \in 1 .. Len(logic') : logic'[j].package <= arrived'
      BY <1>0, <2>b, <2>1, <2>5
    <3>2. \A u \in Sessions :
            /\ Ascends(recv_completed_queue'[u])
            /\ \A i \in 1 .. Len(recv_completed_queue'[u]) :
                 /\ recv_completed_queue'[u][i] <= arrived'
                 /\ from'[recv_completed_queue'[u][i]] = u
                 /\ \A j \in 1 .. Len(logic') :
                      from'[logic'[j].package] = u => logic'[j].package < recv_completed_queue'[u][i]
      BY <2>1, <2>8
    <3> QED
      BY <2>6, <2>7, <3>1, <3>2 DEF Arrivals, Ascends
<1>3. ASSUME NEW t \in Callers, TakePackage(t) PROVE Arrivals'
  <2> DEFINE s == session[t]
             q == recv_completed_queue[s]
  <2>1. /\ s \in Sessions /\ q \in Seq(Packages) /\ q # <<>>
        /\ recv_completed_queue' = [recv_completed_queue EXCEPT ![s] = Tail(q)]
        /\ UNCHANGED <<from, arrived, lost, logic>>
    BY <1>0, <1>3 DEF TakePackage, PopFrom, TypeOKNotify, Threads, notifyHistory
  <2>2. /\ Len(q) \in Nat /\ Len(q) > 0 /\ Len(Tail(q)) = Len(q) - 1
        /\ \A i \in 1 .. Len(q) - 1 : Tail(q)[i] = q[i + 1]
    BY <2>1, EmptyFacts, TailFacts
  <2>3. \A i \in 1 .. Len(Tail(q)) : i + 1 \in 1 .. Len(q) /\ Tail(q)[i] = q[i + 1]
    BY <2>2
  <2>4. Ascends(q)
    BY <2>1 DEF Arrivals
  <2>5. Ascends(Tail(q))
    BY <2>2, <2>3, <2>4 DEF Ascends
  <2>6. recv_completed_queue'[s] = Tail(q)
        /\ \A u \in Sessions : u # s => recv_completed_queue'[u] = recv_completed_queue[u]
    BY <1>0, <2>1
  <2> HIDE DEF q, s
  <2>7. \A u \in Sessions :
          /\ Ascends(recv_completed_queue'[u])
          /\ \A i \in 1 .. Len(recv_completed_queue'[u]) :
               \E k \in 1 .. Len(recv_completed_queue[u]) :
                 recv_completed_queue'[u][i] = recv_completed_queue[u][k]
    <3> SUFFICES ASSUME NEW u \in Sessions
                 PROVE  /\ Ascends(recv_completed_queue'[u])
                        /\ \A i \in 1 .. Len(recv_completed_queue'[u]) :
                             \E k \in 1 .. Len(recv_completed_queue[u]) :
                               recv_completed_queue'[u][i] = recv_completed_queue[u][k]
      OBVIOUS
    <3>1. CASE u = s
      BY <2>3, <2>5, <2>6, <3>1 DEF q
    <3>2. CASE u # s
      BY <2>6, <3>2 DEF Arrivals
    <3> QED
      BY <3>1, <3>2
  <2>8. \A u \in Sessions : \A i \in 1 .. Len(recv_completed_queue'[u]) :
          /\ recv_completed_queue'[u][i] <= arrived
          /\ from[recv_completed_queue'[u][i]] = u
          /\ \A j \in 1 .. Len(logic) :
               from[logic[j].package] = u => logic[j].package < recv_completed_queue'[u][i]
    BY <2>7 DEF Arrivals
  <2>9. from' = from /\ arrived' = arrived /\ lost' = lost /\ logic' = logic
    BY <2>1
  <2>10. LogicInOrder'
    BY <2>9 DEF Arrivals, LogicInOrder
  <2>11. /\ \A j \in 1 .. Len(logic) : logic[j].package <= arrived
         /\ \A n \in lost : n <= arrived
    BY DEF Arrivals
  <2>12. \A u \in Sessions : Ascends(recv_completed_queue'[u])
    BY <2>7
  <2> QED
    BY <2>8, <2>9, <2>10, <2>11, <2>12 DEF Arrivals, Ascends
<1>4. ASSUME NEW t \in Callers, MakeNode(t) PROVE Arrivals'
  <2> DEFINE s == session[t]
             m == package[t]
             e == [of |-> node[pointer[t]], package |-> m]
  <2>1. /\ pc[t] = "make" /\ t \in Threads /\ logic' = Append(logic, e)
        /\ UNCHANGED <<recv_completed_queue, from, arrived, lost>>
    BY <1>4 DEF MakeNode, Goto, Threads, notifyHistory
  <2>2. /\ m \in Packages /\ m <= arrived /\ from[m] = s
        /\ \A i \in 1 .. Len(recv_completed_queue[s]) : m < recv_completed_queue[s][i]
        /\ \A j \in 1 .. Len(logic) : from[logic[j].package] = s => logic[j].package < m
    BY <2>1 DEF InHand
  <2>3. e \in [of : Sessions, package : Packages] /\ e.package = m
    BY <2>1, <2>2 DEF TypeOKNotify
  <2> HIDE DEF e, m, s
  <2>4. /\ Len(logic) \in Nat /\ Len(logic') = Len(logic) + 1
        /\ \A j \in 1 .. Len(logic) : logic'[j] = logic[j]
        /\ logic'[Len(logic) + 1] = e
        /\ DOMAIN logic' = 1 .. Len(logic')
    BY <1>0, <2>1, <2>3, EmptyFacts, AppendFacts
  <2>5. \A j \in 1 .. Len(logic') : j \in 1 .. Len(logic) \/ j = Len(logic) + 1
    BY <2>4
  <2>6. LogicInOrder'
    <3> SUFFICES ASSUME NEW i \in 1 .. Len(logic'), NEW j \in 1 .. Len(logic'), i < j,
                        from[logic'[i].package] = from[logic'[j].package]
                 PROVE  logic'[i].package < logic'[j].package
      BY <2>1, <2>4 DEF LogicInOrder
    <3>1. i \in 1 .. Len(logic)
      BY <2>4
    <3>2. CASE j \in 1 .. Len(logic)
      BY <1>0, <2>4, <3>1, <3>2, LogicType DEF Arrivals, LogicInOrder
    <3>3. CASE j = Len(logic) + 1
      <4>1. /\ logic'[i] = logic[i] /\ logic'[j].package = m
            /\ from[logic'[j].package] = s
        BY <2>2, <2>3, <2>4, <3>1, <3>3
      <4> QED
        BY <2>2, <3>1, <4>1
    <3> QED
      BY <2>5, <3>2, <3>3
  <2>7. \A j \in 1 .. Len(logic') : logic'[j].package <= arrived'
    BY <2>1, <2>2, <2>3, <2>4, <2>5 DEF Arrivals
  <2>8. ASSUME NEW u \in Sessions, NEW i \in 1 .. Len(recv_completed_queue[u]),
               NEW j \in 1 .. Len(logic'), from[logic'[j].package] = u
        PROVE  logic'[j].package < recv_completed_queue[u][i]
    <3>1. CASE j \in 1 .. Len(logic)
      BY <2>4, <2>8, <3>1 DEF Arrivals
    <3>2. CASE j = Len(logic) + 1
      BY <2>2, <2>3, <2>4, <2>8, <3>2
    <3> QED
      BY <2>5, <3>1, <3>2
  <2>9. recv_completed_queue' = recv_completed_queue /\ from' = from /\ arrived' = arrived
        /\ lost' = lost
    BY <2>1
  <2>10. /\ \A u \in Sessions :
              /\ Ascends(recv_completed_queue[u])
              /\ \A i \in 1 .. Len(recv_completed_queue[u]) :
                   /\ recv_completed_queue[u][i] <= arrived
                   /\ from[recv_completed_queue[u][i]] = u
         /\ \A n \in lost : n <= arrived
    BY DEF Arrivals
  <2> QED
    BY <2>6, <2>7, <2>8, <2>9, <2>10 DEF Arrivals, Ascends
<1>5. CASE Notice \/ NotifyAll \/ NotifierLock \/ NotifierWait \/ CallNotifiedFun \/ NotifierWakes
           \/ UNCHANGED notifyVars
  BY <1>1, <1>5 DEF Notice, NotifyAll, NotifierLock, NotifierWait, CallNotifiedFun, NotifierWakes,
                    notifyVars, notifyHistory
<1>6. ASSUME NEW t \in Callers, CallerStep(t), ~ TakePackage(t), ~ MakeNode(t) PROVE Arrivals'
  BY <1>1, <1>6 DEF CallerStep, CallLogic, LockGuard, FrontSession, Dereference, PopSession,
                    UnlockGuard, notifyHistory
<1> QED
  BY <1>2, <1>3, <1>4, <1>5, <1>6 DEF NotifySteps

(* The package in hand is older than all that wait in its session's queue.   *)
LEMMA InHandStep == TypeOKNotify /\ Turns /\ Arrivals /\ InHand /\ NotifySteps => InHand'
<1> SUFFICES ASSUME TypeOKNotify, Turns, Arrivals, InHand, NotifySteps PROVE InHand'
  OBVIOUS
<1>0. /\ recv_completed_queue \in [Sessions -> Seq(Packages)]
      /\ session \in [Threads -> Sessions] /\ package \in [Threads -> {0} \cup Packages]
      /\ pc \in [Threads -> NotifyLabels] /\ from \in [Packages -> Sessions]
      /\ arrived \in Nat /\ Packages \subseteq Nat
      /\ logic \in Seq([of : Sessions, package : Packages])
      /\ Callers \subseteq Threads
  BY DEF TypeOKNotify, Packages, Threads
<1>a. \A t \in Threads, u \in Threads :
        pc[t] \in {"front", "deref", "take", "make"} /\ pc[u] = "make" => t = u
  BY DEF Turns, InFun, Threads
<1>1. ASSUME UNCHANGED <<recv_completed_queue, logic, from, arrived, package, session>>,
             \A t \in Threads : pc'[t] = "make" => pc[t] = "make"
      PROVE  InHand'
  BY <1>1 DEF InHand
<1>2. ASSUME NEW s \in Sessions, Complete(s) PROVE InHand'
  <2> DEFINE n == arrived + 1
             q == recv_completed_queue[s]
  <2>1. /\ arrived' = n /\ from' = [from EXCEPT ![n] = s]
        /\ recv_completed_queue' = [recv_completed_queue EXCEPT ![s] = PushTo(q, n)]
        /\ UNCHANGED <<logic, pc, package, session>>
    BY <1>2 DEF Complete, inFun
  <2>2. n \in Packages /\ n \in Nat /\ \A m \in Nat : m <= arrived => m < n /\ m <= n
    BY <1>0, <1>2, NotifyAssumption DEF Complete, Packages
  <2>3. q \in Seq(Packages) /\ Ascends(q)
        /\ \A i \in 1 .. Len(q) : q[i] \in Packages /\ q[i] <= arrived
    BY <1>0 DEF Arrivals
  <2> HIDE DEF n, q
  <2>4. \A i \in 1 .. Len(PushTo(q, n)) :
          PushTo(q, n)[i] = n \/ \E j \in 1 .. Len(q) : PushTo(q, n)[i] = q[j]
    BY <1>0, <2>2, <2>3, PushAscends
  <2>5. \A m \in Packages : m <= arrived => from'[m] = from[m]
    <3>1. ASSUME NEW m \in Packages, m <= arrived PROVE m # n
      <4>1. m \in Nat
        BY <1>0
      <4>2. m < n
        BY <2>2, <3>1, <4>1
      <4> QED
        BY <2>2, <4>1, <4>2
    <3> QED
      BY <1>0, <2>1, <2>2, <3>1
  <2> SUFFICES ASSUME NEW t \in Threads, pc[t] = "make"
               PROVE  /\ package[t] \in Packages /\ package[t] <= n
                      /\ from'[package[t]] = session[t]
                      /\ \A i \in 1 .. Len(recv_completed_queue'[session[t]]) :
                           package[t] < recv_completed_queue'[session[t]][i]
                      /\ \A j \in 1 .. Len(logic) :
                           from'[logic[j].package] = session[t] => logic[j].package < package[t]
    BY <2>1 DEF InHand
  <2>6. /\ package[t] \in Packages /\ package[t] <= arrived /\ from[package[t]] = session[t]
        /\ \A i \in 1 .. Len(recv_completed_queue[session[t]]) :
             package[t] < recv_completed_queue[session[t]][i]
        /\ \A j \in 1 .. Len(logic) :
             from[logic[j].package] = session[t] => logic[j].package < package[t]
    BY DEF InHand
  <2>7. \A i \in 1 .. Len(recv_completed_queue'[session[t]]) :
          package[t] < recv_completed_queue'[session[t]][i]
    <3>1. CASE session[t] = s
      <4>1. recv_completed_queue'[session[t]] = PushTo(q, n)
        BY <1>0, <2>1, <3>1
      <4>2. package[t] < n /\ \A j \in 1 .. Len(q) : package[t] < q[j]
        BY <1>0, <2>2, <2>6, <3>1 DEF q
      <4> QED
        BY <2>4, <4>1, <4>2
    <3>2. CASE session[t] # s
      BY <1>0, <2>1, <2>6, <3>2
    <3> QED
      BY <3>1, <3>2
  <2>8. \A j \in 1 .. Len(logic) : logic[j].package \in Packages /\ logic[j].package <= arrived
    BY <1>0, LogicType DEF Arrivals
  <2> QED
    BY <1>0, <2>2, <2>5, <2>6, <2>7, <2>8
<1>3. ASSUME NEW t \in Callers, TakePackage(t) PROVE InHand'
  <2> DEFINE s == session[t]
             q == recv_completed_queue[s]
             m == Head(q)
  <2>1. /\ t \in Threads /\ s \in Sessions /\ q \in Seq(Packages) /\ q # <<>>
        /\ pc[t] = "take" /\ pc' = [pc EXCEPT ![t] = "make"]
        /\ package' = [package EXCEPT ![t] = m]
        /\ recv_completed_queue' = [recv_completed_queue EXCEPT ![s] = Tail(q)]
        /\ UNCHANGED <<from, arrived, logic, session>>
    BY <1>0, <1>3 DEF TakePackage, PopFrom, Goto, notifyHistory
  <2>2. /\ Len(q) \in Nat /\ Len(q) > 0 /\ m = q[1] /\ m \in Packages
        /\ Len(Tail(q)) = Len(q) - 1
        /\ \A i \in 1 .. Len(q) - 1 : Tail(q)[i] = q[i + 1]
    BY <2>1, EmptyFacts, TailFacts
  <2>3. /\ Ascends(q) /\ m <= arrived /\ from[m] = s
        /\ \A j \in 1 .. Len(logic) : from[logic[j].package] = s => logic[j].package < m
    BY <2>1, <2>2 DEF Arrivals
  <2>4. \A i \in 1 .. Len(Tail(q)) : m < Tail(q)[i]
    BY <2>2, <2>3 DEF Ascends
  <2>5. \A u \in Threads : pc'[u] = "make" => u = t
    BY <1>0, <1>a, <2>1
  <2>6. package'[t] = m /\ recv_completed_queue'[s] = Tail(q) /\ session'[t] = s
    BY <1>0, <2>1
  <2>7. from' = from /\ arrived' = arrived /\ logic' = logic
    BY <2>1
  <2> HIDE DEF s, q, m
  <2> QED
    BY <2>2, <2>3, <2>4, <2>5, <2>6, <2>7 DEF InHand
<1>4. ASSUME NEW t \in Callers, MakeNode(t) PROVE InHand'
  <2>1. \A u \in Threads : pc'[u] # "make"
    BY <1>0, <1>a, <1>4 DEF MakeNode, Goto
  <2> QED
    BY <2>1 DEF InHand
<1>5. ASSUME NEW t \in Callers, FrontSession(t) \/ Dereference(t) PROVE InHand'
  <2>1. \A u \in Threads : pc'[u] # "make"
    BY <1>0, <1>a, <1>5 DEF FrontSession, Dereference, Goto
  <2> QED
    BY <2>1 DEF InHand
<1>6. ASSUME NEW t \in Callers, CallLogic(t) \/ LockGuard(t) \/ PopSession(t) \/ UnlockGuard(t)
      PROVE  InHand'
  BY <1>0, <1>1, <1>6 DEF CallLogic, LockGuard, PopSession, UnlockGuard, Goto, inFun, notifyHistory
<1>7. CASE Notice \/ NotifyAll \/ NotifierLock \/ NotifierWait \/ CallNotifiedFun \/ NotifierWakes
           \/ UNCHANGED notifyVars
  <2>1. UNCHANGED <<recv_completed_queue, logic, from, arrived, package, session>>
    BY <1>7 DEF Notice, NotifyAll, NotifierLock, NotifierWait, CallNotifiedFun, NotifierWakes,
                notifyVars, notifyHistory, inFun
  <2>2. \A t \in Threads : pc'[t] = "make" => pc[t] = "make"
    BY <1>0, <1>7 DEF Notice, NotifyAll, NotifierLock, NotifierWait, CallNotifiedFun,
                      NotifierWakes, notifyVars, Goto
  <2> QED
    BY <1>1, <2>1, <2>2
<1> QED
  BY <1>2, <1>3, <1>4, <1>5, <1>6, <1>7 DEF NotifySteps, CallerStep

-----------------------------------------------------------------------------
(* The places of the sessions and their packages. *)
LEMMA AccountsStep ==
  TypeOKNotify /\ Turns /\ Arrivals /\ Accounts /\ NotifySteps => Accounts'
<1> SUFFICES ASSUME TypeOKNotify, Turns, Arrivals, Accounts, NotifySteps PROVE Accounts'
  OBVIOUS
<1>0. /\ recv_completed_queue \in [Sessions -> Seq(Packages)]
      /\ session_notified_queue \in Seq(Sessions)
      /\ session \in [Threads -> Sessions] /\ pc \in [Threads -> NotifyLabels]
      /\ Callers \subseteq Threads /\ io.of \in Sessions
  BY DEF TypeOKNotify, Threads
<1>a. ASSUME NEW s \in Sessions
      PROVE  /\ Count(session_notified_queue, s) \in Nat /\ OnWay(s) \in {0, 1}
             /\ Tokens(s) = Count(session_notified_queue, s) + OnWay(s)
             /\ Tokens(s) \in Nat /\ Waiting(s) \in Nat
  BY <1>0, <1>a, CountNat, EmptyFacts DEF Tokens, OnWay, Waiting
<1>b. \A t \in Threads, u \in Threads :
        pc[t] \in {"front"} \cup Before \cup After /\ pc[u] \in Before \cup After => t = u
  BY DEF Turns, InFun, Threads, Before, After
<1>1. ASSUME UNCHANGED <<recv_completed_queue, session_notified_queue, session, misread, from,
                         lost>>,
             \A s \in Sessions : OnWay(s)' = OnWay(s),
             \A t \in Threads : /\ pc'[t] \in Before <=> pc[t] \in Before
                                /\ pc'[t] \in After <=> pc[t] \in After
      PROVE  Accounts'
  <2> SUFFICES ASSUME NEW s \in Sessions, s \notin misread, \A n \in lost : from[n] # s
               PROVE  Backed(s)'
    BY <1>1 DEF Accounts
  <2>1. Backed(s)
    BY DEF Accounts
  <2>2. Tokens(s)' = Tokens(s) /\ Waiting(s)' = Waiting(s) /\ (InFront(s)' <=> InFront(s))
    BY <1>1 DEF Tokens, Waiting, InFront, Count, Places
  <2> QED
    BY <1>1, <2>1, <2>2 DEF Backed
<1>2. ASSUME NEW s \in Sessions, Complete(s) PROVE Accounts'
  <2> DEFINE q == recv_completed_queue[s]
  <2>1. /\ io.step = "read" /\ io' = [step |-> "notice", of |-> s]
        /\ from' = [from EXCEPT ![arrived + 1] = s]
        /\ recv_completed_queue' = [recv_completed_queue EXCEPT ![s] = PushTo(q, arrived + 1)]
        /\ lost' = IF IsFull(q) THEN lost \cup {Head(q)} ELSE lost
        /\ UNCHANGED <<session_notified_queue, pc, session, misread>>
    BY <1>2 DEF Complete, ring, inFun
  <2>2. arrived + 1 \in Packages /\ arrived \in Nat /\ from \in [Packages -> Sessions]
        /\ lost \subseteq Packages /\ q \in Seq(Packages)
    <3>1. arrived < MaxPackages /\ MaxPackages \in Nat /\ arrived \in Nat
      BY <1>2, NotifyAssumption DEF Complete, TypeOKNotify
    <3> QED
      BY <3>1 DEF TypeOKNotify, Packages
  <2> HIDE DEF q
  <2>3. \A n \in Packages : n <= arrived => from'[n] = from[n]
    BY <2>1, <2>2
  <2> SUFFICES ASSUME NEW u \in Sessions, u \notin misread, \A n \in lost' : from'[n] # u
               PROVE  Backed(u)'
    BY <2>1 DEF Accounts
  <2>4. Backed(u)
    <3>1. \A n \in lost : from[n] # u
      BY <2>1, <2>2, <2>3 DEF Arrivals
    <3> QED
      BY <3>1 DEF Accounts
  <2>5. Count(session_notified_queue, u)' = Count(session_notified_queue, u)
        /\ (InFront(u)' <=> InFront(u)) /\ OnWay(u) = 0
    BY <2>1 DEF Count, Places, InFront, OnWay
  <2>6. CASE u # s
    <3>1. Waiting(u)' = Waiting(u)
      BY <1>0, <2>1, <2>6 DEF Waiting
    <3>2. OnWay(u)' = 0
      BY <2>1, <2>6 DEF OnWay
    <3>3. Tokens(u)' = Tokens(u)
      BY <2>5, <3>2 DEF Tokens
    <3> QED
      BY <2>1, <2>4, <2>5, <3>1, <3>3 DEF Backed
  <2>7. CASE u = s
    <3>1. ~ IsFull(q)
      <4> SUFFICES ASSUME IsFull(q) PROVE FALSE
        OBVIOUS
      <4>1. q # <<>>
        BY <2>2, PushFacts
      <4>2. Len(q) \in Nat /\ Len(q) > 0 /\ Head(q) = q[1]
        BY <2>2, <4>1, EmptyFacts, TailFacts
      <4>3. Head(q) \in Packages /\ Head(q) <= arrived /\ from[Head(q)] = s
        BY <2>2, <4>2 DEF Arrivals, q
      <4> QED
        BY <2>1, <2>3, <2>7, <4>3
    <3>2. PushTo(q, arrived + 1) = Append(q, arrived + 1)
      BY <2>2, <3>1, PushFacts
    <3>3. Waiting(u)' = Waiting(u) + 1
      BY <1>0, <2>1, <2>2, <2>7, <3>2, AppendFacts DEF Waiting, q
    <3>4. OnWay(u)' = 1
      BY <2>1, <2>7 DEF OnWay
    <3>5. Tokens(u)' = Tokens(u) + 1
      BY <1>a, <2>5, <3>4 DEF Tokens
    <3>6. Tokens(u) \in Nat /\ Waiting(u) \in Nat
      BY <1>a
    <3> HIDE DEF Tokens, Waiting
    <3> QED
      BY <2>1, <2>4, <2>5, <3>3, <3>5, <3>6 DEF Backed
  <2> QED
    BY <2>6, <2>7
<1>3. CASE Notice
  <2> DEFINE q == session_notified_queue
             x == io.of
  <2>1. /\ io.step = "notice" /\ io'.step = "notify" /\ q' = PushTo(q, x)
        /\ UNCHANGED <<recv_completed_queue, pc, session, misread, from, lost>>
    BY <1>3 DEF Notice, TypeOKNotify, inFun
  <2> SUFFICES ASSUME NEW u \in Sessions, u \notin misread, \A n \in lost : from[n] # u
               PROVE  Backed(u)'
    BY <2>1 DEF Accounts
  <2>2. Backed(u) /\ Waiting(u)' = Waiting(u)
    BY <2>1 DEF Accounts, Waiting
  <2>3. OnWay(u)' = 0 /\ OnWay(u) = IF x = u THEN 1 ELSE 0
    BY <2>1 DEF OnWay
  <2>4. q \in Seq(Sessions) /\ x \in Sessions
    BY <1>0
  <2>5. /\ Tokens(u)' \in Int
        /\ \/ Tokens(u)' = Tokens(u) /\ (InFront(u) => InFront(u)')
           \/ InFront(u) /\ Tokens(u)' = Tokens(u) - 1
           \/ ~ InFront(u) /\ Tokens(u)' = Tokens(u)
    <3>1. CASE IsFull(q)
      <4>1. q # <<>> /\ PushTo(q, x) = Append(Tail(q), x)
        BY <2>4, <3>1, PushFacts
      <4>2. Tail(q) \in Seq(Sessions)
        BY <2>4, <4>1
      <4>3. Count(q', u) = Count(Tail(q), u) + IF x = u THEN 1 ELSE 0
        <5>1. Count(Append(Tail(q), x), u) = Count(Tail(q), u) + IF x = u THEN 1 ELSE 0
          <6>1. \A r \in Seq(Sessions) :
                  Count(Append(r, x), u) = Count(r, u) + IF x = u THEN 1 ELSE 0
            BY <2>4, CountAppend
          <6> QED
            BY <4>2, <6>1, Zenon
        <5> QED
          BY <2>1, <4>1, <5>1
      <4>4. Count(Tail(q), u) = Count(q, u) - IF Head(q) = u THEN 1 ELSE 0
        BY <2>4, <4>1, CountTail
      <4>5. Tokens(u)' = Count(q', u) + OnWay(u)'
        BY DEF Tokens, Count, Places
      <4>6. InFront(u) <=> Head(q) = u
        BY <4>1 DEF InFront
      <4> HIDE DEF q, x
      <4> QED
        BY <1>a, <2>3, <4>3, <4>4, <4>5, <4>6 DEF q
    <3>2. CASE ~ IsFull(q)
      <4>1. PushTo(q, x) = Append(q, x)
        BY <2>4, <3>2, PushFacts
      <4>3. Count(q', u) = Count(q, u) + IF x = u THEN 1 ELSE 0
        BY <2>1, <2>4, <4>1, CountAppend
      <4>5. Tokens(u)' = Count(q', u) + OnWay(u)'
        BY DEF Tokens, Count, Places
      <4>6. InFront(u) => InFront(u)'
        BY <2>1, <2>4, <4>1 DEF InFront
      <4> HIDE DEF q, x
      <4> QED
        BY <1>a, <2>3, <4>3, <4>5, <4>6 DEF q
    <3> QED
      BY <3>1, <3>2
  <2>6. Tokens(u) \in Nat /\ Waiting(u) \in Nat
    BY <1>a
  <2> HIDE DEF Tokens, Waiting, q, x
  <2> QED
    BY <2>1, <2>2, <2>5, <2>6 DEF Backed
<1>4. ASSUME NEW t \in Callers, FrontSession(t) PROVE Accounts'
  <2>1. /\ pc[t] = "front"
        /\ pc' = [pc EXCEPT ![t] = IF session_notified_queue = <<>> THEN "null" ELSE "deref"]
        /\ session' = IF session_notified_queue = <<>> THEN session
                      ELSE [session EXCEPT ![t] = Head(session_notified_queue)]
        /\ UNCHANGED <<recv_completed_queue, session_notified_queue, io, misread, from, lost>>
    BY <1>4 DEF FrontSession, Goto, notifyHistory, ring
  <2>2. \A u \in Threads : pc[u] \notin Before \cup After
    BY <1>0, <1>b, <2>1 DEF Before, After
  <2>3. \A u \in Threads : pc'[u] \notin After /\ (pc'[u] \in Before => u = t /\ pc'[u] = "deref")
    BY <1>0, <2>1, <2>2 DEF Before, After
  <2> SUFFICES ASSUME NEW s \in Sessions, s \notin misread, \A n \in lost : from[n] # s
               PROVE  Backed(s)'
    BY <2>1 DEF Accounts
  <2>4. Tokens(s) <= Waiting(s)
    BY <2>2 DEF Accounts, Backed
  <2>5. Tokens(s)' = Tokens(s) /\ Waiting(s)' = Waiting(s) /\ (InFront(s)' <=> InFront(s))
    BY <2>1 DEF Tokens, Waiting, InFront, Count, Places, OnWay
  <2>6. pc'[t] = "deref" /\ session'[t] = s => InFront(s)
    BY <1>0, <2>1 DEF InFront
  <2> QED
    BY <2>3, <2>4, <2>5, <2>6 DEF Backed
<1>5. ASSUME NEW t \in Callers, TakePackage(t) PROVE Accounts'
  <2> DEFINE v == session[t]
             q == recv_completed_queue[v]
  <2>1. /\ pc[t] = "take" /\ pc' = [pc EXCEPT ![t] = "make"] /\ q # <<>>
        /\ recv_completed_queue' = [recv_completed_queue EXCEPT ![v] = Tail(q)]
        /\ UNCHANGED <<session_notified_queue, session, io, misread, from, lost>>
    BY <1>5 DEF TakePackage, PopFrom, Goto, notifyHistory, ring
  <2>2. \A u \in Threads : u # t => pc[u] \notin Before \cup After /\ pc'[u] = pc[u]
    BY <1>0, <1>b, <2>1 DEF Before, After
  <2>3. pc'[t] = "make" /\ t \in Threads /\ v \in Sessions /\ q \in Seq(Packages)
    BY <1>0, <2>1
  <2> SUFFICES ASSUME NEW s \in Sessions, s \notin misread, \A n \in lost : from[n] # s
               PROVE  Backed(s)'
    BY <2>1 DEF Accounts
  <2>4. Backed(s)
    BY DEF Accounts
  <2>5. Tokens(s)' = Tokens(s) /\ (InFront(s)' <=> InFront(s))
    BY <2>1 DEF Tokens, InFront, Count, Places, OnWay
  <2>6. Tokens(s) \in Nat /\ Waiting(s) \in Nat
    BY <1>a
  <2>7. CASE s # v
    <3>1. Waiting(s)' = Waiting(s)
      BY <1>0, <2>1, <2>7 DEF Waiting
    <3>2. Tokens(s) <= Waiting(s)
      BY <2>1, <2>2, <2>4 DEF Backed, Before, After
    <3> QED
      BY <2>1, <2>2, <2>3, <2>5, <2>7, <3>1, <3>2 DEF Backed, Before, After
  <2>8. CASE s = v
    <3>1. Waiting(s)' = Waiting(s) - 1
      <4>1. Len(q) \in Nat /\ Len(q) > 0 /\ Len(Tail(q)) = Len(q) - 1
        BY <2>1, <2>3, EmptyFacts, TailFacts
      <4>2. recv_completed_queue'[s] = Tail(q)
        BY <1>0, <2>1, <2>8
      <4> QED
        BY <2>8, <4>1, <4>2 DEF Waiting
    <3>2. (InFront(s) /\ Tokens(s) <= Waiting(s)) \/ Tokens(s) + 1 <= Waiting(s)
      BY <2>1, <2>3, <2>4, <2>8 DEF Backed, Before
    <3>3. (InFront(s)' /\ Tokens(s)' <= Waiting(s)' + 1) \/ Tokens(s)' <= Waiting(s)'
      BY <2>5, <2>6, <3>1, <3>2
    <3>4. pc'[t] = "make" /\ session'[t] = s
      BY <2>1, <2>3, <2>8
    <3> HIDE DEF v, q
    <3> QED
      BY <2>2, <2>3, <3>3, <3>4 DEF Backed, Before, After
  <2> QED
    BY <2>7, <2>8
<1>6. ASSUME NEW t \in Callers, PopSession(t) PROVE Accounts'
  <2> DEFINE q == session_notified_queue
  <2>1. /\ pc[t] = "pop" /\ pc' = [pc EXCEPT ![t] = "unlock"] /\ q' = PopFrom(q)
        /\ UNCHANGED <<recv_completed_queue, session, io, misread, from, lost>>
    BY <1>6 DEF PopSession, Goto, notifyHistory, inFun
  <2>2. \A u \in Threads : pc'[u] \notin Before \cup After /\ (pc[u] \in After => u = t)
    BY <1>0, <1>b, <2>1 DEF Before, After
  <2> SUFFICES ASSUME NEW s \in Sessions, s \notin misread, \A n \in lost : from[n] # s
               PROVE  Backed(s)'
    BY <2>1 DEF Accounts
  <2>3. Backed(s) /\ t \in Threads
    BY <1>0 DEF Accounts
  <2>4. Waiting(s)' = Waiting(s)
    BY <2>1 DEF Waiting
  <2>5. Tokens(s)' = Tokens(s) - IF InFront(s) THEN 1 ELSE 0
    <3>1. Tokens(s)' = Count(q', s) + OnWay(s)
      BY <2>1 DEF Tokens, Count, Places, OnWay
    <3>2. Count(q', s) = Count(q, s) - IF InFront(s) THEN 1 ELSE 0
      <4>1. CASE q = <<>>
        <5>1. q' = q
          BY <2>1, <4>1 DEF PopFrom
        <5>2. ~ InFront(s)
          BY <4>1 DEF InFront
        <5> HIDE DEF q
        <5> QED
          BY <1>a, <5>1, <5>2 DEF q
      <4>2. CASE q # <<>>
        <5>1. q' = Tail(q) /\ (InFront(s) <=> Head(q) = s)
          BY <2>1, <4>2 DEF PopFrom, InFront
        <5>2. Count(Tail(q), s) = Count(q, s) - IF Head(q) = s THEN 1 ELSE 0
          BY <1>0, <4>2, CountTail
        <5> QED
          BY <5>1, <5>2
      <4> QED
        BY <4>1, <4>2
    <3> HIDE DEF q
    <3> QED
      BY <1>a, <3>1, <3>2 DEF q
  <2>6. Tokens(s) \in Nat /\ Waiting(s) \in Nat
    BY <1>a
  <2>7. Tokens(s) - (IF InFront(s) THEN 1 ELSE 0) <= Waiting(s)
    <3>1. CASE session[t] = s
      <4>1. (InFront(s) /\ Tokens(s) <= Waiting(s) + 1) \/ Tokens(s) <= Waiting(s)
        BY <2>1, <2>3, <3>1 DEF Backed, After
      <4> QED
        BY <2>6, <4>1
    <3>2. CASE session[t] # s
      <4>1. Tokens(s) <= Waiting(s)
        BY <2>2, <2>3, <3>2 DEF Backed
      <4> QED
        BY <2>6, <4>1
    <3> QED
      BY <3>1, <3>2
  <2> HIDE DEF q
  <2> QED
    BY <2>2, <2>4, <2>5, <2>7 DEF Backed
<1>7. CASE NotifyAll
  <2>1. /\ UNCHANGED <<recv_completed_queue, session_notified_queue, session, misread, from, lost>>
        /\ io.step = "notify" /\ io'.step = "read"
        /\ pc' = IF pc[Notifier] = "asleep" THEN [pc EXCEPT ![Notifier] = "woken"] ELSE pc
    BY <1>7 DEF NotifyAll, TypeOKNotify, ring, inFun
  <2>2. \A s \in Sessions : OnWay(s)' = OnWay(s)
    BY <2>1 DEF OnWay
  <2>3. \A t \in Threads : /\ pc'[t] \in Before <=> pc[t] \in Before
                           /\ pc'[t] \in After <=> pc[t] \in After
    BY <1>0, <2>1 DEF Before, After
  <2> QED
    BY <1>1, <2>1, <2>2, <2>3
<1>8. CASE NotifierLock \/ NotifierWait \/ CallNotifiedFun \/ NotifierWakes \/ UNCHANGED notifyVars
  <2>1. UNCHANGED <<recv_completed_queue, session_notified_queue, session, io, misread, from, lost>>
    BY <1>8 DEF NotifierLock, NotifierWait, CallNotifiedFun, NotifierWakes, notifyVars,
                notifyHistory, ring, inFun
  <2>2. \A t \in Threads : /\ pc'[t] \in Before <=> pc[t] \in Before
                           /\ pc'[t] \in After <=> pc[t] \in After
    BY <1>0, <1>8 DEF NotifierLock, NotifierWait, CallNotifiedFun, NotifierWakes, notifyVars, Goto,
                      Before, After
  <2>3. \A s \in Sessions : OnWay(s)' = OnWay(s)
    BY <2>1 DEF OnWay
  <2> QED
    BY <1>1, <2>1, <2>2, <2>3
<1>9. ASSUME NEW t \in Callers,
             CallLogic(t) \/ LockGuard(t) \/ MakeNode(t) \/ UnlockGuard(t)
      PROVE  Accounts'
  <2>1. UNCHANGED <<recv_completed_queue, session_notified_queue, session, io, misread, from, lost>>
    BY <1>9 DEF CallLogic, LockGuard, MakeNode, UnlockGuard, notifyHistory, ring, inFun
  <2>2. \A u \in Threads : /\ pc'[u] \in Before <=> pc[u] \in Before
                           /\ pc'[u] \in After <=> pc[u] \in After
    BY <1>0, <1>9 DEF CallLogic, LockGuard, MakeNode, UnlockGuard, Goto, Before, After
  <2>3. \A s \in Sessions : OnWay(s)' = OnWay(s)
    BY <2>1 DEF OnWay
  <2> QED
    BY <1>1, <2>1, <2>2, <2>3
<1>10. ASSUME NEW t \in Callers, Dereference(t) PROVE Accounts'
  <2>1. /\ t \in Threads /\ pc[t] = "deref" /\ pc' = [pc EXCEPT ![t] = "take"]
        /\ \A u \in Threads : u # t => session'[u] = session[u]
        /\ misread \subseteq misread' /\ (session'[t] # session[t] => session'[t] \in misread')
        /\ UNCHANGED <<recv_completed_queue, session_notified_queue, io, from, lost>>
    BY <1>0, <1>10 DEF Dereference, Goto, ring
  <2> SUFFICES ASSUME NEW s \in Sessions, s \notin misread', \A n \in lost : from[n] # s
               PROVE  Backed(s)'
    BY <2>1 DEF Accounts
  <2>2. Backed(s)
    BY <2>1 DEF Accounts
  <2>3. Tokens(s)' = Tokens(s) /\ Waiting(s)' = Waiting(s) /\ (InFront(s)' <=> InFront(s))
    BY <2>1 DEF Tokens, Waiting, InFront, Count, Places, OnWay
  <2>4. \A u \in Threads :
          /\ pc'[u] \in Before <=> pc[u] \in Before
          /\ pc'[u] \in After <=> pc[u] \in After
          /\ pc[u] \in After => u # t
          /\ session'[u] = s => session[u] = s
    BY <1>0, <2>1 DEF Before, After
  <2> QED
    BY <2>1, <2>2, <2>3, <2>4 DEF Backed
<1> QED
  BY <1>2, <1>3, <1>4, <1>5, <1>6, <1>7, <1>8, <1>9, <1>10 DEF NotifySteps, CallerStep

-----------------------------------------------------------------------------
(* Who is about to look. *)
LEMMA UntoldStep == TypeOKNotify /\ Turns /\ Untold /\ Announced /\ NotifySteps
                      => Untold' /\ Announced'
<1> SUFFICES ASSUME TypeOKNotify, Turns, Untold, Announced, NotifySteps PROVE Untold' /\ Announced'
  OBVIOUS
<1>0. /\ pc \in [Threads -> NotifyLabels] /\ Notifier \in Threads
      /\ \A t \in Callers : t # Notifier
      /\ arrived \in Nat /\ notices \in Nat /\ told \in Nat /\ missed \in BOOLEAN
  BY NotifyAssumption DEF TypeOKNotify, Threads
<1>1. ASSUME NEW s \in Sessions, Complete(s) PROVE Untold' /\ Announced'
  BY <1>0, <1>1 DEF Complete, ring, Untold, Announced
<1>2. CASE Notice
  <2>1. io.step = "notice" /\ io'.step = "notify" /\ notices' = notices + 1 /\ arrived' = arrived
    BY <1>2 DEF Notice, TypeOKNotify
  <2> QED
    BY <1>0, <2>1 DEF Untold, Announced
<1>3. CASE NotifyAll
  <2>1. /\ io.step = "notify" /\ io'.step = "read" /\ UNCHANGED <<notices, arrived>>
        /\ ~ missed' => pc[Notifier] \in {"asleep", "woken", "queue?"}
        /\ pc' = IF pc[Notifier] = "asleep" THEN [pc EXCEPT ![Notifier] = "woken"] ELSE pc
    BY <1>0, <1>3 DEF NotifyAll, TypeOKNotify, ring
  <2> QED
    BY <1>0, <2>1 DEF Untold, Announced
<1>4. CASE NotifierLock
  BY <1>0, <1>4 DEF NotifierLock, Goto, notifyHistory, ring, Untold, Announced
<1>5. CASE NotifierWait \/ NotifierWakes
  BY <1>0, <1>5 DEF NotifierWait, NotifierWakes, Goto, notifyHistory, ring, Untold, Announced
<1>6. CASE CallNotifiedFun
  BY <1>0, <1>6 DEF CallNotifiedFun, Goto, ring, Untold, Announced
<1>7. ASSUME NEW t \in Callers, CallerStep(t) PROVE Untold' /\ Announced'
  <2>1. pc'[Notifier] = pc[Notifier] /\ UNCHANGED <<io, arrived, notices, told, missed>>
    BY <1>0, <1>7 DEF CallerStep, CallLogic, LockGuard, FrontSession, Dereference, TakePackage,
                      MakeNode, PopSession, UnlockGuard, Goto, notifyHistory
  <2>2. session_notified_queue = <<>> => session_notified_queue' = <<>>
    BY <1>7 DEF CallerStep, CallLogic, LockGuard, FrontSession, Dereference, TakePackage,
                MakeNode, PopSession, UnlockGuard, PopFrom, ring
  <2> QED
    BY <2>1, <2>2 DEF Untold, Announced
<1>8. CASE UNCHANGED notifyVars
  BY <1>8 DEF notifyVars, notifyHistory, ring, Untold, Announced
<1> QED
  BY <1>1, <1>2, <1>3, <1>4, <1>5, <1>6, <1>7, <1>8 DEF NotifySteps

-----------------------------------------------------------------------------
(* The nodes of the ring and the pointer to the first session. *)
LEMMA KeptStep ==
  TypeOKNotify /\ Turns /\ Arrivals /\ InHand /\ Kept /\ NotifySteps => Kept'
<1> SUFFICES ASSUME TypeOKNotify, Turns, Arrivals, InHand, Kept, NotifySteps PROVE Kept'
  OBVIOUS
<1> DEFINE q == session_notified_queue
           L == Len(q)
<1>0. /\ q \in Seq(Sessions) /\ L \in Nat /\ L <= Bound /\ L <= notices /\ notices \in Nat
      /\ (q = <<>> <=> L = 0)
      /\ Bound \in Nat /\ Nodes = Bound + 1 /\ Nodes \in Nat \ {0}
      /\ node \in [0 .. Bound -> Sessions] /\ pc \in [Threads -> NotifyLabels]
      /\ session \in [Threads -> Sessions] /\ pointer \in [Threads -> 0 .. Bound]
      /\ logic \in Seq([of : Sessions, package : Packages]) /\ Len(logic) \in Nat
      /\ Callers \subseteq Threads /\ tokenLost \in BOOLEAN
  <2>1. /\ q \in Seq(Sessions) /\ L <= Bound /\ L <= notices /\ notices \in Nat
        /\ node \in [0 .. Bound -> Sessions] /\ pc \in [Threads -> NotifyLabels]
        /\ session \in [Threads -> Sessions] /\ pointer \in [Threads -> 0 .. Bound]
        /\ logic \in Seq([of : Sessions, package : Packages])
        /\ tokenLost \in BOOLEAN
    BY DEF TypeOKNotify, Kept
  <2>2. Bound \in Nat /\ Nodes = Bound + 1 /\ Nodes \in Nat \ {0} /\ Callers \subseteq Threads
    BY NotifyAssumption DEF Nodes, Threads
  <2>3. L \in Nat /\ (q = <<>> <=> L = 0) /\ Len(logic) \in Nat
    BY <2>1, EmptyFacts
  <2> QED
    BY <2>1, <2>2, <2>3
<1>a. \A t \in Threads, u \in Threads :
        pc[t] \in InFun /\ pc[u] \in UsesPointer => t = u
  BY DEF Turns, InFun, Threads, UsesPointer
<1>b. \A i \in 1 .. L : node[(notices - L + (i - 1)) % Nodes] = q[i]
  BY DEF Kept
<1>1. ASSUME UNCHANGED <<ring, notices, tokenLost, misread, logic, from, pointer, session>>,
             \A t \in Threads : pc'[t] \in UsesPointer => pc[t] \in UsesPointer
      PROVE  Kept'
  BY <1>1 DEF Kept, ring, Begin
<1>2. ASSUME NEW s \in Sessions, Complete(s) PROVE Kept'
  <2>1. /\ UNCHANGED <<session_notified_queue, node, notices, tokenLost, misread, logic, pointer,
                       session, pc>>
        /\ from' = [from EXCEPT ![arrived + 1] = s]
    BY <1>2 DEF Complete, ring, inFun
  <2>2. \A j \in 1 .. Len(logic) : from'[logic[j].package] = from[logic[j].package]
    <3>1. \A j \in 1 .. Len(logic) : logic[j].package \in Packages /\ logic[j].package <= arrived
      BY <1>0, LogicType DEF Arrivals
    <3>2. from \in [Packages -> Sessions] /\ arrived \in Nat /\ Packages \subseteq Nat
      BY DEF TypeOKNotify, Packages
    <3> QED
      BY <2>1, <3>1, <3>2
  <2> QED
    BY <2>1, <2>2 DEF Kept, Begin
<1>3. CASE Notice
  <2> DEFINE x == io.of
  <2>1. /\ q' = PushTo(q, x) /\ notices' = notices + 1 /\ x \in Sessions
        /\ node' = [node EXCEPT ![notices % Nodes] = x]
        /\ tokenLost' = (tokenLost \/ IsFull(q))
        /\ UNCHANGED <<misread, logic, from, pointer, session, pc>>
    BY <1>3 DEF Notice, inFun, End, TypeOKNotify
  <2>2. \A k \in Nat : k % Nodes \in 0 .. Bound
    BY <1>0, DivMod
  <2>3. node'[notices % Nodes] = x
    BY <1>0, <2>1, <2>2
  <2>4. \A k \in Nat : k < notices /\ notices < k + Nodes => node'[k % Nodes] = node[k % Nodes]
    <3> SUFFICES ASSUME NEW k \in Nat, k < notices, notices < k + Nodes
                 PROVE  node'[k % Nodes] = node[k % Nodes]
      OBVIOUS
    <3>1. k % Nodes # notices % Nodes
      BY <1>0, Slots
    <3> QED
      BY <1>0, <2>1, <2>2, <3>1
  <2>5. CASE IsFull(q)
    <3>1. q # <<>> /\ q' = Append(Tail(q), x) /\ tokenLost'
      <4>1. q \in Seq(Sessions) /\ x \in Sessions
        BY <1>0, <2>1
      <4> HIDE DEF q, x
      <4>2. q # <<>> /\ PushTo(q, x) = Append(Tail(q), x)
        BY <2>5, <4>1, PushFacts
      <4> QED
        BY <2>1, <2>5, <4>2
    <3>2. /\ Tail(q) \in Seq(Sessions) /\ Len(Tail(q)) = L - 1 /\ L > 0
          /\ \A i \in 1 .. L - 1 : Tail(q)[i] = q[i + 1]
      BY <1>0, <3>1, TailFacts
    <3>3. /\ Len(q') = L /\ q'[L] = x
          /\ \A i \in 1 .. L - 1 : q'[i] = q[i + 1]
      <4>1. \A r \in Seq(Sessions) :
              /\ Len(Append(r, x)) = Len(r) + 1
              /\ \A i \in 1 .. Len(r) : Append(r, x)[i] = r[i]
              /\ Append(r, x)[Len(r) + 1] = x
        BY <2>1, AppendFacts
      <4>2. Len(Tail(q)) + 1 = L
        BY <1>0, <3>2
      <4> HIDE DEF q, x
      <4> QED
        BY <3>1, <3>2, <4>1, <4>2
    <3> HIDE DEF q, x
    <3>4. ASSUME NEW i \in 1 .. L
          PROVE  node'[(notices' - L + (i - 1)) % Nodes] = q'[i]
      <4>1. CASE i = L
        <5>1. notices' - L + (i - 1) = notices
          BY <1>0, <2>1, <4>1
        <5> QED
          BY <2>3, <3>3, <4>1, <5>1
      <4>2. CASE i # L
        <5> DEFINE k == notices - L + i
        <5>1. /\ k \in Nat /\ k < notices /\ notices < k + Nodes
              /\ notices' - L + (i - 1) = k /\ notices - L + ((i + 1) - 1) = k
              /\ i + 1 \in 1 .. L /\ i \in 1 .. L - 1
          BY <1>0, <2>1, <4>2
        <5> HIDE DEF k
        <5>2. node[k % Nodes] = q[i + 1]
          BY <1>b, <5>1
        <5>3. node'[k % Nodes] = node[k % Nodes]
          BY <2>4, <5>1
        <5> QED
          BY <3>3, <5>1, <5>2, <5>3
      <4> QED
        BY <4>1, <4>2
    <3>5. L <= notices'
      BY <1>0, <2>1
    <3> QED
      <4>1. Len(session_notified_queue') <= notices'
        BY ONLY <3>3, <3>5 DEF q
      <4>2. \A i \in 1 .. Len(session_notified_queue') :
              node'[(notices' - Len(session_notified_queue') + (i - 1)) % Nodes]
                = session_notified_queue'[i]
        BY ONLY <3>3, <3>4 DEF q
      <4>3. tokenLost'
        BY ONLY <3>1
      <4> QED
        BY ONLY <4>1, <4>2, <4>3 DEF Kept
  <2>6. CASE ~ IsFull(q)
    <3>1. q' = Append(q, x) /\ (tokenLost' <=> tokenLost)
      <4>1. q \in Seq(Sessions) /\ x \in Sessions
        BY <1>0, <2>1
      <4> HIDE DEF q, x
      <4>2. PushTo(q, x) = Append(q, x)
        BY <2>6, <4>1, PushFacts
      <4>3. q' = Append(q, x)
        BY ONLY <2>1, <4>2
      <4> QED
        BY ONLY <2>1, <2>6, <4>3
    <3>2. /\ Len(q') = L + 1 /\ q'[L + 1] = x
          /\ \A i \in 1 .. L : q'[i] = q[i]
      BY <1>0, <2>1, <3>1, AppendFacts
    <3>3. q # <<>> => q' # <<>> /\ Head(q') = Head(q)
      <4>1. q # <<>> => Head(q) = q[1] /\ 1 \in 1 .. L
        BY <1>0, TailFacts
      <4>2. q' \in Seq(Sessions) /\ Len(q') > 0
        BY <1>0, <2>1, <3>1, <3>2, AppendFacts
      <4>3. Head(q') = q'[1] /\ q' # <<>>
        BY <4>2, TailFacts, EmptyFacts
      <4> QED
        BY <3>2, <4>1, <4>3
    <3> HIDE DEF x
    <3>4. notices' - (L + 1) = notices - L
      BY <1>0, <2>1
    <3>5. ASSUME NEW i \in 1 .. L + 1
          PROVE  node'[(notices - L + (i - 1)) % Nodes] = q'[i]
      <4>1. CASE i = L + 1
        <5>1. notices - L + (i - 1) = notices
          BY <1>0, <4>1
        <5> QED
          BY <2>3, <3>2, <4>1, <5>1
      <4>2. CASE i # L + 1
        <5> DEFINE k == notices - L + (i - 1)
        <5>1. k \in Nat /\ k < notices /\ notices < k + Nodes /\ i \in 1 .. L
          BY <1>0, <4>2
        <5>2. node[k % Nodes] = q[i]
          BY <1>b, <5>1
        <5> HIDE DEF k
        <5>3. node'[k % Nodes] = node[k % Nodes]
          BY <2>4, <5>1
        <5> QED
          BY <3>2, <5>1, <5>2, <5>3 DEF k
      <4> QED
        BY <4>1, <4>2
    <3>6. Begin' = Begin
      <4>1. Begin = (notices - L) % Nodes /\ Begin' = (notices' - Len(q')) % Nodes
        BY DEF Begin, Nodes
      <4> QED
        BY <3>2, <3>4, <4>1
    <3>7. ASSUME ~ tokenLost
          PROVE  /\ \A t \in Threads : pc'[t] \in UsesPointer =>
                      q' # <<>> /\ pointer'[t] = Begin' /\ session'[t] = Head(q')
                 /\ misread' = {}
                 /\ \A j \in 1 .. Len(logic') : logic'[j].of = from'[logic'[j].package]
      BY <2>1, <3>3, <3>6, <3>7 DEF Kept
    <3>8. L + 1 <= notices'
      BY <1>0, <2>1
    <3>9. \A i \in 1 .. Len(q') : node'[(notices' - Len(q') + (i - 1)) % Nodes] = q'[i]
      BY <3>2, <3>4, <3>5
    <3> QED
      BY <3>1, <3>2, <3>7, <3>8, <3>9 DEF Kept
  <2> QED
    BY <2>5, <2>6
<1>4. ASSUME NEW t \in Callers, FrontSession(t) PROVE Kept'
  <2>1. /\ UNCHANGED <<session_notified_queue, node, notices, tokenLost, misread, logic, from>>
        /\ pc[t] = "front" /\ pc' = [pc EXCEPT ![t] = IF q = <<>> THEN "null" ELSE "deref"]
        /\ q # <<>> => /\ pointer' = [pointer EXCEPT ![t] = Begin]
                       /\ session' = [session EXCEPT ![t] = Head(q)]
    BY <1>4 DEF FrontSession, Goto, ring, notifyHistory
  <2>2. \A u \in Threads : pc'[u] \in UsesPointer => u = t /\ q # <<>>
    BY <1>0, <1>a, <2>1 DEF UsesPointer, InFun
  <2>3. q # <<>> => pointer'[t] = Begin /\ session'[t] = Head(q)
    BY <1>0, <2>1
  <2>4. Begin' = Begin
    BY <2>1 DEF Begin
  <2> QED
    BY <2>1, <2>2, <2>3, <2>4 DEF Kept
<1>5. ASSUME NEW t \in Callers, Dereference(t) PROVE Kept'
  <2>1. /\ UNCHANGED <<session_notified_queue, node, notices, tokenLost, pointer, logic, from>>
        /\ t \in Threads /\ pc[t] = "deref" /\ pc' = [pc EXCEPT ![t] = "take"]
        /\ session' = [session EXCEPT ![t] = node[pointer[t]]]
        /\ misread' = misread \cup ({node[pointer[t]]} \ {session[t]})
    BY <1>0, <1>5 DEF Dereference, Goto, ring
  <2>2. ~ tokenLost => node[pointer[t]] = session[t]
    <3> SUFFICES ASSUME ~ tokenLost PROVE node[pointer[t]] = session[t]
      OBVIOUS
    <3>1. q # <<>> /\ pointer[t] = Begin /\ session[t] = Head(q)
      BY <2>1 DEF Kept, UsesPointer
    <3>2. Head(q) = q[1] /\ 1 \in 1 .. L
      BY <1>0, <3>1, TailFacts
    <3>3. notices - L + (1 - 1) = notices - L
      BY <1>0
    <3> QED
      BY <1>b, <3>1, <3>2, <3>3 DEF Begin
  <2>3. ~ tokenLost => session' = session /\ misread' = misread
    BY <1>0, <2>1, <2>2
  <2>4. \A u \in Threads : pc'[u] \in UsesPointer => pc[u] \in UsesPointer
    BY <1>0, <2>1 DEF UsesPointer
  <2>5. Begin' = Begin
    BY <2>1 DEF Begin
  <2> QED
    BY <2>1, <2>3, <2>4, <2>5 DEF Kept
<1>6. ASSUME NEW t \in Callers, MakeNode(t) PROVE Kept'
  <2> DEFINE e == [of |-> node[pointer[t]], package |-> package[t]]
  <2>1. /\ UNCHANGED <<session_notified_queue, node, notices, tokenLost, misread, pointer, session,
                       from>>
        /\ t \in Threads /\ pc[t] = "make" /\ pc' = [pc EXCEPT ![t] = "pop"]
        /\ logic' = Append(logic, e)
    BY <1>0, <1>6 DEF MakeNode, Goto, ring, inFun, notifyHistory
  <2>2. ~ tokenLost => node[pointer[t]] = session[t]
    <3> SUFFICES ASSUME ~ tokenLost PROVE node[pointer[t]] = session[t]
      OBVIOUS
    <3>1. q # <<>> /\ pointer[t] = Begin /\ session[t] = Head(q)
      BY <2>1 DEF Kept, UsesPointer
    <3>2. Head(q) = q[1] /\ 1 \in 1 .. L
      BY <1>0, <3>1, TailFacts
    <3>3. notices - L + (1 - 1) = notices - L
      BY <1>0
    <3> QED
      BY <1>b, <3>1, <3>2, <3>3 DEF Begin
  <2>3. package[t] \in Packages /\ from[package[t]] = session[t]
    BY <2>1 DEF InHand
  <2>4. e \in [of : Sessions, package : Packages] /\ (~ tokenLost => e.of = from[e.package])
    BY <1>0, <2>1, <2>2, <2>3
  <2> HIDE DEF e
  <2>5. /\ Len(logic') = Len(logic) + 1 /\ logic'[Len(logic) + 1] = e
        /\ \A j \in 1 .. Len(logic) : logic'[j] = logic[j]
    BY <1>0, <2>1, <2>4, AppendFacts
  <2>6. \A j \in 1 .. Len(logic') : j \in 1 .. Len(logic) \/ j = Len(logic) + 1
    BY <1>0, <2>5
  <2>7. ~ tokenLost => \A j \in 1 .. Len(logic') : logic'[j].of = from[logic'[j].package]
    BY <2>4, <2>5, <2>6 DEF Kept
  <2>8. \A u \in Threads : pc'[u] \in UsesPointer => pc[u] \in UsesPointer
    BY <1>0, <2>1 DEF UsesPointer
  <2>9. Begin' = Begin
    BY <2>1 DEF Begin
  <2> QED
    BY <2>1, <2>7, <2>8, <2>9 DEF Kept
<1>7. ASSUME NEW t \in Callers, PopSession(t) PROVE Kept'
  <2>1. /\ UNCHANGED <<node, notices, tokenLost, misread, logic, from>>
        /\ t \in Threads /\ pc[t] = "pop" /\ pc' = [pc EXCEPT ![t] = "unlock"]
        /\ q' = PopFrom(q)
    BY <1>0, <1>7 DEF PopSession, Goto, notifyHistory
  <2>2. \A u \in Threads : pc'[u] \notin UsesPointer
    BY <1>0, <1>a, <2>1 DEF UsesPointer, InFun
  <2>3. Len(q') <= notices
        /\ \A i \in 1 .. Len(q') : node[(notices - Len(q') + (i - 1)) % Nodes] = q'[i]
    <3>1. CASE q = <<>>
      <4>1. q' = q
        BY <2>1, <3>1 DEF PopFrom
      <4> QED
        BY <1>0, <1>b, <4>1
    <3>2. CASE q # <<>>
      <4>1. q' = Tail(q)
        BY <2>1, <3>2 DEF PopFrom
      <4>2. Len(q') = L - 1 /\ \A i \in 1 .. L - 1 : q'[i] = q[i + 1]
        BY <1>0, <3>2, <4>1, TailFacts
      <4> HIDE DEF q
      <4>3. ASSUME NEW i \in 1 .. L - 1
            PROVE  node[(notices - (L - 1) + (i - 1)) % Nodes] = q'[i]
        <5>1. /\ notices - (L - 1) + (i - 1) = notices - L + ((i + 1) - 1)
              /\ i + 1 \in 1 .. L
          BY <1>0
        <5> QED
          BY <1>b, <4>2, <5>1
      <4> QED
        BY <1>0, <4>2, <4>3
    <3> QED
      BY <3>1, <3>2
  <2> QED
    BY <2>1, <2>2, <2>3 DEF Kept
<1>8. ASSUME NEW t \in Callers, CallLogic(t) \/ LockGuard(t) \/ TakePackage(t) \/ UnlockGuard(t)
      PROVE  Kept'
  <2>1. UNCHANGED <<ring, notices, tokenLost, misread, logic, from, pointer, session>>
    BY <1>8 DEF CallLogic, LockGuard, TakePackage, UnlockGuard, inFun, notifyHistory
  <2>2. \A u \in Threads : pc'[u] \in UsesPointer => pc[u] \in UsesPointer
    BY <1>0, <1>8 DEF CallLogic, LockGuard, TakePackage, UnlockGuard, Goto, UsesPointer
  <2> QED
    BY <1>1, <2>1, <2>2
<1>9. CASE NotifyAll \/ NotifierLock \/ NotifierWait \/ CallNotifiedFun \/ NotifierWakes
           \/ UNCHANGED notifyVars
  <2>1. UNCHANGED <<ring, notices, tokenLost, misread, logic, from, pointer, session>>
    BY <1>9 DEF NotifyAll, NotifierLock, NotifierWait, CallNotifiedFun, NotifierWakes, notifyVars,
                inFun, notifyHistory
  <2>2. \A u \in Threads : pc'[u] \in UsesPointer => pc[u] \in UsesPointer
    BY <1>0, <1>9 DEF NotifyAll, NotifierLock, NotifierWait, CallNotifiedFun, NotifierWakes,
                      notifyVars, Goto, UsesPointer
  <2> QED
    BY <1>1, <2>1, <2>2
<1> QED
  BY <1>2, <1>3, <1>4, <1>5, <1>6, <1>7, <1>8, <1>9 DEF NotifySteps, CallerStep

-----------------------------------------------------------------------------
(* For any sessions, callers, capacity and number of packages: notifiedFun   *)
(* spins under the mutex only for a session of which a package was given up, *)
(* or taken through a pointer that showed another session before; the pointer *)
(* shows no other session, and none reaches the logic layer with a package   *)
(* that is not its own, unless the session queue has overflowed; the logic   *)
(* layer has each session's packages in order; and the notified thread       *)
(* sleeps over a session or locks itself out only in the ways named.         *)
THEOREM NotifyCorrect == SpecNotify => []NotifyInv
<1>1. NotifierInv /\ [NextNotify]_notifyVars => NotifierInv'
  <2> SUFFICES ASSUME NotifierInv, [NextNotify]_notifyVars PROVE NotifierInv'
    OBVIOUS
  <2>1. /\ TypeOKNotify /\ Turns /\ Arrivals /\ InHand /\ Accounts /\ Kept /\ Untold /\ Announced
        /\ NotifySteps
    BY StepsLeft DEF NotifierInv
  <2> QED
    BY <2>1, NotifyTypes, TurnsStep, ArrivalsStep, InHandStep, AccountsStep, KeptStep, UntoldStep
       DEF NotifierInv
<1> QED
  BY <1>1, InitNotifier, InvNotify, PTL DEF SpecNotify
=============================================================================
