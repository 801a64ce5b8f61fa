-------------------------- MODULE MAsyncSend_proofs --------------------------
(***************************************************************************)
(* Proofs about MAsyncSend, for any callers, any size of the queue and of  *)
(* the packages and any number of them: one write at a time, a flag that   *)
(* tells the truth, and whole packages in their order on the wire.         *)
(***************************************************************************)
EXTENDS MAsyncSend, SequenceTheorems, TLAPS

-----------------------------------------------------------------------------
(* Sequences.                                                              *)
LEMMA AppendFacts ==
  ASSUME NEW S, NEW s \in Seq(S), NEW e \in S
  PROVE  /\ Append(s, e) \in Seq(S)
         /\ Append(s, e) # <<>>
         /\ Len(Append(s, e)) = Len(s) + 1
         /\ \A i \in 1 .. Len(s) : Append(s, e)[i] = s[i]
         /\ Append(s, e)[Len(s) + 1] = e
  OBVIOUS

LEMMA TailFacts ==
  ASSUME NEW S, NEW s \in Seq(S), s # <<>>
  PROVE  /\ Tail(s) \in Seq(S)
         /\ Len(Tail(s)) = Len(s) - 1
         /\ \A i \in 1 .. Len(s) - 1 : Tail(s)[i] = s[i + 1]
         /\ Head(s) = s[1]
         /\ Head(s) \in S
         /\ Len(s) > 0
  OBVIOUS

LEMMA AppendSome ==
  ASSUME NEW S, NEW s \in Seq(S), NEW e
  PROVE  Append(s, e) # <<>> /\ Len(Append(s, e)) = Len(s) + 1
<1>1. s \in Seq(S \cup {e})
  BY SeqMonotonic
<1> QED
  BY <1>1, AppendFacts

LEMMA LenFacts ==
  ASSUME NEW S, NEW s \in Seq(S)
  PROVE  /\ Len(s) \in Nat
         /\ s = <<>> <=> Len(s) = 0
         /\ \A i \in 1 .. Len(s) : s[i] \in S
  OBVIOUS

-----------------------------------------------------------------------------
(* The inductive invariant.                                                *)
Quiet == {"idle", "chunk", "pending?", "clear"}
Writes == [package : Packages, from : 0 .. PackageSize - 1]
Bytes == Packages \X (1 .. PackageSize)

(* What the types rest on: a split that is under way has a chunk to push,    *)
(* and whoever uses send_tmp_buff has filled it.  The steps of the calls are *)
(* the callers'.                                                             *)
Shape ==
  /\ pc[Io] \notin {"chunk", "pending?"}
  /\ \A u \in Users : pc[u] = "chunk" => chunks[u] > 0
  /\ \/ send_tmp_buff # 0
     \/ ops = <<>> /\ posted = <<>> /\ \A a \in Agents : pc[a] \notin {"pop", "start"}

(* Without an overlap one package is on its way: it is a write of the        *)
(* socket, a completion, or an agent that starts or handles one; and that    *)
(* agent finds in the queue what it goes to fetch.  Callers may push, and be *)
(* told to wait, beside it.                                                  *)
Single ==
  /\ Len(ops) + Len(posted) <= 1
  /\ ops # <<>> \/ posted # <<>> => \A a \in Agents : pc[a] \in Quiet
  /\ \A a, b \in Agents : a = b \/ pc[a] \in Quiet \/ pc[b] \in Quiet
  /\ \A a \in Agents : pc[a] # "null"
  /\ \A a \in Agents : pc[a] \in {"set", "front"} => send_queue # <<>>

SInv == TypeOK /\ Shape /\ (overlap \/ Single) /\ PendingGoes

-----------------------------------------------------------------------------
(* The wire.                                                               *)
InOrder(w) ==
  \A i \in 1 .. Len(w) :
    IF w[i][2] = 1
    THEN i > 1 => w[i - 1][1] < w[i][1] /\ w[i - 1][2] = PackageSize
    ELSE i > 1 /\ w[i - 1] = <<w[i][1], w[i][2] - 1>>

(* The bytes f + 1 .. f + k of package n. *)
Piece(n, f, k) == [b \in 1 .. k |-> <<n, f + b>>]

(* A wire that ends where the last package older than n does; one that ends  *)
(* with byte f of package n, f = 0 standing for none of it yet.              *)
EndsBefore(w, n) == w = <<>> \/ (w[Len(w)][2] = PackageSize /\ w[Len(w)][1] < n)
EndsAt(w, n, f) ==
  IF f = 0 THEN EndsBefore(w, n) ELSE w # <<>> /\ w[Len(w)] = <<n, f>>

LEMMA PieceFacts ==
  ASSUME NEW n \in Packages, NEW f \in 0 .. PackageSize - 1,
         NEW k \in 1 .. PackageSize - f
  PROVE  /\ Piece(n, f, k) \in Seq(Bytes)
         /\ Len(Piece(n, f, k)) = k
         /\ \A b \in 1 .. k : Piece(n, f, k)[b] = <<n, f + b>>
<1>1. PackageSize \in Nat /\ k \in Nat /\ f \in Nat
  BY SendAssumption
<1>2. ASSUME NEW b \in 1 .. k PROVE <<n, f + b>> \in Bytes
  <2>1. f + b \in 1 .. PackageSize
    BY <1>1
  <2> QED
    BY <2>1 DEF Bytes
<1>3. Piece(n, f, k) \in [1 .. k -> Bytes]
  BY <1>2 DEF Piece
<1>4. Piece(n, f, k) \in Seq(Bytes)
  BY <1>1, <1>3, SeqDef
<1>5. Len(Piece(n, f, k)) = k
  BY <1>1, <1>3, <1>4, LenProperties
<1> QED
  BY <1>4, <1>5 DEF Piece

LEMMA WireGrows ==
  ASSUME NEW w \in Seq(Bytes), NEW n \in Packages, NEW f \in 0 .. PackageSize - 1,
         NEW k \in 1 .. PackageSize - f
  PROVE  LET x == w \o Piece(n, f, k) IN
         /\ x \in Seq(Bytes)
         /\ InOrder(w) /\ EndsAt(w, n, f) => InOrder(x) /\ EndsAt(x, n, f + k)
<1> DEFINE p == Piece(n, f, k)
<1> DEFINE x == w \o p
<1>0. PackageSize \in Nat /\ k \in Nat /\ f \in Nat /\ k > 0 /\ f + k <= PackageSize
      /\ PackageSize > 0
  BY SendAssumption
<1>1. p \in Seq(Bytes) /\ Len(p) = k /\ \A b \in 1 .. k : p[b] = <<n, f + b>>
  BY PieceFacts
<1>2. Len(w) \in Nat
  OBVIOUS
<1> HIDE DEF p
<1>3. /\ x \in Seq(Bytes)
      /\ Len(x) = Len(w) + k
      /\ \A i \in 1 .. Len(w) + k : x[i] = IF i <= Len(w) THEN w[i] ELSE p[i - Len(w)]
  BY <1>1, ConcatProperties
<1> HIDE DEF x
<1>4. \A i \in 1 .. Len(w) : x[i] = w[i]
  BY <1>0, <1>2, <1>3
<1>5. \A b \in 1 .. k : x[Len(w) + b] = <<n, f + b>>
  <2> TAKE b \in 1 .. k
  <2>1. Len(w) + b \in 1 .. Len(w) + k /\ ~ (Len(w) + b <= Len(w)) /\ (Len(w) + b) - Len(w) = b
    BY <1>0, <1>2
  <2> QED
    BY <1>1, <1>3, <2>1
<1>6. ASSUME InOrder(w), EndsAt(w, n, f) PROVE InOrder(x)
  <2> SUFFICES ASSUME NEW i \in 1 .. Len(x)
               PROVE  IF x[i][2] = 1
                      THEN i > 1 => x[i - 1][1] < x[i][1] /\ x[i - 1][2] = PackageSize
                      ELSE i > 1 /\ x[i - 1] = <<x[i][1], x[i][2] - 1>>
    BY Zenon DEF InOrder
  <2>1. CASE i <= Len(w)
    <3>1. i \in 1 .. Len(w) /\ (i > 1 => i - 1 \in 1 .. Len(w))
      BY <1>2, <1>3, <2>1
    <3>2. x[i] = w[i] /\ (i > 1 => x[i - 1] = w[i - 1])
      BY <1>4, <3>1
    <3> QED
      BY <1>6, <3>1, <3>2 DEF InOrder
  <2>2. CASE i = Len(w) + 1
    <3>1. x[i] = <<n, f + 1>>
      BY <1>0, <1>5, <2>2
    <3>2. CASE w = <<>>
      <4>1. f = 0 /\ i = 1
        BY <1>2, <1>6, <2>2, <3>2 DEF EndsAt
      <4> QED
        BY <3>1, <4>1
    <3>3. CASE w # <<>>
      <4>1. i > 1 /\ x[i - 1] = w[Len(w)]
        BY <1>2, <1>4, <2>2, <3>3
      <4>2. CASE f = 0
        <5>1. w[Len(w)][2] = PackageSize /\ w[Len(w)][1] < n
          BY <1>6, <3>3, <4>2 DEF EndsAt, EndsBefore
        <5> QED
          BY <3>1, <4>1, <4>2, <5>1
      <4>3. CASE f # 0
        <5>1. w[Len(w)] = <<n, f>>
          BY <1>6, <4>3 DEF EndsAt
        <5> QED
          BY <1>0, <3>1, <4>1, <4>3, <5>1
      <4> QED
        BY <4>2, <4>3
    <3> QED
      BY <3>2, <3>3
  <2>3. CASE i > Len(w) + 1
    <3>1. /\ i - Len(w) \in 1 .. k /\ i - Len(w) - 1 \in 1 .. k
          /\ i = Len(w) + (i - Len(w)) /\ i - 1 = Len(w) + (i - Len(w) - 1)
          /\ i > 1
      BY <1>0, <1>2, <1>3, <2>3
    <3>2. x[i] = <<n, f + (i - Len(w))>> /\ x[i - 1] = <<n, f + (i - Len(w) - 1)>>
      BY <1>5, <3>1
    <3>3. f + (i - Len(w)) # 1 /\ f + (i - Len(w)) - 1 = f + (i - Len(w) - 1)
      BY <1>0, <1>2, <2>3, <3>1
    <3> QED
      BY <3>1, <3>2, <3>3
  <2> QED
    BY <1>2, <1>3, <2>1, <2>2, <2>3
<1>7. EndsAt(x, n, f + k)
  <2>1. k \in 1 .. k /\ Len(x) > 0
    BY <1>0, <1>2, <1>3
  <2>2. x[Len(x)] = <<n, f + k>>
    BY <1>3, <1>5, <2>1
  <2>3. x # <<>>
    BY <1>3, <2>1
  <2> QED
    BY <1>0, <2>2, <2>3 DEF EndsAt
<1> QED
  BY <1>3, <1>6, <1>7 DEF x, p
-----------------------------------------------------------------------------
(* Types.                                                                  *)
LEMMA PushFacts ==
  ASSUME TypeOK, Push
  PROVE  /\ send_queue' \in Seq(Packages) /\ send_queue' # <<>>
         /\ Len(send_queue') <= Bound
         /\ made' = made + 1 /\ made' \in 0 .. MaxPackages /\ made' \in Packages
         /\ dropped' \subseteq Packages
<1>1. /\ send_queue \in Seq(Packages) /\ Len(send_queue) <= Bound /\ dropped \subseteq Packages
      /\ made \in 0 .. MaxPackages /\ made < MaxPackages /\ made' = made + 1
      /\ Bound \in Nat /\ Bound > 0 /\ MaxPackages \in Nat /\ Len(send_queue) \in Nat
  BY SendAssumption DEF TypeOK, Push
<1>2. made + 1 \in Packages /\ made + 1 \in 0 .. MaxPackages
  BY <1>1 DEF Packages
<1>3. CASE /\ Len(send_queue) < Bound
           /\ send_queue' = Append(send_queue, made + 1)
           /\ UNCHANGED dropped
  BY <1>1, <1>2, <1>3, AppendFacts
<1>4. CASE /\ Len(send_queue) = Bound
           /\ send_queue' = Append(Tail(send_queue), made + 1)
           /\ dropped' = dropped \cup {Head(send_queue)}
  <2>1. /\ Tail(send_queue) \in Seq(Packages) /\ Len(Tail(send_queue)) = Bound - 1
        /\ Head(send_queue) \in Packages
    BY <1>1, <1>4, TailFacts, LenFacts
  <2> QED
    BY <1>1, <1>2, <1>4, <2>1, AppendFacts
<1> QED
  BY <1>1, <1>2, <1>3, <1>4 DEF Push

LEMMA TypesInit == Init => TypeOK /\ Shape
<1> SUFFICES ASSUME Init PROVE TypeOK /\ Shape
  OBVIOUS
<1>1. /\ Bound \in Nat /\ PackageSize \in Nat /\ PackageSize > 0 /\ MaxChunks \in Nat
      /\ MaxPackages \in Nat /\ Io \in Agents /\ Users \subseteq Agents
  BY SendAssumption DEF Agents
<1>2. /\ send_queue \in Seq(Packages) /\ Len(send_queue) = 0
      /\ ops \in Seq([package : Packages, from : 0 .. PackageSize - 1])
      /\ posted \in Seq(0 .. PackageSize) /\ wire \in Seq(Packages \X (1 .. PackageSize))
  BY DEF Init
<1>3. cur_size \in [Packages -> 0 .. PackageSize - 1] /\ chunks \in [Users -> 0 .. MaxChunks]
  BY <1>1 DEF Init
<1>4. pc \in [Agents -> Labels] /\ \A a \in Agents : pc[a] = "idle"
  BY DEF Init, Labels
<1>5. TypeOK
  <2>1. /\ send_tmp_buff \in 0 .. MaxPackages /\ made \in 0 .. MaxPackages
        /\ Len(send_queue) <= Bound
    BY <1>1, <1>2 DEF Init
  <2>2. /\ dropped \subseteq Packages /\ asked \subseteq Packages
        /\ stranded \subseteq 0 .. MaxPackages /\ mine \in [Users -> 0 .. MaxPackages]
    BY <1>1 DEF Init
  <2>3. /\ send_pending \in BOOLEAN /\ inSessions \in BOOLEAN /\ broken \in BOOLEAN
        /\ overlap \in BOOLEAN
    BY DEF Init
  <2> QED
    BY <1>2, <1>3, <1>4, <2>1, <2>2, <2>3 DEF TypeOK
<1>6. Shape
  BY <1>1, <1>4 DEF Init, Shape
<1> QED
  BY <1>5, <1>6

(* Whatever the agents do, however their calls overlap, the state keeps its  *)
(* types.                                                                    *)
LEMMA TypesStep == TypeOK /\ Shape /\ [Next]_vars => TypeOK' /\ Shape'
<1> SUFFICES ASSUME TypeOK, Shape, [Next]_vars PROVE TypeOK' /\ Shape'
  OBVIOUS
<1>0. /\ Bound \in Nat /\ PackageSize \in Nat /\ PackageSize > 0 /\ MaxChunks \in Nat
      /\ MaxPackages \in Nat /\ Io \in Agents /\ Users \subseteq Agents /\ Io \notin Users
  BY SendAssumption DEF Agents
<1>t. /\ send_queue \in Seq(Packages) /\ Len(send_queue) <= Bound
      /\ send_tmp_buff \in 0 .. MaxPackages
      /\ cur_size \in [Packages -> 0 .. PackageSize - 1]
      /\ pc \in [Agents -> Labels]
      /\ chunks \in [Users -> 0 .. MaxChunks]
      /\ ops \in Seq(Writes) /\ posted \in Seq(0 .. PackageSize) /\ wire \in Seq(Bytes)
      /\ made \in 0 .. MaxPackages /\ dropped \subseteq Packages /\ asked \subseteq Packages
      /\ mine \in [Users -> 0 .. MaxPackages] /\ stranded \subseteq 0 .. MaxPackages
      /\ overlap \in BOOLEAN
  BY DEF TypeOK, Writes, Bytes
<1>1. ASSUME NEW u \in Users, WritePackage(u) PROVE TypeOK' /\ Shape'
  <2>1. Push /\ pc' = [pc EXCEPT ![u] = "pending?"] /\ asked' = asked \cup {made'}
    BY <1>1 DEF WritePackage, Goto, Push
  <2>2. asked' \subseteq Packages
    BY <1>t, <2>1, PushFacts
  <2>3. pc' \in [Agents -> Labels]
    BY <1>0, <1>t, <2>1 DEF Labels
  <2>4. mine' \in [Users -> 0 .. MaxPackages]
    <3>1. mine' = [mine EXCEPT ![u] = made'] /\ made' \in 0 .. MaxPackages
      BY <1>1, <2>1, PushFacts DEF WritePackage, Push
    <3> QED
      BY <1>t, <3>1
  <2>5. UNCHANGED <<send_tmp_buff, cur_size, send_pending, inSessions, chunks, socketVars,
                    stranded, overlap>>
    BY <1>1 DEF WritePackage
  <2>6. TypeOK'
    BY <2>1, <2>2, <2>3, <2>4, <2>5, PushFacts DEF TypeOK, socketVars
  <2>7. Shape'
    BY <1>0, <1>t, <2>1, <2>5 DEF Shape, socketVars
  <2> QED
    BY <2>6, <2>7
<1>2. ASSUME NEW u \in Users, CheckPending(u) PROVE TypeOK' /\ Shape'
  <2>1. PICK l \in {"idle", "front"} : pc' = [pc EXCEPT ![u] = l]
    BY <1>2 DEF CheckPending, AnswerPending, GoOn, Goto
  <2>2. pc' \in [Agents -> Labels]
    BY <1>0, <1>t, <2>1 DEF Labels
  <2>3. /\ mine' = [mine EXCEPT ![u] = 0]
        /\ UNCHANGED <<send_queue, send_tmp_buff, cur_size, send_pending, inSessions,
                       chunks, socketVars, made, dropped, asked>>
    BY <1>2 DEF CheckPending, AnswerPending, GoOn
  <2>4. mine' \in [Users -> 0 .. MaxPackages]
    BY <1>0, <1>t, <2>3
  <2>5. stranded' \subseteq 0 .. MaxPackages
    <3>1. mine[u] \in 0 .. MaxPackages
      BY <1>t
    <3>2. stranded' \in {stranded, stranded \cup {mine[u]}, {}}
      BY <1>2 DEF CheckPending, AnswerPending, GoOn
    <3> QED
      BY <1>t, <3>1, <3>2
  <2>6. overlap' \in BOOLEAN
    BY <1>2, <1>t DEF CheckPending, AnswerPending, GoOn
  <2>7. TypeOK'
    BY <2>2, <2>3, <2>4, <2>5, <2>6 DEF TypeOK, socketVars
  <2>8. Shape'
    BY <1>0, <1>t, <2>1, <2>3 DEF Shape, socketVars
  <2> QED
    BY <2>7, <2>8
<1>3. ASSUME NEW u \in Users, PushChunk(u) PROVE TypeOK' /\ Shape'
  <2>1. Push /\ pc[u] = "chunk" /\ chunks[u] > 0 /\ chunks[u] \in 0 .. MaxChunks
    BY <1>3, <1>t DEF PushChunk, Goto, Shape
  <2>2. /\ pc' = [pc EXCEPT ![u] = IF chunks[u] = 1 THEN "idle" ELSE "chunk"]
        /\ chunks' = [chunks EXCEPT ![u] = @ - 1]
        /\ UNCHANGED <<send_tmp_buff, cur_size, send_pending, inSessions, asked, mine,
                       stranded, overlap, socketVars>>
    BY <1>3 DEF PushChunk, Goto
  <2>3. pc' \in [Agents -> Labels]
    BY <1>0, <1>t, <2>2 DEF Labels
  <2>4. chunks[u] - 1 \in 0 .. MaxChunks
    BY <1>0, <2>1
  <2>5. chunks' \in [Users -> 0 .. MaxChunks]
    BY <1>t, <2>2, <2>4
  <2>6. TypeOK'
    BY <2>1, <2>2, <2>3, <2>5, PushFacts DEF TypeOK, socketVars
  <2>7. Shape'
    BY <1>0, <1>t, <2>1, <2>2 DEF Shape, socketVars
  <2> QED
    BY <2>6, <2>7
<1>4. ASSUME NEW u \in Users, NEW k \in 1 .. MaxChunks, SplitSendPackage(u, k)
      PROVE  TypeOK' /\ Shape'
  <2>1. pc' \in [Agents -> Labels] /\ chunks' \in [Users -> 0 .. MaxChunks]
    BY <1>0, <1>4, <1>t DEF SplitSendPackage, Goto, Labels
  <2>2. TypeOK'
    BY <1>4, <2>1 DEF SplitSendPackage, TypeOK, socketVars, historyVars
  <2>3. Shape'
    BY <1>0, <1>4, <1>t DEF SplitSendPackage, Goto, Shape, socketVars
  <2> QED
    BY <2>2, <2>3
<1>5. ASSUME NEW a \in Agents, TakeFront(a) PROVE TypeOK' /\ Shape'
  <2>1. pc' \in [Agents -> Labels]
    BY <1>5, <1>t DEF TakeFront, Goto, Labels
  <2>2. send_tmp_buff' \in 0 .. MaxPackages
        /\ (send_queue = <<>> => send_tmp_buff' = send_tmp_buff)
        /\ (send_queue # <<>> => send_tmp_buff' # 0)
    <3>1. send_queue # <<>> => Head(send_queue) \in Packages
      BY <1>t, TailFacts
    <3> QED
      BY <1>0, <1>5, <1>t, <3>1 DEF TakeFront, Packages
  <2>3. TypeOK'
    BY <1>5, <2>1, <2>2 DEF TakeFront, TypeOK, socketVars, historyVars
  <2>4. Shape'
    BY <1>0, <1>5, <1>t, <2>2 DEF TakeFront, Goto, Shape, socketVars
  <2> QED
    BY <2>3, <2>4
<1>6. ASSUME NEW a \in Agents, PopFront(a) PROVE TypeOK' /\ Shape'
  <2>1. pc' \in [Agents -> Labels]
    BY <1>6, <1>t DEF PopFront, Goto, Labels
  <2>2. send_queue' \in Seq(Packages) /\ Len(send_queue') <= Bound /\ dropped' \subseteq Packages
    <3>1. CASE send_queue = <<>>
      BY <1>0, <1>6, <1>t, <3>1 DEF PopFront
    <3>2. CASE send_queue # <<>>
      <4>1. /\ Tail(send_queue) \in Seq(Packages) /\ Head(send_queue) \in Packages
            /\ Len(Tail(send_queue)) = Len(send_queue) - 1 /\ Len(send_queue) \in Nat
        BY <1>t, <3>2, TailFacts, LenFacts
      <4> QED
        BY <1>0, <1>6, <1>t, <3>2, <4>1 DEF PopFront
    <3> QED
      BY <3>1, <3>2
  <2>3. TypeOK'
    BY <1>6, <2>1, <2>2 DEF PopFront, TypeOK, socketVars
  <2>4. Shape'
    BY <1>0, <1>6, <1>t DEF PopFront, Goto, Shape, socketVars
  <2> QED
    BY <2>3, <2>4
<1>7. ASSUME NEW a \in Agents, StartWrite(a) PROVE TypeOK' /\ Shape'
  <2>1. pc' \in [Agents -> Labels]
    BY <1>7, <1>t DEF StartWrite, Goto, Labels
  <2>2. send_tmp_buff # 0
    BY <1>7 DEF StartWrite, Goto, Shape
  <2>3. [package |-> send_tmp_buff, from |-> 0] \in Writes
    BY <1>0, <1>t, <2>2 DEF Writes, Packages
  <2>4. ops' \in Seq(Writes)
    BY <1>7, <1>t, <2>3, AppendFacts DEF StartWrite
  <2>5. TypeOK'
    BY <1>7, <2>1, <2>4 DEF StartWrite, TypeOK, historyVars, Writes
  <2>6. Shape'
    BY <1>0, <1>7, <1>t, <2>2 DEF StartWrite, Goto, Shape
  <2> QED
    BY <2>5, <2>6
<1>8. ASSUME Transfer PROVE TypeOK' /\ Shape'
  <2>1. ops # <<>> /\ Head(ops) \in Writes /\ Tail(ops) \in Seq(Writes) /\ ops' = Tail(ops)
    BY <1>8, <1>t, TailFacts DEF Transfer
  <2>2. Head(ops).package \in Packages /\ Head(ops).from \in 0 .. PackageSize - 1
    BY <2>1 DEF Writes
  <2>3. PICK k \in 1 .. PackageSize - Head(ops).from :
              /\ wire' = wire \o Piece(Head(ops).package, Head(ops).from, k)
              /\ posted' = Append(posted, k)
    BY <1>8 DEF Transfer, Piece
  <2>4. k \in 0 .. PackageSize
    BY <1>0, <2>2
  <2>5. wire' \in Seq(Bytes)
    BY <1>t, <2>2, <2>3, WireGrows
  <2>6. posted' \in Seq(0 .. PackageSize)
    BY <1>t, <2>3, <2>4, AppendFacts
  <2>7. TypeOK'
    BY <1>8, <2>1, <2>5, <2>6 DEF Transfer, TypeOK, historyVars, Writes, Bytes
  <2>8. Shape'
    BY <1>8, <2>1 DEF Transfer, Shape
  <2> QED
    BY <2>7, <2>8
<1>9. ASSUME Break PROVE TypeOK' /\ Shape'
  BY <1>9 DEF Break, TypeOK, Shape, historyVars
<1>10. ASSUME Fail PROVE TypeOK' /\ Shape'
  <2>1. ops # <<>> /\ Tail(ops) \in Seq(Writes) /\ ops' = Tail(ops)
    BY <1>10, <1>t, TailFacts DEF Fail
  <2>2. posted' \in Seq(0 .. PackageSize)
    <3>1. 0 \in 0 .. PackageSize
      BY <1>0
    <3> QED
      BY <1>10, <1>t, <3>1, AppendFacts DEF Fail
  <2>3. TypeOK'
    BY <1>10, <2>1, <2>2 DEF Fail, TypeOK, historyVars, Writes
  <2>4. Shape'
    BY <1>10, <2>1 DEF Fail, Shape
  <2> QED
    BY <2>3, <2>4
<1>p. ASSUME posted # <<>>
      PROVE  /\ Tail(posted) \in Seq(0 .. PackageSize) /\ Head(posted) \in 0 .. PackageSize
             /\ send_tmp_buff \in Packages /\ cur_size[send_tmp_buff] \in 0 .. PackageSize - 1
             /\ Tail(posted) = <<>> \/ posted # <<>>
  BY <1>0, <1>p, <1>t, TailFacts DEF Shape, Packages
<1>11. ASSUME HandleError PROVE TypeOK' /\ Shape'
  <2>1. posted # <<>> /\ posted' = Tail(posted)
    BY <1>11 DEF HandleError
  <2>2. TypeOK'
    BY <1>11, <1>p, <2>1 DEF HandleError, TypeOK, historyVars
  <2>3. Shape'
    BY <1>11, <2>1 DEF HandleError, Shape
  <2> QED
    BY <2>2, <2>3
<1>12. ASSUME HandleRest PROVE TypeOK' /\ Shape'
  <2>1. /\ posted # <<>> /\ posted' = Tail(posted)
        /\ ~ (cur_size[send_tmp_buff] + Head(posted) >= PackageSize)
        /\ cur_size' = [cur_size EXCEPT ![send_tmp_buff] = @ + Head(posted)]
        /\ ops' = Append(ops, [package |-> send_tmp_buff,
                               from |-> cur_size[send_tmp_buff] + Head(posted)])
    BY <1>12 DEF HandleRest, Written
  <2>2. cur_size[send_tmp_buff] + Head(posted) \in 0 .. PackageSize - 1
    BY <1>0, <1>p, <2>1
  <2>3. cur_size' \in [Packages -> 0 .. PackageSize - 1]
    BY <1>t, <2>1, <2>2
  <2>4. [package |-> send_tmp_buff, from |-> cur_size[send_tmp_buff] + Head(posted)] \in Writes
    BY <1>p, <2>1, <2>2 DEF Writes
  <2>5. ops' \in Seq(Writes)
    BY <1>t, <2>1, <2>4, AppendFacts
  <2>6. TypeOK'
    BY <1>12, <1>p, <2>1, <2>3, <2>5 DEF HandleRest, TypeOK, historyVars, Writes
  <2>7. Shape'
    BY <1>12, <2>1 DEF HandleRest, Shape
  <2> QED
    BY <2>6, <2>7
<1>13. ASSUME HandleWritten PROVE TypeOK' /\ Shape'
  <2>1. posted # <<>> /\ posted' = Tail(posted) /\ pc' = [pc EXCEPT ![Io] = "empty?"]
    BY <1>13 DEF HandleWritten, Goto
  <2>2. pc' \in [Agents -> Labels]
    BY <1>0, <1>t, <2>1 DEF Labels
  <2>3. TypeOK'
    BY <1>13, <1>p, <2>1, <2>2 DEF HandleWritten, TypeOK, historyVars
  <2>4. Shape'
    BY <1>0, <1>13, <1>t, <2>1 DEF HandleWritten, Shape
  <2> QED
    BY <2>3, <2>4
<1>14. ASSUME CheckQueue \/ ClearPending \/ SetPending PROVE TypeOK' /\ Shape'
  <2>1. pc' \in [Agents -> Labels] /\ send_pending' \in BOOLEAN
    BY <1>0, <1>14, <1>t DEF CheckQueue, ClearPending, SetPending, Goto, Labels, TypeOK
  <2>2. TypeOK'
    BY <1>14, <2>1
    DEF CheckQueue, ClearPending, SetPending, TypeOK, socketVars, historyVars
  <2>3. Shape'
    BY <1>0, <1>14, <1>t
    DEF CheckQueue, ClearPending, SetPending, Goto, Shape, socketVars
  <2> QED
    BY <2>2, <2>3
<1>15. ASSUME UNCHANGED vars PROVE TypeOK' /\ Shape'
  BY <1>15 DEF vars, TypeOK, Shape, socketVars, historyVars
<1> QED
  BY <1>0, <1>1, <1>2, <1>3, <1>4, <1>5, <1>6, <1>7, <1>8, <1>9, <1>10, <1>11, <1>12,
     <1>13, <1>14, <1>15
  DEF Next, Calling, Starting, Handling

-----------------------------------------------------------------------------
(* One package on its way.                                                 *)
LEMMA SingleInit == Init => Single /\ PendingGoes
<1> SUFFICES ASSUME Init PROVE Single /\ PendingGoes
  OBVIOUS
<1>1. /\ ops = <<>> /\ posted = <<>> /\ ~ send_pending
      /\ \A a \in Agents : pc[a] = "idle"
  BY DEF Init
<1> QED
  BY <1>1 DEF Single, PendingGoes, Quiet

LEMMA NotYet == [Next]_vars /\ ~ overlap' => ~ overlap
  BY DEF vars, Next, Calling, Starting, Handling, WritePackage, CheckPending, AnswerPending,
         GoOn, PushChunk,
         SplitSendPackage, TakeFront, PopFront, StartWrite, Transfer, Break, Fail,
         HandleError, HandleRest, HandleWritten, CheckQueue, ClearPending, SetPending,
         historyVars

LEMMA SingleStep ==
  TypeOK /\ Shape /\ (overlap \/ Single) /\ [Next]_vars => (overlap \/ Single)'
<1> SUFFICES ASSUME TypeOK, Shape, overlap \/ Single, [Next]_vars, ~ overlap' PROVE Single'
  OBVIOUS
<1>0. Io \in Agents /\ Users \subseteq Agents /\ Io \notin Users
  BY SendAssumption DEF Agents
<1>t. /\ send_queue \in Seq(Packages) /\ pc \in [Agents -> Labels]
      /\ ops \in Seq(Writes) /\ posted \in Seq(0 .. PackageSize)
      /\ Len(ops) \in Nat /\ Len(posted) \in Nat
      /\ (ops = <<>> <=> Len(ops) = 0) /\ (posted = <<>> <=> Len(posted) = 0)
  BY LenFacts DEF TypeOK, Writes
<1>i. Single
  BY NotYet
<1>n. /\ Len(ops) > 0 => Len(ops) = 1 /\ Len(posted) = 0
      /\ Len(posted) > 0 => Len(posted) = 1 /\ Len(ops) = 0
  <2>1. Len(ops) + Len(posted) <= 1
    BY <1>i DEF Single
  <2> DEFINE m == Len(ops)
  <2> DEFINE n == Len(posted)
  <2>2. m \in Nat /\ n \in Nat /\ m + n <= 1
    BY <1>t, <2>1
  <2> HIDE DEF m, n
  <2>3. /\ m > 0 => m = 1 /\ n = 0
        /\ n > 0 => n = 1 /\ m = 0
    BY <2>2
  <2> QED
    BY <2>3 DEF m, n
<1>m. /\ ops # <<>> => Len(ops) > 0
      /\ posted # <<>> => Len(posted) > 0
  BY <1>t
<1>1. ASSUME NEW u \in Users, WritePackage(u) PROVE Single'
  <2>1. send_queue' # <<>> /\ UNCHANGED <<ops, posted>>
    BY <1>1, PushFacts DEF WritePackage, socketVars
  <2>2. pc[u] \in Quiet /\ pc'[u] \in Quiet /\ \A a \in Agents : a # u => pc'[a] = pc[a]
    BY <1>0, <1>1, <1>t DEF WritePackage, Goto, Quiet
  <2> QED
    BY <1>0, <1>i, <2>1, <2>2 DEF Single, Quiet
<1>2. ASSUME NEW u \in Users, CheckPending(u) PROVE Single'
  <2>1. UNCHANGED <<send_queue, ops, posted>>
    BY <1>2 DEF CheckPending, AnswerPending, GoOn, socketVars
  <2>2. CASE AnswerPending(u)
    <3>1. pc[u] \in Quiet /\ pc'[u] \in Quiet /\ \A a \in Agents : a # u => pc'[a] = pc[a]
      BY <1>0, <1>t, <2>2 DEF AnswerPending, Goto, Quiet
    <3> QED
      BY <1>0, <1>i, <2>1, <3>1 DEF Single, Quiet
  <2>3. CASE GoOn(u)
    <3>1. ~ Sending /\ send_queue # <<>> /\ pc' = [pc EXCEPT ![u] = "front"]
      BY <2>3 DEF GoOn, Goto
    <3>2. ops = <<>> /\ posted = <<>> /\ \A a \in Agents : pc[a] \in Quiet
      BY <1>t, <3>1 DEF Sending, Quiet, Labels
    <3>3. pc'[u] = "front" /\ \A a \in Agents : a # u => pc'[a] \in Quiet
      BY <1>0, <1>t, <3>1, <3>2
    <3> QED
      BY <1>t, <2>1, <3>1, <3>2, <3>3 DEF Single, Quiet
  <2> QED
    BY <1>2, <2>2, <2>3 DEF CheckPending
<1>3. ASSUME NEW u \in Users, PushChunk(u) PROVE Single'
  <2>1. send_queue' # <<>> /\ UNCHANGED <<ops, posted>>
    BY <1>3, PushFacts DEF PushChunk, socketVars
  <2>2. pc[u] \in Quiet /\ pc'[u] \in Quiet /\ \A a \in Agents : a # u => pc'[a] = pc[a]
    BY <1>0, <1>3, <1>t DEF PushChunk, Goto, Quiet
  <2> QED
    BY <1>0, <1>i, <2>1, <2>2 DEF Single, Quiet
<1>4. ASSUME NEW u \in Users, NEW k \in 1 .. MaxChunks, SplitSendPackage(u, k) PROVE Single'
  <2>1. UNCHANGED <<send_queue, ops, posted>>
    BY <1>4 DEF SplitSendPackage, socketVars
  <2>2. pc[u] \in Quiet /\ pc'[u] \in Quiet /\ \A a \in Agents : a # u => pc'[a] = pc[a]
    BY <1>0, <1>4, <1>t DEF SplitSendPackage, Goto, Quiet
  <2> QED
    BY <1>0, <1>i, <2>1, <2>2 DEF Single, Quiet
<1>5. ASSUME NEW a \in Agents, TakeFront(a) PROVE Single'
  <2>1. pc[a] = "front" /\ UNCHANGED <<send_queue, ops, posted>>
    BY <1>5 DEF TakeFront, Goto, socketVars
  <2>2. send_queue # <<>>
    BY <1>i, <2>1 DEF Single
  <2>3. pc' = [pc EXCEPT ![a] = "pop"]
    BY <1>5, <2>2 DEF TakeFront, Goto
  <2> QED
    BY <1>i, <1>t, <2>1, <2>3 DEF Single, Quiet
<1>6. ASSUME NEW a \in Agents, PopFront(a) PROVE Single'
  <2>1. pc[a] = "pop" /\ pc' = [pc EXCEPT ![a] = "start"] /\ UNCHANGED <<ops, posted>>
    BY <1>6 DEF PopFront, Goto, socketVars
  <2>2. \A b \in Agents : b # a => pc[b] \in Quiet
    BY <1>i, <2>1 DEF Single, Quiet
  <2> QED
    BY <1>i, <1>t, <2>1, <2>2 DEF Single, Quiet
<1>7. ASSUME NEW a \in Agents, StartWrite(a) PROVE Single'
  <2>1. /\ pc[a] = "start" /\ pc' = [pc EXCEPT ![a] = "idle"]
        /\ ops' = Append(ops, [package |-> send_tmp_buff, from |-> 0])
        /\ UNCHANGED <<send_queue, posted>>
    BY <1>7 DEF StartWrite, Goto
  <2>2. \A b \in Agents : pc'[b] \in Quiet
    BY <1>i, <1>t, <2>1 DEF Single, Quiet
  <2>3. ops = <<>> /\ posted = <<>>
    BY <1>i, <2>1 DEF Single, Quiet
  <2>4. Len(ops') = 1
    BY <2>1, <2>3
  <2> QED
    BY <1>t, <2>1, <2>2, <2>3, <2>4 DEF Single, Quiet
<1>8. ASSUME ops # <<>>, ops' = Tail(ops), UNCHANGED <<pc, send_queue>>,
             \E k \in Nat : posted' = Append(posted, k)
      PROVE  Single'
  <2>1. Len(ops) = 1 /\ Len(posted) = 0
    BY <1>8, <1>m, <1>n
  <2>2. Len(ops') = 0
    BY <1>8, <1>t, <2>1, TailFacts
  <2>3. Len(posted') = 1
    BY <1>8, <1>t, <2>1, AppendSome
  <2>4. \A a \in Agents : pc'[a] \in Quiet
    BY <1>8, <1>i DEF Single
  <2> QED
    BY <2>2, <2>3, <2>4 DEF Single, Quiet
<1>9. ASSUME Transfer PROVE Single'
  <2>1. Head(ops) \in Writes
    BY <1>9, <1>t, TailFacts DEF Transfer
  <2>2. \A k \in 1 .. PackageSize - Head(ops).from : k \in Nat
    BY <2>1, SendAssumption DEF Writes
  <2>3. \E k \in Nat : posted' = Append(posted, k)
    BY <1>9, <2>2 DEF Transfer
  <2> QED
    BY <1>8, <1>9, <2>3 DEF Transfer
<1>10. ASSUME Fail PROVE Single'
  BY <1>8, <1>10 DEF Fail
<1>11. ASSUME Break PROVE Single'
  BY <1>11, <1>i DEF Break, Single
<1>12. ASSUME posted # <<>>, posted' = Tail(posted)
       PROVE  /\ ops = <<>> /\ posted' = <<>> /\ Len(posted') = 0
              /\ \A a \in Agents : pc[a] \in Quiet
  <2>1. Len(ops) = 0 /\ Len(posted) = 1
    BY <1>12, <1>m, <1>n
  <2>2. posted' \in Seq(0 .. PackageSize) /\ Len(posted') = 0
    BY <1>12, <1>t, <2>1, TailFacts
  <2> QED
    BY <1>12, <1>i, <1>t, <2>1, <2>2 DEF Single
<1>13. ASSUME HandleError PROVE Single'
  <2>1. posted # <<>> /\ posted' = Tail(posted) /\ UNCHANGED <<pc, send_queue, ops>>
    BY <1>13 DEF HandleError
  <2> QED
    BY <1>12, <1>t, <2>1 DEF Single, Quiet
<1>14. ASSUME HandleRest PROVE Single'
  <2>1. /\ posted # <<>> /\ posted' = Tail(posted) /\ UNCHANGED <<pc, send_queue>>
        /\ ops' = Append(ops, [package |-> send_tmp_buff,
                               from |-> cur_size[send_tmp_buff] + Head(posted)])
    BY <1>14 DEF HandleRest
  <2>2. Len(ops') = 1 /\ Len(posted') = 0
    BY <1>12, <2>1
  <2>3. \A a \in Agents : pc'[a] \in Quiet
    BY <1>12, <2>1
  <2>4. \A a \in Agents : pc'[a] \notin {"null", "set", "front"}
    BY <2>3 DEF Quiet
  <2>5. Len(ops') + Len(posted') <= 1
    BY <2>2
  <2> QED
    BY <2>3, <2>4, <2>5 DEF Single
<1>15. ASSUME HandleWritten PROVE Single'
  <2>1. /\ posted # <<>> /\ posted' = Tail(posted) /\ UNCHANGED <<send_queue, ops>>
        /\ pc' = [pc EXCEPT ![Io] = "empty?"]
    BY <1>15 DEF HandleWritten, Goto
  <2>2. /\ Len(ops') = 0 /\ Len(posted') = 0 /\ ops' = <<>> /\ posted' = <<>>
    BY <1>12, <1>t, <2>1
  <2>3. pc'[Io] = "empty?" /\ \A a \in Agents : a # Io => pc'[a] \in Quiet
    BY <1>0, <1>12, <1>t, <2>1
  <2> QED
    BY <2>2, <2>3 DEF Single, Quiet
<1>16. ASSUME CheckQueue PROVE Single'
  <2>1. /\ pc[Io] = "empty?" /\ UNCHANGED <<send_queue, ops, posted>>
        /\ pc' = [pc EXCEPT ![Io] = IF send_queue = <<>> THEN "clear" ELSE "set"]
    BY <1>16 DEF CheckQueue, Goto, socketVars
  <2>0. /\ pc'[Io] = (IF send_queue = <<>> THEN "clear" ELSE "set")
        /\ \A a \in Agents : a # Io => pc'[a] = pc[a] /\ pc[a] \in Quiet
        /\ ops = <<>> /\ posted = <<>>
    BY <1>0, <1>i, <1>t, <2>1 DEF Single, Quiet
  <2>2. CASE send_queue = <<>>
    <3>1. pc'[Io] = "clear"
      BY <2>0, <2>2
    <3>2. \A a \in Agents : a # Io => pc'[a] \in Quiet
      BY <2>0
    <3>3. \A a \in Agents : pc'[a] \notin {"null", "set", "front"}
      BY <3>1, <3>2 DEF Quiet
    <3> QED
      BY <1>i, <2>0, <2>1, <3>2, <3>3 DEF Single
  <2>3. CASE send_queue # <<>>
    BY <1>0, <1>i, <2>0, <2>1, <2>3 DEF Single, Quiet
  <2> QED
    BY <2>2, <2>3
<1>17. ASSUME ClearPending \/ SetPending PROVE Single'
  BY <1>0, <1>17, <1>i, <1>t DEF ClearPending, SetPending, Goto, socketVars, Single, Quiet
<1>18. ASSUME UNCHANGED vars PROVE Single'
  BY <1>18, <1>i DEF vars, Single, socketVars
<1> QED
  BY <1>0, <1>1, <1>2, <1>3, <1>4, <1>5, <1>6, <1>7, <1>9, <1>10, <1>11, <1>13, <1>14,
     <1>15, <1>16, <1>17, <1>18
  DEF Next, Calling, Starting, Handling

(* While the flag is up, somebody who will look at the queue is on the way.  *)
Away == {"idle", "pending?", "chunk"}

LEMMA PendingStep == TypeOK /\ PendingGoes /\ [Next]_vars => PendingGoes'
<1> SUFFICES ASSUME TypeOK, PendingGoes, [Next]_vars, send_pending', inSessions'
             PROVE  ops' # <<>> \/ posted' # <<>> \/ \E a \in Agents : pc'[a] \notin Away
  BY DEF PendingGoes, Away
<1>0. Io \in Agents /\ Users \subseteq Agents /\ Io \notin Users
  BY SendAssumption DEF Agents
<1>t. /\ pc \in [Agents -> Labels]
      /\ ops \in Seq(Writes) /\ posted \in Seq(0 .. PackageSize)
  BY DEF TypeOK, Writes
<1>1. ASSUME UNCHANGED <<send_pending, inSessions, ops, posted>>,
             \A a \in Agents : pc[a] \notin Away => pc'[a] \notin Away
      PROVE  ops' # <<>> \/ posted' # <<>> \/ \E a \in Agents : pc'[a] \notin Away
  BY <1>1 DEF PendingGoes, Away
<1>2. CASE \/ \E u \in Users : WritePackage(u) \/ CheckPending(u) \/ PushChunk(u)
           \/ \E u \in Users, k \in 1 .. MaxChunks : SplitSendPackage(u, k)
           \/ \E a \in Agents : TakeFront(a) \/ PopFront(a)
           \/ CheckQueue \/ UNCHANGED vars
  <2>1. UNCHANGED <<send_pending, inSessions, ops, posted>>
    BY <1>2 DEF WritePackage, CheckPending, AnswerPending, GoOn, PushChunk,
                SplitSendPackage, TakeFront, PopFront,
                CheckQueue, vars, socketVars
  <2>2. ASSUME NEW a \in Agents, pc[a] \notin Away PROVE pc'[a] \notin Away
    BY <1>0, <1>2, <1>t, <2>2
    DEF WritePackage, CheckPending, AnswerPending, GoOn, PushChunk, SplitSendPackage,
        TakeFront, PopFront, CheckQueue, vars, Goto, Away
  <2> QED
    BY <1>1, <2>1, <2>2
<1>3. CASE (\E a \in Agents : StartWrite(a)) \/ HandleRest
  BY <1>3, <1>t, AppendSome DEF StartWrite, HandleRest
<1>4. CASE Transfer \/ Fail
  BY <1>4, <1>t, AppendSome DEF Transfer, Fail
<1>5. CASE Break
  BY <1>1, <1>5 DEF Break
<1>6. CASE HandleError \/ ClearPending
  BY <1>6 DEF HandleError, ClearPending
<1>7. CASE HandleWritten \/ SetPending
  <2>1. pc'[Io] \in {"empty?", "front"}
    BY <1>0, <1>7, <1>t DEF HandleWritten, SetPending, Goto
  <2> QED
    BY <1>0, <2>1 DEF Away
<1> QED
  BY <1>0, <1>2, <1>3, <1>4, <1>5, <1>6, <1>7 DEF Next, Calling, Starting, Handling

-----------------------------------------------------------------------------
(* What Attended rests on beside the flag: a caller has a package of its to  *)
(* test for only while it goes to test, and no handler's step is a caller's; *)
(* and no package is asked for before it is made.                            *)
Testing ==
  /\ \A u \in Users : pc[u] # "clear" /\ (pc[u] # "pending?" => mine[u] = 0)
  /\ \A n \in asked : n <= made

LEMMA TestingStep == TypeOK /\ Testing /\ [Next]_vars => Testing'
<1> SUFFICES ASSUME TypeOK, Testing, [Next]_vars PROVE Testing'
  OBVIOUS
<1>0. Io \in Agents /\ Users \subseteq Agents /\ Io \notin Users
  BY SendAssumption DEF Agents
<1>t. /\ pc \in [Agents -> Labels] /\ mine \in [Users -> 0 .. MaxPackages]
      /\ made \in Nat /\ \A n \in asked : n \in Nat
  BY SendAssumption DEF TypeOK, Packages
<1>1. CASE \E u \in Users : WritePackage(u)
  BY <1>0, <1>1, <1>t DEF WritePackage, Push, Goto, Testing
<1>2. CASE \E u \in Users : CheckPending(u)
  BY <1>0, <1>2, <1>t DEF CheckPending, AnswerPending, GoOn, Goto, Testing
<1>3. CASE \E u \in Users : PushChunk(u)
  BY <1>0, <1>3, <1>t DEF PushChunk, Push, Goto, Testing
<1>4. CASE \E u \in Users, k \in 1 .. MaxChunks : SplitSendPackage(u, k)
  BY <1>0, <1>4, <1>t DEF SplitSendPackage, Goto, Testing, historyVars
<1>5. CASE \E a \in Agents : Starting(a)
  BY <1>0, <1>5, <1>t DEF Starting, TakeFront, PopFront, StartWrite, Goto, Testing,
                          historyVars
<1>6. CASE \/ HandleError \/ HandleRest \/ HandleWritten
           \/ CheckQueue \/ ClearPending \/ SetPending
           \/ Transfer \/ Break \/ Fail \/ UNCHANGED vars
  BY <1>0, <1>6, <1>t
  DEF HandleError, HandleRest, HandleWritten, CheckQueue, ClearPending, SetPending,
      Transfer, Break, Fail, vars, Goto, Testing, historyVars
<1> QED
  BY <1>0, <1>1, <1>2, <1>3, <1>4, <1>5, <1>6 DEF Next, Calling, Handling

(* A push adds its package, and no other. *)
LEMMA PushAdds ==
  ASSUME TypeOK, Push
  PROVE  \A i \in DOMAIN send_queue' :
           \/ send_queue'[i] = made + 1
           \/ \E j \in DOMAIN send_queue : send_queue'[i] = send_queue[j]
<1>1. /\ send_queue \in Seq(Packages) /\ Len(send_queue) \in Nat
      /\ made + 1 \in Packages /\ Bound \in Nat \ {0}
  <2>1. made' = made + 1 /\ made' \in Packages
    BY PushFacts
  <2> QED
    BY <2>1, SendAssumption DEF TypeOK
<1>2. CASE send_queue' = Append(send_queue, made + 1)
  BY <1>1, <1>2, AppendFacts
<1>3. CASE send_queue # <<>> /\ send_queue' = Append(Tail(send_queue), made + 1)
  <2> DEFINE t == Tail(send_queue)
  <2>1. /\ t \in Seq(Packages) /\ Len(t) = Len(send_queue) - 1 /\ Len(send_queue) > 0
        /\ \A i \in 1 .. Len(send_queue) - 1 : t[i] = send_queue[i + 1]
    BY <1>1, <1>3, TailFacts
  <2> HIDE DEF t
  <2>2. /\ Append(t, made + 1) \in Seq(Packages)
        /\ Len(Append(t, made + 1)) = Len(t) + 1
        /\ \A i \in 1 .. Len(t) : Append(t, made + 1)[i] = t[i]
        /\ Append(t, made + 1)[Len(t) + 1] = made + 1
    BY <1>1, <2>1, AppendFacts
  <2>3. send_queue' = Append(t, made + 1)
    BY <1>3 DEF t
  <2>4. DOMAIN send_queue' = 1 .. Len(send_queue) /\ DOMAIN send_queue = 1 .. Len(send_queue)
    BY <1>1, <2>1, <2>2, <2>3
  <2> TAKE i \in DOMAIN send_queue'
  <2>5. CASE i = Len(send_queue)
    BY <1>1, <2>1, <2>2, <2>3, <2>5
  <2>6. CASE i # Len(send_queue)
    <3>1. i \in 1 .. Len(t) /\ i + 1 \in DOMAIN send_queue
      BY <1>1, <2>1, <2>4, <2>6
    <3> QED
      BY <1>1, <2>1, <2>2, <2>3, <3>1
  <2> QED
    BY <2>5, <2>6
<1>4. Len(send_queue) = Bound => send_queue # <<>>
  BY <1>1
<1> QED
  BY <1>2, <1>3, <1>4 DEF Push

LEMMA AttendedStep ==
  TypeOK /\ Testing /\ PendingGoes /\ Attended /\ [Next]_vars => Attended'
<1> SUFFICES ASSUME TypeOK, Testing, PendingGoes, Attended, [Next]_vars PROVE Attended'
  OBVIOUS
<1>0. Io \in Agents /\ Users \subseteq Agents /\ Io \notin Users
  BY SendAssumption DEF Agents
<1>t. /\ pc \in [Agents -> Labels] /\ mine \in [Users -> 0 .. MaxPackages]
      /\ ops \in Seq(Writes) /\ posted \in Seq(0 .. PackageSize)
      /\ made \in Nat /\ \A n \in asked : n \in Nat /\ n # 0
  BY SendAssumption DEF TypeOK, Writes, Packages
<1>1. Sending' => Attended'
  BY DEF Attended
<1>2. ASSUME Sending => Sending', inSessions' => inSessions,
             \A i \in DOMAIN send_queue' : send_queue'[i] \in asked' =>
               \/ \E j \in DOMAIN send_queue :
                    send_queue'[i] = send_queue[j] /\ send_queue[j] \in asked
               \/ \E u \in Users : mine'[u] = send_queue'[i],
             stranded \subseteq stranded',
             \A u \in Users : mine[u] # 0 => mine'[u] = mine[u]
      PROVE  Attended'
  BY <1>2, <1>t DEF Attended
<1>3. CASE \E u \in Users : WritePackage(u)
  <2> PICK u \in Users : WritePackage(u)
    BY <1>3
  <2>1. /\ pc' = [pc EXCEPT ![u] = "pending?"] /\ pc[u] = "idle"
        /\ mine' = [mine EXCEPT ![u] = made + 1] /\ mine[u] = 0
        /\ asked' = asked \cup {made + 1}
        /\ UNCHANGED <<inSessions, ops, posted, stranded>> /\ Push
    BY <1>0 DEF WritePackage, Goto, socketVars, Testing
  <2>2. Sending => Sending'
    BY <1>0, <1>t, <2>1 DEF Sending
  <2>3. \A i \in DOMAIN send_queue' :
          \/ send_queue'[i] = made + 1
          \/ \E j \in DOMAIN send_queue : send_queue'[i] = send_queue[j]
    BY <2>1, PushAdds
  <2>4. mine'[u] = made + 1 /\ \A v \in Users : mine[v] # 0 => mine'[v] = mine[v]
    BY <1>t, <2>1
  <2> QED
    BY <1>2, <2>1, <2>2, <2>3, <2>4
<1>4. CASE \E u \in Users : AnswerPending(u)
  <2> PICK u \in Users : AnswerPending(u)
    BY <1>4
  <2>1. /\ pc' = [pc EXCEPT ![u] = "idle"] /\ pc[u] = "pending?" /\ send_pending
        /\ mine' = [mine EXCEPT ![u] = 0]
        /\ stranded' = IF pc[Io] = "clear" THEN stranded \cup {mine[u]} ELSE stranded
        /\ UNCHANGED <<inSessions, send_queue, ops, posted, asked>>
    BY <1>0 DEF AnswerPending, Goto, socketVars
  <2>2. Sending => Sending'
    BY <1>0, <1>t, <2>1 DEF Sending
  <2>3. CASE pc[Io] = "clear"
    BY <1>t, <2>1, <2>2, <2>3 DEF Attended
  <2>4. CASE pc[Io] # "clear"
    <3>1. ~ inSessions \/ Sending
      BY <1>0, <1>t, <2>1, <2>4 DEF PendingGoes, Sending, Testing, Agents, Labels
    <3> QED
      BY <1>1, <2>1, <2>2, <3>1 DEF Attended
  <2> QED
    BY <2>3, <2>4
<1>5. CASE \E u \in Users : PushChunk(u)
  <2> PICK u \in Users : PushChunk(u)
    BY <1>5
  <2>1. /\ pc[u] = "chunk" /\ pc' = [pc EXCEPT ![u] = IF chunks[u] = 1 THEN "idle" ELSE "chunk"]
        /\ UNCHANGED <<inSessions, ops, posted, asked, mine, stranded>> /\ Push
    BY <1>0 DEF PushChunk, Goto, socketVars
  <2>2. Sending => Sending'
    BY <1>0, <1>t, <2>1 DEF Sending
  <2>3. \A i \in DOMAIN send_queue' :
          \/ send_queue'[i] = made + 1
          \/ \E j \in DOMAIN send_queue : send_queue'[i] = send_queue[j]
    BY <2>1, PushAdds
  <2>4. made + 1 \notin asked
    BY <1>t DEF Testing
  <2> QED
    BY <1>2, <2>1, <2>2, <2>3, <2>4
<1>6. CASE \E u \in Users, k \in 1 .. MaxChunks : SplitSendPackage(u, k)
  <2> PICK u \in Users : \E k \in 1 .. MaxChunks : SplitSendPackage(u, k)
    BY <1>6
  <2>1. /\ pc[u] = "idle" /\ pc' = [pc EXCEPT ![u] = "chunk"]
        /\ UNCHANGED <<inSessions, ops, posted, asked, mine, stranded, send_queue>>
    BY <1>0 DEF SplitSendPackage, Goto, socketVars, historyVars
  <2>2. Sending => Sending'
    BY <1>0, <1>t, <2>1 DEF Sending
  <2> QED
    BY <2>1, <2>2 DEF Attended
<1>7. CASE \/ \E u \in Users : GoOn(u)
           \/ \E a \in Agents : TakeFront(a) \/ PopFront(a)
           \/ HandleWritten \/ SetPending
  <2>1. \E a \in Agents : pc'[a] \in {"front", "null", "pop", "start", "empty?", "set"}
    BY <1>0, <1>7, <1>t DEF GoOn, TakeFront, PopFront, HandleWritten, SetPending, Goto
  <2> QED
    BY <1>1, <2>1 DEF Sending
<1>8. CASE (\E a \in Agents : StartWrite(a)) \/ HandleRest \/ Transfer \/ Fail
  <2>1. ops' # <<>> \/ posted' # <<>>
    BY <1>8, <1>t, AppendSome DEF StartWrite, HandleRest, Transfer, Fail
  <2> QED
    BY <1>1, <2>1 DEF Sending
<1>9. CASE HandleError
  BY <1>9 DEF HandleError, Attended
<1>10. CASE CheckQueue
  <2>1. CASE send_queue = <<>>
    BY <1>10, <2>1 DEF CheckQueue, Attended
  <2>2. CASE send_queue # <<>>
    <3>1. pc'[Io] = "set"
      BY <1>0, <1>10, <1>t, <2>2 DEF CheckQueue, Goto
    <3> QED
      BY <1>0, <1>1, <3>1 DEF Sending
  <2> QED
    BY <2>1, <2>2
<1>11. CASE ClearPending \/ Break \/ UNCHANGED vars
  <2>1. UNCHANGED <<inSessions, ops, posted, asked, mine, stranded, send_queue>>
    BY <1>11 DEF ClearPending, Break, vars, socketVars, historyVars
  <2>2. Sending => Sending'
    BY <1>0, <1>11, <1>t, <2>1 DEF Sending, ClearPending, Break, vars, Goto
  <2> QED
    BY <2>1, <2>2 DEF Attended
<1> QED
  BY <1>0, <1>3, <1>4, <1>5, <1>6, <1>7, <1>8, <1>9, <1>10, <1>11
  DEF Next, Calling, CheckPending, Starting, Handling

-----------------------------------------------------------------------------
(* For any callers, queue and packages: the session has one write at a time  *)
(* and dereferences no front that is not there, unless a caller started one  *)
(* beside another.  Overlap or not, a flag that is up has a write behind it,  *)
(* and no package that was asked for is left behind but in the handler's     *)
(* window between its test of the queue and its clearing of the flag.        *)
THEOREM SendCorrect == Spec => []SendInv
<1> DEFINE Inv == SInv /\ Testing /\ Attended
<1>1. Init => Inv
  <2>1. Init => Testing /\ Attended
    BY SendAssumption DEF Init, Testing, Attended, Agents
  <2> QED
    BY <2>1, TypesInit, SingleInit DEF SInv
<1>2. Inv /\ [Next]_vars => Inv'
  BY TypesStep, SingleStep, PendingStep, TestingStep, AttendedStep DEF SInv
<1>3. Inv => SendInv
  <2> SUFFICES ASSUME SInv, Attended PROVE SendInv
    OBVIOUS
  <2>1. Io \in Agents /\ Len(ops) \in Nat /\ Len(posted) \in Nat
        /\ (ops = <<>> <=> Len(ops) = 0) /\ (posted = <<>> <=> Len(posted) = 0)
    BY LenFacts DEF SInv, TypeOK, Agents
  <2>2. overlap \/ (pc[Io] \notin {"idle", "clear"} => ops = <<>> /\ posted = <<>>)
    BY <2>1 DEF SInv, Single, Shape, Quiet
  <2>3. OneWrite
    BY <2>1, <2>2 DEF SInv, Single, OneWrite
  <2>4. NeverNull
    BY DEF SInv, Single, NeverNull
  <2> QED
    BY <2>3, <2>4 DEF SInv, SendInv
<1> QED
  BY <1>1, <1>2, <1>3, PTL DEF Spec

-----------------------------------------------------------------------------
(* The order of the packages.  The queue rises, and holds nothing as old as  *)
(* the package in send_tmp_buff, once that is popped; what is not begun has  *)
(* no byte counted.                                                          *)
Popping == \E a \in Agents : pc[a] = "pop"
Fetched == \E a \in Agents : pc[a] \in {"pop", "start"}
Floor == IF Popping THEN send_tmp_buff - 1 ELSE send_tmp_buff

Rise(q, lo, hi) ==
  /\ \A i, j \in 1 .. Len(q) : i < j => q[i] < q[j]
  /\ \A i \in 1 .. Len(q) : lo < q[i] /\ q[i] <= hi

Order ==
  /\ send_tmp_buff <= made
  /\ Rise(send_queue, Floor, made)
  /\ \A n \in Packages : n > send_tmp_buff => cur_size[n] = 0
  /\ Fetched => cur_size[send_tmp_buff] = 0

(* Where the wire ends: in the package in send_tmp_buff, where the write     *)
(* goes on and as far as the completion says; and after an older package     *)
(* when nothing is being written.                                            *)
Reached(n) ==
  /\ ops # <<>> => /\ Head(ops) = [package |-> n, from |-> cur_size[n]]
                   /\ EndsAt(wire, n, cur_size[n])
  /\ posted # <<>> => /\ Head(posted) > 0
                      /\ cur_size[n] + Head(posted) <= PackageSize
                      /\ EndsAt(wire, n, cur_size[n] + Head(posted))
  /\ ops = <<>> /\ posted = <<>> => EndsBefore(wire, IF Fetched THEN n ELSE n + 1)

OInv ==
  /\ SInv
  /\ overlap \/ (Order /\ InOrder(wire) /\ (broken \/ Reached(send_tmp_buff)))

LEMMA RisePush ==
  ASSUME TypeOK, Push, NEW lo \in Int, lo <= made, Rise(send_queue, lo, made)
  PROVE  Rise(send_queue', lo, made')
<1> DEFINE e == made + 1
<1>0. /\ send_queue \in Seq(Packages) /\ Len(send_queue) \in Nat /\ Packages \subseteq Nat
      /\ made \in Nat /\ made' = e /\ e \in Packages /\ Bound \in Nat /\ Bound > 0
  <2>1. send_queue \in Seq(Packages) /\ Len(send_queue) \in Nat
    BY LenFacts DEF TypeOK
  <2>2. Packages \subseteq Nat /\ made \in Nat /\ Bound \in Nat /\ Bound > 0
    BY SendAssumption DEF TypeOK, Packages
  <2>3. made' = e /\ e \in Packages
    BY PushFacts
  <2> QED
    BY <2>1, <2>2, <2>3
<1>1. ASSUME NEW q \in Seq(Packages), Rise(q, lo, made) PROVE Rise(Append(q, e), lo, e)
  <2> DEFINE x == Append(q, e)
  <2>1. /\ Len(q) \in Nat /\ \A i \in 1 .. Len(q) : q[i] \in Nat
    BY <1>0, LenFacts
  <2>2. /\ Len(x) = Len(q) + 1 /\ x[Len(q) + 1] = e
        /\ \A i \in 1 .. Len(q) : x[i] = q[i]
    BY <1>0, AppendFacts
  <2> HIDE DEF x
  <2>3. ASSUME NEW i \in 1 .. Len(x) PROVE lo < x[i] /\ x[i] <= e
    <3>1. CASE i <= Len(q)
      <4>1. i \in 1 .. Len(q) /\ x[i] = q[i] /\ q[i] \in Nat
        BY <2>1, <2>2, <3>1
      <4>2. lo < q[i] /\ q[i] <= made
        BY <1>1, <4>1 DEF Rise
      <4> QED
        BY <1>0, <4>1, <4>2
    <3>2. CASE i = Len(q) + 1
      BY <1>0, <2>2, <3>2
    <3> QED
      BY <2>1, <2>2, <3>1, <3>2
  <2>4. ASSUME NEW i \in 1 .. Len(x), NEW j \in 1 .. Len(x), i < j PROVE x[i] < x[j]
    <3>1. i \in 1 .. Len(q) /\ x[i] = q[i] /\ q[i] \in Nat /\ q[i] <= made
      BY <1>1, <2>1, <2>2, <2>4 DEF Rise
    <3>2. CASE j <= Len(q)
      <4>1. j \in 1 .. Len(q) /\ x[j] = q[j]
        BY <2>1, <2>2, <3>2
      <4> QED
        BY <1>1, <2>4, <3>1, <4>1 DEF Rise
    <3>3. CASE j = Len(q) + 1
      BY <1>0, <2>2, <3>1, <3>3
    <3> QED
      BY <2>1, <2>2, <3>2, <3>3
  <2>5. Rise(x, lo, e)
    BY <2>3, <2>4 DEF Rise
  <2> QED
    BY <2>5 DEF x
<1>2. CASE send_queue' = Append(send_queue, e)
  BY <1>0, <1>1, <1>2
<1>3. CASE send_queue # <<>> /\ send_queue' = Append(Tail(send_queue), e)
  <2> DEFINE q == Tail(send_queue)
  <2>1. /\ q \in Seq(Packages) /\ Len(q) = Len(send_queue) - 1
        /\ \A i \in 1 .. Len(send_queue) - 1 : q[i] = send_queue[i + 1]
    BY <1>0, <1>3, TailFacts
  <2> HIDE DEF q
  <2>2. \A i \in 1 .. Len(q) : i + 1 \in 1 .. Len(send_queue) /\ q[i] = send_queue[i + 1]
    BY <1>0, <2>1
  <2>3. \A i, j \in 1 .. Len(q) : i < j => i + 1 < j + 1
    BY <1>0, <2>1
  <2>4. Rise(q, lo, made)
    BY <2>2, <2>3 DEF Rise
  <2> QED
    BY <1>0, <1>1, <1>3, <2>1, <2>4 DEF q
<1> QED
  <2>1. Len(send_queue) = Bound => send_queue # <<>>
    BY <1>0, LenFacts
  <2> QED
    BY <1>2, <1>3, <2>1 DEF Push

LEMMA RiseTail ==
  ASSUME NEW q \in Seq(Packages), q # <<>>, NEW lo \in Int, NEW hi \in Int, Rise(q, lo, hi)
  PROVE  /\ lo < Head(q) /\ Head(q) <= hi
         /\ Rise(q, Head(q) - 1, hi)
         /\ Rise(Tail(q), Head(q), hi)
         /\ Rise(Tail(q), lo, hi)
<1>0. /\ Len(q) \in Nat /\ Len(q) > 0 /\ Head(q) = q[1] /\ Packages \subseteq Nat
      /\ \A i \in 1 .. Len(q) : q[i] \in Nat
      /\ Len(Tail(q)) = Len(q) - 1 /\ \A i \in 1 .. Len(q) - 1 : Tail(q)[i] = q[i + 1]
  BY LenFacts, TailFacts, SendAssumption DEF Packages
<1>1. 1 \in 1 .. Len(q) /\ Head(q) \in Nat
  BY <1>0
<1>2. lo < Head(q) /\ Head(q) <= hi
  BY <1>0, <1>1 DEF Rise
<1>3. \A i \in 1 .. Len(q) : Head(q) - 1 < q[i]
  <2> TAKE i \in 1 .. Len(q)
  <2>1. CASE i = 1
    BY <1>0, <1>1, <2>1
  <2>2. CASE i > 1
    <3>1. q[1] < q[i]
      BY <1>1, <2>2 DEF Rise
    <3> QED
      BY <1>0, <1>1, <3>1
  <2> QED
    BY <2>1, <2>2
<1>4. Rise(q, Head(q) - 1, hi)
  BY <1>3 DEF Rise
<1> DEFINE t == Tail(q)
<1>5. \A i \in 1 .. Len(t) : i + 1 \in 1 .. Len(q) /\ 1 < i + 1 /\ t[i] = q[i + 1]
  BY <1>0
<1> HIDE DEF t
<1>6. \A i, j \in 1 .. Len(t) : i < j => t[i] < t[j]
  <2> SUFFICES ASSUME NEW i \in 1 .. Len(t), NEW j \in 1 .. Len(t), i < j PROVE t[i] < t[j]
    OBVIOUS
  <2>1. i + 1 \in 1 .. Len(q) /\ j + 1 \in 1 .. Len(q) /\ i + 1 < j + 1
    BY <1>0, <1>5
  <2> QED
    BY <1>5, <2>1 DEF Rise
<1>7. \A i \in 1 .. Len(t) : Head(q) < t[i] /\ lo < t[i] /\ t[i] <= hi
  <2> TAKE i \in 1 .. Len(t)
  <2>1. i + 1 \in 1 .. Len(q) /\ 1 < i + 1 /\ t[i] = q[i + 1]
    BY <1>5
  <2>2. q[1] < q[i + 1]
    BY <1>1, <2>1 DEF Rise
  <2>3. lo < q[i + 1] /\ q[i + 1] <= hi
    BY <2>1 DEF Rise
  <2> QED
    BY <1>0, <2>1, <2>2, <2>3
<1>8. Rise(t, Head(q), hi) /\ Rise(t, lo, hi)
  BY <1>6, <1>7 DEF Rise
<1> QED
  BY <1>2, <1>4, <1>8 DEF t

LEMMA OrderInit == Init => Order /\ InOrder(wire) /\ Reached(send_tmp_buff)
<1> SUFFICES ASSUME Init PROVE Order /\ InOrder(wire) /\ Reached(send_tmp_buff)
  OBVIOUS
<1>1. /\ send_queue = <<>> /\ Len(send_queue) = 0 /\ send_tmp_buff = 0 /\ made = 0
      /\ ops = <<>> /\ posted = <<>> /\ wire = <<>> /\ Len(wire) = 0
      /\ \A a \in Agents : pc[a] = "idle"
      /\ \A n \in Packages : cur_size[n] = 0
  BY DEF Init
<1>2. ~ Popping /\ ~ Fetched
  BY <1>1 DEF Popping, Fetched
<1>3. Order
  BY <1>1, <1>2 DEF Order, Rise
<1>4. InOrder(wire)
  BY <1>1 DEF InOrder
<1>5. Reached(send_tmp_buff)
  BY <1>1, <1>2 DEF Reached, EndsBefore
<1> QED
  BY <1>3, <1>4, <1>5

(* The step of one agent leaves the others where they are.                   *)
LEMMA MovesOnly ==
  ASSUME TypeOK, Single, NEW a \in Agents, pc[a] \notin Quiet, NEW l \in Labels,
         pc' = [pc EXCEPT ![a] = l]
  PROVE  /\ Popping <=> pc[a] = "pop"
         /\ Fetched <=> pc[a] \in {"pop", "start"}
         /\ Popping' <=> l = "pop"
         /\ Fetched' <=> l \in {"pop", "start"}
<1>1. pc \in [Agents -> Labels]
  BY DEF TypeOK
<1>2. pc'[a] = l /\ \A b \in Agents : b # a => pc[b] \in Quiet /\ pc'[b] = pc[b]
  BY <1>1 DEF Single
<1>3. \A b \in Agents : b # a => pc[b] \notin {"pop", "start"} /\ pc'[b] \notin {"pop", "start"}
  BY <1>2 DEF Quiet
<1>4. /\ Popping <=> pc[a] = "pop"
      /\ Fetched <=> pc[a] \in {"pop", "start"}
  BY <1>3 DEF Popping, Fetched
<1>5. /\ Popping' <=> l = "pop"
      /\ Fetched' <=> l \in {"pop", "start"}
  BY <1>2, <1>3 DEF Popping, Fetched
<1> QED
  BY <1>4, <1>5

(* So does one that neither fetches a package nor has fetched one. *)
LEMMA MovesBeside ==
  ASSUME TypeOK, NEW a \in Agents, pc[a] \notin {"pop", "start"},
         NEW l \in Labels \ {"pop", "start"}, pc' = [pc EXCEPT ![a] = l]
  PROVE  (Popping' <=> Popping) /\ (Fetched' <=> Fetched)
<1>1. pc \in [Agents -> Labels]
  BY DEF TypeOK
<1>2. \A b \in Agents : (pc'[b] = "pop" <=> pc[b] = "pop")
                        /\ (pc'[b] \in {"pop", "start"} <=> pc[b] \in {"pop", "start"})
  BY <1>1
<1> QED
  BY <1>2 DEF Popping, Fetched

LEMMA OrderStep ==
  SInv /\ (overlap \/ Order) /\ [Next]_vars => (overlap \/ Order)'
<1> SUFFICES ASSUME SInv, overlap \/ Order, [Next]_vars, ~ overlap' PROVE Order'
  OBVIOUS
<1>0. Io \in Agents /\ Users \subseteq Agents /\ Io \notin Users /\ Packages \subseteq Nat
  BY SendAssumption DEF Agents, Packages
<1>i. TypeOK /\ Shape /\ Single /\ Order
  BY NotYet DEF SInv
<1>t. /\ send_queue \in Seq(Packages) /\ pc \in [Agents -> Labels]
      /\ send_tmp_buff \in Nat /\ made \in Nat /\ Floor \in Int
      /\ send_tmp_buff <= made /\ Floor <= made
      /\ cur_size \in [Packages -> 0 .. PackageSize - 1]
  <2>1. /\ send_queue \in Seq(Packages) /\ pc \in [Agents -> Labels]
        /\ send_tmp_buff \in Nat /\ made \in Nat
        /\ cur_size \in [Packages -> 0 .. PackageSize - 1]
    BY <1>i, SendAssumption DEF TypeOK
  <2>2. send_tmp_buff <= made
    BY <1>i DEF Order
  <2> QED
    BY <2>1, <2>2 DEF Floor
<1>1. ASSUME UNCHANGED <<send_queue, send_tmp_buff, cur_size, made>>,
             Popping' <=> Popping, Fetched' => Fetched
      PROVE  Order'
  BY <1>1, <1>i DEF Order, Floor
<1>2. ASSUME Push, UNCHANGED <<send_tmp_buff, cur_size>>,
             Popping' <=> Popping, Fetched' <=> Fetched
      PROVE  Order'
  <2>1. Rise(send_queue', Floor, made')
    BY <1>2, <1>i, <1>t, RisePush DEF Order
  <2>2. Floor' = Floor
    BY <1>2 DEF Floor
  <2>3. made' = made + 1
    BY <1>2 DEF Push
  <2>4. send_tmp_buff' <= made'
    BY <1>2, <1>t, <2>3
  <2> QED
    BY <1>2, <1>i, <2>1, <2>2, <2>4 DEF Order
<1>3. ASSUME NEW u \in Users, WritePackage(u) \/ PushChunk(u) PROVE Order'
  <2>1. PICK l \in {"pending?", "idle", "chunk"} : pc' = [pc EXCEPT ![u] = l]
    BY <1>3 DEF WritePackage, PushChunk, Goto
  <2>2. pc[u] \notin {"pop", "start"} /\ l \in Labels \ {"pop", "start"}
    BY <1>3 DEF WritePackage, PushChunk, Goto, Labels
  <2>3. (Popping' <=> Popping) /\ (Fetched' <=> Fetched)
    BY <1>0, <1>i, <2>1, <2>2, MovesBeside
  <2>4. Push /\ UNCHANGED <<send_tmp_buff, cur_size>>
    BY <1>3 DEF WritePackage, PushChunk
  <2> QED
    BY <1>2, <2>3, <2>4
<1>4. ASSUME NEW u \in Users, CheckPending(u) \/ (\E k \in 1 .. MaxChunks : SplitSendPackage(u, k))
      PROVE  Order'
  <2>1. PICK l \in {"idle", "front", "chunk"} : pc' = [pc EXCEPT ![u] = l]
    BY <1>4 DEF CheckPending, AnswerPending, GoOn, SplitSendPackage, Goto
  <2>2. pc[u] \notin {"pop", "start"} /\ l \in Labels \ {"pop", "start"}
    BY <1>4 DEF CheckPending, AnswerPending, GoOn, SplitSendPackage, Goto, Labels
  <2>3. (Popping' <=> Popping) /\ (Fetched' <=> Fetched)
    BY <1>0, <1>i, <2>1, <2>2, MovesBeside
  <2>4. UNCHANGED <<send_queue, send_tmp_buff, cur_size, made>>
    BY <1>4 DEF CheckPending, AnswerPending, GoOn, SplitSendPackage, historyVars
  <2> QED
    BY <1>1, <2>3, <2>4
<1>5. ASSUME CheckQueue \/ ClearPending \/ SetPending \/ HandleWritten PROVE Order'
  <2>1. PICK l \in {"clear", "set", "idle", "front", "empty?"} : pc' = [pc EXCEPT ![Io] = l]
    BY <1>5 DEF CheckQueue, ClearPending, SetPending, HandleWritten, Goto
  <2>2. pc[Io] \notin {"pop", "start"} /\ l \in Labels \ {"pop", "start"}
    BY <1>5 DEF CheckQueue, ClearPending, SetPending, HandleWritten, Goto, Labels
  <2>3. (Popping' <=> Popping) /\ (Fetched' <=> Fetched)
    BY <1>0, <1>i, <2>1, <2>2, MovesBeside
  <2>4. UNCHANGED <<send_queue, send_tmp_buff, cur_size, made>>
    BY <1>5 DEF CheckQueue, ClearPending, SetPending, HandleWritten, historyVars
  <2> QED
    BY <1>1, <2>3, <2>4
<1>6. ASSUME UNCHANGED <<send_queue, send_tmp_buff, cur_size, made, pc>> PROVE Order'
  BY <1>1, <1>6 DEF Popping, Fetched
<1>7. ASSUME Transfer \/ Break \/ Fail \/ HandleError \/ UNCHANGED vars PROVE Order'
  BY <1>6, <1>7 DEF Transfer, Break, Fail, HandleError, vars, historyVars
<1>8. ASSUME NEW a \in Agents, TakeFront(a) PROVE Order'
  <2>1. pc[a] = "front" /\ send_queue # <<>>
    BY <1>8, <1>i DEF TakeFront, Goto, Single
  <2>2. /\ pc' = [pc EXCEPT ![a] = "pop"] /\ send_tmp_buff' = Head(send_queue)
        /\ UNCHANGED <<send_queue, cur_size, made>>
    BY <1>8, <2>1 DEF TakeFront, Goto, historyVars
  <2>3. ~ Popping /\ ~ Fetched /\ Popping' /\ Fetched'
    BY <1>i, <2>1, <2>2, MovesOnly DEF Quiet, Labels
  <2>4. /\ send_tmp_buff < Head(send_queue) /\ Head(send_queue) <= made
        /\ Rise(send_queue, Head(send_queue) - 1, made)
    BY <1>i, <1>t, <2>1, <2>3, RiseTail DEF Order, Floor
  <2>5. Head(send_queue) \in Packages
    BY <1>t, <2>1, TailFacts
  <2>6. Floor' = Head(send_queue) - 1
    BY <2>2, <2>3 DEF Floor
  <2>7. cur_size[Head(send_queue)] = 0
    BY <1>i, <2>4, <2>5 DEF Order
  <2>8. \A n \in Packages : n > Head(send_queue) => cur_size[n] = 0
    <3> SUFFICES ASSUME NEW n \in Packages, n > Head(send_queue) PROVE n > send_tmp_buff
      BY <1>i DEF Order
    <3> QED
      BY <1>0, <1>t, <2>4, <2>5
  <2> QED
    BY <2>2, <2>4, <2>6, <2>7, <2>8 DEF Order
<1>9. ASSUME NEW a \in Agents, PopFront(a) PROVE Order'
  <2>1. /\ pc[a] = "pop" /\ pc' = [pc EXCEPT ![a] = "start"]
        /\ send_queue' = (IF send_queue = <<>> THEN <<>> ELSE Tail(send_queue))
        /\ UNCHANGED <<send_tmp_buff, cur_size, made>>
    BY <1>9 DEF PopFront, Goto
  <2>2. Popping /\ Fetched /\ ~ Popping'
    BY <1>i, <2>1, MovesOnly DEF Quiet, Labels
  <2>3. Floor = send_tmp_buff - 1 /\ Floor' = send_tmp_buff
    BY <2>1, <2>2 DEF Floor
  <2>4. Rise(send_queue', send_tmp_buff, made)
    <3>1. CASE send_queue = <<>>
      <4>1. Len(send_queue') = 0
        BY <2>1, <3>1
      <4> QED
        BY <4>1 DEF Rise
    <3>2. CASE send_queue # <<>>
      <4> DEFINE q == Tail(send_queue)
      <4>1. Floor < Head(send_queue) /\ Rise(q, Head(send_queue), made) /\ q \in Seq(Packages)
        BY <1>i, <1>t, <3>2, RiseTail, TailFacts DEF Order
      <4>2. Head(send_queue) \in Nat /\ \A i \in 1 .. Len(q) : q[i] \in Nat
        BY <1>0, <1>t, <3>2, <4>1, TailFacts, LenFacts
      <4> HIDE DEF q
      <4>3. send_tmp_buff <= Head(send_queue)
        BY <1>t, <2>3, <4>1, <4>2
      <4>4. \A i \in 1 .. Len(q) : send_tmp_buff < q[i]
        BY <1>t, <4>1, <4>2, <4>3 DEF Rise
      <4>5. Rise(q, send_tmp_buff, made)
        BY <4>1, <4>4 DEF Rise
      <4> QED
        BY <2>1, <3>2, <4>5 DEF q
    <3> QED
      BY <3>1, <3>2
  <2> QED
    BY <1>i, <2>1, <2>2, <2>3, <2>4 DEF Order
<1>10. ASSUME NEW a \in Agents, StartWrite(a) PROVE Order'
  <2>1. /\ pc[a] = "start" /\ pc' = [pc EXCEPT ![a] = "idle"]
        /\ UNCHANGED <<send_queue, send_tmp_buff, cur_size, made>>
    BY <1>10 DEF StartWrite, Goto, historyVars
  <2>2. ~ Popping /\ ~ Popping' /\ ~ Fetched'
    BY <1>i, <2>1, MovesOnly DEF Quiet, Labels
  <2> QED
    BY <1>1, <2>1, <2>2
<1>11. ASSUME HandleRest PROVE Order'
  <2>1. /\ posted # <<>> /\ UNCHANGED <<send_queue, send_tmp_buff, made, pc>>
        /\ cur_size' = [cur_size EXCEPT ![send_tmp_buff] = @ + Head(posted)]
    BY <1>11 DEF HandleRest, historyVars
  <2>2. ~ Popping' /\ ~ Popping /\ ~ Fetched'
    BY <1>i, <2>1 DEF Single, Quiet, Popping, Fetched
  <2>3. \A n \in Packages : n > send_tmp_buff => cur_size'[n] = cur_size[n]
    <3> SUFFICES ASSUME NEW n \in Packages, n > send_tmp_buff PROVE n # send_tmp_buff
      BY <1>t, <2>1
    <3> QED
      BY <1>0, <1>t
  <2>4. Rise(send_queue', Floor', made')
    BY <1>i, <2>1, <2>2 DEF Order, Floor
  <2>5. \A n \in Packages : n > send_tmp_buff' => cur_size'[n] = 0
    BY <1>i, <2>1, <2>3 DEF Order
  <2> QED
    BY <1>t, <2>1, <2>2, <2>4, <2>5 DEF Order
<1> QED
  BY <1>0, <1>3, <1>4, <1>5, <1>7, <1>8, <1>9, <1>10, <1>11
  DEF Next, Calling, Starting, Handling

LEMMA WireStep == OInv /\ [Next]_vars =>
                    (overlap \/ (InOrder(wire) /\ (broken \/ Reached(send_tmp_buff))))'
<1> SUFFICES ASSUME OInv, [Next]_vars, ~ overlap'
             PROVE  InOrder(wire') /\ (broken \/ Reached(send_tmp_buff))'
  OBVIOUS
<1>0. Io \in Agents /\ Users \subseteq Agents /\ Io \notin Users /\ Packages \subseteq Nat
      /\ PackageSize \in Nat /\ PackageSize > 0
  BY SendAssumption DEF Agents, Packages
<1>i. /\ TypeOK /\ Shape /\ Single /\ Order
      /\ InOrder(wire) /\ (broken \/ Reached(send_tmp_buff))
  BY NotYet DEF OInv, SInv
<1>t. /\ pc \in [Agents -> Labels] /\ send_queue \in Seq(Packages)
      /\ send_tmp_buff \in 0 .. MaxPackages
      /\ cur_size \in [Packages -> 0 .. PackageSize - 1]
      /\ ops \in Seq(Writes) /\ posted \in Seq(0 .. PackageSize) /\ wire \in Seq(Bytes)
  BY <1>i DEF TypeOK, Writes, Bytes
<1>1. ASSUME UNCHANGED <<socketVars, send_tmp_buff, cur_size>>, Fetched' <=> Fetched
      PROVE  InOrder(wire') /\ (broken \/ Reached(send_tmp_buff))'
  BY <1>1, <1>i DEF Reached, socketVars
<1>2. ASSUME NEW u \in Users,
             WritePackage(u) \/ PushChunk(u) \/ CheckPending(u)
               \/ (\E k \in 1 .. MaxChunks : SplitSendPackage(u, k))
      PROVE  InOrder(wire') /\ (broken \/ Reached(send_tmp_buff))'
  <2>1. PICK l \in {"pending?", "idle", "chunk", "front"} : pc' = [pc EXCEPT ![u] = l]
    BY <1>2 DEF WritePackage, PushChunk, CheckPending, AnswerPending, GoOn, SplitSendPackage, Goto
  <2>2. pc[u] \notin {"pop", "start"} /\ l \in Labels \ {"pop", "start"}
    BY <1>2 DEF WritePackage, PushChunk, CheckPending, AnswerPending, GoOn,
                SplitSendPackage, Goto, Labels
  <2>3. Fetched' <=> Fetched
    BY <1>0, <1>i, <2>1, <2>2, MovesBeside
  <2>4. UNCHANGED <<socketVars, send_tmp_buff, cur_size>>
    BY <1>2 DEF WritePackage, PushChunk, CheckPending, AnswerPending, GoOn, SplitSendPackage
  <2> QED
    BY <1>1, <2>3, <2>4
<1>3. ASSUME CheckQueue \/ ClearPending \/ SetPending
      PROVE  InOrder(wire') /\ (broken \/ Reached(send_tmp_buff))'
  <2>1. PICK l \in {"clear", "set", "idle", "front"} : pc' = [pc EXCEPT ![Io] = l]
    BY <1>3 DEF CheckQueue, ClearPending, SetPending, Goto
  <2>2. pc[Io] \notin {"pop", "start"} /\ l \in Labels \ {"pop", "start"}
    BY <1>3 DEF CheckQueue, ClearPending, SetPending, Goto, Labels
  <2>3. Fetched' <=> Fetched
    BY <1>0, <1>i, <2>1, <2>2, MovesBeside
  <2> QED
    BY <1>1, <1>3, <2>3 DEF CheckQueue, ClearPending, SetPending
<1>4. ASSUME NEW a \in Agents, TakeFront(a)
      PROVE  InOrder(wire') /\ (broken \/ Reached(send_tmp_buff))'
  <2>1. pc[a] = "front" /\ send_queue # <<>> /\ ops = <<>> /\ posted = <<>>
    BY <1>4, <1>i DEF TakeFront, Goto, Single, Quiet
  <2>2. /\ pc' = [pc EXCEPT ![a] = "pop"] /\ send_tmp_buff' = Head(send_queue)
        /\ UNCHANGED <<ops, posted, wire, broken>>
    BY <1>4, <2>1 DEF TakeFront, Goto, socketVars
  <2>3. ~ Popping /\ ~ Fetched /\ Fetched'
    BY <1>i, <2>1, <2>2, MovesOnly DEF Quiet, Labels
  <2>4. send_tmp_buff < Head(send_queue) /\ Head(send_queue) \in Nat
    <3>1. send_tmp_buff \in Int /\ made \in Int
      BY <1>i, SendAssumption DEF TypeOK
    <3>2. Rise(send_queue, send_tmp_buff, made)
      BY <1>i, <2>3 DEF Order, Floor
    <3> QED
      BY <1>0, <1>t, <2>1, <3>1, <3>2, RiseTail, TailFacts
  <2>5. ASSUME EndsBefore(wire, send_tmp_buff + 1) PROVE EndsBefore(wire, Head(send_queue))
    <3> SUFFICES ASSUME wire # <<>>, wire[Len(wire)][1] < send_tmp_buff + 1
                 PROVE  wire[Len(wire)][1] < Head(send_queue)
      BY <2>5 DEF EndsBefore
    <3>1. Len(wire) \in 1 .. Len(wire)
      BY <1>t, LenFacts
    <3>2. wire[Len(wire)] \in Bytes
      BY <1>t, <3>1, LenFacts
    <3>3. wire[Len(wire)][1] \in Nat
      BY <1>0, <3>2 DEF Bytes
    <3>4. send_tmp_buff \in Nat
      BY <1>t, SendAssumption
    <3> QED
      BY <2>4, <3>3, <3>4
  <2> QED
    BY <1>i, <2>1, <2>2, <2>3, <2>5 DEF Reached
<1>5. ASSUME NEW a \in Agents, PopFront(a)
      PROVE  InOrder(wire') /\ (broken \/ Reached(send_tmp_buff))'
  <2>1. pc[a] = "pop" /\ pc' = [pc EXCEPT ![a] = "start"]
    BY <1>5 DEF PopFront, Goto
  <2>2. Fetched /\ Fetched'
    BY <1>i, <2>1, MovesOnly DEF Quiet, Labels
  <2> QED
    BY <1>1, <1>5, <2>2 DEF PopFront
<1>6. ASSUME NEW a \in Agents, StartWrite(a)
      PROVE  InOrder(wire') /\ (broken \/ Reached(send_tmp_buff))'
  <2>1. /\ pc[a] = "start" /\ pc' = [pc EXCEPT ![a] = "idle"]
        /\ ops' = Append(ops, [package |-> send_tmp_buff, from |-> 0])
        /\ UNCHANGED <<posted, wire, broken, send_tmp_buff, cur_size>>
    BY <1>6 DEF StartWrite, Goto
  <2>2. ops = <<>> /\ posted = <<>>
    BY <1>i, <2>1 DEF Single, Quiet
  <2>3. Fetched
    BY <1>i, <2>1, MovesOnly DEF Quiet, Labels
  <2>4. cur_size[send_tmp_buff] = 0
    BY <1>i, <2>3 DEF Order
  <2>5. ops' # <<>> /\ Head(ops') = [package |-> send_tmp_buff, from |-> 0]
    BY <2>1, <2>2
  <2>6. broken \/ EndsAt(wire, send_tmp_buff, 0)
    BY <1>i, <2>2, <2>3 DEF Reached, EndsAt
  <2> QED
    BY <1>i, <2>1, <2>2, <2>4, <2>5, <2>6 DEF Reached
<1>7. ASSUME Transfer PROVE InOrder(wire') /\ (broken \/ Reached(send_tmp_buff))'
  <2> DEFINE n == send_tmp_buff
  <2> DEFINE f == cur_size[send_tmp_buff]
  <2>1. /\ ops # <<>> /\ ~ broken /\ ops' = Tail(ops)
        /\ UNCHANGED <<send_tmp_buff, cur_size>>
    BY <1>7 DEF Transfer
  <2>2. Head(ops) = [package |-> n, from |-> f] /\ EndsAt(wire, n, f)
    BY <1>i, <2>1 DEF Reached
  <2>3. n \in Packages
    BY <1>i, <1>t, <2>1 DEF Shape, Packages
  <2>4. f \in 0 .. PackageSize - 1
    BY <1>t, <2>3
  <2>5. PICK k \in 1 .. PackageSize - f :
              wire' = wire \o Piece(n, f, k) /\ posted' = Append(posted, k)
    <3>1. \E k \in 1 .. PackageSize - Head(ops).from :
            /\ wire' = wire \o Piece(Head(ops).package, Head(ops).from, k)
            /\ posted' = Append(posted, k)
      BY <1>7 DEF Transfer, Piece
    <3>2. Head(ops).package = n /\ Head(ops).from = f
      BY <2>2
    <3> HIDE DEF n, f
    <3> QED
      BY <3>1, <3>2
  <2> HIDE DEF n, f
  <2>6. InOrder(wire') /\ EndsAt(wire', n, f + k)
    BY <1>i, <1>t, <2>2, <2>3, <2>4, <2>5, WireGrows
  <2>7. posted = <<>> /\ Len(ops) = 1
    <3> DEFINE p == Len(ops)
    <3> DEFINE q == Len(posted)
    <3>1. p \in Nat /\ q \in Nat /\ p > 0
      BY <1>t, <2>1, LenFacts
    <3>2. p + q <= 1
      BY <1>i DEF Single
    <3> HIDE DEF p, q
    <3>3. q = 0 /\ p = 1
      BY <3>1, <3>2
    <3> USE DEF p, q
    <3> QED
      BY <1>t, <3>3, LenFacts
  <2>8. ops' = <<>>
    BY <1>t, <2>1, <2>7, TailFacts, LenFacts
  <2>9. posted' # <<>> /\ Head(posted') = k
    BY <2>5, <2>7
  <2>10. k > 0 /\ f + k <= PackageSize
    BY <1>0, <2>4
  <2> QED
    BY <2>1, <2>6, <2>8, <2>9, <2>10 DEF Reached, n, f
<1>8. ASSUME Break \/ Fail \/ UNCHANGED vars
      PROVE  InOrder(wire') /\ (broken \/ Reached(send_tmp_buff))'
  <2>1. CASE Break \/ Fail
    BY <1>i, <2>1 DEF Break, Fail
  <2>2. CASE UNCHANGED vars
    BY <1>1, <2>2 DEF vars, Fetched, socketVars
  <2> QED
    BY <1>8, <2>1, <2>2
<1>9. ASSUME posted # <<>>
      PROVE  /\ ops = <<>> /\ Tail(posted) = <<>>
             /\ \A a \in Agents : pc[a] \in Quiet
             /\ ~ Fetched
             /\ send_tmp_buff \in Packages /\ cur_size[send_tmp_buff] \in Nat
             /\ Head(posted) \in Nat
             /\ broken \/ /\ Head(posted) > 0
                          /\ cur_size[send_tmp_buff] + Head(posted) <= PackageSize
                          /\ EndsAt(wire, send_tmp_buff, cur_size[send_tmp_buff] + Head(posted))
  <2>1. Len(ops) \in Nat /\ Len(posted) \in Nat /\ Len(posted) > 0
    BY <1>9, <1>t, LenFacts
  <2>2. Len(ops) + Len(posted) <= 1
    BY <1>i DEF Single
  <2>3. Len(posted) = 1 /\ Len(ops) = 0
    BY <2>1, <2>2
  <2>4. ops = <<>> /\ Tail(posted) = <<>>
    BY <1>9, <1>t, <2>3, LenFacts, TailFacts
  <2>5. \A a \in Agents : pc[a] \in Quiet
    BY <1>9, <1>i DEF Single
  <2>6. ~ Fetched
    BY <2>5 DEF Fetched, Quiet
  <2>7. send_tmp_buff \in Packages
    BY <1>9, <1>i, <1>t DEF Shape, Packages
  <2>8. cur_size[send_tmp_buff] \in Nat /\ Head(posted) \in Nat
    BY <1>0, <1>9, <1>t, <2>7, TailFacts
  <2> QED
    BY <1>9, <1>i, <2>4, <2>5, <2>6, <2>7, <2>8 DEF Reached
<1>10. ASSUME HandleError PROVE InOrder(wire') /\ (broken \/ Reached(send_tmp_buff))'
  <2>1. posted # <<>> /\ Head(posted) = 0 /\ UNCHANGED <<wire, broken>>
    BY <1>10 DEF HandleError
  <2>2. broken
    BY <1>9, <2>1
  <2> QED
    BY <1>i, <2>1, <2>2
<1>11. ASSUME HandleRest PROVE InOrder(wire') /\ (broken \/ Reached(send_tmp_buff))'
  <2> DEFINE g == cur_size[send_tmp_buff] + Head(posted)
  <2>1. /\ posted # <<>> /\ posted' = Tail(posted)
        /\ UNCHANGED <<send_tmp_buff, wire, broken>>
        /\ cur_size' = [cur_size EXCEPT ![send_tmp_buff] = g]
        /\ ops' = Append(ops, [package |-> send_tmp_buff, from |-> g])
    BY <1>11 DEF HandleRest
  <2>2. /\ ops' # <<>> /\ Head(ops') = [package |-> send_tmp_buff, from |-> g]
        /\ posted' = <<>>
    BY <1>9, <2>1
  <2>3. cur_size'[send_tmp_buff] = g
    BY <1>9, <1>t, <2>1
  <2>4. broken \/ EndsAt(wire, send_tmp_buff, g)
    BY <1>9, <2>1
  <2> HIDE DEF g
  <2> QED
    BY <1>i, <2>1, <2>2, <2>3, <2>4 DEF Reached
<1>12. ASSUME HandleWritten PROVE InOrder(wire') /\ (broken \/ Reached(send_tmp_buff))'
  <2>1. /\ posted # <<>> /\ posted' = Tail(posted)
        /\ cur_size[send_tmp_buff] + Head(posted) >= PackageSize
        /\ UNCHANGED <<send_tmp_buff, wire, broken, ops, cur_size>>
        /\ pc[Io] = "idle" /\ pc' = [pc EXCEPT ![Io] = "empty?"]
    BY <1>12 DEF HandleWritten, Goto, Written
  <2>2. ops' = <<>> /\ posted' = <<>> /\ ~ Fetched
    BY <1>9, <2>1
  <2>3. ~ Fetched'
    BY <1>0, <1>i, <2>1, <2>2, MovesBeside DEF Labels
  <2>4. broken \/ EndsAt(wire, send_tmp_buff, PackageSize)
    <3>1. broken \/ cur_size[send_tmp_buff] + Head(posted) = PackageSize
      BY <1>0, <1>9, <2>1
    <3> QED
      BY <1>9, <2>1, <3>1
  <2>5. broken \/ EndsBefore(wire, send_tmp_buff + 1)
    <3> SUFFICES ASSUME ~ broken PROVE EndsBefore(wire, send_tmp_buff + 1)
      OBVIOUS
    <3>1. wire[Len(wire)] = <<send_tmp_buff, PackageSize>>
      BY <1>0, <2>4 DEF EndsAt
    <3>2. send_tmp_buff < send_tmp_buff + 1
      <4>1. send_tmp_buff \in Nat
        BY <1>0, <1>9, <2>1
      <4> QED
        BY <4>1
    <3> QED
      BY <3>1, <3>2 DEF EndsBefore
  <2> QED
    BY <1>i, <2>1, <2>2, <2>3, <2>5 DEF Reached
<1> QED
  BY <1>0, <1>2, <1>3, <1>4, <1>5, <1>6, <1>7, <1>8, <1>10, <1>11, <1>12
  DEF Next, Calling, Starting, Handling

-----------------------------------------------------------------------------
(* For any callers, queue and packages: unless a caller started a write      *)
(* beside another, the peer reads whole packages in the order they were pushed.       *)
THEOREM WireCorrect == Spec => []WireInOrder
<1>1. Init => OInv
  BY TypesInit, SingleInit, OrderInit DEF OInv, SInv
<1>2. OInv /\ [Next]_vars => OInv'
  <2>1. OInv => SInv /\ TypeOK /\ Shape /\ (overlap \/ Single) /\ PendingGoes
                /\ (overlap \/ Order)
    BY DEF OInv, SInv
  <2>2. OInv /\ [Next]_vars => SInv'
    BY <2>1, TypesStep, SingleStep, PendingStep DEF SInv
  <2> QED
    BY <2>1, <2>2, OrderStep, WireStep DEF OInv
<1>3. OInv => WireInOrder
  <2> SUFFICES ASSUME OInv, ~ overlap PROVE WireInOrder
    BY DEF WireInOrder
  <2>1. wire \in Seq(Bytes)
    BY DEF OInv, SInv, TypeOK, Bytes
  <2>2. DOMAIN wire = 1 .. Len(wire)
    BY <2>1
  <2>3. InOrder(wire)
    BY DEF OInv
  <2> QED
    BY <2>2, <2>3 DEF InOrder, WireInOrder
<1> QED
  BY <1>1, <1>2, <1>3, PTL DEF Spec
=============================================================================
