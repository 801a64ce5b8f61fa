--------------------------- MODULE Sockets_proofs ---------------------------
(***************************************************************************)
(* Proofs about MSyncSocket, for every size, room and width of total_bytes,*)
(* and about MCoroutineSocket, for any finite number of coroutines, any    *)
(* packages and any connections.                                           *)
(***************************************************************************)
EXTENDS MSyncSocket, MCoroutineSocket, FiniteSetTheorems, TLAPS

Ops == {"none", "write", "read", "read_now"}
CallRecord == [op : Ops, size : Nat, total : Nat]

SyncTypes ==
  /\ call \in [Ends -> CallRecord]
  /\ calls \in [Ends -> Nat]
  /\ pipe \in [Ends -> Seq(Byte)]
  /\ closed \in [Ends -> BOOLEAN]
  /\ reset \in [Ends -> BOOLEAN]
  /\ buff \in [Ends -> Seq(Byte)]
  /\ wrote \in [Ends -> Nat]
  /\ took \in Seq(Byte)
  /\ result \in [Ends -> CallRecord]

(* A write whose size total_bytes can hold counts what it has handed over.   *)
Writing == \A e \in Ends :
  call[e].op = "write" =>
    /\ call[e].total < Wrap
    /\ call[e].size < Wrap => wrote[e] = call[e].total

(* A buffer has the size asked for.  The server's read counts what it has    *)
(* taken and has it in its buffer.                                           *)
Prefix == \A i \in 1 .. Len(took) : buff["server"][i] = took[i]
Reading ==
  /\ \A e \in Ends : InRead(e) => Len(buff[e]) = call[e].size
  /\ InRead("server") => Len(took) = call["server"].total /\ Prefix

(* The server has a socket once it has accepted; only it reads at once; and  *)
(* nobody is inside a call on a socket that is gone. *)
Roles ==
  /\ call["server"].op # "none" => linked = "yes"
  /\ call["client"].op # "read_now"
  /\ \A e \in Ends : closed[e] => call[e].op = "none"

(* A connection is reset by an end that is gone and has not read everything, *)
(* and never will. *)
Told == \A e \in Ends : reset[e] => closed[Peer(e)] /\ pipe[Peer(e)] # <<>>

IInv ==
  /\ SyncTypes /\ TypeOK
  /\ Writing /\ Reading /\ Roles /\ Told
  /\ WriteReturns /\ ServerReadReturns /\ ClientReadFails

-----------------------------------------------------------------------------
LEMMA ModBelow ==
  ASSUME NEW n \in Nat, NEW w \in Nat \ {0}
  PROVE  n % w \in Nat /\ n % w < w /\ n % w <= n /\ (n < w => n % w = n)
<1>1. n % w \in 0 .. w - 1
  OBVIOUS
<1>2. n < w => n % w = n
  OBVIOUS
<1>3. n >= w => n % w <= n
  BY <1>1
<1> QED
  BY <1>1, <1>2, <1>3

LEMMA ConcatFacts ==
  ASSUME NEW S, NEW s \in Seq(S), NEW t \in Seq(S)
  PROVE  /\ s \o t \in Seq(S)
         /\ Len(s \o t) = Len(s) + Len(t)
         /\ \A i \in 1 .. Len(s) : (s \o t)[i] = s[i]
         /\ \A i \in 1 .. Len(t) : (s \o t)[Len(s) + i] = t[i]
  OBVIOUS

LEMMA SubSeqFacts ==
  ASSUME NEW S, NEW s \in Seq(S), NEW n \in 1 .. Len(s)
  PROVE  /\ SubSeq(s, 1, n) \in Seq(S)
         /\ Len(SubSeq(s, 1, n)) = n
         /\ \A i \in 1 .. n : SubSeq(s, 1, n)[i] = s[i]
         /\ SubSeq(s, n + 1, Len(s)) \in Seq(S)
         /\ Len(SubSeq(s, n + 1, Len(s))) = Len(s) - n
  OBVIOUS

LEMMA InvSync == IInv => SyncInv
  BY DEF IInv, SyncInv

LEMMA InitInv == Init => IInv
<1> SUFFICES ASSUME Init PROVE IInv
  OBVIOUS
<1> USE BoundsAssumption DEF Init, Ends
<1>1. SyncTypes
  BY DEF SyncTypes, NoCall, CallRecord, Ops
<1>2. TypeOK
  BY DEF TypeOK, NoCall
<1>3. Writing /\ Reading /\ Roles /\ Told
  BY DEF Writing, Reading, Roles, Told, InRead, NoCall
<1>4. WriteReturns /\ ServerReadReturns /\ ClientReadFails
  BY DEF WriteReturns, ServerReadReturns, ClientReadFails, NoCall
<1> QED
  BY <1>1, <1>2, <1>3, <1>4 DEF IInv

-----------------------------------------------------------------------------
(* Setting the connection up, and giving it up, disturbs no call.            *)
LEMMA SetupInv ==
  ASSUME IInv,
         bind \/ listen \/ connect \/ ConnectFails \/ accept \/ (\E e \in Ends : Close(e))
  PROVE  IInv'
<1> USE DEF bind, listen, connect, ConnectFails, accept, Close, setup, Beside
<1>1. UNCHANGED <<call, calls, pipe, reset, buff, wrote, took, result>>
  OBVIOUS
<1>2. closed' \in [Ends -> BOOLEAN] /\ \A e \in Ends : closed[e] => closed'[e]
  BY DEF IInv, SyncTypes
<1>3. /\ linked' \in {"no", "backlog", "yes"}
      /\ acceptor' \in {"open", "bound", "listening", "elsewhere"}
      /\ adapt' \in {"empty", "unconnected", "connected"}
      /\ (adapt' = "connected" <=> linked' # "no")
      /\ (linked = "yes" => linked' = "yes")
  BY DEF IInv, TypeOK
<1>4. SyncTypes' /\ TypeOK'
  BY <1>1, <1>2, <1>3 DEF IInv, SyncTypes, TypeOK
<1>5. \A e \in Ends : closed'[e] => call[e].op = "none"
  BY DEF IInv, SyncTypes, Roles
<1>6. Writing' /\ Reading' /\ Roles'
  BY <1>1, <1>3, <1>5 DEF IInv, Writing, Reading, Prefix, Roles, InRead
<1>7. Told'
  BY <1>1, <1>2 DEF IInv, Told, Peer, Ends
<1>8. WriteReturns' /\ ClientReadFails'
  BY <1>1 DEF IInv, WriteReturns, ClientReadFails
<1>9. ServerReadReturns'
  BY <1>1, <1>2 DEF IInv, ServerReadReturns, InRead, Ends
<1> QED
  BY <1>4, <1>6, <1>7, <1>8, <1>9 DEF IInv

(* A reset truncates what is on its way to an end that is still there.       *)
LEMMA ResetInv ==
  ASSUME IInv, NEW e \in Ends, Reset(e)
  PROVE  IInv'
<1>1. PICK n \in 0 .. Len(pipe[e]) : pipe' = [pipe EXCEPT ![e] = SubSeq(@, 1, n)]
  BY DEF Reset
<1>2. /\ closed[Peer(e)] /\ ~ closed[e] /\ pipe[Peer(e)] # <<>> /\ Peer(e) \in Ends
      /\ reset' = [reset EXCEPT ![e] = TRUE] /\ reset \in [Ends -> BOOLEAN]
      /\ pipe \in [Ends -> Seq(Byte)] /\ pipe[e] \in Seq(Byte)
      /\ UNCHANGED <<setup, call, calls, closed, buff, wrote, took, result>>
  BY DEF IInv, SyncTypes, Reset, Peer, Ends
<1>3. /\ SubSeq(pipe[e], 1, n) \in Seq(Byte) /\ Len(SubSeq(pipe[e], 1, n)) = n
      /\ n \in Nat /\ n <= Len(pipe[e])
  BY <1>1, <1>2
<1>4. /\ pipe' \in [Ends -> Seq(Byte)] /\ Len(pipe'[e]) <= Len(pipe[e])
      /\ \A d \in Ends : d # e => pipe'[d] = pipe[d] /\ reset'[d] = reset[d]
      /\ (pipe[e] = <<>> => pipe'[e] = <<>>)
      /\ reset' \in [Ends -> BOOLEAN]
  BY <1>1, <1>2, <1>3
<1>5. SyncTypes'
  BY <1>2, <1>4 DEF IInv, SyncTypes
<1>6. \A d \in Ends : Len(pipe'[d]) <= Room
  <2>1. Len(pipe[e]) <= Room /\ Room \in Nat /\ Len(pipe[e]) \in Nat /\ Len(pipe'[e]) \in Nat
    BY <1>2, <1>4, BoundsAssumption DEF IInv, TypeOK
  <2>2. Len(pipe'[e]) <= Room
    BY <1>4, <2>1
  <2> QED
    BY <1>4, <2>2 DEF IInv, TypeOK
<1>7. TypeOK'
  BY <1>2, <1>4, <1>6 DEF IInv, SyncTypes, TypeOK, setup, Ends
<1>8. Writing' /\ Reading' /\ Roles'
  BY <1>2 DEF IInv, Writing, Reading, Prefix, Roles, InRead, setup
<1>9. Told'
  BY <1>2, <1>4 DEF IInv, Told, Peer, Ends
<1>10. WriteReturns' /\ ClientReadFails'
  BY <1>2 DEF IInv, WriteReturns, ClientReadFails
<1>11. ServerReadReturns'
  BY <1>2, <1>4 DEF IInv, ServerReadReturns, InRead, Ends
<1> QED
  BY <1>5, <1>7, <1>8, <1>9, <1>10, <1>11 DEF IInv

LEMMA CallWriteInv ==
  ASSUME IInv, NEW e \in Ends, NEW size \in Sizes, CallWrite(e, size)
  PROVE  IInv'
<1> USE BoundsAssumption DEF CallWrite, setup
<1>1. call \in [Ends -> CallRecord] /\ wrote \in [Ends -> Nat] /\ size \in Nat
        /\ calls \in [Ends -> Nat]
  BY DEF IInv, SyncTypes
<1>2. /\ call'[e] = [op |-> "write", size |-> size, total |-> 0]
      /\ \A d \in Ends : d # e => call'[d] = call[d] /\ wrote'[d] = wrote[d]
      /\ wrote'[e] = 0
      /\ call' \in [Ends -> CallRecord] /\ wrote' \in [Ends -> Nat] /\ calls' \in [Ends -> Nat]
      /\ UNCHANGED <<setup, pipe, closed, reset, buff, took, result>>
  BY <1>1 DEF CallRecord, Ops
<1>3. SyncTypes'
  BY <1>2 DEF IInv, SyncTypes
<1>4. TypeOK'
  BY <1>1, <1>2 DEF IInv, TypeOK
<1>5. Writing'
  BY <1>2 DEF IInv, Writing
<1>6. Reading' /\ Roles' /\ Told'
  BY <1>2 DEF IInv, Reading, Prefix, Roles, Told, InRead, HasSocket, Ends, setup
<1>7. WriteReturns' /\ ClientReadFails' /\ ServerReadReturns'
  BY <1>2 DEF IInv, WriteReturns, ClientReadFails, ServerReadReturns, InRead, Ends
<1> QED
  BY <1>3, <1>4, <1>5, <1>6, <1>7 DEF IInv

(* One write_some.                                                           *)
LEMMA WriteSomeInv ==
  ASSUME IInv, NEW e \in Ends, WriteSome(e)
  PROVE  IInv'
<1> USE BoundsAssumption
<1>1. PICK n \in 1 .. call[e].size - call[e].total :
        /\ Len(pipe[Peer(e)]) + n <= Room
        /\ pipe' = [pipe EXCEPT ![Peer(e)] = @ \o Slice(e, n)]
        /\ HandedOver(e, call[e].total, n)
        /\ call' = [call EXCEPT ![e].total = (@ + n) % Wrap]
  BY DEF WriteSome
<1>2. /\ call \in [Ends -> CallRecord] /\ wrote \in [Ends -> Nat] /\ calls \in [Ends -> Nat]
      /\ pipe \in [Ends -> Seq(Byte)] /\ call[e].op = "write"
      /\ call[e].size \in Nat /\ call[e].total \in Nat /\ call[e].total <= call[e].size
      /\ Peer(e) \in Ends
      /\ UNCHANGED <<setup, calls, closed, reset, buff, took, result>>
  <2>1. /\ call \in [Ends -> CallRecord] /\ wrote \in [Ends -> Nat] /\ calls \in [Ends -> Nat]
        /\ pipe \in [Ends -> Seq(Byte)]
    BY DEF IInv, SyncTypes
  <2>2. call[e].size \in Nat /\ call[e].total \in 0 .. call[e].size
    BY DEF IInv, TypeOK
  <2>3. call[e].op = "write" /\ UNCHANGED <<setup, calls, closed, reset, buff, took, result>>
    BY DEF WriteSome
  <2>4. Peer(e) \in Ends
    BY DEF Peer, Ends
  <2> QED
    BY <2>1, <2>2, <2>3, <2>4
<1>3. /\ n \in Nat /\ call[e].total + n \in Nat /\ call[e].total + n <= call[e].size
      /\ Wrap \in Nat \ {0} /\ call[e].total < Wrap
  BY <1>2 DEF IInv, Writing
<1> DEFINE k == call[e].total + n
           m == k % Wrap
<1>4. m \in Nat /\ m < Wrap /\ m <= call[e].size /\ (call[e].size < Wrap => m = k)
  <2>1. k \in Nat /\ k <= call[e].size
    BY <1>3
  <2> HIDE DEF k
  <2>2. m \in Nat /\ m < Wrap /\ m <= k /\ (k < Wrap => m = k)
    BY <1>3, <2>1, ModBelow
  <2> HIDE DEF m
  <2> QED
    BY <1>2, <1>3, <2>1, <2>2
<1>5. call' = [call EXCEPT ![e].total = m]
  BY <1>1
<1>6. /\ pipe' = [pipe EXCEPT ![Peer(e)] = @ \o Slice(e, n)]
      /\ Len(pipe[Peer(e)]) + n <= Room
      /\ wrote' = [wrote EXCEPT ![e] = IF @ = call[e].total /\ k < Astray THEN k ELSE Astray]
  BY <1>1 DEF HandedOver
<1> HIDE DEF m
<1>7. call'[e].total = m /\ call'[e].op = "write" /\ call'[e].size = call[e].size
      /\ call' \in [Ends -> CallRecord] /\ \A d \in Ends : d # e => call'[d] = call[d]
  BY <1>2, <1>4, <1>5 DEF CallRecord
<1>8. pipe' \in [Ends -> Seq(Byte)] /\ Len(pipe'[Peer(e)]) = Len(pipe[Peer(e)]) + n
      /\ \A d \in Ends : d # Peer(e) => pipe'[d] = pipe[d]
  <2>1. Slice(e, n) \in Seq(Byte) /\ Len(Slice(e, n)) = n
    BY <1>2, <1>3 DEF Slice, Byte
  <2>2. pipe[Peer(e)] \in Seq(Byte) /\ pipe'[Peer(e)] = pipe[Peer(e)] \o Slice(e, n)
    BY <1>2, <1>6
  <2>3. /\ pipe[Peer(e)] \o Slice(e, n) \in Seq(Byte)
        /\ Len(pipe[Peer(e)] \o Slice(e, n)) = Len(pipe[Peer(e)]) + n
    <3> DEFINE s == pipe[Peer(e)]
               t == Slice(e, n)
    <3>1. s \in Seq(Byte) /\ t \in Seq(Byte) /\ Len(t) = n
      BY <2>1, <2>2
    <3> HIDE DEF s, t
    <3>2. s \o t \in Seq(Byte) /\ Len(s \o t) = Len(s) + Len(t)
      BY ONLY <3>1, ConcatFacts
    <3> QED
      BY <3>1, <3>2 DEF s, t
  <2>4. pipe' \in [Ends -> Seq(Byte)] /\ \A d \in Ends : d # Peer(e) => pipe'[d] = pipe[d]
    BY <1>2, <1>6, <2>3
  <2> QED
    BY <2>2, <2>3, <2>4
<1>9. /\ wrote' \in [Ends -> Nat] /\ \A d \in Ends : d # e => wrote'[d] = wrote[d]
      /\ call[e].size < Wrap => wrote'[e] = k
  <2>1. Astray \in Nat /\ k \in Nat /\ (call[e].size < Wrap => k < Astray)
    BY <1>2, <1>3 DEF Astray
  <2>2. call[e].size < Wrap => wrote[e] = call[e].total
    BY <1>2 DEF IInv, Writing
  <2> HIDE DEF k
  <2> QED
    BY <1>2, <1>6, <2>1, <2>2
<1>10. SyncTypes'
  BY <1>2, <1>7, <1>8, <1>9 DEF IInv, SyncTypes
<1>11. TypeOK'
  <2>1. \A d \in Ends : /\ call'[d].op \in {"none", "write", "read", "read_now"}
                        /\ call'[d].size \in Nat /\ call'[d].total \in 0 .. call'[d].size
    <3>1. m \in 0 .. call[e].size
      BY <1>2, <1>4
    <3>2. ASSUME NEW d \in Ends, d = e
          PROVE  /\ call'[d].op \in {"none", "write", "read", "read_now"}
                 /\ call'[d].size \in Nat /\ call'[d].total \in 0 .. call'[d].size
      BY <1>2, <1>7, <3>1, <3>2
    <3>3. ASSUME NEW d \in Ends, d # e
          PROVE  /\ call'[d].op \in {"none", "write", "read", "read_now"}
                 /\ call'[d].size \in Nat /\ call'[d].total \in 0 .. call'[d].size
      BY <1>7, <3>3 DEF IInv, TypeOK
    <3> QED
      BY <3>2, <3>3
  <2>2. \A d \in Ends : Len(pipe'[d]) <= Room
    BY <1>6, <1>8 DEF IInv, TypeOK
  <2>3. linked' # "yes" => pipe'["client"] = <<>>
    BY <1>2, <1>8 DEF IInv, TypeOK, Roles, Peer, Ends, setup
  <2> QED
    BY <1>2, <2>1, <2>2, <2>3 DEF IInv, TypeOK, setup
<1>12. Writing'
  BY <1>4, <1>7, <1>9 DEF IInv, Writing
<1>13. Reading' /\ Roles'
  BY <1>2, <1>7 DEF IInv, Reading, Prefix, Roles, InRead, Ends, setup
<1>14. \A d \in Ends : pipe[d] # <<>> => pipe'[d] # <<>>
  <2>1. Len(pipe[Peer(e)]) \in Nat /\ Len(pipe'[Peer(e)]) # 0
    BY <1>2, <1>3, <1>8
  <2> QED
    BY <1>8, <2>1
<1>15. Told'
  BY <1>2, <1>14 DEF IInv, Told, Peer, Ends
<1>16. WriteReturns' /\ ClientReadFails'
  BY <1>2, <1>7, <1>9 DEF IInv, WriteReturns, ClientReadFails, InRead, Ends
<1>17. ServerReadReturns'
  BY <1>2, <1>7, <1>14 DEF IInv, ServerReadReturns, InRead, Ends
<1> QED
  BY <1>10, <1>11, <1>12, <1>13, <1>15, <1>16, <1>17 DEF IInv

LEMMA WriteEndInv ==
  ASSUME IInv, NEW e \in Ends, WriteEnd(e)
  PROVE  IInv'
<1>1. PICK code \in {0, 1} : Return(e, code) /\ (code = 0 => call[e].total = call[e].size)
  BY DEF WriteEnd
<1>2. /\ call \in [Ends -> CallRecord] /\ result \in [Ends -> CallRecord] /\ call[e].op = "write"
      /\ UNCHANGED <<setup, calls, pipe, closed, reset, buff, wrote, took>>
  BY DEF IInv, SyncTypes, WriteEnd
<1>3. /\ call'[e] = NoCall /\ result'[e] = [op |-> "write", size |-> call[e].size, total |-> code]
      /\ call' \in [Ends -> CallRecord] /\ result' \in [Ends -> CallRecord]
      /\ \A d \in Ends : d # e => call'[d] = call[d] /\ result'[d] = result[d]
  BY <1>1, <1>2 DEF Return, CallRecord, NoCall, Ops
<1>4. SyncTypes'
  BY <1>2, <1>3 DEF IInv, SyncTypes
<1>5. TypeOK'
  BY <1>2, <1>3 DEF IInv, TypeOK, NoCall, setup
<1>6. Writing' /\ Reading' /\ Roles' /\ Told'
  BY <1>2, <1>3 DEF IInv, Writing, Reading, Prefix, Roles, Told, InRead, Ends, NoCall, setup
<1>7. WriteReturns'
  <2>1. code = 0 => call[e].size < Wrap /\ wrote[e] = call[e].size
    BY <1>1, <1>2 DEF IInv, Writing
  <2> QED
    BY <1>2, <1>3, <2>1 DEF IInv, WriteReturns
<1>8. ClientReadFails' /\ ServerReadReturns'
  BY <1>2, <1>3 DEF IInv, ClientReadFails, ServerReadReturns, InRead, Ends, NoCall
<1> QED
  BY <1>4, <1>5, <1>6, <1>7, <1>8 DEF IInv

-----------------------------------------------------------------------------
LEMMA CallReadInv ==
  ASSUME IInv, NEW e \in Ends, NEW size \in Sizes, NEW op \in {"read", "read_now"},
         CallRead(e, size, op)
  PROVE  IInv'
<1> USE BoundsAssumption DEF CallRead
<1>1. call \in [Ends -> CallRecord] /\ buff \in [Ends -> Seq(Byte)] /\ size \in Nat
      /\ calls \in [Ends -> Nat] /\ took \in Seq(Byte)
      /\ UNCHANGED <<setup, pipe, closed, reset, wrote, result>>
  BY DEF IInv, SyncTypes
<1> DEFINE fresh == [i \in 1 .. size |-> NoByte]
<1>2. fresh \in Seq(Byte) /\ Len(fresh) = size
  BY <1>1 DEF NoByte, Byte
<1>3. /\ call'[e] = [op |-> op, size |-> size, total |-> 0]
      /\ \A d \in Ends : d # e => call'[d] = call[d] /\ buff'[d] = buff[d]
      /\ buff'[e] = fresh
      /\ call' \in [Ends -> CallRecord] /\ buff' \in [Ends -> Seq(Byte)]
      /\ calls' \in [Ends -> Nat]
  BY <1>1, <1>2 DEF CallRecord, Ops
<1> HIDE DEF fresh
<1>4. took' \in Seq(Byte) /\ (e = "server" => took' = <<>>) /\ (e # "server" => took' = took)
  BY <1>1
<1>5. SyncTypes'
  BY <1>1, <1>3, <1>4 DEF IInv, SyncTypes
<1>6. TypeOK'
  BY <1>1, <1>3 DEF IInv, TypeOK, setup
<1>7. Writing' /\ Roles' /\ Told'
  BY <1>1, <1>3 DEF IInv, Writing, Roles, Told, HasSocket, Ends, setup
<1>8. Reading'
  <2>0. \A d \in Ends : InRead(d)' => Len(buff'[d]) = call'[d].size
    BY <1>2, <1>3 DEF IInv, Reading, InRead
  <2>1. CASE e = "server"
    <3>1. Len(took') = 0 /\ call'["server"].total = 0
      BY <1>3, <1>4, <2>1
    <3> QED
      BY <2>0, <3>1 DEF Reading, Prefix
  <2>2. CASE e # "server"
    BY <1>3, <1>4, <2>0, <2>2 DEF IInv, Reading, Prefix, InRead, Ends
  <2> QED
    BY <2>1, <2>2
<1>9. WriteReturns'
  BY <1>1, <1>3 DEF IInv, WriteReturns
<1>10. ClientReadFails'
  BY <1>1, <1>3 DEF IInv, ClientReadFails, Ends
<1>11. ServerReadReturns'
  <2>1. CASE e = "server"
    BY <1>3, <2>1 DEF ServerReadReturns, InRead
  <2>2. CASE e # "server"
    BY <1>1, <1>3, <1>4, <2>2 DEF IInv, ServerReadReturns, InRead, Ends
  <2> QED
    BY <2>1, <2>2
<1> QED
  BY <1>5, <1>6, <1>7, <1>8, <1>9, <1>10, <1>11 DEF IInv

(* One read_some.                                                            *)
LEMMA ReadSomeInv ==
  ASSUME IInv, NEW e \in Ends, ReadSome(e)
  PROVE  IInv'
<1>1. PICK n \in 1 .. call[e].size - call[e].total :
        /\ n <= Len(pipe[e])
        /\ buff' = [buff EXCEPT ![e] =
             [i \in 1 .. call[e].size |->
                IF i - call[e].total \in 1 .. n THEN pipe[e][i - call[e].total] ELSE @[i]]]
        /\ took' = IF e = "server" THEN took \o SubSeq(pipe[e], 1, n) ELSE took
        /\ pipe' = [pipe EXCEPT ![e] = SubSeq(@, n + 1, Len(@))]
        /\ call' = IF Counted(e) THEN [call EXCEPT ![e].total = @ + n] ELSE call
  BY DEF ReadSome
<1>2. /\ call \in [Ends -> CallRecord] /\ buff \in [Ends -> Seq(Byte)] /\ took \in Seq(Byte)
      /\ pipe \in [Ends -> Seq(Byte)] /\ Len(pipe[e]) \in Nat /\ Len(took) \in Nat
      /\ call[e].size \in Nat /\ call[e].total \in Nat /\ call[e].total <= call[e].size
      /\ InRead(e) /\ UNCHANGED <<setup, calls, closed, reset, wrote, result>>
  <2>1. /\ call \in [Ends -> CallRecord] /\ buff \in [Ends -> Seq(Byte)] /\ took \in Seq(Byte)
        /\ pipe \in [Ends -> Seq(Byte)]
    BY DEF IInv, SyncTypes
  <2>2. call[e].size \in Nat /\ call[e].total \in 0 .. call[e].size
    BY DEF IInv, TypeOK
  <2>3. InRead(e) /\ UNCHANGED <<setup, calls, closed, reset, wrote, result>>
    BY DEF ReadSome
  <2> QED
    BY <2>1, <2>2, <2>3
<1>3. n \in Nat /\ n >= 1 /\ n \in 1 .. Len(pipe[e]) /\ call[e].total + n <= call[e].size
  BY <1>1, <1>2
<1>4. /\ SubSeq(pipe[e], 1, n) \in Seq(Byte) /\ Len(SubSeq(pipe[e], 1, n)) = n
      /\ \A i \in 1 .. n : SubSeq(pipe[e], 1, n)[i] = pipe[e][i]
      /\ SubSeq(pipe[e], n + 1, Len(pipe[e])) \in Seq(Byte)
      /\ Len(SubSeq(pipe[e], n + 1, Len(pipe[e]))) = Len(pipe[e]) - n
  <2> DEFINE s == pipe[e]
  <2>1. s \in Seq(Byte)
    BY <1>2
  <2>2. n \in 1 .. Len(s)
    BY <1>3
  <2> HIDE DEF s
  <2>3. /\ SubSeq(s, 1, n) \in Seq(Byte) /\ Len(SubSeq(s, 1, n)) = n
        /\ \A i \in 1 .. n : SubSeq(s, 1, n)[i] = s[i]
        /\ SubSeq(s, n + 1, Len(s)) \in Seq(Byte)
        /\ Len(SubSeq(s, n + 1, Len(s))) = Len(s) - n
    BY ONLY <2>1, <2>2, SubSeqFacts
  <2> QED
    BY <2>3 DEF s
<1>5. /\ pipe' \in [Ends -> Seq(Byte)] /\ Len(pipe'[e]) = Len(pipe[e]) - n
      /\ \A d \in Ends : d # e => pipe'[d] = pipe[d]
  BY <1>1, <1>2, <1>4
<1>6. took' \in Seq(Byte) /\ (e # "server" => took' = took)
  BY <1>1, <1>2, <1>4, ConcatFacts
<1>7. /\ call' \in [Ends -> CallRecord]
      /\ \A d \in Ends : d # e => call'[d] = call[d] /\ buff'[d] = buff[d]
      /\ call'[e].op = call[e].op /\ call'[e].size = call[e].size
      /\ call'[e].total = IF e = "server" THEN call[e].total + n ELSE call[e].total
  <2>1. \A d \in Ends : d # e => buff'[d] = buff[d]
    BY <1>1, <1>2
  <2>2. CASE e = "server"
    <3>1. call' = [call EXCEPT ![e].total = call[e].total + n]
      BY <1>1, <1>2, <2>2 DEF Counted
    <3>2. call[e].total + n \in Nat
      BY <1>2, <1>3
    <3> QED
      BY <1>2, <2>1, <2>2, <3>1, <3>2 DEF CallRecord
  <2>3. CASE e # "server"
    BY <1>1, <1>2, <2>1, <2>3 DEF Counted
  <2> QED
    BY <2>2, <2>3
<1>8. /\ buff[e] \in Seq(Byte) /\ Len(buff[e]) = call[e].size
      /\ e = "server" => Len(took) = call[e].total /\ Prefix
  BY <1>2 DEF IInv, Reading
<1>9. /\ buff'[e] \in Seq(Byte) /\ Len(buff'[e]) = call[e].size
      /\ \A i \in 1 .. call[e].total : buff'[e][i] = buff[e][i]
      /\ \A i \in 1 .. n : buff'[e][call[e].total + i] = pipe[e][i]
  <2> DEFINE b == [i \in 1 .. call[e].size |->
               IF i - call[e].total \in 1 .. n THEN pipe[e][i - call[e].total] ELSE buff[e][i]]
  <2>1. buff'[e] = b
    BY <1>1, <1>2
  <2>2. \A i \in 1 .. call[e].size : b[i] \in Byte
    <3> SUFFICES ASSUME NEW i \in 1 .. call[e].size PROVE b[i] \in Byte
      OBVIOUS
    <3>1. CASE i - call[e].total \in 1 .. n
      <4>1. i - call[e].total \in 1 .. Len(pipe[e])
        BY <1>2, <1>3, <3>1
      <4>2. pipe[e][i - call[e].total] \in Byte
        BY <1>2, <4>1
      <4> QED
        BY <3>1, <4>2
    <3>2. CASE i - call[e].total \notin 1 .. n
      <4>1. buff[e][i] \in Byte
        BY <1>8
      <4> QED
        BY <3>2, <4>1
    <3> QED
      BY <3>1, <3>2
  <2>3. b \in Seq(Byte) /\ Len(b) = call[e].size
    <3> DEFINE z == call[e].size
    <3>1. z \in Nat /\ b \in [1 .. z -> Byte]
      BY <1>2, <2>2
    <3> HIDE DEF b, z
    <3>2. b \in Seq(Byte) /\ Len(b) = z
      BY <3>1
    <3> QED
      BY <3>2 DEF z
  <2>4. \A i \in 1 .. call[e].total : b[i] = buff[e][i]
    BY <1>2, <1>3
  <2>5. ASSUME NEW i \in 1 .. n PROVE b[call[e].total + i] = pipe[e][i]
    <3>1. /\ call[e].total + i \in 1 .. call[e].size
          /\ (call[e].total + i) - call[e].total = i
      BY <1>2, <1>3
    <3> QED
      BY <2>5, <3>1
  <2> HIDE DEF b
  <2> QED
    BY <2>1, <2>3, <2>4, <2>5
<1>10. buff' \in [Ends -> Seq(Byte)]
  <2>1. \A d \in Ends : buff'[d] \in Seq(Byte)
    BY <1>2, <1>7, <1>9
  <2>2. DOMAIN buff' = Ends /\ buff' = [d \in Ends |-> buff'[d]]
    BY <1>1, <1>2
  <2> QED
    BY <2>1, <2>2
<1>11. SyncTypes'
  BY <1>2, <1>5, <1>6, <1>7, <1>10 DEF IInv, SyncTypes
<1>12. TypeOK'
  <2>1. \A d \in Ends : /\ call'[d].op \in {"none", "write", "read", "read_now"}
                        /\ call'[d].size \in Nat /\ call'[d].total \in 0 .. call'[d].size
    <3>1. \A d \in Ends : /\ call[d].op \in {"none", "write", "read", "read_now"}
                          /\ call[d].size \in Nat /\ call[d].total \in 0 .. call[d].size
      BY DEF IInv, TypeOK
    <3>2. call'[e].total \in 0 .. call[e].size
      BY <1>2, <1>3, <1>7
    <3> QED
      BY <1>7, <3>1, <3>2
  <2>2. \A d \in Ends : Len(pipe'[d]) <= Room
    <3>1. Len(pipe[e]) <= Room /\ Room \in Nat
      BY BoundsAssumption DEF IInv, TypeOK
    <3>2. Len(pipe'[e]) <= Room
      BY <1>2, <1>3, <1>5, <3>1
    <3> QED
      BY <1>5, <3>2 DEF IInv, TypeOK
  <2>3. linked' # "yes" => pipe'["client"] = <<>>
    <3> SUFFICES ASSUME linked # "yes" PROVE pipe'["client"] = <<>>
      BY <1>2 DEF setup
    <3>1. pipe["client"] = <<>> /\ Len(pipe["client"]) = 0
      BY DEF IInv, TypeOK
    <3>2. e # "client"
      BY <1>3, <3>1
    <3> QED
      BY <1>5, <3>1, <3>2 DEF Ends
  <2> QED
    BY <1>2, <2>1, <2>2, <2>3 DEF IInv, TypeOK, setup
<1>13. Writing' /\ Roles' /\ Told'
  <2>1. Writing' /\ Roles'
    BY <1>2, <1>7 DEF IInv, Writing, Roles, InRead, Ends, setup
  <2>2. ~ closed[e]
    BY <1>2 DEF IInv, Roles, InRead
  <2>3. Told'
    BY <1>2, <1>5, <2>2 DEF IInv, Told, Peer, Ends
  <2> QED
    BY <2>1, <2>3
<1>14. Reading'
  <2>1. \A d \in Ends : InRead(d)' => Len(buff'[d]) = call'[d].size
    BY <1>7, <1>9 DEF IInv, Reading, InRead
  <2>2. CASE e = "server"
    <3>1. /\ Len(took') = Len(took) + n
          /\ \A i \in 1 .. Len(took) : took'[i] = took[i]
          /\ \A i \in 1 .. n : took'[Len(took) + i] = pipe[e][i]
      <4> DEFINE t == SubSeq(pipe[e], 1, n)
      <4>1. took' = took \o t /\ t \in Seq(Byte) /\ Len(t) = n
              /\ \A i \in 1 .. n : t[i] = pipe[e][i]
        BY <1>1, <1>4, <2>2
      <4> HIDE DEF t
      <4>2. /\ Len(took \o t) = Len(took) + Len(t)
            /\ \A i \in 1 .. Len(took) : (took \o t)[i] = took[i]
            /\ \A i \in 1 .. Len(t) : (took \o t)[Len(took) + i] = t[i]
        BY <1>2, <4>1, ConcatFacts
      <4> QED
        BY <4>1, <4>2
    <3>2. Len(took') = call'[e].total
      BY <1>7, <1>8, <2>2, <3>1
    <3>3. ASSUME NEW i \in 1 .. Len(took') PROVE buff'[e][i] = took'[i]
      <4>1. CASE i \in 1 .. Len(took)
        BY <1>8, <1>9, <2>2, <3>1, <4>1 DEF Prefix
      <4>2. CASE i \notin 1 .. Len(took)
        <5>1. i - Len(took) \in 1 .. n /\ Len(took) + (i - Len(took)) = i
          BY <1>2, <1>3, <3>1, <4>2
        <5>2. took'[Len(took) + (i - Len(took))] = pipe[e][i - Len(took)]
          BY <3>1, <5>1
        <5>3. buff'[e][Len(took) + (i - Len(took))] = pipe[e][i - Len(took)]
          BY <1>8, <1>9, <2>2, <5>1
        <5> QED
          BY <5>1, <5>2, <5>3
      <4> QED
        BY <4>1, <4>2
    <3> QED
      BY <2>1, <2>2, <3>2, <3>3 DEF Reading, Prefix
  <2>3. CASE e # "server"
    BY <1>6, <1>7, <2>1, <2>3 DEF IInv, Reading, Prefix, InRead, Ends
  <2> QED
    BY <2>2, <2>3
<1>15. WriteReturns' /\ ClientReadFails'
  BY <1>2, <1>7 DEF IInv, WriteReturns, ClientReadFails, InRead, Ends
<1>16. ServerReadReturns'
  <2>1. CASE e = "server"
    BY <1>2, <1>7, <2>1 DEF ServerReadReturns, InRead
  <2>2. CASE e = "client"
    <3>1. ~ closed["client"]
      BY <1>2, <2>2 DEF IInv, Roles, InRead
    <3> QED
      BY <1>2, <1>6, <1>7, <2>2, <3>1 DEF IInv, ServerReadReturns, InRead, Ends
  <2> QED
    BY <2>1, <2>2 DEF Ends
<1> QED
  BY <1>11, <1>12, <1>13, <1>14, <1>15, <1>16 DEF IInv

LEMMA ReadEndInv ==
  ASSUME IInv, NEW e \in Ends, ReadEnd(e)
  PROVE  IInv'
<1>1. PICK code \in {0, 1} :
        /\ Return(e, code)
        /\ \/ ReadDone(e) /\ code = 0
           \/ ~ ReadDone(e) /\ closed[Peer(e)] /\ code = IF e = "server" THEN 0 ELSE 1
           \/ ~ ReadDone(e) /\ (reset[e] \/ ~ Connected) /\ code = 1
  BY DEF ReadEnd
<1>2. /\ call \in [Ends -> CallRecord] /\ result \in [Ends -> CallRecord] /\ InRead(e)
      /\ took \in Seq(Byte)
      /\ UNCHANGED <<setup, calls, pipe, closed, reset, buff, wrote, took>>
  BY DEF IInv, SyncTypes, ReadEnd
<1>3. /\ call'[e] = NoCall
      /\ result'[e] = [op |-> call[e].op, size |-> call[e].size, total |-> code]
      /\ call' \in [Ends -> CallRecord] /\ result' \in [Ends -> CallRecord]
      /\ \A d \in Ends : d # e => call'[d] = call[d] /\ result'[d] = result[d]
  BY <1>1, <1>2 DEF Return, CallRecord, NoCall, Ops
<1>4. SyncTypes'
  BY <1>2, <1>3 DEF IInv, SyncTypes
<1>5. TypeOK'
  BY <1>2, <1>3 DEF IInv, TypeOK, NoCall, setup
<1>6. Writing' /\ Reading' /\ Roles' /\ Told'
  BY <1>2, <1>3 DEF IInv, Writing, Reading, Prefix, Roles, Told, InRead, Ends, NoCall, setup
<1>7. WriteReturns'
  BY <1>2, <1>3 DEF IInv, WriteReturns, InRead, NoCall
<1>8. ClientReadFails'
  <2>1. e = "client" /\ call[e].size > 0 /\ call[e].op = "read" => code = 1
    BY <1>1, <1>2 DEF IInv, ClientReadFails, ReadDone
  <2> QED
    BY <1>2, <1>3, <2>1 DEF IInv, ClientReadFails, Ends, NoCall
<1>9. ServerReadReturns'
  <2>1. CASE e = "server"
    <3>1. Prefix /\ Len(took) = call[e].total /\ call[e].op \in {"read", "read_now"}
      BY <1>1, <1>2, <2>1 DEF IInv, Reading, InRead
    <3>2. code # 0 => closed["client"] /\ pipe["client"] # <<>>
      BY <1>1, <1>2, <2>1, <3>1 DEF IInv, Roles, Told, Connected, Peer
    <3>3. code = 0 /\ Len(took) < call[e].size => closed["client"] \/ call[e].op = "read_now"
      <4> SUFFICES ASSUME code = 0, Len(took) < call[e].size, call[e].op = "read"
                   PROVE  closed["client"]
        BY <3>1
      <4>1. call[e].size \in Nat /\ Len(took) \in Nat
        BY <1>2 DEF IInv, TypeOK
      <4>2. ~ ReadDone(e)
        BY <3>1, <4>1 DEF ReadDone
      <4> QED
        BY <1>1, <2>1, <4>2 DEF Peer
    <3> QED
      BY <1>2, <1>3, <2>1, <3>1, <3>2, <3>3 DEF ServerReadReturns, Prefix
  <2>2. CASE e # "server"
    BY <1>2, <1>3, <2>2 DEF IInv, ServerReadReturns, InRead, Ends
  <2> QED
    BY <2>1, <2>2
<1> QED
  BY <1>4, <1>5, <1>6, <1>7, <1>8, <1>9 DEF IInv

-----------------------------------------------------------------------------
(* For every size, every room in the connection and every split of the data  *)
(* into partial writes and short reads: a write that returns 0 has handed    *)
(* over each byte once and in order, and no size that total_bytes cannot     *)
(* hold ever does; the server's reads leave the stream's next bytes, and     *)
(* fail only once the client has closed without having read all that the     *)
(* server wrote; the client's read of a byte or more only fails.             *)
THEOREM SyncCorrect == Spec => []SyncInv
<1>1. IInv /\ [Next]_vars => IInv'
  <2> SUFFICES ASSUME IInv, [Next]_vars PROVE IInv'
    OBVIOUS
  <2>1. CASE bind \/ listen \/ connect \/ ConnectFails \/ accept
               \/ (\E e \in Ends : Close(e))
    BY <2>1, SetupInv
  <2>2. ASSUME NEW e \in Ends, Run(e) PROVE IInv'
    BY <2>2, WriteSomeInv, WriteEndInv, ReadSomeInv, ReadEndInv DEF Run
  <2>3. ASSUME NEW e \in Ends, NEW size \in Sizes,
               CallWrite(e, size) \/ CallRead(e, size, "read") \/ CallRead(e, size, "read_now")
        PROVE  IInv'
    BY <2>3, CallWriteInv, CallReadInv
  <2>4. ASSUME NEW e \in Ends, Reset(e) PROVE IInv'
    BY <2>4, ResetInv
  <2>5. CASE UNCHANGED vars
    BY <2>5 DEF vars, setup, IInv, SyncTypes, TypeOK, Writing, Reading, Prefix, Roles, Told, InRead,
                WriteReturns, ServerReadReturns, ClientReadFails
  <2> QED
    BY <2>1, <2>2, <2>3, <2>4, <2>5 DEF Next
<1> QED
  BY InitInv, InvSync, <1>1, PTL DEF Spec
-----------------------------------------------------------------------------
(* MCoroutineSocket *)

(* What is to come on a socket, and what has come.                           *)
PartAfter(part) == IF part \in {"empty", "body"} THEN "rest" ELSE "body"
Follows(u, v) ==
  IF u[2] = "rest" THEN v[1] = u[1] + 1 /\ v[2] \in Heads
                   ELSE v = <<u[1], PartAfter(u[2])>>
Done == {i \in Coros : coro[i] = "done"}
Idle == \A i \in Coros : coro[i] \notin UnderWay
Entries == Bytes \X Bytes

CoroTypes ==
  /\ accepting \in {"waiting", "posted"}
  /\ open \in BOOLEAN /\ close_flag \in BOOLEAN /\ recv_pending \in BOOLEAN
  /\ lost \in BOOLEAN /\ overlap \in BOOLEAN /\ cut \in BOOLEAN /\ polled \in BOOLEAN
  /\ coro \in [Coros -> Stages]
  /\ need \in [Coros -> 0 .. 3]
  /\ tmp_buff \in Bytes \X Bytes
  /\ node \in [head : Bytes, body : Bytes, cur : Nat, total : {0, 2, 3},
               kind : Parts \cup {"none"}, analyzed : BOOLEAN]
  /\ completed \in Seq(Entries) /\ pushed \in Seq(Entries)
  /\ stream \in Seq(Units)
  /\ sent \in 0 .. MaxPackages /\ first \in 1 .. MaxPackages + 1
  /\ notices \in Nat /\ notices <= Cardinality(Done)

(* A stream is whole packages in the order they were sent, from somewhere    *)
(* within one to the last.                                                   *)
StreamOrder ==
  /\ \A j \in 1 .. Len(stream) - 1 : Follows(stream[j], stream[j + 1])
  /\ stream # <<>> => stream[Len(stream)] = <<sent, "rest">>
  /\ lost => stream = <<>>

(* No byte is of a package that was not sent.                                *)
Known ==
  /\ tmp_buff[1][1] <= sent /\ node.head[1] <= sent
  /\ \A j \in 1 .. Len(stream) : stream[j][1] <= sent
  /\ \A j \in 1 .. Len(pushed) : pushed[j][1][1] <= sent

(* Which coroutines can be where, given the others and the session.          *)
Alone ==
  /\ \A i \in Coros : coro[i] \in Waiting => open /\ need[i] >= 1
  /\ \A i \in Coros : coro[i] = "head" => ~ close_flag /\ need[i] = 1
  /\ \A i, j \in Coros : coro[i] \in Busy /\ coro[j] \in Busy => i = j
  /\ ~ overlap => \A i, j \in Coros : coro[i] \in UnderWay /\ coro[j] \in UnderWay => i = j
  /\ ~ overlap => \A i \in Coros : coro[i] \in UnderWay => recv_pending

(* Before the first close, and after a close that cut no coroutine short.    *)
Sockets ==
  /\ accepting = "waiting" => ~ open
  /\ ~ close_flag => ~ cut
  /\ ~ close_flag /\ ~ open => stream = <<>> /\ ~ lost /\ Idle
  /\ close_flag /\ ~ cut => Idle

Fresh == node.cur = 0 /\ ~ node.analyzed
Headed(n) == node.head = <<n, "head">> /\ node.total = 3
Bodied(n) == Headed(n) /\ node.cur = 2 /\ node.body = <<n, "body">>

(* The next unit is u, or the first of package n, or will never come.        *)
NextIs(u) == IF stream = <<>> THEN lost ELSE stream[1] = u
Boundary(n) ==
  IF stream = <<>> THEN lost \/ sent = n - 1
                   ELSE stream[1][1] = n /\ stream[1][2] \in Heads

(* What follows the unit u is next.                                          *)
Comes(u) == IF u[2] = "rest" THEN Boundary(u[1] + 1)
                             ELSE NextIs(<<u[1], PartAfter(u[2])>>)

(* Where the lone coroutine i is within package n: what it has, and what is  *)
(* next.                                                                     *)
Within(i, n) ==
  /\ coro[i] = "head" => Boundary(n) /\ (Fresh \/ lost)
  /\ coro[i] = "head_ready" =>
       /\ tmp_buff[1][1] = n /\ tmp_buff[1][2] \in Heads
       /\ Fresh /\ NextIs(<<n, PartAfter(tmp_buff[1][2])>>)
  /\ coro[i] = "body" =>
       Headed(n) /\ node.cur = 1 /\ need[i] = 1 /\ NextIs(<<n, "body">>)
  /\ coro[i] = "body_ready" =>
       Headed(n) /\ node.cur = 1 /\ tmp_buff[2] = <<n, "body">> /\ NextIs(<<n, "rest">>)
  /\ coro[i] = "rest" => Bodied(n) /\ need[i] = 1 /\ NextIs(<<n, "rest">>)
  /\ coro[i] = "rest_ready" => Bodied(n) /\ need[i] = 1 /\ Boundary(n + 1)
  /\ coro[i] = "full" =>
       Headed(n) /\ node.body = <<n, "body">> /\ Boundary(n + 1)
  /\ coro[i] = "pushed" => Boundary(n)

Track ==
  ~ overlap /\ ~ close_flag =>
    /\ \A i \in Coros : Within(i, Len(pushed) + 1)
    /\ Idle => Boundary(Len(pushed) + 1) /\ (Fresh \/ lost)
    /\ \A j \in 1 .. Len(completed) : completed[j][1][1] <= Len(pushed)

(* What a coroutine left from before a close can still take for a header is  *)
(* of an earlier connection.                                                 *)
Deaf ==
  ~ overlap /\ close_flag /\ open =>
    /\ node.head[1] < first
    /\ \A j \in 1 .. Len(pushed) : pushed[j][1][1] < first
    /\ \A i \in Coros : coro[i] = "head_ready" => tmp_buff[1][1] < first

(* Only the entry just pushed is what the node holds.                        *)
Past(u) == u # NoUnit /\ \A j \in 1 .. Len(completed) : completed[j][1] # u
Shared ==
  ~ overlap =>
    /\ \A j \in 1 .. Len(completed) : completed[j][1] # NoUnit
    /\ \A j \in 1 .. Len(completed) : completed[j][1] = node.head =>
         j = Len(completed) /\ \E i \in Coros : coro[i] = "pushed"
    /\ \A i \in Coros : coro[i] = "head_ready" => Past(tmp_buff[1])
    /\ \A i \in Coros :
         coro[i] \in UnderWay \ {"head", "head_ready", "pushed"} => node.head # NoUnit

(* There is a notice for every entry whose node has been cleared.            *)
Notified ==
  ~ polled =>
    Len(completed) = notices + (IF \E i \in Coros : coro[i] = "pushed" THEN 1 ELSE 0)

CoroIInv ==
  /\ CoroTypes /\ StreamOrder /\ Known /\ Alone /\ Sockets
  /\ Track /\ WholeUnlessDisturbed /\ Deaf /\ Shared /\ Notified /\ Emptied

-----------------------------------------------------------------------------
LEMMA CutFront ==
  ASSUME NEW S, NEW s \in Seq(S), NEW n \in 1 .. Len(s)
  PROVE  /\ SubSeq(s, n + 1, Len(s)) \in Seq(S)
         /\ Len(SubSeq(s, n + 1, Len(s))) = Len(s) - n
         /\ \A j \in 1 .. Len(s) - n : SubSeq(s, n + 1, Len(s))[j] = s[j + n]
  OBVIOUS

LEMMA NotEmpty ==
  ASSUME NEW s, Len(s) > 0 PROVE s # <<>>
  OBVIOUS

LEMMA TailIs ==
  ASSUME NEW S, NEW s \in Seq(S), s # <<>>
  PROVE  /\ Tail(s) \in Seq(S) /\ Len(Tail(s)) = Len(s) - 1 /\ Len(s) >= 1
         /\ Head(s) = s[1] /\ \A j \in 1 .. Len(s) - 1 : Tail(s)[j] = s[j + 1]
  OBVIOUS

LEMMA DoneGrows ==
  ASSUME \A i \in Coros : coro[i] = "done" => coro'[i] = "done"
  PROVE  /\ Cardinality(Done) \in Nat /\ Cardinality(Done') \in Nat
         /\ Cardinality(Done) <= Cardinality(Done')
         /\ \A i \in Coros : coro[i] # "done" /\ coro'[i] = "done" =>
              Cardinality(Done) < Cardinality(Done')
<1>1. IsFiniteSet(Done) /\ IsFiniteSet(Done')
  BY CoroAssumption, FS_Subset DEF Done
<1>2. Done \subseteq Done'
  BY DEF Done
<1>3. \A i \in Coros : coro[i] # "done" /\ coro'[i] = "done" => Done # Done'
  BY DEF Done
<1> QED
  BY <1>1, <1>2, <1>3, FS_CardinalityType, FS_Subset

LEMMA Numbers ==
  ASSUME CoroTypes
  PROVE  /\ tmp_buff[1][1] \in Nat /\ node.head[1] \in Nat /\ sent \in Nat /\ Len(pushed) \in Nat
         /\ \A j \in 1 .. Len(pushed) : pushed[j][1][1] \in Nat
         /\ \A j \in 1 .. Len(stream) : stream[j][1] \in Nat
<1>1. \A u \in Bytes : u[1] \in Nat
  BY CoroAssumption DEF Bytes, Units, NoUnit
<1>2. tmp_buff[1] \in Bytes /\ node.head \in Bytes /\ sent \in Nat /\ Len(pushed) \in Nat
  BY CoroAssumption DEF CoroTypes
<1>3. \A j \in 1 .. Len(pushed) : pushed[j][1] \in Bytes
  BY DEF CoroTypes, Entries
<1>4. \A j \in 1 .. Len(stream) : stream[j] \in Bytes
  BY DEF CoroTypes, Bytes
<1> QED
  BY <1>1, <1>2, <1>3, <1>4

(* What the runs check follows from the invariant.                           *)
LEMMA InvCoro == CoroIInv => CoroInv /\ Emptied
<1> SUFFICES ASSUME CoroIInv PROVE CoroInv
  BY DEF CoroIInv
<1> USE DEF CoroIInv
<1>1. notices \in 0 .. Cardinality(Coros)
  <2>1. IsFiniteSet(Done) /\ Cardinality(Done) <= Cardinality(Coros)
    BY CoroAssumption, FS_Subset DEF Done
  <2> QED
    BY <2>1, CoroAssumption, FS_CardinalityType DEF CoroTypes
<1>2. ~ overlap => Cardinality(Readers) <= 1
  <2>1. Readers = {} \/ \E i \in Readers : TRUE
    OBVIOUS
  <2>2. CASE Readers = {}
    BY <2>2, FS_EmptySet
  <2>3. ASSUME NEW i \in Readers, ~ overlap PROVE Cardinality(Readers) <= 1
    <3>1. Readers = {i}
      BY <2>3 DEF Alone, Readers
    <3> QED
      BY <3>1, FS_Singleton
  <2> QED
    BY <2>1, <2>2, <2>3
<1>3. \A j \in 1 .. Len(stream) : stream[j] \in Units
  BY DEF CoroTypes
<1>4. TypeOKCoro
  <2>1. {open, close_flag, recv_pending, lost, overlap, cut, polled} \subseteq BOOLEAN
    BY DEF CoroTypes
  <2>2. {node.head, node.body} \subseteq Bytes
    BY DEF CoroTypes
  <2> QED
    BY <1>1, <1>2, <1>3, <2>1, <2>2 DEF TypeOKCoro, CoroTypes, Alone, Sockets, Readers
<1>5. DeafAfterClose
  BY DEF Deaf, DeafAfterClose
<1> QED
  BY <1>4, <1>5 DEF CoroInv

LEMMA InitCoroInv == InitCoro => CoroIInv
<1> SUFFICES ASSUME InitCoro PROVE CoroIInv
  OBVIOUS
<1> USE CoroAssumption DEF InitCoro, NoUnit
<1>1. CoroTypes
  <2>1. IsFiniteSet(Done)
    BY FS_Subset DEF Done
  <2>2. Cardinality(Done) \in Nat
    BY <2>1, FS_CardinalityType
  <2>3. NoUnit \in Bytes
    BY DEF Bytes
  <2>4. node \in [head : Bytes, body : Bytes, cur : Nat, total : {0, 2, 3},
                  kind : Parts \cup {"none"}, analyzed : BOOLEAN]
    BY <2>3
  <2>5. coro \in [Coros -> Stages] /\ need \in [Coros -> 0 .. 3]
    BY DEF Stages
  <2>6. completed \in Seq(Entries) /\ pushed \in Seq(Entries) /\ stream \in Seq(Units)
    OBVIOUS
  <2>7. tmp_buff \in Bytes \X Bytes
    BY <2>3
  <2>8. sent \in 0 .. MaxPackages /\ first \in 1 .. MaxPackages + 1
        /\ notices \in Nat /\ notices <= Cardinality(Done)
    BY <2>2
  <2>9. /\ open \in BOOLEAN /\ close_flag \in BOOLEAN /\ recv_pending \in BOOLEAN
        /\ lost \in BOOLEAN /\ overlap \in BOOLEAN /\ cut \in BOOLEAN /\ polled \in BOOLEAN
        /\ accepting \in {"waiting", "posted"}
    OBVIOUS
  <2> HIDE DEF InitCoro, NoUnit
  <2> QED
    BY <2>4, <2>5, <2>6, <2>7, <2>8, <2>9 DEF CoroTypes
<1>2. Idle /\ \A i \in Coros : coro[i] = "none"
  BY DEF Idle, UnderWay, Waiting, Ready, Busy
<1>3. StreamOrder /\ Known
  BY DEF StreamOrder, Known
<1>4. Alone /\ Sockets
  BY <1>2 DEF Alone, Sockets, Waiting, Busy, UnderWay, Ready
<1>5. Track
  BY <1>2 DEF Track, Within, Boundary, Fresh
<1>6. WholeUnlessDisturbed /\ Deaf /\ Emptied
  BY <1>2 DEF WholeUnlessDisturbed, Deaf, Emptied
<1>7. Shared /\ Notified
  BY <1>2 DEF Shared, Notified, UnderWay, Waiting, Ready, Busy
<1> QED
  BY <1>1, <1>3, <1>4, <1>5, <1>6, <1>7 DEF CoroIInv

-----------------------------------------------------------------------------
(* A call of readFromSocket, which starts nothing yet, disturbs nothing.     *)
Called == \A j \in Coros : coro'[j] = coro[j] \/ (coro[j] = "none" /\ coro'[j] = "spawned")

LEMMA SpawnCalls ==
  ASSUME CoroTypes, MaySpawn \/ (\E i \in Coros : coro[i] = "none"
         /\ coro' = [coro EXCEPT ![i] = "spawned"])
  PROVE  coro' \in [Coros -> Stages] /\ Called
  BY DEF CoroTypes, MaySpawn, Called, Stages

LEMMA CalledIs ==
  ASSUME Called, Cardinality(Done) \in Nat
  PROVE  /\ Idle' <=> Idle
         /\ Cardinality(Done) <= Cardinality(Done')
         /\ (\E i \in Coros : coro'[i] = "pushed") <=> (\E i \in Coros : coro[i] = "pushed")
<1>1. Cardinality(Done) <= Cardinality(Done')
  BY DoneGrows DEF Called
<1> QED
  BY <1>1 DEF Called, Idle, UnderWay, Waiting, Ready, Busy

LEMMA CallInv ==
  ASSUME CoroIInv, coro' \in [Coros -> Stages], Called,
         accepting' \in {"waiting", "posted"}, accepting' = "waiting" => ~ open,
         UNCHANGED <<sessionVars, need, tmp_buff, node, queueVars, peerVars, historyVars>>
  PROVE  CoroIInv'
<1> USE DEF sessionVars, queueVars, peerVars, historyVars
<1>1. Cardinality(Done) \in Nat
  BY DoneGrows DEF Called
<1>2. Idle' <=> Idle
  BY <1>1, CalledIs
<1>3. CoroTypes'
  BY <1>1, CalledIs, DoneGrows DEF CoroIInv, CoroTypes, Called
<1>4. StreamOrder' /\ Known'
  BY DEF CoroIInv, StreamOrder, Known
<1>5. Alone'
  BY DEF CoroIInv, Alone, Called, UnderWay, Waiting, Ready, Busy
<1>6. Sockets'
  BY <1>2 DEF CoroIInv, Sockets
<1>7. Track'
  <2>1. \A i \in Coros : Within(i, Len(pushed) + 1) => Within(i, Len(pushed) + 1)'
    BY DEF Called, Within, Headed, Bodied, Fresh, NextIs, Boundary
  <2> QED
    BY <1>2, <2>1 DEF CoroIInv, Track, Boundary, Fresh
<1>8. WholeUnlessDisturbed' /\ Emptied'
  BY DEF CoroIInv, WholeUnlessDisturbed, Emptied, Content
<1>9. Deaf'
  BY DEF CoroIInv, Deaf, Called
<1>10. Shared'
  BY <1>1, CalledIs DEF CoroIInv, Shared, Past, Called, UnderWay, Waiting, Ready, Busy
<1>11. Notified'
  BY <1>1, CalledIs DEF CoroIInv, Notified
<1> QED
  BY <1>3, <1>4, <1>5, <1>6, <1>7, <1>8, <1>9, <1>10, <1>11 DEF CoroIInv

LEMMA SpawnInv ==
  ASSUME CoroIInv, NEW i \in Coros, Spawn(i) PROVE CoroIInv'
  BY SpawnCalls, CallInv DEF Spawn, CoroIInv, CoroTypes, Sockets

LEMMA AlreadyOpenInv ==
  ASSUME CoroIInv, AlreadyOpen PROVE CoroIInv'
  BY SpawnCalls, CallInv DEF AlreadyOpen, CoroIInv, CoroTypes

(* A connection is the first, and its packages follow those of none, or it   *)
(* finds a session that was closed.                                          *)
LEMMA ConnectInv ==
  ASSUME CoroIInv, Connect PROVE CoroIInv'
<1> USE DEF Connect, queueVars, historyVars
<1>0. ~ open /\ CoroTypes
  BY DEF CoroIInv, Sockets
<1>1. coro' \in [Coros -> Stages] /\ Called
  BY <1>0, SpawnCalls
<1>2. Cardinality(Done) \in Nat
  BY <1>1, DoneGrows DEF Called
<1>3. Idle' <=> Idle
  BY <1>1, <1>2, CalledIs
<1>4. CoroTypes'
  <2>1. first' \in 1 .. MaxPackages + 1 /\ stream' \in Seq(Units)
    BY <1>0, CoroAssumption DEF CoroTypes
  <2>2. Cardinality(Done)' \in Nat /\ notices <= Cardinality(Done)'
    BY <1>0, <1>1, <1>2, CalledIs, DoneGrows DEF CoroTypes, Called
  <2>3. accepting' \in {"waiting", "posted"} /\ open' \in BOOLEAN /\ lost' \in BOOLEAN
    OBVIOUS
  <2> QED
    BY <1>0, <1>1, <2>1, <2>2, <2>3 DEF CoroTypes
<1>5. StreamOrder' /\ Known'
  BY DEF CoroIInv, StreamOrder, Known
<1>6. Alone'
  BY <1>1 DEF CoroIInv, Alone, Called, UnderWay, Waiting, Ready, Busy
<1>7. Sockets'
  BY <1>0, <1>3 DEF CoroIInv, Sockets
<1>8. Track'
  <2> SUFFICES ASSUME ~ overlap, ~ close_flag PROVE Track'
    BY DEF Track
  <2>1. stream = <<>> /\ ~ lost /\ Idle
    BY <1>0 DEF CoroIInv, Sockets
  <2>2. Boundary(Len(pushed) + 1) /\ Fresh
          /\ \A j \in 1 .. Len(completed) : completed[j][1][1] <= Len(pushed)
    BY <2>1 DEF CoroIInv, Track
  <2>3. \A i \in Coros : Within(i, Len(pushed) + 1)'
    BY <1>3, <2>1 DEF Idle, Within, UnderWay, Waiting, Ready, Busy
  <2> QED
    BY <2>1, <2>2, <2>3 DEF Track, Boundary, Fresh
<1>9. WholeUnlessDisturbed' /\ Emptied'
  BY DEF CoroIInv, WholeUnlessDisturbed, Emptied, Content
<1>10. Deaf'
  <2> QED
    BY <1>0, Numbers DEF CoroIInv, Known, Deaf
<1>11. Shared' /\ Notified'
  <2>1. (\E i \in Coros : coro'[i] = "pushed") <=> (\E i \in Coros : coro[i] = "pushed")
    BY <1>1, <1>2, CalledIs
  <2> QED
    BY <1>1, <2>1 DEF CoroIInv, Shared, Notified, Past, Called, UnderWay, Waiting, Ready, Busy
<1> QED
  BY <1>4, <1>5, <1>6, <1>7, <1>8, <1>9, <1>10, <1>11 DEF CoroIInv

-----------------------------------------------------------------------------
(* What the peer does                                                        *)

LEMMA PackageIs ==
  ASSUME NEW part \in Heads, NEW n \in 1 .. MaxPackages
  PROVE  LET p == PackageOf(part, n) IN
         /\ p # <<>> /\ p[1] = <<n, part>> /\ p[Len(p)] = <<n, "rest">> /\ Len(p) \in Nat
            /\ Len(p) >= 1
         /\ \A j \in 1 .. Len(p) - 1 : Follows(p[j], p[j + 1])
         /\ \A j \in 1 .. Len(p) : p[j][1] = n
         /\ p \in Seq(Units)
<1> DEFINE p == PackageOf(part, n)
<1>0. <<n, part>> \in Units /\ <<n, "body">> \in Units /\ <<n, "rest">> \in Units
  BY DEF Units, Parts
<1>1. CASE part = "empty"
  <2>1. p = << <<n, part>>, <<n, "rest">> >>
    BY <1>1 DEF PackageOf
  <2> HIDE DEF p
  <2>2. p \in Seq(Units) /\ Len(p) = 2 /\ p[1] = <<n, part>> /\ p[2] = <<n, "rest">>
    BY <2>1, <1>0
  <2>3. Follows(p[1], p[2])
    BY <2>2, <1>1 DEF Follows, PartAfter
  <2>4. \A j \in 1 .. Len(p) - 1 : Follows(p[j], p[j + 1])
    <3>1. \A j \in 1 .. 2 - 1 : j = 1 /\ j + 1 = 2
      OBVIOUS
    <3> QED
      BY ONLY <2>2, <2>3, <3>1
  <2>5. \A j \in 1 .. Len(p) : p[j][1] = n
    <3>1. \A j \in 1 .. 2 : j = 1 \/ j = 2
      OBVIOUS
    <3> QED
      BY ONLY <2>2, <3>1
  <2> QED
    BY <2>2, <2>4, <2>5 DEF p
<1>2. CASE part # "empty"
  <2>1. p = << <<n, part>>, <<n, "body">>, <<n, "rest">> >>
    BY <1>2 DEF PackageOf
  <2> HIDE DEF p
  <2>2. p \in Seq(Units) /\ Len(p) = 3 /\ p[1] = <<n, part>> /\ p[2] = <<n, "body">>
          /\ p[3] = <<n, "rest">>
    BY <2>1, <1>0
  <2>3. Follows(p[1], p[2]) /\ Follows(p[2], p[3])
    BY <2>2, <1>2 DEF Follows, PartAfter, Heads
  <2>4. \A j \in 1 .. Len(p) - 1 : Follows(p[j], p[j + 1])
    BY <2>2, <2>3
  <2> QED
    BY <2>2, <2>4 DEF p
<1> QED
  BY <1>1, <1>2

LEMMA SendInv ==
  ASSUME CoroIInv, NEW part \in Heads, Send(part) PROVE CoroIInv'
<1> DEFINE p == PackageOf(part, sent')
<1>0. CoroTypes /\ sent' = sent + 1 /\ sent' \in 1 .. MaxPackages /\ sent \in Nat
  BY CoroAssumption DEF CoroIInv, CoroTypes, Send
<1>1. stream' = stream \o p /\ open /\ ~ lost
  BY DEF Send
<1>2. UNCHANGED <<accepting, sessionVars, coroVars, queueVars, lost, conns, first, historyVars>>
  BY DEF Send
<1>3. /\ p # <<>> /\ p[1] = <<sent', part>> /\ p[Len(p)] = <<sent', "rest">> /\ Len(p) \in Nat
         /\ Len(p) >= 1
      /\ \A j \in 1 .. Len(p) - 1 : Follows(p[j], p[j + 1])
      /\ \A j \in 1 .. Len(p) : p[j][1] = sent'
      /\ p \in Seq(Units)
  BY <1>0, PackageIs
<1> HIDE DEF p
<1> USE <1>0, <1>1, <1>2, <1>3 DEF sessionVars, coroVars, queueVars, historyVars
<1>4. /\ stream \in Seq(Units) /\ stream' \in Seq(Units) /\ Len(stream') = Len(stream) + Len(p)
      /\ \A j \in 1 .. Len(stream) : stream'[j] = stream[j]
      /\ \A j \in 1 .. Len(p) : stream'[Len(stream) + j] = p[j]
  <2>1. stream \in Seq(Units)
    BY DEF CoroTypes
  <2> QED
    BY <2>1, ConcatFacts
<1>5. CoroTypes'
  BY <1>4 DEF CoroTypes, Done
<1>6. StreamOrder'
  <2>1. stream' # <<>> /\ stream'[Len(stream')] = <<sent', "rest">>
    BY <1>4
  <2>2. ASSUME NEW j \in 1 .. Len(stream') - 1 PROVE Follows(stream'[j], stream'[j + 1])
    <3>1. CASE j < Len(stream)
      BY <1>4, <3>1 DEF CoroIInv, StreamOrder
    <3>2. CASE j = Len(stream)
      <4>1. stream'[j] = <<sent, "rest">>
        BY <1>4, <3>2 DEF CoroIInv, StreamOrder
      <4>2. stream'[Len(stream) + 1] = <<sent + 1, part>>
        BY <1>4
      <4> QED
        BY <4>1, <4>2, <3>2 DEF Follows, Heads
    <3>3. CASE j > Len(stream)
      <4>0. Len(stream) \in Nat /\ j \in Int /\ j <= Len(stream) + Len(p) - 1
        BY <1>4
      <4>1. PICK m \in 1 .. Len(p) - 1 : j = Len(stream) + m
        <5>1. j - Len(stream) \in 1 .. Len(p) - 1 /\ j = Len(stream) + (j - Len(stream))
          BY ONLY <4>0, <3>3, <1>3
        <5> QED
          BY ONLY <5>1
      <4>2. stream'[Len(stream) + m] = p[m] /\ stream'[Len(stream) + (m + 1)] = p[m + 1]
        BY <1>4
      <4>3. stream'[j] = p[m] /\ stream'[j + 1] = p[m + 1]
        <5>1. j + 1 = Len(stream) + (m + 1)
          BY ONLY <4>0, <4>1
        <5> QED
          BY ONLY <4>1, <4>2, <5>1
      <4>4. Follows(p[m], p[m + 1])
        BY ONLY <1>3, <4>1
      <4> QED
        BY ONLY <4>3, <4>4
    <3>4. Len(stream) \in Nat /\ j \in Int
      BY ONLY <1>4, <2>2
    <3>5. j < Len(stream) \/ j = Len(stream) \/ j > Len(stream)
      BY ONLY <3>4
    <3> QED
      BY ONLY <3>1, <3>2, <3>3, <3>5
  <2> QED
    BY <2>1, <2>2 DEF StreamOrder
<1>7. Known'
  <2>1. \A j \in 1 .. Len(stream') : stream'[j][1] <= sent'
    <3> TAKE j \in 1 .. Len(stream')
    <3>1. CASE j \in 1 .. Len(stream)
      BY <1>4, <3>1 DEF CoroIInv, Known, Units
    <3>2. CASE j > Len(stream)
      <4>1. PICK m \in 1 .. Len(p) : j = Len(stream) + m
        BY <1>4, <3>2
      <4> QED
        BY <1>4, <4>1
    <3> QED
      BY <1>4, <3>1, <3>2
  <2>2. tmp_buff[1][1] \in Nat /\ node.head[1] \in Nat
          /\ \A j \in 1 .. Len(pushed) : pushed[j][1][1] \in Nat
    BY Numbers
  <2>3. tmp_buff[1][1] <= sent /\ node.head[1] <= sent
          /\ \A j \in 1 .. Len(pushed) : pushed[j][1][1] <= sent
    BY DEF CoroIInv, Known
  <2>4. tmp_buff' = tmp_buff /\ node' = node /\ pushed' = pushed
    OBVIOUS
  <2>5. tmp_buff[1][1] <= sent + 1 /\ node.head[1] <= sent + 1
          /\ \A j \in 1 .. Len(pushed) : pushed[j][1][1] <= sent + 1
    BY ONLY <1>0, <2>2, <2>3
  <2> QED
    BY ONLY <1>0, <2>1, <2>4, <2>5 DEF Known
<1>8. Alone' /\ Sockets'
  BY DEF CoroIInv, Alone, Sockets, Idle
<1>9. Track'
  <2> SUFFICES ASSUME ~ overlap, ~ close_flag PROVE Track'
    BY DEF Track
  <2>1. \A u : NextIs(u) => NextIs(u)'
    BY <1>4 DEF NextIs
  <2>2. \A n \in Nat : Boundary(n) => Boundary(n)'
    BY <1>4 DEF Boundary, Heads
  <2>3. Len(pushed) + 1 \in Nat /\ Len(pushed) + 2 \in Nat /\ (Len(pushed) + 1) + 1 \in Nat
    BY DEF CoroTypes
  <2>4. ASSUME NEW i \in Coros PROVE Within(i, Len(pushed) + 1)'
    BY <2>1, <2>2, <2>3 DEF CoroIInv, Track, Within, Headed, Bodied, Fresh
  <2> QED
    BY <2>2, <2>3, <2>4 DEF CoroIInv, Track, Idle, Fresh
<1>10. WholeUnlessDisturbed' /\ Emptied' /\ Deaf'
  BY DEF CoroIInv, WholeUnlessDisturbed, Emptied, Content, Deaf
<1>11. Shared' /\ Notified'
  BY DEF CoroIInv, Shared, Notified, Past
<1> QED
  BY <1>5, <1>6, <1>7, <1>8, <1>9, <1>10, <1>11 DEF CoroIInv

(* After a loss nothing comes any more, which leaves nothing to say of it.   *)
LEMMA BreakInv ==
  ASSUME CoroIInv, Break PROVE CoroIInv'
<1> USE DEF Break, sessionVars, coroVars, queueVars, historyVars
<1>1. CoroTypes' /\ StreamOrder' /\ Known'
  BY DEF CoroIInv, CoroTypes, Done, StreamOrder, Known
<1>2. Alone' /\ Sockets'
  BY DEF CoroIInv, Alone, Sockets, Idle
<1>3. Track'
  <2>1. (\A u : NextIs(u)') /\ (\A n : Boundary(n)')
    BY DEF NextIs, Boundary
  <2>2. \A i \in Coros : Within(i, Len(pushed) + 1) => Within(i, Len(pushed) + 1)'
    BY <2>1 DEF Within, Headed, Bodied, Fresh
  <2> QED
    BY <2>1, <2>2 DEF CoroIInv, Track, Idle, Fresh
<1>4. WholeUnlessDisturbed' /\ Emptied' /\ Deaf' /\ Shared' /\ Notified'
  BY DEF CoroIInv, WholeUnlessDisturbed, Emptied, Content, Deaf, Shared, Notified, Past
<1> QED
  BY <1>1, <1>2, <1>3, <1>4 DEF CoroIInv

-----------------------------------------------------------------------------
(* The steps of one coroutine                                                *)

LEMMA LoneIs ==
  ASSUME CoroIInv, ~ overlap, NEW i \in Coros, coro[i] \in UnderWay
  PROVE  \A j \in Coros : coro[j] \in UnderWay => j = i
  BY DEF CoroIInv, Alone

LEMMA MovedIs ==
  ASSUME CoroTypes, NEW i \in Coros, NEW to \in Stages, coro' = [coro EXCEPT ![i] = to]
  PROVE  /\ coro' \in [Coros -> Stages] /\ coro'[i] = to
         /\ \A j \in Coros : j # i => coro'[j] = coro[j]
         /\ coro[i] # "done" => /\ Cardinality(Done) \in Nat /\ Cardinality(Done') \in Nat
                                /\ Cardinality(Done) <= Cardinality(Done')
                                /\ to = "done" => Cardinality(Done) < Cardinality(Done')
<1>1. coro' \in [Coros -> Stages] /\ coro'[i] = to /\ \A j \in Coros : j # i => coro'[j] = coro[j]
  BY DEF CoroTypes
<1> QED
  BY <1>1, DoneGrows

(* A coroutine that does not start reading.                                  *)
LEMMA BeginNothingInv ==
  ASSUME CoroIInv, NEW i \in Coros, Begin(i), close_flag \/ ~ open PROVE CoroIInv'
<1> USE DEF queueVars, peerVars
<1>0. CoroTypes /\ coro[i] = "spawned" /\ recv_pending' = TRUE
      /\ UNCHANGED <<overlap, cut, accepting, open, close_flag, tmp_buff, node, queueVars,
         peerVars>>
  BY DEF Begin, CoroIInv, Await, CoroTypes
<1>1. PICK to \in {"done", "dead"} : coro' = [coro EXCEPT ![i] = to]
  BY DEF Begin, Await
<1>2. /\ coro' \in [Coros -> Stages] /\ coro'[i] = to
      /\ \A j \in Coros : j # i => coro'[j] = coro[j]
      /\ Cardinality(Done) \in Nat /\ Cardinality(Done') \in Nat
         /\ Cardinality(Done) <= Cardinality(Done')
  BY <1>0, <1>1, MovedIs DEF Stages
<1>3. need' \in [Coros -> 0 .. 3] /\ \A j \in Coros : j # i => need'[j] = need[j]
  BY <1>0 DEF Begin, Await, CoroTypes
<1>4. \A j \in Coros : coro[j] # coro'[j] => coro[j] \notin UnderWay /\ coro'[j] \notin UnderWay
  BY <1>0, <1>2 DEF UnderWay, Waiting, Ready, Busy
<1>5. Idle' <=> Idle
  BY <1>4 DEF Idle
<1>6. (\E j \in Coros : coro'[j] = "pushed") <=> (\E j \in Coros : coro[j] = "pushed")
  BY <1>4 DEF UnderWay, Waiting, Ready, Busy
<1>7. CoroTypes'
  BY <1>0, <1>2, <1>3 DEF CoroTypes
<1>8. StreamOrder' /\ Known'
  BY <1>0 DEF CoroIInv, StreamOrder, Known
<1>9. Alone'
  BY <1>0, <1>2, <1>3, <1>4 DEF CoroIInv, Alone, UnderWay, Waiting, Ready, Busy
<1>10. Sockets'
  BY <1>0, <1>5 DEF CoroIInv, Sockets
<1>11. Track'
  <2>1. \A j \in Coros : Within(j, Len(pushed) + 1) => Within(j, Len(pushed) + 1)'
    BY <1>0, <1>1, <1>2, <1>3 DEF Within, Headed, Bodied, Fresh, NextIs, Boundary
  <2> QED
    BY <1>0, <1>5, <2>1 DEF CoroIInv, Track, Boundary, Fresh
<1>12. WholeUnlessDisturbed' /\ Emptied'
  BY <1>0 DEF CoroIInv, WholeUnlessDisturbed, Emptied, Content
<1>13. Deaf' /\ Shared' /\ Notified'
  BY <1>0, <1>1, <1>2, <1>4, <1>6
     DEF CoroIInv, Deaf, Shared, Past, Notified, UnderWay, Waiting, Ready, Busy
<1> QED
  BY <1>7, <1>8, <1>9, <1>10, <1>11, <1>12, <1>13 DEF CoroIInv

(* A coroutine that starts reading: it is alone, or overlaps.                *)
LEMMA BeginReadInv ==
  ASSUME CoroIInv, NEW i \in Coros, Begin(i), ~ close_flag, open PROVE CoroIInv'
<1> USE DEF queueVars, peerVars
<1>0. /\ CoroTypes /\ coro[i] = "spawned" /\ recv_pending' = TRUE
         /\ overlap' = (overlap \/ Readers # {})
      /\ coro' = [coro EXCEPT ![i] = "head"] /\ need' = [need EXCEPT ![i] = 1]
      /\ UNCHANGED <<cut, accepting, open, close_flag, tmp_buff, node, queueVars, peerVars>>
  BY DEF Begin, CoroIInv, Await
<1>1. /\ coro' \in [Coros -> Stages] /\ coro'[i] = "head"
      /\ \A j \in Coros : j # i => coro'[j] = coro[j]
      /\ Cardinality(Done) \in Nat /\ Cardinality(Done') \in Nat
         /\ Cardinality(Done) <= Cardinality(Done')
  BY <1>0, MovedIs DEF Stages, UnderWay, Waiting
<1>2. need' \in [Coros -> 0 .. 3] /\ need'[i] = 1 /\ \A j \in Coros : j # i => need'[j] = need[j]
  BY <1>0 DEF CoroTypes
<1>3. "head" \in UnderWay /\ "head" \in Waiting /\ "head" \notin Busy /\ "spawned" \notin UnderWay
  BY DEF UnderWay, Waiting, Ready, Busy
<1>4. ~ overlap' => ~ overlap /\ Idle
  BY <1>0 DEF Idle, Readers, CoroTypes
<1>5. CoroTypes'
  <2>1. overlap' \in BOOLEAN
    BY <1>0 DEF CoroTypes
  <2> QED
    BY <1>0, <1>1, <1>2, <2>1 DEF CoroTypes
<1>6. StreamOrder' /\ Known'
  BY <1>0 DEF CoroIInv, StreamOrder, Known
<1>7. Alone'
  <2>1. ~ overlap' => \A j, k \in Coros : coro'[j] \in UnderWay /\ coro'[k] \in UnderWay => j = k
    BY <1>1, <1>4 DEF Idle
  <2> QED
    BY <1>0, <1>1, <1>2, <1>3, <2>1 DEF CoroIInv, Alone
<1>8. Sockets'
  BY <1>0 DEF CoroIInv, Sockets
<1>9. Track'
  <2> SUFFICES ASSUME ~ overlap' PROVE Track'
    BY DEF Track
  <2>1. Boundary(Len(pushed) + 1)' /\ (Fresh \/ lost)'
          /\ \A j \in 1 .. Len(completed) : completed[j][1][1] <= Len(pushed)
    BY <1>0, <1>4 DEF CoroIInv, Track, Boundary, Fresh
  <2>2. \A j \in Coros : Within(j, Len(pushed) + 1)'
    BY <1>0, <1>1, <1>3, <1>4, <2>1 DEF Within, Idle, UnderWay, Waiting, Ready, Busy
  <2> QED
    BY <1>0, <2>1, <2>2 DEF Track
<1>10. WholeUnlessDisturbed' /\ Emptied'
  BY <1>0, <1>4 DEF CoroIInv, WholeUnlessDisturbed, Emptied, Content
<1>11. Deaf'
  BY <1>0 DEF Deaf
<1>12. Shared'
  BY <1>0, <1>1, <1>3, <1>4 DEF CoroIInv, Shared, Past, Idle
<1>13. Notified'
  BY <1>0, <1>1 DEF CoroIInv, Notified
<1> QED
  BY <1>5, <1>6, <1>7, <1>8, <1>9, <1>10, <1>11, <1>12, <1>13 DEF CoroIInv

(* A read that never ends otherwise: nothing will come on the connection.    *)
LEMMA AbortInv ==
  ASSUME CoroIInv, NEW i \in Coros, Abort(i) PROVE CoroIInv'
<1> USE DEF queueVars, peerVars, sessionVars, historyVars
<1>0. /\ CoroTypes /\ coro[i] \in Waiting /\ lost
      /\ coro' = [coro EXCEPT ![i] = "dead"] /\ need' = [need EXCEPT ![i] = 0]
      /\ UNCHANGED <<accepting, sessionVars, tmp_buff, node, queueVars, peerVars, historyVars>>
  BY DEF Abort, CoroIInv
<1>1. /\ coro' \in [Coros -> Stages] /\ coro'[i] = "dead"
      /\ \A j \in Coros : j # i => coro'[j] = coro[j]
      /\ Cardinality(Done) \in Nat /\ Cardinality(Done') \in Nat
         /\ Cardinality(Done) <= Cardinality(Done')
  BY <1>0, MovedIs DEF Stages, UnderWay, Waiting
<1>2. need' \in [Coros -> 0 .. 3] /\ \A j \in Coros : j # i => need'[j] = need[j]
  BY <1>0 DEF CoroTypes
<1>3. coro[i] \in UnderWay /\ coro[i] \notin {"pushed", "done", "head_ready"} \cup Busy
      /\ "dead" \notin UnderWay /\ "dead" \notin Waiting \cup Busy
  BY <1>0 DEF UnderWay, Waiting, Ready, Busy
<1>4. stream = <<>>
  BY <1>0 DEF CoroIInv, StreamOrder
<1>5. CoroTypes'
  BY <1>0, <1>1, <1>2 DEF CoroTypes
<1>6. StreamOrder' /\ Known'
  BY <1>0 DEF CoroIInv, StreamOrder, Known
<1>7. Alone'
  BY <1>0, <1>1, <1>2, <1>3 DEF CoroIInv, Alone
<1>8. Sockets'
  BY <1>0, <1>3 DEF CoroIInv, Sockets, Alone, Idle
<1>9. Track'
  <2> SUFFICES ASSUME ~ overlap, ~ close_flag PROVE Track'
    BY <1>0 DEF Track
  <2>1. \A j \in Coros : coro'[j] \notin UnderWay
    BY <1>1, <1>3, LoneIs
  <2>2. \A j \in Coros : Within(j, Len(pushed) + 1)'
    BY <2>1 DEF Within, UnderWay, Waiting, Ready, Busy
  <2> QED
    BY <1>0, <1>4, <2>2 DEF CoroIInv, Track, Boundary
<1>10. WholeUnlessDisturbed' /\ Emptied' /\ Deaf'
  BY <1>0, <1>1 DEF CoroIInv, WholeUnlessDisturbed, Emptied, Content, Deaf
<1>11. Shared' /\ Notified'
  BY <1>0, <1>1, <1>3 DEF CoroIInv, Shared, Past, Notified
<1> QED
  BY <1>5, <1>6, <1>7, <1>8, <1>9, <1>10, <1>11 DEF CoroIInv

(* What a read past the buffer takes was the lone coroutine's alone.         *)
LEMMA SwallowInv ==
  ASSUME CoroIInv, NEW i \in Coros, Swallow(i) PROVE CoroIInv'
<1> USE DEF queueVars, sessionVars, coroVars, historyVars
<1>0. /\ CoroTypes /\ coro[i] = "beyond" /\ stream' = <<>> /\ open
      /\ UNCHANGED <<accepting, sessionVars, coroVars, queueVars, lost, sent, conns, first,
                     historyVars>>
  BY DEF Swallow, CoroIInv
<1>1. coro[i] \in UnderWay /\ ~ Idle
  BY <1>0 DEF Idle, UnderWay, Waiting
<1>2. CoroTypes'
  <2>1. stream' \in Seq(Units)
    BY <1>0
  <2>2. Done' = Done
    BY <1>0 DEF Done
  <2> QED
    BY <1>0, <2>1, <2>2 DEF CoroTypes
<1>3. StreamOrder' /\ Known'
  <2>1. Len(stream') = 0
    BY <1>0
  <2> QED
    BY <1>0, <2>1 DEF CoroIInv, StreamOrder, Known
<1>4. Alone' /\ Sockets'
  BY <1>0 DEF CoroIInv, Alone, Sockets, Idle
<1>5. Track'
  <2> SUFFICES ASSUME ~ overlap, ~ close_flag PROVE Track'
    BY <1>0 DEF Track
  <2>1. \A j \in Coros : j # i => coro'[j] \notin UnderWay
    BY <1>0, <1>1, LoneIs
  <2>2. coro'[i] = "beyond" /\ ~ Idle'
    BY <1>0, <1>1 DEF Idle
  <2>3. \A j \in Coros : Within(j, Len(pushed) + 1)'
    BY <2>1, <2>2 DEF Within, UnderWay, Waiting, Ready, Busy
  <2> QED
    BY <1>0, <2>2, <2>3 DEF CoroIInv, Track
<1>6. WholeUnlessDisturbed' /\ Emptied' /\ Deaf'
  BY <1>0 DEF CoroIInv, WholeUnlessDisturbed, Emptied, Content, Deaf
<1>7. Shared' /\ Notified'
  BY <1>0 DEF CoroIInv, Shared, Past, Notified
<1> QED
  BY <1>2, <1>3, <1>4, <1>5, <1>6, <1>7 DEF CoroIInv

(* What is next when the first n units have been read; and when only the     *)
(* first one has.                                                            *)
LEMMA CutOrder ==
  ASSUME CoroTypes, StreamOrder, NEW n \in 1 .. Len(stream),
         stream' = SubSeq(stream, n + 1, Len(stream)), UNCHANGED <<lost, sent>>
  PROVE  /\ stream' \in Seq(Units) /\ StreamOrder' /\ ~ lost
         /\ Known => \A j \in 1 .. Len(stream') : stream'[j][1] <= sent
         /\ n = 1 => \A u : u = stream[1] => Comes(u)'
<1>1. stream \in Seq(Units) /\ sent \in Nat
  BY CoroAssumption DEF CoroTypes
<1>2. /\ stream' \in Seq(Units) /\ Len(stream') = Len(stream) - n
      /\ \A j \in 1 .. Len(stream) - n : stream'[j] = stream[j + n]
  BY <1>1, CutFront
<1>3. Len(stream) \in Nat /\ n \in Nat /\ stream # <<>>
        /\ stream[Len(stream)] = <<sent, "rest">> /\ ~ lost
  BY <1>1 DEF StreamOrder
<1>4. StreamOrder'
  <2>1. ASSUME NEW j \in 1 .. Len(stream') - 1 PROVE Follows(stream'[j], stream'[j + 1])
    <3>1. stream'[j] = stream[j + n] /\ stream'[j + 1] = stream[(j + n) + 1]
            /\ j + n \in 1 .. Len(stream) - 1
      BY <1>2, <1>3
    <3> QED
      BY <3>1 DEF StreamOrder
  <2>2. stream' # <<>> => stream'[Len(stream')] = <<sent, "rest">>
    <3> SUFFICES ASSUME stream' # <<>> PROVE stream'[Len(stream')] = <<sent, "rest">>
      OBVIOUS
    <3>1. Len(stream') \in 1 .. Len(stream) - n /\ Len(stream') + n = Len(stream)
      BY <1>2, <1>3
    <3>2. stream'[Len(stream')] = stream[Len(stream') + n]
      BY <1>2, <3>1
    <3> QED
      BY <1>3, <3>1, <3>2
  <2> QED
    BY <1>3, <2>1, <2>2 DEF StreamOrder
<1>5. Known => \A j \in 1 .. Len(stream') : stream'[j][1] <= sent
  BY <1>2, <1>3 DEF Known
<1>6. ASSUME n = 1, NEW u, u = stream[1] PROVE Comes(u)'
  <2>1. CASE Len(stream) = 1
    <3>1. Len(stream') = 0 /\ stream' = <<>>
      BY <1>2, <2>1, <1>6
    <3> QED
      <4>1. u = <<sent, "rest">> /\ sent = (u[1] + 1) - 1 /\ u[2] = "rest"
        BY <1>1, <1>3, <1>6, <2>1
      <4>2. Boundary(u[1] + 1)'
        BY <3>1, <4>1 DEF Boundary
      <4> QED
        BY <4>1, <4>2 DEF Comes
  <2>2. CASE Len(stream) > 1
    <3>1. 1 \in 1 .. Len(stream) - n /\ 1 \in 1 .. Len(stream) - 1 /\ Len(stream') > 0
      BY <1>2, <1>3, <2>2, <1>6
    <3>2. stream' # <<>>
      BY <3>1, NotEmpty
    <3>3. stream'[1] = stream[1 + 1]
      BY <1>2, <1>6, <3>1
    <3>4. Follows(u, stream'[1])
      BY <1>6, <3>1, <3>3 DEF StreamOrder
    <3>5. CASE u[2] = "rest"
      BY <3>2, <3>4, <3>5 DEF Follows, Comes, Boundary
    <3>6. CASE u[2] # "rest"
      BY <3>2, <3>4, <3>6 DEF Follows, Comes, NextIs
    <3> QED
      BY <3>5, <3>6
  <2>3. Len(stream) = 1 \/ Len(stream) > 1
    BY <1>3
  <2> QED
    BY <2>1, <2>2, <2>3
<1> QED
  BY <1>2, <1>3, <1>4, <1>5, <1>6

LEMMA RecvInv ==
  ASSUME CoroIInv, NEW i \in Coros, Recv(i) PROVE CoroIInv'
<1> USE DEF queueVars, sessionVars, historyVars
<1> DEFINE to == CASE coro[i] = "head" -> "head_ready"
                   [] coro[i] = "body" -> "body_ready"
                   [] coro[i] = "rest" -> "rest_ready"
<1>0. /\ CoroTypes /\ coro[i] \in Filling /\ IoFree /\ open /\ need[i] \in 1 .. Len(stream)
      /\ coro' = [coro EXCEPT ![i] = to]
      /\ stream' = SubSeq(stream, need[i] + 1, Len(stream))
      /\ UNCHANGED <<accepting, sessionVars, need, node, queueVars, lost, sent, conns, first,
         historyVars>>
  BY DEF Recv, CoroIInv, CoroTypes, Alone, Filling
<1>a. tmp_buff' = IF coro[i] = "body" THEN <<tmp_buff[1], stream[1]>> ELSE <<stream[1],
        tmp_buff[2]>>
  BY DEF Recv
<1>1. \/ coro[i] = "head" /\ to = "head_ready"
      \/ coro[i] = "body" /\ to = "body_ready"
      \/ coro[i] = "rest" /\ to = "rest_ready"
  BY <1>0 DEF Filling, Waiting
<1> HIDE DEF to
<1>2. to \in Stages /\ to \in UnderWay /\ to \notin Waiting \cup Busy /\ coro[i] \in UnderWay
      /\ coro[i] \notin Busy /\ coro[i] \notin {"done", "pushed"}
  BY <1>1 DEF Stages, UnderWay, Waiting, Ready, Busy
<1>3. /\ coro' \in [Coros -> Stages] /\ coro'[i] = to
      /\ \A j \in Coros : j # i => coro'[j] = coro[j]
      /\ Cardinality(Done) \in Nat /\ Cardinality(Done') \in Nat
         /\ Cardinality(Done) <= Cardinality(Done')
  BY <1>0, <1>2, MovedIs
<1>4. /\ stream' \in Seq(Units) /\ StreamOrder' /\ ~ lost
      /\ \A j \in 1 .. Len(stream') : stream'[j][1] <= sent
      /\ need[i] = 1 => \A u : u = stream[1] => Comes(u)'
  BY <1>0, CutOrder DEF CoroIInv
<1>5. stream # <<>> /\ stream[1] \in Units /\ stream[1] \in Bytes /\ stream[1][1] \in Nat \ {0}
        /\ stream[1][1] <= sent
  <2>1. stream \in Seq(Units) /\ Len(stream) \in Nat /\ 1 \in 1 .. Len(stream)
    BY <1>0 DEF CoroTypes
  <2>2. stream # <<>> /\ stream[1] \in Units /\ stream[1][1] <= sent
    BY <2>1 DEF CoroIInv, Known
  <2>3. stream[1] \in Bytes /\ stream[1][1] \in Nat \ {0}
    BY <2>2, CoroAssumption DEF Bytes, Units
  <2> QED
    BY <2>2, <2>3
<1>6. tmp_buff' \in Bytes \X Bytes /\ (tmp_buff'[1] = tmp_buff[1] \/ tmp_buff'[1] = stream[1])
      /\ (coro[i] = "head" => tmp_buff'[1] = stream[1]) /\ (coro[i] = "body"
         => tmp_buff'[2] = stream[1])
  BY <1>a, <1>0, <1>5 DEF CoroTypes
<1>7. CoroTypes'
  <2>1. notices' \in Nat /\ notices' <= Cardinality(Done)'
    BY <1>0, <1>3 DEF CoroTypes
  <2> QED
    BY <1>0, <1>3, <1>4, <1>6, <2>1 DEF CoroTypes
<1>8. Known'
  BY <1>0, <1>4, <1>5, <1>6 DEF CoroIInv, Known
<1>11. ~ overlap => \A j \in Coros : coro'[j] \in UnderWay => j = i
  BY <1>2, <1>3, LoneIs
<1>9. Alone'
  <2>1. "head" \in Waiting
    BY DEF Waiting
  <2>2. ~ overlap => \A j \in Coros : coro[j] \in UnderWay => recv_pending
    BY DEF CoroIInv, Alone
  <2> QED
    BY <1>0, <1>2, <1>3, <1>11, <2>1, <2>2 DEF CoroIInv, Alone
<1>10. Sockets'
  <2>1. ~ Idle
    BY <1>2 DEF Idle
  <2> QED
    BY <1>0, <2>1 DEF CoroIInv, Sockets
<1>12. ~ overlap /\ ~ close_flag => \A j \in 1 .. Len(completed) : completed[j][1][1] <= Len(pushed)
  BY DEF CoroIInv, Track
<1>13. Track'
  <2> SUFFICES ASSUME ~ overlap, ~ close_flag PROVE Track'
    BY <1>0 DEF Track
  <2>0. PICK k, u : k = Len(pushed) + 1 /\ u = stream[1]
    OBVIOUS
  <2>1. k \in Nat /\ Within(i, k)
    BY <1>0, <2>0, Numbers DEF CoroIInv, Track
  <2>2. need[i] = 1 /\ Comes(u)'
    BY <1>1, <1>4, <2>0, <2>1 DEF CoroIInv, Alone, Within
  <2>3. ASSUME coro[i] = "head" PROVE Within(i, k)'
    <3>1. u[1] = k /\ u[2] \in Heads /\ Fresh
      BY <1>4, <1>5, <2>0, <2>1, <2>3 DEF Within, Boundary
    <3>2. NextIs(<<k, PartAfter(u[2])>>)'
      BY <2>2, <3>1 DEF Heads, Comes
    <3>3. tmp_buff'[1] = u /\ coro'[i] = "head_ready"
      BY <1>1, <1>3, <1>6, <2>0, <2>3
    <3> QED
      BY <1>0, <3>1, <3>2, <3>3 DEF Within, Fresh
  <2>4. ASSUME coro[i] = "body" PROVE Within(i, k)'
    <3>1. u = <<k, "body">> /\ Headed(k) /\ node.cur = 1
      BY <1>5, <2>0, <2>1, <2>4 DEF Within, NextIs
    <3>2. NextIs(<<k, "rest">>)'
      BY <2>2, <3>1 DEF PartAfter, Comes
    <3>3. tmp_buff'[2] = u /\ coro'[i] = "body_ready"
      BY <1>1, <1>3, <1>6, <2>0, <2>4
    <3> QED
      BY <1>0, <3>1, <3>2, <3>3 DEF Within, Headed
  <2>5. ASSUME coro[i] = "rest" PROVE Within(i, k)'
    <3>1. u = <<k, "rest">> /\ Bodied(k)
      BY <1>5, <2>0, <2>1, <2>5 DEF Within, NextIs
    <3>2. Boundary(k + 1)'
      BY <2>2, <3>1 DEF Comes
    <3>3. coro'[i] = "rest_ready"
      BY <1>1, <1>3, <2>5
    <3> QED
      BY <1>0, <2>2, <3>1, <3>2, <3>3 DEF Within, Bodied, Headed
  <2>6. Within(i, k)'
    BY <1>1, <2>3, <2>4, <2>5
  <2>7. \A j \in Coros : j # i => Within(j, k)'
    BY <1>11 DEF Within, UnderWay, Waiting, Ready, Busy
  <2>8. k = (Len(pushed) + 1)'
    BY <1>0, <2>0
  <2>9. ~ Idle'
    BY <1>2, <1>3 DEF Idle
  <2>10. \A j \in Coros : Within(j, k)'
    BY <2>6, <2>7
  <2> QED
    BY <1>0, <1>12, <2>8, <2>9, <2>10 DEF Track
<1>14. WholeUnlessDisturbed' /\ Emptied'
  BY <1>0 DEF CoroIInv, WholeUnlessDisturbed, Emptied, Content
<1>15. Deaf'
  <2> SUFFICES ASSUME ~ overlap, close_flag, open PROVE Deaf'
    BY <1>0 DEF Deaf
  <2>1. coro[i] # "head"
    BY DEF CoroIInv, Alone
  <2>2. \A j \in Coros : coro'[j] # "head_ready"
    BY <2>1, <1>1, <1>3, <1>11 DEF UnderWay, Ready
  <2> QED
    BY <1>0, <2>2 DEF CoroIInv, Deaf
<1>16. Shared'
  <2> SUFFICES ASSUME ~ overlap PROVE Shared'
    BY <1>0 DEF Shared
  <2>1. \A j \in Coros : coro'[j] = "head_ready" => Past(tmp_buff[1])'
    <3> SUFFICES ASSUME coro[i] = "head" PROVE Past(tmp_buff[1])'
      BY <1>1, <1>3, <1>11 DEF UnderWay, Ready
    <3>1. ~ close_flag /\ tmp_buff'[1] = stream[1]
      BY <1>6 DEF CoroIInv, Alone
    <3>2. stream[1][1] = Len(pushed) + 1
      BY <3>1, <1>5 DEF CoroIInv, Track, Within, Boundary
    <3>3. \A j \in 1 .. Len(completed) : completed[j][1][1] <= Len(pushed) /\ Len(pushed) \in Nat
      BY <1>12, <3>1, <1>0, Numbers
    <3> QED
      BY <1>0, <1>5, <3>1, <3>2, <3>3 DEF Past, NoUnit
  <2>2. \A j \in Coros : coro'[j] \in UnderWay \ {"head", "head_ready", "pushed"}
          => node.head # NoUnit
    BY <1>1, <1>2, <1>3 DEF CoroIInv, Shared
  <2> QED
    BY <1>0, <1>1, <1>3, <2>1, <2>2 DEF CoroIInv, Shared
<1>17. Notified'
  BY <1>0, <1>1, <1>3 DEF CoroIInv, Notified
<1> QED
  BY <1>4, <1>7, <1>8, <1>9, <1>10, <1>13, <1>14, <1>15, <1>16, <1>17 DEF CoroIInv

-----------------------------------------------------------------------------
(* A close, by the program or by a coroutine that ends with it.              *)
NodeType == [head : Bytes, body : Bytes, cur : Nat, total : {0, 2, 3},
             kind : Parts \cup {"none"}, analyzed : BOOLEAN]

LEMMA CloseInv ==
  ASSUME CoroIInv, IoFree, NEW cs, CloseSession(cs),
         \/ cs = coro
         \/ \E i \in Coros : coro[i] \in Ready /\ cs = [coro EXCEPT ![i] = "done"],
         node' \in NodeType,
         node'.head = node.head \/ \E i \in Coros : coro[i] = "head_ready"
           /\ node'.head = tmp_buff[1]
  PROVE  CoroIInv'
<1> USE DEF queueVars
<1>0. /\ CoroTypes /\ open' = FALSE /\ close_flag' = TRUE /\ stream' = <<>>
      /\ UNCHANGED <<overlap, accepting, recv_pending, tmp_buff, queueVars, lost, sent, conns,
         first>>
      /\ cut' = (cut \/ \E i \in Coros : cs[i] \in UnderWay)
  BY DEF CloseSession, CoroIInv
<1>1. /\ cs \in [Coros -> Stages]
      /\ \A j \in Coros : cs[j] = coro[j] \/ (coro[j] \in Ready /\ cs[j] = "done")
  BY <1>0 DEF CoroTypes, Stages
<1>2. \A j \in Coros : coro'[j] = IF cs[j] \in Waiting THEN "dead" ELSE cs[j]
  BY DEF CloseSession
<1>3. coro' \in [Coros -> Stages] /\ need' \in [Coros -> 0 .. 3]
  BY <1>0, <1>1 DEF CloseSession, CoroTypes, Stages
<1>4. \A j \in Coros : /\ coro'[j] \notin Waiting \cup Busy
                       /\ coro'[j] = coro[j] \/ coro'[j] \in {"dead", "done"}
                       /\ coro[j] = "done" => coro'[j] = "done"
                       /\ coro'[j] \in UnderWay => cs[j] \in UnderWay
  BY <1>1, <1>2 DEF IoFree, Waiting, Ready, Busy, UnderWay
<1>5. "dead" \notin UnderWay /\ "done" \notin UnderWay
  BY DEF Waiting, Ready, Busy, UnderWay
<1>6. CoroTypes'
  <2>1. Cardinality(Done)' \in Nat /\ notices <= Cardinality(Done)'
    BY <1>0, <1>4, DoneGrows DEF CoroTypes
  <2>2. cut' \in BOOLEAN
    BY <1>0 DEF CoroTypes
  <2>3. stream' \in Seq(Units)
    BY <1>0
  <2> QED
    BY <1>0, <1>3, <2>1, <2>2, <2>3 DEF CoroTypes, NodeType
<1>7. StreamOrder' /\ Known'
  <2>1. Len(stream') = 0
    BY <1>0
  <2> QED
    BY <1>0, <2>1 DEF CoroIInv, StreamOrder, Known
<1>8. Alone'
  <2>1. "head" \in Waiting
    BY DEF Waiting
  <2>2. \A j \in Coros : coro'[j] \in UnderWay => coro[j] \in UnderWay
    BY <1>4, <1>5
  <2>3. ~ overlap => \A i, j \in Coros : coro[i] \in UnderWay /\ coro[j] \in UnderWay => i = j
    BY DEF CoroIInv, Alone
  <2>4. ~ overlap => \A i \in Coros : coro[i] \in UnderWay => recv_pending
    BY DEF CoroIInv, Alone
  <2> QED
    BY <1>0, <1>4, <2>1, <2>2, <2>3, <2>4 DEF Alone
<1>9. Sockets'
  BY <1>0, <1>4 DEF Sockets, Idle
<1>10. Track' /\ Deaf'
  BY <1>0 DEF Track, Deaf
<1>11. WholeUnlessDisturbed' /\ Emptied'
  BY <1>0 DEF CoroIInv, WholeUnlessDisturbed, Emptied
<1>12. \A j \in Coros : coro[j] # "pushed" /\ coro'[j] # "pushed"
  BY <1>4 DEF IoFree, Busy
<1>13. Shared'
  <2> SUFFICES ASSUME ~ overlap PROVE Shared'
    BY <1>0 DEF Shared
  <2>1. \A j \in 1 .. Len(completed) : completed[j][1] # node'.head /\ completed[j][1] # NoUnit
    BY <1>12 DEF CoroIInv, Shared, Past
  <2>2. \A j \in Coros : coro'[j] = "head_ready" => Past(tmp_buff[1])'
    BY <1>0, <1>4 DEF CoroIInv, Shared, Past
  <2>3. \A j \in Coros :
          coro'[j] \in UnderWay \ {"head", "head_ready", "pushed"} => node'.head # NoUnit
    BY <1>4, <1>5 DEF CoroIInv, Shared, Past
  <2> QED
    BY <1>0, <2>1, <2>2, <2>3 DEF Shared
<1>14. Notified'
  BY <1>0, <1>12 DEF CoroIInv, Notified
<1> QED
  BY <1>6, <1>7, <1>8, <1>9, <1>10, <1>11, <1>13, <1>14 DEF CoroIInv

LEMMA ProgramClosesInv ==
  ASSUME CoroIInv, ProgramCloses PROVE CoroIInv'
<1>1. node' = node /\ node \in NodeType
  BY DEF ProgramCloses, CoroIInv, CoroTypes, NodeType
<1> QED
  BY <1>1, CloseInv DEF ProgramCloses

LEMMA ResumeZeroInv ==
  ASSUME CoroIInv, NEW i \in Coros, ResumeZero(i) PROVE CoroIInv'
<1>1. node' = node /\ node \in NodeType
  BY DEF ResumeZero, CoroIInv, CoroTypes, NodeType
<1> QED
  BY <1>1, CloseInv DEF ResumeZero, Ready

(* A step of a coroutine that is told what to do next, with the node it has  *)
(* written; what it awaits is given by to and n.                             *)
LEMMA GoesOnInv ==
  ASSUME CoroIInv, NEW i \in Coros, coro[i] \in Ready, NEW to \in UnderWay \ {"head", "head_ready",
         "pushed"},
         IoFree, NEW n \in 0 .. 3,
         IF open \/ to = "full" THEN coro' = [coro EXCEPT ![i] = to]
           /\ need' = [need EXCEPT ![i] = n]
                 ELSE coro' = [coro EXCEPT ![i] = "dead"] /\ need' = [need EXCEPT ![i] = 0],
         UNCHANGED <<accepting, sessionVars, tmp_buff, queueVars, peerVars, historyVars>>,
         to \in Waiting => n >= 1,
         node' \in NodeType,
         IF coro[i] = "head_ready" THEN node'.head = tmp_buff[1] ELSE node'.head = node.head,
         ~ overlap /\ ~ close_flag /\ coro'[i] = to => Within(i, Len(pushed) + 1)'
  PROVE  CoroIInv'
<1> USE DEF queueVars, peerVars, sessionVars, historyVars
<1>0. CoroTypes
  BY DEF CoroIInv
<1>1. /\ coro[i] \in UnderWay /\ coro[i] \notin Waiting \cup Busy
         /\ coro[i] \notin {"done", "pushed"}
      /\ to \in Stages /\ "dead" \in Stages /\ to \notin {"done", "head", "head_ready", "pushed"}
      /\ "dead" \notin UnderWay \cup Waiting \cup Busy
  BY DEF Stages, UnderWay, Waiting, Ready, Busy
<1>2. PICK here :
        /\ here \in {to, "dead"} /\ coro' = [coro EXCEPT ![i] = here]
        /\ \/ here = to /\ (open \/ to = "full") /\ need' = [need EXCEPT ![i] = n]
           \/ here = "dead" /\ ~ open /\ need' = [need EXCEPT ![i] = 0]
  OBVIOUS
<1>3. /\ coro' \in [Coros -> Stages] /\ coro'[i] = here
      /\ \A j \in Coros : j # i => coro'[j] = coro[j]
      /\ Cardinality(Done) \in Nat /\ Cardinality(Done') \in Nat
         /\ Cardinality(Done) <= Cardinality(Done')
  BY <1>0, <1>1, <1>2, MovedIs
<1>4. /\ need' \in [Coros -> 0 .. 3] /\ \A j \in Coros : j # i => need'[j] = need[j]
      /\ here \in Waiting => open /\ need'[i] >= 1
  <2>1. need \in [Coros -> 0 .. 3] /\ "full" \notin Waiting /\ "dead" \notin Waiting
    BY <1>0 DEF CoroTypes, Waiting
  <2>2. CASE here = to /\ (open \/ to = "full") /\ need' = [need EXCEPT ![i] = n]
    BY <2>1, <2>2
  <2>3. CASE here = "dead" /\ ~ open /\ need' = [need EXCEPT ![i] = 0]
    BY <2>1, <2>3
  <2> QED
    BY <1>2, <2>2, <2>3
<1>5. \A j \in Coros : coro[j] \notin Busy
  BY DEF IoFree
<1>6. CoroTypes'
  BY <1>0, <1>3, <1>4 DEF CoroTypes, NodeType
<1>7. StreamOrder' /\ Known'
  BY DEF CoroIInv, StreamOrder, Known
<1>8. ~ overlap => \A j \in Coros : coro'[j] \in UnderWay => j = i
  BY <1>1, <1>3, LoneIs
<1>9. Alone'
  <2>1. \A j \in Coros : coro'[j] \in Waiting => open /\ need'[j] >= 1
    BY <1>1, <1>2, <1>3, <1>4 DEF CoroIInv, Alone
  <2>2. \A j \in Coros : coro'[j] = "head" => ~ close_flag /\ need'[j] = 1
    BY <1>1, <1>2, <1>3, <1>4 DEF CoroIInv, Alone
  <2>3. \A j, k \in Coros : coro'[j] \in Busy /\ coro'[k] \in Busy => j = k
    BY <1>1, <1>2, <1>3, <1>5
  <2>4. ~ overlap => recv_pending
    BY <1>1 DEF CoroIInv, Alone
  <2> QED
    BY <1>8, <2>1, <2>2, <2>3, <2>4 DEF Alone
<1>10. ~ Idle /\ (~ close_flag => open) /\ (close_flag => cut)
  BY <1>1 DEF Idle, CoroIInv, Sockets
<1>11. Sockets'
  BY <1>10 DEF CoroIInv, Sockets
<1>12. Track'
  <2> SUFFICES ASSUME ~ overlap, ~ close_flag PROVE Track'
    BY DEF Track
  <2>1. coro'[i] = to
    BY <1>2, <1>3, <1>10
  <2>2. ~ Idle'
    BY <2>1, <1>1 DEF Idle
  <2>3. Within(i, Len(pushed) + 1)'
    BY <2>1
  <2>4. \A j \in Coros : j # i => Within(j, Len(pushed) + 1)'
    BY <1>8 DEF Within, UnderWay, Waiting, Ready, Busy
  <2>5. \A j \in Coros : Within(j, Len(pushed) + 1)'
    BY <2>3, <2>4
  <2>6. \A j \in 1 .. Len(completed) : completed[j][1][1] <= Len(pushed)
    BY DEF CoroIInv, Track
  <2> QED
    BY <2>2, <2>5, <2>6 DEF Track
<1>13. WholeUnlessDisturbed' /\ Emptied'
  BY DEF CoroIInv, WholeUnlessDisturbed, Emptied
<1>14. Deaf'
  BY <1>1, <1>2, <1>3 DEF CoroIInv, Deaf
<1>15. Shared'
  <2> SUFFICES ASSUME ~ overlap PROVE Shared'
    BY DEF Shared
  <2>1. node'.head # NoUnit /\ \A j \in 1 .. Len(completed) : completed[j][1] # node'.head
          /\ completed[j][1] # NoUnit
    <3>1. CASE coro[i] = "head_ready"
      BY <3>1 DEF CoroIInv, Shared, Past
    <3>2. CASE coro[i] # "head_ready"
      BY <3>2, <1>1, <1>5 DEF CoroIInv, Shared, Busy, UnderWay, Ready
    <3> QED
      BY <3>1, <3>2
  <2>2. \A j \in Coros : coro'[j] # "head_ready"
    BY <1>1, <1>2, <1>3, <1>8 DEF UnderWay, Ready
  <2> QED
    BY <2>1, <2>2 DEF Shared
<1>16. Notified'
  <2>1. \A j \in Coros : coro[j] # "pushed" /\ coro'[j] # "pushed"
    BY <1>1, <1>2, <1>3, <1>5 DEF Busy
  <2> QED
    BY <2>1 DEF CoroIInv, Notified
<1> QED
  BY <1>6, <1>7, <1>9, <1>11, <1>12, <1>13, <1>14, <1>15, <1>16 DEF CoroIInv

(* The header that comes belongs to the next package.                        *)
LEMMA ResumeHeadInv ==
  ASSUME CoroIInv, NEW i \in Coros, ResumeHead(i) PROVE CoroIInv'
<1> DEFINE m == [node EXCEPT !.head = tmp_buff[1], !.cur = @ + 1]
<1>0. /\ CoroTypes /\ coro[i] = "head_ready" /\ IoFree /\ node' = AnalyzeHeader(m)
      /\ coro[i] \in Ready
  BY DEF ResumeHead, CoroIInv, Ready
<1>1. /\ node \in NodeType /\ tmp_buff[1] \in Bytes /\ tmp_buff[1][2] \in Parts \cup {"none"}
  BY <1>0 DEF CoroTypes, NodeType, Bytes, Units, NoUnit
<1>2. m \in NodeType /\ m.head = tmp_buff[1] /\ m.cur = node.cur + 1 /\ m.analyzed = node.analyzed
  <2>1. node.cur + 1 \in Nat
    BY <1>1 DEF NodeType
  <2> QED
    BY <1>1, <2>1 DEF NodeType
<1> HIDE DEF m
<1>3. node' \in NodeType /\ node'.head = tmp_buff[1] /\ node'.cur = node.cur + 1
  BY <1>0, <1>1, <1>2 DEF NodeType, AnalyzeHeader, TotalOf
<1>4. CASE node'.kind \notin {"head", "empty", "small"}
  BY <1>0, <1>3, <1>4, CloseInv DEF ResumeHead
<1>5. CASE node'.kind = "empty"
  <2>1. /\ coro' = [coro EXCEPT ![i] = IF open THEN "zero" ELSE "dead"]
        /\ need' = [need EXCEPT ![i] = IF open THEN 0 ELSE 0]
        /\ UNCHANGED <<accepting, sessionVars, tmp_buff, queueVars, peerVars, historyVars>>
    BY <1>5 DEF ResumeHead, Await
  <2>2. "zero" \in UnderWay \ {"head", "head_ready", "pushed"} /\ "zero" \notin Waiting
    BY DEF UnderWay, Waiting, Ready
  <2>3. coro'[i] = "zero" => Within(i, Len(pushed) + 1)'
    BY DEF Within
  <2>4. IF open \/ "zero" = "full"
          THEN coro' = [coro EXCEPT ![i] = "zero"] /\ need' = [need EXCEPT ![i] = 0]
          ELSE coro' = [coro EXCEPT ![i] = "dead"] /\ need' = [need EXCEPT ![i] = 0]
    BY <2>1
  <2>5. 0 \in 0 .. 3
    OBVIOUS
  <2> HIDE DEF m
  <2> QED
    BY <1>0, <1>3, <2>1, <2>2, <2>3, <2>4, <2>5, GoesOnInv
<1>7. CASE node'.kind = "small"
  <2>1. /\ coro' = [coro EXCEPT ![i] = IF open THEN "beyond" ELSE "dead"]
        /\ need' = [need EXCEPT ![i] = IF open THEN 1 ELSE 0]
        /\ UNCHANGED <<accepting, sessionVars, tmp_buff, queueVars, peerVars, historyVars>>
    BY <1>7 DEF ResumeHead, Await
  <2>2. "beyond" \in UnderWay \ {"head", "head_ready", "pushed"}
    BY DEF UnderWay, Waiting
  <2>3. coro'[i] = "beyond" => Within(i, Len(pushed) + 1)'
    BY DEF Within
  <2>4. IF open \/ "beyond" = "full"
          THEN coro' = [coro EXCEPT ![i] = "beyond"] /\ need' = [need EXCEPT ![i] = 1]
          ELSE coro' = [coro EXCEPT ![i] = "dead"] /\ need' = [need EXCEPT ![i] = 0]
    BY <2>1
  <2>5. 1 \in 0 .. 3 /\ 1 >= 1
    OBVIOUS
  <2> QED
    BY <1>0, <1>3, <2>1, <2>2, <2>3, <2>4, <2>5, GoesOnInv
<1>6. CASE node'.kind = "head"
  <2>1. /\ coro' = [coro EXCEPT ![i] = IF open THEN "body" ELSE "dead"]
        /\ need' = [need EXCEPT ![i] = IF open THEN 1 ELSE 0]
        /\ UNCHANGED <<accepting, sessionVars, tmp_buff, queueVars, peerVars, historyVars>>
    BY <1>6 DEF ResumeHead, Await
  <2>2. "body" \in UnderWay \ {"head", "head_ready", "pushed"}
    BY DEF UnderWay, Waiting
  <2>3. ASSUME ~ overlap, ~ close_flag, coro'[i] = "body" PROVE Within(i, Len(pushed) + 1)'
    <3>1. PICK k : k = Len(pushed) + 1
      OBVIOUS
    <3>2. tmp_buff[1][1] = k /\ Fresh /\ NextIs(<<k, PartAfter(tmp_buff[1][2])>>)
      BY <1>0, <2>3, <3>1 DEF CoroIInv, Track, Within
    <3>3. node'.kind = tmp_buff[1][2] /\ node'.total = TotalOf(tmp_buff[1][2])
      BY <1>0, <1>2, <3>2 DEF AnalyzeHeader, Fresh, NodeType
    <3>4. tmp_buff[1] = <<k, "head">>
      BY <1>1, <1>6, <3>2, <3>3 DEF Bytes, Units, NoUnit
    <3>5. Headed(k)'
      BY <1>3, <1>6, <3>3, <3>4 DEF Headed, TotalOf
    <3>6. NextIs(<<k, "body">>)'
      BY <2>1, <3>2, <3>4 DEF PartAfter, NextIs, peerVars
    <3>7. node'.cur = 1 /\ need'[i] = 1
      BY <1>0, <1>1, <1>3, <2>1, <2>3, <3>2 DEF Fresh, CoroTypes, NodeType
    <3>8. (Len(pushed) + 1)' = k
      BY <2>1, <3>1 DEF queueVars
    <3>9. Within(i, k)'
      BY <2>3, <3>5, <3>6, <3>7 DEF Within
    <3> QED
      BY <3>8, <3>9
  <2>4. IF open \/ "body" = "full"
          THEN coro' = [coro EXCEPT ![i] = "body"] /\ need' = [need EXCEPT ![i] = 1]
          ELSE coro' = [coro EXCEPT ![i] = "dead"] /\ need' = [need EXCEPT ![i] = 0]
    BY <2>1
  <2>5. 1 \in 0 .. 3 /\ 1 >= 1
    OBVIOUS
  <2> QED
    BY <1>0, <1>3, <2>1, <2>2, <2>3, <2>4, <2>5, GoesOnInv
<1> QED
  BY <1>4, <1>5, <1>6, <1>7

(* After the message or the rest, the counters say what is missing.          *)
LEMMA GoOnInv ==
  ASSUME CoroIInv, NEW i \in Coros, coro[i] \in {"body_ready", "rest_ready"}, IoFree, GoOn(i),
         node' \in NodeType, node'.head = node.head, node'.total = node.total,
         ~ overlap /\ ~ close_flag => \A k : k = Len(pushed) + 1 =>
           /\ Headed(k) /\ node'.body = <<k, "body">>
           /\ \/ node'.cur = 2 /\ NextIs(<<k, "rest">>)
              \/ node'.cur = 3 /\ Boundary(k + 1)
  PROVE  CoroIInv'
<1>1. /\ UNCHANGED <<accepting, sessionVars, tmp_buff, queueVars, peerVars, historyVars>>
      /\ coro[i] \in Ready /\ coro[i] # "head_ready"
  BY DEF GoOn, Ready
<1>2. node'.cur \in Nat /\ node'.total \in {0, 2, 3}
  BY DEF NodeType
<1>3. ASSUME ~ overlap, ~ close_flag, NEW k, k = Len(pushed) + 1, coro'[i] \in {"rest", "full"},
             coro'[i] = "rest" => node'.cur < node'.total /\ need'[i] = node'.total - node'.cur,
             coro'[i] = "full" => ~ (node'.cur < node'.total)
      PROVE  Within(i, Len(pushed) + 1)'
  <2>1. Headed(k)' /\ node'.total = 3 /\ node'.body = <<k, "body">>
    BY <1>3 DEF Headed
  <2>2. \/ node'.cur = 2 /\ NextIs(<<k, "rest">>)
        \/ node'.cur = 3 /\ Boundary(k + 1)
    BY <1>3
  <2>3. (NextIs(<<k, "rest">>) => NextIs(<<k, "rest">>)') /\ (Boundary(k + 1) => Boundary(k + 1)')
    BY <1>1 DEF NextIs, Boundary, peerVars
  <2>4. coro'[i] = "rest" => Bodied(k)' /\ need'[i] = 1 /\ NextIs(<<k, "rest">>)'
    BY <1>3, <2>1, <2>2, <2>3 DEF Bodied
  <2>5. coro'[i] = "full" => Boundary(k + 1)'
    BY <1>3, <2>1, <2>2, <2>3
  <2>6. Within(i, k)'
    BY <1>3, <2>1, <2>4, <2>5 DEF Within
  <2>7. (Len(pushed) + 1)' = k
    BY <1>1, <1>3 DEF queueVars
  <2> QED
    BY <2>6, <2>7
<1>4. coro \in [Coros -> Stages] /\ need \in [Coros -> 0 .. 3]
  BY DEF CoroIInv, CoroTypes
<1>5. CASE node'.cur < node'.total
  <2> DEFINE n == node'.total - node'.cur
  <2>1. n \in 0 .. 3 /\ n >= 1
    BY <1>2, <1>5
  <2>2. IF open \/ "rest" = "full"
          THEN coro' = [coro EXCEPT ![i] = "rest"] /\ need' = [need EXCEPT ![i] = n]
          ELSE coro' = [coro EXCEPT ![i] = "dead"] /\ need' = [need EXCEPT ![i] = 0]
    BY <1>5 DEF GoOn, Await
  <2>3. "rest" \in UnderWay \ {"head", "head_ready", "pushed"}
    BY DEF UnderWay, Waiting
  <2>4. ~ overlap /\ ~ close_flag /\ coro'[i] = "rest" => Within(i, Len(pushed) + 1)'
    <3> SUFFICES ASSUME ~ overlap, ~ close_flag, coro'[i] = "rest" PROVE Within(i, Len(pushed) + 1)'
      OBVIOUS
    <3>1. need'[i] = n
      BY <1>4, <2>2
    <3> QED
      BY <1>3, <1>5, <3>1
  <2> HIDE DEF n
  <2>5. PICK r \in 0 .. 3 : r = n /\ r >= 1
    BY <2>1
  <2> QED
    BY <1>1, <2>2, <2>3, <2>4, <2>5, GoesOnInv
<1>6. CASE ~ (node'.cur < node'.total)
  <2>1. IF open \/ "full" = "full"
          THEN coro' = [coro EXCEPT ![i] = "full"] /\ need' = [need EXCEPT ![i] = 0]
          ELSE coro' = [coro EXCEPT ![i] = "dead"] /\ need' = [need EXCEPT ![i] = 0]
    BY <1>6 DEF GoOn
  <2>2. "full" \in UnderWay \ {"head", "head_ready", "pushed"} /\ "full" \notin Waiting
    BY DEF UnderWay, Waiting, Busy
  <2>3. ~ overlap /\ ~ close_flag /\ coro'[i] = "full" => Within(i, Len(pushed) + 1)'
    BY <1>3, <1>6
  <2>4. 0 \in 0 .. 3
    OBVIOUS
  <2> QED
    BY <1>1, <2>1, <2>2, <2>3, <2>4, GoesOnInv
<1> QED
  BY <1>5, <1>6

LEMMA ResumeBodyInv ==
  ASSUME CoroIInv, NEW i \in Coros, ResumeBody(i) PROVE CoroIInv'
<1>1. /\ CoroTypes /\ coro[i] = "body_ready" /\ IoFree /\ GoOn(i)
      /\ node' = [node EXCEPT !.body = tmp_buff[2], !.cur = @ + 1]
  BY DEF ResumeBody, CoroIInv
<1>2. node \in NodeType /\ tmp_buff[2] \in Bytes
  BY <1>1 DEF CoroTypes, NodeType
<1>3. /\ node'.body = tmp_buff[2] /\ node'.cur = node.cur + 1
      /\ node'.head = node.head /\ node'.total = node.total
  BY <1>1, <1>2 DEF NodeType
<1>4. node' \in NodeType
  <2>1. node.cur + 1 \in Nat
    BY <1>2 DEF NodeType
  <2> QED
    BY <1>1, <1>2, <2>1 DEF NodeType
<1>5. ASSUME ~ overlap, ~ close_flag, NEW k, k = Len(pushed) + 1
      PROVE  Headed(k) /\ node'.body = <<k, "body">> /\ node'.cur = 2 /\ NextIs(<<k, "rest">>)
  <2>1. Within(i, k)
    BY <1>5 DEF CoroIInv, Track
  <2> QED
    BY <1>1, <1>3, <2>1 DEF Within
<1>6. ~ overlap /\ ~ close_flag => \A k : k = Len(pushed) + 1 =>
        /\ Headed(k) /\ node'.body = <<k, "body">>
        /\ \/ node'.cur = 2 /\ NextIs(<<k, "rest">>)
           \/ node'.cur = 3 /\ Boundary(k + 1)
  BY <1>5
<1>7. coro[i] \in {"body_ready", "rest_ready"}
  BY <1>1
<1> QED
  BY <1>1, <1>3, <1>4, <1>6, <1>7, GoOnInv

LEMMA ResumeRestInv ==
  ASSUME CoroIInv, NEW i \in Coros, ResumeRest(i) PROVE CoroIInv'
<1>1. /\ CoroTypes /\ coro[i] = "rest_ready" /\ IoFree /\ GoOn(i)
      /\ node' = [node EXCEPT !.cur = @ + need[i],
         !.body = IF node.cur <= 1 THEN tmp_buff[2] ELSE @]
  BY DEF ResumeRest, CoroIInv
<1>2. node \in NodeType /\ tmp_buff[2] \in Bytes /\ need[i] \in Nat
  BY <1>1 DEF CoroTypes, NodeType
<1>3. /\ node'.body = (IF node.cur <= 1 THEN tmp_buff[2] ELSE node.body)
         /\ node'.cur = node.cur + need[i]
      /\ node'.head = node.head /\ node'.total = node.total
  BY <1>1, <1>2 DEF NodeType
<1>4. node' \in NodeType
  <2>1. node.cur + need[i] \in Nat /\ (IF node.cur <= 1 THEN tmp_buff[2] ELSE node.body) \in Bytes
    BY <1>2 DEF NodeType
  <2> QED
    BY <1>1, <1>2, <2>1 DEF NodeType
<1>5. ASSUME ~ overlap, ~ close_flag, NEW k, k = Len(pushed) + 1
      PROVE  Headed(k) /\ node'.body = <<k, "body">> /\ node'.cur = 3 /\ Boundary(k + 1)
  <2>1. Within(i, k)
    BY <1>5 DEF CoroIInv, Track
  <2> QED
    BY <1>1, <1>3, <2>1 DEF Within, Bodied
<1>6. ~ overlap /\ ~ close_flag => \A k : k = Len(pushed) + 1 =>
        /\ Headed(k) /\ node'.body = <<k, "body">>
        /\ \/ node'.cur = 2 /\ NextIs(<<k, "rest">>)
           \/ node'.cur = 3 /\ Boundary(k + 1)
  BY <1>5
<1>7. coro[i] \in {"body_ready", "rest_ready"}
  BY <1>1
<1> QED
  BY <1>1, <1>3, <1>4, <1>6, <1>7, GoOnInv

LEMMA AppendIs ==
  ASSUME NEW S, NEW s \in Seq(S), NEW e \in S
  PROVE  /\ Append(s, e) \in Seq(S) /\ Len(Append(s, e)) = Len(s) + 1 /\ Len(s) \in Nat
         /\ Append(s, e)[Len(s) + 1] = e
         /\ \A j \in 1 .. Len(s) : Append(s, e)[j] = s[j]
         /\ \A j \in 1 .. Len(s) + 1 : j \in 1 .. Len(s) \/ j = Len(s) + 1
  OBVIOUS

(* The package is pushed as the node has it.                                 *)
LEMMA PushInv ==
  ASSUME CoroIInv, NEW i \in Coros, Push(i) PROVE CoroIInv'
<1> USE DEF peerVars, sessionVars, historyVars
<1>0. /\ CoroTypes /\ coro[i] = "full" /\ coro' = [coro EXCEPT ![i] = "pushed"]
      /\ completed' = Append(completed, Content) /\ pushed' = Append(pushed, Content)
      /\ UNCHANGED <<accepting, sessionVars, need, tmp_buff, node, notices, polled, taken,
         peerVars, historyVars>>
  BY DEF Push, CoroIInv
<1>1. /\ "full" \in UnderWay /\ "full" \in Busy /\ "pushed" \in UnderWay /\ "pushed" \in Busy
      /\ "pushed" \in Stages /\ "pushed" \notin Waiting
  BY DEF Stages, UnderWay, Waiting, Ready, Busy
<1>2. /\ coro' \in [Coros -> Stages] /\ coro'[i] = "pushed"
      /\ \A j \in Coros : j # i => coro'[j] = coro[j]
      /\ Cardinality(Done) \in Nat /\ Cardinality(Done') \in Nat
         /\ Cardinality(Done) <= Cardinality(Done')
  BY <1>0, <1>1, MovedIs
<1>3. completed \in Seq(Entries) /\ pushed \in Seq(Entries) /\ Content \in Entries
        /\ Content = <<node.head, node.body>>
  BY <1>0 DEF CoroTypes, Entries, Content
<1>4. /\ completed' \in Seq(Entries) /\ Len(completed') = Len(completed) + 1
         /\ Len(completed) \in Nat
      /\ completed'[Len(completed) + 1] = Content
         /\ \A j \in 1 .. Len(completed) : completed'[j] = completed[j]
      /\ \A j \in 1 .. Len(completed) + 1 : j \in 1 .. Len(completed) \/ j = Len(completed) + 1
  BY <1>0, <1>3, AppendIs
<1>5. /\ pushed' \in Seq(Entries) /\ Len(pushed') = Len(pushed) + 1 /\ Len(pushed) \in Nat
      /\ pushed'[Len(pushed) + 1] = Content /\ \A j \in 1 .. Len(pushed) : pushed'[j] = pushed[j]
      /\ \A j \in 1 .. Len(pushed) + 1 : j \in 1 .. Len(pushed) \/ j = Len(pushed) + 1
  BY <1>0, <1>3, AppendIs
<1>6. \A j \in Coros : coro[j] # "pushed"
  BY <1>0, <1>1 DEF CoroIInv, Alone
<1>7. ~ Idle /\ ~ Idle'
  BY <1>0, <1>1, <1>2 DEF Idle
<1>8. ~ overlap => \A j \in Coros : coro'[j] \in UnderWay => j = i
  BY <1>0, <1>1, <1>2, LoneIs
<1>9. CoroTypes'
  BY <1>0, <1>2, <1>4, <1>5 DEF CoroTypes
<1>10. StreamOrder' /\ Known'
  BY <1>0, <1>3, <1>5 DEF CoroIInv, StreamOrder, Known
<1>11. Alone'
  <2>1. \A j \in Coros : coro'[j] \in Busy => j = i
    BY <1>0, <1>1, <1>2 DEF CoroIInv, Alone
  <2>2. ~ overlap => recv_pending
    BY <1>0, <1>1 DEF CoroIInv, Alone
  <2> QED
    BY <1>0, <1>1, <1>2, <1>8, <2>1, <2>2 DEF CoroIInv, Alone
<1>12. Sockets'
  BY <1>0, <1>7 DEF CoroIInv, Sockets
<1>13. ASSUME ~ overlap, ~ close_flag, NEW k, k = Len(pushed) + 1
       PROVE  Headed(k) /\ node.body = <<k, "body">> /\ Boundary(k + 1)
  <2>1. Within(i, k)
    BY <1>13 DEF CoroIInv, Track
  <2> QED
    BY <1>0, <2>1 DEF Within
<1>14. Track'
  <2> SUFFICES ASSUME ~ overlap, ~ close_flag PROVE Track'
    BY <1>0 DEF Track
  <2>1. PICK k : k = Len(pushed) + 1
    OBVIOUS
  <2>2. Headed(k) /\ Boundary(k + 1) /\ (Len(pushed) + 1)' = k + 1
    BY <1>5, <1>13, <2>1
  <2>3. \A j \in Coros : Within(j, k + 1)'
    BY <1>0, <1>2, <1>8, <2>2 DEF Within, Boundary, UnderWay, Waiting, Ready, Busy
  <2>4. \A j \in 1 .. Len(completed') : completed'[j][1][1] <= Len(pushed')
    <3>1. \A j \in 1 .. Len(completed) : completed[j][1][1] <= Len(pushed)
            /\ completed[j][1] \in Bytes
      BY <1>3 DEF CoroIInv, Track, Entries
    <3>2. \A u \in Bytes : u[1] \in Nat
      BY CoroAssumption DEF Bytes, Units, NoUnit
    <3>3. Content[1][1] = k
      BY <1>3, <2>2 DEF Headed
    <3> QED
      BY <1>4, <1>5, <2>1, <3>1, <3>2, <3>3
  <2> QED
    BY <1>7, <2>2, <2>3, <2>4 DEF Track
<1>15. WholeUnlessDisturbed'
  <2> SUFFICES ASSUME ~ overlap, ~ cut, NEW j \in 1 .. Len(pushed')
               PROVE  pushed'[j] = << <<j, "head">>, <<j, "body">> >>
    BY <1>0 DEF WholeUnlessDisturbed
  <2>1. ~ close_flag
    BY <1>7 DEF CoroIInv, Sockets
  <2>2. CASE j \in 1 .. Len(pushed)
    BY <1>5, <2>2 DEF CoroIInv, WholeUnlessDisturbed
  <2>3. CASE j = Len(pushed) + 1
    BY <1>3, <1>5, <1>13, <2>1, <2>3 DEF Headed
  <2> QED
    BY <1>5, <2>2, <2>3
<1>16. Deaf'
  <2> SUFFICES ASSUME ~ overlap, close_flag, open PROVE Deaf'
    BY <1>0 DEF Deaf
  <2>1. node.head[1] < first /\ \A j \in 1 .. Len(pushed) : pushed[j][1][1] < first
    BY DEF CoroIInv, Deaf
  <2>2. \A j \in 1 .. Len(pushed') : pushed'[j][1][1] < first
    BY <1>3, <1>5, <2>1
  <2>3. \A j \in Coros : coro'[j] # "head_ready"
    BY <1>2, <1>8 DEF UnderWay, Ready
  <2> QED
    BY <1>0, <2>1, <2>2, <2>3 DEF Deaf
<1>17. Shared'
  <2> SUFFICES ASSUME ~ overlap PROVE Shared'
    BY <1>0 DEF Shared
  <2>1. node.head # NoUnit
    BY <1>0, <1>1 DEF CoroIInv, Shared
  <2>2. \A j \in 1 .. Len(completed) : completed[j][1] # NoUnit /\ completed[j][1] # node.head
    BY <1>6 DEF CoroIInv, Shared
  <2>3. \A j \in Coros : coro'[j] # "head_ready"
    BY <1>2, <1>8 DEF UnderWay, Ready
  <2> QED
    BY <1>0, <1>2, <1>3, <1>4, <2>1, <2>2, <2>3 DEF Shared
<1>18. Notified' /\ Emptied'
  <2>1. notices \in Nat
    BY <1>0 DEF CoroTypes
  <2>2. Notified'
    BY <1>0, <1>2, <1>4, <1>6, <2>1 DEF CoroIInv, Notified
  <2> QED
    BY <1>0, <2>2 DEF CoroIInv, Emptied
<1> QED
  BY <1>9, <1>10, <1>11, <1>12, <1>14, <1>15, <1>16, <1>17, <1>18 DEF CoroIInv

(* The node that every entry is, is cleared.                                 *)
LEMMA ClearInv ==
  ASSUME CoroIInv, NEW i \in Coros, Clear(i) PROVE CoroIInv'
<1> USE DEF peerVars, historyVars
<1>0. /\ CoroTypes /\ coro[i] = "pushed" /\ coro' = [coro EXCEPT ![i] = "done"]
      /\ recv_pending' = FALSE /\ notices' = notices + 1
      /\ UNCHANGED <<accepting, open, close_flag, need, tmp_buff, completed, pushed, polled, taken,
         peerVars, historyVars>>
  BY DEF Clear, CoroIInv
<1>1. /\ "pushed" \in UnderWay /\ "pushed" \in Busy
      /\ "done" \in Stages /\ "done" \notin UnderWay \cup Waiting \cup Busy
  BY DEF Stages, UnderWay, Waiting, Ready, Busy
<1>2. /\ coro' \in [Coros -> Stages] /\ coro'[i] = "done"
      /\ \A j \in Coros : j # i => coro'[j] = coro[j]
      /\ Cardinality(Done) \in Nat /\ Cardinality(Done') \in Nat
         /\ Cardinality(Done) < Cardinality(Done')
  BY <1>0, <1>1, MovedIs
<1>3. node' \in NodeType /\ node'.head = NoUnit /\ node'.cur = 0 /\ node'.analyzed = FALSE
  <2>1. node \in NodeType /\ NoUnit \in Bytes
    BY <1>0 DEF CoroTypes, NodeType, Bytes
  <2> QED
    BY <2>1 DEF Clear, NodeType
<1>4. \A j \in Coros : coro'[j] \notin Busy
  BY <1>0, <1>1, <1>2 DEF CoroIInv, Alone
<1>5. ~ overlap => \A j \in Coros : coro'[j] \notin UnderWay
  BY <1>0, <1>1, <1>2, LoneIs
<1>6. CoroTypes'
  <2>1. notices \in Nat /\ notices <= Cardinality(Done) /\ Cardinality(Done') = Cardinality(Done)'
    BY <1>0 DEF CoroTypes
  <2>2. notices' \in Nat /\ notices' <= Cardinality(Done')
    BY <1>0, <1>2, <2>1
  <2>3. recv_pending' \in BOOLEAN
    BY <1>0
  <2> QED
    BY <1>0, <1>2, <1>3, <2>1, <2>2, <2>3 DEF CoroTypes, NodeType
<1>7. StreamOrder' /\ Known'
  BY <1>0, <1>3, Numbers DEF CoroIInv, StreamOrder, Known, NoUnit
<1>8. Alone'
  <2>1. "head" \in Waiting
    BY DEF Waiting
  <2> QED
    BY <1>0, <1>1, <1>2, <1>4, <1>5, <2>1 DEF CoroIInv, Alone
<1>9. Sockets'
  <2>1. ~ Idle
    BY <1>0, <1>1 DEF Idle
  <2> QED
    BY <1>0, <2>1 DEF CoroIInv, Sockets
<1>10. Track'
  <2> SUFFICES ASSUME ~ overlap, ~ close_flag PROVE Track'
    BY <1>0 DEF Track
  <2>1. PICK k : k = Len(pushed) + 1
    OBVIOUS
  <2>2. Within(i, k) /\ \A j \in 1 .. Len(completed) : completed[j][1][1] <= Len(pushed)
    BY <2>1 DEF CoroIInv, Track
  <2>3. Boundary(k)' /\ Fresh' /\ k = (Len(pushed) + 1)'
    BY <1>0, <1>3, <2>1, <2>2 DEF Within, Boundary, Fresh
  <2>4. \A j \in Coros : Within(j, k)'
    BY <1>5 DEF Within, UnderWay, Waiting, Ready, Busy
  <2> QED
    BY <1>0, <2>2, <2>3, <2>4 DEF Track
<1>11. WholeUnlessDisturbed' /\ Emptied'
  BY <1>0 DEF CoroIInv, WholeUnlessDisturbed, Emptied
<1>12. Deaf'
  <2>1. node'.head[1] < first
    BY <1>0, <1>3 DEF CoroTypes, NoUnit
  <2>2. "head_ready" # "done"
    OBVIOUS
  <2> QED
    BY <1>0, <1>2, <2>1, <2>2 DEF CoroIInv, Deaf
<1>13. Shared'
  BY <1>0, <1>3, <1>5 DEF CoroIInv, Shared, UnderWay, Ready
<1>14. Notified'
  <2>1. \A j \in Coros : coro'[j] # "pushed"
    BY <1>1, <1>4
  <2>2. notices \in Nat
    BY <1>0 DEF CoroTypes
  <2> QED
    BY <1>0, <2>1, <2>2 DEF CoroIInv, Notified
<1> QED
  BY <1>6, <1>7, <1>8, <1>9, <1>10, <1>11, <1>12, <1>13, <1>14 DEF CoroIInv

(* Who takes an entry after a notice takes one whose node was cleared.       *)
LEMMA TakeInv ==
  ASSUME CoroIInv, TakePolling \/ TakeNotified PROVE CoroIInv'
<1> USE DEF peerVars, sessionVars, historyVars, coroVars
<1>0. /\ CoroTypes /\ completed # <<>> /\ completed' = Tail(completed)
      /\ UNCHANGED <<accepting, sessionVars, coroVars, pushed, peerVars, historyVars>>
  BY DEF TakePolling, TakeNotified, TakeEntry, CoroIInv
<1>1. \/ polled' /\ polled' \in BOOLEAN /\ notices' = notices
         /\ taken' = <<Head(completed), Content, FALSE>>
      \/ /\ (polled' <=> polled) /\ polled' \in BOOLEAN
         /\ notices > 0 /\ notices' = notices - 1 /\ taken' = <<Head(completed), Content, TRUE>>
  BY <1>0 DEF TakePolling, TakeNotified, TakeEntry, CoroTypes
<1>2. /\ completed \in Seq(Entries) /\ completed' \in Seq(Entries)
         /\ Len(completed') = Len(completed) - 1
      /\ Len(completed) \in Nat /\ Len(completed) >= 1 /\ Head(completed) = completed[1]
      /\ \A j \in 1 .. Len(completed) - 1 : completed'[j] = completed[j + 1]
  <2>1. completed \in Seq(Entries)
    BY <1>0 DEF CoroTypes
  <2> QED
    BY <1>0, <2>1, TailIs
<1>3. \A j \in 1 .. Len(completed') : j + 1 \in 1 .. Len(completed)
        /\ completed'[j] = completed[j + 1]
                                      /\ (j + 1 = Len(completed) => j = Len(completed'))
  BY <1>2
<1>4. CoroTypes'
  <2>0. notices \in Nat
    BY <1>0 DEF CoroTypes
  <2>1. notices' \in Nat /\ notices' <= notices
    <3>1. notices' = notices \/ (notices > 0 /\ notices' = notices - 1)
      BY <1>1
    <3> QED
      BY <2>0, <3>1
  <2>4. polled' \in BOOLEAN
    BY <1>1
  <2>2. Cardinality(Done) \in Nat /\ Done' = Done
    BY <1>0, DoneGrows DEF Done
  <2>3. notices' <= Cardinality(Done)'
    BY <1>0, <2>1, <2>2 DEF CoroTypes
  <2> QED
    BY <1>0, <1>2, <2>1, <2>3, <2>4 DEF CoroTypes
<1>5. StreamOrder' /\ Known' /\ Alone' /\ Sockets' /\ Deaf' /\ WholeUnlessDisturbed'
  BY <1>0 DEF CoroIInv, StreamOrder, Known, Alone, Sockets, Idle, Deaf, WholeUnlessDisturbed
<1>6. Track'
  <2> SUFFICES ASSUME ~ overlap, ~ close_flag PROVE Track'
    BY <1>0 DEF Track
  <2>1. \A j \in Coros : Within(j, Len(pushed) + 1)'
    BY <1>0 DEF CoroIInv, Track, Within, Headed, Bodied, Fresh, NextIs, Boundary
  <2>2. Idle' => Boundary(Len(pushed) + 1)' /\ (Fresh \/ lost)'
    BY <1>0 DEF CoroIInv, Track, Idle, Boundary, Fresh
  <2>3. \A j \in 1 .. Len(completed') : completed'[j][1][1] <= Len(pushed')
    BY <1>0, <1>3 DEF CoroIInv, Track
  <2> QED
    BY <2>1, <2>2, <2>3 DEF Track
<1>7. Shared'
  <2> SUFFICES ASSUME ~ overlap PROVE Shared'
    BY <1>0 DEF Shared
  <2>1. \A j \in 1 .. Len(completed') : completed'[j][1] # NoUnit
    BY <1>3 DEF CoroIInv, Shared
  <2>2. \A j \in 1 .. Len(completed') : completed'[j][1] = node.head =>
          j = Len(completed') /\ \E i \in Coros : coro[i] = "pushed"
    BY <1>3 DEF CoroIInv, Shared
  <2>3. \A i \in Coros : coro[i] = "head_ready" =>
          tmp_buff[1] # NoUnit /\ \A j \in 1 .. Len(completed') : completed'[j][1] # tmp_buff[1]
    BY <1>3 DEF CoroIInv, Shared, Past
  <2>4. \A i \in Coros :
          coro[i] \in UnderWay \ {"head", "head_ready", "pushed"} => node.head # NoUnit
    BY DEF CoroIInv, Shared
  <2> QED
    BY <1>0, <2>1, <2>2, <2>3, <2>4 DEF Shared, Past
<1>8. Notified'
  <2> SUFFICES ASSUME ~ polled' PROVE Notified'
    BY DEF Notified
  <2>1. ~ polled
    BY <1>1
  <2>2. notices \in Nat /\ notices > 0 /\ notices' = notices - 1
    BY <1>0, <1>1 DEF CoroTypes
  <2> DEFINE some == IF \E i \in Coros : coro[i] = "pushed" THEN 1 ELSE 0
  <2>3. Len(completed) = notices + some /\ some' = some /\ some \in {0, 1}
    BY <1>0, <2>1 DEF CoroIInv, Notified
  <2> HIDE DEF some
  <2>4. Len(completed') = notices' + some'
    BY <1>2, <2>2, <2>3
  <2> QED
    BY <2>4 DEF Notified, some
<1>9. Emptied'
  <2> SUFFICES ASSUME taken'[3], ~ polled', ~ overlap PROVE taken'[1] # taken'[2]
    BY <1>0 DEF Emptied
  <2>1. notices > 0 /\ ~ polled /\ taken' = <<completed[1], Content, TRUE>>
    <3>1. polled' \in BOOLEAN
      BY <1>1
    <3> QED
      BY <1>1, <1>2, <3>1
  <2>2. completed[1][1] # node.head
    <3> SUFFICES ASSUME completed[1][1] = node.head PROVE FALSE
      OBVIOUS
    <3>1. 1 = Len(completed) /\ \E i \in Coros : coro[i] = "pushed"
      BY <1>2 DEF CoroIInv, Shared
    <3>2. Len(completed) = notices + 1 /\ notices \in Nat
      BY <1>0, <2>1, <3>1 DEF CoroIInv, Notified, CoroTypes
    <3> QED
      BY <2>1, <3>1, <3>2
  <2> QED
    BY <2>1, <2>2 DEF Content
<1> QED
  BY <1>4, <1>5, <1>6, <1>7, <1>8, <1>9 DEF CoroIInv

-----------------------------------------------------------------------------
LEMMA CoroStep ==
  ASSUME CoroIInv, [NextCoro]_socketVars PROVE CoroIInv'
<1>1. CASE UNCHANGED socketVars
  <2> USE <1>1 DEF socketVars, sessionVars, coroVars, queueVars, peerVars, historyVars, CoroIInv
  <2>1. CoroTypes' /\ StreamOrder' /\ Known' /\ Alone' /\ Sockets'
    BY DEF CoroTypes, Done, StreamOrder, Known, Alone, Sockets, Idle
  <2>2. Track'
    BY DEF Track, Within, Headed, Bodied, Fresh, NextIs, Boundary, Idle
  <2>3. WholeUnlessDisturbed' /\ Deaf' /\ Shared' /\ Notified' /\ Emptied'
    BY DEF WholeUnlessDisturbed, Deaf, Shared, Past, Notified, Emptied
  <2> QED
    BY <2>1, <2>2, <2>3
<1>2. CASE Connect \/ AlreadyOpen \/ Break \/ ProgramCloses
  BY <1>2, ConnectInv, AlreadyOpenInv, BreakInv, ProgramClosesInv
<1>3. ASSUME NEW part \in Heads, Send(part) PROVE CoroIInv'
  BY <1>3, SendInv
<1>4. ASSUME NEW i \in Coros,
             \/ Spawn(i) \/ Begin(i) \/ Recv(i) \/ Swallow(i) \/ Abort(i)
             \/ Push(i) \/ Clear(i)
      PROVE  CoroIInv'
  BY <1>4, SpawnInv, BeginNothingInv, BeginReadInv, RecvInv, SwallowInv, AbortInv, PushInv,
     ClearInv
<1>5. ASSUME NEW i \in Coros, Resume(i) PROVE CoroIInv'
  BY <1>5, ResumeHeadInv, ResumeZeroInv, ResumeBodyInv, ResumeRestInv DEF Resume
<1>6. CASE TakePolling \/ TakeNotified
  BY <1>6, TakeInv
<1> QED
  BY <1>1, <1>2, <1>3, <1>4, <1>5, <1>6 DEF NextCoro, RunCoro

(* For any finite number of calls of readFromSocket, any packages and        *)
(* connections: as long as no two coroutines of a session read at once and   *)
(* no close cuts one short, the packages pushed are the peer's, whole and in *)
(* order; what is read after a first close begins with no later header; and  *)
(* the node's shape, the flags and the notices are as their types say.       *)
THEOREM CoroCorrect == SpecCoro => []CoroInv
  BY InitCoroInv, CoroStep, InvCoro, PTL DEF SpecCoro

(* Who takes a package only after its notice finds it emptied, whatever else *)
(* has happened to the session, unless two coroutines read at once.          *)
THEOREM AlwaysEmptied == SpecCoro => []Emptied
  BY InitCoroInv, CoroStep, InvCoro, PTL DEF SpecCoro
=============================================================================
