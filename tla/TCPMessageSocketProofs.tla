----------------------- MODULE TCPMessageSocketProofs -----------------------
(***************************************************************************)
(* Proofs about TCPMessageSocket, for every set of message lengths, every  *)
(* number of messages, every segmentation and every set of faults.         *)
(***************************************************************************)
EXTENDS TCPMessageSocket, InductionLemmas, SequenceTheorems

-----------------------------------------------------------------------------
(* The object and its owner *)

\* The flags of the object, its pending operation and its owner.
ObjOK ==
    /\ status \in {"live", "deleted", "threw", "crashed"}
    /\ op \in Operations \cup {"none"}
    /\ owned \in BOOLEAN /\ requested \in BOOLEAN /\ opened \in BOOLEAN
    /\ cancelled \in BOOLEAN /\ completed \in BOOLEAN
    /\ cancelled => ~owned
    /\ status = "live" /\ ~owned => cancelled
    /\ status \in {"deleted", "crashed"} => ~owned
    /\ calls = IF completed THEN 1 ELSE 0
    /\ completed => requested /\ op = "none"
    /\ ~requested => op = "none" /\ ~opened
    /\ op = "none" => result = NoResult

OInv == ObjOK /\ DeletedIsQuiet

\* What a handler does: it sees that it was cancelled, or it calls back, throws
\* or starts the next operation.
LEMMA HandlerCases ==
    ASSUME Handlers
    PROVE  /\ status = "live" /\ op # "none" /\ result # NoResult
           /\ UNCHANGED <<cancelled, owned, requested, opened>>
           /\ \/ cancelCheck
              \/ ~cancelled /\ \E d, l : sendCallback(d, l)
              \/ /\ ~cancelled /\ status' = "threw" /\ op' = "none"
                 /\ result' = NoResult /\ UNCHANGED <<completed, calls, event>>
              \/ ~cancelled /\ \E o \in Operations : \E size : async(o, size)
  BY DEF Handlers, handleConnect, handleWrite, handleReadLength, handleReadData,
         Handling, Got, objVars, callVars, Operations

\* The object at the start.
LEMMA ObjectInit == Init => OInv
  BY DEF Init, OInv, ObjOK, DeletedIsQuiet, Operations

\* Every step keeps the object in order.
LEMMA ObjectStep == OInv /\ [Next]_vars => OInv'
<1> SUFFICES ASSUME OInv, [Next]_vars PROVE OInv'
  OBVIOUS
<1> USE DEF OInv, ObjOK, DeletedIsQuiet
<1>1. CASE send
  BY <1>1 DEF send, objVars, recvVars, callVars, netVars, Operations
<1>2. CASE cancel
  BY <1>2 DEF cancel, objVars, recvVars, callVars, netVars
<1>3. CASE /\ UNCHANGED <<status, op, cancelled, owned, requested, opened,
                          completed, calls>>
           /\ op = "none" => UNCHANGED result
  BY <1>3
<1>4. CASE Handlers
  <2>1. /\ status = "live" /\ op # "none" /\ result # NoResult
        /\ UNCHANGED <<cancelled, owned, requested, opened>>
    BY <1>4, HandlerCases
  <2>2. CASE cancelCheck
    BY <2>1, <2>2 DEF cancelCheck, callVars
  <2>3. ASSUME ~cancelled, NEW d, NEW l, sendCallback(d, l) PROVE OInv'
    BY <2>1, <2>3 DEF sendCallback
  <2>4. CASE /\ ~cancelled /\ status' = "threw" /\ op' = "none"
             /\ result' = NoResult /\ UNCHANGED <<completed, calls, event>>
    BY <2>1, <2>4
  <2>5. ASSUME ~cancelled, NEW o \in Operations, NEW size, async(o, size)
        PROVE  OInv'
    BY <2>1, <2>5 DEF async, callVars, Operations
  <2> QED BY <1>4, <2>2, <2>3, <2>4, <2>5, HandlerCases
<1>5. CASE handleDeleted
  BY <1>5 DEF handleDeleted, objVars, callVars
<1>6. ASSUME NEW k, serverSends(k) PROVE OInv'
  BY <1>3, <1>6 DEF serverSends, objVars, callVars
<1>7. ASSUME NEW how, serverEnds(how) PROVE OInv'
  BY <1>3, <1>7 DEF serverEnds, objVars, callVars
<1>8. CASE Completions
  BY <1>3, <1>8 DEF Completions, completes, receives, Pending, objVars, callVars
<1>9. CASE UNCHANGED vars
  BY <1>3, <1>9 DEF vars, objVars, callVars
<1> QED BY <1>1, <1>2, <1>4, <1>5, <1>6, <1>7, <1>8, <1>9 DEF Next, Terminated

\* The flags are in order in every reachable state.
THEOREM ObjectInvariance == Spec => []OInv
<1> QED BY ObjectInit, ObjectStep, PTL DEF Spec

\* No handler runs on an object that was deleted with its socket open, whenever
\* the owner releases it.
THEOREM DeletedStaysQuiet == Spec => []DeletedIsQuiet
<1>1. OInv => DeletedIsQuiet
  BY DEF OInv
<1> QED BY <1>1, ObjectInvariance, PTL

\* Every step is one the contract allows, or does not show in it.
LEMMA NextIsContractStep ==
    ASSUME OInv, [Next]_vars
    PROVE  [Contract!Next]_(Contract!vars)
<1> USE DEF OInv, ObjOK, Contract!vars, Contract!Next, Contract!Send,
            Contract!Callback, Contract!Release, Contract!Free
<1>1. CASE send
  <2>1. /\ owned /\ ~requested /\ requested' = TRUE
        /\ UNCHANGED <<status, owned, calls>>
    BY <1>1, Zenon DEF send, callVars
  <2>2. (status \in {"deleted", "crashed"})' = (status \in {"deleted", "crashed"})
    BY <2>1
  <2> QED BY <2>1, <2>2, Zenon
<1>2. CASE cancel
  <2>1. /\ owned /\ owned' = FALSE
        /\ UNCHANGED <<requested, calls>>
    BY <1>2, Zenon DEF cancel, callVars
  <2>2. \/ (status \in {"deleted", "crashed"})' = TRUE
        \/ (status \in {"deleted", "crashed"})' = FALSE
    OBVIOUS
  <2> QED BY <2>1, <2>2, Zenon
<1>3. CASE UNCHANGED <<status, owned, requested, calls>>
  BY <1>3
<1>4. CASE Handlers
  <2>1. /\ status = "live" /\ op # "none"
        /\ UNCHANGED <<cancelled, owned, requested, opened>>
    BY <1>4, HandlerCases
  <2>2. CASE cancelCheck
    BY <2>1, <2>2 DEF cancelCheck, callVars
  <2>3. ASSUME ~cancelled, NEW d, NEW l, sendCallback(d, l)
        PROVE  [Contract!Next]_(Contract!vars)
    BY <2>1, <2>3 DEF sendCallback
  <2>4. CASE status' = "threw" /\ UNCHANGED calls
    BY <2>1, <2>4
  <2>5. ASSUME NEW o \in Operations, NEW size, async(o, size)
        PROVE  [Contract!Next]_(Contract!vars)
    BY <1>3, <2>1, <2>5 DEF async, callVars
  <2> QED BY <1>4, <2>2, <2>3, <2>4, <2>5, HandlerCases
<1>5. CASE handleDeleted
  BY <1>5 DEF handleDeleted, objVars, callVars
<1>6. ASSUME NEW k, serverSends(k) PROVE [Contract!Next]_(Contract!vars)
  BY <1>3, <1>6 DEF serverSends, objVars, callVars
<1>7. ASSUME NEW how, serverEnds(how) PROVE [Contract!Next]_(Contract!vars)
  BY <1>3, <1>7 DEF serverEnds, objVars, callVars
<1>8. CASE Completions
  BY <1>3, <1>8 DEF Completions, completes, receives, objVars, callVars
<1>9. CASE UNCHANGED vars
  BY <1>3, <1>9 DEF vars, objVars, callVars
<1> QED BY <1>1, <1>2, <1>4, <1>5, <1>6, <1>7, <1>8, <1>9 DEF Next, Terminated

\* TCPMessageSocket implements MessageSocket: at most one callback, only while
\* the socket is owned and after send(), and no deletion under the owner,
\* whenever the owner releases it between a completion and its handler.
THEOREM ImplementsMessageSocket == Spec => KeepsContract
<1>1. Init => Contract!Init
  BY DEF Init, Contract!Init
<1>2. OInv /\ [Next]_vars => [Contract!Next]_(Contract!vars)
  BY NextIsContractStep
<1> QED BY <1>1, <1>2, ObjectInvariance, PTL DEF Spec, KeepsContract, Contract!Spec

-----------------------------------------------------------------------------
(* The framing of the stream *)

ByteVals == Lens \cup {LengthEnd, Body}

\* st is the stream of the messages m, and off[k] the number of bytes of the
\* first k of them.
Framed(m, st, off) ==
    /\ m \in Seq(Lens) /\ st \in Seq(ByteVals) /\ off \in [0..Len(m) -> Nat]
    /\ off[0] = 0 /\ off[Len(m)] = Len(st)
    /\ \A k \in 1..Len(m) : off[k] = off[k - 1] + 2 + m[k]
    /\ \A k \in 1..Len(m) : off[k] <= Len(st)
    /\ \A k \in 1..Len(m) : st[off[k - 1] + 1] = m[k]

\* The parts of a stream have their types.
LEMMA FramedTyped ==
    ASSUME NEW m, NEW st, NEW off, Framed(m, st, off), NEW k \in 0..Len(m)
    PROVE  Len(m) \in Nat /\ Len(st) \in Nat /\ off[k] \in Nat
<1>1. m \in Seq(Lens) /\ st \in Seq(ByteVals) /\ off \in [0..Len(m) -> Nat]
  BY DEF Framed
<1> QED BY <1>1

\* Where the first byte of a message of y bytes is, behind x others.
LEMMA HeadPlace ==
    ASSUME NEW x \in Nat, NEW y \in Nat
    PROVE  /\ x + (y + 2) = x + 2 + y
           /\ x + 1 \in 1..(x + 2 + y) /\ x + 1 \in 1..(x + (y + 2))
           /\ ~(x + 1 <= x) /\ x + 1 - x = 1
  OBVIOUS

\* A message starts with its length and has two bytes more than that.
LEMMA BytesOfMessage ==
    ASSUME NEW l \in Lens
    PROVE  /\ Bytes(l) \in Seq(ByteVals)
           /\ Len(Bytes(l)) = l + 2
           /\ Bytes(l)[1] = l
<1> DEFINE head == <<l, LengthEnd>>
           body == [i \in 1..l |-> Body]
<1>1. l \in Nat
  BY TCPAssumption
<1>2. head \in Seq(ByteVals) /\ Len(head) = 2 /\ head[1] = l
  BY DEF ByteVals
<1>3. body \in Seq(ByteVals) /\ Len(body) = l
  BY <1>1 DEF ByteVals
<1> HIDE DEF head, body
<1>4. /\ head \o body \in Seq(ByteVals)
      /\ Len(head \o body) = l + 2
      /\ (head \o body)[1] = l
  <2>1. /\ head \o body \in Seq(ByteVals)
        /\ Len(head \o body) = Len(head) + Len(body)
        /\ \A i \in 1..Len(head) + Len(body) :
             (head \o body)[i] = IF i <= Len(head) THEN head[i]
                                                   ELSE body[i - Len(head)]
    BY <1>2, <1>3, ConcatProperties
  <2>2. 1 \in 1..Len(head) + Len(body) /\ 1 <= Len(head)
    BY <1>1, <1>2, <1>3
  <2>3. (head \o body)[1] = head[1]
    BY <2>1, <2>2
  <2> QED BY <1>1, <1>2, <1>3, <2>1, <2>3
<1> QED BY <1>4 DEF Bytes, head, body

\* Partial concatenations: F[k] is the first k messages.
Partials(m, F) ==
    /\ F \in [0..Len(m) -> Seq(ByteVals)]
    /\ F[0] = <<>>
    /\ \A i \in 1..Len(m) : F[i] = F[i - 1] \o Bytes(m[i])

\* They exist.
LEMMA PartialsExist ==
    ASSUME NEW m \in Seq(Lens)
    PROVE  \E F : Partials(m, F)
<1> DEFINE n == Len(m)
           V == Seq(ByteVals)
           step == [i \in 1..n |-> [s \in V |-> s \o Bytes(m[i])]]
           empty == <<>>
<1>1. n \in Nat /\ \A i \in 1..n : m[i] \in Lens
  OBVIOUS
<1>2. empty \in V
  OBVIOUS
<1>3. \A s \in V, i \in 1..n : s \o Bytes(m[i]) \in V
  BY <1>1, BytesOfMessage, ConcatProperties
<1>4. \A i \in 1..n : \A s \in V : step[i][s] = s \o Bytes(m[i])
  OBVIOUS
<1>5. IsStep(step, n, V)
  BY <1>3 DEF IsStep
<1> HIDE DEF V, step, n, empty
<1>6. PICK F : IsRecursion(F, n, V, empty, step)
  BY <1>1, <1>2, <1>5, FiniteRecursion
<1>7. ASSUME NEW i \in 1..n PROVE F[i] = F[i - 1] \o Bytes(m[i])
  <2>1. i - 1 \in 0..n
    BY <1>1
  <2>2. F[i - 1] \in V /\ F[i] = step[i][F[i - 1]]
    BY <1>6, <2>1 DEF IsRecursion
  <2> QED BY <1>4, <2>2
<1> QED BY <1>6, <1>7 DEF IsRecursion, Partials, V, n, empty

\* FlattenSeq gives the last of them.
LEMMA FlattenIsLast ==
    ASSUME NEW m \in Seq(Lens), NEW F, Partials(m, F)
    PROVE  FlattenSeq([k \in DOMAIN m |-> Bytes(m[k])]) = F[Len(m)]
<1> DEFINE n == Len(m)
           seqs == [k \in DOMAIN m |-> Bytes(m[k])]
           Rec(f) == f = [i \in 1..n |-> IF i = 1 THEN seqs[i]
                                                  ELSE f[i - 1] \o seqs[i]]
           flat == CHOOSE f : Rec(f)
<1>1. n \in Nat /\ DOMAIN m = 1..n
  OBVIOUS
<1>2. Len(seqs) = n
  BY <1>1
<1>3. \A i \in 1..n : seqs[i] = Bytes(m[i]) /\ m[i] \in Lens
  BY <1>1
<1>4. CASE n = 0
  <2>1. seqs = <<>>
    BY <1>1, <1>4
  <2> QED BY <1>2, <1>4, <2>1 DEF FlattenSeq, Partials
<1>5. CASE n # 0
  <2>1. FlattenSeq(seqs) = flat[n]
    BY <1>2, <1>5 DEF FlattenSeq
  <2>2. F[1] = Bytes(m[1])
    <3>1. 1 \in 1..n /\ 1 - 1 = 0
      BY <1>1, <1>5
    <3>2. F[1] = <<>> \o Bytes(m[1])
      BY <3>1 DEF Partials
    <3> QED BY <1>3, <3>1, <3>2, BytesOfMessage, ConcatEmptySeq
  <2>3. Rec([i \in 1..n |-> F[i]])
    <3> DEFINE g == [i \in 1..n |-> F[i]]
    <3>1. ASSUME NEW i \in 1..n
          PROVE  F[i] = IF i = 1 THEN seqs[i] ELSE g[i - 1] \o seqs[i]
      <4>1. CASE i = 1
        BY <1>3, <2>2, <4>1
      <4>2. CASE i # 1
        <5>1. i - 1 \in 1..n
          BY <1>1, <4>2
        <5>2. g[i - 1] = F[i - 1]
          BY <5>1
        <5> QED BY <1>3, <4>2, <5>2 DEF Partials
      <4> QED BY <4>1, <4>2
    <3> QED BY <3>1
  <2>4. Rec(flat)
    <3> HIDE DEF Rec
    <3> QED BY <2>3
  <2> HIDE DEF flat
  <2>5. \A i \in 1..n : flat[i] = IF i = 1 THEN seqs[i] ELSE flat[i - 1] \o seqs[i]
    BY <2>4
  <2> DEFINE T == {i \in Nat : i \in 1..n => flat[i] = F[i]}
  <2>6. 0 \in T
    BY <1>1
  <2>7. ASSUME NEW i \in Nat, i \in T PROVE i + 1 \in T
    <3> SUFFICES ASSUME i + 1 \in 1..n PROVE flat[i + 1] = F[i + 1]
      OBVIOUS
    <3>1. CASE i = 0
      <4>1. i + 1 = 1 /\ 1 \in 1..n
        BY <3>1
      <4>2. flat[1] = seqs[1]
        BY <2>5, <4>1
      <4>3. seqs[1] = Bytes(m[1])
        BY <1>3, <4>1
      <4> QED BY <2>2, <4>1, <4>2, <4>3
    <3>2. CASE i # 0
      <4>1. i \in 1..n /\ i + 1 # 1 /\ (i + 1) - 1 = i
        BY <1>1, <3>2
      <4>2. flat[i] = F[i]
        BY <2>7, <4>1
      <4>3. flat[i + 1] = flat[i] \o seqs[i + 1]
        BY <2>5, <4>1
      <4>4. seqs[i + 1] = Bytes(m[i + 1])
        BY <1>3
      <4>5. F[i + 1] = F[i] \o Bytes(m[i + 1])
        BY <4>1 DEF Partials
      <4> QED BY <4>2, <4>3, <4>4, <4>5
    <3> QED BY <3>1, <3>2
  <2> HIDE DEF T
  <2>8. n \in T
    BY <1>1, <2>6, <2>7, SetInduction
  <2>9. n \in 1..n
    BY <1>1, <1>5
  <2> QED BY <2>1, <2>8, <2>9 DEF T
<1> QED BY <1>4, <1>5

\* What the first k messages are is kept when others follow.
LEMMA PrefixKept ==
    ASSUME NEW m \in Seq(Lens), NEW F, Partials(m, F),
           NEW k \in 0..Len(m)
    PROVE  /\ Len(F[k]) <= Len(F[Len(m)])
           /\ \A i \in 1..Len(F[k]) : F[Len(m)][i] = F[k][i]
<1> DEFINE n == Len(m)
           Kept(j) == /\ Len(F[k]) <= Len(F[j])
                      /\ \A i \in 1..Len(F[k]) : F[j][i] = F[k][i]
           T == {j \in Nat : k + j <= n => Kept(k + j)}
<1>1. n \in Nat /\ k \in Nat /\ k <= n
  OBVIOUS
<1>2. \A j \in 0..n : F[j] \in Seq(ByteVals) /\ Len(F[j]) \in Nat
  BY DEF Partials
<1>3. 0 \in T
  <2>1. k + 0 = k
    BY <1>1
  <2> QED BY <1>1, <1>2, <2>1
<1>4. ASSUME NEW j \in Nat, j \in T PROVE j + 1 \in T
  <2> SUFFICES ASSUME k + (j + 1) <= n PROVE Kept(k + (j + 1))
    OBVIOUS
  <2> DEFINE q == k + j
  <2>1. /\ q \in 0..n /\ q + 1 \in 1..n /\ k + (j + 1) = q + 1
        /\ (q + 1) - 1 = q /\ k \in 0..n /\ q <= n
    BY <1>1
  <2>2. Kept(q)
    BY <1>4, <2>1
  <2>3. m[q + 1] \in Lens
    BY <2>1
  <2> HIDE DEF q
  <2>4. F[q + 1] = F[q] \o Bytes(m[q + 1])
    BY <2>1 DEF Partials
  <2> DEFINE a == F[q]
             b == Bytes(m[q + 1])
  <2>5. a \in Seq(ByteVals) /\ b \in Seq(ByteVals)
    BY <1>2, <2>1, <2>3, BytesOfMessage
  <2>6. /\ Len(a \o b) = Len(a) + Len(b)
        /\ \A i \in 1..Len(a) + Len(b) :
             (a \o b)[i] = IF i <= Len(a) THEN a[i] ELSE b[i - Len(a)]
    BY <2>5, ConcatProperties
  <2>7. Len(a) \in Nat /\ Len(b) \in Nat /\ Len(F[k]) \in Nat
    BY <1>2, <2>1, <2>5
  <2>8. F[q + 1] = a \o b /\ Len(F[k]) <= Len(a)
        /\ \A i \in 1..Len(F[k]) : a[i] = F[k][i]
    BY <2>2, <2>4
  <2> HIDE DEF a, b
  <2>9. Kept(q + 1)
    BY <2>6, <2>7, <2>8
  <2> QED BY <2>1, <2>9
<1>5. n - k \in Nat /\ k + (n - k) = n
  BY <1>1
<1> HIDE DEF T
<1>6. n - k \in T
  BY <1>3, <1>4, <1>5, SetInduction
<1> QED BY <1>1, <1>5, <1>6 DEF T

\* The stream a server has for any messages is framed.
LEMMA Framing ==
    ASSUME NEW m \in Seq(Lens)
    PROVE  \E off : Framed(m, FlattenSeq([k \in DOMAIN m |-> Bytes(m[k])]), off)
<1>1. PICK F : Partials(m, F)
  BY PartialsExist
<1> DEFINE n == Len(m)
           st == F[n]
           off == [k \in 0..n |-> Len(F[k])]
<1>2. n \in Nat /\ \A k \in 1..n : m[k] \in Lens /\ m[k] \in Nat
  <2>1. \A k \in 1..n : m[k] \in Lens
    OBVIOUS
  <2>2. n \in Nat
    OBVIOUS
  <2> HIDE DEF n
  <2> QED BY <2>1, <2>2, TCPAssumption
<1>3. \A k \in 0..n : F[k] \in Seq(ByteVals) /\ Len(F[k]) \in Nat
  BY <1>1 DEF Partials
<1>4. /\ off \in [0..n -> Nat] /\ st \in Seq(ByteVals)
      /\ off[0] = 0 /\ off[n] = Len(st)
  BY <1>1, <1>2, <1>3 DEF Partials
<1>5. ASSUME NEW k \in 1..n
      PROVE  /\ off[k] = off[k - 1] + 2 + m[k]
             /\ off[k] <= Len(st)
             /\ st[off[k - 1] + 1] = m[k]
  <2> DEFINE a == F[k - 1]
             b == Bytes(m[k])
  <2>1. k \in 0..n /\ k - 1 \in 0..n /\ m[k] \in Lens /\ m[k] \in Nat
    BY <1>2
  <2>2. F[k] = a \o b
    BY <1>1 DEF Partials
  <2>3. /\ a \in Seq(ByteVals) /\ b \in Seq(ByteVals)
        /\ Len(b) = m[k] + 2 /\ b[1] = m[k]
    BY <1>3, <2>1, BytesOfMessage
  <2>4. off[k] = Len(F[k]) /\ off[k - 1] = Len(a) /\ Len(a) \in Nat
    BY <1>3, <2>1
  <2>5. /\ Len(F[k]) <= Len(st)
        /\ \A i \in 1..Len(F[k]) : st[i] = F[k][i]
    BY <1>1, <2>1, PrefixKept
  <2> HIDE DEF a, b, st, off
  <2>6. /\ Len(a \o b) = Len(a) + Len(b)
        /\ \A i \in 1..Len(a) + Len(b) :
             (a \o b)[i] = IF i <= Len(a) THEN a[i] ELSE b[i - Len(a)]
    BY <2>3, ConcatProperties
  <2>7. Len(F[k]) = Len(a) + 2 + m[k]
    <3>1. Len(F[k]) = Len(a) + Len(b)
      BY <2>2, <2>6
    <3>2. Len(a) \in Nat /\ m[k] \in Nat
      BY <2>1, <2>4
    <3>3. Len(a) + (m[k] + 2) = Len(a) + 2 + m[k]
      BY <3>2, HeadPlace
    <3> QED BY <2>3, <3>1, <3>3
  <2>8. /\ Len(a) + 1 \in 1..Len(F[k]) /\ ~(Len(a) + 1 <= Len(a))
        /\ Len(a) + 1 - Len(a) = 1 /\ Len(a) + 1 \in 1..Len(a) + Len(b)
    <3>1. Len(a) \in Nat /\ m[k] \in Nat
      BY <2>1, <2>4
    <3>2. /\ Len(a) + 1 \in 1..(Len(a) + 2 + m[k]) /\ ~(Len(a) + 1 <= Len(a))
          /\ Len(a) + 1 - Len(a) = 1 /\ Len(a) + 1 \in 1..(Len(a) + (m[k] + 2))
      BY <3>1, HeadPlace
    <3> QED BY <2>3, <2>7, <3>2
  <2>9. st[Len(a) + 1] = m[k]
    BY <2>2, <2>3, <2>5, <2>6, <2>8
  <2> QED BY <2>4, <2>5, <2>7, <2>9
<1>6. st = FlattenSeq([k \in DOMAIN m |-> Bytes(m[k])])
  BY <1>1, FlattenIsLast
<1>7. Framed(m, st, off)
  <2> HIDE DEF st, off
  <2> QED BY <1>4, <1>5 DEF Framed
<1> QED BY <1>6, <1>7

-----------------------------------------------------------------------------
(* The position of the object in the stream *)

\* w, the bytes not arrived, and a, the bytes not read, are the end of st.
Flow(st, a, w) ==
    /\ Len(a) + Len(w) <= Len(st)
    /\ \A i \in 1..Len(a) : a[i] = st[(Len(st) - Len(a) - Len(w)) + i]
    /\ \A i \in 1..Len(w) : w[i] = st[(Len(st) - Len(w)) + i]

\* The first k bytes of w are moved to the end of a.
Shifted(a, w, k, a2, w2) ==
    /\ Len(a2) = Len(a) + k
    /\ \A i \in 1..Len(a) : a2[i] = a[i]
    /\ \A i \in 1..k : a2[Len(a) + i] = w[i]
    /\ Len(w2) = Len(w) - k
    /\ \A i \in 1..(Len(w) - k) : w2[i] = w[k + i]

\* They are still the end of the stream.
LEMMA FlowShifts ==
    ASSUME NEW S, NEW st \in Seq(S), NEW a \in Seq(S), NEW w \in Seq(S),
           NEW k \in 1..Len(w), Flow(st, a, w),
           NEW a2 \in Seq(S), NEW w2 \in Seq(S), Shifted(a, w, k, a2, w2)
    PROVE  /\ Flow(st, a2, w2)
           /\ Len(a2) + Len(w2) = Len(a) + Len(w)
<1> USE DEF Shifted
<1>1. /\ Len(st) \in Nat /\ Len(a) \in Nat /\ Len(w) \in Nat
      /\ k \in Int /\ 1 <= k /\ k <= Len(w)
  OBVIOUS
<1>2. ASSUME NEW i \in 1..Len(a2)
      PROVE  a2[i] = st[(Len(st) - Len(a2) - Len(w2)) + i]
  <2>1. CASE i <= Len(a)
    <3>1. /\ i \in 1..Len(a)
          /\ Len(st) - Len(a2) - Len(w2) = Len(st) - Len(a) - Len(w)
      BY <1>1, <2>1
    <3> QED BY <3>1 DEF Flow
  <2>2. CASE ~(i <= Len(a))
    <3> DEFINE j == i - Len(a)
    <3>1. /\ j \in 1..k /\ j \in 1..Len(w) /\ Len(a) + j = i
          /\ (Len(st) - Len(a2) - Len(w2)) + i = (Len(st) - Len(w)) + j
      BY <1>1, <2>2
    <3> HIDE DEF j
    <3>2. a2[i] = w[j]
      BY <3>1
    <3>3. w[j] = st[(Len(st) - Len(w)) + j]
      BY <3>1 DEF Flow
    <3> QED BY <3>1, <3>2, <3>3
  <2> QED BY <2>1, <2>2
<1>3. ASSUME NEW i \in 1..Len(w2) PROVE w2[i] = st[(Len(st) - Len(w2)) + i]
  <2>1. /\ i \in 1..(Len(w) - k) /\ k + i \in 1..Len(w)
        /\ (Len(st) - Len(w2)) + i = (Len(st) - Len(w)) + (k + i)
    BY <1>1
  <2> QED BY <2>1 DEF Flow
<1>4. Len(a2) + Len(w2) = Len(a) + Len(w)
  BY <1>1
<1>5. Len(a2) + Len(w2) <= Len(st)
  BY <1>4 DEF Flow
<1> QED BY <1>2, <1>3, <1>4, <1>5 DEF Flow

\* Bytes arrive.
Segment(a, w, k, a2, w2) ==
    a2 = a \o SubSeq(w, 1, k) /\ w2 = SubSeq(w, k + 1, Len(w))

\* That moves them from the one to the other.
LEMMA SendsShift ==
    ASSUME NEW S, NEW a \in Seq(S), NEW w \in Seq(S), NEW k \in 1..Len(w),
           NEW a2, NEW w2, Segment(a, w, k, a2, w2)
    PROVE  /\ a2 \in Seq(S) /\ w2 \in Seq(S)
           /\ Shifted(a, w, k, a2, w2)
<1> USE DEF Segment
<1> DEFINE p == SubSeq(w, 1, k)
<1>1. /\ Len(a) \in Nat /\ Len(w) \in Nat
      /\ k \in Int /\ 1 <= k /\ k <= Len(w)
  OBVIOUS
<1>2. p \in Seq(S) /\ Len(p) = k /\ \A i \in 1..k : p[i] = w[i]
  <2>1. \A i \in 1..k : w[i] \in S
    BY <1>1
  <2>2. /\ p \in Seq(S)
        /\ Len(p) = IF 1 <= k THEN k - 1 + 1 ELSE 0
        /\ \A i \in 1..(k - 1 + 1) : p[i] = w[1 + i - 1]
    BY <1>1, <2>1, SubSeqProperties
  <2> HIDE DEF p
  <2>3. \A i \in 1..k : i \in 1..(k - 1 + 1) /\ 1 + i - 1 = i
    BY <1>1
  <2>4. Len(p) = k
    BY <1>1, <2>2
  <2> QED BY <2>2, <2>3, <2>4
<1>3. /\ w2 \in Seq(S) /\ Len(w2) = Len(w) - k
      /\ \A i \in 1..(Len(w) - k) : w2[i] = w[k + i]
  <2>1. \A i \in (k + 1)..Len(w) : w[i] \in S
    BY <1>1
  <2>2. /\ w2 \in Seq(S)
        /\ Len(w2) = IF k + 1 <= Len(w) THEN Len(w) - (k + 1) + 1 ELSE 0
        /\ \A i \in 1..(Len(w) - (k + 1) + 1) : w2[i] = w[(k + 1) + i - 1]
    BY <1>1, <2>1, SubSeqProperties
  <2>3. \A i \in 1..(Len(w) - k) :
          i \in 1..(Len(w) - (k + 1) + 1) /\ (k + 1) + i - 1 = k + i
    BY <1>1
  <2>4. Len(w2) = Len(w) - k
    BY <1>1, <2>2
  <2> QED BY <2>2, <2>3, <2>4
<1>4. a2 \in Seq(S) /\ Len(a2) = Len(a) + k
      /\ (\A i \in 1..Len(a) : a2[i] = a[i])
      /\ \A i \in 1..k : a2[Len(a) + i] = w[i]
  <2>1. a2 = a \o p
    OBVIOUS
  <2> HIDE DEF p
  <2>2. /\ a2 \in Seq(S) /\ Len(a2) = Len(a) + k
        /\ \A i \in 1..Len(a) + k :
             a2[i] = IF i <= Len(a) THEN a[i] ELSE p[i - Len(a)]
    BY <1>2, <2>1, ConcatProperties
  <2>3. /\ \A i \in 1..Len(a) : i \in 1..Len(a) + k /\ i <= Len(a)
        /\ \A i \in 1..k : /\ Len(a) + i \in 1..Len(a) + k
                            /\ ~(Len(a) + i <= Len(a))
                            /\ (Len(a) + i) - Len(a) = i
    BY <1>1
  <2>4. ASSUME NEW i \in 1..k PROVE a2[Len(a) + i] = w[i]
    BY <1>2, <2>2, <2>3
  <2>5. ASSUME NEW i \in 1..Len(a) PROVE a2[i] = a[i]
    BY <2>2, <2>3
  <2> QED BY <2>2, <2>4, <2>5
<1>5. Shifted(a, w, k, a2, w2)
  BY <1>3, <1>4, Zenon DEF Shifted
<1>6. a2 \in Seq(S) /\ w2 \in Seq(S)
  BY <1>3, <1>4, Zenon
<1> QED BY <1>5, <1>6, Zenon

\* Bytes are read.
LEMMA FlowTakes ==
    ASSUME NEW S, NEW st \in Seq(S), NEW a \in Seq(S), NEW w \in Seq(S),
           NEW k \in 0..Len(a), Flow(st, a, w)
    PROVE  LET a2 == SubSeq(a, k + 1, Len(a))
           IN  /\ a2 \in Seq(S) /\ Len(a2) = Len(a) - k
               /\ Flow(st, a2, w)
<1> DEFINE a2 == SubSeq(a, k + 1, Len(a))
<1>1. /\ Len(st) \in Nat /\ Len(a) \in Nat /\ Len(w) \in Nat
      /\ k \in Int /\ 0 <= k /\ k <= Len(a)
  OBVIOUS
<1>2. /\ a2 \in Seq(S) /\ Len(a2) = Len(a) - k
      /\ \A i \in 1..(Len(a) - k) : a2[i] = a[k + i]
  <2>1. \A i \in (k + 1)..Len(a) : a[i] \in S
    BY <1>1
  <2>2. /\ a2 \in Seq(S)
        /\ Len(a2) = IF k + 1 <= Len(a) THEN Len(a) - (k + 1) + 1 ELSE 0
        /\ \A i \in 1..(Len(a) - (k + 1) + 1) : a2[i] = a[(k + 1) + i - 1]
    BY <1>1, <2>1, SubSeqProperties
  <2> HIDE DEF a2
  <2>3. \A i \in 1..(Len(a) - k) :
          i \in 1..(Len(a) - (k + 1) + 1) /\ (k + 1) + i - 1 = k + i
    BY <1>1
  <2>4. Len(a2) = Len(a) - k
    BY <1>1, <2>2
  <2> QED BY <2>2, <2>3, <2>4
<1> HIDE DEF a2
<1>3. ASSUME NEW i \in 1..Len(a2)
      PROVE  a2[i] = st[(Len(st) - Len(a2) - Len(w)) + i]
  <2>1. /\ i \in 1..(Len(a) - k) /\ k + i \in 1..Len(a)
        /\ (Len(st) - Len(a2) - Len(w)) + i = (Len(st) - Len(a) - Len(w)) + (k + i)
    BY <1>1, <1>2
  <2> QED BY <1>2, <2>1 DEF Flow
<1>4. Len(a2) + Len(w) <= Len(st)
  <2>1. Len(a) + Len(w) <= Len(st)
    BY DEF Flow
  <2> QED BY <1>1, <1>2, <2>1
<1>5. Flow(st, a2, w)
  BY <1>3, <1>4 DEF Flow
<1> QED BY <1>2, <1>5 DEF a2

\* r is the length of the first message of the first k of m that is not empty,
\* or 0.
FirstOf(m, k, r) ==
    \/ r = 0 /\ \A j \in 1..k : m[j] = 0
    \/ /\ r > 0
       /\ \E j \in 1..k : m[j] = r /\ \A i \in 1..(j - 1) : m[i] = 0

\* With the next message read, the length is kept or taken from it.
LEMMA FirstOfNext ==
    ASSUME NEW m \in Seq(Lens), NEW k \in 0..Len(m), k < Len(m), NEW r \in Nat,
           FirstOf(m, k, r)
    PROVE  FirstOf(m, k + 1, IF r = 0 THEN m[k + 1] ELSE r)
<1>1. /\ Len(m) \in Nat /\ k \in Nat /\ k + 1 \in 1..Len(m)
      /\ m[k + 1] \in Lens
  OBVIOUS
<1>2. m[k + 1] \in Nat
  BY <1>1, TCPAssumption
<1>3. CASE r = 0
  <2>1. \A j \in 1..k : m[j] = 0
    BY <1>3 DEF FirstOf
  <2>2. CASE m[k + 1] = 0
    <3>1. \A j \in 1..(k + 1) : m[j] = 0
      BY <1>1, <2>1, <2>2
    <3> QED BY <1>3, <2>2, <3>1 DEF FirstOf
  <2>3. CASE m[k + 1] # 0
    <3>1. m[k + 1] > 0 /\ k + 1 \in 1..(k + 1) /\ (k + 1) - 1 = k
      BY <1>1, <1>2, <2>3
    <3> QED BY <1>3, <2>1, <3>1 DEF FirstOf
  <2> QED BY <2>2, <2>3
<1>4. CASE r # 0
  <2>1. PICK j \in 1..k : m[j] = r /\ \A i \in 1..(j - 1) : m[i] = 0
    BY <1>4 DEF FirstOf
  <2>2. j \in 1..(k + 1) /\ r > 0
    BY <1>1, <1>4
  <2> QED BY <1>4, <2>1, <2>2 DEF FirstOf
<1> QED BY <1>3, <1>4

\* FirstLength, of any messages.
FirstLen(m) ==
    LET nonempty == {k \in DOMAIN m : m[k] > 0}
    IN  IF nonempty = {} THEN 0 ELSE m[Min(nonempty)]

\* It is what FirstOf says once all messages are read, or before that if a
\* message that is not empty was read.
LEMMA FirstOfIsFirst ==
    ASSUME NEW m \in Seq(Lens), NEW k \in 0..Len(m), NEW r \in Nat,
           FirstOf(m, k, r)
    PROVE  /\ r \in {0, FirstLen(m)}
           /\ k = Len(m) => r = FirstLen(m)
<1> DEFINE nonempty == {i \in DOMAIN m : m[i] > 0}
<1>1. Len(m) \in Nat /\ DOMAIN m = 1..Len(m) /\ k \in Nat /\ k <= Len(m)
  OBVIOUS
<1>2. \A i \in 1..Len(m) : m[i] \in Nat
  <2>1. \A i \in 1..Len(m) : m[i] \in Lens
    OBVIOUS
  <2> QED BY <2>1, TCPAssumption
<1>3. CASE r = 0
  <2> SUFFICES ASSUME k = Len(m) PROVE FirstLen(m) = 0
    BY <1>3
  <2>1. \A i \in DOMAIN m : m[i] = 0
    BY <1>1, <1>3 DEF FirstOf
  <2>2. nonempty = {}
    BY <2>1
  <2> QED BY <2>2 DEF FirstLen
<1>4. CASE r # 0
  <2>1. PICK j \in 1..k : m[j] = r /\ \A i \in 1..(j - 1) : m[i] = 0
    BY <1>4 DEF FirstOf
  <2>2. j \in nonempty /\ j \in Nat
    BY <1>1, <1>4, <2>1
  <2>3. ASSUME NEW i \in nonempty PROVE j <= i /\ i \in Nat
    <3>1. i \in 1..Len(m) /\ m[i] # 0
      BY <1>1, <1>2
    <3>2. i \notin 1..(j - 1)
      BY <2>1, <3>1
    <3> QED BY <2>2, <3>1, <3>2
  <2>4. Min(nonempty) \in nonempty /\ Min(nonempty) <= j
    <3> HIDE DEF nonempty
    <3>1. \E x \in nonempty : \A y \in nonempty : x =< y
      BY <2>2, <2>3
    <3> QED BY <2>2, <3>1 DEF Min
  <2>5. Min(nonempty) = j
    <3> HIDE DEF nonempty
    <3>1. j <= Min(nonempty) /\ Min(nonempty) \in Nat
      BY <2>3, <2>4
    <3> QED BY <2>2, <2>4, <3>1
  <2>6. FirstLen(m) = m[j]
    BY <2>2, <2>5 DEF FirstLen
  <2> QED BY <2>1, <2>6
<1> QED BY <1>3, <1>4

\* The number of bytes of st the object has read.
Taken(st) == Len(st) - (Len(arrived) + Len(wire))

\* The object has read k messages and reads, or has just read, the length of
\* the next.
ReadingLength(st, off, k) ==
    /\ want = 2
    /\ FirstOf(msgs, k, recvlen)
    /\ result.ec # "ok" => Taken(st) = off[k]
    /\ result.ec = "ok" =>
         /\ k < Len(msgs)
         /\ result.len = 2 /\ result.head = msgs[k + 1]
         /\ Taken(st) = off[k] + 2

\* It has read k messages and reads, or has just read, the body of the next.
ReadingData(st, off, k) ==
    /\ k < Len(msgs) /\ want = msgs[k + 1]
    /\ FirstOf(msgs, k, recvlen)
    /\ result.ec # "ok" => Taken(st) = off[k] + 2
    /\ result.ec = "ok" => result.len = want /\ Taken(st) = off[k + 1]

NothingRead(st) == Taken(st) = 0 /\ recvlen = 0 /\ aux = 0

Position(st, off) ==
    /\ ~requested \/ op \in {"connect", "write"} => NothingRead(st)
    /\ op = "readLength" => \E k \in 0..Len(msgs) : ReadingLength(st, off, k)
    /\ op = "readData" => \E k \in 0..Len(msgs) : ReadingData(st, off, k)

\* Where the object is in the stream, as long as no receive was short.
StreamOK ==
    \E st, off : /\ Framed(msgs, st, off)
                 /\ Flow(st, arrived, wire)
                 /\ ~short => Position(st, off)

\* The types of the connection's variables.
NetOK ==
    /\ msgs \in Seq(Lens)
    /\ arrived \in Seq(ByteVals) /\ wire \in Seq(ByteVals)
    /\ server \in {"open", "closed", "reset"}
    /\ short \in BOOLEAN
    /\ recvlen \in Nat /\ aux \in Nat
    /\ want \in Lens \cup {0, 2}
    /\ event.data \in {"none", "NULL", "recvbuf"}
    /\ event.len \in Nat

Reads == {"readLength", "readData"}

\* What a queued handler can be told.
ResultOK ==
    /\ result.ec \in {"pending", "ok", "eof", "error", "aborted"}
    /\ op \in Reads /\ result.ec = "ok" =>
         result.len \in Nat /\ result.head \in ByteVals
    /\ result.ec = "eof" =>
         op \in Reads /\ arrived = <<>> /\ server = "closed" /\ want > 0

FInv == NetOK /\ ResultOK /\ StreamOK /\ FirstMessageKept

\* The start of a connection.
LEMMA FramingInit == Init => FInv
<1> SUFFICES ASSUME Init PROVE FInv
  OBVIOUS
<1>1. msgs \in Seq(Lens)
  <2>1. PICK n \in 0..MaxMsgs : msgs \in [1..n -> Lens]
    BY Zenon DEF Init
  <2>2. n \in Nat
    BY <2>1, TCPAssumption
  <2> QED BY <2>1, <2>2
<1> DEFINE st == FlattenSeq([k \in DOMAIN msgs |-> Bytes(msgs[k])])
<1>2. wire = st /\ arrived = <<>>
  BY DEF Init
<1>3. PICK off : Framed(msgs, st, off)
  BY <1>1, Framing
<1> HIDE DEF st
<1>4. st \in Seq(ByteVals) /\ Len(st) \in Nat
  BY <1>3 DEF Framed
<1>5. Flow(st, arrived, wire) /\ Taken(st) = 0
  <2>1. Len(arrived) = 0 /\ Len(wire) = Len(st)
    BY <1>2
  <2>2. \A i \in 1..Len(st) : (Len(st) - Len(st)) + i = i
    BY <1>4
  <2> QED BY <1>2, <1>4, <2>1, <2>2 DEF Flow, Taken
<1>6. StreamOK
  <2>1. Position(st, off)
    BY <1>5 DEF Init, Position, NothingRead
  <2> QED BY <1>3, <1>5, <2>1 DEF StreamOK
<1>7. NetOK
  <2>1. event.data = "none" /\ event.len = 0
    BY DEF Init, NoEvent
  <2>2. /\ server = "open" /\ short = FALSE
        /\ recvlen = 0 /\ aux = 0 /\ want = 0
    BY DEF Init
  <2>3. arrived \in Seq(ByteVals) /\ wire \in Seq(ByteVals)
    BY <1>2, <1>4
  <2>4. recvlen \in Nat /\ aux \in Nat /\ event.len \in Nat
    BY <2>1, <2>2
  <2> QED BY <1>1, <2>1, <2>2, <2>3, <2>4, Zenon DEF NetOK
<1>8. ResultOK /\ FirstMessageKept
  BY DEF Init, ResultOK, NoResult, NoEvent, FirstMessageKept
<1> QED BY <1>6, <1>7, <1>8 DEF FInv

\* What a receive operation can complete with.
LEMMA ReceiveCases ==
    ASSUME NetOK, NEW o, receives(o)
    PROVE  /\ op = o /\ result = NoResult
           /\ UNCHANGED <<op, requested, recvlen, aux, want, calls, event, msgs,
                          wire, server>>
           /\ \/ \E k \in 0..Len(arrived) :
                   /\ k <= want /\ (k = 0 => want = 0)
                   /\ result' = [ec |-> "ok", len |-> k,
                                 head |-> IF k = 0 THEN Body ELSE arrived[1]]
                   /\ arrived' = SubSeq(arrived, k + 1, Len(arrived))
                   /\ short' = (short \/ k < want)
              \/ /\ want > 0 /\ arrived = <<>> /\ server = "closed"
                 /\ result' = Result("eof") /\ UNCHANGED <<arrived, short>>
              \/ result' = Result("error") /\ UNCHANGED <<arrived, short>>
<1> DEFINE k == IF want < Len(arrived) THEN want ELSE Len(arrived)
<1>1. want \in Nat /\ Len(arrived) \in Nat
  BY TCPAssumption DEF NetOK
<1>2. k \in 0..Len(arrived) /\ k <= want
  BY <1>1
<1>3. want = 0 \/ arrived # <<>> => (k = 0 => want = 0)
  <2>1. arrived # <<>> => Len(arrived) # 0
    BY DEF NetOK
  <2> QED BY <1>1, <2>1
<1>4. /\ op = o /\ result = NoResult
      /\ UNCHANGED <<op, requested, recvlen, aux, want, calls, event, msgs,
                     wire, server>>
  BY DEF receives, Pending, objVars, recvVars, callVars
<1>5. \/ /\ want = 0 \/ arrived # <<>>
         /\ result' = [ec |-> "ok", len |-> k,
                       head |-> IF k = 0 THEN Body ELSE arrived[1]]
         /\ arrived' = SubSeq(arrived, k + 1, Len(arrived))
         /\ short' = (short \/ k < want)
      \/ /\ want > 0 /\ arrived = <<>> /\ server = "closed"
         /\ result' = Result("eof") /\ UNCHANGED <<arrived, short>>
      \/ result' = Result("error") /\ UNCHANGED <<arrived, short>>
  BY Zenon DEF receives
<1> HIDE DEF k
<1> QED BY <1>2, <1>3, <1>4, <1>5, Zenon

\* The types and the results a step leaves.
LEMMA NetStep ==
    ASSUME OInv, NetOK, ResultOK, [Next]_vars,
           \E st : st \in Seq(ByteVals) /\ Flow(st, arrived, wire)
    PROVE  NetOK' /\ ResultOK'
<1>1. PICK st \in Seq(ByteVals) : Flow(st, arrived, wire)
  OBVIOUS
<1>2. CASE send
  <2>1. /\ UNCHANGED <<msgs, arrived, wire, server, short, recvlen, aux, want, event>>
        /\ op' = "connect" /\ (result' = result \/ result' = Result("error"))
        /\ op = "none"
    BY <1>2 DEF send, netVars, recvVars, callVars, OInv, ObjOK
  <2>2. result.ec # "eof"
    BY <2>1 DEF ResultOK, Reads
  <2>3. NetOK'
    BY <2>1 DEF NetOK
  <2> QED BY <2>1, <2>2, <2>3 DEF ResultOK, Result, Reads
<1>3. CASE cancel
  <2>1. /\ UNCHANGED <<msgs, arrived, wire, server, short, recvlen, aux, want, event, op>>
        /\ result' = result \/ result' = Result("aborted")
    BY <1>3 DEF cancel, netVars, recvVars, callVars
  <2>2. NetOK'
    BY <2>1 DEF NetOK
  <2> QED BY <2>1, <2>2 DEF ResultOK, Result
<1>4. ASSUME NEW k \in 1..Len(wire), serverSends(k) PROVE NetOK' /\ ResultOK'
  <2>1. /\ UNCHANGED <<msgs, server, short, recvlen, aux, want, event, op, result>>
        /\ arrived' = arrived \o SubSeq(wire, 1, k)
        /\ wire' = SubSeq(wire, k + 1, Len(wire))
        /\ server = "open"
    BY <1>4 DEF serverSends, recvVars, callVars
  <2>2. arrived' \in Seq(ByteVals) /\ wire' \in Seq(ByteVals)
    BY <2>1 DEF NetOK
  <2>3. NetOK'
    BY <2>1, <2>2 DEF NetOK
  <2>4. result.ec # "eof"
    BY <2>1 DEF ResultOK
  <2> QED BY <2>1, <2>3, <2>4 DEF ResultOK
<1>5. ASSUME NEW how \in {"closed", "reset"}, serverEnds(how) PROVE NetOK' /\ ResultOK'
  <2>1. /\ UNCHANGED <<msgs, arrived, wire, short, recvlen, aux, want, event, op, result>>
        /\ server' = how /\ server = "open"
    BY <1>5 DEF serverEnds, recvVars, callVars
  <2>2. NetOK'
    BY <2>1 DEF NetOK
  <2>3. result.ec # "eof"
    BY <2>1 DEF ResultOK
  <2> QED BY <2>1, <2>2, <2>3 DEF ResultOK
<1>6. ASSUME NEW o \in {"connect", "write"}, completes(o) PROVE NetOK' /\ ResultOK'
  <2>1. /\ UNCHANGED <<msgs, arrived, wire, server, short, recvlen, aux, want, event, op>>
        /\ op = o /\ (result' = Result("ok") \/ result' = Result("error"))
    BY <1>6 DEF completes, Pending, netVars, recvVars, callVars
  <2>2. NetOK'
    BY <2>1 DEF NetOK
  <2> QED BY <2>1, <2>2 DEF ResultOK, Result, Reads
<1>7. ASSUME NEW o \in {"readLength", "readData"}, receives(o)
      PROVE  NetOK' /\ ResultOK'
  <2>1. /\ op = o /\ result = NoResult
        /\ UNCHANGED <<op, recvlen, aux, want, event, msgs, wire, server>>
    BY <1>7, ReceiveCases
  <2>2. ASSUME NEW k \in 0..Len(arrived), k = 0 => want = 0,
               result' = [ec |-> "ok", len |-> k,
                          head |-> IF k = 0 THEN Body ELSE arrived[1]],
               arrived' = SubSeq(arrived, k + 1, Len(arrived)),
               short' = (short \/ k < want)
        PROVE  NetOK' /\ ResultOK'
    <3>1. arrived' \in Seq(ByteVals)
      BY <1>1, <2>2, FlowTakes DEF NetOK
    <3>2. NetOK'
      <4>1. short' \in BOOLEAN
        BY <2>2
      <4> QED BY <2>1, <3>1, <4>1 DEF NetOK
    <3>3. result'.ec = "ok" /\ result'.len \in Nat
      BY <2>2 DEF NetOK
    <3>4. result'.head \in ByteVals
      <4>1. CASE k = 0
        BY <2>2, <4>1 DEF ByteVals
      <4>2. CASE k # 0
        <5>1. arrived \in Seq(ByteVals) /\ 1 \in 1..Len(arrived)
          BY <4>2 DEF NetOK
        <5>2. arrived[1] \in ByteVals
          BY <5>1
        <5> QED BY <2>2, <4>2, <5>2
      <4> QED BY <4>1, <4>2
    <3> QED BY <3>2, <3>3, <3>4 DEF ResultOK
  <2>3. CASE /\ want > 0 /\ arrived = <<>> /\ server = "closed"
             /\ result' = Result("eof") /\ UNCHANGED <<arrived, short>>
    BY <2>1, <2>3 DEF NetOK, ResultOK, Result, Reads
  <2>4. CASE result' = Result("error") /\ UNCHANGED <<arrived, short>>
    BY <2>1, <2>4 DEF NetOK, ResultOK, Result, Reads
  <2> QED BY <1>7, <2>2, <2>3, <2>4, ReceiveCases
<1>8. CASE Handlers
  <2>1. UNCHANGED <<msgs, arrived, wire, server, short>>
    BY <1>8 DEF Handlers, handleConnect, handleWrite, handleReadLength,
                handleReadData, Handling, netVars
  <2>2. result' = NoResult
    BY <1>8 DEF Handlers, handleConnect, handleWrite, handleReadLength,
                handleReadData, cancelCheck, sendCallback, async
  <2>3. ResultOK'
    BY <2>2 DEF ResultOK, NoResult
  <2>4. /\ recvlen' \in Nat /\ aux' \in Nat /\ want' \in Lens \cup {0, 2}
        /\ event'.data \in {"none", "NULL", "recvbuf"}
        /\ event'.len \in Nat
    <3>1. CASE cancelCheck
      BY <3>1 DEF cancelCheck, recvVars, callVars, NetOK
    <3>2. ASSUME NEW d \in {"NULL", "recvbuf"}, NEW l \in {0, recvlen},
                 sendCallback(d, l)
          PROVE  <2>4!:
      <4>1. /\ UNCHANGED <<recvlen, aux, want>>
            /\ event' = [data |-> d, len |-> l] /\ l \in Nat
        BY <3>2 DEF sendCallback, recvVars, NetOK
      <4> QED BY <4>1 DEF NetOK
    <3>3. CASE UNCHANGED <<recvVars, callVars>>
      BY <3>3 DEF recvVars, callVars, NetOK
    <3>4. ASSUME NEW o, NEW l \in Lens \cup {0, 2}, async(o, l),
                 recvlen' \in Nat, aux' \in Nat
          PROVE  <2>4!:
      BY <3>4 DEF async, callVars, NetOK
    <3>5. CASE handleConnect
      <4>1. \/ cancelCheck
            \/ sendCallback("NULL", 0)
            \/ async("write", 0) /\ UNCHANGED <<recvlen, aux>>
        BY <3>5 DEF handleConnect
      <4> QED BY <3>1, <3>2, <3>4, <4>1 DEF NetOK
    <3>6. CASE handleWrite
      <4>1. \/ cancelCheck
            \/ sendCallback("NULL", 0)
            \/ async("readLength", 2) /\ UNCHANGED <<recvlen, aux>>
        BY <3>6 DEF handleWrite
      <4> QED BY <3>1, <3>2, <3>4, <4>1 DEF NetOK
    <3>7. CASE handleReadLength
      <4>1. \/ cancelCheck
            \/ sendCallback("recvbuf", recvlen)
            \/ sendCallback("NULL", 0)
            \/ UNCHANGED <<recvVars, callVars>>
            \/ /\ op = "readLength" /\ Got("ok")
               /\ \E msglen \in MsgLens : async("readData", msglen)
               /\ aux' = IF recvlen > 0 THEN aux + 1 ELSE aux
               /\ UNCHANGED recvlen
        BY <3>7 DEF handleReadLength, Handling
      <4>2. ASSUME op = "readLength", Got("ok"),
                   NEW msglen \in MsgLens, async("readData", msglen),
                   aux' = IF recvlen > 0 THEN aux + 1 ELSE aux,
                   UNCHANGED recvlen
            PROVE  <2>4!:
        <5>1. result.head \in ByteVals
          BY <4>2 DEF ResultOK, Got, Reads
        <5>2. msglen \in Lens
          <6>1. CASE result.head >= 0
            <7>1. result.head \in Lens
              BY <5>1, <6>1 DEF ByteVals, LengthEnd, Body
            <7> QED BY <6>1, <7>1 DEF MsgLens
          <6>2. CASE ~(result.head >= 0)
            BY <6>2 DEF MsgLens
          <6> QED BY <6>1, <6>2
        <5>3. recvlen' \in Nat /\ aux' \in Nat
          BY <4>2 DEF NetOK
        <5> QED BY <3>4, <4>2, <5>2, <5>3
      <4> QED BY <3>1, <3>2, <3>3, <4>1, <4>2
    <3>8. CASE handleReadData
      <4>1. \/ cancelCheck
            \/ sendCallback("recvbuf", recvlen)
            \/ sendCallback("NULL", recvlen)
            \/ /\ op = "readData" /\ Got("ok")
               /\ recvlen' = IF recvlen = 0 THEN result.len ELSE recvlen
               /\ async("readLength", 2)
               /\ UNCHANGED aux
        BY <3>8 DEF handleReadData, Handling
      <4>2. ASSUME op = "readData", Got("ok"),
                   recvlen' = IF recvlen = 0 THEN result.len ELSE recvlen,
                   async("readLength", 2),
                   UNCHANGED aux
            PROVE  <2>4!:
        <5>1. result.len \in Nat
          BY <4>2 DEF ResultOK, Got, Reads
        <5>2. recvlen' \in Nat /\ aux' \in Nat
          BY <4>2, <5>1 DEF NetOK
        <5> QED BY <3>4, <4>2, <5>2
      <4> QED BY <3>1, <3>2, <4>1, <4>2
    <3> QED BY <1>8, <3>5, <3>6, <3>7, <3>8 DEF Handlers
  <2>5. NetOK'
    BY <2>1, <2>4 DEF NetOK
  <2> QED BY <2>3, <2>5
<1>9. CASE UNCHANGED <<op, result, recvVars, event, netVars>>
  BY <1>9 DEF recvVars, netVars, NetOK, ResultOK
<1>10. CASE handleDeleted \/ Terminated \/ UNCHANGED vars
  BY <1>9, <1>10 DEF handleDeleted, Terminated, vars, callVars
<1> QED BY <1>2, <1>3, <1>4, <1>5, <1>6, <1>7, <1>8, <1>10 DEF Next, Completions

\* The position does not change with the bytes that arrive, nor with a result
\* that is not one of a receive.
LEMMA PositionKept ==
    ASSUME NEW st, NEW off, Position(st, off),
           UNCHANGED <<requested, op, recvlen, aux, want, msgs>>,
           Len(arrived') + Len(wire') = Len(arrived) + Len(wire),
           \/ result' = result
           \/ result.ec # "ok" /\ result'.ec # "ok"
           \/ op \notin Reads
    PROVE  Position(st, off)'
<1>1. Taken(st)' = Taken(st)
  BY DEF Taken
<1>2. NothingRead(st) => NothingRead(st)'
  BY <1>1 DEF NothingRead
<1>3. op \in Reads => (result'.ec = "ok" <=> result.ec = "ok")
                      /\ (result.ec = "ok" => result' = result)
  OBVIOUS
<1>4. ASSUME op \in Reads, NEW k, ReadingLength(st, off, k)
      PROVE  ReadingLength(st, off, k)'
  BY <1>1, <1>3, <1>4 DEF ReadingLength
<1>5. ASSUME op \in Reads, NEW k, ReadingData(st, off, k)
      PROVE  ReadingData(st, off, k)'
  BY <1>1, <1>3, <1>5 DEF ReadingData
<1> QED BY <1>2, <1>4, <1>5, Zenon DEF Position, Reads

\* After the last operation there is no position.
LEMMA PositionEnds ==
    ASSUME NEW st, NEW off, op' = "none", requested' = TRUE
    PROVE  Position(st, off)'
  BY DEF Position

\* What the framing says of the byte at which a message starts.
LEMMA FramedHead ==
    ASSUME NEW m, NEW st, NEW off, Framed(m, st, off),
           NEW k \in 0..Len(m), off[k] < Len(st)
    PROVE  /\ k < Len(m) /\ k + 1 \in 0..Len(m)
           /\ st[off[k] + 1] = m[k + 1]
           /\ off[k] \in Nat /\ m[k + 1] \in Nat
           /\ off[k + 1] = off[k] + 2 + m[k + 1]
<1>1. Len(m) \in Nat /\ Len(st) \in Nat /\ off[k] \in Nat
  BY FramedTyped
<1>2. k # Len(m)
  BY <1>1 DEF Framed
<1>3. k + 1 \in 1..Len(m) /\ (k + 1) - 1 = k /\ k < Len(m) /\ k + 1 \in 0..Len(m)
  BY <1>1, <1>2
<1>4. st[off[k] + 1] = m[k + 1] /\ off[k + 1] = off[k] + 2 + m[k + 1]
  BY <1>3 DEF Framed
<1>5. m[k + 1] \in Nat
  <2>1. m[k + 1] \in Lens
    BY <1>3 DEF Framed
  <2> QED BY <2>1, TCPAssumption
<1> QED BY <1>1, <1>3, <1>4, <1>5

\* A receive that gets all it asked for gets a length or a body.
LEMMA ReceiveAdvances ==
    ASSUME NetOK, NEW st, NEW off, Framed(msgs, st, off),
           Flow(st, arrived, wire), Position(st, off),
           op \in Reads, result = NoResult,
           NEW k \in 0..Len(arrived), k = 0 => want = 0, k = want,
           result' = [ec |-> "ok", len |-> k,
                      head |-> IF k = 0 THEN Body ELSE arrived[1]],
           Len(arrived') = Len(arrived) - k,
           UNCHANGED <<requested, op, recvlen, aux, want, msgs, wire>>,
           requested = TRUE
    PROVE  Position(st, off)'
<1>1. /\ Len(arrived) \in Nat /\ Len(wire) \in Nat /\ Len(st) \in Nat
      /\ k \in Nat
  BY DEF NetOK, Framed
<1>2. Taken(st) \in Nat /\ Taken(st)' = Taken(st) + k /\ Taken(st) + k <= Len(st)
  <2>1. Len(arrived) + Len(wire) <= Len(st)
    BY DEF Flow
  <2> QED BY <1>1, <2>1 DEF Taken
<1>3. result.ec # "ok" /\ result'.ec = "ok" /\ result'.len = k
  BY DEF NoResult
<1>4. ASSUME k # 0 PROVE result'.head = st[Taken(st) + 1]
  <2>1. 1 \in 1..Len(arrived)
    BY <1>1, <1>4
  <2>2. arrived[1] = st[(Len(st) - Len(arrived) - Len(wire)) + 1]
    BY <2>1 DEF Flow
  <2>3. Len(st) - Len(arrived) - Len(wire) = Taken(st)
    BY <1>1 DEF Taken
  <2> QED BY <1>4, <2>2, <2>3
<1>5. CASE op = "readLength"
  <2>1. PICK j \in 0..Len(msgs) : ReadingLength(st, off, j)
    BY <1>5 DEF Position
  <2>2. k = 2 /\ Taken(st) = off[j]
    BY <1>3, <2>1 DEF ReadingLength
  <2>3. off[j] < Len(st)
    BY <1>1, <1>2, <2>2
  <2>4. j < Len(msgs) /\ st[off[j] + 1] = msgs[j + 1]
    BY <2>3, FramedHead
  <2>5. result'.head = msgs[j + 1]
    BY <1>4, <2>2, <2>4
  <2>6. ReadingLength(st, off, j)'
    <3>1. Taken(st)' = off[j] + 2
      BY <1>2, <2>2
    <3>2. want = 2 /\ FirstOf(msgs, j, recvlen)
      BY <2>1 DEF ReadingLength
    <3> QED BY <1>3, <2>2, <2>4, <2>5, <3>1, <3>2 DEF ReadingLength
  <2> QED BY <1>5, <2>6 DEF Position
<1>6. CASE op = "readData"
  <2>1. PICK j \in 0..Len(msgs) : ReadingData(st, off, j)
    BY <1>6 DEF Position
  <2>2. k = msgs[j + 1] /\ j < Len(msgs) /\ Taken(st) = off[j] + 2
    BY <1>3, <2>1 DEF ReadingData
  <2>3. off[j] < Len(st)
    <3>1. off[j] \in Nat
      BY FramedTyped
    <3>2. Taken(st) <= Len(st)
      BY <1>1, <1>2
    <3>3. Len(st) \in Nat /\ Taken(st) = off[j] + 2
      BY <1>1, <2>2
    <3> QED BY <3>1, <3>2, <3>3
  <2>4. off[j + 1] = off[j] + 2 + msgs[j + 1]
    BY <2>3, FramedHead
  <2>5. ReadingData(st, off, j)'
    <3>1. Taken(st)' = off[j + 1]
      BY <1>2, <2>2, <2>4
    <3>2. want = msgs[j + 1] /\ FirstOf(msgs, j, recvlen)
      BY <2>1 DEF ReadingData
    <3> QED BY <1>3, <2>2, <3>1, <3>2 DEF ReadingData
  <2> QED BY <1>6, <2>5 DEF Position
<1> QED BY <1>5, <1>6 DEF Reads

\* What was read becomes the next thing to read.
LEMMA LengthGivesBody ==
    ASSUME NetOK, NEW st, NEW off, Framed(msgs, st, off), Position(st, off),
           op = "readLength", result.ec = "ok", requested = TRUE,
           NEW msglen \in MsgLens, op' = "readData", result' = NoResult,
           want' = msglen,
           aux' = IF recvlen > 0 THEN aux + 1 ELSE aux,
           UNCHANGED <<requested, recvlen, msgs, arrived, wire>>
    PROVE  Position(st, off)'
<1>1. PICK j \in 0..Len(msgs) : ReadingLength(st, off, j)
  BY DEF Position
<1>2. /\ j < Len(msgs) /\ result.head = msgs[j + 1]
      /\ Taken(st) = off[j] + 2 /\ FirstOf(msgs, j, recvlen)
  BY <1>1 DEF ReadingLength
<1>3. msgs[j + 1] \in Nat
  <2>1. msgs[j + 1] \in Lens
    BY <1>2 DEF NetOK
  <2> QED BY <2>1, TCPAssumption
<1>4. want' = msgs[j + 1]
  BY <1>2, <1>3 DEF MsgLens
<1>5. Taken(st)' = Taken(st)
  BY DEF Taken
<1>6. result'.ec = "pending"
  BY DEF NoResult
<1>7. ReadingData(st, off, j)'
  BY <1>2, <1>4, <1>5, <1>6 DEF ReadingData
<1> QED BY <1>7 DEF Position

\* After a body the next length is read.
LEMMA BodyGivesLength ==
    ASSUME NetOK, NEW st, NEW off, Framed(msgs, st, off), Position(st, off),
           op = "readData", result.ec = "ok", requested = TRUE,
           op' = "readLength", result' = NoResult, want' = 2,
           recvlen' = IF recvlen = 0 THEN result.len ELSE recvlen,
           UNCHANGED <<requested, aux, msgs, arrived, wire>>
    PROVE  Position(st, off)'
<1>1. PICK j \in 0..Len(msgs) : ReadingData(st, off, j)
  BY DEF Position
<1>2. /\ j < Len(msgs) /\ result.len = msgs[j + 1]
      /\ Taken(st) = off[j + 1] /\ FirstOf(msgs, j, recvlen)
  BY <1>1 DEF ReadingData
<1>3. FirstOf(msgs, j + 1, recvlen')
  BY <1>2, FirstOfNext DEF NetOK
<1>4. Taken(st)' = Taken(st)
  BY DEF Taken
<1>5. result'.ec = "pending"
  BY DEF NoResult
<1>6. j + 1 \in 0..Len(msgs)
  BY <1>2 DEF NetOK
<1>7. ReadingLength(st, off, j + 1)'
  BY <1>2, <1>3, <1>4, <1>5 DEF ReadingLength
<1> QED BY <1>6, <1>7 DEF Position

\* Every step keeps the object where the framing says it is.
LEMMA StreamStep ==
    ASSUME OInv, NetOK, ResultOK, NEW st, NEW off, Framed(msgs, st, off),
           Flow(st, arrived, wire), ~short => Position(st, off), [Next]_vars
    PROVE  /\ UNCHANGED msgs
           /\ Flow(st, arrived, wire)'
           /\ ~short' => Position(st, off)'
<1> DEFINE Goal == /\ UNCHANGED msgs
                   /\ Flow(st, arrived, wire)'
                   /\ ~short' => Position(st, off)'
<1>1. ASSUME UNCHANGED <<requested, op, recvlen, aux, want, msgs, arrived, wire,
                         short>>,
             \/ result' = result
             \/ result.ec # "ok" /\ result'.ec # "ok"
             \/ op \notin Reads
      PROVE  Goal
  <2>1. Flow(st, arrived, wire)'
    BY <1>1
  <2>2. short' = short /\ UNCHANGED msgs
    BY <1>1
  <2>3. Position(st, off) => Position(st, off)'
    BY <1>1, PositionKept
  <2> QED BY <2>1, <2>2, <2>3, Zenon
<1>2. CASE send
  <2>1. /\ UNCHANGED <<recvlen, aux, want, msgs, arrived, wire, short>>
        /\ op' = "connect" /\ requested' = TRUE /\ ~requested
    BY <1>2 DEF send, netVars, recvVars
  <2>2. Position(st, off) => NothingRead(st)
    BY <2>1, Zenon DEF Position
  <2>3. NothingRead(st) => NothingRead(st)'
    BY <2>1 DEF NothingRead, Taken
  <2>4. NothingRead(st)' => Position(st, off)'
    BY <2>1, Zenon DEF Position
  <2> QED BY <2>1, <2>2, <2>3, <2>4
<1>3. CASE cancel
  <2>1. /\ UNCHANGED <<requested, op, recvlen, aux, want, msgs, arrived, wire, short>>
        /\ \/ result' = result
           \/ result = NoResult /\ result' = Result("aborted")
    BY <1>3 DEF cancel, netVars, recvVars
  <2>2. result' = result \/ (result.ec # "ok" /\ result'.ec # "ok")
    BY <2>1 DEF NoResult, Result
  <2> QED BY <1>1, <2>1, <2>2
<1>4. ASSUME NEW k \in 1..Len(wire), serverSends(k) PROVE Goal
  <2>1. /\ UNCHANGED <<requested, op, result, recvlen, aux, want, msgs, short>>
        /\ arrived' = arrived \o SubSeq(wire, 1, k)
        /\ wire' = SubSeq(wire, k + 1, Len(wire))
    BY <1>4 DEF serverSends, recvVars, objVars
  <2>2. /\ Flow(st, arrived', wire')
        /\ Len(arrived') + Len(wire') = Len(arrived) + Len(wire)
    <3>1. /\ st \in Seq(ByteVals) /\ arrived \in Seq(ByteVals)
          /\ wire \in Seq(ByteVals)
      BY DEF NetOK, Framed
    <3>2. Flow(st, arrived', wire')
      <4>1. Segment(arrived, wire, k, arrived', wire')
        BY <2>1, Zenon DEF Segment
      <4>2. /\ arrived' \in Seq(ByteVals) /\ wire' \in Seq(ByteVals)
            /\ Shifted(arrived, wire, k, arrived', wire')
        BY <3>1, <4>1, SendsShift, Zenon
      <4> QED BY <3>1, <4>2, FlowShifts, Zenon
    <3>3. Len(arrived') = Len(arrived) + k /\ Len(wire') = Len(wire) - k
      BY <2>1, <3>1
    <3>4. Len(arrived) \in Nat /\ Len(wire) \in Nat /\ k \in Int
      BY <3>1
    <3>5. Len(arrived') + Len(wire') = Len(arrived) + Len(wire)
      BY <3>3, <3>4
    <3> QED BY <3>2, <3>5, Zenon
  <2>3. Position(st, off) => Position(st, off)'
    BY <2>1, <2>2, PositionKept
  <2> QED BY <2>1, <2>2, <2>3
<1>5. ASSUME NEW how, serverEnds(how) PROVE Goal
  <2>1. UNCHANGED <<requested, op, recvlen, aux, want, msgs, arrived, wire, short,
                    result>>
    BY <1>5 DEF serverEnds, recvVars, objVars
  <2> QED BY <1>1, <2>1
<1>6. ASSUME NEW o \in {"connect", "write"}, completes(o) PROVE Goal
  <2>1. UNCHANGED <<requested, op, recvlen, aux, want, msgs, arrived, wire, short>>
    BY <1>6 DEF completes, recvVars, objVars, netVars
  <2>2. op \notin Reads
    BY <1>6 DEF completes, Pending, Reads
  <2> QED BY <1>1, <2>1, <2>2
<1>7. ASSUME NEW o \in {"readLength", "readData"}, receives(o) PROVE Goal
  <2>1. /\ op = o /\ result = NoResult
        /\ UNCHANGED <<op, requested, recvlen, aux, want, msgs, wire>>
    BY <1>7, ReceiveCases
  <2>2. op \in Reads /\ requested = TRUE
    BY <2>1 DEF Reads, OInv, ObjOK
  <2>3. ASSUME NEW k \in 0..Len(arrived), k <= want, k = 0 => want = 0,
               result' = [ec |-> "ok", len |-> k,
                          head |-> IF k = 0 THEN Body ELSE arrived[1]],
               arrived' = SubSeq(arrived, k + 1, Len(arrived)),
               short' = (short \/ k < want)
        PROVE  Goal
    <3>1. Flow(st, arrived', wire') /\ Len(arrived') = Len(arrived) - k
      <4>1. /\ st \in Seq(ByteVals) /\ arrived \in Seq(ByteVals)
            /\ wire \in Seq(ByteVals) /\ wire' = wire
        BY <2>1 DEF NetOK, Framed
      <4> QED BY <2>3, <4>1, FlowTakes
    <3>2. ASSUME ~short' PROVE Position(st, off)'
      <4>1. ~short /\ ~(k < want)
        BY <2>3, <3>2, Zenon
      <4>2. k = want
        <5>1. k \in Nat /\ want \in Nat
          BY TCPAssumption DEF NetOK
        <5> QED BY <2>3, <4>1, <5>1
      <4>3. Position(st, off)
        BY <4>1, Zenon
      <4> QED BY <2>1, <2>2, <2>3, <3>1, <4>2, <4>3, ReceiveAdvances
    <3> QED BY <2>1, <3>1, <3>2
  <2>4. CASE /\ result' = Result("eof") \/ result' = Result("error")
             /\ UNCHANGED <<arrived, short>>
    <3>1. result.ec # "ok" /\ result'.ec # "ok"
      BY <2>1, <2>4 DEF NoResult, Result
    <3> QED BY <1>1, <2>1, <2>4, <3>1
  <2> QED BY <1>7, <2>3, <2>4, ReceiveCases
<1>8. CASE Handlers
  <2>1. UNCHANGED <<msgs, arrived, wire, server, short, requested>>
    BY <1>8 DEF Handlers, handleConnect, handleWrite, handleReadLength,
                handleReadData, Handling, netVars, objVars
  <2>2. requested = TRUE
    BY <1>8, HandlerCases DEF OInv, ObjOK
  <2>3. Flow(st, arrived, wire)'
    BY <2>1
  <2> SUFFICES ASSUME ~short PROVE Position(st, off)'
    BY <2>1, <2>3
  <2>4. Position(st, off)
    OBVIOUS
  <2>5. ASSUME op' = "none" PROVE Position(st, off)'
    BY <2>1, <2>2, <2>5, PositionEnds
  <2>6. CASE handleConnect
    <3>1. \/ op' = "none"
          \/ /\ op = "connect" /\ op' = "write" /\ UNCHANGED <<recvlen, aux>>
      BY <2>6 DEF handleConnect, Handling, cancelCheck, sendCallback, async
    <3>2. CASE op = "connect" /\ op' = "write" /\ UNCHANGED <<recvlen, aux>>
      <4>1. NothingRead(st)
        BY <2>4, <3>2 DEF Position
      <4>2. NothingRead(st)'
        BY <2>1, <3>2, <4>1 DEF NothingRead, Taken
      <4> QED BY <3>2, <4>2 DEF Position
    <3> QED BY <2>5, <3>1, <3>2
  <2>7. CASE handleWrite
    <3>1. \/ op' = "none"
          \/ /\ op = "write" /\ op' = "readLength" /\ UNCHANGED <<recvlen, aux>>
             /\ want' = 2 /\ result' = NoResult
      BY <2>7 DEF handleWrite, Handling, cancelCheck, sendCallback, async
    <3>2. CASE /\ op = "write" /\ op' = "readLength" /\ UNCHANGED <<recvlen, aux>>
               /\ want' = 2 /\ result' = NoResult
      <4>1. NothingRead(st)
        BY <2>4, <3>2 DEF Position
      <4>2. Taken(st)' = 0 /\ recvlen' = 0 /\ aux' = 0
        BY <2>1, <3>2, <4>1 DEF NothingRead, Taken
      <4>3. off[0] = 0 /\ 0 \in 0..Len(msgs') /\ FirstOf(msgs', 0, recvlen')
        BY <2>1, <4>2 DEF Framed, FirstOf
      <4>4. result'.ec = "pending"
        BY <3>2 DEF NoResult
      <4>5. ReadingLength(st, off, 0)'
        BY <3>2, <4>2, <4>3, <4>4 DEF ReadingLength
      <4> QED BY <2>1, <2>2, <3>2, <4>3, <4>5 DEF Position
    <3> QED BY <2>5, <3>1, <3>2
  <2>8. CASE handleReadLength
    <3>1. \/ op' = "none"
          \/ /\ op = "readLength" /\ result.ec = "ok" /\ op' = "readData"
             /\ result' = NoResult
             /\ \E msglen \in MsgLens : want' = msglen
             /\ aux' = IF recvlen > 0 THEN aux + 1 ELSE aux
             /\ UNCHANGED recvlen
      BY <2>8 DEF handleReadLength, Handling, Got, cancelCheck, sendCallback, async
    <3> QED BY <2>1, <2>2, <2>4, <2>5, <3>1, LengthGivesBody
  <2>9. CASE handleReadData
    <3>1. \/ op' = "none"
          \/ /\ op = "readData" /\ result.ec = "ok" /\ op' = "readLength"
             /\ result' = NoResult /\ want' = 2
             /\ recvlen' = IF recvlen = 0 THEN result.len ELSE recvlen
             /\ UNCHANGED aux
      BY <2>9 DEF handleReadData, Handling, Got, cancelCheck, sendCallback, async
    <3> QED BY <2>1, <2>2, <2>4, <2>5, <3>1, BodyGivesLength
  <2> QED BY <1>8, <2>6, <2>7, <2>8, <2>9 DEF Handlers
<1>9. CASE handleDeleted \/ Terminated \/ UNCHANGED vars
  <2>1. UNCHANGED <<requested, op, recvlen, aux, want, msgs, arrived, wire, short,
                    result>>
    BY <1>9 DEF handleDeleted, Terminated, vars, objVars, recvVars, netVars
  <2> QED BY <1>1, <2>1
<1>10. CASE Completions
  BY <1>6, <1>7, <1>10 DEF Completions
<1>11. Goal
  BY <1>2, <1>3, <1>4, <1>5, <1>8, <1>9, <1>10 DEF Next
<1> QED BY <1>11

\* A callback with data comes when the server has closed and everything that
\* arrived was read: the length it carries is that of the first message.
LEMMA CallbackIsFirst ==
    ASSUME NetOK, ResultOK, NEW st, NEW off, Framed(msgs, st, off),
           Flow(st, arrived, wire), Position(st, off),
           op \in Reads, result.ec = "eof"
    PROVE  /\ recvlen \in {0, FirstLen(msgs)}
           /\ wire = <<>> => recvlen = FirstLen(msgs)
<1>1. arrived = <<>> /\ want > 0
  BY DEF ResultOK
<1>2. wire = <<>> => Taken(st) = Len(st)
  <2>1. wire = <<>> => Len(arrived) + Len(wire) = 0
    BY <1>1
  <2>2. Len(st) \in Nat
    BY DEF Framed
  <2> QED BY <2>1, <2>2 DEF Taken
<1>3. CASE op = "readLength"
  <2>1. PICK j \in 0..Len(msgs) : ReadingLength(st, off, j)
    BY <1>3 DEF Position
  <2>2. FirstOf(msgs, j, recvlen) /\ Taken(st) = off[j]
    BY <2>1 DEF ReadingLength
  <2>3. wire = <<>> => j = Len(msgs)
    <3> SUFFICES ASSUME wire = <<>>, j # Len(msgs) PROVE FALSE
      OBVIOUS
    <3>1. j + 1 \in 1..Len(msgs) /\ (j + 1) - 1 = j
      BY DEF NetOK
    <3>2. msgs[j + 1] \in Nat /\ off[j] \in Nat /\ Len(st) \in Nat
      <4>1. msgs[j + 1] \in Lens
        BY <3>1 DEF NetOK
      <4>2. msgs[j + 1] \in Nat
        BY <4>1, TCPAssumption
      <4> QED BY <4>2, FramedTyped
    <3>3. off[j + 1] = off[j] + 2 + msgs[j + 1] /\ off[j + 1] <= Len(st)
      BY <3>1 DEF Framed
    <3> QED BY <1>2, <2>2, <3>2, <3>3
  <2> QED BY <2>2, <2>3, FirstOfIsFirst DEF NetOK
<1>4. CASE op = "readData"
  <2>1. PICK j \in 0..Len(msgs) : ReadingData(st, off, j)
    BY <1>4 DEF Position
  <2>2. /\ FirstOf(msgs, j, recvlen) /\ Taken(st) = off[j] + 2
        /\ j < Len(msgs) /\ want = msgs[j + 1]
    BY <2>1 DEF ReadingData
  <2>3. wire # <<>>
    <3> SUFFICES ASSUME wire = <<>> PROVE FALSE
      OBVIOUS
    <3>1. j + 1 \in 1..Len(msgs) /\ (j + 1) - 1 = j
      BY <2>2 DEF NetOK
    <3>2. msgs[j + 1] \in Nat /\ off[j] \in Nat /\ Len(st) \in Nat
      <4>1. msgs[j + 1] \in Lens
        BY <3>1 DEF NetOK
      <4>2. msgs[j + 1] \in Nat
        BY <4>1, TCPAssumption
      <4> QED BY <4>2, FramedTyped
    <3>3. off[j + 1] = off[j] + 2 + msgs[j + 1] /\ off[j + 1] <= Len(st)
      BY <3>1 DEF Framed
    <3> QED BY <1>1, <1>2, <2>2, <3>2, <3>3
  <2> QED BY <2>2, <2>3, FirstOfIsFirst DEF NetOK
<1> QED BY <1>3, <1>4 DEF Reads

\* A message that was given to the owner stays the one it should be.
LEMMA FramingStep ==
    ASSUME OInv, FInv, [Next]_vars
    PROVE  FInv'
<1> USE DEF FInv
<1>1. PICK st, off : /\ Framed(msgs, st, off) /\ Flow(st, arrived, wire)
                     /\ ~short => Position(st, off)
  BY DEF StreamOK
<1>2. /\ UNCHANGED msgs /\ Flow(st, arrived, wire)'
      /\ ~short' => Position(st, off)'
  BY <1>1, StreamStep
<1>3. StreamOK'
  BY <1>1, <1>2 DEF StreamOK
<1>4. NetOK' /\ ResultOK'
  BY <1>1, NetStep DEF Framed
<1>5. ASSUME calls # 1 \/ UNCHANGED <<short, wire>>, UNCHANGED <<calls, event>>
      PROVE  FirstMessageKept'
  BY <1>2, <1>5 DEF FirstMessageKept, FirstLength
<1>6. calls = 1 => op = "none"
  BY DEF OInv, ObjOK
<1>7. CASE send \/ cancel \/ handleDeleted \/ Terminated \/ UNCHANGED vars
  <2>1. UNCHANGED <<calls, event, short, wire>>
    BY <1>7 DEF send, cancel, handleDeleted, Terminated, vars, callVars, netVars
  <2> QED BY <1>3, <1>4, <1>5, <2>1
<1>8. ASSUME NEW k, serverSends(k) PROVE FInv'
  <2>1. UNCHANGED <<calls, event, short>> /\ op # "none"
    BY <1>8 DEF serverSends, Connected, callVars
  <2> QED BY <1>3, <1>4, <1>5, <1>6, <2>1
<1>9. ASSUME NEW how, serverEnds(how) PROVE FInv'
  <2>1. UNCHANGED <<calls, event, short, wire>>
    BY <1>9 DEF serverEnds, callVars
  <2> QED BY <1>3, <1>4, <1>5, <2>1
<1>10. CASE Completions
  <2>1. ASSUME NEW o \in {"connect", "write"}, completes(o) PROVE FInv'
    <3>1. UNCHANGED <<calls, event, short, wire>>
      BY <2>1 DEF completes, callVars, netVars
    <3> QED BY <1>3, <1>4, <1>5, <3>1
  <2>2. ASSUME NEW o \in {"readLength", "readData"}, receives(o) PROVE FInv'
    <3>1. UNCHANGED <<calls, event>> /\ op # "none"
      BY <2>2 DEF receives, Pending, callVars
    <3> QED BY <1>3, <1>4, <1>5, <1>6, <3>1
  <2> QED BY <1>10, <2>1, <2>2 DEF Completions
<1>11. CASE Handlers
  <2>1. UNCHANGED <<short, wire>>
    BY <1>11 DEF Handlers, handleConnect, handleWrite, handleReadLength,
                 handleReadData, Handling, netVars
  <2>2. \/ UNCHANGED <<calls, event>>
        \/ event'.data = "NULL"
        \/ /\ op \in Reads /\ result.ec = "eof"
           /\ event' = [data |-> "recvbuf", len |-> recvlen]
    BY <1>11 DEF Handlers, handleConnect, handleWrite, handleReadLength,
                 handleReadData, Handling, Got, cancelCheck, sendCallback, async,
                 callVars, Reads
  <2>3. FirstMessageKept'
    <3>1. CASE event'.data = "NULL"
      BY <3>1 DEF FirstMessageKept
    <3>2. CASE /\ op \in Reads /\ result.ec = "eof"
               /\ event' = [data |-> "recvbuf", len |-> recvlen]
      <4> SUFFICES ASSUME ~short'
                   PROVE  /\ event'.len \in {0, FirstLength'}
                          /\ wire' = <<>> => event'.len = FirstLength'
        BY DEF FirstMessageKept
      <4>1. ~short /\ wire' = wire
        BY <2>1
      <4>2. /\ recvlen \in {0, FirstLen(msgs)}
            /\ wire = <<>> => recvlen = FirstLen(msgs)
        BY <1>1, <3>2, <4>1, CallbackIsFirst
      <4>3. FirstLength' = FirstLen(msgs)
        BY <1>2 DEF FirstLength, FirstLen
      <4>4. event'.len = recvlen
        BY <3>2
      <4> QED BY <4>1, <4>2, <4>3, <4>4
    <3> QED BY <1>5, <2>1, <2>2, <3>1, <3>2
  <2> QED BY <1>3, <1>4, <2>3
<1> QED BY <1>7, <1>8, <1>9, <1>10, <1>11 DEF Next

\* The position in the stream is right in every reachable state.
THEOREM FramingInvariance == Spec => [](OInv /\ FInv)
<1>1. Init => OInv /\ FInv
  BY ObjectInit, FramingInit
<1>2. (OInv /\ FInv) /\ [Next]_vars => (OInv /\ FInv)'
  BY ObjectStep, FramingStep
<1> QED BY <1>1, <1>2, PTL DEF Spec

\* The variables keep their types, also when the object is out of step with the
\* framing: a buffer then has the size of some message, never a negative one.
THEOREM SocketTypeCorrect == Spec => []TypeOK
<1>1. OInv /\ FInv => TypeOK
  <2> SUFFICES ASSUME OInv, FInv PROVE TypeOK
    OBVIOUS
  <2>1. calls \in Nat
    BY DEF OInv, ObjOK
  <2>2. {recvlen, aux, calls} \subseteq Nat
    BY <2>1 DEF FInv, NetOK
  <2>3. {owned, requested, opened, cancelled, completed, short} \subseteq BOOLEAN
    BY Zenon DEF OInv, ObjOK, FInv, NetOK
  <2> QED BY <2>2, <2>3, Zenon DEF OInv, ObjOK, FInv, NetOK, ResultOK, TypeOK
<1> QED BY <1>1, FramingInvariance, PTL

\* As long as no receive is short, handleReadData keeps the first message that
\* is not empty, however many follow and wherever segments end, and a callback
\* made after all of them were read has it.
THEOREM FirstMessageIsKept == Spec => []FirstMessageKept
<1>1. OInv /\ FInv => FirstMessageKept
  BY DEF FInv
<1> QED BY <1>1, FramingInvariance, PTL

=============================================================================
