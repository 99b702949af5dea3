----------------------- MODULE QueryRepositoryProofs -----------------------
(***************************************************************************)
(* Proofs about QueryRepository, for inputs of every length, every         *)
(* MAX_EMPTY_LOOP and every number of queries.                             *)
(***************************************************************************)
EXTENDS QueryRepository, SequenceTheorems, FiniteSetTheorems, TLAPS

-----------------------------------------------------------------------------
(* The inductive invariant *)

IsSeq(s) == \E S : s \in Seq(S)

InputOK ==
    /\ file \in Seq(Kinds)
    /\ newline \in BOOLEAN /\ seekable \in BOOLEAN
    /\ ~newline => file # <<>> /\ file[Len(file)] # "blank"

ConfigOK ==
    /\ config \in [qclass : {"IN", "CH"}, dnssec : BOOLEAN, edns : BOOLEAN,
                   proto : {"udp", "tcp"}, DO : BOOLEAN]
    /\ config.DO = config.dnssec

StateTyped ==
    /\ InputOK /\ ConfigOK
    /\ IsSeq(params) /\ IsSeq(served)
    /\ pos \in 1..(Len(file) + 1)
    /\ eof \in BOOLEAN /\ bad \in BOOLEAN /\ started \in BOOLEAN
    /\ status \in {"usable", "failed"}
    /\ call \in {"none", "load", "get"}
    /\ loop \in 0..MaxEmpty
    /\ Len(served) <= MaxServed
    /\ call = "get" => started /\ params = <<>> /\ Len(served) < MaxServed

\* Nothing was read before load() or the first getNextQuery().
Untouched ==
    ~started => /\ served = <<>>
                /\ Configurable => pos = 1 /\ ~eof /\ ~bad

\* load() has a request for each query before the line it reads next.
Loading ==
    status = "usable" /\ call = "load" =>
        /\ ~started /\ ~bad
        /\ eof => pos = Len(file) + 1
        /\ Len(params) = QueriesBefore(pos)

\* The serial option of a line of a kind.
Serial(kind) == IF kind = "ixfr42" THEN 42 ELSE 0

\* The requests are those of the input in its order.
ParamsOK ==
    \A k \in 1..Len(params) : \E i \in QueryLines :
        /\ QueriesBefore(i) = k - 1
        /\ params[k] = RequestParam(file[i], Serial(file[i]))

\* The preloaded requests are complete, and current is the next one to serve.
Loaded ==
    status = "usable" /\ call = "none" /\ params # <<>> =>
        /\ Len(params) = Cardinality(QueryLines)
        /\ current \in 1..Len(params)
        /\ \E c \in Nat : Len(served) = c * Len(params) + (current - 1)

\* Without preloading, as many queries were served as there are in the lines
\* read, round after round; only a rewind leaves the stream bad.
Reading ==
    status = "usable" /\ params = <<>> /\ call # "load" =>
        /\ ~eof
        /\ newline \/ pos <= Len(file)
        /\ bad => ~seekable /\ Len(served) >= Cardinality(QueryLines)
        /\ \E c \in Nat :
             Len(served) = c * Cardinality(QueryLines) + QueriesBefore(pos)

\* The lines read in one round.
Round == IF newline THEN Len(file) + 1 ELSE Len(file)

\* What consecutive calls of getline() give: the lines and, unless the last
\* one is not terminated, an empty one at the end; twice, for the rewind.
LinesRead ==
    LET once == IF newline THEN Append(file, "blank") ELSE file
    IN  once \o once

\* There are MaxEmpty skipped lines in a row.
LongGap ==
    \E i \in 1..Len(LinesRead) :
        /\ i + MaxEmpty - 1 <= Len(LinesRead)
        /\ \A j \in i..(i + MaxEmpty - 1) : LinesRead[j] \in SkippedKinds

\* A failure has its reason: a gap of MaxEmpty lines, too, is one.
FailureExplained == LongGap \/ FailsForAReason

\* The last loop lines before position p of LinesRead were skipped.
SkippedTo(p) ==
    /\ loop < p
    /\ \A j \in (p - loop)..(p - 1) : LinesRead[j] \in SkippedKinds

\* What loop counts, if there is a query: lines in a row, perhaps across the end.
Gap ==
    status = "usable" /\ call # "none" /\ QueryLines # {} =>
        SkippedTo(pos) \/ (call = "get" /\ SkippedTo(pos + Round))

RInv ==
    /\ StateTyped
    /\ Untouched
    /\ Loading
    /\ ParamsOK
    /\ Loaded
    /\ Reading
    /\ Gap
    /\ ServedInOrder
    /\ FailureExplained

-----------------------------------------------------------------------------
(* Counting *)

\* What is left over of c rounds of n and r more.
LEMMA Remainder ==
    ASSUME NEW n \in Nat, NEW c \in Nat, NEW r \in Nat, r < n
    PROVE  (c * n + r) % n = r
  OBVIOUS

\* One more at the end of a round, and elsewhere.
LEMMA NextRound ==
    ASSUME NEW n \in Nat, NEW c \in Nat
    PROVE  c * n + n = (c + 1) * n + 0 /\ c * n \in Nat /\ c * n + n >= n
  OBVIOUS

\* The queries of the input, counted from its first line.
LEMMA Counting ==
    ASSUME file \in Seq(Kinds)
    PROVE  /\ IsFiniteSet(QueryLines) /\ Cardinality(QueryLines) \in Nat
           /\ Cardinality(QueryLines) = 0 <=> QueryLines = {}
           /\ QueriesBefore(1) = 0
           /\ QueriesBefore(Len(file) + 1) = Cardinality(QueryLines)
           /\ \A n \in 1..(Len(file) + 1) : QueriesBefore(n) \in Nat
           /\ \A n \in 1..Len(file) :
                QueriesBefore(n + 1) = IF n \in QueryLines
                                       THEN QueriesBefore(n) + 1
                                       ELSE QueriesBefore(n)
           /\ \A n \in QueryLines : /\ n \in 1..Len(file)
                                    /\ QueriesBefore(n) < Cardinality(QueryLines)
<1> DEFINE Q == QueryLines
           Below(n) == {i \in Q : i < n}
<1>1. Len(file) \in Nat /\ DOMAIN file = 1..Len(file)
  OBVIOUS
<1>2. Q \subseteq 1..Len(file)
  BY <1>1 DEF QueryLines
<1>3. IsFiniteSet(Q) /\ Cardinality(Q) \in Nat
  <2>1. IsFiniteSet(1..Len(file))
    BY <1>1, FS_Interval
  <2> QED BY <1>2, <2>1, FS_Subset, FS_CardinalityType
<1>4. Cardinality(Q) = 0 <=> Q = {}
  BY <1>3, FS_EmptySet
<1> HIDE DEF Q
<1>5. \A n : QueriesBefore(n) = Cardinality(Below(n))
  BY DEF QueriesBefore, Q
<1>6. \A n : Below(n) \subseteq Q /\ IsFiniteSet(Below(n))
             /\ Cardinality(Below(n)) \in Nat
  <2>1. \A n : Below(n) \subseteq Q
    OBVIOUS
  <2> HIDE DEF Below
  <2> QED BY <1>3, <2>1, FS_Subset, FS_CardinalityType
<1>7. Below(1) = {} /\ Below(Len(file) + 1) = Q
  <2>1. \A i \in Q : ~(i < 1) /\ i < Len(file) + 1
    BY <1>1, <1>2
  <2> QED BY <2>1
<1>8. ASSUME NEW n \in 1..Len(file)
      PROVE  Cardinality(Below(n + 1)) = IF n \in Q THEN Cardinality(Below(n)) + 1
                                                    ELSE Cardinality(Below(n))
  <2>0. /\ \A i \in Q : i < n + 1 <=> i < n \/ i = n
        /\ ~(n < n)
    BY <1>1, <1>2
  <2>1. n \notin Below(n)
    BY <2>0
  <2>2. CASE n \in Q
    <3>1. Below(n + 1) = Below(n) \cup {n}
      BY <2>0, <2>2
    <3> HIDE DEF Below
    <3> QED BY <1>6, <2>1, <2>2, <3>1, FS_AddElement
  <2>3. CASE n \notin Q
    <3>1. Below(n + 1) = Below(n)
      BY <2>0, <2>3
    <3> QED BY <2>3, <3>1
  <2> QED BY <2>2, <2>3
<1>9. ASSUME NEW n \in Q PROVE Cardinality(Below(n)) < Cardinality(Q)
  <2>1. n \in 1..Len(file)
    BY <1>2
  <2>2. Cardinality(Below(n + 1)) = Cardinality(Below(n)) + 1
    BY <1>8, <2>1
  <2>3. Cardinality(Below(n + 1)) <= Cardinality(Q)
    <3> HIDE DEF Below
    <3> QED BY <1>3, <1>6, FS_Subset
  <2> HIDE DEF Below
  <2> QED BY <1>3, <1>6, <2>2, <2>3
<1>10. Cardinality({}) = 0
  BY FS_EmptySet
<1> HIDE DEF Below
<1> QED BY <1>1, <1>2, <1>3, <1>4, <1>5, <1>6, <1>7, <1>8, <1>9, <1>10 DEF Q

\* What two rounds of getline() give.
LEMMA Lines ==
    ASSUME InputOK
    PROVE  /\ Round \in Nat /\ Len(LinesRead) = Round + Round
           /\ Len(file) \in Nat /\ Len(file) <= Round /\ Round <= Len(file) + 1
           /\ \A j \in 1..Round :
                /\ LinesRead[j] = IF j <= Len(file) THEN file[j] ELSE "blank"
                /\ LinesRead[j + Round] = LinesRead[j]
<1> DEFINE once == IF newline THEN Append(file, "blank") ELSE file
           S == Kinds \cup {"blank"}
<1>1. file \in Seq(S) /\ Len(file) \in Nat
  BY SeqMonotonic DEF InputOK
<1>2. /\ once \in Seq(S) /\ Len(once) = Round /\ Round \in Nat
      /\ \A j \in 1..Round : once[j] = IF j <= Len(file) THEN file[j] ELSE "blank"
  <2>1. CASE newline
    <3>1. /\ Append(file, "blank") \in Seq(S)
          /\ Len(Append(file, "blank")) = Len(file) + 1
          /\ \A j \in 1..Len(file) : Append(file, "blank")[j] = file[j]
          /\ Append(file, "blank")[Len(file) + 1] = "blank"
      BY <1>1, AppendProperties
    <3> QED BY <1>1, <2>1, <3>1 DEF Round
  <2>2. CASE ~newline
    BY <1>1, <2>2 DEF Round
  <2> QED BY <2>1, <2>2
<1> HIDE DEF once, S
<1>3. /\ Len(once \o once) = Round + Round
      /\ \A j \in 1..(Round + Round) :
           (once \o once)[j] = IF j <= Round THEN once[j] ELSE once[j - Round]
  <2>1. /\ Len(once \o once) = Len(once) + Len(once)
        /\ \A j \in 1..(Len(once) + Len(once)) :
             (once \o once)[j] = IF j <= Len(once) THEN once[j]
                                                   ELSE once[j - Len(once)]
    BY <1>2, ConcatProperties
  <2> QED BY <1>2, <2>1
<1>4. LinesRead = once \o once
  BY DEF LinesRead, once
<1>5. \A j \in 1..Round : /\ j \in 1..(Round + Round) /\ j <= Round
                          /\ j + Round \in 1..(Round + Round)
                          /\ ~(j + Round <= Round) /\ (j + Round) - Round = j
  BY <1>2
<1>6. \A j \in 1..Round : LinesRead[j] = once[j] /\ LinesRead[j + Round] = once[j]
  BY <1>3, <1>4, <1>5
<1> QED BY <1>1, <1>2, <1>3, <1>4, <1>6 DEF Round

\* No action changes the input.
LEMMA SameInput ==
    ASSUME UNCHANGED <<file, newline>>
    PROVE  /\ QueryLines' = QueryLines /\ LinesRead' = LinesRead
           /\ Round' = Round
           /\ \A n : QueriesBefore(n)' = QueriesBefore(n)
  BY DEF QueryLines, LinesRead, Round, QueriesBefore

\* The message for the request of a line is what the line asks for.
LEMMA MessageIsExpected ==
    ASSUME ConfigOK, NEW kind \in QueryKinds
    PROVE  MessageOf(RequestParam(kind, Serial(kind))) = Expected(kind)
  BY DEF ConfigOK, QueryKinds, MessageOf, RequestParam, Serial, Expected

-----------------------------------------------------------------------------
(* The invariant at the start, and in the operations *)

\* Nothing is read and nothing is served yet.
LEMMA RepositoryInit == Init => RInv
<1> SUFFICES ASSUME Init PROVE RInv
  OBVIOUS
<1>1. InputOK
  <2>1. PICK n \in 0..MaxLines : file \in [1..n -> Kinds]
    BY DEF Init
  <2>2. file \in Seq(Kinds)
    BY <2>1, RepositoryAssumption, SeqDef
  <2> QED BY <2>2 DEF InputOK, Init
<1>2. Len(file) \in Nat /\ (~newline => Len(file) > 0)
  BY <1>1, EmptySeq DEF InputOK
<1>3. ConfigOK
  BY DEF ConfigOK, Init
<1>4. IsSeq(params) /\ IsSeq(served) /\ Len(served) = 0 /\ Len(params) = 0
  BY EmptySeq DEF IsSeq, Init
<1>5. StateTyped
  <2>1. /\ pos = 1 /\ eof = FALSE /\ bad = FALSE /\ started = FALSE
        /\ status = "usable" /\ call = "none" /\ loop = 0
    BY DEF Init
  <2>2. /\ eof \in BOOLEAN /\ bad \in BOOLEAN /\ started \in BOOLEAN
        /\ status \in {"usable", "failed"} /\ call \in {"none", "load", "get"}
        /\ call # "get"
    BY <2>1, Zenon
  <2>3. /\ pos \in 1..(Len(file) + 1) /\ loop \in 0..MaxEmpty
        /\ Len(served) <= MaxServed
    BY <1>2, <1>4, <2>1, RepositoryAssumption
  <2> QED BY <1>1, <1>3, <1>4, <2>2, <2>3 DEF StateTyped
<1>6. Reading
  <2>1. 0 = 0 * Cardinality(QueryLines) + 0
    BY <1>1, Counting DEF InputOK
  <2>2. Len(served) = 0 * Cardinality(QueryLines) + QueriesBefore(pos)
    BY <1>1, <1>4, <2>1, Counting DEF Init, InputOK
  <2> QED BY <1>2, <2>2 DEF Reading, Init
<1>7. ParamsOK /\ ServedInOrder
  BY <1>4, EmptySeq DEF ParamsOK, ServedInOrder, Init
<1> QED BY <1>5, <1>6, <1>7
        DEF RInv, Untouched, Loading, Loaded, Gap, FailureExplained,
            FailsForAReason, Init

\* What holds of the requests and of what was served holds as long as they and
\* the configuration stay.
LEMMA SameRequests ==
    ASSUME StateTyped, ParamsOK, ServedInOrder,
           UNCHANGED <<file, newline, seekable, config, params, served>>
    PROVE  /\ InputOK' /\ ConfigOK' /\ IsSeq(params') /\ IsSeq(served')
           /\ ParamsOK' /\ ServedInOrder'
<1>1. InputOK' /\ ConfigOK' /\ IsSeq(params') /\ IsSeq(served')
  BY DEF StateTyped, InputOK, ConfigOK
<1>2. ParamsOK'
  BY SameInput DEF ParamsOK, RequestParam
<1>3. ServedInOrder'
  BY SameInput DEF ServedInOrder, Expected
<1> QED BY <1>1, <1>2, <1>3

\* The setters are used before anything was read.
LEMMA ConfigureKeepsInv ==
    ASSUME RInv, NEW c, configure(c), ConfigOK'
    PROVE  RInv'
<1>1. /\ UNCHANGED <<file, newline, seekable, pos, eof, bad, status, call, loop,
                     serial, params, current, started, served>>
      /\ status = "usable" /\ call = "none" /\ ~started /\ params = <<>>
      /\ served = <<>>
  BY DEF configure, Configurable, inputVars, streamVars, RInv, Untouched
<1>2. StateTyped'
  BY <1>1 DEF RInv, StateTyped, InputOK
<1>3. ParamsOK' /\ ServedInOrder'
  BY <1>1, EmptySeq DEF ParamsOK, ServedInOrder
<1>4. Reading'
  BY <1>1, SameInput DEF RInv, Reading
<1> QED BY <1>1, <1>2, <1>3, <1>4
        DEF RInv, Untouched, Configurable, Loading, Loaded, Gap, FailureExplained,
            FailsForAReason

\* load() begins at the first line.
LEMMA LoadKeepsInv ==
    ASSUME RInv, load
    PROVE  RInv'
<1>1. /\ UNCHANGED <<file, newline, seekable, pos, eof, bad, status, serial,
                     config, params, current, started, served>>
      /\ status = "usable" /\ call = "none" /\ ~started /\ params = <<>>
      /\ call' = "load" /\ loop' = 0
      /\ served = <<>> /\ pos = 1 /\ ~eof /\ ~bad
  BY DEF load, Configurable, inputVars, streamVars, RInv, Untouched
<1>2. StateTyped'
  BY <1>1, RepositoryAssumption DEF RInv, StateTyped, InputOK, ConfigOK
<1>3. ParamsOK' /\ ServedInOrder'
  BY <1>1, EmptySeq DEF ParamsOK, ServedInOrder
<1>4. Len(params) = 0 /\ QueriesBefore(1) = 0
  BY <1>1, Counting, EmptySeq DEF RInv, StateTyped, InputOK
<1>5. Loading'
  BY <1>1, <1>4, SameInput DEF Loading
<1>6. Gap'
  BY <1>1 DEF Gap, SkippedTo
<1> QED BY <1>1, <1>2, <1>3, <1>5, <1>6
        DEF RInv, Untouched, Configurable, Loaded, Reading, FailureExplained,
            FailsForAReason

\* A request of getNextQuery() is served from the preloaded ones, which begin
\* again after the last, or reading for it begins.
LEMMA GetNextQueryKeepsInv ==
    ASSUME RInv, getNextQuery
    PROVE  RInv'
<1>1. /\ UNCHANGED <<file, newline, seekable, pos, eof, bad, status, serial,
                     config, params>>
      /\ status = "usable" /\ call = "none" /\ started' = TRUE
      /\ Len(served) < MaxServed
  BY DEF getNextQuery, inputVars, streamVars
<1>2. InputOK /\ ConfigOK /\ StateTyped /\ file \in Seq(Kinds)
  BY DEF RInv, StateTyped, InputOK
<1>3. CASE params = <<>>
  <2>1. call' = "get" /\ loop' = 0 /\ UNCHANGED <<served, current>>
    BY <1>3 DEF getNextQuery
  <2>2. ParamsOK' /\ ServedInOrder' /\ InputOK' /\ ConfigOK'
        /\ IsSeq(params') /\ IsSeq(served')
    BY <1>1, <1>2, <2>1, SameRequests DEF RInv
  <2>3. StateTyped'
    BY <1>1, <1>2, <1>3, <2>1, <2>2, RepositoryAssumption DEF StateTyped
  <2>4. Reading'
    BY <1>1, <1>3, <2>1, SameInput DEF RInv, Reading
  <2>5. Gap'
    BY <1>1, <1>2, <2>1 DEF Gap, SkippedTo, StateTyped
  <2> QED BY <1>1, <1>3, <2>1, <2>2, <2>3, <2>4, <2>5
          DEF RInv, Untouched, Loading, Loaded, FailureExplained, FailsForAReason
<1>4. CASE params # <<>>
  <2> DEFINE n == Cardinality(QueryLines)
             m == MessageOf(params[current])
  <2>1. /\ served' = Append(served, m) /\ current' = NextParam(current)
        /\ UNCHANGED <<call, loop>>
    BY <1>4 DEF getNextQuery
  <2>2. /\ Len(params) = n /\ current \in 1..n /\ n \in Nat
    BY <1>1, <1>2, <1>4, Counting DEF RInv, Loaded
  <2>3. PICK c \in Nat : Len(served) = c * n + (current - 1)
    BY <1>1, <1>4, <2>2 DEF RInv, Loaded
  <2>4. PICK i \in QueryLines :
          /\ QueriesBefore(i) = current - 1
          /\ params[current] = RequestParam(file[i], Serial(file[i]))
    BY <2>2 DEF RInv, ParamsOK
  <2>5. file[i] \in QueryKinds
    BY DEF QueryLines
  <2>6. m = Expected(file[i])
    BY <1>2, <2>4, <2>5, MessageIsExpected
  <2>7. PICK S : served \in Seq(S)
    BY <1>2 DEF StateTyped, IsSeq
  <2>8. /\ served' \in Seq(S \cup {m}) /\ Len(served') = Len(served) + 1
        /\ \A k \in 1..Len(served) : served'[k] = served[k]
        /\ served'[Len(served) + 1] = m
        /\ Len(served) \in Nat
    <3>1. served \in Seq(S \cup {m})
      BY <2>7, SeqMonotonic
    <3> HIDE DEF m
    <3> QED BY <2>1, <3>1, AppendProperties
  <2> HIDE DEF m
  <2>9. ServedInOrder'
    <3>1. ASSUME NEW k \in 1..(Len(served) + 1)
          PROVE  \E j \in QueryLines : /\ QueriesBefore(j) = (k - 1) % n
                                       /\ served'[k] = Expected(file[j])
      <4>1. CASE k = Len(served) + 1
        <5>1. k - 1 = c * n + (current - 1)
          BY <2>3, <2>8, <4>1
        <5>2. (c * n + (current - 1)) % n = current - 1
          <6>1. current - 1 \in Nat /\ current - 1 < n
            BY <2>2
          <6> QED BY <2>2, <6>1, Remainder
        <5>3. QueriesBefore(i) = (k - 1) % n
          BY <2>4, <5>1, <5>2
        <5> QED BY <2>6, <2>8, <4>1, <5>3
      <4>2. CASE k # Len(served) + 1
        <5>1. k \in 1..Len(served) /\ DOMAIN served = 1..Len(served)
          BY <2>7, <2>8, <4>2
        <5> QED BY <2>8, <5>1 DEF RInv, ServedInOrder
      <4> QED BY <4>1, <4>2
    <3>2. DOMAIN served' = 1..(Len(served) + 1)
      BY <2>8
    <3>3. QueryLines' = QueryLines /\ (\A j : QueriesBefore(j)' = QueriesBefore(j))
          /\ UNCHANGED <<file, config>>
      BY <1>1, SameInput
    <3> QED BY <3>1, <3>2, <3>3 DEF ServedInOrder, Expected
  <2>10. StateTyped'
    <3>1. Len(served') <= MaxServed /\ IsSeq(served')
      BY <1>1, <2>8, RepositoryAssumption DEF IsSeq
    <3> QED BY <1>1, <1>2, <2>1, <3>1
            DEF StateTyped, InputOK, ConfigOK, IsSeq
  <2>11. ParamsOK'
    BY <1>1, SameInput DEF RInv, ParamsOK, RequestParam
  <2>12. Loaded'
    <3>1. current' \in 1..n
      BY <2>1, <2>2 DEF NextParam
    <3>2. \E d \in Nat : Len(served') = d * n + (current' - 1)
      <4>1. CASE current = n
        <5>1. Len(served') = c * n + n /\ current' = 1
          BY <2>1, <2>2, <2>3, <2>8, <4>1 DEF NextParam
        <5>2. c + 1 \in Nat /\ Len(served') = (c + 1) * n + (current' - 1)
          BY <2>2, <5>1, NextRound
        <5> QED BY <5>2
      <4>2. CASE current # n
        <5>1. Len(served') = c * n + (current' - 1)
          BY <2>1, <2>2, <2>3, <2>8, <4>2, NextRound DEF NextParam
        <5> QED BY <5>1
      <4> QED BY <4>1, <4>2
    <3> QED BY <1>1, <2>2, <3>1, <3>2, SameInput DEF Loaded
  <2> QED BY <1>1, <1>4, <2>1, <2>9, <2>10, <2>11, <2>12
          DEF RInv, Untouched, Loading, Reading, Gap, FailureExplained,
              FailsForAReason
<1> QED BY <1>3, <1>4

-----------------------------------------------------------------------------
(* Reading a line *)

\* The queries up to and with the line at pos.
CountWithLine == QueriesBefore(pos) + IF pos \in QueryLines THEN 1 ELSE 0

\* What reading a line that is used or skipped does to the stream.
LineStep(line) ==
    /\ pos \in 1..Round /\ line = LinesRead[pos]
    /\ line \in QueryKinds <=> pos \in QueryLines
    /\ pos \in QueryLines => line = file[pos]
    /\ pos' \in 1..(Len(file) + 1) /\ eof' \in BOOLEAN /\ bad' \in BOOLEAN
    /\ \/ /\ call = "get" /\ pos = Round
          /\ pos' = 1 /\ ~eof' /\ bad' = ~seekable
          /\ CountWithLine = Cardinality(QueryLines)
       \/ /\ call = "load" \/ pos < Round
          /\ pos' = pos + 1 /\ ~bad'
          /\ eof' => call = "load" /\ pos' = Len(file) + 1
          /\ newline \/ call = "load" \/ pos' <= Len(file)
          /\ CountWithLine = QueriesBefore(pos')

\* The cases of getline(): a bad stream, the end of the input when the last line
\* was not terminated, a line, and the end of an input that is.
LEMMA GetLineCases ==
    ASSUME RInv, status = "usable", call # "none"
    PROVE  \/ /\ call = "get" /\ bad /\ ~seekable
              /\ Len(served) >= Cardinality(QueryLines)
              /\ ~GetLine.eof /\ GetLine.bad
           \/ /\ pos = Len(file) + 1
              /\ call = "load" \/ newline
              /\ GetLine.eof /\ GetLine.line = "blank"
              /\ GetLine.pos = pos /\ GetLine.bad
           \/ /\ pos <= Len(file)
              /\ GetLine.line = file[pos] /\ GetLine.pos = pos + 1
              /\ GetLine.eof \in BOOLEAN /\ GetLine.bad = FALSE
              /\ GetLine.eof <=> pos = Len(file) /\ ~newline
<1>1. /\ Len(file) \in Nat /\ pos \in 1..(Len(file) + 1)
      /\ eof \in BOOLEAN /\ bad \in BOOLEAN /\ newline \in BOOLEAN
      /\ call = "load" \/ call = "get"
      /\ call = "get" => params = <<>>
  BY DEF RInv, StateTyped, InputOK
<1>2. /\ call = "load" => ~bad /\ (eof => pos = Len(file) + 1)
      /\ call = "get" =>
           /\ ~eof /\ (newline \/ pos <= Len(file))
           /\ bad => ~seekable /\ Len(served) >= Cardinality(QueryLines)
  BY <1>1 DEF RInv, Loading, Reading
<1>3. CASE eof \/ bad
  <2>1. GetLine = [line |-> "blank", eof |-> eof, bad |-> TRUE, pos |-> pos]
    BY <1>3 DEF GetLine
  <2>2. /\ GetLine.line = "blank" /\ GetLine.eof = eof /\ GetLine.bad
        /\ GetLine.pos = pos
    BY <2>1
  <2> QED BY <1>1, <1>2, <1>3, <2>2
<1>4. CASE ~(eof \/ bad) /\ pos <= Len(file)
  <2>1. GetLine = [line |-> file[pos], eof |-> pos = Len(file) /\ ~newline,
                   bad |-> FALSE, pos |-> pos + 1]
    BY <1>4 DEF GetLine
  <2>2. GetLine.line = file[pos] /\ GetLine.pos = pos + 1
    BY <2>1
  <2>3. /\ GetLine.bad = FALSE /\ GetLine.eof \in BOOLEAN
        /\ GetLine.eof <=> pos = Len(file) /\ ~newline
    BY <2>1, Zenon
  <2> QED BY <1>4, <2>2, <2>3
<1>5. CASE ~(eof \/ bad) /\ ~(pos <= Len(file))
  <2>1. GetLine = [line |-> "blank", eof |-> TRUE, bad |-> TRUE, pos |-> pos]
    BY <1>5 DEF GetLine
  <2>2. /\ GetLine.line = "blank" /\ GetLine.eof /\ GetLine.bad
        /\ GetLine.pos = pos
    BY <2>1
  <2>3. pos = Len(file) + 1 /\ (call = "load" \/ newline)
    BY <1>1, <1>2, <1>5
  <2> QED BY <2>2, <2>3
<1> QED BY <1>3, <1>4, <1>5

\* What getline() gives is well typed.
LEMMA GetLineTyped ==
    ASSUME StateTyped
    PROVE  /\ GetLine.eof \in BOOLEAN /\ GetLine.bad \in BOOLEAN
           /\ GetLine.pos \in 1..(Len(file) + 1)
<1>1. Len(file) \in Nat /\ pos \in 1..(Len(file) + 1) /\ eof \in BOOLEAN
  BY DEF StateTyped, InputOK
<1>2. GetLine.pos \in 1..(Len(file) + 1)
  BY <1>1 DEF GetLine
<1>3. GetLine.eof \in BOOLEAN /\ GetLine.bad \in BOOLEAN
  BY <1>1, Zenon DEF GetLine
<1> QED BY <1>2, <1>3

\* A line that is used or skipped is counted once, also when it is the last.
LEMMA ReadLine ==
    ASSUME RInv, status = "usable", call # "none",
           ~(GetLine.eof /\ call = "load" /\ GetLine.line = "blank"),
           GetLine.eof \/ ~GetLine.bad, advance(GetLine)
    PROVE  LineStep(GetLine.line)
<1> DEFINE g == GetLine
           L == Len(file)
<1>1. /\ L \in Nat /\ pos \in 1..(L + 1)
      /\ newline \in BOOLEAN /\ seekable \in BOOLEAN
      /\ call = "load" \/ call = "get"
      /\ file \in Seq(Kinds) /\ DOMAIN file = 1..L
      /\ InputOK
  BY DEF RInv, StateTyped, InputOK
<1>2. \/ /\ pos = L + 1 /\ call = "get" /\ newline
         /\ g.eof /\ g.line = "blank"
      \/ /\ pos <= L /\ g.line = file[pos] /\ g.pos = pos + 1
         /\ g.eof \in BOOLEAN /\ g.bad = FALSE
         /\ g.eof <=> pos = L /\ ~newline
  BY <1>1, GetLineCases
<1> HIDE DEF g
<1>3. /\ \A n \in 1..(L + 1) : QueriesBefore(n) \in Nat
      /\ QueriesBefore(L + 1) = Cardinality(QueryLines)
      /\ \A n \in 1..L :
           QueriesBefore(n + 1) = IF n \in QueryLines THEN QueriesBefore(n) + 1
                                                      ELSE QueriesBefore(n)
      /\ \A n \in QueryLines : n \in 1..L
  BY <1>1, Counting
<1>4. /\ newline => Round = L + 1
      /\ ~newline => Round = L
      /\ \A j \in 1..Round : LinesRead[j] = IF j <= L THEN file[j] ELSE "blank"
  BY <1>1, Lines DEF Round
<1>5. advance(g)
  BY DEF g
<1>6. ASSUME pos = L + 1, call = "get", newline, g.eof, g.line = "blank"
      PROVE  LineStep(g.line)
  <2>1. /\ pos = Round /\ pos \notin QueryLines /\ pos \in 1..Round
        /\ 1 \in 1..(L + 1)
    BY <1>1, <1>3, <1>4, <1>6
  <2>2. pos' = 1 /\ eof' = FALSE /\ bad' = ~seekable
    BY <1>5, <1>6 DEF advance
  <2>3. CountWithLine = Cardinality(QueryLines)
    BY <1>1, <1>3, <1>6, <2>1 DEF CountWithLine
  <2>4. g.line = LinesRead[pos]
    BY <1>1, <1>4, <1>6, <2>1
  <2>5. g.line \notin QueryKinds
    BY <1>6 DEF QueryKinds
  <2>6. eof' \in BOOLEAN /\ bad' \in BOOLEAN /\ ~eof'
    BY <2>2, Zenon
  <2> QED BY <1>6, <2>1, <2>2, <2>3, <2>4, <2>5, <2>6, Zenon DEF LineStep
<1>7. ASSUME pos <= L, g.line = file[pos], g.pos = pos + 1,
             g.eof \in BOOLEAN, g.bad = FALSE, g.eof <=> pos = L /\ ~newline
      PROVE  LineStep(g.line)
  <2>0. pos <= L /\ L \in Nat /\ pos \in 1..(L + 1) /\ (Round = L \/ Round = L + 1)
    BY <1>1, <1>4, <1>7, Zenon
  <2>1. pos \in 1..L /\ pos \in 1..Round
    BY <2>0
  <2>2. g.line = LinesRead[pos]
    BY <1>4, <1>7, <2>1
  <2>3. g.line \in QueryKinds <=> pos \in QueryLines
    BY <1>1, <1>7, <2>1 DEF QueryLines
  <2>4. CountWithLine = QueriesBefore(pos + 1)
    BY <1>3, <2>1 DEF CountWithLine
  <2>5. CASE g.eof /\ call = "get"
    <3>0. 1 \in 1..(L + 1)
      BY <2>0
    <3>1. pos = L /\ ~newline /\ pos = Round /\ 1 \in 1..(L + 1)
      BY <1>4, <1>7, <2>5, <3>0, Zenon
    <3>2. pos' = 1 /\ eof' = FALSE /\ bad' = ~seekable
      BY <1>5, <2>5 DEF advance
    <3>3. eof' \in BOOLEAN /\ bad' \in BOOLEAN /\ ~eof'
      BY <3>2, Zenon
    <3>4. CountWithLine = Cardinality(QueryLines)
      BY <1>3, <2>4, <3>1
    <3> QED BY <1>7, <2>1, <2>2, <2>3, <2>5, <3>1, <3>2, <3>3, <3>4, Zenon
            DEF LineStep
  <2>6. CASE ~(g.eof /\ call = "get")
    <3>1. pos' = pos + 1 /\ eof' = g.eof /\ bad' = FALSE
      BY <1>5, <1>7, <2>6 DEF advance
    <3>2. eof' \in BOOLEAN /\ bad' \in BOOLEAN /\ ~bad'
      BY <1>7, <3>1, Zenon
    <3>3. call = "load" \/ pos # L \/ newline
      BY <1>1, <1>7, <2>6, Zenon
    <3>4. call = "load" \/ pos < Round
      <4>1. CASE pos # L
        BY <2>0, <4>1
      <4>2. CASE newline
        BY <1>4, <2>0, <4>2
      <4> QED BY <3>3, <4>1, <4>2, Zenon
    <3>5. newline \/ call = "load" \/ pos' <= L
      <4>1. pos # L => pos + 1 <= L
        BY <2>0
      <4> QED BY <3>1, <3>3, <4>1, Zenon
    <3>6. pos' \in 1..(L + 1)
      BY <2>1, <3>1
    <3>7. eof' => call = "load" /\ pos' = L + 1
      BY <1>1, <1>7, <2>6, <3>1
    <3>8. CountWithLine = QueriesBefore(pos')
      BY <2>4, <3>1
    <3> QED BY <1>7, <2>1, <2>2, <2>3, <3>1, <3>2, <3>4, <3>5, <3>6, <3>7, <3>8,
               Zenon
            DEF LineStep
  <2> QED BY <2>5, <2>6
<1>8. LineStep(g.line)
  BY <1>2, <1>6, <1>7
<1> QED BY <1>8 DEF g

\* An exception with a reason is the end.
LEMMA ThrowKeepsInv ==
    ASSUME RInv, status = "usable", call # "none", throw,
           UNCHANGED <<file, newline, seekable, config, started>>,
           pos' \in 1..(Len(file) + 1), eof' \in BOOLEAN, bad' \in BOOLEAN,
           \/ QueryLines = {}
           \/ LongGap
           \/ ~seekable /\ Len(served) >= Cardinality(QueryLines)
    PROVE  RInv'
<1>1. status' = "failed" /\ call' = "none"
      /\ UNCHANGED <<loop, serial, params, current, served>>
  BY DEF throw
<1>2. ParamsOK' /\ ServedInOrder' /\ InputOK' /\ ConfigOK'
      /\ IsSeq(params') /\ IsSeq(served')
  BY <1>1, SameRequests DEF RInv
<1>3. StateTyped'
  BY <1>1, <1>2 DEF RInv, StateTyped
<1>4. FailureExplained'
  BY <1>1, SameInput DEF FailureExplained, FailsForAReason, LongGap
<1> QED BY <1>1, <1>2, <1>3, <1>4
        DEF RInv, Untouched, Configurable, Loading, Loaded, Reading, Gap

\* As many skipped lines as loop counts in a row are a long gap.
LEMMA GapIsLong ==
    ASSUME RInv, status = "usable", call # "none", loop = MaxEmpty
    PROVE  QueryLines = {} \/ LongGap
<1> SUFFICES ASSUME QueryLines # {} PROVE LongGap
  OBVIOUS
<1>1. /\ Round \in Nat /\ Len(LinesRead) = Round + Round
      /\ Len(file) \in Nat /\ Len(file) <= Round
      /\ pos \in 1..(Len(file) + 1)
  BY Lines DEF RInv, StateTyped
<1>2. PICK p \in {pos, pos + Round} : SkippedTo(p)
  BY DEF RInv, Gap
<1> DEFINE i == p - MaxEmpty
<1>3. /\ i \in 1..Len(LinesRead) /\ i + MaxEmpty - 1 <= Len(LinesRead)
      /\ i + MaxEmpty - 1 = p - 1
  <2>1. p \in Nat /\ p - 1 <= Round + Round
    BY <1>1, <1>2
  <2>2. MaxEmpty < p
    BY <1>2 DEF SkippedTo
  <2> QED BY <1>1, <2>1, <2>2, RepositoryAssumption
<1>4. \A j \in i..(i + MaxEmpty - 1) : LinesRead[j] \in SkippedKinds
  BY <1>2, <1>3 DEF SkippedTo
<1> HIDE DEF i
<1> QED BY <1>3, <1>4 DEF LongGap

\* A skipped line makes the gap longer; across the end it goes on in the next
\* round, and no gap is longer than a round.
LEMMA SkipGrowsGap ==
    ASSUME RInv, status = "usable", call # "none",
           NEW line \in SkippedKinds, LineStep(line), loop' = loop + 1,
           UNCHANGED <<file, newline, seekable, status, call>>
    PROVE  Gap'
<1> SUFFICES ASSUME QueryLines # {}
             PROVE  SkippedTo(pos)' \/ (call = "get" /\ SkippedTo(pos + Round)')
  BY SameInput DEF Gap
<1> USE DEF SkippedTo
<1>1. /\ Round \in Nat /\ Len(file) \in Nat /\ Len(file) <= Round
      /\ pos \in 1..Round /\ loop \in Nat /\ line = LinesRead[pos]
      /\ \A j \in 1..Round : LinesRead[j + Round] = LinesRead[j]
  BY Lines, RepositoryAssumption DEF LineStep, RInv, StateTyped
<1>2. UNCHANGED <<LinesRead, Round>>
  BY SameInput
<1>3. PICK p \in {pos, pos + Round} :
        /\ SkippedTo(p)
        /\ p = pos \/ call = "get"
  BY DEF RInv, Gap
<1>4. p \in Nat /\ LinesRead[p] \in SkippedKinds
  BY <1>1, <1>3
<1>5. /\ loop + 1 < p + 1
      /\ \A j \in (p - loop)..p : LinesRead[j] \in SkippedKinds
  <2>1. loop < p /\ \A j \in (p - loop)..(p - 1) : LinesRead[j] \in SkippedKinds
    BY <1>3
  <2>2. \A j \in (p - loop)..p : j \in (p - loop)..(p - 1) \/ j = p
    BY <1>1, <1>4
  <2> QED BY <1>1, <1>4, <2>1, <2>2
<1>6. /\ (p + 1) - loop' = p - loop /\ (p + 1) - 1 = p
      /\ loop' < p + 1
  BY <1>1, <1>4, <1>5
<1>7. CASE pos' = pos + 1
  <2>1. CASE p = pos
    <3>1. pos' = p + 1
      BY <1>7, <2>1
    <3> QED BY <1>2, <1>5, <1>6, <3>1
  <2>2. CASE p = pos + Round /\ call = "get"
    <3>1. pos' + Round = p + 1
      BY <1>1, <1>7, <2>2
    <3> QED BY <1>2, <1>5, <1>6, <2>2, <3>1
  <2> QED BY <1>3, <2>1, <2>2
<1>8. CASE call = "get" /\ pos = Round /\ pos' = 1
  <2>1. CASE p = pos
    <3>1. pos' + Round = p + 1
      BY <1>1, <1>8, <2>1
    <3> QED BY <1>2, <1>5, <1>6, <1>8, <3>1
  <2>2. CASE p = pos + Round
    <3>1. PICK i \in QueryLines : i \in 1..Len(file)
      BY Counting DEF RInv, StateTyped, InputOK
    <3>2. /\ i \in 1..Round /\ LinesRead[i] = file[i]
          /\ LinesRead[i + Round] = file[i]
      BY <1>1, <3>1, Lines DEF RInv, StateTyped
    <3>3. file[i] \notin SkippedKinds
      BY DEF QueryLines, QueryKinds, SkippedKinds
    <3>4. p - loop > i + Round
      <4>1. i + Round <= p /\ i + Round \in Nat
        BY <1>1, <1>8, <2>2, <3>2
      <4>2. ~(i + Round \in (p - loop)..p)
        BY <1>5, <3>2, <3>3
      <4> QED BY <1>1, <1>4, <4>1, <4>2
    <3>5. \A j \in ((pos' + Round) - loop')..((pos' + Round) - 1) :
            j \in 1..Round /\ j + Round \in (p - loop)..p
      BY <1>1, <1>4, <1>8, <2>2, <3>2, <3>4
    <3>6. \A j \in ((pos' + Round) - loop')..((pos' + Round) - 1) :
            LinesRead[j] \in SkippedKinds
      BY <1>1, <1>5, <3>5
    <3>7. loop' < pos' + Round
      BY <1>1, <1>4, <1>8, <2>2, <3>2, <3>4
    <3> QED BY <1>2, <1>8, <3>6, <3>7
  <2> QED BY <1>3, <2>1, <2>2
<1> QED BY <1>7, <1>8 DEF LineStep

\* A line of getNextQuery() is counted with the query it makes, if any, and after
\* the last line a new round begins.
LEMMA LineIsCounted ==
    ASSUME RInv, status = "usable", call = "get", NEW line, LineStep(line),
           Len(served') = Len(served) + IF pos \in QueryLines THEN 1 ELSE 0,
           UNCHANGED <<file, newline, seekable, params>>
    PROVE  Reading'
<1> DEFINE n == Cardinality(QueryLines)
<1>1. /\ n \in Nat /\ QueriesBefore(1) = 0 /\ Len(file) \in Nat
      /\ \A k \in 1..(Len(file) + 1) : QueriesBefore(k) \in Nat
      /\ pos \in 1..(Len(file) + 1) /\ (~newline => Len(file) > 0)
  BY Counting, EmptySeq DEF RInv, StateTyped, InputOK
<1>2. PICK c \in Nat : Len(served) = c * n + QueriesBefore(pos)
  <2>1. params = <<>>
    BY DEF RInv, StateTyped
  <2> QED BY <2>1 DEF RInv, Reading
<1>3. Len(served') = c * n + CountWithLine /\ CountWithLine \in Nat
  BY <1>1, <1>2, NextRound DEF CountWithLine
<1>4. QueryLines' = QueryLines /\ \A k : QueriesBefore(k)' = QueriesBefore(k)
  BY SameInput
<1>5. QueriesBefore(pos)' = QueriesBefore(pos')
  BY SameInput DEF QueriesBefore
<1>6. CASE pos' = 1 /\ ~eof' /\ bad' = ~seekable /\ CountWithLine = n
  <2>1. Len(served') = (c + 1) * n + QueriesBefore(pos') /\ Len(served') >= n
    BY <1>1, <1>3, <1>6, NextRound
  <2>2. newline \/ pos' <= Len(file)
    BY <1>1, <1>6
  <2>3. \E d \in Nat : Len(served') = d * n + QueriesBefore(pos')
    BY <2>1
  <2> QED BY <1>4, <1>5, <1>6, <2>1, <2>2, <2>3 DEF Reading
<1>7. CASE /\ pos' = pos + 1 /\ ~bad' /\ ~eof'
           /\ newline \/ pos' <= Len(file)
           /\ CountWithLine = QueriesBefore(pos')
  <2>1. \E d \in Nat : Len(served') = d * n + QueriesBefore(pos')
    BY <1>3, <1>7
  <2> QED BY <1>4, <1>5, <1>7, <2>1 DEF Reading
<1> QED BY <1>6, <1>7 DEF LineStep

\* After a line with text the gap is empty.
LEMMA EmptyGap ==
    ASSUME loop' = 0, pos' \in Nat, pos' > 0
    PROVE  Gap'
<1>1. \A p \in Nat : p > 0 => 0 < p /\ \A j \in (p - 0)..(p - 1) : j # j
  OBVIOUS
<1>2. 0 < pos' /\ \A j \in (pos' - 0)..(pos' - 1) : j # j
  BY <1>1
<1> QED BY <1>2 DEF Gap, SkippedTo

\* A line that makes no query keeps the invariant.
LEMMA NoQueryKeepsInv ==
    ASSUME RInv, status = "usable", call # "none", NEW line, LineStep(line),
           pos \notin QueryLines, loop' \in 0..MaxEmpty, Gap',
           UNCHANGED <<file, newline, seekable, config, started, status, call,
                       params, current, served>>
    PROVE  RInv'
<1>1. ParamsOK' /\ ServedInOrder' /\ InputOK' /\ ConfigOK'
      /\ IsSeq(params') /\ IsSeq(served')
  BY SameRequests DEF RInv
<1>2. StateTyped'
  BY <1>1 DEF RInv, StateTyped, LineStep
<1>3. QueriesBefore(pos)' = QueriesBefore(pos')
  BY SameInput DEF QueriesBefore
<1>4. Loading'
  <2>1. CASE call = "load"
    <3>1. Len(params) \in Nat /\ CountWithLine = QueriesBefore(pos)
      <4>1. QueriesBefore(pos) \in Nat
        BY Counting DEF RInv, StateTyped, InputOK
      <4> QED BY <2>1, <4>1 DEF RInv, Loading, CountWithLine
    <3>2. Len(params) = QueriesBefore(pos')
      BY <2>1, <3>1 DEF LineStep, RInv, Loading
    <3> QED BY <1>3, <2>1, <3>2 DEF LineStep, RInv, Loading
  <2> QED BY <2>1 DEF Loading
<1>5. Reading'
  <2>1. CASE call = "get"
    <3>1. Len(served) \in Nat
      BY DEF RInv, StateTyped, IsSeq
    <3> QED BY <2>1, <3>1, LineIsCounted
  <2> QED BY <2>1 DEF Reading, RInv, StateTyped
<1> QED BY <1>1, <1>2, <1>4, <1>5
        DEF RInv, Untouched, Configurable, Loaded, FailureExplained, FailsForAReason

\* A line that makes a query is kept by load() and served by getNextQuery().
LEMMA DeliverKeepsInv ==
    ASSUME RInv, status = "usable", call # "none", LineStep(file[pos]),
           pos \in QueryLines, loop' = 0,
           deliver(RequestParam(file[pos], Serial(file[pos]))),
           UNCHANGED <<file, newline, seekable, config, started>>
    PROVE  RInv'
<1> DEFINE p == RequestParam(file[pos], Serial(file[pos]))
           n == Cardinality(QueryLines)
<1>1. /\ UNCHANGED <<status, current>>
      /\ call = "load" \/ call = "get"
      /\ QueriesBefore(pos) \in Nat /\ n \in Nat /\ QueriesBefore(pos) < n
      /\ file[pos] \in QueryKinds /\ InputOK /\ ConfigOK /\ 0 \in 0..MaxEmpty
  BY Counting, RepositoryAssumption
  DEF deliver, RInv, StateTyped, InputOK, QueryLines
<1>2. /\ QueryLines' = QueryLines /\ \A k : QueriesBefore(k)' = QueriesBefore(k)
      /\ QueriesBefore(pos)' = QueriesBefore(pos')
  BY SameInput DEF QueriesBefore
<1>3. Gap'
  <2>1. pos' \in Nat /\ pos' > 0
    BY DEF LineStep, RInv, StateTyped, InputOK
  <2> QED BY <2>1, EmptyGap
<1>4. InputOK' /\ ConfigOK'
  BY <1>1 DEF InputOK, ConfigOK
<1>5. CASE call = "load"
  <2>1. params' = Append(params, p) /\ UNCHANGED <<call, served>>
    BY <1>5 DEF deliver
  <2>2. PICK S : params \in Seq(S)
    BY DEF RInv, StateTyped, IsSeq
  <2>3. /\ params' \in Seq(S \cup {p}) /\ Len(params') = Len(params) + 1
        /\ \A k \in 1..Len(params) : params'[k] = params[k]
        /\ params'[Len(params) + 1] = p
        /\ Len(params) \in Nat
    <3>1. params \in Seq(S \cup {p})
      BY <2>2, SeqMonotonic
    <3> HIDE DEF p
    <3> QED BY <2>1, <3>1, AppendProperties
  <2> HIDE DEF p
  <2>4. ~started /\ Len(params) = QueriesBefore(pos) /\ served = <<>>
    BY <1>5 DEF RInv, Loading, Untouched
  <2>5. ParamsOK'
    <3>1. ASSUME NEW k \in 1..(Len(params) + 1)
          PROVE  \E i \in QueryLines :
                   /\ QueriesBefore(i) = k - 1
                   /\ params'[k] = RequestParam(file[i], Serial(file[i]))
      <4>1. CASE k = Len(params) + 1
        BY <1>1, <2>3, <2>4, <4>1 DEF p
      <4>2. CASE k # Len(params) + 1
        <5>1. k \in 1..Len(params)
          BY <2>3, <4>2
        <5> QED BY <2>3, <5>1 DEF RInv, ParamsOK
      <4> QED BY <4>1, <4>2
    <3> QED BY <1>2, <2>3, <3>1 DEF ParamsOK, RequestParam
  <2>6. ServedInOrder'
    BY <2>1, <2>4, EmptySeq DEF ServedInOrder
  <2>7. StateTyped'
    <3>1. IsSeq(params') /\ IsSeq(served')
      BY <2>1, <2>3 DEF IsSeq, RInv, StateTyped
    <3> QED BY <1>1, <1>4, <1>5, <2>1, <3>1 DEF RInv, StateTyped, LineStep
  <2>8. Loading'
    <3>1. Len(params') = QueriesBefore(pos')
      BY <1>1, <1>5, <2>3, <2>4 DEF LineStep, CountWithLine
    <3> QED BY <1>2, <1>5, <2>1, <2>4, <3>1 DEF Loading, LineStep
  <2> QED BY <1>1, <1>3, <1>5, <2>1, <2>4, <2>5, <2>6, <2>7, <2>8
          DEF RInv, Untouched, Configurable, Loaded, Reading, FailureExplained,
              FailsForAReason
<1>6. CASE call = "get"
  <2> DEFINE m == MessageOf(p)
  <2>1. call' = "none" /\ served' = Append(served, m) /\ UNCHANGED params
    BY <1>6 DEF deliver
  <2>2. m = Expected(file[pos])
    BY <1>1, MessageIsExpected
  <2>3. PICK S : served \in Seq(S)
    BY DEF RInv, StateTyped, IsSeq
  <2>4. /\ served' \in Seq(S \cup {m}) /\ Len(served') = Len(served) + 1
        /\ \A k \in 1..Len(served) : served'[k] = served[k]
        /\ served'[Len(served) + 1] = m
        /\ Len(served) \in Nat
    <3>1. served \in Seq(S \cup {m})
      BY <2>3, SeqMonotonic
    <3> HIDE DEF m
    <3> QED BY <2>1, <3>1, AppendProperties
  <2> HIDE DEF m, p
  <2>5. started /\ params = <<>> /\ Len(served) < MaxServed
    BY <1>6 DEF RInv, StateTyped
  <2>6. PICK c \in Nat : Len(served) = c * n + QueriesBefore(pos)
    BY <1>6, <2>5 DEF RInv, Reading
  <2>7. ServedInOrder'
    <3>1. ASSUME NEW k \in 1..(Len(served) + 1)
          PROVE  \E j \in QueryLines : /\ QueriesBefore(j) = (k - 1) % n
                                       /\ served'[k] = Expected(file[j])
      <4>1. CASE k = Len(served) + 1
        <5>1. k - 1 = c * n + QueriesBefore(pos)
          BY <2>4, <2>6, <4>1
        <5>2. (c * n + QueriesBefore(pos)) % n = QueriesBefore(pos)
          BY <1>1, Remainder
        <5> QED BY <2>2, <2>4, <4>1, <5>1, <5>2
      <4>2. CASE k # Len(served) + 1
        <5>1. k \in 1..Len(served) /\ DOMAIN served = 1..Len(served)
          BY <2>3, <2>4, <4>2
        <5> QED BY <2>4, <5>1 DEF RInv, ServedInOrder
      <4> QED BY <4>1, <4>2
    <3>2. DOMAIN served' = 1..(Len(served) + 1)
      BY <2>4
    <3> QED BY <1>2, <3>1, <3>2 DEF ServedInOrder, Expected
  <2>8. ParamsOK'
    BY <2>1, <2>5, EmptySeq DEF ParamsOK
  <2>9. StateTyped'
    <3>1. IsSeq(params') /\ IsSeq(served') /\ Len(served') <= MaxServed
      BY <2>1, <2>4, <2>5, RepositoryAssumption DEF IsSeq, RInv, StateTyped
    <3> QED BY <1>1, <1>4, <2>1, <3>1 DEF RInv, StateTyped, LineStep
  <2>10. Reading'
    BY <1>6, <2>1, <2>4, LineIsCounted
  <2> QED BY <1>1, <1>3, <2>1, <2>5, <2>7, <2>8, <2>9, <2>10
          DEF RInv, Untouched, Configurable, Loading, Loaded, FailureExplained,
              FailsForAReason
<1> QED BY <1>1, <1>5, <1>6

\* load() ends with all requests, or without any.
LEMMA LoadReturnsKeepsInv ==
    ASSUME RInv, status = "usable", call = "load", loadReturns,
           pos = Len(file) + 1, UNCHANGED pos,
           eof' \in BOOLEAN, bad' \in BOOLEAN,
           UNCHANGED <<file, newline, seekable, config, started>>
    PROVE  RInv'
<1>1. /\ Len(params) = Cardinality(QueryLines) /\ ~started /\ served = <<>>
      /\ pos \in 1..(Len(file) + 1) /\ InputOK
  BY Counting DEF RInv, StateTyped, InputOK, Loading, Untouched
<1>2. CASE params = <<>>
  <2>1. QueryLines = {}
    BY <1>1, <1>2, Counting, EmptySeq DEF InputOK
  <2> QED BY <1>1, <1>2, <2>1, ThrowKeepsInv DEF loadReturns
<1>3. CASE params # <<>>
  <2>1. /\ call' = "none" /\ current' = 1
        /\ UNCHANGED <<status, loop, serial, params, served>>
    BY <1>3 DEF loadReturns
  <2>2. ParamsOK' /\ ServedInOrder' /\ InputOK' /\ ConfigOK'
        /\ IsSeq(params') /\ IsSeq(served')
    BY <2>1, SameRequests DEF RInv
  <2>3. StateTyped'
    BY <1>1, <2>1, <2>2 DEF RInv, StateTyped
  <2>4. Loaded'
    <3>1. Len(params) \in Nat \ {0}
      BY <1>3, EmptySeq DEF RInv, StateTyped, IsSeq
    <3>2. Len(served') = 0 * Len(params') + (current' - 1)
      BY <1>1, <2>1, <3>1, EmptySeq
    <3>3. Len(params') = Cardinality(QueryLines') /\ current' \in 1..Len(params')
      BY <1>1, <2>1, <3>1, SameInput
    <3> QED BY <3>2, <3>3 DEF Loaded
  <2> QED BY <1>1, <1>3, <2>1, <2>2, <2>3, <2>4
          DEF RInv, Untouched, Configurable, Loading, Reading, Gap,
              FailureExplained, FailsForAReason
<1> QED BY <1>2, <1>3

\* Reading a line keeps the invariant: one case for each way it ends.
LEMMA ReadKeepsInv ==
    ASSUME RInv, readNextRequest
    PROVE  RInv'
<1> DEFINE g == GetLine
<1>1. /\ status = "usable" /\ call # "none"
      /\ UNCHANGED <<file, newline, seekable, config, started>>
  BY DEF readNextRequest, inputVars
<1>2. /\ Len(file) \in Nat /\ pos \in 1..(Len(file) + 1) /\ loop \in 0..MaxEmpty
      /\ eof \in BOOLEAN /\ bad \in BOOLEAN /\ seekable \in BOOLEAN
      /\ call = "load" \/ call = "get"
  BY <1>1 DEF RInv, StateTyped, InputOK
<1>3. CASE loop = MaxEmpty /\ throw /\ UNCHANGED streamVars
  <2>1. UNCHANGED <<pos, eof, bad>>
    BY <1>3 DEF streamVars
  <2> QED BY <1>1, <1>2, <1>3, <2>1, GapIsLong, ThrowKeepsInv
<1>4. CASE g.eof /\ call = "load" /\ g.line = "blank" /\ loadReturns /\ advance(g)
  <2>1. pos = Len(file) + 1 /\ g.pos = pos
    <3>1. pos <= Len(file) /\ g.line = file[pos] =>
             ~(g.eof /\ pos = Len(file) /\ ~newline)
      BY <1>4 DEF RInv, StateTyped, InputOK
    <3> QED BY <1>1, <1>4, <3>1, GetLineCases
  <2>2. pos' = pos /\ eof' = g.eof /\ bad' = g.bad
    BY <1>4, <2>1 DEF advance
  <2>3. eof' \in BOOLEAN /\ bad' \in BOOLEAN
    BY <1>2, <2>2, GetLineTyped DEF RInv
  <2> HIDE DEF g
  <2> QED BY <1>1, <1>4, <2>1, <2>2, <2>3, LoadReturnsKeepsInv
<1>5. CASE ~g.eof /\ g.bad /\ throw /\ advance(g)
  <2>1. ~seekable /\ Len(served) >= Cardinality(QueryLines)
    BY <1>1, <1>5, GetLineCases
  <2>2. g.pos \in 1..(Len(file) + 1) /\ g.eof \in BOOLEAN /\ g.bad \in BOOLEAN
    BY GetLineTyped DEF RInv
  <2> HIDE DEF g
  <2>3. pos' = g.pos /\ eof' = g.eof /\ bad' = g.bad
    BY <1>5 DEF advance
  <2> QED BY <1>1, <1>5, <2>1, <2>2, <2>3, ThrowKeepsInv
<1>6. CASE /\ loop < MaxEmpty
           /\ ~(g.eof /\ call = "load" /\ g.line = "blank")
           /\ g.eof \/ ~g.bad
           /\ IF g.line \in SkippedKinds
              THEN /\ loop' = loop + 1
                   /\ UNCHANGED <<status, call, serial, params, current, served>>
              ELSE useLine(g.line)
           /\ advance(g)
  <2>1. LineStep(g.line)
    BY <1>1, <1>6, ReadLine
  <2> HIDE DEF g
  <2>2. CASE g.line \in SkippedKinds
    <3>1. loop' = loop + 1 /\ UNCHANGED <<status, call, params, current, served>>
      BY <1>6, <2>2
    <3>2. pos \notin QueryLines
      BY <2>1, <2>2 DEF LineStep, SkippedKinds, QueryKinds
    <3>3. Gap'
      BY <1>1, <2>1, <2>2, <3>1, SkipGrowsGap
    <3>4. loop' \in 0..MaxEmpty
      BY <1>2, <1>6, <3>1, RepositoryAssumption
    <3> QED BY <1>1, <2>1, <3>1, <3>2, <3>3, <3>4, NoQueryKeepsInv
  <2>3. CASE g.line \notin SkippedKinds
    <3>1. useLine(g.line)
      BY <1>6, <2>3
    <3>2. loop' = 0 /\ 0 \in 0..MaxEmpty
      BY <3>1, RepositoryAssumption DEF useLine
    <3>3. Gap'
      <4>1. pos' \in Nat /\ pos' > 0
        BY <1>2, <2>1 DEF LineStep
      <4> QED BY <3>2, <4>1, EmptyGap
    <3>4. CASE g.line \in QueryKinds
      <4>1. pos \in QueryLines /\ g.line = file[pos]
        BY <2>1, <3>4 DEF LineStep
      <4>2. serial' = Serial(file[pos])
        BY <3>1, <3>4, <4>1 DEF useLine, ParsedSerial, Serial, QueryKinds
      <4>3. deliver(RequestParam(file[pos], Serial(file[pos])))
        BY <3>1, <3>4, <4>1, <4>2 DEF useLine
      <4>4. LineStep(file[pos])
        BY <2>1, <4>1
      <4> QED BY <1>1, <3>2, <4>1, <4>3, <4>4, DeliverKeepsInv
    <3>5. CASE g.line \notin QueryKinds
      <4>1. UNCHANGED <<status, call, params, current, served>>
        BY <3>1, <3>5 DEF useLine
      <4>2. pos \notin QueryLines
        BY <2>1, <3>5 DEF LineStep
      <4> QED BY <1>1, <2>1, <3>2, <3>3, <4>1, <4>2, NoQueryKeepsInv
    <3> QED BY <3>4, <3>5
  <2> QED BY <2>2, <2>3
<1> QED BY <1>3, <1>4, <1>5, <1>6 DEF readNextRequest

\* Every step keeps the invariant.
LEMMA RepositoryStep == RInv /\ [Next]_vars => RInv'
<1> SUFFICES ASSUME RInv, [Next]_vars PROVE RInv'
  OBVIOUS
<1>1. ASSUME NEW qclass \in {"IN", "CH"}, setQueryClass(qclass) PROVE RInv'
  <2>1. ConfigOK'
    BY <1>1 DEF setQueryClass, configure, RInv, StateTyped, ConfigOK
  <2> QED BY <1>1, <2>1, ConfigureKeepsInv DEF setQueryClass
<1>2. ASSUME NEW on \in BOOLEAN, setDNSSEC(on) \/ setEDNS(on) PROVE RInv'
  <2>1. ConfigOK'
    BY <1>2 DEF setDNSSEC, setEDNS, configure, RInv, StateTyped, ConfigOK
  <2> QED BY <1>2, <2>1, ConfigureKeepsInv DEF setDNSSEC, setEDNS
<1>3. ASSUME NEW proto \in {"udp", "tcp"}, setProtocol(proto) PROVE RInv'
  <2>1. ConfigOK'
    BY <1>3 DEF setProtocol, configure, RInv, StateTyped, ConfigOK
  <2> QED BY <1>3, <2>1, ConfigureKeepsInv DEF setProtocol
<1>4. CASE UNCHANGED vars
  <2>1. /\ UNCHANGED <<file, newline, seekable, pos, eof, bad, status, call, loop,
                       serial, config, params, current, started, served>>
    BY <1>4 DEF vars, inputVars, streamVars
  <2>2. ParamsOK' /\ ServedInOrder' /\ InputOK' /\ ConfigOK'
        /\ IsSeq(params') /\ IsSeq(served')
    BY <2>1, SameRequests DEF RInv
  <2>3. StateTyped'
    BY <2>1, <2>2 DEF RInv, StateTyped
  <2>4. Gap' /\ FailureExplained' /\ Reading' /\ Loading' /\ Loaded'
    BY <2>1, SameInput
    DEF RInv, Gap, SkippedTo, FailureExplained,
        FailsForAReason, LongGap, Reading, Loading, Loaded
  <2> QED BY <2>1, <2>2, <2>3, <2>4 DEF RInv, Untouched, Configurable
<1> QED BY <1>1, <1>2, <1>3, <1>4, LoadKeepsInv, GetNextQueryKeepsInv, ReadKeepsInv
        DEF Next, Terminated

\* The invariant holds in every reachable state.
THEOREM RepositoryInvariance == Spec => []RInv
<1> QED BY RepositoryInit, RepositoryStep, PTL DEF Spec

-----------------------------------------------------------------------------
(* The theorems *)

\* The variables keep their types, and current_param_ is valid whenever the next
\* preloaded request is taken.
THEOREM RepositoryTypeCorrect == Spec => []TypeOK
<1>1. RInv => TypeOK
  BY DEF RInv, StateTyped, Loaded, TypeOK
<1> QED BY <1>1, RepositoryInvariance, PTL

\* For every input, preloaded or not and terminated or not, the k-th query served
\* is the one that the input has k-th, counted over and over, with the options of
\* its own line only.
THEOREM QueriesServedInOrder == Spec => []ServedInOrder
<1>1. RInv => ServedInOrder
  BY DEF RInv
<1> QED BY <1>1, RepositoryInvariance, PTL

\* For every input and every MAX_EMPTY_LOOP, an exception means an input without
\* queries, a gap of that many lines, or an input used up that cannot be rewound.
THEOREM FailuresHaveAReason == Spec => [](LongGap \/ FailsForAReason)
<1>1. RInv => LongGap \/ FailsForAReason
  BY DEF RInv, FailureExplained
<1> QED BY <1>1, RepositoryInvariance, PTL

=============================================================================
