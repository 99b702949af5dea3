-------------------------- MODULE DispatcherProofs --------------------------
(***************************************************************************)
(* Proofs about Dispatcher, for every window, ID space and bound.          *)
(***************************************************************************)
EXTENDS Dispatcher, SequenceTheorems, TLAPS

-----------------------------------------------------------------------------
(* The list operations of restartQuery *)

\* Splice only turns the list round.
LEMMA SpliceProperties ==
    ASSUME NEW S, NEW o \in Seq(S), NEW i \in 1..Len(o)
    PROVE  /\ Splice(o, i) \in Seq(S)
           /\ Len(Splice(o, i)) = Len(o)
           /\ ToSet(Splice(o, i)) = ToSet(o)
           /\ IsInjective(o) => IsInjective(Splice(o, i))
<1> DEFINE a == SubSeq(o, i, Len(o))
           b == SubSeq(o, 1, i - 1)
           r == Splice(o, i)
           n == Len(o)
<1>1. /\ a \in Seq(S) /\ Len(a) = n - i + 1
      /\ \A k \in 1..(n - i + 1) : a[k] = o[i + k - 1]
  BY SubSeqProperties
<1>2. /\ b \in Seq(S) /\ Len(b) = i - 1
      /\ \A k \in 1..(i - 1) : b[k] = o[k]
  BY SubSeqProperties
<1>3. /\ r \in Seq(S) /\ Len(r) = n
      /\ \A k \in 1..n : r[k] = IF k <= n - i + 1 THEN o[i + k - 1]
                                                   ELSE o[k - (n - i + 1)]
  BY <1>1, <1>2, ConcatProperties DEF Splice
<1>4. DOMAIN r = 1..n /\ DOMAIN o = 1..n
  BY <1>3
<1> DEFINE m == n - i + 1
           at(k) == IF k <= m THEN i + k - 1 ELSE k - m
<1>a. \A k \in 1..n : at(k) \in 1..n /\ r[k] = o[at(k)]
  BY <1>3
<1>b. \A j, k \in 1..n : at(j) = at(k) => j = k
  OBVIOUS
<1> HIDE DEF r, at
<1>5. ToSet(r) \subseteq ToSet(o)
  BY <1>a, <1>4 DEF ToSet
<1>6. ToSet(o) \subseteq ToSet(r)
  <2> SUFFICES ASSUME NEW k \in 1..n PROVE \E j \in 1..n : r[j] = o[k]
    BY <1>4 DEF ToSet
  <2>1. CASE k >= i
    <3>1. k - i + 1 \in 1..n /\ at(k - i + 1) = k
      BY <2>1 DEF at
    <3> QED BY <3>1, <1>a
  <2>2. CASE k < i
    <3>1. k + m \in 1..n /\ at(k + m) = k
      BY <2>2 DEF at
    <3> QED BY <3>1, <1>a
  <2> QED BY <2>1, <2>2
<1>7. IsInjective(o) => IsInjective(r)
  BY <1>a, <1>b, <1>4 DEF IsInjective
<1> QED BY <1>3, <1>5, <1>6, <1>7 DEF r

\* Erasing a position takes exactly its context out of the list.
LEMMA RemoveAtProperties ==
    ASSUME NEW S, NEW o \in Seq(S), NEW i \in 1..Len(o), IsInjective(o)
    PROVE  /\ RemoveAt(o, i) \in Seq(S)
           /\ Len(RemoveAt(o, i)) = Len(o) - 1
           /\ ToSet(RemoveAt(o, i)) = ToSet(o) \ {o[i]}
           /\ IsInjective(RemoveAt(o, i))
<1> DEFINE a == SubSeq(o, 1, i - 1)
           b == SubSeq(o, i + 1, Len(o))
           r == RemoveAt(o, i)
           n == Len(o)
<1>1. /\ a \in Seq(S) /\ Len(a) = i - 1
      /\ \A k \in 1..(i - 1) : a[k] = o[k]
  BY SubSeqProperties
<1>2. /\ b \in Seq(S) /\ Len(b) = n - i
      /\ \A k \in 1..(n - i) : b[k] = o[i + k]
  BY SubSeqProperties
<1>3. /\ r \in Seq(S) /\ Len(r) = n - 1
      /\ \A k \in 1..(n - 1) : r[k] = IF k < i THEN o[k] ELSE o[k + 1]
  <2>1. /\ r \in Seq(S) /\ Len(r) = n - 1
        /\ \A k \in 1..(n - 1) : r[k] = IF k < i THEN a[k] ELSE b[k - (i - 1)]
    <3>1. r = a \o b
      BY DEF RemoveAt
    <3> HIDE DEF a, b, r
    <3>2. /\ a \o b \in Seq(S)
          /\ Len(a \o b) = Len(a) + Len(b)
          /\ \A k \in 1..(Len(a) + Len(b)) :
               (a \o b)[k] = IF k <= Len(a) THEN a[k] ELSE b[k - Len(a)]
      BY <1>1, <1>2, ConcatProperties
    <3>3. Len(a) + Len(b) = n - 1 /\ n \in Nat
      BY <1>1, <1>2
    <3> QED BY <3>1, <3>2, <3>3, <1>1
  <2>2. ASSUME NEW k \in 1..(n - 1), k >= i
        PROVE  k - (i - 1) \in 1..(n - i) /\ i + (k - (i - 1)) = k + 1
    BY <2>2
  <2> HIDE DEF a, b, r
  <2> QED BY <1>1, <1>2, <2>1, <2>2
<1>4. DOMAIN r = 1..(n - 1) /\ DOMAIN o = 1..n
  BY <1>3
<1> DEFINE at(k) == IF k < i THEN k ELSE k + 1
<1>a. \A k \in 1..(n - 1) : at(k) \in 1..n /\ at(k) # i /\ r[k] = o[at(k)]
  BY <1>3
<1>b. \A j, k \in 1..(n - 1) : at(j) = at(k) => j = k
  OBVIOUS
<1> HIDE DEF r, at
<1>5. ToSet(r) \subseteq ToSet(o) \ {o[i]}
  BY <1>a, <1>4 DEF ToSet, IsInjective
<1>6. ToSet(o) \ {o[i]} \subseteq ToSet(r)
  <2> SUFFICES ASSUME NEW k \in 1..n, k # i
               PROVE  \E j \in 1..(n - 1) : r[j] = o[k]
    BY <1>4 DEF ToSet
  <2>1. CASE k < i
    BY <1>3, <2>1
  <2>2. CASE k > i
    <3>1. k - 1 \in 1..(n - 1) /\ r[k - 1] = o[k]
      BY <1>3, <2>2
    <3> QED BY <3>1
  <2> QED BY <2>1, <2>2
<1>7. IsInjective(r)
  BY <1>a, <1>b, <1>4 DEF IsInjective
<1> QED BY <1>3, <1>5, <1>6, <1>7 DEF r

-----------------------------------------------------------------------------
(* The inductive invariant *)

\* Nothing has happened before run().
Pristine ==
    phase = "ready" =>
        /\ keepSending /\ ~collided
        /\ sent = 0 /\ completed = 0
        /\ outstanding = <<>> /\ timer = {} /\ queued = {}

\* Without a collision the ID leads to one outstanding context.
IdsDistinct ==
    Running /\ ~collided =>
        \A c, d \in ToSet(outstanding) : evQid[c] = evQid[d] => c = d

\* The ID e of the k-th query lags behind the next ID q as the query lags
\* behind the number m of queries sent, up to one wrap-around, while there are
\* no more queries between them than IDs.
Lags(e, k, q, m) ==
    /\ k < m
    /\ m - k <= QidSpace => q - e = m - k \/ q - e = m - k - QidSpace

\* So do the IDs of the outstanding queries.
IdsLag ==
    Running =>
        \A c \in ToSet(outstanding) : Lags(evQid[c], serial[c], qid, sent)

IInv ==
    /\ TypeOK
    /\ Pristine
    /\ WindowKept
    /\ Accounting
    /\ IdsDistinct
    /\ IdsLag
    /\ NoAbandonedQuery
    /\ AssertionsHold
    /\ FinishedDrained

\* The initial state satisfies the invariant.
LEMMA InitInv == Init => IInv
<1> SUFFICES ASSUME Init PROVE IInv
  OBVIOUS
<1> USE DispatcherAssumption DEF Init, Contexts, Ended, Running
<1>1. TypeOK
  <2>1. outstanding \in Seq(Contexts)
    BY EmptySeq
  <2>2. /\ evQid \in [Contexts -> 0..(QidSpace - 1)]
        /\ serial \in [Contexts -> 0..MaxSent]
    OBVIOUS
  <2>3. /\ qid \in 0..(QidSpace - 1)
        /\ sent \in 0..MaxSent
        /\ completed \in Nat
    OBVIOUS
  <2>4. keepSending \in BOOLEAN /\ collided \in BOOLEAN
    OBVIOUS
  <2> QED BY <2>1, <2>2, <2>3, <2>4 DEF TypeOK
<1>2. Pristine /\ WindowKept /\ Accounting /\ IdsDistinct /\ IdsLag
  BY DEF Pristine, WindowKept, Accounting, IdsDistinct, IdsLag
<1>3. NoAbandonedQuery /\ AssertionsHold /\ FinishedDrained
  BY DEF NoAbandonedQuery, AssertionsHold, FinishedDrained
<1> QED BY <1>1, <1>2, <1>3 DEF IInv

\* So does the state in which run() enters the event loop, or has failed.
LEMMA RunInv ==
    ASSUME IInv, run
    PROVE  IInv'
<1> USE DispatcherAssumption DEF Contexts, Ended, Running
<1>0. /\ keepSending /\ ~collided /\ sent = 0 /\ completed = 0
      /\ phase = "ready" /\ TypeOK
      /\ UNCHANGED <<keepSending, queued, completed, answered, collided>>
  BY DEF IInv, Pristine, run
<1>1. CASE /\ phase' = "died"
           /\ UNCHANGED <<outstanding, evQid, timer, tcp, qid, sent, serial>>
  <2>1. TypeOK'
    BY <1>0, <1>1 DEF TypeOK
  <2>2. Pristine' /\ WindowKept' /\ Accounting' /\ IdsDistinct' /\ IdsLag'
    BY <1>0, <1>1 DEF Pristine, WindowKept, Accounting, IdsDistinct, IdsLag
  <2>3. NoAbandonedQuery' /\ AssertionsHold' /\ FinishedDrained'
    BY <1>1 DEF NoAbandonedQuery, AssertionsHold, FinishedDrained
  <2> QED BY <2>1, <2>2, <2>3 DEF IInv
<1>2. ASSUME NEW k \in 1..Window + 1,
             phase' = IF k <= Window THEN "died" ELSE "running",
             outstanding' = [j \in 1..Window |-> j],
             timer' = {c \in Contexts : c <= k},
             evQid' = [c \in Contexts |-> IF c <= k THEN c - 1 ELSE 0],
             serial' = [c \in Contexts |-> IF c < k THEN c - 1 ELSE 0],
             tcp' = {c \in Contexts : Proto = "tcp" /\ c < k},
             sent' = k - 1,
             qid' = IF k - 1 = QidSpace THEN 0 ELSE k - 1
      PROVE  IInv'
  <2>1. /\ outstanding' \in Seq(Contexts)
        /\ Len(outstanding') = Window
        /\ ToSet(outstanding') = Contexts
        /\ IsInjective(outstanding')
        /\ outstanding' # <<>>
    BY <1>2 DEF ToSet, IsInjective
  <2>2. TypeOK'
    BY <1>0, <1>2, <2>1 DEF TypeOK
  <2>3. Pristine' /\ WindowKept' /\ Accounting' /\ FinishedDrained'
    BY <1>0, <1>2, <2>1 DEF Pristine, WindowKept, Accounting, FinishedDrained
  <2>4. IdsDistinct' /\ IdsLag'
    <3> SUFFICES ASSUME phase' = "running" PROVE IdsDistinct' /\ IdsLag'
      BY DEF IdsDistinct, IdsLag
    <3>1. \A c \in Contexts : evQid'[c] = c - 1 /\ serial'[c] = c - 1
      BY <1>2
    <3>2. /\ sent' = Window
          /\ qid' = Window \/ (Window = QidSpace /\ qid' = 0)
      BY <1>2
    <3>3. IdsDistinct'
      BY <3>1, <2>1 DEF IdsDistinct
    <3>4. IdsLag'
      BY <3>1, <3>2, <2>1 DEF IdsLag, Lags
    <3> QED BY <3>3, <3>4
  <2>5. NoAbandonedQuery' /\ AssertionsHold'
    <3>1. phase' = "running" => timer' = Contexts
      BY <1>2
    <3>2. phase' = "running" /\ Proto = "tcp" => tcp' = Contexts
      BY <1>2
    <3>3. phase' # "aborted"
      BY <1>2
    <3> QED BY <2>1, <3>1, <3>2, <3>3 DEF NoAbandonedQuery, AssertionsHold
  <2> QED BY <2>2, <2>3, <2>4, <2>5 DEF IInv
<1> QED BY <1>1, <1>2 DEF run

-----------------------------------------------------------------------------
(* Arithmetic on the counters *)

\* A counter that advances by at most one.
LEMMA CounterStep ==
    ASSUME NEW n \in Nat, NEW n1, n1 = n \/ n1 = n + 1
    PROVE  n1 \in Nat /\ n <= n1 /\ n1 <= n + 1
OBVIOUS

\* One more completed, one more sent, w > 0 outstanding.
LEMMA CountersStep ==
    ASSUME NEW n \in Nat, NEW n1 \in Nat, NEW m \in Nat, NEW w \in Nat \ {0},
           n1 <= n + 1, n + w <= m
    PROVE  /\ n1 <= m /\ n1 <= m + 1
           /\ n1 + w <= m + 1 /\ n1 + (w - 1) <= m
OBVIOUS

\* The next query keeps an ID lagging, and its own ID lags by one.
LEMMA LagStep ==
    ASSUME NEW e \in 0..(QidSpace - 1), NEW q \in 0..(QidSpace - 1),
           NEW k \in Nat, NEW m \in Nat
    PROVE  /\ Lags(e, k, q, m) => Lags(e, k, NextQid(q), m + 1)
           /\ Lags(q, m, NextQid(q), m + 1)
BY DispatcherAssumption DEF Lags, NextQid

-----------------------------------------------------------------------------
(* Restarting a context *)

\* What a handler has done when it calls restartQuery(q, _, t): only contexts
\* with ID q have had their expiry handler run or their TCP socket cleared,
\* and those have no TCP socket left.
Released(q, t) ==
    /\ t \subseteq tcp
    /\ queued' \subseteq queued
    /\ keepSending' = keepSending
    /\ ~collided =>
         \A c \in queued \ queued' : c \in ToSet(outstanding) /\ evQid[c] = q
    /\ ~collided /\ Proto = "tcp" =>
         /\ \A c \in tcp \ t : c \in ToSet(outstanding) /\ evQid[c] = q
         /\ \A c \in ToSet(outstanding) : evQid[c] = q => c \notin t

\* credit() counts at most one query.
LEMMA CreditProperties ==
    ASSUME TypeOK, NEW c \in Contexts, NEW s, credit(c, s)
    PROVE  /\ completed' \in Nat
           /\ completed <= completed' /\ completed' <= completed + 1
           /\ answered' \subseteq 0..MaxSent
<1>1. completed' = completed \/ completed' = completed + 1
  BY DEF credit
<1>2. serial[c] \in 0..MaxSent /\ answered \subseteq 0..MaxSent
  BY DEF TypeOK
<1>3. answered' = answered \/ answered' = answered \cup {serial[c]}
  BY DEF credit
<1>4. completed \in Nat
  BY DEF TypeOK
<1> QED BY <1>1, <1>2, <1>3, <1>4, CounterStep

\* Sending the next query for the context at position i.
LEMMA SendInv ==
    ASSUME IInv, Running, keepSending, NEW i \in 1..Len(outstanding),
           NEW s, NEW t, Released(evQid[outstanding[i]], t),
           credit(outstanding[i], s), sendQuery(i, t)
    PROVE  IInv'
<1> DEFINE c == outstanding[i]
           o == outstanding'
<1> USE DispatcherAssumption DEF Ended, Running
<1>1. /\ TypeOK /\ WindowKept /\ Accounting /\ IdsDistinct /\ IdsLag
      /\ NoAbandonedQuery /\ AssertionsHold
  BY DEF IInv
<1>2. /\ c \in Contexts /\ c \in ToSet(outstanding)
      /\ ToSet(outstanding) \subseteq Contexts
      /\ outstanding \in Seq(Contexts)
      /\ IsInjective(outstanding)
      /\ Len(outstanding) = Window
  <2>1. outstanding \in Seq(Contexts)
    BY <1>1 DEF TypeOK
  <2>2. /\ IsInjective(outstanding)
        /\ Len(outstanding) = Window
    BY <1>1 DEF WindowKept
  <2>3. DOMAIN outstanding = 1..Len(outstanding)
    BY <2>1
  <2> QED BY <2>1, <2>2, <2>3 DEF ToSet
<1>3. /\ completed' \in Nat /\ completed' <= completed + 1
      /\ answered' \subseteq 0..MaxSent
  BY <1>1, <1>2, CreditProperties
<1>4. /\ evQid' = [evQid EXCEPT ![c] = qid]
      /\ timer' = timer \cup {c}
      /\ sent < MaxSent
  BY DEF sendQuery, start
<1>5. /\ evQid' \in [Contexts -> 0..(QidSpace - 1)]
      /\ timer' \subseteq Contexts
      /\ queued' \subseteq Contexts
      /\ t \subseteq Contexts
      /\ keepSending' \in BOOLEAN
      /\ keepSending'
  BY <1>1, <1>2, <1>4 DEF TypeOK, Released
<1>6. CASE /\ Proto = "tcp" => c \notin t
           /\ tcp' = IF Proto = "tcp" THEN t \cup {c} ELSE t
           /\ sent' = sent + 1
           /\ qid' = NextQid(qid)
           /\ outstanding' = Splice(outstanding, i)
           /\ serial' = [serial EXCEPT ![c] = sent]
           /\ collided' = (collided \/ \E d \in ToSet(outstanding) \ {c} :
                                         evQid[d] = qid)
           /\ UNCHANGED phase
  <2>1. /\ o \in Seq(Contexts)
        /\ Len(o) = Window
        /\ ToSet(o) = ToSet(outstanding)
        /\ IsInjective(o)
    BY <1>2, <1>6, SpliceProperties
  <2>2. /\ qid' \in 0..(QidSpace - 1)
        /\ sent' \in 0..MaxSent
        /\ serial' \in [Contexts -> 0..MaxSent]
        /\ tcp' \subseteq Contexts
    BY <1>1, <1>2, <1>4, <1>5, <1>6 DEF TypeOK, NextQid
  <2>3. collided' \in BOOLEAN
    BY <1>1, <1>6 DEF TypeOK
  <2>4. TypeOK'
    BY <1>3, <1>5, <1>6, <2>1, <2>2, <2>3 DEF TypeOK
  <2>5. Pristine' /\ WindowKept' /\ FinishedDrained'
    BY <1>6, <2>1 DEF Pristine, WindowKept, FinishedDrained
  <2>6. Accounting'
    <3>1. completed + Window <= sent /\ sent \in Nat /\ completed \in Nat
      BY <1>1, <1>2 DEF Accounting, TypeOK
    <3>0. sent' = sent + 1 /\ Window \in Nat
      BY <1>6
    <3>2. completed' <= sent + 1 /\ completed' + Window <= sent + 1
      BY <1>3, <3>1, CountersStep
    <3> QED BY <1>3, <3>0, <2>1, <3>2 DEF Accounting
  <2>7. IdsDistinct'
    <3> SUFFICES ASSUME ~collided', NEW x \in ToSet(outstanding),
                        NEW y \in ToSet(outstanding), evQid'[x] = evQid'[y]
                 PROVE  x = y
      BY <2>1 DEF IdsDistinct
    <3>1. ~collided /\ \A d \in ToSet(outstanding) \ {c} : evQid[d] # qid
      BY <1>6
    <3>2. \A d \in ToSet(outstanding) : evQid'[d] = IF d = c THEN qid ELSE evQid[d]
      BY <1>1, <1>2, <1>4 DEF TypeOK
    <3> QED BY <1>1, <3>1, <3>2 DEF IdsDistinct
  <2>8. IdsLag'
    <3> SUFFICES ASSUME NEW d \in ToSet(outstanding)
                 PROVE  Lags(evQid'[d], serial'[d], qid', sent')
      BY <2>1 DEF IdsLag
    <3>1. /\ qid \in 0..(QidSpace - 1) /\ evQid[d] \in 0..(QidSpace - 1)
          /\ sent \in Nat /\ serial[d] \in Nat
          /\ d \in Contexts
      BY <1>1, <1>2 DEF TypeOK
    <3>2. CASE d = c
      <4>1. evQid'[d] = qid /\ serial'[d] = sent
        BY <1>1, <1>2, <1>4, <1>6, <3>2 DEF TypeOK
      <4> QED BY <1>6, <3>1, <4>1, LagStep
    <3>3. CASE d # c
      <4>1. evQid'[d] = evQid[d] /\ serial'[d] = serial[d]
        BY <1>1, <1>2, <1>4, <1>6, <3>3 DEF TypeOK
      <4>2. Lags(evQid[d], serial[d], qid, sent)
        BY <1>1 DEF IdsLag
      <4> QED BY <1>6, <3>1, <4>1, <4>2, LagStep
    <3> QED BY <3>2, <3>3
  <2>9. NoAbandonedQuery'
    <3> SUFFICES ASSUME ~collided', NEW d \in ToSet(outstanding)
                 PROVE  d \in timer' \cup queued'
      BY <2>1 DEF NoAbandonedQuery
    <3>1. ~collided
      BY <1>6
    <3>2. d \in timer \cup queued
      BY <1>1, <3>1 DEF NoAbandonedQuery
    <3>3. d \in queued \ queued' => d = c
      BY <1>1, <1>2, <3>1 DEF Released, IdsDistinct
    <3> QED BY <1>4, <3>2, <3>3
  <2>10. AssertionsHold'
    <3> SUFFICES ASSUME ~collided', Proto = "tcp"
                 PROVE  tcp' = ToSet(outstanding)
      BY <1>6, <2>1 DEF AssertionsHold
    <3>1. ~collided /\ tcp = ToSet(outstanding)
      BY <1>1, <1>6 DEF AssertionsHold
    <3>2. tcp' = t \cup {c} /\ t \subseteq tcp
      BY <1>6 DEF Released
    <3>3. \A d \in tcp \ t : d = c
      BY <1>1, <1>2, <3>1 DEF Released, IdsDistinct
    <3> QED BY <1>2, <3>1, <3>2, <3>3
  <2> QED BY <2>4, <2>5, <2>6, <2>7, <2>8, <2>9, <2>10 DEF IInv
<1>7. CASE /\ phase' = "died" \/ (phase' = "aborted" /\ Proto = "tcp" /\ c \in t)
           /\ tcp' = t
           /\ UNCHANGED <<outstanding, qid, sent, serial, collided>>
  <2>1. TypeOK'
    BY <1>1, <1>3, <1>5, <1>7 DEF TypeOK
  <2>2. Pristine' /\ WindowKept' /\ IdsDistinct' /\ IdsLag'
    BY <1>7 DEF Pristine, WindowKept, IdsDistinct, IdsLag
  <2>3. NoAbandonedQuery' /\ FinishedDrained'
    BY <1>7 DEF NoAbandonedQuery, FinishedDrained
  <2>4. Accounting'
    BY <1>1, <1>2, <1>3, <1>7 DEF Accounting, TypeOK
  <2>5. AssertionsHold'
    BY <1>2, <1>7 DEF AssertionsHold, Released
  <2> QED BY <2>1, <2>2, <2>3, <2>4, <2>5 DEF IInv
<1> QED BY <1>6, <1>7 DEF sendQuery

\* Erasing the context at position i while the session is drained.
LEMMA EraseInv ==
    ASSUME IInv, Running, ~keepSending, NEW i \in 1..Len(outstanding),
           NEW s, NEW t, Released(evQid[outstanding[i]], t),
           credit(outstanding[i], s), eraseContext(i, t)
    PROVE  IInv'
<1> DEFINE c == outstanding[i]
           o == outstanding'
<1> USE DispatcherAssumption DEF Ended, Running
<1>1. /\ TypeOK /\ WindowKept /\ Accounting /\ IdsDistinct /\ IdsLag
      /\ NoAbandonedQuery /\ AssertionsHold
  BY DEF IInv
<1>2. /\ c \in Contexts /\ c \in ToSet(outstanding)
      /\ outstanding \in Seq(Contexts)
      /\ IsInjective(outstanding)
  <2>1. outstanding \in Seq(Contexts) /\ IsInjective(outstanding)
    BY <1>1 DEF TypeOK, WindowKept
  <2>2. DOMAIN outstanding = 1..Len(outstanding)
    BY <2>1
  <2> QED BY <2>1, <2>2 DEF ToSet
<1>3. /\ completed' \in Nat /\ completed' <= completed + 1
      /\ answered' \subseteq 0..MaxSent
  BY <1>1, <1>2, CreditProperties
<1>4. /\ phase' = IF o = <<>> THEN "finished" ELSE phase
      /\ timer' = timer \ {c}
      /\ tcp' = t \ {c}
      /\ UNCHANGED <<evQid, qid, sent, serial, collided>>
  BY DEF eraseContext
<1>5. /\ o \in Seq(Contexts)
      /\ Len(o) = Len(outstanding) - 1
      /\ ToSet(o) = ToSet(outstanding) \ {c}
      /\ IsInjective(o)
  <2>1. o = RemoveAt(outstanding, i)
    BY DEF eraseContext
  <2> QED BY <1>2, <2>1, RemoveAtProperties
<1>6. ~keepSending' /\ keepSending' \in BOOLEAN
  BY <1>1 DEF Released, TypeOK
<1>7. TypeOK'
  BY <1>1, <1>3, <1>4, <1>5, <1>6 DEF TypeOK, Released
<1>8. Pristine' /\ WindowKept' /\ FinishedDrained'
  BY <1>4, <1>5, <1>6 DEF Pristine, WindowKept, FinishedDrained
<1>9. Accounting'
  <2>1. /\ Len(outstanding) \in Nat \ {0} /\ Len(o) = Len(outstanding) - 1
        /\ completed + Len(outstanding) <= sent
        /\ sent \in Nat /\ completed \in Nat /\ sent' = sent
    BY <1>1, <1>2, <1>4, <1>5 DEF Accounting, TypeOK
  <2>2. completed' <= sent /\ completed' + (Len(outstanding) - 1) <= sent
    BY <1>3, <2>1, CountersStep
  <2> QED BY <2>1, <2>2 DEF Accounting
<1>10. IdsDistinct' /\ IdsLag'
  BY <1>1, <1>4, <1>5 DEF IdsDistinct, IdsLag
<1>11. NoAbandonedQuery'
  <2> SUFFICES ASSUME ~collided', NEW d \in ToSet(outstanding), d # c
               PROVE  d \in timer' \cup queued'
    BY <1>5 DEF NoAbandonedQuery
  <2>1. ~collided /\ d \in timer \cup queued
    BY <1>1, <1>4 DEF NoAbandonedQuery
  <2>2. d \in queued \ queued' => d = c
    BY <1>1, <1>2, <2>1 DEF Released, IdsDistinct
  <2> QED BY <1>4, <2>1, <2>2
<1>12. AssertionsHold'
  <2> SUFFICES ASSUME ~collided', Proto = "tcp"
               PROVE  tcp' = ToSet(outstanding) \ {c}
    BY <1>4, <1>5 DEF AssertionsHold
  <2>1. ~collided /\ tcp = ToSet(outstanding) /\ t \subseteq tcp
    BY <1>1, <1>4 DEF AssertionsHold, Released
  <2>2. \A d \in tcp \ t : d = c
    BY <1>1, <1>2, <2>1 DEF Released, IdsDistinct
  <2> QED BY <1>4, <2>1, <2>2
<1> QED BY <1>7, <1>8, <1>9, <1>10, <1>11, <1>12 DEF IInv

\* Restarting whatever the ID leads to.
LEMMA RestartInv ==
    ASSUME IInv, Running, NEW q, NEW s, NEW t, Released(q, t),
           restartQuery(q, s, t)
    PROVE  IInv'
<1> USE DispatcherAssumption DEF Ended, Running
<1>1. TypeOK /\ NoAbandonedQuery /\ AssertionsHold
  BY DEF IInv
<1>2. CASE /\ Matching(q) = {}
           /\ tcp' = t
           /\ UNCHANGED <<phase, outstanding, evQid, timer, qid, sent,
                          completed, serial, answered, collided>>
  <2>1. \A c \in ToSet(outstanding) : evQid[c] # q
    <3> SUFFICES ASSUME NEW j \in DOMAIN outstanding, evQid[outstanding[j]] = q
                 PROVE  FALSE
      BY DEF ToSet
    <3>1. j \in 1..Len(outstanding)
      BY <1>1 DEF TypeOK
    <3> QED BY <1>2, <3>1 DEF Matching
  <2>2. TypeOK' /\ FinishedDrained'
    BY <1>1, <1>2 DEF TypeOK, Released, FinishedDrained
  <2>3. Pristine' /\ WindowKept' /\ Accounting' /\ IdsDistinct' /\ IdsLag'
    BY <1>2 DEF IInv, Released, Pristine, WindowKept, Accounting, IdsDistinct,
                IdsLag
  <2>4. NoAbandonedQuery' /\ AssertionsHold'
    BY <1>1, <1>2, <2>1 DEF Released, NoAbandonedQuery, AssertionsHold
  <2> QED BY <2>2, <2>3, <2>4 DEF IInv
<1>3. ASSUME NEW i \in FirstMatching(q), restartContext(i, s, t)
      PROVE  IInv'
  <2>1. i \in 1..Len(outstanding) /\ evQid[outstanding[i]] = q
    BY DEF FirstMatching, Matching
  <2>2. credit(outstanding[i], s)
    BY <1>3 DEF restartContext
  <2>3. CASE keepSending
    BY <1>3, <2>1, <2>2, <2>3, SendInv DEF restartContext
  <2>4. CASE ~keepSending
    BY <1>3, <2>1, <2>2, <2>4, EraseInv DEF restartContext
  <2> QED BY <2>3, <2>4
<1> QED BY <1>2, <1>3 DEF restartQuery

-----------------------------------------------------------------------------
(* Every step keeps the invariant *)

\* A failing or dying handler leaves lists and counters alone.
LEMMA FailureInv ==
    ASSUME IInv, Running, phase' \in {"died", "crashed"},
           tcp' \subseteq tcp, queued' \subseteq queued,
           UNCHANGED <<keepSending, outstanding, evQid, timer, qid, sent,
                       completed, serial, answered, collided>>
    PROVE  IInv'
<1>1. TypeOK'
  BY DEF IInv, TypeOK, Ended
<1>2. Pristine' /\ WindowKept' /\ Accounting' /\ IdsDistinct' /\ IdsLag'
  BY DEF IInv, Running, Pristine, WindowKept, Accounting, IdsDistinct, IdsLag
<1>3. NoAbandonedQuery' /\ AssertionsHold' /\ FinishedDrained'
  BY DEF Running, NoAbandonedQuery, AssertionsHold, FinishedDrained
<1> QED BY <1>1, <1>2, <1>3 DEF IInv

\* The invariant is inductive: one case per action of Next.
LEMMA NextInv ==
    ASSUME IInv, [Next]_vars
    PROVE  IInv'
<1>0. TypeOK /\ IdsDistinct /\ AssertionsHold /\ NoAbandonedQuery /\ WindowKept
  BY DEF IInv
<1>1. CASE run
  BY <1>1, RunInv
<1>2. ASSUME NEW s \in 0..(sent - 1), responseCallback(s)
      PROVE  IInv'
  <2>1. Running /\ Released(QidOf(s), tcp) /\ restartQuery(QidOf(s), s, tcp)
    BY <1>2 DEF responseCallback, Released
  <2> QED BY <2>1, RestartInv
<1>3. CASE receiveFails
  BY <1>3, FailureInv DEF receiveFails
<1>4. ASSUME NEW c \in Contexts, NEW r \in BOOLEAN, responseTCPCallback(c, r)
      PROVE  IInv'
  <2>1. Running /\ c \in tcp /\ UNCHANGED <<keepSending, queued>>
    BY <1>4 DEF responseTCPCallback
  <2>2. Released(evQid[c], tcp \ {c})
    BY <1>0, <2>1 DEF Released, IdsDistinct, AssertionsHold
  <2> QED BY <1>4, <2>1, <2>2, RestartInv DEF responseTCPCallback
<1>5. ASSUME NEW c \in Contexts, responseTCPFails(c)
      PROVE  IInv'
  BY <1>5, FailureInv DEF responseTCPFails
<1>6. ASSUME NEW c \in Contexts, timerExpires(c)
      PROVE  IInv'
  <2> USE <1>6 DEF timerExpires
  <2>1. TypeOK'
    BY <1>0 DEF TypeOK
  <2>2. Pristine' /\ WindowKept' /\ Accounting' /\ IdsDistinct' /\ IdsLag'
    BY DEF IInv, Running, Pristine, WindowKept, Accounting, IdsDistinct, IdsLag
  <2>3. NoAbandonedQuery' /\ AssertionsHold' /\ FinishedDrained'
    BY <1>0 DEF Running, NoAbandonedQuery, AssertionsHold, FinishedDrained
  <2> QED BY <2>1, <2>2, <2>3 DEF IInv
<1>7. ASSUME NEW c \in Contexts, queryTimerCallback(c)
      PROVE  IInv'
  <2>1. /\ Running /\ c \in ToSet(outstanding)
        /\ queued' = queued \ {c} /\ keepSending' = keepSending
    BY <1>7 DEF queryTimerCallback
  <2>2. Released(evQid[c], tcp \ {c})
    BY <1>0, <2>1 DEF Released, IdsDistinct
  <2> QED BY <1>7, <2>1, <2>2, RestartInv DEF queryTimerCallback
<1>8. ASSUME NEW c \in Contexts, expireDestroyed(c)
      PROVE  IInv'
  BY <1>8, FailureInv DEF expireDestroyed
<1>9. CASE sessionTimerCallback
  <2> USE <1>9 DEF sessionTimerCallback
  <2>1. TypeOK'
    BY <1>0 DEF TypeOK
  <2>2. Pristine' /\ WindowKept' /\ Accounting' /\ IdsDistinct' /\ IdsLag'
    BY DEF IInv, Running, Pristine, WindowKept, Accounting, IdsDistinct, IdsLag
  <2>3. NoAbandonedQuery' /\ AssertionsHold' /\ FinishedDrained'
    BY <1>0 DEF Running, NoAbandonedQuery, AssertionsHold, FinishedDrained
  <2> QED BY <2>1, <2>2, <2>3 DEF IInv
<1>10. CASE runOutOfWork
  <2> USE <1>10 DEF runOutOfWork
  <2>1. TypeOK'
    BY <1>0 DEF TypeOK, Ended
  <2>2. Pristine' /\ WindowKept' /\ Accounting' /\ IdsDistinct' /\ IdsLag'
    BY DEF IInv, Running, Pristine, WindowKept, Accounting, IdsDistinct, IdsLag
  <2>3. ASSUME ~collided PROVE FALSE
    <3>1. ToSet(outstanding) = {}
      BY <1>0, <2>3 DEF NoAbandonedQuery
    <3>2. outstanding \in Seq(Contexts) /\ outstanding # <<>>
      BY <1>0 DEF TypeOK, WindowKept
    <3>3. 1 \in DOMAIN outstanding
      BY <3>2
    <3> QED BY <3>1, <3>3 DEF ToSet
  <2>4. NoAbandonedQuery' /\ AssertionsHold' /\ FinishedDrained'
    BY <2>3 DEF Running, NoAbandonedQuery, AssertionsHold, FinishedDrained
  <2> QED BY <2>1, <2>2, <2>4 DEF IInv
<1>11. CASE UNCHANGED vars
  <2> USE <1>11 DEF vars
  <2>1. TypeOK' /\ Pristine' /\ WindowKept' /\ Accounting'
    BY DEF IInv, TypeOK, Running, Pristine, WindowKept, Accounting
  <2>2. IdsDistinct' /\ IdsLag' /\ NoAbandonedQuery' /\ AssertionsHold'
    BY DEF IInv, Running, IdsDistinct, IdsLag, NoAbandonedQuery, AssertionsHold
  <2>3. FinishedDrained'
    BY DEF IInv, FinishedDrained
  <2> QED BY <2>1, <2>2, <2>3 DEF IInv
<1> QED
  BY <1>1, <1>2, <1>3, <1>4, <1>5, <1>6, <1>7, <1>8, <1>9, <1>10, <1>11
  DEF Next, Terminated

-----------------------------------------------------------------------------
(* Theorems *)

\* The invariant holds throughout every session.
THEOREM Invariance == Spec => []IInv
<1>1. Init => IInv
  BY InitInv
<1>2. IInv /\ [Next]_vars => IInv'
  BY NextInv
<1> QED BY <1>1, <1>2, PTL DEF Spec

\* The variables keep their types: qid_ wraps around at the end of the ID space
\* (++qid_ in sendQuery).
THEOREM TypeCorrect == Spec => []TypeOK
<1>1. IInv => TypeOK
  BY DEF IInv
<1> QED BY <1>1, Invariance, PTL

\* Splicing and erasing in restartQuery neither loses nor duplicates a context,
\* for every window, so the window is full until the session timer fires.
THEOREM WindowIsKept == Spec => []WindowKept
<1>1. IInv => WindowKept
  BY DEF IInv
<1> QED BY <1>1, Invariance, PTL

\* The counters that main() subtracts never cross, whatever arrives and whoever
\* it is credited to.
THEOREM CountersAgree == Spec => []Accounting
<1>1. IInv => Accounting
  BY DEF IInv
<1> QED BY <1>1, Invariance, PTL

\* Without two outstanding queries under one ID, no query is left without the
\* timer that start() armed for it.
THEOREM NoneAbandoned == Spec => []NoAbandonedQuery
<1>1. IInv => NoAbandonedQuery
  BY DEF IInv
<1> QED BY <1>1, Invariance, PTL

\* ... the assertion of setTCPSocket() holds,
THEOREM AssertionsAreSafe == Spec => []AssertionsHold
<1>1. IInv => AssertionsHold
  BY DEF IInv
<1> QED BY <1>1, Invariance, PTL

\* ... and run() returns only after the last context is gone.
THEOREM FinishedIsDrained == Spec => []FinishedDrained
<1>1. IInv => FinishedDrained
  BY DEF IInv
<1> QED BY <1>1, Invariance, PTL

\* sendQuery takes an ID that is in use only when a query has been outstanding
\* for as many queries as there are IDs.
THEOREM CollisionsAreOld == Spec => CollisionNeedsOldQuery
<1> DEFINE Old(c) == /\ evQid[c] = qid /\ serial'[c] = serial[c]
                     /\ sent - serial[c] >= QidSpace
           A == collided' /\ ~collided => \E c \in ToSet(outstanding) : Old(c)
<1>1. ASSUME IInv, [Next]_vars PROVE [A]_vars
  <2> SUFFICES ASSUME collided', ~collided
               PROVE  \E c \in ToSet(outstanding) : Old(c)
    OBVIOUS
  <2>1. PICK i \in 1..Len(outstanding) : Running /\ \E t : sendQuery(i, t)
    BY <1>1 DEF Next, run, responseCallback, receiveFails, responseTCPCallback,
       responseTCPFails, timerExpires, queryTimerCallback, expireDestroyed,
       sessionTimerCallback, runOutOfWork, Terminated, restartQuery,
       restartContext, eraseContext, FirstMatching, Matching, vars
  <2>2. PICK d \in ToSet(outstanding) : /\ evQid[d] = qid
                                        /\ d # outstanding[i]
                                        /\ serial' = [serial EXCEPT
                                                        ![outstanding[i]] = sent]
    BY <2>1 DEF sendQuery
  <2>3. /\ d \in Contexts /\ serial[d] \in Nat /\ sent \in Nat
        /\ qid \in 0..(QidSpace - 1)
    BY <1>1, <2>2 DEF IInv, TypeOK, ToSet
  <2>4. Lags(qid, serial[d], qid, sent)
    BY <1>1, <2>1, <2>2 DEF IInv, IdsLag
  <2>5. sent - serial[d] >= QidSpace
    BY <2>3, <2>4, DispatcherAssumption DEF Lags
  <2>6. serial'[d] = serial[d]
    BY <1>1, <2>2, <2>3 DEF IInv, TypeOK
  <2> QED BY <2>2, <2>5, <2>6
<1> QED BY <1>1, Invariance, PTL DEF Spec, CollisionNeedsOldQuery

=============================================================================
