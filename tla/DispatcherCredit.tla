-------------------------- MODULE DispatcherCredit --------------------------
(***************************************************************************)
(* Each query is credited at most once and by its own response, for every  *)
(* window, ID space and bound.                                             *)
(***************************************************************************)
EXTENDS DispatcherProofs, FiniteSetTheorems

-----------------------------------------------------------------------------
(* The inductive invariant *)

\* What CreditedOnce assumes.
Unambiguous == sent <= QidSpace \/ (Proto = "tcp" /\ ~collided)

\* Before the IDs wrap around, the ID of a query is its number, so no ID can be
\* met twice.
IdsAreSerials ==
    sent <= QidSpace =>
        /\ ~collided
        /\ Running =>
             /\ qid = IF sent = QidSpace THEN 0 ELSE sent
             /\ \A c \in ToSet(outstanding) : evQid[c] = serial[c]

\* The queries credited are different from those outstanding, which are
\* different from one another.
CreditsDiffer ==
    Unambiguous =>
        /\ completed = Cardinality(answered)
        /\ answered \subseteq 0..(sent - 1)
        /\ Running => \A c \in ToSet(outstanding) :
             /\ serial[c] \notin answered
             /\ \A d \in ToSet(outstanding) : serial[c] = serial[d] => c = d

\* Queries over UDP have no TCP socket.
SocketsAreTCP == tcp # {} => Proto = "tcp"

CInv == IInv /\ SocketsAreTCP /\ IdsAreSerials /\ CreditsDiffer

\* Before the first query there is nothing to credit.
LEMMA CreditInit == Init => CInv
<1> SUFFICES ASSUME Init PROVE CInv
  OBVIOUS
<1>1. IdsAreSerials
  BY DispatcherAssumption DEF Init, IdsAreSerials, Running
<1>2. Cardinality({}) = 0
  BY FS_EmptySet
<1>3. CreditsDiffer
  BY <1>2 DEF Init, CreditsDiffer, Running
<1>4. SocketsAreTCP
  BY DEF Init, SocketsAreTCP
<1> QED BY <1>1, <1>3, <1>4, InitInv DEF CInv

-----------------------------------------------------------------------------
(* Restarting a context *)

\* credit() counts the outstanding query of context c, which was not credited
\* before, or nothing.
LEMMA CreditStep ==
    ASSUME CInv, Running, Unambiguous, NEW c \in ToSet(outstanding), NEW s,
           s = NoReply \/ s = serial[c], credit(c, s)
    PROVE  /\ completed' = Cardinality(answered')
           /\ answered' \subseteq answered \cup {serial[c]}
           /\ answered' \subseteq 0..(sent - 1)
<1>1. /\ outstanding \in Seq(Contexts) /\ completed \in Nat /\ sent \in Nat
      /\ serial \in [Contexts -> 0..MaxSent] /\ MaxSent \in Nat
  BY DispatcherAssumption DEF CInv, IInv, TypeOK
<1>2. c \in Contexts
  BY <1>1 DEF ToSet
<1>3. /\ completed = Cardinality(answered)
      /\ answered \subseteq 0..(sent - 1)
      /\ serial[c] \notin answered
      /\ serial[c] < sent
  BY DEF CInv, CreditsDiffer, IInv, IdsLag, Lags
<1>4. IsFiniteSet(answered)
  <2>1. IsFiniteSet(0..(sent - 1))
    BY <1>1, FS_Interval
  <2> QED BY <1>3, <2>1, FS_Subset
<1>5. serial[c] \in Nat /\ serial[c] # NoReply
  BY <1>1, <1>2 DEF NoReply
<1>6. CASE s = NoReply
  BY <1>3, <1>5, <1>6 DEF credit
<1>7. CASE s = serial[c]
  <2>1. completed' = completed + 1 /\ answered' = answered \cup {serial[c]}
    BY <1>5, <1>7 DEF credit
  <2>2. Cardinality(answered \cup {serial[c]}) = Cardinality(answered) + 1
    BY <1>3, <1>4, FS_AddElement
  <2>3. serial[c] \in 0..(sent - 1)
    BY <1>1, <1>3, <1>5
  <2> QED BY <1>3, <2>1, <2>2, <2>3
<1> QED BY <1>6, <1>7

\* Restarting whatever the ID leads to, if that is the query the response is
\* for.
LEMMA RestartCredit ==
    ASSUME CInv, Running, NEW q, NEW s, NEW t, restartQuery(q, s, t),
           \A i \in Matching(q) :
               Unambiguous => s = NoReply \/ s = serial[outstanding[i]]
    PROVE  IdsAreSerials' /\ CreditsDiffer'
<1> USE DispatcherAssumption DEF Running
<1>1. /\ outstanding \in Seq(Contexts) /\ sent \in Nat
      /\ ToSet(outstanding) \subseteq Contexts
      /\ evQid \in [Contexts -> 0..(QidSpace - 1)]
      /\ serial \in [Contexts -> 0..MaxSent]
      /\ qid \in 0..(QidSpace - 1)
      /\ IsInjective(outstanding)
      /\ \A d \in ToSet(outstanding) : serial[d] < sent
  BY DEF CInv, IInv, TypeOK, ToSet, WindowKept, IdsLag, Lags
<1>2. CASE UNCHANGED <<phase, outstanding, evQid, qid, sent, completed, serial,
                       answered, collided>>
  BY <1>2 DEF CInv, IdsAreSerials, CreditsDiffer, Unambiguous
<1>3. ASSUME NEW i \in FirstMatching(q), restartContext(i, s, t)
      PROVE  IdsAreSerials' /\ CreditsDiffer'
  <2> DEFINE c == outstanding[i]
  <2>1. /\ i \in Matching(q) /\ i \in 1..Len(outstanding)
        /\ c \in ToSet(outstanding)
    BY <1>1 DEF FirstMatching, Matching, ToSet
  <2>2. Unambiguous => /\ completed' = Cardinality(answered')
                       /\ answered' \subseteq answered \cup {serial[c]}
                       /\ answered' \subseteq 0..(sent - 1)
    BY <1>3, <2>1, CreditStep DEF restartContext
  <2>3. CASE /\ sent' = sent + 1
             /\ qid' = NextQid(qid)
             /\ outstanding' = Splice(outstanding, i)
             /\ evQid' = [evQid EXCEPT ![c] = qid]
             /\ serial' = [serial EXCEPT ![c] = sent]
             /\ collided' = (collided \/ \E d \in ToSet(outstanding) \ {c} :
                                           evQid[d] = qid)
             /\ UNCHANGED phase
    <3>1. ToSet(outstanding') = ToSet(outstanding)
      BY <1>1, <2>1, <2>3, SpliceProperties
    <3>2. \A d \in ToSet(outstanding) :
            /\ evQid'[d] = IF d = c THEN qid ELSE evQid[d]
            /\ serial'[d] = IF d = c THEN sent ELSE serial[d]
            /\ serial[d] \in Nat
      BY <1>1, <2>1, <2>3
    <3>3. IdsAreSerials'
      <4> SUFFICES ASSUME sent + 1 <= QidSpace
                   PROVE  /\ ~collided'
                          /\ qid' = IF sent + 1 = QidSpace THEN 0 ELSE sent + 1
                          /\ \A d \in ToSet(outstanding) : evQid'[d] = serial'[d]
        BY <2>3, <3>1 DEF IdsAreSerials
      <4>1. /\ ~collided /\ qid = sent
            /\ \A d \in ToSet(outstanding) : evQid[d] = serial[d]
        BY <1>1 DEF CInv, IdsAreSerials
      <4>2. ~collided'
        <5>1. \A d \in ToSet(outstanding) : evQid[d] # qid
          BY <1>1, <4>1
        <5> QED BY <2>3, <4>1, <5>1
      <4>3. qid' = IF sent + 1 = QidSpace THEN 0 ELSE sent + 1
        BY <1>1, <2>3, <4>1 DEF NextQid
      <4> QED BY <3>2, <4>1, <4>2, <4>3
    <3>4. CreditsDiffer'
      <4> SUFFICES ASSUME Unambiguous' PROVE CreditsDiffer'
        BY DEF CreditsDiffer
      <4>1. Unambiguous
        <5>1. sent' <= QidSpace => sent <= QidSpace
          BY <1>1, <2>3
        <5>2. ~collided' => ~collided
          BY <2>3
        <5> QED BY <5>1, <5>2 DEF Unambiguous
      <4>2. \A d \in ToSet(outstanding) :
              /\ serial[d] \notin answered
              /\ \A e \in ToSet(outstanding) : serial[d] = serial[e] => d = e
        BY <4>1 DEF CInv, CreditsDiffer
      <4>3. answered' \subseteq 0..(sent' - 1)
        BY <1>1, <2>2, <2>3, <4>1
      <4>4. \A d \in ToSet(outstanding) : serial'[d] \notin answered'
        <5> SUFFICES ASSUME NEW d \in ToSet(outstanding)
                     PROVE  serial'[d] \notin answered'
          OBVIOUS
        <5>1. CASE d = c
          BY <1>1, <2>2, <3>2, <4>1, <5>1
        <5>2. CASE d # c
          BY <2>1, <2>2, <3>2, <4>1, <4>2, <5>2
        <5> QED BY <5>1, <5>2
      <4>5. \A d, e \in ToSet(outstanding) : serial'[d] = serial'[e] => d = e
        BY <1>1, <3>2, <4>2
      <4> QED BY <2>2, <3>1, <4>1, <4>3, <4>4, <4>5 DEF CreditsDiffer
    <3> QED BY <3>3, <3>4
  <2>4. CASE /\ phase' \in {"aborted", "died"}
             /\ UNCHANGED <<outstanding, sent, collided>>
    BY <2>2, <2>4 DEF CInv, IdsAreSerials, CreditsDiffer, Unambiguous
  <2>5. CASE /\ outstanding' = RemoveAt(outstanding, i)
             /\ UNCHANGED <<evQid, qid, sent, serial, collided>>
    <3>1. ToSet(outstanding') = ToSet(outstanding) \ {c}
      BY <1>1, <2>1, <2>5, RemoveAtProperties
    <3>2. IdsAreSerials'
      BY <2>5, <3>1 DEF CInv, IdsAreSerials
    <3>3. CreditsDiffer'
      BY <2>1, <2>2, <2>5, <3>1 DEF CInv, CreditsDiffer, Unambiguous
    <3> QED BY <3>2, <3>3
  <2> QED BY <1>3, <2>3, <2>4, <2>5
          DEF restartContext, sendQuery, start, eraseContext
<1> QED BY <1>2, <1>3 DEF restartQuery

-----------------------------------------------------------------------------
(* Every step keeps the invariant *)

\* run() sends the first queries under the IDs 0, 1, and so on.
LEMMA RunCredit ==
    ASSUME CInv, run
    PROVE  IdsAreSerials' /\ CreditsDiffer'
<1> USE DispatcherAssumption DEF Running
<1>1. /\ sent = 0 /\ ~collided /\ phase = "ready"
      /\ UNCHANGED <<completed, answered, collided>>
  BY DEF CInv, IInv, Pristine, run
<1>2. completed = Cardinality(answered) /\ answered = {}
  BY <1>1 DEF CInv, CreditsDiffer, Unambiguous
<1>3. CASE phase' = "died" /\ UNCHANGED sent
  BY <1>1, <1>2, <1>3 DEF IdsAreSerials, CreditsDiffer
<1>4. ASSUME NEW k \in 1..Window + 1,
             phase' = IF k <= Window THEN "died" ELSE "running",
             outstanding' = [j \in 1..Window |-> j],
             evQid' = [c \in Contexts |-> IF c <= k THEN c - 1 ELSE 0],
             serial' = [c \in Contexts |-> IF c < k THEN c - 1 ELSE 0],
             sent' = k - 1,
             qid' = IF k - 1 = QidSpace THEN 0 ELSE k - 1
      PROVE  IdsAreSerials' /\ CreditsDiffer'
  <2>1. ToSet(outstanding') = Contexts
    BY <1>4 DEF ToSet, Contexts
  <2>2. phase' = "running" =>
          \A c \in Contexts : evQid'[c] = c - 1 /\ serial'[c] = c - 1
    BY <1>4 DEF Contexts
  <2>3. IdsAreSerials'
    BY <1>1, <1>4, <2>1, <2>2 DEF IdsAreSerials
  <2>4. CreditsDiffer'
    BY <1>1, <1>2, <2>1, <2>2 DEF CreditsDiffer, Contexts
  <2> QED BY <2>3, <2>4
<1> QED BY <1>3, <1>4 DEF run

\* The invariant is inductive: one case per action of Next.
LEMMA CreditNext ==
    ASSUME CInv, [Next]_vars
    PROVE  CInv'
<1> USE DispatcherAssumption
<1>a. SocketsAreTCP'
  BY DEF CInv, SocketsAreTCP, Next, vars, run, responseCallback, receiveFails,
     responseTCPCallback, responseTCPFails, timerExpires, queryTimerCallback,
     expireDestroyed, sessionTimerCallback, runOutOfWork, Terminated,
     restartQuery, restartContext, sendQuery, eraseContext
<1>0. /\ IInv /\ IInv' /\ IdsDistinct /\ AssertionsHold
      /\ outstanding \in Seq(Contexts) /\ sent \in Nat
  BY NextInv DEF CInv, IInv, TypeOK
<1> SUFFICES IdsAreSerials' /\ CreditsDiffer'
  BY <1>0, <1>a DEF CInv
<1>1. CASE run
  BY <1>1, RunCredit
<1>2. ASSUME NEW s \in 0..(sent - 1), responseCallback(s)
      PROVE  IdsAreSerials' /\ CreditsDiffer'
  <2>1. Running /\ Proto = "udp" /\ restartQuery(QidOf(s), s, tcp)
    BY <1>2 DEF responseCallback
  <2>2. ASSUME NEW i \in Matching(QidOf(s)), Unambiguous
        PROVE  s = serial[outstanding[i]]
    <3>1. sent <= QidSpace
      BY <2>1, <2>2 DEF Unambiguous
    <3>2. QidOf(s) = s
      BY <1>0, <3>1 DEF QidOf
    <3>3. outstanding[i] \in ToSet(outstanding) /\ evQid[outstanding[i]] = s
      BY <1>0, <3>2 DEF Matching, ToSet
    <3> QED BY <2>1, <3>1, <3>3 DEF CInv, IdsAreSerials
  <2> QED BY <2>1, <2>2, RestartCredit
<1>3. ASSUME NEW c \in Contexts, NEW r \in BOOLEAN, responseTCPCallback(c, r)
      PROVE  IdsAreSerials' /\ CreditsDiffer'
  <2> DEFINE s == IF r THEN serial[c] ELSE NoReply
  <2>1. /\ Running /\ c \in tcp
        /\ restartQuery(evQid[c], s, tcp \ {c})
    BY <1>3 DEF responseTCPCallback
  <2>2. ASSUME NEW i \in Matching(evQid[c]), Unambiguous
        PROVE  outstanding[i] = c
    <3>0. Proto = "tcp"
      BY <2>1 DEF CInv, SocketsAreTCP
    <3>1. ~collided /\ Proto = "tcp"
      BY <2>2, <3>0 DEF CInv, IdsAreSerials, Unambiguous
    <3>2. c \in ToSet(outstanding)
      BY <1>0, <2>1, <3>1 DEF AssertionsHold
    <3>3. /\ outstanding[i] \in ToSet(outstanding)
          /\ evQid[outstanding[i]] = evQid[c]
      BY <1>0 DEF Matching, ToSet
    <3> QED BY <1>0, <2>1, <3>1, <3>2, <3>3 DEF IdsDistinct
  <2> HIDE DEF s
  <2>3. \A i \in Matching(evQid[c]) :
          Unambiguous => s = NoReply \/ s = serial[outstanding[i]]
    BY <2>2 DEF s
  <2> QED BY <2>1, <2>3, RestartCredit
<1>4. ASSUME NEW c \in Contexts, queryTimerCallback(c)
      PROVE  IdsAreSerials' /\ CreditsDiffer'
  BY <1>4, RestartCredit DEF queryTimerCallback
<1>5. CASE /\ \/ UNCHANGED phase
              \/ Running /\ phase' \in Ended
           /\ UNCHANGED <<outstanding, evQid, qid, sent, completed, serial,
                          answered, collided>>
  BY <1>5 DEF CInv, IdsAreSerials, CreditsDiffer, Unambiguous, Running, Ended
<1>6. ASSUME NEW c \in Contexts,
             responseTCPFails(c) \/ timerExpires(c) \/ expireDestroyed(c)
      PROVE  IdsAreSerials' /\ CreditsDiffer'
  BY <1>5, <1>6 DEF responseTCPFails, timerExpires, expireDestroyed, Ended
<1>7. CASE receiveFails \/ sessionTimerCallback \/ runOutOfWork
           \/ UNCHANGED vars
  BY <1>5, <1>7 DEF receiveFails, sessionTimerCallback, runOutOfWork, vars, Ended
<1> QED BY <1>1, <1>2, <1>3, <1>4, <1>6, <1>7 DEF Next, Terminated

-----------------------------------------------------------------------------
(* Theorem *)

\* queries_completed_ counts each query at most once, and only for the response
\* to that query, until the IDs have wrapped around; over TCP, where a response
\* cannot outlive its connection, until an ID is in use twice.
THEOREM CreditedAtMostOnce == Spec => []CreditedOnce
<1>1. Init => CInv
  BY CreditInit
<1>2. CInv /\ [Next]_vars => CInv'
  BY CreditNext
<1>3. CInv => CreditedOnce
  BY DEF CInv, CreditsDiffer, Unambiguous, CreditedOnce
<1> QED BY <1>1, <1>2, <1>3, PTL DEF Spec

=============================================================================
