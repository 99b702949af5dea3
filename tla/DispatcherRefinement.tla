------------------------ MODULE DispatcherRefinement ------------------------
(***************************************************************************)
(* Dispatcher implements QuerySession and uses its timers as MessageTimer  *)
(* allows, for every window, ID space and bound.                           *)
(***************************************************************************)
EXTENDS DispatcherProofs

-----------------------------------------------------------------------------
(* The session as its caller sees it *)

\* A session that ends otherwise than by its last context is a failed one.
LEMMA FailIsSessionStep ==
    ASSUME IInv, Running, phase' \in Ended,
           phase' = "finished" => outstanding' # <<>>,
           completed' = completed \/ completed' = completed + 1,
           UNCHANGED <<keepSending, sent>>
    PROVE  Session!Next
<1>1. PICK n \in {0, 1} : completed' = completed + n
  BY DEF IInv, TypeOK
<1>2. Session!Fail(n)
  BY <1>1 DEF Session!Fail, Running, Ended
<1> QED BY <1>1, <1>2 DEF Session!Next

\* A query that is answered or given up is replaced while the session timer
\* runs, and taken out of the list afterwards.
LEMMA RestartIsSessionStep ==
    ASSUME IInv, Running, NEW q, NEW s, NEW t, restartQuery(q, s, t),
           UNCHANGED keepSending
    PROVE  [Session!Next]_(Session!vars)
<1> USE DEF Running
<1>1. CASE Matching(q) = {} /\ UNCHANGED <<phase, outstanding, sent, completed>>
  BY <1>1 DEF Session!vars
<1>2. ASSUME NEW i \in FirstMatching(q), restartContext(i, s, t)
      PROVE  Session!Next
  <2>1. /\ i \in 1..Len(outstanding) /\ outstanding \in Seq(Contexts)
        /\ IsInjective(outstanding) /\ Len(outstanding) \in Nat \ {0}
        /\ completed \in Nat
    BY DEF FirstMatching, Matching, IInv, TypeOK, WindowKept
  <2>2. PICK n \in {0, 1} : completed' = completed + n
    BY <1>2, <2>1 DEF restartContext, credit
  <2>3. CASE /\ keepSending
             /\ sent' = sent + 1
             /\ outstanding' = Splice(outstanding, i)
             /\ UNCHANGED phase
    <3>1. Len(outstanding') = Len(outstanding)
      BY <2>1, <2>3, SpliceProperties
    <3>2. Session!Done(n)
      BY <2>1, <2>2, <2>3, <3>1 DEF Session!Done
    <3> QED BY <3>2 DEF Session!Next
  <2>4. CASE /\ keepSending
             /\ phase' \in {"aborted", "died"}
             /\ UNCHANGED <<outstanding, sent>>
    <3>1. phase' \in Ended /\ phase' # "finished"
      BY <2>4 DEF Ended
    <3> QED BY <2>1, <2>2, <2>4, <3>1, FailIsSessionStep
  <2>5. CASE /\ ~keepSending
             /\ outstanding' = RemoveAt(outstanding, i)
             /\ phase' = IF outstanding' = <<>> THEN "finished" ELSE phase
             /\ UNCHANGED sent
    <3>1. /\ Len(outstanding') = Len(outstanding) - 1
          /\ outstanding' \in Seq(Contexts)
      BY <2>1, <2>5, RemoveAtProperties
    <3>2. outstanding' = <<>> <=> Len(outstanding) - 1 = 0
      BY <3>1, EmptySeq
    <3>3. Session!Done(n)
      BY <2>1, <2>2, <2>5, <3>1, <3>2 DEF Session!Done
    <3> QED BY <3>3 DEF Session!Next
  <2> QED BY <1>2, <2>3, <2>4, <2>5
          DEF restartContext, sendQuery, eraseContext
<1> QED BY <1>1, <1>2 DEF restartQuery

\* Every step of the dispatcher is a step of QuerySession or does not show in
\* its counters: one case per action of Next.
LEMMA NextIsSessionStep ==
    ASSUME IInv, [Next]_vars
    PROVE  [Session!Next]_(Session!vars)
<1> USE DEF Running
<1>1. CASE run
  <2> USE DispatcherAssumption
  <2>1. CASE phase' = "died" /\ UNCHANGED <<outstanding, sent>>
    <3>1. Session!Start
      BY <1>1, <2>1 DEF run, IInv, Pristine, Session!Start
    <3> QED BY <3>1 DEF Session!Next
  <2>2. ASSUME NEW k \in 1..Window + 1,
               phase' = IF k <= Window THEN "died" ELSE "running",
               outstanding' = [i \in 1..Window |-> i],
               sent' = k - 1
        PROVE  Session!Start
    <3>1. Len(outstanding') = Window
      BY <2>2
    <3> QED BY <1>1, <2>2, <3>1 DEF run, Session!Start
  <2> QED BY <1>1, <2>1, <2>2 DEF run, Session!Next
<1>2. ASSUME NEW s \in 0..(sent - 1), responseCallback(s)
      PROVE  [Session!Next]_(Session!vars)
  BY <1>2, RestartIsSessionStep DEF responseCallback
<1>3. CASE receiveFails
  BY <1>3, FailIsSessionStep DEF receiveFails, Ended
<1>4. ASSUME NEW c \in Contexts, NEW r \in BOOLEAN, responseTCPCallback(c, r)
      PROVE  [Session!Next]_(Session!vars)
  BY <1>4, RestartIsSessionStep DEF responseTCPCallback
<1>5. ASSUME NEW c \in Contexts, responseTCPFails(c)
      PROVE  [Session!Next]_(Session!vars)
  BY <1>5, FailIsSessionStep DEF responseTCPFails, Ended
<1>6. ASSUME NEW c \in Contexts, timerExpires(c)
      PROVE  [Session!Next]_(Session!vars)
  BY <1>6 DEF timerExpires, Session!vars
<1>7. ASSUME NEW c \in Contexts, queryTimerCallback(c)
      PROVE  [Session!Next]_(Session!vars)
  BY <1>7, RestartIsSessionStep DEF queryTimerCallback
<1>8. ASSUME NEW c \in Contexts, expireDestroyed(c)
      PROVE  [Session!Next]_(Session!vars)
  BY <1>8, FailIsSessionStep DEF expireDestroyed, Ended
<1>9. CASE sessionTimerCallback
  BY <1>9 DEF sessionTimerCallback, Session!Next, Session!StopSending
<1>10. CASE runOutOfWork
  BY <1>10, FailIsSessionStep DEF runOutOfWork, Ended, IInv, WindowKept
<1>11. CASE UNCHANGED vars
  BY <1>11 DEF vars, Session!vars
<1> QED
  BY <1>1, <1>2, <1>3, <1>4, <1>5, <1>6, <1>7, <1>8, <1>9, <1>10, <1>11
  DEF Next, Terminated

\* Dispatcher::run() is a session of QuerySession: whatever comes late, twice or
\* never and whichever step throws, to its caller the window is kept full, then
\* drained one by one, and the counters advance as the queries do.
THEOREM RefinesQuerySession == Spec => IsQuerySession
<1>1. Init => Session!Init
  BY DEF Init, Session!Init, Running
<1>2. IInv /\ [Next]_vars => [Session!Next]_(Session!vars)
  BY NextIsSessionStep
<1> QED BY <1>1, <1>2, Invariance, PTL DEF Spec, IsQuerySession, Session!Spec

-----------------------------------------------------------------------------
(* The timers of the session *)

\* The handlers use only the timer of the context they restart, and only while
\* it is in the list.
LEMMA RestartUsesTimers ==
    ASSUME IInv, Running, NEW q, NEW s, NEW t, restartQuery(q, s, t),
           NEW c \in Contexts
    PROVE  \/ /\ c \in ToSet(outstanding) <=> c \in ToSet(outstanding')
              /\ c \in timer <=> c \in timer'
           \/ /\ c \in ToSet(outstanding)
              /\ \/ c \in ToSet(outstanding')
                 \/ c \notin ToSet(outstanding') /\ c \notin timer'
<1>1. CASE Matching(q) = {} /\ UNCHANGED <<outstanding, timer>>
  BY <1>1
<1>2. ASSUME NEW i \in FirstMatching(q), restartContext(i, s, t)
      PROVE  /\ c # outstanding[i] =>
                   /\ c \in ToSet(outstanding) <=> c \in ToSet(outstanding')
                   /\ c \in timer <=> c \in timer'
             /\ c = outstanding[i] =>
                   /\ c \in ToSet(outstanding)
                   /\ \/ c \in ToSet(outstanding')
                      \/ c \notin ToSet(outstanding') /\ c \notin timer'
  <2>1. /\ i \in 1..Len(outstanding) /\ outstanding \in Seq(Contexts)
        /\ IsInjective(outstanding)
    BY DEF FirstMatching, Matching, IInv, TypeOK, WindowKept
  <2>2. outstanding[i] \in ToSet(outstanding)
    BY <2>1 DEF ToSet
  <2>3. CASE /\ timer' = timer \cup {outstanding[i]}
             /\ \/ outstanding' = Splice(outstanding, i)
                \/ UNCHANGED outstanding
    <3>1. ToSet(outstanding') = ToSet(outstanding)
      BY <2>1, <2>3, SpliceProperties
    <3> QED BY <2>2, <2>3, <3>1
  <2>4. CASE /\ timer' = timer \ {outstanding[i]}
             /\ outstanding' = RemoveAt(outstanding, i)
    <3>1. ToSet(outstanding') = ToSet(outstanding) \ {outstanding[i]}
      BY <2>1, <2>4, RemoveAtProperties
    <3> QED BY <2>2, <2>4, <3>1
  <2> QED BY <1>2, <2>3, <2>4
          DEF restartContext, sendQuery, start, eraseContext
<1> QED BY <1>1, <1>2 DEF restartQuery

\* Every step is one that MessageTimer allows to each timer: one case per action
\* of Next.
LEMMA NextUsesTimers ==
    ASSUME IInv, [Next]_vars, NEW c \in Contexts
    PROVE  [Timer(c)!Next]_(Timer(c)!vars)
<1> USE DEF Timer!Next, Timer!vars, Timer!Use, Timer!Create, Timer!Expire,
            Timer!Handle
<1>0. ToSet(<<>>) = {}
  BY DEF ToSet
<1>1. CASE run
  <2>1. /\ c \notin ToSet(outstanding) /\ c \notin queued /\ c \notin timer
        /\ UNCHANGED queued
    BY <1>0, <1>1 DEF run, IInv, Pristine
  <2>2. \/ UNCHANGED <<outstanding, timer>>
        \/ outstanding' = [i \in 1..Window |-> i]
    BY <1>1 DEF run
  <2>3. \/ UNCHANGED <<outstanding, timer>>
        \/ c \in ToSet(outstanding')
    BY <2>2, DispatcherAssumption DEF ToSet, Contexts
  <2> QED BY <2>1, <2>3
<1>2. ASSUME NEW s \in 0..(sent - 1), responseCallback(s)
      PROVE  [Timer(c)!Next]_(Timer(c)!vars)
  BY <1>2, RestartUsesTimers DEF responseCallback
<1>3. CASE receiveFails
  BY <1>3 DEF receiveFails
<1>4. ASSUME NEW d \in Contexts, NEW r \in BOOLEAN, responseTCPCallback(d, r)
      PROVE  [Timer(c)!Next]_(Timer(c)!vars)
  BY <1>4, RestartUsesTimers DEF responseTCPCallback
<1>5. ASSUME NEW d \in Contexts, responseTCPFails(d)
      PROVE  [Timer(c)!Next]_(Timer(c)!vars)
  BY <1>5 DEF responseTCPFails
<1>6. ASSUME NEW d \in Contexts, timerExpires(d)
      PROVE  [Timer(c)!Next]_(Timer(c)!vars)
  BY <1>6 DEF timerExpires
<1>7. ASSUME NEW d \in Contexts, queryTimerCallback(d)
      PROVE  [Timer(c)!Next]_(Timer(c)!vars)
  BY <1>7, RestartUsesTimers DEF queryTimerCallback
<1>8. ASSUME NEW d \in Contexts, expireDestroyed(d)
      PROVE  [Timer(c)!Next]_(Timer(c)!vars)
  BY <1>8 DEF expireDestroyed
<1>9. CASE sessionTimerCallback \/ runOutOfWork \/ UNCHANGED vars
  BY <1>9 DEF sessionTimerCallback, runOutOfWork, vars
<1> QED
  BY <1>1, <1>2, <1>3, <1>4, <1>5, <1>6, <1>7, <1>8, <1>9 DEF Next, Terminated

\* The session never asks more of a timer than MessageTimer gives: each is made
\* once, started, restarted and destroyed only by the context that owns it, and
\* no step takes back an expiry handler that is queued.
THEOREM TimersAreUsedAsAllowed == Spec => UsesTimers
<1> DEFINE A == \A c \in Contexts : [Timer(c)!Next]_(Timer(c)!vars)
<1>1. Init => \A c \in Contexts : Timer(c)!Init
  BY DEF Init, Timer!Init, ToSet
<1>2. IInv /\ [Next]_vars => [A]_vars
  BY NextUsesTimers
<1> QED BY <1>1, <1>2, Invariance, PTL DEF Spec, UsesTimers

=============================================================================
