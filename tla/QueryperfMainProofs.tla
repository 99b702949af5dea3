------------------------ MODULE QueryperfMainProofs ------------------------
(***************************************************************************)
(* Proofs about QueryperfMain, for every number of threads, window and     *)
(* bound.                                                                  *)
(***************************************************************************)
EXTENDS QueryperfMain, InductionLemmas, SequenceTheorems, TLAPS

-----------------------------------------------------------------------------
(* The inductive invariant *)

\* The options and the result have their types.
RecordsTyped ==
    /\ opts \in [source : {"stdin", "own", "both"},
                 threads : 0..MaxThreads, preload : BOOLEAN,
                 bad : {"none"} \cup OwnOptions \cup LateOptions]
    /\ result \in [sent : Nat, completed : Nat,
                   rates : Seq({"real", "unset"})]

\* The counters of a session: what is completed and what is outstanding are
\* different queries, and a running session has one outstanding.
CountersOK(s) ==
    /\ s \in Sessions
    /\ s.completed <= s.sent
    /\ s.phase = "ready" => s.completed = 0
    /\ s.phase = "running" => s.out > 0 /\ s.completed + s.out <= s.sent

\* A session runs only inside its thread, and the thread returns after it.
ThreadsRunSessions ==
    \A w \in Workers :
        /\ CountersOK(session[w])
        /\ thread[w] \in {"none", "failed"} => session[w].phase = "ready"
        /\ thread[w] \in {"returned", "joined"} =>
             /\ session[w].phase \in {"finished", "failed"}
             /\ session[w].phase = "finished" => ended[w]

Over == pc \in {"return", "exit", "crashed"}

\* The options that main() has looked at itself are good.
Accepted ==
    /\ opts.source # "both" /\ opts.bad \notin OwnOptions
    /\ ~(opts.threads > 1 /\ opts.source = "stdin")

\* The j-th call of the preparation finds its argument bad.
Refused(j) == Done(Setup[j]) /\ BadArgument(Setup[j])

\* The options are good, as far as main() has come.
OptionsChecked ==
    /\ ~Over => code = 0
    /\ pc = "options" =>
         next = 1 /\ step = 1 /\ \A w \in Workers : disp[w] = "none"
    /\ pc # "options" /\ code = 0 => Accepted
    /\ pc = "prepare" =>
         /\ next <= opts.threads + 1
         /\ \A w \in Workers : disp[w] = "loaded" => w < next
         /\ \A j \in 1..Len(Setup) : j < step \/ next > 1 => ~Refused(j)
    /\ pc \notin {"options", "prepare"} /\ code = 0 /\ opts.threads > 0 =>
         \A j \in 1..Len(Setup) : ~Refused(j)

\* How far the threads are.
ThreadsCreated ==
    /\ \A w \in Workers : disp[w] = "destroyed" => Over
    /\ pc \in {"options", "prepare"} => \A w \in Workers : thread[w] = "none"
    /\ pc = "create" =>
         /\ next <= opts.threads + 1
         /\ \A w \in Workers :
              thread[w] \in IF w < next THEN {"running", "returned"} ELSE {"none"}
    /\ code = 0 => \A w \in Workers : thread[w] # "failed"
    /\ pc \notin {"options", "prepare", "create"} /\ code = 0 =>
         \A w \in Workers : w > opts.threads => thread[w] = "none"

\* Whom main() has waited for, or has tried to.
ThreadsJoined ==
    /\ pc = "join" =>
         /\ next <= opts.threads + 1
         /\ \A w \in Workers : w < next => thread[w] = "joined" \/ w \in unjoined
    /\ pc = "report" => next <= opts.threads + 1
    /\ pc = "report" \/ (Over /\ code = 0) =>
         \A w \in Workers :
            w <= opts.threads => thread[w] = "joined" \/ w \in unjoined

\* Whom main() has reported about.
Reported ==
    DOMAIN result.rates =
        1..(IF pc = "report" THEN next - 1
            ELSE IF Over /\ code = 0 THEN opts.threads ELSE 0)

\* What was lost is not negative, as long as every thread could be joined.
LossIsCounted == unjoined = {} => result.completed <= result.sent

\* What StatusExplained says of the status 1.
Explained ==
    \/ ~Accepted
    \/ opts.threads > 0 /\ \E j \in 1..Len(Setup) : Refused(j)
    \/ \E w \in Workers : thread[w] = "failed"

\* main() is left early for a reason, and without threads unless one of them
\* could not be created.
LeftEarly ==
    code = 1 =>
        /\ Over /\ Explained
        /\ \/ \A w \in Workers : thread[w] = "none"
           \/ \E v \in Workers : thread[v] = "failed"

MInv ==
    /\ TypeOK
    /\ RecordsTyped
    /\ ThreadsRunSessions
    /\ OptionsChecked
    /\ ThreadsCreated
    /\ ThreadsJoined
    /\ Reported
    /\ LossIsCounted
    /\ LeftEarly
    /\ RateNeedsTimes

-----------------------------------------------------------------------------
(* The preparation of a dispatcher *)

\* Preloading is the last of the calls.
LEMMA SetupCalls ==
    /\ Len(Setup) = 9
    /\ \A j \in 1..Len(Setup) : Setup[j] = "load" => j = Len(Setup)
BY DEF Setup

\* The calls find out every bad option that main() has not looked at.
LEMMA RefusedOptions ==
    (\E j \in 1..Len(Setup) : Refused(j)) <=>
        \/ opts.bad \in {"-p", "-l", "-C", "-d"}
        \/ opts.bad = "input" /\ opts.preload
<1>1. Len(Setup) = 9
  BY SetupCalls
<1>2. ASSUME NEW j \in 1..Len(Setup), Refused(j)
      PROVE  \/ opts.bad \in {"-p", "-l", "-C", "-d"}
             \/ opts.bad = "input" /\ opts.preload
  BY <1>2 DEF Refused, Done, BadArgument
<1>3. opts.bad = "-d" => Refused(1)
  BY DEF Refused, Done, BadArgument, Setup
<1>4. opts.bad = "-p" => Refused(3)
  BY DEF Refused, Done, BadArgument, Setup
<1>5. opts.bad = "-l" => Refused(4)
  BY DEF Refused, Done, BadArgument, Setup
<1>6. opts.bad = "-C" => Refused(5)
  BY DEF Refused, Done, BadArgument, Setup
<1>7. opts.bad = "input" /\ opts.preload => Refused(9)
  BY DEF Refused, Done, BadArgument, Setup
<1>8. 1 \in 1..9 /\ 3 \in 1..9 /\ 4 \in 1..9 /\ 5 \in 1..9 /\ 9 \in 1..9
  OBVIOUS
<1> QED BY <1>1, <1>2, <1>3, <1>4, <1>5, <1>6, <1>7, <1>8

-----------------------------------------------------------------------------
(* Every step keeps the invariant *)

\* Nothing has happened when main() begins.
LEMMA InitMain == Init => MInv
<1> SUFFICES ASSUME Init PROVE MInv
  OBVIOUS
<1> USE MainAssumption DEF Init
<1>1. TypeOK
  <2>1. step \in 1..Len(Setup)
    BY SetupCalls
  <2> QED BY <2>1 DEF TypeOK, Workers, Sessions
<1>2. RecordsTyped
  <2>1. <<>> \in Seq({"real", "unset"})
    BY EmptySeq
  <2> QED BY <2>1 DEF RecordsTyped
<1>3. ThreadsRunSessions
  BY DEF ThreadsRunSessions, CountersOK, Sessions
<1>4. OptionsChecked /\ ThreadsCreated /\ ThreadsJoined /\ LeftEarly
  BY DEF OptionsChecked, ThreadsCreated, ThreadsJoined, LeftEarly, Over
<1>5. DOMAIN result.rates = {}
  OBVIOUS
<1>6. Reported /\ LossIsCounted /\ RateNeedsTimes
  BY <1>5 DEF Reported, LossIsCounted, RateNeedsTimes, Over
<1> QED BY <1>1, <1>2, <1>3, <1>4, <1>6 DEF MInv

\* main() accepts the options or is left.
LEMMA OptionsStep ==
    ASSUME MInv, options
    PROVE  MInv'
<1> USE MainAssumption
<1>1. /\ pc = "options" /\ code = 0 /\ code' \in {0, 1}
      /\ UNCHANGED <<opts, next, step, result, thread, session, ended, unjoined>>
      /\ \A w \in Workers : thread[w] = "none"
      /\ next \in 1..(MaxThreads + 1)
      /\ TypeOK /\ RecordsTyped
  BY DEF MInv, options, OptionsChecked, ThreadsCreated, Over, TypeOK, leave
<1>0. pc' \in {"prepare", "return"}
  BY DEF options, leave
<1>2. TypeOK' /\ RecordsTyped'
  BY <1>1 DEF options, leave, TypeOK, RecordsTyped
<1>3. ThreadsRunSessions'
  BY <1>1 DEF MInv, ThreadsRunSessions
<1>4. DOMAIN result.rates = {} /\ LossIsCounted
  BY <1>1 DEF MInv, Reported, LossIsCounted, Over
<1>5. CASE ~Accepted
  <2>1. pc' = "return" /\ code' = 1
    BY <1>5, <1>1 DEF options, leave, Accepted, RecordsTyped
  <2>2. OptionsChecked' /\ ThreadsCreated' /\ ThreadsJoined'
    BY <1>1, <2>1 DEF OptionsChecked, ThreadsCreated, ThreadsJoined, Over
  <2>3. Reported' /\ LossIsCounted' /\ RateNeedsTimes'
    BY <1>1, <1>4, <2>1 DEF Reported, LossIsCounted, RateNeedsTimes, Over
  <2>4. LeftEarly'
    BY <1>1, <1>5, <2>1 DEF LeftEarly, Over, Explained, Accepted
  <2> QED BY <1>2, <1>3, <2>2, <2>3, <2>4 DEF MInv
<1>6. CASE Accepted
  <2>1. pc' = "prepare" /\ code' = 0 /\ UNCHANGED disp
    BY <1>6, <1>1 DEF options, Accepted, RecordsTyped
  <2>2. OptionsChecked'
    BY <1>1, <1>6, <2>1
    DEF MInv, OptionsChecked, Over, Accepted, RecordsTyped
  <2>3. ThreadsCreated' /\ ThreadsJoined' /\ LeftEarly'
    BY <1>1, <2>1 DEF MInv, ThreadsCreated, ThreadsJoined, LeftEarly, Over
  <2>4. Reported' /\ LossIsCounted' /\ RateNeedsTimes'
    BY <1>1, <1>4, <2>1 DEF Reported, LossIsCounted, RateNeedsTimes, Over
  <2> QED BY <1>2, <1>3, <2>2, <2>3, <2>4 DEF MInv
<1> QED BY <1>5, <1>6

\* One call of the preparation succeeds, or main() is left because of a bad
\* argument: no call comes too late.
LEMMA PrepareStep ==
    ASSUME MInv, prepare
    PROVE  MInv'
<1> USE MainAssumption
<1>1. /\ pc = "prepare" /\ code = 0
      /\ UNCHANGED <<opts, result, thread, session, ended, unjoined>>
      /\ \A w \in Workers : thread[w] = "none"
      /\ next \in 1..(MaxThreads + 1) /\ next <= opts.threads
      /\ step \in 1..Len(Setup)
      /\ opts.threads \in 0..MaxThreads
      /\ TypeOK /\ RecordsTyped /\ Accepted
  BY DEF MInv, prepare, OptionsChecked, ThreadsCreated, Over, TypeOK,
         RecordsTyped
<1>2. next \in Workers /\ opts.threads > 0
  BY <1>1 DEF Workers
<1>3. ~TooLate(Setup[step])
  <2>1. session[next].phase = "ready" /\ disp[next] # "loaded"
    BY <1>1, <1>2 DEF MInv, ThreadsRunSessions, OptionsChecked
  <2> QED BY <2>1 DEF TooLate
<1>4. ThreadsRunSessions'
  BY <1>1 DEF MInv, ThreadsRunSessions
<1>5. DOMAIN result.rates = {} /\ LossIsCounted
  BY <1>1 DEF MInv, Reported, LossIsCounted, Over
<1>6. CASE Refused(step)
  <2>1. leave(1) /\ UNCHANGED <<next, step>>
    BY <1>6 DEF prepare, Refused
  <2>2. TypeOK' /\ RecordsTyped'
    BY <1>1, <2>1 DEF leave, TypeOK, RecordsTyped
  <2>3. OptionsChecked' /\ ThreadsCreated' /\ ThreadsJoined'
    BY <1>1, <2>1 DEF leave, OptionsChecked, ThreadsCreated, ThreadsJoined, Over
  <2>4. Reported' /\ LossIsCounted' /\ RateNeedsTimes'
    BY <1>1, <1>5, <2>1
    DEF leave, Reported, LossIsCounted, RateNeedsTimes, Over
  <2>5. Explained'
    BY <1>1, <1>2, <1>6 DEF Explained, Refused, Done, BadArgument
  <2>6. LeftEarly'
    BY <1>1, <2>1, <2>5 DEF leave, LeftEarly, Over
  <2> QED BY <1>4, <2>2, <2>3, <2>4, <2>6 DEF MInv
<1>7. CASE ~Refused(step)
  <2>1. /\ disp' = CASE Setup[step] = "construct" ->
                          [disp EXCEPT ![next] = "built"]
                     [] Setup[step] = "load" /\ Done(Setup[step]) ->
                          [disp EXCEPT ![next] = "loaded"]
                     [] OTHER -> disp
        /\ IF step < Len(Setup)
           THEN step' = step + 1 /\ UNCHANGED next
           ELSE step' = 1 /\ next' = next + 1
        /\ UNCHANGED <<pc, code>>
    BY <1>3, <1>7 DEF prepare, Refused
  <2>2. \/ disp' = disp
        \/ disp' = [disp EXCEPT ![next] = "built"]
        \/ disp' = [disp EXCEPT ![next] = "loaded"] /\ step = Len(Setup)
    BY <1>1, <2>1, SetupCalls
  <2>3. /\ step' \in 1..Len(Setup)
        /\ next' \in 1..(MaxThreads + 1) /\ next' <= opts.threads + 1
        /\ next <= next'
    BY <1>1, <2>1, SetupCalls
  <2>4. TypeOK' /\ RecordsTyped'
    BY <1>1, <1>2, <2>1, <2>2, <2>3 DEF TypeOK, RecordsTyped
  <2>5. \A w \in Workers : disp'[w] = "loaded" => w < next'
    <3> SUFFICES ASSUME NEW w \in Workers, disp'[w] = "loaded"
                 PROVE  w < next'
      OBVIOUS
    <3>1. disp[w] = "loaded" => w < next
      BY <1>1 DEF MInv, OptionsChecked
    <3>2. disp[w] = "loaded" \/ (w = next /\ next' = next + 1)
      BY <1>1, <1>2, <2>1, <2>2 DEF TypeOK
    <3> QED BY <1>1, <2>3, <3>1, <3>2 DEF Workers
  <2>6. \A j \in 1..Len(Setup) : j < step' \/ next' > 1 => ~Refused(j)'
    <3> SUFFICES ASSUME NEW j \in 1..Len(Setup), j < step' \/ next' > 1
                 PROVE  ~Refused(j)
      BY <1>1 DEF Refused, Done, BadArgument
    <3>1. j < step \/ next > 1 => ~Refused(j)
      BY <1>1 DEF MInv, OptionsChecked
    <3>2. j < step \/ next > 1 \/ j = step
      BY <1>1, <2>1, SetupCalls
    <3> QED BY <1>7, <3>1, <3>2
  <2>7. OptionsChecked'
    BY <1>1, <2>1, <2>3, <2>5, <2>6 DEF OptionsChecked, Over, Accepted
  <2>8. ThreadsCreated' /\ ThreadsJoined' /\ LeftEarly'
    <3>1. \A w \in Workers : disp[w] # "destroyed"
      BY <1>1 DEF MInv, ThreadsCreated, Over
    <3>2. \A w \in Workers : disp'[w] # "destroyed"
      BY <1>1, <1>2, <2>2, <3>1 DEF TypeOK
    <3> QED BY <1>1, <2>1, <3>2
            DEF ThreadsCreated, ThreadsJoined, LeftEarly, Over
  <2>9. Reported' /\ LossIsCounted' /\ RateNeedsTimes'
    BY <1>1, <1>5, <2>1 DEF Reported, LossIsCounted, RateNeedsTimes, Over
  <2> QED BY <1>4, <2>4, <2>7, <2>8, <2>9 DEF MInv
<1> QED BY <1>6, <1>7

\* A thread is created, or main() is left while those before it run.
LEMMA CreateStep ==
    ASSUME MInv, create
    PROVE  MInv'
<1> USE MainAssumption
<1>1. /\ pc = "create" /\ code = 0
      /\ UNCHANGED <<opts, step, result, session, ended, unjoined>>
      /\ next \in 1..(MaxThreads + 1) /\ next <= opts.threads
      /\ opts.threads \in 0..MaxThreads
      /\ TypeOK /\ RecordsTyped /\ Accepted
  BY DEF MInv, create, OptionsChecked, Over, TypeOK, RecordsTyped
<1>2. next \in Workers /\ thread[next] = "none" /\ opts.threads > 0
  BY <1>1 DEF Workers, MInv, ThreadsCreated
<1>3. PICK how \in {"running", "failed"} : thread' = [thread EXCEPT ![next] = how]
  BY DEF create
<1>4. \A w \in Workers : thread'[w] = IF w = next THEN how ELSE thread[w]
  BY <1>1, <1>2, <1>3 DEF TypeOK
<1>5. ThreadsRunSessions'
  BY <1>1, <1>2, <1>4 DEF MInv, ThreadsRunSessions
<1>6. DOMAIN result.rates = {} /\ LossIsCounted
  BY <1>1 DEF MInv, Reported, LossIsCounted, Over
<1>7. CASE how = "running"
  <2>1. next' = next + 1 /\ UNCHANGED <<pc, code, disp>>
    BY <1>2, <1>3, <1>4, <1>7 DEF create
  <2>2. TypeOK' /\ RecordsTyped'
    BY <1>1, <1>2, <1>3, <2>1 DEF TypeOK, RecordsTyped
  <2>3. OptionsChecked'
    BY <1>1, <2>1 DEF MInv, OptionsChecked, Over, Accepted, Refused, Done,
                      BadArgument
  <2>4. ThreadsCreated'
    <3>1. \A w \in Workers : thread'[w] \in IF w < next' THEN {"running", "returned"}
                                                         ELSE {"none"}
      BY <1>1, <1>4, <1>7, <2>1 DEF MInv, ThreadsCreated, Workers
    <3> QED BY <1>1, <2>1, <3>1 DEF MInv, ThreadsCreated, Over
  <2>5. ThreadsJoined' /\ LeftEarly'
    BY <1>1, <2>1 DEF ThreadsJoined, LeftEarly, Over
  <2>6. Reported' /\ LossIsCounted' /\ RateNeedsTimes'
    BY <1>1, <1>6, <2>1 DEF Reported, LossIsCounted, RateNeedsTimes, Over
  <2> QED BY <1>5, <2>2, <2>3, <2>4, <2>5, <2>6 DEF MInv
<1>8. CASE how = "failed"
  <2>1. leave(1) /\ UNCHANGED next
    BY <1>2, <1>3, <1>4, <1>8 DEF create
  <2>2. TypeOK' /\ RecordsTyped'
    BY <1>1, <1>2, <1>3, <2>1 DEF leave, TypeOK, RecordsTyped
  <2>3. OptionsChecked' /\ ThreadsCreated' /\ ThreadsJoined'
    BY <2>1 DEF leave, OptionsChecked, ThreadsCreated, ThreadsJoined, Over
  <2>4. LeftEarly'
    BY <1>2, <1>4, <1>8, <2>1 DEF leave, LeftEarly, Over, Explained
  <2>5. Reported' /\ LossIsCounted' /\ RateNeedsTimes'
    BY <1>1, <1>6, <2>1
    DEF leave, Reported, LossIsCounted, RateNeedsTimes, Over
  <2> QED BY <1>5, <2>2, <2>3, <2>4, <2>5 DEF MInv
<1> QED BY <1>3, <1>7, <1>8

\* main() has waited for a thread, or could not.
LEMMA JoinStep ==
    ASSUME MInv, join \/ joinFails
    PROVE  MInv'
<1> USE MainAssumption
<1>1. /\ pc = "join" /\ code = 0 /\ next' = next + 1
      /\ UNCHANGED <<opts, pc, step, result, code, disp, session, ended>>
      /\ next \in 1..(MaxThreads + 1) /\ next <= opts.threads
      /\ opts.threads \in 0..MaxThreads
      /\ TypeOK /\ RecordsTyped /\ Accepted
  BY DEF MInv, join, joinFails, OptionsChecked, Over, TypeOK, RecordsTyped
<1>2. next \in Workers
  BY <1>1 DEF Workers
<1>3. \/ /\ thread[next] = "returned"
         /\ thread' = [thread EXCEPT ![next] = "joined"]
         /\ UNCHANGED unjoined
      \/ /\ unjoined' = unjoined \cup {next}
         /\ UNCHANGED thread
  BY DEF join, joinFails
<1>4. /\ \A w \in Workers : \/ thread'[w] = thread[w]
                            \/ thread[w] = "returned" /\ thread'[w] = "joined"
      /\ unjoined \subseteq unjoined'
      /\ thread'[next] = "joined" \/ next \in unjoined'
  BY <1>1, <1>2, <1>3 DEF TypeOK
<1>5. TypeOK' /\ RecordsTyped'
  <2>1. /\ thread' \in [Workers -> {"none", "failed", "running", "returned",
                                   "joined"}]
        /\ unjoined' \subseteq Workers
    BY <1>1, <1>2, <1>3 DEF TypeOK
  <2> QED BY <1>1, <2>1 DEF TypeOK, RecordsTyped
<1>6. ThreadsRunSessions'
  BY <1>1, <1>4 DEF MInv, ThreadsRunSessions
<1>7. OptionsChecked'
  BY <1>1 DEF MInv, OptionsChecked, Over, Accepted, Refused, Done, BadArgument
<1>8. ThreadsCreated'
  BY <1>1, <1>4 DEF MInv, ThreadsCreated, Over
<1>9. ThreadsJoined'
  <2>1. \A w \in Workers : w < next' => thread'[w] = "joined" \/ w \in unjoined'
    <3> SUFFICES ASSUME NEW w \in Workers, w < next + 1
                 PROVE  thread'[w] = "joined" \/ w \in unjoined'
      BY <1>1
    <3>1. w < next \/ w = next
      BY <1>1 DEF Workers
    <3>2. w < next => thread[w] = "joined" \/ w \in unjoined
      BY <1>1 DEF MInv, ThreadsJoined
    <3> QED BY <1>4, <3>1, <3>2
  <2> QED BY <1>1, <2>1 DEF ThreadsJoined, Over
<1>10. DOMAIN result.rates = {} /\ LossIsCounted
  BY <1>1 DEF MInv, Reported, LossIsCounted, Over
<1>11. Reported' /\ LossIsCounted' /\ RateNeedsTimes' /\ LeftEarly'
  <2>1. unjoined' = {} => unjoined = {}
    BY <1>4
  <2> QED BY <1>1, <1>10, <2>1
          DEF Reported, LossIsCounted, RateNeedsTimes, LeftEarly, Over
<1> QED BY <1>5, <1>6, <1>7, <1>8, <1>9, <1>11 DEF MInv

\* What main() adds and appends for a worker: values the counters have had, and
\* the final ones if it was joined.
LEMMA ReportReads ==
    ASSUME MInv, accumulateResult
    PROVE  \E s \in 0..session[next].sent, c \in 0..session[next].completed,
              r \in {"real", "unset"} :
             /\ result' = [sent |-> result.sent + s,
                           completed |-> result.completed + c,
                           rates |-> Append(result.rates, r)]
             /\ thread[next] = "joined" =>
                  /\ s = session[next].sent /\ c = session[next].completed
                  /\ r = IF ended[next] THEN "real" ELSE "unset"
<1>1. next \in Workers
  BY MainAssumption DEF MInv, accumulateResult, RecordsTyped, TypeOK, Workers
<1>2. session[next].sent \in Nat /\ session[next].completed \in Nat
  BY <1>1 DEF MInv, ThreadsRunSessions, CountersOK, Sessions
<1>3. PICK s \in Reads(0..session[next].sent, session[next].sent),
           c \in Reads(0..session[next].completed, session[next].completed),
           known \in Reads({FALSE}, ended[next]) :
        result' = [sent |-> result.sent + s,
                   completed |-> result.completed + c,
                   rates |-> Append(result.rates,
                                    IF known THEN "real" ELSE "unset")]
  BY DEF accumulateResult
<1>4. /\ s \in 0..session[next].sent /\ c \in 0..session[next].completed
      /\ thread[next] = "joined" =>
           s = session[next].sent /\ c = session[next].completed
  BY <1>2 DEF Reads
<1>5. thread[next] = "joined" => known = ended[next]
  BY Zenon DEF Reads
<1> DEFINE r == IF known THEN "real" ELSE "unset"
<1>6. /\ r \in {"real", "unset"}
      /\ thread[next] = "joined" => r = IF ended[next] THEN "real" ELSE "unset"
  BY <1>5
<1>7. result' = [sent |-> result.sent + s, completed |-> result.completed + c,
                 rates |-> Append(result.rates, r)]
  BY <1>3
<1> HIDE DEF r
<1> QED BY <1>4, <1>6, <1>7

\* main() adds the counters of a worker to the totals.
LEMMA ReportStep ==
    ASSUME MInv, accumulateResult
    PROVE  MInv'
<1> USE MainAssumption
<1>1. /\ pc = "report" /\ code = 0 /\ next' = next + 1
      /\ UNCHANGED <<opts, pc, step, code, disp, thread, session, ended, unjoined>>
      /\ next \in 1..(MaxThreads + 1) /\ next <= opts.threads
      /\ opts.threads \in 0..MaxThreads
      /\ TypeOK /\ RecordsTyped /\ Accepted
  BY DEF MInv, accumulateResult, OptionsChecked, Over, TypeOK, RecordsTyped,
         workerVars
<1>2. next \in Workers /\ (thread[next] = "joined" \/ next \in unjoined)
  BY <1>1 DEF Workers, MInv, ThreadsJoined
<1>3. /\ session[next].sent \in Nat /\ session[next].completed \in Nat
      /\ session[next].completed <= session[next].sent
  BY <1>2 DEF MInv, ThreadsRunSessions, CountersOK, Sessions
<1>4. /\ result.sent \in Nat /\ result.completed \in Nat
      /\ result.rates \in Seq({"real", "unset"})
      /\ unjoined = {} => result.completed <= result.sent
      /\ Len(result.rates) = next - 1
      /\ DOMAIN result.rates = 1..(next - 1)
  BY <1>1 DEF MInv, RecordsTyped, Reported, LossIsCounted
<1>5. PICK s \in 0..session[next].sent, c \in 0..session[next].completed,
           r \in {"real", "unset"} :
         /\ result' = [sent |-> result.sent + s,
                       completed |-> result.completed + c,
                       rates |-> Append(result.rates, r)]
         /\ thread[next] = "joined" =>
              /\ s = session[next].sent /\ c = session[next].completed
              /\ r = IF ended[next] THEN "real" ELSE "unset"
  BY ReportReads
<1>6. /\ DOMAIN result'.rates = 1..next
      /\ \A w \in 1..next :
           result'.rates[w] = IF w = next THEN r ELSE result.rates[w]
  <2>1. result'.rates = Append(result.rates, r) /\ r \in {"real", "unset"}
    BY <1>5
  <2>2. /\ Len(result'.rates) = Len(result.rates) + 1
        /\ result'.rates \in Seq({"real", "unset"})
        /\ \A w \in 1..Len(result.rates) : result'.rates[w] = result.rates[w]
        /\ result'.rates[Len(result.rates) + 1] = r
    BY <1>4, <2>1, AppendProperties
  <2>3. Len(result'.rates) = next
    BY <1>1, <1>4, <2>2
  <2>4. DOMAIN result'.rates = 1..next
    BY <2>2, <2>3, LenProperties
  <2>5. \A w \in 1..next : w = next \/ w \in 1..Len(result.rates)
    BY <1>1, <1>4
  <2> QED BY <1>1, <1>4, <2>2, <2>4, <2>5
<1>7. TypeOK' /\ RecordsTyped'
  <2>1. Append(result.rates, r) \in Seq({"real", "unset"})
    BY <1>4, AppendProperties
  <2>2. s \in Nat /\ c \in Nat
    BY <1>3
  <2>3. /\ result'.sent \in Nat /\ result'.completed \in Nat
        /\ result' \in [sent : Nat, completed : Nat, rates : Seq({"real", "unset"})]
    BY <1>4, <1>5, <2>1, <2>2
  <2> QED BY <1>1, <2>3 DEF TypeOK, RecordsTyped
<1>8. ThreadsRunSessions' /\ ThreadsCreated' /\ ThreadsJoined' /\ LeftEarly'
  BY <1>1 DEF MInv, ThreadsRunSessions, ThreadsCreated, ThreadsJoined, LeftEarly,
              Over
<1>9. OptionsChecked'
  BY <1>1 DEF MInv, OptionsChecked, Over, Accepted, Refused, Done, BadArgument
<1>10. Reported' /\ LossIsCounted'
  <2>1. unjoined = {} => result'.completed <= result'.sent
    BY <1>2, <1>3, <1>4, <1>5
  <2>2. DOMAIN result'.rates = 1..(next' - 1)
    BY <1>1, <1>6
  <2> QED BY <1>1, <2>1, <2>2 DEF Reported, LossIsCounted
<1>11. RateNeedsTimes'
  <2> SUFFICES ASSUME NEW w \in 1..next, w \notin unjoined
               PROVE  /\ session[w].phase \in {"finished", "failed"}
                      /\ session[w].phase = "finished" => result'.rates[w] = "real"
    BY <1>1, <1>6 DEF RateNeedsTimes
  <2>1. CASE w = next
    BY <1>2, <1>5, <1>6, <2>1 DEF MInv, ThreadsRunSessions
  <2>2. CASE w # next
    <3>1. w \in DOMAIN result.rates
      BY <1>1, <1>4, <2>2
    <3> QED BY <1>6, <2>2, <3>1 DEF MInv, RateNeedsTimes
  <2> QED BY <2>1, <2>2
<1> QED BY <1>7, <1>8, <1>9, <1>10, <1>11 DEF MInv

\* A loop over the workers ends when all of them were visited.
LEMMA EndOfLoopStep ==
    ASSUME MInv, endOfLoop
    PROVE  MInv'
<1> USE MainAssumption
<1>1. /\ pc \in {"prepare", "create", "join", "report"} /\ code = 0
      /\ next > opts.threads /\ next' = 1
      /\ UNCHANGED <<opts, step, result, thread, session, ended, unjoined>>
      /\ next \in 1..(MaxThreads + 1)
      /\ opts.threads \in 0..MaxThreads
      /\ TypeOK /\ RecordsTyped /\ Accepted
  BY DEF MInv, endOfLoop, OptionsChecked, Over, TypeOK, RecordsTyped
<1>2. next <= opts.threads + 1
  BY <1>1 DEF MInv, OptionsChecked, ThreadsCreated, ThreadsJoined
<1>3. next = opts.threads + 1
  BY <1>1, <1>2
<1>4. code' = 0 /\ (pc' = "return" \/ UNCHANGED disp)
  BY <1>1 DEF endOfLoop, leave
<1>5. TypeOK' /\ RecordsTyped'
  BY <1>1 DEF endOfLoop, leave, TypeOK, RecordsTyped
<1>6. ThreadsRunSessions'
  BY <1>1 DEF MInv, ThreadsRunSessions
<1>7. LeftEarly'
  BY <1>4 DEF LeftEarly
<1>8. OptionsChecked'
  <2>1. opts.threads > 0 => \A j \in 1..Len(Setup) : ~Refused(j)
    BY <1>1, <1>3 DEF MInv, OptionsChecked
  <2>2. pc' \in {"create", "join", "report", "return"}
    BY DEF endOfLoop, leave
  <2> QED BY <1>1, <1>4, <2>1, <2>2
          DEF OptionsChecked, Accepted, Refused, Done, BadArgument
<1>9. CASE pc = "prepare" /\ pc' = "create" /\ UNCHANGED disp
  <2>1. ThreadsCreated' /\ ThreadsJoined'
    BY <1>1, <1>9 DEF MInv, ThreadsCreated, ThreadsJoined, Over, Workers
  <2>2. Reported' /\ LossIsCounted' /\ RateNeedsTimes'
    BY <1>1, <1>9 DEF MInv, Reported, LossIsCounted, RateNeedsTimes, Over
  <2> QED BY <1>5, <1>6, <1>7, <1>8, <2>1, <2>2 DEF MInv
<1>10. CASE pc = "create" /\ pc' = "join" /\ UNCHANGED disp
  <2>1. \A w \in Workers : w > opts.threads => thread[w] = "none"
    BY <1>1, <1>3, <1>10 DEF MInv, ThreadsCreated, Workers
  <2>2. ThreadsCreated' /\ ThreadsJoined'
    BY <1>1, <1>10, <2>1 DEF MInv, ThreadsCreated, ThreadsJoined, Over, Workers
  <2>3. Reported' /\ LossIsCounted' /\ RateNeedsTimes'
    BY <1>1, <1>10 DEF MInv, Reported, LossIsCounted, RateNeedsTimes, Over
  <2> QED BY <1>5, <1>6, <1>7, <1>8, <2>2, <2>3 DEF MInv
<1>11. CASE pc = "join" /\ pc' = "report" /\ UNCHANGED disp
  <2>1. \A w \in Workers :
          w <= opts.threads => thread[w] = "joined" \/ w \in unjoined
    BY <1>1, <1>3, <1>11 DEF MInv, ThreadsJoined, Workers
  <2>2. ThreadsCreated' /\ ThreadsJoined'
    BY <1>1, <1>4, <1>11, <2>1 DEF MInv, ThreadsCreated, ThreadsJoined, Over
  <2>3. Reported' /\ LossIsCounted' /\ RateNeedsTimes'
    BY <1>1, <1>11 DEF MInv, Reported, LossIsCounted, RateNeedsTimes, Over
  <2> QED BY <1>5, <1>6, <1>7, <1>8, <2>2, <2>3 DEF MInv
<1>12. CASE pc = "report" /\ leave(0)
  <2>1. ThreadsCreated' /\ ThreadsJoined'
    BY <1>1, <1>4, <1>12 DEF leave, MInv, ThreadsCreated, ThreadsJoined, Over
  <2>2. DOMAIN result.rates = 1..opts.threads
    BY <1>1, <1>3, <1>12 DEF MInv, Reported, LossIsCounted
  <2>3. Reported' /\ LossIsCounted' /\ RateNeedsTimes'
    BY <1>1, <1>12, <2>2
    DEF leave, MInv, Reported, LossIsCounted, RateNeedsTimes, Over
  <2> QED BY <1>5, <1>6, <1>7, <1>8, <2>1, <2>3 DEF MInv
<1> QED BY <1>9, <1>10, <1>11, <1>12 DEF endOfLoop

\* The process exits, or crashes on a dispatcher that is gone.
LEMMA EndStep ==
    ASSUME MInv, Over, pc' \in {"exit", "crashed"},
           UNCHANGED <<opts, next, step, result, code, workerVars>>
    PROVE  MInv'
<1> USE DEF workerVars, Over
<1>1. TypeOK' /\ RecordsTyped' /\ ThreadsRunSessions'
  BY DEF MInv, TypeOK, RecordsTyped, ThreadsRunSessions
<1>2. OptionsChecked' /\ LeftEarly'
  BY DEF MInv, OptionsChecked, LeftEarly, Explained, Accepted, Refused, Done,
         BadArgument
<1>3. ThreadsCreated' /\ ThreadsJoined'
  BY DEF MInv, ThreadsCreated, ThreadsJoined
<1>4. Reported' /\ LossIsCounted' /\ RateNeedsTimes'
  BY DEF MInv, Reported, LossIsCounted, RateNeedsTimes
<1> QED BY <1>1, <1>2, <1>3, <1>4 DEF MInv

-----------------------------------------------------------------------------
(* The steps of the threads *)

\* A worker that main() has waited for does nothing any more.
LEMMA ReportedIsQuiet ==
    ASSUME MInv, NEW w \in DOMAIN result.rates, w \notin unjoined
    PROVE  w \in Workers /\ thread[w] = "joined"
<1> USE MainAssumption
<1>1. opts.threads \in 0..MaxThreads /\ next \in Nat
  BY DEF MInv, RecordsTyped, TypeOK
<1>2. w \in 1..opts.threads /\ (pc = "report" \/ (Over /\ code = 0))
  BY <1>1 DEF MInv, Reported, LossIsCounted, ThreadsJoined
<1> QED BY <1>1, <1>2 DEF MInv, ThreadsJoined, Workers

\* A step of QuerySession keeps the counters in order.
LEMMA CountersStep ==
    ASSUME MInv, NEW w \in Workers, NEW s \in NextCounters(session[w]),
           session' = [session EXCEPT ![w] = s], Session(w)!Next
    PROVE  CountersOK(s)
<1> DEFINE o == session[w]
<1> USE MainAssumption
<1>1. o \in Sessions /\ CountersOK(o)
  BY DEF MInv, TypeOK, ThreadsRunSessions
<1>2. session'[w] = s
  BY DEF MInv, TypeOK
<1>3. /\ s.phase \in {"running", "finished", "failed"} /\ s.sending \in BOOLEAN
      /\ s.out \in {0, o.out, Window} \cup {n \in 0..Window : n + 1 = o.out}
      /\ s.sent \in o.sent..MaxSent
      /\ s.completed \in {o.completed, o.completed + 1}
      /\ s = [phase |-> s.phase, sending |-> s.sending, out |-> s.out,
              sent |-> s.sent, completed |-> s.completed]
  BY DEF NextCounters
<1>4. /\ o.out \in 0..Window /\ o.sent \in 0..MaxSent /\ o.completed \in 0..MaxSent
      /\ o.completed <= o.sent
      /\ o.phase = "ready" => o.completed = 0
      /\ o.phase = "running" => o.out > 0 /\ o.completed + o.out <= o.sent
  BY <1>1 DEF Sessions, CountersOK
<1>5. /\ s.completed <= s.sent
      /\ s.phase = "running" => s.out > 0 /\ s.completed + s.out <= s.sent
  <2>1. CASE Session(w)!Start
    BY <1>2, <1>3, <1>4, <2>1 DEF Session!Start
  <2>2. ASSUME NEW n \in {0, 1}, Session(w)!Done(n)
        PROVE  /\ s.completed <= s.sent
               /\ s.phase = "running" => s.out > 0 /\ s.completed + s.out <= s.sent
    BY <1>2, <1>3, <1>4, <2>2 DEF Session!Done
  <2>3. ASSUME NEW n \in {0, 1}, Session(w)!Fail(n)
        PROVE  /\ s.completed <= s.sent
               /\ s.phase # "running"
    BY <1>2, <1>3, <1>4, <2>3 DEF Session!Fail
  <2>4. CASE Session(w)!StopSending
    BY <1>2, <1>3, <1>4, <2>4 DEF Session!StopSending
  <2> QED BY <2>1, <2>2, <2>3, <2>4 DEF Session!Next
<1>6. s \in Sessions
  BY <1>3, <1>4, <1>5 DEF Sessions
<1> QED BY <1>3, <1>5, <1>6 DEF CountersOK

\* A session goes on.
LEMMA SessionStep ==
    ASSUME MInv, NEW w \in Workers, runSession(w)
    PROVE  MInv'
<1>1. /\ thread[w] = "running"
      /\ UNCHANGED <<opts, pc, next, step, result, code, disp, thread, ended,
                     unjoined>>
      /\ session \in [Workers -> Sessions]
  BY DEF MInv, TypeOK, runSession, Working, mainVars
<1>2. PICK s \in NextCounters(session[w]) : session' = [session EXCEPT ![w] = s]
  BY DEF runSession
<1>3. CountersOK(s)
  BY <1>2, CountersStep DEF runSession
<1>4. \A v \in Workers : session'[v] = IF v = w THEN s ELSE session[v]
  BY <1>1, <1>2
<1>5. TypeOK'
  <2>1. session' \in [Workers -> Sessions]
    BY <1>1, <1>2, <1>3 DEF CountersOK
  <2> QED BY <1>1, <2>1 DEF MInv, TypeOK
<1>6. RecordsTyped'
  BY <1>1 DEF MInv, RecordsTyped
<1>7. ThreadsRunSessions'
  BY <1>1, <1>3, <1>4 DEF MInv, ThreadsRunSessions
<1>8. OptionsChecked' /\ LeftEarly'
  BY <1>1 DEF MInv, OptionsChecked, LeftEarly, Over, Explained, Accepted,
              Refused, Done, BadArgument
<1>9. ThreadsCreated' /\ ThreadsJoined' /\ Reported' /\ LossIsCounted'
  BY <1>1
  DEF MInv, ThreadsCreated, ThreadsJoined, Reported, LossIsCounted, Over
<1>10. RateNeedsTimes'
  <2> SUFFICES ASSUME NEW v \in DOMAIN result.rates, v \notin unjoined
               PROVE  /\ session'[v].phase \in {"finished", "failed"}
                      /\ session'[v].phase = "finished" => result.rates[v] = "real"
    BY <1>1 DEF RateNeedsTimes
  <2>1. v \in Workers /\ v # w
    BY <1>1, ReportedIsQuiet
  <2> QED BY <1>4, <2>1 DEF MInv, RateNeedsTimes
<1> QED BY <1>5, <1>6, <1>7, <1>8, <1>9, <1>10 DEF MInv

\* A thread returns after its session.
LEMMA ReturnStep ==
    ASSUME MInv, NEW w \in Workers, runReturns(w)
    PROVE  MInv'
<1>1. /\ thread[w] = "running"
      /\ session[w].phase \in {"finished", "failed"}
      /\ thread' = [thread EXCEPT ![w] = "returned"]
      /\ UNCHANGED <<opts, pc, next, step, result, code, disp, session, unjoined>>
      /\ TypeOK
  BY DEF MInv, runReturns, Working, mainVars
<1>2. PICK t \in BOOLEAN : /\ session[w].phase = "finished" => t
                           /\ ended' = [ended EXCEPT ![w] = t]
  BY DEF runReturns
<1>3. \A v \in Workers : /\ thread'[v] = IF v = w THEN "returned" ELSE thread[v]
                         /\ ended'[v] = IF v = w THEN t ELSE ended[v]
  BY <1>1, <1>2 DEF TypeOK
<1>4. TypeOK' /\ RecordsTyped'
  BY <1>1, <1>2 DEF MInv, TypeOK, RecordsTyped
<1>5. ThreadsRunSessions'
  BY <1>1, <1>2, <1>3 DEF MInv, ThreadsRunSessions
<1>6. OptionsChecked'
  BY <1>1 DEF MInv, OptionsChecked, Over, Accepted, Refused, Done, BadArgument
<1>7. ThreadsCreated'
  BY <1>1, <1>3 DEF MInv, ThreadsCreated, Over
<1>8. ThreadsJoined'
  BY <1>1, <1>3 DEF MInv, ThreadsJoined, Over
<1>9. Reported' /\ LossIsCounted' /\ RateNeedsTimes'
  BY <1>1 DEF MInv, Reported, LossIsCounted, RateNeedsTimes, Over
<1>10. LeftEarly'
  BY <1>1, <1>3 DEF MInv, LeftEarly, Over, Explained, Accepted, Refused, Done,
                    BadArgument
<1> QED BY <1>4, <1>5, <1>6, <1>7, <1>8, <1>9, <1>10 DEF MInv

\* The invariant is inductive: one case per action of Next.
LEMMA NextMain ==
    ASSUME MInv, [Next]_vars
    PROVE  MInv'
<1>1. CASE options
  BY <1>1, OptionsStep
<1>2. CASE prepare
  BY <1>2, PrepareStep
<1>3. CASE create
  BY <1>3, CreateStep
<1>4. CASE join \/ joinFails
  BY <1>4, JoinStep
<1>5. CASE accumulateResult
  BY <1>5, ReportStep
<1>6. CASE endOfLoop
  BY <1>6, EndOfLoopStep
<1>7. CASE exit
  BY <1>7, EndStep DEF exit, Over
<1>8. ASSUME NEW w \in Workers, runSession(w) PROVE MInv'
  BY <1>8, SessionStep
<1>9. ASSUME NEW w \in Workers, runReturns(w) PROVE MInv'
  BY <1>9, ReturnStep
<1>10. ASSUME NEW w \in Workers, useDestroyed(w) PROVE MInv'
  <2>1. Over
    BY <1>10 DEF MInv, ThreadsCreated, useDestroyed
  <2> QED BY <1>10, <2>1, EndStep DEF useDestroyed
<1>11. CASE UNCHANGED vars
  <2> USE <1>11 DEF vars, mainVars, workerVars
  <2>1. TypeOK' /\ RecordsTyped' /\ ThreadsRunSessions'
    BY DEF MInv, TypeOK, RecordsTyped, ThreadsRunSessions
  <2>2. OptionsChecked' /\ LeftEarly'
    BY DEF MInv, OptionsChecked, LeftEarly, Over, Explained, Accepted, Refused,
           Done, BadArgument
  <2>3. ThreadsCreated' /\ ThreadsJoined'
    BY DEF MInv, ThreadsCreated, ThreadsJoined, Over
  <2>4. Reported' /\ LossIsCounted' /\ RateNeedsTimes'
    BY DEF MInv, Reported, LossIsCounted, RateNeedsTimes, Over
  <2> QED BY <2>1, <2>2, <2>3, <2>4 DEF MInv
<1> QED BY <1>1, <1>2, <1>3, <1>4, <1>5, <1>6, <1>7, <1>8, <1>9, <1>10, <1>11
        DEF Next, Main, Worker, Terminated

-----------------------------------------------------------------------------
(* Theorems *)

\* The invariant holds throughout every execution of main() and its threads.
THEOREM MainInvariance == Spec => []MInv
<1>1. Init => MInv
  BY InitMain
<1>2. MInv /\ [Next]_vars => MInv'
  BY NextMain
<1> QED BY <1>1, <1>2, PTL DEF Spec

\* The variables keep their types: in particular no loop of main() runs past the
\* threads that were asked for, and no counter past what was sent.
THEOREM MainTypeCorrect == Spec => []TypeOK
<1>1. MInv => TypeOK
  BY DEF MInv
<1> QED BY <1>1, MainInvariance, PTL

\* The exit status of main() is 1 exactly for a bad option, an input shared by
\* threads or a thread that could not be created: no configuration call of the
\* preparation is refused because of another one.
THEOREM StatusIsExplained == Spec => []StatusExplained
<1>1. MInv => StatusExplained
  <2> SUFFICES ASSUME MInv, pc \in {"return", "exit"}
               PROVE  code = 1 <=>
                        \/ ~Accepted
                        \/ /\ opts.threads > 0
                           /\ \E j \in 1..Len(Setup) : Refused(j)
                        \/ \E w \in Workers : thread[w] = "failed"
    BY RefusedOptions DEF StatusExplained, Accepted
  <2>1. code = 1 => Explained
    BY DEF MInv, LeftEarly
  <2>2. code = 0 => ~Explained
    BY DEF MInv, OptionsChecked, ThreadsCreated, Explained
  <2>3. code \in {0, 1}
    BY DEF MInv, TypeOK
  <2> QED BY <2>1, <2>2, <2>3 DEF Explained
<1> QED BY <1>1, MainInvariance, PTL

\* A thread is left without its dispatcher only when a later thread could not be
\* created or it could not be joined: main() destroys the dispatchers after
\* every pthread_join() has returned.
THEOREM DispatchersOutliveThreads == Spec => []DispatcherOutlivesThread
<1>1. MInv => DispatcherOutlivesThread
  <2> SUFFICES ASSUME MInv, NEW w \in Workers, thread[w] = "running",
                      disp[w] = "destroyed",
                      \A v \in Workers : thread[v] # "failed"
               PROVE  w \in unjoined
    BY DEF DispatcherOutlivesThread, Working
  <2>1. Over /\ code \in {0, 1}
    BY DEF MInv, TypeOK, ThreadsCreated
  <2>2. code = 0
    BY <2>1 DEF MInv, LeftEarly
  <2>3. w <= opts.threads
    BY <2>1, <2>2, MainAssumption DEF MInv, ThreadsCreated, RecordsTyped, Over,
                                      Workers
  <2> QED BY <2>1, <2>2, <2>3 DEF MInv, ThreadsJoined
<1> QED BY <1>1, MainInvariance, PTL

\* main() computes a rate from a time that was never set only for a session that
\* failed.
THEOREM RatesHaveTimes == Spec => []RateNeedsTimes
<1>1. MInv => RateNeedsTimes
  BY DEF MInv
<1> QED BY <1>1, MainInvariance, PTL

-----------------------------------------------------------------------------
(* The totals *)

\* f[n] is the sum of g[1] to g[n].
Sums(f, g) ==
    /\ f \in [0..MaxThreads -> Nat]
    /\ f[0] = 0
    /\ \A w \in Workers : f[w] = f[w - 1] + g[w]

\* The sum is the last of the partial sums, which exist.
LEMMA TotalIsSum ==
    ASSUME NEW g \in [Workers -> Nat]
    PROVE  \E f : Sums(f, g) /\ Total(g) = f[opts.threads]
<1> DEFINE n == MaxThreads
           Rec(f) == f = [i \in 0..n |-> IF i = 0 THEN 0 ELSE f[i - 1] + g[i]]
           sum == CHOOSE f : Rec(f)
           add == [i \in 1..n |-> [s \in Nat |-> s + g[i]]]
<1>1. n \in Nat /\ Workers = 1..n
  BY MainAssumption DEF Workers
<1>2. \A i \in 1..n : g[i] \in Nat
  BY <1>1
<1>3. IsStep(add, n, Nat)
  BY <1>2 DEF IsStep
<1>4. \A i \in 1..n : \A s \in Nat : add[i][s] = s + g[i]
  OBVIOUS
<1> HIDE DEF add
<1>5. PICK f : IsRecursion(f, n, Nat, 0, add)
  BY <1>1, <1>3, FiniteRecursion
<1>6. /\ f \in [0..n -> Nat] /\ f[0] = 0
      /\ \A i \in 1..n : f[i] = add[i][f[i - 1]]
  BY <1>5 DEF IsRecursion
<1>7. ASSUME NEW i \in 0..n PROVE f[i] = IF i = 0 THEN 0 ELSE f[i - 1] + g[i]
  <2>1. CASE i = 0
    BY <1>6, <2>1
  <2>2. CASE i # 0
    <3>1. i \in 1..n /\ i - 1 \in 0..n
      BY <1>1, <2>2
    <3>2. f[i - 1] \in Nat /\ f[i] = add[i][f[i - 1]]
      BY <1>6, <3>1
    <3> QED BY <1>4, <2>2, <3>1, <3>2
  <2> QED BY <2>1, <2>2
<1>8. Rec(f)
  BY <1>6, <1>7
<1>9. Rec(sum)
  <2> HIDE DEF Rec
  <2> QED BY <1>8
<1>10. Total(g) = sum[opts.threads]
  BY DEF Total
<1> HIDE DEF sum
<1>11. sum = f
  <2> DEFINE T == {i \in Nat : i \in 0..n => sum[i] = f[i]}
  <2>1. \A i \in 0..n : sum[i] = IF i = 0 THEN 0 ELSE sum[i - 1] + g[i]
    BY <1>9
  <2>2. 0 \in T
    BY <1>1, <1>6, <2>1
  <2>3. ASSUME NEW i \in Nat, i \in T PROVE i + 1 \in T
    <3> SUFFICES ASSUME i + 1 \in 0..n PROVE sum[i + 1] = f[i + 1]
      OBVIOUS
    <3>1. i \in 0..n /\ i + 1 # 0 /\ (i + 1) - 1 = i
      BY <1>1
    <3>2. sum[i] = f[i]
      BY <2>3, <3>1
    <3>3. sum[i + 1] = sum[i] + g[i + 1]
      BY <2>1, <3>1
    <3>4. f[i + 1] = f[i] + g[i + 1]
      BY <1>7, <3>1
    <3> QED BY <3>2, <3>3, <3>4
  <2> HIDE DEF T
  <2>4. Nat \subseteq T
    BY <2>2, <2>3, SetInduction
  <2>5. \A i \in 0..n : sum[i] = f[i]
    BY <1>1, <2>4 DEF T
  <2>6. DOMAIN sum = 0..n /\ sum = [i \in DOMAIN sum |-> sum[i]]
    BY <1>9
  <2> QED BY <1>6, <2>5, <2>6
<1>12. Sums(f, g)
  <2>1. \A i \in 1..n : i \in 0..n /\ i # 0
    BY <1>1
  <2> QED BY <1>1, <1>6, <1>7, <2>1 DEF Sums
<1> QED BY <1>10, <1>11, <1>12

\* Larger terms have larger sums.
LEMMA SumsMonotone ==
    ASSUME NEW f, NEW g, NEW h, NEW k, Sums(f, g), Sums(h, k),
           g \in [Workers -> Nat], k \in [Workers -> Nat],
           \A w \in Workers : g[w] <= k[w], NEW n \in 0..MaxThreads
    PROVE  f[n] <= h[n]
<1> DEFINE T == {i \in Nat : i \in 0..MaxThreads => f[i] <= h[i]}
<1>1. 0 \in T
  BY DEF Sums
<1>2. ASSUME NEW i \in Nat, i \in T PROVE i + 1 \in T
  <2> SUFFICES ASSUME i + 1 \in 0..MaxThreads PROVE f[i + 1] <= h[i + 1]
    OBVIOUS
  <2>1. i \in 0..MaxThreads /\ i + 1 \in Workers /\ (i + 1) - 1 = i
    BY MainAssumption DEF Workers
  <2>2. f[i] <= h[i] /\ f[i] \in Nat /\ h[i] \in Nat
    BY <1>2, <2>1 DEF Sums
  <2>3. f[i + 1] = f[i] + g[i + 1] /\ h[i + 1] = h[i] + k[i + 1]
    BY <2>1 DEF Sums
  <2>4. g[i + 1] <= k[i + 1] /\ g[i + 1] \in Nat /\ k[i + 1] \in Nat
    BY <2>1
  <2> QED BY <2>2, <2>3, <2>4
<1> HIDE DEF T
<1>3. Nat \subseteq T
  BY <1>1, <1>2, SetInduction
<1>4. n \in T
  BY <1>3, MainAssumption
<1> QED BY <1>4 DEF T

\* More terms have larger sums.
LEMMA SumsGrow ==
    ASSUME NEW f, NEW g, Sums(f, g), g \in [Workers -> Nat],
           NEW n \in 0..MaxThreads, NEW m \in 0..MaxThreads, n <= m
    PROVE  f[n] <= f[m]
<1> DEFINE T == {i \in Nat : n + i \in 0..MaxThreads => f[n] <= f[n + i]}
<1>1. n \in Nat /\ m - n \in Nat
  BY MainAssumption
<1>2. 0 \in T
  BY <1>1 DEF Sums
<1>3. ASSUME NEW i \in Nat, i \in T PROVE i + 1 \in T
  <2> SUFFICES ASSUME n + (i + 1) \in 0..MaxThreads PROVE f[n] <= f[n + (i + 1)]
    OBVIOUS
  <2>1. /\ n + i \in 0..MaxThreads /\ n + (i + 1) \in Workers
        /\ (n + (i + 1)) - 1 = n + i
    BY <1>1, MainAssumption DEF Workers
  <2>2. f[n] <= f[n + i] /\ f[n] \in Nat /\ f[n + i] \in Nat
    BY <1>3, <2>1 DEF Sums
  <2>3. f[n + (i + 1)] = f[n + i] + g[n + (i + 1)]
    BY <2>1 DEF Sums
  <2>4. g[n + (i + 1)] \in Nat
    BY <2>1
  <2> QED BY <2>2, <2>3, <2>4
<1> HIDE DEF T
<1>4. Nat \subseteq T
  BY <1>2, <1>3, SetInduction
<1>5. m - n \in T /\ n + (m - n) = m
  BY <1>1, <1>4
<1> QED BY <1>5 DEF T

\* The counts are numbers, and no more rates are reported than there are workers.
LEMMA CountsTyped ==
    ASSUME MInv
    PROVE  /\ SentBy \in [Workers -> Nat] /\ CompletedBy \in [Workers -> Nat]
           /\ opts.threads \in 0..MaxThreads
           /\ Len(result.rates) \in 0..opts.threads
<1>1. ASSUME NEW w \in Workers
      PROVE  session[w].sent \in Nat /\ session[w].completed \in Nat
  <2>1. session[w] \in Sessions
    BY DEF MInv, TypeOK
  <2>2. session[w].sent \in 0..MaxSent /\ session[w].completed \in 0..MaxSent
    BY <2>1 DEF Sessions
  <2> QED BY <2>2
<1>2. SentBy \in [Workers -> Nat] /\ CompletedBy \in [Workers -> Nat]
  BY <1>1 DEF SentBy, CompletedBy
<1>3. opts.threads \in 0..MaxThreads /\ next \in Nat
  BY MainAssumption DEF MInv, RecordsTyped, TypeOK
<1>4. \E n \in 0..opts.threads : DOMAIN result.rates = 1..n
  <2>1. pc = "report" => next - 1 \in 0..opts.threads
    BY <1>3, MainAssumption DEF MInv, ThreadsJoined, TypeOK
  <2> QED BY <1>3, <2>1, MainAssumption DEF MInv, Reported
<1>5. result.rates \in Seq({"real", "unset"})
  BY DEF MInv, RecordsTyped
<1>6. Len(result.rates) \in 0..opts.threads
  BY <1>3, <1>4, <1>5, LenProperties
<1> QED BY <1>2, <1>3, <1>6

\* main() has begun to report, and goes through it to the end.
Reporting == pc = "report" \/ (Over /\ code = 0)

\* What is added up so far.
TotalsAdd ==
    /\ ~Reporting => result.sent = 0 /\ result.completed = 0
    /\ Reporting /\ unjoined = {} =>
         \A f : /\ Sums(f, SentBy) => result.sent = f[Len(result.rates)]
                /\ Sums(f, CompletedBy) =>
                     result.completed = f[Len(result.rates)]

\* The counters of a dispatcher do not change any more when they are added, and
\* each is added once.
LEMMA TotalsStep ==
    ASSUME MInv, TotalsAdd, [Next]_vars
    PROVE  TotalsAdd'
<1> USE MainAssumption
<1>1. CASE accumulateResult
  <2>1. /\ pc = "report" /\ code = 0
        /\ UNCHANGED <<opts, pc, code, thread, session, unjoined>>
        /\ next \in 1..opts.threads /\ opts.threads \in 0..MaxThreads
        /\ result.rates \in Seq({"real", "unset"})
        /\ DOMAIN result.rates = 1..(next - 1)
    BY <1>1 DEF MInv, accumulateResult, OptionsChecked, Over, TypeOK,
                RecordsTyped, workerVars, Reported
  <2>2. next \in Workers /\ next - 1 \in 0..MaxThreads
    BY <2>1 DEF Workers
  <2>3. Len(result.rates) = next - 1
    BY <2>1
  <2>4. CASE unjoined # {}
    BY <2>1, <2>4 DEF TotalsAdd, Reporting
  <2>5. CASE unjoined = {}
    <3>1. thread[next] = "joined"
      BY <2>1, <2>2, <2>5 DEF MInv, ThreadsJoined
    <3>2. PICK r \in {"real", "unset"} :
            result' = [sent |-> result.sent + session[next].sent,
                       completed |-> result.completed + session[next].completed,
                       rates |-> Append(result.rates, r)]
      BY <1>1, <3>1, ReportReads
    <3>3. r \in {"real", "unset"}
      OBVIOUS
    <3>4. Len(result'.rates) = next
      BY <2>1, <2>3, <3>2, <3>3, AppendProperties
    <3>5. SentBy' = SentBy /\ CompletedBy' = CompletedBy
      BY <2>1 DEF SentBy, CompletedBy
    <3>6. /\ SentBy[next] = session[next].sent
          /\ CompletedBy[next] = session[next].completed
      BY <2>2 DEF SentBy, CompletedBy
    <3>7. ASSUME NEW f
          PROVE  /\ Sums(f, SentBy) => result'.sent = f[next]
                 /\ Sums(f, CompletedBy) => result'.completed = f[next]
      <4>1. /\ Sums(f, SentBy) => result.sent = f[next - 1]
            /\ Sums(f, CompletedBy) => result.completed = f[next - 1]
        BY <2>1, <2>3, <2>5 DEF TotalsAdd, Reporting
      <4> QED BY <2>2, <3>2, <3>6, <4>1 DEF Sums
    <3> QED BY <2>1, <3>4, <3>5, <3>7 DEF TotalsAdd, Reporting
  <2> QED BY <2>4, <2>5
<1>2. CASE endOfLoop /\ ~Reporting
  <2>1. /\ UNCHANGED <<result, session, unjoined>>
        /\ result.sent = 0 /\ result.completed = 0
        /\ DOMAIN result.rates = {}
        /\ result.rates \in Seq({"real", "unset"})
    BY <1>2 DEF endOfLoop, TotalsAdd, Reporting, MInv, Reported, RecordsTyped
  <2>2. Len(result.rates) = 0
    <3>1. Len(result.rates) \in Nat /\ DOMAIN result.rates = 1..Len(result.rates)
      BY <2>1, LenProperties
    <3>2. 1 \notin 1..Len(result.rates)
      BY <2>1, <3>1
    <3> QED BY <3>1, <3>2
  <2> QED BY <2>1, <2>2 DEF TotalsAdd, Sums
<1>3. CASE endOfLoop /\ Reporting
  <2>1. UNCHANGED <<result, session, unjoined>>
    BY <1>3 DEF endOfLoop
  <2>2. Reporting'
    BY <1>3 DEF endOfLoop, leave, Reporting, Over
  <2> QED BY <1>3, <2>1, <2>2 DEF TotalsAdd, SentBy, CompletedBy
<1>4. CASE UNCHANGED <<result, session>> /\ (Reporting' <=> Reporting)
           /\ unjoined \subseteq unjoined'
  BY <1>4 DEF TotalsAdd, SentBy, CompletedBy
<1>5. CASE options \/ prepare \/ create \/ join \/ joinFails
  <2>1. ~Reporting /\ code = 0
    BY <1>5 DEF options, prepare, create, join, joinFails, Reporting, Over, MInv,
                OptionsChecked
  <2>2. ~Reporting'
    BY <1>5, <2>1 DEF options, prepare, create, join, joinFails, leave,
                      Reporting, Over
  <2>3. UNCHANGED <<result, session>> /\ unjoined \subseteq unjoined'
    BY <1>5 DEF options, prepare, create, join, joinFails
  <2> QED BY <1>4, <2>1, <2>2, <2>3
<1>6. CASE exit \/ UNCHANGED vars
  BY <1>4, <1>6 DEF exit, vars, mainVars, workerVars, Reporting, Over
<1>7. ASSUME NEW w \in Workers, runReturns(w)
      PROVE  TotalsAdd'
  BY <1>4, <1>7 DEF runReturns, mainVars, Reporting, Over
<1>8. ASSUME NEW w \in Workers, useDestroyed(w)
      PROVE  TotalsAdd'
  <2>1. Over
    BY <1>8 DEF MInv, ThreadsCreated, useDestroyed
  <2> QED BY <1>4, <1>8, <2>1 DEF useDestroyed, workerVars, Reporting, Over
<1>9. ASSUME NEW w \in Workers, runSession(w)
      PROVE  TotalsAdd'
  <2>1. /\ thread[w] = "running"
        /\ UNCHANGED <<pc, code, result, unjoined>>
    BY <1>9 DEF runSession, Working, mainVars
  <2>2. ~(Reporting /\ unjoined = {})
    <3> SUFFICES ASSUME Reporting, unjoined = {} PROVE FALSE
      OBVIOUS
    <3>1. w > opts.threads \/ w <= opts.threads
      BY DEF MInv, RecordsTyped, Workers
    <3> QED BY <2>1, <3>1
            DEF Reporting, MInv, ThreadsCreated, ThreadsJoined, OptionsChecked,
                Over
  <2> QED BY <2>1, <2>2 DEF TotalsAdd, Reporting, Over
<1> QED BY <1>1, <1>2, <1>3, <1>5, <1>6, <1>7, <1>8, <1>9
        DEF Next, Main, Worker, Terminated

\* What is added up so far is no more than the counters are now.
TotalsBounded ==
    Reporting =>
        \A f : /\ Sums(f, SentBy) => result.sent <= f[Len(result.rates)]
               /\ Sums(f, CompletedBy) => result.completed <= f[Len(result.rates)]

\* The counters only grow, also under a thread that was not joined.
LEMMA BoundedStep ==
    ASSUME MInv, TotalsAdd, TotalsBounded, [Next]_vars
    PROVE  TotalsBounded'
<1> USE MainAssumption
<1> DEFINE n == Len(result.rates)
<1>1. CASE accumulateResult
  <2>1. /\ pc = "report"
        /\ UNCHANGED <<opts, pc, code, session>>
        /\ next \in 1..opts.threads /\ opts.threads \in 0..MaxThreads
        /\ result.rates \in Seq({"real", "unset"})
        /\ DOMAIN result.rates = 1..(next - 1)
        /\ result.sent \in Nat /\ result.completed \in Nat
    BY <1>1 DEF MInv, accumulateResult, TypeOK, RecordsTyped, workerVars, Reported
  <2>2. next \in Workers /\ next - 1 \in 0..MaxThreads
    BY <2>1 DEF Workers
  <2>3. Len(result.rates) = next - 1
    BY <2>1
  <2>4. PICK s \in 0..session[next].sent, c \in 0..session[next].completed,
             r \in {"real", "unset"} :
          result' = [sent |-> result.sent + s, completed |-> result.completed + c,
                     rates |-> Append(result.rates, r)]
    BY <1>1, ReportReads
  <2>5. Len(result'.rates) = next
    BY <2>1, <2>3, <2>4, AppendProperties
  <2>6. SentBy' = SentBy /\ CompletedBy' = CompletedBy
    BY <2>1 DEF SentBy, CompletedBy
  <2>7. /\ SentBy[next] = session[next].sent
        /\ CompletedBy[next] = session[next].completed
        /\ SentBy[next] \in Nat /\ CompletedBy[next] \in Nat
    BY <2>2, CountsTyped DEF SentBy, CompletedBy
  <2>8. ASSUME NEW f
        PROVE  /\ Sums(f, SentBy) => result'.sent <= f[next]
               /\ Sums(f, CompletedBy) => result'.completed <= f[next]
    <3>1. /\ Sums(f, SentBy) => result.sent <= f[next - 1]
          /\ Sums(f, CompletedBy) => result.completed <= f[next - 1]
      BY <2>1, <2>3 DEF TotalsBounded, Reporting
    <3>2. /\ s \in Nat /\ c \in Nat
          /\ s <= SentBy[next] /\ c <= CompletedBy[next]
          /\ result'.sent = result.sent + s
          /\ result'.completed = result.completed + c
      BY <2>4, <2>7
    <3>3. ASSUME Sums(f, SentBy) PROVE result'.sent <= f[next]
      <4>1. f[next] = f[next - 1] + SentBy[next] /\ f[next - 1] \in Nat
        BY <2>2, <3>3 DEF Sums
      <4> QED BY <2>1, <2>7, <3>1, <3>2, <3>3, <4>1
    <3>4. ASSUME Sums(f, CompletedBy) PROVE result'.completed <= f[next]
      <4>1. f[next] = f[next - 1] + CompletedBy[next] /\ f[next - 1] \in Nat
        BY <2>2, <3>4 DEF Sums
      <4> QED BY <2>1, <2>7, <3>1, <3>2, <3>4, <4>1
    <3> QED BY <3>3, <3>4
  <2> QED BY <2>1, <2>5, <2>6, <2>8 DEF TotalsBounded, Reporting
<1>2. CASE UNCHANGED <<result, session>> /\ Reporting' /\ ~Reporting
  <2>1. result.sent = 0 /\ result.completed = 0
    BY <1>2 DEF TotalsAdd
  <2>2. n \in 0..MaxThreads
    BY CountsTyped
  <2>3. ASSUME NEW f, NEW g, Sums(f, g) PROVE 0 <= f[n]
    BY <2>2, <2>3 DEF Sums
  <2> QED BY <1>2, <2>1, <2>3 DEF TotalsBounded
<1>3. CASE UNCHANGED <<result, session>> /\ (Reporting' => Reporting)
  BY <1>3 DEF TotalsBounded, SentBy, CompletedBy
<1>4. ASSUME NEW w \in Workers, runSession(w)
      PROVE  TotalsBounded'
  <2>1. UNCHANGED <<opts, pc, code, result>> /\ session \in [Workers -> Sessions]
    BY <1>4 DEF runSession, mainVars, MInv, TypeOK
  <2>2. PICK s \in NextCounters(session[w]) : session' = [session EXCEPT ![w] = s]
    BY <1>4 DEF runSession
  <2>3. /\ s.sent \in session[w].sent..MaxSent
        /\ s.completed \in {session[w].completed, session[w].completed + 1}
    BY DEF NextCounters
  <2>4. MInv'
    BY <1>4, SessionStep
  <2>5. /\ SentBy \in [Workers -> Nat] /\ CompletedBy \in [Workers -> Nat]
        /\ SentBy' \in [Workers -> Nat] /\ CompletedBy' \in [Workers -> Nat]
        /\ n \in 0..MaxThreads /\ n' = n
    <3>1. n \in 0..MaxThreads
      BY CountsTyped
    <3>2. \A v \in Workers : session'[v] \in Sessions
      BY <2>4 DEF MInv, TypeOK
    <3>3. \A v \in Workers : session'[v].sent \in Nat /\ session'[v].completed \in Nat
      BY <3>2 DEF Sessions
    <3>4. SentBy' \in [Workers -> Nat] /\ CompletedBy' \in [Workers -> Nat]
      BY <3>3 DEF SentBy, CompletedBy
    <3> QED BY <2>1, <3>1, <3>4, CountsTyped
  <2>6. \A v \in Workers : /\ SentBy[v] <= SentBy'[v]
                            /\ CompletedBy[v] <= CompletedBy'[v]
    <3> SUFFICES ASSUME NEW v \in Workers
                 PROVE  /\ session[v].sent <= session'[v].sent
                        /\ session[v].completed <= session'[v].completed
      BY DEF SentBy, CompletedBy
    <3>1. session[v].sent \in Nat /\ session[v].completed \in Nat
      BY <2>5 DEF SentBy, CompletedBy
    <3>2. session'[v] = IF v = w THEN s ELSE session[v]
      BY <2>1, <2>2
    <3> QED BY <2>3, <3>1, <3>2
  <2>7. ASSUME Reporting, NEW f, Sums(f, SentBy')
        PROVE  result.sent <= f[n]
    <3>1. PICK e : Sums(e, SentBy)
      BY <2>5, TotalIsSum
    <3>2. result.sent <= e[n]
      BY <2>7, <3>1 DEF TotalsBounded
    <3>3. e[n] <= f[n]
      BY <2>5, <2>6, <2>7, <3>1, SumsMonotone
    <3>4. e[n] \in Nat /\ f[n] \in Nat /\ result.sent \in Nat
      BY <2>5, <2>7, <3>1 DEF Sums, MInv, TypeOK
    <3> QED BY <3>2, <3>3, <3>4
  <2>8. ASSUME Reporting, NEW f, Sums(f, CompletedBy')
        PROVE  result.completed <= f[n]
    <3>1. PICK e : Sums(e, CompletedBy)
      BY <2>5, TotalIsSum
    <3>2. result.completed <= e[n]
      BY <2>8, <3>1 DEF TotalsBounded
    <3>3. e[n] <= f[n]
      BY <2>5, <2>6, <2>8, <3>1, SumsMonotone
    <3>4. e[n] \in Nat /\ f[n] \in Nat /\ result.completed \in Nat
      BY <2>5, <2>8, <3>1 DEF Sums, MInv, TypeOK
    <3> QED BY <3>2, <3>3, <3>4
  <2>9. Reporting' => Reporting
    BY <2>1 DEF Reporting, Over
  <2> QED BY <2>1, <2>5, <2>7, <2>8, <2>9 DEF TotalsBounded
<1>5. CASE options \/ prepare \/ create \/ join \/ joinFails \/ endOfLoop \/ exit
  <2>1. UNCHANGED <<result, session>>
    BY <1>5 DEF options, prepare, create, join, joinFails, endOfLoop, exit,
                workerVars
  <2> QED BY <1>2, <1>3, <2>1
<1>6. ASSUME NEW w \in Workers, runReturns(w) \/ useDestroyed(w)
      PROVE  TotalsBounded'
  <2>1. UNCHANGED <<result, session>>
    BY <1>6 DEF runReturns, useDestroyed, mainVars, workerVars
  <2> QED BY <1>2, <1>3, <2>1
<1>7. CASE UNCHANGED vars
  <2>1. UNCHANGED <<result, session>>
    BY <1>7 DEF vars, mainVars, workerVars
  <2> QED BY <1>2, <1>3, <2>1
<1> QED BY <1>1, <1>4, <1>5, <1>6, <1>7 DEF Next, Main, Worker, Terminated

\* main() never shows more queries than its dispatchers have counted, even if it
\* reads the counters of threads that it could not join and that still run; and
\* the unsigned lost_count does not wrap around if every thread was joined.
THEOREM SummarySettled == Spec => []SummaryIsSettled
<1>1. Init => TotalsAdd /\ TotalsBounded
  BY DEF Init, TotalsAdd, TotalsBounded, Reporting, Over
<1>2. MInv /\ (TotalsAdd /\ TotalsBounded) /\ [Next]_vars
        => (TotalsAdd /\ TotalsBounded)'
  BY TotalsStep, BoundedStep
<1>3. MInv /\ (TotalsAdd /\ TotalsBounded) => SummaryIsSettled
  <2> SUFFICES ASSUME MInv, TotalsAdd, TotalsBounded PROVE SummaryIsSettled
    OBVIOUS
  <2> DEFINE n == Len(result.rates)
  <2>1. /\ n \in 0..MaxThreads /\ opts.threads \in 0..MaxThreads
        /\ n <= opts.threads
        /\ result.sent \in Nat /\ result.completed \in Nat
    BY CountsTyped, MainAssumption DEF MInv, TypeOK
  <2>2. PICK f : Sums(f, SentBy) /\ Total(SentBy) = f[opts.threads]
    BY CountsTyped, TotalIsSum
  <2>3. PICK h : Sums(h, CompletedBy) /\ Total(CompletedBy) = h[opts.threads]
    BY CountsTyped, TotalIsSum
  <2>4. /\ f[n] <= f[opts.threads] /\ f[n] \in Nat /\ f[opts.threads] \in Nat
        /\ h[n] <= h[opts.threads] /\ h[n] \in Nat /\ h[opts.threads] \in Nat
    <3>1. f[n] <= f[opts.threads]
      BY <2>1, <2>2, CountsTyped, SumsGrow
    <3>2. h[n] <= h[opts.threads]
      BY <2>1, <2>3, CountsTyped, SumsGrow
    <3> QED BY <2>1, <2>2, <2>3, <3>1, <3>2 DEF Sums
  <2>5. result.sent <= f[n] /\ result.completed <= h[n]
    BY <2>2, <2>3, <2>4 DEF TotalsAdd, TotalsBounded
  <2>6. unjoined = {} => result.completed <= result.sent
    BY DEF MInv, LossIsCounted
  <2> QED BY <2>1, <2>2, <2>3, <2>4, <2>5, <2>6 DEF SummaryIsSettled
<1> QED BY <1>1, <1>2, <1>3, MainInvariance, PTL DEF Spec

\* The totals of main() are the sums of the final counters of its dispatchers,
\* when every thread was created and joined, for any number of threads: each
\* counter is added once, and after its thread has written it the last time.
THEOREM SummaryExact == Spec => []SummaryIsExact
<1>1. Init => TotalsAdd
  BY DEF Init, TotalsAdd, Reporting, Over
<1>2. MInv /\ TotalsAdd /\ [Next]_vars => TotalsAdd'
  BY TotalsStep
<1>3. MInv /\ TotalsAdd => SummaryIsExact
  <2> SUFFICES ASSUME MInv, TotalsAdd, pc \in {"return", "exit"}, code = 0,
                      unjoined = {}
               PROVE  /\ result.sent = Total(SentBy)
                      /\ result.completed = Total(CompletedBy)
    BY DEF SummaryIsExact
  <2>1. /\ DOMAIN result.rates = 1..opts.threads
        /\ opts.threads \in Nat
        /\ result.rates \in Seq({"real", "unset"})
    BY MainAssumption DEF MInv, Reported, RecordsTyped, Over
  <2>2. Len(result.rates) = opts.threads
    BY <2>1
  <2>3. \A f : /\ Sums(f, SentBy) => result.sent = f[opts.threads]
               /\ Sums(f, CompletedBy) => result.completed = f[opts.threads]
    BY <2>2 DEF TotalsAdd, Reporting, Over
  <2>4. SentBy \in [Workers -> Nat] /\ CompletedBy \in [Workers -> Nat]
    BY CountsTyped
  <2>5. PICK f : Sums(f, SentBy) /\ Total(SentBy) = f[opts.threads]
    BY <2>4, TotalIsSum
  <2>6. PICK h : Sums(h, CompletedBy) /\ Total(CompletedBy) = h[opts.threads]
    BY <2>4, TotalIsSum
  <2> QED BY <2>3, <2>5, <2>6
<1> QED BY <1>1, <1>2, <1>3, MainInvariance, PTL DEF Spec

=============================================================================
