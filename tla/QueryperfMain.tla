--------------------------- MODULE QueryperfMain ---------------------------
(***************************************************************************)
(* The program of bin/queryperfpp/queryperfpp.cc: main() reads its         *)
(* options, prepares one dispatcher for each worker, starts the threads,   *)
(* joins them and adds up their counters, while each thread is in          *)
(* Dispatcher::run().  What a thread does to the counters of its           *)
(* dispatcher are the steps of QuerySession, which Dispatcher implements.  *)
(***************************************************************************)
EXTENDS Naturals, Sequences

CONSTANTS
    MaxThreads,     \* bound: number of threads asked for
    Window,         \* window_ of every dispatcher
    MaxSent,        \* bound: queries of a session
    Faults          \* subset of {"create", "join"}

ASSUME MainAssumption ==
    /\ MaxThreads \in Nat
    /\ Window \in Nat \ {0} /\ MaxSent \in Nat /\ Window <= MaxSent
    /\ Faults \subseteq {"create", "join"}

VARIABLES
    opts,       \* the command line
    pc,         \* where main() is
    next, step, \* the worker and the call its loop is at
    disp,       \* dispatchers: "none", "built", "loaded" or "destroyed"
    thread,     \* "none", "failed", "running", "returned" or "joined"
    session,    \* what the dispatchers count
    ended,      \* end_time_ is set
    unjoined,   \* workers whose pthread_join() failed
    result,     \* QueryStatistics; a rate is "real", or "unset" when it is
                \* computed without the end time
    code        \* exit status

mainVars == <<opts, pc, next, step, result, code>>
workerVars == <<disp, thread, session, ended, unjoined>>
vars == <<mainVars, workerVars>>

Workers == 1..MaxThreads

\* The option whose argument is bad: those main() looks at by itself, and those
\* the preparation of a dispatcher finds out.  "input" is an input without a
\* query.
OwnOptions == {"-h", "-D", "-e", "-P", "-n"}
LateOptions == {"-p", "-l", "-C", "-d", "input"}

Sessions ==
    [phase : {"ready", "running", "finished", "failed"}, sending : BOOLEAN,
     out : 0..Window, sent : 0..MaxSent, completed : 0..MaxSent]

Session(w) == INSTANCE QuerySession WITH
    phase <- session[w].phase, sending <- session[w].sending,
    out <- session[w].out, sent <- session[w].sent,
    completed <- session[w].completed

\* The source of the queries: the standard input, which all dispatchers share;
\* "own", a stream of each dispatcher on the file of -d or the string of -Q; or
\* "both" when -d and -Q are given.
Init ==
    /\ opts \in [source : {"stdin", "own", "both"},
                 threads : 0..MaxThreads, preload : BOOLEAN,
                 bad : {"none"} \cup OwnOptions \cup LateOptions]
    /\ opts.bad = "-d" => opts.source = "own"
    /\ pc = "options" /\ next = 1 /\ step = 1
    /\ disp = [w \in Workers |-> "none"]
    /\ thread = [w \in Workers |-> "none"]
    /\ session = [w \in Workers |->
          [phase |-> "ready", sending |-> TRUE, out |-> 0, sent |-> 0,
           completed |-> 0]]
    /\ ended = [w \in Workers |-> FALSE]
    /\ unjoined = {}
    /\ result = [sent |-> 0, completed |-> 0, rates |-> <<>>]
    /\ code = 0

-----------------------------------------------------------------------------
(* main() *)

\* main() returns with a status; the try block is left and, with it, the
\* vectors with the dispatchers are.
leave(status) ==
    /\ pc' = "return" /\ code' = status
    /\ disp' = [w \in Workers |->
                  IF disp[w] = "none" THEN "none" ELSE "destroyed"]

\* The validation of the options.
options ==
    /\ pc = "options"
    /\ IF \/ opts.source = "both"
          \/ opts.bad \in OwnOptions
          \/ opts.threads > 1 /\ opts.source = "stdin"
       THEN leave(1)
       ELSE pc' = "prepare" /\ UNCHANGED <<disp, code>>
    /\ UNCHANGED <<opts, next, step, result, thread, session, ended, unjoined>>

\* Mutant: the queries are loaded before the configuration is complete.
SetupLoadFirst ==
    <<"construct", "address", "load", "port", "duration", "qclass", "dnssec",
      "edns", "protocol">>

\* The calls that prepare a dispatcher.
Setup ==
    <<"construct", "address", "port", "duration", "qclass", "dnssec", "edns",
      "protocol", "load">>

Done(call) == call # "load" \/ opts.preload

\* The argument of the call is bad.
BadArgument(call) ==
    \/ opts.bad = "-d" /\ call = "construct"
    \/ opts.bad = "-p" /\ call = "port"
    \/ opts.bad = "-l" /\ call = "duration"
    \/ opts.bad = "-C" /\ call = "qclass"
    \/ opts.bad = "input" /\ call = "load"

\* The dispatcher is configured too late: after its start, or, when the call is
\* one for the repository, after load().
TooLate(call) ==
    /\ call # "construct"
    /\ \/ session[next].phase # "ready"
       \/ /\ call \in {"qclass", "dnssec", "edns", "protocol", "load"}
          /\ disp[next] = "loaded"

\* One call of the loop that prepares the dispatchers.
prepare ==
    /\ pc = "prepare" /\ next <= opts.threads
    /\ LET call == Setup[step] IN
       IF Done(call) /\ (BadArgument(call) \/ TooLate(call))
       THEN leave(1) /\ UNCHANGED <<next, step>>
       ELSE /\ disp' = CASE call = "construct" -> [disp EXCEPT ![next] = "built"]
                         [] call = "load" /\ Done(call) ->
                              [disp EXCEPT ![next] = "loaded"]
                         [] OTHER -> disp
            /\ IF step < Len(Setup)
               THEN step' = step + 1 /\ UNCHANGED next
               ELSE step' = 1 /\ next' = next + 1
            /\ UNCHANGED <<pc, code>>
    /\ UNCHANGED <<opts, result, thread, session, ended, unjoined>>

\* Mutant: a thread too many.
createPastEnd ==
    /\ pc = "create" /\ next <= opts.threads + 1
    /\ thread' = [thread EXCEPT ![next] = "running"] /\ next' = next + 1
    /\ UNCHANGED <<opts, pc, step, result, code, disp, session, ended, unjoined>>

\* pthread_create(); if it fails, main() is left while the threads before run.
create ==
    /\ pc = "create" /\ next <= opts.threads
    /\ \/ /\ thread' = [thread EXCEPT ![next] = "running"]
          /\ next' = next + 1
          /\ UNCHANGED <<pc, code, disp>>
       \/ /\ "create" \in Faults
          /\ thread' = [thread EXCEPT ![next] = "failed"]
          /\ leave(1)
          /\ UNCHANGED next
    /\ UNCHANGED <<opts, step, result, session, ended, unjoined>>

\* Mutant: the last thread is not waited for.
joinButLast ==
    /\ pc = "join" /\ next <= opts.threads
    /\ \/ thread[next] = "returned" \/ next = opts.threads
    /\ thread' = IF thread[next] = "returned"
                 THEN [thread EXCEPT ![next] = "joined"] ELSE thread
    /\ next' = next + 1
    /\ UNCHANGED <<opts, pc, step, result, code, disp, session, ended, unjoined>>

\* pthread_join().
join ==
    /\ pc = "join" /\ next <= opts.threads
    /\ thread[next] = "returned"
    /\ thread' = [thread EXCEPT ![next] = "joined"]
    /\ next' = next + 1
    /\ UNCHANGED <<opts, pc, step, result, code, disp, session, ended, unjoined>>

\* It fails, and main() goes on without waiting.
joinFails ==
    /\ pc = "join" /\ next <= opts.threads
    /\ "join" \in Faults
    /\ unjoined' = unjoined \cup {next}
    /\ next' = next + 1
    /\ UNCHANGED <<opts, pc, step, result, code, disp, thread, session, ended>>

\* What main() may read of a value its worker has now, and had the values in
\* past before.  The writes of a thread that was joined happened before; those of
\* another race with the read, which gets any of the values.
Reads(past, now) == IF thread[next] = "joined" THEN {now} ELSE past \cup {now}

\* accumulateResult() adds the counters of a dispatcher, whether or not its
\* thread was joined, and computes the rate from the times of the dispatcher.
accumulateResult ==
    /\ pc = "report" /\ next <= opts.threads
    /\ \E sent \in Reads(0..session[next].sent, session[next].sent),
          completed \in Reads(0..session[next].completed, session[next].completed),
          known \in Reads({FALSE}, ended[next]) :
          result' = [sent |-> result.sent + sent,
                     completed |-> result.completed + completed,
                     rates |-> Append(result.rates,
                                      IF known THEN "real" ELSE "unset")]
    /\ next' = next + 1
    /\ UNCHANGED <<opts, pc, step, code, workerVars>>

\* A loop over the workers is done.
endOfLoop ==
    /\ next > opts.threads
    /\ \/ pc = "prepare" /\ pc' = "create" /\ UNCHANGED <<disp, code>>
       \/ pc = "create" /\ pc' = "join" /\ UNCHANGED <<disp, code>>
       \/ pc = "join" /\ pc' = "report" /\ UNCHANGED <<disp, code>>
       \/ pc = "report" /\ leave(0)
    /\ next' = 1
    /\ UNCHANGED <<opts, step, result, thread, session, ended, unjoined>>

\* The process exits, and with it every thread.
exit ==
    /\ pc = "return"
    /\ pc' = "exit"
    /\ UNCHANGED <<opts, next, step, result, code, workerVars>>

Main == options \/ prepare \/ create \/ join \/ accumulateResult \/ endOfLoop \/ exit

-----------------------------------------------------------------------------
(* The worker threads *)

Working(w) == thread[w] = "running" /\ pc \notin {"exit", "crashed"}

\* The counters that one step may lead to, within the bound.
NextCounters(s) ==
    {t \in [phase : {"running", "finished", "failed"}, sending : BOOLEAN,
            out : {0, s.out, Window} \cup {n \in 0..Window : n + 1 = s.out},
            sent : s.sent..MaxSent, completed : {s.completed, s.completed + 1}] :
       t # s}

\* A step of DispatcherImpl::run() and its callbacks; without a query in the
\* input the session fails at its first one.
runSession(w) ==
    /\ Working(w) /\ disp[w] # "destroyed"
    /\ \E s \in NextCounters(session[w]) :
          /\ opts.bad = "input" => s.phase = "failed" /\ s.sent = 0
          /\ session' = [session EXCEPT ![w] = s]
    /\ Session(w)!Next
    /\ UNCHANGED <<mainVars, disp, thread, ended, unjoined>>

\* Mutant: a thread whose session failed does not return.
runReturnsFinished(w) ==
    /\ Working(w) /\ disp[w] # "destroyed"
    /\ session[w].phase = "finished"
    /\ thread' = [thread EXCEPT ![w] = "returned"]
    /\ ended' = [ended EXCEPT ![w] = TRUE]
    /\ UNCHANGED <<mainVars, disp, session, unjoined>>

\* Mutant: the end time is not recorded.
runReturnsUntimed(w) ==
    /\ Working(w) /\ disp[w] # "destroyed"
    /\ session[w].phase \in {"finished", "failed"}
    /\ thread' = [thread EXCEPT ![w] = "returned"]
    /\ UNCHANGED <<mainVars, disp, session, ended, unjoined>>

\* Dispatcher::run() returns and records the time, or an exception leaves it and
\* runQueryperf() catches it.  A failed session can also have returned, with
\* queries left and nothing to wait for.
runReturns(w) ==
    /\ Working(w) /\ disp[w] # "destroyed"
    /\ session[w].phase \in {"finished", "failed"}
    /\ thread' = [thread EXCEPT ![w] = "returned"]
    /\ \E t \in BOOLEAN :
          /\ session[w].phase = "finished" => t
          /\ ended' = [ended EXCEPT ![w] = t]
    /\ UNCHANGED <<mainVars, disp, session, unjoined>>

\* The thread uses a dispatcher that main() has destroyed.
useDestroyed(w) ==
    /\ Working(w) /\ disp[w] = "destroyed"
    /\ pc' = "crashed"
    /\ UNCHANGED <<opts, next, step, result, code, workerVars>>

Worker(w) == runSession(w) \/ runReturns(w) \/ useDestroyed(w)

Terminated == pc \in {"exit", "crashed"} /\ UNCHANGED vars

Next == Main \/ joinFails \/ (\E w \in Workers : Worker(w)) \/ Terminated

Spec == Init /\ [][Next]_vars

\* main() goes on, and a thread returns after its session.  No session is assumed
\* to go on: one can wait for ever for a query whose timer was lost, or read for
\* ever an input in which no line can be used.
FairSpec == Spec /\ WF_vars(Main) /\ \A w \in Workers : WF_vars(runReturns(w))

-----------------------------------------------------------------------------
(* Properties *)

\* The variables keep their types.
TypeOK ==
    /\ pc \in {"options", "prepare", "create", "join", "report", "return",
               "exit", "crashed"}
    /\ next \in 1..(MaxThreads + 1) /\ step \in 1..Len(Setup)
    /\ disp \in [Workers -> {"none", "built", "loaded", "destroyed"}]
    /\ thread \in [Workers -> {"none", "failed", "running", "returned", "joined"}]
    /\ session \in [Workers -> Sessions]
    /\ ended \in [Workers -> BOOLEAN]
    /\ unjoined \subseteq Workers
    /\ result.sent \in Nat /\ result.completed \in Nat
    /\ code \in {0, 1}

\* The exit status says whether the options could be used and the threads could
\* be started: the configuration calls of main() never refuse one another, no
\* input is shared by threads, and a session that fails does not change it.
StatusExplained ==
    pc \in {"return", "exit"} =>
        (code = 1 <=>
            \/ opts.bad \in OwnOptions
            \/ opts.source = "both"
            \/ opts.source = "stdin" /\ opts.threads > 1
            \/ /\ opts.threads > 0
               /\ \/ opts.bad \in {"-p", "-l", "-C", "-d"}
                  \/ opts.bad = "input" /\ opts.preload
            \/ \E w \in Workers : thread[w] = "failed")

\* A thread that runs has its dispatcher, unless a later thread could not be
\* created or it could not be joined itself.
DispatcherOutlivesThread ==
    \A w \in Workers :
        Working(w) /\ disp[w] = "destroyed" =>
            w \in unjoined \/ \E v \in Workers : thread[v] = "failed"

\* The sum of the counts of the workers main() was asked for.
Total(count) ==
    LET sum[n \in 0..MaxThreads] == IF n = 0 THEN 0 ELSE sum[n - 1] + count[n]
    IN  sum[opts.threads]

SentBy == [w \in Workers |-> session[w].sent]
CompletedBy == [w \in Workers |-> session[w].completed]

\* The totals are never more than what the dispatchers have counted, also when
\* threads still run and their counters are read in a race; and if every thread
\* was joined, lost_count, the difference of two unsigned totals, does not wrap
\* around, whatever became of the sessions.
SummaryIsSettled ==
    /\ result.sent <= Total(SentBy) /\ result.completed <= Total(CompletedBy)
    /\ unjoined = {} => result.completed <= result.sent

\* The totals that main() prints are the sums of the final counters of all its
\* dispatchers.
SummaryIsExact ==
    pc \in {"return", "exit"} /\ code = 0 /\ unjoined = {} =>
        result.sent = Total(SentBy) /\ result.completed = Total(CompletedBy)

\* A rate is computed from a time that was never set only for a worker whose
\* session failed: once a session has finished, the time is there to be read.
RateNeedsTimes ==
    \A w \in DOMAIN result.rates :
        w \notin unjoined =>
            /\ session[w].phase \in {"finished", "failed"}
            /\ session[w].phase = "finished" => result.rates[w] = "real"

\* main() is in pthread_join() for a thread whose session has not ended.
WaitsForSession ==
    /\ pc = "join" /\ next <= opts.threads
    /\ session[next].phase \notin {"finished", "failed"}

\* The program ends, or main() waits for ever for a session that never ends: no
\* other thread, and no session that has failed, keeps it from ending.
MainEnds == <>[](pc \in {"exit", "crashed"} \/ WaitsForSession)

=============================================================================
