---------------------------- MODULE QuerySession ----------------------------
(***************************************************************************)
(* What Dispatcher::run() promises to its caller: a fixed number of        *)
(* queries is kept outstanding until the time is over, each of them is     *)
(* answered or given up, and the counters tell how many were.              *)
(***************************************************************************)
EXTENDS Naturals

CONSTANT Window     \* queries outstanding at a time

VARIABLES
    phase,          \* "ready", "running", "finished" or "failed"
    sending,        \* whether a query that is done is replaced
    out,            \* number of outstanding queries
    sent,           \* getQueriesSent()
    completed       \* getQueriesCompleted()

vars == <<phase, sending, out, sent, completed>>

Init ==
    /\ phase = "ready" /\ sending = TRUE
    /\ out = 0 /\ sent = 0 /\ completed = 0

\* Window queries are sent, or fewer if an exception comes first.
Start ==
    /\ phase = "ready"
    /\ \/ phase' = "running" /\ sent' = Window /\ out' = Window
       \/ phase' = "failed" /\ sent' \in 0..(Window - 1) /\ out' = 0
    /\ UNCHANGED <<sending, completed>>

\* A query is answered (n = 1) or given up (n = 0), and replaced if it is time.
Done(n) ==
    /\ phase = "running" /\ out > 0
    /\ completed' = completed + n
    /\ \/ /\ sending
          /\ sent' = sent + 1
          /\ UNCHANGED <<phase, out>>
       \/ /\ ~sending
          /\ out' = out - 1
          /\ phase' = IF out' = 0 THEN "finished" ELSE phase
          /\ UNCHANGED sent
    /\ UNCHANGED sending

StopSending ==
    /\ phase = "running"
    /\ sending' = FALSE
    /\ UNCHANGED <<phase, out, sent, completed>>

\* An exception, perhaps after an answer was counted and before the next query.
Fail(n) ==
    /\ phase = "running"
    /\ phase' = "failed" /\ out' = 0
    /\ completed' = completed + n
    /\ UNCHANGED <<sending, sent>>

Next ==
    \/ Start
    \/ \E n \in {0, 1} : Done(n) \/ Fail(n)
    \/ StopSending

Spec == Init /\ [][Next]_vars

=============================================================================
