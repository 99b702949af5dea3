---------------------------- MODULE MCDispatcher ----------------------------
(***************************************************************************)
(* What the manual says of the end of a session; the runs of this module   *)
(* show where the code differs.                                            *)
(***************************************************************************)
EXTENDS Dispatcher

\* The manual: the program "stops sending new queries, waits for responses to
\* all outstanding ones, and completes the test."  So a started session ends.
SessionCompletes ==
    Running ~> phase \in Ended

\* The manual, of the end of the session: "waits for responses to all
\* outstanding ones, and completes the test."  So draining the list does not
\* crash on the timer of a context that is gone.
DrainsSafely ==
    phase # "crashed"

=============================================================================
