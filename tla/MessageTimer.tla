---------------------------- MODULE MessageTimer ----------------------------
(***************************************************************************)
(* A MessageTimer of lib/message_manager.h as its user has to expect it.   *)
(* An armed timer expires once; the callback is then on its way, and no    *)
(* start(), cancel() or destruction of the timer takes it back.            *)
(***************************************************************************)
VARIABLES
    alive,      \* the timer exists
    armed,      \* it is waiting for its deadline
    queued      \* it has expired and its handler has not run yet

vars == <<alive, armed, queued>>

Init == alive = FALSE /\ armed = FALSE /\ queued = FALSE

\* createMessageTimer(), perhaps with the first start().
Create ==
    /\ ~alive /\ ~queued
    /\ alive' = TRUE
    /\ armed' \in BOOLEAN
    /\ UNCHANGED queued

\* What the user does with its timer: start(), cancel() or its destruction.
Use ==
    /\ alive
    /\ \/ armed' \in BOOLEAN /\ UNCHANGED alive
       \/ alive' = FALSE /\ armed' = FALSE

\* The deadline passes.
Expire ==
    /\ armed /\ ~queued
    /\ armed' = FALSE /\ queued' = TRUE
    /\ UNCHANGED alive

\* The handler runs and the callback, if the timer still exists, uses it.
Handle ==
    /\ queued
    /\ queued' = FALSE
    /\ Use \/ UNCHANGED <<alive, armed>>

Next == Create \/ (Use /\ UNCHANGED queued) \/ Expire \/ Handle

Spec == Init /\ [][Next]_vars

=============================================================================
