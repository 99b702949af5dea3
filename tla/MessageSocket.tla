--------------------------- MODULE MessageSocket ---------------------------
(***************************************************************************)
(* What a one-query MessageSocket of lib/message_manager.h promises to its *)
(* owner, the dispatcher: after send() it calls back at most once, only    *)
(* while it is owned, and the implementation object behind it is destroyed *)
(* only once the owner has released it.                                    *)
(***************************************************************************)
EXTENDS Naturals

VARIABLES
    owned,      \* the caller still holds the MessageSocket
    requested,  \* send() was called
    calls,      \* how often the callback was called
    freed       \* the implementation object is destroyed

vars == <<owned, requested, calls, freed>>

Init ==
    /\ owned = TRUE
    /\ requested = FALSE
    /\ calls = 0
    /\ freed = FALSE

Send ==
    /\ owned /\ ~requested
    /\ requested' = TRUE
    /\ UNCHANGED <<owned, calls, freed>>

Callback ==
    /\ owned /\ requested /\ calls = 0
    /\ calls' = 1
    /\ UNCHANGED <<owned, requested, freed>>

\* The owner deletes the socket; the object may be destroyed with it or later.
Release ==
    /\ owned
    /\ owned' = FALSE
    /\ freed' \in BOOLEAN
    /\ UNCHANGED <<requested, calls>>

Free ==
    /\ ~owned /\ ~freed
    /\ freed' = TRUE
    /\ UNCHANGED <<owned, requested, calls>>

Next == Send \/ Callback \/ Release \/ Free

Spec == Init /\ [][Next]_vars

=============================================================================
