------------------------- MODULE ASIOMessageManager -------------------------
(***************************************************************************)
(* The event loop of lib/asio_message_manager.cc: ASIOMessageManager with  *)
(* its timers and one UDPMessageSocket, as a dispatcher uses them.         *)
(*                                                                         *)
(* The io_service (external) runs the handlers of its queue in order; one  *)
(* entry of the queue is the poll of the reactor, which appends a handler  *)
(* for a readable socket, then those of expired timers, then itself.       *)
(* While a callback runs, its owner may use every timer and the socket.    *)
(***************************************************************************)
EXTENDS Integers, Sequences, SequencesExt

CONSTANTS
    Timers,         \* the timers
    MaxStarts,      \* bound: calls of start()
    MaxDatagrams,   \* bound: datagrams that arrive
    Faults          \* subset of {"socket", "send", "recv"}

ASSUME ManagerAssumption ==
    /\ IsFiniteSet(Timers)
    /\ MaxStarts \in Nat /\ MaxDatagrams \in Nat
    /\ Faults \subseteq {"socket", "send", "recv"}

VARIABLES
    state,      \* "idle", "running", or how run() ended
    queue,      \* the handlers of the io_service
    current,    \* the handler whose callback is running, or NoHandler
    stopping,   \* stop() was called
    alive,      \* the ASIOMessageTimer objects that exist
    armed,      \* those with a wait that is pending
    starts,     \* number of calls of start()
    socket,     \* "none", "open" or "deleted"
    receiving,  \* receiving_
    reads,      \* receive operations that are pending
    inbox       \* datagrams and socket errors that have arrived: unread, in all

timerVars == <<alive, armed, starts>>
socketVars == <<socket, receiving, reads>>
vars == <<state, queue, current, stopping, timerVars, socketVars, inbox>>

NoHandler == <<"none">>
Poll == <<"poll">>
Expired(t) == <<"expired", t>>
Aborted(t) == <<"aborted", t>>
Readable == <<"readable">>

Init ==
    /\ state = "idle" /\ queue = <<Poll>>
    /\ current = NoHandler /\ stopping = FALSE
    /\ alive = {} /\ armed = {} /\ starts = 0
    /\ socket = "none" /\ receiving = FALSE /\ reads = 0
    /\ inbox = [unread |-> 0, all |-> 0]

-----------------------------------------------------------------------------
(* Calls of the owner: before run(), or in a callback *)

MayCall == state = "idle" \/ (state = "running" /\ current # NoHandler)

\* The constructor of UDPMessageSocket connects the socket, or throws.
createMessageSocket ==
    /\ state = "idle" /\ socket = "none"
    /\ \/ socket' = "open" /\ UNCHANGED state
       \/ "socket" \in Faults /\ state' = "died" /\ UNCHANGED socket
    /\ UNCHANGED <<queue, current, stopping, timerVars, receiving, reads, inbox>>

createMessageTimer(t) ==
    /\ state = "idle" /\ t \notin alive
    /\ alive' = alive \cup {t}
    /\ UNCHANGED <<state, queue, current, stopping, armed, starts, socketVars,
                   inbox>>

\* What asio does with a pending wait: its handler is queued as aborted.
abortWait(t) ==
    queue' = IF t \in armed THEN Append(queue, Aborted(t)) ELSE queue

\* expires_from_now() aborts the wait there is, async_wait() begins another.
start(t) ==
    /\ MayCall /\ t \in alive
    /\ starts < MaxStarts
    /\ starts' = starts + 1
    /\ abortWait(t)
    /\ armed' = armed \cup {t}
    /\ UNCHANGED <<state, current, stopping, alive, socketVars, inbox>>

cancel(t) ==
    /\ MayCall /\ t \in alive
    /\ abortWait(t)
    /\ armed' = armed \ {t}
    /\ UNCHANGED <<state, current, stopping, alive, starts, socketVars, inbox>>

destroy(t) ==
    /\ MayCall /\ t \in alive
    /\ abortWait(t)
    /\ alive' = alive \ {t}
    /\ armed' = armed \ {t}
    /\ UNCHANGED <<state, current, stopping, starts, socketVars, inbox>>

\* Mutant: every send() begins to receive.
sendReceives ==
    /\ MayCall /\ socket = "open"
    /\ receiving' = TRUE /\ reads' = reads + 1
    /\ UNCHANGED <<state, queue, current, stopping, timerVars, socket, inbox>>

\* UDPMessageSocket::send(): the first one begins to receive.
send ==
    /\ MayCall /\ socket = "open"
    /\ \/ /\ receiving' = TRUE
          /\ reads' = IF receiving THEN reads ELSE reads + 1
          /\ UNCHANGED <<state, current>>
       \/ /\ "send" \in Faults
          /\ state' = "died" /\ current' = NoHandler
          /\ UNCHANGED <<receiving, reads>>
    /\ UNCHANGED <<queue, stopping, timerVars, socket, inbox>>

stop ==
    /\ MayCall /\ ~stopping
    /\ stopping' = TRUE
    /\ UNCHANGED <<state, queue, current, timerVars, socketVars, inbox>>

run ==
    /\ state = "idle"
    /\ state' = "running"
    /\ UNCHANGED <<queue, current, stopping, timerVars, socketVars, inbox>>

\* The dispatcher is destroyed after run(): the timers, the socket, whose
\* cancel() deletes it at once, and the io_service with what is queued.
destroyAll ==
    /\ state \in {"returned", "died"} /\ socket # "deleted"
    /\ alive' = {} /\ armed' = {} /\ queue' = <<>>
    /\ socket' = "deleted" /\ reads' = 0
    /\ UNCHANGED <<state, current, stopping, starts, receiving, inbox>>

-----------------------------------------------------------------------------
(* The network and the io_service *)

datagramArrives ==
    /\ socket = "open" /\ inbox.all < MaxDatagrams
    /\ inbox' = [unread |-> inbox.unread + 1, all |-> inbox.all + 1]
    /\ UNCHANGED <<state, queue, current, stopping, timerVars, socketVars>>

\* The handler h is next.
NextIs(h) ==
    /\ state = "running" /\ current = NoHandler /\ ~stopping
    /\ Head(queue) = h

\* Any of the timers have expired, in any order.  With nothing else to run, the
\* poll waits for an event.
poll ==
    /\ NextIs(Poll)
    /\ \E E \in SUBSET armed : \E s \in [1..Cardinality(E) -> E] :
          LET events == (IF inbox.unread > 0 /\ reads > 0 THEN <<Readable>>
                                                          ELSE <<>>)
                        \o [i \in DOMAIN s |-> Expired(s[i])]
          IN  /\ IsInjective(s) /\ ToSet(s) = E
              /\ events # <<>> \/ Len(queue) > 1
              /\ queue' = Tail(queue) \o Append(events, Poll)
              /\ armed' = armed \ E
    /\ UNCHANGED <<state, current, stopping, alive, starts, socketVars, inbox>>

\* run() returns after stop(), or when there is nothing left to wait for.
runReturns ==
    /\ state = "running" /\ current = NoHandler
    /\ stopping \/ (queue = <<Poll>> /\ armed = {} /\ reads = 0)
    /\ state' = "returned"
    /\ UNCHANGED <<queue, current, stopping, timerVars, socketVars, inbox>>

-----------------------------------------------------------------------------
(* The handlers *)

\* Mutant: the error code is not looked at.
handleExpireAlways(t) ==
    /\ NextIs(Aborted(t)) \/ NextIs(Expired(t))
    /\ queue' = Tail(queue)
    /\ IF t \in alive THEN current' = Expired(t) /\ UNCHANGED state
                      ELSE state' = "crashed" /\ UNCHANGED current
    /\ UNCHANGED <<stopping, timerVars, socketVars, inbox>>

\* ASIOMessageTimer::handleExpire(), bound to a plain pointer to the timer.
handleExpire(t) ==
    /\ \/ NextIs(Aborted(t)) /\ UNCHANGED <<state, current>>
       \/ NextIs(Expired(t)) /\ t \in alive
          /\ current' = Expired(t) /\ UNCHANGED state
       \/ NextIs(Expired(t)) /\ t \notin alive
          /\ state' = "crashed" /\ UNCHANGED current
    /\ queue' = Tail(queue)
    /\ UNCHANGED <<stopping, timerVars, socketVars, inbox>>

\* UDPMessageSocket::handleRead(), up to its callback.
handleRead ==
    /\ NextIs(Readable)
    /\ queue' = Tail(queue)
    /\ reads' = reads - 1
    /\ inbox' = [inbox EXCEPT !.unread = @ - 1]
    /\ \/ current' = Readable /\ UNCHANGED state
       \/ "recv" \in Faults /\ state' = "died" /\ UNCHANGED current
    /\ UNCHANGED <<stopping, timerVars, socket, receiving>>

\* Mutant: handleRead() does not go on receiving.
callbackReturnsOnly ==
    /\ state = "running" /\ current # NoHandler
    /\ current' = NoHandler
    /\ UNCHANGED <<state, queue, stopping, timerVars, socketVars, inbox>>

\* The callback is done; handleRead() receives again.
callbackReturns ==
    /\ state = "running" /\ current # NoHandler
    /\ current' = NoHandler
    /\ reads' = IF current = Readable THEN reads + 1 ELSE reads
    /\ UNCHANGED <<state, queue, stopping, timerVars, socket, receiving, inbox>>

Terminated ==
    /\ state = "crashed" \/ socket = "deleted"
       \/ (state = "running" /\ current = NoHandler /\ queue = <<Poll>>)
    /\ UNCHANGED vars

Handlers == (\E t \in Timers : handleExpire(t)) \/ handleRead

Next ==
    \/ createMessageSocket
    \/ \E t \in Timers :
          createMessageTimer(t) \/ start(t) \/ cancel(t) \/ destroy(t)
    \/ send
    \/ stop
    \/ run
    \/ destroyAll
    \/ datagramArrives
    \/ poll
    \/ runReturns
    \/ Handlers
    \/ callbackReturns
    \/ Terminated

Spec == Init /\ [][Next]_vars

\* The loop goes on, and the callbacks return.
FairSpec ==
    Spec /\ WF_vars(poll) /\ WF_vars(Handlers) /\ WF_vars(callbackReturns)

-----------------------------------------------------------------------------
(* Properties *)

\* The variables keep their types.
TypeOK ==
    /\ state \in {"idle", "running", "returned", "died", "crashed"}
    /\ ToSet(queue) \cup {current} \subseteq
         {NoHandler, Poll, Readable}
           \cup UNION {{Expired(t), Aborted(t)} : t \in Timers}
    /\ alive \subseteq Timers /\ armed \subseteq alive
    /\ starts \in 0..MaxStarts
    /\ socket \in {"none", "open", "deleted"}
    /\ reads \in {0, 1}
    /\ {receiving, stopping} \subseteq BOOLEAN
    /\ inbox.unread \in 0..inbox.all /\ inbox.all \in 0..MaxDatagrams

\* Exactly one receive operation is under way once a query was sent, although
\* callbacks send from within the handler of the receive before: the one buffer
\* udp_recvbuf_ is never read into while a callback parses it.
OneReceive ==
    state \in {"idle", "running"} =>
        reads = IF receiving /\ current # Readable THEN 1 ELSE 0

Timer(t) == INSTANCE MessageTimer WITH
    alive <- t \in alive,
    armed <- t \in armed,
    queued <- Expired(t) \in ToSet(queue) \cup {current}

\* Every timer keeps the contract of MessageTimer until it is destroyed with
\* the loop: restarted, cancelled and destroyed in any callback, its handlers
\* call back once for each expiry, never for an aborted wait, and it does not
\* expire again before the handler of the last expiry has run.
KeepsTimerContract ==
    /\ \A t \in Timers : Timer(t)!Init
    /\ [][state = "idle" \/ state = "running" =>
            \A t \in Timers : [Timer(t)!Next]_(Timer(t)!vars)]_vars

\* A datagram that has arrived for a query is given to the callback, whatever
\* the timers do, unless the loop ends.
DatagramsDelivered ==
    (state = "running" /\ receiving /\ inbox.unread > 0)
        ~> (current = Readable \/ state # "running" \/ stopping)

=============================================================================
