----------------------------- MODULE Dispatcher -----------------------------
(***************************************************************************)
(* The test session of one worker: class Dispatcher of lib/dispatcher.cc   *)
(* run on the io_service of lib/asio_message_manager.cc.                   *)
(*                                                                         *)
(* A dispatcher keeps a window of query contexts (QueryEvent) in a list,   *)
(* one outstanding query each.  A response, a terminated TCP connection or *)
(* an expired query timer restarts the context its 16-bit query ID leads   *)
(* to; once the session timer has fired, the context is erased instead and *)
(* the session ends with the last one.  All handlers run on one thread, so *)
(* one handler is one step; what is concurrent is what the network and the *)
(* clock have queued for the io_service meanwhile.                         *)
(***************************************************************************)
EXTENDS Integers, Sequences, FiniteSets, SequencesExt

CONSTANTS
    Window,     \* window_: the number of query contexts
    QidSpace,   \* the number of values of qid_t: 2^16 in the code
    MaxSent,    \* bound: queries sent before the session timer must fire
    Proto,      \* transport of the session's queries, "udp" or "tcp"
    Faults      \* what may fail: see SendFaults, "socket", "recv", "header",
                \* "reset"

ASSUME DispatcherAssumption ==
    /\ Window \in Nat \ {0}
    /\ QidSpace \in Nat
    /\ Window <= QidSpace
    /\ MaxSent \in Nat
    /\ Window <= MaxSent
    /\ Proto \in {"udp", "tcp"}
    /\ Faults \subseteq {"socket", "send", "input", "recv", "header", "reset"}

VARIABLES
    phase,          \* how far run() has come, or how it ended
    keepSending,    \* keep_sending_
    outstanding,    \* outstanding_: the contexts, in list order
    evQid,          \* qid_ of each QueryEvent
    timer,          \* contexts whose query timer is armed
    queued,         \* contexts whose expiry handler is queued in io_service
    tcp,            \* contexts with tcp_sock_ # NULL
    qid,            \* qid_: the ID of the next query
    sent,           \* queries_sent_
    completed,      \* queries_completed_
    serial,         \* history: which query each context last sent
    answered,       \* history: queries completed by their own response
    collided        \* history: a query was sent under an ID in use

vars == <<phase, keepSending, outstanding, evQid, timer, queued, tcp, qid,
          sent, completed, serial, answered, collided>>

Contexts == 1..Window

Running == phase = "running"

\* How a session can be over: run() returned, an exception left it (caught by
\* runQueryperf), an assert() failed, or a dead object was used.
Ended == {"finished", "died", "aborted", "crashed"}

NoReply == -1   \* stands for the Message* NULL of restartQuery

Init ==
    /\ phase = "ready"
    /\ keepSending = TRUE
    /\ outstanding = <<>>
    /\ evQid = [c \in Contexts |-> 0]
    /\ timer = {}
    /\ queued = {}
    /\ tcp = {}
    /\ qid = 0
    /\ sent = 0
    /\ completed = 0
    /\ serial = [c \in Contexts |-> 0]
    /\ answered = {}
    /\ collided = FALSE

-----------------------------------------------------------------------------
(* Helpers *)

\* Mutants: an ID wider than 16 bits; ++qid_ forgotten.
NextQidWide(q) == q + 1
NextQidStuck(q) == q

\* ++qid_ on a 16-bit unsigned integer.
NextQid(q) == IF q = QidSpace - 1 THEN 0 ELSE q + 1

\* The ID under which the s-th query (from 0) was sent: qid_ starts at 0 and
\* advances with queries_sent_.
QidOf(s) == s % QidSpace

\* Positions of the outstanding contexts that wait for a response with ID q.
Matching(q) == {i \in 1..Len(outstanding) : evQid[outstanding[i]] = q}

\* Where find_if() stops: the first of them.
FirstMatching(q) == {i \in Matching(q) : \A j \in Matching(q) : i <= j}

\* outstanding_.splice(qev_it, outstanding_, outstanding_.end()): the spliced
\* "element" is the sentinel node, which libstdc++ and libc++ relink just
\* before qev_it, so that the list now starts with that context.
Splice(o, i) == SubSeq(o, i, Len(o)) \o SubSeq(o, 1, i - 1)

\* Producing and sending a query may throw: the repository finds no usable
\* input, or the UDP socket reports an error.
SendFaults == Faults \cap (IF Proto = "udp" THEN {"input", "send"}
                                            ELSE {"input"})

-----------------------------------------------------------------------------
(* Starting the session *)

\* The pool of contexts is created and each sends a query.  The k-th send may
\* throw: the contexts before it have sent theirs, it has started its timer.
run ==
    /\ phase = "ready"
    /\ UNCHANGED <<keepSending, queued, completed, answered, collided>>
    /\ \/ /\ "socket" \in Faults            \* createMessageSocket throws
          /\ phase' = "died"
          /\ UNCHANGED <<outstanding, evQid, timer, tcp, qid, sent, serial>>
       \/ \E k \in 1..Window + 1 :          \* k = Window + 1: none throws
            /\ k <= Window => SendFaults # {}
            /\ phase' = IF k <= Window THEN "died" ELSE "running"
            /\ outstanding' = [i \in 1..Window |-> i]
            /\ timer' = {c \in Contexts : c <= k}
            /\ evQid' = [c \in Contexts |-> IF c <= k THEN c - 1 ELSE 0]
            /\ serial' = [c \in Contexts |-> IF c < k THEN c - 1 ELSE 0]
            /\ tcp' = {c \in Contexts : Proto = "tcp" /\ c < k}
            /\ sent' = k - 1
            /\ qid' = IF k - 1 = QidSpace THEN 0 ELSE k - 1

-----------------------------------------------------------------------------
(* Restarting a context; t is tcp after the caller's clearTCPSocket() *)

\* Mutant: the timer is armed for the first query only.
startWithoutTimer(c) ==
    /\ evQid' = [evQid EXCEPT ![c] = qid]
    /\ timer' = timer \ {c}

\* QueryEvent::start(): the next ID, and the timer (re)armed.
start(c) ==
    /\ evQid' = [evQid EXCEPT ![c] = qid]
    /\ timer' = timer \cup {c}

\* start() and sendQuery() for the context at position i, which the list then
\* begins with.
sendQuery(i, t) ==
    LET c == outstanding[i] IN
    /\ sent < MaxSent
    /\ start(c)
    /\ \/ /\ Proto = "tcp" => c \notin t
          /\ tcp' = IF Proto = "tcp" THEN t \cup {c} ELSE t
          /\ sent' = sent + 1
          /\ qid' = NextQid(qid)
          /\ outstanding' = Splice(outstanding, i)
          /\ serial' = [serial EXCEPT ![c] = sent]
          /\ collided' = (collided \/ \E d \in ToSet(outstanding) \ {c} :
                                        evQid[d] = qid)
          /\ UNCHANGED phase
       \/ \* setTCPSocket(): assert(tcp_sock_ == NULL)
          /\ Proto = "tcp" /\ c \in t
          /\ phase' = "aborted"
          /\ tcp' = t
          /\ UNCHANGED <<outstanding, qid, sent, serial, collided>>
       \/ /\ SendFaults # {}
          /\ phase' = "died"
          /\ tcp' = t
          /\ UNCHANGED <<outstanding, qid, sent, serial, collided>>

\* Mutants: the timer outlives its context; the last context does not stop the
\* io_service; any context does.
eraseKeepsTimer(i, t) ==
    /\ outstanding' = RemoveAt(outstanding, i)
    /\ phase' = IF outstanding' = <<>> THEN "finished" ELSE phase
    /\ tcp' = t \ {outstanding[i]}
    /\ UNCHANGED <<timer, evQid, qid, sent, serial, collided>>
eraseWithoutStop(i, t) ==
    LET c == outstanding[i] IN
    /\ outstanding' = RemoveAt(outstanding, i)
    /\ timer' = timer \ {c}
    /\ tcp' = t \ {c}
    /\ UNCHANGED <<phase, evQid, qid, sent, serial, collided>>
eraseAndStop(i, t) ==
    LET c == outstanding[i] IN
    /\ outstanding' = RemoveAt(outstanding, i)
    /\ phase' = "finished"
    /\ timer' = timer \ {c}
    /\ tcp' = t \ {c}
    /\ UNCHANGED <<evQid, qid, sent, serial, collided>>

\* The session is being drained: the context at position i is destroyed, with
\* its timer and its socket, and the last one stops the io_service.
eraseContext(i, t) ==
    LET c == outstanding[i] IN
    /\ outstanding' = RemoveAt(outstanding, i)
    /\ phase' = IF outstanding' = <<>> THEN "finished" ELSE phase
    /\ timer' = timer \ {c}
    /\ tcp' = t \ {c}
    /\ UNCHANGED <<evQid, qid, sent, serial, collided>>

\* Mutant: a query that timed out counts as completed.
creditAlways(c, s) ==
    /\ completed' = completed + 1
    /\ answered' = IF s = serial[c] THEN answered \cup {s} ELSE answered

\* ++queries_completed_ if there is a response; s is the query it answers.
credit(c, s) ==
    /\ completed' = IF s = NoReply THEN completed ELSE completed + 1
    /\ answered' = IF s = serial[c] THEN answered \cup {s} ELSE answered

restartContext(i, s, t) ==
    /\ credit(outstanding[i], s)
    /\ IF keepSending THEN sendQuery(i, t) ELSE eraseContext(i, t)

\* Mutant: a response that matches no query is counted too.
restartQueryCountsStray(q, s, t) ==
    \/ /\ Matching(q) = {}
       /\ completed' = completed + 1
       /\ tcp' = t
       /\ UNCHANGED <<phase, outstanding, evQid, timer, qid, sent, serial,
                      answered, collided>>
    \/ \E i \in FirstMatching(q) : restartContext(i, s, t)

\* A response to query s, or NoReply, that carries the ID q.
restartQuery(q, s, t) ==
    \/ /\ Matching(q) = {}
       /\ tcp' = t
       /\ UNCHANGED <<phase, outstanding, evQid, timer, qid, sent, completed,
                      serial, answered, collided>>
    \/ \E i \in FirstMatching(q) : restartContext(i, s, t)

-----------------------------------------------------------------------------
(* The handlers *)

\* A UDP response to the s-th query arrives: late, repeated or out of order,
\* as the network pleases.
responseCallback(s) ==
    /\ Running
    /\ Proto = "udp"
    /\ restartQuery(QidOf(s), s, tcp)
    /\ UNCHANGED <<keepSending, queued>>

\* UDPMessageSocket::handleRead() is given an error, or parseHeader() rejects
\* the datagram: nothing catches the exception inside run().
receiveFails ==
    /\ Running
    /\ Proto = "udp"
    /\ Faults \cap {"recv", "header"} # {}
    /\ phase' = "died"
    /\ UNCHANGED <<keepSending, outstanding, evQid, timer, queued, tcp, qid,
                   sent, completed, serial, answered, collided>>

\* The TCP socket of context c calls back, with a response or, if the
\* connection was terminated, with none.
responseTCPCallback(c, responded) ==
    /\ Running
    /\ c \in tcp
    /\ restartQuery(evQid[c], IF responded THEN serial[c] ELSE NoReply,
                    tcp \ {c})
    /\ UNCHANGED <<keepSending, queued>>

\* The same with data whose header does not parse, or, when the connection was
\* reset after the first message, with a length and NULL for the data.
responseTCPFails(c) ==
    /\ Running
    /\ c \in tcp
    /\ \/ "header" \in Faults /\ phase' = "died"
       \/ "reset" \in Faults /\ phase' = "crashed"
    /\ tcp' = tcp \ {c}
    /\ UNCHANGED <<keepSending, outstanding, evQid, timer, queued, qid, sent,
                   completed, serial, answered, collided>>

\* The deadline of an armed timer passes: the io_service queues its handler.
\* From here on neither start() nor the destructor takes it back.  A handler
\* queued earlier has run before the io_service looks at the clock again.
timerExpires(c) ==
    /\ Running
    /\ c \in timer \ queued
    /\ timer' = timer \ {c}
    /\ queued' = queued \cup {c}
    /\ UNCHANGED <<phase, keepSending, outstanding, evQid, tcp, qid, sent,
                   completed, serial, answered, collided>>

\* Mutant: the socket of the query that timed out is kept.
queryTimerKeepsSocket(c) ==
    /\ Running
    /\ c \in queued \cap ToSet(outstanding)
    /\ queued' = queued \ {c}
    /\ restartQuery(evQid[c], NoReply, tcp)
    /\ UNCHANGED keepSending

\* ASIOMessageTimer::handleExpire() and QueryEvent::queryTimerCallback().
queryTimerCallback(c) ==
    /\ Running
    /\ c \in queued \cap ToSet(outstanding)
    /\ queued' = queued \ {c}
    /\ restartQuery(evQid[c], NoReply, tcp \ {c})
    /\ UNCHANGED keepSending

\* handleExpire() of a timer that was destroyed with its context: it calls a
\* destroyed boost::function, which throws bad_function_call or crashes.
expireDestroyed(c) ==
    /\ Running
    /\ c \in queued \ ToSet(outstanding)
    /\ phase' \in {"died", "crashed"}
    /\ queued' = queued \ {c}
    /\ UNCHANGED <<keepSending, outstanding, evQid, timer, tcp, qid, sent,
                   completed, serial, answered, collided>>

sessionTimerCallback ==
    /\ Running
    /\ keepSending
    /\ keepSending' = FALSE
    /\ UNCHANGED <<phase, outstanding, evQid, timer, queued, tcp, qid, sent,
                   completed, serial, answered, collided>>

\* io_service::run() returns when nothing is left to wait for.  Over UDP the
\* receive operation is always pending.
runOutOfWork ==
    /\ Running
    /\ Proto = "tcp"
    /\ ~keepSending
    /\ timer = {} /\ queued = {} /\ tcp = {}
    /\ phase' = "finished"
    /\ UNCHANGED <<keepSending, outstanding, evQid, timer, queued, tcp, qid,
                   sent, completed, serial, answered, collided>>

Terminated == phase \in Ended /\ UNCHANGED vars

Next ==
    \/ run
    \/ \E s \in 0..(sent - 1) : responseCallback(s)
    \/ receiveFails
    \/ \E c \in Contexts : \E r \in BOOLEAN : responseTCPCallback(c, r)
    \/ \E c \in Contexts : responseTCPFails(c)
    \/ \E c \in Contexts : timerExpires(c)
    \/ \E c \in Contexts : queryTimerCallback(c)
    \/ \E c \in Contexts : expireDestroyed(c)
    \/ sessionTimerCallback
    \/ runOutOfWork
    \/ Terminated

\* The clock advances and the io_service runs what it has queued.  Nothing is
\* assumed of the server or the network.
Fairness ==
    /\ WF_vars(sessionTimerCallback)
    /\ WF_vars(runOutOfWork)
    /\ \A c \in Contexts : /\ WF_vars(timerExpires(c))
                           /\ WF_vars(queryTimerCallback(c))
                           /\ WF_vars(expireDestroyed(c))

Spec == Init /\ [][Next]_vars

FairSpec == Spec /\ Fairness

-----------------------------------------------------------------------------
(* Properties *)

\* The variables keep their types; in particular qid_ stays a 16-bit ID.
TypeOK ==
    /\ phase \in {"ready", "running"} \cup Ended
    /\ keepSending \in BOOLEAN
    /\ outstanding \in Seq(Contexts)
    /\ evQid \in [Contexts -> 0..(QidSpace - 1)]
    /\ timer \subseteq Contexts
    /\ queued \subseteq Contexts
    /\ tcp \subseteq Contexts
    /\ qid \in 0..(QidSpace - 1)
    /\ sent \in 0..MaxSent
    /\ completed \in Nat
    /\ serial \in [Contexts -> 0..MaxSent]
    /\ answered \subseteq 0..MaxSent
    /\ collided \in BOOLEAN

\* The list surgery of restartQuery never loses or duplicates a context: until
\* the session timer fires exactly window_ queries are outstanding, afterwards
\* the session goes on only while some are.
WindowKept ==
    Running =>
        /\ IsInjective(outstanding)
        /\ outstanding # <<>>
        /\ keepSending => Len(outstanding) = Window

\* No response, however late or repeated, makes the statistics claim more than
\* was sent: what is completed and what is outstanding are different queries.
\* main() relies on it when it subtracts the counters as unsigned integers.
Accounting ==
    /\ completed <= sent
    /\ Running => completed + Len(outstanding) <= sent

\* As long as no ID is used twice at a time, every outstanding query has a
\* timer to give it up: armed, or expired and about to be handled.
NoAbandonedQuery ==
    Running /\ ~collided => ToSet(outstanding) \subseteq timer \cup queued

\* The assertions of setTCPSocket() and clearTCPSocket() can only fail when an
\* ID is in use twice; otherwise each outstanding TCP query owns one socket.
AssertionsHold ==
    /\ phase = "aborted" => collided
    /\ Running /\ ~collided /\ Proto = "tcp" => tcp = ToSet(outstanding)

\* run() returns normally only when the session timer has fired and every
\* outstanding query was answered or given up.
FinishedDrained ==
    phase = "finished" /\ ~collided => outstanding = <<>> /\ ~keepSending

\* Until the IDs wrap around, each completed query was completed once and by
\* its own response, whatever is delayed, repeated or reordered.  Over TCP,
\* where no response outlives its connection, until an ID is in use twice.
CreditedOnce ==
    sent <= QidSpace \/ (Proto = "tcp" /\ ~collided) =>
        completed = Cardinality(answered)

\* An ID is taken while another query uses it only if that query, which stays
\* outstanding, has been so while the whole ID space was used up.
CollisionNeedsOldQuery ==
    [][collided' /\ ~collided =>
         \E c \in ToSet(outstanding) :
            /\ evQid[c] = qid /\ serial'[c] = serial[c]
            /\ sent - serial[c] >= QidSpace]_vars

\* A session that ended without an exception but with queries left, which takes
\* an ID in use twice, is a failed one.
Session == INSTANCE QuerySession WITH
    phase <- CASE phase \in {"ready", "running"} -> phase
               [] phase = "finished" /\ outstanding = <<>> -> "finished"
               [] OTHER -> "failed",
    sending <- keepSending,
    out <- IF Running THEN Len(outstanding) ELSE 0

\* Whatever comes late, twice or never, and whichever step throws, a session is
\* one of QuerySession to those who only see its counters and its end.
IsQuerySession == Session!Spec

Timer(c) == INSTANCE MessageTimer WITH
    alive <- c \in ToSet(outstanding),
    armed <- c \in timer,
    queued <- c \in queued

\* The session uses its timers as MessageTimer allows: the timers it relies on
\* are those that ASIOMessageManager is shown to provide.
UsesTimers ==
    /\ \A c \in Contexts : Timer(c)!Init
    /\ [][\A c \in Contexts : [Timer(c)!Next]_(Timer(c)!vars)]_vars

\* A session that started is over at some time, even if the server never
\* answers, unless an ID was used twice at a time.
EverySessionEnds ==
    Running ~> (phase \in Ended \/ collided)

=============================================================================
