-------------------------- MODULE TCPMessageSocket --------------------------
(***************************************************************************)
(* class TCPMessageSocket of lib/asio_message_manager.cc: one query over   *)
(* one TCP connection.  The object connects, writes the query, shuts its   *)
(* sending side down and reads length-prefixed messages until the server   *)
(* closes; it keeps the first one and then calls back.  Its owner may      *)
(* release it at any time, and the object then has to destroy itself.      *)
(*                                                                         *)
(* One asynchronous operation is pending at a time (op).  The io_service   *)
(* completes it by queueing its handler with a result; the handler runs in *)
(* a later step, and the owner may act between the two.                    *)
(***************************************************************************)
EXTENDS Integers, Sequences, SequencesExt

CONSTANTS
    Lens,       \* lengths of the messages a server sends
    MaxMsgs,    \* bound: messages a server sends on a connection
    Faults      \* subset of {"open", "connect", "write", "shutdown", "reset"}

ASSUME TCPAssumption ==
    /\ Lens \subseteq Nat
    /\ MaxMsgs \in Nat
    /\ Faults \subseteq {"open", "connect", "write", "shutdown", "reset"}

VARIABLES
    status,     \* of the object: "live", "deleted"; or a handler "threw" or
                \* ran on the deleted object ("crashed")
    owned,      \* the ASIOMessageSocket in front of it exists
    requested,  \* send() was called
    op,         \* the pending operation, or "none"
    result,     \* what its queued handler will be told, or NoResult
    want,       \* size of the buffer of the pending receive operation
    opened,     \* asio_sock_.is_open()
    cancelled,  \* cancelled_
    completed,  \* completed_
    recvlen,    \* recvdata_len_
    aux,        \* buffers allocated for aux_recvbuf_ so far
    calls,      \* number of callbacks made
    event,      \* the Event given to the last one
    msgs,       \* the lengths of the messages the server has for this query
    wire,       \* their bytes that have not arrived yet
    arrived,    \* what has arrived and was not read yet
    server,     \* "open", or how it ended the connection
    short       \* history: a receive returned less than it asked for

netVars == <<msgs, wire, arrived, server, short>>
objVars == <<owned, requested, opened>>
recvVars == <<recvlen, aux, want>>
callVars == <<completed, calls, event>>
vars == <<status, op, result, cancelled, objVars, recvVars, callVars, netVars>>

NoResult == [ec |-> "pending"]
Result(ec) == [ec |-> ec]

Operations == {"connect", "write", "readLength", "readData"}

\* The bytes of a message of l bytes.  Only the framing matters: the first
\* byte of a length field carries the whole length.
LengthEnd == -1
Body == -2
Bytes(l) == <<l, LengthEnd>> \o [i \in 1..l |-> Body]

NoEvent == [data |-> "none", len |-> 0]

\* The constructor: the socket is not even opened yet.
Init ==
    /\ status = "live"
    /\ owned = TRUE /\ requested = FALSE
    /\ op = "none" /\ result = NoResult /\ want = 0
    /\ opened = FALSE /\ cancelled = FALSE /\ completed = FALSE
    /\ recvlen = 0 /\ aux = 0
    /\ calls = 0 /\ event = NoEvent
    /\ msgs \in UNION {[1..n -> Lens] : n \in 0..MaxMsgs}
    /\ wire = FlattenSeq([k \in DOMAIN msgs |-> Bytes(msgs[k])])
    /\ arrived = <<>>
    /\ server = "open"
    /\ short = FALSE

-----------------------------------------------------------------------------
(* Calls of the owner *)

\* async_connect() opens the socket; if it cannot, the handler is queued with
\* the error at once.
send ==
    /\ status = "live" /\ owned /\ ~requested
    /\ requested' = TRUE
    /\ op' = "connect"
    /\ \/ opened' = TRUE /\ UNCHANGED result
       \/ "open" \in Faults /\ result' = Result("error") /\ UNCHANGED opened
    /\ UNCHANGED <<status, owned, cancelled, recvVars, callVars, netVars>>

\* Mutant: the object is deleted although an operation is pending.
cancelAtOnce ==
    /\ status = "live" /\ owned
    /\ owned' = FALSE
    /\ status' = "deleted"
    /\ result' = IF opened /\ op # "none" /\ result = NoResult
                 THEN Result("aborted") ELSE result
    /\ UNCHANGED <<op, cancelled, requested, opened, recvVars, callVars,
                   netVars>>

\* ~ASIOMessageSocket() and cancel().  What the io_service has not completed
\* yet it completes as aborted; a result that is queued stays as it is.
cancel ==
    /\ status = "live" /\ owned
    /\ owned' = FALSE
    /\ IF opened /\ ~completed
       THEN /\ cancelled' = TRUE
            /\ result' = IF op # "none" /\ result = NoResult
                         THEN Result("aborted") ELSE result
            /\ UNCHANGED status
       ELSE /\ status' = "deleted"
            /\ UNCHANGED <<cancelled, result>>
    /\ UNCHANGED <<op, requested, opened, recvVars, callVars, netVars>>

-----------------------------------------------------------------------------
(* The server and the io_service *)

Connected == op \in {"write", "readLength", "readData"}

\* The next k bytes arrive: a segment ends anywhere in a length or a body.
serverSends(k) ==
    /\ Connected /\ server = "open"
    /\ arrived' = arrived \o SubSeq(wire, 1, k)
    /\ wire' = SubSeq(wire, k + 1, Len(wire))
    /\ UNCHANGED <<status, op, result, cancelled, objVars, recvVars, callVars,
                   msgs, server, short>>

\* The server ends the connection, whether or not it has sent everything.
serverEnds(how) ==
    /\ Connected /\ server = "open"
    /\ server' = how
    /\ UNCHANGED <<status, op, result, cancelled, objVars, recvVars, callVars,
                   msgs, wire, arrived, short>>

Pending(o) == op = o /\ result = NoResult

\* async_connect() and async_write() complete.
completes(o) ==
    /\ Pending(o)
    /\ \/ result' = Result("ok")
       \/ o \in Faults /\ result' = Result("error")
    /\ UNCHANGED <<status, op, cancelled, objVars, recvVars, callVars, netVars>>

\* async_receive() takes what is there, up to the size of its buffer; head is
\* the first byte of it.
receives(o) ==
    LET k == IF want < Len(arrived) THEN want ELSE Len(arrived) IN
    /\ Pending(o)
    /\ \/ /\ want = 0 \/ arrived # <<>>
          /\ result' = [ec |-> "ok", len |-> k,
                        head |-> IF k = 0 THEN Body ELSE arrived[1]]
          /\ arrived' = SubSeq(arrived, k + 1, Len(arrived))
          /\ short' = (short \/ k < want)
       \/ /\ want > 0 /\ arrived = <<>> /\ server = "closed"
          /\ result' = Result("eof") /\ UNCHANGED <<arrived, short>>
       \/ /\ want > 0 /\ server = "reset"
          /\ result' = Result("error") /\ UNCHANGED <<arrived, short>>
    /\ UNCHANGED <<status, op, cancelled, objVars, recvVars, callVars, msgs,
                   wire, server>>

-----------------------------------------------------------------------------
(* The handlers of the object *)

Handling(o) ==
    /\ status = "live"
    /\ op = o /\ result # NoResult
    /\ UNCHANGED <<cancelled, objVars, netVars>>

\* Mutant: the object is not deleted when its operation was aborted.
cancelCheckKeeps ==
    /\ cancelled
    /\ op' = "none" /\ result' = NoResult
    /\ UNCHANGED <<status, recvVars, callVars>>

\* cancelCheck() returns true.
cancelCheck ==
    /\ cancelled
    /\ status' = IF result.ec = "aborted" THEN "deleted" ELSE status
    /\ op' = "none" /\ result' = NoResult
    /\ UNCHANGED <<recvVars, callVars>>

\* Mutant: a handler does not look at cancelled_.
GotUnchecked(ec) == result.ec = ec

\* It returns false and the operation ended with ec.
Got(ec) == ~cancelled /\ result.ec = ec

sendCallback(data, len) ==
    /\ completed' = TRUE
    /\ calls' = calls + 1
    /\ event' = [data |-> data, len |-> len]
    /\ op' = "none" /\ result' = NoResult
    /\ UNCHANGED <<status, recvVars>>

\* The handler starts the next operation.
async(o, size) ==
    /\ op' = o /\ result' = NoResult /\ want' = size
    /\ UNCHANGED <<status, callVars>>

handleConnect ==
    /\ Handling("connect")
    /\ \/ cancelCheck
       \/ Got("error") /\ sendCallback("NULL", 0)
       \/ Got("ok") /\ async("write", 0) /\ UNCHANGED <<recvlen, aux>>

\* After the query is written the sending side is shut down, which may fail.
handleWrite ==
    /\ Handling("write")
    /\ \/ cancelCheck
       \/ Got("error") /\ sendCallback("NULL", 0)
       \/ "shutdown" \in Faults /\ Got("ok") /\ sendCallback("NULL", 0)
       \/ Got("ok") /\ async("readLength", 2) /\ UNCHANGED <<recvlen, aux>>

\* Mutant: the length is computed as a signed integer.
MsgLensSigned == {result.head}

\* The length field just read; out of step with the framing it is anything.
MsgLens == IF result.head >= 0 THEN {result.head} ELSE Lens

\* Mutant: the end of the connection is not reported.
handleReadLengthSilent ==
    /\ Handling("readLength")
    /\ \/ cancelCheck
       \/ /\ Got("eof") \/ Got("error")
          /\ op' = "none" /\ result' = NoResult
          /\ UNCHANGED <<status, recvVars, callVars>>
       \/ /\ Got("ok") /\ result.len = 2
          /\ \E msglen \in MsgLens : async("readData", msglen)
          /\ aux' = IF recvlen > 0 THEN aux + 1 ELSE aux
          /\ UNCHANGED recvlen

handleReadLength ==
    /\ Handling("readLength")
    /\ \/ cancelCheck
       \/ Got("eof") /\ sendCallback("recvbuf", recvlen)
       \/ Got("error") /\ sendCallback("NULL", 0)
       \/ /\ Got("ok") /\ result.len # 2        \* throws MessageSocketError
          /\ status' = "threw"
          /\ op' = "none" /\ result' = NoResult
          /\ UNCHANGED <<recvVars, callVars>>
       \/ /\ Got("ok") /\ result.len = 2
          /\ \E msglen \in MsgLens : async("readData", msglen)
          /\ aux' = IF recvlen > 0 THEN aux + 1 ELSE aux
          /\ UNCHANGED recvlen

\* Mutant: every message overwrites the length of the one before.
handleReadDataLast ==
    /\ Handling("readData")
    /\ \/ cancelCheck
       \/ Got("eof") /\ sendCallback("recvbuf", recvlen)
       \/ Got("error") /\ sendCallback("NULL", recvlen)
       \/ /\ Got("ok")
          /\ recvlen' = result.len
          /\ async("readLength", 2)
          /\ UNCHANGED aux

\* The length of the first message is remembered; all others are discarded.
handleReadData ==
    /\ Handling("readData")
    /\ \/ cancelCheck
       \/ Got("eof") /\ sendCallback("recvbuf", recvlen)
       \/ Got("error") /\ sendCallback("NULL", recvlen)
       \/ /\ Got("ok")
          /\ recvlen' = IF recvlen = 0 THEN result.len ELSE recvlen
          /\ async("readLength", 2)
          /\ UNCHANGED aux

\* A queued handler runs on the object that was deleted before.
handleDeleted ==
    /\ status = "deleted" /\ op # "none" /\ result # NoResult
    /\ status' = "crashed"
    /\ UNCHANGED <<op, result, cancelled, objVars, recvVars, callVars, netVars>>

Terminated ==
    /\ (~owned /\ op = "none") \/ status \in {"threw", "crashed"}
    /\ UNCHANGED vars

Handlers ==
    handleConnect \/ handleWrite \/ handleReadLength \/ handleReadData

Completions ==
    \/ \E o \in {"connect", "write"} : completes(o)
    \/ \E o \in {"readLength", "readData"} : receives(o)

Next ==
    \/ send
    \/ cancel
    \/ \E k \in 1..Len(wire) : serverSends(k)
    \/ serverEnds("closed")
    \/ "reset" \in Faults /\ serverEnds("reset")
    \/ Completions
    \/ Handlers
    \/ handleDeleted
    \/ Terminated

\* The io_service completes what can be completed and runs what is queued.
Fairness == WF_vars(Completions) /\ WF_vars(Handlers) /\ WF_vars(handleDeleted)

Spec == Init /\ [][Next]_vars

FairSpec == Spec /\ Fairness

-----------------------------------------------------------------------------
(* Properties *)

\* The variables keep their types.
TypeOK ==
    /\ status \in {"live", "deleted", "threw", "crashed"}
    /\ op \in Operations \cup {"none"}
    /\ result.ec \in {"pending", "ok", "eof", "error", "aborted"}
    /\ {owned, requested, opened, cancelled, completed, short} \subseteq BOOLEAN
    /\ want \in Lens \cup {0, 2}
    /\ {recvlen, aux, calls} \subseteq Nat
    /\ event.data \in {"none", "NULL", "recvbuf"}
    /\ event.len \in Nat
    /\ server \in {"open", "closed", "reset"}

Contract == INSTANCE MessageSocket WITH freed <- status \in {"deleted", "crashed"}

\* Whenever the owner releases the socket, also between the completion of an
\* operation and its handler: at most one callback, none after the release,
\* and the object is not deleted under its owner.
KeepsContract == Contract!Spec

\* A deleted object has no operation whose handler could still run, unless its
\* socket could not be opened.
DeletedIsQuiet ==
    opened => status # "crashed" /\ (status = "deleted" => op = "none")

\* Releasing a socket while its operation has not completed gets the object
\* deleted: the aborted handler does it.
AbortDeletes ==
    (cancelled /\ result.ec = "aborted") ~> status = "deleted"

\* The length of the first message that is not empty, or 0.
FirstLength ==
    LET nonempty == {k \in DOMAIN msgs : msgs[k] > 0}
    IN  IF nonempty = {} THEN 0 ELSE msgs[Min(nonempty)]

\* As long as every receive got what it asked for, a callback with data is given
\* the first message that is not empty, or nothing, whatever follows it on the
\* connection; and it is given that message if the server has sent all of them.
FirstMessageKept ==
    ~short /\ calls = 1 /\ event.data = "recvbuf" =>
        /\ event.len \in {0, FirstLength}
        /\ wire = <<>> => event.len = FirstLength

\* When the server ends the connection, the owner hears of it unless it
\* releases the socket or a handler throws.
EndIsReported ==
    (server # "open" /\ owned) ~> (calls = 1 \/ ~owned \/ status = "threw")

=============================================================================
