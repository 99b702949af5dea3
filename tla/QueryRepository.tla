-------------------------- MODULE QueryRepository --------------------------
(***************************************************************************)
(* class QueryRepository of lib/query_repository.cc: the source of queries *)
(* of one worker.  Without preloading getNextQuery() reads the input until *)
(* it finds a line it can use and starts over at its end; with preloading  *)
(* load() reads the whole input once and getNextQuery() cycles through it. *)
(*                                                                         *)
(* One step reads one line.  A line is abstracted to what becomes of it.   *)
(* The repository is used as the dispatcher and main() use it: configured, *)
(* perhaps preloaded, then asked for queries; an exception ends its use.   *)
(***************************************************************************)
EXTENDS Integers, Sequences, SequencesExt

CONSTANTS
    Kinds,      \* the kinds of lines the inputs are made of
    MaxLines,   \* bound: lines of an input
    MaxEmpty,   \* MAX_EMPTY_LOOP: 1000 in the code
    MaxServed   \* bound: queries taken from the repository

\* "malformed" is a line that is skipped with or without a message; "badoption"
\* one that is skipped after its serial option was parsed.
QueryKinds == {"normal", "axfr", "ixfr", "ixfr42"}
SkippedKinds == {"blank", "comment"}
IgnoredKinds == {"malformed", "badoption"}

ASSUME RepositoryAssumption ==
    /\ Kinds \subseteq QueryKinds \cup SkippedKinds \cup IgnoredKinds
    /\ MaxLines \in Nat /\ MaxServed \in Nat
    /\ MaxEmpty \in Nat \ {0}

VARIABLES
    file,       \* the lines of the input
    newline,    \* whether its last line is terminated
    seekable,   \* whether seekg() works: not on a pipe
    pos, eof, bad,  \* input_: the next line, eofbit, failbit
    status,     \* "usable", or "failed" after an exception
    call,       \* what is running: "none", "load", or "get"
    loop,       \* loop_count of readNextRequest()
    serial,     \* options_.serial
    config,     \* qclass_, use_dnssec_, use_edns_, proto_, DO bit of edns_
    params,     \* params_: the preloaded requests
    current,    \* current_param_, as a position
    started,    \* the dispatcher has started: start_time_ is set
    served      \* history: the queries handed out

streamVars == <<pos, eof, bad>>
inputVars == <<file, newline, seekable>>
vars == <<inputVars, streamVars, status, call, loop, serial, config, params,
          current, started, served>>

Init ==
    /\ file \in UNION {[1..n -> Kinds] : n \in 0..MaxLines}
    /\ newline \in BOOLEAN
    /\ ~newline => file # <<>> /\ file[Len(file)] # "blank"
    /\ seekable \in BOOLEAN
    /\ pos = 1 /\ eof = FALSE /\ bad = FALSE
    /\ status = "usable" /\ call = "none"
    /\ loop = 0 /\ serial = 0
    /\ config = [qclass |-> "IN", dnssec |-> TRUE, edns |-> TRUE,
                 proto |-> "udp", DO |-> TRUE]
    /\ params = <<>> /\ current = 0
    /\ started = FALSE
    /\ served = <<>>

-----------------------------------------------------------------------------
(* Configuration, before run() and before load() *)

Configurable == status = "usable" /\ call = "none" /\ ~started /\ params = <<>>

configure(c) ==
    /\ Configurable
    /\ config' = c
    /\ UNCHANGED <<inputVars, streamVars, status, call, loop, serial, params,
                   current, started, served>>

setQueryClass(qclass) == configure([config EXCEPT !.qclass = qclass])
setDNSSEC(on) == configure([config EXCEPT !.dnssec = on, !.DO = on])
setEDNS(on) == configure([config EXCEPT !.edns = on])
setProtocol(proto) == configure([config EXCEPT !.proto = proto])

-----------------------------------------------------------------------------
(* Reading the input *)

\* The authority section of a request: for IXFR one RRset made with the type of
\* the question, IXFR, to which the data of an SOA record is added.
Authorities(kind, ser) ==
    IF kind \in {"ixfr", "ixfr42"}
    THEN {[type |-> "IXFR", rdata |-> "SOA", serial |-> ser]}
    ELSE {}

\* RequestParam with setEDNSPolicy(): no EDNS for zone transfers.
RequestParam(kind, ser) ==
    LET xfr == kind \in {"axfr", "ixfr", "ixfr42"} IN
    [kind |-> kind, qclass |-> config.qclass, proto |-> config.proto,
     authorities |-> Authorities(kind, ser),
     useDNSSEC |-> config.dnssec /\ ~xfr,
     useEDNS |-> config.edns /\ ~xfr]

\* The message getNextQuery() makes of it.
MessageOf(p) ==
    [kind |-> p.kind, qclass |-> p.qclass, proto |-> p.proto,
     authorities |-> p.authorities,
     opt |-> p.useEDNS \/ p.useDNSSEC,
     DO |-> (p.useEDNS \/ p.useDNSSEC) /\ config.DO]

\* getline(): the line, and the stream after it.  A stream in an error state
\* gives nothing; reading at the end gives nothing and sets both bits.
GetLine ==
    IF eof \/ bad
    THEN [line |-> "blank", eof |-> eof, bad |-> TRUE, pos |-> pos]
    ELSE IF pos <= Len(file)
    THEN [line |-> file[pos], eof |-> pos = Len(file) /\ ~newline,
          bad |-> FALSE, pos |-> pos + 1]
    ELSE [line |-> "blank", eof |-> TRUE, bad |-> TRUE, pos |-> pos]

\* Mutant: options_ is not cleared between lines.
ParsedSerialStale(line) == IF line \in {"ixfr42", "badoption"} THEN 42 ELSE serial

\* options_.clear() and parseQueryOptions().
ParsedSerial(line) == IF line \in {"ixfr42", "badoption"} THEN 42 ELSE 0

throw ==
    /\ status' = "failed" /\ call' = "none"
    /\ UNCHANGED <<loop, serial, params, current, served>>

\* Mutant: the stream is rewound without clear().
advanceUncleared(g) ==
    IF g.eof /\ call = "get"
    THEN pos' = 1 /\ eof' = TRUE /\ bad' = TRUE
    ELSE pos' = g.pos /\ eof' = g.eof /\ bad' = g.bad

\* The stream after a line: at the end of the input it is cleared and rewound
\* if a query is wanted (call = "get").
advance(g) ==
    IF g.eof /\ call = "get"
    THEN pos' = 1 /\ eof' = FALSE /\ bad' = ~seekable
    ELSE pos' = g.pos /\ eof' = g.eof /\ bad' = g.bad

\* Mutant: load() does not give up on an empty input.
loadNeverGivesUp ==
    IF params = <<>>
    THEN UNCHANGED <<status, call, loop, serial, params, current, served>>
    ELSE /\ call' = "none" /\ current' = 1
         /\ UNCHANGED <<status, loop, serial, params, served>>

\* load() has read everything.
loadReturns ==
    IF params = <<>>
    THEN throw
    ELSE /\ call' = "none" /\ current' = 1
         /\ UNCHANGED <<status, loop, serial, params, served>>

\* A request was found.
deliver(p) ==
    /\ IF call = "load"
       THEN params' = Append(params, p) /\ UNCHANGED <<call, served>>
       ELSE call' = "none" /\ served' = Append(served, MessageOf(p))
            /\ UNCHANGED params
    /\ UNCHANGED <<status, current>>

\* A line with text: parsed, and delivered or ignored.
useLine(line) ==
    /\ loop' = 0
    /\ serial' = ParsedSerial(line)
    /\ IF line \in QueryKinds
       THEN deliver(RequestParam(line, serial'))
       ELSE UNCHANGED <<status, call, params, current, served>>

\* The inner loop of readNextRequest(), one line.
readNextRequest ==
    /\ status = "usable" /\ call # "none"
    /\ UNCHANGED <<inputVars, config, started>>
    /\ LET g == GetLine IN
       \/ loop = MaxEmpty /\ throw /\ UNCHANGED streamVars
       \/ /\ loop < MaxEmpty
          /\ g.eof /\ call = "load" /\ g.line = "blank"
          /\ loadReturns
          /\ advance(g)
       \/ /\ loop < MaxEmpty
          /\ ~g.eof /\ g.bad
          /\ throw
          /\ advance(g)
       \/ /\ loop < MaxEmpty
          /\ ~(g.eof /\ call = "load" /\ g.line = "blank")
          /\ g.eof \/ ~g.bad
          /\ IF g.line \in SkippedKinds
             THEN /\ loop' = loop + 1
                  /\ UNCHANGED <<status, call, serial, params, current, served>>
             ELSE useLine(g.line)
          /\ advance(g)

-----------------------------------------------------------------------------
(* Operations *)

\* Dispatcher::loadQueries() and load(): rejected after run() and after load().
load ==
    /\ Configurable
    /\ call' = "load" /\ loop' = 0
    /\ UNCHANGED <<inputVars, streamVars, status, serial, config, params,
                   current, started, served>>

\* Mutant: no return to the first one.
NextParamUnbounded(i) == i + 1

\* The position after i in the preloaded requests.
NextParam(i) == IF i = Len(params) THEN 1 ELSE i + 1

\* QueryContext::start(), getNextQuery() and getNextParam().
getNextQuery ==
    /\ status = "usable" /\ call = "none"
    /\ Len(served) < MaxServed
    /\ started' = TRUE
    /\ IF params # <<>>
       THEN /\ served' = Append(served, MessageOf(params[current]))
            /\ current' = NextParam(current)
            /\ UNCHANGED <<call, loop>>
       ELSE /\ call' = "get" /\ loop' = 0
            /\ UNCHANGED <<served, current>>
    /\ UNCHANGED <<inputVars, streamVars, status, serial, config, params>>

Terminated ==
    /\ status = "failed" \/ Len(served) = MaxServed
    /\ UNCHANGED vars

Next ==
    \/ \E qclass \in {"IN", "CH"} : setQueryClass(qclass)
    \/ \E on \in BOOLEAN : setDNSSEC(on) \/ setEDNS(on)
    \/ \E proto \in {"udp", "tcp"} : setProtocol(proto)
    \/ load
    \/ getNextQuery
    \/ readNextRequest
    \/ Terminated

Spec == Init /\ [][Next]_vars

\* A call that is running goes on.
FairSpec == Spec /\ WF_vars(readNextRequest)

-----------------------------------------------------------------------------
(* Properties *)

\* The variables keep their types; current_param_ is valid when it is used.
TypeOK ==
    /\ pos \in 1..(Len(file) + 1)
    /\ {eof, bad, started} \subseteq BOOLEAN
    /\ status \in {"usable", "failed"}
    /\ call \in {"none", "load", "get"}
    /\ loop \in 0..MaxEmpty
    /\ status = "usable" /\ call = "none" /\ params # <<>> =>
         current \in 1..Len(params)
    /\ Len(served) <= MaxServed

\* The lines of the input that make queries, and how many there are before n.
QueryLines == {i \in DOMAIN file : file[i] \in QueryKinds}
QueriesBefore(n) == Cardinality({i \in QueryLines : i < n})

\* What is asked for a line of a kind according to the configuration alone.
Expected(kind) ==
    LET xfr == kind # "normal" IN
    [kind |-> kind, qclass |-> config.qclass, proto |-> config.proto,
     authorities |-> Authorities(kind, IF kind = "ixfr42" THEN 42 ELSE 0),
     opt |-> ~xfr /\ (config.edns \/ config.dnssec),
     DO |-> ~xfr /\ config.dnssec]

\* Preloaded or not, wherever the input ends and whatever is skipped, the
\* queries are those of the input, in its order, over and over, and none is
\* affected by the options of another line.
ServedInOrder ==
    \A k \in DOMAIN served : \E i \in QueryLines :
        /\ QueriesBefore(i) = (k - 1) % Cardinality(QueryLines)
        /\ served[k] = Expected(file[i])

\* The repository fails only for an input without queries, or when an input that
\* cannot be rewound is used up: the limit of MaxEmpty lines does not hit another
\* input, also where the lines skipped at the end and those skipped after the
\* rewind follow one another.
FailsForAReason ==
    status = "failed" =>
        \/ QueryLines = {}
        \/ ~seekable /\ Len(served) >= Cardinality(QueryLines)

\* A call on an input that has a query, that cannot be rewound or in which every
\* line is skipped, or any call of load().
BoundedCall ==
    \/ call = "load"
    \/ /\ call = "get"
       /\ \/ QueryLines # {}
          \/ ~seekable
          \/ \A i \in DOMAIN file : file[i] \in SkippedKinds

\* load() returns, and unless the input is nothing but lines that cannot be used
\* getNextQuery() does, with a query or an exception: "to prevent a busy loop".
CallsReturn == BoundedCall ~> call = "none"

=============================================================================
