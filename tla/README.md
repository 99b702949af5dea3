# A verification project for queryperf++

queryperf++ sends DNS queries to a server as fast as the server answers them,
for a given time, and reports how many were answered. Each worker thread runs
one `Dispatcher`, which keeps a fixed number of queries outstanding
("the window") on one event loop. This directory models that machinery in
TLA+, model-checks it with TLC and proves the safety properties of every part
with TLAPS.

Paths below are relative to the repository root.

## The system

| Component | State | Operations | Hard because |
|---|---|---|---|
| `Dispatcher` (`src/lib/dispatcher.cc`) | list of outstanding contexts, `keep_sending_`, 16-bit `qid_`, two counters | `run`, `sendQuery`, `responseCallback`, `responseTCPCallback`, `restartQuery`, `sessionTimerCallback` | responses and timeouts race; IDs wrap; the session has to drain and stop |
| `QueryEvent` (same file) | ID, timer, TCP socket | `start`, `setTCPSocket`, `clearTCPSocket`, `queryTimerCallback` | one object, three event sources |
| `TCPMessageSocket` (`src/lib/asio_message_manager.cc`) | connection, pending operation, `cancelled_`, `completed_`, `recvdata_len_` | `send`, `cancel`, four handlers | deletes itself; the owner may let go between a completion and its handler; TCP is a byte stream |
| `UDPMessageSocket`, `ASIOMessageTimer`, `ASIOMessageManager` (same file) | pending receive, deadline, the `io_service` | `send`, `start`, `run`, `stop` | queued handlers cannot be taken back |
| `MessageSocket`, `MessageTimer`, `MessageManager` (`src/lib/message_manager.h`) | none (interfaces) | | the contract is not written down |
| `QueryRepository` (`src/lib/query_repository.cc`) | input stream, options, preloaded requests, configuration | `load`, `getNextQuery`, setters | end of input, rewinding, lines to be skipped |
| `QueryContext` (`src/lib/query_context.cc`) | message and renderer | `start` | no |
| `main` (`src/bin/queryperfpp/queryperfpp.cc`) | dispatchers, threads, summary | create, run, join, summarise | threads that fail to start or die |

The dispatcher calls the sockets and timers and is called back by them, all
within one thread. A context asks the repository for its next query each time
it starts. `main` touches a dispatcher before its thread starts and after it
was joined.

What makes each part correct:

* the dispatcher: the window is kept until the session timer fires, each query
  is answered or given up, the counters never claim more than was sent, the
  session ends;
* the TCP socket: one callback at most and none after the release, no handler
  on a deleted object, the first message is what is reported, and nothing is kept
  of the others;
* the repository: the queries of the input in their order, again and again,
  independent of each other, and failure only for a reason;
* the event loop: a timer calls back once for each expiry and never for an
  aborted wait, and one receive is under way at a time although callbacks send;
* the program: dispatchers live as long as their threads, the summary adds up
  the final counters of sessions that have ended and never claims more than was
  counted, the exit status has a reason, and the program ends when its sessions
  do.

## Modules

* **Dispatcher**: one session. `outstanding` is the `std::list`, whose contexts
  are numbers; `evQid`, `timer`, `queued` and `tcp` hold what each `QueryEvent`
  and its timer and socket hold. `timer` has the armed timers, `queued` those
  whose expiry handler is already in the queue of the `io_service`: restarting
  or destroying the timer does not take such a handler back, which is what
  asio documents and what makes the races of this program possible. `serial`,
  `answered` and `collided` are history variables. There is one action for each
  callback; `restartQuery` is the operator they share. `Splice` is what
  `outstanding_.splice(it, outstanding_, outstanding_.end())` does to a circular
  list with a sentinel (libstdc++, libc++): the list is rotated to begin with
  `it`. Exceptions that leave the event loop end in the phase `died` (the
  worker thread catches them), a failing `assert` in `aborted`, the use of a
  destroyed timer in `died` or `crashed`, and a TCP callback with a length but
  no data, which makes `responseTCPCallback` parse at NULL, in `crashed` (the
  fault `reset`). The data of a query and of a response
  is abstracted to which query it belongs to.
* **QuerySession**: what a session promises to its caller: `Window` queries
  outstanding, each of them answered or given up and replaced until the time is
  over, two counters, and an end. `Dispatcher!IsQuerySession` is the refinement;
  it holds for what the counters and the list say even after IDs have collided,
  since a context that is restarted in the place of another is still one of the
  window.
* **MessageTimer**: the abstract contract of a timer: an expired one calls back
  once and nothing takes that back. `Dispatcher!UsesTimers` shows that the
  session uses its query timers within it (no timer is used after its context
  is gone), `ASIOMessageManager!KeepsTimerContract` that the event loop provides
  it.
* **DispatcherProofs**, **DispatcherRefinement**, **DispatcherCredit**: the
  theorems about the session: its invariants, its two refinements, and what it
  credits.
* **MCDispatcher**: statements of the manual about the session that do not hold.
* **MessageSocket**: the abstract contract of a socket for one query.
* **TCPMessageSocket**: the implementation. One operation is pending at a time
  (`op`); completing it (`completes`, `receives`) and running its handler are
  separate steps, so that the owner's `cancel` can come between. The byte
  stream is `wire` (not arrived) and `arrived` (not read); the first byte of a
  length field carries the length and the other bytes are opaque. Once the
  framing is lost, a length field read from the middle of a body is any of
  `Lens`.
* **TCPMessageSocketProofs**: the theorems about it.
* **MCTCPMessageSocket**: claims about it that do not hold.
* **ASIOMessageManager**: the `io_service` as a queue of handlers in which one
  entry, `Poll`, stands for the reactor; `ASIOMessageTimer`, `UDPMessageSocket`
  and the manager's own operations. A callback is open between the handler that
  makes it and `callbackReturns`, and while it is open the owner may restart,
  cancel or destroy any timer, send, and stop the loop. Errors that a receive
  reports (an ICMP answer) arrive as datagrams do. Destroying a timer whose
  expiry handler is queued leads to `crashed`, as in Dispatcher.
* **ASIOMessageManagerProofs**: the theorems about it.
* **QueryperfMain**: the program. `opts` is the command line, chosen in `Init`
  with at most one bad argument; `pc`, `next` and `step` are where `main` is.
  The preparation of each dispatcher is the sequence `Setup`, one call per step,
  and a call is refused for its argument or because it comes too late. The
  worker threads step as `QuerySession`, which `Dispatcher` implements: the
  composition of `main` with sessions known by their specification only. Leaving
  the try block and the end of the process are two steps, between which a thread
  that was not joined may use a destroyed dispatcher. A session may stop taking
  steps for ever, as one does after a collision of IDs or over an input whose
  lines are all malformed; that a session takes the process down is a matter of
  Dispatcher and not repeated here. The queries come from the standard input
  or from an input of each dispatcher's own (`-d` or `-Q`; giving both is
  refused).
* **QueryperfMainProofs**: the theorems about it.
* **QueryRepository**: one step of `readNextRequest` is one line. Lines are
  abstracted to kinds: what is skipped (`blank`, `comment`), what is ignored
  after parsing (`malformed`, `badoption`) and what makes a query. The stream
  has a position, `eofbit` and `failbit`, and inputs that cannot be rewound are
  included. A call that throws ends the use of the repository, as it ends the
  worker (or, for `load`, the program).
* **QueryRepositoryProofs**: the theorems about it.
* **MCQueryRepository**: a claim of the manual that does not hold.
* **InductionLemmas**: induction and recursion over numbers, for the proofs.

`PROJECT.json` maps each definition to the lines it models.

### Faithfulness notes

* Queued expiry handlers, responses and TCP completions interleave freely. A
  real `io_service` runs what one poll found ready before it polls again, and
  in a certain order. A response handled while an expiry handler is queued is
  the case in which both became ready in the same poll.
* `timerExpires` requires that no handler of the same timer is queued: a timer
  that was restarted in this poll is not looked at before the next one.
* The two assumptions above are what `ASIOMessageManager` shows in detail: the
  reactor appends a handler for a readable socket and those of expired timers
  behind what is queued, and polls again only after they have run.
* The asio session timer is not queued separately: `sessionTimerCallback` only
  clears a flag, so the moment of its expiry is immaterial.
* TCP callbacks are atomic in Dispatcher: `clearTCPSocket` in the callback
  releases the socket, whose own life after that is the subject of
  TCPMessageSocket. That no callback comes after the release, on which
  Dispatcher relies, is `KeepsContract`.
* After a failure of the k-th initial send, the k-th context has its ID and its
  timer but its query is not counted: the action `run` covers each k. That the
  repository, the timer, or the socket fails is one fault, since the state left
  behind is the same.
* An ID that a response carries is the ID of some query of this session; a
  response with any other ID is ignored in the same way as a duplicate.
* `accumulateResult` adds the counters of every dispatcher. Those of a joined
  thread are what its session left. A thread that could not be joined still
  writes them without synchronisation, so each read (of the sent and of the
  completed ones, in this order, and of the end time) yields any value the
  counter has had so far. This includes what reads in program order would give:
  the loop over the dispatchers takes one step for each of them and sessions go
  on in between. Between the two reads for one dispatcher no session steps, and a
  completed counter read after later responses is covered by an older value of
  the sent one.
* The protocol is UDP or TCP; the exception of `setProtocol` for any other is
  left out, since `main` passes no other.

## Runs

Runs that pass:

| Run | Bounds | What it shows |
|---|---|---|
| `DispatcherUDP` | window 3, 5 IDs, 7 queries, all UDP faults | window, counters, timers, drain, collisions only with old queries, duplicates never counted while IDs are unique, refinement of `QuerySession`, use of `MessageTimer`, termination |
| `DispatcherTCP` | window 3, 4 IDs, 6 queries, connections that fail, unparsable responses, a reset after the first message, failing input | one socket per query, assertions, drain, each answer counted once, refinement of `QuerySession`, termination |
| `TCPSocket` | lengths 0, 1, 3, up to 3 messages in every segmentation, failures at each stage | the contract, self-deletion after an abort, the first message is reported, the end is reported |
| `MessageManager` | 2 timers, 4 starts, 2 datagrams, all faults | contract of timers, one receive at a time, delivery |
| `Repository` | all inputs of up to 3 lines of 7 kinds, all configurations, 4 queries, `MaxEmpty` 4 | order, independence of lines, an input with a query fails only when it is used up and cannot be rewound, return of the calls |
| `Main` | up to 2 threads, window 2, 3 queries per session, all options, failing `pthread_create` and `pthread_join` | lifetime of dispatchers, totals that never exceed what was counted even when read in a race, no wrap of `lost_count` and exact sums when all threads were joined, rates, exit status, termination unless a session never ends |

The bounds are small because the races are: a collision needs two contexts and
an ID space that is used up once (7 > 5, 6 > 4), a stale expiry needs one restart, the
order of the list needs three contexts, the leak of
a buffer three messages, and a wrap of the input more queries served than there are lines. A timer contract
needs a second timer whose callback interferes with the first, and four starts
let each be restarted while its handler is queued; with two threads one can fail
to be created or joined while the other runs; three queries are one more than
the window. In `Repository`, `MaxEmpty` is such that the lines skipped beside a
query, across the rewind, stay below it while an input of skipped lines only
reaches it. `QidSpace` is 65536 in the code and `MaxEmpty` 1000; nothing but
their relation to the other bounds matters. `malformed` is left out of the kinds of `Repository`: it is
treated as `badoption` is, with no serial parsed before.

Deadlock is checked in every run: the only states that stop are the ones in
which a session, a socket, a repository or the program is over, and those of the
event loop that waits for a datagram that never comes (`Terminated`).

Fairness. The clock advances and the event loop runs what is queued, so expiry
of an armed timer, each expiry handler, the session timer and the return of
`io_service::run` are weakly fair. Nothing is assumed of server or network: the
response actions have no fairness. For a TCP socket, completions that are
possible and handlers that are queued are weakly fair; the server is not. For
the repository, a call that is running goes on. For the event loop, polling,
queued handlers and the return of callbacks are weakly fair. For the program,
`main` is scheduled and a thread whose session is over returns. Nothing is
assumed of sessions, which may go on or hang for ever, nor of a failing
`pthread_join`, so `MainEnds` allows for a `main` that waits for a session that
does not end; that sessions end unless IDs collide is `EverySessionEnds`.

### Where the code differs from what is said of it

Each of these runs is expected to end in a violation.

| Run | Said | Shown |
|---|---|---|
| `ClaimSessionCompletes` | manual: the program completes the test | two queries under one ID over UDP: one loses its timer and the session never ends |
| `ClaimDrainsSafely` | manual: waits for all and completes | a queued expiry handler runs on a timer destroyed by the last response |
| `ClaimReleasedIsDeleted` | asio_message_manager.cc:331 the object destructs itself | not if its operation had completed when it was released |
| `ClaimRecvLen` | asio_message_manager.cc:171 length of the first message | the length of its first segment |
| `ClaimHeldTemporarily` | asio_message_manager.cc:283 further messages are held "only temporarily" | each further message leaks the buffer of the one before |
| `ClaimCommentsAreIgnored` | manual: comments and empty lines are ignored | `MAX_EMPTY_LOOP` of them in a row are an error |

The conditions of some passing properties are due to these, and to further
behaviours of the code that the models reach:

* two queries under one ID over TCP make `assert(tcp_sock_ == NULL)`
  (dispatcher.cc:89) fail: the phase `aborted`, in `AssertionsHold`;
* after the IDs have wrapped around, a late UDP response completes a newer query
  with its ID, although dispatcher.h:121 speaks of queries "correctly
  responded": the condition of `CreditedOnce`;
* an expiry handler that is queued behind the response of its context gives up
  the query sent a moment ago, although the manual speaks of a period of 5
  seconds: the action `queryTimerCallback` when the timer is armed again;
* a restarted context goes to the front of the list, although dispatcher.cc:318
  says "Move this context to the end of the queue.": `Splice`;
* half a length field makes `handleReadLength` throw, although the comment at
  asio_message_manager.cc:264 speaks of a connection closed "with partial
  message": the status `threw`, which `EndIsReported` excepts;
* a socket that cannot be opened and is released at once is deleted although its
  handler is queued ("there's nothing to do", asio_message_manager.cc:211): the
  condition `opened` of `DeletedIsQuiet`;
* a message whose body comes in more than one segment is cut short and the
  framing is lost: the condition `~short` of `FirstMessageKept`;
* an error after the first message is reported as NULL with a length
  (asio_message_manager.cc:311), which is why `FirstMessageKept` speaks of
  callbacks with data only, and the dispatcher parses it and crashes
  (dispatcher.cc:290-294): the phase `crashed` of `responseTCPCallback`, in which
  what was counted before is still right;
* when `pthread_create` fails for a later thread, or `pthread_join` fails, the
  try block of `main` is left with dispatchers destroyed under running threads
  (queryperfpp.cc:269 and 346): the condition of `DispatcherOutlivesThread`.
  After a failing `pthread_join` the counters are read in a race as well, and more
  may be shown as completed than as sent, so that `lost_count`
  (queryperfpp.cc:323) wraps around: `SummaryIsExact` and the second part of
  `SummaryIsSettled` are for programs whose threads were all joined;
* `end_time_` stays unset when an exception leaves `run`, so that the rate
  printed for that worker is computed from a time that is none: `RateNeedsTimes`
  says that this happens to failed sessions only;
* the exit status is 0 also if every worker died, and with `-n 0` bad values of
  `-p`, `-l` and `-C` go unnoticed: `StatusExplained`;
* the authority record of an IXFR query has the type IXFR and the data of an
  SOA. The unit test (query_repository_test.cc:246) expects this; the manual
  speaks of "an SOA RR". `ServedInOrder` takes it as it is;
* a line that is ignored resets `loop_count`, so without preloading an input
  that can be rewound and has malformed lines but no usable one is read for
  ever. `CallsReturn` says that every other call returns, and in QueryperfMain
  such a session is one that takes no further step.

A collision of IDs needs more than 65535 queries within the five seconds that a
lost query stays outstanding, about 13,100 queries per second and worker, which
is well within what the program is made for. `NoAbandonedQuery`,
`AssertionsHold` and `FinishedDrained` say that without a collision none of the
consequences above can happen, `CollisionNeedsOldQuery` that only such an old
query can be hit.

## What is proved

Every invariant, action property and refinement that a passing run checks is
also a theorem, for every value of the constants that satisfies the assumption
of its module (`FailsForAReason` up to long gaps, which the bounds of its run
exclude and `ClaimCommentsAreIgnored` is about). The assumptions are those of the code or of the bounds:

* `DispatcherAssumption`: the window is not empty and not larger than the ID
  space (20 and 65536 in the code), and the bound on queries allows the initial
  ones;
* `MainAssumption`: the same of the sessions, and any number of threads;
* `TCPAssumption`: any lengths and number of messages;
* `ManagerAssumption`: a finite set of timers (the code has one per query and
  one per session), any number of starts and datagrams;
* `RepositoryAssumption`: the limit on skipped lines is not 0 (1000 in the
  code); any input.

Faults are any subset of the ones a module knows, so that each theorem also
holds for a session without faults. All theorems are safety properties and use
`Spec`, without fairness.

None of the properties is inductive by itself. Each proof has an invariant that
is (one step per action), and reads the property off it.

**The session** (`DispatcherProofs`). `TypeCorrect`, `WindowIsKept`,
`CountersAgree`, `NoneAbandoned`, `AssertionsAreSafe`, `FinishedIsDrained` and,
for the action property `CollisionNeedsOldQuery`, `CollisionsAreOld`. `IInv` adds

* `Pristine`: before `run` the object is as constructed;
* `IdsDistinct`: as long as no collision has happened, no two outstanding
  contexts have the same ID, so that the context `restartQuery` finds is the
  one whose timer or socket called;
* `IdsLag`: each outstanding context's ID is that of its last query, and `qid`
  that of the next, so that IDs can only meet when the whole space lies between
  them. It is stated with the distance `sent - serial[c]`, without division.

`SpliceProperties` and `RemoveAtProperties` say that the two list operations
keep a list without repetitions. `RestartInv` carries the argument for
`restartQuery` once for its three callers; `NextInv` adds one step per action.

**What a session promises** (`DispatcherRefinement`). `RefinesQuerySession`:
each step of the session is a step of `QuerySession` or leaves its variables
alone. `TimersAreUsedAsAllowed`: the same for the timer of any one context and
`MessageTimer`. Both are shown step by step from `IInv`.

**Credits** (`DispatcherCredit`). `CreditedAtMostOnce`: as many different queries
are credited as the counter says. `CInv` adds to `IInv` that, before the IDs wrap
around, an ID is the number of its query (`IdsAreSerials`); that the numbers of
outstanding queries differ from each other and from those credited
(`CreditsDiffer`), so that a credit is always a new one; and that only TCP
queries have sockets (`SocketsAreTCP`).

**The TCP socket** (`TCPMessageSocketProofs`). `OInv` relates the flags of the
object to its pending operation and its owner (`ObjOK`): one callback exactly
when it has completed, nothing pending after that. `DeletedStaysQuiet` and the
refinement of the contract, `ImplementsMessageSocket`, follow.
The framing needs more: `FInv` says where in the stream the object is. `StreamOK`
postulates the whole stream `st` that the server's messages make and the offset
`off[k]` at which the k-th one ends; `Flow` says that what has arrived and what
is on the wire are its tail; and `Position`, while no receive was short, that the
object reads the length or the body of message k at its place, with the recorded
length that belongs to it. `NetOK` and `ResultOK` give the types
of what a handler is told. From `FInv`: `SocketTypeCorrect`
and `FirstMessageIsKept`.

**The event loop** (`ASIOMessageManagerProofs`). `AInv` adds to the types that the
reactor's entry `Poll` is in the queue exactly once while the loop works, and
that nothing but aborted handlers may follow it (`QueueOK`), and that one receive
handler is queued at most, and only for a datagram that is there
(`ReadableOnce`). `OneReceiveAtATime` needs the latter because a callback
sends while its own receive is being handled, `TimersKeepContract` the former because a
timer is looked at again only after the handlers of the last poll.

**The repository** (`QueryRepositoryProofs`). `RInv` says where the repository is
in its input: during `load` the requests are those of the lines before the
position (`Loading`, `ParamsOK`), afterwards `current` is the number of queries
served modulo the number of requests (`Loaded`); without preloading the queries
served are whole rounds and the queries before the position (`Reading`); and
`loop` counts lines that were all skipped, perhaps across the end of the input
(`Gap`). `QueriesServedInOrder` follows from the first ones. From the last one follows
`FailuresHaveAReason`: a call fails for a reason or in a `LongGap`, which is a
run of `MaxEmpty` skipped lines. Division is avoided: the number of rounds is
an existential in the invariant.

**The program** (`QueryperfMainProofs`). `MInv` says how far `main` is with the
options (`OptionsChecked`), with its threads (`ThreadsCreated`, `ThreadsJoined`)
and with the report (`Reported`), that sessions step only inside their threads
(`ThreadsRunSessions`), that the totals do not have more completed than sent if
all threads were joined (`LossIsCounted`), and that `main` is left early for a
reason only (`LeftEarly`). `StatusIsExplained`, `DispatchersOutliveThreads`,
`SummarySettled`, `SummaryExact` and `RatesHaveTimes` are for any number of
threads. The sums are over a recursive function. `SummaryExact` rests on `TotalsAdd`:
adding the counters of one more joined thread gives the next partial sum.
`SummarySettled` is for every reading of racing counters: `TotalsBounded` says
that the totals so far do not exceed the partial sums of what the sessions have
counted, which is kept because counters only grow (`SumsGrow`) and partial sums
with them (`SumsMonotone`).

**Induction** (`InductionLemmas`). The induction theorems of the library take a
predicate as a parameter, which the provers cannot instantiate. `SetInduction` is
stated for a set of numbers instead and derived from the well-foundedness of
`<`; `FiniteRecursion` derives from it that a function defined by recursion on
`0..n` exists and satisfies its equation, with the step given as a function. The
sum of the program and the concatenation of messages in the TCP socket are
handled this way.

Only model-checked: the liveness properties (`EverySessionEnds`, `AbortDeletes`,
`EndIsReported`, `DatagramsDelivered`, `CallsReturn`, `MainEnds`), since reasoning
about fairness and `ENABLED` is out of the prover's reach; and the runs that end
in a violation, which are counterexamples.

## Plan

Done: the session with its abstract specification, the TCP socket and the timers
with their contracts, the event loop, the repository, the program with its
threads, and the safety proofs of all of them.

Next: action properties across components that follow from the invariants
proved (the order of a context's queries, what a release may still change), and
shorter proofs where two actions share an argument. Liveness stays with TLC.

## Not modelled

* The text side of the program: the usage message, the layout of the summary,
  the spelling of options and of input lines. It is sequential text processing;
  what is accepted and what is refused is in QueryperfMain and QueryRepository.
* Rendering in `QueryContext::start` and the DNS library: names, types, rendering
  and header parsing appear as success or failure.
* The clock beyond the order in which timers may expire, and so the value of a
  rate; only whether both times exist is kept.
* Out-of-memory conditions and exceptions that are not `std::exception`.
