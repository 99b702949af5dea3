---------------------- MODULE ASIOMessageManagerProofs ----------------------
(***************************************************************************)
(* Proofs about ASIOMessageManager, for every set of timers and every      *)
(* bound.                                                                  *)
(***************************************************************************)
EXTENDS ASIOMessageManager, SequenceTheorems, FiniteSetTheorems, TLAPS

-----------------------------------------------------------------------------
(* The inductive invariant *)

Aborts == {Aborted(t) : t \in Timers}
Events == {Expired(t) : t \in Timers} \cup {Readable}
Entries == Aborts \cup Events \cup {Poll}

\* The poll is at position k of the queue q: what it found the last time is
\* before it, and only what was aborted since then is behind.
PollAt(q, k) ==
    /\ k \in 1..Len(q)
    /\ q[k] = Poll
    /\ \A j \in 1..Len(q) : /\ j < k => q[j] \in Aborts \cup Events
                            /\ j > k => q[j] \in Aborts

Working == state \in {"idle", "running"}

\* The queue and the handler that is running.
QueueOK ==
    /\ queue \in Seq(Entries)
    /\ current \in Events \cup {NoHandler}
    /\ Working => \E k \in 1..Len(queue) : PollAt(queue, k)
    /\ state = "idle" =>
         current = NoHandler /\ ToSet(queue) \subseteq Aborts \cup {Poll}

\* One receive handler is queued at most, and there is something to receive.
ReadableOnce ==
    Working =>
        /\ \A i, j \in 1..Len(queue) :
             queue[i] = Readable /\ queue[j] = Readable => i = j
        /\ Readable \in ToSet(queue) => receiving /\ inbox.unread > 0
        /\ current = Readable => receiving

\* The counters of the socket.
InboxTyped == inbox \in [unread : Nat, all : Nat]

AInv ==
    /\ TypeOK
    /\ InboxTyped
    /\ QueueOK
    /\ ReadableOnce
    /\ OneReceive

-----------------------------------------------------------------------------
(* The entries of the queue *)

\* Different entries are different, and an expiry tells its timer.
LEMMA EntriesDiffer ==
    /\ Poll \notin Aborts \cup Events /\ NoHandler \notin Entries
    /\ Readable \notin Aborts /\ NoHandler # Readable
    /\ \A t \in Timers :
         /\ Expired(t) \notin Aborts \cup {Readable, Poll, NoHandler}
         /\ Expired(t) \in Events /\ Aborted(t) \in Aborts
    /\ \A t, u \in Timers : Expired(t) = Expired(u) => t = u
<1> USE DEF Poll, NoHandler, Readable, Expired, Aborted, Aborts, Events, Entries
<1>1. \A t, u \in Timers : Expired(t) # Aborted(u)
  OBVIOUS
<1>2. \A t \in Timers : /\ Aborted(t) \notin {Readable, Poll, NoHandler}
                        /\ Expired(t) \notin {Readable, Poll, NoHandler}
  OBVIOUS
<1>3. Poll # Readable /\ Poll # NoHandler /\ NoHandler # Readable
  OBVIOUS
<1>4. \A t, u \in Timers : Expired(t) = Expired(u) => t = u
  OBVIOUS
<1> QED BY <1>1, <1>2, <1>3, <1>4

\* An aborted wait is queued behind the poll.
LEMMA AppendAborted ==
    ASSUME NEW q \in Seq(Entries), NEW e \in Aborts
    PROVE  /\ Append(q, e) \in Seq(Entries)
           /\ ToSet(Append(q, e)) = ToSet(q) \cup {e}
           /\ \A k \in 1..Len(q) : PollAt(q, k) => PollAt(Append(q, e), k)
           /\ Len(Append(q, e)) = Len(q) + 1
           /\ \A k \in 1..Len(q) : Append(q, e)[k] = q[k]
           /\ Append(q, e)[Len(q) + 1] = e
<1> DEFINE r == Append(q, e)
           n == Len(q)
<1>1. /\ r \in Seq(Entries) /\ Len(r) = n + 1
      /\ \A k \in 1..n : r[k] = q[k]
      /\ r[n + 1] = e
      /\ n \in Nat
  BY AppendProperties DEF Entries
<1> HIDE DEF r, n
<1>2. DOMAIN r = 1..(n + 1) /\ DOMAIN q = 1..n
  BY <1>1 DEF n
<1>3. ToSet(r) = ToSet(q) \cup {e}
  BY <1>1, <1>2 DEF ToSet
<1>4. ASSUME NEW k \in 1..n, PollAt(q, k)
      PROVE  PollAt(r, k)
  BY <1>1, <1>4 DEF PollAt, n
<1> QED BY <1>1, <1>3, <1>4 DEF r, n

\* Running a handler takes it from the front of the queue.
LEMMA TakeHandler ==
    ASSUME NEW q \in Seq(Entries), NEW k \in 1..Len(q), PollAt(q, k),
           Head(q) # Poll
    PROVE  /\ Tail(q) \in Seq(Entries)
           /\ ToSet(q) = ToSet(Tail(q)) \cup {Head(q)}
           /\ k - 1 \in 1..Len(Tail(q)) /\ PollAt(Tail(q), k - 1)
           /\ Len(Tail(q)) = Len(q) - 1
           /\ \A j \in 1..Len(Tail(q)) : Tail(q)[j] = q[j + 1]
           /\ q[1] = Head(q) /\ 1 \in 1..Len(q)
<1> DEFINE r == Tail(q)
           n == Len(q)
<1>1. n \in Nat /\ n > 0 /\ q # <<>> /\ q[1] = Head(q) /\ k # 1
  BY DEF PollAt
<1>2. /\ r \in Seq(Entries) /\ Len(r) = n - 1
      /\ \A j \in 1..(n - 1) : r[j] = q[j + 1]
  BY <1>1, HeadTailProperties
<1> HIDE DEF r, n
<1>3. DOMAIN r = 1..(n - 1) /\ DOMAIN q = 1..n
  BY <1>2 DEF n
<1>4. ToSet(q) = ToSet(r) \cup {Head(q)}
  <2>0. \A j \in 1..(n - 1) : j + 1 \in 1..n
    BY <1>1
  <2>1. ToSet(r) \cup {Head(q)} \subseteq ToSet(q)
    <3>1. ToSet(r) \subseteq ToSet(q)
      BY <1>2, <1>3, <2>0 DEF ToSet
    <3>2. Head(q) \in ToSet(q)
      BY <1>1, <1>3 DEF ToSet
    <3> QED BY <3>1, <3>2
  <2>2. ASSUME NEW j \in 1..n PROVE q[j] \in ToSet(r) \cup {Head(q)}
    <3>1. CASE j = 1
      BY <1>1, <3>1
    <3>2. CASE j > 1
      <4>1. j - 1 \in 1..(n - 1) /\ r[j - 1] = q[j]
        BY <1>1, <1>2, <3>2
      <4> QED BY <1>3, <4>1 DEF ToSet
    <3> QED BY <3>1, <3>2
  <2> QED BY <1>3, <2>1, <2>2 DEF ToSet
<1>5. k - 1 \in 1..(n - 1)
  BY <1>1 DEF n
<1>6. PollAt(r, k - 1)
  <2>1. \A j \in 1..(n - 1) : /\ j + 1 \in 1..n
                              /\ j < k - 1 => j + 1 < k
                              /\ j > k - 1 => j + 1 > k
    BY <1>1, <1>5
  <2>2. r[k - 1] = Poll
    BY <1>1, <1>2, <1>5 DEF PollAt
  <2> QED BY <1>2, <1>5, <2>1, <2>2 DEF PollAt, n
<1> QED BY <1>1, <1>2, <1>4, <1>5, <1>6 DEF r, n

\* When the poll is next, all that is queued was aborted.
LEMMA PollNext ==
    ASSUME NEW q \in Seq(Entries), NEW k \in 1..Len(q), PollAt(q, k),
           Head(q) = Poll
    PROVE  Tail(q) \in Seq(Aborts) /\ ToSet(q) \subseteq Aborts \cup {Poll}
<1>1. /\ Len(q) \in Nat /\ Len(q) > 0 /\ q # <<>> /\ q[1] = Head(q)
      /\ DOMAIN q = 1..Len(q)
  OBVIOUS
<1>2. k = 1
  BY <1>1, EntriesDiffer DEF PollAt
<1>3. /\ Tail(q) \in Seq(Entries) /\ Len(Tail(q)) = Len(q) - 1
      /\ \A j \in 1..(Len(q) - 1) : Tail(q)[j] = q[j + 1]
  BY <1>1, HeadTailProperties
<1>4. \A j \in 1..(Len(q) - 1) : Tail(q)[j] \in Aborts
  <2>1. \A j \in 1..(Len(q) - 1) : j + 1 \in 1..Len(q) /\ j + 1 > k
    BY <1>1, <1>2
  <2> QED BY <1>3, <2>1 DEF PollAt
<1>5. Tail(q) \in Seq(Aborts)
  <2> DEFINE r == Tail(q)
             n == Len(q) - 1
  <2>1. n \in Nat /\ r \in [1..n -> Entries] /\ \A j \in 1..n : r[j] \in Aborts
    BY <1>1, <1>3, <1>4, LenProperties
  <2> HIDE DEF r, n
  <2>2. r \in [1..n -> Aborts]
    BY <2>1
  <2>3. r \in Seq(Aborts)
    BY <2>1, <2>2, SeqDef
  <2> QED BY <2>3 DEF r
<1>6. \A j \in 1..Len(q) : q[j] \in Aborts \cup {Poll}
  BY <1>1, <1>2 DEF PollAt
<1> QED BY <1>1, <1>5, <1>6 DEF ToSet

\* What the poll leaves in the queue: the waits aborted before it, the receive
\* that is ready, the expired timers and itself.
AfterPoll(a, rd, s) ==
    a \o Append(rd \o [i \in DOMAIN s |-> Expired(s[i])], Poll)

\* The queue q has the poll at its end, an expiry for every timer of s and one
\* receive handler at most, which rd stands for.
PolledQueue(q, rd, s) ==
    /\ q \in Seq(Entries)
    /\ PollAt(q, Len(q))
    /\ \A t \in Timers : Expired(t) \in ToSet(q) <=> t \in ToSet(s)
    /\ \A i, j \in 1..Len(q) : q[i] = Readable /\ q[j] = Readable => i = j
    /\ Readable \in ToSet(q) => rd = <<Readable>>

\* The poll makes such a queue.
LEMMA QueueAfterPoll ==
    ASSUME NEW a \in Seq(Aborts), NEW rd \in {<<>>, <<Readable>>},
           NEW s \in Seq(Timers)
    PROVE  PolledQueue(AfterPoll(a, rd, s), rd, s)
<1> DEFINE q == AfterPoll(a, rd, s)
           E == ToSet(s)
           m == Len(s)
<1>0. m \in Nat /\ s \in [1..m -> E] /\ E \in SUBSET Timers
  BY DEF ToSet
<1> HIDE DEF q, E, m
<1> DEFINE x == [i \in DOMAIN s |-> Expired(s[i])]
           b == rd \o x
           c == Append(b, Poll)
           la == Len(a)
           lr == Len(rd)
           n == la + lr + m + 1
<1>1. /\ rd \in Seq(Entries) /\ lr \in {0, 1}
      /\ lr = 1 => rd = <<Readable>> /\ rd[1] = Readable
  <2>1. Readable \in Entries
    BY DEF Entries, Events
  <2>2. CASE rd = <<>>
    BY <2>2, EmptySeq
  <2>3. CASE rd = <<Readable>>
    BY <2>1, <2>3
  <2> QED BY <2>2, <2>3
<1>2. /\ x \in Seq(Entries) /\ Len(x) = m
      /\ \A i \in 1..m : x[i] = Expired(s[i])
  <2>1. \A i \in 1..m : s[i] \in Timers /\ Expired(s[i]) \in Entries
    BY <1>0 DEF Entries, Events
  <2>2. x \in [1..m -> Entries]
    BY <1>0, <2>1
  <2> QED BY <1>0, <2>2, SeqDef
<1>3. a \in Seq(Entries) /\ la \in Nat
  <2>1. Aborts \subseteq Entries
    BY DEF Entries
  <2> QED BY <2>1, SeqMonotonic, LenProperties
<1> HIDE DEF x
<1>4. /\ b \in Seq(Entries) /\ Len(b) = lr + m
      /\ \A i \in 1..(lr + m) : b[i] = IF i <= lr THEN rd[i] ELSE x[i - lr]
  <2>0. rd \in Seq(Entries) /\ x \in Seq(Entries)
    BY <1>1, <1>2
  <2>1. /\ rd \o x \in Seq(Entries) /\ Len(rd \o x) = Len(rd) + Len(x)
        /\ \A i \in 1..(Len(rd) + Len(x)) :
             (rd \o x)[i] = IF i <= Len(rd) THEN rd[i] ELSE x[i - Len(rd)]
    BY <2>0, ConcatProperties, Zenon
  <2> QED BY <1>2, <2>1
<1> HIDE DEF b
<1>5. /\ c \in Seq(Entries) /\ Len(c) = lr + m + 1
      /\ \A i \in 1..(lr + m) : c[i] = b[i]
      /\ c[lr + m + 1] = Poll
  <2>1. Poll \in Entries
    BY DEF Entries
  <2>2. lr + m \in Nat
    BY <1>0, <1>1
  <2>3. /\ Append(b, Poll) \in Seq(Entries)
        /\ Len(Append(b, Poll)) = Len(b) + 1
        /\ \A i \in 1..Len(b) : Append(b, Poll)[i] = b[i]
        /\ Append(b, Poll)[Len(b) + 1] = Poll
    BY <1>4, <2>1, AppendProperties
  <2> QED BY <1>4, <2>2, <2>3
<1> HIDE DEF c
<1>6. q = a \o c
  BY DEF c, b, x, q, AfterPoll
<1>7. /\ q \in Seq(Entries) /\ Len(q) = n
      /\ \A i \in 1..n : q[i] = IF i <= la THEN a[i] ELSE c[i - la]
  <2>1. /\ a \o c \in Seq(Entries) /\ Len(a \o c) = Len(a) + Len(c)
        /\ \A i \in 1..(Len(a) + Len(c)) :
             (a \o c)[i] = IF i <= Len(a) THEN a[i] ELSE c[i - Len(a)]
    BY <1>3, <1>5, ConcatProperties
  <2>2. Len(a) + Len(c) = n
    BY <1>0, <1>1, <1>3, <1>5
  <2> QED BY <1>6, <2>1, <2>2
<1>8. DOMAIN q = 1..n /\ DOMAIN s = 1..m
  BY <1>0, <1>7
<1> HIDE DEF la, lr
<1>9. \A i \in 1..n :
        \/ i <= la /\ q[i] \in Aborts
        \/ lr = 1 /\ i = la + 1 /\ q[i] = Readable
        \/ \E j \in 1..m : i = la + lr + j /\ q[i] = Expired(s[j])
        \/ i = n /\ q[i] = Poll
  <2> SUFFICES ASSUME NEW i \in 1..n
               PROVE  \/ i <= la /\ q[i] \in Aborts
                      \/ lr = 1 /\ i = la + 1 /\ q[i] = Readable
                      \/ \E j \in 1..m : i = la + lr + j /\ q[i] = Expired(s[j])
                      \/ i = n /\ q[i] = Poll
    OBVIOUS
  <2>1. CASE i <= la
    BY <1>7, <2>1, ElementOfSeq DEF la
  <2>2. CASE i = n
    <3>1. i - la = lr + m + 1 /\ ~(i <= la)
      BY <1>0, <1>1, <1>3, <2>2
    <3>2. q[i] = c[i - la]
      BY <1>7, <3>1
    <3> QED BY <1>5, <2>2, <3>1, <3>2
  <2>3. CASE i > la /\ i <= la + lr
    <3>1. lr = 1 /\ i = la + 1 /\ i - la = 1 /\ ~(i <= la)
      BY <1>0, <1>1, <1>3, <2>3
    <3>2. 1 \in 1..(lr + m) /\ 1 <= lr
      BY <1>0, <3>1
    <3>3. c[1] = Readable
      BY <1>1, <1>4, <1>5, <3>1, <3>2
    <3>4. q[i] = c[1]
      BY <1>7, <3>1
    <3> QED BY <3>1, <3>3, <3>4
  <2>4. CASE i > la + lr /\ i < n
    <3> DEFINE j == i - la - lr
    <3>1. /\ j \in 1..m /\ i = la + lr + j /\ i - la \in 1..(lr + m)
          /\ ~(i - la <= lr) /\ (i - la) - lr = j /\ ~(i <= la)
      BY <1>0, <1>1, <1>3, <2>4
    <3>2. q[i] = x[j]
      BY <1>4, <1>5, <1>7, <3>1
    <3> QED BY <1>2, <3>1, <3>2
  <2>5. \/ i <= la \/ i = n
        \/ i > la /\ i <= la + lr
        \/ i > la + lr /\ i < n
    BY <1>0, <1>1, <1>3
  <2> HIDE DEF n
  <2> QED BY <2>1, <2>2, <2>3, <2>4, <2>5
<1>10. \A j \in 1..m : la + lr + j \in 1..n /\ q[la + lr + j] = Expired(s[j])
  <2> SUFFICES ASSUME NEW j \in 1..m
               PROVE  la + lr + j \in 1..n /\ q[la + lr + j] = Expired(s[j])
    OBVIOUS
  <2> DEFINE i == la + lr + j
  <2>1. /\ i \in 1..n /\ i - la \in 1..(lr + m) /\ ~(i - la <= lr)
        /\ (i - la) - lr = j /\ ~(i <= la)
    BY <1>0, <1>1, <1>3
  <2> QED BY <1>2, <1>4, <1>5, <1>7, <2>1
<1>11. PollAt(q, n)
  <2>1. n \in 1..n /\ q[n] = Poll
    <3>1. n \in 1..n /\ n - la = lr + m + 1 /\ ~(n <= la)
      BY <1>0, <1>1, <1>3
    <3> QED BY <1>5, <1>7, <3>1
  <2>2. ASSUME NEW i \in 1..n, i < n PROVE q[i] \in Aborts \cup Events
    <3>1. \A j \in 1..m : Expired(s[j]) \in Events
      BY <1>0 DEF Events
    <3>2. Readable \in Events
      BY DEF Events
    <3>3. i # n
      BY <1>0, <1>1, <1>3, <2>2
    <3> HIDE DEF n
    <3> QED BY <1>9, <3>1, <3>2, <3>3
  <2>3. \A i \in 1..n : ~(i > n)
    BY <1>0, <1>1, <1>3
  <2> QED BY <1>7, <2>1, <2>2, <2>3 DEF PollAt
<1>12. ASSUME NEW t \in Timers PROVE Expired(t) \in ToSet(q) <=> t \in E
  <2>1. ASSUME t \in E PROVE Expired(t) \in ToSet(q)
    <3>1. PICK j \in 1..m : s[j] = t
      BY <1>8, <2>1 DEF ToSet, E
    <3> QED BY <1>8, <1>10, <3>1 DEF ToSet
  <2>2. ASSUME NEW i \in 1..n, q[i] = Expired(t) PROVE t \in E
    <3>1. \E j \in 1..m : Expired(t) = Expired(s[j])
      BY <1>9, <2>2, EntriesDiffer
    <3> QED BY <1>0, <3>1, EntriesDiffer
  <2> QED BY <1>8, <2>1, <2>2 DEF ToSet
<1>13. ASSUME NEW i \in 1..n, q[i] = Readable PROVE lr = 1 /\ i = la + 1
  <2>1. \A j \in 1..m : Expired(s[j]) # Readable
    BY <1>0, EntriesDiffer
  <2>2. q[i] # Poll /\ q[i] \notin Aborts
    BY <1>13, EntriesDiffer DEF Events
  <2> QED BY <1>9, <1>13, <2>1, <2>2
<1>14. Readable \in ToSet(q) => rd = <<Readable>>
  BY <1>1, <1>8, <1>13 DEF ToSet
<1> HIDE DEF n
<1>15. \A i, j \in 1..n : q[i] = Readable /\ q[j] = Readable => i = j
  BY <1>13
<1> QED BY <1>7, <1>11, <1>12, <1>14, <1>15 DEF PolledQueue, q, E

-----------------------------------------------------------------------------
(* The invariant is inductive *)

\* A queue of entries and a running handler hold nothing but what TypeOK names.
LEMMA QueueTyped ==
    ASSUME NEW q \in Seq(Entries), NEW c \in Events \cup {NoHandler}
    PROVE  ToSet(q) \cup {c} \subseteq
             {NoHandler, Poll, Readable}
               \cup UNION {{Expired(t), Aborted(t)} : t \in Timers}
<1>1. ToSet(q) \subseteq Entries
  BY DEF ToSet
<1> QED BY <1>1 DEF Entries, Aborts, Events

\* At the start only the poll is queued.
LEMMA ManagerInit == Init => AInv
<1> SUFFICES ASSUME Init PROVE AInv
  OBVIOUS
<1>1. /\ Len(queue) = 1 /\ queue[1] = Poll /\ ToSet(queue) = {Poll}
      /\ queue \in Seq(Entries)
  BY DEF Init, ToSet, Entries
<1>2. PollAt(queue, 1)
  BY <1>1 DEF PollAt
<1>3. QueueOK
  BY <1>1, <1>2 DEF QueueOK, Init
<1>4. ReadableOnce
  BY <1>1, EntriesDiffer DEF ReadableOnce, Init, Events
<1>5. InboxTyped /\ inbox.unread = 0 /\ inbox.all = 0
  BY DEF InboxTyped, Init
<1>6. receiving \in BOOLEAN /\ stopping \in BOOLEAN
  BY Zenon DEF Init
<1>7. TypeOK
  <2>1. ToSet(queue) \cup {current} \subseteq
          {NoHandler, Poll, Readable}
            \cup UNION {{Expired(t), Aborted(t)} : t \in Timers}
    BY <1>3, QueueTyped DEF QueueOK
  <2>2. /\ starts \in 0..MaxStarts /\ inbox.unread \in 0..inbox.all
        /\ inbox.all \in 0..MaxDatagrams
    BY <1>5, ManagerAssumption DEF Init
  <2> QED BY <1>6, <2>1, <2>2 DEF TypeOK, Init
<1> QED BY <1>3, <1>4, <1>5, <1>7 DEF AInv, InboxTyped, OneReceive, Init

\* What a call leaves of the queue when it aborts a wait.
LEMMA AbortKeepsQueue ==
    ASSUME AInv, MayCall, NEW t \in Timers, abortWait(t),
           UNCHANGED <<state, current, receiving, inbox>>
    PROVE  /\ QueueOK' /\ ReadableOnce'
           /\ \A u \in Timers : Expired(u) \in ToSet(queue')
                                  <=> Expired(u) \in ToSet(queue)
<1>1. CASE queue' = queue
  BY <1>1 DEF AInv, QueueOK, ReadableOnce, Working, PollAt
<1>2. CASE queue' = Append(queue, Aborted(t))
  <2>1. Aborted(t) \in Aborts /\ queue \in Seq(Entries)
    BY DEF Aborts, AInv, QueueOK
  <2>2. /\ queue' \in Seq(Entries)
        /\ ToSet(queue') = ToSet(queue) \cup {Aborted(t)}
        /\ \A k \in 1..Len(queue) : PollAt(queue, k) => PollAt(queue', k)
        /\ Len(queue') = Len(queue) + 1
        /\ \A k \in 1..Len(queue) : queue'[k] = queue[k]
        /\ queue'[Len(queue) + 1] = Aborted(t)
    BY <1>2, <2>1, AppendAborted
  <2>3. Len(queue) \in Nat
    BY <2>1
  <2>4. QueueOK'
    <3>1. Working => \E k \in 1..Len(queue') : PollAt(queue', k)
      BY <2>2, <2>3 DEF AInv, QueueOK
    <3> QED BY <2>1, <2>2, <3>1 DEF AInv, QueueOK, Working, PollAt
  <2>5. Aborted(t) # Readable /\ \A u \in Timers : Aborted(t) # Expired(u)
    BY <2>1, EntriesDiffer
  <2>6. ReadableOnce'
    <3>1. \A i \in 1..Len(queue') : queue'[i] = Readable =>
            i \in 1..Len(queue) /\ queue[i] = Readable
      BY <2>2, <2>3, <2>5
    <3>2. Readable \in ToSet(queue') => Readable \in ToSet(queue)
      BY <2>2, <2>5
    <3> QED BY <3>1, <3>2 DEF AInv, ReadableOnce, Working
  <2> QED BY <2>2, <2>4, <2>5, <2>6
<1> QED BY <1>1, <1>2 DEF abortWait

\* What running the next handler leaves of the queue.
LEMMA HandlerTakesOne ==
    ASSUME AInv, NEW h, NextIs(h), h # Poll, queue' = Tail(queue),
           state' # "idle", current' \in Events \cup {NoHandler},
           current' = Readable => receiving, UNCHANGED receiving,
           h # Readable => UNCHANGED inbox
    PROVE  /\ QueueOK' /\ ReadableOnce'
           /\ ToSet(queue) = ToSet(queue') \cup {h}
<1>1. PICK k \in 1..Len(queue) : PollAt(queue, k)
  BY DEF NextIs, AInv, QueueOK, Working
<1>2. queue \in Seq(Entries) /\ Head(queue) = h /\ Working
  BY DEF NextIs, AInv, QueueOK, Working
<1>3. /\ queue' \in Seq(Entries)
      /\ ToSet(queue) = ToSet(queue') \cup {h}
      /\ k - 1 \in 1..Len(queue') /\ PollAt(queue', k - 1)
      /\ Len(queue') = Len(queue) - 1
      /\ \A j \in 1..Len(queue') : queue'[j] = queue[j + 1]
      /\ queue[1] = h /\ 1 \in 1..Len(queue)
  BY <1>1, <1>2, TakeHandler
<1>4. QueueOK'
  BY <1>3 DEF QueueOK, PollAt
<1>5. Len(queue) \in Nat /\ DOMAIN queue' = 1..(Len(queue) - 1)
  BY <1>2, <1>3
<1>6. \A j \in 1..Len(queue') : j + 1 \in 1..Len(queue) /\ j + 1 # 1
  BY <1>3, <1>5
<1>7. \A i, j \in 1..Len(queue') :
        queue'[i] = Readable /\ queue'[j] = Readable => i = j
  <2>1. \A i, j \in 1..Len(queue') : i + 1 = j + 1 => i = j
    BY <1>3, <1>5
  <2> QED BY <1>2, <1>3, <1>6, <2>1 DEF AInv, ReadableOnce
<1>8. Readable \in ToSet(queue') => h # Readable /\ Readable \in ToSet(queue)
  <2>1. \A j \in 1..Len(queue') : queue'[j] = Readable => h # Readable
    BY <1>2, <1>3, <1>6 DEF AInv, ReadableOnce
  <2> QED BY <1>3, <1>5, <2>1 DEF ToSet
<1>9. ReadableOnce'
  BY <1>2, <1>7, <1>8 DEF AInv, ReadableOnce
<1> QED BY <1>3, <1>4, <1>9

\* A step that leaves the queue alone, and what is in the handler that runs.
LEMMA QueueUntouched ==
    ASSUME AInv, UNCHANGED queue, Working' => Working,
           state' = "idle" => state = "idle",
           UNCHANGED current \/ current' = NoHandler,
           receiving => receiving', inbox'.unread >= inbox.unread,
           InboxTyped'
    PROVE  QueueOK' /\ ReadableOnce'
<1>1. QueueOK'
  BY DEF AInv, QueueOK, PollAt
<1>2. inbox.unread > 0 => inbox'.unread > 0
  BY DEF AInv, InboxTyped
<1>3. NoHandler # Readable
  BY EntriesDiffer
<1>4. ReadableOnce'
  BY <1>2, <1>3 DEF AInv, ReadableOnce
<1> QED BY <1>1, <1>4

\* The calls of the owner keep the invariant.
LEMMA CallsKeepInv ==
    ASSUME AInv,
           \/ createMessageSocket \/ send \/ stop \/ run
           \/ \E t \in Timers :
                createMessageTimer(t) \/ start(t) \/ cancel(t) \/ destroy(t)
    PROVE  AInv'
<1> USE DEF Working
<1>0. /\ ManagerAssumption
      /\ receiving \in BOOLEAN /\ stopping \in BOOLEAN
  BY ManagerAssumption DEF AInv, TypeOK
<1>1. CASE createMessageSocket
  <2>1. UNCHANGED <<queue, current, stopping, alive, armed, starts, receiving,
                    reads, inbox>>
    BY <1>1 DEF createMessageSocket, timerVars
  <2>2. /\ state = "idle" /\ state' \in {"idle", "died"}
        /\ socket' \in {"none", "open"}
    BY <1>1 DEF createMessageSocket
  <2>3. QueueOK' /\ ReadableOnce' /\ InboxTyped'
    BY <2>1, <2>2, QueueUntouched DEF AInv, InboxTyped
  <2>4. TypeOK'
    BY <1>0, <2>1, <2>2 DEF AInv, TypeOK
  <2> QED BY <2>1, <2>2, <2>3, <2>4 DEF AInv, OneReceive
<1>2. CASE send
  <2>1. UNCHANGED <<queue, stopping, alive, armed, starts, socket, inbox>>
    BY <1>2 DEF send, timerVars
  <2>2. /\ Working
        /\ \/ /\ receiving' = TRUE
              /\ reads' = IF receiving THEN reads ELSE reads + 1
              /\ UNCHANGED <<state, current>>
           \/ /\ state' = "died" /\ current' = NoHandler
              /\ UNCHANGED <<receiving, reads>>
    BY <1>2 DEF send, MayCall
  <2>3. QueueOK' /\ ReadableOnce' /\ InboxTyped'
    BY <2>1, <2>2, QueueUntouched DEF AInv, InboxTyped
  <2>4. OneReceive' /\ reads' \in {0, 1}
    BY <2>2 DEF AInv, OneReceive, ReadableOnce, TypeOK
  <2>5. receiving' \in BOOLEAN
    BY <1>0, <2>2
  <2>6. state' \in {"idle", "running", "returned", "died", "crashed"}
    BY <2>2
  <2>7. TypeOK'
    BY <1>0, <2>1, <2>3, <2>4, <2>5, <2>6, QueueTyped
    DEF AInv, TypeOK, QueueOK
  <2> QED BY <2>3, <2>4, <2>7 DEF AInv
<1>3. CASE stop
  <2>1. /\ UNCHANGED <<state, queue, current, alive, armed, starts, socket,
                       receiving, reads, inbox>>
        /\ stopping' = TRUE
    BY <1>3 DEF stop, timerVars, socketVars
  <2>2. QueueOK' /\ ReadableOnce' /\ InboxTyped'
    BY <2>1, QueueUntouched DEF AInv, InboxTyped
  <2>3. TypeOK'
    BY <1>0, <2>1 DEF AInv, TypeOK
  <2> QED BY <2>1, <2>2, <2>3 DEF AInv, OneReceive
<1>4. CASE run
  <2>1. /\ UNCHANGED <<queue, current, stopping, alive, armed, starts, socket,
                       receiving, reads, inbox>>
        /\ state = "idle" /\ state' = "running"
    BY <1>4 DEF run, timerVars, socketVars
  <2>2. QueueOK' /\ ReadableOnce' /\ InboxTyped'
    BY <2>1, QueueUntouched DEF AInv, InboxTyped
  <2>3. TypeOK'
    BY <1>0, <2>1 DEF AInv, TypeOK
  <2> QED BY <2>1, <2>2, <2>3 DEF AInv, OneReceive
<1>5. ASSUME NEW t \in Timers, createMessageTimer(t)
      PROVE  AInv'
  <2>1. /\ UNCHANGED <<state, queue, current, stopping, armed, starts, socket,
                       receiving, reads, inbox>>
        /\ alive' = alive \cup {t}
    BY <1>5 DEF createMessageTimer, socketVars
  <2>2. QueueOK' /\ ReadableOnce' /\ InboxTyped'
    BY <2>1, QueueUntouched DEF AInv, InboxTyped
  <2>3. TypeOK'
    BY <1>0, <2>1 DEF AInv, TypeOK
  <2> QED BY <2>1, <2>2, <2>3 DEF AInv, OneReceive
<1>6. ASSUME NEW t \in Timers, start(t) \/ cancel(t) \/ destroy(t)
      PROVE  AInv'
  <2>1. /\ UNCHANGED <<state, current, stopping, socket, receiving, reads, inbox>>
        /\ MayCall /\ abortWait(t)
    BY <1>6 DEF start, cancel, destroy, socketVars
  <2>2. /\ alive' \subseteq Timers /\ armed' \subseteq alive'
        /\ starts' \in 0..MaxStarts
    BY <1>0, <1>6 DEF start, cancel, destroy, AInv, TypeOK, ManagerAssumption
  <2>3. QueueOK' /\ ReadableOnce' /\ InboxTyped'
    BY <2>1, AbortKeepsQueue DEF AInv, InboxTyped
  <2>4. TypeOK'
    BY <1>0, <2>1, <2>2, <2>3, QueueTyped
    DEF AInv, TypeOK, QueueOK
  <2> QED BY <2>1, <2>3, <2>4 DEF AInv, OneReceive
<1> QED BY <1>1, <1>2, <1>3, <1>4, <1>5, <1>6

\* The network and the io_service keep the invariant.
LEMMA LoopKeepsInv ==
    ASSUME AInv, destroyAll \/ datagramArrives \/ poll \/ runReturns
    PROVE  AInv'
<1> USE DEF Working
<1>0. /\ ManagerAssumption
      /\ receiving \in BOOLEAN /\ stopping \in BOOLEAN
  BY ManagerAssumption DEF AInv, TypeOK
<1>1. CASE destroyAll
  <2>1. /\ UNCHANGED <<state, current, stopping, starts, receiving, inbox>>
        /\ alive' = {} /\ armed' = {} /\ queue' = <<>>
        /\ socket' = "deleted" /\ reads' = 0
        /\ state \in {"returned", "died"}
    BY <1>1 DEF destroyAll
  <2>2. QueueOK'
    BY <2>1, EmptySeq DEF AInv, QueueOK
  <2>3. TypeOK'
    <3>1. ToSet(queue') \cup {current'} \subseteq
            {NoHandler, Poll, Readable}
              \cup UNION {{Expired(t), Aborted(t)} : t \in Timers}
      BY <2>2, QueueTyped DEF QueueOK
    <3>2. /\ starts' \in 0..MaxStarts /\ inbox'.unread \in 0..inbox'.all
          /\ inbox'.all \in 0..MaxDatagrams
      BY <2>1 DEF AInv, TypeOK
    <3> QED BY <1>0, <2>1, <3>1, <3>2 DEF TypeOK
  <2> QED BY <2>1, <2>2, <2>3 DEF AInv, InboxTyped, ReadableOnce, OneReceive
<1>2. CASE datagramArrives
  <2>1. /\ UNCHANGED <<state, queue, current, stopping, alive, armed, starts,
                       socket, receiving, reads>>
        /\ inbox' = [unread |-> inbox.unread + 1, all |-> inbox.all + 1]
        /\ inbox.all < MaxDatagrams
    BY <1>2 DEF datagramArrives, timerVars, socketVars
  <2>2. /\ InboxTyped' /\ inbox'.unread >= inbox.unread
        /\ inbox'.unread \in 0..inbox'.all /\ inbox'.all \in 0..MaxDatagrams
    BY <1>0, <2>1, ManagerAssumption DEF AInv, InboxTyped, TypeOK
  <2>3. QueueOK' /\ ReadableOnce'
    BY <2>1, <2>2, QueueUntouched
  <2>4. TypeOK'
    BY <1>0, <2>1, <2>2 DEF AInv, TypeOK
  <2> QED BY <2>1, <2>2, <2>3, <2>4 DEF AInv, OneReceive
<1>3. CASE poll
  <2>1. /\ UNCHANGED <<state, current, stopping, alive, starts, socket,
                       receiving, reads, inbox>>
        /\ NextIs(Poll)
    BY <1>3 DEF poll, socketVars
  <2> DEFINE rd == IF inbox.unread > 0 /\ reads > 0 THEN <<Readable>> ELSE <<>>
             Polled(E, s) ==
               /\ ToSet(s) = E
               /\ queue' = AfterPoll(Tail(queue), rd, s)
               /\ armed' = armed \ E
  <2>0. PICK E \in SUBSET armed : \E s \in [1..Cardinality(E) -> E] : Polled(E, s)
    BY <1>3 DEF poll, AfterPoll
  <2>2. PICK s \in [1..Cardinality(E) -> E] : Polled(E, s)
    BY <2>0
  <2> DEFINE m == Cardinality(E)
  <2>3. E \in SUBSET Timers /\ m \in Nat
    <3>1. E \subseteq Timers
      BY DEF AInv, TypeOK
    <3>2. IsFiniteSet(E)
      BY <3>1, ManagerAssumption, FS_Subset
    <3> QED BY <3>1, <3>2, FS_CardinalityType
  <2>4. Tail(queue) \in Seq(Aborts)
    <3>1. PICK k \in 1..Len(queue) : PollAt(queue, k)
      BY <2>1 DEF NextIs, AInv, QueueOK
    <3> QED BY <2>1, <3>1, PollNext DEF NextIs, AInv, QueueOK
  <2>5. /\ queue' \in Seq(Entries)
        /\ PollAt(queue', Len(queue'))
        /\ \A i, j \in 1..Len(queue') :
             queue'[i] = Readable /\ queue'[j] = Readable => i = j
        /\ Readable \in ToSet(queue') => rd = <<Readable>>
    <3>1. rd \in {<<>>, <<Readable>>}
      OBVIOUS
    <3>2. s \in Seq(Timers) /\ queue' = AfterPoll(Tail(queue), rd, s)
      BY <2>2, <2>3, SeqDef
    <3> HIDE DEF rd, m, Polled
    <3>3. PolledQueue(queue', rd, s)
      BY <2>4, <3>1, <3>2, QueueAfterPoll
    <3> QED BY <3>3 DEF PolledQueue
  <2>6. rd = <<Readable>> => inbox.unread > 0 /\ reads > 0
    BY EmptySeq
  <2>7. QueueOK'
    <3>1. Len(queue') \in 1..Len(queue')
      BY <2>5 DEF PollAt
    <3> QED BY <2>1, <2>5, <3>1 DEF NextIs, AInv, QueueOK, PollAt
  <2>8. ReadableOnce'
    <3>1. reads > 0 => receiving
      BY <2>1 DEF NextIs, AInv, OneReceive
    <3> QED BY <2>1, <2>5, <2>6, <3>1, EntriesDiffer
            DEF NextIs, ReadableOnce
  <2>9. TypeOK'
    <3>1. ToSet(queue') \cup {current'} \subseteq
            {NoHandler, Poll, Readable}
              \cup UNION {{Expired(t), Aborted(t)} : t \in Timers}
      BY <2>7, QueueTyped DEF QueueOK
    <3>2. armed' \subseteq alive'
      BY <2>1, <2>2 DEF AInv, TypeOK
    <3> QED BY <1>0, <2>1, <3>1, <3>2 DEF AInv, TypeOK
  <2> QED BY <2>1, <2>7, <2>8, <2>9 DEF AInv, OneReceive, InboxTyped
<1>4. CASE runReturns
  <2>1. /\ UNCHANGED <<queue, current, stopping, alive, armed, starts, socket,
                       receiving, reads, inbox>>
        /\ state' = "returned"
    BY <1>4 DEF runReturns, timerVars, socketVars
  <2>2. QueueOK' /\ ReadableOnce' /\ InboxTyped'
    BY <2>1, QueueUntouched DEF AInv, InboxTyped
  <2>3. TypeOK'
    BY <1>0, <2>1 DEF AInv, TypeOK
  <2> QED BY <2>1, <2>2, <2>3 DEF AInv, OneReceive
<1> QED BY <1>1, <1>2, <1>3, <1>4

\* The handlers keep the invariant.
LEMMA HandlersKeepInv ==
    ASSUME AInv, Handlers \/ callbackReturns
    PROVE  AInv'
<1> USE DEF Working
<1>0. receiving \in BOOLEAN /\ stopping \in BOOLEAN
  BY DEF AInv, TypeOK
<1>1. ASSUME NEW t \in Timers, handleExpire(t)
      PROVE  AInv'
  <2>1. /\ UNCHANGED <<stopping, alive, armed, starts, socket, receiving, reads,
                       inbox>>
        /\ queue' = Tail(queue)
    BY <1>1 DEF handleExpire, timerVars, socketVars
  <2>2. PICK h \in {Aborted(t), Expired(t)} :
          /\ NextIs(h)
          /\ state' \in {"running", "crashed"}
          /\ current' \in {NoHandler, Expired(t)}
    BY <1>1 DEF handleExpire, NextIs
  <2>3. /\ h # Poll /\ h # Readable /\ Expired(t) # Readable
        /\ NoHandler # Readable /\ current' \in Events \cup {NoHandler}
    BY <2>2, EntriesDiffer DEF Events
  <2>4. QueueOK' /\ ReadableOnce'
    BY <2>1, <2>2, <2>3, HandlerTakesOne
  <2>5. TypeOK'
    <3>1. ToSet(queue') \cup {current'} \subseteq
            {NoHandler, Poll, Readable}
              \cup UNION {{Expired(u), Aborted(u)} : u \in Timers}
      BY <2>4, QueueTyped DEF QueueOK
    <3> QED BY <1>0, <2>1, <2>2, <3>1 DEF AInv, TypeOK
  <2>6. OneReceive'
    BY <2>1, <2>2, <2>3 DEF AInv, OneReceive, NextIs
  <2> QED BY <2>1, <2>4, <2>5, <2>6 DEF AInv, InboxTyped
<1>2. CASE handleRead
  <2>1. /\ UNCHANGED <<stopping, alive, armed, starts, socket, receiving>>
        /\ NextIs(Readable) /\ queue' = Tail(queue)
        /\ reads' = reads - 1
        /\ inbox' = [inbox EXCEPT !.unread = @ - 1]
        /\ \/ current' = Readable /\ UNCHANGED state
           \/ state' = "died" /\ UNCHANGED current
    BY <1>2 DEF handleRead, timerVars
  <2>2. receiving /\ inbox.unread > 0 /\ reads = 1
    <3>1. queue \in Seq(Entries) /\ \E k \in 1..Len(queue) : PollAt(queue, k)
      BY <2>1 DEF NextIs, AInv, QueueOK
    <3>2. Head(queue) = queue[1] /\ 1 \in DOMAIN queue
      BY <3>1
    <3>3. Readable \in ToSet(queue)
      BY <2>1, <3>2 DEF NextIs, ToSet
    <3> QED BY <2>1, <3>3, EntriesDiffer
            DEF NextIs, AInv, ReadableOnce, OneReceive
  <2>3. Readable # Poll /\ Readable \in Events
    BY EntriesDiffer DEF Events
  <2>4. QueueOK' /\ ReadableOnce'
    <3>1. state' # "idle" /\ current' \in Events \cup {NoHandler}
      BY <2>1, <2>3 DEF NextIs
    <3> QED BY <2>1, <2>2, <2>3, <3>1, HandlerTakesOne
  <2>5. /\ InboxTyped' /\ inbox'.unread \in 0..inbox'.all
        /\ inbox'.all \in 0..MaxDatagrams
    BY <2>1, <2>2 DEF AInv, InboxTyped, TypeOK
  <2>6. TypeOK'
    <3>1. ToSet(queue') \cup {current'} \subseteq
            {NoHandler, Poll, Readable}
              \cup UNION {{Expired(u), Aborted(u)} : u \in Timers}
      BY <2>4, QueueTyped DEF QueueOK
    <3>2. /\ state' \in {"idle", "running", "returned", "died", "crashed"}
          /\ reads' \in {0, 1}
      BY <2>1, <2>2 DEF AInv, TypeOK
    <3> QED BY <1>0, <2>1, <2>5, <3>1, <3>2 DEF AInv, TypeOK
  <2>7. OneReceive'
    BY <2>1, <2>2 DEF OneReceive, NextIs
  <2> QED BY <2>4, <2>5, <2>6, <2>7 DEF AInv
<1>3. CASE callbackReturns
  <2>1. /\ UNCHANGED <<state, queue, stopping, alive, armed, starts, socket,
                       receiving, inbox>>
        /\ current' = NoHandler /\ state = "running"
        /\ reads' = IF current = Readable THEN reads + 1 ELSE reads
    BY <1>3 DEF callbackReturns, timerVars
  <2>2. QueueOK' /\ ReadableOnce' /\ InboxTyped'
    BY <2>1, QueueUntouched DEF AInv, InboxTyped
  <2>3. OneReceive' /\ reads' \in {0, 1}
    BY <2>1, EntriesDiffer DEF AInv, OneReceive, ReadableOnce, TypeOK
  <2>4. TypeOK'
    <3>1. ToSet(queue') \cup {current'} \subseteq
            {NoHandler, Poll, Readable}
              \cup UNION {{Expired(u), Aborted(u)} : u \in Timers}
      BY <2>2, QueueTyped DEF QueueOK
    <3> QED BY <1>0, <2>1, <2>3, <3>1 DEF AInv, TypeOK
  <2> QED BY <2>2, <2>3, <2>4 DEF AInv
<1> QED BY <1>1, <1>2, <1>3 DEF Handlers

\* Every step keeps the invariant.
LEMMA ManagerStep == AInv /\ [Next]_vars => AInv'
<1> SUFFICES ASSUME AInv, [Next]_vars PROVE AInv'
  OBVIOUS
<1>1. CASE UNCHANGED vars
  BY <1>1 DEF vars, timerVars, socketVars, AInv, TypeOK, InboxTyped, QueueOK,
              PollAt, ReadableOnce, OneReceive, Working
<1> QED BY <1>1, CallsKeepInv, LoopKeepsInv, HandlersKeepInv
        DEF Next, Terminated

\* The invariant holds in every reachable state.
THEOREM ManagerInvariance == Spec => []AInv
<1> QED BY ManagerInit, ManagerStep, PTL DEF Spec

\* The variables keep their types: a start() is counted, only timers that exist
\* are armed, and no more datagrams are read than have arrived.
THEOREM ManagerTypeCorrect == Spec => []TypeOK
<1>1. AInv => TypeOK
  BY DEF AInv
<1> QED BY <1>1, ManagerInvariance, PTL

\* However send() is called, from within the handler of the receive before or
\* from a timer's, at most one receive operation is under way, and the buffer is
\* not read into while a callback parses it.
THEOREM OneReceiveAtATime == Spec => []OneReceive
<1>1. AInv => OneReceive
  BY DEF AInv
<1> QED BY <1>1, ManagerInvariance, PTL

-----------------------------------------------------------------------------
(* The contract of the timers *)

\* A step of the loop is a step of every timer, or does not show in it: one case
\* per action of Next.
LEMMA NextIsTimerStep ==
    ASSUME AInv, Working, [Next]_vars, NEW t \in Timers
    PROVE  [Timer(t)!Next]_(Timer(t)!vars)
<1> DEFINE Queued == Expired(t) \in ToSet(queue) \cup {current}
<1> USE DEF Working, Timer!vars, Timer!Next, Timer!Create, Timer!Use,
            Timer!Expire, Timer!Handle
<1>1. CASE UNCHANGED <<alive, armed, queue, current>>
  BY <1>1
<1>2. ASSUME Queued' => Queued, UNCHANGED <<alive, armed>>
      PROVE  [Timer(t)!Next]_(Timer(t)!vars)
  BY <1>2
<1>3. ASSUME NEW u \in Timers, createMessageTimer(u)
      PROVE  [Timer(t)!Next]_(Timer(t)!vars)
  <2>1. UNCHANGED <<queue, current, armed>> /\ alive' = alive \cup {u}
    BY <1>3 DEF createMessageTimer
  <2>2. ~Queued /\ u \notin alive
    BY <1>3, EntriesDiffer DEF createMessageTimer, AInv, QueueOK
  <2>3. CASE t # u
    BY <2>1, <2>3
  <2>4. CASE t = u
    BY <2>1, <2>2, <2>4
  <2> QED BY <2>3, <2>4
<1>4. ASSUME NEW u \in Timers, start(u) \/ cancel(u) \/ destroy(u)
      PROVE  [Timer(t)!Next]_(Timer(t)!vars)
  <2>1. /\ MayCall /\ abortWait(u) /\ u \in alive
        /\ UNCHANGED <<state, current, receiving, inbox>>
    BY <1>4 DEF start, cancel, destroy, socketVars
  <2>2. Queued' <=> Queued
    BY <2>1, AbortKeepsQueue
  <2>3. CASE t # u
    <3>1. (t \in alive' <=> t \in alive) /\ (t \in armed' <=> t \in armed)
      BY <1>4, <2>3 DEF start, cancel, destroy
    <3> QED BY <2>2, <3>1
  <2>4. CASE t = u
    <3>1. t \in alive /\ (t \notin alive' => t \notin armed')
      BY <1>4, <2>1, <2>4 DEF start, cancel, destroy
    <3> QED BY <2>2, <3>1
  <2> QED BY <2>3, <2>4
<1>5. CASE poll
  <2>1. PICK E \in SUBSET armed : \E s \in [1..Cardinality(E) -> E] :
          /\ ToSet(s) = E
          /\ queue' = AfterPoll(Tail(queue), IF inbox.unread > 0 /\ reads > 0
                                             THEN <<Readable>> ELSE <<>>, s)
          /\ armed' = armed \ E
    BY <1>5 DEF poll, AfterPoll
  <2>2. PICK k \in 1..Len(queue) : PollAt(queue, k)
    BY DEF AInv, QueueOK
  <2>3. /\ Head(queue) = Poll /\ current = NoHandler
        /\ UNCHANGED <<current, alive>>
    BY <1>5 DEF poll, NextIs
  <2>4. Tail(queue) \in Seq(Aborts) /\ ToSet(queue) \subseteq Aborts \cup {Poll}
    BY <2>2, <2>3, PollNext DEF AInv, QueueOK
  <2>5. ~Queued
    BY <2>3, <2>4, EntriesDiffer
  <2>6. Queued' <=> t \in E
    <3>1. E \subseteq Timers /\ Cardinality(E) \in Nat
      <4>1. E \subseteq Timers
        BY DEF AInv, TypeOK
      <4> QED BY <4>1, ManagerAssumption, FS_Subset, FS_CardinalityType
    <3>2. PICK rd \in {<<>>, <<Readable>>}, s \in Seq(Timers) :
            ToSet(s) = E /\ queue' = AfterPoll(Tail(queue), rd, s)
      BY <2>1, <3>1, SeqDef
    <3>3. PolledQueue(queue', rd, s)
      BY <2>4, <3>2, QueueAfterPoll
    <3> QED BY <2>3, <3>2, <3>3, EntriesDiffer DEF PolledQueue
  <2>7. (t \in armed' <=> t \in armed /\ t \notin E) /\ (t \in E => t \in armed)
    BY <2>1
  <2> QED BY <2>3, <2>5, <2>6, <2>7
<1>6. ASSUME NEW u \in Timers, handleExpire(u)
      PROVE  [Timer(t)!Next]_(Timer(t)!vars)
  <2>1. PICK h \in {Aborted(u), Expired(u)} :
          /\ NextIs(h) /\ queue' = Tail(queue)
          /\ state' \in {"running", "crashed"}
          /\ current' = current \/ (h = Expired(u) /\ current' = h)
          /\ UNCHANGED <<alive, armed, receiving, inbox>>
    BY <1>6 DEF handleExpire, NextIs, timerVars, socketVars
  <2>2. /\ h # Poll /\ h # Readable /\ current = NoHandler
        /\ current' \in Events \cup {NoHandler} /\ current' # Readable
    BY <2>1, EntriesDiffer DEF NextIs, Events
  <2>3. ToSet(queue) = ToSet(queue') \cup {h}
    BY <2>1, <2>2, HandlerTakesOne
  <2>4. Queued' => Queued
    BY <2>1, <2>3
  <2> QED BY <1>2, <2>1, <2>4
<1>7. CASE handleRead
  <2>1. /\ NextIs(Readable) /\ queue' = Tail(queue)
        /\ current' \in {current, Readable}
        /\ UNCHANGED <<alive, armed>>
    BY <1>7 DEF handleRead, timerVars
  <2>2. PICK k \in 1..Len(queue) : PollAt(queue, k)
    BY DEF AInv, QueueOK
  <2>3. ToSet(queue') \subseteq ToSet(queue)
    BY <2>1, <2>2, TakeHandler, EntriesDiffer DEF NextIs, AInv, QueueOK, Events
  <2>4. Queued' => Queued
    BY <2>1, <2>3, EntriesDiffer
  <2> QED BY <1>2, <2>1, <2>4
<1>8. CASE send \/ callbackReturns
  <2>1. /\ UNCHANGED <<queue, alive, armed>>
        /\ current' = current \/ current' = NoHandler
    BY <1>8 DEF send, callbackReturns, timerVars
  <2>2. Queued' => Queued
    BY <2>1, EntriesDiffer
  <2> QED BY <1>2, <2>1, <2>2
<1>9. CASE createMessageSocket \/ stop \/ run \/ datagramArrives \/ runReturns
  BY <1>1, <1>9 DEF createMessageSocket, stop, run, datagramArrives, runReturns,
                    timerVars
<1>10. CASE destroyAll
  BY <1>10 DEF destroyAll
<1>11. CASE UNCHANGED vars
  BY <1>1, <1>11 DEF vars, timerVars
<1> QED BY <1>3, <1>4, <1>5, <1>6, <1>7, <1>8, <1>9, <1>10, <1>11
        DEF Next, Handlers, Terminated

\* Every ASIOMessageTimer keeps the contract of MessageTimer while the loop
\* exists, in whichever callback it is restarted, cancelled or destroyed and
\* however many aborted waits are still queued.
THEOREM TimersKeepContract == Spec => KeepsTimerContract
<1>1. Init => \A t \in Timers : Timer(t)!Init
  BY EntriesDiffer DEF Init, Timer!Init, ToSet
<1>2. AInv /\ [Next]_vars =>
        [state = "idle" \/ state = "running" =>
           \A t \in Timers : [Timer(t)!Next]_(Timer(t)!vars)]_vars
  BY NextIsTimerStep DEF Working
<1> QED BY <1>1, <1>2, ManagerInvariance, PTL DEF Spec, KeepsTimerContract

=============================================================================
