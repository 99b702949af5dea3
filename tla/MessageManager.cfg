\* Two timers and two datagrams.
SPECIFICATION FairSpec
CONSTANTS
    Timers = {t1, t2}
    MaxStarts = 4
    MaxDatagrams = 2
    Faults = {"socket", "send", "recv"}
INVARIANTS
    TypeOK
    OneReceive
PROPERTIES
    KeepsTimerContract
    DatagramsDelivered
CONSTANTS
    t1 = t1
    t2 = t2
