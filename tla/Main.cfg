\* Up to two threads.
SPECIFICATION FairSpec
CONSTANTS
    MaxThreads = 2
    Window = 2
    MaxSent = 3
    Faults = {"create", "join"}
INVARIANTS
    TypeOK
    StatusExplained
    DispatcherOutlivesThread
    SummaryIsSettled
    SummaryIsExact
    RateNeedsTimes
PROPERTIES
    MainEnds
