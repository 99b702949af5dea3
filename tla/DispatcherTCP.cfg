\* TCP, with connections that end in a response, without one, in garbage, or by a reset.
SPECIFICATION FairSpec
CONSTANTS
    Window = 3
    QidSpace = 4
    MaxSent = 6
    Proto = "tcp"
    Faults = {"input", "header", "reset"}
INVARIANTS
    NoAbandonedQuery
    AssertionsHold
    FinishedDrained
    CreditedOnce
PROPERTIES
    IsQuerySession
    EverySessionEnds
