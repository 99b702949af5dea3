\* UDP, with every exception the event loop can meet.  The fourth query of a
\* context may already meet the ID of an old one.
SPECIFICATION FairSpec
CONSTANTS
    Window = 3
    QidSpace = 5
    MaxSent = 7
    Proto = "udp"
    Faults = {"socket", "send", "input", "recv"}
INVARIANTS
    TypeOK
    WindowKept
    Accounting
    NoAbandonedQuery
    FinishedDrained
    CreditedOnce
PROPERTIES
    CollisionNeedsOldQuery
    IsQuerySession
    UsesTimers
    EverySessionEnds
