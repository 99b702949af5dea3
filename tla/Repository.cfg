\* Every input of up to three lines.
SPECIFICATION FairSpec
CONSTANTS
    Kinds = {"blank", "comment", "badoption", "normal", "axfr", "ixfr", "ixfr42"}
    MaxLines = 3
    MaxEmpty = 4
    MaxServed = 4
INVARIANTS
    TypeOK
    ServedInOrder
    FailsForAReason
PROPERTIES
    CallsReturn
