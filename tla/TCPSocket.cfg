\* Up to three messages, in every segmentation, with failures at each stage.
SPECIFICATION FairSpec
CONSTANTS
    Lens = {0, 1, 3}
    MaxMsgs = 3
    Faults = {"open", "connect", "write", "shutdown", "reset"}
INVARIANTS
    TypeOK
    DeletedIsQuiet
    FirstMessageKept
PROPERTIES
    KeepsContract
    AbortDeletes
    EndIsReported
