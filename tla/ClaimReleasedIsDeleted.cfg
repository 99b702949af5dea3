\* A release between a completion and its handler.
SPECIFICATION FairSpec
CONSTANTS
    Lens = {2}
    MaxMsgs = 1
    Faults = {}
PROPERTY
    ReleasedIsDeleted
