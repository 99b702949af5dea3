\* Three messages on one connection.
SPECIFICATION Spec
CONSTANTS
    Lens = {1}
    MaxMsgs = 3
    Faults = {}
INVARIANT
    OthersHeldTemporarily
