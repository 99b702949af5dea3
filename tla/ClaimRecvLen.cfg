\* A message body that arrives in parts.
SPECIFICATION Spec
CONSTANTS
    Lens = {2}
    MaxMsgs = 1
    Faults = {}
INVARIANT
    RecvLenIsMessageLength
