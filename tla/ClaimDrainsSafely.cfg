\* An expiry handler queued behind the last response of its context.
SPECIFICATION Spec
CONSTANTS
    Window = 2
    QidSpace = 8
    MaxSent = 3
    Proto = "udp"
    Faults = {}
INVARIANT
    DrainsSafely
