\* Two outstanding queries with one ID, over UDP.
SPECIFICATION FairSpec
CONSTANTS
    Window = 2
    QidSpace = 3
    MaxSent = 5
    Proto = "udp"
    Faults = {}
PROPERTY
    SessionCompletes
