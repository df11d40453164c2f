\* Two browsers that come, go and come back: one always reads, the other may
\* not.
SPECIFICATION FairSpec
CONSTANTS
    Clients <- MCBoth
    Readers <- MCOne
    Capacity = 2
    MaxMessages = 3
INVARIANTS
    TypeOK
    NoSendOnClosed
PROPERTIES
    Refines
    BroadcastEnds
    ReaderGetsNews
    GoneIsRemoved
