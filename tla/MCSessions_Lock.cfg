\* Two tabs that log in, lock and poll at any point of each other; one of them also
\* writes, and has two polls under way at once.
SPECIFICATION FairSpec
CONSTANTS
    PinSet = TRUE
    Tabs <- MCTabs
    Writers <- MCWriters
    Slots <- MCPolls
    TTL = 1
    MaxLogins = 1
INVARIANTS
    TypeOK
PROPERTIES
    AdmitsOnlyFresh
    SessionEnds
    LockedIsShown
