\* Every activity of the runtime, any two of them at once.
SPECIFICATION FairSpec
CONSTANTS
    Activities <- MCActivities
    NumFermenters = 2
    Attempts = 2
    Workers = {w1, w2}
INVARIANTS
    TypeOK
    NoCircularWait
    OneMoment
PROPERTIES
    EveryoneGetsOn
