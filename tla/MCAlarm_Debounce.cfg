\* Every order of telemetry, restarts and evaluations, with events that get
\* lost; evaluations and the clock go on.
SPECIFICATION FairSpec
CONSTANTS
    Fermenters = {"fv1"}
    Temps <- MCTemps
    Targets <- MCTargets
    ConfigTarget = 0
    HighMargin = 1
    LowMargin = 1
    Debounce = 2
    MaxLag = 1
    StoreMayFail = TRUE
    MayRestart = TRUE
INVARIANTS
    TypeOK
    LogAgrees
PROPERTIES
    ClearedLate
    AlarmOpens
    AlarmClears
