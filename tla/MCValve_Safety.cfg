\* One fermenter, every kind of step, writes that fail and restarts.
SPECIFICATION Spec
CONSTANTS
    Fermenters = {"fv1"}
    Device = TRUE
    Temps <- MCTemps
    Targets <- MCTwoTargets
    ConfigTarget <- MCConfigTarget
    Settings <- MCInvalid
    ConfigSettings <- MCUnlimited
    Modes = {"fixed", "valve"}
    OverrideStates = {"open", "closed"}
    TTLs <- MCTTLs
    StaleLimit = 1
    WatchdogLimit = 1
    MaxMinChange = 1
    MaxTTL = 1
    WriteMayFail = TRUE
    RuntimeMayRestart = TRUE
INVARIANTS
    TypeOK
    BelievedClosedIsClosed
