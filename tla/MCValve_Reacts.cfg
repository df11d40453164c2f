\* One fermenter whose target, override and mode change, with a port that works
\* and a limit that is lifted and set again: what must happen in the end.
SPECIFICATION FairSpec
CONSTANTS
    Fermenters = {"fv1"}
    Device = TRUE
    Temps <- MCTemps
    Targets <- MCTwoTargets
    ConfigTarget <- MCConfigTarget
    Settings <- MCLift
    ConfigSettings <- MCOneOpen
    Modes = {"fixed", "valve"}
    OverrideStates = {"open", "closed"}
    TTLs <- MCTTLs
    StaleLimit = 1
    WatchdogLimit = 1
    MaxMinChange = 1
    MaxTTL = 1
    WriteMayFail = FALSE
    RuntimeMayRestart = FALSE
PROPERTIES
    StaleValveCloses
    HysteresisActs
    OverrideWins
