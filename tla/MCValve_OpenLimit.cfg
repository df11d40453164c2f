\* Two controllers that decide at the same time.
SPECIFICATION Spec
CONSTANTS
    Fermenters = {"fv1", "fv2"}
    Device = TRUE
    Temps <- MCTemps
    Targets <- MCTargets
    ConfigTarget <- MCConfigTarget
    Settings <- MCNoSettings
    ConfigSettings <- MCOneOpen
    Modes = {"fixed"}
    OverrideStates = {}
    TTLs <- MCNoTTLs
    StaleLimit = 1
    WatchdogLimit = 1
    MaxMinChange = 1
    MaxTTL = 1
    WriteMayFail = FALSE
    RuntimeMayRestart = FALSE
INVARIANTS
    OpenLimit
