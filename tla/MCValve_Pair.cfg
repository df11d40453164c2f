\* Two fermenters that compete for one open valve, until the limit is lifted.
SPECIFICATION FairSpec
CONSTANTS
    Fermenters = {"fv1", "fv2"}
    Device = TRUE
    Temps <- MCTemps
    Targets <- MCTargets
    ConfigTarget <- MCConfigTarget
    Settings <- MCLift
    ConfigSettings <- MCOneOpen
    Modes = {}
    OverrideStates = {}
    TTLs <- MCNoTTLs
    StaleLimit = 1
    WatchdogLimit = 0
    MaxMinChange = 0
    MaxTTL = 1
    WriteMayFail = FALSE
    RuntimeMayRestart = FALSE
PROPERTIES
    WarmOpens
