\* Two mode requests and one settings request at a time, reads and writes that fail,
\* and crashes at every point.
SPECIFICATION FairSpec
CONSTANTS
    Fermenters = {"fv1"}
    ConfigTarget = 18
    Targets <- MCTargets
    Modes = {"fixed", "profile", "valve"}
    Overrides = {"open"}
    ConfigSettings <- MCConfig
    Bodies <- MCBodies
    MaxModes = 2
    MaxPosts = 1
    StoreMayFail = TRUE
INVARIANTS
    TypeOK
    AnsweredIsSaved
    SettingsAgree
PROPERTIES
    ModeIsDurable
    DivergenceHeals
