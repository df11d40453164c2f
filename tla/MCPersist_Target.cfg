\* A target set before a crash.
SPECIFICATION Spec
CONSTANTS
    Fermenters = {"fv1"}
    ConfigTarget = 18
    Targets <- MCTargets
    Modes = {"fixed", "profile", "valve"}
    Overrides = {"open"}
    ConfigSettings <- MCConfig
    Bodies <- MCBodies
    MaxModes = 2
    MaxPosts = 1
    StoreMayFail = FALSE
PROPERTIES
    TargetResumed
