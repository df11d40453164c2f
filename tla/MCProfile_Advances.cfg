\* One fermenter, one assignment and one request at a time; statements fail, and
\* the process restarts once.
SPECIFICATION FairSpec
CONSTANTS
    NumFermenters = 1
    ProfileIds <- MCIds
    Profiles <- MCProfiles
    DefaultRate = 10
    ConfigTarget = 0
    Targets <- MCTargets
    Modes = {"fixed", "profile"}
    Requests = {1}
    MaxAge = 4
    MaxTickTime = 1
    MaxAssigns = 1
    StoreMayFail = TRUE
    MaxRestarts = 1
INVARIANTS
    TypeOK
    StepInRange
    FromIsReached
PROPERTIES
    ScheduleAdvances
    HoldIsReached
    ScheduleLetsGo
