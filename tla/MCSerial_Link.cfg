\* The sketch, and the firmware: a counter that wraps, pings, one reset, and
\* commands for three fermenters, one of which has no valve.
SPECIFICATION FairSpec
CONSTANTS
    Programs = {"sketch", "firmware"}
    Fermenters <- MCFermenters
    Wired <- MCWired
    Probes <- MCProbes
    Wrap = 6
    Interval = 2
    MaxLoop = 1
    MaxDelay = 1
    Watchdog = 8
    MaxLines = 2
    MaxResets = 1
INVARIANTS
    TypeOK
    TelemetryGoesOn
    NoFalseTimeout
PROPERTIES
    LastCommandHolds
