---------------------------- MODULE ValveControl ----------------------------
(***************************************************************************)
(* The valve controllers of the runtime (internal/control/controller.go)   *)
(* with everything that touches the state they share: the HTTP handlers,   *)
(* the serial reader, the telemetry watchdog of cmd/fermenter/main.go and  *)
(* the driver that sends set_valve commands.                               *)
(*                                                                         *)
(* SystemState is protected by one mutex, but a controller releases it     *)
(* around drv.SetValve.  One tick of a controller is therefore three       *)
(* steps: a decision under the lock (TickFailSafe, TickOverridden,         *)
(* TickHysteresis), the serial write without it (Send), and the update of  *)
(* the believed valve state under it again (Commit...).  Every other       *)
(* handler is one step, and may run between any two of these.              *)
(*                                                                         *)
(* Temperatures are integers, in hundredths of a degree.  Instants are     *)
(* kept as ages, in units of an abstract clock (Elapse), and an age stops  *)
(* growing once it has passed every limit it is compared with.             *)
(***************************************************************************)
EXTENDS Integers, FiniteSets

CONSTANTS
    Fermenters,        \* the fermenters of the configuration
    Device,            \* TRUE: a serial device is open; FALSE: NoopDriver
    Temps,             \* temperatures telemetry may report
    Targets,           \* targets the API and the profile scheduler may set
    ConfigTarget,      \* target_c of each fermenter in the configuration
    Settings,          \* bodies of POST /settings, valid or not
    ConfigSettings,    \* the control section of the configuration
    Modes,             \* control modes in use
    OverrideStates,    \* states the override API is called with
    TTLs,              \* clock units until an override ends; -1: in the past
    StaleLimit,        \* staleLimit of RunController
    WatchdogLimit,     \* the 30 s threshold of the watchdog
    MaxMinChange,      \* bound on min_change_s, in clock units
    MaxTTL,            \* bound on TTLs
    WriteMayFail,      \* TRUE: a write to the serial port may fail
    RuntimeMayRestart  \* TRUE: the process may crash and be restarted

SettingsRecords == [band : Int, minChange : Int, maxOpen : Int]

ASSUME FlagsAssumption ==
    /\ Device \in BOOLEAN
    /\ WriteMayFail \in BOOLEAN
    /\ RuntimeMayRestart \in BOOLEAN

ASSUME LimitsAssumption ==
    /\ StaleLimit \in Nat
    /\ WatchdogLimit \in Nat
    /\ MaxMinChange \in Nat
    /\ MaxTTL \in Nat

ASSUME InputsAssumption ==
    /\ Temps \subseteq Int
    /\ Targets \subseteq Int
    /\ ConfigTarget \in [Fermenters -> Targets]
    /\ Modes \subseteq {"fixed", "profile", "valve"}
    /\ OverrideStates \subseteq {"open", "closed"}
    /\ TTLs \subseteq -1..MaxTTL

ASSUME SettingsAssumption ==
    /\ Settings \subseteq SettingsRecords
    /\ \A s \in Settings : s.minChange <= MaxMinChange
    /\ ConfigSettings \in SettingsRecords
    /\ ConfigSettings.minChange \in 0..MaxMinChange

VARIABLES
    TargetC,         \* Fermenter.TargetC
    BeerC,           \* Fermenter.BeerC
    Valve,           \* Fermenter.Valve: what the runtime believes
    Mode,            \* Fermenter.Mode
    Override,        \* Fermenter.Override
    allowImmediate,  \* Fermenter.allowImmediate
    sinceChange,     \* age of Fermenter.lastChange
    sinceUpdate,     \* age of Fermenter.lastUpdate
    BandC,           \* Fermenter.BandC, the same for all
    MinChange,       \* Fermenter.MinChange, the same for all
    MaxOpen,         \* SystemState.MaxOpen
    job,             \* the valve command each controller is executing
    sinceTelem,      \* age of lastTelem
    sweepDue,        \* the watchdog has found lastTelem too old, not swept yet
    actuator,        \* the last command the device received, per valve
    unconfirmed      \* history: Valve was not set by a write that succeeded

settings == <<BandC, MinChange, MaxOpen>>
request  == <<TargetC, Mode, Override>>
valve    == <<Valve, sinceChange, unconfirmed>>
telem    == <<sinceTelem, sweepDue>>
vars == <<TargetC, BeerC, Valve, Mode, Override, allowImmediate, sinceChange,
          sinceUpdate, BandC, MinChange, MaxOpen, job, sinceTelem, sweepDue,
          actuator, unconfirmed>>

-----------------------------------------------------------------------------
(* Values of the state.                                                    *)

ValveStates == {"open", "closed"}

\* ValveOverride{}; a timed override has `left' clock units until Until, and
\* -1 once Until has passed.
NoOverride == [state |-> "none", timed |-> FALSE, left |-> 0]
Overrides  == [state : ValveStates \cup {"none"}, timed : BOOLEAN,
               left : -1..MaxTTL]

\* A controller between two ticks, or with a command under way: `age' is the
\* age of the `now' its tick read.
Idle == [pc |-> "waiting", want |-> "closed", why |-> "none", err |-> FALSE,
         age |-> 0]
Jobs == [pc : {"waiting", "sending", "sent"}, want : ValveStates,
         why : {"none", "failsafe", "override", "hysteresis"},
         err : BOOLEAN, age : 0..(MaxMinChange + 1)]

BootTemp  == 0
SimMin == -500
SimMax == 3000
BeerTemps == IF Device THEN Temps \cup {BootTemp} ELSE SimMin..SimMax

Init ==
    /\ TargetC = ConfigTarget
    /\ BeerC = [f \in Fermenters |-> BootTemp]
    /\ Valve = [f \in Fermenters |-> "closed"]
    /\ Mode = [f \in Fermenters |-> "fixed"]
    /\ Override = [f \in Fermenters |-> NoOverride]
    /\ allowImmediate = [f \in Fermenters |-> FALSE]
    /\ sinceChange = [f \in Fermenters |-> MaxMinChange + 1]
    /\ sinceUpdate = [f \in Fermenters |-> 0]
    /\ BandC = ConfigSettings.band
    /\ MinChange = ConfigSettings.minChange
    /\ MaxOpen = ConfigSettings.maxOpen
    /\ job = [f \in Fermenters |-> Idle]
    /\ sinceTelem = 0
    /\ sweepDue = FALSE
    /\ actuator = [f \in Fermenters |-> "closed"]
    /\ unconfirmed = [f \in Fermenters |-> FALSE]

-----------------------------------------------------------------------------
(* What a tick of a controller reads.                                      *)

Hot(f)  == BeerC[f] > TargetC[f] + BandC
Cold(f) == BeerC[f] < TargetC[f] - BandC
Stale(f) == sinceUpdate[f] > StaleLimit

Expired(o) == o.timed /\ o.left < 0
LiveOverride(f) == IF Expired(Override[f]) THEN NoOverride ELSE Override[f]

\* A fail-safe that leaves valves under manual control alone.
FailSafeSparesValveMode(f) ==
    Stale(f) /\ Valve[f] # "closed" /\ Mode[f] # "valve"
FailSafeDue(f) == Stale(f) /\ Valve[f] # "closed"

\* An override that is honoured in valve mode only.
OverriddenInValveMode(f) == ~FailSafeDue(f) /\ Mode[f] = "valve"
Overridden(f) ==
    /\ ~FailSafeDue(f)
    /\ Mode[f] = "valve" \/ LiveOverride(f).state # "none"

OpenCount == Cardinality({g \in Fermenters : Valve[g] = "open"})

CanOpenMore == MaxOpen <= 0 \/ OpenCount < MaxOpen

\* A controller that acts on an allowance only.
ReadyOnce(f) == allowImmediate[f]
Ready(f) == allowImmediate[f] \/ sinceChange[f] > MinChange

WantsOpen(f) == Ready(f) /\ Hot(f) /\ Valve[f] # "open" /\ CanOpenMore

\* A closing that is held back by the limit on open valves too.
WantsCloseLimited(f) ==
    Ready(f) /\ Cold(f) /\ Valve[f] # "closed" /\ CanOpenMore
WantsClose(f) == Ready(f) /\ Cold(f) /\ Valve[f] # "closed"

-----------------------------------------------------------------------------
(* A tick of RunController for fermenter f.                                *)

Begin(f, want, why) ==
    job' = [job EXCEPT ![f] =
              [pc |-> "sending", want |-> want, why |-> why, err |-> FALSE,
               age |-> 0]]

\* Every tick first drops an override whose time has passed.
DropExpired(f) == Override' = [Override EXCEPT ![f] = LiveOverride(f)]

TickFailSafe(f) ==
    /\ job[f].pc = "waiting"
    /\ FailSafeDue(f)
    /\ DropExpired(f)
    /\ Begin(f, "closed", "failsafe")
    /\ UNCHANGED <<TargetC, BeerC, Mode, valve, allowImmediate, sinceUpdate,
                   settings, telem, actuator>>

\* Valve mode without an override keeps the valve as it is.
TickOverridden(f) ==
    /\ job[f].pc = "waiting"
    /\ Overridden(f)
    /\ DropExpired(f)
    /\ \/ /\ LiveOverride(f).state \in ValveStates \ {Valve[f]}
          /\ Begin(f, LiveOverride(f).state, "override")
       \/ /\ LiveOverride(f).state \in {"none", Valve[f]}
          /\ UNCHANGED job
    /\ UNCHANGED <<TargetC, BeerC, Mode, valve, allowImmediate, sinceUpdate,
                   settings, telem, actuator>>

\* NoopDriver simulates the beer: 0.05 degrees down or 0.02 up per tick.
Drift(f) ==
    LET next == BeerC[f] + IF Valve[f] = "open" THEN -5 ELSE 2
    IN  BeerC' = IF Device THEN BeerC
                 ELSE [BeerC EXCEPT ![f] = IF next < SimMin THEN SimMin
                                           ELSE IF next > SimMax THEN SimMax
                                           ELSE next]

TickHysteresis(f) ==
    /\ job[f].pc = "waiting"
    /\ ~FailSafeDue(f) /\ ~Overridden(f)
    /\ DropExpired(f)
    /\ \/ WantsOpen(f) /\ Begin(f, "open", "hysteresis") /\ UNCHANGED BeerC
       \/ WantsClose(f) /\ Begin(f, "closed", "hysteresis") /\ UNCHANGED BeerC
       \/ ~WantsOpen(f) /\ ~WantsClose(f) /\ Drift(f) /\ UNCHANGED job
    /\ UNCHANGED <<TargetC, Mode, valve, allowImmediate, sinceUpdate,
                   settings, telem, actuator>>

RunTick(f) == TickFailSafe(f) \/ TickOverridden(f) \/ TickHysteresis(f)

\* drv.SetValve: one line written to the port, or an error.
WriteOutcomes == IF Device /\ WriteMayFail THEN BOOLEAN ELSE {TRUE}

\* A driver that swallows the error of the write.
SendUnreported(f) ==
    /\ job[f].pc = "sending"
    /\ job' = [job EXCEPT ![f].pc = "sent"]
    /\ \E ok \in WriteOutcomes :
         actuator' = IF ok THEN [actuator EXCEPT ![f] = job[f].want]
                     ELSE actuator
    /\ UNCHANGED <<request, BeerC, valve, allowImmediate, sinceUpdate,
                   settings, telem>>
Send(f) ==
    /\ job[f].pc = "sending"
    /\ \E ok \in WriteOutcomes :
         /\ job' = [job EXCEPT ![f].pc = "sent", ![f].err = ~ok]
         /\ actuator' = IF ok THEN [actuator EXCEPT ![f] = job[f].want]
                        ELSE actuator
    /\ UNCHANGED <<request, BeerC, valve, allowImmediate, sinceUpdate,
                   settings, telem>>

\* Only the hysteresis branch looks at the error.
KeepsState(f) == job[f].err /\ job[f].why = "hysteresis"

CommitFailed(f) ==
    /\ job[f].pc = "sent"
    /\ KeepsState(f)
    /\ job' = [job EXCEPT ![f] = Idle]
    /\ UNCHANGED <<request, BeerC, valve, allowImmediate, sinceUpdate,
                   settings, telem, actuator>>

Commit(f) ==
    /\ job[f].pc = "sent"
    /\ ~KeepsState(f)
    /\ Valve' = [Valve EXCEPT ![f] = job[f].want]
    /\ sinceChange' = [sinceChange EXCEPT ![f] = job[f].age]
    /\ allowImmediate' = [allowImmediate EXCEPT ![f] = FALSE]
    /\ unconfirmed' = [unconfirmed EXCEPT ![f] = job[f].err]
    /\ job' = [job EXCEPT ![f] = Idle]
    /\ UNCHANGED <<request, BeerC, sinceUpdate, settings, telem, actuator>>

-----------------------------------------------------------------------------
(* The handlers that run beside the controllers.                           *)

SetTarget(f, t) ==
    /\ TargetC' = [TargetC EXCEPT ![f] = t]
    /\ allowImmediate' = [allowImmediate EXCEPT ![f] = @ \/ TargetC[f] # t]
    /\ UNCHANGED <<BeerC, Mode, Override, valve, sinceUpdate, settings, job,
                   telem, actuator>>

SetMode(f, m) ==
    /\ Mode' = [Mode EXCEPT ![f] = m]
    /\ Override' = IF m # "valve" /\ Override[f].state # "none"
                                  /\ ~Override[f].timed
                   THEN [Override EXCEPT ![f] = NoOverride]
                   ELSE Override
    /\ allowImmediate' = [allowImmediate EXCEPT ![f] = TRUE]
    /\ UNCHANGED <<TargetC, BeerC, valve, sinceUpdate, settings, job,
                   telem, actuator>>

PutOverride(f, o) ==
    /\ Override' = [Override EXCEPT ![f] = o]
    /\ allowImmediate' = [allowImmediate EXCEPT ![f] = TRUE]
    /\ UNCHANGED <<TargetC, BeerC, Mode, valve, sinceUpdate, settings, job,
                   telem, actuator>>

\* until_s may lie in the past; neither until_s nor for_s: no end.
SetValveOverride(f, s) ==
    \/ PutOverride(f, [state |-> s, timed |-> FALSE, left |-> 0])
    \/ \E ttl \in TTLs :
         PutOverride(f, [state |-> s, timed |-> TRUE, left |-> ttl])

ClearOverride(f) == PutOverride(f, NoOverride)

\* A handler that stores whatever it is sent.
ApplyUnchecked(s) ==
    /\ BandC' = s.band
    /\ MinChange' = s.minChange
    /\ MaxOpen' = s.maxOpen
    /\ UNCHANGED <<request, BeerC, valve, allowImmediate, sinceUpdate, job,
                   telem, actuator>>
ApplyControllerSettings(s) ==
    /\ BandC' = IF s.band > 0 THEN s.band ELSE BandC
    /\ MinChange' = IF s.minChange >= 0 THEN s.minChange ELSE MinChange
    /\ MaxOpen' = IF s.maxOpen >= 0 THEN s.maxOpen ELSE MaxOpen
    /\ UNCHANGED <<request, BeerC, valve, allowImmediate, sinceUpdate, job,
                   telem, actuator>>

\* The callback of the serial reader.  Telemetry that names no configured
\* fermenter changes none of them, and feeds the watchdog all the same.
TelemetryStored ==
    /\ Device
    /\ sinceTelem' = 0
    /\ UNCHANGED <<request, valve, allowImmediate, settings, job, sweepDue,
                   actuator>>

Telemetry(f, c) ==
    /\ TelemetryStored
    /\ BeerC' = [BeerC EXCEPT ![f] = c]
    /\ sinceUpdate' = [sinceUpdate EXCEPT ![f] = 0]

TelemetryUnknown == TelemetryStored /\ UNCHANGED <<BeerC, sinceUpdate>>

\* The watchdog looks at lastTelem at each of its ticks, and sweeps all valves
\* under the mutex, which it may have to wait for: telemetry may come between
\* the two, and is not looked at again.  `failed' are the fermenters whose write
\* fails; the errors are ignored.  The event it logs is left out.
NoticeSilence ==
    /\ ~sweepDue
    /\ sinceTelem > WatchdogLimit
    /\ sweepDue' = TRUE
    /\ UNCHANGED <<request, BeerC, valve, allowImmediate, sinceUpdate,
                   settings, job, sinceTelem, actuator>>

FailedWrites == IF Device /\ WriteMayFail THEN SUBSET Fermenters ELSE {{}}

Sweep ==
    /\ sweepDue
    /\ sweepDue' = FALSE
    /\ Valve' = [f \in Fermenters |-> "closed"]
    /\ \E failed \in FailedWrites :
         /\ actuator' = [f \in Fermenters |->
                           IF f \in failed THEN actuator[f] ELSE "closed"]
         /\ unconfirmed' = [f \in Fermenters |-> f \in failed]
    /\ UNCHANGED <<request, BeerC, allowImmediate, sinceChange, sinceUpdate,
                   settings, job, sinceTelem>>

Watchdog == NoticeSilence \/ Sweep

-----------------------------------------------------------------------------
(* Time, and the end of the process.                                       *)

Older(age, limit) == IF age > limit THEN age ELSE age + 1

Elapse ==
    /\ sinceChange' = [f \in Fermenters |-> Older(sinceChange[f], MaxMinChange)]
    /\ sinceUpdate' = [f \in Fermenters |-> Older(sinceUpdate[f], StaleLimit)]
    /\ sinceTelem' = Older(sinceTelem, WatchdogLimit)
    /\ job' = [f \in Fermenters |->
                 IF job[f].pc = "waiting" THEN job[f]
                 ELSE [job[f] EXCEPT !.age = Older(job[f].age, MaxMinChange)]]
    /\ Override' = [f \in Fermenters |->
                      IF Override[f].timed /\ Override[f].left >= 0
                      THEN [Override[f] EXCEPT !.left = Override[f].left - 1]
                      ELSE Override[f]]
    /\ UNCHANGED <<TargetC, BeerC, Mode, Valve, allowImmediate, settings,
                   sweepDue, actuator, unconfirmed>>

\* A setting saved as 0, or saved with a value that is not accepted, gives way
\* to the configuration.
Resumed(saved, configured) == IF saved > 0 THEN saved ELSE configured

\* Each of the three keys is saved and read by itself, so what a new process
\* finds may come from different bodies; a key that is absent, or whose reading
\* fails, counts as 0.
SavedSettings == Settings \cup {ConfigSettings}

\* The process dies and systemd starts it again.  Valve is "closed" whatever
\* the device does; targets and overrides come from the configuration (the
\* saved ones are never read), the mode from the database, which may hold an
\* earlier one, or none if its last write failed.  The device keeps its valves
\* or resets with the port.
Restart ==
    /\ RuntimeMayRestart
    /\ TargetC' = ConfigTarget
    /\ BeerC' = [f \in Fermenters |-> BootTemp]
    /\ Valve' = [f \in Fermenters |-> "closed"]
    /\ Mode' \in [Fermenters -> Modes \cup {"fixed"}]
    /\ allowImmediate' \in [Fermenters -> BOOLEAN]
    /\ Override' = [f \in Fermenters |-> NoOverride]
    /\ sinceChange' = [f \in Fermenters |-> MaxMinChange + 1]
    /\ sinceUpdate' = [f \in Fermenters |-> 0]
    /\ \E s \in SavedSettings : BandC' = Resumed(s.band, ConfigSettings.band)
    /\ \E s \in SavedSettings :
         MinChange' = Resumed(s.minChange, ConfigSettings.minChange)
    /\ \E s \in SavedSettings :
         MaxOpen' = Resumed(s.maxOpen, ConfigSettings.maxOpen)
    /\ job' = [f \in Fermenters |-> Idle]
    /\ sinceTelem' = 0
    /\ sweepDue' = FALSE
    /\ actuator' \in {actuator, [f \in Fermenters |-> "closed"]}
    /\ unconfirmed' = [f \in Fermenters |-> TRUE]

\* The device is reset: setup() closes its valves, and the runtime, which is
\* told nothing, believes what it believed.
DeviceReset ==
    /\ Device
    /\ actuator' = [f \in Fermenters |-> "closed"]
    /\ UNCHANGED <<request, BeerC, valve, allowImmediate, sinceUpdate, settings,
                   job, telem>>

-----------------------------------------------------------------------------
Controller(f) == RunTick(f) \/ Send(f) \/ CommitFailed(f) \/ Commit(f)

Request(f) ==
    \/ \E t \in Targets : SetTarget(f, t)
    \/ \E m \in Modes : SetMode(f, m)
    \/ \E s \in OverrideStates : SetValveOverride(f, s)
    \/ OverrideStates # {} /\ ClearOverride(f)

Next ==
    \/ \E f \in Fermenters : Controller(f) \/ Request(f)
    \/ \E f \in Fermenters, c \in Temps : Telemetry(f, c)
    \/ TelemetryUnknown
    \/ \E s \in Settings : ApplyControllerSettings(s)
    \/ Watchdog
    \/ DeviceReset
    \/ Elapse
    \/ Restart

Spec == Init /\ [][Next]_vars

\* Controllers tick every second, a write returns, the mutex is granted, the
\* watchdog ticks and time passes.  Nothing forces requests, telemetry or
\* restarts to happen.
Fairness ==
    /\ \A f \in Fermenters : /\ WF_vars(RunTick(f))
                             /\ WF_vars(Send(f))
                             /\ WF_vars(CommitFailed(f) \/ Commit(f))
    /\ WF_vars(Watchdog)
    /\ WF_vars(Elapse)

FairSpec == Spec /\ Fairness

-----------------------------------------------------------------------------
(* Properties that hold.                                                   *)

\* The one type invariant.  Its parts that could fail: settings stay usable
\* whatever is posted (a minimum time is never negative), the simulated beer
\* stays within its clamp, and the ages within the limits they are compared to.
TypeOK ==
    /\ TargetC \in [Fermenters -> Targets]
    /\ BeerC \in [Fermenters -> BeerTemps]
    /\ Valve \in [Fermenters -> ValveStates]
    /\ Mode \in [Fermenters -> Modes \cup {"fixed"}]
    /\ Override \in [Fermenters -> Overrides]
    /\ allowImmediate \in [Fermenters -> BOOLEAN]
    /\ sinceChange \in [Fermenters -> 0..(MaxMinChange + 1)]
    /\ sinceUpdate \in [Fermenters -> 0..(StaleLimit + 1)]
    /\ BandC \in Int
    /\ MinChange \in 0..MaxMinChange
    /\ MaxOpen \in Int
    /\ job \in [Fermenters -> Jobs]
    /\ sinceTelem \in 0..(WatchdogLimit + 1)
    /\ sweepDue \in BOOLEAN
    /\ actuator \in [Fermenters -> ValveStates]
    /\ unconfirmed \in [Fermenters -> BOOLEAN]

\* A valve the runtime believes closed really is closed, once its controller is
\* between two commands, unless the belief rests on a restart or on a write
\* whose error was ignored.  The watchdog may sweep at any point of a command
\* under way (before its write, after it, after a failure) and no order of the
\* two leaves cooling on behind the runtime's back.  The converse is false:
\* a sweep between a write and its commit leaves a closed valve believed open.
BelievedClosedIsClosed ==
    \A f \in Fermenters :
      job[f].pc = "waiting" /\ Valve[f] = "closed" /\ ~unconfirmed[f]
        => actuator[f] = "closed"

\* The valve of a fermenter whose sensor has gone silent is closed in the end,
\* or the sensor speaks again: also in valve mode, under an override to open,
\* and with a command to open under way.  It is the device's valve that closes.
StaleValveCloses ==
    \A f \in Fermenters : []<>(actuator[f] = "closed" \/ ~Stale(f))

\* The hysteresis governs fermenter f.
Automatic(f) ==
    /\ Mode[f] # "valve"
    /\ Override[f].state = "none"

\* A fermenter that stays too warm, with a live sensor and room under the limit
\* on open valves, gets its valve opened: the minimum time, a limit of 0, the
\* sweeps of the watchdog and the other controllers do not hold it back for
\* ever.
Room == MaxOpen <= 0 \/ Cardinality({g \in Fermenters : Valve[g] = "open"}) < MaxOpen
WarmWaiting(f) ==
    Automatic(f) /\ Hot(f) /\ Room /\ ~Stale(f) /\ Valve[f] = "closed"
WarmOpens == \A f \in Fermenters : []<>~WarmWaiting(f)

\* A fermenter that stays too cold gets its cooling turned off, at the device,
\* however many valves are open: a closing never waits for room.
ColdCooling(f) == Automatic(f) /\ Cold(f) /\ actuator[f] = "open"
ColdCloses == \A f \in Fermenters : []<>~ColdCooling(f)

\* Both, with overrides that come and go and changes into valve mode and back.
HysteresisActs == WarmOpens /\ ColdCloses

\* An override without an end wins in every mode: the runtime drives the valve
\* to the state asked for, the device too when that is "closed", unless the
\* override is replaced or the sensor goes silent.
Overriding(f, s) == Override[f].state = s /\ ~Override[f].timed
OverrideWins ==
    \A f \in Fermenters :
      /\ []<>(Valve[f] = "open" \/ ~Overriding(f, "open") \/ Stale(f))
      /\ []<>(actuator[f] = "closed" \/ ~Overriding(f, "closed"))

-----------------------------------------------------------------------------
(* What the repository says, and the code does not do.                     *)

\* config.phb.yaml:27, "max simultaneous open valves; 0 = unlimited".
OpenLimit == MaxOpen > 0 => OpenCount <= MaxOpen
=============================================================================
