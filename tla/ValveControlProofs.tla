------------------------- MODULE ValveControlProofs -------------------------
(***************************************************************************)
(* Theorems about ValveControl for any number of fermenters, any inputs    *)
(* and any limits: type correctness, and that a valve believed closed is   *)
(* closed.                                                                 *)
(***************************************************************************)
EXTENDS ValveControl, TLAPS

-----------------------------------------------------------------------------
(* Type correctness.                                                       *)

\* The clamp of the simulated beer.
LEMMA SimBounds == SimMin \in Int /\ SimMax \in Int /\ SimMin <= 0 /\ 0 <= SimMax
BY DEF SimMin, SimMax

LEMMA InitTypeOK == Init => TypeOK
<1>. SUFFICES ASSUME Init PROVE TypeOK
  OBVIOUS
<1>. USE FlagsAssumption, LimitsAssumption, InputsAssumption, SettingsAssumption
<1>1. NoOverride \in Overrides
  BY DEF NoOverride, Overrides, ValveStates
<1>2. Idle \in Jobs
  BY DEF Idle, Jobs, ValveStates
<1>3. BootTemp \in BeerTemps
  BY SimBounds DEF BootTemp, BeerTemps
<1>4. ConfigSettings.band \in Int /\ ConfigSettings.maxOpen \in Int
  BY DEF SettingsRecords
<1>5. sweepDue \in BOOLEAN
  BY DEF Init
<1>. QED
  BY <1>1, <1>2, <1>3, <1>4, <1>5 DEF Init, TypeOK, ValveStates

\* The override a tick leaves behind is one.
LEMMA LiveOverrideType ==
  ASSUME TypeOK, NEW f \in Fermenters
  PROVE  LiveOverride(f) \in Overrides
<1>1. NoOverride \in Overrides
  BY LimitsAssumption DEF NoOverride, Overrides, ValveStates
<1>. QED
  BY <1>1 DEF LiveOverride, TypeOK

LEMMA DropExpiredType ==
  ASSUME TypeOK, NEW f \in Fermenters, DropExpired(f)
  PROVE  Override' \in [Fermenters -> Overrides]
BY LiveOverrideType DEF DropExpired, TypeOK

\* A new command is a well-formed job.
LEMMA BeginType ==
  ASSUME TypeOK, NEW f \in Fermenters, NEW want \in ValveStates,
         NEW why \in {"failsafe", "override", "hysteresis"},
         Begin(f, want, why)
  PROVE  job' \in [Fermenters -> Jobs]
<1>. DEFINE j == [pc |-> "sending", want |-> want, why |-> why, err |-> FALSE,
                  age |-> 0]
<1>1. j \in Jobs
  BY LimitsAssumption DEF Jobs
<1>2. job' = [job EXCEPT ![f] = j]
  BY DEF Begin
<1>. QED
  BY <1>1, <1>2 DEF TypeOK

LEMMA DriftType ==
  ASSUME TypeOK, NEW f \in Fermenters, Drift(f)
  PROVE  BeerC' \in [Fermenters -> BeerTemps]
<1>1. CASE Device
  BY <1>1 DEF Drift, TypeOK
<1>2. CASE ~Device
  <2>. DEFINE next == BeerC[f] + IF Valve[f] = "open" THEN -5 ELSE 2
              clamped == IF next < SimMin THEN SimMin
                         ELSE IF next > SimMax THEN SimMax ELSE next
  <2>1. BeerTemps = SimMin..SimMax
    BY <1>2 DEF BeerTemps
  <2>2. BeerC[f] \in Int
    BY <2>1, SimBounds DEF TypeOK
  <2>3. next \in Int
    BY <2>2
  <2>4. BeerC' = [BeerC EXCEPT ![f] = clamped]
    BY <1>2 DEF Drift
  <2>. HIDE DEF next
  <2>5. clamped \in BeerTemps
    BY <2>1, <2>3, SimBounds
  <2>. HIDE DEF clamped
  <2>. QED
    BY <2>4, <2>5 DEF TypeOK
<1>. QED
  BY <1>1, <1>2

\* The three ways a tick decides.
LEMMA RunTickType ==
  ASSUME TypeOK, NEW f \in Fermenters, RunTick(f)
  PROVE  TypeOK'
<1>1. CASE TickFailSafe(f)
  <2>1. Override' \in [Fermenters -> Overrides]
    BY <1>1, DropExpiredType DEF TickFailSafe
  <2>2. job' \in [Fermenters -> Jobs]
    BY <1>1, BeginType DEF TickFailSafe, ValveStates
  <2>. QED
    BY <1>1, <2>1, <2>2 DEF TickFailSafe, TypeOK, valve, telem, settings
<1>2. CASE TickOverridden(f)
  <2>1. Override' \in [Fermenters -> Overrides]
    BY <1>2, DropExpiredType DEF TickOverridden
  <2>2. job' \in [Fermenters -> Jobs]
    <3>1. CASE /\ LiveOverride(f).state \in ValveStates \ {Valve[f]}
               /\ Begin(f, LiveOverride(f).state, "override")
      BY <3>1, BeginType
    <3>2. CASE UNCHANGED job
      BY <3>2 DEF TypeOK
    <3>. QED
      BY <1>2, <3>1, <3>2 DEF TickOverridden
  <2>. QED
    BY <1>2, <2>1, <2>2 DEF TickOverridden, TypeOK, valve, telem, settings
<1>3. CASE TickHysteresis(f)
  <2>1. Override' \in [Fermenters -> Overrides]
    BY <1>3, DropExpiredType DEF TickHysteresis
  <2>2. /\ job' \in [Fermenters -> Jobs]
        /\ BeerC' \in [Fermenters -> BeerTemps]
    <3>1. CASE Begin(f, "open", "hysteresis") /\ UNCHANGED BeerC
      BY <3>1, BeginType DEF TypeOK, ValveStates
    <3>2. CASE Begin(f, "closed", "hysteresis") /\ UNCHANGED BeerC
      BY <3>2, BeginType DEF TypeOK, ValveStates
    <3>3. CASE Drift(f) /\ UNCHANGED job
      BY <3>3, DriftType DEF TypeOK
    <3>. QED
      BY <1>3, <3>1, <3>2, <3>3 DEF TickHysteresis
  <2>. QED
    BY <1>3, <2>1, <2>2 DEF TickHysteresis, TypeOK, valve, telem, settings
<1>. QED
  BY <1>1, <1>2, <1>3 DEF RunTick

LEMMA SendType ==
  ASSUME TypeOK, NEW f \in Fermenters, Send(f)
  PROVE  TypeOK'
<1>1. PICK ok \in WriteOutcomes :
        /\ job' = [job EXCEPT ![f].pc = "sent", ![f].err = ~ok]
        /\ actuator' = IF ok THEN [actuator EXCEPT ![f] = job[f].want]
                       ELSE actuator
  BY DEF Send
<1>2. job[f] \in Jobs /\ job[f].want \in ValveStates
  BY DEF TypeOK, Jobs
<1>3. actuator' \in [Fermenters -> ValveStates]
  BY <1>1, <1>2 DEF TypeOK
<1>4. job' \in [Fermenters -> Jobs]
  BY <1>1, <1>2 DEF TypeOK, Jobs
<1>. QED
  BY <1>3, <1>4 DEF Send, TypeOK, request, valve, telem, settings

LEMMA CommitType ==
  ASSUME TypeOK, NEW f \in Fermenters, CommitFailed(f) \/ Commit(f)
  PROVE  TypeOK'
<1>1. job[f].want \in ValveStates /\ job[f].err \in BOOLEAN
      /\ job[f].age \in 0..(MaxMinChange + 1)
  BY DEF TypeOK, Jobs
<1>2. Idle \in Jobs
  BY LimitsAssumption DEF Idle, Jobs, ValveStates
<1>3. CASE CommitFailed(f)
  BY <1>2, <1>3 DEF CommitFailed, TypeOK, request, valve, telem, settings
<1>4. CASE Commit(f)
  BY <1>1, <1>2, <1>4 DEF Commit, TypeOK, request, telem, settings
<1>. QED
  BY <1>3, <1>4

LEMMA PutOverrideType ==
  ASSUME TypeOK, NEW f \in Fermenters, NEW o \in Overrides, PutOverride(f, o)
  PROVE  TypeOK'
BY DEF PutOverride, TypeOK, valve, telem, settings

LEMMA RequestType ==
  ASSUME TypeOK, NEW f \in Fermenters, Request(f)
  PROVE  TypeOK'
<1>0. NoOverride \in Overrides
  BY LimitsAssumption DEF NoOverride, Overrides, ValveStates
<1>1. ASSUME NEW t \in Targets, SetTarget(f, t) PROVE TypeOK'
  <2>1. allowImmediate' \in [Fermenters -> BOOLEAN]
    BY <1>1 DEF SetTarget, TypeOK
  <2>2. TargetC' \in [Fermenters -> Targets]
    BY <1>1 DEF SetTarget, TypeOK
  <2>. QED
    BY <1>1, <2>1, <2>2 DEF SetTarget, TypeOK, valve, telem, settings
<1>2. ASSUME NEW m \in Modes, SetMode(f, m) PROVE TypeOK'
  <2>1. Override' \in [Fermenters -> Overrides]
    BY <1>0, <1>2 DEF SetMode, TypeOK
  <2>. QED
    BY <1>2, <2>1 DEF SetMode, TypeOK, valve, telem, settings
<1>3. ASSUME NEW s \in OverrideStates, SetValveOverride(f, s) PROVE TypeOK'
  <2>1. s \in ValveStates
    BY <1>3, InputsAssumption DEF ValveStates
  <2>2. CASE PutOverride(f, [state |-> s, timed |-> FALSE, left |-> 0])
    <3>1. [state |-> s, timed |-> FALSE, left |-> 0] \in Overrides
      BY <2>1, LimitsAssumption DEF Overrides
    <3>. QED
      BY <2>2, <3>1, PutOverrideType
  <2>3. ASSUME NEW ttl \in TTLs,
               PutOverride(f, [state |-> s, timed |-> TRUE, left |-> ttl])
        PROVE  TypeOK'
    <3>1. [state |-> s, timed |-> TRUE, left |-> ttl] \in Overrides
      BY <2>1, InputsAssumption DEF Overrides
    <3>. QED
      BY <2>3, <3>1, PutOverrideType
  <2>. QED
    BY <1>3, <2>2, <2>3 DEF SetValveOverride
<1>4. ASSUME ClearOverride(f) PROVE TypeOK'
  BY <1>0, <1>4, PutOverrideType DEF ClearOverride
<1>. QED
  BY <1>1, <1>2, <1>3, <1>4 DEF Request

LEMMA SettingsType ==
  ASSUME TypeOK, NEW s \in Settings, ApplyControllerSettings(s)
  PROVE  TypeOK'
<1>1. s.band \in Int /\ s.minChange \in Int /\ s.minChange <= MaxMinChange
      /\ s.maxOpen \in Int
  BY SettingsAssumption DEF SettingsRecords
<1>2. MinChange' \in 0..MaxMinChange
  BY <1>1, LimitsAssumption DEF ApplyControllerSettings, TypeOK
<1>3. BandC' \in Int /\ MaxOpen' \in Int
  BY <1>1 DEF ApplyControllerSettings, TypeOK
<1>. QED
  BY <1>2, <1>3 DEF ApplyControllerSettings, TypeOK, request, valve, telem

LEMMA TelemetryType ==
  ASSUME TypeOK
  PROVE  /\ \A f \in Fermenters, c \in Temps : Telemetry(f, c) => TypeOK'
         /\ TelemetryUnknown => TypeOK'
<1>. USE LimitsAssumption
<1>1. ASSUME NEW f \in Fermenters, NEW c \in Temps, Telemetry(f, c)
      PROVE  TypeOK'
  <2>1. c \in BeerTemps
    BY <1>1 DEF Telemetry, TelemetryStored, BeerTemps
  <2>2. BeerC' \in [Fermenters -> BeerTemps]
    BY <1>1, <2>1 DEF Telemetry, TypeOK
  <2>. QED
    BY <1>1, <2>2
    DEF Telemetry, TelemetryStored, TypeOK, request, valve, telem, settings
<1>2. ASSUME TelemetryUnknown PROVE TypeOK'
  BY <1>2
  DEF TelemetryUnknown, TelemetryStored, TypeOK, request, valve, telem, settings
<1>. QED
  BY <1>1, <1>2

LEMMA NoticeSilenceType ==
  ASSUME TypeOK, NoticeSilence
  PROVE  TypeOK'
BY DEF NoticeSilence, TypeOK, request, valve, settings

LEMMA SweepType ==
  ASSUME TypeOK, Sweep
  PROVE  TypeOK'
<1>1. PICK failed \in FailedWrites :
        /\ actuator' = [f \in Fermenters |->
                          IF f \in failed THEN actuator[f] ELSE "closed"]
        /\ unconfirmed' = [f \in Fermenters |-> f \in failed]
  BY DEF Sweep
<1>2. actuator' \in [Fermenters -> ValveStates]
  BY <1>1 DEF TypeOK, ValveStates
<1>3. unconfirmed' \in [Fermenters -> BOOLEAN]
  BY <1>1
<1>. QED
  BY <1>2, <1>3 DEF Sweep, TypeOK, ValveStates, request, settings

LEMMA OlderType ==
  ASSUME NEW limit \in Nat, NEW age \in 0..(limit + 1)
  PROVE  Older(age, limit) \in 0..(limit + 1)
BY DEF Older

LEMMA ElapseType ==
  ASSUME TypeOK, Elapse
  PROVE  TypeOK'
<1>. USE LimitsAssumption
<1>1. sinceChange' \in [Fermenters -> 0..(MaxMinChange + 1)]
  BY OlderType DEF Elapse, TypeOK
<1>2. sinceUpdate' \in [Fermenters -> 0..(StaleLimit + 1)]
  BY OlderType DEF Elapse, TypeOK
<1>3. sinceTelem' \in 0..(WatchdogLimit + 1)
  BY OlderType DEF Elapse, TypeOK
<1>4. job' \in [Fermenters -> Jobs]
  <2>. DEFINE j(f) == IF job[f].pc = "waiting" THEN job[f]
                      ELSE [job[f] EXCEPT
                              !.age = Older(job[f].age, MaxMinChange)]
  <2>1. ASSUME NEW f \in Fermenters PROVE j(f) \in Jobs
    <3>1. job[f] \in Jobs /\ job[f].age \in 0..(MaxMinChange + 1)
      BY DEF TypeOK, Jobs
    <3>2. Older(job[f].age, MaxMinChange) \in 0..(MaxMinChange + 1)
      BY <3>1, OlderType
    <3>. QED
      BY <3>1, <3>2 DEF Jobs
  <2>2. job' = [f \in Fermenters |-> j(f)]
    BY DEF Elapse
  <2>. HIDE DEF j
  <2>. QED
    BY <2>1, <2>2
<1>5. Override' \in [Fermenters -> Overrides]
  <2>. DEFINE o(f) == IF Override[f].timed /\ Override[f].left >= 0
                      THEN [Override[f] EXCEPT !.left = Override[f].left - 1]
                      ELSE Override[f]
  <2>1. ASSUME NEW f \in Fermenters PROVE o(f) \in Overrides
    <3>1. Override[f] \in Overrides /\ Override[f].left \in -1..MaxTTL
      BY DEF TypeOK, Overrides
    <3>. QED
      BY <3>1 DEF Overrides
  <2>2. Override' = [f \in Fermenters |-> o(f)]
    BY DEF Elapse
  <2>. HIDE DEF o
  <2>. QED
    BY <2>1, <2>2
<1>. QED
  BY <1>1, <1>2, <1>3, <1>4, <1>5 DEF Elapse, TypeOK, settings

LEMMA RestartType ==
  ASSUME TypeOK, Restart
  PROVE  TypeOK'
<1>. USE LimitsAssumption, InputsAssumption, SettingsAssumption, FlagsAssumption
<1>1. NoOverride \in Overrides /\ Idle \in Jobs
  BY DEF NoOverride, Overrides, Idle, Jobs, ValveStates
<1>2. BootTemp \in BeerTemps
  BY SimBounds DEF BootTemp, BeerTemps
<1>3. /\ BandC' \in Int
      /\ MinChange' \in 0..MaxMinChange
      /\ MaxOpen' \in Int
  <2>1. ASSUME NEW s \in SavedSettings
        PROVE  /\ s.band \in Int /\ s.minChange \in Int /\ s.maxOpen \in Int
               /\ s.minChange <= MaxMinChange
    BY DEF SavedSettings, SettingsRecords
  <2>2. ConfigSettings.band \in Int /\ ConfigSettings.maxOpen \in Int
    BY DEF SettingsRecords
  <2>. QED
    BY <2>1, <2>2 DEF Restart, Resumed
<1>4. actuator' \in [Fermenters -> ValveStates]
  BY DEF Restart, TypeOK, ValveStates
<1>5. sweepDue' \in BOOLEAN
  BY DEF Restart
<1>. QED
  BY <1>1, <1>2, <1>3, <1>4, <1>5 DEF Restart, TypeOK, ValveStates

LEMMA NextTypeOK == TypeOK /\ [Next]_vars => TypeOK'
<1>. SUFFICES ASSUME TypeOK, [Next]_vars PROVE TypeOK'
  OBVIOUS
<1>1. ASSUME NEW f \in Fermenters, Controller(f) PROVE TypeOK'
  BY <1>1, RunTickType, SendType, CommitType DEF Controller
<1>2. ASSUME NEW f \in Fermenters, Request(f) PROVE TypeOK'
  BY <1>2, RequestType
<1>3. ASSUME NEW s \in Settings, ApplyControllerSettings(s) PROVE TypeOK'
  BY <1>3, SettingsType
<1>4. CASE UNCHANGED vars
  BY <1>4 DEF vars, TypeOK
<1>5. CASE DeviceReset
  BY <1>5 DEF DeviceReset, TypeOK, ValveStates, request, valve, telem,
              settings
<1>. QED
  BY <1>1, <1>2, <1>3, <1>4, <1>5, TelemetryType, NoticeSilenceType, SweepType,
     ElapseType, RestartType
  DEF Next, Watchdog

\* The state keeps its type for every configuration, whatever is posted: a
\* minimum time between changes stays non-negative, and the simulated beer
\* within its clamp.
THEOREM TypeCorrect == Spec => []TypeOK
BY InitTypeOK, NextTypeOK, PTL DEF Spec

-----------------------------------------------------------------------------
(* A valve believed closed is closed.                                      *)

\* BelievedClosedIsClosed speaks of controllers between two commands only, and
\* is not inductive.  Through a command it is carried by three facts: before
\* the write it holds as it is; a write of "closed" that succeeded has closed
\* the valve, and nothing but the next command opens it; and after a write that
\* failed it still holds as it is.
Trusted(f) ==
    Valve[f] = "closed" /\ ~unconfirmed[f] => actuator[f] = "closed"
CommandSafe(f) ==
    /\ job[f].pc # "sent" => Trusted(f)
    /\ job[f].pc = "sent" /\ job[f].err => Trusted(f)
    /\ job[f].pc = "sent" /\ ~job[f].err /\ job[f].want = "closed"
         => actuator[f] = "closed"
Inv == TypeOK /\ \A f \in Fermenters : CommandSafe(f)

LEMMA InitInv == Init => Inv
<1>. SUFFICES ASSUME Init PROVE Inv
  OBVIOUS
<1>1. TypeOK
  BY InitTypeOK
<1>. QED
  BY <1>1 DEF Init, Inv, CommandSafe, Trusted, Idle

\* What a step does not touch stays safe.
LEMMA Untouched ==
  ASSUME Inv, UNCHANGED <<Valve, unconfirmed, actuator>>, NEW g \in Fermenters,
         \/ job'[g] = job[g]
         \/ job[g].pc # "sent" /\ job'[g].pc # "sent"
  PROVE  CommandSafe(g)'
BY DEF Inv, CommandSafe, Trusted

LEMMA BeginSafe ==
  ASSUME Inv, UNCHANGED <<Valve, unconfirmed, actuator>>,
         NEW f \in Fermenters, job[f].pc = "waiting",
         NEW want, NEW why, Begin(f, want, why)
  PROVE  \A g \in Fermenters : CommandSafe(g)'
<1>. SUFFICES ASSUME NEW g \in Fermenters PROVE CommandSafe(g)'
  OBVIOUS
<1>1. g # f => job'[g] = job[g]
  BY DEF Begin, Inv, TypeOK
<1>2. job'[f].pc = "sending"
  BY DEF Begin, Inv, TypeOK
<1>. QED
  BY <1>1, <1>2, Untouched

LEMMA RunTickSafe ==
  ASSUME Inv, NEW f \in Fermenters, RunTick(f)
  PROVE  \A g \in Fermenters : CommandSafe(g)'
<1>1. UNCHANGED <<Valve, unconfirmed, actuator>> /\ job[f].pc = "waiting"
  BY DEF RunTick, TickFailSafe, TickOverridden, TickHysteresis, valve
<1>2. \/ UNCHANGED job
      \/ \E want \in ValveStates, why \in {"failsafe", "override", "hysteresis"} :
           Begin(f, want, why)
  BY DEF RunTick, TickFailSafe, TickOverridden, TickHysteresis, ValveStates
<1>3. CASE UNCHANGED job
  BY <1>1, <1>3, Untouched
<1>. QED
  BY <1>1, <1>2, <1>3, BeginSafe

LEMMA SendSafe ==
  ASSUME Inv, NEW f \in Fermenters, Send(f)
  PROVE  \A g \in Fermenters : CommandSafe(g)'
<1>. SUFFICES ASSUME NEW g \in Fermenters PROVE CommandSafe(g)'
  OBVIOUS
<1>1. PICK ok \in WriteOutcomes :
        /\ job' = [job EXCEPT ![f].pc = "sent", ![f].err = ~ok]
        /\ actuator' = IF ok THEN [actuator EXCEPT ![f] = job[f].want]
                       ELSE actuator
  BY DEF Send
<1>2. UNCHANGED <<Valve, unconfirmed>>
  BY DEF Send, valve
<1>3. CASE g # f
  <2>1. job'[g] = job[g] /\ actuator'[g] = actuator[g]
    BY <1>1, <1>3 DEF Inv, TypeOK
  <2>. QED
    BY <1>2, <2>1 DEF Inv, CommandSafe, Trusted
<1>4. CASE g = f
  <2>0. job[f] \in Jobs
    BY DEF Inv, TypeOK
  <2>1. /\ job'[f].pc = "sent"
        /\ job'[f].err = ~ok
        /\ job'[f].want = job[f].want
    BY <1>1, <2>0 DEF Inv, TypeOK, Jobs
  <2>2. CASE ok
    <3>1. actuator'[f] = job[f].want
      BY <1>1, <2>2 DEF Inv, TypeOK
    <3>. QED
      BY <1>4, <2>1, <2>2, <3>1 DEF CommandSafe
  <2>3. CASE ~ok
    <3>1. Trusted(f)
      BY DEF Send, Inv, CommandSafe
    <3>2. Trusted(f)'
      BY <1>1, <1>2, <2>3, <3>1 DEF Trusted
    <3>. QED
      BY <1>4, <2>1, <2>3, <3>2 DEF CommandSafe
  <2>. QED
    BY <2>2, <2>3
<1>. QED
  BY <1>3, <1>4

LEMMA CommitSafe ==
  ASSUME Inv, NEW f \in Fermenters, CommitFailed(f) \/ Commit(f)
  PROVE  \A g \in Fermenters : CommandSafe(g)'
<1>. SUFFICES ASSUME NEW g \in Fermenters PROVE CommandSafe(g)'
  OBVIOUS
<1>1. job[f].pc = "sent" /\ actuator' = actuator
      /\ job' = [job EXCEPT ![f] = Idle]
  BY DEF CommitFailed, Commit
<1>2. job'[f].pc = "waiting"
  BY <1>1 DEF Inv, TypeOK, Idle
<1>3. CASE g # f
  <2>1. /\ job'[g] = job[g]
        /\ Valve'[g] = Valve[g]
        /\ unconfirmed'[g] = unconfirmed[g]
    BY <1>1, <1>3 DEF CommitFailed, Commit, Inv, TypeOK, valve
  <2>. QED
    BY <1>1, <2>1 DEF Inv, CommandSafe, Trusted
<1>4. CASE g = f /\ CommitFailed(f)
  <2>1. Trusted(f)
    BY <1>1, <1>4 DEF CommitFailed, KeepsState, Inv, CommandSafe
  <2>. QED
    BY <1>1, <1>2, <1>4, <2>1 DEF CommitFailed, CommandSafe, Trusted, valve
<1>5. CASE g = f /\ Commit(f)
  <2>1. Valve'[f] = job[f].want /\ unconfirmed'[f] = job[f].err
    BY <1>5 DEF Commit, Inv, TypeOK
  <2>. QED
    BY <1>1, <1>2, <1>5, <2>1 DEF Inv, CommandSafe, Trusted
<1>. QED
  BY <1>3, <1>4, <1>5

\* A sweep closes every valve it can reach, and marks the others.
LEMMA SweepSafe ==
  ASSUME Inv, Sweep
  PROVE  \A g \in Fermenters : CommandSafe(g)'
<1>. SUFFICES ASSUME NEW g \in Fermenters PROVE CommandSafe(g)'
  OBVIOUS
<1>1. PICK failed \in FailedWrites :
        /\ actuator' = [f \in Fermenters |->
                          IF f \in failed THEN actuator[f] ELSE "closed"]
        /\ unconfirmed' = [f \in Fermenters |-> f \in failed]
  BY DEF Sweep
<1>2. Trusted(g)'
  BY <1>1 DEF Trusted
<1>3. actuator[g] = "closed" => actuator'[g] = "closed"
  BY <1>1
<1>4. job' = job
  BY DEF Sweep
<1>. QED
  BY <1>2, <1>3, <1>4 DEF Inv, CommandSafe

LEMMA ElapseSafe ==
  ASSUME Inv, Elapse
  PROVE  \A g \in Fermenters : CommandSafe(g)'
<1>. SUFFICES ASSUME NEW g \in Fermenters PROVE CommandSafe(g)'
  OBVIOUS
<1>1. job[g] \in Jobs
  BY DEF Inv, TypeOK
<1>2. /\ job'[g].pc = job[g].pc
      /\ job'[g].want = job[g].want
      /\ job'[g].err = job[g].err
  BY <1>1 DEF Elapse, Jobs
<1>3. UNCHANGED <<Valve, unconfirmed, actuator>>
  BY DEF Elapse
<1>. QED
  BY <1>2, <1>3 DEF Inv, CommandSafe, Trusted

LEMMA NextInv == Inv /\ [Next]_vars => Inv'
<1>. SUFFICES ASSUME Inv, [Next]_vars PROVE Inv'
  OBVIOUS
<1>0. TypeOK'
  BY NextTypeOK DEF Inv
<1>. SUFFICES \A g \in Fermenters : CommandSafe(g)'
  BY <1>0 DEF Inv
<1>1. ASSUME NEW f \in Fermenters, Controller(f)
      PROVE  \A g \in Fermenters : CommandSafe(g)'
  BY <1>1, RunTickSafe, SendSafe, CommitSafe DEF Controller
<1>2. CASE Restart
  BY <1>2 DEF Restart, CommandSafe, Trusted, Idle
<1>3. CASE UNCHANGED <<Valve, unconfirmed, actuator, job>>
  BY <1>3, Untouched
<1>4. ASSUME NEW f \in Fermenters, Request(f)
      PROVE  UNCHANGED <<Valve, unconfirmed, actuator, job>>
  BY <1>4 DEF Request, SetTarget, SetMode, SetValveOverride, ClearOverride,
              PutOverride, valve
<1>5. ASSUME NEW s \in Settings, ApplyControllerSettings(s)
      PROVE  UNCHANGED <<Valve, unconfirmed, actuator, job>>
  BY <1>5 DEF ApplyControllerSettings, valve
<1>6. ASSUME TelemetryStored
      PROVE  UNCHANGED <<Valve, unconfirmed, actuator, job>>
  BY <1>6 DEF TelemetryStored, valve
<1>7. UNCHANGED vars => UNCHANGED <<Valve, unconfirmed, actuator, job>>
  BY DEF vars
<1>8. CASE DeviceReset
  BY <1>8 DEF DeviceReset, Inv, CommandSafe, Trusted, valve
<1>9. NoticeSilence => UNCHANGED <<Valve, unconfirmed, actuator, job>>
  BY DEF NoticeSilence, valve
<1>. QED
  BY <1>1, <1>2, <1>3, <1>4, <1>5, <1>6, <1>7, <1>8, <1>9, SweepSafe, ElapseSafe
  DEF Next, Watchdog, Telemetry, TelemetryUnknown

\* However the commands of the controllers, the sweeps of the watchdog, failed
\* writes and restarts interleave, a valve the runtime believes closed on the
\* strength of a write that succeeded is closed.
THEOREM BelievedClosedCorrect == Spec => []BelievedClosedIsClosed
<1>1. Inv => BelievedClosedIsClosed
  BY DEF Inv, CommandSafe, Trusted, BelievedClosedIsClosed
<1>. QED
  BY <1>1, InitInv, NextInv, PTL DEF Spec
=============================================================================
