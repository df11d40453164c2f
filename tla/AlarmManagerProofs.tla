-------------------------- MODULE AlarmManagerProofs --------------------------
(***************************************************************************)
(* For every set of fermenters, temperatures, margins and debounce time:   *)
(* the alarms are well typed, an alarm is cleared no earlier than          *)
(* ClearedLate says, and the log tells the alarms as LogAgrees says.       *)
(***************************************************************************)
EXTENDS AlarmManager, TLAPS

\* LastSeen is the time at which an evaluation began, and seen counts from the
\* time at which it looked: the two differ by at most the time an evaluation
\* takes.  Between the look and the refresh of the alarm they do not: that key
\* is then still to be opened, and cannot be closed.
SeenAgrees ==
    \A k \in active \ eval.open : lastSeen[k] <= seen[k] + MaxLag

NothingDecided == eval.pc # "decided" => eval.open = {} /\ eval.close = {}

Inv == TypeOK /\ NothingDecided /\ SeenAgrees

\* The initial state satisfies the invariant.
LEMMA InitInv == Init => Inv
<1> SUFFICES ASSUME Init PROVE Inv
    OBVIOUS
<1>1. 0 \in Ages /\ MaxAge \in Ages /\ 0 \in 0..MaxLag
  BY AlarmAssumption DEF Ages, MaxAge
<1>2. /\ lastSeen \in [Keys -> Ages]
      /\ seen \in [Keys -> Ages]
      /\ lost \in [Keys -> BOOLEAN]
  BY <1>1 DEF Init
<1>3. /\ BeerC \in [Fermenters -> Temps \cup {BootTemp}]
      /\ TargetC \in [Fermenters -> Targets]
      /\ log \in [Keys -> {"none", "ALARM_OPEN", "ALARM_CLEAR"}]
  BY AlarmAssumption DEF Init, BootTemp
<1>4. eval \in [pc : {"idle", "begun", "decided"}, lag : 0..MaxLag,
               open : SUBSET Keys, close : SUBSET Keys]
        /\ eval.open = {} /\ eval.close = {}
  BY <1>1 DEF Init, Idle
<1> QED
  BY <1>2, <1>3, <1>4 DEF Init, Inv, TypeOK, NothingDecided, SeenAgrees

\* An age stays within its bounds.
LEMMA OlderType == ASSUME NEW a \in Ages PROVE Older(a) \in Ages
BY AlarmAssumption DEF Older, Ages, MaxAge

\* Two ages keep their distance while time passes, also where one of them has
\* stopped growing.
LEMMA OlderDistance ==
    ASSUME NEW a \in Ages, NEW b \in Ages, a <= b + MaxLag
    PROVE  Older(a) <= Older(b) + MaxLag
BY AlarmAssumption DEF Older, Ages, MaxAge

\* Every step keeps the invariant.
LEMMA NextInv == Inv /\ [Next]_vars => Inv'
<1> SUFFICES ASSUME Inv, [Next]_vars PROVE Inv'
    OBVIOUS
<1> USE AlarmAssumption
<1>1. CASE Begin
  BY <1>1 DEF Begin, Inv, TypeOK, NothingDecided, SeenAgrees, Idle, temps, alarms, events
<1>2. CASE Decide
  <2>1. TypeOK'
    <3>1. seen' \in [Keys -> Ages]
      BY <1>2 DEF Decide, Inv, TypeOK, Ages, MaxAge
    <3>2. eval'.open \cap eval'.close = {} /\ eval'.open \subseteq Keys
            /\ eval'.close \subseteq Keys
      BY <1>2 DEF Decide, Opens, Closes, Inv, TypeOK
    <3>3. eval' \in [pc : {"idle", "begun", "decided"}, lag : 0..MaxLag,
                     open : SUBSET Keys, close : SUBSET Keys]
      BY <1>2, <3>2 DEF Decide, Inv, TypeOK
    <3> QED
      BY <1>2, <3>1, <3>2, <3>3 DEF Decide, Inv, TypeOK, temps, alarms, events
  <2>2. NothingDecided'
    BY <1>2 DEF Decide, NothingDecided, Inv, TypeOK
  <2>3. SeenAgrees'
    <3>1. eval.open = {} /\ eval'.open = Opens
      BY <1>2 DEF Decide, Inv, TypeOK, NothingDecided
    <3> SUFFICES ASSUME NEW k \in active' \ eval'.open
                 PROVE  lastSeen'[k] <= seen'[k] + MaxLag
      BY DEF SeenAgrees
    <3>2. k \in active \ eval.open /\ k \in Keys /\ ~Holds(k)
      BY <1>2, <3>1 DEF Decide, Opens, alarms, Inv, TypeOK
    <3> QED
      BY <1>2, <3>2 DEF Decide, Inv, SeenAgrees, alarms
  <2> QED
    BY <2>1, <2>2, <2>3 DEF Inv
<1>3. ASSUME NEW k \in Keys, Open(k) PROVE Inv'
  <2>2. eval' \in [pc : {"idle", "begun", "decided"}, lag : 0..MaxLag,
                   open : SUBSET Keys, close : SUBSET Keys]
          /\ eval'.open \subseteq eval.open /\ eval'.close = eval.close
          /\ eval'.pc = "decided" /\ eval'.open = eval.open \ {k}
    BY <1>3 DEF Open, Inv, TypeOK
  <2>3. /\ log' \in [Keys -> {"none", "ALARM_OPEN", "ALARM_CLEAR"}]
        /\ lost' \in [Keys -> BOOLEAN]
    BY <1>3 DEF Open, Logged, events, Inv, TypeOK
  <2>4. lastSeen' \in [Keys -> Ages]
    BY <1>3 DEF Open, Inv, TypeOK, Ages, MaxAge
  <2>5. TypeOK'
    BY <1>3, <2>2, <2>3, <2>4 DEF Open, Inv, TypeOK, temps
  <2>6. NothingDecided'
    BY <2>2 DEF NothingDecided
  <2>7. SeenAgrees'
    <3> SUFFICES ASSUME NEW j \in active' \ eval'.open
                 PROVE  lastSeen'[j] <= seen'[j] + MaxLag
      BY DEF SeenAgrees
    <3>1. CASE j = k
      BY <1>3, <3>1 DEF Open, Inv, TypeOK, Ages, MaxAge
    <3>2. CASE j # k
      <4>1. j \in active \ eval.open /\ j \in Keys
        BY <1>3, <2>2, <3>2 DEF Open, Inv, TypeOK
      <4> QED
        BY <1>3, <3>2, <4>1 DEF Open, Inv, TypeOK, SeenAgrees
    <3> QED
      BY <3>1, <3>2
  <2> QED
    BY <2>5, <2>6, <2>7 DEF Inv
<1>4. ASSUME NEW k \in Keys, Close(k) PROVE Inv'
  <2>1. eval' \in [pc : {"idle", "begun", "decided"}, lag : 0..MaxLag,
                   open : SUBSET Keys, close : SUBSET Keys]
          /\ eval'.open = eval.open /\ eval'.close \subseteq eval.close
          /\ eval'.pc = "decided"
    BY <1>4 DEF Close, Inv, TypeOK
  <2>2. /\ log' \in [Keys -> {"none", "ALARM_OPEN", "ALARM_CLEAR"}]
        /\ lost' \in [Keys -> BOOLEAN]
    BY <1>4 DEF Close, Logged, events, Inv, TypeOK
  <2>3. active' \subseteq active
    BY <1>4 DEF Close
  <2>4. TypeOK'
    BY <1>4, <2>1, <2>2, <2>3 DEF Close, Inv, TypeOK, temps
  <2>5. NothingDecided' /\ SeenAgrees'
    BY <1>4, <2>1, <2>3 DEF Close, Inv, TypeOK, NothingDecided, SeenAgrees
  <2> QED
    BY <2>4, <2>5 DEF Inv
<1>5. CASE Done
  BY <1>5 DEF Done, Idle, Inv, TypeOK, NothingDecided, SeenAgrees, temps, alarms, events
<1>6. ASSUME NEW f \in Fermenters, NEW b \in Temps, Telemetry(f, b) PROVE Inv'
  BY <1>6 DEF Telemetry, Inv, TypeOK, NothingDecided, SeenAgrees, alarms, events
<1>7. ASSUME NEW f \in Fermenters, NEW t \in Targets, SetTarget(f, t) PROVE Inv'
  BY <1>7 DEF SetTarget, Inv, TypeOK, NothingDecided, SeenAgrees, alarms, events
<1>8. CASE Elapse
  <2>1. /\ lastSeen' \in [Keys -> Ages]
        /\ seen' \in [Keys -> Ages]
    BY <1>8, OlderType DEF Elapse, Inv, TypeOK
  <2>2. eval' \in [pc : {"idle", "begun", "decided"}, lag : 0..MaxLag,
                   open : SUBSET Keys, close : SUBSET Keys]
          /\ eval'.open = eval.open /\ eval'.close = eval.close
          /\ eval'.pc = eval.pc
    BY <1>8 DEF Elapse, Inv, TypeOK
  <2>3. TypeOK' /\ NothingDecided'
    BY <1>8, <2>1, <2>2 DEF Elapse, Inv, TypeOK, NothingDecided, temps, events
  <2>4. SeenAgrees'
    <3> SUFFICES ASSUME NEW k \in active' \ eval'.open
                 PROVE  lastSeen'[k] <= seen'[k] + MaxLag
      BY DEF SeenAgrees
    <3>1. k \in active \ eval.open /\ k \in Keys
      BY <1>8, <2>2 DEF Elapse, Inv, TypeOK
    <3>2. lastSeen[k] \in Ages /\ seen[k] \in Ages /\ lastSeen[k] <= seen[k] + MaxLag
      BY <3>1 DEF Inv, TypeOK, SeenAgrees
    <3>3. lastSeen'[k] = Older(lastSeen[k]) /\ seen'[k] = Older(seen[k])
      BY <1>8, <3>1 DEF Elapse
    <3> QED
      BY <3>2, <3>3, OlderDistance
  <2> QED
    BY <2>3, <2>4 DEF Inv
<1>9. CASE Restart
  <2>1. 0 \in Ages /\ MaxAge \in Ages /\ 0 \in 0..MaxLag
    BY DEF Ages, MaxAge
  <2>2. /\ lastSeen' \in [Keys -> Ages]
        /\ seen' \in [Keys -> Ages]
        /\ lost' \in [Keys -> BOOLEAN]
    BY <1>9, <2>1 DEF Restart
  <2>3. /\ BeerC' \in [Fermenters -> Temps \cup {BootTemp}]
        /\ TargetC' \in [Fermenters -> Targets]
        /\ log' \in [Keys -> {"none", "ALARM_OPEN", "ALARM_CLEAR"}]
    BY <1>9 DEF Restart, BootTemp, Inv, TypeOK
  <2>4. eval' \in [pc : {"idle", "begun", "decided"}, lag : 0..MaxLag,
                   open : SUBSET Keys, close : SUBSET Keys]
          /\ eval'.open = {} /\ eval'.close = {}
    BY <1>9, <2>1 DEF Restart, Idle
  <2> QED
    BY <1>9, <2>2, <2>3, <2>4
       DEF Restart, Inv, TypeOK, NothingDecided, SeenAgrees
<1>10. CASE UNCHANGED vars
  BY <1>10 DEF vars, Inv, TypeOK, NothingDecided, SeenAgrees
<1> QED
  BY <1>1, <1>2, <1>3, <1>4, <1>5, <1>6, <1>7, <1>8, <1>9, <1>10
     DEF Next, Evaluate

\* The invariant holds in every reachable state.
THEOREM Invariance == Spec => []Inv
<1> QED
  BY InitInv, NextInv, PTL DEF Spec

\* Every alarm, every event and every evaluation is well typed, and what an
\* evaluation opens and what it closes are disjoint (manager.go:101-132).
THEOREM TypeCorrect == Spec => []TypeOK
<1>1. Inv => TypeOK
  BY DEF Inv
<1> QED
  BY Invariance, <1>1, PTL

\* A step that clears an alarm does so no earlier than the debounce time, less
\* the time of one evaluation, after the last look that found its condition.
LEMMA StepClearsLate ==
    ASSUME Inv, [Next]_vars, NEW k \in Keys,
           k \in active, k \notin active', eval' # Idle
    PROVE  seen[k] >= Debounce - MaxLag
<1> USE AlarmAssumption
<1>1. Close(k)
  BY DEF Next, Evaluate, Begin, Decide, Open, Close, Done, Telemetry, SetTarget,
         Elapse, Restart, vars, alarms
<1>2. k \in eval.close /\ k \notin eval.open /\ Due(k)
  BY <1>1 DEF Close, Inv, TypeOK
<1>3. lastSeen[k] - eval.lag >= Debounce /\ lastSeen[k] <= seen[k] + MaxLag
  BY <1>2 DEF Due, Inv, SeenAgrees
<1> QED
  BY <1>3 DEF Inv, TypeOK, Ages, MaxAge

\* The debounce of manager.go:168, for every order of the evaluations with
\* telemetry, targets, lost events and restarts.
THEOREM ClearedLateCorrect == Spec => ClearedLate
<1>1. Inv /\ [Next]_vars =>
        [\A k \in Keys : k \in active /\ k \notin active' /\ eval' # Idle
           => seen[k] >= Debounce - MaxLag]_vars
  BY StepClearsLate
<1> QED
  BY Invariance, <1>1, PTL DEF Spec, ClearedLate

\* Every step keeps the log in agreement with the alarms.
LEMMA NextLogAgrees ==
    ASSUME Inv, LogAgrees, [Next]_vars
    PROVE  LogAgrees'
<1> SUFFICES ASSUME NEW j \in Keys, ~lost'[j]
             PROVE  log'[j] = "ALARM_OPEN" <=> j \in active'
    BY DEF LogAgrees
<1>1. ASSUME UNCHANGED <<active, log, lost>>
      PROVE  log'[j] = "ALARM_OPEN" <=> j \in active'
  BY <1>1 DEF LogAgrees
<1>2. ASSUME NEW k \in Keys, Open(k)
      PROVE  log'[j] = "ALARM_OPEN" <=> j \in active'
  <2>1. active' = active \cup {k} /\ active \subseteq Keys
    BY <1>2 DEF Open, Inv, TypeOK
  <2>2. CASE k \in active
    BY <1>2, <2>1, <2>2 DEF Open, events, LogAgrees
  <2>3. CASE k \notin active
    <3>1. Logged(k, "ALARM_OPEN")
      BY <1>2, <2>3 DEF Open
    <3>2. /\ j # k => log'[j] = log[j] /\ lost'[j] = lost[j]
          /\ j = k => log'[j] = "ALARM_OPEN"
      BY <3>1 DEF Logged, Inv, TypeOK
    <3> QED
      BY <2>1, <3>2 DEF LogAgrees
  <2> QED
    BY <2>2, <2>3
<1>3. ASSUME NEW k \in Keys, Close(k)
      PROVE  log'[j] = "ALARM_OPEN" <=> j \in active'
  <2>1. CASE Due(k)
    <3>1. active' = active \ {k} /\ Logged(k, "ALARM_CLEAR")
      BY <1>3, <2>1 DEF Close
    <3>2. /\ j # k => log'[j] = log[j] /\ lost'[j] = lost[j]
          /\ j = k => log'[j] = "ALARM_CLEAR"
      BY <3>1 DEF Logged, Inv, TypeOK
    <3> QED
      BY <3>1, <3>2 DEF LogAgrees
  <2>2. CASE ~Due(k)
    BY <1>3, <2>2 DEF Close, events, LogAgrees
  <2> QED
    BY <2>1, <2>2
<1>4. CASE Restart
  <2>1. ~lost[j] /\ j \notin active /\ log' = log /\ active' = {}
    BY <1>4 DEF Restart
  <2> QED
    BY <2>1 DEF LogAgrees
<1>5. CASE Begin \/ Decide \/ Done \/ Elapse \/ UNCHANGED vars
  BY <1>1, <1>5
  DEF Begin, Decide, Done, Elapse, vars, alarms, events
<1>6. ASSUME NEW f \in Fermenters, NEW b \in Temps, Telemetry(f, b)
      PROVE  log'[j] = "ALARM_OPEN" <=> j \in active'
  BY <1>1, <1>6 DEF Telemetry, alarms, events
<1>7. ASSUME NEW f \in Fermenters, NEW t \in Targets, SetTarget(f, t)
      PROVE  log'[j] = "ALARM_OPEN" <=> j \in active'
  BY <1>1, <1>7 DEF SetTarget, alarms, events
<1> QED
  BY <1>2, <1>3, <1>4, <1>5, <1>6, <1>7 DEF Next, Evaluate

\* The events of an alarm, as AddEvent writes them (manager.go:161 and 172), tell
\* whether it is active, for every order of evaluations, lost events and restarts.
THEOREM LogAgreesCorrect == Spec => []LogAgrees
<1>1. Init => Inv /\ LogAgrees
  BY InitInv DEF Init, LogAgrees
<1>2. Inv /\ LogAgrees /\ [Next]_vars => (Inv /\ LogAgrees)'
  BY NextInv, NextLogAgrees
<1> QED
  BY <1>1, <1>2, PTL DEF Spec
=============================================================================
