----------------------------- MODULE AlarmManager -----------------------------
(***************************************************************************)
(* The temperature alarms: internal/alarm/manager.go, its ticker in        *)
(* cmd/fermenter/main.go and the ALARM events it adds to the database.     *)
(*                                                                         *)
(* Evaluate reads the clock first, then decides what to open and to close  *)
(* under the mutex of the system state, then applies its decisions, one    *)
(* after the other, under the mutex of the manager.  Temperatures and      *)
(* targets may change between these steps, and each step may have to wait: *)
(* the mutex of the state is held across serial and database writes, and   *)
(* an event is a database write.                                           *)
(*                                                                         *)
(* Temperatures are integers.  Instants are kept as ages, in units of an   *)
(* abstract clock.  Left out: the value and the limit an alarm is shown     *)
(* with, and raise, clear and Ack, which are called by no one.             *)
(***************************************************************************)
EXTENDS Integers

CONSTANTS
    Fermenters,
    Temps,         \* temperatures telemetry may report
    Targets,       \* targets that may be set
    ConfigTarget,  \* the target at the start
    HighMargin,    \* high_margin_c
    LowMargin,     \* low_margin_c
    Debounce,      \* debounce_s, in clock units
    MaxLag,        \* bound on the time one Evaluate takes
    StoreMayFail,  \* TRUE: an event may get lost on a busy database
    MayRestart     \* TRUE: the process may be restarted

ASSUME AlarmAssumption ==
    /\ Temps \subseteq Int
    /\ Targets \subseteq Int
    /\ ConfigTarget \in Targets
    /\ HighMargin \in Int
    /\ LowMargin \in Int
    /\ Debounce \in Nat
    /\ MaxLag \in Nat
    /\ StoreMayFail \in BOOLEAN
    /\ MayRestart \in BOOLEAN

VARIABLES
    BeerC,     \* Fermenter.BeerC
    TargetC,   \* Fermenter.TargetC
    active,    \* the keys of Manager.active
    lastSeen,  \* age of Alarm.LastSeen, of the active alarms
    eval,      \* Evaluate: where it is, the age of its `now', what it still
               \* has to open and to close
    log,       \* the last ALARM event in the database, per key
    seen,      \* history: time since a decision found the condition true
    lost       \* history: the last event due was lost, or came to nothing
               \* because the process ended

vars == <<BeerC, TargetC, active, lastSeen, eval, log, seen, lost>>
temps == <<BeerC, TargetC>>
alarms == <<active, lastSeen>>
events == <<log, lost>>

Types == {"HIGH_TEMP", "LOW_TEMP"}
Keys  == Fermenters \X Types

BootTemp == 0
MaxAge   == Debounce + MaxLag
Ages     == 0..MaxAge

Idle == [pc |-> "idle", lag |-> 0, open |-> {}, close |-> {}]

Init ==
    /\ BeerC = [f \in Fermenters |-> BootTemp]
    /\ TargetC = [f \in Fermenters |-> ConfigTarget]
    /\ active = {}
    /\ lastSeen = [k \in Keys |-> 0]
    /\ eval = Idle
    /\ log = [k \in Keys |-> "none"]
    /\ seen = [k \in Keys |-> MaxAge]
    /\ lost = [k \in Keys |-> FALSE]

-----------------------------------------------------------------------------
(* The condition of an alarm.                                              *)

TooHigh(b, t) == b > t + HighMargin
TooLow(b, t)  == b < t - LowMargin
Condition(k, b, t) == IF k[2] = "HIGH_TEMP" THEN TooHigh(b, t) ELSE TooLow(b, t)
Holds(k) == Condition(k, BeerC[k[1]], TargetC[k[1]])

-----------------------------------------------------------------------------
(* Evaluate.                                                               *)

Begin ==
    /\ eval.pc = "idle"
    /\ eval' = [Idle EXCEPT !.pc = "begun"]
    /\ UNCHANGED <<temps, alarms, events, seen>>

\* A decision that opens the alarm for the high side and skips the low one.
OpensHighOnly == {k \in Keys : Holds(k) /\ k[2] = "HIGH_TEMP"}
Opens  == {k \in Keys : Holds(k)}

\* A decision that closes without looking at what it opens.
ClosesAll == Keys
Closes == {k \in Keys : ~Holds(k)}

Decide ==
    /\ eval.pc = "begun"
    /\ eval' = [eval EXCEPT !.pc = "decided",
                            !.open = Opens, !.close = Closes]
    /\ seen' = [k \in Keys |-> IF Holds(k) THEN 0 ELSE seen[k]]
    /\ UNCHANGED <<temps, alarms, events>>

Logged(k, event) ==
    \/ /\ log' = [log EXCEPT ![k] = event]
       /\ lost' = [lost EXCEPT ![k] = FALSE]
    \/ /\ StoreMayFail
       /\ lost' = [lost EXCEPT ![k] = TRUE]
       /\ UNCHANGED log

\* An alarm that is active is refreshed, a new one is opened at once.
Open(k) ==
    /\ eval.pc = "decided"
    /\ k \in eval.open
    /\ eval' = [eval EXCEPT !.open = @ \ {k}]
    /\ active' = active \cup {k}
    /\ lastSeen' = [lastSeen EXCEPT ![k] = eval.lag]
    /\ IF k \in active THEN UNCHANGED events ELSE Logged(k, "ALARM_OPEN")
    /\ UNCHANGED <<temps, seen>>

\* A debounce that forgets when the alarm was seen last.
DueAtOnce(k) == k \in active
Due(k) == k \in active /\ lastSeen[k] - eval.lag >= Debounce

\* An alarm to close whose time has not come, which refreshes it.
CloseRefreshes(k) ==
    /\ eval.pc = "decided" /\ eval.open = {}
    /\ k \in eval.close
    /\ eval' = [eval EXCEPT !.close = @ \ {k}]
    /\ active' = IF Due(k) THEN active \ {k} ELSE active
    /\ lastSeen' = [lastSeen EXCEPT ![k] = eval.lag]
    /\ IF Due(k) THEN Logged(k, "ALARM_CLEAR") ELSE UNCHANGED events
    /\ UNCHANGED <<temps, seen>>

\* An event that is written before the debounce is looked at.
CloseLogsEarly(k) ==
    /\ eval.pc = "decided" /\ eval.open = {}
    /\ k \in eval.close
    /\ eval' = [eval EXCEPT !.close = @ \ {k}]
    /\ active' = IF Due(k) THEN active \ {k} ELSE active
    /\ IF k \in active THEN Logged(k, "ALARM_CLEAR") ELSE UNCHANGED events
    /\ UNCHANGED <<temps, lastSeen, seen>>
Close(k) ==
    /\ eval.pc = "decided" /\ eval.open = {}
    /\ k \in eval.close
    /\ eval' = [eval EXCEPT !.close = @ \ {k}]
    /\ active' = IF Due(k) THEN active \ {k} ELSE active
    /\ IF Due(k) THEN Logged(k, "ALARM_CLEAR") ELSE UNCHANGED events
    /\ UNCHANGED <<temps, lastSeen, seen>>

Done ==
    /\ eval.pc = "decided" /\ eval.open = {} /\ eval.close = {}
    /\ eval' = Idle
    /\ UNCHANGED <<temps, alarms, events, seen>>

Evaluate == Begin \/ Decide \/ (\E k \in Keys : Open(k) \/ Close(k)) \/ Done

-----------------------------------------------------------------------------
(* What runs beside it.                                                    *)

Telemetry(f, b) ==
    /\ BeerC' = [BeerC EXCEPT ![f] = b]
    /\ UNCHANGED <<TargetC, alarms, eval, events, seen>>

SetTarget(f, t) ==
    /\ TargetC' = [TargetC EXCEPT ![f] = t]
    /\ UNCHANGED <<BeerC, alarms, eval, events, seen>>

Older(age) == IF age < MaxAge THEN age + 1 ELSE age

Elapse ==
    /\ eval.pc = "idle" \/ eval.lag < MaxLag
    /\ eval' = IF eval.pc = "idle" THEN eval ELSE [eval EXCEPT !.lag = @ + 1]
    /\ lastSeen' = [k \in Keys |-> Older(lastSeen[k])]
    /\ seen' = [k \in Keys |-> Older(seen[k])]
    /\ UNCHANGED <<temps, active, events>>

\* The alarms are kept in memory only; the events stay.
Restart ==
    /\ MayRestart
    /\ BeerC' = [f \in Fermenters |-> BootTemp]
    /\ TargetC' = [f \in Fermenters |-> ConfigTarget]
    /\ active' = {}
    /\ lastSeen' = [k \in Keys |-> 0]
    /\ eval' = Idle
    /\ seen' = [k \in Keys |-> MaxAge]
    /\ lost' = [k \in Keys |-> lost[k] \/ k \in active]
    /\ UNCHANGED log

Next ==
    \/ Evaluate
    \/ \E f \in Fermenters :
         \/ \E b \in Temps : Telemetry(f, b)
         \/ \E t \in Targets : SetTarget(f, t)
    \/ Elapse
    \/ Restart

Spec == Init /\ [][Next]_vars

\* The ticker goes on, both mutexes are granted, and time passes.
FairSpec == Spec /\ WF_vars(Evaluate) /\ WF_vars(Elapse)

-----------------------------------------------------------------------------
(* Properties that hold.                                                   *)

\* The type invariant.  Its part that could fail: what an evaluation still has
\* to open is disjoint from what it has to close.
TypeOK ==
    /\ BeerC \in [Fermenters -> Temps \cup {BootTemp}]
    /\ TargetC \in [Fermenters -> Targets]
    /\ active \subseteq Keys
    /\ lastSeen \in [Keys -> Ages]
    /\ eval \in [pc : {"idle", "begun", "decided"}, lag : 0..MaxLag,
                 open : SUBSET Keys, close : SUBSET Keys]
    /\ eval.open \cap eval.close = {}
    /\ log \in [Keys -> {"none", "ALARM_OPEN", "ALARM_CLEAR"}]
    /\ seen \in [Keys -> Ages]
    /\ lost \in [Keys -> BOOLEAN]

\* manager.go:168, read as the ticker sees it: an alarm is cleared when no
\* evaluation has found its condition for the debounce time, less the time one
\* evaluation may take, because LastSeen is the time at which an evaluation
\* began and not the one at which it looked.  However often the condition comes
\* and goes, and whatever the evaluations have to wait for.
ClearedLate ==
    [][\A k \in Keys :
         k \in active /\ k \notin active' /\ eval' # Idle
           => seen[k] >= Debounce - MaxLag]_vars

\* A condition that lasts raises its alarm, whatever alarm was open before.
AlarmOpens == \A k \in Keys : Holds(k) ~> k \in active \/ ~Holds(k)

\* The log of events tells which alarms are active, as the page of events shows
\* them, unless an event was lost or the process ended: whatever the refreshes
\* and the debounce do, each opening and each clearing is told once.
LogAgrees ==
    \A k \in Keys : ~lost[k] => (log[k] = "ALARM_OPEN" <=> k \in active)

\* An alarm whose condition has gone for good is cleared: the debounce does not
\* start anew at each evaluation.
AlarmClears ==
    \A k \in Keys :
      k \in active /\ ~Holds(k) ~> k \notin active \/ Holds(k)
=============================================================================
