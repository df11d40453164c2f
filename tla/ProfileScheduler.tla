-------------------------- MODULE ProfileScheduler --------------------------
(***************************************************************************)
(* Temperature profiles: the scheduler goroutine of cmd/fermenter/main.go, *)
(* the handlers of internal/api/profile.go and the assignment rows of      *)
(* internal/store/sqlite.go that they share.                               *)
(*                                                                         *)
(* Nothing guards an assignment row.  The scheduler and the handlers read  *)
(* the whole row, work on their copy and write the whole row back, so each *)
(* is split here at its reads and writes of the database and of the target *)
(* and mode, which the scheduler reads without the mutex.                  *)
(*                                                                         *)
(* Temperatures are integers, in hundredths of a degree.  The start of a   *)
(* step is kept as its age, in units of an abstract clock; a rate is in    *)
(* hundredths of a degree per unit.                                        *)
(***************************************************************************)
EXTENDS Integers, Sequences

CONSTANTS
    NumFermenters,  \* the fermenters are 1..NumFermenters, in the order of FV
    ProfileIds,     \* the stored profiles
    Profiles,       \* their steps; a stored profile never changes
    DefaultRate,    \* the 0.25 degrees per hour of a ramp without a rate
    ConfigTarget,   \* target_c of the configuration
    Targets,        \* targets set by hand
    Modes,          \* control modes in use
    Requests,       \* bound: the assign and pause requests under way at once
    MaxAge,         \* bound on the age of a step; it stops growing there
    MaxTickTime,    \* bound on the time one scheduler tick takes
    MaxAssigns,     \* bound on the assignments requested
    StoreMayFail,   \* TRUE: a statement may fail, e.g. on a busy database
    MaxRestarts     \* bound on the restarts of the process

Fermenters == 1..NumFermenters

\* A step of a ProfileSpec.  Its Duration string is left out: nothing reads it.
Steps == [type : {"hold", "ramp", "other"}, target : Int, duration : Int,
          rate : Int]

ASSUME BoundsAssumption ==
    /\ NumFermenters \in Nat \ {0}
    /\ MaxAge \in Nat
    /\ MaxTickTime \in 0..MaxAge
    /\ MaxAssigns \in Nat
    /\ StoreMayFail \in BOOLEAN
    /\ MaxRestarts \in Nat

\* handleCreateProfile refuses a profile without steps.
ASSUME ProfilesAssumption ==
    /\ 0 \notin ProfileIds
    /\ Profiles \in [ProfileIds -> Seq(Steps)]
    /\ \A p \in ProfileIds : Len(Profiles[p]) > 0
    /\ DefaultRate \in Nat \ {0}

ASSUME TargetsAssumption ==
    /\ ConfigTarget \in Int
    /\ Targets \subseteq Int
    /\ Modes \subseteq {"fixed", "profile", "valve"}

VARIABLES
    TargetC,   \* Fermenter.TargetC
    Mode,      \* Fermenter.Mode
    row,       \* the row of profile_assignments, per fermenter
    request,   \* the assign and pause requests under way
    sched,     \* the scheduler: where its tick is, and its local variables
    assigns,   \* the assignments requested so far
    restarts   \* the restarts so far

bounded == <<assigns, restarts>>
vars == <<TargetC, Mode, row, request, sched, assigns, restarts>>

\* An assignment; step_started_ts is kept as its age.  No row: profile 0.
Row(p, i, age, from, paused) ==
    [profile |-> p, idx |-> i, age |-> age, from |-> from, paused |-> paused]
NoRow == Row(0, 0, 0, 0, FALSE)

Step(p, i) == Profiles[p][i + 1]

Request(f, copy) == [fv |-> f, copy |-> copy]
NoRequest == Request(1, NoRow)

\* `lag' is the age of the `now' the tick read when it began.
Waiting == [pc |-> "waiting", fv |-> 1, lag |-> 0, profile |-> 0, idx |-> 0,
            target |-> 0, advance |-> FALSE]

Init ==
    /\ TargetC = [f \in Fermenters |-> ConfigTarget]
    /\ Mode = [f \in Fermenters |-> "fixed"]
    /\ row = [f \in Fermenters |-> NoRow]
    /\ request = [q \in Requests |-> NoRequest]
    /\ sched = Waiting
    /\ assigns = 0
    /\ restarts = 0

-----------------------------------------------------------------------------
(* The target of a step, and whether the step is over.                     *)

\* A ramp that trusts the rate of the profile.
RateAsGiven(s) == s.rate
Rate(s) == IF s.rate <= 0 THEN DefaultRate ELSE s.rate

Sign(s, from) == IF s.target < from THEN -1 ELSE 1
Ramped(s, from, elapsed) == from + Sign(s, from) * elapsed * Rate(s)
RampReached(s, from, elapsed) ==
    IF Sign(s, from) > 0 THEN Ramped(s, from, elapsed) >= s.target
    ELSE Ramped(s, from, elapsed) <= s.target

StepTarget(s, from, elapsed, current) ==
    CASE s.type = "hold" -> s.target
      [] s.type = "ramp" -> IF RampReached(s, from, elapsed) THEN s.target
                            ELSE Ramped(s, from, elapsed)
      [] OTHER -> current

StepOver(s, from, elapsed) ==
    CASE s.type = "hold" -> s.duration > 0 /\ elapsed >= s.duration
      [] s.type = "ramp" -> RampReached(s, from, elapsed)
      [] OTHER -> TRUE

-----------------------------------------------------------------------------
(* The scheduler: one tick visits the fermenters in order.                 *)

Outcomes == IF StoreMayFail THEN BOOLEAN ELSE {TRUE}

\* On to the next fermenter, or to the next tick.
Following == IF sched.fv = NumFermenters THEN Waiting
             ELSE [Waiting EXCEPT !.pc = "visit", !.fv = sched.fv + 1,
                                  !.lag = sched.lag]

StartTick ==
    /\ sched.pc = "waiting"
    /\ sched' = [Waiting EXCEPT !.pc = "visit"]
    /\ UNCHANGED <<TargetC, Mode, row, request, bounded>>

\* A scheduler that follows the assignments whatever the mode.
VisitAll ==
    /\ sched.pc = "visit"
    /\ sched' = [sched EXCEPT !.pc = "load"]
    /\ UNCHANGED <<TargetC, Mode, row, request, bounded>>

\* fv.Mode is read without the mutex.
Visit ==
    /\ sched.pc = "visit"
    /\ sched' = IF Mode[sched.fv] = "profile"
                THEN [sched EXCEPT !.pc = "load"] ELSE Following
    /\ UNCHANGED <<TargetC, Mode, row, request, bounded>>

Load ==
    /\ sched.pc = "load"
    /\ LET r == row[sched.fv] IN
       \/ /\ StoreMayFail \/ r = NoRow \/ r.paused
          /\ sched' = Following
       \/ /\ r # NoRow /\ ~r.paused
          /\ LET s == Step(r.profile, r.idx)
                 elapsed == r.age - sched.lag
             IN  sched' = [sched EXCEPT
                             !.pc = "set", !.profile = r.profile, !.idx = r.idx,
                             !.target = StepTarget(s, r.from, elapsed,
                                                   TargetC[sched.fv]),
                             !.advance = StepOver(s, r.from, elapsed)]
    /\ UNCHANGED <<TargetC, Mode, row, request, bounded>>

\* The target is written when it is off by more than 0.05 degrees.
Deadband == 5
OffAtTheEnd(t, current) ==
    sched.advance /\ (t - current > Deadband \/ current - t > Deadband)
Off(t, current) == t - current > Deadband \/ current - t > Deadband

SetScheduled ==
    /\ sched.pc = "set"
    /\ TargetC' = IF Off(sched.target, TargetC[sched.fv])
                  THEN [TargetC EXCEPT ![sched.fv] = sched.target]
                  ELSE TargetC
    /\ sched' = IF sched.advance THEN [sched EXCEPT !.pc = "save"]
                ELSE Following
    /\ UNCHANGED <<Mode, row, request, bounded>>

\* An end of the profile that comes one step too late.
LastStepOffByOne(p, i) == i + 1 > Len(Profiles[p])
LastStep(p, i) == i + 1 >= Len(Profiles[p])

\* A next step that ramps from the target in force.
NextRowFromCurrent(target) ==
    Row(sched.profile, sched.idx + 1, sched.lag, TargetC[sched.fv], FALSE)
NextRow(target) ==
    Row(sched.profile, sched.idx + 1, sched.lag, target, FALSE)

SaveAdvance ==
    /\ sched.pc = "save"
    /\ \E ok \in Outcomes :
         row' = IF ~ok THEN row
                ELSE [row EXCEPT ![sched.fv] =
                        IF LastStep(sched.profile, sched.idx) THEN NoRow
                        ELSE NextRow(sched.target)]
    /\ sched' = Following
    /\ UNCHANGED <<TargetC, Mode, request, bounded>>

Scheduler == Visit \/ Load \/ SetScheduled \/ SaveAdvance

-----------------------------------------------------------------------------
(* The handlers, several of one fermenter at a time.                       *)

\* from_c defaults to the target in force, read under the mutex.
BeginAssign(q, f, p) ==
    /\ request[q] = NoRequest
    /\ assigns < MaxAssigns
    /\ \E from \in {TargetC[f]} \cup Targets :
         request' = [request EXCEPT
                       ![q] = Request(f, Row(p, 0, 0, from, FALSE))]
    /\ assigns' = assigns + 1
    /\ UNCHANGED <<TargetC, Mode, row, sched, restarts>>

\* A pause that does not look whether there is an assignment.
BeginPauseUnchecked(q, f) ==
    /\ request[q] = NoRequest
    /\ \E paused \in BOOLEAN :
         request' = [request EXCEPT
                       ![q] = Request(f, [row[f] EXCEPT !.paused = paused])]
    /\ UNCHANGED <<TargetC, Mode, row, sched, bounded>>

\* Pausing, resuming and toggling: the row is read...
BeginPause(q, f) ==
    /\ request[q] = NoRequest
    /\ row[f] # NoRow
    /\ \E paused \in BOOLEAN :
         request' = [request EXCEPT
                       ![q] = Request(f, [row[f] EXCEPT !.paused = paused])]
    /\ UNCHANGED <<TargetC, Mode, row, sched, bounded>>

\* ... and written back as it was read.  So is a new assignment.
UpsertAssignment(q) ==
    /\ request[q] # NoRequest
    /\ \E ok \in Outcomes :
         row' = IF ok THEN [row EXCEPT ![request[q].fv] = request[q].copy] ELSE row
    /\ request' = [request EXCEPT ![q] = NoRequest]
    /\ UNCHANGED <<TargetC, Mode, sched, bounded>>

Cancel(f) ==
    /\ row' = [row EXCEPT ![f] = NoRow]
    /\ UNCHANGED <<TargetC, Mode, request, sched, bounded>>

SetTarget(f, t) ==
    /\ TargetC' = [TargetC EXCEPT ![f] = t]
    /\ UNCHANGED <<Mode, row, request, sched, bounded>>

SetMode(f, m) ==
    /\ Mode' = [Mode EXCEPT ![f] = m]
    /\ UNCHANGED <<TargetC, row, request, sched, bounded>>

-----------------------------------------------------------------------------
(* Time, and the end of the process.                                       *)

Aged(r) == IF r = NoRow \/ r.age >= MaxAge THEN r
           ELSE [r EXCEPT !.age = r.age + 1]

Elapse ==
    /\ sched.pc = "waiting" \/ sched.lag < MaxTickTime
    /\ sched' = IF sched.pc = "waiting" THEN sched
                ELSE [sched EXCEPT !.lag = sched.lag + 1]
    /\ row' = [f \in Fermenters |-> Aged(row[f])]
    /\ request' = [q \in Requests |->
                     [request[q] EXCEPT !.copy = Aged(request[q].copy)]]
    /\ UNCHANGED <<TargetC, Mode, bounded>>

\* The rows survive, and so does the mode unless its last write was lost; the
\* target goes back to the configuration.
Restart ==
    /\ restarts < MaxRestarts
    /\ restarts' = restarts + 1
    /\ TargetC' = [f \in Fermenters |-> ConfigTarget]
    /\ Mode' \in [Fermenters -> Modes \cup {"fixed"}]
    /\ request' = [q \in Requests |-> NoRequest]
    /\ sched' = Waiting
    /\ UNCHANGED <<row, assigns>>

-----------------------------------------------------------------------------
Handler(f) ==
    \/ \E q \in Requests : BeginPause(q, f)
    \/ \E q \in Requests, p \in ProfileIds : BeginAssign(q, f, p)
    \/ Cancel(f)
    \/ \E t \in Targets : SetTarget(f, t)
    \/ \E m \in Modes : SetMode(f, m)

Next ==
    \/ StartTick
    \/ Scheduler
    \/ \E f \in Fermenters : Handler(f)
    \/ \E q \in Requests : UpsertAssignment(q)
    \/ Elapse
    \/ Restart

Spec == Init /\ [][Next]_vars

\* The scheduler ticks and finishes its tick, requests are answered and time
\* passes.  Statements that are tried again at every tick do not fail for ever:
\* the database is busy at times only.  Nothing forces a request to be made.
Fairness ==
    /\ WF_vars(StartTick)
    /\ WF_vars(Scheduler)
    /\ SF_vars(Load /\ sched'.pc = "set")
    /\ SF_vars(SaveAdvance /\ row' # row)
    /\ \A q \in Requests : WF_vars(UpsertAssignment(q))
    /\ WF_vars(Elapse)

FairSpec == Spec /\ Fairness

-----------------------------------------------------------------------------
(* Properties that hold.                                                   *)

Assignments ==
    [profile : ProfileIds, idx : Nat, age : 0..MaxAge, from : Int,
     paused : BOOLEAN]

\* The type invariant.  Its part that could fail: every row and every copy on
\* its way to the database names a profile that exists.
TypeOK ==
    /\ TargetC \in [Fermenters -> Int]
    /\ Mode \in [Fermenters -> Modes \cup {"fixed"}]
    /\ row \in [Fermenters -> Assignments \cup {NoRow}]
    /\ request \in [Requests -> [fv : Fermenters, copy : Assignments]
                                  \cup {NoRequest}]
    /\ sched \in [pc : {"waiting", "visit", "load", "set", "save"},
                  fv : Fermenters, lag : 0..MaxTickTime,
                  profile : ProfileIds \cup {0}, idx : Nat, target : Int,
                  advance : BOOLEAN]
    /\ assigns \in 0..MaxAssigns
    /\ restarts \in 0..MaxRestarts

Copies == ({row[f] : f \in Fermenters} \cup {request[q].copy : q \in Requests})
             \ {NoRow}

\* The scheduler indexes the steps of a profile with the index of the row
\* (main.go:154), and a panic there ends the process: the index is always that
\* of a step of the row's own profile, whatever the order in which assignments,
\* pauses, cancellations, restarts and the scheduler read and write the row, and
\* however many requests for one fermenter overlap.
StepInRange ==
    \A r \in Copies : r.idx < Len(Profiles[r.profile])

\* A ramp starts where the step before it ended, at that step's own target, even
\* when the target was changed by hand meanwhile, the row was rewritten by a
\* pause or the deadband left the target in force a little off.
FromIsReached ==
    \A r \in Copies :
      r.idx > 0 /\ Step(r.profile, r.idx - 1).type # "other"
        => r.from = Step(r.profile, r.idx - 1).target

\* Fermenter f is on step i of profile p, and follows it.
OnStep(f, p, i) ==
    /\ Mode[f] = "profile"
    /\ row[f].profile = p /\ row[f].idx = i /\ ~row[f].paused

\* A step that has an end does end: the profile moves on, or it is paused,
\* cancelled, replaced or no longer followed; it is not followed for ever.
Ends(s) == s.type # "hold" \/ s.duration > 0
ScheduleAdvances ==
    \A f \in Fermenters, p \in ProfileIds :
      \A i \in 0..(Len(Profiles[p]) - 1) :
        Ends(Step(p, i)) => []<>~OnStep(f, p, i)

\* During a hold the target in force comes within the deadband of the hold's,
\* also after a change by hand or a restart.
HoldIsReached ==
    \A f \in Fermenters, p \in ProfileIds :
      \A i \in 0..(Len(Profiles[p]) - 1) :
        Step(p, i).type = "hold" =>
          []<>(\/ ~OnStep(f, p, i)
               \/ TargetC[f] - Step(p, i).target \in -Deadband..Deadband)

\* A fermenter that is taken out of profile mode, and is left there, is left
\* alone: a tick that read its mode before may still set its target once, but
\* the assignment that stays in the table does not steer it for long.
ScheduleLetsGo ==
    \A f \in Fermenters :
      <>[](Mode[f] # "profile") => <>[]~(sched.fv = f /\ sched.pc = "set")
=============================================================================
