----------------------- MODULE ProfileSchedulerProofs -----------------------
(***************************************************************************)
(* Theorems about ProfileScheduler, for any number of fermenters, any      *)
(* stored profiles and any limits: the index of an assignment is always    *)
(* that of a step of its profile, and a ramp starts where the step before  *)
(* it ended and never leaves the way from there to its own target.         *)
(***************************************************************************)
EXTENDS ProfileScheduler, TLAPS

\* What makes a row fit its profile, in the database and in every copy.
Fits(r) ==
    /\ r.idx < Len(Profiles[r.profile])
    /\ r.idx > 0 /\ Step(r.profile, r.idx - 1).type # "other"
         => r.from = Step(r.profile, r.idx - 1).target
Rows     == {r \in Assignments : Fits(r)}
Writes   == [fv : Fermenters, copy : Rows]

\* The local variables of a tick that has loaded a row: they name a step, and
\* when the step is over the target is the step's own.
Loaded ==
    /\ sched.profile \in ProfileIds
    /\ sched.idx < Len(Profiles[sched.profile])
    /\ sched.advance /\ Step(sched.profile, sched.idx).type # "other"
         => sched.target = Step(sched.profile, sched.idx).target

\* The inductive invariant.  StepInRange and FromIsReached say nothing of the
\* scheduler's own copy, which is what it writes back.
Inv ==
    /\ TypeOK
    /\ row \in [Fermenters -> Rows \cup {NoRow}]
    /\ request \in [Requests -> Writes \cup {NoRequest}]
    /\ sched.pc \in {"set", "save"} => Loaded
    /\ sched.pc = "save" => sched.advance

Scheds == [pc : {"waiting", "visit", "load", "set", "save"}, fv : Fermenters,
           lag : 0..MaxTickTime, profile : ProfileIds \cup {0}, idx : Nat,
           target : Int, advance : BOOLEAN]

-----------------------------------------------------------------------------
(* Facts about the values of the state.                                    *)

LEMMA StepType ==
  ASSUME NEW p \in ProfileIds, NEW i \in Nat, i < Len(Profiles[p])
  PROVE  Step(p, i) \in Steps
<1>1. Profiles[p] \in Seq(Steps)
  BY ProfilesAssumption
<1>2. i + 1 \in 1..Len(Profiles[p])
  BY <1>1
<1>. QED
  BY <1>1, <1>2 DEF Step

LEMMA NoRowNotRow == NoRow \notin Assignments
BY ProfilesAssumption DEF NoRow, Row, Assignments

LEMMA WaitingType == Waiting \in Scheds
BY BoundsAssumption DEF Waiting, Scheds, Fermenters

LEMMA FollowingType ==
  ASSUME sched \in Scheds
  PROVE  /\ Following \in Scheds
         /\ Following.pc \notin {"set", "save"}
<1>1. CASE sched.fv = NumFermenters
  BY <1>1, WaitingType DEF Following, Waiting
<1>2. CASE sched.fv # NumFermenters
  <2>1. sched.fv + 1 \in Fermenters
    BY <1>2, BoundsAssumption DEF Scheds, Fermenters
  <2>. QED
    BY <1>2, <2>1, WaitingType DEF Following, Waiting, Scheds
<1>. QED
  BY <1>1, <1>2

\* A first row fits every profile: no stored profile is empty.
LEMMA FirstRowFits ==
  ASSUME NEW p \in ProfileIds, NEW from \in Int
  PROVE  Row(p, 0, 0, from, FALSE) \in Rows
<1>1. Len(Profiles[p]) > 0
  BY ProfilesAssumption
<1>. QED
  BY <1>1, BoundsAssumption DEF Row, Rows, Assignments, Fits

\* Pausing and ageing leave a row fitting.
LEMMA PausedFits ==
  ASSUME NEW r \in Rows, NEW paused \in BOOLEAN
  PROVE  [r EXCEPT !.paused = paused] \in Rows
BY DEF Rows, Assignments, Fits

LEMMA AgedFits ==
  /\ \A r \in Rows : Aged(r) \in Rows
  /\ Aged(NoRow) = NoRow
<1>1. ASSUME NEW r \in Rows PROVE Aged(r) \in Rows
  <2>1. r \in Assignments /\ r.age \in 0..MaxAge
    BY DEF Rows, Assignments
  <2>2. CASE r = NoRow \/ r.age >= MaxAge
    BY <2>2 DEF Aged
  <2>3. CASE ~(r = NoRow \/ r.age >= MaxAge)
    <3>1. r.age + 1 \in 0..MaxAge
      BY <2>1, <2>3, BoundsAssumption
    <3>2. Aged(r) = [r EXCEPT !.age = r.age + 1]
      BY <2>3 DEF Aged
    <3>. QED
      BY <2>1, <3>1, <3>2 DEF Rows, Assignments, Fits
  <2>. QED
    BY <2>2, <2>3
<1>. QED
  BY <1>1 DEF Aged

\* The target of a step, and the one it has when it is over.
LEMMA StepTargetType ==
  ASSUME NEW s \in Steps, NEW from \in Int, NEW elapsed \in Int,
         NEW current \in Int
  PROVE  /\ StepTarget(s, from, elapsed, current) \in Int
         /\ StepOver(s, from, elapsed) \in BOOLEAN
         /\ StepOver(s, from, elapsed) /\ s.type # "other"
              => StepTarget(s, from, elapsed, current) = s.target
<1>1. s.target \in Int /\ s.duration \in Int /\ s.type \in {"hold", "ramp", "other"}
  BY DEF Steps
<1>2. Rate(s) \in Int /\ Sign(s, from) \in Int
  BY ProfilesAssumption DEF Rate, Sign, Steps
<1>3. Ramped(s, from, elapsed) \in Int
  BY <1>2 DEF Ramped
<1>4. RampReached(s, from, elapsed) \in BOOLEAN
  <2>1. CASE Sign(s, from) > 0
    BY <2>1 DEF RampReached
  <2>2. CASE ~(Sign(s, from) > 0)
    BY <2>2 DEF RampReached
  <2>. QED
    BY <2>1, <2>2
<1>. QED
  BY <1>1, <1>3, <1>4 DEF StepTarget, StepOver

-----------------------------------------------------------------------------
(* The steps.                                                              *)

LEMMA InitInv == Init => Inv
<1>. SUFFICES ASSUME Init PROVE Inv
  OBVIOUS
<1>1. TypeOK
  BY BoundsAssumption, TargetsAssumption, WaitingType
  DEF Init, TypeOK, Scheds
<1>2. sched.pc = "waiting"
  BY DEF Init, Waiting
<1>. QED
  BY <1>1, <1>2 DEF Init, Inv

LEMMA SchedulerInv ==
  ASSUME Inv, StartTick \/ Scheduler
  PROVE  Inv'
<1>. USE DEF Inv, bounded
<1>0. sched \in Scheds
  BY DEF TypeOK, Scheds
<1>1. CASE StartTick
  <2>1. sched' \in Scheds /\ sched'.pc = "visit"
    BY <1>1, WaitingType DEF StartTick, Scheds, Waiting
  <2>. QED
    BY <1>1, <2>1 DEF StartTick, TypeOK, Scheds
<1>2. CASE Visit
  <2>1. sched' \in Scheds /\ sched'.pc \notin {"set", "save"}
    BY <1>0, <1>2, FollowingType DEF Visit, Scheds
  <2>. QED
    BY <1>2, <2>1 DEF Visit, TypeOK, Scheds
<1>3. CASE Load
  <2>. DEFINE r == row[sched.fv]
              s == Step(r.profile, r.idx)
              elapsed == r.age - sched.lag
              current == TargetC[sched.fv]
              loaded == [sched EXCEPT
                           !.pc = "set", !.profile = r.profile, !.idx = r.idx,
                           !.target = StepTarget(s, r.from, elapsed, current),
                           !.advance = StepOver(s, r.from, elapsed)]
  <2>0. UNCHANGED <<TargetC, Mode, row, request, assigns, restarts>>
    BY <1>3 DEF Load
  <2>1. CASE sched' = Following
    <3>1. sched' \in Scheds /\ sched'.pc \notin {"set", "save"}
      BY <1>0, <2>1, FollowingType
    <3>. QED
      BY <2>0, <3>1 DEF TypeOK, Scheds
  <2>2. CASE r # NoRow /\ sched' = loaded
    <3>1. sched.fv \in Fermenters /\ sched.lag \in Int
      BY <1>0, BoundsAssumption DEF Scheds
    <3>2. r \in Rows
      BY <2>2, <3>1
    <3>3. /\ r.profile \in ProfileIds /\ r.idx \in Nat
          /\ r.idx < Len(Profiles[r.profile])
          /\ r.from \in Int /\ r.age \in Int
      BY <3>2, BoundsAssumption DEF Rows, Assignments, Fits
    <3>4. s \in Steps /\ elapsed \in Int /\ current \in Int
      BY <3>1, <3>3, StepType, SMTT(30) DEF TypeOK
    <3>. DEFINE t == StepTarget(s, r.from, elapsed, current)
                a == StepOver(s, r.from, elapsed)
    <3>5. t \in Int /\ a \in BOOLEAN /\ (a /\ s.type # "other" => t = s.target)
      BY <3>3, <3>4, StepTargetType
    <3>6. /\ sched'.pc = "set" /\ sched'.profile = r.profile
          /\ sched'.idx = r.idx /\ sched'.target = t /\ sched'.advance = a
      BY <1>0, <2>2 DEF Scheds
    <3>. HIDE DEF t, a
    <3>7. sched' \in Scheds
      BY <1>0, <2>2, <3>3, <3>5 DEF Scheds, t, a
    <3>8. Loaded'
      BY <3>3, <3>5, <3>6 DEF Loaded, Step
    <3>. QED
      BY <2>0, <3>6, <3>7, <3>8 DEF TypeOK, Scheds
  <2>. QED
    BY <1>3, <2>1, <2>2 DEF Load
<1>4. CASE SetScheduled
  <2>1. TargetC' \in [Fermenters -> Int]
    BY <1>0, <1>4 DEF SetScheduled, TypeOK, Scheds
  <2>2. CASE sched.advance /\ sched' = [sched EXCEPT !.pc = "save"]
    <3>1. sched' \in Scheds /\ Loaded' /\ sched'.advance
      BY <1>0, <1>4, <2>2 DEF SetScheduled, Scheds, Loaded, Step
    <3>. QED
      BY <1>4, <2>1, <3>1 DEF SetScheduled, TypeOK, Scheds
  <2>3. CASE sched' = Following
    <3>1. sched' \in Scheds /\ sched'.pc \notin {"set", "save"}
      BY <1>0, <2>3, FollowingType
    <3>. QED
      BY <1>4, <2>1, <3>1 DEF SetScheduled, TypeOK, Scheds
  <2>. QED
    BY <1>4, <2>2, <2>3 DEF SetScheduled
<1>5. CASE SaveAdvance
  <2>1. sched' \in Scheds /\ sched'.pc \notin {"set", "save"}
    BY <1>0, <1>5, FollowingType DEF SaveAdvance
  <2>. DEFINE next == IF LastStep(sched.profile, sched.idx) THEN NoRow
                      ELSE NextRow(sched.target)
  <2>2. next \in Rows \cup {NoRow}
    <3>. SUFFICES ASSUME ~LastStep(sched.profile, sched.idx)
                  PROVE  NextRow(sched.target) \in Rows
      OBVIOUS
    <3>1. Loaded /\ sched.advance
      BY <1>5 DEF SaveAdvance
    <3>2. /\ sched.profile \in ProfileIds /\ sched.idx \in Nat
          /\ sched.target \in Int /\ sched.lag \in 0..MaxAge
      BY <1>0, <3>1, BoundsAssumption DEF Scheds, Loaded
    <3>3. Len(Profiles[sched.profile]) \in Nat
      BY <3>2, ProfilesAssumption
    <3>4. sched.idx + 1 < Len(Profiles[sched.profile])
      BY <3>2, <3>3 DEF LastStep
    <3>5. NextRow(sched.target) \in Assignments
      BY <3>2 DEF NextRow, Row, Assignments
    <3>6. (sched.idx + 1) - 1 = sched.idx
      BY <3>2
    <3>7. Fits(NextRow(sched.target))
      BY <3>1, <3>4, <3>6 DEF Fits, NextRow, Row, Loaded
    <3>. QED
      BY <3>5, <3>7 DEF Rows
  <2>. HIDE DEF next
  <2>3. row' \in [Fermenters -> Rows \cup {NoRow}]
    BY <1>5, <2>2 DEF SaveAdvance, next
  <2>4. row' \in [Fermenters -> Assignments \cup {NoRow}]
    BY <2>3 DEF Rows
  <2>. QED
    BY <1>5, <2>1, <2>3, <2>4 DEF SaveAdvance, TypeOK, Scheds
<1>. QED
  BY <1>1, <1>2, <1>3, <1>4, <1>5 DEF Scheduler

LEMMA HandlerInv ==
  ASSUME Inv, NEW f \in Fermenters, Handler(f)
  PROVE  Inv'
<1>. USE DEF Inv, bounded
<1>0. ASSUME row' \in [Fermenters -> Rows \cup {NoRow}],
             request' \in [Requests -> Writes \cup {NoRequest}],
             TargetC' \in [Fermenters -> Int],
             Mode' \in [Fermenters -> Modes \cup {"fixed"}],
             assigns' \in 0..MaxAssigns,
             restarts' \in 0..MaxRestarts,
             UNCHANGED sched
      PROVE  Inv'
  <2>1. /\ row' \in [Fermenters -> Assignments \cup {NoRow}]
        /\ request' \in [Requests -> [fv : Fermenters, copy : Assignments]
                                      \cup {NoRequest}]
    BY <1>0 DEF Rows, Writes
  <2>. QED
    BY <1>0, <2>1 DEF TypeOK, Loaded
<1>1. ASSUME NEW q \in Requests, NEW p \in ProfileIds, BeginAssign(q, f, p) PROVE Inv'
  <2>1. PICK from \in {TargetC[f]} \cup Targets :
          request' = [request EXCEPT ![q] = Request(f, Row(p, 0, 0, from, FALSE))]
    BY <1>1 DEF BeginAssign
  <2>2. from \in Int
    BY TargetsAssumption DEF TypeOK
  <2>3. Request(f, Row(p, 0, 0, from, FALSE)) \in Writes
    BY <2>2, FirstRowFits DEF Writes, Request
  <2>4. request' \in [Requests -> Writes \cup {NoRequest}]
    BY <2>1, <2>3
  <2>. QED
    <3>1. assigns' \in 0..MaxAssigns
      BY <1>1, BoundsAssumption DEF BeginAssign, TypeOK
    <3>2. UNCHANGED <<TargetC, Mode, row, sched, restarts>>
      BY <1>1 DEF BeginAssign
    <3>. QED
      BY <1>0, <2>4, <3>1, <3>2 DEF TypeOK
<1>2. ASSUME NEW q \in Requests, BeginPause(q, f) PROVE Inv'
  <2>1. PICK paused \in BOOLEAN :
          request' = [request EXCEPT
                        ![q] = Request(f, [row[f] EXCEPT !.paused = paused])]
    BY <1>2 DEF BeginPause
  <2>2. row[f] \in Rows
    BY <1>2 DEF BeginPause
  <2>3. Request(f, [row[f] EXCEPT !.paused = paused]) \in Writes
    BY <2>2, PausedFits DEF Writes, Request
  <2>4. request' \in [Requests -> Writes \cup {NoRequest}]
    BY <2>1, <2>3
  <2>. QED
    BY <1>0, <1>2, <2>4 DEF BeginPause, TypeOK
<1>4. CASE Cancel(f)
  BY <1>0, <1>4 DEF Cancel, TypeOK
<1>5. ASSUME NEW t \in Targets, SetTarget(f, t) PROVE Inv'
  BY <1>0, <1>5, TargetsAssumption DEF SetTarget, TypeOK
<1>6. ASSUME NEW m \in Modes, SetMode(f, m) PROVE Inv'
  BY <1>0, <1>6 DEF SetMode, TypeOK
<1>. QED
  BY <1>1, <1>2, <1>4, <1>5, <1>6 DEF Handler

\* A request writes the copy it holds, however old.
LEMMA UpsertInv ==
  ASSUME Inv, NEW q \in Requests, UpsertAssignment(q)
  PROVE  Inv'
<1>. USE DEF Inv, bounded
<1>1. request[q].copy \in Rows /\ request[q].fv \in Fermenters
  BY DEF UpsertAssignment, Writes
<1>2. row' \in [Fermenters -> Rows \cup {NoRow}]
  BY <1>1 DEF UpsertAssignment
<1>3. request' \in [Requests -> Writes \cup {NoRequest}]
  BY DEF UpsertAssignment
<1>4. TypeOK'
  BY <1>2, <1>3 DEF UpsertAssignment, TypeOK, Rows, Writes
<1>. QED
  BY <1>2, <1>3, <1>4 DEF UpsertAssignment, Loaded

LEMMA ElapseInv ==
  ASSUME Inv, Elapse
  PROVE  Inv'
<1>. USE DEF Inv, bounded
<1>1. row' \in [Fermenters -> Rows \cup {NoRow}]
  BY AgedFits DEF Elapse
<1>2. request' \in [Requests -> Writes \cup {NoRequest}]
  <2>1. ASSUME NEW q \in Requests
        PROVE  [request[q] EXCEPT !.copy = Aged(request[q].copy)]
                 \in Writes \cup {NoRequest}
    <3>1. CASE request[q] \in Writes
      BY <3>1, AgedFits DEF Writes
    <3>2. CASE request[q] = NoRequest
      BY <3>2, AgedFits DEF NoRequest, Request
    <3>. QED
      BY <3>1, <3>2
  <2>. QED
    BY <2>1 DEF Elapse
<1>3. sched' \in Scheds
  <2>1. sched \in Scheds /\ sched.lag \in Nat
    BY BoundsAssumption DEF TypeOK, Scheds
  <2>2. CASE sched.pc = "waiting"
    BY <2>1, <2>2 DEF Elapse
  <2>3. CASE sched.pc # "waiting"
    <3>1. sched.lag + 1 \in 0..MaxTickTime
      BY <2>1, <2>3, BoundsAssumption DEF Elapse
    <3>. QED
      BY <2>1, <2>3, <3>1 DEF Elapse, Scheds
  <2>. QED
    BY <2>2, <2>3
<1>4. /\ sched'.pc = sched.pc /\ sched'.profile = sched.profile
      /\ sched'.idx = sched.idx /\ sched'.target = sched.target
      /\ sched'.advance = sched.advance
  BY DEF Elapse, TypeOK
<1>5. TypeOK'
  BY <1>1, <1>2, <1>3 DEF Elapse, TypeOK, Scheds, Rows, Writes
<1>. QED
  BY <1>1, <1>2, <1>4, <1>5 DEF Loaded, Step

LEMMA RestartInv ==
  ASSUME Inv, Restart
  PROVE  Inv'
<1>. USE DEF Inv, bounded
<1>1. sched' \in Scheds /\ sched'.pc = "waiting"
  BY WaitingType DEF Restart, Waiting
<1>2. restarts' \in 0..MaxRestarts
  BY BoundsAssumption DEF Restart, TypeOK
<1>3. TypeOK'
  BY <1>1, <1>2, TargetsAssumption DEF Restart, TypeOK, Scheds
<1>. QED
  BY <1>1, <1>3 DEF Restart

LEMMA NextInv == Inv /\ [Next]_vars => Inv'
<1>. SUFFICES ASSUME Inv, [Next]_vars PROVE Inv'
  OBVIOUS
<1>1. CASE UNCHANGED vars
  BY <1>1 DEF vars, Inv, TypeOK, Loaded
<1>. QED
  BY <1>1, SchedulerInv, HandlerInv, UpsertInv, ElapseInv, RestartInv DEF Next

LEMMA SpecInv == Spec => []Inv
BY InitInv, NextInv, PTL DEF Spec

-----------------------------------------------------------------------------
(* The way of a ramp.                                                      *)

\* What the scheduler is about to set for a ramp, and about to keep as the start
\* of the next step, lies between the target of the step before and its own.
OnTheWay(t, from, s) ==
    IF Sign(s, from) > 0 THEN from <= t /\ t <= s.target
    ELSE s.target <= t /\ t <= from
RampStaysInside ==
    LET s == Step(sched.profile, sched.idx)
        before == Step(sched.profile, sched.idx - 1)
    IN  sched.pc \in {"set", "save"} /\ sched.idx > 0
          /\ s.type = "ramp" /\ before.type # "other"
        => OnTheWay(sched.target, before.target, s)

\* The invariant it needs: no step but a first one began after the `now' of the
\* tick, which would let its ramp run backwards.  A first step may have: it is
\* assigned at any time.
BegunBefore(r) == r.idx > 0 => sched.lag <= r.age
StepsBegun ==
    /\ \A f \in Fermenters : BegunBefore(row[f])
    /\ \A q \in Requests : BegunBefore(request[q].copy)

\* The ages of rows and copies are numbers.
LEMMA AgesAreNumbers ==
  ASSUME Inv
  PROVE  /\ \A f \in Fermenters : row[f] \in Rows \cup {NoRow} /\ row[f].age \in 0..MaxAge
         /\ \A q \in Requests : /\ request[q].copy \in Rows \cup {NoRow}
                               /\ request[q].copy.age \in 0..MaxAge
         /\ sched.lag \in 0..MaxTickTime /\ MaxTickTime \in 0..MaxAge /\ MaxAge \in Nat
<1>1. /\ \A f \in Fermenters : row[f] \in Rows \cup {NoRow}
      /\ \A q \in Requests : request[q].copy \in Rows \cup {NoRow}
  BY DEF Inv, Writes, NoRequest, Request
<1>2. \A r \in Rows \cup {NoRow} : r.age \in 0..MaxAge
  BY BoundsAssumption DEF Rows, Assignments, NoRow, Row
<1>3. sched.lag \in 0..MaxTickTime
  BY DEF Inv, TypeOK
<1>. QED
  BY <1>1, <1>2, <1>3, BoundsAssumption

\* The next fermenter is visited with the same `now', the next tick with a new one.
LEMMA FollowingLag ==
  ASSUME Inv
  PROVE  Following.lag \in {0, sched.lag}
BY DEF Following, Waiting

\* Ageing keeps up with the tick.
LEMMA AgedKeepsUp ==
  ASSUME NEW r \in Rows \cup {NoRow}, NEW lag \in 0..MaxAge,
         r.idx > 0 => lag <= r.age
  PROVE  /\ Aged(r).idx = r.idx
         /\ r.idx > 0 => lag <= Aged(r).age
         /\ r.idx > 0 /\ lag < MaxAge => lag + 1 <= Aged(r).age
<1>1. r.age \in 0..MaxAge /\ MaxAge \in Nat
  BY BoundsAssumption DEF Rows, Assignments, NoRow, Row
<1>2. CASE r = NoRow
  BY <1>2 DEF Aged, NoRow, Row
<1>3. CASE r # NoRow /\ r.age >= MaxAge
  BY <1>1, <1>3 DEF Aged
<1>4. CASE r # NoRow /\ ~(r.age >= MaxAge)
  <2>1. Aged(r) = [r EXCEPT !.age = r.age + 1] /\ r \in Assignments
    BY <1>4 DEF Aged, Rows
  <2>2. Aged(r).idx = r.idx /\ Aged(r).age = r.age + 1
    BY <2>1 DEF Assignments
  <2>. QED
    BY <1>1, <2>2
<1>. QED
  BY <1>2, <1>3, <1>4

LEMMA NextStepsBegun == Inv /\ StepsBegun /\ [Next]_vars => StepsBegun'
<1>. SUFFICES ASSUME Inv, StepsBegun, [Next]_vars PROVE StepsBegun'
  OBVIOUS
<1>. USE DEF StepsBegun, BegunBefore, bounded
<1>0. /\ sched \in Scheds /\ sched.fv \in Fermenters
      /\ row \in [Fermenters -> Rows \cup {NoRow}]
      /\ request \in [Requests -> Writes \cup {NoRequest}]
  BY DEF Inv, TypeOK, Scheds
<1>1. ASSUME UNCHANGED <<row, request>>, sched'.lag \in {0, sched.lag}
      PROVE  StepsBegun'
  <2>1. ASSUME NEW f \in Fermenters, row[f].idx > 0 PROVE sched'.lag <= row[f].age
    BY <1>1, <2>1, AgesAreNumbers
  <2>2. ASSUME NEW q \in Requests, request[q].copy.idx > 0
        PROVE  sched'.lag <= request[q].copy.age
    BY <1>1, <2>2, AgesAreNumbers
  <2>. QED
    BY <1>1, <2>1, <2>2
<1>2. CASE StartTick
  BY <1>1, <1>2 DEF StartTick, Waiting
<1>3. CASE Visit
  BY <1>0, <1>1, <1>3, FollowingLag DEF Visit, Scheds
<1>4. CASE Load
  <2>1. sched'.lag \in {0, sched.lag}
    BY <1>0, <1>4, FollowingLag DEF Load, Scheds
  <2>. QED
    BY <1>1, <1>4, <2>1 DEF Load
<1>5. CASE SetScheduled
  <2>1. sched'.lag \in {0, sched.lag}
    BY <1>0, <1>5, FollowingLag DEF SetScheduled, Scheds
  <2>. QED
    BY <1>1, <1>5, <2>1 DEF SetScheduled
<1>6. CASE SaveAdvance
  <2>1. sched'.lag \in {0, sched.lag} /\ request' = request
    BY <1>6, FollowingLag DEF SaveAdvance
  <2>2. ASSUME NEW f \in Fermenters
        PROVE  \/ row'[f] = row[f]
               \/ row'[f].idx = 0
               \/ row'[f].age = sched.lag
    BY <1>0, <1>6 DEF SaveAdvance, NextRow, NoRow, Row
  <2>3. sched'.lag <= sched.lag
    BY <2>1, AgesAreNumbers
  <2>4. ASSUME NEW f \in Fermenters, row'[f].idx > 0 PROVE sched'.lag <= row'[f].age
    BY <2>1, <2>2, <2>3, <2>4, AgesAreNumbers
  <2>5. ASSUME NEW q \in Requests, request[q].copy.idx > 0
        PROVE  sched'.lag <= request[q].copy.age
    BY <2>1, <2>5, AgesAreNumbers
  <2>. QED
    BY <2>1, <2>4, <2>5
<1>7. ASSUME NEW f \in Fermenters, Handler(f) PROVE StepsBegun'
  <2>1. ASSUME NEW q \in Requests, NEW p \in ProfileIds, BeginAssign(q, f, p)
        PROVE  StepsBegun'
    <3>1. PICK from :
            request' = [request EXCEPT ![q] = Request(f, Row(p, 0, 0, from, FALSE))]
      BY <2>1 DEF BeginAssign
    <3>2. \A r \in Requests : request'[r] = request[r] \/ request'[r].copy.idx = 0
      BY <1>0, <3>1 DEF Row, Request
    <3>3. row' = row /\ sched' = sched
      BY <2>1 DEF BeginAssign
    <3>4. ASSUME NEW r \in Requests PROVE BegunBefore(request[r].copy)'
      BY <3>2, <3>3
    <3>. QED
      BY <3>3, <3>4
  <2>2. ASSUME NEW q \in Requests, BeginPause(q, f) PROVE StepsBegun'
    <3>1. PICK paused \in BOOLEAN :
            request' = [request EXCEPT
                          ![q] = Request(f, [row[f] EXCEPT !.paused = paused])]
      BY <2>2 DEF BeginPause
    <3>2. row[f] \in Assignments
      BY <1>0, <2>2 DEF BeginPause, Rows
    <3>3. /\ [row[f] EXCEPT !.paused = paused].idx = row[f].idx
          /\ [row[f] EXCEPT !.paused = paused].age = row[f].age
      BY <3>2 DEF Assignments
    <3>4. \A r \in Requests :
            \/ request'[r] = request[r]
            \/ request'[r].copy.idx = row[f].idx /\ request'[r].copy.age = row[f].age
      BY <1>0, <3>1, <3>3 DEF Request
    <3>5. row' = row /\ sched' = sched
      BY <2>2 DEF BeginPause
    <3>6. ASSUME NEW r \in Requests PROVE BegunBefore(request[r].copy)'
      BY <3>4, <3>5
    <3>. QED
      BY <3>5, <3>6
  <2>4. CASE Cancel(f)
    <3>1. \A g \in Fermenters : row'[g] = row[g] \/ row'[g].idx = 0
      BY <1>0, <2>4 DEF Cancel, NoRow, Row
    <3>. QED
      BY <2>4, <3>1 DEF Cancel
  <2>5. ASSUME NEW t \in Targets, SetTarget(f, t) PROVE StepsBegun'
    BY <2>5 DEF SetTarget
  <2>6. ASSUME NEW m \in Modes, SetMode(f, m) PROVE StepsBegun'
    BY <2>6 DEF SetMode
  <2>. QED
    BY <1>7, <2>1, <2>2, <2>4, <2>5, <2>6 DEF Handler
<1>11. ASSUME NEW q \in Requests, UpsertAssignment(q) PROVE StepsBegun'
  <2>1. ASSUME NEW f \in Fermenters PROVE row'[f] = row[f] \/ row'[f] = request[q].copy
    BY <1>0, <1>11 DEF UpsertAssignment
  <2>2. ASSUME NEW r \in Requests
        PROVE  request'[r] = request[r] \/ request'[r].copy.idx = 0
    BY <1>0, <1>11 DEF UpsertAssignment, NoRequest, Request, NoRow, Row
  <2>3. sched' = sched
    BY <1>11 DEF UpsertAssignment
  <2>. QED
    BY <2>1, <2>2, <2>3
<1>8. CASE Elapse
  <2>1. /\ \A f \in Fermenters : row'[f] = Aged(row[f])
        /\ \A q \in Requests : request'[q].copy = Aged(request[q].copy)
    BY <1>0, <1>8 DEF Elapse, Writes, NoRequest, Request
  <2>2. \/ sched'.lag = sched.lag
        \/ sched.lag < MaxTickTime /\ sched'.lag = sched.lag + 1
    BY <1>0, <1>8 DEF Elapse, Scheds
  <2>3. /\ sched.lag \in 0..MaxAge /\ (sched.lag < MaxTickTime => sched.lag < MaxAge)
    BY AgesAreNumbers
  <2>4. ASSUME NEW r \in Rows \cup {NoRow}, BegunBefore(r), Aged(r).idx > 0
        PROVE  sched'.lag <= Aged(r).age
    BY <2>2, <2>3, <2>4, AgedKeepsUp
  <2>. QED
    BY <2>1, <2>4, AgesAreNumbers
<1>9. CASE Restart
  <2>1. sched'.lag = 0 /\ row' = row
        /\ \A q \in Requests : request'[q].copy.idx = 0
    BY <1>9 DEF Restart, Waiting, NoRequest, Request, NoRow, Row
  <2>. QED
    BY <2>1, AgesAreNumbers
<1>10. CASE UNCHANGED vars
  BY <1>10 DEF vars
<1>. QED
  BY <1>2, <1>3, <1>4, <1>5, <1>6, <1>7, <1>8, <1>9, <1>10, <1>11 DEF Next, Scheduler

\* A ramp that began in the past is on its way, or has reached its target.
LEMMA RampOnTheWay ==
  ASSUME NEW s \in Steps, s.type = "ramp", NEW from \in Int,
         NEW elapsed \in Nat, NEW current
  PROVE  OnTheWay(StepTarget(s, from, elapsed, current), from, s)
<1>1. s.target \in Int /\ Rate(s) \in Nat
  BY ProfilesAssumption DEF Rate, Steps
<1>2. elapsed * Rate(s) \in Nat /\ (-1 * elapsed) * Rate(s) = -(elapsed * Rate(s))
  BY <1>1
<1>3. StepTarget(s, from, elapsed, current) =
        IF RampReached(s, from, elapsed) THEN s.target ELSE Ramped(s, from, elapsed)
  BY DEF StepTarget
<1>4. CASE s.target < from
  <2>1. Sign(s, from) = -1
    BY <1>4 DEF Sign
  <2>2. Ramped(s, from, elapsed) = from - elapsed * Rate(s)
    BY <1>1, <1>2, <2>1 DEF Ramped
  <2>3. RampReached(s, from, elapsed) <=> Ramped(s, from, elapsed) <= s.target
    BY <2>1 DEF RampReached
  <2>. QED
    BY <1>1, <1>2, <1>3, <1>4, <2>1, <2>2, <2>3 DEF OnTheWay
<1>5. CASE ~(s.target < from)
  <2>1. Sign(s, from) = 1
    BY <1>5 DEF Sign
  <2>2. Ramped(s, from, elapsed) = from + elapsed * Rate(s)
    BY <1>1, <1>2, <2>1 DEF Ramped
  <2>3. RampReached(s, from, elapsed) <=> Ramped(s, from, elapsed) >= s.target
    BY <2>1 DEF RampReached
  <2>. QED
    BY <1>1, <1>2, <1>3, <1>5, <2>1, <2>2, <2>3 DEF OnTheWay
<1>. QED
  BY <1>4, <1>5

\* Only the load of a row computes a target; until it is set and saved it stays.
LEMMA NextRampInside ==
  Inv /\ StepsBegun /\ RampStaysInside /\ [Next]_vars => RampStaysInside'
<1>. SUFFICES ASSUME Inv, StepsBegun, RampStaysInside, [Next]_vars
              PROVE  RampStaysInside'
  OBVIOUS
<1>0. /\ sched \in Scheds /\ sched.fv \in Fermenters
      /\ row \in [Fermenters -> Rows \cup {NoRow}]
  BY DEF Inv, TypeOK, Scheds
<1>1. ASSUME sched'.pc \notin {"set", "save"} PROVE RampStaysInside'
  BY <1>1 DEF RampStaysInside
<1>2. ASSUME sched.pc \in {"set", "save"}, sched'.profile = sched.profile,
             sched'.idx = sched.idx, sched'.target = sched.target
      PROVE  RampStaysInside'
  BY <1>2 DEF RampStaysInside, OnTheWay, Step, Sign
<1>3. ASSUME sched' = sched PROVE RampStaysInside'
  BY <1>1, <1>2, <1>3
<1>4. CASE StartTick
  BY <1>1, <1>4 DEF StartTick, Waiting
<1>5. CASE Visit
  BY <1>0, <1>1, <1>5, FollowingType DEF Visit, Scheds
<1>6. CASE Load
  <2>. DEFINE r == row[sched.fv]
              s == Step(r.profile, r.idx)
              before == Step(r.profile, r.idx - 1)
              elapsed == r.age - sched.lag
  <2>1. CASE sched' = Following
    BY <1>0, <1>1, <2>1, FollowingType
  <2>2. CASE sched' # Following
    <3>1. /\ r # NoRow
          /\ sched'.pc = "set" /\ sched'.profile = r.profile /\ sched'.idx = r.idx
          /\ sched'.target = StepTarget(s, r.from, elapsed, TargetC[sched.fv])
      BY <1>0, <1>6, <2>2 DEF Load, Scheds
    <3>2. r \in Rows
      BY <1>0, <3>1
    <3>3. s \in Steps /\ r.from \in Int
      BY <3>2, StepType DEF Rows, Assignments, Fits
    <3>. SUFFICES ASSUME r.idx > 0, s.type = "ramp", before.type # "other"
                  PROVE  OnTheWay(sched'.target, before.target, s)
      BY <3>1 DEF RampStaysInside, OnTheWay, Step, Sign
    <3>4. r.from = before.target
      BY <3>2 DEF Rows, Fits
    <3>5. elapsed \in Nat
      BY <1>0, AgesAreNumbers DEF StepsBegun, BegunBefore
    <3>. HIDE DEF s, elapsed, before
    <3>. QED
      BY <3>1, <3>3, <3>4, <3>5, RampOnTheWay
  <2>. QED
    BY <2>1, <2>2
<1>7. CASE SetScheduled
  <2>1. CASE sched' = [sched EXCEPT !.pc = "save"]
    BY <1>0, <1>2, <1>7, <2>1 DEF SetScheduled, Scheds
  <2>2. CASE sched' = Following
    BY <1>0, <1>1, <2>2, FollowingType
  <2>. QED
    BY <1>7, <2>1, <2>2 DEF SetScheduled
<1>8. CASE SaveAdvance
  BY <1>0, <1>1, <1>8, FollowingType DEF SaveAdvance
<1>9. ASSUME NEW f \in Fermenters, Handler(f) PROVE RampStaysInside'
  BY <1>3, <1>9
  DEF Handler, BeginAssign, BeginPause, Cancel, SetTarget, SetMode, bounded
<1>13. ASSUME NEW q \in Requests, UpsertAssignment(q) PROVE RampStaysInside'
  BY <1>3, <1>13 DEF UpsertAssignment
<1>10. CASE Elapse
  <2>1. /\ sched'.pc = sched.pc /\ sched'.profile = sched.profile
        /\ sched'.idx = sched.idx /\ sched'.target = sched.target
    BY <1>0, <1>10 DEF Elapse, Scheds
  <2>. QED
    BY <1>1, <1>2, <2>1
<1>11. CASE Restart
  BY <1>1, <1>11 DEF Restart, Waiting
<1>12. CASE UNCHANGED vars
  BY <1>3, <1>12 DEF vars
<1>. QED
  BY <1>4, <1>5, <1>6, <1>7, <1>8, <1>9, <1>10, <1>11, <1>12, <1>13 DEF Next, Scheduler

-----------------------------------------------------------------------------
(* The theorems.                                                           *)

\* The state keeps its type; in particular every row names a stored profile.
THEOREM TypeCorrect == Spec => []TypeOK
BY SpecInv, PTL DEF Inv

\* The scheduler never indexes past the steps of a profile, whatever the order
\* of assignments, pauses, cancellations, ticks, failed statements and restarts.
THEOREM StepInRangeCorrect == Spec => []StepInRange
<1>1. Inv => StepInRange
  <2>. SUFFICES ASSUME Inv, NEW r \in Copies
                PROVE  r.idx < Len(Profiles[r.profile])
    BY DEF StepInRange
  <2>1. r \in Rows
    BY DEF Inv, Copies, Writes, NoRequest, Request
  <2>. QED
    BY <2>1 DEF Rows, Fits
<1>. QED
  BY <1>1, SpecInv, PTL

\* A ramp starts at the target of the step before it.
THEOREM FromIsReachedCorrect == Spec => []FromIsReached
<1>1. Inv => FromIsReached
  <2>. SUFFICES ASSUME Inv, NEW r \in Copies,
                       r.idx > 0, Step(r.profile, r.idx - 1).type # "other"
                PROVE  r.from = Step(r.profile, r.idx - 1).target
    BY DEF FromIsReached
  <2>1. r \in Rows
    BY DEF Inv, Copies, Writes, NoRequest, Request
  <2>. QED
    BY <2>1 DEF Rows, Fits
<1>. QED
  BY <1>1, SpecInv, PTL

\* main.go:155: whatever restarts, pauses and failed statements come between, a
\* ramp that follows a step with a target never sets one off the way between the
\* two: its time is never negative and its end never passed.
THEOREM RampStaysInsideCorrect == Spec => []RampStaysInside
<1>1. Init => StepsBegun /\ RampStaysInside
  BY DEF Init, Waiting, NoRow, NoRequest, Request, Row, StepsBegun, BegunBefore, RampStaysInside
<1>. QED
  BY <1>1, InitInv, NextInv, NextStepsBegun, NextRampInside, PTL DEF Spec
=============================================================================
