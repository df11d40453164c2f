-------------------------- MODULE PersistenceProofs ---------------------------
(***************************************************************************)
(* For every set of fermenters, targets and settings, any number of mode   *)
(* requests at once and a database that may fail at any statement: the     *)
(* state is well typed, what was answered is saved, the modes are durable  *)
(* registers, and, if settings requests come one at a time, the settings   *)
(* in force are those saved.                                               *)
(***************************************************************************)
EXTENDS Persistence, FiniteSetTheorems, TLAPS

\* What a start would find for a mode.
SavedMode(f) == IF rows[f] = NoRow THEN "fixed" ELSE rows[f].mode

\* Whatever a start finds, resumes or saves is something a client may expect.
ModesExpected ==
    \A f \in Fermenters :
      /\ SavedMode(f) \in expected[f]
      /\ saving[f] \subseteq expected[f]
      /\ phase # "down" => Mode[f] \in expected[f]

\* AnsweredIsSaved, from the initial snapshot on.
RowsFollow ==
    phase \in {"snapshot", "running"} => \A f \in Fermenters : ~behind[f] =>
      /\ rows[f].target = TargetC[f]
      /\ saving[f] = {} => rows[f].mode = Mode[f]

NothingPending ==
    phase # "running" => /\ saving = [f \in Fermenters |-> {}]
                         /\ posted = {}

Inv == TypeOK /\ NothingPending /\ ModesExpected /\ RowsFollow

\* The request under way has saved the keys it has not left, and only those may
\* differ from what is in force.
SettingsFollow ==
    /\ posted = {} \/ \E p : posted = {p}
    /\ \A p \in posted, k \in Keys : k \notin p.left => settings[k] = p.body[k]
    /\ Running /\ ~halted => \A k \in Keys :
         settings[k] > 0 =>
           live[k] = settings[k] \/ \E p \in posted : k \notin p.left

\* The row of a snapshot is a row with the mode and the target in force.
LEMMA RowType ==
    ASSUME TypeOK, NEW f \in Fermenters
    PROVE  /\ RowOf(f) \in RowSet /\ RowOf(f) # NoRow
           /\ RowOf(f).target = TargetC[f] /\ RowOf(f).mode = Mode[f]
<1>1. RowOf(f) \in RowSet
  BY ConfigAssumption DEF TypeOK, RowOf, RowSet, ModeNames
<1>2. RowOf(f).target = TargetC[f] /\ RowOf(f).mode = Mode[f]
  BY DEF RowOf
<1>3. NoRow.mode = "none" /\ Mode[f] # "none"
  BY DEF NoRow, TypeOK, ModeNames
<1> QED
  BY <1>1, <1>2, <1>3

\* A row without a mode is none.
LEMMA NoRowMode ==
    ASSUME TypeOK, NEW f \in Fermenters
    PROVE  /\ rows[f] # NoRow => rows[f] \in RowSet /\ rows[f].mode \in ModeNames
           /\ rows[f] = NoRow => rows[f].target = 0 /\ rows[f].mode = "none"
<1>1. \A r \in RowSet : r.mode \in ModeNames
  BY DEF RowSet
<1> QED
  BY <1>1 DEF TypeOK, NoRow

\* What SaveTarget does to the rows.
LEMMA SaveTargetRow ==
    ASSUME TypeOK, NEW f \in Fermenters, NEW t \in Int, SaveTarget(f, t)
    PROVE  /\ rows' \in [Fermenters -> RowSet \cup {NoRow}]
           /\ rows'[f] # NoRow /\ rows'[f].target = t
           /\ rows'[f].mode = IF rows[f] = NoRow THEN "profile" ELSE rows[f].mode
           /\ \A g \in Fermenters \ {f} : rows'[g] = rows[g]
<1> DEFINE row == IF rows[f] = NoRow
                  THEN [target |-> t, mode |-> "profile", override |-> "none"]
                  ELSE [rows[f] EXCEPT !.target = t]
<1>1. row \in RowSet /\ row.target = t
        /\ row.mode = IF rows[f] = NoRow THEN "profile" ELSE rows[f].mode
  <2>1. CASE rows[f] = NoRow
    BY <2>1 DEF RowSet, ModeNames
  <2>2. CASE rows[f] # NoRow
    BY <2>2, NoRowMode DEF RowSet
  <2> QED
    BY <2>1, <2>2
<1>2. row # NoRow
  <2>1. row.mode # "none" /\ NoRow.mode = "none"
    BY <1>1, NoRowMode DEF NoRow, ModeNames
  <2> QED
    BY <2>1
<1>3. rows' = [rows EXCEPT ![f] = row]
  BY DEF SaveTarget
<1> HIDE DEF row
<1> QED
  BY <1>1, <1>2, <1>3 DEF TypeOK

\* What SaveMode does to the rows.
LEMMA UpsertModeRow ==
    ASSUME TypeOK, NEW f \in Fermenters, NEW m \in ModeNames, UpsertMode(f, m)
    PROVE  /\ rows' \in [Fermenters -> RowSet \cup {NoRow}]
           /\ rows'[f] # NoRow /\ rows'[f].mode = m /\ rows'[f].target = rows[f].target
           /\ \A g \in Fermenters \ {f} : rows'[g] = rows[g]
<1> DEFINE row == IF rows[f] = NoRow
                  THEN [target |-> 0, mode |-> m, override |-> "none"]
                  ELSE [rows[f] EXCEPT !.mode = m]
<1>1. row \in RowSet /\ row.mode = m /\ row.target = rows[f].target
  <2>1. CASE rows[f] = NoRow
    BY <2>1, NoRowMode DEF RowSet
  <2>2. CASE rows[f] # NoRow
    BY <2>2, NoRowMode DEF RowSet
  <2> QED
    BY <2>1, <2>2
<1>2. row # NoRow
  <2>1. row.mode # "none" /\ NoRow.mode = "none"
    BY <1>1 DEF NoRow, ModeNames
  <2> QED
    BY <2>1
<1>3. rows' = [rows EXCEPT ![f] = row]
  BY DEF UpsertMode
<1> HIDE DEF row
<1> QED
  BY <1>1, <1>2, <1>3 DEF TypeOK

\* The next key is one of those left.
LEMMA NextKeyLeft ==
    ASSUME NEW left \in SUBSET Keys, left # {}
    PROVE  NextKey(left) \in left
<1>1. \E k \in left : \A j \in left : Order(k) <= Order(j)
  <2>1. /\ Order("band_c") = 1 /\ Order("min_change_s") = 2 /\ Order("max_open") = 3
        /\ \A k \in left : k \in {"band_c", "min_change_s", "max_open"}
    BY DEF Order, Keys
  <2>2. CASE "band_c" \in left
    BY <2>1, <2>2
  <2>3. CASE "band_c" \notin left /\ "min_change_s" \in left
    BY <2>1, <2>3
  <2>4. CASE "band_c" \notin left /\ "min_change_s" \notin left
    BY <2>1, <2>4
  <2> QED
    BY <2>2, <2>3, <2>4
<1> QED
  BY <1>1 DEF NextKey

\* The initial state satisfies the invariants.
LEMMA InitInv == Init => Inv /\ SettingsFollow
<1> SUFFICES ASSUME Init PROVE Inv /\ SettingsFollow
    OBVIOUS
<1> USE ConfigAssumption DEF Init
<1>1. TypeOK
  <2>1. /\ TargetC \in [Fermenters -> Targets \cup {ConfigTarget}]
        /\ Mode \in [Fermenters -> ModeNames]
        /\ Override \in [Fermenters -> Overrides \cup {"none"}]
        /\ live \in [Keys -> Nat]
    BY DEF ModeNames
  <2>2. /\ rows \in [Fermenters -> RowSet \cup {NoRow}]
        /\ settings \in [Keys -> Int]
    BY DEF Absent
  <2>3. /\ saving \in [Fermenters -> SUBSET Modes]
        /\ expected \in [Fermenters -> SUBSET ModeNames]
        /\ behind \in [Fermenters -> BOOLEAN]
    BY DEF ModeNames
  <2> QED
    BY <2>1, <2>2, <2>3 DEF TypeOK
<1>2. NothingPending /\ ModesExpected /\ RowsFollow
  BY DEF NothingPending, ModesExpected, SavedMode, RowsFollow
<1>3. SettingsFollow
  BY DEF SettingsFollow, Running
<1> QED
  BY <1>1, <1>2, <1>3 DEF Inv

\* Every step keeps the types.
LEMMA NextType == Inv /\ [Next]_vars => TypeOK'
<1> SUFFICES ASSUME Inv, [Next]_vars PROVE TypeOK'
    OBVIOUS
<1> USE ConfigAssumption DEF Inv, TypeOK, ModeNames, memory, tables, inflight, history
<1>1. CASE Resume
  <2>1. \A f \in Fermenters : rows[f] # NoRow => rows[f].mode \in ModeNames
    BY DEF RowSet
  <2> QED
    BY <1>1, <2>1 DEF Resume
<1>2. CASE InitialSnapshot
  <2>1. \A f \in Fermenters : RowOf(f) \in RowSet
    BY RowType
  <2> QED
    BY <1>2, <2>1 DEF InitialSnapshot
<1>3. CASE ResumeSettings
  <2>1. live' \in [Keys -> Nat]
    BY <1>3 DEF ResumeSettings
  <2> QED
    BY <1>3, <2>1 DEF ResumeSettings
<1>4. ASSUME NEW f \in Fermenters, Snapshot(f) PROVE TypeOK'
  <2>1. RowOf(f) \in RowSet
    BY RowType
  <2> QED
    BY <1>4, <2>1 DEF Snapshot
<1>5. ASSUME NEW f \in Fermenters, NEW t \in Targets, SetTarget(f, t) PROVE TypeOK'
  <2>1. rows' \in [Fermenters -> RowSet \cup {NoRow}]
    BY <1>5, SaveTargetRow DEF SetTarget
  <2>2. expected' \in [Fermenters -> SUBSET ModeNames]
    BY <1>5 DEF SetTarget
  <2>3. behind' \in [Fermenters -> BOOLEAN]
    BY <1>5 DEF SetTarget, Outcomes
  <2>4. TargetC' \in [Fermenters -> Targets \cup {ConfigTarget}]
    BY <1>5 DEF SetTarget
  <2> QED
    BY <1>5, <2>1, <2>2, <2>3, <2>4 DEF SetTarget
<1>6. ASSUME NEW f \in Fermenters, NEW m \in Modes, SetMode(f, m) PROVE TypeOK'
  <2>1. /\ Mode' \in [Fermenters -> ModeNames]
        /\ Override' \in [Fermenters -> Overrides \cup {"none"}]
    BY <1>6 DEF SetMode
  <2>2. /\ saving' \in [Fermenters -> SUBSET Modes]
        /\ expected' \in [Fermenters -> SUBSET ModeNames]
    BY <1>6 DEF SetMode
  <2> QED
    BY <1>6, <2>1, <2>2 DEF SetMode
<1>7. ASSUME NEW f \in Fermenters, NEW m \in Modes, SaveMode(f, m) PROVE TypeOK'
  <2>1. rows' \in [Fermenters -> RowSet \cup {NoRow}]
    BY <1>7, UpsertModeRow DEF SaveMode
  <2>2. saving' \in [Fermenters -> SUBSET Modes]
    BY <1>7 DEF SaveMode
  <2>3. expected' \in [Fermenters -> SUBSET ModeNames]
    <3>1. {m, Mode[f]} \cup saving[f] \in SUBSET ModeNames
      BY <1>7
    <3> QED
      BY <1>7, <3>1 DEF SaveMode
  <2>4. behind' \in [Fermenters -> BOOLEAN]
    BY <1>7 DEF SaveMode, Outcomes
  <2> QED
    BY <1>7, <2>1, <2>2, <2>3, <2>4 DEF SaveMode
<1>8. ASSUME NEW f \in Fermenters, NEW o \in Overrides \cup {"none"}, SetOverride(f, o) PROVE TypeOK'
  BY <1>8 DEF SetOverride
<1>9. ASSUME NEW b \in Bodies, PostSettings(b) PROVE TypeOK'
  BY <1>9 DEF PostSettings
<1>10. ASSUME NEW p \in posted, SaveSetting(p) PROVE TypeOK'
  <2>1. NextKey(p.left) \in Keys
    BY <1>10, NextKeyLeft DEF SaveSetting
  <2>2. \A k \in Keys : p.body[k] \in Int
    BY <1>10
  <2>3. /\ settings' \in [Keys -> Int]
        /\ \A q \in posted' : q.body \in Bodies /\ q.left \subseteq Keys
        /\ halted' \in BOOLEAN
    <3> DEFINE k == NextKey(p.left)
    <3>1. CASE settings' = [settings EXCEPT ![k] = p.body[k]]
                 /\ posted' = (posted \ {p}) \cup
                                {[body |-> p.body, left |-> p.left \ {k}]}
                 /\ UNCHANGED halted
      BY <1>10, <2>1, <2>2, <3>1
    <3>2. CASE posted' = posted \ {p} /\ halted' = TRUE /\ UNCHANGED settings
      BY <1>10, <3>2
    <3> QED
      BY <1>10, <3>1, <3>2 DEF SaveSetting
  <2> QED
    BY <1>10, <2>3 DEF SaveSetting
<1>11. ASSUME NEW p \in posted, ApplySettings(p) PROVE TypeOK'
  <2>1. \A k \in Keys : Accepts(k, p.body[k]) => p.body[k] \in Nat
    BY <1>11 DEF Accepts
  <2>2. live' \in [Keys -> Nat]
    BY <1>11, <2>1 DEF ApplySettings
  <2> QED
    BY <1>11, <2>2 DEF ApplySettings
<1>12. CASE Crash
  BY <1>12 DEF Crash
<1>13. CASE UNCHANGED vars
  BY <1>13 DEF vars
<1> QED
  BY <1>1, <1>2, <1>3, <1>4, <1>5, <1>6, <1>7, <1>8, <1>9, <1>10, <1>11, <1>12, <1>13 DEF Next, Request

\* Every step keeps what is saved and what may be expected together.
LEMMA NextExpected == Inv /\ [Next]_vars => NothingPending' /\ ModesExpected'
<1> SUFFICES ASSUME Inv, [Next]_vars PROVE NothingPending' /\ ModesExpected'
    OBVIOUS
<1> USE ConfigAssumption
    DEF Inv, TypeOK, NothingPending, ModesExpected, SavedMode, Running, memory, tables,
        inflight, history
<1>1. CASE Resume
  BY <1>1 DEF Resume
<1>2. CASE InitialSnapshot
  <2>1. ASSUME NEW g \in Fermenters PROVE SavedMode(g)' \in expected'[g]
    <3>1. rows'[g] = RowOf(g) \/ rows'[g] = rows[g]
      BY <1>2 DEF InitialSnapshot
    <3> QED
      BY <1>2, <3>1, RowType DEF InitialSnapshot
  <2> QED
    BY <1>2, <2>1 DEF InitialSnapshot
<1>3. CASE ResumeSettings
  BY <1>3 DEF ResumeSettings
<1>4. ASSUME NEW f \in Fermenters, Snapshot(f) PROVE NothingPending' /\ ModesExpected'
  <2>1. ASSUME NEW g \in Fermenters PROVE SavedMode(g)' \in expected'[g]
    <3>1. rows'[g] = IF g = f THEN RowOf(g) ELSE rows[g]
      BY <1>4 DEF Snapshot
    <3> QED
      BY <1>4, <3>1, RowType DEF Snapshot
  <2> QED
    BY <1>4, <2>1 DEF Snapshot
<1>5. ASSUME NEW f \in Fermenters, NEW t \in Targets, SetTarget(f, t) PROVE NothingPending' /\ ModesExpected'
  <2>1. ASSUME NEW g \in Fermenters
        PROVE  SavedMode(g)' \in expected'[g] /\ expected[g] \subseteq expected'[g]
    <3>1. CASE SaveTarget(f, t)
      BY <1>5, <3>1, SaveTargetRow, NoRowMode DEF SetTarget
    <3>2. CASE UNCHANGED rows
      BY <1>5, <3>2 DEF SetTarget
    <3> QED
      BY <1>5, <3>1, <3>2 DEF SetTarget
  <2> QED
    BY <1>5, <2>1 DEF SetTarget
<1>6. ASSUME NEW f \in Fermenters, NEW m \in Modes, SetMode(f, m) PROVE NothingPending' /\ ModesExpected'
  BY <1>6 DEF SetMode
<1>7. ASSUME NEW f \in Fermenters, NEW m \in Modes, SaveMode(f, m) PROVE NothingPending' /\ ModesExpected'
  <2>1. ASSUME NEW g \in Fermenters
        PROVE  /\ SavedMode(g)' \in expected'[g]
               /\ saving'[g] \subseteq expected'[g]
               /\ Mode'[g] \in expected'[g]
    <3>1. CASE g = f
      <4>1. CASE UpsertMode(f, m)
        BY <1>7, <3>1, <4>1, UpsertModeRow DEF SaveMode
      <4>2. CASE UNCHANGED <<rows, expected>>
        BY <1>7, <3>1, <4>2 DEF SaveMode
      <4> QED
        BY <1>7, <4>1, <4>2 DEF SaveMode
    <3>2. CASE g # f
      <4>1. rows'[g] = rows[g]
        BY <1>7, <3>2, UpsertModeRow DEF SaveMode
      <4> QED
        BY <1>7, <3>2, <4>1 DEF SaveMode
    <3> QED
      BY <3>1, <3>2
  <2> QED
    BY <1>7, <2>1 DEF SaveMode
<1>8. ASSUME NEW f \in Fermenters, NEW o \in Overrides \cup {"none"}, SetOverride(f, o) PROVE NothingPending' /\ ModesExpected'
  BY <1>8 DEF SetOverride
<1>9. ASSUME NEW b \in Bodies, PostSettings(b) PROVE NothingPending' /\ ModesExpected'
  BY <1>9 DEF PostSettings
<1>10. ASSUME NEW p \in posted, SaveSetting(p) PROVE NothingPending' /\ ModesExpected'
  BY <1>10 DEF SaveSetting
<1>11. ASSUME NEW p \in posted, ApplySettings(p) PROVE NothingPending' /\ ModesExpected'
  BY <1>11 DEF ApplySettings
<1>12. CASE Crash
  BY <1>12 DEF Crash
<1>13. CASE UNCHANGED vars
  BY <1>13 DEF vars
<1> QED
  BY <1>1, <1>2, <1>3, <1>4, <1>5, <1>6, <1>7, <1>8, <1>9, <1>10, <1>11, <1>12, <1>13 DEF Next, Request

\* Every step keeps the rows with the state, but for those that are behind.
LEMMA NextFollow == Inv /\ [Next]_vars => RowsFollow'
<1> SUFFICES ASSUME Inv, [Next]_vars PROVE RowsFollow'
    OBVIOUS
<1> USE DEF Inv, TypeOK, RowsFollow, Running, memory, tables, inflight, history
<1>1. CASE Resume
  BY <1>1 DEF Resume
<1>2. CASE InitialSnapshot
  <2>1. ASSUME NEW g \in Fermenters, ~behind'[g] PROVE rows'[g] = RowOf(g)
    BY <1>2, <2>1 DEF InitialSnapshot
  <2> QED
    BY <1>2, <2>1, RowType DEF InitialSnapshot
<1>3. CASE ResumeSettings
  BY <1>3 DEF ResumeSettings
<1>4. ASSUME NEW f \in Fermenters, Snapshot(f) PROVE RowsFollow'
  BY <1>4, RowType DEF Snapshot
<1>5. ASSUME NEW f \in Fermenters, NEW t \in Targets, SetTarget(f, t) PROVE RowsFollow'
  <2>1. ASSUME NEW g \in Fermenters, ~behind'[g]
        PROVE  /\ rows'[g].target = TargetC'[g]
               /\ saving'[g] = {} => rows'[g].mode = Mode'[g]
    <3>1. CASE g = f
      <4>1. SaveTarget(f, t) /\ ~behind[f] /\ t \in Int
        BY <1>5, <2>1, <3>1, ConfigAssumption DEF SetTarget, Outcomes
      <4> QED
        BY <1>5, <3>1, <4>1, SaveTargetRow, NoRowMode DEF SetTarget, ModeNames
    <3>2. CASE g # f
      <4>1. rows'[g] = rows[g]
        BY <1>5, <3>2, ConfigAssumption, SaveTargetRow DEF SetTarget
      <4> QED
        BY <1>5, <2>1, <3>2, <4>1 DEF SetTarget
    <3> QED
      BY <3>1, <3>2
  <2> QED
    BY <2>1
<1>6. ASSUME NEW f \in Fermenters, NEW m \in Modes, SetMode(f, m) PROVE RowsFollow'
  BY <1>6 DEF SetMode
<1>7. ASSUME NEW f \in Fermenters, NEW m \in Modes, SaveMode(f, m) PROVE RowsFollow'
  <2>1. ASSUME NEW g \in Fermenters, ~behind'[g]
        PROVE  /\ rows'[g].target = TargetC'[g]
               /\ saving'[g] = {} => rows'[g].mode = Mode'[g]
    <3>1. CASE g = f
      <4>1. UpsertMode(f, m) /\ ~behind[f] /\ m = Mode[f]
        BY <1>7, <2>1, <3>1 DEF SaveMode, Outcomes
      <4> QED
        BY <1>7, <3>1, <4>1, UpsertModeRow DEF SaveMode
    <3>2. CASE g # f
      <4>1. rows'[g] = rows[g] /\ ~behind[g]
        BY <1>7, <2>1, <3>2, ConfigAssumption, UpsertModeRow DEF SaveMode, ModeNames
      <4> QED
        BY <1>7, <3>2, <4>1 DEF SaveMode
    <3> QED
      BY <3>1, <3>2
  <2> QED
    BY <2>1
<1>8. ASSUME NEW f \in Fermenters, NEW o \in Overrides \cup {"none"}, SetOverride(f, o) PROVE RowsFollow'
  BY <1>8 DEF SetOverride
<1>9. ASSUME NEW b \in Bodies, PostSettings(b) PROVE RowsFollow'
  BY <1>9 DEF PostSettings
<1>10. ASSUME NEW p \in posted, SaveSetting(p) PROVE RowsFollow'
  BY <1>10 DEF SaveSetting
<1>11. ASSUME NEW p \in posted, ApplySettings(p) PROVE RowsFollow'
  BY <1>11 DEF ApplySettings
<1>12. CASE Crash
  BY <1>12 DEF Crash
<1>13. CASE UNCHANGED vars
  BY <1>13 DEF vars
<1> QED
  BY <1>1, <1>2, <1>3, <1>4, <1>5, <1>6, <1>7, <1>8, <1>9, <1>10, <1>11, <1>12, <1>13 DEF Next, Request

\* The invariant is inductive.
LEMMA NextInv == Inv /\ [Next]_vars => Inv'
BY NextType, NextExpected, NextFollow DEF Inv

\* In every state the rows, the modes and the settings are well formed: what was
\* posted and is not acceptable (controller.go:434) never comes into force, not
\* by way of the database and a restart either.
THEOREM TypeCorrect == Spec => []TypeOK
<1>1. Inv => TypeOK
  BY DEF Inv
<1> QED
  BY <1>1, InitInv, NextInv, PTL DEF Spec

\* What was answered and saved is in the database, through any number of requests,
\* snapshots (sqlite.go:168) and crashes.
THEOREM AnsweredIsSavedCorrect == Spec => []AnsweredIsSaved
<1>1. Inv => AnsweredIsSaved
  BY DEF Inv, RowsFollow, AnsweredIsSaved, Running
<1> QED
  BY <1>1, InitInv, NextInv, PTL DEF Spec

-----------------------------------------------------------------------------
(* The modes implement DurableRegister.                                    *)

\* The initial state is one of DurableRegister.
LEMMA InitRegisters == Init => Registers!Init
BY DEF Init, Registers!Init, Running

\* The save of a mode is the answer to its request, or changes nothing.
LEMMA SaveModeRegisters ==
    ASSUME Inv, NEW f \in Fermenters, NEW m \in Modes, SaveMode(f, m)
    PROVE  Registers!Settle(f) \/ UNCHANGED Registers!registers
<1> DEFINE kept == {m, Mode[f]} \cup saving[f]
<1>1. kept \in SUBSET expected[f] /\ Mode[f] \in kept
  BY DEF SaveMode, Inv, ModesExpected, Running
<1>2. UNCHANGED <<phase, Mode>> /\ Running
  BY DEF SaveMode, memory
<1>3. CASE expected' = [expected EXCEPT ![f] = kept]
  BY <1>1, <1>2, <1>3 DEF Registers!Settle, Running
<1>4. CASE UNCHANGED expected
  BY <1>2, <1>4 DEF Registers!registers, Running
<1> QED
  BY <1>3, <1>4 DEF SaveMode

\* Before the process serves requests, the modes that may be expected stay, but
\* for a row that cannot be read.
LEMMA PrepareRegisters ==
    ASSUME Inv, ~Running, ~Running',
           Resume \/ UNCHANGED expected
    PROVE  Registers!Prepare
<1>1. expected \in [Fermenters -> SUBSET ModeNames]
  BY DEF Inv, TypeOK
<1>2. CASE Resume
  <2>1. PICK read \in Reached(Fermenters) :
          expected' = [f \in Fermenters |->
                        IF f \in read THEN expected[f]
                        ELSE expected[f] \cup {"fixed"}]
    BY <1>2 DEF Resume
  <2>2. expected' \in [Fermenters -> SUBSET ModeNames]
    BY <1>1, <2>1 DEF ModeNames
  <2>3. ASSUME NEW f \in Fermenters
        PROVE  /\ expected[f] \subseteq expected'[f]
               /\ expected'[f] \subseteq expected[f] \cup {"profile", "fixed"}
    BY <2>1
  <2> QED
    BY <2>2, <2>3 DEF Registers!Prepare
<1>3. CASE UNCHANGED expected
  BY <1>1, <1>3 DEF Registers!Prepare
<1> QED
  BY <1>2, <1>3

\* Every step is a step of DurableRegister or changes nothing it has.
LEMMA NextRegisters == Inv /\ [Next]_vars => [Registers!Next]_(Registers!registers)
<1> SUFFICES ASSUME Inv, [Next]_vars
             PROVE  Registers!Next \/ UNCHANGED Registers!registers
    OBVIOUS
<1> USE DEF memory, tables, inflight, history, Running
<1>1. CASE Resume \/ InitialSnapshot
  <2>1. ~Running /\ ~Running' /\ (Resume \/ UNCHANGED expected)
    BY <1>1 DEF Resume, InitialSnapshot
  <2> QED
    BY <2>1, PrepareRegisters DEF Registers!Next
<1>2. CASE ResumeSettings
  BY <1>2 DEF ResumeSettings, Inv, ModesExpected, Registers!Next, Registers!Resume
<1>3. ASSUME NEW f \in Fermenters, NEW t \in Targets, SetTarget(f, t)
      PROVE  Registers!Next \/ UNCHANGED Registers!registers
  <2>1. CASE expected' = [expected EXCEPT ![f] = @ \cup {"profile"}]
    <3>1. Registers!FallBack(f)
      BY <1>3, <2>1 DEF SetTarget, Registers!FallBack, Registers!Promise
    <3> QED
      BY <3>1 DEF Registers!Next
  <2>2. CASE UNCHANGED expected
    BY <1>3, <2>2 DEF SetTarget, Registers!registers
  <2> QED
    BY <1>3, <2>1, <2>2 DEF SetTarget
<1>4. ASSUME NEW f \in Fermenters, NEW m \in Modes, SetMode(f, m)
      PROVE  Registers!Next
  <2>1. Registers!Write(f, m) /\ m \in ModeNames
    BY <1>4, ConfigAssumption DEF SetMode, Registers!Write, Registers!Promise, ModeNames
  <2> QED
    BY <2>1 DEF Registers!Next
<1>5. ASSUME NEW f \in Fermenters, NEW m \in Modes, SaveMode(f, m)
      PROVE  Registers!Next \/ UNCHANGED Registers!registers
  BY <1>5, SaveModeRegisters DEF Registers!Next
<1>6. CASE Crash
  <2>1. ~Running' /\ UNCHANGED expected
    BY <1>6 DEF Crash
  <2>2. CASE Running
    BY <2>1, <2>2 DEF Registers!Next, Registers!Crash
  <2>3. CASE ~Running
    BY <2>1, <2>3, PrepareRegisters DEF Registers!Next
  <2> QED
    BY <2>2, <2>3
<1>7. ASSUME NEW f \in Fermenters, NEW o \in Overrides \cup {"none"},
             Snapshot(f) \/ SetOverride(f, o)
      PROVE  UNCHANGED Registers!registers
  BY <1>7 DEF Snapshot, SetOverride, Registers!registers
<1>8. ASSUME NEW b \in Bodies, PostSettings(b)
      PROVE  UNCHANGED Registers!registers
  BY <1>8 DEF PostSettings, Registers!registers
<1>9. ASSUME NEW p \in posted, SaveSetting(p) \/ ApplySettings(p)
      PROVE  UNCHANGED Registers!registers
  BY <1>9 DEF SaveSetting, ApplySettings, Registers!registers
<1>10. CASE UNCHANGED vars
  BY <1>10 DEF vars, Registers!registers
<1> QED
  BY <1>1, <1>2, <1>3, <1>4, <1>5, <1>6, <1>7, <1>8, <1>9, <1>10 DEF Next, Request

\* The modes (mode.go:60, sqlite.go:409) are durable registers, for any fermenters
\* and any number of requests at once: after a crash at any point a start finds
\* the mode answered last or one requested since.
THEOREM ModeIsDurableCorrect == Spec => ModeIsDurable
BY InitInv, NextInv, InitRegisters, NextRegisters, PTL
DEF Spec, ModeIsDurable, Registers!Spec

-----------------------------------------------------------------------------
(* The settings, when requests come one at a time.                         *)

\* Every step keeps what SettingsFollow says.
LEMMA NextSettings ==
    ASSUME MaxPosts <= 1, Inv, SettingsFollow, [Next]_vars
    PROVE  SettingsFollow'
<1> USE ConfigAssumption DEF SettingsFollow, Running, memory, tables, inflight, history
<1>1. CASE Resume \/ InitialSnapshot
  BY <1>1 DEF Resume, InitialSnapshot
<1>2. CASE ResumeSettings
  BY <1>2 DEF ResumeSettings, Inv, NothingPending
<1>3. ASSUME NEW f \in Fermenters, Snapshot(f) \/ Request(f)
      PROVE  SettingsFollow'
  <2>1. UNCHANGED <<phase, live, settings, posted, halted>>
    BY <1>3 DEF Snapshot, Request, SetTarget, SetMode, SaveMode, SetOverride
  <2> QED
    BY <2>1
<1>4. ASSUME NEW b \in Bodies, PostSettings(b)
      PROVE  SettingsFollow'
  <2>1. posted = {}
    <3>1. \A p : posted = {p} => Cardinality(posted) = 1
      BY FS_Singleton
    <3> QED
      BY <1>4, <3>1 DEF PostSettings
  <2> DEFINE request == [body |-> b, left |-> Keys]
  <2>2. posted' = {request} /\ UNCHANGED <<phase, live, settings, halted>>
    BY <1>4, <2>1 DEF PostSettings
  <2> QED
    BY <2>1, <2>2
<1>5. ASSUME NEW p \in posted, SaveSetting(p)
      PROVE  SettingsFollow'
  <2> DEFINE k == NextKey(p.left)
             saved == [body |-> p.body, left |-> p.left \ {k}]
  <2>1. posted = {p}
    BY <1>5
  <2>2. CASE posted' = posted \ {p} /\ halted' = TRUE
    BY <1>5, <2>1, <2>2 DEF SaveSetting
  <2>3. CASE /\ settings' = [settings EXCEPT ![k] = p.body[k]]
             /\ posted' = (posted \ {p}) \cup {saved}
             /\ UNCHANGED halted
    <3>1. k \in Keys
      BY <1>5, NextKeyLeft DEF SaveSetting, Inv, TypeOK
    <3>2. posted' = {saved} /\ saved.left = p.left \ {k} /\ saved.body = p.body
      BY <2>1, <2>3
    <3>3. settings \in [Keys -> Int] /\ UNCHANGED <<phase, live>>
      BY <1>5 DEF SaveSetting, Inv, TypeOK
    <3> HIDE DEF k, saved
    <3>4. \A j \in Keys : j \notin saved.left => settings'[j] = saved.body[j]
      BY <2>1, <2>3, <3>1, <3>2, <3>3
    <3>5. ASSUME Running, ~halted, NEW j \in Keys, settings'[j] > 0
          PROVE  live[j] = settings'[j] \/ j \notin saved.left
      BY <2>1, <2>3, <3>1, <3>2, <3>3, <3>5
    <3> QED
      BY <2>3, <3>2, <3>3, <3>4, <3>5
  <2> QED
    BY <1>5, <2>2, <2>3 DEF SaveSetting
<1>6. ASSUME NEW p \in posted, ApplySettings(p)
      PROVE  SettingsFollow'
  <2>1. posted = {p} /\ posted' = {} /\ UNCHANGED settings
    BY <1>6 DEF ApplySettings
  <2>2. \A k \in Keys : settings[k] = p.body[k]
    BY <1>6 DEF ApplySettings
  <2>3. \A k \in Keys : p.body[k] > 0 => live'[k] = p.body[k]
    <3>1. ASSUME NEW k \in Keys, p.body[k] > 0 PROVE Accepts(k, p.body[k])
      BY <3>1 DEF Accepts, Inv, TypeOK
    <3> QED
      BY <1>6, <3>1 DEF ApplySettings
  <2> QED
    BY <2>1, <2>2, <2>3
<1>7. CASE Crash
  BY <1>7 DEF Crash
<1>8. CASE UNCHANGED vars
  BY <1>8 DEF vars
<1> QED
  BY <1>1, <1>2, <1>3, <1>4, <1>5, <1>6, <1>7, <1>8 DEF Next

\* While settings are posted one at a time (settings.go:42, 49), those that are
\* positive in the database are those in force, whatever the bodies, crashes and
\* failures: a request cut short between two keys is made whole by the start.
THEOREM SettingsAgreeCorrect == MaxPosts <= 1 => (Spec => []SettingsAgree)
<1> SUFFICES ASSUME MaxPosts <= 1 PROVE Spec => []SettingsAgree
    OBVIOUS
<1>1. Inv /\ SettingsFollow /\ [Next]_vars => (Inv /\ SettingsFollow)'
  BY NextInv, NextSettings
<1>2. SettingsFollow => SettingsAgree
  BY DEF SettingsFollow, SettingsAgree
<1> QED
  BY <1>1, <1>2, InitInv, PTL DEF Spec
=============================================================================
