---------------------------- MODULE Persistence -----------------------------
(***************************************************************************)
(* What of the runtime's state survives its end: the table fermenter_state *)
(* and the settings of internal/store/sqlite.go, the handlers that write   *)
(* them, the periodic snapshot, and the resume at the start of             *)
(* cmd/fermenter/main.go.                                                  *)
(*                                                                         *)
(* A handler changes the live state and the database in separate steps,    *)
(* and the process may die between any two of them.  Snapshot holds the    *)
(* mutex over all rows; rows of different fermenters do not depend on each *)
(* other, so it is written here one row at a time.                         *)
(***************************************************************************)
EXTENDS Integers, FiniteSets

CONSTANTS
    Fermenters,
    ConfigTarget,    \* target_c of the configuration
    Targets,         \* targets set by hand or by a profile
    Modes,           \* modes the API is called with
    Overrides,       \* states an indefinite override may have
    ConfigSettings,  \* the control section of the configuration
    Bodies,          \* bodies of POST /settings
    MaxModes,        \* bound on the mode requests under way for a fermenter
    MaxPosts,        \* bound on the settings requests under way
    StoreMayFail     \* TRUE: a statement may fail on a busy database

Keys == {"band_c", "min_change_s", "max_open"}

\* No value in the table; a negative one counts as none.
Absent == -1

ASSUME ConfigAssumption ==
    /\ ConfigTarget \in Int
    /\ Targets \subseteq Int
    /\ Modes \subseteq {"fixed", "profile", "valve"}
    /\ Overrides \subseteq {"open", "closed"}
    /\ ConfigSettings \in [Keys -> Nat]
    /\ Bodies \subseteq [Keys -> Int]
    /\ MaxModes \in Nat
    /\ MaxPosts \in Nat
    /\ StoreMayFail \in BOOLEAN

VARIABLES
    phase,     \* how far main has come
    TargetC, Mode, Override,  \* live state of each fermenter
    live,      \* live controller settings
    rows,      \* the table fermenter_state
    settings,  \* the table settings
    saving,    \* modes set live and still to be saved, per fermenter
    posted,    \* settings requests under way: the body, and the keys left
    expected,  \* history: the modes a client may expect: that of the request
               \* answered last, those requested since, and what a start that
               \* could not read the row fell back to
    behind,    \* history: a save of the row failed, or was overtaken by that
               \* of another request, since the last snapshot of it
    halted     \* history: the last settings request, or the last start, failed
               \* at one of the keys

vars == <<phase, TargetC, Mode, Override, live, rows, settings, saving, posted,
          expected, behind, halted>>
memory == <<TargetC, Mode, Override, live>>
tables == <<rows, settings>>
inflight == <<saving, posted, expected>>
history == <<behind, halted>>

ModeNames == {"fixed", "profile", "valve"}
RowSet == [target : Int, mode : ModeNames,
           override : {"none", "open", "closed"}]
NoRow  == [target |-> 0, mode |-> "none", override |-> "none"]

Init ==
    /\ phase = "down"
    /\ TargetC = [f \in Fermenters |-> ConfigTarget]
    /\ Mode = [f \in Fermenters |-> "fixed"]
    /\ Override = [f \in Fermenters |-> "none"]
    /\ live = ConfigSettings
    /\ rows = [f \in Fermenters |-> NoRow]
    /\ settings = [k \in Keys |-> Absent]
    /\ saving = [f \in Fermenters |-> {}]
    /\ posted = {}
    /\ expected = [f \in Fermenters |-> {"fixed"}]
    /\ behind = [f \in Fermenters |-> FALSE]
    /\ halted = FALSE

Running == phase = "running"
Outcomes == IF StoreMayFail THEN BOOLEAN ELSE {TRUE}

-----------------------------------------------------------------------------
(* The start of main.                                                      *)

\* A boot that ignores the saved modes.
ResumeNoMode ==
    /\ phase = "down"
    /\ phase' = "resumed"
    /\ UNCHANGED <<memory, tables, inflight, history>>

\* What one of several reads or writes that may each fail has reached.
Reached(all) == IF StoreMayFail THEN SUBSET all ELSE {all}

\* NewState, ApplySavedTargets and ApplySavedModes.  ApplySavedTargets scans
\* its result before it calls Next: the scan fails and nothing is applied.
\* A query that fails is logged and a row that cannot be read is passed over,
\* and the start goes on with the mode of the configuration.
Resume ==
    /\ phase = "down"
    /\ phase' = "resumed"
    /\ \E read \in Reached(Fermenters) :
         /\ Mode' = [f \in Fermenters |->
                       IF f \in read /\ rows[f] # NoRow THEN rows[f].mode
                       ELSE "fixed"]
         /\ expected' = [f \in Fermenters |->
                           IF f \in read THEN expected[f]
                           ELSE expected[f] \cup {"fixed"}]
    /\ UNCHANGED <<TargetC, Override, live, tables, saving, posted, history>>

\* The row that a snapshot of fermenter f writes.
RowWithoutMode(f) ==
    [target |-> TargetC[f], override |-> Override[f],
     mode |-> IF rows[f] = NoRow THEN Mode[f] ELSE rows[f].mode]
RowOf(f) ==
    [target |-> TargetC[f], mode |-> Mode[f], override |-> Override[f]]

\* The initial snapshot writes the configured targets over the saved ones.
InitialSnapshot ==
    /\ phase = "resumed"
    /\ phase' = "snapshot"
    /\ \E written \in Reached(Fermenters) :
         /\ rows' = [f \in Fermenters |->
                       IF f \in written THEN RowOf(f) ELSE rows[f]]
         /\ behind' = [f \in Fermenters |-> f \notin written]
    /\ UNCHANGED <<memory, settings, inflight, halted>>

\* A start that leaves the settings of the configuration in force.
KeepSettings ==
    /\ phase = "snapshot"
    /\ phase' = "running"
    /\ UNCHANGED <<memory, tables, inflight, history>>

\* A setting that is 0, negative or absent gives way to the configuration, and
\* so does one whose read fails.
ResumeSettings ==
    /\ phase = "snapshot"
    /\ phase' = "running"
    /\ \E read \in Reached(Keys) :
         /\ live' = [k \in Keys |-> IF k \in read /\ settings[k] > 0
                                    THEN settings[k] ELSE ConfigSettings[k]]
         /\ halted' = (read # Keys)
    /\ UNCHANGED <<TargetC, Mode, Override, tables, inflight, behind>>

-----------------------------------------------------------------------------
(* While the runtime serves requests.                                      *)

Snapshot(f) ==
    /\ Running
    /\ rows' = [rows EXCEPT ![f] = RowOf(f)]
    /\ behind' = [behind EXCEPT ![f] = FALSE]
    /\ UNCHANGED <<phase, memory, settings, inflight, halted>>

\* SaveTarget runs under the mutex, before SetTarget returns.  A row it has to
\* insert, after an initial snapshot that failed, gets the default mode of the
\* table, which is "profile": a start that finds it takes it for the mode.
SaveTarget(f, t) ==
    rows' = [rows EXCEPT ![f] =
               IF rows[f] = NoRow
               THEN [target |-> t, mode |-> "profile", override |-> "none"]
               ELSE [rows[f] EXCEPT !.target = t]]

SetTarget(f, t) ==
    /\ Running
    /\ TargetC' = [TargetC EXCEPT ![f] = t]
    /\ \E ok \in Outcomes :
         /\ IF ok THEN SaveTarget(f, t) ELSE UNCHANGED rows
         /\ behind' = [behind EXCEPT ![f] = @ \/ ~ok]
         /\ expected' = IF ok /\ rows[f] = NoRow
                        THEN [expected EXCEPT ![f] = @ \cup {"profile"}]
                        ELSE expected
    /\ UNCHANGED <<phase, Mode, Override, live, settings, saving, posted, halted>>

\* handleSetMode changes the live mode under the mutex...
SetMode(f, m) ==
    /\ Running
    /\ m \notin saving[f] /\ Cardinality(saving[f]) < MaxModes
    /\ Mode' = [Mode EXCEPT ![f] = m]
    /\ Override' = IF m # "valve" THEN [Override EXCEPT ![f] = "none"]
                   ELSE Override
    /\ saving' = [saving EXCEPT ![f] = @ \cup {m}]
    /\ expected' = [expected EXCEPT ![f] = @ \cup {m}]
    /\ UNCHANGED <<phase, TargetC, live, tables, posted, history>>

\* A statement without "mode=excluded.mode".
InsertMode(f, m) ==
    rows' = IF rows[f] = NoRow
            THEN [rows EXCEPT ![f] = [target |-> 0, mode |-> m,
                                      override |-> "none"]]
            ELSE rows
\* A row that SaveMode has to insert has target 0.
UpsertMode(f, m) ==
    rows' = [rows EXCEPT ![f] =
               IF rows[f] = NoRow
               THEN [target |-> 0, mode |-> m, override |-> "none"]
               ELSE [rows[f] EXCEPT !.mode = m]]

\* ... and saves it without, once; an error is ignored, the answer is the same.
SaveMode(f, m) ==
    /\ Running
    /\ m \in saving[f]
    /\ saving' = [saving EXCEPT ![f] = @ \ {m}]
    /\ \E ok \in Outcomes :
         /\ IF ok THEN UpsertMode(f, m) ELSE UNCHANGED rows
         /\ behind' = [behind EXCEPT ![f] = @ \/ ~ok \/ m # Mode[f]]
         /\ expected' = IF ok
                        THEN [expected EXCEPT ![f] = {m, Mode[f]} \cup saving[f]]
                        ELSE expected
    /\ UNCHANGED <<phase, memory, settings, posted, halted>>

SetOverride(f, o) ==
    /\ Running
    /\ Override' = [Override EXCEPT ![f] = o]
    /\ UNCHANGED <<phase, TargetC, Mode, live, tables, inflight, history>>

\* handleSetSettings saves the keys one after the other...
Order(k) == CASE k = "band_c" -> 1 [] k = "min_change_s" -> 2 [] OTHER -> 3
NextKey(left) == CHOOSE k \in left : \A j \in left : Order(k) <= Order(j)

PostSettings(b) ==
    /\ Running
    /\ Cardinality(posted) < MaxPosts
    /\ [body |-> b, left |-> Keys] \notin posted
    /\ posted' = posted \cup {[body |-> b, left |-> Keys]}
    /\ UNCHANGED <<phase, memory, tables, saving, expected, history>>

\* ... gives up at the first that fails ...
SaveSetting(p) ==
    /\ Running
    /\ p.left # {}
    /\ LET k == NextKey(p.left) IN
       \/ /\ settings' = [settings EXCEPT ![k] = p.body[k]]
          /\ posted' = (posted \ {p}) \cup
                         {[body |-> p.body, left |-> p.left \ {k}]}
          /\ UNCHANGED halted
       \/ /\ StoreMayFail
          /\ posted' = posted \ {p}
          /\ halted' = TRUE
          /\ UNCHANGED settings
    /\ UNCHANGED <<phase, memory, rows, saving, expected, behind>>

\* A handler that applies whatever it is sent.
AcceptsAll(k, v) == k \in Keys /\ v \in Int
Accepts(k, v) == IF k = "band_c" THEN v > 0 ELSE v >= 0

\* ... and then applies the values that are acceptable.
ApplySettings(p) ==
    /\ Running
    /\ p.left = {}
    /\ live' = [k \in Keys |-> IF Accepts(k, p.body[k]) THEN p.body[k] ELSE live[k]]
    /\ posted' = posted \ {p}
    /\ halted' = FALSE
    /\ UNCHANGED <<phase, TargetC, Mode, Override, tables, saving, expected, behind>>

\* The process ends, at any point of what it does.
Crash ==
    /\ phase # "down"
    /\ phase' = "down"
    /\ TargetC' = [f \in Fermenters |-> ConfigTarget]
    /\ Mode' = [f \in Fermenters |-> "fixed"]
    /\ Override' = [f \in Fermenters |-> "none"]
    /\ live' = ConfigSettings
    /\ saving' = [f \in Fermenters |-> {}]
    /\ posted' = {}
    /\ UNCHANGED <<tables, expected, history>>

-----------------------------------------------------------------------------
Request(f) ==
    \/ \E t \in Targets : SetTarget(f, t)
    \/ \E m \in Modes : SetMode(f, m) \/ SaveMode(f, m)
    \/ \E o \in Overrides \cup {"none"} : SetOverride(f, o)

Next ==
    \/ Resume
    \/ InitialSnapshot
    \/ ResumeSettings
    \/ \E f \in Fermenters : Snapshot(f) \/ Request(f)
    \/ \E b \in Bodies : PostSettings(b)
    \/ \E p \in posted : SaveSetting(p) \/ ApplySettings(p)
    \/ Crash

Spec == Init /\ [][Next]_vars

\* The snapshots go on, and the database is not busy every time.
FairSpec == Spec /\ \A f \in Fermenters : WF_vars(Snapshot(f))

-----------------------------------------------------------------------------
(* Properties that hold.                                                   *)

\* The type invariant.  Its part that could fail: the settings in force are
\* acceptable ones, whatever was posted, saved or lost.
TypeOK ==
    /\ phase \in {"down", "resumed", "snapshot", "running"}
    /\ TargetC \in [Fermenters -> Targets \cup {ConfigTarget}]
    /\ Mode \in [Fermenters -> ModeNames]
    /\ Override \in [Fermenters -> Overrides \cup {"none"}]
    /\ live \in [Keys -> Nat]
    /\ rows \in [Fermenters -> RowSet \cup {NoRow}]
    /\ settings \in [Keys -> Int]
    /\ saving \in [Fermenters -> SUBSET Modes]
    /\ \A p \in posted : p.body \in Bodies /\ p.left \subseteq Keys
    /\ expected \in [Fermenters -> SUBSET ModeNames]
    /\ behind \in [Fermenters -> BOOLEAN]
    /\ halted \in BOOLEAN

\* Once its request is answered, a mode is in the database, and so is a target
\* as soon as SetTarget returns, unless a save failed or was overtaken and no
\* snapshot has come since: through snapshots, crashes and resumes, and with the
\* insert of one statement and the update of the other.
AnsweredIsSaved ==
    Running => \A f \in Fermenters : ~behind[f] =>
      /\ rows[f].target = TargetC[f]
      /\ saving[f] = {} => rows[f].mode = Mode[f]

\* The modes of the fermenters are durable registers: the mode whose request was
\* answered and saved, or one requested since, is the mode in force after any
\* number of crashes, at every point of a request, a snapshot or a start.  Only two
\* failures bring in a mode nobody asked for: a start that cannot read the row
\* takes "fixed", and a target saved into an empty table makes it "profile".
Registers == INSTANCE DurableRegister WITH
    Names <- Fermenters, Values <- ModeNames, Initial <- "fixed",
    Defaults <- {"profile", "fixed"}, up <- Running, value <- Mode, promised <- expected
ModeIsDurable == Registers!Spec

\* A positive setting in the database is the one in force, unless a request is
\* being served, or the last one or the last start failed at one of the keys:
\* also when a crash cut a request short.
SettingsAgree ==
    Running /\ posted = {} /\ ~halted =>
      \A k \in Keys : settings[k] > 0 => live[k] = settings[k]

\* Two mode requests at once, or a save that fails, may leave another mode or
\* target in the database than the one in force.  It does not last.
Diverged(f) ==
    Running /\ (rows[f].mode # Mode[f] \/ rows[f].target # TargetC[f])
DivergenceHeals == \A f \in Fermenters : Diverged(f) ~> ~Diverged(f)

-----------------------------------------------------------------------------
(* What the repository says, and the code does not do.                     *)

\* main.go:54, "Resume saved targets on boot".
TargetResumed ==
    [][\A f \in Fermenters :
         phase = "down" /\ phase' = "resumed" /\ rows[f] # NoRow
           => TargetC'[f] = rows[f].target]_vars
=============================================================================
