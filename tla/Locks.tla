-------------------------------- MODULE Locks --------------------------------
(***************************************************************************)
(* Who holds which lock, and what the others wait for meanwhile: the       *)
(* goroutines of cmd/fermenter/main.go and the requests of internal/api    *)
(* with the mutexes they take and the statements they run.                 *)
(*                                                                         *)
(* The other modules take one hold of a mutex for one step.  Here each     *)
(* activity is the sequence of its locks, unlocks and statements, in the   *)
(* order of the code, and an activity with branches is a set of sequences. *)
(* A goroutine loops over its activity; a request begins one.  Activities  *)
(* that take no lock, and reads of the database, which in WAL mode block   *)
(* nobody, are left out.                                                   *)
(***************************************************************************)
EXTENDS Naturals, FiniteSets, SequencesExt

CONSTANTS
    Activities,     \* the activities in use, some of those `Bodies' names
    NumFermenters,  \* the fermenters of the configuration
    Attempts,       \* the 6 attempts of execRetry
    Workers         \* the goroutines that are at an activity at a time

ASSUME BoundsAssumption ==
    /\ NumFermenters \in Nat \ {0}
    /\ Attempts \in Nat \ {0}
    /\ "nobody" \notin Workers

VARIABLES
    doing,   \* the activity a worker is at, or "nothing"
    todo,    \* the steps it has left
    owner,   \* the worker that holds a lock, or "nobody"
    tried,   \* attempts at the statement it is at
    moment,  \* changes with every change of SystemState
    seen     \* history: the moments of the fermenters it has read

vars == <<doing, todo, owner, tried, moment, seen>>

\* SystemState.mu, Device.mu, alarm.Manager.mu, Hub.mu, Server.sessMu and
\* Server.prefsMu, and the one lock of SQLite: of any two writers one is busy.
Mutexes == {"state", "port", "alarms", "hub", "sessions", "prefs"}
AllLocks == Mutexes \cup {"sqlite"}

\* A moment is compared with those of one hold of the mutex, so few will do.
Moments == 0..2

-----------------------------------------------------------------------------
(* Steps, and how they are put together.                                   *)

Step(op, lock) == [op |-> op, on |-> lock, times |-> 0, fatal |-> FALSE]
Look   == Step("look", "state")
Change == Step("change", "state")

Under(mutex, steps) == <<Step("lock", mutex)>> \o steps \o <<Step("unlock", mutex)>>

\* The steps for each fermenter in turn, in the order of SystemState.FV.
ForEach(steps) == FlattenSeq([i \in 1..NumFermenters |-> steps])

\* A statement that is a transaction of its own.  It is given up when it finds
\* the database busy `times' times, and the activity with it if that is fatal.
Statement(times, fatal) ==
    <<[Step("try", "sqlite") EXCEPT !.times = times, !.fatal = fatal],
      Step("unlock", "sqlite")>>
Exec == Statement(1, FALSE)
execRetry == Statement(Attempts, FALSE)

-----------------------------------------------------------------------------
(* The goroutines.                                                         *)

\* drv.SetValve and the pings: one line is written to the port.
Send == Under("port", <<>>)

\* A tick that changes nothing at the device, and one that sends a command.
ControllerTickLeaky ==
    {Under("state", <<Change>>),
     Under("state", <<Change>>) \o Send \o <<Step("lock", "state"), Change>>}
ControllerTickUnlocked ==
    {Under("state", <<Change>>),
     Under("state", <<Change>>) \o Send \o <<Change, Step("unlock", "state")>>}
ControllerTick ==
    {Under("state", <<Change>>),
     Under("state", <<Change>>) \o Send \o Under("state", <<Change>>)}

UpdateBeerTemp == {Under("state", <<Change>>)}

\* The sweep holds the mutex over the writes to the port; its event does not.
WatchdogTick == {Under("state", ForEach(Send \o <<Change>>)) \o execRetry}

\* The rows are written with the mutex held.
Snapshot == {Under("state", ForEach(<<Look>> \o execRetry))}

\* One transaction, with one statement for each row and none tried again.
InsertRow == <<Look, Step("insert", "sqlite")>>
Commit == <<Step("commit", "sqlite")>>
InsertSamplesImmediate ==
    {Under("sqlite", Under("state", ForEach(InsertRow)))}
InsertSamplesByRow == {ForEach(Under("state", InsertRow)) \o Commit}
\* A transaction that cannot be begun or prepared reads and writes nothing.
InsertSamples == {<<>>, Under("state", ForEach(InsertRow)) \o Commit}

PruneSamples == {Exec}

\* The fermenters are read, and the events written with the mutex of the alarms
\* held.
Evaluate ==
    {Under("state", ForEach(<<Look>>)) \o Under("alarms", events) :
       events \in {<<>>, execRetry, ForEach(execRetry)}}

\* SetTarget calls OnTargetChange, and so SaveTarget, with the mutex held.
SetTarget == Under("state", <<Change>> \o execRetry)

\* The profile scheduler at one of its fermenters.
SchedulerVisit == {SetTarget, Exec, SetTarget \o Exec}

Export == Under("state", ForEach(<<Look>>))
BroadcastTick == {Export \o Under("hub", <<>>)}

-----------------------------------------------------------------------------
(* The requests.                                                           *)

\* requireAuth looks the session up, unless there is no PIN.
validSession == Under("sessions", <<>>)
Authorized(bodies) == bodies \cup {validSession \o body : body \in bodies}

\* Logging in or out; the status looks at a valid session twice.
handleAuth == {validSession, validSession \o validSession}

\* A stream is added to the clients, and taken out at its end.
ServeHTTP == {Under("hub", <<>>)}

handleSetTarget == Authorized({SetTarget})

handleSetMode ==
    Authorized({Under("state", <<Change>>) \o Exec \o target \o execRetry :
                  target \in {<<>>, SetTarget}})

\* Setting an override, and clearing it.
handleSetValveOverride == Authorized({Under("state", <<Change>>) \o execRetry})

\* Each key that cannot be saved ends the request.
handleSetSettings ==
    LET setSetting == Statement(Attempts, TRUE)
    IN  Authorized({setSetting \o setSetting \o setSetting
                    \o Under("state", <<Change>>) \o execRetry})

\* Assigning a profile from the target in force; and the other requests of
\* profile.go that write.
ProfileRequest == Authorized({Under("state", <<Look>>) \o Exec, Exec})

\* Reading the state, the mode, and the settings where the database has none.
handleState == {Export, Under("state", <<Look>>)}

handleGetAlarm == {Under("alarms", <<>>)}

\* RLock and Lock: the model lets one reader in at a time.
handlePrefs == Authorized({Under("prefs", <<>>)})

Bodies ==
    [ControllerTick |-> ControllerTick, UpdateBeerTemp |-> UpdateBeerTemp,
     PingTick |-> {Send}, WatchdogTick |-> WatchdogTick, Snapshot |-> Snapshot,
     InsertSamples |-> InsertSamples, PruneSamples |-> PruneSamples,
     Evaluate |-> Evaluate, SchedulerVisit |-> SchedulerVisit,
     BroadcastTick |-> BroadcastTick,
     handleAuth |-> handleAuth, ServeHTTP |-> ServeHTTP,
     handleSetTarget |-> handleSetTarget, handleSetMode |-> handleSetMode,
     handleSetValveOverride |-> handleSetValveOverride,
     handleSetSettings |-> handleSetSettings, ProfileRequest |-> ProfileRequest,
     handleState |-> handleState, handleGetAlarm |-> handleGetAlarm,
     handlePrefs |-> handlePrefs]

\* Only activities of the program are in use.
ASSUME ActivitiesAssumption == Activities \subseteq DOMAIN Bodies

Single ==
    {"UpdateBeerTemp", "PingTick", "WatchdogTick", "Snapshot", "InsertSamples",
     "PruneSamples", "Evaluate", "SchedulerVisit", "BroadcastTick"}

-----------------------------------------------------------------------------
(* How they run.                                                           *)

Idle(w) == doing[w] = "nothing"
At(w, op) == todo[w] # <<>> /\ Head(todo[w]).op = op
On(w) == Head(todo[w]).on

GoOn(w) == todo' = [todo EXCEPT ![w] = Tail(@)]
Hold(w) == owner' = [owner EXCEPT ![On(w)] = w]
Release(w) == owner' = [owner EXCEPT ![On(w)] = "nobody"]

Init ==
    /\ doing = [w \in Workers |-> "nothing"]
    /\ todo = [w \in Workers |-> <<>>]
    /\ owner = [l \in AllLocks |-> "nobody"]
    /\ tried = [w \in Workers |-> 0]
    /\ moment = 0
    /\ seen = [w \in Workers |-> {}]

\* A goroutine of its own is at its loop once; controllers and requests are many.
Begin(w) ==
    /\ Idle(w)
    /\ \E a \in Activities :
         /\ a \in Single => \A v \in Workers : doing[v] # a
         /\ doing' = [doing EXCEPT ![w] = a]
         /\ \E body \in Bodies[a] : todo' = [todo EXCEPT ![w] = body]
    /\ UNCHANGED <<owner, tried, moment, seen>>

Lock(w) ==
    /\ At(w, "lock")
    /\ owner[On(w)] = "nobody"
    /\ Hold(w)
    /\ GoOn(w)
    /\ UNCHANGED <<doing, tried, moment, seen>>

Unlock(w) ==
    /\ At(w, "unlock")
    /\ Release(w)
    /\ GoOn(w)
    /\ UNCHANGED <<doing, tried, moment, seen>>

\* A statement begins...
Try(w) ==
    /\ At(w, "try")
    /\ owner[On(w)] = "nobody"
    /\ Hold(w)
    /\ GoOn(w)
    /\ tried' = [tried EXCEPT ![w] = 0]
    /\ UNCHANGED <<doing, moment, seen>>

\* ... or finds the database busy: it is tried again, or given up.
FindBusy(w) ==
    /\ At(w, "try")
    /\ owner[On(w)] # "nobody"
    /\ LET step == Head(todo[w]) IN
       IF tried[w] + 1 < step.times
       THEN /\ tried' = [tried EXCEPT ![w] = @ + 1]
            /\ UNCHANGED todo
       ELSE /\ tried' = [tried EXCEPT ![w] = 0]
            /\ todo' = [todo EXCEPT ![w] = IF step.fatal THEN <<>>
                                            ELSE Tail(Tail(@))]
    /\ UNCHANGED <<doing, owner, moment, seen>>

\* Inside a transaction, the first row that is written takes the lock, which is
\* kept.  A row that finds the database busy is missing in the end, and those
\* after it may be: what the transaction has read may be out of date by then.
Insert(w) ==
    /\ At(w, "insert")
    /\ \/ owner[On(w)] \in {"nobody", w} /\ Hold(w) /\ UNCHANGED tried
       \/ /\ owner[On(w)] # w
          /\ owner[On(w)] # "nobody" \/ tried[w] > 0
          /\ tried' = [tried EXCEPT ![w] = 1]
          /\ UNCHANGED owner
    /\ GoOn(w)
    /\ UNCHANGED <<doing, moment, seen>>

CommitRows(w) ==
    /\ At(w, "commit")
    /\ IF owner[On(w)] = w THEN Release(w) ELSE UNCHANGED owner
    /\ GoOn(w)
    /\ UNCHANGED <<doing, tried, moment, seen>>

ReadFermenter(w) ==
    /\ At(w, "look")
    /\ seen' = [seen EXCEPT ![w] = @ \cup {moment}]
    /\ GoOn(w)
    /\ UNCHANGED <<doing, owner, tried, moment>>

ChangeState(w) ==
    /\ At(w, "change")
    /\ moment' = (moment + 1) % Cardinality(Moments)
    /\ GoOn(w)
    /\ UNCHANGED <<doing, owner, tried, seen>>

Finish(w) ==
    /\ ~Idle(w) /\ todo[w] = <<>>
    /\ doing' = [doing EXCEPT ![w] = "nothing"]
    /\ tried' = [tried EXCEPT ![w] = 0]
    /\ seen' = [seen EXCEPT ![w] = {}]
    /\ UNCHANGED <<todo, owner, moment>>

Proceed(w) ==
    Lock(w) \/ Unlock(w) \/ Try(w) \/ FindBusy(w) \/ Insert(w) \/ CommitRows(w)
      \/ ReadFermenter(w) \/ ChangeState(w) \/ Finish(w)

Next == \E w \in Workers : Begin(w) \/ Proceed(w)

Spec == Init /\ [][Next]_vars

\* Nothing has to begin.  What has begun goes on, a write to the port returns,
\* and who waits for a mutex gets it though it is taken again and again: a mutex
\* of Go goes to the one that has waited longest after a millisecond.
FairSpec == Spec /\ \A w \in Workers : SF_vars(Proceed(w))

-----------------------------------------------------------------------------
(* Properties that hold.                                                   *)

\* The type invariant.  Its part that could fail: who unlocks a mutex holds it
\* (an unlock of a free one ends the process), and who is done holds none.
TypeOK ==
    /\ doing \in [Workers -> Activities \cup {"nothing"}]
    /\ owner \in [AllLocks -> Workers \cup {"nobody"}]
    /\ tried \in [Workers -> 0..Attempts]
    /\ moment \in Moments
    /\ seen \in [Workers -> SUBSET Moments]
    /\ \A w \in Workers :
         /\ IF Idle(w) THEN todo[w] = <<>>
            ELSE \E body \in Bodies[doing[w]] : IsSuffix(todo[w], body)
         /\ At(w, "unlock") => owner[On(w)] = w
         /\ todo[w] = <<>> => \A l \in AllLocks : owner[l] # w

\* Worker v cannot go on before w has let go of a lock.  A statement that is
\* tried again waits too, if not for ever: for seconds, with what it holds.
WaitsFor(v, w) ==
    \/ At(v, "lock") /\ owner[On(v)] = w
    \/ At(v, "try") /\ owner[On(v)] = w

\* main.go:238, sqlite.go:171, manager.go:143: mutexes are held over calls that
\* take other locks (the port's, the database's).  No two or more ever wait for
\* each other in a circle, nor one for itself.
NoCircularWait ==
    \A S \in (SUBSET Workers) \ {{}} :
      \E v \in S : \A w \in S : ~WaitsFor(v, w)

\* What has begun comes to its end: every tick of a goroutine is followed by
\* another, every request is answered, whoever else is at work and however busy
\* the database is.
EveryoneGetsOn == \A w \in Workers : ~Idle(w) ~> Idle(w)

\* The fermenters of one round of samples, of one snapshot, of one message to
\* the pages, are all as they were at one moment: no controller, and no sweep of
\* the watchdog, comes in between two of them.
OneMoment == \A w \in Workers : Cardinality(seen[w]) <= 1
=============================================================================
