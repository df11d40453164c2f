# A TLA+ model of the PHB fermenter runtime

This directory keeps a formal model of the programs in this repository: TLA+
modules translated from the source, TLC configurations that check them on small
instances, and theorems about them whose proofs TLAPS checks. `PROJECT.json`
maps every definition to the lines it models, and lists the runs, the hazards
they are aimed at, what they found, and the theorems.

## 1. The system

The runtime (`runtime-pi`, Go) controls the glycol valves of a few fermenters.
It is one process of many goroutines around a shared state, a SQLite database,
a serial line to a device that has the valves and the sensors, and an HTTP
server. `main.go` starts everything.

| Component | State | Operations | Hard behaviour |
|---|---|---|---|
| System state and valve controllers (`internal/control/controller.go`) | per fermenter: target, temperature, believed valve, mode, override, ages; settings; one mutex | one controller per fermenter ticks every second: fail-safe, override, hysteresis; requests and telemetry change the state | the mutex is released around the serial write of a command; decisions become stale |
| Watchdog (`cmd/fermenter/main.go:230`) | time of the last telemetry | every 15 s: after 30 s of silence close every valve, log `serial_timeout` | sweeps between any two steps of a controller |
| Control requests (`internal/api/mode.go`, `settings.go`, `server.go`) | none of their own | target, mode, override, settings; live state first or database first, depending on the request | several statements, ignored errors, concurrent requests |
| Profiles (`main.go:134`, `internal/api/profile.go`) | the table of assignments; local copies of rows | the scheduler reads a row, computes a target, advances, writes the whole row back; assign, pause, resume, cancel | read-modify-write by two parties without a lock |
| Store (`internal/store/sqlite.go`) | tables of states, settings, profiles, assignments, events, samples | upserts, snapshot every 30 s, resume at the start, retry while busy | crash between statements; defaults that differ |
| Alarms (`internal/alarm/manager.go`) | active alarms | evaluate every second: open, refresh, clear after a debounce | a clock read before waiting for a mutex; values read without it |
| Event stream (`internal/sse/sse.go`) | one channel of 8 per browser; one mutex | broadcast every second; handlers enter, receive, write, leave | slow and vanishing browsers |
| Serial driver (`internal/arduino/arduino.go`) and device programs (`arduino/fermenter`, `firmware-mega`) | lines in both directions; valve outputs; a wrapping counter | commands, pings, telemetry | two dialects; a queue of commands; wrap-around |
| Locks (all of the above) | one mutex each for state, port, alarms, stream, sessions, preferences; the write lock of SQLite | every goroutine and request takes some of them, in the order of its code | mutexes held over statements and writes to the port |
| Sessions (`internal/api/auth.go`) and the page (`www/static/app.js`) | sessions with an expiry; cookie; what each tab shows | login, logout, status, the check of a write; prompt and retry | tabs share a cookie; answers overtake each other |

The parts meet in the shared state (controllers, requests, telemetry, watchdog,
scheduler, alarms, snapshot, stream), in the database (requests, scheduler,
snapshot, events) and on the serial line (controllers, watchdog, ping loop).

What makes each part correct, in a sentence:

* **Controllers**: what the runtime believes of a valve is true of the device;
  a silent sensor closes its valve; a warm fermenter gets its valve open and a
  cold one closed, whatever the limit, the other fermenters and the watchdog do;
  an operator's override wins.
* **Profiles**: the stored index is always that of a step; steps end; a ramp
  starts where the step before it ended; holds are reached.
* **Store**: what was answered is saved and survives a crash; what diverges
  heals.
* **Alarms**: a lasting condition is raised; a cleared alarm was quiet for the
  debounce time; a condition that is gone is cleared.
* **Stream**: never a send on a closed channel, never a broadcast held up, order
  kept, no handler left behind.
* **Serial line**: the last command holds in the end; telemetry does not stop; the
  watchdog does not fire while the device runs.
* **Locks**: nobody waits in a circle, everybody gets on, and what is read
  together is of one moment.
* **Sessions**: only a fresh login admits a write; sessions end; the page tells
  the truth about the lock.

## 2. The modules

| Module | Models | Extended by |
|---|---|---|
| `ValveControl` | controllers, requests, telemetry, watchdog, restart, simulated beer | `MCValveControl`, `ValveControlProofs` |
| `ProfileScheduler` | scheduler and profile requests over the table of assignments | `MCProfileScheduler`, `ProfileSchedulerProofs` |
| `Persistence` | live state, rows and settings across crashes; snapshot; resume | `MCPersistence`, `PersistenceProofs` |
| `DurableRegister` | what a client may expect of a mode across crashes, abstractly; `Persistence` implements it | (instance in `Persistence`) |
| `AlarmManager` | `Evaluate` with everything that may run beside it | `MCAlarmManager`, `AlarmManagerProofs` |
| `SseHub` | `Broadcast` and `ServeHTTP` | `MCSseHub`, `SseHubProofs` |
| `LossyBroadcast` | what the stream promises, abstractly; `SseHub` implements it | (instance in `SseHub`) |
| `SerialLink` | the line, the driver, and either device program, with resets | `MCSerialLink`, `SerialLinkProofs` |
| `CommandedValves` | valves that obey at once, abstractly; `SerialLink` implements it | (instance in `SerialLink`) |
| `Locks` | every goroutine and request as the locks, unlocks and statements of its code | `MCLocks`, `LocksProofs` |
| `Sessions` | sessions, the check of a write, the lock of the page | `MCSessions`, `SessionsProofs` |

Conventions: a step is what the code does without releasing a mutex or waiting
for something else. Where the code releases the mutex around a call (a command
of a controller, the scheduler's statements, an alarm evaluation, a session
check before its handler) the operation is several steps with an in-flight
record that holds its local variables. Instants are kept as ages (or as time
left), which stop growing once they have passed every limit they are compared
with, so that time needs no bound; `Elapse` is a tick of an abstract clock.
Temperatures are integers. Statements and serial writes that may fail are a
choice of outcomes, switched by a constant.

### ValveControl

A tick of `RunController` is `TickFailSafe`, `TickOverridden` or
`TickHysteresis` (the three branches in their order, with the early returns as
guards), which may start a command: `Send` is the serial write without the
mutex, `Commit` and `CommitFailed` the update under it. Only the hysteresis
looks at the error. `actuator` is the output of the device; `unconfirmed`
remembers that the belief rests on a restart or on a write whose error was
dropped. `DeviceReset` closes every valve at the device and leaves what the
runtime believes. `Watchdog` is two steps: `NoticeSilence` reads `lastTelem` without a
lock, `Sweep` closes all valves under the mutex, and telemetry may come between
them. `Restart` reads each of the three settings by itself. `Drift` is the simulated
beer without a device.

### ProfileScheduler

`StartTick`, `Visit`, `Load`, `SetScheduled`, `SaveAdvance` are the tick of the
scheduler, one read or write of the database or of the state each, with the
local variables in `sched`. `BeginAssign` and `BeginPause` read (or make) the row a request
later writes with `UpsertAssignment`. A request occupies one of `Requests` from its
read to its write, so several of one fermenter may overlap, as the handlers, which
take no lock, do. Any of them may interleave. Times within a tick count from the
`now` the tick read (`lag`).

### Persistence

`Resume`, `InitialSnapshot`, `ResumeSettings` are the start of `main`.
`SetMode` changes the live mode, `SaveMode` writes it; `SaveSetting` writes one
of the three keys, in the order of the code, and `ApplySettings` applies what
was posted. `Crash` may come between any two. Three history variables say what a
client may rely on: `expected` holds the modes that may be in force after a
restart (it is what `DurableRegister` promises), `behind` that a save of the row
failed or was overtaken since its last snapshot, `halted` that the last settings
request, or the last start, failed at one of the keys. The reads of a start may
fail too (`Reached`): the mode of a row, or a setting, that cannot be read is that
of the configuration, and the first snapshot makes such a mode the saved one
(`main.go:58`, `70`); `expected` takes in "fixed" in that case alone.

`DurableRegister` knows only values written, settled by an answer, and found
again after a crash. The mapping: a register is up while the runtime runs, its
value is the live mode, and its promises are `expected`. A save that fails or is
overtaken stutters, or leaves more than one promise; what the store makes up when
it fails is among `Defaults`.

### AlarmManager

`Begin` reads the clock, `Decide` looks at the state under its mutex, `Open` and
`Close` apply one decision each, with its event, `Done` ends. `seen` and `lost`
are history: when an evaluation last saw the condition, and whether the last
event due got into the database. The value and the limit an alarm is shown with
are left out.

### SseHub and LossyBroadcast

`Lock`, `Send(c)`, `Unlock` are `Broadcast`; a handler is `Connect`, `Join`,
`Receive`, `Write`, `NoticeGone`, `WriteFails`, `Leave`. The answer 500 to a writer that
cannot flush (`sse.go:34`) is left out: the writer of net/http can, and so can the
one chi's logger wraps around it (`main.go:255`), and the branch comes before any
state is touched. `LossyBroadcast` has only
publishing, offering the latest state to a subscriber with room, taking,
subscribing and unsubscribing. The mapping: what waits for a browser is the
message its handler is writing followed by its channel, so `Limit` is the
capacity plus one.

### SerialLink and CommandedValves

`program` is the program of the device, chosen at the start among `Programs`:
the sketch or the firmware; `Tag` is the name it gives the field that says what
a line is. `Loop` is one run of `loop()`. `Wrap` is the modulus of `millis()`:
the comparison is the unsigned difference of the code. `Reset` is a device that
loses its power or is reset while the runtime runs: `setup()` closes the valves, the
counter starts anew and lines still in its buffer may be lost. `sinceTele` and
`forgot` are history: the real time since the last telemetry, and the
fermenters a reset closed behind the runtime's back.

`ValveControl` has a command change the valve in the step that writes it (`Send`),
and a reset close valves (`DeviceReset`). `CommandedValves` is that view: it has
commands that take effect at once, and resets. The mapping: a valve is what it
will be when the device has obeyed the lines on their way to it (`Outcome`), that
is the state named by the last of its commands under way, or its output if none
is. `SetValve` maps to a command, `Reset` to a reset, `Loop` with everything else to a
stutter; a firmware that hears nothing is a device never asked for anything.

### Locks

The other modules take a hold of a mutex for one step. `Locks` has the holds
themselves. An activity (a tick of a goroutine, a request) is a sequence of
steps: lock, unlock, a statement with its attempts, a row of a transaction, a
look at the state, a change of it; where the code branches it is a set of
sequences. Workers pick activities and go through their sequences, interleaved
in any way. The database is one more lock that one writer has at a time; who
finds it busy tries again (`execRetry`, at most `Attempts` times) or gives up. In WAL
mode (`sqlite.go:48`) a reader waits for nobody, so reads are left out. The
connection string (`sqlite.go:32`) asks for a busy timeout; whether the
driver honours it, a statement would only wait longer before it finds the
database busy, which the model has as well. An `RWMutex` is taken as
exclusive, which only adds waiting. `moment` changes with every change of the
state, and `seen` collects the moments at which one activity has looked.

### Sessions

One browser with several tabs that share a cookie. A request carries the cookie
of the moment it is sent; an answer that sets the cookie is a step of its own.
`RequireAuth` is the check, `Serve` the handler behind it. `CheckStatus` is the
lookup of the status (the handler's second one only reads the expiry). A tab may
have several polls under way, one for each of its `Slots`: the page polls every
second without waiting for the poll before it (`app.js:891`), and once more after a
lock (`app.js:808`), and their answers may overtake each other. `Writers` are the
tabs whose user does more than lock.

## 3. What the runs check

Passing runs:

| Run | Instance | Shows |
|---|---|---|
| `valve_safety` | 1 fermenter, two targets, failing writes, restarts, invalid settings, without fairness | `TypeOK`; `BelievedClosedIsClosed`: a valve believed closed on the strength of a successful write is closed |
| `valve_reacts` | 1 fermenter, two targets, fixed and valve mode, overrides with and without end, a limit that is lifted and set again, device resets | `StaleValveCloses`, `HysteresisActs` (warm opens, cold closes), `OverrideWins`: the fail-safe, the hysteresis and an override reach their end |
| `valve_pair` | 2 fermenters, limit 1 that may be lifted | `WarmOpens` while the other takes and leaves the one place |
| `profile_advances` | 2 profiles of three steps, one assignment, one request under way, failing statements, a restart, fair | `TypeOK`; `StepInRange`: no index out of range; `FromIsReached`: ramps start where the last step ended; `ScheduleAdvances`, `HoldIsReached`: steps end, holds are reached; `ScheduleLetsGo`: a fermenter taken out of its profile is left alone |
| `persist_survives` | crashes everywhere, failing reads and writes, two mode requests and one settings request at a time | `TypeOK`, `AnsweredIsSaved`, `SettingsAgree`; `ModeIsDurable` (it implements `DurableRegister`); `DivergenceHeals` |
| `alarm_debounce` | debounce 2, evaluations of up to 1 unit, lost events, restarts | `TypeOK`, `LogAgrees`, `ClearedLate`, `AlarmOpens`, `AlarmClears` |
| `sse_stream` | a reading and a stalled browser, capacity 2, 3 messages | `TypeOK`, `NoSendOnClosed`, `Refines` (it implements `LossyBroadcast`), `BroadcastEnds`, `ReaderGetsNews`, `GoneIsRemoved` |
| `serial_link` | either program, 3 fermenters of which one has no valve, wrap at 6, one reset | `TypeOK`, `TelemetryGoesOn`; `NoFalseTimeout`: the watchdog does not fire while the sketch runs; `LastCommandHolds`: with the sketch the last command is the one that holds, and the line implements `CommandedValves` (`CommandsTakeEffect`); with the firmware every valve stays closed (`FirmwareIsDeaf`) |
| `locks_progress` | all 20 activities, any two at once, 2 fermenters, 2 attempts | `TypeOK`: nobody unlocks what it does not hold, or ends with a lock; `NoCircularWait`; `OneMoment`: a round of samples, a snapshot and a message to the pages show one moment; `EveryoneGetsOn` |
| `sessions_lock` | 2 tabs, both lock, one writes and has two polls under way, 1 login | `TypeOK`, `AdmitsOnlyFresh`, `SessionEnds`; `LockedIsShown`: in whatever order polls are answered and shown, each tab says for good that the system is locked once it is |

`profile_advances` checks the safety properties of the scheduler too, with the
same instance; larger ones are covered by their theorems.

Runs that show the code doing what the repository says it does not:

| Run | Property | Said | Done |
|---|---|---|---|
| `valve_open_limit` | `OpenLimit` | "max simultaneous open valves" (`config.phb.yaml:27`) | two controllers count, then both open; an override does not count at all |
| `persist_target` | `TargetResumed` | "Resume saved targets on boot" (`main.go:54`) | `ApplySavedTargets` scans without a row and applies none |

### Differences met while modelling, without a run

The models keep these behaviours, so the properties above hold in spite of them,
and are stated no more strongly than they allow. None has a run of its own.

* The fail-safe (`controller.go:238`) applies only while the valve is not
  closed; at the next tick an override or the hysteresis may open it again on
  the old temperature, and it alternates. `StaleValveCloses` therefore says that
  it closes, not that it stays closed.
* The commit of a command clears `allowImmediate` (`controller.go:320`), that of
  a target set during its serial write included.
* The watchdog (`main.go:236`) has no memory: it sweeps, and logs
  `serial_timeout`, at each of its ticks, drops the errors of its writes, and does
  not stamp `lastChange`. A sweep between the write of a controller and its commit
  leaves a closed valve believed open, which the hysteresis does not open again
  before it has wanted it closed; hence `BelievedClosedIsClosed` has no converse,
  and `WarmOpens` speaks of the believed valve.
* `SetMode` drops an indefinite override at every change to an automatic mode
  (`controller.go:359`), not only when it leaves valve mode.
* A start that cannot read a fermenter's saved mode logs it at most, goes on in
  "fixed", and the initial snapshot saves that (`main.go:58`, `70`); a setting whose
  read fails counts as absent without a word (`sqlite.go:485`). `ModeIsDurable` and
  `SettingsAgree` except what such a start leaves.
* The scheduler reads the mode without the mutex (`main.go:141`), and may set the
  target of a fermenter just switched to fixed.
* A profile assigned while a tick is under way may begin after the `now` of that
  tick (`main.go:155`): the time of its first ramp is then negative, and the target
  a little on the wrong side of its start. `RampStaysInside` is therefore of the
  later steps, which only the scheduler begins.
* A profile's `Duration` string is never read (`main.go:162` uses `DurationS`), so
  a hold with a duration in words alone never ends.
* A saved `max_open` of 0, which means unlimited, is taken for an absent one at
  the next start (`main.go:83`), and so is a saved minimum time of 0;
  `SettingsAgree` speaks of positive values.
* An alarm opens at the first evaluation that finds its condition
  (`manager.go:152`), although `config.phb.yaml:32` has it persist first; its time
  stamp is older than the look at the state, by which `ClearedLate` is weaker
  than the debounce time; its value is read after the decision.
* The firmware for the Mega names the kind of a line `t`, the runtime `type`:
  neither understands the other. `FirmwareIsDeaf`, a part of `LastCommandHolds`,
  states what follows.
* A device that is reset closes its valves, and the runtime, which is not told,
  goes on believing one open. It commands that valve again only after it has
  wanted it closed; hence `HysteresisActs` speaks of the believed valve where it
  opens, and `LastCommandHolds` excepts what a reset wiped out (`forgot`).
* Two settings requests at once (`settings.go:42`, `49`) may leave the values of one
  saved and those of the other in force until the next restart. `SettingsAgree`
  is therefore checked and proved with `MaxPosts <= 1`.
* A statement of a transaction that finds the database busy is dropped and the
  others are committed (`sqlite.go:241`): `OneMoment` says that the rows of a
  round are of one moment, not that they are complete.
* Without a PIN the status answers `authorized: false`, and the page says that
  the system is locked while every write is admitted (`app.js:800`).

### Bounds, and why they are enough

* Fermenters: one where the property concerns one and the others enter only
  through a count; two where they compete (`valve_open_limit`, `valve_pair`).
  `Persistence`, `AlarmManager` and `ProfileScheduler` treat fermenters
  independently (but for the order in which a tick visits them), so their runs
  have one; the theorems are for any number.
* Temperatures: one value on each side of the band or of the margins (and the
  boot value 0 inside), since only the comparisons matter. The second target of
  `valve_safety` and `valve_reacts` makes the boot value warm. The targets set by hand in
  `profile_advances` are one far from the hold, and one within the 0.05 degrees of
  its target in which the scheduler leaves the target alone.
* Limits in clock units are 0 to 6: each is at least 1 where "not yet" and "due"
  have to differ. Ages stop one unit beyond the largest limit, which
  loses nothing: every later age compares the same.
* `MaxAssigns` (assignments at all) is 1 and `Requests` (profile requests under way)
  has one element, so `profile_advances` has pauses, cancellations and changes by
  hand while a profile is followed, but no second assignment and no two requests
  that overlap: with either there are millions of states, too many for the liveness
  properties. The theorems about `ProfileScheduler` are for any number of both, the
  liveness properties rest on the instance.
* `MaxModes` and `MaxPosts` (requests under way: two mode requests
  overlap), `MaxMessages` (broadcasts: one more than a channel takes), `MaxLines` (lines under way in each
  direction: a queue) and `MaxLogins` bound requests, lines, messages and
  logins. With one login `AdmitsOnlyFresh` still meets the expiry and the logout;
  its theorem is for any number.
* `MaxRestarts` bounds the restarts of `ProfileScheduler` and `MaxResets` those
  of the device in `SerialLink`; elsewhere there may be any number.
* `Workers` is two activities at a time, every pair of the 20 included, and
  `Attempts` is 2 instead of 6: once more than the first. The safety properties are
  proved for any number of workers, fermenters and attempts. Only `EveryoneGetsOn`
  rests on the instance; with more workers the chains of waits become no longer
  (`WaitsAreShort`).
* `MaxTickTime`, `MaxLag`, `MaxLoop` and `MaxDelay` bound how long one
  tick, evaluation or line takes; the properties that depend on such a delay
  name it.
* `Wrap` is 6 instead of 2^32 and is passed many times; the theorems are for any width.
* In `sse_stream` the capacity is 2 instead of 8, with more messages than room.
* `Slots` gives one tab two polls under way, which may overtake each other, and the
  other tab one; `Writers` has the tab with two. What a tab does concerns the other
  only through the sessions and the cookie, and both tabs lock. `TypeOK` and
  `AdmitsOnlyFresh` are proved for any number of tabs, polls and writers.
* Without a device (`Device = FALSE`) `ValveControl` is not run; that the
  simulated beer stays within its clamp is part of `TypeOK` and proved.

### Fairness

Only the runs under `FairSpec` assume any. Tickers tick and the Go mutex, which
does not starve a waiter, is granted, so each internal step of a controller, scheduler,
evaluation, broadcast or handler has weak fairness; time passes. Strong fairness
appears in four places: a handler of `SseHub` that waits for the mutex competes with a
broadcaster that keeps taking it (`Join`, `Leave`), and so does everyone in `Locks`
(a Go mutex hands itself to the one that has waited longest after a
millisecond); its `select` with both cases
ready picks at random (`NoticeGone`); and a statement of the scheduler that may
fail, and is tried again at every tick, does not fail for ever
(`ProfileScheduler`, `Load` and `SaveAdvance`). In
`Persistence` a snapshot that fails changes nothing, so it is no step; its weak
fairness says that one of the attempts, every 30 s, succeeds. A browser is fair
only if it is one of `Readers`.
Nothing makes a user, a sensor or a failure act. In
`Sessions` the user is not fair at all; a prompt left open stops the page, and
the properties say so.

`CHECK_DEADLOCK` stays on: no model ever has nothing to do.

## 4. What is proved

All proofs are checked by TLAPS to the last leaf, for every value of the
constants that the named assumptions admit.

* `ValveControlProofs`: `TypeCorrect` (`TypeOK`) and `BelievedClosedCorrect`
  (`BelievedClosedIsClosed`), for any number of fermenters. `BelievedClosedIsClosed` speaks of a controller
  at rest; the inductive invariant adds what holds while a command is between
  its decision, its write and its commit, where belief and device may differ.
* `ProfileSchedulerProofs`: `TypeCorrect`, `StepInRangeCorrect`,
  `FromIsReachedCorrect`, `RampStaysInsideCorrect`, for any number of requests of any
  fermenter under way at once. The invariant says of every row, of every copy a
  request holds, *and of the local variables of the scheduler's tick* that they
  fit their profile; the last is what the properties do not say and the step
  that writes the row back needs. `RampStaysInside`, that a ramp after a step with
  a target sets none off the way between the two, needs that no later step begins
  after the `now` of a tick (`StepsBegun`), through every copy, save and restart.
* `AlarmManagerProofs`: `TypeCorrect`, `ClearedLateCorrect`, `LogAgreesCorrect`.
  The invariant relates `LastSeen` to the time of the last look: they differ by at
  most the time an evaluation takes, for active alarms that are not about to be
  refreshed. `LogAgrees` is inductive with it: each step
  that changes what is active writes the event that tells so, or remembers that it
  was lost.
* `SessionsProofs`: `TypeCorrect`, `AdmitsOnlyFreshCorrect`. The invariant says
  that the time a session has left and its age make up its length, and that no
  cookie in use was never given out, so that a logout cannot end a session
  before it begins.
* `SseHubProofs`: `TypeCorrect`, `NoSendOnClosedCorrect`, and `RefinesCorrect`, that
  the hub implements `LossyBroadcast`. The invariant relates where each handler
  is to whether its client is a member and its channel closed, has nobody leave
  while a broadcast holds the mutex, and orders what is written, about to be
  written and queued by the number of its broadcast.
* `PersistenceProofs`: `TypeCorrect`, `AnsweredIsSavedCorrect`,
  `ModeIsDurableCorrect`, that the modes implement `DurableRegister`, and
  `SettingsAgreeCorrect`, under `MaxPosts <= 1`. The invariant says of every
  point of a start, a request or a crash that the row, the live mode and what is still to be
  saved are among what a client may expect; for the settings, that only keys the
  one request under way has already saved may differ from those in force.
* `SerialLinkProofs`: `TypeCorrect`, `TelemetryGoesOnCorrect`,
  `NoFalseTimeoutCorrect` (if the device has a probe at all), `FirmwareIsDeafCorrect`,
  `OutcomeIsCommandedCorrect`, and `CommandsTakeEffectCorrect`, that the line and the
  device implement `CommandedValves`.
  The invariant has each side speak its own language, and the counter of the
  device tell the real time modulo `Wrap`. The silence the watchdog sees is
  bounded through the place of the telemetry that will end it in the line:
  one round for each reset and one more, and `MaxDelay` for each line before it.
  The assumption on `Watchdog` says that this is below its threshold; with the
  code's 30 s and 1 s it is a wide margin.
  The outcome of a valve is defined by the last of its commands in the line; the
  lemmas say what becomes of it when lines are added and when the oldest are
  gone, and all steps are one of the two. `OutcomeIsCommanded` needs besides that
  a valve a reset wiped out has no command under way.
* `LocksProofs`: `TypeCorrect`, `NoCircularWaitCorrect`, `OneMomentCorrect`,
  `WaitsAreShortCorrect`, `SomeoneGoesOnCorrect`, for any number of workers,
  fermenters and attempts. An activity is a sequence whose length depends on the
  number of fermenters, so the invariant cannot say step by step what is held. It
  says instead that the steps a worker has left are passed by a *path*: a sequence
  of points, each of which says which mutex is held, whether the port or the
  database is, whether a transaction is open and what has been read, each a legal
  successor of the one before, the last with nothing held. That every body has such a
  path is proved as the bodies are put together (`PassesConcat`, `PassesForEach`).
  Who is at a point waits for a lock only if it holds none of a higher rank (port
  and database are inner, all other mutexes outer, and one outer is held at most),
  whence chains of waits have two links at most, and no circle.
  The induction over the length of a sequence is a lemma (`Induction`) got from
  the well-foundedness of finite sets, since the induction theorems of the library
  take an operator.

Each module proves `Init => Inv`, `Inv /\ [Next]_vars => Inv'` with one step per
action, and what follows from `Inv`. A refinement is one more such lemma: each
action maps to a step of the abstract module or to a stutter.

Only model-checked: the liveness properties (`StaleValveCloses`, `HysteresisActs`,
`OverrideWins`, `WarmOpens`, `ScheduleAdvances`, `HoldIsReached`, `ScheduleLetsGo`,
`DivergenceHeals`, `AlarmOpens`, `AlarmClears`, `BroadcastEnds`, `ReaderGetsNews`,
`GoneIsRemoved`, `SessionEnds`, `LockedIsShown`, `EveryoneGetsOn` and the first part of
`LastCommandHolds`), since fairness and `ENABLED` are out of the prover's reach, and the
two counterexamples. Every invariant, action property and refinement that a passing
run checks is proved. `RampStaysInside`, `OutcomeIsCommanded`, `WaitsAreShort` and `SomeoneGoesOn`, which no
run checks, are defined beside their proofs.

## 5. Not modelled, and why

* The history and event queries, and what a sample holds: reads and inserts
  nothing else depends on. When samples are taken and pruned, and with which
  locks, is in `Locks`.
* What the preferences hold (two words no other code reads), static pages, charts,
  the embedded page, the UI simulator: presentation.
* `internal/auth`: a PIN manager that no package imports, so it is part of no program.
* `ForceValve`, `SetValveOverrideFor`, `raise`, `clear`, `Ack`, `parseHumanDuration`: called by
  nothing.
* The pump of the Mega firmware: follows the valves.
* The central server: a stub without state.
* The shutdown of the HTTP server and `Close` of the serial driver, at the end
  of the process.
* A write to the port that never returns: `Locks` and `ValveControl` assume that it
  does, with or without an error.
* A wall clock that is set: the ages of steps, sessions and overrides grow with
  time.
* Durations of waits for the mutex: the models say only that it is granted.
* Data races: besides the unlocked reads of `Mode`, `TargetC`, `BeerC` (modelled
  as reads of the current value at their own step) no torn value is modelled;
  the fields are words on the platforms the runtime is built for.

## 6. Plan

Done, in this order: `ValveControl`, `ProfileScheduler`, `Persistence`,
`AlarmManager`, `SseHub` with `LossyBroadcast`, `SerialLink`, `Sessions`,
`Locks`, `DurableRegister`, resets of the device, `CommandedValves`, with their runs and
the proofs above.

Next:

1. An abstract valve (commanded, believed, stale) that `ValveControl` implements, with
   `CommandedValves` below it.
2. The deliveries of the alarms' events as an abstract log, now that induction over
   sequences is at hand.
3. Two settings requests at once as a property of their own, should the code
   come to serialise them.
