------------------------------ MODULE SerialLink ------------------------------
(***************************************************************************)
(* The serial line between the runtime and its device: Device of           *)
(* internal/arduino/arduino.go on the one side, and on the other one of    *)
(* the two programs the repository has for the device, the sketch          *)
(* arduino/fermenter/fermenter.ino or the firmware                         *)
(* firmware-mega/src/main.cpp.                                             *)
(*                                                                         *)
(* A line of JSON is one message.  The runtime calls the field that names  *)
(* the kind of a message "type"; so does the sketch, the firmware calls it *)
(* "t".  The telemetry lines of one round are one message.                 *)
(*                                                                         *)
(* The device measures time with a counter that wraps around; the runtime  *)
(* with instants, kept here as ages.                                       *)
(***************************************************************************)
EXTENDS Integers, Sequences

CONSTANTS
    Programs,    \* the programs the device may run: "sketch", "firmware"
    Fermenters,  \* the fermenters of the configuration
    Wired,       \* those the device has a valve for
    Probes,      \* those the device sends telemetry for
    Wrap,        \* the device's counter wraps around at Wrap: 2^32 in the code
    Interval,    \* the 1000 ms between two rounds of telemetry
    MaxLoop,     \* bound on the time between two runs of loop()
    MaxDelay,    \* bound on the time a line waits for the runtime to read it
    Watchdog,    \* the 30 s threshold of the watchdog
    MaxLines,    \* bound on the lines under way, in each direction
    MaxResets    \* bound on the resets of the device

ASSUME LinkAssumption ==
    /\ Programs \subseteq {"sketch", "firmware"}
    /\ Wired \subseteq Fermenters
    /\ Probes \subseteq Fermenters
    /\ Interval \in Nat
    /\ MaxLoop \in Nat \ {0}
    /\ MaxDelay \in Nat
    /\ Wrap \in Nat
    /\ Wrap > Interval + MaxLoop
    /\ MaxLines \in Nat \ {0}
    /\ MaxResets \in Nat
    /\ Watchdog \in Nat
    /\ Watchdog >= (MaxResets + 1) * (Interval + MaxLoop) + MaxDelay * MaxLines

VARIABLES
    program,    \* the program the device was given, which does not change
    commanded,  \* the last state the runtime asked for, per fermenter
    toDevice,   \* the lines on their way to the device
    toHost,     \* the lines on their way to the runtime
    pin,        \* the valve outputs of the device
    ms,         \* millis()
    lastTele,   \* lastTele of the sketch, lastTelemetryMs of the firmware
    sinceLoop,  \* time since loop() ran last
    sinceRead,  \* time for which the oldest line has waited for the runtime
    silence,    \* age of lastTelem, in main.go
    resets,     \* the resets so far
    sinceTele,  \* history: time since the device sent telemetry, or started
    forgot      \* history: the fermenters a reset closed although the last
                \* command said open

vars == <<program, commanded, toDevice, toHost, pin, ms, lastTele, sinceLoop,
          sinceRead, silence, resets, sinceTele, forgot>>
clocks == <<sinceRead, silence>>

ValveStates == {"open", "closed"}
NoFV == "none"

Message(tag, kind, fv, state) ==
    [tag |-> tag, kind |-> kind, fv |-> fv, state |-> state]
Messages == [tag : {"type", "t"},
             kind : {"set_valve", "ping", "pong", "ack", "telemetry"},
             fv : Fermenters \cup {NoFV}, state : ValveStates]

\* Any age beyond the threshold of the watchdog is as good as another.
Older(age) == IF age > Watchdog THEN age ELSE age + 1

Init ==
    /\ program \in Programs
    /\ commanded = [f \in Fermenters |-> "closed"]
    /\ toDevice = <<>>
    /\ toHost = <<>>
    /\ pin = [f \in Wired |-> "closed"]
    /\ ms = 0
    /\ lastTele = 0
    /\ sinceLoop = 0
    /\ sinceRead = 0
    /\ silence = 0
    /\ resets = 0
    /\ sinceTele = 0
    /\ forgot = {}

-----------------------------------------------------------------------------
(* The runtime.                                                            *)

Host(m) == Message("type", m, NoFV, "closed")

SetValve(f, s) ==
    /\ Len(toDevice) < MaxLines
    /\ commanded' = [commanded EXCEPT ![f] = s]
    /\ toDevice' = Append(toDevice, Message("type", "set_valve", f, s))
    /\ forgot' = forgot \ {f}
    /\ UNCHANGED <<program, toHost, pin, ms, lastTele, sinceLoop, clocks, resets,
                   sinceTele>>

Ping ==
    /\ Len(toDevice) < MaxLines
    /\ toDevice' = Append(toDevice, Host("ping"))
    /\ UNCHANGED <<program, commanded, toHost, pin, ms, lastTele, sinceLoop, clocks,
                   resets, sinceTele, forgot>>

\* A read loop that speaks the language of the firmware.
IsTelemetryOfFirmware(m) == m.tag = "t" /\ m.kind = "telemetry"
\* The read loop calls back for lines of type telemetry and ignores the rest.
IsTelemetry(m) == m.tag = "type" /\ m.kind = "telemetry"

Read ==
    /\ toHost # <<>>
    /\ toHost' = Tail(toHost)
    /\ silence' = IF IsTelemetry(Head(toHost)) THEN 0 ELSE silence
    /\ sinceRead' = 0
    /\ UNCHANGED <<program, commanded, toDevice, pin, ms, lastTele, sinceLoop,
                   resets, sinceTele, forgot>>

-----------------------------------------------------------------------------
(* The device.                                                             *)

Tag == IF program = "sketch" THEN "type" ELSE "t"
Device(kind) == Message(Tag, kind, NoFV, "closed")

\* What loop() does to its valves with a line, and its answer to it.  Only the
\* firmware acknowledges.  Its pump follows its valves and is left out.
IsSetValve(m) == m.tag = Tag /\ m.kind = "set_valve" /\ m.fv \in Wired
IsPing(m)     == m.tag = Tag /\ m.kind = "ping"

\* A set_valve that knows how to close a valve only.
PinsAfterClosed(m) ==
    IF IsSetValve(m) /\ m.state = "closed"
    THEN [pin EXCEPT ![m.fv] = "closed"] ELSE pin
\* A set_valve that does not look whether it knows the fermenter.
PinsUnchecked(m) ==
    IF m.tag = Tag /\ m.kind = "set_valve"
    THEN [f \in DOMAIN pin \cup {m.fv} |-> IF f = m.fv THEN m.state ELSE pin[f]]
    ELSE pin
PinsAfter(m) == IF IsSetValve(m) THEN [pin EXCEPT ![m.fv] = m.state] ELSE pin

AnswerTo(m) ==
    IF IsPing(m) THEN <<Device("pong")>>
    ELSE IF IsSetValve(m) /\ program = "firmware" THEN <<Device("ack")>>
    ELSE <<>>

\* A command for fermenter f is on its way.
Commanding(f) ==
    \E i \in 1..Len(toDevice) : toDevice[i].kind = "set_valve" /\ toDevice[i].fv = f

\* A difference of signed numbers.
TelemetryDueSigned == ms - lastTele > Interval
\* The difference is one of unsigned numbers.
TelemetryDue == (ms - lastTele) % Wrap > Interval
Telemetry == IF TelemetryDue /\ Probes # {} THEN <<Device("telemetry")>> ELSE <<>>

\* One run of loop(): at most one line, then the telemetry.  A full line holds
\* the run up.
Loop ==
    LET m == IF toDevice = <<>> THEN Host("none") ELSE Head(toDevice)
        written == AnswerTo(m) \o Telemetry
    IN  /\ Len(toHost) + Len(written) <= MaxLines
        /\ toDevice' = IF toDevice = <<>> THEN <<>> ELSE Tail(toDevice)
        /\ pin' = PinsAfter(m)
        /\ toHost' = toHost \o written
        /\ lastTele' = IF TelemetryDue THEN ms ELSE lastTele
        /\ sinceTele' = IF TelemetryDue THEN 0 ELSE sinceTele
        /\ sinceLoop' = 0
        /\ UNCHANGED <<program, commanded, ms, clocks, resets, forgot>>

\* The device loses its power, or is reset: setup() closes every valve and the
\* counter starts anew.  Of the lines sent to it, the oldest may be lost with its
\* buffer; the runtime is told nothing, and commands no valve again.
Reset ==
    /\ resets < MaxResets
    /\ resets' = resets + 1
    /\ pin' = [f \in Wired |-> "closed"]
    /\ \E lost \in 0..Len(toDevice) :
         /\ toDevice' = SubSeq(toDevice, lost + 1, Len(toDevice))
         /\ forgot' = {f \in Wired : commanded[f] = "open" /\ ~Commanding(f)'}
    /\ ms' = 0
    /\ lastTele' = 0
    /\ sinceLoop' = 0
    /\ sinceTele' = 0
    /\ UNCHANGED <<program, commanded, toHost, clocks>>

-----------------------------------------------------------------------------
Elapse ==
    /\ sinceLoop < MaxLoop
    /\ toHost # <<>> => sinceRead < MaxDelay
    /\ ms' = (ms + 1) % Wrap
    /\ sinceLoop' = sinceLoop + 1
    /\ sinceRead' = IF toHost = <<>> THEN 0 ELSE sinceRead + 1
    /\ silence' = Older(silence)
    /\ sinceTele' = Older(sinceTele)
    /\ UNCHANGED <<program, commanded, toDevice, toHost, pin, lastTele, resets, forgot>>

Next ==
    \/ \E f \in Fermenters, s \in ValveStates : SetValve(f, s)
    \/ Ping
    \/ Read
    \/ Loop
    \/ Reset
    \/ Elapse

Spec == Init /\ [][Next]_vars

\* Both programs run, and time passes.
FairSpec == Spec /\ WF_vars(Read) /\ WF_vars(Loop) /\ WF_vars(Elapse)

-----------------------------------------------------------------------------
(* Properties that hold.                                                   *)

\* The type invariant.  Its part that could fail: the counter and its memory
\* stay below Wrap, and no answer overruns the line.
TypeOK ==
    /\ program \in Programs
    /\ commanded \in [Fermenters -> ValveStates]
    /\ toDevice \in Seq(Messages)
    /\ toHost \in Seq(Messages)
    /\ Len(toDevice) <= MaxLines
    /\ Len(toHost) <= MaxLines
    /\ pin \in [Wired -> ValveStates]
    /\ ms \in 0..(Wrap - 1)
    /\ lastTele \in 0..(Wrap - 1)
    /\ sinceLoop \in 0..MaxLoop
    /\ sinceRead \in 0..MaxDelay
    /\ silence \in 0..(Watchdog + 1)
    /\ resets \in 0..MaxResets
    /\ sinceTele \in 0..(Watchdog + 1)
    /\ forgot \subseteq Wired

\* Telemetry goes on across the wrap of the device's counter (some 50 days) and
\* its resets: no two rounds, and no start and the first round, are further apart
\* than the interval and one run of loop().
TelemetryGoesOn == sinceTele <= Interval + MaxLoop

\* main.go:242, "no telemetry >30s": with the sketch, the watchdog does not fire
\* as long as the device runs, though lines wait, pongs come between them, the
\* counter wraps around and the device is reset.
NoFalseTimeout == program = "sketch" => silence <= Watchdog

\* The lines under way that the device will take for commands of valve f, and the
\* state it will have when it has obeyed them all.
Orders(f) == {i \in 1..Len(toDevice) : IsSetValve(toDevice[i]) /\ toDevice[i].fv = f}
Last(S) == CHOOSE i \in S : \A j \in S : j <= i
Outcome(f) == IF Orders(f) = {} THEN pin[f] ELSE toDevice[Last(Orders(f))].state

\* ValveControl has a command change the valve as it is written.  The line and
\* the device implement that: seen through the outcome of what is under way, a
\* command, even one of several queued, takes effect at once, and lines that are
\* read, pings and commands for a fermenter without a valve change nothing.  The
\* firmware is a device nobody ever asks for anything.
Controlled == INSTANCE CommandedValves WITH
    Valves <- Wired,
    asked <- [f \in Wired |-> IF program = "sketch" THEN commanded[f] ELSE "closed"],
    valve <- [f \in Wired |-> Outcome(f)]
CommandsTakeEffect == Controlled!DeviceSpec

\* With the firmware, which looks for the kind of a line in "t" (main.cpp:38)
\* where the runtime does not put it, every valve stays closed for ever, and no
\* line of it counts as telemetry: a device that is safe and useless.
FirmwareIsDeaf ==
    program = "firmware" =>
      /\ \A f \in Wired : pin[f] = "closed"
      /\ \A i \in 1..Len(toHost) : ~IsTelemetry(toHost[i])

\* The last command for f was s, and no reset wiped it out.
Settled(f, s) == program = "sketch" /\ commanded[f] = s /\ f \notin forgot

\* arduino.go:116, SetValve: with the sketch, the last command is the one that
\* holds in the end, whatever commands, pings and resets came before it, unless a
\* reset wiped it out; until then it is the outcome of what is under way, but for
\* a reset, as CommandedValves has it.
LastCommandHolds ==
    /\ \A f \in Wired, s \in ValveStates : <>[]Settled(f, s) => <>[](pin[f] = s)
    /\ []FirmwareIsDeaf
    /\ CommandsTakeEffect
=============================================================================
