--------------------------- MODULE SerialLinkProofs ---------------------------
(***************************************************************************)
(* For any width of the device's counter, any interval, delays, lengths of *)
(* the queues and number of resets: the telemetry of the device goes on,   *)
(* the watchdog of the runtime does not fire while a device with the       *)
(* sketch runs, a device with the firmware never opens a valve, and to the *)
(* runtime a command is as good as obeyed when it is written.              *)
(***************************************************************************)
EXTENDS SerialLink, FiniteSetTheorems, WellFoundedInduction, SequenceTheorems, TLAPS

\* Each side speaks its own language.
Languages ==
    /\ \A i \in 1..Len(toDevice) : toDevice[i].tag = "type"
    /\ \A i \in 1..Len(toHost) : toHost[i].tag = Tag
    /\ program = "firmware" => \A f \in Wired : pin[f] = "closed"

\* The counter of the device tells the time since its last telemetry, whether it
\* has wrapped around since or not, and loop() looked at it a moment ago.
CounterTellsTime ==
    /\ ms = lastTele + sinceTele \/ ms = lastTele + sinceTele - Wrap
    /\ sinceTele <= Interval + sinceLoop

Inv == TypeOK /\ Languages /\ CounterTellsTime

\* The longest time between two rounds of telemetry.
Round == Interval + MaxLoop

\* Telemetry waits at place p of the line to the runtime, and the silence is no
\* longer than that before it was sent and its wait so far.
Announced(p) ==
    /\ p \in 1..Len(toHost)
    /\ IsTelemetry(toHost[p])
    /\ silence <= (resets + 1) * Round + MaxDelay * (MaxLines - p) + sinceRead

\* With the sketch, either the telemetry that will end the silence is waiting, or
\* the silence began with the last telemetry or a reset before it.
SilenceIsShort ==
    program = "sketch" =>
      \/ \E p \in 1..Len(toHost) : Announced(p)
      \/ silence <= resets * Round + sinceTele

-----------------------------------------------------------------------------
(* Facts on numbers.                                                       *)

\* The difference of two counters, as unsigned numbers.
LEMMA Difference ==
    ASSUME NEW a \in 0..(Wrap - 1), NEW b \in 0..(Wrap - 1)
    PROVE  (a - b) % Wrap = IF a >= b THEN a - b ELSE a - b + Wrap
<1>1. Wrap \in Nat \ {0}
  BY LinkAssumption
<1> QED
  BY <1>1

\* One more millisecond.
LEMMA Successor ==
    ASSUME NEW a \in 0..(Wrap - 1)
    PROVE  (a + 1) % Wrap = IF a + 1 = Wrap THEN 0 ELSE a + 1
<1>1. Wrap \in Nat \ {0}
  BY LinkAssumption
<1> QED
  BY <1>1

\* A product of natural numbers is one, and grows with its factors.
LEMMA Products ==
    ASSUME NEW B \in Nat, NEW a \in Nat, NEW b \in Nat, a <= b
    PROVE  a * B \in Nat /\ a * B <= b * B
OBVIOUS

\* One more of the same.
LEMMA OneMore ==
    ASSUME NEW B \in Nat, NEW a \in Int
    PROVE  (a + 1) * B = a * B + B /\ B * (a + 1) = B * a + B
OBVIOUS

\* The bounds are natural numbers, and the watchdog waits for a round at least.
LEMMA Bounds ==
    /\ Round \in Nat
    /\ Round < Wrap
    /\ Round <= Watchdog
    /\ (MaxResets + 1) * Round + MaxDelay * MaxLines <= Watchdog
<1> USE LinkAssumption DEF Round
<1>1. (MaxResets + 1) * Round = MaxResets * Round + Round
  BY OneMore
<1>2. MaxResets * Round \in Nat
  BY Products
<1>3. MaxLines * MaxDelay \in Nat
  BY Products
<1>4. MaxDelay * MaxLines = MaxLines * MaxDelay
  OBVIOUS
<1> QED
  BY <1>1, <1>2, <1>3, <1>4

-----------------------------------------------------------------------------
(* Facts on lines.                                                         *)

\* What is left of a line when its oldest message is taken.
LEMMA TakeOne ==
    ASSUME NEW line \in Seq(Messages), line # <<>>
    PROVE  /\ Len(line) \in Nat \ {0}
           /\ Head(line) \in Messages
           /\ Head(line) = line[1]
           /\ Tail(line) \in Seq(Messages)
           /\ Len(Tail(line)) = Len(line) - 1
           /\ \A i \in 1..Len(Tail(line)) :
                i + 1 \in 1..Len(line) /\ Tail(line)[i] = line[i + 1]
<1>1. Len(line) \in Nat \ {0}
  BY EmptySeq
<1>2. /\ Head(line) \in Messages
      /\ Tail(line) \in Seq(Messages)
      /\ Len(Tail(line)) = Len(line) - 1
      /\ \A i \in 1..Len(Tail(line)) : Tail(line)[i] = line[i + 1]
  BY HeadTailProperties
<1> QED
  BY <1>1, <1>2

\* What the device writes in one run of loop() is in its own language, and ends
\* with the telemetry if that is due.
LEMMA Written ==
    ASSUME NEW m, program \in Programs
    PROVE  LET written == AnswerTo(m) \o Telemetry
           IN  /\ written \in Seq(Messages)
               /\ \A i \in 1..Len(written) : written[i].tag = Tag
               /\ TelemetryDue /\ Probes # {} =>
                    /\ Len(written) \in Nat \ {0}
                    /\ written[Len(written)] = Device("telemetry")
<1> DEFINE written == AnswerTo(m) \o Telemetry
<1>1. /\ \A kind \in {"pong", "ack", "telemetry"} :
           Device(kind) \in Messages /\ Device(kind).tag = Tag
  BY LinkAssumption DEF Device, Message, Messages, Tag, NoFV, ValveStates
<1>2. /\ AnswerTo(m) \in Seq(Messages)
      /\ Len(AnswerTo(m)) \in Nat
      /\ \A i \in 1..Len(AnswerTo(m)) : AnswerTo(m)[i].tag = Tag
  BY <1>1 DEF AnswerTo
<1>3. /\ Telemetry \in Seq(Messages)
      /\ Len(Telemetry) \in Nat
      /\ \A i \in 1..Len(Telemetry) : Telemetry[i].tag = Tag
      /\ TelemetryDue /\ Probes # {} =>
           Len(Telemetry) = 1 /\ Telemetry[1] = Device("telemetry")
  BY <1>1 DEF Telemetry
<1>4. /\ written \in Seq(Messages)
      /\ Len(written) = Len(AnswerTo(m)) + Len(Telemetry)
      /\ \A i \in 1..Len(AnswerTo(m)) + Len(Telemetry) :
           written[i] = IF i <= Len(AnswerTo(m)) THEN AnswerTo(m)[i]
                        ELSE Telemetry[i - Len(AnswerTo(m))]
  BY <1>2, <1>3, ConcatProperties
<1> HIDE DEF written
<1>5. \A i \in 1..Len(written) : written[i].tag = Tag
  BY <1>2, <1>3, <1>4
<1>6. ASSUME TelemetryDue, Probes # {}
      PROVE  /\ Len(written) \in Nat \ {0}
             /\ written[Len(written)] = Device("telemetry")
  BY <1>2, <1>3, <1>4, <1>6
<1> QED
  BY <1>4, <1>5, <1>6 DEF written

\* A run of loop() leaves what is on its way to the runtime in its place, writes
\* behind it, and takes one line at most.
LEMMA LoopLines ==
    ASSUME TypeOK, Loop
    PROVE  /\ toDevice' \in Seq(Messages)
           /\ Len(toDevice') <= MaxLines
           /\ \A i \in 1..Len(toDevice') : \E j \in 1..Len(toDevice) :
                toDevice'[i] = toDevice[j]
           /\ toHost' \in Seq(Messages)
           /\ Len(toHost) \in Nat /\ Len(toHost') \in Nat
           /\ Len(toHost) <= Len(toHost')
           /\ Len(toHost') <= MaxLines
           /\ \A i \in 1..Len(toHost) : toHost'[i] = toHost[i]
           /\ \A i \in 1..Len(toHost') : i > Len(toHost) => toHost'[i].tag = Tag
           /\ TelemetryDue /\ Probes # {} =>
                /\ Len(toHost') \in 1..Len(toHost')
                /\ toHost'[Len(toHost')] = Device("telemetry")
<1> DEFINE m == IF toDevice = <<>> THEN Host("none") ELSE Head(toDevice)
           written == AnswerTo(m) \o Telemetry
<1>1. /\ Len(toHost) + Len(written) <= MaxLines
      /\ toDevice' = IF toDevice = <<>> THEN <<>> ELSE Tail(toDevice)
      /\ toHost' = toHost \o written
  BY DEF Loop
<1>2. /\ written \in Seq(Messages)
      /\ \A i \in 1..Len(written) : written[i].tag = Tag
      /\ TelemetryDue /\ Probes # {} =>
           /\ Len(written) \in Nat \ {0}
           /\ written[Len(written)] = Device("telemetry")
  BY Written DEF TypeOK
<1> HIDE DEF m, written
<1>3. toHost \in Seq(Messages) /\ toDevice \in Seq(Messages) /\ Len(toDevice) <= MaxLines
  BY DEF TypeOK
<1>4. Len(toHost) \in Nat /\ Len(written) \in Nat /\ Len(toDevice) \in Nat
  BY <1>2, <1>3, LenProperties
<1>5. /\ toHost' \in Seq(Messages)
      /\ Len(toHost') = Len(toHost) + Len(written)
      /\ \A i \in 1..Len(toHost) + Len(written) :
           toHost'[i] = IF i <= Len(toHost) THEN toHost[i] ELSE written[i - Len(toHost)]
  BY <1>1, <1>2, <1>3, ConcatProperties
<1>6. /\ toDevice' \in Seq(Messages)
      /\ Len(toDevice') <= MaxLines
      /\ \A i \in 1..Len(toDevice') : \E j \in 1..Len(toDevice) :
           toDevice'[i] = toDevice[j]
  <2>1. CASE toDevice = <<>>
    BY <1>1, <1>3, <2>1, LinkAssumption
  <2>2. CASE toDevice # <<>>
    BY <1>1, <1>3, <2>2, TakeOne, LinkAssumption
  <2> QED
    BY <2>1, <2>2
<1>7. /\ \A i \in 1..Len(toHost) : toHost'[i] = toHost[i]
      /\ \A i \in 1..Len(toHost') : i > Len(toHost) => toHost'[i].tag = Tag
  BY <1>2, <1>4, <1>5
<1>8. ASSUME TelemetryDue, Probes # {}
      PROVE  /\ Len(toHost') \in 1..Len(toHost')
             /\ toHost'[Len(toHost')] = Device("telemetry")
  BY <1>2, <1>4, <1>5, <1>8
<1> QED
  BY <1>1, <1>4, <1>5, <1>6, <1>7, <1>8

\* A reset leaves the younger lines on their way to the device.
LEMMA ResetLines ==
    ASSUME TypeOK, Reset
    PROVE  /\ toDevice' \in Seq(Messages)
           /\ Len(toDevice') <= MaxLines
           /\ \A i \in 1..Len(toDevice') : \E j \in 1..Len(toDevice) :
                toDevice'[i] = toDevice[j]
<1>1. PICK lost \in 0..Len(toDevice) :
        toDevice' = SubSeq(toDevice, lost + 1, Len(toDevice))
  BY DEF Reset
<1>2. /\ toDevice \in Seq(Messages) /\ Len(toDevice) \in Nat
      /\ Len(toDevice) <= MaxLines /\ MaxLines \in Nat
      /\ \A i \in 1..Len(toDevice) : toDevice[i] \in Messages
  BY LenProperties, ElementOfSeq, LinkAssumption DEF TypeOK
<1>3. \A i \in (lost + 1)..Len(toDevice) : toDevice[i] \in Messages
  BY <1>2
<1>4. /\ toDevice' \in Seq(Messages)
      /\ Len(toDevice') = IF lost + 1 <= Len(toDevice) THEN Len(toDevice) - lost ELSE 0
      /\ \A i \in 1..(Len(toDevice) - lost) : toDevice'[i] = toDevice[lost + i]
  BY <1>1, <1>2, <1>3, SubSeqProperties
<1> QED
  BY <1>2, <1>4

-----------------------------------------------------------------------------
(* The invariant.                                                          *)

\* The initial state satisfies the invariant.
LEMMA InitInv == Init => Inv /\ SilenceIsShort
<1> SUFFICES ASSUME Init PROVE Inv /\ SilenceIsShort
    OBVIOUS
<1> USE DEF Init
<1>1. <<>> \in Seq(Messages) /\ Len(<<>>) = 0
  BY EmptySeq
<1>2. TypeOK
  BY <1>1, LinkAssumption DEF TypeOK, ValveStates
<1>3. Languages
  BY <1>1 DEF Languages
<1>4. CounterTellsTime
  BY LinkAssumption DEF CounterTellsTime
<1>5. SilenceIsShort
  <2>1. resets * Round = 0
    BY Bounds
  <2> QED
    BY <2>1 DEF SilenceIsShort
<1> QED
  BY <1>2, <1>3, <1>4, <1>5 DEF Inv

\* Every step keeps the types.
LEMMA NextType == Inv /\ [Next]_vars => TypeOK'
<1> SUFFICES ASSUME Inv, [Next]_vars PROVE TypeOK'
    OBVIOUS
<1> USE DEF Inv, clocks
<1>0. /\ toDevice \in Seq(Messages) /\ Len(toDevice) \in Nat
      /\ toHost \in Seq(Messages) /\ Len(toHost) \in Nat
  BY LenProperties DEF TypeOK
<1>1. ASSUME NEW f \in Fermenters, NEW s \in ValveStates, SetValve(f, s) PROVE TypeOK'
  <2>1. Message("type", "set_valve", f, s) \in Messages
    BY DEF Message, Messages
  <2>2. toDevice' \in Seq(Messages) /\ Len(toDevice') = Len(toDevice) + 1
    BY <1>0, <1>1, <2>1, AppendProperties DEF SetValve
  <2>3. Len(toDevice') <= MaxLines
    BY <1>0, <1>1, <2>2, LinkAssumption DEF SetValve
  <2> QED
    BY <1>1, <2>2, <2>3 DEF SetValve, TypeOK
<1>2. CASE Ping
  <2>1. Host("ping") \in Messages
    BY DEF Host, Message, Messages, NoFV, ValveStates
  <2>2. toDevice' \in Seq(Messages) /\ Len(toDevice') = Len(toDevice) + 1
    BY <1>0, <1>2, <2>1, AppendProperties DEF Ping
  <2>3. Len(toDevice') <= MaxLines
    BY <1>0, <1>2, <2>2, LinkAssumption DEF Ping
  <2> QED
    BY <1>2, <2>2, <2>3 DEF Ping, TypeOK
<1>3. CASE Read
  <2>1. toHost' \in Seq(Messages) /\ Len(toHost') = Len(toHost) - 1
    BY <1>0, <1>3, TakeOne DEF Read
  <2>2. Len(toHost') <= MaxLines
    BY <1>0, <2>1, LinkAssumption DEF TypeOK
  <2> QED
    BY <1>3, <2>1, <2>2, LinkAssumption DEF Read, TypeOK
<1>4. CASE Loop
  <2>1. /\ toDevice' \in Seq(Messages) /\ Len(toDevice') <= MaxLines
        /\ toHost' \in Seq(Messages) /\ Len(toHost') <= MaxLines
    BY <1>4, LoopLines
  <2>2. pin' \in [Wired -> ValveStates]
    <3> DEFINE m == IF toDevice = <<>> THEN Host("none") ELSE Head(toDevice)
    <3>1. m.state \in ValveStates
      BY <1>0, TakeOne DEF Host, Message, Messages, ValveStates
    <3>2. pin' = PinsAfter(m)
      BY <1>4 DEF Loop
    <3> QED
      BY <3>1, <3>2 DEF PinsAfter, IsSetValve, TypeOK
  <2>3. lastTele' \in 0..(Wrap - 1) /\ sinceTele' \in 0..(Watchdog + 1)
    BY <1>4, LinkAssumption DEF Loop, TypeOK
  <2>4. sinceLoop' \in 0..MaxLoop
    BY <1>4, LinkAssumption DEF Loop
  <2> QED
    BY <1>4, <2>1, <2>2, <2>3, <2>4 DEF Loop, TypeOK
<1>5. CASE Reset
  <2>1. toDevice' \in Seq(Messages) /\ Len(toDevice') <= MaxLines
    BY <1>5, ResetLines
  <2>2. forgot' \subseteq Wired
    BY <1>5 DEF Reset
  <2>3. pin' \in [Wired -> ValveStates]
    BY <1>5 DEF Reset, ValveStates
  <2>4. /\ ms' \in 0..(Wrap - 1) /\ lastTele' \in 0..(Wrap - 1)
        /\ sinceLoop' \in 0..MaxLoop /\ sinceTele' \in 0..(Watchdog + 1)
        /\ resets' \in 0..MaxResets
    BY <1>5, LinkAssumption DEF Reset, TypeOK
  <2> QED
    BY <1>5, <2>1, <2>2, <2>3, <2>4 DEF Reset, TypeOK
<1>6. CASE Elapse
  <2>1. ms' \in 0..(Wrap - 1)
    BY <1>6, Successor, LinkAssumption DEF Elapse, TypeOK
  <2>2. /\ silence' \in 0..(Watchdog + 1) /\ sinceTele' \in 0..(Watchdog + 1)
        /\ sinceLoop' \in 0..MaxLoop /\ sinceRead' \in 0..MaxDelay
    BY <1>6, LinkAssumption DEF Elapse, TypeOK, Older
  <2> QED
    BY <1>6, <2>1, <2>2 DEF Elapse, TypeOK
<1>7. CASE UNCHANGED vars
  BY <1>7 DEF vars, TypeOK
<1> QED
  BY <1>1, <1>2, <1>3, <1>4, <1>5, <1>6, <1>7 DEF Next

\* Every step keeps to the languages.
LEMMA NextLanguages == Inv /\ [Next]_vars => Languages'
<1> SUFFICES ASSUME Inv, [Next]_vars PROVE Languages'
    OBVIOUS
<1> USE DEF Inv, Languages, clocks, Tag
<1>0. /\ toDevice \in Seq(Messages) /\ Len(toDevice) \in Nat
      /\ toHost \in Seq(Messages) /\ Len(toHost) \in Nat
  BY LenProperties DEF TypeOK
<1>1. ASSUME NEW f \in Fermenters, NEW s \in ValveStates, SetValve(f, s)
      PROVE  Languages'
  <2> DEFINE m == Message("type", "set_valve", f, s)
  <2>1. m \in Messages /\ m.tag = "type"
    BY DEF Message, Messages
  <2>2. toDevice' = Append(toDevice, m)
    BY <1>1 DEF SetValve
  <2> HIDE DEF m
  <2>3. /\ Len(toDevice') = Len(toDevice) + 1
        /\ \A i \in 1..Len(toDevice) : toDevice'[i] = toDevice[i]
        /\ toDevice'[Len(toDevice) + 1] = m
    BY <1>0, <2>1, <2>2, AppendProperties
  <2>4. \A i \in 1..Len(toDevice') : toDevice'[i].tag = "type"
    BY <1>0, <2>1, <2>3
  <2> QED
    BY <1>1, <2>4 DEF SetValve
<1>2. CASE Ping
  <2> DEFINE m == Host("ping")
  <2>1. m \in Messages /\ m.tag = "type"
    BY DEF Host, Message, Messages, NoFV, ValveStates
  <2>2. toDevice' = Append(toDevice, m)
    BY <1>2 DEF Ping
  <2> HIDE DEF m
  <2>3. /\ Len(toDevice') = Len(toDevice) + 1
        /\ \A i \in 1..Len(toDevice) : toDevice'[i] = toDevice[i]
        /\ toDevice'[Len(toDevice) + 1] = m
    BY <1>0, <2>1, <2>2, AppendProperties
  <2>4. \A i \in 1..Len(toDevice') : toDevice'[i].tag = "type"
    BY <1>0, <2>1, <2>3
  <2> QED
    BY <1>2, <2>4 DEF Ping
<1>3. CASE Read
  <2>1. \A i \in 1..Len(toHost') : i + 1 \in 1..Len(toHost) /\ toHost'[i] = toHost[i + 1]
    BY <1>0, <1>3, TakeOne DEF Read
  <2> QED
    BY <1>3, <2>1 DEF Read
<1>4. CASE Loop
  <2>1. \A i \in 1..Len(toDevice') : toDevice'[i].tag = "type"
    BY <1>4, LoopLines, SMTT(30)
  <2>2. \A i \in 1..Len(toHost') : toHost'[i].tag = Tag
    <3>1. Len(toHost') \in Nat
      BY <1>4, LoopLines
    <3>2. \A i \in 1..Len(toHost) : toHost'[i].tag = Tag
      BY <1>4, LoopLines
    <3>3. \A i \in 1..Len(toHost') : i > Len(toHost) => toHost'[i].tag = Tag
      BY <1>4, LoopLines
    <3> QED
      BY <1>0, <3>1, <3>2, <3>3
  <2>3. ASSUME program = "firmware" PROVE \A f \in Wired : pin'[f] = "closed"
    <3> DEFINE m == IF toDevice = <<>> THEN Host("none") ELSE Head(toDevice)
    <3>1. m.tag = "type"
      BY <1>0, TakeOne DEF Host, Message
    <3>2. pin' = PinsAfter(m)
      BY <1>4 DEF Loop
    <3>3. pin' = pin
      BY <2>3, <3>1, <3>2 DEF PinsAfter, IsSetValve
    <3> QED
      BY <2>3, <3>3
  <2> QED
    BY <1>4, <2>1, <2>2, <2>3 DEF Loop
<1>5. CASE Reset
  <2>1. \A i \in 1..Len(toDevice') : toDevice'[i].tag = "type"
    BY <1>5, ResetLines
  <2> QED
    BY <1>5, <2>1 DEF Reset
<1>6. CASE Elapse
  BY <1>6 DEF Elapse
<1>7. CASE UNCHANGED vars
  BY <1>7 DEF vars
<1> QED
  BY <1>1, <1>2, <1>3, <1>4, <1>5, <1>6, <1>7 DEF Next

\* As long as the counter tells the time, it is read as that time.
LEMMA CounterRead ==
    ASSUME Inv
    PROVE  TelemetryDue <=> sinceTele > Interval
<1>1. /\ ms \in 0..(Wrap - 1) /\ lastTele \in 0..(Wrap - 1)
      /\ sinceTele \in Nat /\ sinceTele <= Round
  BY LinkAssumption DEF Inv, TypeOK, CounterTellsTime, Round
<1>2. (ms - lastTele) % Wrap = sinceTele
  BY <1>1, Difference, Bounds, LinkAssumption DEF Inv, CounterTellsTime
<1> QED
  BY <1>2 DEF TelemetryDue

\* Every step keeps the counter in time.
LEMMA NextCounter == Inv /\ [Next]_vars => CounterTellsTime'
<1> SUFFICES ASSUME Inv, [Next]_vars PROVE CounterTellsTime'
    OBVIOUS
<1> USE DEF CounterTellsTime
<1>0. /\ ms \in 0..(Wrap - 1) /\ lastTele \in 0..(Wrap - 1)
      /\ sinceTele \in Nat /\ sinceTele <= Round
      /\ sinceLoop \in 0..MaxLoop
  BY LinkAssumption DEF Inv, TypeOK, Round
<1>1. ASSUME NEW f \in Fermenters, NEW s \in ValveStates, SetValve(f, s)
      PROVE  CounterTellsTime'
  BY <1>1 DEF SetValve, Inv
<1>2. CASE Ping
  BY <1>2 DEF Ping, Inv
<1>3. CASE Read
  BY <1>3 DEF Read, Inv
<1>4. CASE Loop
  <2>1. /\ ms' = ms /\ sinceLoop' = 0
        /\ lastTele' = IF TelemetryDue THEN ms ELSE lastTele
        /\ sinceTele' = IF TelemetryDue THEN 0 ELSE sinceTele
    BY <1>4 DEF Loop
  <2>2. CASE TelemetryDue
    BY <1>0, <2>1, <2>2, LinkAssumption
  <2>3. CASE ~TelemetryDue
    BY <1>0, <2>1, <2>3, CounterRead, LinkAssumption DEF Inv
  <2> QED
    BY <2>2, <2>3
<1>5. CASE Reset
  BY <1>5, LinkAssumption DEF Reset
<1>6. CASE Elapse
  <2>1. /\ ms' = IF ms + 1 = Wrap THEN 0 ELSE ms + 1
        /\ lastTele' = lastTele
        /\ sinceLoop' = sinceLoop + 1
    BY <1>0, <1>6, Successor DEF Elapse
  <2>2. sinceTele' = sinceTele + 1
    BY <1>0, <1>6, Bounds, LinkAssumption DEF Elapse, Older
  <2> QED
    BY <1>0, <2>1, <2>2, Bounds, LinkAssumption DEF Inv
<1>7. CASE UNCHANGED vars
  BY <1>7 DEF vars, Inv
<1> QED
  BY <1>1, <1>2, <1>3, <1>4, <1>5, <1>6, <1>7 DEF Next

\* The terms of the bound on the silence are natural numbers.
LEMMA Terms ==
    ASSUME Inv
    PROVE  /\ resets \in Nat /\ resets * Round \in Nat
           /\ (resets + 1) * Round = resets * Round + Round
           /\ sinceTele \in Nat /\ sinceTele <= Round
           /\ silence \in Nat /\ sinceRead \in Nat /\ sinceRead <= MaxDelay
           /\ Len(toHost) \in Nat /\ Len(toHost) <= MaxLines
           /\ \A p \in 1..Len(toHost) :
                /\ MaxDelay * (MaxLines - p) \in Nat
                /\ MaxDelay * (MaxLines - (p - 1)) = MaxDelay * (MaxLines - p) + MaxDelay
<1>1. resets \in Nat /\ silence \in Nat /\ sinceRead \in Nat /\ sinceRead <= MaxDelay
  BY LinkAssumption DEF Inv, TypeOK
<1>2. sinceTele \in Nat /\ sinceTele <= Round
  BY LinkAssumption DEF Inv, TypeOK, CounterTellsTime, Round
<1>3. Len(toHost) \in Nat /\ Len(toHost) <= MaxLines
  BY LenProperties DEF Inv, TypeOK
<1>4. resets * Round \in Nat /\ (resets + 1) * Round = resets * Round + Round
  BY <1>1, Bounds, Products, OneMore
<1>5. ASSUME NEW p \in 1..Len(toHost)
      PROVE  /\ MaxDelay * (MaxLines - p) \in Nat
             /\ MaxDelay * (MaxLines - (p - 1)) = MaxDelay * (MaxLines - p) + MaxDelay
  <2> DEFINE room == MaxLines - p
  <2>1. room \in Nat /\ room + 1 = MaxLines - (p - 1)
    BY <1>3, LinkAssumption
  <2> HIDE DEF room
  <2>2. MaxDelay * room = room * MaxDelay /\ room * MaxDelay \in Nat
    BY <2>1, Products, LinkAssumption
  <2>3. MaxDelay * (room + 1) = MaxDelay * room + MaxDelay
    BY <2>1, OneMore, LinkAssumption
  <2>4. MaxDelay * (MaxLines - (p - 1)) = MaxDelay * room + MaxDelay
    BY <2>1, <2>3
  <2> QED
    BY <2>2, <2>4 DEF room
<1> QED
  BY <1>1, <1>2, <1>3, <1>4, <1>5

\* Every step keeps the silence short.
LEMMA NextSilence ==
    ASSUME Probes # {}, Inv, SilenceIsShort, [Next]_vars
    PROVE  SilenceIsShort'
<1> SUFFICES ASSUME program' = "sketch"
             PROVE  \/ \E p \in 1..Len(toHost') : Announced(p)'
                    \/ silence' <= resets' * Round + sinceTele'
    BY DEF SilenceIsShort, Round
<1> USE DEF clocks
<1>0. /\ toHost \in Seq(Messages)
      /\ program' = program
  BY DEF Inv, TypeOK, Next, SetValve, Ping, Read, Loop, Reset, Elapse, vars
<1>a. \/ \E p \in 1..Len(toHost) : Announced(p)
      \/ silence <= resets * Round + sinceTele
  BY <1>0 DEF SilenceIsShort
<1>1. ASSUME NEW f \in Fermenters, NEW s \in ValveStates, SetValve(f, s)
      PROVE  \/ \E p \in 1..Len(toHost') : Announced(p)'
             \/ silence' <= resets' * Round + sinceTele'
  BY <1>a, <1>1 DEF SetValve, Announced, IsTelemetry, Round
<1>2. CASE Ping
  BY <1>a, <1>2 DEF Ping, Announced, IsTelemetry, Round
<1>3. CASE Read
  <2>1. /\ resets' = resets /\ sinceTele' = sinceTele /\ sinceRead' = 0
        /\ silence' = IF IsTelemetry(Head(toHost)) THEN 0 ELSE silence
        /\ toHost' = Tail(toHost) /\ toHost # <<>>
    BY <1>3 DEF Read
  <2>2. CASE silence' = 0
    BY <2>1, <2>2, Terms
  <2>3. CASE silence <= resets * Round + sinceTele
    BY <2>1, <2>3, Terms
  <2>4. ASSUME NEW p \in 1..Len(toHost), Announced(p), ~IsTelemetry(Head(toHost))
        PROVE  \E q \in 1..Len(toHost') : Announced(q)'
    <3>1. p # 1 /\ p \in Nat
      BY <1>0, <2>1, <2>4, TakeOne DEF Announced
    <3>2. p - 1 \in 1..Len(toHost') /\ toHost'[p - 1] = toHost[p]
      BY <1>0, <2>1, <3>1, TakeOne
    <3>3. silence <= (resets + 1) * Round + MaxDelay * (MaxLines - p) + sinceRead
      BY <2>4 DEF Announced
    <3>4. /\ (resets + 1) * Round \in Nat /\ MaxDelay * (MaxLines - p) \in Nat
          /\ MaxDelay * (MaxLines - (p - 1)) = MaxDelay * (MaxLines - p) + MaxDelay
          /\ silence \in Nat /\ sinceRead \in Nat /\ sinceRead <= MaxDelay
          /\ MaxDelay \in Nat
      BY Terms, Bounds, LinkAssumption
    <3>5. silence' <= (resets' + 1) * Round + MaxDelay * (MaxLines - (p - 1)) + sinceRead'
      BY <2>1, <2>4, <3>3, <3>4
    <3>6. IsTelemetry(toHost'[p - 1])
      BY <2>4, <3>2 DEF Announced
    <3> QED
      BY <3>2, <3>5, <3>6 DEF Announced, IsTelemetry, Round
  <2> QED
    BY <1>a, <2>1, <2>2, <2>3, <2>4
<1>4. CASE Loop
  <2>1. /\ resets' = resets /\ silence' = silence /\ sinceRead' = sinceRead
        /\ sinceTele' = IF TelemetryDue THEN 0 ELSE sinceTele
    BY <1>4 DEF Loop
  <2>2. /\ Len(toHost) \in Nat /\ Len(toHost') \in Nat
        /\ Len(toHost) <= Len(toHost') /\ Len(toHost') <= MaxLines
        /\ \A i \in 1..Len(toHost) : toHost'[i] = toHost[i]
        /\ TelemetryDue =>
             /\ Len(toHost') \in 1..Len(toHost')
             /\ toHost'[Len(toHost')] = Device("telemetry")
    BY <1>4, LoopLines DEF Inv
  <2>3. ASSUME NEW p \in 1..Len(toHost), Announced(p)
        PROVE  \E q \in 1..Len(toHost') : Announced(q)'
    <3>1. p \in 1..Len(toHost') /\ toHost'[p] = toHost[p]
      BY <2>2
    <3> QED
      BY <2>1, <2>3, <3>1 DEF Announced, IsTelemetry, Round
  <2>4. CASE silence <= resets * Round + sinceTele /\ TelemetryDue
    <3> DEFINE q == Len(toHost')
    <3>1. q \in 1..Len(toHost') /\ q <= MaxLines /\ toHost'[q] = Device("telemetry")
      BY <2>2, <2>4
    <3>2. IsTelemetry(toHost'[q])
      BY <1>0, <3>1 DEF IsTelemetry, Device, Message, Tag
    <3>3. MaxDelay * (MaxLines - q) \in Nat
      <4> DEFINE room == MaxLines - q
      <4>1. room \in Nat
        BY <3>1, LinkAssumption
      <4> HIDE DEF room
      <4>2. room * MaxDelay \in Nat /\ MaxDelay * room = room * MaxDelay
        BY <4>1, Products, LinkAssumption
      <4> QED
        BY <4>2 DEF room
    <3>4. silence' <= (resets + 1) * Round
      BY <2>1, <2>4, Terms, Bounds
    <3>5. silence' <= (resets' + 1) * Round + MaxDelay * (MaxLines - q) + sinceRead'
      BY <2>1, <3>3, <3>4, Terms, Bounds, SMTT(30)
    <3> QED
      BY <3>1, <3>2, <3>5 DEF Announced, IsTelemetry, Round
  <2>5. CASE silence <= resets * Round + sinceTele /\ ~TelemetryDue
    BY <2>1, <2>5
  <2> QED
    BY <1>a, <2>3, <2>4, <2>5
<1>5. CASE Reset
  <2>1. /\ resets' = resets + 1 /\ silence' = silence /\ sinceRead' = sinceRead
        /\ sinceTele' = 0 /\ toHost' = toHost
    BY <1>5 DEF Reset
  <2>2. (resets' + 1) * Round = (resets + 1) * Round + Round
    BY <2>1, Terms, Bounds, OneMore
  <2>3. ASSUME NEW p \in 1..Len(toHost), Announced(p)
        PROVE  \E q \in 1..Len(toHost') : Announced(q)'
    <3>1. silence <= (resets + 1) * Round + MaxDelay * (MaxLines - p) + sinceRead
      BY <2>3 DEF Announced
    <3>2. MaxDelay * (MaxLines - p) \in Nat /\ silence \in Nat /\ sinceRead \in Nat
      BY Terms
    <3>3. (resets + 1) * Round \in Nat /\ Round \in Nat
      BY Terms, Bounds
    <3>4. silence' <= (resets' + 1) * Round + MaxDelay * (MaxLines - p) + sinceRead'
      BY <2>1, <2>2, <3>1, <3>2, <3>3, SMTT(30)
    <3> QED
      BY <2>1, <2>3, <3>4 DEF Announced, IsTelemetry, Round
  <2>4. CASE silence <= resets * Round + sinceTele
    <3>1. resets' * Round = resets * Round + Round
      BY <2>1, Terms
    <3>2. /\ resets * Round \in Nat /\ Round \in Nat
          /\ sinceTele \in Nat /\ sinceTele <= Round /\ silence \in Nat
      BY Terms, Bounds
    <3> QED
      BY <2>1, <2>4, <3>1, <3>2
  <2> QED
    BY <1>a, <2>1, <2>3, <2>4
<1>6. CASE Elapse
  <2>1. /\ resets' = resets /\ toHost' = toHost
        /\ silence' <= silence + 1
        /\ toHost # <<>> => sinceRead' = sinceRead + 1
    BY <1>6, Terms DEF Elapse, Older
  <2>2. sinceTele' = sinceTele + 1
    BY <1>6, Terms, Bounds, LinkAssumption DEF Elapse, Older
  <2>3. silence' \in Nat
    BY <1>6, Terms, LinkAssumption DEF Elapse, Older
  <2>4. ASSUME NEW p \in 1..Len(toHost), Announced(p)
        PROVE  \E q \in 1..Len(toHost') : Announced(q)'
    <3>1. sinceRead' = sinceRead + 1
      BY <1>0, <2>1, <2>4, EmptySeq
    <3>2. silence <= (resets + 1) * Round + MaxDelay * (MaxLines - p) + sinceRead
      BY <2>4 DEF Announced
    <3>3. MaxDelay * (MaxLines - p) \in Nat /\ silence \in Nat /\ sinceRead \in Nat
      BY Terms
    <3>4. (resets + 1) * Round \in Nat
      BY Terms, Bounds
    <3>5. silence' <= (resets' + 1) * Round + MaxDelay * (MaxLines - p) + sinceRead'
      BY <2>1, <2>3, <3>1, <3>2, <3>3, <3>4
    <3> QED
      BY <2>1, <2>4, <3>5 DEF Announced, IsTelemetry, Round
  <2>5. CASE silence <= resets * Round + sinceTele
    BY <2>1, <2>2, <2>3, <2>5, Terms
  <2> QED
    BY <1>a, <2>1, <2>4, <2>5
<1>7. CASE UNCHANGED vars
  BY <1>a, <1>7 DEF vars, Announced, IsTelemetry, Round
<1> QED
  BY <1>1, <1>2, <1>3, <1>4, <1>5, <1>6, <1>7 DEF Next

\* The bound on the silence is below the threshold of the watchdog.
LEMMA ShortEnough ==
    ASSUME Inv, SilenceIsShort
    PROVE  NoFalseTimeout
<1> SUFFICES ASSUME program = "sketch" PROVE silence <= Watchdog
    BY DEF NoFalseTimeout
<1>1. /\ resets * Round <= MaxResets * Round
      /\ (MaxResets + 1) * Round = MaxResets * Round + Round
      /\ MaxResets * Round \in Nat
  BY Terms, Bounds, Products, OneMore, LinkAssumption DEF Inv, TypeOK
<1>2. MaxDelay * MaxLines \in Nat
  <2>1. MaxLines * MaxDelay \in Nat /\ MaxDelay * MaxLines = MaxLines * MaxDelay
    BY Products, LinkAssumption
  <2> QED
    BY <2>1
<1>3. CASE silence <= resets * Round + sinceTele
  <2>1. /\ resets * Round \in Nat /\ sinceTele \in Nat /\ sinceTele <= Round
        /\ silence \in Nat /\ Round \in Nat /\ Watchdog \in Nat
        /\ (MaxResets + 1) * Round + MaxDelay * MaxLines <= Watchdog
    BY Terms, Bounds, LinkAssumption
  <2> QED
    BY <1>1, <1>2, <1>3, <2>1
<1>4. ASSUME NEW p \in 1..Len(toHost), Announced(p) PROVE silence <= Watchdog
  <2> DEFINE room == MaxLines - (p - 1)
  <2>1. room \in Nat /\ room <= MaxLines
    BY Terms, LinkAssumption
  <2>2. MaxDelay * (MaxLines - (p - 1)) = MaxDelay * (MaxLines - p) + MaxDelay
    BY Terms
  <2> HIDE DEF room
  <2>3. /\ room * MaxDelay <= MaxLines * MaxDelay
        /\ MaxDelay * room = room * MaxDelay
        /\ MaxDelay * MaxLines = MaxLines * MaxDelay
    BY <2>1, Products, LinkAssumption
  <2>4. MaxDelay * room = MaxDelay * (MaxLines - p) + MaxDelay
    BY <2>2 DEF room
  <2>5. silence <= (resets + 1) * Round + MaxDelay * (MaxLines - p) + sinceRead
    BY <1>4 DEF Announced
  <2>6. MaxDelay * (MaxLines - p) \in Nat /\ MaxDelay * room \in Nat
    BY <2>4, Terms, LinkAssumption
  <2>7. (resets + 1) * Round <= (MaxResets + 1) * Round /\ (resets + 1) * Round \in Nat
    <3>1. resets + 1 \in Nat /\ MaxResets + 1 \in Nat /\ resets + 1 <= MaxResets + 1
      BY LinkAssumption DEF Inv, TypeOK
    <3> QED
      BY <3>1, Bounds, Products
  <2>8. /\ silence \in Nat /\ sinceRead \in Nat /\ sinceRead <= MaxDelay
        /\ MaxDelay \in Nat /\ Watchdog \in Nat
        /\ (MaxResets + 1) * Round \in Nat
        /\ (MaxResets + 1) * Round + MaxDelay * MaxLines <= Watchdog
    BY <1>1, Terms, Bounds, LinkAssumption
  <2>9. MaxDelay * (MaxLines - p) + MaxDelay <= MaxDelay * MaxLines
    BY <2>3, <2>4
  <2> QED
    BY <1>2, <2>5, <2>6, <2>7, <2>8, <2>9
<1> QED
  BY <1>3, <1>4 DEF SilenceIsShort

\* The invariant is inductive.
LEMMA NextInv == Inv /\ [Next]_vars => Inv'
BY NextType, NextLanguages, NextCounter DEF Inv

-----------------------------------------------------------------------------
(* The outcome of the commands under way.                                  *)

\* With the sketch, whatever lines are queued, taken and wiped out, the outcome
\* for a valve is what was commanded last, but exactly for those in `forgot':
\* that history misses no reset that matters, and excuses nothing else.
OutcomeIsCommanded ==
    program = "sketch" =>
      \A f \in Wired : Outcome(f) = commanded[f] <=> f \notin forgot

\* Whose valve a reset has closed for good, nothing under way will open.
ForgottenIsFinal ==
    program = "sketch" => \A f \in forgot : Orders(f) = {}

\* A set of places in a line has a last one: the one with the fewest beyond it.
LEMMA LastIsLast ==
    ASSUME NEW n \in Nat, NEW S, S \subseteq 1..n, S # {}
    PROVE  Last(S) \in S /\ \A j \in S : j <= Last(S)
<1> DEFINE Beyond(i) == {j \in 1..n : j > i}
           Rests == {Beyond(i) : i \in S}
           Smaller == StrictSubsetOrdering(1..n)
<1>1. Rests \subseteq FiniteSubsetsOf(1..n) /\ Rests # {}
  <2>1. IsFiniteSet(1..n)
    BY FS_Interval
  <2>2. ASSUME NEW i \in S PROVE Beyond(i) \in FiniteSubsetsOf(1..n)
    <3>1. Beyond(i) \subseteq 1..n
      OBVIOUS
    <3> HIDE DEF Beyond
    <3> QED
      BY <2>1, <3>1, FS_Subset DEF FiniteSubsetsOf
  <2> QED
    BY <2>2
<1>2. IsWellFoundedOn(Smaller, FiniteSubsetsOf(1..n))
  BY FS_StrictSubsetOrderingWellFounded
<1>3. \E a \in Rests : \A b \in Rests : <<b, a>> \notin Smaller
  <2> HIDE DEF Smaller, Rests
  <2> QED
    BY <1>1, <1>2, WFMin
<1>4. PICK i \in S : \A j \in S : <<Beyond(j), Beyond(i)>> \notin Smaller
  BY <1>3
<1>5. ASSUME NEW j \in S, j > i PROVE FALSE
  <2>1. /\ Beyond(j) \subseteq Beyond(i) /\ Beyond(i) \subseteq 1..n
        /\ j \in Beyond(i) /\ j \notin Beyond(j)
    BY <1>5
  <2>2. <<Beyond(j), Beyond(i)>> \in Smaller
    <3> HIDE DEF Beyond
    <3> QED
      BY <2>1 DEF StrictSubsetOrdering
  <2> QED
    BY <1>4, <2>2
<1>6. \A j \in S : j <= i
  BY <1>5
<1> QED
  BY <1>6 DEF Last

\* The last of a set of places is the one that none is beyond.
LEMMA LastUnique ==
    ASSUME NEW n \in Nat, NEW S, S \subseteq 1..n,
           NEW i \in S, \A j \in S : j <= i
    PROVE  Last(S) = i
<1>1. Last(S) \in S /\ i <= Last(S) /\ Last(S) <= i
  BY LastIsLast
<1>2. i \in 1..n /\ Last(S) \in 1..n
  BY <1>1
<1> QED
  BY <1>1, <1>2

\* When the oldest lines are gone, the outcome for a valve stays what it was if
\* one of its commands is left, and is what its output says if none is.
LEMMA OldestGone ==
    ASSUME NEW k \in Nat, NEW f,
           Len(toDevice) \in Nat, Len(toDevice') \in Nat,
           Len(toDevice') = Len(toDevice) - k, program' = program,
           \A i \in 1..Len(toDevice') : toDevice'[i] = toDevice[k + i]
    PROVE  IF \E i \in Orders(f) : i > k
           THEN Orders(f)' # {} /\ Outcome(f)' = Outcome(f)
           ELSE Orders(f)' = {} /\ Outcome(f)' = pin'[f]
<1>1. \A i \in 1..Len(toDevice') :
        k + i \in 1..Len(toDevice) /\ (i \in Orders(f)' <=> k + i \in Orders(f))
  BY DEF Orders, IsSetValve, Tag
<1>2. /\ Orders(f)' \subseteq 1..Len(toDevice')
      /\ Orders(f) \subseteq 1..Len(toDevice)
  BY DEF Orders
<1>3. ASSUME NEW i \in Orders(f), i > k
      PROVE  Orders(f)' # {} /\ Outcome(f)' = Outcome(f)
  <2> DEFINE last == Last(Orders(f))
             rest == last - k
  <2>1. last \in Orders(f) /\ \A j \in Orders(f) : j <= last
    BY <1>2, LastIsLast
  <2> HIDE DEF last
  <2>2. rest \in 1..Len(toDevice') /\ k + rest = last
    BY <1>2, <1>3, <2>1
  <2>3. rest \in Orders(f)'
    BY <1>1, <2>1, <2>2
  <2>4. ASSUME NEW j \in Orders(f)' PROVE j <= rest
    <3>1. j \in 1..Len(toDevice') /\ k + j \in Orders(f)
      BY <1>1, <1>2
    <3>2. k + j <= last
      BY <2>1, <3>1
    <3> QED
      BY <2>2, <3>1, <3>2
  <2> HIDE DEF rest
  <2>5. Last(Orders(f)') = rest
    BY <1>2, <2>3, <2>4, LastUnique
  <2>6. toDevice'[rest] = toDevice[last]
    BY <2>2
  <2> QED
    BY <1>3, <2>3, <2>5, <2>6 DEF Outcome, last
<1>4. ASSUME \A i \in Orders(f) : ~(i > k)
      PROVE  Orders(f)' = {} /\ Outcome(f)' = pin'[f]
  <2>1. Orders(f)' = {}
    BY <1>1, <1>2, <1>4
  <2> QED
    BY <2>1 DEF Outcome
<1> QED
  BY <1>3, <1>4

\* A line that is no command of a valve leaves its outcome as it was; a command
\* decides it.
LEMMA OneWritten ==
    ASSUME NEW m, NEW f, Len(toDevice) \in Nat, program' = program, pin' = pin,
           Len(toDevice') = Len(toDevice) + 1,
           \A i \in 1..Len(toDevice) : toDevice'[i] = toDevice[i],
           toDevice'[Len(toDevice) + 1] = m
    PROVE  IF IsSetValve(m) /\ m.fv = f THEN Outcome(f)' = m.state
           ELSE Orders(f)' = Orders(f) /\ Outcome(f)' = Outcome(f)
<1> DEFINE n == Len(toDevice)
<1>1. /\ Orders(f)' \subseteq 1..(n + 1)
      /\ Orders(f) \subseteq 1..n
      /\ \A i \in 1..n : i \in Orders(f)' <=> i \in Orders(f)
      /\ n + 1 \in Orders(f)' <=> IsSetValve(m) /\ m.fv = f
  BY DEF Orders, IsSetValve, Tag
<1>2. CASE IsSetValve(m) /\ m.fv = f
  <2>1. n + 1 \in Orders(f)' /\ \A j \in Orders(f)' : j <= n + 1
    BY <1>1, <1>2
  <2>2. Last(Orders(f)') = n + 1
    BY <1>1, <2>1, LastUnique
  <2> QED
    BY <1>2, <2>1, <2>2 DEF Outcome
<1>3. CASE ~(IsSetValve(m) /\ m.fv = f)
  <2>1. Orders(f)' = Orders(f)
    BY <1>1, <1>3
  <2>2. Orders(f) # {} => Last(Orders(f)) \in 1..n
    BY <1>1, LastIsLast
  <2> QED
    BY <1>3, <2>1, <2>2 DEF Outcome
<1> QED
  BY <1>2, <1>3

\* A step that leaves the lines to the device and its outputs leaves the outcome.
LEMMA NothingMoved ==
    ASSUME NEW f, program' = program, pin' = pin, toDevice' = toDevice
    PROVE  Orders(f)' = Orders(f) /\ Outcome(f)' = Outcome(f)
BY DEF Outcome, Orders, IsSetValve, Tag

\* Every step moves outcomes as a command or a reset does, or not at all; and the
\* history of what a reset wiped out is right.
OutcomeInv == OutcomeIsCommanded /\ ForgottenIsFinal

\* At first nothing is commanded, under way or open.
LEMMA InitOutcome == Init => OutcomeInv /\ Controlled!DeviceInit
<1> SUFFICES ASSUME Init PROVE OutcomeInv /\ Controlled!DeviceInit
    OBVIOUS
<1>1. \A f : Orders(f) = {}
  BY EmptySeq DEF Init, Orders
<1>2. \A f \in Wired : Outcome(f) = "closed"
  BY <1>1 DEF Init, Outcome
<1>3. \A f \in Wired : commanded[f] = "closed" /\ f \notin forgot
  BY LinkAssumption DEF Init
<1>4. OutcomeInv
  BY <1>2, <1>3 DEF Init, OutcomeInv, OutcomeIsCommanded, ForgottenIsFinal
<1>5. Controlled!DeviceInit
  BY <1>2, <1>3 DEF Init, Controlled!DeviceInit
<1> QED
  BY <1>4, <1>5

\* A command decides the outcome for its valve, if the device hears it.
LEMMA SetValveOutcome ==
    ASSUME Inv, NEW g \in Fermenters, NEW s \in ValveStates, SetValve(g, s)
    PROVE  \A f \in Wired :
             IF program = "sketch" /\ f = g THEN Outcome(f)' = s
             ELSE Orders(f)' = Orders(f) /\ Outcome(f)' = Outcome(f)
<1> DEFINE m == Message("type", "set_valve", g, s)
<1>1. toDevice \in Seq(Messages) /\ Len(toDevice) \in Nat
  BY LenProperties DEF Inv, TypeOK
<1>2. m \in Messages /\ m.tag = "type" /\ m.kind = "set_valve" /\ m.fv = g /\ m.state = s
  BY DEF Message, Messages
<1>3. toDevice' = Append(toDevice, m) /\ program' = program /\ pin' = pin
  BY DEF SetValve
<1> HIDE DEF m
<1>4. /\ Len(toDevice') = Len(toDevice) + 1
      /\ \A i \in 1..Len(toDevice) : toDevice'[i] = toDevice[i]
      /\ toDevice'[Len(toDevice) + 1] = m
  BY <1>1, <1>2, <1>3, AppendProperties
<1>5. program \in {"sketch", "firmware"}
  BY LinkAssumption DEF Inv, TypeOK
<1>6. ASSUME NEW f \in Wired
      PROVE  IsSetValve(m) /\ m.fv = f <=> program = "sketch" /\ f = g
  BY <1>2, <1>5 DEF IsSetValve, Tag
<1> QED
  BY <1>1, <1>2, <1>3, <1>4, <1>6, OneWritten

\* A ping decides nothing.
LEMMA PingOutcome ==
    ASSUME Inv, Ping
    PROVE  \A f \in Wired : Orders(f)' = Orders(f) /\ Outcome(f)' = Outcome(f)
<1> DEFINE m == Host("ping")
<1>1. toDevice \in Seq(Messages) /\ Len(toDevice) \in Nat
  BY LenProperties DEF Inv, TypeOK
<1>2. m \in Messages /\ m.kind = "ping"
  BY DEF Host, Message, Messages, NoFV, ValveStates
<1>3. toDevice' = Append(toDevice, m) /\ program' = program /\ pin' = pin
  BY DEF Ping
<1> HIDE DEF m
<1>4. /\ Len(toDevice') = Len(toDevice) + 1
      /\ \A i \in 1..Len(toDevice) : toDevice'[i] = toDevice[i]
      /\ toDevice'[Len(toDevice) + 1] = m
  BY <1>1, <1>2, <1>3, AppendProperties
<1>5. ~IsSetValve(m)
  BY <1>2 DEF IsSetValve
<1> QED
  BY <1>1, <1>3, <1>4, <1>5, OneWritten

\* To take a line and obey it brings a valve nearer to its outcome, and leaves
\* that.
LEMMA LoopOutcome ==
    ASSUME Inv, Loop
    PROVE  \A f \in Wired :
             /\ Orders(f) = {} => Orders(f)' = {}
             /\ Outcome(f)' = Outcome(f)
<1> DEFINE m == IF toDevice = <<>> THEN Host("none") ELSE Head(toDevice)
<1> SUFFICES ASSUME NEW f \in Wired
             PROVE  /\ Orders(f) = {} => Orders(f)' = {}
                    /\ Outcome(f)' = Outcome(f)
  OBVIOUS
<1>1. /\ toDevice' = IF toDevice = <<>> THEN <<>> ELSE Tail(toDevice)
      /\ pin' = PinsAfter(m) /\ program' = program
  BY DEF Loop
<1>2. toDevice \in Seq(Messages) /\ pin \in [Wired -> ValveStates]
  BY DEF Inv, TypeOK
<1>3. CASE toDevice = <<>>
  <2>1. pin' = pin
    BY <1>1, <1>3 DEF PinsAfter, IsSetValve, Host, Message
  <2> QED
    BY <1>1, <1>3, <2>1, NothingMoved
<1>4. CASE toDevice # <<>>
  <2>1. /\ m = toDevice[1]
        /\ Len(toDevice) \in Nat \ {0} /\ Len(toDevice') \in Nat
        /\ Len(toDevice') = Len(toDevice) - 1
        /\ \A i \in 1..Len(toDevice') : toDevice'[i] = toDevice[1 + i]
    BY <1>1, <1>2, <1>4, TakeOne
  <2> HIDE DEF m
  <2>2. IF \E i \in Orders(f) : i > 1
        THEN Orders(f)' # {} /\ Outcome(f)' = Outcome(f)
        ELSE Orders(f)' = {} /\ Outcome(f)' = pin'[f]
    BY <1>1, <2>1, OldestGone
  <2>3. Orders(f) \subseteq 1..Len(toDevice) /\ 1 \in 1..Len(toDevice)
    BY <2>1 DEF Orders
  <2>4. 1 \in Orders(f) <=> IsSetValve(m) /\ m.fv = f
    BY <2>1, <2>3 DEF Orders
  <2>5. pin'[f] = IF 1 \in Orders(f) THEN m.state ELSE pin[f]
    BY <1>1, <1>2, <2>4 DEF PinsAfter, IsSetValve
  <2>6. ASSUME ~\E i \in Orders(f) : i > 1 PROVE Outcome(f) = pin'[f]
    <3>1. \A j \in Orders(f) : j <= 1
      BY <2>3, <2>6
    <3>2. CASE 1 \in Orders(f)
      <4>1. Last(Orders(f)) = 1
        BY <2>1, <2>3, <3>1, <3>2, LastUnique
      <4> QED
        BY <2>1, <2>5, <3>2, <4>1 DEF Outcome
    <3>3. CASE 1 \notin Orders(f)
      <4>1. Orders(f) = {}
        BY <2>3, <3>1, <3>3
      <4> QED
        BY <2>5, <3>3, <4>1 DEF Outcome
    <3> QED
      BY <3>2, <3>3
  <2> QED
    BY <2>2, <2>6
<1> QED
  BY <1>3, <1>4

\* After a reset a valve without a command is closed, and what is commanded is
\* what would have been.
LEMMA ResetOutcome ==
    ASSUME Inv, Reset
    PROVE  \A f \in Wired :
             \/ Orders(f)' # {} /\ Orders(f) # {} /\ Outcome(f)' = Outcome(f)
             \/ Orders(f)' = {} /\ Outcome(f)' = "closed"
<1> SUFFICES ASSUME NEW f \in Wired
             PROVE  \/ Orders(f)' # {} /\ Orders(f) # {} /\ Outcome(f)' = Outcome(f)
                    \/ Orders(f)' = {} /\ Outcome(f)' = "closed"
  OBVIOUS
<1>1. PICK lost \in 0..Len(toDevice) :
        toDevice' = SubSeq(toDevice, lost + 1, Len(toDevice))
  BY DEF Reset
<1>2. /\ toDevice \in Seq(Messages) /\ Len(toDevice) \in Nat
      /\ \A i \in 1..Len(toDevice) : toDevice[i] \in Messages
  BY LenProperties, ElementOfSeq DEF Inv, TypeOK
<1>3. \A i \in (lost + 1)..Len(toDevice) : toDevice[i] \in Messages
  BY <1>2
<1>4. /\ Len(toDevice') = Len(toDevice) - lost
      /\ \A i \in 1..(Len(toDevice) - lost) : toDevice'[i] = toDevice[lost + i]
  BY <1>1, <1>2, <1>3, SubSeqProperties
<1>5. IF \E i \in Orders(f) : i > lost
      THEN Orders(f)' # {} /\ Outcome(f)' = Outcome(f)
      ELSE Orders(f)' = {} /\ Outcome(f)' = pin'[f]
  <2>1. lost \in Nat /\ Len(toDevice') \in Nat /\ program' = program
    BY <1>2, <1>4 DEF Reset
  <2> QED
    BY <1>2, <1>4, <2>1, OldestGone
<1>6. pin'[f] = "closed"
  BY DEF Reset
<1> QED
  BY <1>5, <1>6

\* Every step keeps the outcomes what was commanded.
LEMMA NextOutcome == Inv /\ OutcomeInv /\ [Next]_vars => OutcomeInv'
<1> SUFFICES ASSUME Inv, OutcomeInv, [Next]_vars PROVE OutcomeInv'
    OBVIOUS
<1> USE DEF OutcomeInv, OutcomeIsCommanded, ForgottenIsFinal, clocks
<1>0. /\ commanded \in [Fermenters -> ValveStates] /\ forgot \subseteq Wired
      /\ Wired \subseteq Fermenters
  BY LinkAssumption DEF Inv, TypeOK
<1>1. ASSUME NEW g \in Fermenters, NEW s \in ValveStates, SetValve(g, s)
      PROVE  OutcomeInv'
  <2>1. /\ program' = program /\ forgot' = forgot \ {g}
        /\ commanded' = [commanded EXCEPT ![g] = s]
    BY <1>1 DEF SetValve
  <2>2. ASSUME program = "sketch", NEW f \in Wired
        PROVE  /\ Outcome(f)' = commanded'[f] <=> f \notin forgot'
               /\ f \in forgot' => Orders(f)' = {}
    <3>1. CASE f = g
      <4>1. Outcome(f)' = s
        BY <1>1, <2>2, <3>1, SetValveOutcome
      <4> QED
        BY <1>0, <2>1, <3>1, <4>1
    <3>2. CASE f # g
      <4>1. Orders(f)' = Orders(f) /\ Outcome(f)' = Outcome(f)
        BY <1>1, <3>2, SetValveOutcome
      <4> QED
        BY <1>0, <2>1, <2>2, <3>2, <4>1
    <3> QED
      BY <3>1, <3>2
  <2> QED
    BY <1>0, <2>1, <2>2
<1>2. CASE Ping
  <2>1. \A f \in Wired : Orders(f)' = Orders(f) /\ Outcome(f)' = Outcome(f)
    BY <1>2, PingOutcome
  <2> QED
    BY <1>0, <1>2, <2>1 DEF Ping
<1>3. CASE Read
  <2>1. \A f \in Wired : Orders(f)' = Orders(f) /\ Outcome(f)' = Outcome(f)
    BY <1>3, NothingMoved DEF Read
  <2> QED
    BY <1>0, <1>3, <2>1 DEF Read
<1>4. CASE Loop
  <2>1. \A f \in Wired :
          (Orders(f) = {} => Orders(f)' = {}) /\ Outcome(f)' = Outcome(f)
    BY <1>4, LoopOutcome
  <2> QED
    BY <1>0, <1>4, <2>1 DEF Loop
<1>5. CASE Reset
  <2>1. /\ program' = program /\ commanded' = commanded
        /\ forgot' = {f \in Wired : commanded[f] = "open" /\ ~Commanding(f)'}
    BY <1>5 DEF Reset
  <2>2. \A i \in 1..Len(toDevice') : toDevice'[i].tag = "type"
    BY <1>5, NextLanguages DEF Languages
  <2>3. ASSUME program = "sketch", NEW f \in Wired
        PROVE  /\ Outcome(f)' = commanded'[f] <=> f \notin forgot'
               /\ f \in forgot' => Orders(f)' = {}
    <3>1. Commanding(f)' <=> Orders(f)' # {}
      BY <2>1, <2>2, <2>3 DEF Commanding, Orders, IsSetValve, Tag
    <3>2. CASE Orders(f)' # {} /\ Orders(f) # {} /\ Outcome(f)' = Outcome(f)
      BY <2>1, <2>3, <3>1, <3>2
    <3>3. CASE Orders(f)' = {} /\ Outcome(f)' = "closed"
      <4>1. commanded[f] \in {"open", "closed"}
        BY <1>0 DEF ValveStates
      <4> QED
        BY <2>1, <2>3, <3>1, <3>3, <4>1
    <3> QED
      BY <1>5, <3>2, <3>3, ResetOutcome
  <2> QED
    BY <2>1, <2>3
<1>6. CASE Elapse
  <2>1. \A f \in Wired : Orders(f)' = Orders(f) /\ Outcome(f)' = Outcome(f)
    BY <1>6, NothingMoved DEF Elapse
  <2> QED
    BY <1>0, <1>6, <2>1 DEF Elapse
<1>7. CASE UNCHANGED vars
  <2>1. \A f \in Wired : Orders(f)' = Orders(f) /\ Outcome(f)' = Outcome(f)
    BY <1>7, NothingMoved DEF vars
  <2> QED
    BY <1>0, <1>7, <2>1 DEF vars
<1> QED
  BY <1>1, <1>2, <1>3, <1>4, <1>5, <1>6, <1>7 DEF Next

\* What the mapping makes of the variables of CommandedValves.
Asked == [f \in Wired |-> IF program = "sketch" THEN commanded[f] ELSE "closed"]
Outcomes == [f \in Wired |-> Outcome(f)]

\* A step that leaves what is commanded, the outcomes and the resets is a stutter.
LEMMA Stutters ==
    ASSUME program' = program, commanded' = commanded, resets' = resets,
           \A f \in Wired : Outcome(f)' = Outcome(f)
    PROVE  [Controlled!DeviceNext]_(Controlled!device)
<1>1. Asked' = Asked /\ Outcomes' = Outcomes
  BY DEF Asked, Outcomes
<1> QED
  BY <1>1 DEF Controlled!device, Asked, Outcomes

\* Every step is one of the valves as the runtime sees them: the write of a
\* command that is heard is the command, a reset is a reset, and all the rest,
\* the obeying included, is not seen.
LEMMA NextControlled ==
    Inv /\ [Next]_vars => [Controlled!DeviceNext]_(Controlled!device)
<1> SUFFICES ASSUME Inv, [Next]_vars
             PROVE  [Controlled!DeviceNext]_(Controlled!device)
    OBVIOUS
<1> USE DEF clocks
<1>0. /\ commanded \in [Fermenters -> ValveStates] /\ Wired \subseteq Fermenters
      /\ program \in {"sketch", "firmware"}
  BY LinkAssumption DEF Inv, TypeOK
<1>1. ASSUME NEW g \in Fermenters, NEW s \in ValveStates, SetValve(g, s)
      PROVE  [Controlled!DeviceNext]_(Controlled!device)
  <2>1. /\ program' = program /\ resets' = resets
        /\ commanded' = [commanded EXCEPT ![g] = s]
    BY <1>1 DEF SetValve
  <2>2. CASE program = "sketch" /\ g \in Wired
    <3>1. Asked' = [Asked EXCEPT ![g] = s]
      BY <1>0, <2>1, <2>2 DEF Asked
    <3>2. \A f \in Wired : Outcome(f)' = IF f = g THEN s ELSE Outcome(f)
      BY <1>1, <2>2, SetValveOutcome
    <3>3. Outcomes' = [Outcomes EXCEPT ![g] = s]
      BY <3>2 DEF Outcomes
    <3>4. Controlled!Command(g, s)
      BY <2>1, <3>1, <3>3 DEF Controlled!Command, Asked, Outcomes
    <3> QED
      BY <2>2, <3>4 DEF Controlled!DeviceNext, ValveStates
  <2>3. CASE ~(program = "sketch" /\ g \in Wired)
    <3>1. Asked' = Asked
      BY <1>0, <2>1, <2>3 DEF Asked
    <3>2. \A f \in Wired : Outcome(f)' = Outcome(f)
      BY <1>1, <2>3, SetValveOutcome
    <3>3. Outcomes' = Outcomes
      BY <3>2 DEF Outcomes
    <3> QED
      BY <2>1, <3>1, <3>3 DEF Controlled!device, Asked, Outcomes
  <2> QED
    BY <2>2, <2>3
<1>2. CASE Ping
  BY <1>2, PingOutcome, Stutters DEF Ping
<1>3. CASE Read
  <2>1. \A f \in Wired : Outcome(f)' = Outcome(f)
    BY <1>3, NothingMoved DEF Read
  <2> QED
    BY <1>3, <2>1, Stutters DEF Read
<1>4. CASE Loop
  BY <1>4, LoopOutcome, Stutters DEF Loop
<1>5. CASE Reset
  <2> DEFINE wiped == {f \in Wired : Orders(f)' = {}}
  <2>1. resets' # resets /\ program' = program /\ commanded' = commanded
    BY <1>5, LinkAssumption DEF Reset, Inv, TypeOK
  <2>2. Asked' = Asked
    BY <2>1 DEF Asked
  <2>3. \A f \in Wired : Outcome(f)' = IF f \in wiped THEN "closed" ELSE Outcome(f)
    BY <1>5, ResetOutcome
  <2>4. wiped \in SUBSET Wired
    OBVIOUS
  <2> HIDE DEF wiped
  <2>5. Outcomes' = [f \in Wired |-> IF f \in wiped THEN "closed" ELSE Outcomes[f]]
    BY <2>3 DEF Outcomes
  <2>6. Controlled!Reset
    BY <2>1, <2>2, <2>4, <2>5 DEF Controlled!Reset, Asked, Outcomes
  <2> QED
    BY <2>6 DEF Controlled!DeviceNext
<1>6. CASE Elapse
  <2>1. \A f \in Wired : Outcome(f)' = Outcome(f)
    BY <1>6, NothingMoved DEF Elapse
  <2> QED
    BY <1>6, <2>1, Stutters DEF Elapse
<1>7. CASE UNCHANGED vars
  <2>1. \A f \in Wired : Outcome(f)' = Outcome(f)
    BY <1>7, NothingMoved DEF vars
  <2> QED
    BY <1>7, <2>1, Stutters DEF vars
<1> QED
  BY <1>1, <1>2, <1>3, <1>4, <1>5, <1>6, <1>7 DEF Next

-----------------------------------------------------------------------------
(* The theorems.                                                           *)

\* The variables of the line and its clocks keep their types, the counters of the
\* device stay below Wrap and no answer overruns the line.
THEOREM TypeCorrect == Spec => []TypeOK
<1>1. Init => Inv
  BY InitInv
<1>2. Inv => TypeOK
  BY DEF Inv
<1> QED
  BY <1>1, <1>2, NextInv, PTL DEF Spec

\* fermenter.ino:108: telemetry goes on whatever the width of the counter that
\* times it, and wherever that wraps around.
THEOREM TelemetryGoesOnCorrect == Spec => []TelemetryGoesOn
<1>1. Init => Inv
  BY InitInv
<1>2. Inv => TelemetryGoesOn
  BY LinkAssumption DEF Inv, TypeOK, CounterTellsTime, TelemetryGoesOn
<1> QED
  BY <1>1, <1>2, NextInv, PTL DEF Spec

\* main.go:242: the watchdog does not fire while a device with the sketch and a
\* probe runs, for any delays and resets that leave room below its threshold.
THEOREM NoFalseTimeoutCorrect == Probes # {} => (Spec => []NoFalseTimeout)
<1> SUFFICES ASSUME Probes # {} PROVE Spec => []NoFalseTimeout
    OBVIOUS
<1>1. Init => Inv /\ SilenceIsShort
  BY InitInv
<1>2. Inv /\ SilenceIsShort /\ [Next]_vars => (Inv /\ SilenceIsShort)'
  BY NextInv, NextSilence
<1>3. Inv /\ SilenceIsShort => NoFalseTimeout
  BY ShortEnough
<1> QED
  BY <1>1, <1>2, <1>3, PTL DEF Spec

\* main.cpp:38: a device with the firmware never opens a valve, whatever the
\* runtime commands, and never ends the silence.
THEOREM FirmwareIsDeafCorrect == Spec => []FirmwareIsDeaf
<1>1. Init => Inv
  BY InitInv
<1>2. Inv => FirmwareIsDeaf
  BY DEF Inv, Languages, FirmwareIsDeaf, IsTelemetry, Tag
<1> QED
  BY <1>1, <1>2, NextInv, PTL DEF Spec

\* arduino.go:116: with the sketch, whatever is queued, obeyed or wiped out, the
\* outcome for a valve is its last command, but exactly for those whose last
\* command, to open, a reset wiped out.
THEOREM OutcomeIsCommandedCorrect == Spec => []OutcomeIsCommanded
<1>1. Init => Inv /\ OutcomeInv
  BY InitInv, InitOutcome
<1>2. Inv /\ OutcomeInv /\ [Next]_vars => (Inv /\ OutcomeInv)'
  BY NextInv, NextOutcome
<1>3. OutcomeInv => OutcomeIsCommanded
  BY DEF OutcomeInv
<1> QED
  BY <1>1, <1>2, <1>3, PTL DEF Spec

\* arduino.go:116, fermenter.ino:56: the line and the device implement valves that
\* obey at once, on which ValveControl relies.
THEOREM CommandsTakeEffectCorrect == Spec => CommandsTakeEffect
<1>1. Init => Inv /\ Controlled!DeviceInit
  BY InitInv, InitOutcome
<1> QED
  BY <1>1, NextInv, NextControlled, PTL
     DEF Spec, CommandsTakeEffect, Controlled!DeviceSpec
=============================================================================
