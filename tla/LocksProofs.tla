----------------------------- MODULE LocksProofs -----------------------------
(***************************************************************************)
(* For any number of workers and fermenters: who unlocks a mutex holds it, *)
(* nobody waits in a circle, and what is read in one go is of one moment.  *)
(*                                                                         *)
(* An activity is a sequence that is as long as there are fermenters, so   *)
(* its proof is a path: one point for each place between its steps, that   *)
(* says what is held there and what has been read, each a legal successor  *)
(* of the one before.  Paths are put together as the activities are.       *)
(***************************************************************************)
EXTENDS Locks, FiniteSetTheorems, WellFoundedInduction, SequenceTheorems, TLAPS

-----------------------------------------------------------------------------
(* Induction over the natural numbers, from the well-foundedness of the    *)
(* finite sets: the theorems on numbers have an operator as a parameter.   *)

\* A set of numbers has a smallest one.
LEMMA SmallestNumber ==
    ASSUME NEW T, T \subseteq Nat, T # {}
    PROVE \E x \in T : \A y \in T : x <= y
<1> DEFINE Segments == {0..n : n \in T}
           Smaller == StrictSubsetOrdering(Nat)
<1>1. \A n \in T : 0..n \in FiniteSubsetsOf(Nat)
  <2> SUFFICES ASSUME NEW n \in T PROVE 0..n \in FiniteSubsetsOf(Nat)
    OBVIOUS
  <2>1. n \in Int /\ 0 \in Int /\ 0..n \subseteq Nat
    OBVIOUS
  <2>2. IsFiniteSet(0..n)
    BY <2>1, FS_Interval
  <2> QED BY <2>1, <2>2 DEF FiniteSubsetsOf
<1>2. Segments \subseteq FiniteSubsetsOf(Nat) /\ Segments # {}
  BY <1>1
<1>3. IsWellFoundedOn(Smaller, FiniteSubsetsOf(Nat))
  BY FS_StrictSubsetOrderingWellFounded
<1>4. \E a \in Segments : \A b \in Segments : <<b, a>> \notin Smaller
  <2> HIDE DEF Smaller, Segments
  <2> QED BY <1>2, <1>3, WFMin
<1>5. PICK x \in T : \A y \in T : <<0..y, 0..x>> \notin Smaller
  BY <1>4
<1>6. ASSUME NEW y \in T, y < x PROVE <<0..y, 0..x>> \in Smaller
  <2>1. 0..y \in SUBSET Nat /\ 0..x \in SUBSET Nat /\ 0..y \subseteq 0..x
    BY <1>6
  <2>2. x \in 0..x /\ x \notin 0..y
    BY <1>6
  <2> QED BY <2>1, <2>2 DEF StrictSubsetOrdering
<1>7. ASSUME NEW y \in T PROVE x <= y
  <2>1. ~(y < x)
    BY <1>5, <1>6
  <2> QED BY <2>1
<1> QED BY <1>7

\* What holds of 0, and of n + 1 if of n, holds of every number.
LEMMA Induction ==
    ASSUME NEW S, 0 \in S, \A n \in Nat : n \in S => n + 1 \in S
    PROVE Nat \subseteq S
<1> SUFFICES ASSUME NEW k \in Nat, k \notin S PROVE FALSE
  OBVIOUS
<1>1. PICK x \in Nat \ S : \A y \in Nat \ S : x <= y
  BY SmallestNumber
<1>2. x - 1 \in Nat /\ x - 1 \in S
  BY <1>1
<1> QED BY <1>1, <1>2

-----------------------------------------------------------------------------
(* Points, and what a step may do at one.                                  *)

Steps ==
    [op : {"lock", "unlock", "try", "insert", "commit", "look", "change"},
     on : AllLocks, times : 0..Attempts, fatal : BOOLEAN]

\* The locks are of two ranks: an inner one may be taken while an outer one is
\* held, and while an inner one is held nothing is waited for.
Inner == {"port", "sqlite"}
Outer == Mutexes \ Inner

\* `tx': a transaction is open, which may hold the database.  `reads': where the
\* worker is with the one hold of the mutex in which it reads the fermenters.
Points ==
    [outer : Outer \cup {"none"}, inner : Inner \cup {"none"},
     tx : BOOLEAN, reads : {"before", "during", "after"}]

Point(outer, inner, tx, reads) ==
    [outer |-> outer, inner |-> inner, tx |-> tx, reads |-> reads]
Start == Point("none", "none", FALSE, "before")
Ends == {p \in Points : p.outer = "none" /\ p.inner = "none" /\ ~p.tx}

\* A path may take the reading, or a transaction, to begin at any outer lock.
LegalLock(step, p, q) ==
    /\ step.op = "lock" /\ p.inner = "none" /\ ~p.tx
    /\ \/ step.on = "port" /\ q = [p EXCEPT !.inner = "port"]
       \/ /\ step.on \in Outer /\ p.outer = "none"
          /\ q.outer = step.on /\ q.inner = "none"
          /\ \/ q.reads = p.reads
             \/ p.reads = "before" /\ q.reads = "during" /\ step.on = "state"

LegalUnlock(step, p, q) ==
    /\ step.op = "unlock"
    /\ \/ step.on \in Inner /\ p.inner = step.on /\ q = [p EXCEPT !.inner = "none"]
       \/ /\ step.on \in Outer /\ p.outer = step.on /\ p.inner = "none"
          /\ q = [p EXCEPT !.outer = "none",
                           !.reads = IF @ = "during" THEN "after" ELSE @]

\* A statement that may end the activity is run with nothing held.
LegalTry(step, p, q) ==
    /\ step.op = "try" /\ step.on = "sqlite" /\ p.inner = "none" /\ ~p.tx
    /\ step.fatal => p.outer = "none"
    /\ q = [p EXCEPT !.inner = "sqlite"]

LegalWrite(step, p, q) ==
    /\ step.on = "sqlite" /\ p.inner = "none" /\ p.tx
    /\ \/ step.op = "insert" /\ q = p
       \/ step.op = "commit" /\ q = [p EXCEPT !.tx = FALSE]

LegalVisit(step, p, q) ==
    /\ step.on = "state" /\ p.inner = "none" /\ p.outer = "state" /\ q = p
    /\ \/ step.op = "look" /\ p.reads = "during"
       \/ step.op = "change" /\ p.reads # "during"

Legal(step, p, q) ==
    \/ LegalLock(step, p, q) \/ LegalUnlock(step, p, q) \/ LegalTry(step, p, q)
    \/ LegalWrite(step, p, q) \/ LegalVisit(step, p, q)

\* The steps `s' lead from one point to the other.
Path(c, s, p, q) ==
    /\ c \in [0..Len(s) -> Points]
    /\ c[0] = p /\ c[Len(s)] = q
    /\ \A i \in 1..Len(s) : Legal(s[i], c[i - 1], c[i])
Passes(s, p, q) == s \in Seq(Steps) /\ \E c : Path(c, s, p, q)

\* Nothing to do leads nowhere else.
LEMMA PassesNothing ==
    ASSUME NEW p \in Points
    PROVE Passes(<<>>, p, p)
<1> DEFINE c == [i \in 0..0 |-> p]
<1>1. <<>> \in Seq(Steps) /\ Len(<<>>) = 0
  BY EmptySeq
<1>2. Path(c, <<>>, p, p)
  BY <1>1 DEF Path
<1> QED BY <1>1, <1>2 DEF Passes

\* One step.
LEMMA PassesStep ==
    ASSUME NEW step \in Steps, NEW p \in Points, NEW q \in Points, Legal(step, p, q)
    PROVE Passes(<<step>>, p, q)
<1> DEFINE c == [i \in 0..1 |-> IF i = 0 THEN p ELSE q]
<1>1. <<step>> \in Seq(Steps) /\ Len(<<step>>) = 1 /\ <<step>>[1] = step
  OBVIOUS
<1>2. Path(c, <<step>>, p, q)
  BY <1>1 DEF Path
<1> QED BY <1>1, <1>2 DEF Passes

\* One sequence after another.
LEMMA PassesConcat ==
    ASSUME NEW s, NEW t, NEW p, NEW q, NEW r, Passes(s, p, q), Passes(t, q, r)
    PROVE Passes(s \o t, p, r)
<1>1. s \in Seq(Steps) /\ t \in Seq(Steps)
  BY DEF Passes
<1>2. Len(s) \in Nat /\ Len(t) \in Nat
  BY <1>1, LenProperties
<1>3. /\ s \o t \in Seq(Steps)
      /\ Len(s \o t) = Len(s) + Len(t)
      /\ \A i \in 1..Len(s) + Len(t) :
           (s \o t)[i] = IF i <= Len(s) THEN s[i] ELSE t[i - Len(s)]
  BY <1>1, ConcatProperties
<1>4. PICK c : Path(c, s, p, q)
  BY DEF Passes
<1>5. PICK d : Path(d, t, q, r)
  BY DEF Passes
<1> DEFINE m == Len(s)
           n == Len(t)
           e == [i \in 0..m + n |-> IF i <= m THEN c[i] ELSE d[i - m]]
<1>6. /\ c \in [0..m -> Points] /\ d \in [0..n -> Points]
      /\ c[0] = p /\ c[m] = q /\ d[0] = q /\ d[n] = r
  BY <1>4, <1>5 DEF Path
<1>7. e \in [0..m + n -> Points]
  BY <1>2, <1>6
<1>8. e[0] = p /\ e[m + n] = r
  BY <1>2, <1>6
<1>9. ASSUME NEW i \in 1..m + n PROVE Legal((s \o t)[i], e[i - 1], e[i])
  <2>1. CASE i <= m
    <3>1. (s \o t)[i] = s[i] /\ e[i] = c[i] /\ e[i - 1] = c[i - 1] /\ i \in 1..m
      BY <1>2, <1>3, <2>1
    <3> QED BY <1>4, <3>1 DEF Path
  <2>2. CASE i > m
    <3>1. (s \o t)[i] = t[i - m] /\ i - m \in 1..n /\ e[i] = d[i - m]
      BY <1>2, <1>3, <2>2
    <3>2. e[i - 1] = d[(i - m) - 1]
      <4>1. CASE i = m + 1
        BY <1>2, <1>6, <4>1
      <4>2. CASE i # m + 1
        BY <1>2, <2>2, <4>2
      <4> QED BY <4>1, <4>2
    <3> QED BY <1>5, <3>1, <3>2 DEF Path
  <2> QED BY <1>2, <2>1, <2>2
<1>10. Path(e, s \o t, p, r)
  <2> HIDE DEF e
  <2> QED BY <1>3, <1>7, <1>8, <1>9 DEF Path
<1> QED BY <1>3, <1>10 DEF Passes

-----------------------------------------------------------------------------
(* How activities are put together.                                        *)

\* One sequence over and over, if it leads to where it began.
LEMMA PassesForEach ==
    ASSUME NEW s, NEW p, Passes(s, p, p)
    PROVE Passes(ForEach(s), p, p)
<1> DEFINE n == NumFermenters
           Rounds(f, m) ==
             f = [i \in 1..m |-> IF i = 1 THEN s ELSE f[i - 1] \o s]
           Possible == {m \in Nat : \E f : Rounds(f, m)}
           f == CHOOSE f : Rounds(f, n)
<1>1. n \in Nat \ {0}
  BY BoundsAssumption
<1>2. ForEach(s) = f[n]
  BY <1>1 DEF ForEach, FlattenSeq
<1>3. 0 \in Possible
  <2>1. Rounds([i \in 1..0 |-> s], 0)
    OBVIOUS
  <2> QED BY <2>1
<1>4. ASSUME NEW m \in Possible PROVE m + 1 \in Possible
  <2>1. PICK g : Rounds(g, m)
    BY <1>4
  <2> DEFINE Round(i) == IF i = 1 THEN s ELSE g[i - 1] \o s
             h == [i \in 1..m + 1 |-> Round(i)]
  <2>2. ASSUME NEW i \in 1..m PROVE h[i] = g[i]
    <3>1. g[i] = IF i = 1 THEN s ELSE g[i - 1] \o s
      BY <2>1
    <3> QED BY <3>1
  <2>3. ASSUME NEW i \in 1..m + 1, i # 1 PROVE h[i - 1] = g[i - 1]
    <3>1. i - 1 \in 1..m
      BY <2>3
    <3> QED BY <2>2, <3>1
  <2>4. h = [i \in 1..m + 1 |-> IF i = 1 THEN s ELSE h[i - 1] \o s]
    <3> HIDE DEF Rounds, Possible
    <3>1. \A i \in 1..m + 1 : h[i] = IF i = 1 THEN s ELSE h[i - 1] \o s
      <4> SUFFICES ASSUME NEW i \in 1..m + 1
                   PROVE h[i] = IF i = 1 THEN s ELSE h[i - 1] \o s
        OBVIOUS
      <4>1. h[i] = Round(i)
        OBVIOUS
      <4> HIDE DEF h
      <4> QED BY <2>3, <4>1
    <3> DEFINE k == [i \in 1..m + 1 |-> IF i = 1 THEN s ELSE h[i - 1] \o s]
    <3>2. DOMAIN h = 1..m + 1 /\ h = [i \in DOMAIN h |-> h[i]]
      OBVIOUS
    <3> HIDE DEF h
    <3> QED BY <3>1, <3>2
  <2>5. \E g1 : Rounds(g1, m + 1)
    <3> HIDE DEF h
    <3> QED BY <2>4
  <2> HIDE DEF Rounds
  <2> QED BY <2>5
<1>5. n \in Possible
  <2> HIDE DEF Possible
  <2> QED BY <1>1, <1>3, <1>4, Induction
<1>6. Rounds(f, n)
  BY <1>5
<1> HIDE DEF f
<1>7. \A i \in 1..n : f[i] = IF i = 1 THEN s ELSE f[i - 1] \o s
  BY <1>6
<1> DEFINE Passed == {m \in Nat : m \in 1..n => Passes(f[m], p, p)}
<1>8. 0 \in Passed
  OBVIOUS
<1>9. ASSUME NEW m \in Passed PROVE m + 1 \in Passed
  <2> SUFFICES ASSUME m + 1 \in 1..n PROVE Passes(f[m + 1], p, p)
    OBVIOUS
  <2>1. f[m + 1] = IF m + 1 = 1 THEN s ELSE f[m] \o s
    <3>1. (m + 1) - 1 = m
      OBVIOUS
    <3> QED BY <1>7, <3>1
  <2>2. CASE m = 0
    BY <2>1, <2>2
  <2>3. CASE m # 0
    <3>1. Passes(f[m], p, p)
      BY <1>1, <1>9, <2>3
    <3> QED BY <2>1, <2>3, <3>1, PassesConcat
  <2> QED BY <2>2, <2>3
<1>10. n \in Passed
  <2> HIDE DEF Passed
  <2> QED BY <1>1, <1>8, <1>9, Induction
<1> QED BY <1>1, <1>2, <1>10

\* What is done with a mutex held.
LEMMA PassesUnder ==
    ASSUME NEW l \in Mutexes, NEW s, NEW p \in Points, NEW q \in Points,
           NEW a \in Points, NEW b \in Points,
           LegalLock(Step("lock", l), p, a), Passes(s, a, b),
           LegalUnlock(Step("unlock", l), b, q)
    PROVE Passes(Under(l, s), p, q)
<1>1. Step("lock", l) \in Steps /\ Step("unlock", l) \in Steps
  BY BoundsAssumption DEF Step, Steps, AllLocks
<1>2. Passes(<<Step("lock", l)>>, p, a) /\ Passes(<<Step("unlock", l)>>, b, q)
  BY <1>1, PassesStep DEF Legal
<1>3. Passes(<<Step("lock", l)>> \o s, p, b)
  BY <1>2, PassesConcat
<1> QED BY <1>2, <1>3, PassesConcat DEF Under

\* A statement leaves everything as it was.
LEMMA PassesStatement ==
    ASSUME NEW p \in Points, p.inner = "none", ~p.tx,
           NEW times \in 0..Attempts, NEW fatal \in BOOLEAN,
           fatal => p.outer = "none"
    PROVE Passes(Statement(times, fatal), p, p)
<1> DEFINE try == [Step("try", "sqlite") EXCEPT !.times = times, !.fatal = fatal]
           done == Step("unlock", "sqlite")
           q == [p EXCEPT !.inner = "sqlite"]
<1>1. try \in Steps /\ done \in Steps
  <2>1. "sqlite" \in AllLocks /\ 0 \in 0..Attempts
    BY BoundsAssumption DEF AllLocks
  <2>2. Step("try", "sqlite") \in Steps /\ done \in Steps
    BY <2>1 DEF Step, Steps
  <2> HIDE DEF done
  <2> QED BY <2>2 DEF Steps
<1>2. q \in Points /\ q.inner = "sqlite" /\ p = [q EXCEPT !.inner = "none"]
  BY DEF Points, Inner
<1>3. Legal(try, p, q)
  BY DEF Step, Legal, LegalTry
<1>4. Legal(done, q, p)
  BY <1>2 DEF Step, Legal, LegalUnlock, Inner
<1>5. Passes(<<try>>, p, q) /\ Passes(<<done>>, q, p)
  BY <1>1, <1>2, <1>3, <1>4, PassesStep
<1>6. Statement(times, fatal) = <<try>> \o <<done>>
  BY DEF Statement
<1> QED BY <1>5, <1>6, PassesConcat

-----------------------------------------------------------------------------
(* The activities.                                                         *)

\* Nothing is held, nothing is open, and no reading is under way.
Calm(p) == p \in Ends /\ p.reads # "during"

\* While all the fermenters are read, in a transaction or not, and after it.
During(tx) == Point("state", "none", tx, "during")
After(tx) == Point("none", "none", tx, "after")

\* What leaves no trace wherever it begins, what reads the fermenters once, and
\* what is right as an activity.
Stays(s) == \A p : Calm(p) => Passes(s, p, p)
Reads(s) == Passes(s, Start, After(FALSE))
Sound(body) == \E q \in Ends : Passes(body, Start, q)

\* Who begins is there.
LEMMA StartCalm == Start \in Points /\ Calm(Start)
BY DEF Start, Point, Points, Calm, Ends

\* A change by who holds the mutex of the state and reads nothing under it.
LEMMA PassesChange ==
    ASSUME NEW p \in Points, p.outer = "state", p.inner = "none", p.reads # "during"
    PROVE Passes(<<Change>>, p, p)
<1>1. Change \in Steps
  BY BoundsAssumption DEF Change, Step, Steps, AllLocks, Mutexes
<1>2. Legal(Change, p, p)
  BY DEF Change, Step, Legal, LegalVisit
<1> QED BY <1>1, <1>2, PassesStep

\* A fermenter is read.
LEMMA PassesLook ==
    ASSUME NEW p \in Points, p.outer = "state", p.inner = "none", p.reads = "during"
    PROVE Passes(<<Look>>, p, p)
<1>1. Look \in Steps
  BY BoundsAssumption DEF Look, Step, Steps, AllLocks, Mutexes
<1>2. Legal(Look, p, p)
  BY DEF Look, Step, Legal, LegalVisit
<1> QED BY <1>1, <1>2, PassesStep

\* A row of a transaction.
LEMMA PassesInsertRow ==
    ASSUME NEW p \in Points, p.outer = "state", p.inner = "none",
           p.reads = "during", p.tx
    PROVE Passes(InsertRow, p, p)
<1> DEFINE insert == Step("insert", "sqlite")
<1>1. insert \in Steps
  BY BoundsAssumption DEF Step, Steps, AllLocks
<1>2. Legal(insert, p, p)
  BY DEF Step, Legal, LegalWrite
<1>3. Passes(<<insert>>, p, p)
  BY <1>1, <1>2, PassesStep
<1>4. InsertRow = <<Look>> \o <<insert>>
  BY DEF InsertRow
<1> QED BY <1>3, <1>4, PassesLook, PassesConcat

\* The end of a transaction.
LEMMA PassesCommit ==
    ASSUME NEW p \in Points, p.inner = "none", p.tx
    PROVE Passes(Commit, p, [p EXCEPT !.tx = FALSE])
<1> DEFINE commit == Step("commit", "sqlite")
<1>1. commit \in Steps
  BY BoundsAssumption DEF Step, Steps, AllLocks
<1>2. [p EXCEPT !.tx = FALSE] \in Points
  BY DEF Points
<1>3. Legal(commit, p, [p EXCEPT !.tx = FALSE])
  BY DEF Step, Legal, LegalWrite
<1> QED BY <1>1, <1>2, <1>3, PassesStep DEF Commit

\* The port is an inner lock.
LEMMA PassesSend ==
    ASSUME NEW p \in Points, p.inner = "none", ~p.tx
    PROVE Passes(Send, p, p)
<1> DEFINE a == [p EXCEPT !.inner = "port"]
<1>1. a \in Points /\ a.inner = "port" /\ p = [a EXCEPT !.inner = "none"]
  BY DEF Points, Inner
<1>2. "port" \in Mutexes /\ "port" \in Inner
  BY DEF Mutexes, Inner
<1>3. LegalLock(Step("lock", "port"), p, a)
  BY DEF LegalLock, Step
<1>4. LegalUnlock(Step("unlock", "port"), a, p)
  BY <1>1, <1>2 DEF LegalUnlock, Step
<1>5. Passes(<<>>, a, a)
  BY <1>1, PassesNothing
<1> QED BY <1>1, <1>2, <1>3, <1>4, <1>5, PassesUnder DEF Send

\* A statement, tried once or several times.
LEMMA PassesExec ==
    ASSUME NEW p \in Points, p.inner = "none", ~p.tx
    PROVE Passes(Exec, p, p) /\ Passes(execRetry, p, p)
<1>1. 1 \in 0..Attempts /\ Attempts \in 0..Attempts /\ FALSE \in BOOLEAN
  BY BoundsAssumption
<1> QED BY <1>1, PassesStatement DEF Exec, execRetry

\* An outer lock is held over steps that read nothing.
LEMMA PassesHold ==
    ASSUME NEW l \in Outer, NEW s, NEW p, Calm(p),
           Passes(s, [p EXCEPT !.outer = l], [p EXCEPT !.outer = l])
    PROVE Passes(Under(l, s), p, p)
<1> DEFINE a == [p EXCEPT !.outer = l]
<1>1. /\ p \in Points /\ p.outer = "none" /\ p.inner = "none" /\ ~p.tx
      /\ p.reads \in {"before", "after"}
  BY DEF Calm, Ends, Points
<1>2. a \in Points /\ a.outer = l /\ a.inner = "none" /\ a.reads = p.reads
  BY <1>1 DEF Points
<1>3. p = [a EXCEPT !.outer = "none", !.reads = IF @ = "during" THEN "after" ELSE @]
  BY <1>1, <1>2 DEF Points
<1>4. l \in Mutexes
  BY DEF Outer
<1>5. LegalLock(Step("lock", l), p, a)
  BY <1>1, <1>2 DEF LegalLock, Step
<1>6. LegalUnlock(Step("unlock", l), a, p)
  BY <1>2, <1>3 DEF LegalUnlock, Step
<1> HIDE DEF a
<1> QED BY <1>1, <1>2, <1>4, <1>5, <1>6, PassesUnder DEF a

\* The mutex of the state is held over steps that read the fermenters, and maybe
\* over those of a transaction.
LEMMA PassesReading ==
    ASSUME NEW tx \in BOOLEAN, NEW s, Passes(s, During(tx), During(tx))
    PROVE Passes(Under("state", s), Start, After(tx))
<1>1. During(tx) \in Points /\ After(tx) \in Points /\ Start \in Points
  BY DEF During, After, Start, Point, Points, Outer, Mutexes, Inner
<1>2. "state" \in Outer /\ "state" \in Mutexes
  BY DEF Outer, Mutexes, Inner
<1>3. LegalLock(Step("lock", "state"), Start, During(tx))
  BY <1>2 DEF LegalLock, Step, Start, During, Point
<1>4. /\ During(tx).outer = "state" /\ During(tx).inner = "none"
      /\ During(tx).reads = "during" /\ During(tx).tx = tx
      /\ After(tx).outer = "none" /\ After(tx).inner = "none"
      /\ After(tx).reads = "after" /\ After(tx).tx = tx
  BY DEF During, After, Point
<1>5. After(tx) = [During(tx) EXCEPT !.outer = "none",
                                     !.reads = IF @ = "during" THEN "after" ELSE @]
  BY <1>1, <1>4 DEF Points
<1>6. LegalUnlock(Step("unlock", "state"), During(tx), After(tx))
  BY <1>2, <1>4, <1>5 DEF LegalUnlock, Step
<1> QED BY <1>1, <1>2, <1>3, <1>6, PassesUnder

\* How the parts of an activity, and so the whole, are put together.
LEMMA Composition ==
    ASSUME NEW s, NEW t
    PROVE /\ Stays(<<>>)
          /\ Stays(s) /\ Stays(t) => Stays(s \o t)
          /\ Stays(s) /\ Sound(t) => Sound(s \o t)
          /\ Reads(s) /\ Stays(t) => Sound(s \o t)
          /\ Stays(s) => Sound(s)
          /\ Reads(s) => Sound(s)
<1>1. Calm(After(FALSE)) /\ After(FALSE) \in Ends
  BY DEF After, Point, Calm, Ends, Points
<1>2. Calm(Start) /\ Start \in Ends
  BY StartCalm DEF Calm
<1>3. Stays(<<>>)
  BY PassesNothing DEF Stays, Calm, Ends
<1>4. Stays(s) /\ Stays(t) => Stays(s \o t)
  BY PassesConcat DEF Stays
<1>5. Stays(s) /\ Sound(t) => Sound(s \o t)
  BY <1>2, PassesConcat DEF Stays, Sound
<1>6. Reads(s) /\ Stays(t) => Sound(s \o t)
  BY <1>1, PassesConcat DEF Stays, Sound, Reads
<1>7. Stays(s) => Sound(s)
  BY <1>2 DEF Stays, Sound
<1>8. Reads(s) => Sound(s)
  BY <1>1 DEF Reads, Sound
<1> QED BY <1>3, <1>4, <1>5, <1>6, <1>7, <1>8

\* With a mutex held nothing is, or the port and the database are used.
LEMMA Held ==
    ASSUME NEW p, Calm(p), NEW l \in Outer, NEW a, a = [p EXCEPT !.outer = l]
    PROVE /\ a \in Points /\ a.outer = l /\ a.inner = "none" /\ ~a.tx
          /\ a.reads # "during"
          /\ Passes(<<>>, a, a) /\ Passes(Send, a, a) /\ Passes(execRetry, a, a)
<1>1. a \in Points /\ a.outer = l /\ a.inner = "none" /\ ~a.tx /\ a.reads # "during"
  BY DEF Calm, Ends, Points
<1> QED BY <1>1, PassesNothing, PassesSend, PassesExec

\* A lock is taken and let go.
LEMMA StaysIdle ==
    ASSUME NEW l \in Outer
    PROVE Stays(Under(l, <<>>))
BY Held, PassesHold DEF Stays

\* The state is changed.
LEMMA StaysUpdate == Stays(Under("state", <<Change>>))
<1> SUFFICES ASSUME NEW p, Calm(p) PROVE Passes(Under("state", <<Change>>), p, p)
  BY DEF Stays
<1>1. "state" \in Outer
  BY DEF Outer, Mutexes, Inner
<1>2. Passes(<<Change>>, [p EXCEPT !.outer = "state"], [p EXCEPT !.outer = "state"])
  BY <1>1, Held, PassesChange
<1> QED BY <1>1, <1>2, PassesHold

\* The target is changed and saved, with the mutex held.
LEMMA StaysSetTarget == Stays(SetTarget)
<1> SUFFICES ASSUME NEW p, Calm(p) PROVE Passes(SetTarget, p, p)
  BY DEF Stays
<1> DEFINE a == [p EXCEPT !.outer = "state"]
<1>1. "state" \in Outer
  BY DEF Outer, Mutexes, Inner
<1>2. Passes(<<Change>>, a, a) /\ Passes(execRetry, a, a)
  BY <1>1, Held, PassesChange
<1>3. Passes(<<Change>> \o execRetry, a, a)
  BY <1>2, PassesConcat
<1> QED BY <1>1, <1>3, PassesHold DEF SetTarget

\* The watchdog closes every valve, with the mutex held.
LEMMA StaysSweep == Stays(Under("state", ForEach(Send \o <<Change>>)))
<1> SUFFICES ASSUME NEW p, Calm(p)
             PROVE Passes(Under("state", ForEach(Send \o <<Change>>)), p, p)
  BY DEF Stays
<1> DEFINE a == [p EXCEPT !.outer = "state"]
<1>1. "state" \in Outer
  BY DEF Outer, Mutexes, Inner
<1>2. Passes(<<Change>>, a, a) /\ Passes(Send, a, a)
  BY <1>1, Held, PassesChange
<1>3. Passes(ForEach(Send \o <<Change>>), a, a)
  BY <1>2, PassesConcat, PassesForEach
<1> QED BY <1>1, <1>3, PassesHold

\* The events of an evaluation.
LEMMA StaysEvents ==
    ASSUME NEW events \in {<<>>, execRetry, ForEach(execRetry)}
    PROVE Stays(Under("alarms", events))
<1> SUFFICES ASSUME NEW p, Calm(p) PROVE Passes(Under("alarms", events), p, p)
  BY DEF Stays
<1> DEFINE a == [p EXCEPT !.outer = "alarms"]
<1>1. "alarms" \in Outer
  BY DEF Outer, Mutexes, Inner
<1>2. Passes(<<>>, a, a) /\ Passes(execRetry, a, a)
  BY <1>1, Held
<1>3. Passes(ForEach(execRetry), a, a)
  BY <1>2, PassesForEach
<1>4. Passes(events, a, a)
  BY <1>2, <1>3
<1> QED BY <1>1, <1>4, PassesHold

\* Statements, and a line to the port.
LEMMA StaysStatement ==
    /\ Stays(Send) /\ Stays(Exec) /\ Stays(execRetry)
    /\ \A times \in 0..Attempts, fatal \in BOOLEAN : Stays(Statement(times, fatal))
<1>1. ASSUME NEW p, Calm(p)
      PROVE p \in Points /\ p.outer = "none" /\ p.inner = "none" /\ ~p.tx
  BY <1>1 DEF Calm, Ends
<1>2. Stays(Send)
  BY <1>1, PassesSend DEF Stays
<1>3. Stays(Exec) /\ Stays(execRetry)
  BY <1>1, PassesExec DEF Stays
<1>4. ASSUME NEW times \in 0..Attempts, NEW fatal \in BOOLEAN
      PROVE Stays(Statement(times, fatal))
  BY <1>1, PassesStatement DEF Stays
<1> QED BY <1>2, <1>3, <1>4

\* All the fermenters are read, and saved one by one or in a transaction.
LEMMA Readings ==
    /\ Reads(Export) /\ Reads(Under("state", <<Look>>))
    /\ Reads(Under("state", ForEach(<<Look>> \o execRetry)))
    /\ Sound(Under("state", ForEach(InsertRow)) \o Commit)
<1>1. /\ During(FALSE) \in Points /\ During(TRUE) \in Points /\ After(TRUE) \in Points
      /\ After(FALSE) \in Points
  BY DEF During, After, Point, Points, Outer, Mutexes, Inner
<1>2. /\ \A tx \in BOOLEAN : During(tx).outer = "state" /\ During(tx).inner = "none"
      /\ \A tx \in BOOLEAN : During(tx).reads = "during" /\ During(tx).tx = tx
      /\ \A tx \in BOOLEAN : After(tx).outer = "none" /\ After(tx).inner = "none"
      /\ \A tx \in BOOLEAN : After(tx).reads = "after" /\ After(tx).tx = tx
  BY DEF During, After, Point
<1>3. After(FALSE) = [After(TRUE) EXCEPT !.tx = FALSE]
  <2>1. ASSUME NEW p \in Points, NEW q \in Points, p.outer = q.outer,
               p.inner = q.inner, p.reads = q.reads, q.tx = FALSE
        PROVE q = [p EXCEPT !.tx = FALSE]
    BY <2>1 DEF Points
  <2>2. /\ After(TRUE).outer = After(FALSE).outer
        /\ After(TRUE).inner = After(FALSE).inner
        /\ After(TRUE).reads = After(FALSE).reads
        /\ After(FALSE).tx = FALSE
    BY <1>2
  <2> QED BY ONLY <1>1, <2>1, <2>2
<1>4. Passes(<<Look>>, During(FALSE), During(FALSE))
  BY <1>1, <1>2, PassesLook
<1>5. Passes(execRetry, During(FALSE), During(FALSE))
  BY <1>1, <1>2, PassesExec
<1>6. Passes(ForEach(<<Look>>), During(FALSE), During(FALSE))
  BY <1>4, PassesForEach
<1>7. Passes(ForEach(<<Look>> \o execRetry), During(FALSE), During(FALSE))
  BY <1>4, <1>5, PassesConcat, PassesForEach
<1>8. Passes(ForEach(InsertRow), During(TRUE), During(TRUE))
  BY <1>1, <1>2, PassesInsertRow, PassesForEach
<1>9. Reads(Export) /\ Reads(Under("state", <<Look>>))
  BY <1>4, <1>6, PassesReading DEF Reads, Export
<1>10. Reads(Under("state", ForEach(<<Look>> \o execRetry)))
  BY <1>7, PassesReading DEF Reads
<1>11. Passes(Under("state", ForEach(InsertRow)), Start, After(TRUE))
  BY <1>8, PassesReading
<1>12. Passes(Commit, After(TRUE), After(FALSE))
  BY <1>1, <1>2, <1>3, PassesCommit
<1>13. After(FALSE) \in Ends
  BY <1>1 DEF After, Point, Ends
<1> QED BY <1>9, <1>10, <1>11, <1>12, <1>13, PassesConcat DEF Sound

-----------------------------------------------------------------------------
(* The goroutines.                                                         *)

\* The locks that are taken with nothing held.
LEMMA Outers ==
    {"state", "alarms", "hub", "sessions", "prefs"} \subseteq Outer
BY DEF Outer, Mutexes, Inner

\* What the goroutines do is right from its start to its end.
LEMMA Goroutines ==
    /\ \A body \in ControllerTick : Sound(body)
    /\ \A body \in UpdateBeerTemp : Sound(body)
    /\ Sound(Send)
    /\ \A body \in WatchdogTick : Sound(body)
    /\ \A body \in Snapshot : Sound(body)
    /\ \A body \in InsertSamples : Sound(body)
    /\ \A body \in PruneSamples : Sound(body)
    /\ \A body \in Evaluate : Sound(body)
    /\ \A body \in SchedulerVisit : Sound(body)
    /\ \A body \in BroadcastTick : Sound(body)
<1>1. \A body \in ControllerTick : Sound(body)
  BY StaysUpdate, StaysStatement, Composition DEF ControllerTick
<1>2. \A body \in UpdateBeerTemp : Sound(body)
  BY StaysUpdate, Composition DEF UpdateBeerTemp
<1>3. Sound(Send)
  BY StaysStatement, Composition
<1>4. \A body \in WatchdogTick : Sound(body)
  BY StaysSweep, StaysStatement, Composition DEF WatchdogTick
<1>5. \A body \in Snapshot : Sound(body)
  BY Readings, Composition DEF Snapshot
<1>6. \A body \in InsertSamples : Sound(body)
  BY Readings, Composition DEF InsertSamples
<1>7. \A body \in PruneSamples : Sound(body)
  BY StaysStatement, Composition DEF PruneSamples
<1>8. \A body \in Evaluate : Sound(body)
  <2>1. \A events \in {<<>>, execRetry, ForEach(execRetry)} :
          Sound(Export \o Under("alarms", events))
    BY Readings, StaysEvents, Composition
  <2> QED BY <2>1 DEF Evaluate, Export
<1>9. \A body \in SchedulerVisit : Sound(body)
  BY StaysSetTarget, StaysStatement, Composition DEF SchedulerVisit
<1>10. \A body \in BroadcastTick : Sound(body)
  BY Outers, Readings, StaysIdle, Composition DEF BroadcastTick
<1> QED
  BY <1>1, <1>2, <1>3, <1>4, <1>5, <1>6, <1>7, <1>8, <1>9, <1>10

-----------------------------------------------------------------------------
(* The requests.                                                           *)

\* A session is looked up.
LEMMA StaysSession == Stays(validSession)
BY Outers, StaysIdle DEF validSession

\* A request may look the session up first.
LEMMA SoundAuthorized ==
    ASSUME NEW bodies, \A body \in bodies : Sound(body)
    PROVE \A body \in Authorized(bodies) : Sound(body)
BY StaysSession, Composition DEF Authorized

\* So is what the requests do.
LEMMA Requests ==
    /\ \A body \in handleAuth : Sound(body)
    /\ \A body \in ServeHTTP : Sound(body)
    /\ \A body \in handleSetTarget : Sound(body)
    /\ \A body \in handleSetMode : Sound(body)
    /\ \A body \in handleSetValveOverride : Sound(body)
    /\ \A body \in handleSetSettings : Sound(body)
    /\ \A body \in ProfileRequest : Sound(body)
    /\ \A body \in handleState : Sound(body)
    /\ \A body \in handleGetAlarm : Sound(body)
    /\ \A body \in handlePrefs : Sound(body)
<1>1. \A body \in handleAuth : Sound(body)
  BY StaysSession, Composition DEF handleAuth
<1>2. \A body \in ServeHTTP : Sound(body)
  BY Outers, StaysIdle, Composition DEF ServeHTTP
<1>3. \A body \in handleSetTarget : Sound(body)
  BY StaysSetTarget, Composition, SoundAuthorized DEF handleSetTarget
<1>4. \A body \in handleSetMode : Sound(body)
  <2> DEFINE Body(target) ==
               Under("state", <<Change>>) \o Exec \o target \o execRetry
  <2>1. ASSUME NEW target \in {<<>>, SetTarget} PROVE Sound(Body(target))
    <3>1. Stays(target)
      BY StaysSetTarget, Composition
    <3>2. Stays(Under("state", <<Change>>) \o Exec)
      BY StaysUpdate, StaysStatement, Composition
    <3>3. Stays(Under("state", <<Change>>) \o Exec \o target)
      BY <3>1, <3>2, Composition
    <3> QED BY <3>3, StaysStatement, Composition
  <2>2. handleSetMode = Authorized({Body(target) : target \in {<<>>, SetTarget}})
    BY DEF handleSetMode
  <2> HIDE DEF Body
  <2>3. \A body \in {Body(target) : target \in {<<>>, SetTarget}} : Sound(body)
    BY <2>1
  <2> QED BY <2>2, <2>3, SoundAuthorized
<1>5. \A body \in handleSetValveOverride : Sound(body)
  <2>1. Sound(Under("state", <<Change>>) \o execRetry)
    BY StaysUpdate, StaysStatement, Composition
  <2> QED BY <2>1, SoundAuthorized DEF handleSetValveOverride
<1>6. \A body \in handleSetSettings : Sound(body)
  <2> DEFINE set == Statement(Attempts, TRUE)
  <2>1. Stays(set)
    <3>1. Attempts \in 0..Attempts /\ TRUE \in BOOLEAN
      BY BoundsAssumption
    <3> QED BY <3>1, StaysStatement
  <2>2. Stays(set \o set) /\ Stays(set \o set \o set)
    BY <2>1, Composition
  <2>3. Stays(set \o set \o set \o Under("state", <<Change>>))
    BY <2>2, StaysUpdate, Composition
  <2>4. Sound(set \o set \o set \o Under("state", <<Change>>) \o execRetry)
    BY <2>3, StaysStatement, Composition
  <2> QED BY <2>4, SoundAuthorized DEF handleSetSettings
<1>7. \A body \in ProfileRequest : Sound(body)
  <2>1. Sound(Under("state", <<Look>>) \o Exec) /\ Sound(Exec)
    BY Readings, StaysStatement, Composition
  <2> QED BY <2>1, SoundAuthorized DEF ProfileRequest
<1>8. \A body \in handleState : Sound(body)
  BY Readings, Composition DEF handleState
<1>9. \A body \in handleGetAlarm : Sound(body)
  BY Outers, StaysIdle, Composition DEF handleGetAlarm
<1>10. \A body \in handlePrefs : Sound(body)
  <2>1. Sound(Under("prefs", <<>>))
    BY Outers, StaysIdle, Composition
  <2> QED BY <2>1, SoundAuthorized DEF handlePrefs
<1> QED
  BY <1>1, <1>2, <1>3, <1>4, <1>5, <1>6, <1>7, <1>8, <1>9, <1>10

\* Every way through every activity is a path from a start to an end.
LEMMA BodiesSound ==
    ASSUME NEW a \in Activities
    PROVE a # "nothing" /\ \A body \in Bodies[a] : Sound(body)
<1>1. a \in DOMAIN Bodies
  BY ActivitiesAssumption
<1> QED BY <1>1, Goroutines, Requests DEF Bodies

-----------------------------------------------------------------------------
(* The invariant.                                                          *)

VarTypes ==
    /\ doing \in [Workers -> Activities \cup {"nothing"}]
    /\ owner \in [AllLocks -> Workers \cup {"nobody"}]
    /\ tried \in [Workers -> 0..Attempts]
    /\ moment \in Moments
    /\ seen \in [Workers -> SUBSET Moments]
    /\ todo \in [Workers -> Seq(Steps)]

\* What is left to do is the rest of a body; who is idle has read nothing.
RestOfBody(w) ==
    IF Idle(w) THEN todo[w] = <<>> /\ seen[w] = {}
    ELSE \E body \in Bodies[doing[w]] : IsSuffix(todo[w], body)

\* A worker at a point holds what the point says, and has read what it says.
Agrees(w, p) ==
    /\ \A m \in Mutexes : owner[m] = w <=> m \in {p.outer, p.inner}
    /\ p.inner = "sqlite" => owner["sqlite"] = w
    /\ owner["sqlite"] = w => p.inner = "sqlite" \/ p.tx
    /\ p.reads = "before" => seen[w] = {}
    /\ p.reads = "during" => p.outer = "state" /\ seen[w] \subseteq {moment}
    /\ p.reads = "after" => \E m \in Moments : seen[w] \subseteq {m}

\* From where a worker is, what it has left leads to an end.
OnPath(w) == \E p \in Points, q \in Ends : Agrees(w, p) /\ Passes(todo[w], p, q)

Inv == VarTypes /\ \A w \in Workers : RestOfBody(w) /\ OnPath(w)

\* No lock has the name of a worker's place in the points.
LEMMA Names ==
    /\ "nobody" \notin Workers
    /\ Mutexes \subseteq AllLocks /\ "sqlite" \in AllLocks /\ "sqlite" \notin Mutexes
    /\ "none" \notin AllLocks
    /\ Outer \subseteq Mutexes /\ "port" \in Mutexes /\ Inner = {"port", "sqlite"}
    /\ Outer \cap Inner = {}
BY BoundsAssumption DEF AllLocks, Mutexes, Outer, Inner

\* Everyone is idle, at the start of a path that ends there.
LEMMA InitInv == Init => Inv
<1> SUFFICES ASSUME Init PROVE Inv
  OBVIOUS
<1>1. <<>> \in Seq(Steps) /\ 0 \in 0..Attempts /\ 0 \in Moments
  BY BoundsAssumption, EmptySeq DEF Moments
<1>2. VarTypes
  BY <1>1 DEF Init, VarTypes
<1>3. ASSUME NEW w \in Workers PROVE RestOfBody(w)
  BY DEF Init, RestOfBody, Idle
<1>4. ASSUME NEW w \in Workers PROVE Agrees(w, Start)
  <2>1. \A l \in AllLocks : owner[l] # w
    BY Names DEF Init
  <2> QED BY <2>1, Names DEF Init, Agrees, Start, Point
<1>5. Start \in Points /\ Start \in Ends /\ Passes(<<>>, Start, Start)
  BY StartCalm, PassesNothing DEF Calm
<1>6. ASSUME NEW w \in Workers PROVE OnPath(w)
  BY <1>4, <1>5 DEF OnPath, Init
<1> QED BY <1>2, <1>3, <1>6 DEF Inv

\* The rest of a sequence, place by place.
LEMMA SuffixPlaces ==
    ASSUME NEW s \in Seq(Steps), NEW t \in Seq(Steps)
    PROVE IsSuffix(s, t) <=>
            /\ Len(s) <= Len(t)
            /\ \A i \in 1..Len(s) : s[i] = t[Len(t) - Len(s) + i]
<1> DEFINE m == Len(s)
           n == Len(t)
<1>1. m \in Nat /\ n \in Nat
  BY LenProperties
<1>2. ASSUME NEW u \in Seq(Steps)
      PROVE /\ Reverse(u) \in Seq(Steps) /\ Len(Reverse(u)) = Len(u)
            /\ \A i \in 1..Len(u) : Reverse(u)[i] = u[(Len(u) - i) + 1]
  <2>1. Len(u) \in Nat /\ u \in [1..Len(u) -> Steps]
    BY LenProperties
  <2>2. \A i \in 1..Len(u) : u[(Len(u) - i) + 1] \in Steps
    BY <2>1
  <2>3. [i \in 1..Len(u) |-> u[(Len(u) - i) + 1]] \in Seq(Steps)
    BY <2>1, <2>2
  <2> QED BY <2>1, <2>3 DEF Reverse
<1>3. SubSeq(Reverse(s), 1, m) = Reverse(s)
  BY <1>2, SubSeqFull
<1>4. CASE m <= n
  <2>1. /\ SubSeq(Reverse(t), 1, m) \in Seq(Steps)
        /\ Len(SubSeq(Reverse(t), 1, m)) = m
        /\ \A i \in 1..m : SubSeq(Reverse(t), 1, m)[i] = Reverse(t)[i]
    <3>1. \A i \in 1..m : Reverse(t)[i] \in Steps
      BY <1>1, <1>2, <1>4, ElementOfSeq
    <3>2. /\ SubSeq(Reverse(t), 1, m) \in Seq(Steps)
          /\ Len(SubSeq(Reverse(t), 1, m)) = IF 1 <= m THEN m - 1 + 1 ELSE 0
          /\ \A i \in 1..m - 1 + 1 : SubSeq(Reverse(t), 1, m)[i] = Reverse(t)[1 + i - 1]
      BY <1>1, <3>1, SubSeqProperties
    <3> QED BY <1>1, <3>2
  <2>2. Reverse(s) = SubSeq(Reverse(t), 1, m)
        <=> \A i \in 1..m : Reverse(s)[i] = Reverse(t)[i]
    BY <1>2, <2>1, SeqEqual
  <2>3. IsSuffix(s, t) <=> \A i \in 1..m : s[(m - i) + 1] = t[(n - i) + 1]
    <3>1. IsSuffix(s, t) <=> Reverse(s) = SubSeq(Reverse(t), 1, m)
      <4>1. Len(Reverse(s)) = m /\ Len(Reverse(t)) = n
        BY <1>2
      <4> QED BY <1>3, <1>4, <4>1 DEF IsSuffix, IsPrefix
    <3>2. ASSUME NEW i \in 1..m
          PROVE Reverse(s)[i] = s[(m - i) + 1] /\ Reverse(t)[i] = t[(n - i) + 1]
      <4>1. i \in 1..n
        BY <1>1, <1>4
      <4> QED BY <1>2, <4>1
    <3> QED BY <2>2, <3>1, <3>2
  <2>4. ASSUME \A i \in 1..m : s[(m - i) + 1] = t[(n - i) + 1], NEW j \in 1..m
        PROVE s[j] = t[n - m + j]
    <3>1. (m - j) + 1 \in 1..m /\ (m - ((m - j) + 1)) + 1 = j
          /\ (n - ((m - j) + 1)) + 1 = n - m + j
      BY <1>1
    <3> QED BY <2>4, <3>1
  <2>5. ASSUME \A j \in 1..m : s[j] = t[n - m + j], NEW i \in 1..m
        PROVE s[(m - i) + 1] = t[(n - i) + 1]
    <3>1. (m - i) + 1 \in 1..m /\ n - m + ((m - i) + 1) = (n - i) + 1
      BY <1>1
    <3> QED BY <2>5, <3>1
  <2> QED BY <1>4, <2>3, <2>4, <2>5
<1>5. CASE ~(m <= n)
  BY <1>2, <1>5 DEF IsSuffix, IsPrefix
<1> QED BY <1>4, <1>5

\* The whole is a rest of itself, nothing is a rest of all, and so is what
\* comes after the first step of a rest.
LEMMA RestOfRest ==
    ASSUME NEW t \in Seq(Steps)
    PROVE /\ IsSuffix(t, t) /\ IsSuffix(<<>>, t)
          /\ \A s \in Seq(Steps) : s # <<>> /\ IsSuffix(s, t) => IsSuffix(Tail(s), t)
<1>1. Len(t) \in Nat /\ <<>> \in Seq(Steps) /\ Len(<<>>) = 0
  BY LenProperties, EmptySeq
<1>2. IsSuffix(t, t)
  BY <1>1, SuffixPlaces
<1>3. IsSuffix(<<>>, t)
  <2>1. Len(<<>>) <= Len(t) /\ \A i \in 1..Len(<<>>) : FALSE
    BY <1>1
  <2> QED BY <1>1, <2>1, SuffixPlaces
<1>4. ASSUME NEW s \in Seq(Steps), s # <<>>, IsSuffix(s, t)
      PROVE IsSuffix(Tail(s), t)
  <2>1. /\ Tail(s) \in Seq(Steps) /\ Len(s) \in Nat
        /\ Len(Tail(s)) = Len(s) - 1
        /\ \A i \in 1..Len(Tail(s)) : Tail(s)[i] = s[i + 1]
    BY <1>4, HeadTailProperties, LenProperties
  <2>2. /\ Len(s) <= Len(t)
        /\ \A i \in 1..Len(s) : s[i] = t[Len(t) - Len(s) + i]
    BY <1>4, SuffixPlaces
  <2>3. ASSUME NEW i \in 1..Len(Tail(s))
        PROVE Tail(s)[i] = t[Len(t) - Len(Tail(s)) + i]
    <3>1. i + 1 \in 1..Len(s)
          /\ Len(t) - Len(s) + (i + 1) = Len(t) - Len(Tail(s)) + i
      BY <1>1, <2>1
    <3> QED BY <2>1, <2>2, <3>1
  <2>4. Len(Tail(s)) <= Len(t)
    BY <1>1, <2>1, <2>2
  <2> QED BY <2>1, <2>3, <2>4, SuffixPlaces
<1> QED BY <1>2, <1>3, <1>4

\* Where a worker goes with its next step.
LEMMA PassesFirst ==
    ASSUME NEW s, NEW p, NEW q, Passes(s, p, q)
    PROVE /\ s = <<>> => p = q
          /\ s # <<>> =>
               \E r \in Points : Legal(Head(s), p, r) /\ Passes(Tail(s), r, q)
<1>1. s \in Seq(Steps) /\ Len(s) \in Nat
  BY LenProperties DEF Passes
<1>2. PICK c : Path(c, s, p, q)
  BY DEF Passes
<1>3. ASSUME s = <<>> PROVE p = q
  <2>1. Len(s) = 0
    BY <1>3, EmptySeq
  <2> QED BY <1>2, <2>1 DEF Path
<1>4. ASSUME s # <<>>
      PROVE \E r \in Points : Legal(Head(s), p, r) /\ Passes(Tail(s), r, q)
  <2>1. /\ Tail(s) \in Seq(Steps) /\ Len(Tail(s)) = Len(s) - 1
        /\ \A i \in 1..Len(Tail(s)) : Tail(s)[i] = s[i + 1]
        /\ Head(s) = s[1] /\ Len(s) >= 1
    BY <1>1, <1>4, HeadTailProperties, EmptySeq
  <2> DEFINE n == Len(s)
             d == [i \in 0..n - 1 |-> c[i + 1]]
  <2>2. c \in [0..n -> Points] /\ c[0] = p /\ c[n] = q
    BY <1>2 DEF Path
  <2>3. c[1] \in Points /\ Legal(Head(s), p, c[1])
    <3>1. 1 \in 1..n /\ 1 - 1 = 0
      BY <1>1, <2>1
    <3>2. Legal(s[1], c[0], c[1])
      BY <1>2, <3>1 DEF Path
    <3> QED BY <1>1, <2>1, <2>2, <3>2
  <2>4. d \in [0..n - 1 -> Points] /\ d[0] = c[1] /\ d[n - 1] = q
    BY <1>1, <2>1, <2>2
  <2>5. ASSUME NEW i \in 1..n - 1 PROVE Legal(Tail(s)[i], d[i - 1], d[i])
    <3>1. i + 1 \in 1..n /\ (i + 1) - 1 = i /\ d[i - 1] = c[i] /\ d[i] = c[i + 1]
      BY <1>1
    <3>2. Legal(s[i + 1], c[i], c[i + 1])
      BY <1>2, <3>1 DEF Path
    <3> QED BY <2>1, <3>1, <3>2
  <2>6. Path(d, Tail(s), c[1], q)
    <3> HIDE DEF d
    <3> QED BY <2>1, <2>4, <2>5 DEF Path
  <2> QED BY <2>1, <2>3, <2>6 DEF Passes
<1> QED BY <1>3, <1>4

-----------------------------------------------------------------------------
(* The steps.                                                              *)

\* Where a worker is, and where it is after its next step.
LEMMA Place ==
    ASSUME Inv, NEW w \in Workers, todo[w] # <<>>
    PROVE /\ Head(todo[w]) \in Steps /\ On(w) \in AllLocks
          /\ Tail(todo[w]) \in Seq(Steps)
          /\ \E p \in Points, r \in Points, q \in Ends :
               /\ Agrees(w, p) /\ Passes(todo[w], p, q)
               /\ Legal(Head(todo[w]), p, r) /\ Passes(Tail(todo[w]), r, q)
<1>1. todo[w] \in Seq(Steps)
  BY DEF Inv, VarTypes
<1>2. Head(todo[w]) \in Steps /\ Tail(todo[w]) \in Seq(Steps)
  BY <1>1, HeadTailProperties
<1>3. On(w) \in AllLocks
  BY <1>2 DEF On, Steps
<1>4. PICK p \in Points, q \in Ends : Agrees(w, p) /\ Passes(todo[w], p, q)
  BY DEF Inv, OnPath
<1>5. PICK r \in Points : Legal(Head(todo[w]), p, r) /\ Passes(Tail(todo[w]), r, q)
  BY <1>4, PassesFirst
<1> QED BY <1>2, <1>3, <1>4, <1>5

\* A worker whose locks and readings a step leaves alone, and while it holds the
\* mutex of the state the moment too, is where it was.
Undisturbed(v) ==
    /\ seen'[v] = seen[v]
    /\ \A l \in AllLocks : owner'[l] = v <=> owner[l] = v
    /\ moment' = moment \/ owner["state"] # v

\* So what it has left still leads to an end.
LEMMA UndisturbedOnPath ==
    ASSUME Inv, NEW v \in Workers, Undisturbed(v), todo'[v] = todo[v]
    PROVE OnPath(v)'
<1>1. PICK p \in Points, q \in Ends : Agrees(v, p) /\ Passes(todo[v], p, q)
  BY DEF Inv, OnPath
<1>2. "state" \in Mutexes
  BY DEF Mutexes
<1>3. p.reads = "during" => moment' = moment
  BY <1>1, <1>2 DEF Agrees, Undisturbed
<1>4. Agrees(v, p)'
  BY <1>1, <1>3, Names DEF Agrees, Undisturbed
<1> QED BY <1>1, <1>4 DEF OnPath

\* A worker goes on to the next step of its body.
LEMMA GoOnInv ==
    ASSUME Inv, NEW w \in Workers, todo[w] # <<>>, GoOn(w), UNCHANGED doing,
           owner' \in [AllLocks -> Workers \cup {"nobody"}],
           tried' \in [Workers -> 0..Attempts],
           moment' \in Moments, seen' \in [Workers -> SUBSET Moments],
           NEW r \in Points, NEW q \in Ends,
           Passes(Tail(todo[w]), r, q), Agrees(w, r)',
           \A v \in Workers \ {w} : Undisturbed(v)
    PROVE Inv'
<1>1. /\ todo \in [Workers -> Seq(Steps)]
      /\ doing \in [Workers -> Activities \cup {"nothing"}]
  BY DEF Inv, VarTypes
<1>2. /\ todo' = [todo EXCEPT ![w] = Tail(todo[w])]
      /\ todo'[w] = Tail(todo[w]) /\ \A v \in Workers \ {w} : todo'[v] = todo[v]
  BY <1>1 DEF GoOn
<1>3. Tail(todo[w]) \in Seq(Steps)
  BY Place
<1>4. VarTypes'
  BY <1>1, <1>2, <1>3 DEF VarTypes
<1>5. ASSUME NEW v \in Workers PROVE RestOfBody(v)'
  <2>1. CASE v = w
    <3>1. ~Idle(w) /\ doing[w] \in Activities
      BY <1>1 DEF Inv, RestOfBody, Idle
    <3>2. PICK body \in Bodies[doing[w]] : IsSuffix(todo[w], body)
      BY <3>1 DEF Inv, RestOfBody
    <3>3. body \in Seq(Steps)
      BY <3>1, BodiesSound DEF Sound, Passes
    <3>4. IsSuffix(Tail(todo[w]), body)
      BY <1>1, <3>2, <3>3, RestOfRest
    <3> QED BY <1>2, <2>1, <3>1, <3>4 DEF RestOfBody, Idle
  <2>2. CASE v # w
    BY <1>2, <2>2 DEF Inv, RestOfBody, Idle, Undisturbed
  <2> QED BY <2>1, <2>2
<1>6. ASSUME NEW v \in Workers PROVE OnPath(v)'
  <2>1. CASE v = w
    BY <1>2, <2>1 DEF OnPath
  <2>2. CASE v # w
    BY <1>2, <2>2, UndisturbedOnPath
  <2> QED BY <2>1, <2>2
<1> QED BY <1>4, <1>5, <1>6 DEF Inv

\* Who begins is at the start of its body.
LEMMA BeginInv ==
    ASSUME Inv, NEW w \in Workers, Begin(w)
    PROVE Inv'
<1>1. PICK a \in Activities :
         /\ doing' = [doing EXCEPT ![w] = a]
         /\ \E body \in Bodies[a] : todo' = [todo EXCEPT ![w] = body]
  BY DEF Begin
<1>2. PICK body \in Bodies[a] : todo' = [todo EXCEPT ![w] = body]
  BY <1>1
<1>3. Idle(w) /\ UNCHANGED <<owner, tried, moment, seen>>
  BY DEF Begin
<1>4. a # "nothing" /\ Sound(body)
  BY BodiesSound
<1>5. body \in Seq(Steps)
  BY <1>4 DEF Sound, Passes
<1>6. /\ todo \in [Workers -> Seq(Steps)]
      /\ doing \in [Workers -> Activities \cup {"nothing"}]
  BY DEF Inv, VarTypes
<1>7. VarTypes'
  BY <1>1, <1>2, <1>3, <1>5, <1>6 DEF Inv, VarTypes
<1>8. ASSUME NEW v \in Workers PROVE RestOfBody(v)'
  <2>1. CASE v = w
    <3>1. todo'[v] = body /\ doing'[v] = a
      BY <1>1, <1>2, <1>6, <2>1
    <3> QED BY <1>4, <1>5, <3>1, RestOfRest DEF RestOfBody, Idle
  <2>2. CASE v # w
    BY <1>1, <1>2, <1>3, <1>6, <2>2 DEF Inv, RestOfBody, Idle
  <2> QED BY <2>1, <2>2
<1>9. ASSUME NEW v \in Workers PROVE OnPath(v)'
  <2>1. CASE v = w
    <3>1. todo[w] = <<>> /\ seen[w] = {}
      BY <1>3 DEF Inv, RestOfBody
    <3>2. PICK p \in Ends : Agrees(w, p)
      BY <3>1, PassesFirst DEF Inv, OnPath
    <3>3. \A l \in AllLocks : owner[l] # w
      BY <3>2, Names DEF Agrees, Ends, AllLocks
    <3>4. PICK q \in Ends : Passes(body, Start, q)
      BY <1>4 DEF Sound
    <3>5. Agrees(w, Start)'
      BY <1>3, <3>1, <3>3, Names DEF Agrees, Start, Point
    <3>6. todo'[w] = body
      BY <1>2, <1>6
    <3> QED BY <2>1, <3>4, <3>5, <3>6, StartCalm DEF OnPath
  <2>2. CASE v # w
    <3>1. Undisturbed(v) /\ todo'[v] = todo[v]
      BY <1>2, <1>3, <1>6, <2>2 DEF Undisturbed
    <3> QED BY <3>1, UndisturbedOnPath
  <2> QED BY <2>1, <2>2
<1> QED BY <1>7, <1>8, <1>9 DEF Inv

\* A lock that is free is taken: its place in the point was free too.
LEMMA LockInv ==
    ASSUME Inv, NEW w \in Workers, Lock(w)
    PROVE Inv'
<1>1. At(w, "lock") /\ todo[w] # <<>> /\ GoOn(w)
  BY DEF Lock, At
<1>2. /\ owner[On(w)] = "nobody" /\ owner' = [owner EXCEPT ![On(w)] = w]
      /\ UNCHANGED <<doing, tried, moment, seen>>
  BY DEF Lock, Hold
<1>3. PICK p \in Points, r \in Points, q \in Ends :
        /\ Agrees(w, p) /\ Legal(Head(todo[w]), p, r)
        /\ Passes(Tail(todo[w]), r, q)
  BY <1>1, Place
<1>4. LegalLock(Head(todo[w]), p, r)
  BY <1>1, <1>3 DEF At, Legal, LegalUnlock, LegalTry, LegalWrite, LegalVisit
<1>5. On(w) \in AllLocks /\ Head(todo[w]).on = On(w)
  BY <1>1, Place DEF On
<1>6. VarTypes
  BY DEF Inv
<1>7. /\ owner' \in [AllLocks -> Workers \cup {"nobody"}]
      /\ owner'[On(w)] = w /\ \A l \in AllLocks \ {On(w)} : owner'[l] = owner[l]
  BY <1>2, <1>5, <1>6 DEF VarTypes
<1>8. \A v \in Workers \ {w} : Undisturbed(v)
  BY <1>2, <1>7, Names DEF Undisturbed
<1>9. Agrees(w, r)'
  <2>1. /\ p.inner = "none" /\ ~p.tx /\ owner["sqlite"] # w
    BY <1>3, <1>4 DEF LegalLock, Agrees
  <2>2. CASE On(w) = "port"
    <3>1. r = [p EXCEPT !.inner = "port"]
      BY <1>4, <1>5, <2>2, Names DEF LegalLock
    <3>2. r.inner = "port" /\ r.outer = p.outer /\ r.reads = p.reads
      BY <3>1 DEF Points
    <3> QED BY <1>2, <1>3, <1>7, <2>1, <2>2, <3>2, Names DEF Agrees
  <2>3. CASE On(w) # "port"
    <3>1. /\ On(w) \in Outer /\ p.outer = "none"
          /\ r.outer = On(w) /\ r.inner = "none"
          /\ \/ r.reads = p.reads
             \/ p.reads = "before" /\ r.reads = "during" /\ On(w) = "state"
      BY <1>4, <1>5, <2>3 DEF LegalLock
    <3>2. \A m \in Mutexes : owner'[m] = w <=> m \in {r.outer, r.inner}
      BY <1>3, <1>7, <2>1, <3>1, Names DEF Agrees
    <3>3. owner'["sqlite"] # w
      BY <1>7, <2>1, <3>1, Names
    <3>4. p.reads # "during"
      BY <1>3, <3>1 DEF Agrees
    <3> QED BY <1>2, <1>3, <3>1, <3>2, <3>3, <3>4 DEF Agrees
  <2> QED BY <2>2, <2>3
<1> QED BY <1>1, <1>2, <1>3, <1>6, <1>7, <1>8, <1>9, GoOnInv DEF VarTypes

\* A lock is let go that the point says is held.
LEMMA UnlockInv ==
    ASSUME Inv, NEW w \in Workers, Unlock(w)
    PROVE Inv'
<1>1. At(w, "unlock") /\ todo[w] # <<>> /\ GoOn(w)
  BY DEF Unlock, At
<1>2. /\ owner' = [owner EXCEPT ![On(w)] = "nobody"]
      /\ UNCHANGED <<doing, tried, moment, seen>>
  BY DEF Unlock, Release
<1>3. PICK p \in Points, r \in Points, q \in Ends :
        /\ Agrees(w, p) /\ Legal(Head(todo[w]), p, r)
        /\ Passes(Tail(todo[w]), r, q)
  BY <1>1, Place
<1>4. LegalUnlock(Head(todo[w]), p, r)
  BY <1>1, <1>3 DEF At, Legal, LegalLock, LegalTry, LegalWrite, LegalVisit
<1>5. On(w) \in AllLocks /\ Head(todo[w]).on = On(w)
  BY <1>1, Place DEF On
<1>6. VarTypes
  BY DEF Inv
<1>7. /\ owner' \in [AllLocks -> Workers \cup {"nobody"}]
      /\ owner'[On(w)] = "nobody"
      /\ \A l \in AllLocks \ {On(w)} : owner'[l] = owner[l]
  BY <1>2, <1>5, <1>6 DEF VarTypes
<1>8. owner[On(w)] = w
  BY <1>3, <1>4, <1>5, Names DEF LegalUnlock, Agrees
<1>9. \A v \in Workers \ {w} : Undisturbed(v)
  BY <1>2, <1>7, <1>8, Names DEF Undisturbed
<1>10. Agrees(w, r)'
  <2>1. CASE On(w) \in Inner
    <3>1. p.inner = On(w) /\ r = [p EXCEPT !.inner = "none"]
      BY <1>4, <1>5, <2>1, Names DEF LegalUnlock
    <3>2. r.inner = "none" /\ r.outer = p.outer /\ r.reads = p.reads /\ r.tx = p.tx
      BY <3>1 DEF Points
    <3>3. p.outer \in Outer \cup {"none"}
      BY DEF Points
    <3> QED BY <1>2, <1>3, <1>7, <2>1, <3>1, <3>2, <3>3, Names DEF Agrees
  <2>2. CASE On(w) \notin Inner
    <3>1. /\ On(w) \in Outer /\ p.outer = On(w) /\ p.inner = "none"
          /\ r = [p EXCEPT !.outer = "none",
                           !.reads = IF @ = "during" THEN "after" ELSE @]
      BY <1>4, <1>5, <2>2 DEF LegalUnlock
    <3>2. /\ r.outer = "none" /\ r.inner = "none" /\ r.tx = p.tx
          /\ r.reads = IF p.reads = "during" THEN "after" ELSE p.reads
      BY <3>1 DEF Points
    <3>3. \A m \in Mutexes : owner'[m] = w <=> m \in {r.outer, r.inner}
      BY <1>3, <1>7, <3>1, <3>2, Names DEF Agrees
    <3>4. owner'["sqlite"] = owner["sqlite"]
      BY <1>7, <3>1, Names
    <3>5. moment \in Moments
      BY <1>6 DEF VarTypes
    <3> QED BY <1>2, <1>3, <3>1, <3>2, <3>3, <3>4, <3>5 DEF Agrees
  <2> QED BY <2>1, <2>2
<1> QED BY <1>1, <1>2, <1>3, <1>6, <1>7, <1>9, <1>10, GoOnInv DEF VarTypes

\* A statement has the database to itself.
LEMMA TryInv ==
    ASSUME Inv, NEW w \in Workers, Try(w)
    PROVE Inv'
<1>1. At(w, "try") /\ todo[w] # <<>> /\ GoOn(w)
  BY DEF Try, At
<1>2. /\ owner[On(w)] = "nobody" /\ owner' = [owner EXCEPT ![On(w)] = w]
      /\ tried' = [tried EXCEPT ![w] = 0]
      /\ UNCHANGED <<doing, moment, seen>>
  BY DEF Try, Hold
<1>3. PICK p \in Points, r \in Points, q \in Ends :
        /\ Agrees(w, p) /\ Legal(Head(todo[w]), p, r)
        /\ Passes(Tail(todo[w]), r, q)
  BY <1>1, Place
<1>4. LegalTry(Head(todo[w]), p, r)
  BY <1>1, <1>3 DEF At, Legal, LegalLock, LegalUnlock, LegalWrite, LegalVisit
<1>5. On(w) = "sqlite" /\ p.inner = "none" /\ r = [p EXCEPT !.inner = "sqlite"]
  BY <1>4 DEF LegalTry, On
<1>6. VarTypes
  BY DEF Inv
<1>7. /\ owner' \in [AllLocks -> Workers \cup {"nobody"}]
      /\ owner'["sqlite"] = w /\ \A m \in Mutexes : owner'[m] = owner[m]
  BY <1>2, <1>5, <1>6, Names DEF VarTypes
<1>8. tried' \in [Workers -> 0..Attempts]
  BY <1>2, <1>6, BoundsAssumption DEF VarTypes
<1>9. \A v \in Workers \ {w} : Undisturbed(v)
  BY <1>2, <1>5, <1>7, Names DEF Undisturbed, AllLocks
<1>10. Agrees(w, r)'
  <2>1. r.inner = "sqlite" /\ r.outer = p.outer /\ r.reads = p.reads
    BY <1>5 DEF Points
  <2> QED BY <1>2, <1>3, <1>5, <1>7, <2>1, Names DEF Agrees
<1> QED
  BY <1>1, <1>2, <1>3, <1>6, <1>7, <1>8, <1>9, <1>10, GoOnInv DEF VarTypes

\* A statement is tried again, or given up: both of its steps are left out.
LEMMA FindBusyInv ==
    ASSUME Inv, NEW w \in Workers, FindBusy(w)
    PROVE Inv'
<1> DEFINE step == Head(todo[w])
           again == tried[w] + 1 < step.times
           rest == IF again THEN todo[w]
                   ELSE IF step.fatal THEN <<>> ELSE Tail(Tail(todo[w]))
<1>1. At(w, "try") /\ todo[w] # <<>> /\ UNCHANGED <<doing, owner, moment, seen>>
  BY DEF FindBusy, At
<1>2. VarTypes
  BY DEF Inv
<1>3. step \in Steps /\ step.times \in 0..Attempts /\ tried[w] \in 0..Attempts
  BY <1>1, <1>2, Place DEF VarTypes, Steps
<1>4. /\ todo' = [todo EXCEPT ![w] = rest]
      /\ tried' = [tried EXCEPT ![w] = IF again THEN tried[w] + 1 ELSE 0]
  <2>1. CASE again
    <3>1. [todo EXCEPT ![w] = todo[w]] = todo
      BY <1>2 DEF VarTypes
    <3> QED BY <2>1, <3>1 DEF FindBusy
  <2>2. CASE ~again
    BY <2>2 DEF FindBusy
  <2> QED BY <2>1, <2>2
<1>5. PICK p \in Points, r \in Points, q \in Ends :
        /\ Agrees(w, p) /\ Passes(todo[w], p, q)
        /\ Legal(step, p, r) /\ Passes(Tail(todo[w]), r, q)
  BY <1>1, Place
<1>6. LegalTry(step, p, r)
  BY <1>1, <1>5 DEF At, Legal, LegalLock, LegalUnlock, LegalWrite, LegalVisit
<1>7. /\ p.inner = "none" /\ ~p.tx /\ r = [p EXCEPT !.inner = "sqlite"]
      /\ step.fatal => p.outer = "none"
  BY <1>6 DEF LegalTry
<1>8. r.inner = "sqlite" /\ [r EXCEPT !.inner = "none"] = p
  BY <1>7 DEF Points
<1>9. /\ Tail(todo[w]) # <<>>
      /\ Passes(Tail(Tail(todo[w])), p, q)
  <2>1. r # q
    BY <1>8 DEF Ends
  <2>2. Tail(todo[w]) # <<>>
    BY <1>5, <2>1, PassesFirst
  <2>3. PICK o \in Points :
          Legal(Head(Tail(todo[w])), r, o) /\ Passes(Tail(Tail(todo[w])), o, q)
    BY <1>5, <2>2, PassesFirst
  <2>4. o = p
    BY <1>8, <2>3
    DEF Legal, LegalLock, LegalUnlock, LegalTry, LegalWrite, LegalVisit
  <2> QED BY <2>2, <2>3, <2>4
<1>10. \E e \in Ends : Passes(rest, p, e)
  <2>1. CASE again
    BY <1>5, <2>1
  <2>2. CASE ~again /\ step.fatal
    <3>1. p \in Ends
      BY <1>7, <2>2 DEF Ends
    <3> QED BY <2>2, <3>1, PassesNothing
  <2>3. CASE ~again /\ ~step.fatal
    BY <1>9, <2>3
  <2> QED BY <2>1, <2>2, <2>3
<1>11. rest \in Seq(Steps)
  BY <1>10 DEF Passes
<1>12. VarTypes'
  <2>1. (IF again THEN tried[w] + 1 ELSE 0) \in 0..Attempts
    BY <1>3, BoundsAssumption
  <2> HIDE DEF again, rest
  <2> QED BY <1>1, <1>2, <1>4, <1>11, <2>1 DEF VarTypes
<1>13. /\ todo'[w] = rest /\ \A v \in Workers \ {w} : todo'[v] = todo[v]
  BY <1>2, <1>4 DEF VarTypes
<1> HIDE DEF rest
<1>14. ASSUME NEW v \in Workers PROVE RestOfBody(v)'
  <2>1. CASE v = w
    <3>1. ~Idle(w) /\ doing[w] \in Activities
      BY <1>1, <1>2 DEF Inv, RestOfBody, Idle, VarTypes
    <3>2. PICK body \in Bodies[doing[w]] : IsSuffix(todo[w], body)
      BY <3>1 DEF Inv, RestOfBody
    <3>3. body \in Seq(Steps)
      BY <3>1, BodiesSound DEF Sound, Passes
    <3>4. todo[w] \in Seq(Steps) /\ Tail(todo[w]) \in Seq(Steps)
      BY <1>1, <1>2, Place DEF VarTypes
    <3>5. IsSuffix(Tail(todo[w]), body)
      BY <1>1, <3>2, <3>3, <3>4, RestOfRest
    <3>6. IsSuffix(Tail(Tail(todo[w])), body)
      BY <1>9, <3>3, <3>4, <3>5, RestOfRest
    <3>7. IsSuffix(rest, body)
      BY <3>2, <3>3, <3>6, RestOfRest DEF rest
    <3> QED BY <1>1, <1>13, <2>1, <3>1, <3>7 DEF RestOfBody, Idle
  <2>2. CASE v # w
    BY <1>1, <1>13, <2>2 DEF Inv, RestOfBody, Idle
  <2> QED BY <2>1, <2>2
<1>15. ASSUME NEW v \in Workers PROVE OnPath(v)'
  <2>1. CASE v = w
    <3>1. Agrees(w, p)'
      BY <1>1, <1>5 DEF Agrees
    <3> QED BY <1>10, <1>13, <2>1, <3>1 DEF OnPath
  <2>2. CASE v # w
    <3>1. Undisturbed(v)
      BY <1>1 DEF Undisturbed
    <3> QED BY <1>13, <2>2, <3>1, UndisturbedOnPath
  <2> QED BY <2>1, <2>2
<1> QED BY <1>12, <1>14, <1>15 DEF Inv

\* A row takes the database for the transaction, has it, or goes without.
LEMMA InsertInv ==
    ASSUME Inv, NEW w \in Workers, Insert(w)
    PROVE Inv'
<1>1. At(w, "insert") /\ todo[w] # <<>> /\ GoOn(w) /\ UNCHANGED <<doing, moment, seen>>
  BY DEF Insert, At
<1>2. PICK p \in Points, r \in Points, q \in Ends :
        /\ Agrees(w, p) /\ Legal(Head(todo[w]), p, r)
        /\ Passes(Tail(todo[w]), r, q)
  BY <1>1, Place
<1>3. LegalWrite(Head(todo[w]), p, r)
  BY <1>1, <1>2 DEF At, Legal, LegalLock, LegalUnlock, LegalTry, LegalVisit
<1>4. On(w) = "sqlite" /\ p.inner = "none" /\ p.tx /\ r = p
  BY <1>1, <1>3 DEF LegalWrite, On, At
<1>5. VarTypes
  BY DEF Inv
<1>6. /\ \/ owner["sqlite"] \in {"nobody", w} /\ owner' = [owner EXCEPT !["sqlite"] = w]
         \/ owner' = owner
      /\ tried' = tried \/ tried' = [tried EXCEPT ![w] = 1]
  BY <1>4 DEF Insert, Hold
<1>7. /\ owner' \in [AllLocks -> Workers \cup {"nobody"}]
      /\ \A m \in Mutexes : owner'[m] = owner[m]
      /\ \A v \in Workers \ {w} : owner'["sqlite"] = v <=> owner["sqlite"] = v
  <2>1. CASE owner' = owner
    BY <1>5, <2>1 DEF VarTypes
  <2>2. CASE owner["sqlite"] \in {"nobody", w} /\ owner' = [owner EXCEPT !["sqlite"] = w]
    BY <1>5, <2>2, Names DEF VarTypes
  <2> QED BY <1>6, <2>1, <2>2
<1>8. tried' \in [Workers -> 0..Attempts]
  <2>1. CASE tried' = tried
    BY <1>5, <2>1 DEF VarTypes
  <2>2. CASE tried' = [tried EXCEPT ![w] = 1]
    <3>1. 1 \in 0..Attempts
      BY BoundsAssumption
    <3> QED BY <1>5, <2>2, <3>1 DEF VarTypes
  <2> QED BY <1>6, <2>1, <2>2
<1>9. \A v \in Workers \ {w} : Undisturbed(v)
  BY <1>1, <1>7 DEF Undisturbed, AllLocks
<1>10. Agrees(w, r)'
  BY <1>1, <1>2, <1>4, <1>7 DEF Agrees
<1> QED
  BY <1>1, <1>2, <1>5, <1>7, <1>8, <1>9, <1>10, GoOnInv DEF VarTypes

\* The transaction lets the database go if it has it.
LEMMA CommitRowsInv ==
    ASSUME Inv, NEW w \in Workers, CommitRows(w)
    PROVE Inv'
<1>1. /\ At(w, "commit") /\ todo[w] # <<>> /\ GoOn(w)
      /\ UNCHANGED <<doing, tried, moment, seen>>
  BY DEF CommitRows, At
<1>2. PICK p \in Points, r \in Points, q \in Ends :
        /\ Agrees(w, p) /\ Legal(Head(todo[w]), p, r)
        /\ Passes(Tail(todo[w]), r, q)
  BY <1>1, Place
<1>3. LegalWrite(Head(todo[w]), p, r)
  BY <1>1, <1>2 DEF At, Legal, LegalLock, LegalUnlock, LegalTry, LegalVisit
<1>4. On(w) = "sqlite" /\ p.inner = "none" /\ r = [p EXCEPT !.tx = FALSE]
  BY <1>1, <1>3 DEF LegalWrite, On, At
<1>5. VarTypes
  BY DEF Inv
<1>6. owner' = IF owner["sqlite"] = w THEN [owner EXCEPT !["sqlite"] = "nobody"]
               ELSE owner
  BY <1>4 DEF CommitRows, Release
<1>7. /\ owner' \in [AllLocks -> Workers \cup {"nobody"}]
      /\ \A m \in Mutexes : owner'[m] = owner[m]
      /\ owner'["sqlite"] # w
      /\ \A v \in Workers \ {w} : owner'["sqlite"] = v <=> owner["sqlite"] = v
  BY <1>5, <1>6, Names DEF VarTypes
<1>8. \A v \in Workers \ {w} : Undisturbed(v)
  BY <1>1, <1>7 DEF Undisturbed, AllLocks
<1>9. Agrees(w, r)'
  <2>1. r.outer = p.outer /\ r.inner = "none" /\ r.reads = p.reads
    BY <1>4 DEF Points
  <2> QED BY <1>1, <1>2, <1>4, <1>7, <2>1 DEF Agrees
<1> QED BY <1>1, <1>2, <1>5, <1>7, <1>8, <1>9, GoOnInv DEF VarTypes

\* Who reads holds the mutex, so the moment is the one it has read before.
LEMMA ReadFermenterInv ==
    ASSUME Inv, NEW w \in Workers, ReadFermenter(w)
    PROVE Inv'
<1>1. /\ At(w, "look") /\ todo[w] # <<>> /\ GoOn(w)
      /\ seen' = [seen EXCEPT ![w] = seen[w] \cup {moment}]
      /\ UNCHANGED <<doing, owner, tried, moment>>
  BY DEF ReadFermenter, At
<1>2. PICK p \in Points, r \in Points, q \in Ends :
        /\ Agrees(w, p) /\ Legal(Head(todo[w]), p, r)
        /\ Passes(Tail(todo[w]), r, q)
  BY <1>1, Place
<1>3. r = p /\ p.reads = "during"
  BY <1>1, <1>2
  DEF At, Legal, LegalLock, LegalUnlock, LegalTry, LegalWrite, LegalVisit
<1>4. VarTypes
  BY DEF Inv
<1>5. /\ seen' \in [Workers -> SUBSET Moments]
      /\ seen'[w] = seen[w] \cup {moment}
      /\ \A v \in Workers \ {w} : seen'[v] = seen[v]
  BY <1>1, <1>4 DEF VarTypes
<1>6. \A v \in Workers \ {w} : Undisturbed(v)
  BY <1>1, <1>5 DEF Undisturbed
<1>7. Agrees(w, r)'
  BY <1>1, <1>2, <1>3, <1>5 DEF Agrees
<1> QED BY <1>1, <1>2, <1>4, <1>5, <1>6, <1>7, GoOnInv DEF VarTypes

\* Who changes the state holds its mutex, so nobody else is reading.
LEMMA ChangeStateInv ==
    ASSUME Inv, NEW w \in Workers, ChangeState(w)
    PROVE Inv'
<1>1. /\ At(w, "change") /\ todo[w] # <<>> /\ GoOn(w)
      /\ moment' = (moment + 1) % Cardinality(Moments)
      /\ UNCHANGED <<doing, owner, tried, seen>>
  BY DEF ChangeState, At
<1>2. PICK p \in Points, r \in Points, q \in Ends :
        /\ Agrees(w, p) /\ Legal(Head(todo[w]), p, r)
        /\ Passes(Tail(todo[w]), r, q)
  BY <1>1, Place
<1>3. r = p /\ p.outer = "state" /\ p.reads # "during"
  BY <1>1, <1>2
  DEF At, Legal, LegalLock, LegalUnlock, LegalTry, LegalWrite, LegalVisit
<1>4. VarTypes
  BY DEF Inv
<1>5. moment' \in Moments
  <2>1. Cardinality(0..2) = 3
    <3>1. 0 \in Int /\ 2 \in Int /\ ~(0 > 2) /\ 2 - 0 + 1 = 3
      OBVIOUS
    <3> QED BY <3>1, FS_Interval
  <2>2. moment' = (moment + 1) % 3 /\ moment \in 0..2
    BY <1>1, <1>4, <2>1 DEF Moments, VarTypes
  <2> QED BY <2>2 DEF Moments
<1>6. owner["state"] = w
  BY <1>2, <1>3 DEF Agrees, Mutexes
<1>7. \A v \in Workers \ {w} : Undisturbed(v)
  BY <1>1, <1>6 DEF Undisturbed
<1>8. Agrees(w, r)'
  BY <1>1, <1>2, <1>3 DEF Agrees
<1> QED BY <1>1, <1>2, <1>4, <1>5, <1>7, <1>8, GoOnInv DEF VarTypes

\* Who finishes holds nothing, and forgets what it has read.
LEMMA FinishInv ==
    ASSUME Inv, NEW w \in Workers, Finish(w)
    PROVE Inv'
<1>1. /\ todo[w] = <<>>
      /\ doing' = [doing EXCEPT ![w] = "nothing"]
      /\ tried' = [tried EXCEPT ![w] = 0]
      /\ seen' = [seen EXCEPT ![w] = {}]
      /\ UNCHANGED <<todo, owner, moment>>
  BY DEF Finish
<1>2. VarTypes
  BY DEF Inv
<1>3. /\ doing'[w] = "nothing" /\ seen'[w] = {}
      /\ \A v \in Workers \ {w} : doing'[v] = doing[v] /\ seen'[v] = seen[v]
  BY <1>1, <1>2 DEF VarTypes
<1>4. VarTypes'
  BY <1>1, <1>2, BoundsAssumption DEF VarTypes
<1>5. ASSUME NEW v \in Workers PROVE RestOfBody(v)'
  BY <1>1, <1>3 DEF Inv, RestOfBody, Idle
<1>6. ASSUME NEW v \in Workers PROVE OnPath(v)'
  <2>1. CASE v = w
    <3>1. PICK p \in Ends : Agrees(w, p)
      BY <1>1, PassesFirst DEF Inv, OnPath
    <3>2. \A l \in AllLocks : owner[l] # w
      BY <3>1, Names DEF Agrees, Ends, AllLocks
    <3>3. Agrees(w, Start)'
      BY <1>1, <1>3, <3>2, Names DEF Agrees, Start, Point
    <3>4. Start \in Ends /\ Passes(<<>>, Start, Start)
      BY StartCalm, PassesNothing DEF Calm
    <3> QED BY <1>1, <2>1, <3>3, <3>4, StartCalm DEF OnPath
  <2>2. CASE v # w
    <3>1. Undisturbed(v)
      BY <1>1, <1>3, <2>2 DEF Undisturbed
    <3> QED BY <1>1, <3>1, UndisturbedOnPath
  <2> QED BY <2>1, <2>2
<1> QED BY <1>4, <1>5, <1>6 DEF Inv

\* One step after another.
LEMMA NextInv == Inv /\ [Next]_vars => Inv'
<1> SUFFICES ASSUME Inv, [Next]_vars PROVE Inv'
  OBVIOUS
<1>1. CASE UNCHANGED vars
  BY <1>1
  DEF vars, Inv, VarTypes, RestOfBody, Idle, OnPath, Agrees
<1>2. ASSUME NEW w \in Workers, Begin(w) PROVE Inv'
  BY <1>2, BeginInv
<1>3. ASSUME NEW w \in Workers, Proceed(w) PROVE Inv'
  BY <1>3, LockInv, UnlockInv, TryInv, FindBusyInv, InsertInv, CommitRowsInv,
     ReadFermenterInv, ChangeStateInv, FinishInv DEF Proceed
<1> QED BY <1>1, <1>2, <1>3 DEF Next

-----------------------------------------------------------------------------
(* What follows.                                                           *)

\* Who waits for a lock holds no inner one, and none at all if it waits for an
\* outer one.
LEMMA WaiterHolds ==
    ASSUME Inv, NEW v \in Workers, At(v, "lock") \/ At(v, "try")
    PROVE /\ On(v) \in AllLocks
          /\ \A l \in Inner : owner[l] # v
          /\ On(v) \in Outer => \A l \in AllLocks : owner[l] # v
<1>1. todo[v] # <<>>
  BY DEF At
<1>2. PICK p \in Points, r \in Points :
        Agrees(v, p) /\ Legal(Head(todo[v]), p, r)
  BY <1>1, Place
<1>3. LegalLock(Head(todo[v]), p, r) \/ LegalTry(Head(todo[v]), p, r)
  BY <1>2 DEF At, Legal, LegalUnlock, LegalWrite, LegalVisit
<1>4. p.inner = "none" /\ ~p.tx
  BY <1>3 DEF LegalLock, LegalTry
<1>5. On(v) \in Outer => p.outer = "none"
  BY <1>3, Names DEF LegalLock, LegalTry, On
<1>6. p.outer \in Outer \cup {"none"}
  BY DEF Points
<1>7. \A l \in Inner : owner[l] # v
  BY <1>2, <1>4, <1>6, Names DEF Agrees
<1>8. On(v) \in Outer => \A l \in AllLocks : owner[l] # v
  BY <1>2, <1>4, <1>5, <1>7, Names DEF Agrees, AllLocks
<1>9. On(v) \in AllLocks
  BY <1>1, Place
<1> QED BY <1>7, <1>8, <1>9

\* Who unlocks is at a point that holds; who is done is at an end.
LEMMA InvType == Inv => TypeOK
<1> SUFFICES ASSUME Inv PROVE TypeOK
  OBVIOUS
<1>1. VarTypes
  BY DEF Inv
<1>2. ASSUME NEW w \in Workers
      PROVE IF Idle(w) THEN todo[w] = <<>>
            ELSE \E body \in Bodies[doing[w]] : IsSuffix(todo[w], body)
  BY DEF Inv, RestOfBody
<1>3. ASSUME NEW w \in Workers, At(w, "unlock") PROVE owner[On(w)] = w
  <2>1. todo[w] # <<>>
    BY <1>3 DEF At
  <2>2. PICK p \in Points, r \in Points :
          Agrees(w, p) /\ Legal(Head(todo[w]), p, r)
    BY <2>1, Place
  <2>3. LegalUnlock(Head(todo[w]), p, r)
    BY <1>3, <2>2 DEF At, Legal, LegalLock, LegalTry, LegalWrite, LegalVisit
  <2> QED BY <2>2, <2>3, Names DEF LegalUnlock, Agrees, On
<1>4. ASSUME NEW w \in Workers, todo[w] = <<>>
      PROVE \A l \in AllLocks : owner[l] # w
  <2>1. PICK p \in Ends : Agrees(w, p)
    BY <1>4, PassesFirst DEF Inv, OnPath
  <2> QED BY <2>1, Names DEF Agrees, Ends, AllLocks
<1> QED BY <1>1, <1>2, <1>3, <1>4 DEF VarTypes, TypeOK

\* No chain of waits has more than two links.
WaitsAreShort ==
    \A u, v, w, x \in Workers :
      ~(WaitsFor(u, v) /\ WaitsFor(v, w) /\ WaitsFor(w, x))

\* As long as there is work, somebody has work and waits for nobody.
SomeoneGoesOn ==
    (\E w \in Workers : ~Idle(w)) =>
      \E w \in Workers : ~Idle(w) /\ \A v \in Workers : ~WaitsFor(w, v)

\* Of those that wait, the one another waits for holds an outer lock, so it
\* waits for an inner one, and who holds that waits for nobody.
LEMMA InvShortWaits == Inv => WaitsAreShort
<1> SUFFICES ASSUME Inv,
                    NEW u \in Workers, NEW v \in Workers,
                    NEW w \in Workers, NEW x \in Workers,
                    WaitsFor(u, v), WaitsFor(v, w), WaitsFor(w, x)
             PROVE FALSE
  BY DEF WaitsAreShort
<1>1. ASSUME NEW y \in Workers, NEW z \in Workers, WaitsFor(y, z)
      PROVE (At(y, "lock") \/ At(y, "try")) /\ owner[On(y)] = z
  BY <1>1 DEF WaitsFor
<1>2. On(u) \in AllLocks /\ owner[On(u)] = v
  BY <1>1, WaiterHolds
<1>3. On(v) \in AllLocks /\ On(v) \notin Outer
  BY <1>1, <1>2, WaiterHolds
<1>4. On(v) \in Inner
  BY <1>3 DEF Outer, Inner, AllLocks
<1>5. owner[On(v)] = w /\ \A l \in Inner : owner[l] # w
  BY <1>1, WaiterHolds
<1> QED BY <1>4, <1>5

\* In a circle the chains have no end.
LEMMA InvNoCircle == Inv => NoCircularWait
<1> SUFFICES ASSUME Inv, NEW S \in SUBSET Workers, S # {},
                    \A v \in S : \E w \in S : WaitsFor(v, w)
             PROVE FALSE
  BY DEF NoCircularWait
<1>1. WaitsAreShort
  BY InvShortWaits
<1>2. PICK u \in S : TRUE
  OBVIOUS
<1>3. PICK v \in S : WaitsFor(u, v)
  BY <1>2
<1>4. PICK w \in S : WaitsFor(v, w)
  BY <1>3
<1>5. PICK x \in S : WaitsFor(w, x)
  BY <1>4
<1> QED BY <1>1, <1>3, <1>4, <1>5 DEF WaitsAreShort

\* Who holds a lock is at work, so a chain of waits ends with one who is.
LEMMA InvSomeoneGoesOn == Inv => SomeoneGoesOn
<1> SUFFICES ASSUME Inv, NEW u \in Workers, ~Idle(u),
                    \A w \in Workers : ~Idle(w) => \E v \in Workers : WaitsFor(w, v)
             PROVE FALSE
  BY DEF SomeoneGoesOn
<1>1. ASSUME NEW y \in Workers, NEW z \in Workers, WaitsFor(y, z) PROVE ~Idle(z)
  <2>1. (At(y, "lock") \/ At(y, "try")) /\ owner[On(y)] = z
    BY <1>1 DEF WaitsFor
  <2>2. On(y) \in AllLocks
    BY <2>1, WaiterHolds
  <2>3. Idle(z) => todo[z] = <<>>
    BY DEF Inv, RestOfBody
  <2>4. todo[z] = <<>> => \A l \in AllLocks : owner[l] # z
    BY InvType DEF TypeOK
  <2> QED BY <2>1, <2>2, <2>3, <2>4
<1>2. PICK v \in Workers : WaitsFor(u, v)
  OBVIOUS
<1>3. PICK w \in Workers : WaitsFor(v, w)
  BY <1>1, <1>2
<1>4. PICK x \in Workers : WaitsFor(w, x)
  BY <1>1, <1>3
<1> QED BY <1>2, <1>3, <1>4, InvShortWaits DEF WaitsAreShort

\* Before, during and after a reading it is of one moment at most.
LEMMA InvOneMoment == Inv => OneMoment
<1> SUFFICES ASSUME Inv, NEW w \in Workers PROVE Cardinality(seen[w]) <= 1
  BY DEF OneMoment
<1>1. PICK p \in Points : Agrees(w, p)
  BY DEF Inv, OnPath
<1>2. \E m \in Moments : seen[w] \subseteq {m}
  <2>1. p.reads \in {"before", "during", "after"}
    BY DEF Points
  <2>2. moment \in Moments
    BY DEF Inv, VarTypes
  <2> QED BY <1>1, <2>1, <2>2 DEF Agrees
<1>3. PICK m \in Moments : seen[w] \in SUBSET {m}
  BY <1>2
<1>4. IsFiniteSet({m}) /\ Cardinality({m}) = 1
  BY FS_Singleton
<1> QED BY <1>3, <1>4, FS_Subset

\* main.go:238, sqlite.go:171, manager.go:143: for any number of goroutines,
\* requests and fermenters, each activity goes through the steps of its code,
\* unlocks only what it holds and ends with nothing held.
THEOREM TypeCorrect == Spec => []TypeOK
<1>1. Spec => []Inv
  BY InitInv, NextInv, PTL DEF Spec
<1> QED BY <1>1, InvType, PTL

\* main.go:238, sqlite.go:171, manager.go:143: no number of them ever wait for
\* each other in a circle.
THEOREM NoCircularWaitCorrect == Spec => []NoCircularWait
<1>1. Spec => []Inv
  BY InitInv, NextInv, PTL DEF Spec
<1> QED BY <1>1, InvNoCircle, PTL

\* main.go:238, sqlite.go:171, manager.go:143: who waits waits for one who waits,
\* at most, for one who waits for nobody: a mutex held over a statement or a write
\* to the port is the longest way to what holds everyone up.
THEOREM WaitsAreShortCorrect == Spec => []WaitsAreShort
<1>1. Spec => []Inv
  BY InitInv, NextInv, PTL DEF Spec
<1> QED BY <1>1, InvShortWaits, PTL

\* controller.go:229: whatever is held, somebody who has begun can go on: the runtime
\* as a whole never stands still.
THEOREM SomeoneGoesOnCorrect == Spec => []SomeoneGoesOn
<1>1. Spec => []Inv
  BY InitInv, NextInv, PTL DEF Spec
<1> QED BY <1>1, InvSomeoneGoesOn, PTL

\* sqlite.go:228, controller.go:153: what one round of samples, one snapshot or
\* one message reads of any number of fermenters is of one moment.
THEOREM OneMomentCorrect == Spec => []OneMoment
<1>1. Spec => []Inv
  BY InitInv, NextInv, PTL DEF Spec
<1> QED BY <1>1, InvOneMoment, PTL
=============================================================================
