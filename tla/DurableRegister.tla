--------------------------- MODULE DurableRegister ---------------------------
(***************************************************************************)
(* What clients may expect of named values that a process keeps in memory  *)
(* and saves: while the process is up a value is what was written last,    *)
(* and after a crash it is one of those promised.  They are the value      *)
(* whose write was answered last and those written since, whose answers    *)
(* are outstanding or whose saves failed, and the defaults a store that    *)
(* fails has fallen back to.                                               *)
(***************************************************************************)
CONSTANTS
    Names,
    Values,
    Initial,   \* the value of every name before any is written
    Defaults   \* values the store may make up

VARIABLES
    up,        \* whether the process is up
    value,     \* the values in force; of no meaning while it is down
    promised   \* the values each name may be found with after a crash

registers == <<up, value, promised>>

Init ==
    /\ ~up
    /\ promised = [n \in Names |-> {Initial}]

Promise(n, vs) == promised' = [promised EXCEPT ![n] = @ \cup vs]

Write(n, v) ==
    /\ up /\ up'
    /\ value' = [value EXCEPT ![n] = v]
    /\ Promise(n, {v})

\* An answer: some of the values written earlier will not come back.
Settle(n) ==
    /\ up /\ up'
    /\ \E kept \in SUBSET promised[n] :
         value[n] \in kept /\ promised' = [promised EXCEPT ![n] = kept]
    /\ UNCHANGED value

FallBack(n) ==
    /\ up /\ up'
    /\ \E v \in Defaults : Promise(n, {v})
    /\ UNCHANGED value

Crash == up /\ ~up' /\ UNCHANGED promised

Resume ==
    /\ ~up /\ up'
    /\ \A n \in Names : value'[n] \in promised[n]
    /\ UNCHANGED promised

\* The process prepares its start; what it cannot read falls back.
Prepare ==
    /\ ~up /\ ~up'
    /\ promised' \in [Names -> SUBSET Values]
    /\ \A n \in Names : /\ promised[n] \subseteq promised'[n]
                        /\ promised'[n] \subseteq promised[n] \cup Defaults

Next ==
    \/ \E n \in Names, v \in Values : Write(n, v)
    \/ \E n \in Names : Settle(n) \/ FallBack(n)
    \/ Crash
    \/ Resume
    \/ Prepare

Spec == Init /\ [][Next]_registers
=============================================================================
