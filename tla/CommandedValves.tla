--------------------------- MODULE CommandedValves ---------------------------
(***************************************************************************)
(* Valves as the controllers of the runtime see them: a command takes      *)
(* effect at once, and but for commands nothing moves a valve except a     *)
(* reset of the device, which closes some.  Those that a command sent      *)
(* before the reset and obeyed after it opens again stay open.             *)
(***************************************************************************)
CONSTANT Valves

VARIABLES
    asked,    \* the last command for each valve
    valve,
    resets    \* the number of resets of the device

device == <<asked, valve, resets>>

DeviceInit ==
    /\ asked = [v \in Valves |-> "closed"]
    /\ valve = [v \in Valves |-> "closed"]
    /\ resets = 0

Command(v, state) ==
    /\ asked' = [asked EXCEPT ![v] = state]
    /\ valve' = [valve EXCEPT ![v] = state]
    /\ UNCHANGED resets

Reset ==
    /\ \E closed \in SUBSET Valves :
         valve' = [v \in Valves |-> IF v \in closed THEN "closed" ELSE valve[v]]
    /\ resets' # resets
    /\ UNCHANGED asked

DeviceNext ==
    \/ \E v \in Valves, state \in {"open", "closed"} : Command(v, state)
    \/ Reset

DeviceSpec == DeviceInit /\ [][DeviceNext]_device
=============================================================================
