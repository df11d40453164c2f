--------------------------- MODULE MCValveControl ---------------------------
(* Small instances of ValveControl.                                        *)
EXTENDS ValveControl

\* Degrees, in hundredths: 0 is the temperature at boot and the target of the
\* configuration.
Warm == 2
Chilly == -2

MCConfigTarget == [f \in Fermenters |-> 0]

Body(b, m, o) == [band |-> b, minChange |-> m, maxOpen |-> o]

MCNoSettings == {}
MCUnlimited == Body(1, 1, 0)
MCOneOpen == Body(1, 0, 1)

\* A body that is refused as a whole, and two that lift the limit and set it
\* again.
MCInvalid == {Body(0, -1, -1)}
MCLift == {Body(0, -1, 0), Body(0, -1, 1)}

MCTemps == {Chilly, Warm}
MCTTLs == {-1, 1}
MCNoTTLs == {}
MCTargets == {0}
MCTwoTargets == {-4, 0}
=============================================================================
