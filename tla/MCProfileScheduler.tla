------------------------- MODULE MCProfileScheduler -------------------------
(* Small instances of ProfileScheduler.                                    *)
EXTENDS ProfileScheduler

Hold(t, d) == [type |-> "hold", target |-> t, duration |-> d, rate |-> 0]
Ramp(t, r) == [type |-> "ramp", target |-> t, duration |-> 0, rate |-> r]
Other      == [type |-> "other", target |-> 0, duration |-> 0, rate |-> 0]

MCIds == {1, 2}

\* Up, hold and down again; and a type nobody knows, a ramp without a rate and
\* a hold for ever.
MCProfiles == <<  <<Ramp(20, 10), Hold(20, 1), Ramp(0, 10)>>,
                  <<Other, Ramp(10, 0), Hold(10, 0)>> >>

\* 18 is within the deadband of the hold at 20.
MCTargets == {0, 18}
=============================================================================
