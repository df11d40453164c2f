--------------------------- MODULE MCPersistence ----------------------------
(* Small instances of Persistence.                                         *)
EXTENDS Persistence

Body(b, m, o) == [k \in Keys |-> CASE k = "band_c" -> b
                                   [] k = "min_change_s" -> m
                                   [] OTHER -> o]

MCConfig == Body(5, 6, 2)

\* A band that is accepted, a minimum time that is not, and no limit.
MCBodies == {Body(4, -1, 0)}
MCTargets == {18, 20}
=============================================================================
