---------------------------- MODULE MCAlarmManager ----------------------------
(* Small instances of AlarmManager.                                        *)
EXTENDS AlarmManager

MCTemps == {-2, 2}
MCTargets == {0, 2}
=============================================================================
