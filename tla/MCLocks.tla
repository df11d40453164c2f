------------------------------- MODULE MCLocks -------------------------------
(* Small instances of Locks.                                               *)
EXTENDS Locks

MCActivities == DOMAIN Bodies
=============================================================================
