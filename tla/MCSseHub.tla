------------------------------- MODULE MCSseHub -------------------------------
(* Small instances of SseHub.                                              *)
EXTENDS SseHub

MCBoth == {"c1", "c2"}
MCOne == {"c1"}
=============================================================================
