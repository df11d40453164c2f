----------------------------- MODULE MCSerialLink -----------------------------
(* Small instances of SerialLink.                                          *)
EXTENDS SerialLink

\* A fermenter of the configuration may have no valve on the device.
MCFermenters == {"fv1", "fv2", "fv4"}
MCWired == {"fv1", "fv2"}
MCProbes == {"fv1"}
=============================================================================
