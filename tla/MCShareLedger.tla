---------------------------- MODULE MCShareLedger ----------------------------
(* Instances of ShareLedger for TLC.                                       *)
EXTENDS ShareLedger

CONSTANTS s1, s2
TwoSessions == {s1, s2}
FirstAtHome == {s1}
Kinds == {"accepted", "rejected"}
=============================================================================
