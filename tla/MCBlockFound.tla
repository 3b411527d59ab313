---------------------------- MODULE MCBlockFound ----------------------------
(* An instance of BlockFound for TLC: an SV1 and an SV2 session in the        *)
(* primary process, an SV2 session in another one.                            *)
EXTENDS BlockFound

CONSTANTS p0, p1, a1, a2, b1
Processes == {p0, p1}
Sessions == {a1, a2, b1}
ServedBy(s) == IF s = b1 THEN p1 ELSE p0
SpeaksV1(s) == s = a1
SessionDifficulty(s) == IF s = a1 THEN 3 ELSE 2
=============================================================================
