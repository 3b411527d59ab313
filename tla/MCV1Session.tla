----------------------------- MODULE MCV1Session -----------------------------
(* Instances of V1Session for TLC.                                         *)
EXTENDS V1Session

OneDifficulty == {2}
OneNonce == {1}
TwoSpellings == {"lower", "upper"}
=============================================================================
