----------------------------- MODULE MCJobStream -----------------------------
(* Instances of JobStream for TLC.                                           *)
EXTENDS JobStream

CONSTANTS b1, b2, c1, c2
OneBranch == {b1}
TwoBranches == {b1, b2}
OneContent == {c1}
TwoContents == {c1, c2}
=============================================================================
