---------------------------- MODULE MCAuthorityKey ----------------------------
(* An instance of AuthorityKey for TLC.                                      *)
EXTENDS AuthorityKey, TLC

CONSTANTS s1, s2
TwoSessions == {s1, s2}
Symmetry == Permutations(TwoSessions)
=============================================================================
