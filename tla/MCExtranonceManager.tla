------------------------- MODULE MCExtranonceManager -------------------------
(* Instances of ExtranonceManager for TLC.                                   *)
EXTENDS ExtranonceManager, TLC

CONSTANTS c1, c2, c3

TwoWorkers == {0, 1}
ThreeChannels == {c1, c2, c3}
Symmetry == Permutations(ThreeChannels)
=============================================================================
