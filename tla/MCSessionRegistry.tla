-------------------------- MODULE MCSessionRegistry --------------------------
(* Instances of SessionRegistry for TLC.                                   *)
EXTENDS SessionRegistry

Apart == <<1, 1>>
SecondSv2 == {2}
=============================================================================
