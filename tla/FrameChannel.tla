---------------------------- MODULE FrameChannel ----------------------------
(***************************************************************************)
(* What the transport of a Stratum V2 session promises of the frames a     *)
(* miner sends: the session handles them whole, in the order in which they *)
(* were sent, none twice and none left out in between.  The last ones may  *)
(* be lost with the session.                                               *)
(***************************************************************************)
EXTENDS Integers, Sequences

CONSTANT Frame  \* the frames a miner may send

VARIABLES
    sent,       \* the frames the miner has sent
    handled     \* the frames handleFrame was called with

Init == sent = <<>> /\ handled = <<>>

Send ==
    /\ \E frame \in Frame : sent' = Append(sent, frame)
    /\ UNCHANGED handled

Handle ==
    /\ Len(handled) < Len(sent)
    /\ handled' = Append(handled, sent[Len(handled) + 1])
    /\ UNCHANGED sent

Next == Send \/ Handle

Spec == Init /\ [][Next]_<<sent, handled>>
=============================================================================
