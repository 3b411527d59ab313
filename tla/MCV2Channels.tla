---------------------------- MODULE MCV2Channels ----------------------------
(* Small instances of V2Channels.                                          *)
EXTENDS V2Channels

CONSTANTS d1, d2

OneDifficulty == {d1}
TwoDifficulties == {d1, d2}
NoNonce == {}
OneNonce == {1}

(* To keep the instance small, sessions of several channels submit no      *)
(* shares and send no UpdateChannel.                                       *)
OneChannel == \A c \in Channel : c > 1 => channels[c].state = "absent"
NoShares == submissionHashes = {} /\ storing = {} /\ credited = {} /\ updates = 0

MCNext == Next /\ (OneChannel' \/ NoShares')
MCSpec == Init /\ [][MCNext]_vars /\ Fairness
=============================================================================
