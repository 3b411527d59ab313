----------------------------- MODULE PrefixPool -----------------------------
(***************************************************************************)
(* What the SV2 extranonce allocation promises, with no word on how it is  *)
(* done: every pool process serves its channels from a lane of coinbase    *)
(* prefixes, no prefix is held twice in the whole deployment, and a        *)
(* channel is turned away only when its process's lane is used up.         *)
(***************************************************************************)
CONSTANTS
    Process,      \* the pool processes that may ever run
    Channel,      \* the channel identifiers a process may use
    LaneOf,       \* the prefixes each process may give out
    Nothing,      \* the answer of a call that granted no prefix
    Full          \* the answer of a call that was turned away

VARIABLES
    held,     \* set of <<process, channel, prefix>>
    answer    \* what the last call returned: a prefix, Nothing or Full

poolVars == <<held, answer>>

HeldPrefixes == {h[3] : h \in held}
Holds(p, c) == \E h \in held : h[1] = p /\ h[2] = c

Init ==
    /\ held = {}
    /\ answer = Nothing

Grant(p, c) ==
    /\ ~Holds(p, c)
    /\ \E x \in LaneOf[p] \ HeldPrefixes :
         /\ held' = held \union {<<p, c, x>>}
         /\ answer' = x

\* A channel that asks again is told the prefix it has.
Repeat(p, c) ==
    /\ \E x \in LaneOf[p] : <<p, c, x>> \in held /\ answer' = x
    /\ UNCHANGED held

Refuse(p, c) ==
    /\ ~Holds(p, c)
    /\ LaneOf[p] \subseteq HeldPrefixes
    /\ answer' = Full
    /\ UNCHANGED held

Release(p, c) ==
    /\ held' = {h \in held : ~(h[1] = p /\ h[2] = c)}
    /\ answer' = Nothing

\* The process ends and takes all its channels with it.
Vanish(p) ==
    /\ held' = {h \in held : h[1] # p}
    /\ answer' = Nothing

Next ==
    \E p \in Process :
        \/ Vanish(p)
        \/ \E c \in Channel :
             \/ Grant(p, c) \/ Repeat(p, c) \/ Refuse(p, c) \/ Release(p, c)

Spec == Init /\ [][Next]_poolVars
=============================================================================
