--------------------------- MODULE JobStreamProofs ---------------------------
(***************************************************************************)
(* Theorems about JobStream, for every chain, every number of overlapping  *)
(* polls and every age limit: its types; that miners are never sent back   *)
(* to a lower tip; that the newest template stays on offer; and, if every  *)
(* template can be built, that no work below the noted height can be       *)
(* submitted.                                                              *)
(***************************************************************************)
EXTENDS JobStream, TLAPS

-----------------------------------------------------------------------------
(* What is asked for, or waited for after an error, is the template of a   *)
(* block that was seen.                                                    *)
BlockSeen == fetch # NoFetch \/ pipeline = "retrying" => blockHeight # 0

(* Nothing runs ahead of the node: heights that polls bring, the height    *)
(* taken note of, templates fetched and handed out.                        *)
NodeLeads ==
    /\ \A p \in polls : p.height <= node.height
    /\ blockHeight <= node.height
    /\ latest # None => latest.template.tip.height <= node.height

(* A fetched template builds at least on the block it was fetched for, and *)
(* is never behind the one handed out last.                                *)
FetchIsFresh ==
    fetch # NoFetch =>
        /\ fetch.blocks <= node.height
        /\ fetch.template # None =>
             /\ fetch.template.tip.height >= fetch.blocks
             /\ fetch.template.tip.height <= node.height
             /\ latest # None =>
                  fetch.template.tip.height >= latest.template.tip.height

IInv == TypeOK /\ BlockSeen /\ NodeLeads /\ FetchIsFresh

-----------------------------------------------------------------------------
LEMMA AgedEntries ==
    ASSUME NEW entries \in SUBSET Entry
    PROVE  Aged(entries) \in SUBSET Entry /\ Work(Aged(entries)) = Work(entries)
<1> DEFINE older(e) == [e EXCEPT !.age = IF @ > MaxAge THEN @ ELSE @ + 1]
<1>1. ASSUME NEW e \in entries
      PROVE  older(e) \in Entry /\ older(e).template = e.template
  BY <1>1, BoundAssumption DEF Entry, Age
<1>2. Aged(entries) = {older(e) : e \in entries}
  BY DEF Aged
<1>3. Aged(entries) \in SUBSET Entry
  BY <1>1, <1>2
<1>4. Work(Aged(entries)) = {older(e).template : e \in entries}
  BY <1>2 DEF Work
<1>5. Work(Aged(entries)) = Work(entries)
  BY <1>1, <1>4 DEF Work
<1>6. QED
  BY <1>3, <1>5

LEMMA FreshEntries ==
    ASSUME NEW entries \in SUBSET Entry
    PROVE  Fresh(entries) \in SUBSET Entry
BY DEF Fresh

LEMMA AskedIsFetch ==
    ASSUME NEW h \in Height
    PROVE  Asked(h) \in FetchState /\ Asked(h).blocks = h /\ Asked(h).template = None
BY DEF Asked, FetchState

LEMMA AnsweredFetch ==
    ASSUME TypeOK, Answered
    PROVE  fetch.blocks \in Height /\ fetch.template \in Template
BY DEF TypeOK, Answered, FetchState, NoFetch

LEMMA SeenHeight ==
    ASSUME TypeOK, blockHeight # 0
    PROVE  blockHeight \in Height
BY BoundAssumption DEF TypeOK, Height

-----------------------------------------------------------------------------
LEMMA TypeInit == Init => TypeOK
BY ModeAssumption, BoundAssumption
   DEF Init, Zmq, TypeOK, Tip, Height, FetchState, NoFetch

LEMMA TypeStep == TypeOK /\ BlockSeen /\ [Next]_vars => TypeOK'
<1> SUFFICES ASSUME TypeOK, BlockSeen, [Next]_vars  PROVE TypeOK'
  OBVIOUS
<1> USE BoundAssumption
<1>1. CASE NodeBlock
  <2>1. node' \in Tip
    BY <1>1 DEF TypeOK, NodeBlock, Tip, Height
  <2>2. zmq' \in Zmq
    BY <1>1 DEF TypeOK, NodeBlock, Zmq
  <2>3. QED  BY <1>1, <2>1, <2>2 DEF TypeOK, NodeBlock, registryVars, streamVars, faultVars
<1>2. CASE NodeReorg
  <2>1. node' \in Tip
    BY <1>2 DEF TypeOK, NodeReorg, Tip
  <2>2. zmq' \in Zmq
    BY <1>2 DEF TypeOK, NodeReorg, Zmq
  <2>3. failures' \in 0..MaxFailures
    BY <1>2 DEF TypeOK, NodeReorg
  <2>4. QED  BY <1>2, <2>1, <2>2, <2>3 DEF TypeOK, NodeReorg, registryVars, streamVars
<1>3. CASE ZmqConnect
  BY <1>3 DEF TypeOK, ZmqConnect, Zmq, registryVars, streamVars, faultVars
<1>4. CASE ZmqDrop
  <2>1. zmq' \in Zmq
    BY <1>4 DEF TypeOK, ZmqDrop, Zmq
  <2>2. failures' \in 0..MaxFailures
    BY <1>4 DEF TypeOK, ZmqDrop
  <2>3. QED  BY <1>4, <2>1, <2>2 DEF TypeOK, ZmqDrop, registryVars, streamVars
<1>5. CASE PollAnswer
  <2>1. node.height \in Height
    BY DEF TypeOK, Tip
  <2>2. polls' \subseteq Poll
    BY <1>5, <2>1 DEF TypeOK, PollAnswer, PollOnTimer, PollOnStartup, PollOnMessage, Poll
  <2>3. zmq' \in Zmq
    <3>1. CASE PollOnTimer    BY <3>1 DEF TypeOK, PollOnTimer, Zmq
    <3>2. CASE PollOnStartup  BY <3>2 DEF TypeOK, PollOnStartup, Zmq
    <3>3. CASE PollOnMessage  BY <3>3 DEF TypeOK, PollOnMessage, Zmq
    <3>4. QED  BY <1>5, <3>1, <3>2, <3>3 DEF PollAnswer
  <2>4. QED  BY <1>5, <2>2, <2>3 DEF TypeOK, PollAnswer, registryVars, streamVars, faultVars
<1>6. ASSUME NEW p \in polls, PollFail(p)  PROVE TypeOK'
  BY <1>6 DEF TypeOK, PollFail, registryVars, streamVars
<1>7. ASSUME NEW p \in polls, PollDeliver(p)  PROVE TypeOK'
  <2>1. p.height \in Height  BY DEF TypeOK, Poll
  <2>2. QED  BY <1>7, <2>1, AskedIsFetch
             DEF TypeOK, PollDeliver, Height, registryVars, streamVars, faultVars
<1>8. CASE Minute
  <2>1. fetch' \in FetchState
    BY <1>8, SeenHeight, AskedIsFetch DEF TypeOK, Minute, Refreshed
  <2>2. blocks' \subseteq Entry /\ jobs' \subseteq Entry
    BY <1>8, AgedEntries DEF TypeOK, Minute
  <2>3. QED  BY <1>8, <2>1, <2>2 DEF TypeOK, Minute, rpcVars, faultVars
<1>9. CASE FetchAnswer
  <2>1. PICK c \in Content :
          fetch' = [fetch EXCEPT !.template = [tip |-> node, content |-> c]]
    BY <1>9 DEF FetchAnswer
  <2>2. fetch \in [blocks : Height, template : Template \union {None}]
    BY <1>9 DEF TypeOK, FetchAnswer, FetchState
  <2>3. [tip |-> node, content |-> c] \in Template
    BY DEF TypeOK, Template
  <2>4. fetch' \in FetchState
    BY <2>1, <2>2, <2>3 DEF FetchState
  <2>5. QED  BY <1>9, <2>4 DEF TypeOK, FetchAnswer, rpcVars, registryVars,
                               streamVars, faultVars
<1>10. CASE FetchFail
  BY <1>10 DEF TypeOK, FetchFail, FetchState, rpcVars, registryVars, streamVars
<1>11. CASE DeliverSame
  BY <1>11 DEF TypeOK, DeliverSame, FetchState, rpcVars, registryVars, streamVars, faultVars
<1>12. CASE DeliverTemplate
  <2>1. fetch.blocks \in Height /\ fetch.template \in Template
    BY <1>12, AnsweredFetch DEF DeliverTemplate
  <2>2. [template |-> fetch.template, age |-> 0] \in Entry
    BY <2>1 DEF Entry, Age
  <2>3. blocks' \subseteq Entry /\ jobs' \subseteq Entry
    BY <1>12, <2>2, FreshEntries DEF TypeOK, DeliverTemplate, Offered
  <2>4. latest' \in [template : Template, clearJobs : BOOLEAN]
    BY <1>12, <2>1 DEF DeliverTemplate, ClearJobs
  <2>5. lastBlockHeight' \in 0..MaxHeight /\ lastWork' \in Template /\ timeMoved' = FALSE
    BY <1>12, <2>1 DEF DeliverTemplate, TakeNote, Height
  <2>6. fetch' \in FetchState
    BY <1>12 DEF DeliverTemplate, FetchState
  <2>7. QED  BY <1>12, <2>3, <2>4, <2>5, <2>6 DEF TypeOK, DeliverTemplate, rpcVars, faultVars
<1>13. CASE DeliverError
  <2>1. fetch.blocks \in Height /\ fetch.template \in Template
    BY <1>13, AnsweredFetch DEF DeliverError
  <2>2. lastBlockHeight' \in 0..MaxHeight /\ lastWork' \in Template /\ timeMoved' = FALSE
    BY <1>13, <2>1 DEF DeliverError, TakeNote, Height
  <2>3. fetch' \in FetchState
    BY <1>13 DEF DeliverError, FetchState
  <2>4. buildErrors' \in 0..MaxBuildErrors
    BY <1>13 DEF TypeOK, DeliverError
  <2>5. QED  BY <1>13, <2>2, <2>3, <2>4 DEF TypeOK, DeliverError, rpcVars, registryVars
<1>14. CASE Retry
  <2>1. fetch' \in FetchState
    BY <1>14, SeenHeight, AskedIsFetch DEF Retry, BlockSeen
  <2>2. QED  BY <1>14, <2>1 DEF TypeOK, Retry, rpcVars, registryVars, faultVars
<1>15. CASE Receive
  BY <1>15 DEF TypeOK, Receive, rpcVars, registryVars, streamVars, faultVars
<1>16. ASSUME NEW t \in handed, AddJob(t)  PROVE TypeOK'
  <2>1. [template |-> t, age |-> 0] \in Entry
    BY DEF TypeOK, Entry, Age
  <2>2. QED  BY <1>16, <2>1 DEF TypeOK, AddJob, rpcVars, streamVars, faultVars
<1>17. CASE UNCHANGED vars
  BY <1>17 DEF TypeOK, vars, rpcVars, registryVars, streamVars, faultVars
<1>18. QED
  BY <1>1, <1>2, <1>3, <1>4, <1>5, <1>6, <1>7, <1>8, <1>9, <1>10,
     <1>11, <1>12, <1>13, <1>14, <1>15, <1>16, <1>17 DEF Next

LEMMA BlockSeenStep ==
    ASSUME IInv, [Next]_vars
    PROVE  BlockSeen'
<1> USE DEF IInv, BlockSeen
<1>1. ASSUME NEW p \in polls, PollDeliver(p)  PROVE BlockSeen'
  <2>1. p.height # 0  BY DEF TypeOK, Poll, Height
  <2>2. QED  BY <1>1, <2>1 DEF PollDeliver
<1>2. CASE Minute
  BY <1>2 DEF Minute, Refreshed, rpcVars
<1>3. CASE FetchAnswer
  BY <1>3 DEF FetchAnswer, rpcVars
<1>4. CASE DeliverError
  BY <1>4 DEF DeliverError, Answered, rpcVars
<1>5. CASE Retry
  BY <1>5 DEF Retry, rpcVars
<1>6. CASE FetchFail \/ DeliverSame \/ DeliverTemplate
  BY <1>6 DEF FetchFail, DeliverSame, DeliverTemplate, rpcVars
<1>7. CASE NodeBlock \/ NodeReorg \/ ZmqConnect \/ ZmqDrop \/ PollAnswer
             \/ (\E p \in polls : PollFail(p)) \/ Receive
             \/ (\E t \in handed : AddJob(t)) \/ UNCHANGED vars
  BY <1>7 DEF NodeBlock, NodeReorg, ZmqConnect, ZmqDrop, PollAnswer, PollFail,
              Receive, AddJob, vars, rpcVars
<1>8. QED
  BY <1>1, <1>2, <1>3, <1>4, <1>5, <1>6, <1>7 DEF Next

(* The chain only grows, and a reorganisation keeps its height.            *)
LEMMA NodeGrows ==
    ASSUME TypeOK, [Next]_vars
    PROVE  /\ node.height \in Nat /\ node'.height \in Nat
           /\ node'.height >= node.height
<1>1. node \in Tip /\ node.height \in Height
  BY DEF TypeOK, Tip
<1>2. CASE NodeBlock
  BY <1>1, <1>2 DEF NodeBlock, Height
<1>3. CASE NodeReorg
  BY <1>1, <1>3 DEF NodeReorg, Tip, Height
<1>4. CASE UNCHANGED node
  BY <1>1, <1>4 DEF Height
<1>5. NodeBlock \/ NodeReorg \/ UNCHANGED node
  BY DEF Next, ZmqConnect, ZmqDrop, PollAnswer, PollFail, PollDeliver, Minute,
         FetchAnswer, FetchFail, DeliverSame, DeliverTemplate, DeliverError, Retry,
         Receive, AddJob, vars
<1>6. QED
  BY <1>2, <1>3, <1>4, <1>5

(* What the steps below need to know of the values they compare.           *)
LEMMA Heights ==
    ASSUME TypeOK
    PROVE  /\ blockHeight \in Nat
           /\ \A p \in polls : p.height \in Nat
           /\ fetch # NoFetch => /\ fetch.blocks \in Nat
                                 /\ fetch.template # None => fetch.template.tip.height \in Nat
           /\ latest # None => latest.template.tip.height \in Nat
BY DEF TypeOK, Poll, Height, FetchState, Template, Tip

LEMMA NodeLeadsStep ==
    ASSUME IInv, TypeOK', [Next]_vars
    PROVE  NodeLeads'
<1> USE DEF IInv, NodeLeads
<1>1. /\ node.height \in Nat /\ node'.height \in Nat
      /\ node'.height >= node.height
  BY NodeGrows
<1>2. \A p \in polls' : p.height <= node'.height
  <2>1. CASE PollAnswer
    <3>1. \A p \in polls' : p \in polls \/ p.height = node.height
      BY <2>1 DEF PollAnswer, PollOnTimer, PollOnStartup, PollOnMessage
    <3>2. QED  BY <1>1, <3>1, Heights
  <2>2. CASE polls' \subseteq polls
    BY <1>1, <2>2, Heights
  <2>3. PollAnswer \/ polls' \subseteq polls
    BY DEF Next, NodeBlock, NodeReorg, ZmqConnect, ZmqDrop, PollFail, PollDeliver, Minute,
           FetchAnswer, FetchFail, DeliverSame, DeliverTemplate, DeliverError, Retry,
           Receive, AddJob, vars, rpcVars
  <2>4. QED  BY <2>1, <2>2, <2>3
<1>3. blockHeight' <= node'.height
  <2>1. blockHeight' = blockHeight \/ \E p \in polls : blockHeight' = p.height
    BY DEF Next, NodeBlock, NodeReorg, ZmqConnect, ZmqDrop, PollAnswer,
           PollFail, PollDeliver, Minute,
           FetchAnswer, FetchFail, DeliverSame, DeliverTemplate, DeliverError, Retry,
           Receive, AddJob, vars, rpcVars
  <2>2. QED  BY <1>1, <2>1, Heights
<1>4. latest' # None => latest'.template.tip.height <= node'.height
  <2>1. CASE DeliverTemplate
    <3>1. latest'.template = fetch.template
      BY <2>1 DEF DeliverTemplate
    <3>2. fetch.template.tip.height <= node.height
      BY <2>1 DEF DeliverTemplate, Answered, FetchIsFresh
    <3>3. QED  BY <1>1, <2>1, <3>1, <3>2, Heights DEF DeliverTemplate, Answered
  <2>2. CASE UNCHANGED latest
    BY <1>1, <2>2, Heights
  <2>3. DeliverTemplate \/ UNCHANGED latest
    BY DEF Next, NodeBlock, NodeReorg, ZmqConnect, ZmqDrop, PollAnswer,
           PollFail, PollDeliver, Minute,
           FetchAnswer, FetchFail, DeliverSame, DeliverError, Retry,
           Receive, AddJob, vars, streamVars
  <2>4. QED  BY <2>1, <2>2, <2>3
<1>5. QED
  BY <1>2, <1>3, <1>4

LEMMA AskedIsFresh ==
    ASSUME IInv, TypeOK', [Next]_vars, UNCHANGED node,
           NEW h \in Height, h <= node.height, fetch' = Asked(h)
    PROVE  FetchIsFresh'
BY AskedIsFetch DEF FetchIsFresh

LEMMA FetchIsFreshStep ==
    ASSUME IInv, TypeOK', [Next]_vars
    PROVE  FetchIsFresh'
<1> USE DEF IInv
<1>1. /\ node.height \in Nat /\ node'.height \in Nat
      /\ node'.height >= node.height
  BY NodeGrows
<1>2. CASE UNCHANGED <<fetch, latest>>
  BY <1>1, <1>2, Heights DEF FetchIsFresh
<1>3. ASSUME NEW p \in polls, PollDeliver(p)  PROVE FetchIsFresh'
  <2>1. p.height \in Height /\ p.height <= node.height
    BY DEF TypeOK, Poll, NodeLeads
  <2>2. CASE fetch' = Asked(p.height)
    BY <1>3, <2>1, <2>2, AskedIsFresh DEF PollDeliver
  <2>3. CASE fetch' = fetch
    BY <1>2, <1>3, <2>3 DEF PollDeliver, streamVars
  <2>4. QED  BY <1>3, <2>2, <2>3 DEF PollDeliver
<1>4. CASE Minute
  <2>1. CASE fetch' = fetch
    BY <1>2, <1>4, <2>1 DEF Minute
  <2>2. CASE fetch' = Asked(blockHeight) /\ blockHeight # 0
    BY <1>4, <2>2, SeenHeight, AskedIsFresh DEF Minute, NodeLeads
  <2>3. QED  BY <1>4, <2>1, <2>2 DEF Minute, Refreshed
<1>5. CASE FetchAnswer
  <2>1. PICK c \in Content :
          fetch' = [fetch EXCEPT !.template = [tip |-> node, content |-> c]]
    BY <1>5 DEF FetchAnswer
  <2>2. fetch \in [blocks : Height, template : Template \union {None}]
    BY <1>5 DEF TypeOK, FetchAnswer, FetchState
  <2>3. fetch'.blocks = fetch.blocks /\ fetch'.template.tip = node
    BY <2>1, <2>2
  <2>4. fetch.blocks <= node.height
    BY <1>5 DEF FetchIsFresh, FetchAnswer
  <2>5. UNCHANGED <<node, latest>>
    BY <1>5 DEF FetchAnswer, streamVars
  <2>6. QED  BY <1>1, <2>3, <2>4, <2>5, Heights DEF FetchIsFresh, NodeLeads
<1>6. CASE FetchFail \/ DeliverSame \/ DeliverTemplate \/ DeliverError
  BY <1>6 DEF FetchFail, DeliverSame, DeliverTemplate, DeliverError, FetchIsFresh
<1>7. CASE Retry
  BY <1>7, SeenHeight, AskedIsFresh DEF Retry, BlockSeen, NodeLeads
<1>8. CASE NodeBlock \/ NodeReorg \/ ZmqConnect \/ ZmqDrop \/ PollAnswer
             \/ (\E p \in polls : PollFail(p)) \/ Receive
             \/ (\E t \in handed : AddJob(t)) \/ UNCHANGED vars
  BY <1>2, <1>8 DEF NodeBlock, NodeReorg, ZmqConnect, ZmqDrop, PollAnswer, PollFail,
              Receive, AddJob, vars, streamVars
<1>9. QED
  BY <1>3, <1>4, <1>5, <1>6, <1>7, <1>8 DEF Next

LEMMA IInvInit == Init => IInv
<1> SUFFICES ASSUME Init  PROVE IInv
  OBVIOUS
<1>1. TypeOK  BY TypeInit
<1>2. BlockSeen /\ FetchIsFresh  BY DEF Init, BlockSeen, FetchIsFresh
<1>3. NodeLeads  BY DEF Init, NodeLeads
<1>4. QED  BY <1>1, <1>2, <1>3 DEF IInv

LEMMA IInvStep == IInv /\ [Next]_vars => IInv'
<1> SUFFICES ASSUME IInv, [Next]_vars  PROVE IInv'
  OBVIOUS
<1>1. TypeOK'  BY TypeStep DEF IInv
<1>2. QED
  BY <1>1, BlockSeenStep, NodeLeadsStep, FetchIsFreshStep DEF IInv

LEMMA Invariance == Spec => []IInv
BY IInvInit, IInvStep, PTL DEF Spec

-----------------------------------------------------------------------------
(* Every variable of the block watcher and the job pipeline keeps its type.*)
THEOREM TypeCorrect == Spec => []TypeOK
<1>1. IInv => TypeOK  BY DEF IInv
<1>2. QED  BY <1>1, Invariance, PTL

(* Miners are never sent back to a lower tip, in whatever order polls and  *)
(* fetches are answered and delivered, also when calls and builds fail.    *)
THEOREM NeverBack == Spec => NeverBackToLowerTip
<1> DEFINE Forward == /\ blockHeight' >= blockHeight
                      /\ latest # None =>
                           latest'.template.tip.height >= latest.template.tip.height
<1>1. ASSUME IInv, IInv', [Next]_vars  PROVE Forward
  <2>1. CASE DeliverTemplate
    <3>1. latest'.template = fetch.template /\ blockHeight' = blockHeight
      BY <2>1 DEF DeliverTemplate, rpcVars
    <3>2. QED  BY <1>1, <2>1, <3>1, Heights DEF DeliverTemplate, Answered, IInv, FetchIsFresh
  <2>2. ASSUME NEW p \in polls, PollDeliver(p)  PROVE Forward
    BY <1>1, <2>2, Heights DEF PollDeliver, IsNewBlock, IInv, streamVars
  <2>3. CASE UNCHANGED <<latest, blockHeight>>
    BY <1>1, <2>3, Heights DEF IInv
  <2>4. \/ DeliverTemplate \/ \E p \in polls : PollDeliver(p)
        \/ UNCHANGED <<latest, blockHeight>>
    BY <1>1 DEF Next, NodeBlock, NodeReorg, ZmqConnect, ZmqDrop, PollAnswer,
           PollFail, Minute, FetchAnswer, FetchFail, DeliverSame, DeliverError, Retry,
           Receive, AddJob, vars, rpcVars, streamVars
  <2>5. QED  BY <2>1, <2>2, <2>3, <2>4
<1>2. IInv /\ IInv' /\ [Next]_vars => [Forward]_vars
  BY <1>1
<1>3. QED
  BY <1>2, Invariance, PTL DEF Spec, NeverBackToLowerTip

-----------------------------------------------------------------------------
\* The templates on offer, and the steps that change them.
LEMMA OfferSteps ==
    ASSUME TypeOK, [Next]_vars
    PROVE  \/ DeliverTemplate
           \/ Work(blocks') = Work(blocks) /\ latest' = latest
<1>1. CASE Minute
  BY <1>1, AgedEntries DEF Minute, TypeOK
<1>2. CASE UNCHANGED <<blocks, latest>>
  BY <1>2
<1>3. DeliverTemplate \/ Minute \/ UNCHANGED <<blocks, latest>>
  BY DEF Next, NodeBlock, NodeReorg, ZmqConnect, ZmqDrop, PollAnswer,
         PollFail, PollDeliver, FetchAnswer, FetchFail, DeliverSame, DeliverError,
         Retry, Receive, AddJob, vars, registryVars, streamVars
<1>4. QED  BY <1>1, <1>2, <1>3

LEMMA OfferedWork ==
    ASSUME NEW new
    PROVE  Work(Offered(new)) = IF ClearJobs THEN {new.template}
                                ELSE Work(Fresh(blocks)) \union {new.template}
BY DEF Work, Offered

(* The template a new subscriber is handed is on offer: pruning, clearing  *)
(* and the retry of the pipeline never take it away.                       *)
THEOREM LatestOffered == Spec => []LatestIsOnOffer
<1>1. Init => LatestIsOnOffer
  BY DEF Init, LatestIsOnOffer
<1>2. ASSUME TypeOK, LatestIsOnOffer, [Next]_vars  PROVE LatestIsOnOffer'
  <2>1. CASE DeliverTemplate
    BY <2>1, OfferedWork DEF DeliverTemplate, LatestIsOnOffer
  <2>2. CASE Work(blocks') = Work(blocks) /\ latest' = latest
    BY <1>2, <2>2 DEF LatestIsOnOffer
  <2>3. QED  BY <1>2, <2>1, <2>2, OfferSteps
<1>3. QED
  BY <1>1, <1>2, TypeCorrect, PTL DEF Spec

(* Work that is still fresh leaves the offer only in the step that hands   *)
(* out a template with clearJobs, on another block height than before.     *)
THEOREM WithdrawnWithClear == Spec => WithdrawnOnlyWithClear
<1> DEFINE Withdrawn == \E b \in Fresh(blocks) : b.template \notin Work(blocks')
           Cleared == latest' # None /\ latest'.clearJobs /\ lastBlockHeight' # lastBlockHeight
<1>1. ASSUME TypeOK, [Next]_vars, Withdrawn  PROVE Cleared
  <2>1. Work(Fresh(blocks)) \subseteq Work(blocks)
    BY DEF Work, Fresh
  <2>2. \E b \in Fresh(blocks) : b.template \in Work(Fresh(blocks)) \ Work(blocks')
    BY <1>1 DEF Work
  <2>3. DeliverTemplate
    BY <1>1, <2>1, <2>2, OfferSteps
  <2>4. ClearJobs
    BY <2>2, <2>3, OfferedWork DEF DeliverTemplate
  <2>5. latest' = [template |-> fetch.template, clearJobs |-> ClearJobs]
    BY <2>3 DEF DeliverTemplate
  <2>6. latest' # None /\ latest'.clearJobs
    BY <2>4, <2>5 DEF None
  <2>7. fetch.blocks \in Height /\ lastBlockHeight' = fetch.blocks
    BY <1>1, <2>3 DEF DeliverTemplate, Answered, TakeNote, TypeOK, FetchState
  <2>8. lastBlockHeight' # lastBlockHeight
    BY <2>4, <2>7 DEF ClearJobs, Height
  <2>9. QED  BY <2>6, <2>8
<1>2. TypeOK /\ [Next]_vars => [Withdrawn => Cleared]_vars
  BY <1>1
<1>3. QED
  BY <1>2, TypeCorrect, PTL DEF Spec, WithdrawnOnlyWithClear

(* As long as no template failed to build, everything on offer builds at   *)
(* least on the block height taken note of.                                *)
OfferAtTip ==
    buildErrors = 0 => \A t \in Work(blocks) : t.tip.height >= lastBlockHeight

LEMMA OfferAtTipStep ==
    ASSUME IInv, IInv', OfferAtTip, [Next]_vars
    PROVE  OfferAtTip'
<1> USE DEF IInv
<1>1. CASE DeliverTemplate
  <2>1. /\ fetch.template.tip.height >= fetch.blocks
        /\ lastBlockHeight' = fetch.blocks
    BY <1>1 DEF DeliverTemplate, TakeNote, Answered, FetchIsFresh
  <2>2. Work(Fresh(blocks)) \subseteq Work(blocks)
    BY DEF Work, Fresh
  <2>3. ~ClearJobs => lastBlockHeight' = lastBlockHeight
    BY <2>1 DEF ClearJobs
  <2>4. \A t \in Work(blocks') :
          t = fetch.template \/ (~ClearJobs /\ t \in Work(blocks))
    BY <1>1, <2>2, OfferedWork DEF DeliverTemplate
  <2>5. buildErrors' = buildErrors
    BY <1>1 DEF DeliverTemplate, faultVars
  <2>6. QED  BY <2>1, <2>3, <2>4, <2>5 DEF OfferAtTip
<1>2. CASE DeliverError
  <2>1. buildErrors' # 0
    BY <1>2 DEF DeliverError, TypeOK
  <2>2. QED  BY <2>1 DEF OfferAtTip
<1>3. CASE ~DeliverTemplate /\ ~DeliverError
  <2>1. lastBlockHeight' = lastBlockHeight /\ buildErrors' = buildErrors
    BY <1>3 DEF Next, NodeBlock, NodeReorg, ZmqConnect, ZmqDrop, PollAnswer,
         PollFail, PollDeliver, Minute, FetchAnswer, FetchFail, DeliverSame,
         Retry, Receive, AddJob, vars, streamVars, faultVars
  <2>2. Work(blocks') = Work(blocks)
    BY <1>3, OfferSteps
  <2>3. QED  BY <2>1, <2>2 DEF OfferAtTip
<1>4. QED  BY <1>1, <1>2, <1>3

(* As long as every template could be built, no job that can still be      *)
(* submitted builds below the height the service has taken note of.        *)
THEOREM OldWorkIsGone == Spec => []NoWorkBelowTip
<1>1. Init => OfferAtTip
  BY DEF Init, OfferAtTip, Work
<1>2. IInv /\ IInv' /\ OfferAtTip /\ [Next]_vars => OfferAtTip'
  BY OfferAtTipStep
<1>3. OfferAtTip => NoWorkBelowTip
  BY DEF OfferAtTip, NoWorkBelowTip, Submittable
<1>4. QED
  BY <1>1, <1>2, <1>3, Invariance, PTL DEF Spec
=============================================================================
