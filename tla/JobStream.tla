------------------------------ MODULE JobStream ------------------------------
(***************************************************************************)
(* Where mining work comes from: BitcoinRpcService notices a new block of  *)
(* the node (pollMiningInfo), StratumV1JobsService fetches a block         *)
(* template for it or for the 60 s refresh, turns it into a job template,  *)
(* keeps the templates and jobs that may still be submitted, and hands the *)
(* newest template to every miner session (a shareReplay stream).          *)
(*                                                                         *)
(* An RPC is two actions, the node's answer and its delivery, so what was  *)
(* true when the node answered may have changed when the code acts on it.  *)
(* A template is the tip it builds on and its content; the ids the service *)
(* gives to templates and jobs only count up and are left out.             *)
(***************************************************************************)
EXTENDS Integers, FiniteSets

CONSTANTS
    ZmqModes,      \* whether BITCOIN_ZMQ_HOST may be set: poll on messages, not by timer
    MaxHeight,     \* bound: chain heights of the node
    Branch,        \* competing blocks of one height
    Content,       \* transaction selections the node may answer with
    MaxAge,        \* JOB_MAX_AGE_MS, in refresh intervals
    MaxPolls,      \* bound: getmininginfo requests of the timer in flight
    MaxSessions,   \* bound: sessions between a template and the job made of it
    MaxFailures,   \* bound: failing RPCs and dropped ZMQ connections
    MaxBuildErrors \* bound: templates that cannot be made into a job template

ASSUME ModeAssumption == ZmqModes \subseteq BOOLEAN
ASSUME BoundAssumption  ==
    /\ MaxHeight \in Nat \ {0}
    /\ MaxAge \in Nat
    /\ MaxPolls \in Nat
    /\ MaxSessions \in Nat
    /\ MaxFailures \in Nat
    /\ MaxBuildErrors \in Nat
ASSUME DataAssumption == Branch # {} /\ Content # {}

VARIABLES
    node,          \* the tip of the node's chain
    zmq,           \* whether ZMQ is used, its subscription and the polls it still owes
    polls,         \* answered getmininginfo calls whose callback has not run
    blockHeight,   \* BitcoinRpcService.blockHeight, also the value of newBlock$
    fetch,         \* the getBlockTemplate that switchMap is waiting for
    pipeline,      \* "subscribed", or "retrying" after catchError
    lastBlockHeight,
    lastWork,      \* lastWorkSignature: tip and content
    timeMoved,     \* the clock second differs from the one in lastWorkSignature
    latest,        \* what shareReplay hands to a new subscriber
    handed,        \* templates a session holds and has not made a job of yet
    blocks,        \* job templates on offer, with their age
    jobs,          \* jobs of all sessions, with their age
    failures, buildErrors

rpcVars      == <<zmq, polls, blockHeight>>
registryVars == <<blocks, jobs>>
streamVars   == <<lastBlockHeight, lastWork, timeMoved, latest>>
faultVars    == <<failures, buildErrors>>
vars == <<node, rpcVars, fetch, pipeline, streamVars, handed, registryVars, faultVars>>

-----------------------------------------------------------------------------
Height   == 1..MaxHeight
Tip      == [height : Height, branch : Branch]
Template == [tip : Tip, content : Content]
Age      == 0..(MaxAge + 1)         \* MaxAge + 1: older than JOB_MAX_AGE_MS
None     == [none |-> TRUE]

NoFetch == None
Asked(h) == [blocks |-> h, template |-> None]
FetchState == {NoFetch} \union [blocks : Height, template : Template \union {None}]

Zmq == [used : ZmqModes, connected : BOOLEAN, startupDue : BOOLEAN, messages : Nat]

Poll == [by : {"timer", "startup", "message"}, height : Height]

Entry == [template : Template, age : Age]
Work(entries) == {e.template : e \in entries}
Fresh(entries) == {e \in entries : e.age <= MaxAge}
Aged(entries) == {[e EXCEPT !.age = IF @ > MaxAge THEN @ ELSE @ + 1] : e \in entries}

Init ==
    /\ node \in [height : {1}, branch : Branch]
    /\ \E used \in ZmqModes :
         zmq = [used |-> used, connected |-> FALSE, startupDue |-> used, messages |-> 0]
    /\ polls = {}
    /\ blockHeight = 0
    /\ fetch = NoFetch
    /\ pipeline = "subscribed"
    /\ lastBlockHeight = 0
    /\ lastWork = None
    /\ timeMoved = TRUE
    /\ latest = None
    /\ handed = {}
    /\ blocks = {}
    /\ jobs = {}
    /\ failures = 0
    /\ buildErrors = 0

-----------------------------------------------------------------------------
(* The node.                                                               *)

\* A block extends the chain; a connected subscriber is sent a message.
NodeBlock ==
    /\ node.height < MaxHeight
    /\ \E b \in Branch : node' = [height |-> node.height + 1, branch |-> b]
    /\ zmq' = [zmq EXCEPT !.messages = IF zmq.connected THEN @ + 1 ELSE @]
    /\ UNCHANGED <<polls, blockHeight, fetch, pipeline, streamVars, handed,
                   registryVars, faultVars>>

\* A competing block takes over; bounded by the failures budget.
NodeReorg ==
    /\ failures < MaxFailures
    /\ \E b \in Branch \ {node.branch} : node' = [node EXCEPT !.branch = b]
    /\ failures' = failures + 1
    /\ zmq' = [zmq EXCEPT !.messages = IF zmq.connected THEN @ + 1 ELSE @]
    /\ UNCHANGED <<polls, blockHeight, fetch, pipeline, streamVars, handed,
                   registryVars, buildErrors>>

-----------------------------------------------------------------------------
(* BitcoinRpcService.                                                      *)

ZmqConnect ==
    /\ zmq.used /\ ~zmq.connected
    /\ zmq' = [zmq EXCEPT !.connected = TRUE]
    /\ UNCHANGED <<node, polls, blockHeight, fetch, pipeline, streamVars,
                   handed, registryVars, faultVars>>

\* The socket ends: messages not read yet are lost, no poll makes up for them.
ZmqDrop ==
    /\ zmq.connected
    /\ failures < MaxFailures
    /\ failures' = failures + 1
    /\ zmq' = [zmq EXCEPT !.connected = FALSE, !.messages = 0]
    /\ UNCHANGED <<node, polls, blockHeight, fetch, pipeline, streamVars,
                   handed, registryVars, buildErrors>>

(* pollMiningInfo: the node answers.  The 500 ms timer does not wait for   *)
(* the previous call; the ZMQ listener does, but not for the startup call. *)
PollOnTimer ==
    /\ ~zmq.used
    /\ Cardinality(polls) < MaxPolls
    /\ polls' = polls \union {[by |-> "timer", height |-> node.height]}
    /\ UNCHANGED zmq

PollOnStartup ==
    /\ zmq.startupDue
    /\ zmq' = [zmq EXCEPT !.startupDue = FALSE]
    /\ polls' = polls \union {[by |-> "startup", height |-> node.height]}

PollOnMessage ==
    /\ zmq.messages > 0
    /\ \A p \in polls : p.by # "message"
    /\ zmq' = [zmq EXCEPT !.messages = @ - 1]
    /\ polls' = polls \union {[by |-> "message", height |-> node.height]}

PollAnswer ==
    /\ PollOnTimer \/ PollOnStartup \/ PollOnMessage
    /\ UNCHANGED <<node, blockHeight, fetch, pipeline, streamVars, handed,
                   registryVars, faultVars>>

\* getMiningInfo failed: the poll ends without a word.
PollFail(p) ==
    /\ failures < MaxFailures
    /\ failures' = failures + 1
    /\ polls' = polls \ {p}
    /\ UNCHANGED <<node, zmq, blockHeight, fetch, pipeline, streamVars, handed,
                   registryVars, buildErrors>>

\* A slip: any other height is taken for a new block.
IsNewBlockIfOther(p) == p.height # blockHeight

IsNewBlock(p) == p.height > blockHeight

(* The callback: only a greater height is a new block.  newBlock$ emits,   *)
(* and a subscribed pipeline drops the fetch it waits for and starts one.  *)
PollDeliver(p) ==
    /\ polls' = polls \ {p}
    /\ IF IsNewBlock(p)
         THEN /\ blockHeight' = p.height
              /\ fetch' = IF pipeline = "subscribed" THEN Asked(p.height) ELSE fetch
         ELSE UNCHANGED <<blockHeight, fetch>>
    /\ UNCHANGED <<node, zmq, pipeline, streamVars, handed, registryVars, faultVars>>

-----------------------------------------------------------------------------
(* StratumV1JobsService: the pipeline.                                     *)

\* A slip: no refresh until a block comes.
RefreshedNever == fetch

Refreshed ==
    IF pipeline = "subscribed" /\ blockHeight # 0 THEN Asked(blockHeight) ELSE fetch

(* One refresh interval passes: everything grows older, and a subscribed   *)
(* pipeline that has seen a block fetches a template for it again.         *)
Minute ==
    /\ blocks' = Aged(blocks)
    /\ jobs' = Aged(jobs)
    /\ timeMoved' = TRUE
    /\ fetch' = Refreshed
    /\ UNCHANGED <<node, rpcVars, pipeline, lastBlockHeight, lastWork, latest,
                   handed, faultVars>>

\* getblocktemplate is answered by the node for the tip it has by now.
FetchAnswer ==
    /\ fetch # NoFetch
    /\ fetch.template = None
    /\ \E c \in Content :
         fetch' = [fetch EXCEPT !.template = [tip |-> node, content |-> c]]
    /\ UNCHANGED <<node, rpcVars, pipeline, streamVars, handed, registryVars, faultVars>>

\* getBlockTemplate threw: "will retry on next tick".
FetchFail ==
    /\ fetch # NoFetch
    /\ failures < MaxFailures
    /\ failures' = failures + 1
    /\ fetch' = NoFetch
    /\ UNCHANGED <<node, rpcVars, pipeline, streamVars, handed, registryVars, buildErrors>>

Answered == fetch # NoFetch /\ fetch.template # None

\* A slip: only the first template clears.
ClearJobsOnce == lastBlockHeight = 0

ClearJobs == lastBlockHeight = 0 \/ lastBlockHeight # fetch.blocks
SameWork == ~ClearJobs /\ lastWork = fetch.template /\ ~timeMoved

\* A refresh that brings nothing new is dropped by the first map.
DeliverSame ==
    /\ Answered /\ SameWork
    /\ fetch' = NoFetch
    /\ UNCHANGED <<node, rpcVars, pipeline, streamVars, handed, registryVars, faultVars>>

\* What the first map assigns before it builds anything.
TakeNote ==
    /\ lastBlockHeight' = fetch.blocks
    /\ lastWork' = fetch.template
    /\ timeMoved' = FALSE

\* Slips: the new template is cleared too, or always replaces what is there.
OfferedThenCleared(new) == IF ClearJobs THEN {} ELSE Fresh(blocks) \union {new}
OfferedAlone(new) == {new}

Offered(new) == IF ClearJobs THEN {new} ELSE Fresh(blocks) \union {new}

(* A new job template: on a new block it replaces everything on offer,     *)
(* else what is older than JOB_MAX_AGE_MS goes.                            *)
DeliverTemplate ==
    /\ Answered /\ ~SameWork
    /\ TakeNote
    /\ blocks' = Offered([template |-> fetch.template, age |-> 0])
    /\ jobs' = IF ClearJobs THEN {} ELSE Fresh(jobs)
    /\ latest' = [template |-> fetch.template, clearJobs |-> ClearJobs]
    /\ fetch' = NoFetch
    /\ UNCHANGED <<node, rpcVars, pipeline, handed, faultVars>>

(* Building the job template throws (an undecodable transaction): the      *)
(* assignments stay, catchError unsubscribes and waits 5 s.                *)
DeliverError ==
    /\ Answered /\ ~SameWork
    /\ buildErrors < MaxBuildErrors
    /\ buildErrors' = buildErrors + 1
    /\ TakeNote
    /\ pipeline' = "retrying"
    /\ fetch' = NoFetch
    /\ UNCHANGED <<node, rpcVars, latest, handed, registryVars, failures>>

\* The pipeline subscribes again: newBlock$ replays, the interval starts anew.
Retry ==
    /\ pipeline = "retrying"
    /\ pipeline' = "subscribed"
    /\ fetch' = Asked(blockHeight)
    /\ \E moved \in {timeMoved, TRUE} : timeMoved' = moved
    /\ UNCHANGED <<node, rpcVars, lastBlockHeight, lastWork, latest, handed,
                   registryVars, faultVars>>

-----------------------------------------------------------------------------
(* The sessions.                                                           *)

(* A session receives the newest template: because it was emitted, because *)
(* it subscribes (shareReplay), or because it asks for it to retarget.     *)
Receive ==
    /\ latest # None
    /\ Cardinality(handed) < MaxSessions
    /\ handed' = handed \union {latest.template}
    /\ UNCHANGED <<node, rpcVars, fetch, pipeline, streamVars, registryVars, faultVars>>

\* sendNewMiningJob: getNextId, new MiningJob and addJob in one go.
AddJob(t) ==
    /\ handed' = handed \ {t}
    /\ jobs' = jobs \union {[template |-> t, age |-> 0]}
    /\ UNCHANGED <<node, rpcVars, fetch, pipeline, streamVars, blocks, faultVars>>

Next ==
    \/ NodeBlock \/ NodeReorg
    \/ ZmqConnect \/ ZmqDrop
    \/ PollAnswer
    \/ \E p \in polls : PollFail(p) \/ PollDeliver(p)
    \/ Minute \/ FetchAnswer \/ FetchFail
    \/ DeliverSame \/ DeliverTemplate \/ DeliverError \/ Retry
    \/ Receive
    \/ \E t \in handed : AddJob(t)

Spec == Init /\ [][Next]_vars

(* The timers fire, the node answers, callbacks run.  A fetch is given up  *)
(* after 30 s, so it is not overtaken by refresh after refresh: strong     *)
(* fairness for its delivery.  A session that holds a template makes its   *)
(* job in the next microtask.  Blocks and faults owe nothing.              *)
Fairness ==
    /\ WF_vars(PollAnswer)
    /\ WF_vars(\E p \in polls : PollDeliver(p))
    /\ WF_vars(Minute)
    /\ WF_vars(FetchAnswer)
    /\ SF_vars(DeliverSame \/ DeliverTemplate)
    /\ WF_vars(Retry)
    /\ WF_vars(\E t \in handed : AddJob(t))

FairSpec == Spec /\ Fairness

-----------------------------------------------------------------------------
TypeOK ==
    /\ node \in Tip
    /\ zmq \in Zmq
    /\ polls \subseteq Poll
    /\ blockHeight \in 0..MaxHeight
    /\ fetch \in FetchState
    /\ pipeline \in {"subscribed", "retrying"}
    /\ lastBlockHeight \in 0..MaxHeight
    /\ lastWork \in Template \union {None}
    /\ timeMoved \in BOOLEAN
    /\ latest \in [template : Template, clearJobs : BOOLEAN] \union {None}
    /\ handed \subseteq Template
    /\ blocks \subseteq Entry
    /\ jobs \subseteq Entry
    /\ failures \in 0..MaxFailures
    /\ buildErrors \in 0..MaxBuildErrors

(* A share is accepted for a job whose template is still on offer.         *)
Submittable == {j \in jobs : j.template \in Work(blocks)}

(* No job that miners can still submit builds below the block height the   *)
(* service has taken note of, as long as every template could be built:    *)
(* the height is noted before the template is, and a build that fails then *)
(* takes the clearJobs of its block with it.                               *)
NoWorkBelowTip ==
    buildErrors = 0 =>
        \A j \in Submittable : j.template.tip.height >= lastBlockHeight

(* What a new subscriber is handed can be submitted: pruning, clearing and *)
(* the retry never take the newest template off offer.                     *)
LatestIsOnOffer == latest # None => latest.template \in Work(blocks)

(* Miners are never sent back to a lower tip: of two fetches and two polls *)
(* that overlap, the older one never wins.                                 *)
NeverBackToLowerTip ==
    [][/\ blockHeight' >= blockHeight
       /\ latest # None => latest'.template.tip.height >= latest.template.tip.height]_vars

(* Work younger than JOB_MAX_AGE_MS is withdrawn only together with a      *)
(* template that tells the miners to drop their jobs.                      *)
WithdrawnOnlyWithClear ==
    [][(\E b \in Fresh(blocks) : b.template \notin Work(blocks'))
         => latest' # None /\ latest'.clearJobs /\ lastBlockHeight' # lastBlockHeight]_vars

(* From the first poll that succeeds: once the chain stops moving, the     *)
(* sessions are given work on its tip, and the templates and jobs of other *)
(* tips are gone from the registry.                                        *)
(* Missed messages, failed calls, build errors and same-height             *)
(* reorganisations, none of which the poll notices, only delay it.         *)
WorkConverges ==
    (blockHeight # 0) ~> [](/\ latest # None /\ latest.template.tip = node
                            /\ \A t \in Work(blocks \union jobs) : t.tip = node)
=============================================================================
