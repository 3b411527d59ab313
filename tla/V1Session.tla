------------------------------ MODULE V1Session ------------------------------
(***************************************************************************)
(* One Stratum V1 session (StratumV1Client) with the job registry it takes *)
(* its work from.  Inbound messages are handled one at a time (the         *)
(* inboundChain); job templates and the difficulty check of every minute   *)
(* run beside them, wherever the handler waits for a write, the node or    *)
(* the database.  What a write tells the miner is applied to "miner" when  *)
(* the write is made: the wire keeps the order.                            *)
(*                                                                         *)
(* A job template is the tip it builds on and its clearJobs flag.          *)
(***************************************************************************)
EXTENDS Integers, FiniteSets

CONSTANTS
    MaxTemplates,      \* bound: job templates emitted
    MaxPasses,         \* bound: difficulty changes by checkDifficulty
    MaxFaults,         \* bound: failing inserts and saves
    MaxSubmissions,    \* MAX_SUBMISSION_HASHES
    Difficulty,        \* session difficulties a miner or the retarget may set
    StartDifficulty,   \* the initial sessionDifficulty
    CpuDifficulty,     \* what initStratum gives the user agent "cpuminer"
    Nonce,             \* shares a miner may find on one job
    Spelling           \* ways to write a share in a mining.submit

ASSUME BoundAssumption ==
    /\ MaxTemplates \in Nat /\ MaxPasses \in Nat /\ MaxFaults \in Nat
    /\ MaxSubmissions \in Nat \ {0}
ASSUME DifficultyAssumption ==
    Difficulty \subseteq Nat /\ StartDifficulty \in Nat /\ CpuDifficulty \in Nat

VARIABLES
    latest,            \* what newMiningJob$ replays
    emitted,           \* templates emitted so far
    jobs,              \* the registry's jobs that can still be submitted
    nextId,
    greeted,           \* subscribed, authorized; the cpuminer user agent
    suggestion,        \* "none", "made" (clientSuggestedDifficulty), "used"
    initialized,       \* stratumInitialized
    streaming,         \* the subscription and the minute timer are there
    destroyed,
    sessionDifficulty,
    submissionHashes,  \* miningSubmissionHashes: submissions, as they were written
    resetTip,          \* submissionHashResetHeight
    inbound,           \* what the message being handled waits for, and its share
    pass,              \* a difficulty check waits for its write
    passes, faults,    \* bounded counters
    miner,             \* what the miner was told
    acked, credited, creditedAgain,   \* history of submissions
    untold             \* history: the difficulty was changed without a word

jobVars   == <<latest, emitted, jobs, nextId>>
setupVars == <<greeted, suggestion, initialized, streaming>>
hashVars  == <<submissionHashes, resetTip>>
history   == <<acked, credited, creditedAgain>>
vars == <<jobVars, setupVars, destroyed, sessionDifficulty, hashVars, inbound,
          pass, passes, faults, miner, history, untold>>

-----------------------------------------------------------------------------
Tip == 1..MaxTemplates
None == [none |-> TRUE]
Template == [tip : Tip, clear : BOOLEAN]
\* A submission is a share as the miner wrote it: other digits or letters for
\* the same numbers make another one.
Submission == Nat \X Nonce \X Spelling
Untaught == -1             \* the miner was told no difficulty
Idle == [at |-> "idle"]
At(place) == [at |-> place]
AtShare(place, s) == [at |-> place, share |-> s]

\* Waiting for a socket write: it fails with the session.
Writing == {"reply", "suggest", "init", "ack", "refused"}

Init ==
    /\ latest = None
    /\ emitted = 0
    /\ jobs = {}
    /\ nextId = 1
    /\ greeted = [subscribed |-> FALSE, authorized |-> FALSE, cpuminer |-> FALSE]
    /\ suggestion = "none"
    /\ initialized = FALSE
    /\ streaming = FALSE
    /\ destroyed = FALSE
    /\ sessionDifficulty = StartDifficulty
    /\ submissionHashes = {}
    /\ resetTip = 0
    /\ inbound = Idle
    /\ pass = FALSE
    /\ passes = 0
    /\ faults = 0
    /\ miner = [difficulty |-> Untaught, job |-> 0, tip |-> 0]
    /\ acked = {} /\ credited = {} /\ creditedAgain = {}
    /\ untold = FALSE

-----------------------------------------------------------------------------
(* Work.                                                                   *)

\* sendNewMiningJob: the job joins those of known and is written.
SendJob(t, known) ==
    /\ nextId' = nextId + 1
    /\ jobs' = known \union {[id |-> nextId, tip |-> t.tip]}
    /\ miner' = [miner EXCEPT !.job = nextId, !.tip = t.tip]

\* A slip: the set goes with every template.
ResetHashesAlways(t) ==
    /\ submissionHashes' = {}
    /\ resetTip' = t.tip

\* resetSubmissionHashesIfNewBlock
ResetHashes(t) ==
    IF t.clear /\ resetTip # t.tip
      THEN submissionHashes' = {} /\ resetTip' = t.tip
      ELSE UNCHANGED hashVars

(* A refresh or a new block.  clearJobs is set by the height the poll has  *)
(* seen, the tip by the node that makes the template, so that a new tip may*)
(* come without clearJobs, and clearJobs without a new tip.                *)
Following(t) ==
    IF t = None THEN [tip : {1} \intersect Tip, clear : BOOLEAN]
    ELSE [tip : {t.tip, t.tip + 1} \intersect Tip, clear : BOOLEAN]

(* A template is emitted: a new block empties the registry first, then the *)
(* subscribed session is sent a job.                                       *)
Emit ==
    /\ emitted < MaxTemplates
    /\ emitted' = emitted + 1
    /\ \E t \in Following(latest) :
         LET kept == IF t.clear THEN {} ELSE jobs IN
         /\ latest' = t
         /\ IF streaming /\ ~destroyed
              THEN ResetHashes(t) /\ SendJob(t, kept)
              ELSE jobs' = kept /\ UNCHANGED <<nextId, miner, hashVars>>
    /\ UNCHANGED <<setupVars, destroyed, sessionDifficulty, inbound, pass, passes,
                   faults, history, untold>>

-----------------------------------------------------------------------------
(* The end of the session, whoever asks for it: what waits for a write     *)
(* gives up, what waits for the node or the database goes on.              *)
Destroy ==
    /\ destroyed' = TRUE
    /\ streaming' = FALSE
    /\ submissionHashes' = {}
    /\ resetTip' = 0
    /\ pass' = FALSE

Disconnect ==
    /\ ~destroyed
    /\ Destroy
    /\ inbound' = IF inbound.at \in Writing THEN Idle ELSE inbound
    /\ UNCHANGED <<jobVars, greeted, suggestion, initialized, sessionDifficulty,
                   passes, faults, miner, history, untold>>

-----------------------------------------------------------------------------
(* handleMessage: the messages that set the session up.                    *)

Handling == inbound = Idle /\ ~destroyed

\* The difficulty is changed and the miner is not told (yet).
Raise(d) ==
    /\ sessionDifficulty' = d
    /\ untold' = (untold \/ initialized)

\* mining.subscribe; the user agent is the latest one's.
Subscribe ==
    /\ Handling
    /\ \E cpu \in BOOLEAN :
         greeted' = [greeted EXCEPT !.subscribed = TRUE, !.cpuminer = cpu]
    /\ inbound' = At("reply")
    /\ UNCHANGED <<jobVars, suggestion, initialized, streaming, destroyed,
                   sessionDifficulty, hashVars, pass, passes, faults, miner, history, untold>>

\* mining.authorize; "d=" in the password raises the difficulty.
Authorize ==
    /\ Handling
    /\ greeted' = [greeted EXCEPT !.authorized = TRUE]
    /\ \/ UNCHANGED <<sessionDifficulty, untold>>
       \/ \E d \in Difficulty :
            suggestion = "none" /\ d > sessionDifficulty /\ Raise(d)
    /\ inbound' = At("reply")
    /\ UNCHANGED <<jobVars, suggestion, initialized, streaming, destroyed, hashVars,
                   pass, passes, faults, miner, history>>

\* mining.suggest_difficulty, once.
Suggest ==
    /\ Handling /\ suggestion # "used"
    /\ \E d \in Difficulty :
         /\ sessionDifficulty' = d
         /\ miner' = [miner EXCEPT !.difficulty = d]
    /\ suggestion' = "made"
    /\ inbound' = At("suggest")
    /\ UNCHANGED <<jobVars, greeted, initialized, streaming, destroyed, hashVars,
                   pass, passes, faults, history, untold>>

\* mining.configure, and every message that is only answered with an error.
Answer ==
    /\ Handling
    /\ inbound' = At("reply")
    /\ UNCHANGED <<jobVars, setupVars, destroyed, sessionDifficulty, hashVars, pass,
                   passes, faults, miner, history, untold>>

\* A slip: the session waits for the next template.
StreamLater ==
    /\ streaming' = TRUE
    /\ inbound' = Idle
    /\ UNCHANGED <<nextId, jobs, miner, hashVars>>

\* The minute timer, and the templates from the newest one on.
Stream ==
    /\ streaming' = TRUE
    /\ inbound' = Idle
    /\ IF latest # None
         THEN ResetHashes(latest) /\ SendJob(latest, jobs)
         ELSE UNCHANGED <<nextId, jobs, miner, hashVars>>

\* A slip: the difficulty is not announced.
StartSilently ==
    /\ initialized' = TRUE
    /\ Stream
    /\ UNCHANGED <<sessionDifficulty, untold>>

(* initStratum, up to its first write.  A cpuminer that has suggested a    *)
(* difficulty is given another one all the same.                           *)
Start ==
    /\ initialized' = TRUE
    /\ sessionDifficulty' = IF greeted.cpuminer THEN CpuDifficulty ELSE sessionDifficulty
    /\ IF suggestion = "none"
         THEN /\ inbound' = At("init")
              /\ miner' = [miner EXCEPT !.difficulty = sessionDifficulty']
              /\ UNCHANGED <<streaming, nextId, jobs, hashVars, untold>>
         ELSE /\ Stream
              /\ untold' = (untold \/ greeted.cpuminer)

(* The answer was written: the session starts with the first message that  *)
(* finds it both subscribed and authorized.                                *)
Answered ==
    /\ inbound.at \in {"reply", "suggest"}
    /\ suggestion' = IF inbound.at = "suggest" THEN "used" ELSE suggestion
    /\ IF greeted.subscribed /\ greeted.authorized /\ ~initialized
         THEN Start
         ELSE /\ inbound' = Idle
              /\ UNCHANGED <<initialized, streaming, sessionDifficulty, nextId, jobs,
                             miner, hashVars, untold>>
    /\ UNCHANGED <<latest, emitted, greeted, destroyed, pass, passes, faults, history>>

\* mining.set_difficulty was written.
InitWritten ==
    /\ inbound = At("init")
    /\ Stream
    /\ UNCHANGED <<latest, emitted, greeted, suggestion, initialized, destroyed,
                   sessionDifficulty, pass, passes, faults, history, untold>>

-----------------------------------------------------------------------------
(* handleMiningSubmission.  Unknown jobs, duplicates and weak shares that  *)
(* were sent before are answered with an error (Answer).                   *)

Remembered(s) ==
    IF Cardinality(submissionHashes) >= MaxSubmissions THEN {s}
    ELSE submissionHashes \union {s}

(* A submission for a job on offer that was not seen before: it is         *)
(* remembered, then judged.  The set has the strings of the message; the   *)
(* header that is hashed has the numbers they stand for, the same for every*)
(* spelling.                                                               *)
Judge(s) ==
    /\ Handling /\ initialized
    /\ \E j \in jobs : j.id = s[1]
    /\ s \notin submissionHashes
    /\ submissionHashes' = Remembered(s)
    /\ UNCHANGED <<jobVars, setupVars, destroyed, sessionDifficulty, resetTip, pass,
                   passes, faults, miner, acked, credited, creditedAgain, untold>>

\* Good enough.
Submit(s) ==
    /\ Judge(s)
    /\ inbound' = AtShare("ack", s)

\* Too weak: answered with an error and counted as rejected.
SubmitWeak(s) ==
    /\ Judge(s)
    /\ inbound' = At("reply")

(* A mining.submit that is malformed is answered, then the session is      *)
(* closed; one that comes before the session has started ends it at once   *)
(* (Disconnect).                                                           *)
SubmitMalformed ==
    /\ Handling /\ initialized
    /\ inbound' = At("refused")
    /\ UNCHANGED <<jobVars, setupVars, destroyed, sessionDifficulty, hashVars, pass,
                   passes, faults, miner, history, untold>>

RefusalWritten ==
    /\ inbound = At("refused")
    /\ Disconnect

\* The answer was written: a share that solves a block goes to the node first.
Acked ==
    /\ inbound.at = "ack"
    /\ acked' = acked \union {inbound.share}
    /\ \E next \in {"node", "entity"} : inbound' = AtShare(next, inbound.share)
    /\ UNCHANGED <<jobVars, setupVars, destroyed, sessionDifficulty, hashVars, pass,
                   passes, faults, miner, credited, creditedAgain, untold>>

\* SUBMIT_BLOCK has answered, the block is saved, notifications are sent.
BlockSubmitted ==
    /\ inbound.at = "node"
    /\ inbound' = AtShare("entity", inbound.share)
    /\ UNCHANGED <<jobVars, setupVars, destroyed, sessionDifficulty, hashVars, pass,
                   passes, faults, miner, acked, credited, creditedAgain, untold>>

\* A slip: the share of a session that has ended is dropped.
CreditOpen ==
    /\ inbound.at = "entity"
    /\ credited' = IF destroyed THEN credited ELSE credited \union {inbound.share}
    /\ creditedAgain' = creditedAgain \union ({inbound.share} \intersect credited)
    /\ inbound' = At("storing")
    /\ UNCHANGED <<jobVars, setupVars, destroyed, sessionDifficulty, hashVars, pass,
                   passes, faults, miner, acked, untold>>

\* The session has its row: addShares counts the share, and stores it in time.
Credit ==
    /\ inbound.at = "entity"
    /\ credited' = credited \union {inbound.share}
    /\ creditedAgain' = creditedAgain \union ({inbound.share} \intersect credited)
    /\ inbound' = At("storing")
    /\ UNCHANGED <<jobVars, setupVars, destroyed, sessionDifficulty, hashVars, pass,
                   passes, faults, miner, acked, untold>>

Stored ==
    /\ inbound = At("storing")
    /\ inbound' = Idle
    /\ UNCHANGED <<jobVars, setupVars, destroyed, sessionDifficulty, hashVars, pass,
                   passes, faults, miner, history, untold>>

\* Saving the block or inserting the row throws: the session is closed.
Fault ==
    /\ inbound.at \in {"node", "entity"}
    /\ faults < MaxFaults
    /\ faults' = faults + 1
    /\ Destroy
    /\ inbound' = Idle
    /\ UNCHANGED <<jobVars, greeted, suggestion, initialized, sessionDifficulty,
                   passes, miner, acked, credited, creditedAgain, untold>>

-----------------------------------------------------------------------------
(* checkDifficulty: a new difficulty is announced, then the newest         *)
(* template is sent again, with clearJobs and a later timestamp.           *)

StartPass ==
    /\ streaming /\ ~pass
    /\ passes < MaxPasses
    /\ passes' = passes + 1
    /\ \E d \in Difficulty \ {sessionDifficulty} :
         /\ sessionDifficulty' = d
         /\ miner' = [miner EXCEPT !.difficulty = d]
    /\ pass' = TRUE
    /\ untold' = FALSE
    /\ UNCHANGED <<jobVars, setupVars, destroyed, hashVars, inbound, faults, history>>

Retarget ==
    /\ pass /\ latest # None
    /\ pass' = FALSE
    /\ SendJob(latest, jobs)
    /\ UNCHANGED <<latest, emitted, setupVars, destroyed, sessionDifficulty, hashVars,
                   inbound, passes, faults, history, untold>>

Next ==
    \/ Emit \/ Disconnect
    \/ Subscribe \/ Authorize \/ Suggest \/ Answer \/ Answered \/ InitWritten
    \/ \E j \in jobs, n \in Nonce, k \in Spelling :
          Submit(<<j.id, n, k>>) \/ SubmitWeak(<<j.id, n, k>>)
    \/ SubmitMalformed \/ RefusalWritten
    \/ Acked \/ BlockSubmitted \/ Credit \/ Stored \/ Fault
    \/ StartPass \/ Retarget

Spec == Init /\ [][Next]_vars

(* A write completes or ends the session; the node and the database        *)
(* answer.  Miners, blocks, faults and timers owe nothing.                 *)
Fairness ==
    /\ WF_vars(inbound.at \in Writing /\ (Answered \/ InitWritten \/ Acked \/ Disconnect))
    /\ WF_vars(pass /\ (Retarget \/ Disconnect))
    /\ WF_vars(BlockSubmitted \/ Credit \/ Stored \/ Fault)

FairSpec == Spec /\ Fairness

-----------------------------------------------------------------------------
TypeOK ==
    /\ latest \in Template \union {None}
    /\ emitted \in 0..MaxTemplates
    /\ nextId \in Nat
    /\ jobs \subseteq [id : 1..(nextId - 1), tip : Tip]
    /\ greeted \in [subscribed : BOOLEAN, authorized : BOOLEAN, cpuminer : BOOLEAN]
    /\ suggestion \in {"none", "made", "used"}
    /\ {initialized, streaming, destroyed, pass, untold} \subseteq BOOLEAN
    /\ sessionDifficulty \in Difficulty \union {StartDifficulty, CpuDifficulty}
    /\ submissionHashes \subseteq Submission
    /\ resetTip \in {0} \union Tip
    /\ inbound.at \in Writing \union {"idle", "node", "entity", "storing"}
    /\ passes \in 0..MaxPasses /\ faults \in 0..MaxFaults
    /\ acked \union credited \union creditedAgain \subseteq Submission

(* No submission is credited twice, whatever templates, retargets and      *)
(* awaits come between the two times it is sent: the duplicate set is      *)
(* emptied only when the jobs it speaks of are gone ("Replaying clearJobs  *)
(* ... must not forget shares", StratumV1Client.ts:497-498).  It is about  *)
(* the message: the same share in another spelling is another submission,  *)
(* which the code credits as well.                                         *)
CreditedOnce == creditedAgain = {}

(* A session that is served works on the newest template, with a job that  *)
(* can be submitted: subscribing, emission and retargeting leave no gap.   *)
WorksOnLatest ==
    streaming /\ latest # None =>
        [id |-> miner.job, tip |-> latest.tip] \in jobs

(* The miner was told the difficulty it is judged by.  Two paths of the    *)
(* code change it without a word (untold): an authorize with "d=" on a     *)
(* session that has started, and a cpuminer that suggested a difficulty.   *)
ToldDifficulty ==
    streaming /\ ~untold => miner.difficulty = sessionDifficulty

(* A share the miner was told is accepted is counted, also when its        *)
(* session ends before the row or the node has answered ("should write     *)
(* accepted response before share accounting finishes").  Messages are     *)
(* handled one at a time: the last one accepted is counted before the next.*)
AckedIsCredited ==
    ~(acked \subseteq credited) ~> (acked \subseteq credited \/ faults > 0)

(* A miner that has subscribed and authorized, in any order and with any   *)
(* messages in between, is given work, if there is some.                   *)
GivenWork ==
    (greeted.subscribed /\ greeted.authorized /\ latest # None)
        ~> (destroyed \/ miner.job # 0)
=============================================================================
