----------------------------- MODULE V2Channels -----------------------------
(***************************************************************************)
(* One Stratum V2 session (StratumV2Client) and the broadcaster that feeds *)
(* it (StratumV2Service).                                                  *)
(*                                                                         *)
(* Four kinds of tasks share the session: one broadcast per job template,  *)
(* the difficulty pass of every minute, the handler of an inbound frame    *)
(* (one at a time, the inboundChain), and the end of the session.  They    *)
(* interleave where they wait for a socket write.  The tasks that wait are *)
(* the queue "writes", in the order of their writes; the end of its head's *)
(* write resumes that task, which makes its next write or ends.  Several   *)
(* writes may end at once: their tasks then go on one after the other, in  *)
(* any order, before anything else happens.  What a write tells the miner  *)
(* is applied to "miner" when the write is made: the wire keeps the order. *)
(*                                                                         *)
(* A job template is the tip it builds on and its clearJobs flag.  Both    *)
(* kinds of channel behave alike here: their handlers differ in the job    *)
(* data and the share key only.                                            *)
(***************************************************************************)
EXTENDS Integers, Sequences, FiniteSets

CONSTANTS
    MaxChannels,       \* bound: channels the session opens
    MaxTemplates,      \* bound: job templates emitted
    MaxExtras,         \* bound: difficulty passes, and tasks that overtake one, together
    MaxUpdates,        \* bound: UpdateChannel frames that change a difficulty
    MaxChunk,          \* bound: frames behind a frame in one chunk of data
    MaxChannelJobs,    \* MAX_CHANNEL_JOBS
    MaxSubmissions,    \* MAX_SUBMISSION_HASHES
    Difficulty,        \* session difficulties
    Resolved,          \* what resolveChannelDifficulty makes of hash rates and targets
    Nonce              \* shares a miner may find on one job

ASSUME BoundAssumption ==
    /\ MaxChannels \in Nat \ {0}
    /\ MaxTemplates \in Nat
    /\ MaxExtras \in Nat
    /\ MaxUpdates \in Nat
    /\ MaxChunk \in Nat
    /\ MaxChannelJobs \in Nat \ {0}
    /\ MaxSubmissions \in Nat \ {0}
ASSUME DataAssumption == Resolved # {} /\ Resolved \subseteq Difficulty

VARIABLES
    latest,            \* latestCanonicalJob
    emitted,           \* templates emitted so far
    handshakeComplete, \* of the Noise handshake: frames are read from then on
    destroyed,
    channels,          \* the channel states, by channel id
    prefixes,          \* channels whose extranonce prefix is allocated
    nextJobId,
    submissionHashes,
    writes,            \* the tasks that wait for a write, oldest first
    done,              \* so many of them, the first, have nothing to wait for any more
    inbound,           \* the frame being handled waits for: "writing", "block", "storing"
    storing,           \* the share whose credit is being stored, if any
    chunk,             \* frames left in the chunk being handled
    extras, updates,   \* bounded counters
    overtaken,         \* history: a broadcast was passed by another, or held up by a closed channel
    torn,              \* history: channels on which sends changed places, or one was cut short
    cleared,           \* history: the tip of the newest template with clearJobs
    miner,             \* per channel: what the miner was told
    credited, creditedAgain   \* history: shares credited, and credited again

taskVars  == <<writes, inbound, storing, chunk>>
shareVars == <<submissionHashes, credited, creditedAgain>>
boundVars == <<emitted, extras, updates>>
vars == <<latest, handshakeComplete, destroyed, channels, prefixes, nextJobId, taskVars, done,
          shareVars, boundVars, overtaken, torn, cleared, miner>>

-----------------------------------------------------------------------------
Channel == 1..MaxChannels
None == [none |-> TRUE]
Idle == "idle"

Template == [tip : 1..MaxTemplates, clear : BOOLEAN]
Job == [id : Nat, tip : 1..MaxTemplates]
Ids(js) == {j.id : j \in js}
Share == Channel \X Nat \X Nonce

\* A channel not open yet.  A "gone" one has left the map; a task that still
\* holds it goes on changing it.
Absent == [state |-> "absent", ready |-> FALSE, activeTip |-> 0, jobs |-> {},
           difficulty |-> None]

Open == {c \in Channel : channels[c].state = "open"}
Ready == {c \in Open : channels[c].ready}
Unopened == {c \in Channel : channels[c].state = "absent"}
Least(S) == CHOOSE x \in S : \A y \in S : x <= y

\* The newest MAX_CHANNEL_JOBS jobs (trimChannelJobs).
Newest(js) == {j \in js : Cardinality({k \in js : k.id > j.id}) < MaxChannelJobs}

Init ==
    /\ latest = None
    /\ emitted = 0
    /\ handshakeComplete = FALSE
    /\ destroyed = FALSE
    /\ channels = [c \in Channel |-> Absent]
    /\ prefixes = {}
    /\ nextJobId = 1
    /\ submissionHashes = {}
    /\ writes = <<>>
    /\ inbound = Idle
    /\ storing = {}
    /\ chunk = 0
    /\ extras = 0
    /\ updates = 0
    /\ miner = [c \in Channel |-> [tip |-> 0, job |-> 0, future |-> {}, target |-> None]]
    /\ credited = {}
    /\ creditedAgain = {}
    /\ overtaken = FALSE
    /\ torn = {}
    /\ cleared = 0
    /\ done = 0

\* No task is about to go on: only then does anything else happen.
NoneDue == done = 0 /\ UNCHANGED done

-----------------------------------------------------------------------------
(* What the miner makes of the frames (external: the SV2 protocol).        *)

\* NewMiningJob: a job without min_ntime waits for its SetNewPrevHash.
HearJob(c, job, future) ==
    IF future THEN [miner EXCEPT ![c].future = @ \union {job}]
              ELSE [miner EXCEPT ![c].job = job.id]

\* SetNewPrevHash: the job it names is taken up, other future jobs are dropped.
HearPrevHash(c, job) ==
    [miner EXCEPT ![c].tip = job.tip, ![c].job = job.id, ![c].future = {}]

HearTarget(c, d) == [miner EXCEPT ![c].target = d]

-----------------------------------------------------------------------------
(* Sending jobs: sendJobsForChannel up to its first write.                 *)

Waiting(task, at, c, template, job, newTip) ==
    [task |-> task, at |-> at, channel |-> c, template |-> template,
     job |-> job, newTip |-> newTip]

\* Slips: only the flag counts; hashes dropped with jobs that stay valid;
\* a job id used twice.
NewTipByFlag(c, template, known) == template.clear
HashesDropped(newTip) == {}
NextJobIdKept == nextJobId

NewTip(c, template, known) ==
    known[c].activeTip # template.tip \/ template.clear
HashesAfter(newTip) == IF newTip THEN {} ELSE submissionHashes
NextJobId == nextJobId + 1

\* The jobs of a channel with a new one.
JobsWith(job, newTip, js) == Newest((IF newTip THEN {} ELSE js) \union {job})

(* The job is registered, and, when the tip moved or the template says so, *)
(* the channel's jobs and the whole session's submission hashes go.  known *)
(* is the channel map, rest are the other tasks.                           *)
SendJobs(task, c, template, rest, known) ==
    LET newTip == NewTip(c, template, known)
        job == [id |-> nextJobId, tip |-> template.tip]
    IN /\ nextJobId' = NextJobId
       /\ channels' = [known EXCEPT ![c].jobs = JobsWith(job, newTip, @)]
       /\ submissionHashes' = HashesAfter(newTip)
       /\ miner' = HearJob(c, job, newTip)
       /\ writes' = Append(rest, Waiting(task, "newJob", c, template, job, newTip))

\* An inbound frame's handler writes its answer, the last thing it does.
Answer == Waiting("inbound", "answered", 0, None, None, FALSE)

\* The loops over the channel map: the channels after c, in insertion order.
After(c) == {d \in Ready : d > c}

-----------------------------------------------------------------------------
(* StratumV2Service: a job template is emitted.                            *)

(* A refresh or a new block.  clearJobs is set by the height the poll has  *)
(* seen, the tip by the node that makes the template: a refresh that runs  *)
(* ahead of the poll brings a new tip without clearJobs, and the poll that *)
(* catches up clearJobs without a new tip.                                 *)
Following(t) ==
    IF t = None THEN [tip : {1}, clear : BOOLEAN]
    ELSE [tip : {t.tip, t.tip + 1} \intersect (1..MaxTemplates), clear : BOOLEAN]

Emit ==
    /\ NoneDue
    /\ ~destroyed           \* what is emitted later does not reach this session
    /\ emitted < MaxTemplates
    /\ emitted' = emitted + 1
    /\ \E t \in Following(latest) :
         /\ latest' = t
         /\ cleared' = IF t.clear THEN t.tip ELSE cleared
         /\ IF Ready # {}
              THEN SendJobs("broadcast", Least(Ready), t, writes, channels)
              ELSE UNCHANGED <<channels, nextJobId, submissionHashes, miner, writes>>
    /\ overtaken' = (overtaken /\ writes # <<>>)
    /\ UNCHANGED <<torn, handshakeComplete, destroyed, prefixes, inbound, storing, chunk, extras,
                   updates, credited, creditedAgain>>

-----------------------------------------------------------------------------
AllGone ==
    [c \in Channel |->
        IF channels[c].state = "absent" THEN Absent ELSE [Absent EXCEPT !.state = "gone"]]

(* The end of the session, whoever asks for it.  Waiting tasks fail, or go *)
(* on without effect; the frames left in the chunk are lost with an error  *)
(* or still handled.  A share whose credit is being stored is still stored.*)
Destroy(left) ==
    /\ destroyed' = TRUE
    /\ prefixes' = prefixes \ Open
    /\ channels' = AllGone
    /\ submissionHashes' = {}
    /\ writes' = <<>>
    /\ inbound' = IF inbound = "writing" THEN Idle ELSE inbound
    /\ UNCHANGED storing
    /\ chunk' \in {0, left}
    /\ handshakeComplete' \in {handshakeComplete,
         handshakeComplete \/ \E i \in DOMAIN writes : writes[i].at = "act2"}
    /\ done' = 0
    /\ overtaken' = FALSE
    /\ torn' = {}
    /\ UNCHANGED cleared

(* The socket closes, a write of a broadcast or of a frame's handler fails *)
(* or times out, or the miner is abandoned.                                *)
Disconnect ==
    /\ done = 0
    /\ ~destroyed
    /\ Destroy(chunk)
    /\ UNCHANGED <<latest, nextJobId, boundVars, miner, credited,
                   creditedAgain>>

-----------------------------------------------------------------------------
(* The handshake: act 1 arrives, with the first frames behind it or not,   *)
(* and act 2 is written.                                                   *)
Handshake(left) ==
    /\ NoneDue
    /\ ~handshakeComplete /\ ~destroyed
    /\ inbound = Idle
    /\ chunk' = left
    /\ writes' = Append(writes, Waiting("inbound", "act2", 0, None, None, FALSE))
    /\ inbound' = "writing"
    /\ UNCHANGED <<latest, handshakeComplete, destroyed, channels, prefixes, nextJobId,
                   storing, shareVars, boundVars, overtaken, torn, cleared, miner>>

(* Inbound frames.  A frame is the next of the chunk being handled, or the *)
(* first of a new one, which a destroyed session refuses.                  *)
NextFrame(left) ==
    /\ done = 0
    /\ handshakeComplete
    /\ inbound = Idle
    /\ IF chunk > 0 THEN left = chunk - 1 ELSE ~destroyed

Frame(left) == NextFrame(left) /\ chunk' = left /\ UNCHANGED done

(* OpenStandard/ExtendedMiningChannel: the prefix is allocated, the channel*)
(* joins the map, and the answer is written before it is ready for jobs.   *)
OpenChannel(left) ==
    /\ Frame(left)
    /\ Unopened # {}
    /\ LET c == Least(Unopened) IN
       \E d \in Resolved :
         /\ prefixes' = prefixes \union {c}
         /\ channels' = [channels EXCEPT ![c] =
              [Absent EXCEPT !.state = "open", !.ready = destroyed, !.difficulty = d]]
         /\ IF destroyed
              THEN UNCHANGED <<writes, inbound, miner>>
              ELSE /\ writes' = Append(writes, Waiting("inbound", "opened", c, None, None, FALSE))
                   /\ inbound' = "writing"
                   /\ miner' = HearTarget(c, d)
    /\ UNCHANGED <<latest, handshakeComplete, destroyed, nextJobId, storing, shareVars, boundVars,
                   overtaken, torn, cleared>>

\* CloseChannel: the last channel takes the session with it.
CloseChannel(c, left) ==
    /\ NextFrame(left)
    /\ c \in Open
    /\ IF Open = {c} /\ ~destroyed
         THEN Destroy(left)
         ELSE /\ chunk' = left
              /\ prefixes' = prefixes \ {c}
              /\ channels' = [channels EXCEPT ![c].state = "gone"]
              /\ overtaken' = (overtaken \/ \E i \in DOMAIN writes :
                   writes[i].task = "broadcast" /\ writes[i].channel = c)
              /\ UNCHANGED <<handshakeComplete, destroyed, submissionHashes, writes, done, inbound,
                             storing, torn, cleared>>
    /\ UNCHANGED <<latest, nextJobId, boundVars, miner, credited,
                   creditedAgain>>

\* UpdateChannel with a hash rate that moves the difficulty.
UpdateChannel(c, left) ==
    /\ Frame(left)
    /\ ~destroyed /\ c \in Open
    /\ updates < MaxUpdates
    /\ updates' = updates + 1
    /\ \E d \in Resolved \ {channels[c].difficulty} :
         /\ channels' = [channels EXCEPT ![c].difficulty = d]
         /\ miner' = HearTarget(c, d)
    /\ writes' = Append(writes, Answer)
    /\ inbound' = "writing"
    /\ UNCHANGED <<latest, handshakeComplete, destroyed, prefixes, nextJobId, storing, shareVars,
                   emitted, extras, overtaken, torn, cleared>>

-----------------------------------------------------------------------------
(* SubmitShares: c, job and nonce stand for the submission key.            *)

Remembered(key) ==
    IF Cardinality(submissionHashes) >= MaxSubmissions THEN {key}
    ELSE submissionHashes \union {key}

(* All that the frame does is to be answered: SetupConnection, a share for *)
(* a channel or job that is not there or a duplicate, an OpenChannel or    *)
(* UpdateChannel that is refused.  Nothing asks for a SetupConnection      *)
(* before the other frames.                                                *)
AnswerOnly(left) ==
    /\ Frame(left)
    /\ ~destroyed
    /\ writes' = Append(writes, Answer)
    /\ inbound' = "writing"
    /\ UNCHANGED <<latest, handshakeComplete, destroyed, channels, prefixes, nextJobId,
                   storing, shareVars, boundVars, overtaken, torn, cleared, miner>>

(* A SetupConnection with another protocol, version or feature, or an      *)
(* OpenChannel with an invalid address: the session ends behind the answer.*)
AnswerAndClose(left) ==
    /\ Frame(left)
    /\ ~destroyed
    /\ writes' = Append(writes, Waiting("inbound", "refused", 0, None, None, FALSE))
    /\ inbound' = "writing"
    /\ UNCHANGED <<latest, handshakeComplete, destroyed, channels, prefixes, nextJobId,
                   storing, shareVars, boundVars, overtaken, torn, cleared, miner>>

\* A share that is judged: on a job the channel has, and not seen before.
IsNew(c, id, n) ==
    /\ c \in Open
    /\ id \in Ids(channels[c].jobs)
    /\ <<c, id, n>> \notin submissionHashes

\* Its key is kept before it is judged: it solves a block, or is worth a credit.
TakeShare(c, id, n, left) ==
    /\ Frame(left)
    /\ ~destroyed
    /\ IsNew(c, id, n)
    /\ submissionHashes' = Remembered(<<c, id, n>>)
    /\ inbound' \in {"block", "storing"}
    /\ storing' = {<<c, id, n>>}
    /\ UNCHANGED <<latest, handshakeComplete, destroyed, channels, prefixes, nextJobId, writes,
                   boundVars, overtaken, torn, cleared, miner, credited, creditedAgain>>

\* It rolls version bits it may not, or misses the target: an error frame.
RejectShare(c, id, n, left) ==
    /\ Frame(left)
    /\ ~destroyed
    /\ IsNew(c, id, n)
    /\ submissionHashes' = Remembered(<<c, id, n>>)
    /\ inbound' = "writing"
    /\ writes' = Append(writes, Answer)
    /\ UNCHANGED <<storing, latest, handshakeComplete, destroyed, channels, prefixes, nextJobId,
                   boundVars, overtaken, torn, cleared, miner, credited, creditedAgain>>

\* SUBMIT_BLOCK has returned and the block is saved: on to the credit.
BlockSaved ==
    /\ NoneDue
    /\ inbound = "block"
    /\ inbound' = "storing"
    /\ UNCHANGED <<latest, handshakeComplete, destroyed, channels, prefixes, nextJobId,
                   writes, storing, chunk, shareVars, boundVars, overtaken, torn, cleared, miner>>

\* Saving the block throws: the share and the rest of the chunk are dropped, and
\* the session is closed if it is not already.
BlockNotSaved ==
    /\ NoneDue
    /\ inbound = "block"
    /\ destroyed' = TRUE
    /\ prefixes' = prefixes \ Open
    /\ channels' = AllGone
    /\ submissionHashes' = {}
    /\ writes' = <<>>
    /\ inbound' = Idle
    /\ storing' = {}
    /\ chunk' = 0
    /\ overtaken' = FALSE
    /\ torn' = {}
    /\ UNCHANGED <<latest, handshakeComplete, nextJobId, boundVars, cleared, miner, credited,
                   creditedAgain>>

\* addShares stores the credit; a failure is logged.
AddShares ==
    /\ storing' = {}
    /\ credited' = credited \union storing
    /\ creditedAgain' = creditedAgain \union (storing \intersect credited)

\* Behind the credit, SubmitSharesSuccess is written.
CreditShare ==
    /\ NoneDue
    /\ inbound = "storing"
    /\ AddShares
    /\ IF destroyed
         THEN inbound' = Idle /\ UNCHANGED writes
         ELSE /\ writes' = Append(writes, Answer)
              /\ inbound' = "writing"
    /\ UNCHANGED <<latest, handshakeComplete, destroyed, channels, prefixes, nextJobId, chunk,
                   submissionHashes, boundVars, overtaken, torn, cleared, miner>>

-----------------------------------------------------------------------------
(* checkDifficulty: a pass over the ready channels.  A channel without a   *)
(* suggestion, or one that changes nothing, is passed over.                *)

Retarget(c, d, rest) ==
    /\ channels' = [channels EXCEPT ![c].difficulty = d]
    /\ miner' = HearTarget(c, d)
    /\ writes' = Append(rest, Waiting("pass", "retarget", c, None, None, FALSE))

StartPass ==
    /\ NoneDue
    /\ ~destroyed
    /\ extras < MaxExtras
    /\ \A i \in DOMAIN writes : writes[i].task # "pass"
    /\ extras' = extras + 1
    /\ \E c \in Ready : \E d \in Difficulty \ {channels[c].difficulty} :
         Retarget(c, d, writes)
    /\ UNCHANGED <<latest, handshakeComplete, destroyed, prefixes, nextJobId, inbound, storing, chunk,
                   shareVars, emitted, updates, overtaken, torn, cleared>>

-----------------------------------------------------------------------------
(* A write ends: the task that made it, the oldest, goes on.               *)

\* The task whose write completes, and the others.
w == Head(writes)
Others == Tail(writes)
GoOn(at) == Append(Others, [w EXCEPT !.at = at])

\* The task ends, and with an inbound task the handling of its frame.
End ==
    /\ writes' = Others
    /\ inbound' = IF w.task = "inbound" THEN Idle ELSE inbound
    /\ UNCHANGED <<channels, nextJobId, submissionHashes, miner>>

\* A slip: the channel waits for the next template.
OpenedUnsent ==
    /\ w.at = "opened"
    /\ channels' = [channels EXCEPT ![w.channel].ready = TRUE]
    /\ writes' = Others
    /\ inbound' = Idle
    /\ UNCHANGED <<nextJobId, submissionHashes, miner>>

\* OpenChannel.Success was written: ready, and sent the latest job.
Opened ==
    LET known == [channels EXCEPT ![w.channel].ready = TRUE] IN
    /\ w.at = "opened"
    /\ IF latest # None
         THEN SendJobs("inbound", w.channel, latest, Others, known) /\ UNCHANGED inbound
         ELSE /\ channels' = known
              /\ writes' = Others
              /\ inbound' = Idle
              /\ UNCHANGED <<nextJobId, submissionHashes, miner>>

Answered == w.at = "answered" /\ End

\* NewMiningJob was written: SetNewPrevHash follows, or SetTarget at once.
JobWritten ==
    /\ w.at = "newJob"
    /\ IF w.newTip
         THEN writes' = GoOn("prevHash") /\ miner' = HearPrevHash(w.channel, w.job)
         ELSE /\ writes' = GoOn("target")
              /\ miner' = HearTarget(w.channel, channels[w.channel].difficulty)
    /\ UNCHANGED <<channels, nextJobId, submissionHashes, inbound>>

PrevHashWritten ==
    /\ w.at = "prevHash"
    /\ channels' = [channels EXCEPT ![w.channel].activeTip = w.template.tip]
    /\ writes' = GoOn("target")
    /\ miner' = HearTarget(w.channel, channels[w.channel].difficulty)
    /\ UNCHANGED <<nextJobId, submissionHashes, inbound>>

\* The jobs are sent: a broadcast goes to the next ready channel.
BroadcastOn ==
    /\ w.at = "target" /\ w.task = "broadcast"
    /\ IF After(w.channel) # {}
         THEN SendJobs("broadcast", Least(After(w.channel)), w.template, Others, channels)
              /\ UNCHANGED inbound
         ELSE End

OpenDone == w.at = "target" /\ w.task = "inbound" /\ End

\* The pass goes to a later channel with a suggestion, or ends.
PassOn ==
    /\ w.task = "pass"
    /\ w.at = "target" \/ (w.at = "retarget" /\ latest = None)
    /\ \/ End
       \/ /\ \E c \in After(w.channel) : \E d \in Difficulty \ {channels[c].difficulty} :
               Retarget(c, d, Others)
          /\ UNCHANGED <<nextJobId, submissionHashes, inbound>>

(* SetTarget of the pass was written: the latest template, with clearJobs  *)
(* set and a later timestamp, is sent to the channel.                      *)
Retargeted ==
    /\ w.at = "retarget"
    /\ latest # None
    /\ SendJobs("pass", w.channel, [latest EXCEPT !.clear = TRUE], Others, channels)
    /\ UNCHANGED inbound

\* Act 2 was written: the rest of the chunk is read as frames.
Act2Written ==
    /\ w.at = "act2"
    /\ handshakeComplete' = TRUE
    /\ End

WriteDone ==
    /\ writes # <<>>
    /\ done' = IF done = 0 THEN 0 ELSE done - 1
    /\ \/ Act2Written
       \/ /\ Opened \/ Answered \/ JobWritten \/ PrevHashWritten \/ BroadcastOn
               \/ OpenDone \/ PassOn \/ Retargeted
          /\ UNCHANGED handshakeComplete
    /\ UNCHANGED <<latest, destroyed, prefixes, storing, chunk, boundVars, overtaken, torn, cleared,
                   credited, creditedAgain>>

\* The queue with its entry i moved to the front.
Forward(q, i) ==
    [k \in DOMAIN q |-> IF k = 1 THEN q[i] ELSE IF k <= i THEN q[k - 1] ELSE q[k]]

Swapped(i) == {k \in 1..(i - 1) : writes[k].channel = writes[i].channel}
Passed(i) == {k \in 1..(i - 1) : writes[k].task = "broadcast" /\ writes[i].task = "broadcast"}

(* The writes up to i, at least, have ended at once, and i's task goes on  *)
(* first: "drain" resolves a write that found the buffer full before the   *)
(* callbacks of those that did not.                                        *)
Overtake(i) ==
    /\ 1 < i /\ i <= (IF done = 0 THEN Len(writes) ELSE done)
    /\ extras < MaxExtras
    /\ extras' = extras + 1
    /\ done' = IF done = 0 THEN i ELSE done
    /\ writes' = Forward(writes, i)
    /\ overtaken' = (overtaken \/ Passed(i) # {})
    /\ torn' = torn \union {writes[k].channel : k \in Swapped(i)}
    /\ UNCHANGED <<latest, handshakeComplete, destroyed, channels, prefixes, nextJobId, inbound,
                   storing, chunk, shareVars, emitted, updates, cleared, miner>>

\* A slip: whatever task it is, the session goes on without it.
AnyWriteFails ==
    /\ NoneDue
    /\ writes # <<>>
    /\ writes' = Others
    /\ UNCHANGED <<latest, handshakeComplete, destroyed, channels, prefixes, nextJobId, inbound,
                   storing, chunk, shareVars, boundVars, overtaken, torn, cleared, miner>>

(* A write of the difficulty pass times out: nobody awaits the pass, so    *)
(* that it is over and the session goes on (under PM2, which logs an       *)
(* unhandled rejection).  What was written still arrives, but a job that   *)
(* was being sent stays half sent.  A socket error closes the session as   *)
(* well; a frame refused at the limit of the buffer leaves a miner that can*)
(* decrypt nothing more (V2Transport), which counts as the end here.       *)
PassFails ==
    /\ NoneDue
    /\ writes # <<>>
    /\ w.task = "pass"
    /\ writes' = Others
    /\ torn' = torn \union (IF w.at \in {"newJob", "prevHash"} THEN {w.channel} ELSE {})
    /\ UNCHANGED <<latest, handshakeComplete, destroyed, channels, prefixes, nextJobId, inbound,
                   storing, chunk, shareVars, boundVars, overtaken, cleared, miner>>

\* The answer behind which the session is closed was written.
CloseWritten ==
    /\ writes # <<>>
    /\ w.at = "refused"
    /\ Destroy(chunk)
    /\ UNCHANGED <<latest, nextJobId, boundVars, miner, credited,
                   creditedAgain>>

-----------------------------------------------------------------------------
Receive(left) ==
    \/ Handshake(left)
    \/ OpenChannel(left) \/ AnswerOnly(left) \/ AnswerAndClose(left)
    \/ \E c \in Channel : CloseChannel(c, left) \/ UpdateChannel(c, left)
    \/ \E c \in Open : \E id \in Ids(channels[c].jobs), n \in Nonce :
         TakeShare(c, id, n, left) \/ RejectShare(c, id, n, left)

Next ==
    \/ Emit
    \/ \E left \in 0..MaxChunk : Receive(left)
    \/ BlockSaved \/ BlockNotSaved \/ CreditShare
    \/ StartPass \/ WriteDone \/ CloseWritten \/ PassFails \/ Disconnect
    \/ \E i \in DOMAIN writes : Overtake(i)

Spec == Init /\ [][Next]_vars

(* A write ends, or times out after 2 s and ends the session or the pass;  *)
(* the statistics are stored.  Blocks, miners and timers owe nothing.      *)
Fairness ==
    /\ WF_vars(writes # <<>> /\ (WriteDone \/ CloseWritten \/ PassFails \/ Disconnect))
    /\ WF_vars(BlockSaved)
    /\ WF_vars(CreditShare)

FairSpec == Spec /\ Fairness

-----------------------------------------------------------------------------
Task == {"broadcast", "inbound", "pass"}
Stage == {"act2", "opened", "answered", "refused", "newJob", "prevHash", "target", "retarget"}
Write == [task : Task, at : Stage, channel : Channel \union {0}, template : Template \union {None},
          job : Job \union {None}, newTip : BOOLEAN]
Target == Difficulty \union {None}
ChannelState == [state : {"absent", "open", "gone"}, ready : BOOLEAN,
                 activeTip : 0..MaxTemplates, jobs : SUBSET Job, difficulty : Target]
MinerState == [tip : 0..MaxTemplates, job : Nat, future : SUBSET Job, target : Target]

TypeOK ==
    /\ latest \in Template \union {None}
    /\ emitted \in 0..MaxTemplates
    /\ handshakeComplete \in BOOLEAN /\ destroyed \in BOOLEAN
    /\ channels \in [Channel -> ChannelState]
    /\ \A c \in Channel : Ids(channels[c].jobs) \subseteq 1..(nextJobId - 1)
    /\ \A c \in Channel : Cardinality(channels[c].jobs) <= MaxChannelJobs
    /\ prefixes \subseteq Channel
    /\ nextJobId \in Nat \ {0}
    /\ submissionHashes \subseteq Share /\ credited \subseteq Share
    /\ creditedAgain \subseteq Share
    /\ writes \in Seq(Write)
    /\ inbound \in {Idle, "writing", "block", "storing"}
    /\ storing \subseteq Share
    /\ chunk \in 0..MaxChunk
    /\ extras \in 0..MaxExtras /\ updates \in 0..MaxUpdates
    /\ done \in 0..Len(writes)
    /\ overtaken \in BOOLEAN /\ torn \subseteq Channel \union {0} /\ cleared \in 0..MaxTemplates
    /\ miner \in [Channel -> MinerState]

\* No task is sending jobs or a target on the channel, and no broadcast will.
Quiet(c) ==
    \A i \in DOMAIN writes :
        /\ writes[i].channel # c
        /\ writes[i].task = "broadcast" => writes[i].channel > c

\* The miner was told what it is judged by, and the tip it is believed to have.
Heard(c) ==
    /\ miner[c].target = channels[c].difficulty
    /\ c \notin torn => miner[c].tip = channels[c].activeTip

\* The newest tip was announced: a template on it came with clearJobs.
Announced == latest # None /\ cleared = latest.tip

(* Once nothing is being sent on a channel, or on its way to it, the miner *)
(* works with the target it is judged by, on the tip the service believes  *)
(* it has, and on a job the channel still accepts: however broadcast,      *)
(* opening and retargeting overlapped in sendJobsForChannel, as long as a  *)
(* channel is not given more jobs than it keeps (32) while one is being    *)
(* written, which takes 2 s at most.  Three cases are left out.  A channel *)
(* on which sends changed places, or whose pass was cut short (torn).  A   *)
(* broadcast that another has passed (overtaken), on a closed channel or by*)
(* "drain".  A tip that was not announced: an older broadcast that reaches *)
(* a channel behind its opening, before activeTipKey is set, takes the     *)
(* miner back to the old tip, and the template that came without clearJobs *)
(* is taken for more work on the new one (StratumV2Client.ts:1025).        *)
QuietChannelsAgree ==
    \A c \in Ready : Quiet(c) /\ miner[c].job # 0 =>
        /\ Heard(c)
        /\ c \notin torn /\ Announced /\ ~overtaken =>
             [id |-> miner[c].job, tip |-> miner[c].tip] \in channels[c].jobs

(* A channel that opens while templates are broadcast misses none of them, *)
(* and an older template still being broadcast does not stay: when no      *)
(* write is outstanding, every channel of a session that goes on works on  *)
(* the latest tip, once it was announced, but for the cases named above.   *)
SettledOnLatest ==
    writes = <<>> /\ Announced /\ ~overtaken /\ ~destroyed => \A c \in Open \ torn :
        channels[c].ready /\ miner[c].tip = latest.tip

(* In a session of one channel, below the cap of the set, no share is      *)
(* credited twice: "must not forget shares" (StratumV1Client.ts:498, of the*)
(* duplicate set).  The set is the session's: what one channel clears for  *)
(* its new tip are the shares of the others too, which then count again.   *)
CreditedOnce == creditedAgain = {}

(* "CloseChannel / clean disconnect releases session"                      *)
(* (scripts/sv2-sri-interop.md:48): a session that has ended, and handles  *)
(* no frame any more, holds no extranonce prefix, whatever channels came   *)
(* and went and whatever was being written when it ended.  The code breaks *)
(* it: an OpenChannel left in the chunk when the session ends is handled,  *)
(* and nothing releases the prefix it takes.                               *)
SessionReleased == destroyed /\ inbound = Idle /\ chunk = 0 => prefixes = {}

(* An open channel that is behind the newest announced tip is eventually   *)
(* told of it, whatever is being written, also when the difficulty pass    *)
(* fails beside it; but for the cases named above.                         *)
TipsReachMiners ==
    \A c \in Channel :
        (c \in Open /\ miner[c].tip < cleared)
            ~> (c \notin Open \/ overtaken \/ c \in torn \/ miner[c].tip >= cleared)
=============================================================================
