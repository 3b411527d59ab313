-------------------------- MODULE V2ChannelsProofs --------------------------
(***************************************************************************)
(* Theorems about V2Channels, for any number of channels, templates,       *)
(* difficulty passes, tasks that overtake others, and frames in a chunk.   *)
(*                                                                         *)
(* The invariants speak of the queue of tasks that wait for a write by     *)
(* operators that take it as an argument, so that what appending to it,    *)
(* dropping its head, and both at once do to them are lemmas.              *)
(***************************************************************************)
EXTENDS V2Channels, FiniteSetTheorems, SequenceTheorems, WellFoundedInduction, TLAPS

\* Entries of a task that is sending a job on a channel.
Sending(e) == e.at \in {"newJob", "prevHash", "target"}

(* What the entries of the queue have to do with each other's fields, with *)
(* the latest template and with the job ids.                               *)
Shaped(e, newest, next) ==
    /\ Sending(e) => /\ e.template \in Template /\ e.job \in Job
                     /\ e.job.tip = e.template.tip
                     /\ e.job.id < next
                     /\ e.channel \in Channel
    /\ e.at \in {"retarget", "opened"} => e.channel \in Channel
    /\ e.at \in {"act2", "opened", "answered", "refused"} => e.task = "inbound"
    /\ e.at \in {"act2", "answered", "refused"} => e.channel = 0
    /\ e.at = "retarget" => e.task = "pass"
    /\ e.at = "prevHash" => e.newTip
    /\ e.task = "broadcast" =>
         /\ Sending(e) /\ newest # None /\ e.template.tip <= newest.tip
         /\ e.template.clear => e.newTip

AllShaped(q, newest, next) == \A i \in DOMAIN q : Shaped(q[i], newest, next)

Shape ==
    /\ AllShaped(writes, latest, nextJobId)
    /\ latest # None => latest.tip <= emitted /\ cleared <= latest.tip
    /\ latest = None => cleared = 0
    /\ destroyed => writes = <<>>

-----------------------------------------------------------------------------
(* The inbound chain handles one frame at a time: at most one of its       *)
(* writes is waited for, and none while it waits for something else.       *)
NoInbound(q) == \A i \in DOMAIN q : q[i].task # "inbound"
Chain(q, in) ==
    \A i \in DOMAIN q : q[i].task = "inbound" =>
        /\ in = "writing"
        /\ \A j \in DOMAIN q : q[j].task = "inbound" => i = j
OneInbound == Chain(writes, inbound)

\* The writes that are waited for, whatever their order.
Entries(q) == {q[i] : i \in DOMAIN q}

(* A channel that is not ready has been sent nothing; the frame that opens *)
(* it waits for its answer, unless the session ended.                      *)
Unready ==
    /\ \A c \in Channel : channels[c].state = "absent" => ~channels[c].ready
    /\ \A c \in Channel : ~channels[c].ready =>
         /\ channels[c].activeTip = 0
         /\ channels[c].state # "gone" => miner[c].tip = 0 /\ miner[c].job = 0
    /\ \A c \in Open : ~channels[c].ready /\ ~destroyed =>
         \E e \in Entries(writes) : e.at = "opened" /\ e.channel = c
    /\ \A e \in Entries(writes) :
         /\ Sending(e) \/ e.at = "retarget" => channels[e.channel].ready
         /\ e.at = "opened" => channels[e.channel].state = "open" /\ ~channels[e.channel].ready
    /\ destroyed => \A c \in Open : miner[c].job = 0

Targets == \A c \in Open : ~destroyed => miner[c].target = channels[c].difficulty

\* The jobs of a channel: finitely many, and an id names one of them.
UniqueIds(js) == IsFiniteSet(js) /\ \A j, k \in js : j.id = k.id => j = k
JobSets == \A c \in Channel : UniqueIds(channels[c].jobs)

-----------------------------------------------------------------------------
(* The tips on their way to a channel's miner.                             *)

\* Entries that still make the miner, or the service, change the tip.
Moves(e, at, c) == e.channel = c /\ e.at = at /\ e.newTip
NoMove(q, at, c) == \A e \in Entries(q) : ~Moves(e, at, c)
LastMove(q, at, c, e) ==
    \E i \in DOMAIN q : /\ q[i] = e /\ Moves(e, at, c)
                        /\ \A k \in DOMAIN q : k > i => ~Moves(q[k], at, c)

(* The tip that the miner has heard is the active one, or becomes it once  *)
(* the last SetNewPrevHash is written.                                     *)
HeardTip(c) ==
    /\ NoMove(writes, "prevHash", c) => miner[c].tip = channels[c].activeTip
    /\ \A e : LastMove(writes, "prevHash", c, e) => miner[c].tip = e.template.tip
HeardTips == \A c \in Open \ torn : HeardTip(c)

(* The tip a miner works on when what is being sent has been written.      *)
EndsOn(c, t) ==
    /\ NoMove(writes, "newJob", c) => miner[c].tip = t
    /\ \A e : LastMove(writes, "newJob", c, e) => e.template.tip = t

-----------------------------------------------------------------------------
(* The order of the broadcasts.                                            *)

StageOf(e) == IF e.at = "newJob" THEN 0 ELSE IF e.at = "prevHash" THEN 1 ELSE 2
Broadcast(e) == e.task = "broadcast"

\* Entry i of the queue reaches every later channel before entry j does.
Ahead(q, i, j) ==
    \/ q[i].channel > q[j].channel
    \/ /\ q[i].channel = q[j].channel
       /\ StageOf(q[i]) > StageOf(q[j]) \/ (StageOf(q[i]) = StageOf(q[j]) /\ i < j)

Ordered(q) ==
    \A i, j \in DOMAIN q :
        /\ Broadcast(q[i]) /\ Broadcast(q[j])
        /\ q[i].template.tip < q[j].template.tip /\ q[j].template.clear
        => Ahead(q, i, j)

\* An older broadcast is followed by the one that brought the latest tip.
Followed(q, newest) ==
    \A e \in Entries(q) : Broadcast(e) /\ e.template.tip < newest.tip =>
        \E f \in Entries(q) : Broadcast(f) /\ f.template.tip = newest.tip /\ f.template.clear

\* said: the newest tip was announced.
Broadcasts(q, ready, newest, said) ==
    /\ \A e \in Entries(q) : Broadcast(e) => e.channel \in ready
    /\ Ordered(q)
    /\ said => Followed(q, newest)
BroadcastOrder == ~overtaken => Broadcasts(writes, Ready, latest, Announced)

(* A broadcast that brings a channel the latest tip: its template clears,  *)
(* or the channel will still have the old tip when it comes.               *)
Brings(e, c) ==
    /\ Broadcast(e) /\ e.channel < c /\ e.template.tip = latest.tip
    /\ e.template.clear \/ (NoMove(writes, "newJob", c) /\ NoMove(writes, "prevHash", c))

Arrives(c) == EndsOn(c, latest.tip) \/ \E e \in Entries(writes) : Brings(e, c)
Arriving == Announced /\ ~overtaken /\ ~destroyed => \A c \in Ready \ torn : Arrives(c)

-----------------------------------------------------------------------------
(* Constants, least elements, and what the queue's operations do.          *)

LEMMA Bounds ==
    /\ MaxChannels \in Nat /\ MaxTemplates \in Nat /\ MaxExtras \in Nat
    /\ MaxUpdates \in Nat /\ MaxChunk \in Nat
    /\ MaxChannelJobs \in Nat /\ MaxChannelJobs >= 1
    /\ MaxSubmissions \in Nat
BY BoundAssumption

LEMMA NatHasLeast ==
    ASSUME NEW S \in SUBSET Nat, S # {}
    PROVE  \E x \in S : \A y \in S : x <= y
<1>1. \E x \in S : \A y \in S : ~(<<y, x>> \in OpToRel(<, Nat))
  BY NatLessThanWellFounded, WFMin
<1>2. PICK x \in S : \A y \in S : ~(<<y, x>> \in OpToRel(<, Nat))
  BY <1>1
<1>3. \A y \in S : ~(y < x)
  BY <1>2 DEF OpToRel
<1> QED BY <1>3

\* The channel that Least names, and that it is the least.
LEMMA LeastChannel ==
    ASSUME NEW S \in SUBSET Channel, S # {}
    PROVE  Least(S) \in S /\ \A y \in S : Least(S) <= y
<1>1. S \subseteq Nat BY Bounds DEF Channel
<1>2. \E x \in S : \A y \in S : x <= y BY <1>1, NatHasLeast
<1> QED BY <1>2 DEF Least

LEMMA QueueAppend ==
    ASSUME NEW q \in Seq(Write), NEW e \in Write
    PROVE  /\ Append(q, e) \in Seq(Write)
           /\ Len(q) \in Nat
           /\ Len(Append(q, e)) = Len(q) + 1
           /\ DOMAIN q = 1..Len(q)
           /\ DOMAIN Append(q, e) = 1..(Len(q) + 1)
           /\ \A i \in DOMAIN q : Append(q, e)[i] = q[i]
           /\ Append(q, e)[Len(q) + 1] = e
           /\ \A i \in DOMAIN q : q[i] \in Write
BY AppendProperties

LEMMA QueueTail ==
    ASSUME NEW q \in Seq(Write), q # <<>>
    PROVE  /\ Tail(q) \in Seq(Write)
           /\ Len(q) \in Nat /\ Len(q) >= 1
           /\ Head(q) = q[1] /\ q[1] \in Write
           /\ Len(Tail(q)) = Len(q) - 1
           /\ DOMAIN q = 1..Len(q)
           /\ DOMAIN Tail(q) = 1..(Len(q) - 1)
           /\ \A i \in DOMAIN Tail(q) : Tail(q)[i] = q[i + 1]
           /\ \A i \in DOMAIN q : q[i] \in Write
<1>1. Len(q) \in Nat /\ Len(q) >= 1 /\ DOMAIN q = 1..Len(q) /\ Head(q) = q[1] /\ q[1] \in Write
  BY EmptySeq
<1>2. Tail(q) \in Seq(Write) /\ Len(Tail(q)) = Len(q) - 1
      /\ \A i \in 1..Len(Tail(q)) : Tail(q)[i] = q[i + 1]
  BY HeadTailProperties
<1>3. DOMAIN Tail(q) = 1..(Len(q) - 1)
  BY <1>1, <1>2
<1>4. \A i \in DOMAIN q : q[i] \in Write
  OBVIOUS
<1> QED BY <1>1, <1>2, <1>3, <1>4

\* Entry k of a queue whose entry i has moved to the front: where it was, and
\* where it is.
Source(i, k) == IF k = 1 THEN i ELSE IF k <= i THEN k - 1 ELSE k
Place(i, k) == IF k = i THEN 1 ELSE IF k < i THEN k + 1 ELSE k

LEMMA QueueForward ==
    ASSUME NEW q \in Seq(Write), NEW i \in DOMAIN q
    PROVE  /\ Forward(q, i) \in Seq(Write)
           /\ Len(Forward(q, i)) = Len(q) /\ Len(q) \in Nat
           /\ DOMAIN q = 1..Len(q) /\ DOMAIN Forward(q, i) = DOMAIN q
           /\ \A k \in DOMAIN q : /\ Source(i, k) \in DOMAIN q
                                  /\ Forward(q, i)[k] = q[Source(i, k)]
           /\ \A k \in DOMAIN q : /\ Place(i, k) \in DOMAIN q
                                  /\ Forward(q, i)[Place(i, k)] = q[k]
           /\ \A j, k \in DOMAIN q : Source(i, j) = Source(i, k) => j = k
           /\ \A k \in DOMAIN q : Source(i, Place(i, k)) = k /\ Place(i, Source(i, k)) = k
           /\ \A j, k \in DOMAIN q : j < k /\ k # i => Place(i, j) < Place(i, k)
<1> PICK n \in Nat : n = Len(q) OBVIOUS
<1>1. DOMAIN q = 1..n /\ i \in 1..n OBVIOUS
<1>2. /\ \A k \in 1..n : Source(i, k) \in 1..n /\ Place(i, k) \in 1..n
      /\ \A j, k \in 1..n : Source(i, j) = Source(i, k) => j = k
      /\ \A k \in 1..n : Source(i, Place(i, k)) = k /\ Place(i, Source(i, k)) = k
      /\ \A j, k \in 1..n : j < k /\ k # i => Place(i, j) < Place(i, k)
  BY <1>1 DEF Source, Place
<1>3. \A k \in 1..n : Forward(q, i)[k] = q[Source(i, k)]
  BY <1>1 DEF Forward, Source
<1>4. DOMAIN Forward(q, i) = 1..n BY <1>1 DEF Forward
<1>5. \A k \in 1..n : q[k] \in Write BY <1>1
<1>6. Forward(q, i) \in [1..n -> Write]
  <2>1. \A k \in 1..n : Forward(q, i)[k] \in Write BY <1>2, <1>3, <1>5
  <2> QED BY <1>1, <2>1 DEF Forward
<1>7. Forward(q, i) \in Seq(Write) /\ Len(Forward(q, i)) = n
  BY <1>6, IsASeq, LenProperties
<1> QED BY <1>1, <1>2, <1>3, <1>4, <1>7

-----------------------------------------------------------------------------
(* The jobs of a channel.                                                  *)

\* Adding a job with a new id, and trimming, keep as many jobs as allowed.
LEMMA NewestBound ==
    ASSUME NEW js \in SUBSET Job, UniqueIds(js), Cardinality(js) <= MaxChannelJobs,
           NEW job \in Job, \A j \in js : j.id < job.id
    PROVE  /\ UniqueIds(Newest(js \union {job}))
           /\ Cardinality(Newest(js \union {job})) <= MaxChannelJobs
           /\ Newest(js \union {job}) \subseteq js \union {job}
           /\ job \in Newest(js \union {job})
<1> DEFINE all == js \union {job}
           later(j) == {k \in all : k.id > j.id}
<1>1. IsFiniteSet(js) /\ job \notin js
  BY DEF UniqueIds, Job
<1>2. IsFiniteSet(all) /\ Cardinality(all) = Cardinality(js) + 1
  BY <1>1, FS_AddElement
<1>3. UniqueIds(all)
  <2>1. \A j \in js : j.id \in Nat /\ j.id # job.id BY DEF Job
  <2> QED BY <1>2, <2>1 DEF UniqueIds
<1>4. Newest(all) = {j \in all : Cardinality(later(j)) < MaxChannelJobs}
  BY DEF Newest
<1>5. Newest(all) \subseteq all
  BY <1>4
<1>6. UniqueIds(Newest(all))
  BY <1>2, <1>3, <1>5, FS_Subset DEF UniqueIds
<1>7. Cardinality(js) \in Nat
  BY <1>1, FS_CardinalityType
<1>8. later(job) = {}
  BY DEF Job
<1>9. job \in Newest(all)
  BY <1>4, <1>8, FS_EmptySet, Bounds
<1>10. CASE Cardinality(js) < MaxChannelJobs
  <2>1. Cardinality(Newest(all)) <= Cardinality(all)
    BY <1>2, <1>5, FS_Subset
  <2>2. Cardinality(Newest(all)) \in Nat
    BY <1>6, FS_CardinalityType DEF UniqueIds
  <2>3. Cardinality(Newest(all)) <= MaxChannelJobs
    <3> HIDE DEF all
    <3> QED BY <1>2, <1>7, <1>10, <2>1, <2>2, Bounds
  <2> QED BY <1>5, <1>6, <1>9, <2>3
<1>11. CASE Cardinality(js) = MaxChannelJobs
  <2>1. PICK j \in all : \A k \in all : j.id <= k.id
    <3>1. {k.id : k \in all} \subseteq Nat /\ {k.id : k \in all} # {}
      BY DEF Job
    <3>2. PICK x \in {k.id : k \in all} : \A y \in {k.id : k \in all} : x <= y
      BY <3>1, NatHasLeast
    <3> QED BY <3>2
  <2>2. later(j) = all \ {j}
    <3>1. \A k \in all : k.id > j.id <=> k # j
      BY <1>3, <2>1 DEF UniqueIds, Job
    <3> QED BY <3>1
  <2>3. IsFiniteSet(all \ {j}) /\ Cardinality(all \ {j}) = Cardinality(js)
    BY <1>2, <1>7, FS_RemoveElement
  <2>4. j \notin Newest(all)
    <3>1. ~(Cardinality(later(j)) < MaxChannelJobs)
      <4> HIDE DEF all, later
      <4> QED BY <1>11, <2>2, <2>3, Bounds
    <3> QED BY <1>4, <3>1
  <2>5. Newest(all) \subseteq all \ {j}
    BY <1>5, <2>4
  <2>6. Cardinality(Newest(all)) <= Cardinality(all \ {j})
    BY <2>3, <2>5, FS_Subset
  <2>7. Cardinality(Newest(all)) <= MaxChannelJobs
    BY <1>11, <2>3, <2>6
  <2> QED BY <1>5, <1>6, <1>9, <2>7
<1>12. Cardinality(js) < MaxChannelJobs \/ Cardinality(js) = MaxChannelJobs
  BY <1>7, Bounds
<1> QED BY <1>10, <1>11, <1>12

\* The same of the jobs a channel has once a new job is registered.
LEMMA JobsWithBound ==
    ASSUME NEW js \in SUBSET Job, UniqueIds(js), Cardinality(js) <= MaxChannelJobs,
           NEW job \in Job, \A j \in js : j.id < job.id, NEW newTip \in BOOLEAN
    PROVE  /\ UniqueIds(JobsWith(job, newTip, js))
           /\ Cardinality(JobsWith(job, newTip, js)) <= MaxChannelJobs
           /\ JobsWith(job, newTip, js) \subseteq (IF newTip THEN {} ELSE js) \union {job}
           /\ job \in JobsWith(job, newTip, js)
<1>1. CASE newTip
  <2>1. UniqueIds({}) /\ Cardinality({}) = 0
    BY FS_EmptySet DEF UniqueIds
  <2>2. {} \in SUBSET Job OBVIOUS
  <2>3. Cardinality({}) <= MaxChannelJobs BY <2>1, Bounds
  <2>4. \A j \in {} : j.id < job.id OBVIOUS
  <2> QED BY <1>1, <2>1, <2>2, <2>3, <2>4, NewestBound DEF JobsWith
<1>2. CASE ~newTip
  BY <1>2, NewestBound DEF JobsWith
<1> QED BY <1>1, <1>2

-----------------------------------------------------------------------------
(* What a step does to the queue, the channels and the miner.  Several     *)
(* actions do the same to them.                                            *)

Kept == UNCHANGED <<latest, emitted, destroyed, overtaken, torn, cleared>>
Untouched == UNCHANGED <<channels, nextJobId, miner>>

\* A frame is refused, a share judged: nothing that concerns the jobs.
Idles ==
    /\ Kept /\ Untouched /\ UNCHANGED writes
    /\ (inbound # "writing" /\ inbound' # "writing") \/ UNCHANGED inbound

\* The inbound chain writes an answer.
Asks ==
    /\ Kept /\ Untouched /\ ~destroyed
    /\ inbound # "writing" /\ inbound' = "writing"
    /\ \E at \in {"act2", "answered", "refused"} :
         writes' = Append(writes, Waiting("inbound", at, 0, None, None, FALSE))

\* A difficulty changes, and the task that changed it writes e, behind rest.
Changes(c, d, rest, e) ==
    /\ Kept /\ ~destroyed /\ c \in Open /\ d \in Difficulty
    /\ channels' = [channels EXCEPT ![c].difficulty = d]
    /\ miner' = HearTarget(c, d)
    /\ writes' = Append(rest, e)
    /\ UNCHANGED nextJobId

RetargetWrite(c) == Waiting("pass", "retarget", c, None, None, FALSE)

Updates(c, d) ==
    /\ Changes(c, d, writes, Answer)
    /\ inbound # "writing" /\ inbound' = "writing"

Starts(c, d) ==
    Changes(c, d, writes, RetargetWrite(c)) /\ c \in Ready /\ UNCHANGED inbound

Continues(c, d) ==
    /\ writes # <<>> /\ w.task = "pass" /\ w.at \in {"target", "retarget"}
    /\ Changes(c, d, Others, RetargetWrite(c)) /\ c \in Ready /\ UNCHANGED inbound

\* A task ends: with a broadcast, there is no channel left.
Ends ==
    /\ Kept /\ writes # <<>> /\ End
    /\ w.at \in {"act2", "answered", "target", "retarget"}
    /\ w.at = "target" /\ Broadcast(w) => After(w.channel) = {}

SendsFirst == Kept /\ writes # <<>> /\ Opened
SendsOn == Kept /\ writes # <<>> /\ BroadcastOn /\ After(w.channel) # {}
SendsAgain == Kept /\ writes # <<>> /\ Retargeted
GoesOn == Kept /\ writes # <<>> /\ (JobWritten \/ PrevHashWritten)

\* The session ends.
Vanishes ==
    /\ destroyed' = TRUE /\ channels' = AllGone /\ writes' = <<>> /\ overtaken' = FALSE
    /\ torn' = {}
    /\ UNCHANGED <<latest, emitted, nextJobId, miner, cleared>>
    /\ inbound' # "writing"

Closes(c) ==
    /\ c \in Open /\ (Open # {c} \/ destroyed)
    /\ inbound # "writing" /\ UNCHANGED inbound
    /\ channels' = [channels EXCEPT ![c].state = "gone"]
    /\ overtaken' = (overtaken \/ \E i \in DOMAIN writes :
                       writes[i].task = "broadcast" /\ writes[i].channel = c)
    /\ UNCHANGED <<latest, emitted, destroyed, nextJobId, miner, writes, torn, cleared>>

\* A task goes before others, and the difficulty pass is cut short.
Overtakes(i) ==
    /\ i \in DOMAIN writes /\ writes' = Forward(writes, i)
    /\ overtaken' = (overtaken \/ Passed(i) # {})
    /\ torn' = torn \union {writes[k].channel : k \in Swapped(i)}
    /\ Untouched /\ UNCHANGED <<latest, emitted, destroyed, cleared, inbound>>
CutShort ==
    /\ writes # <<>> /\ w.task = "pass" /\ writes' = Others
    /\ torn' = torn \union (IF w.at \in {"newJob", "prevHash"} THEN {w.channel} ELSE {})
    /\ Untouched /\ UNCHANGED <<latest, emitted, destroyed, overtaken, cleared, inbound>>

StepKind ==
    \/ Idles \/ Asks
    \/ \E c \in Channel, d \in Difficulty : Updates(c, d) \/ Starts(c, d) \/ Continues(c, d)
    \/ Ends \/ SendsFirst \/ SendsOn \/ SendsAgain \/ GoesOn
    \/ Vanishes
    \/ \E left \in 0..MaxChunk : OpenChannel(left)
    \/ \E c \in Channel : Closes(c)
    \/ \E i \in DOMAIN writes : Overtakes(i)
    \/ CutShort
    \/ Emit

LEMMA StepKinds == ASSUME Shape, [Next]_vars PROVE StepKind
<1>1. CASE UNCHANGED vars
  BY <1>1 DEF vars, StepKind, Idles, Kept, Untouched, taskVars, boundVars
<1>2. CASE Emit
  BY <1>2 DEF StepKind
<1>3. ASSUME NEW left \in 0..MaxChunk, Receive(left) PROVE StepKind
  <2>1. CASE Handshake(left) \/ AnswerOnly(left) \/ AnswerAndClose(left)
    <3>1. Asks
      BY <2>1 DEF Handshake, AnswerOnly, AnswerAndClose, Frame, NextFrame, Answer, Asks, Kept,
           Untouched, Idle, boundVars
    <3> QED BY <3>1 DEF StepKind
  <2>2. CASE OpenChannel(left)
    BY <2>2 DEF StepKind
  <2>3. ASSUME NEW c \in Channel, CloseChannel(c, left) PROVE StepKind
    <3>1. CASE Open = {c} /\ ~destroyed
      <4>1. Vanishes
        BY <2>3, <3>1 DEF CloseChannel, Destroy, Vanishes, NextFrame, Idle, boundVars
      <4> QED BY <4>1 DEF StepKind
    <3>2. CASE ~(Open = {c} /\ ~destroyed)
      <4>1. Closes(c)
        BY <2>3, <3>2 DEF CloseChannel, Closes, NextFrame, Idle, boundVars
      <4> QED BY <4>1 DEF StepKind
    <3> QED BY <3>1, <3>2
  <2>4. ASSUME NEW c \in Channel, UpdateChannel(c, left) PROVE StepKind
    <3>1. PICK d \in Resolved : /\ channels' = [channels EXCEPT ![c].difficulty = d]
                                /\ miner' = HearTarget(c, d)
      BY <2>4 DEF UpdateChannel
    <3>2. Updates(c, d)
      BY <2>4, <3>1, DataAssumption
      DEF UpdateChannel, Updates, Changes, Kept, Frame, NextFrame, Idle, boundVars
    <3>3. d \in Difficulty BY DataAssumption
    <3> QED BY <3>2, <3>3 DEF StepKind
  <2>5. ASSUME NEW c \in Open, NEW id \in Ids(channels[c].jobs), NEW n \in Nonce,
               TakeShare(c, id, n, left) \/ RejectShare(c, id, n, left)
        PROVE  StepKind
    <3>1. CASE TakeShare(c, id, n, left)
      <4>1. Idles
        BY <3>1 DEF TakeShare, Frame, NextFrame, Idle, Idles, Kept, Untouched, boundVars
      <4> QED BY <4>1 DEF StepKind
    <3>2. CASE RejectShare(c, id, n, left)
      <4>1. Asks
        BY <3>2 DEF RejectShare, Frame, NextFrame, Idle, Answer, Asks, Kept, Untouched, boundVars
      <4> QED BY <4>1 DEF StepKind
    <3> QED BY <2>5, <3>1, <3>2
  <2> QED BY <1>3, <2>1, <2>2, <2>3, <2>4, <2>5 DEF Receive
<1>4. CASE BlockSaved
  BY <1>4 DEF BlockSaved, StepKind, Idles, Kept, Untouched, boundVars
<1>5. CASE BlockNotSaved
  BY <1>5 DEF BlockNotSaved, StepKind, Vanishes, Idle, boundVars
<1>6. CASE CreditShare
  <2>1. CASE destroyed
    BY <1>6, <2>1 DEF CreditShare, StepKind, Idles, Kept, Untouched, boundVars, Idle
  <2>2. CASE ~destroyed
    BY <1>6, <2>2 DEF CreditShare, StepKind, Asks, Answer, Kept, Untouched, boundVars
  <2> QED BY <2>1, <2>2
<1>7. CASE StartPass
  <2>1. PICK c \in Ready, d \in Difficulty : Retarget(c, d, writes)
    BY <1>7 DEF StartPass
  <2>2. Starts(c, d)
    BY <1>7, <2>1 DEF StartPass, Retarget, Starts, Changes, RetargetWrite, Kept, Ready
  <2> QED BY <2>1, <2>2 DEF StepKind, Ready, Open
<1>8. CASE WriteDone
  <2>1. Kept /\ writes # <<>>
    BY <1>8 DEF WriteDone, Kept, boundVars
  <2>2. CASE Act2Written \/ Answered \/ OpenDone
    <3>1. End /\ (w.at \in {"act2", "answered"} \/ (w.at = "target" /\ w.task = "inbound"))
      BY <2>2 DEF Act2Written, Answered, OpenDone
    <3> QED BY <2>1, <3>1 DEF StepKind, Ends, Broadcast
  <2>3. CASE Opened
    BY <2>1, <2>3 DEF StepKind, SendsFirst
  <2>4. CASE JobWritten \/ PrevHashWritten
    BY <2>1, <2>4 DEF StepKind, GoesOn
  <2>5. CASE BroadcastOn
    BY <2>1, <2>5 DEF StepKind, SendsOn, Ends, BroadcastOn, Broadcast
  <2>6. CASE PassOn
    <3>1. CASE End
      BY <2>1, <2>6, <3>1 DEF PassOn, StepKind, Ends, Broadcast
    <3>2. ASSUME NEW c \in After(w.channel), NEW d \in Difficulty, Retarget(c, d, Others),
                 UNCHANGED <<nextJobId, inbound>>
          PROVE  Continues(c, d)
      <4>1. c \in Ready /\ c \in Open BY DEF After, Ready
      <4>2. ~destroyed BY <2>1 DEF Shape
      <4> QED BY <2>1, <2>6, <3>2, <4>1, <4>2 DEF PassOn, Retarget, Continues, Changes, RetargetWrite
    <3> QED BY <2>6, <3>1, <3>2 DEF PassOn, StepKind, After, Ready, Open
  <2>7. CASE Retargeted
    BY <2>1, <2>7 DEF StepKind, SendsAgain
  <2> QED BY <1>8, <2>2, <2>3, <2>4, <2>5, <2>6, <2>7 DEF WriteDone
<1>9. CASE CloseWritten \/ Disconnect
  BY <1>9 DEF CloseWritten, Disconnect, Destroy, StepKind, Vanishes, Idle, boundVars
<1>10. CASE PassFails
  <2>1. CutShort
    BY <1>10 DEF PassFails, CutShort, Untouched, boundVars
  <2> QED BY <2>1 DEF StepKind
<1>11. ASSUME NEW i \in DOMAIN writes, Overtake(i) PROVE StepKind
  <2>1. Overtakes(i)
    BY <1>11 DEF Overtake, Overtakes, Untouched
  <2> QED BY <2>1 DEF StepKind
<1> QED BY <1>1, <1>2, <1>3, <1>4, <1>5, <1>6, <1>7, <1>8, <1>9, <1>10, <1>11 DEF Next

-----------------------------------------------------------------------------
(* What sendJobsForChannel does up to its first write.                     *)

SentJob(t) == [id |-> nextJobId, tip |-> t.tip]
SentWrite(task, c, t, known) ==
    Waiting(task, "newJob", c, t, SentJob(t), NewTip(c, t, known))

\* A map of the channels that differs from the present one in who is ready.
SameJobs(known) ==
    /\ known \in [Channel -> ChannelState]
    /\ \A d \in Channel : known[d].jobs = channels[d].jobs

LEMMA SendJobsFacts ==
    ASSUME NEW task \in Task, NEW c \in Channel, NEW t \in Template, NEW rest, NEW known,
           TypeOK, SameJobs(known), SendJobs(task, c, t, rest, known)
    PROVE  /\ nextJobId' = nextJobId + 1
           /\ SentJob(t) \in Job /\ NewTip(c, t, known) \in BOOLEAN
           /\ SentWrite(task, c, t, known) \in Write
           /\ writes' = Append(rest, SentWrite(task, c, t, known))
           /\ miner' = HearJob(c, SentJob(t), NewTip(c, t, known))
           /\ channels' = [known EXCEPT ![c].jobs =
                JobsWith(SentJob(t), NewTip(c, t, known), channels[c].jobs)]
<1>1. SentJob(t) \in Job BY DEF SentJob, Job, Template, TypeOK
<1>2. NewTip(c, t, known) \in BOOLEAN BY DEF NewTip, Template
<1>3. SentWrite(task, c, t, known) \in Write
  BY <1>1, <1>2 DEF SentWrite, Waiting, Write, Stage
<1>4. /\ nextJobId' = nextJobId + 1
      /\ writes' = Append(rest, SentWrite(task, c, t, known))
      /\ miner' = HearJob(c, SentJob(t), NewTip(c, t, known))
      /\ channels' = [known EXCEPT ![c].jobs =
           JobsWith(SentJob(t), NewTip(c, t, known), known[c].jobs)]
  BY DEF SendJobs, SentJob, SentWrite, NextJobId
<1> QED BY <1>1, <1>2, <1>3, <1>4 DEF SameJobs

\* The parts of the type invariant that a step of a task can disturb.
TaskTypes ==
    /\ channels \in [Channel -> ChannelState]
    /\ \A c \in Channel : Ids(channels[c].jobs) \subseteq 1..(nextJobId - 1)
    /\ \A c \in Channel : Cardinality(channels[c].jobs) <= MaxChannelJobs
    /\ JobSets
    /\ nextJobId \in Nat \ {0}
    /\ writes \in Seq(Write)
    /\ miner \in [Channel -> MinerState]

LEMMA SendJobsTypes ==
    ASSUME NEW task \in Task, NEW c \in Channel, NEW t \in Template, NEW rest \in Seq(Write),
           NEW known, TypeOK, JobSets, SameJobs(known), SendJobs(task, c, t, rest, known)
    PROVE  TaskTypes'
<1> DEFINE js == channels[c].jobs
           newTip == NewTip(c, t, known)
           next == JobsWith(SentJob(t), newTip, js)
<1>1. js \in SUBSET Job /\ UniqueIds(js) /\ Cardinality(js) <= MaxChannelJobs
  BY DEF TypeOK, JobSets, ChannelState
<1>2. \A j \in js : j.id < SentJob(t).id
  <2>1. \A j \in js : j.id \in 1..(nextJobId - 1) BY DEF TypeOK, Ids
  <2> QED BY <2>1 DEF SentJob, TypeOK
<1>3. SentJob(t) \in Job /\ newTip \in BOOLEAN BY SendJobsFacts
<1>4. /\ UniqueIds(next) /\ Cardinality(next) <= MaxChannelJobs
      /\ next \subseteq (IF newTip THEN {} ELSE js) \union {SentJob(t)}
  BY <1>1, <1>2, <1>3, JobsWithBound
<1>5. next \in SUBSET Job BY <1>1, <1>3, <1>4
<1>6. channels' = [known EXCEPT ![c].jobs = next] BY SendJobsFacts
<1>7. nextJobId' = nextJobId + 1 /\ nextJobId \in Nat \ {0} BY SendJobsFacts DEF TypeOK
<1>8. \A d \in Channel : channels'[d].jobs = IF d = c THEN next ELSE channels[d].jobs
  <2> HIDE DEF next
  <2> QED BY <1>6 DEF SameJobs, ChannelState
<1> HIDE DEF next, newTip
<1>9. channels' \in [Channel -> ChannelState]
  <2>1. known[c] \in ChannelState BY DEF SameJobs
  <2>2. [known[c] EXCEPT !.jobs = next] \in ChannelState BY <1>5, <2>1 DEF ChannelState
  <2> QED BY <1>6, <2>2 DEF SameJobs
<1>10. ASSUME NEW d \in Channel
       PROVE  /\ Ids(channels'[d].jobs) \subseteq 1..(nextJobId' - 1)
              /\ Cardinality(channels'[d].jobs) <= MaxChannelJobs
              /\ UniqueIds(channels'[d].jobs)
  <2>1. Ids(channels[d].jobs) \subseteq 1..(nextJobId - 1) BY DEF TypeOK
  <2>2. CASE d = c
    <3>1. nextJobId >= 1
      BY DEF TypeOK
    <3>2. Ids(next) \subseteq Ids(js) \union {nextJobId} BY <1>4 DEF Ids, SentJob
    <3>3. Ids(next) \subseteq 1..(nextJobId' - 1) BY <1>7, <2>1, <2>2, <3>1, <3>2
    <3> QED BY <1>4, <1>8, <2>2, <3>3
  <2>3. CASE d # c
    <3>1. 1..(nextJobId - 1) \subseteq 1..(nextJobId' - 1) BY <1>7
    <3> QED BY <1>8, <2>1, <2>3, <3>1 DEF TypeOK, JobSets
  <2> QED BY <2>2, <2>3
<1>11. writes' \in Seq(Write) BY SendJobsFacts, QueueAppend
<1>12. miner' \in [Channel -> MinerState]
  <2>1. miner[c] \in MinerState BY DEF TypeOK
  <2>2. /\ [miner[c] EXCEPT !.future = @ \union {SentJob(t)}] \in MinerState
        /\ [miner[c] EXCEPT !.job = SentJob(t).id] \in MinerState
    BY <1>3, <2>1 DEF MinerState, Job
  <2>3. miner' = HearJob(c, SentJob(t), newTip) BY SendJobsFacts DEF newTip
  <2> QED BY <1>3, <2>2, <2>3 DEF HearJob, TypeOK
<1> QED BY <1>7, <1>9, <1>10, <1>11, <1>12 DEF TaskTypes, JobSets

\* A step that registers no job.
LEMMA NoJobTypes ==
    ASSUME TypeOK, JobSets, SameJobs(channels'), nextJobId' = nextJobId,
           writes' \in Seq(Write), miner' \in [Channel -> MinerState]
    PROVE  TaskTypes'
BY DEF TypeOK, TaskTypes, JobSets, SameJobs

LEMMA HearTargetType ==
    ASSUME TypeOK, NEW c \in Channel, NEW d \in Target
    PROVE  HearTarget(c, d) \in [Channel -> MinerState]
<1>1. miner[c] \in MinerState BY DEF TypeOK
<1>2. [miner[c] EXCEPT !.target = d] \in MinerState BY <1>1 DEF MinerState
<1> QED BY <1>2 DEF HearTarget, TypeOK

LEMMA HearPrevHashType ==
    ASSUME TypeOK, NEW c \in Channel, NEW job \in Job
    PROVE  HearPrevHash(c, job) \in [Channel -> MinerState]
<1>1. miner[c] \in MinerState BY DEF TypeOK
<1>2. job.tip \in 0..MaxTemplates /\ job.id \in Nat BY Bounds DEF Job
<1>3. [miner[c] EXCEPT !.tip = job.tip, !.job = job.id, !.future = {}] \in MinerState
  BY <1>1, <1>2 DEF MinerState
<1>4. HearPrevHash(c, job) =
        [miner EXCEPT ![c] = [miner[c] EXCEPT !.tip = job.tip, !.job = job.id, !.future = {}]]
  BY DEF HearPrevHash, TypeOK
<1> QED BY <1>3, <1>4 DEF TypeOK

\* One field of one channel changes, and not its jobs.
LEMMA OtherFieldTypes ==
    ASSUME TypeOK, NEW c \in Channel, NEW new \in ChannelState, new.jobs = channels[c].jobs,
           channels' = [channels EXCEPT ![c] = new]
    PROVE  SameJobs(channels')
BY DEF TypeOK, SameJobs

LEMMA ChangesTypes ==
    ASSUME TypeOK, JobSets, NEW c \in Channel, NEW d \in Difficulty, NEW rest \in Seq(Write),
           NEW e \in Write, Changes(c, d, rest, e)
    PROVE  TaskTypes'
<1>1. channels[c] \in ChannelState BY DEF TypeOK
<1>2. [channels[c] EXCEPT !.difficulty = d] \in ChannelState BY <1>1 DEF ChannelState, Target
<1>3. channels' = [channels EXCEPT ![c] = [channels[c] EXCEPT !.difficulty = d]]
  BY DEF Changes
<1>4. SameJobs(channels') BY <1>1, <1>2, <1>3, OtherFieldTypes DEF ChannelState
<1>5. writes' \in Seq(Write) BY QueueAppend DEF Changes
<1>6. miner' \in [Channel -> MinerState] BY HearTargetType DEF Changes, Target
<1> QED BY <1>4, <1>5, <1>6, NoJobTypes DEF Changes

LEMMA NewWrites ==
    /\ \A at \in {"act2", "answered", "refused"} :
         Waiting("inbound", at, 0, None, None, FALSE) \in Write
    /\ Answer = Waiting("inbound", "answered", 0, None, None, FALSE)
    /\ \A c \in Channel : RetargetWrite(c) \in Write
    /\ \A c \in Channel : Waiting("inbound", "opened", c, None, None, FALSE) \in Write
BY DEF Waiting, Write, Answer, RetargetWrite, Task, Stage

\* The head of the queue and what is behind it.
LEMMA HeadTypes ==
    ASSUME TypeOK, Shape, writes # <<>>
    PROVE  /\ w \in Write /\ w = writes[1] /\ 1 \in DOMAIN writes
           /\ Others \in Seq(Write)
           /\ Shaped(w, latest, nextJobId)
           /\ ~destroyed
           /\ \A at \in Stage : [w EXCEPT !.at = at] \in Write
<1>1. writes \in Seq(Write) BY DEF TypeOK
<1>2. w \in Write /\ w = writes[1] /\ 1 \in DOMAIN writes /\ Others \in Seq(Write)
  BY <1>1, QueueTail DEF w, Others
<1>3. Shaped(w, latest, nextJobId) BY <1>2 DEF Shape, AllShaped
<1>4. \A at \in Stage : [w EXCEPT !.at = at] \in Write BY <1>2 DEF Write
<1> QED BY <1>2, <1>3, <1>4 DEF Shape

LEMMA AfterChannel == \A c : After(c) \subseteq Ready /\ Ready \subseteq Open /\ Open \subseteq Channel
BY DEF After, Ready, Open

LEMMA FollowingTemplates ==
    ASSUME TypeOK, Shape, emitted < MaxTemplates, NEW t \in Following(latest)
    PROVE  /\ t \in Template /\ t # None
           /\ t.tip <= emitted + 1
           /\ latest # None => t.tip = latest.tip \/ t.tip = latest.tip + 1
           /\ latest = None => t.tip = 1
<1>1. emitted \in Nat /\ emitted + 1 <= MaxTemplates BY Bounds DEF TypeOK
<1>2. CASE latest = None
  <2>1. t.tip = 1 /\ t \in [tip : {1}, clear : BOOLEAN] BY <1>2 DEF Following
  <2>2. 1 \in 1..MaxTemplates BY <1>1, Bounds
  <2>3. t \in Template BY <2>1, <2>2 DEF Template
  <2> QED BY <1>1, <1>2, <2>1, <2>3 DEF Template, None
<1>3. CASE latest # None
  <2>1. latest \in Template /\ latest.tip <= emitted BY <1>3 DEF TypeOK, Shape
  <2>2. latest.tip \in 1..MaxTemplates BY <2>1 DEF Template
  <2>3. t \in Template /\ (t.tip = latest.tip \/ t.tip = latest.tip + 1)
    BY <1>3 DEF Following, Template
  <2>4. t.tip <= emitted + 1 BY <1>1, <2>1, <2>2, <2>3, Bounds
  <2> QED BY <1>3, <2>3, <2>4 DEF Template, None
<1> QED BY <1>2, <1>3

-----------------------------------------------------------------------------
(* Every kind of step keeps the types of what tasks change.                *)

\* The channel map when the answer to an OpenChannel has been written.
MadeReady == [channels EXCEPT ![w.channel].ready = TRUE]

LEMMA MadeReadySame ==
    ASSUME TypeOK, w.channel \in Channel
    PROVE  SameJobs(MadeReady) /\ SameJobs(channels)
<1>1. channels[w.channel] \in ChannelState BY DEF TypeOK
<1>2. [channels[w.channel] EXCEPT !.ready = TRUE] \in ChannelState BY <1>1 DEF ChannelState
<1> QED BY <1>1, <1>2 DEF MadeReady, SameJobs, TypeOK, ChannelState

LEMMA SendsFirstTypes == ASSUME TypeOK, Shape, JobSets, SendsFirst PROVE TaskTypes'
<1>1. writes # <<>> /\ w.at = "opened" BY DEF SendsFirst, Opened
<1>2. w.channel \in Channel /\ Others \in Seq(Write) /\ w.task = "inbound"
  BY <1>1, HeadTypes DEF Shaped
<1>3. SameJobs(MadeReady) BY <1>2, MadeReadySame
<1>4. CASE latest # None
  <2>1. SendJobs("inbound", w.channel, latest, Others, MadeReady)
    BY <1>4 DEF SendsFirst, Opened, MadeReady
  <2>2. latest \in Template BY <1>4 DEF TypeOK
  <2>3. "inbound" \in Task BY DEF Task
  <2> QED BY <1>2, <1>3, <2>1, <2>2, <2>3, SendJobsTypes
<1>5. CASE latest = None
  <2>1. channels' = MadeReady /\ writes' = Others /\ UNCHANGED <<nextJobId, miner>>
    BY <1>5 DEF SendsFirst, Opened, MadeReady
  <2> QED BY <1>2, <1>3, <2>1, NoJobTypes DEF TypeOK
<1> QED BY <1>4, <1>5

LEMMA SendsOnFacts ==
    ASSUME TypeOK, Shape, SendsOn
    PROVE  /\ writes # <<>> /\ w.at = "target" /\ Broadcast(w) /\ w.template \in Template
           /\ Least(After(w.channel)) \in After(w.channel)
           /\ \A d \in After(w.channel) : Least(After(w.channel)) <= d
           /\ Least(After(w.channel)) \in Ready /\ Least(After(w.channel)) \in Channel
           /\ w.channel \in Channel
           /\ SendJobs("broadcast", Least(After(w.channel)), w.template, Others, channels)
           /\ UNCHANGED inbound
<1>1. /\ writes # <<>> /\ w.at = "target" /\ Broadcast(w)
      /\ SendJobs("broadcast", Least(After(w.channel)), w.template, Others, channels)
      /\ UNCHANGED inbound
      /\ After(w.channel) # {}
  BY DEF SendsOn, BroadcastOn, Broadcast
<1>2. w.template \in Template /\ w.channel \in Channel
  BY <1>1, HeadTypes DEF Shaped, Sending
<1>3. /\ Least(After(w.channel)) \in After(w.channel)
      /\ \A d \in After(w.channel) : Least(After(w.channel)) <= d
  BY <1>1, LeastChannel, AfterChannel
<1> QED BY <1>1, <1>2, <1>3, AfterChannel

LEMMA SendsOnTypes == ASSUME TypeOK, Shape, JobSets, SendsOn PROVE TaskTypes'
<1>1. Others \in Seq(Write) BY SendsOnFacts, HeadTypes
<1>2. "broadcast" \in Task BY DEF Task
<1>3. SameJobs(channels) BY DEF TypeOK, SameJobs
<1> QED BY <1>1, <1>2, <1>3, SendsOnFacts, SendJobsTypes

Cleared == [latest EXCEPT !.clear = TRUE]

LEMMA SendsAgainFacts ==
    ASSUME TypeOK, Shape, SendsAgain
    PROVE  /\ writes # <<>> /\ w.at = "retarget" /\ w.task = "pass" /\ w.channel \in Channel
           /\ latest # None /\ latest \in Template
           /\ Cleared \in Template /\ Cleared.tip = latest.tip /\ Cleared.clear
           /\ SendJobs("pass", w.channel, Cleared, Others, channels)
           /\ UNCHANGED inbound
<1>1. /\ writes # <<>> /\ w.at = "retarget" /\ latest # None
      /\ SendJobs("pass", w.channel, Cleared, Others, channels)
      /\ UNCHANGED inbound
  BY DEF SendsAgain, Retargeted, Cleared
<1>2. w.task = "pass" /\ w.channel \in Channel BY <1>1, HeadTypes DEF Shaped
<1>3. latest \in Template BY <1>1 DEF TypeOK
<1>4. Cleared \in Template /\ Cleared.tip = latest.tip /\ Cleared.clear
  BY <1>3 DEF Cleared, Template
<1> QED BY <1>1, <1>2, <1>3, <1>4

LEMMA SendsAgainTypes == ASSUME TypeOK, Shape, JobSets, SendsAgain PROVE TaskTypes'
<1>1. Others \in Seq(Write) BY SendsAgainFacts, HeadTypes
<1>2. "pass" \in Task BY DEF Task
<1>3. SameJobs(channels) BY DEF TypeOK, SameJobs
<1> QED BY <1>1, <1>2, <1>3, SendsAgainFacts, SendJobsTypes

LEMMA GoesOnTypes == ASSUME TypeOK, Shape, JobSets, GoesOn PROVE TaskTypes'
<1>1. writes # <<>> /\ w.at \in {"newJob", "prevHash"}
  BY DEF GoesOn, JobWritten, PrevHashWritten
<1>2. /\ w.channel \in Channel /\ w.job \in Job /\ w.template \in Template
      /\ Others \in Seq(Write)
  BY <1>1, HeadTypes DEF Shaped, Sending
<1>3. channels[w.channel] \in ChannelState BY <1>2 DEF TypeOK
<1>4. \A at \in Stage : Append(Others, [w EXCEPT !.at = at]) \in Seq(Write)
  BY <1>1, <1>2, HeadTypes, QueueAppend
<1>5. writes' \in Seq(Write)
  BY <1>4 DEF GoesOn, JobWritten, PrevHashWritten, GoOn, Stage
<1>6. channels[w.channel].difficulty \in Target BY <1>3 DEF ChannelState
<1>7. miner' \in [Channel -> MinerState]
  BY <1>2, <1>6, HearTargetType, HearPrevHashType DEF GoesOn, JobWritten, PrevHashWritten
<1>8. nextJobId' = nextJobId BY DEF GoesOn, JobWritten, PrevHashWritten
<1>9. SameJobs(channels')
  <2>1. CASE JobWritten
    BY <2>1 DEF JobWritten, SameJobs, TypeOK
  <2>2. CASE PrevHashWritten
    <3>1. w.template.tip \in 0..MaxTemplates BY <1>2, Bounds DEF Template
    <3>2. [channels[w.channel] EXCEPT !.activeTip = w.template.tip] \in ChannelState
      BY <1>3, <3>1 DEF ChannelState
    <3>3. channels' = [channels EXCEPT ![w.channel] =
                         [channels[w.channel] EXCEPT !.activeTip = w.template.tip]]
      BY <2>2 DEF PrevHashWritten
    <3> QED BY <1>2, <1>3, <3>2, <3>3, OtherFieldTypes DEF ChannelState
  <2> QED BY <2>1, <2>2 DEF GoesOn
<1> QED BY <1>5, <1>7, <1>8, <1>9, NoJobTypes

\* A map of channels that have all no jobs.
LEMMA VanishesTypes == ASSUME TypeOK, JobSets, Vanishes PROVE TaskTypes'
<1>1. Absent \in ChannelState /\ Absent.jobs = {}
  BY Bounds DEF Absent, ChannelState, Target
<1>2. [Absent EXCEPT !.state = "gone"] \in ChannelState
      /\ [Absent EXCEPT !.state = "gone"].jobs = {}
  BY <1>1 DEF Absent, ChannelState
<1>3. channels' \in [Channel -> ChannelState] BY <1>1, <1>2 DEF Vanishes, AllGone
<1>4. \A c \in Channel : channels'[c].jobs = {} BY <1>1, <1>2 DEF Vanishes, AllGone
<1>5. UniqueIds({}) /\ Cardinality({}) = 0 BY FS_EmptySet DEF UniqueIds
<1>6. nextJobId' = nextJobId /\ miner' = miner /\ writes' = <<>> BY DEF Vanishes
<1>7. Ids({}) = {} BY DEF Ids
<1>8. \A c \in Channel : /\ Ids(channels'[c].jobs) \subseteq 1..(nextJobId' - 1)
                         /\ Cardinality(channels'[c].jobs) <= MaxChannelJobs
                         /\ UniqueIds(channels'[c].jobs)
  BY <1>4, <1>5, <1>7, Bounds
<1> QED BY <1>3, <1>6, <1>8 DEF TypeOK, TaskTypes, JobSets

OpenedState(d) == [Absent EXCEPT !.state = "open", !.ready = destroyed, !.difficulty = d]

LEMMA OpenChannelFacts ==
    ASSUME TypeOK, NEW left, OpenChannel(left)
    PROVE  \E c \in Channel, d \in Difficulty :
             /\ channels[c].state = "absent"
             /\ OpenedState(d) \in ChannelState
             /\ channels' = [channels EXCEPT ![c] = OpenedState(d)]
             /\ prefixes' = prefixes \union {c}
             /\ destroyed => UNCHANGED <<writes, inbound, miner>>
             /\ ~destroyed =>
                  /\ writes' = Append(writes, Waiting("inbound", "opened", c, None, None, FALSE))
                  /\ inbound' = "writing"
                  /\ miner' = HearTarget(c, d)
             /\ inbound # "writing"
             /\ UNCHANGED <<latest, emitted, destroyed, nextJobId, overtaken, torn, cleared>>
<1> DEFINE c == Least(Unopened)
<1>1. c \in Unopened
  BY LeastChannel DEF OpenChannel, Unopened
<1>2. PICK d \in Resolved :
         /\ prefixes' = prefixes \union {c}
         /\ channels' = [channels EXCEPT ![c] = OpenedState(d)]
         /\ destroyed => UNCHANGED <<writes, inbound, miner>>
         /\ ~destroyed =>
              /\ writes' = Append(writes, Waiting("inbound", "opened", c, None, None, FALSE))
              /\ inbound' = "writing"
              /\ miner' = HearTarget(c, d)
  BY DEF OpenChannel, OpenedState
<1>3. d \in Difficulty BY DataAssumption
<1>4. OpenedState(d) \in ChannelState
  <2>1. destroyed \in BOOLEAN /\ 0 \in 0..MaxTemplates /\ d \in Target
    BY <1>3, Bounds DEF TypeOK, Target
  <2>2. ASSUME NEW b \in BOOLEAN
        PROVE  [Absent EXCEPT !.state = "open", !.ready = b, !.difficulty = d] \in ChannelState
    BY <2>1 DEF Absent, ChannelState
  <2> QED BY <2>1, <2>2 DEF OpenedState
<1>5. inbound # "writing"
      /\ UNCHANGED <<latest, emitted, destroyed, nextJobId, overtaken, torn, cleared>>
  BY DEF OpenChannel, Frame, NextFrame, Idle, boundVars
<1> HIDE DEF c
<1> QED BY <1>1, <1>2, <1>3, <1>4, <1>5 DEF Unopened

LEMMA OpensTypes == ASSUME TypeOK, JobSets, NEW left, OpenChannel(left) PROVE TaskTypes'
<1>1. PICK c \in Channel, d \in Difficulty :
         /\ channels[c].state = "absent"
         /\ OpenedState(d) \in ChannelState
         /\ channels' = [channels EXCEPT ![c] = OpenedState(d)]
         /\ destroyed => UNCHANGED <<writes, inbound, miner>>
         /\ ~destroyed =>
              /\ writes' = Append(writes, Waiting("inbound", "opened", c, None, None, FALSE))
              /\ miner' = HearTarget(c, d)
         /\ UNCHANGED nextJobId
  BY OpenChannelFacts
<1>2. OpenedState(d).jobs = {} BY DEF OpenedState, Absent
<1>3. channels' \in [Channel -> ChannelState] BY <1>1 DEF TypeOK
<1>4. \A e \in Channel : channels'[e].jobs = IF e = c THEN {} ELSE channels[e].jobs
  BY <1>1, <1>2 DEF TypeOK
<1>5. UniqueIds({}) /\ Cardinality({}) = 0 BY FS_EmptySet DEF UniqueIds
<1>6. Ids({}) = {} BY DEF Ids
<1>7. \A e \in Channel : /\ Ids(channels'[e].jobs) \subseteq 1..(nextJobId' - 1)
                         /\ Cardinality(channels'[e].jobs) <= MaxChannelJobs
                         /\ UniqueIds(channels'[e].jobs)
  BY <1>1, <1>4, <1>5, <1>6, Bounds DEF TypeOK, JobSets
<1>8. writes' \in Seq(Write)
  <2>1. writes \in Seq(Write) BY DEF TypeOK
  <2>2. CASE destroyed BY <1>1, <2>1, <2>2
  <2>3. CASE ~destroyed BY <1>1, <2>1, <2>3, NewWrites, QueueAppend
  <2> QED BY <2>2, <2>3
<1>9. miner' \in [Channel -> MinerState] BY <1>1, HearTargetType DEF TypeOK, Target
<1> QED BY <1>1, <1>3, <1>7, <1>8, <1>9 DEF TypeOK, TaskTypes, JobSets

LEMMA ClosesTypes ==
    ASSUME TypeOK, JobSets, NEW c \in Channel, Closes(c) PROVE TaskTypes'
<1>1. channels[c] \in ChannelState BY DEF TypeOK
<1>2. [channels[c] EXCEPT !.state = "gone"] \in ChannelState BY <1>1 DEF ChannelState
<1>3. channels' = [channels EXCEPT ![c] = [channels[c] EXCEPT !.state = "gone"]]
  BY DEF Closes
<1>4. SameJobs(channels')
  BY <1>1, <1>2, <1>3, OtherFieldTypes DEF ChannelState
<1> QED BY <1>4, NoJobTypes DEF Closes, TypeOK

LEMMA EmitFacts ==
    ASSUME TypeOK, Shape, Emit
    PROVE  \E t \in Template :
             /\ t \in Following(latest)
             /\ latest' = t /\ emitted' = emitted + 1 /\ emitted < MaxTemplates
             /\ Ready # {} => /\ Least(Ready) \in Ready
                              /\ Least(Ready) \in Channel
                              /\ \A c \in Ready : Least(Ready) <= c
                              /\ SendJobs("broadcast", Least(Ready), t, writes, channels)
             /\ Ready = {} => UNCHANGED <<channels, nextJobId, miner, writes>>
             /\ overtaken' = (overtaken /\ writes # <<>>)
             /\ cleared' = IF t.clear THEN t.tip ELSE cleared
             /\ ~destroyed /\ UNCHANGED <<destroyed, inbound, torn>>
<1>1. PICK t \in Following(latest) :
         /\ latest' = t
         /\ cleared' = IF t.clear THEN t.tip ELSE cleared
         /\ Ready # {} => SendJobs("broadcast", Least(Ready), t, writes, channels)
         /\ Ready = {} => UNCHANGED <<channels, nextJobId, miner, writes>>
  BY DEF Emit
<1>2. emitted < MaxTemplates BY DEF Emit
<1>3. t \in Template BY <1>1, <1>2, FollowingTemplates
<1>4. Ready # {} => /\ Least(Ready) \in Ready
                    /\ Least(Ready) \in Channel
                    /\ \A c \in Ready : Least(Ready) <= c
  BY LeastChannel, AfterChannel
<1> QED BY <1>1, <1>2, <1>3, <1>4 DEF Emit

LEMMA EmitTypes == ASSUME TypeOK, Shape, JobSets, Emit PROVE TaskTypes'
<1>1. PICK t \in Template :
         /\ Ready # {} => /\ Least(Ready) \in Channel
                          /\ SendJobs("broadcast", Least(Ready), t, writes, channels)
         /\ Ready = {} => UNCHANGED <<channels, nextJobId, miner, writes>>
  BY EmitFacts
<1>2. SameJobs(channels) BY DEF TypeOK, SameJobs
<1>3. "broadcast" \in Task /\ writes \in Seq(Write) BY DEF Task, TypeOK
<1>4. CASE Ready # {}
  BY <1>1, <1>2, <1>3, <1>4, SendJobsTypes
<1>5. CASE Ready = {}
  BY <1>1, <1>5 DEF TypeOK, TaskTypes, JobSets
<1> QED BY <1>4, <1>5

LEMMA TaskTypesStep == ASSUME TypeOK, Shape, JobSets, [Next]_vars PROVE TaskTypes'
<1>1. CASE Idles
  BY <1>1 DEF Idles, Kept, Untouched, TypeOK, TaskTypes, JobSets
<1>2. CASE Asks
  <2>1. writes' \in Seq(Write) BY <1>2, NewWrites, QueueAppend DEF Asks, TypeOK
  <2> QED BY <1>2, <2>1 DEF Asks, Untouched, TypeOK, TaskTypes, JobSets
<1>3. ASSUME NEW c \in Channel, NEW d \in Difficulty,
             Updates(c, d) \/ Starts(c, d) \/ Continues(c, d)
      PROVE  TaskTypes'
  <2>1. writes \in Seq(Write) BY DEF TypeOK
  <2>2. Answer \in Write /\ RetargetWrite(c) \in Write BY NewWrites
  <2>3. CASE Updates(c, d) BY <2>1, <2>2, <2>3, ChangesTypes DEF Updates
  <2>4. CASE Starts(c, d) BY <2>1, <2>2, <2>4, ChangesTypes DEF Starts
  <2>5. CASE Continues(c, d) BY <2>2, <2>5, HeadTypes, ChangesTypes DEF Continues
  <2> QED BY <1>3, <2>3, <2>4, <2>5
<1>4. CASE Ends
  BY <1>4, HeadTypes DEF Ends, End, TypeOK, TaskTypes, JobSets
<1>5. CASE SendsFirst BY <1>5, SendsFirstTypes
<1>6. CASE SendsOn BY <1>6, SendsOnTypes
<1>7. CASE SendsAgain BY <1>7, SendsAgainTypes
<1>8. CASE GoesOn BY <1>8, GoesOnTypes
<1>9. CASE Vanishes BY <1>9, VanishesTypes
<1>10. ASSUME NEW left \in 0..MaxChunk, OpenChannel(left) PROVE TaskTypes'
  BY <1>10, OpensTypes
<1>11. ASSUME NEW c \in Channel, Closes(c) PROVE TaskTypes'
  BY <1>11, ClosesTypes
<1>12. CASE Emit BY <1>12, EmitTypes
<1>13. ASSUME NEW i \in DOMAIN writes, Overtakes(i) PROVE TaskTypes'
  <2>1. writes' \in Seq(Write) BY <1>13, QueueForward DEF Overtakes, TypeOK
  <2> QED BY <1>13, <2>1 DEF Overtakes, Untouched, TypeOK, TaskTypes, JobSets
<1>14. CASE CutShort
  <2>1. writes' \in Seq(Write) BY <1>14, HeadTypes DEF CutShort
  <2> QED BY <1>14, <2>1 DEF CutShort, Untouched, TypeOK, TaskTypes, JobSets
<1> QED BY <1>1, <1>2, <1>3, <1>4, <1>5, <1>6, <1>7, <1>8, <1>9, <1>10, <1>11, <1>12, <1>13,
           <1>14, StepKinds DEF StepKind

-----------------------------------------------------------------------------
(* The other variables.                                                    *)

\* The steps, one disjunct for each action.
LEMMA Actions ==
    ASSUME [Next]_vars
    PROVE  \/ Emit
           \/ \E left \in 0..MaxChunk :
                \/ Handshake(left)
                \/ OpenChannel(left) \/ AnswerOnly(left) \/ AnswerAndClose(left)
                \/ \E c \in Channel : CloseChannel(c, left) \/ UpdateChannel(c, left)
                \/ \E c \in Open : \E id \in Ids(channels[c].jobs), n \in Nonce :
                     TakeShare(c, id, n, left) \/ RejectShare(c, id, n, left)
           \/ BlockSaved \/ BlockNotSaved \/ CreditShare
           \/ StartPass \/ WriteDone \/ CloseWritten \/ PassFails \/ Disconnect
           \/ \E i \in DOMAIN writes : Overtake(i)
           \/ UNCHANGED vars
BY DEF Next, Receive

LEMMA KeptTypes ==
    ASSUME TypeOK, Shape, [Next]_vars
    PROVE  /\ latest' \in Template \union {None} /\ emitted' \in 0..MaxTemplates
           /\ destroyed' \in BOOLEAN /\ overtaken' \in BOOLEAN
           /\ torn' \subseteq Channel \union {0} /\ cleared' \in 0..MaxTemplates
<1>1. CASE Kept BY <1>1 DEF Kept, TypeOK
<1>2. CASE Vanishes BY <1>2 DEF Vanishes, TypeOK
<1>3. ASSUME NEW left \in 0..MaxChunk, OpenChannel(left)
      PROVE  UNCHANGED <<latest, emitted, destroyed, overtaken, torn, cleared>>
  BY <1>3, OpenChannelFacts
<1>4. ASSUME NEW c \in Channel, Closes(c)
      PROVE  overtaken' \in BOOLEAN /\ UNCHANGED <<latest, emitted, destroyed, torn, cleared>>
  BY <1>4 DEF Closes, TypeOK
<1>5. CASE Emit
  <2>1. PICK t \in Template : /\ latest' = t /\ emitted' = emitted + 1 /\ emitted < MaxTemplates
                              /\ overtaken' = (overtaken /\ writes # <<>>)
                              /\ cleared' = IF t.clear THEN t.tip ELSE cleared
                              /\ UNCHANGED <<destroyed, torn>>
    BY <1>5, EmitFacts
  <2>2. t.tip \in 0..MaxTemplates BY Bounds DEF Template
  <2>3. emitted' \in 0..MaxTemplates BY <2>1, Bounds DEF TypeOK
  <2>4. cleared' \in 0..MaxTemplates BY <2>1, <2>2 DEF TypeOK
  <2> QED BY <2>1, <2>3, <2>4 DEF TypeOK
<1>6. CASE Idles \/ Asks \/ Ends \/ SendsFirst \/ SendsOn \/ SendsAgain \/ GoesOn
  BY <1>1, <1>6 DEF Idles, Asks, Ends, SendsFirst, SendsOn, SendsAgain, GoesOn
<1>7. ASSUME NEW c, NEW d, Updates(c, d) \/ Starts(c, d) \/ Continues(c, d) PROVE Kept
  BY <1>7 DEF Updates, Starts, Continues, Changes
<1>8. \A k \in DOMAIN writes : writes[k].channel \in Channel \union {0}
  <2>1. writes \in Seq(Write) BY DEF TypeOK
  <2>2. \A k \in DOMAIN writes : writes[k] \in Write BY <2>1, EmptySeq
  <2> QED BY <2>2 DEF Write
<1>9. ASSUME NEW i \in DOMAIN writes, Overtakes(i)
      PROVE  /\ UNCHANGED <<latest, emitted, destroyed, cleared>> /\ overtaken' \in BOOLEAN
             /\ torn' \subseteq Channel \union {0}
  <2>1. Swapped(i) \subseteq DOMAIN writes BY QueueForward DEF Swapped, TypeOK
  <2>2. {writes[k].channel : k \in Swapped(i)} \subseteq Channel \union {0} BY <1>8, <2>1
  <2> QED BY <1>9, <2>2 DEF Overtakes, TypeOK
<1>10. CASE CutShort
  <2>1. w.channel \in Channel \union {0} BY <1>10, HeadTypes DEF CutShort, Write
  <2> QED BY <1>10, <2>1 DEF CutShort, TypeOK
<1> QED BY <1>1, <1>2, <1>3, <1>4, <1>5, <1>6, <1>7, <1>9, <1>10, StepKinds DEF StepKind, TypeOK

\* What a step of a task does to the variables of frames and shares.
LEMMA WriteDoneKeeps ==
    ASSUME WriteDone
    PROVE  /\ UNCHANGED <<destroyed, prefixes, storing, chunk, extras, updates, credited,
                          creditedAgain>>
           /\ handshakeComplete' \in {handshakeComplete, TRUE}
           /\ submissionHashes' \in {submissionHashes, {}}
           /\ inbound' \in {inbound, Idle}
BY DEF WriteDone, Act2Written, Opened, Answered, JobWritten, PrevHashWritten, BroadcastOn, OpenDone,
       PassOn, Retargeted, End, SendJobs, HashesAfter, boundVars

LEMMA FrameTypes ==
    ASSUME TypeOK, [Next]_vars
    PROVE  /\ handshakeComplete' \in BOOLEAN /\ prefixes' \subseteq Channel
           /\ inbound' \in {Idle, "writing", "block", "storing"} /\ chunk' \in 0..MaxChunk
           /\ extras' \in 0..MaxExtras /\ updates' \in 0..MaxUpdates
<1>1. 0 \in 0..MaxChunk BY Bounds
<1>2. ASSUME NEW left \in 0..MaxChunk, Destroy(left), UNCHANGED <<extras, updates>>
      PROVE  /\ handshakeComplete' \in BOOLEAN /\ prefixes' \subseteq Channel
             /\ inbound' \in {Idle, "writing", "block", "storing"} /\ chunk' \in 0..MaxChunk
             /\ extras' \in 0..MaxExtras /\ updates' \in 0..MaxUpdates
  BY <1>1, <1>2 DEF Destroy, TypeOK
<1>3. CASE Emit BY <1>3 DEF Emit, TypeOK
<1>4. ASSUME NEW left \in 0..MaxChunk,
             Handshake(left) \/ AnswerOnly(left) \/ AnswerAndClose(left)
      PROVE  /\ UNCHANGED <<handshakeComplete, prefixes, extras, updates>>
             /\ inbound' = "writing" /\ chunk' = left
  BY <1>4 DEF Handshake, AnswerOnly, AnswerAndClose, Frame, boundVars
<1>5. ASSUME NEW left \in 0..MaxChunk, OpenChannel(left)
      PROVE  /\ UNCHANGED <<handshakeComplete, extras, updates>>
             /\ prefixes' \subseteq Channel /\ inbound' \in {inbound, "writing"} /\ chunk' = left
  <2>1. PICK c \in Channel, d \in Difficulty :
           /\ prefixes' = prefixes \union {c}
           /\ destroyed => UNCHANGED inbound
           /\ ~destroyed => inbound' = "writing"
    BY OpenChannelFacts, <1>5
  <2> QED BY <1>5, <2>1 DEF OpenChannel, Frame, TypeOK, boundVars
<1>6. ASSUME NEW left \in 0..MaxChunk, NEW c \in Channel, CloseChannel(c, left)
      PROVE  /\ handshakeComplete' \in BOOLEAN /\ prefixes' \subseteq Channel
             /\ inbound' \in {Idle, "writing", "block", "storing"} /\ chunk' \in 0..MaxChunk
             /\ extras' \in 0..MaxExtras /\ updates' \in 0..MaxUpdates
  BY <1>2, <1>6 DEF CloseChannel, TypeOK, boundVars
<1>7. ASSUME NEW left \in 0..MaxChunk, NEW c \in Channel, UpdateChannel(c, left)
      PROVE  /\ UNCHANGED <<handshakeComplete, prefixes, extras>>
             /\ inbound' = "writing" /\ chunk' = left /\ updates' \in 0..MaxUpdates
  BY <1>7, Bounds DEF UpdateChannel, Frame, TypeOK
<1>8. ASSUME NEW left \in 0..MaxChunk, NEW c, NEW id, NEW n,
             TakeShare(c, id, n, left) \/ RejectShare(c, id, n, left)
      PROVE  /\ UNCHANGED <<handshakeComplete, prefixes, extras, updates>>
             /\ inbound' \in {"block", "storing", "writing"} /\ chunk' = left
  BY <1>8 DEF TakeShare, RejectShare, Frame, boundVars
<1>9. CASE BlockSaved \/ CreditShare BY <1>9 DEF BlockSaved, CreditShare, TypeOK, boundVars
<1>10. CASE BlockNotSaved BY <1>1, <1>10 DEF BlockNotSaved, TypeOK, boundVars
<1>11. CASE StartPass BY <1>11, Bounds DEF StartPass, TypeOK
<1>12. CASE WriteDone BY <1>12, WriteDoneKeeps DEF TypeOK
<1>13. CASE CloseWritten \/ Disconnect
  BY <1>2, <1>13 DEF CloseWritten, Disconnect, TypeOK, boundVars
<1>14. CASE UNCHANGED vars BY <1>14 DEF vars, taskVars, boundVars, TypeOK
<1>15. CASE PassFails BY <1>15 DEF PassFails, TypeOK, boundVars
<1>16. ASSUME NEW i \in DOMAIN writes, Overtake(i)
       PROVE  /\ UNCHANGED <<handshakeComplete, prefixes, inbound, chunk, updates>>
              /\ extras' \in 0..MaxExtras
  BY <1>16, Bounds DEF Overtake, TypeOK
<1> QED BY <1>3, <1>4, <1>5, <1>6, <1>7, <1>8, <1>9, <1>10, <1>11, <1>12, <1>13, <1>14, <1>15,
           <1>16, Actions DEF TypeOK

LEMMA ShareTypes ==
    ASSUME TypeOK, [Next]_vars
    PROVE  /\ submissionHashes' \subseteq Share /\ credited' \subseteq Share
           /\ creditedAgain' \subseteq Share /\ storing' \subseteq Share
<1>1. CASE Emit BY <1>1 DEF Emit, SendJobs, HashesAfter, TypeOK
<1>2. ASSUME NEW left \in 0..MaxChunk, Destroy(left), UNCHANGED <<credited, creditedAgain>>
      PROVE  /\ submissionHashes' \subseteq Share /\ credited' \subseteq Share
             /\ creditedAgain' \subseteq Share /\ storing' \subseteq Share
  BY <1>2 DEF Destroy, TypeOK
<1>3. ASSUME NEW left \in 0..MaxChunk,
             Handshake(left) \/ AnswerOnly(left) \/ AnswerAndClose(left) \/ OpenChannel(left)
      PROVE  UNCHANGED <<submissionHashes, credited, creditedAgain, storing>>
  BY <1>3 DEF Handshake, AnswerOnly, AnswerAndClose, OpenChannel, shareVars
<1>4. ASSUME NEW left \in 0..MaxChunk, NEW c \in Channel, CloseChannel(c, left)
      PROVE  /\ submissionHashes' \subseteq Share /\ credited' \subseteq Share
             /\ creditedAgain' \subseteq Share /\ storing' \subseteq Share
  BY <1>2, <1>4 DEF CloseChannel, TypeOK
<1>5. ASSUME NEW left \in 0..MaxChunk, NEW c \in Channel, UpdateChannel(c, left)
      PROVE  UNCHANGED <<submissionHashes, credited, creditedAgain, storing>>
  BY <1>5 DEF UpdateChannel, shareVars
<1>6. ASSUME NEW left \in 0..MaxChunk, NEW c \in Open, NEW id \in Ids(channels[c].jobs),
             NEW n \in Nonce, TakeShare(c, id, n, left) \/ RejectShare(c, id, n, left)
      PROVE  /\ submissionHashes' \subseteq Share /\ credited' \subseteq Share
             /\ creditedAgain' \subseteq Share /\ storing' \subseteq Share
  <2>1. <<c, id, n>> \in Share
    BY DEF Open, Ids, TypeOK, ChannelState, Job, Share
  <2> QED BY <1>6, <2>1 DEF TakeShare, RejectShare, Remembered, TypeOK
<1>7. CASE BlockSaved \/ BlockNotSaved BY <1>7 DEF BlockSaved, BlockNotSaved, TypeOK, shareVars
<1>8. CASE CreditShare BY <1>8 DEF CreditShare, AddShares, TypeOK
<1>9. CASE StartPass BY <1>9 DEF StartPass, TypeOK, shareVars
<1>10. CASE WriteDone BY <1>10, WriteDoneKeeps DEF TypeOK
<1>11. CASE CloseWritten \/ Disconnect
  BY <1>2, <1>11 DEF CloseWritten, Disconnect, TypeOK
<1>12. CASE UNCHANGED vars BY <1>12 DEF vars, taskVars, shareVars, TypeOK
<1>13. CASE PassFails BY <1>13 DEF PassFails, TypeOK, shareVars
<1>14. ASSUME NEW i \in DOMAIN writes, Overtake(i)
       PROVE  UNCHANGED <<submissionHashes, credited, creditedAgain, storing>>
  BY <1>14 DEF Overtake, shareVars
<1> QED BY <1>1, <1>3, <1>4, <1>5, <1>6, <1>7, <1>8, <1>9, <1>10, <1>11, <1>12, <1>13, <1>14,
           Actions DEF TypeOK

\* How many writes end, or have ended, in one step.
LEMMA DoneStep ==
    ASSUME TypeOK, Shape, JobSets, [Next]_vars PROVE done' \in 0..Len(writes')
<1>0. writes \in Seq(Write) /\ Len(writes) \in Nat /\ done \in 0..Len(writes)
  BY DEF TypeOK
<1>1. writes' \in Seq(Write) /\ Len(writes') \in Nat
  BY TaskTypesStep DEF TaskTypes
<1>2. CASE done' = 0 BY <1>1, <1>2
<1>3. CASE WriteDone
  <2>1. writes # <<>> /\ done' = IF done = 0 THEN 0 ELSE done - 1 BY <1>3 DEF WriteDone
  <2>2. Others \in Seq(Write) /\ Len(Others) = Len(writes) - 1 BY <1>0, <2>1, QueueTail DEF Others
  <2>3. writes' = Others \/ \E e : writes' = Append(Others, e)
    BY <1>3 DEF WriteDone, Act2Written, Opened, Answered, JobWritten, PrevHashWritten, BroadcastOn,
                OpenDone, PassOn, Retargeted, Retarget, End, SendJobs, GoOn
  <2>4. Len(writes') >= Len(Others)
    <3>1. \A e : Len(Append(Others, e)) = Len(Others) + 1 BY <2>2
    <3> QED BY <2>2, <2>3, <3>1
  <2> QED BY <1>0, <1>1, <2>1, <2>2, <2>4
<1>4. ASSUME NEW i \in DOMAIN writes, Overtake(i) PROVE done' \in 0..Len(writes')
  <2>1. /\ i <= (IF done = 0 THEN Len(writes) ELSE done) /\ done' = IF done = 0 THEN i ELSE done
        /\ writes' = Forward(writes, i) /\ i \in Nat
    BY <1>0, <1>4 DEF Overtake
  <2>2. Len(writes') = Len(writes) BY <1>0, <2>1, QueueForward
  <2> QED BY <1>0, <2>1, <2>2
<1>5. CASE UNCHANGED vars BY <1>0, <1>5 DEF vars, taskVars
<1>6. ASSUME NEW left, Destroy(left) PROVE done' = 0 BY <1>6 DEF Destroy
<1>7. ASSUME NEW left, NEW c \in Channel, CloseChannel(c, left) PROVE done' = 0
  BY <1>6, <1>7 DEF CloseChannel, NextFrame
<1>8. ASSUME NEW left, \/ Handshake(left) \/ OpenChannel(left) \/ AnswerOnly(left)
                       \/ AnswerAndClose(left) \/ \E c \in Channel : UpdateChannel(c, left)
                       \/ \E c, id, n : TakeShare(c, id, n, left) \/ RejectShare(c, id, n, left)
      PROVE  done' = 0
  BY <1>8 DEF Handshake, OpenChannel, AnswerOnly, AnswerAndClose, UpdateChannel, TakeShare,
              RejectShare, Frame, NextFrame, NoneDue
<1>9. CASE Emit \/ BlockSaved \/ BlockNotSaved \/ CreditShare \/ StartPass \/ PassFails
  <2>1. done' = 0
    BY <1>9 DEF Emit, BlockSaved, BlockNotSaved, CreditShare, StartPass, PassFails, NoneDue
  <2> QED BY <1>2, <2>1
<1>10. CASE CloseWritten \/ Disconnect BY <1>2, <1>6, <1>10 DEF CloseWritten, Disconnect
<1> QED BY <1>2, <1>3, <1>4, <1>5, <1>7, <1>8, <1>9, <1>10, Actions

LEMMA TypeStep == ASSUME TypeOK, Shape, JobSets, [Next]_vars PROVE TypeOK' /\ JobSets'
<1>1. TaskTypes' BY TaskTypesStep
<1> QED BY <1>1, KeptTypes, FrameTypes, ShareTypes, DoneStep DEF TaskTypes, TypeOK

-----------------------------------------------------------------------------
(* Shape.                                                                  *)

LEMMA ShapedMono ==
    ASSUME NEW q \in Seq(Write), NEW newest \in Template \union {None}, NEW next \in Nat,
           NEW newest2 \in Template \union {None}, NEW next2 \in Nat,
           AllShaped(q, newest, next), next <= next2,
           newest # None => newest2 # None /\ newest.tip <= newest2.tip
    PROVE  AllShaped(q, newest2, next2)
<1> SUFFICES ASSUME NEW i \in DOMAIN q PROVE Shaped(q[i], newest2, next2)
  BY DEF AllShaped
<1>1. Shaped(q[i], newest, next) BY DEF AllShaped
<1>2. Sending(q[i]) => q[i].job.id < next2
  BY <1>1 DEF Shaped, Job
<1>3. q[i].task = "broadcast" => newest2 # None /\ q[i].template.tip <= newest2.tip
  <2>1. q[i].task = "broadcast" =>
          /\ newest # None /\ q[i].template \in Template /\ q[i].template.tip <= newest.tip
    BY <1>1 DEF Shaped
  <2>2. newest # None /\ newest2 # None =>
          newest.tip \in 1..MaxTemplates /\ newest2.tip \in 1..MaxTemplates
    BY DEF Template
  <2>3. q[i].template \in Template => q[i].template.tip \in 1..MaxTemplates BY DEF Template
  <2> QED BY <2>1, <2>2, <2>3, Bounds
<1> QED BY <1>1, <1>2, <1>3 DEF Shaped

LEMMA ShapedAppend ==
    ASSUME NEW q \in Seq(Write), NEW e \in Write, NEW newest, NEW next,
           AllShaped(q, newest, next), Shaped(e, newest, next)
    PROVE  AllShaped(Append(q, e), newest, next)
BY QueueAppend DEF AllShaped

LEMMA ShapedTail ==
    ASSUME NEW q \in Seq(Write), q # <<>>, NEW newest, NEW next, AllShaped(q, newest, next)
    PROVE  AllShaped(Tail(q), newest, next)
BY QueueTail DEF AllShaped

LEMMA NewShapes ==
    ASSUME NEW newest, NEW next
    PROVE  /\ \A at \in {"act2", "answered", "refused"} :
                Shaped(Waiting("inbound", at, 0, None, None, FALSE), newest, next)
           /\ \A c \in Channel : /\ Shaped(RetargetWrite(c), newest, next)
                                 /\ Shaped(Waiting("inbound", "opened", c, None, None, FALSE),
                                           newest, next)
BY DEF Shaped, Sending, Waiting, RetargetWrite

\* A job is sent: of the latest template, by a broadcast of that or an older one.
LEMMA SendJobsShape ==
    ASSUME NEW task \in Task, NEW c \in Channel, NEW t \in Template, NEW rest \in Seq(Write),
           NEW known, NEW newest \in Template \union {None},
           TypeOK, SameJobs(known), SendJobs(task, c, t, rest, known),
           AllShaped(rest, newest, nextJobId),
           task = "broadcast" => newest # None /\ t.tip <= newest.tip
    PROVE  AllShaped(writes', newest, nextJobId')
<1> DEFINE e == SentWrite(task, c, t, known)
<1>1. /\ nextJobId' = nextJobId + 1 /\ nextJobId \in Nat
      /\ e \in Write /\ writes' = Append(rest, e) /\ SentJob(t) \in Job
  BY SendJobsFacts DEF TypeOK
<1>2. AllShaped(rest, newest, nextJobId')
  <2>1. newest # None => newest.tip <= newest.tip BY DEF Template
  <2> QED BY <1>1, <2>1, ShapedMono
<1>3. Shaped(e, newest, nextJobId')
  <2>1. t.clear => NewTip(c, t, known) BY DEF NewTip
  <2>2. SentJob(t).id < nextJobId' /\ SentJob(t).tip = t.tip BY <1>1 DEF SentJob
  <2>3. /\ e.task = task /\ e.at = "newJob" /\ e.channel = c /\ e.template = t
        /\ e.job = SentJob(t) /\ e.newTip = NewTip(c, t, known)
    BY DEF SentWrite, Waiting
  <2> HIDE DEF e
  <2> QED BY <1>1, <2>1, <2>2, <2>3 DEF Shaped, Sending
<1> QED BY <1>1, <1>2, <1>3, ShapedAppend

\* A step that leaves the latest template and the session alone.
LEMMA KeptShape ==
    ASSUME TypeOK, Shape, Kept, AllShaped(writes', latest, nextJobId'),
           ~destroyed \/ writes' = <<>>
    PROVE  Shape'
BY DEF Kept, Shape

LEMMA ChangesShape ==
    ASSUME TypeOK, Shape, NEW c, NEW d, NEW rest \in Seq(Write), NEW e \in Write,
           Changes(c, d, rest, e), AllShaped(rest, latest, nextJobId),
           Shaped(e, latest, nextJobId)
    PROVE  Shape'
<1>1. AllShaped(writes', latest, nextJobId') BY ShapedAppend DEF Changes
<1> QED BY <1>1, KeptShape DEF Changes

LEMMA OthersShape ==
    ASSUME TypeOK, Shape, writes # <<>>
    PROVE  Others \in Seq(Write) /\ AllShaped(Others, latest, nextJobId)
BY HeadTypes, ShapedTail DEF Shape, Others, TypeOK

LEMMA GoesOnShape == ASSUME TypeOK, Shape, GoesOn PROVE Shape'
<1>1. writes # <<>> /\ w.at \in {"newJob", "prevHash"} /\ Kept /\ nextJobId' = nextJobId
  BY DEF GoesOn, JobWritten, PrevHashWritten
<1>2. \/ w.newTip /\ writes' = GoOn("prevHash")
      \/ writes' = GoOn("target")
  BY DEF GoesOn, JobWritten, PrevHashWritten
<1>3. ASSUME NEW at \in Stage, at = "target" \/ (at = "prevHash" /\ w.newTip)
      PROVE  AllShaped(GoOn(at), latest, nextJobId)
  <2>1. [w EXCEPT !.at = at] \in Write /\ Shaped(w, latest, nextJobId) /\ w \in Write
    BY <1>1, HeadTypes
  <2>2. Shaped([w EXCEPT !.at = at], latest, nextJobId)
    BY <1>1, <1>3, <2>1 DEF Shaped, Sending, Write
  <2> QED BY <1>1, <2>1, <2>2, OthersShape, ShapedAppend DEF GoOn
<1>4. AllShaped(writes', latest, nextJobId')
  BY <1>1, <1>2, <1>3 DEF Stage
<1> QED BY <1>1, <1>4, KeptShape, HeadTypes

LEMMA SendsShape ==
    ASSUME TypeOK, Shape, SendsFirst \/ SendsOn \/ SendsAgain PROVE Shape'
<1>1. writes # <<>> /\ Kept BY DEF SendsFirst, SendsOn, SendsAgain
<1>2. Others \in Seq(Write) /\ AllShaped(Others, latest, nextJobId) /\ ~destroyed
      /\ Shaped(w, latest, nextJobId)
  BY <1>1, OthersShape, HeadTypes
<1>3. latest \in Template \union {None} BY DEF TypeOK
<1>4. CASE SendsFirst /\ latest # None
  <2>1. w.channel \in Channel BY <1>2, <1>4 DEF SendsFirst, Opened, Shaped
  <2>2. SendJobs("inbound", w.channel, latest, Others, MadeReady)
    BY <1>4 DEF SendsFirst, Opened, MadeReady
  <2>3. AllShaped(writes', latest, nextJobId')
    BY <1>2, <1>3, <1>4, <2>1, <2>2, MadeReadySame, SendJobsShape DEF Task
  <2> QED BY <1>1, <1>2, <2>3, KeptShape
<1>5. CASE SendsFirst /\ latest = None
  BY <1>1, <1>2, <1>5, KeptShape DEF SendsFirst, Opened
<1>6. CASE SendsOn
  <2>1. SameJobs(channels) BY DEF TypeOK, SameJobs
  <2>2. latest # None /\ w.template.tip <= latest.tip
    BY <1>2, <1>6, SendsOnFacts DEF Shaped, Broadcast
  <2>3. AllShaped(writes', latest, nextJobId')
    BY <1>2, <1>3, <1>6, <2>1, <2>2, SendsOnFacts, SendJobsShape DEF Task
  <2> QED BY <1>1, <1>2, <2>3, KeptShape
<1>7. CASE SendsAgain
  <2>1. SameJobs(channels) BY DEF TypeOK, SameJobs
  <2>2. AllShaped(writes', latest, nextJobId')
    BY <1>2, <1>3, <1>7, <2>1, SendsAgainFacts, SendJobsShape DEF Task
  <2> QED BY <1>1, <1>2, <2>2, KeptShape
<1> QED BY <1>4, <1>5, <1>6, <1>7

LEMMA EmitShape == ASSUME TypeOK, Shape, Emit PROVE Shape'
<1>1. PICK t \in Template :
         /\ t \in Following(latest)
         /\ latest' = t /\ emitted' = emitted + 1 /\ emitted < MaxTemplates
         /\ Ready # {} => /\ Least(Ready) \in Channel
                          /\ SendJobs("broadcast", Least(Ready), t, writes, channels)
         /\ Ready = {} => UNCHANGED <<nextJobId, writes>>
         /\ cleared' = IF t.clear THEN t.tip ELSE cleared
         /\ ~destroyed /\ UNCHANGED destroyed
  BY EmitFacts
<1>2. /\ t # None /\ t.tip <= emitted + 1 /\ t.tip \in 1..MaxTemplates
      /\ latest # None => latest.tip <= t.tip /\ latest.tip \in 1..MaxTemplates
  BY <1>1, FollowingTemplates DEF TypeOK, Template
<1>8. cleared' <= t.tip
  <2>1. cleared \in Nat /\ t.tip \in Nat BY <1>2, Bounds DEF TypeOK
  <2>2. cleared <= t.tip
    <3>1. CASE latest = None BY <2>1, <3>1 DEF Shape
    <3>2. CASE latest # None BY <1>2, <2>1, <3>2, Bounds DEF Shape
    <3> QED BY <3>1, <3>2
  <2> QED BY <1>1, <2>1, <2>2
<1>3. writes \in Seq(Write) /\ nextJobId \in Nat /\ latest \in Template \union {None}
  BY DEF TypeOK
<1>4. AllShaped(writes, t, nextJobId)
  <2>1. AllShaped(writes, latest, nextJobId) BY DEF Shape
  <2>2. t \in Template \union {None} /\ nextJobId <= nextJobId BY <1>3
  <2>3. latest # None => t # None /\ latest.tip <= t.tip BY <1>2
  <2> QED BY <1>3, <2>1, <2>2, <2>3, ShapedMono
<1>5. SameJobs(channels) BY DEF TypeOK, SameJobs
<1>6. CASE Ready # {}
  <2>1. "broadcast" \in Task /\ t.tip <= t.tip BY <1>2 DEF Task
  <2>2. AllShaped(writes', t, nextJobId')
    BY <1>1, <1>2, <1>3, <1>4, <1>5, <1>6, <2>1, SendJobsShape
  <2> QED BY <1>1, <1>2, <1>8, <2>2 DEF Shape
<1>7. CASE Ready = {}
  BY <1>1, <1>2, <1>4, <1>7, <1>8 DEF Shape
<1> QED BY <1>6, <1>7

LEMMA ShapeStep == ASSUME TypeOK, Shape, [Next]_vars PROVE Shape'
<1>0. AllShaped(writes, latest, nextJobId) /\ writes \in Seq(Write) BY DEF Shape, TypeOK
<1>1. CASE Idles
  BY <1>1, <1>0, KeptShape DEF Idles, Untouched, Shape
<1>2. CASE Asks
  BY <1>2, <1>0, NewWrites, NewShapes, ShapedAppend, KeptShape DEF Asks, Untouched
<1>3. ASSUME NEW c \in Channel, NEW d \in Difficulty,
             Updates(c, d) \/ Starts(c, d) \/ Continues(c, d)
      PROVE  Shape'
  <2>1. /\ Answer \in Write /\ RetargetWrite(c) \in Write
        /\ Shaped(Answer, latest, nextJobId) /\ Shaped(RetargetWrite(c), latest, nextJobId)
    BY NewWrites, NewShapes
  <2>2. CASE Updates(c, d) BY <1>0, <2>1, <2>2, ChangesShape DEF Updates
  <2>3. CASE Starts(c, d) BY <1>0, <2>1, <2>3, ChangesShape DEF Starts
  <2>4. CASE Continues(c, d) BY <2>1, <2>4, OthersShape, ChangesShape DEF Continues
  <2> QED BY <1>3, <2>2, <2>3, <2>4
<1>4. CASE Ends
  BY <1>4, OthersShape, HeadTypes, KeptShape DEF Ends, End
<1>5. CASE SendsFirst \/ SendsOn \/ SendsAgain BY <1>5, SendsShape
<1>6. CASE GoesOn BY <1>6, GoesOnShape
<1>7. CASE Vanishes
  BY <1>7 DEF Vanishes, Shape, AllShaped
<1>8. ASSUME NEW left \in 0..MaxChunk, OpenChannel(left) PROVE Shape'
  <2>1. PICK c \in Channel :
           /\ destroyed => UNCHANGED writes
           /\ ~destroyed =>
                writes' = Append(writes, Waiting("inbound", "opened", c, None, None, FALSE))
           /\ UNCHANGED <<latest, emitted, destroyed, nextJobId, overtaken, torn, cleared>>
    BY <1>8, OpenChannelFacts
  <2>2. CASE destroyed BY <2>1, <2>2 DEF Shape
  <2>3. CASE ~destroyed
    BY <1>0, <2>1, <2>3, NewWrites, NewShapes, ShapedAppend, KeptShape DEF Kept
  <2> QED BY <2>2, <2>3
<1>9. ASSUME NEW c \in Channel, Closes(c) PROVE Shape'
  BY <1>9 DEF Closes, Shape
<1>10. CASE Emit BY <1>10, EmitShape
<1>11. ASSUME NEW i \in DOMAIN writes, Overtakes(i) PROVE Shape'
  <2>1. AllShaped(writes', latest, nextJobId)
    BY <1>0, <1>11, QueueForward DEF Overtakes, AllShaped
  <2>2. ~destroyed BY <1>0, <1>11 DEF Shape, Overtakes
  <2> QED BY <1>11, <2>1, <2>2 DEF Overtakes, Untouched, Shape
<1>12. CASE CutShort
  <2>1. ~destroyed BY <1>12, HeadTypes DEF CutShort
  <2> QED BY <1>12, <2>1, OthersShape DEF CutShort, Untouched, Shape
<1> QED BY <1>1, <1>2, <1>3, <1>4, <1>5, <1>6, <1>7, <1>8, <1>9, <1>10, <1>11, <1>12, StepKinds
        DEF StepKind

LEMMA BaseInit == Init => TypeOK /\ Shape /\ JobSets
<1> SUFFICES ASSUME Init PROVE TypeOK /\ Shape /\ JobSets
  OBVIOUS
<1>1. Absent \in ChannelState /\ Absent.jobs = {} BY Bounds DEF Absent, ChannelState, Target
<1>2. UniqueIds({}) /\ Cardinality({}) = 0 /\ Ids({}) = {} BY FS_EmptySet DEF UniqueIds, Ids
<1>3. [tip |-> 0, job |-> 0, future |-> {}, target |-> None] \in MinerState
  BY Bounds DEF MinerState, Target
<1>4. <<>> \in Seq(Write) /\ DOMAIN <<>> = {} BY EmptySeq
<1>5. TypeOK
  <2>1. /\ channels \in [Channel -> ChannelState] /\ miner \in [Channel -> MinerState]
        /\ \A c \in Channel : channels[c].jobs = {}
    BY <1>1, <1>3 DEF Init
  <2>2. {} \subseteq 1..(nextJobId - 1) /\ 0 <= MaxChannelJobs BY Bounds
  <2>3. \A c \in Channel : Ids(channels[c].jobs) = {} /\ Cardinality(channels[c].jobs) = 0
    BY <1>2, <2>1
  <2>4. \A c \in Channel : Ids(channels[c].jobs) \subseteq 1..(nextJobId - 1)
    BY <2>2, <2>3
  <2>5. \A c \in Channel : Cardinality(channels[c].jobs) <= MaxChannelJobs
    BY <2>2, <2>3
  <2>6. /\ 0 \in 0..MaxTemplates /\ 0 \in 0..MaxChunk /\ 0 \in 0..MaxExtras
        /\ 0 \in 0..MaxUpdates /\ 1 \in Nat \ {0}
    BY Bounds
  <2>7. latest \in Template \union {None} /\ handshakeComplete \in BOOLEAN
    BY DEF Init
  <2>8. destroyed \in BOOLEAN /\ overtaken \in BOOLEAN BY DEF Init
  <2>9. /\ emitted \in 0..MaxTemplates /\ nextJobId \in Nat \ {0} /\ chunk \in 0..MaxChunk
        /\ extras \in 0..MaxExtras /\ updates \in 0..MaxUpdates
    BY <2>6 DEF Init
  <2>10. writes \in Seq(Write) /\ inbound \in {Idle, "writing", "block", "storing"}
    BY <1>4 DEF Init
  <2>12. done \in 0..Len(writes) /\ torn \subseteq Channel \union {0} /\ cleared \in 0..MaxTemplates
    BY <2>6 DEF Init
  <2>11. /\ prefixes \subseteq Channel /\ submissionHashes \subseteq Share
         /\ credited \subseteq Share /\ creditedAgain \subseteq Share /\ storing \subseteq Share
    BY DEF Init
  <2> QED BY <2>1, <2>4, <2>5, <2>7, <2>8, <2>9, <2>10, <2>11, <2>12 DEF TypeOK
<1>6. Shape BY <1>4 DEF Init, Shape, AllShaped
<1>7. JobSets BY <1>1, <1>2 DEF Init, JobSets
<1> QED BY <1>5, <1>6, <1>7

LEMMA Base == Spec => [](TypeOK /\ Shape /\ JobSets)
<1>1. (TypeOK /\ Shape /\ JobSets) /\ [Next]_vars => (TypeOK /\ Shape /\ JobSets)'
  BY TypeStep, ShapeStep
<1> QED BY <1>1, BaseInit, PTL DEF Spec

(* Every variable of the session keeps its type, whatever its tasks and    *)
(* the end of the session do between each other's writes: no channel has   *)
(* more than MAX_CHANNEL_JOBS jobs, and their ids have been given out.     *)
THEOREM TypeCorrect == Spec => []TypeOK
BY Base, PTL

-----------------------------------------------------------------------------
(* What the steps do to the states of the channels and to the prefixes.    *)

\* Registering a job leaves the other fields of the channels alone.
LEMMA SendJobsFields ==
    ASSUME NEW task \in Task, NEW c \in Channel, NEW t \in Template, NEW rest, NEW known,
           TypeOK, SameJobs(known), SendJobs(task, c, t, rest, known)
    PROVE  \A d \in Channel :
             /\ channels'[d].state = known[d].state
             /\ channels'[d].ready = known[d].ready
             /\ channels'[d].activeTip = known[d].activeTip
             /\ channels'[d].difficulty = known[d].difficulty
             /\ d # c => channels'[d].jobs = channels[d].jobs
             /\ miner'[d].tip = miner[d].tip
             /\ miner'[d].target = miner[d].target
             /\ d # c => miner'[d].job = miner[d].job
<1>1. /\ channels' = [known EXCEPT ![c].jobs =
           JobsWith(SentJob(t), NewTip(c, t, known), channels[c].jobs)]
      /\ miner' = HearJob(c, SentJob(t), NewTip(c, t, known))
  BY SendJobsFacts
<1>2. known \in [Channel -> ChannelState] /\ miner \in [Channel -> MinerState]
  BY DEF SameJobs, TypeOK
<1>3. \A d \in Channel : known[d] \in ChannelState /\ miner[d] \in MinerState
  BY <1>2
<1> DEFINE js == JobsWith(SentJob(t), NewTip(c, t, known), channels[c].jobs)
<1>4. channels' = [known EXCEPT ![c].jobs = js] BY <1>1
<1> HIDE DEF js
<1>5. \A d \in Channel : /\ channels'[d].state = known[d].state
                         /\ channels'[d].ready = known[d].ready
                         /\ channels'[d].activeTip = known[d].activeTip
                         /\ channels'[d].difficulty = known[d].difficulty
                         /\ d # c => channels'[d].jobs = known[d].jobs
  BY <1>2, <1>3, <1>4 DEF ChannelState
<1>6. \A d \in Channel : /\ miner'[d].tip = miner[d].tip
                         /\ miner'[d].target = miner[d].target
                         /\ d # c => miner'[d].job = miner[d].job
  <2>1. NewTip(c, t, known) \in BOOLEAN BY SendJobsFacts
  <2>2. CASE NewTip(c, t, known)
    BY <1>1, <1>2, <1>3, <2>2 DEF HearJob, MinerState
  <2>3. CASE ~NewTip(c, t, known)
    BY <1>1, <1>2, <1>3, <2>3 DEF HearJob, MinerState
  <2> QED BY <2>1, <2>2, <2>3
<1> QED BY <1>5, <1>6 DEF SameJobs

\* Only opening, closing and the end of the session change a state.
StatesKept == \A d \in Channel : channels'[d].state = channels[d].state

LEMMA OpenKept == ASSUME StatesKept PROVE Open' = Open
BY DEF StatesKept, Open

LEMMA EmitStates == ASSUME TypeOK, Shape, Emit PROVE StatesKept
<1>1. PICK t \in Template :
         /\ Ready # {} => /\ Least(Ready) \in Channel
                          /\ SendJobs("broadcast", Least(Ready), t, writes, channels)
         /\ Ready = {} => UNCHANGED channels
  BY EmitFacts
<1>2. SameJobs(channels) /\ "broadcast" \in Task BY DEF TypeOK, SameJobs, Task
<1> QED BY <1>1, <1>2, SendJobsFields DEF StatesKept

\* The states a step of a task leaves.
LEMMA TaskStates ==
    ASSUME TypeOK, Shape,
           Emit \/ Idles \/ Asks \/ Ends \/ SendsFirst \/ SendsOn \/ SendsAgain \/ GoesOn
             \/ \E c \in Channel, d \in Difficulty : Updates(c, d) \/ Starts(c, d) \/ Continues(c, d)
    PROVE  StatesKept
<1>1. CASE Emit BY <1>1, EmitStates
<1>2. CASE UNCHANGED channels BY <1>2 DEF StatesKept
<1>3. CASE Idles \/ Asks \/ Ends BY <1>2, <1>3 DEF Idles, Asks, Ends, End, Untouched
<1>4. SameJobs(channels) /\ {"broadcast", "inbound", "pass"} \subseteq Task
  BY DEF TypeOK, SameJobs, Task
<1>5. \A c \in Channel : channels[c] \in ChannelState BY DEF TypeOK
<1>6. CASE SendsFirst
  <2>1. w.channel \in Channel BY <1>6, HeadTypes DEF SendsFirst, Opened, Shaped
  <2>2. SameJobs(MadeReady) BY <2>1, MadeReadySame
  <2>3. \A d \in Channel : MadeReady[d].state = channels[d].state
    BY <1>5 DEF MadeReady, TypeOK, ChannelState
  <2>4. CASE latest # None
    <3>1. SendJobs("inbound", w.channel, latest, Others, MadeReady) /\ latest \in Template
      BY <1>6, <2>4 DEF SendsFirst, Opened, MadeReady, TypeOK
    <3> QED BY <1>4, <2>1, <2>2, <2>3, <3>1, SendJobsFields DEF StatesKept
  <2>5. CASE latest = None
    <3>1. channels' = MadeReady BY <1>6, <2>5 DEF SendsFirst, Opened, MadeReady
    <3> QED BY <2>3, <3>1 DEF StatesKept
  <2> QED BY <2>4, <2>5
<1>7. CASE GoesOn
  <2>1. CASE JobWritten BY <1>2, <2>1 DEF JobWritten
  <2>2. CASE PrevHashWritten
    BY <1>5, <2>2 DEF PrevHashWritten, StatesKept, TypeOK, ChannelState
  <2> QED BY <1>7, <2>1, <2>2 DEF GoesOn
<1>8. CASE SendsOn BY <1>4, <1>8, SendsOnFacts, SendJobsFields DEF StatesKept
<1>9. CASE SendsAgain BY <1>4, <1>9, SendsAgainFacts, SendJobsFields DEF StatesKept
<1>10. ASSUME NEW c \in Channel, NEW d \in Difficulty,
              Updates(c, d) \/ Starts(c, d) \/ Continues(c, d)
       PROVE  StatesKept
  <2>1. channels' = [channels EXCEPT ![c].difficulty = d]
    BY <1>10 DEF Updates, Starts, Continues, Changes
  <2> QED BY <1>5, <2>1 DEF StatesKept, TypeOK, ChannelState
<1> QED BY <1>1, <1>3, <1>6, <1>7, <1>8, <1>9, <1>10

LEMMA WriteDoneStates == ASSUME TypeOK, Shape, WriteDone PROVE StatesKept
<1>1. writes # <<>> /\ Kept BY DEF WriteDone, Kept, boundVars
<1>2. CASE End BY <1>2 DEF End, StatesKept
<1>3. CASE Opened \/ JobWritten \/ PrevHashWritten \/ Retargeted
          \/ (BroadcastOn /\ After(w.channel) # {})
  BY <1>1, <1>3, TaskStates DEF SendsFirst, GoesOn, SendsAgain, SendsOn
<1>4. ASSUME NEW c \in Channel, NEW d, Retarget(c, d, Others) PROVE StatesKept
  <2>1. channels' = [channels EXCEPT ![c].difficulty = d] BY <1>4 DEF Retarget
  <2>2. \A x \in Channel : channels[x] \in ChannelState BY DEF TypeOK
  <2> QED BY <2>1, <2>2 DEF StatesKept, TypeOK, ChannelState
<1> QED BY <1>2, <1>3, <1>4, AfterChannel
        DEF WriteDone, Act2Written, Answered, BroadcastOn, OpenDone, PassOn

\* The channels that are open are those that hold a prefix.
PrefixesOfOpen == prefixes = Open

LEMMA GoneChannels == ASSUME TypeOK, channels' = AllGone PROVE Open' = {}
BY DEF TypeOK, AllGone, Absent, Open

LEMMA PrefixesStep ==
    ASSUME TypeOK, Shape, PrefixesOfOpen, [Next]_vars
    PROVE  PrefixesOfOpen' /\ (~destroyed /\ destroyed' => prefixes' = {})
<1>1. ASSUME StatesKept, UNCHANGED <<prefixes, destroyed>>
      PROVE  PrefixesOfOpen' /\ UNCHANGED destroyed
  BY <1>1, OpenKept DEF PrefixesOfOpen
<1>2. ASSUME channels' = AllGone, prefixes' = prefixes \ Open
      PROVE  PrefixesOfOpen' /\ prefixes' = {}
  BY <1>2, GoneChannels DEF PrefixesOfOpen
<1>3. \A c \in Channel : channels[c] \in ChannelState BY DEF TypeOK
<1>4. CASE Emit BY <1>1, <1>4, EmitStates DEF Emit
<1>5. CASE WriteDone BY <1>1, <1>5, WriteDoneStates, WriteDoneKeeps
<1>6. ASSUME NEW left \in 0..MaxChunk, OpenChannel(left)
      PROVE  PrefixesOfOpen' /\ UNCHANGED destroyed
  <2>1. PICK c \in Channel, d \in Difficulty :
           /\ channels' = [channels EXCEPT ![c] = OpenedState(d)]
           /\ prefixes' = prefixes \union {c} /\ UNCHANGED destroyed
    BY <1>6, OpenChannelFacts
  <2>2. OpenedState(d).state = "open" BY DEF OpenedState, Absent
  <2>3. Open' = Open \union {c} BY <2>1, <2>2 DEF Open, TypeOK
  <2> QED BY <2>1, <2>3 DEF PrefixesOfOpen
<1>7. ASSUME NEW left \in 0..MaxChunk, NEW c \in Channel, CloseChannel(c, left)
      PROVE  PrefixesOfOpen' /\ (UNCHANGED destroyed \/ prefixes' = {})
  <2>1. CASE Open = {c} /\ ~destroyed
    BY <1>2, <1>7, <2>1 DEF CloseChannel, Destroy
  <2>2. CASE ~(Open = {c} /\ ~destroyed)
    <3>1. /\ prefixes' = prefixes \ {c} /\ UNCHANGED destroyed
          /\ channels' = [channels EXCEPT ![c].state = "gone"]
      BY <1>7, <2>2 DEF CloseChannel
    <3>2. Open' = Open \ {c} BY <1>3, <3>1 DEF Open, TypeOK, ChannelState
    <3> QED BY <3>1, <3>2 DEF PrefixesOfOpen
  <2> QED BY <2>1, <2>2
<1>8. ASSUME NEW left \in 0..MaxChunk, NEW c \in Channel, UpdateChannel(c, left)
      PROVE  PrefixesOfOpen' /\ UNCHANGED destroyed
  <2>1. StatesKept
    BY <1>3, <1>8 DEF UpdateChannel, StatesKept, TypeOK, ChannelState
  <2> QED BY <1>1, <1>8, <2>1 DEF UpdateChannel
<1>9. CASE StartPass
  <2>1. StatesKept
    BY <1>3, <1>9 DEF StartPass, Retarget, StatesKept, TypeOK, ChannelState
  <2> QED BY <1>1, <1>9, <2>1 DEF StartPass
<1>10. ASSUME UNCHANGED <<channels, prefixes, destroyed>>
       PROVE  PrefixesOfOpen' /\ UNCHANGED destroyed
  BY <1>1, <1>10 DEF StatesKept
<1>11. ASSUME NEW left \in 0..MaxChunk,
              Handshake(left) \/ AnswerOnly(left) \/ AnswerAndClose(left)
       PROVE  UNCHANGED <<channels, prefixes, destroyed>>
  BY <1>11 DEF Handshake, AnswerOnly, AnswerAndClose
<1>12. ASSUME NEW left \in 0..MaxChunk, NEW c, NEW id, NEW n,
              TakeShare(c, id, n, left) \/ RejectShare(c, id, n, left)
       PROVE  UNCHANGED <<channels, prefixes, destroyed>>
  BY <1>12 DEF TakeShare, RejectShare
<1>13. CASE BlockSaved \/ CreditShare \/ PassFails
  BY <1>10, <1>13 DEF BlockSaved, CreditShare, PassFails
<1>14. CASE BlockNotSaved BY <1>2, <1>14 DEF BlockNotSaved
<1>15. CASE CloseWritten \/ Disconnect BY <1>2, <1>15 DEF CloseWritten, Disconnect, Destroy
<1>16. CASE UNCHANGED vars BY <1>10, <1>16 DEF vars
<1>17. ASSUME NEW i \in DOMAIN writes, Overtake(i)
       PROVE  UNCHANGED <<channels, prefixes, destroyed>>
  BY <1>17 DEF Overtake
<1> QED BY <1>4, <1>5, <1>6, <1>7, <1>8, <1>9, <1>10, <1>11, <1>12, <1>13, <1>14, <1>15, <1>16,
           <1>17, Actions

\* The step that ends the session leaves no prefix behind.
EndReleases == ~destroyed /\ destroyed' => prefixes' = {}

(* A prefix is held by a channel that is open, and by every one; and the   *)
(* end of the session releases them all, whatever channels came and went   *)
(* and whatever is being written or left in the chunk at hand.  (So what   *)
(* SessionReleased finds after the end was taken after it: cleanup itself  *)
(* forgets none.)                                                          *)
THEOREM Released == Spec => []PrefixesOfOpen /\ [][EndReleases]_vars
<1>1. Init => PrefixesOfOpen
  BY DEF Init, PrefixesOfOpen, Open, Absent
<1>2. PrefixesOfOpen /\ (TypeOK /\ Shape /\ JobSets) /\ [Next]_vars
        => PrefixesOfOpen' /\ [EndReleases]_vars
  BY PrefixesStep DEF EndReleases
<1> QED BY <1>1, <1>2, Base, PTL DEF Spec

-----------------------------------------------------------------------------
(* The inbound chain.                                                      *)

LEMMA ChainAppend ==
    ASSUME NEW q \in Seq(Write), NEW in, Chain(q, in), NEW e \in Write, e.task # "inbound"
    PROVE  Chain(Append(q, e), in)
BY QueueAppend DEF Chain

LEMMA ChainAsk ==
    ASSUME NEW q \in Seq(Write), NoInbound(q), NEW e \in Write
    PROVE  Chain(Append(q, e), "writing")
BY QueueAppend DEF Chain, NoInbound

LEMMA ChainTail ==
    ASSUME NEW q \in Seq(Write), q # <<>>, NEW in, Chain(q, in)
    PROVE  Chain(Tail(q), in) /\ (q[1].task = "inbound" => NoInbound(Tail(q)) /\ in = "writing")
BY QueueTail DEF Chain, NoInbound

LEMMA ChainFree ==
    ASSUME NEW q, NEW in, Chain(q, in), in # "writing"
    PROVE  NoInbound(q)
BY DEF Chain, NoInbound

LEMMA NoChain == ASSUME NEW q, NEW in, NoInbound(q) PROVE Chain(q, in)
BY DEF Chain, NoInbound

LEMMA ChainForward ==
    ASSUME NEW q \in Seq(Write), NEW i \in DOMAIN q, NEW in, Chain(q, in)
    PROVE  Chain(Forward(q, i), in)
<1> DEFINE f == Forward(q, i)
<1>1. DOMAIN f = DOMAIN q /\ \A k \in DOMAIN q : Source(i, k) \in DOMAIN q /\ f[k] = q[Source(i, k)]
  BY QueueForward
<1>2. \A j, k \in DOMAIN q : Source(i, j) = Source(i, k) => j = k
  BY QueueForward
<1> HIDE DEF f
<1>3. ASSUME NEW k \in DOMAIN f, f[k].task = "inbound"
      PROVE  in = "writing" /\ \A j \in DOMAIN f : f[j].task = "inbound" => k = j
  <2>1. Source(i, k) \in DOMAIN q /\ q[Source(i, k)].task = "inbound" BY <1>1, <1>3
  <2>2. in = "writing" BY <2>1 DEF Chain
  <2>3. ASSUME NEW j \in DOMAIN f, f[j].task = "inbound" PROVE k = j
    <3>1. Source(i, j) \in DOMAIN q /\ q[Source(i, j)].task = "inbound" BY <1>1, <2>3
    <3>2. Source(i, k) = Source(i, j) BY <2>1, <3>1 DEF Chain
    <3> QED BY <1>1, <1>2, <3>2
  <2> QED BY <2>2, <2>3
<1> QED BY <1>3 DEF Chain, f

\* The same of the queue behind its head.
LEMMA ChainOthers ==
    ASSUME TypeOK, Shape, OneInbound, writes # <<>>
    PROVE  /\ Others \in Seq(Write) /\ Chain(Others, inbound)
           /\ w.task = "inbound" => NoInbound(Others) /\ inbound = "writing"
BY HeadTypes, ChainTail DEF OneInbound, Others, TypeOK

LEMMA OneInboundStep == ASSUME TypeOK, Shape, OneInbound, [Next]_vars PROVE OneInbound'
<1>0. writes \in Seq(Write) /\ Chain(writes, inbound) BY DEF TypeOK, OneInbound
<1>1. CASE Idles
  <2>1. CASE UNCHANGED inbound BY <1>1, <2>1 DEF Idles, OneInbound
  <2>2. CASE inbound # "writing"
    BY <1>0, <1>1, <2>2, ChainFree, NoChain DEF Idles, OneInbound
  <2> QED BY <1>1, <2>1, <2>2 DEF Idles
<1>2. CASE Asks
  BY <1>0, <1>2, ChainFree, ChainAsk, NewWrites DEF Asks, OneInbound
<1>3. ASSUME NEW c \in Channel, NEW d \in Difficulty, Updates(c, d) PROVE OneInbound'
  BY <1>0, <1>3, ChainFree, ChainAsk, NewWrites DEF Updates, Changes, OneInbound
<1>4. ASSUME NEW c \in Channel, NEW d \in Difficulty, Starts(c, d) \/ Continues(c, d)
      PROVE  OneInbound'
  <2>1. RetargetWrite(c) \in Write /\ RetargetWrite(c).task # "inbound"
    BY NewWrites DEF RetargetWrite, Waiting
  <2> QED BY <1>0, <1>4, <2>1, ChainAppend, ChainOthers DEF Starts, Continues, Changes, OneInbound
<1>5. CASE Ends
  BY <1>5, ChainOthers, NoChain DEF Ends, End, OneInbound
<1>6. CASE SendsFirst
  <2>1. writes # <<>> /\ w.at = "opened" BY <1>6 DEF SendsFirst, Opened
  <2>2. w.task = "inbound" /\ w.channel \in Channel BY <2>1, HeadTypes DEF Shaped
  <2>3. NoInbound(Others) /\ inbound = "writing" /\ Others \in Seq(Write)
    BY <2>1, <2>2, ChainOthers
  <2>4. CASE latest # None
    <3>1. SendJobs("inbound", w.channel, latest, Others, MadeReady) /\ UNCHANGED inbound
      BY <1>6, <2>4 DEF SendsFirst, Opened, MadeReady
    <3>2. latest \in Template /\ SameJobs(MadeReady) /\ "inbound" \in Task
      BY <2>2, <2>4, MadeReadySame DEF TypeOK, Task
    <3>3. /\ SentWrite("inbound", w.channel, latest, MadeReady) \in Write
          /\ writes' = Append(Others, SentWrite("inbound", w.channel, latest, MadeReady))
      BY <2>2, <3>1, <3>2, SendJobsFacts
    <3> QED BY <2>3, <3>1, <3>3, ChainAsk DEF OneInbound
  <2>5. CASE latest = None
    BY <1>6, <2>3, <2>5, NoChain DEF SendsFirst, Opened, OneInbound
  <2> QED BY <2>4, <2>5
<1>7. ASSUME NEW task \in Task, NEW c \in Channel, NEW t \in Template, NEW rest \in Seq(Write),
             SendJobs(task, c, t, rest, channels), UNCHANGED inbound, task # "inbound",
             Chain(rest, inbound)
      PROVE  OneInbound'
  <2>1. SameJobs(channels) BY DEF TypeOK, SameJobs
  <2>2. SentWrite(task, c, t, channels).task = task BY DEF SentWrite, Waiting
  <2>3. /\ SentWrite(task, c, t, channels) \in Write
        /\ writes' = Append(rest, SentWrite(task, c, t, channels))
    BY <1>7, <2>1, SendJobsFacts
  <2> QED BY <1>7, <2>2, <2>3, ChainAppend DEF OneInbound
<1>8. CASE SendsOn
  <2>1. "broadcast" \in Task BY DEF Task
  <2> QED BY <1>7, <1>8, <2>1, SendsOnFacts, ChainOthers
<1>9. CASE SendsAgain
  <2>1. "pass" \in Task BY DEF Task
  <2> QED BY <1>7, <1>9, <2>1, SendsAgainFacts, ChainOthers
<1>10. CASE GoesOn
  <2>1. /\ writes # <<>> /\ UNCHANGED inbound
        /\ \E at \in {"prevHash", "target"} : writes' = GoOn(at)
    BY <1>10 DEF GoesOn, JobWritten, PrevHashWritten
  <2>2. PICK at \in {"prevHash", "target"} : writes' = Append(Others, [w EXCEPT !.at = at])
    BY <2>1 DEF GoOn
  <2>3. [w EXCEPT !.at = at] \in Write BY <2>1, HeadTypes DEF Stage
  <2>4. CASE w.task = "inbound"
    BY <2>1, <2>2, <2>3, <2>4, ChainOthers, ChainAsk DEF OneInbound
  <2>5. CASE w.task # "inbound"
    <3>1. [w EXCEPT !.at = at].task # "inbound" BY <2>1, <2>5, HeadTypes DEF Write
    <3> QED BY <2>1, <2>2, <2>3, <3>1, ChainOthers, ChainAppend DEF OneInbound
  <2> QED BY <2>4, <2>5
<1>11. CASE Vanishes
  BY <1>11, EmptySeq DEF Vanishes, OneInbound, Chain
<1>12. ASSUME NEW left \in 0..MaxChunk, OpenChannel(left) PROVE OneInbound'
  <2>1. PICK c \in Channel :
           /\ destroyed => UNCHANGED <<writes, inbound>>
           /\ ~destroyed =>
                /\ writes' = Append(writes, Waiting("inbound", "opened", c, None, None, FALSE))
                /\ inbound' = "writing"
           /\ inbound # "writing"
    BY <1>12, OpenChannelFacts
  <2>2. NoInbound(writes) BY <1>0, <2>1, ChainFree
  <2>3. CASE destroyed BY <2>1, <2>2, <2>3, NoChain DEF OneInbound
  <2>4. CASE ~destroyed
    BY <1>0, <2>1, <2>2, <2>4, NewWrites, ChainAsk DEF OneInbound
  <2> QED BY <2>3, <2>4
<1>13. ASSUME NEW c \in Channel, Closes(c) PROVE OneInbound'
  BY <1>13 DEF Closes, OneInbound
<1>14. CASE Emit
  <2>1. PICK t \in Template :
           /\ Ready # {} => /\ Least(Ready) \in Channel
                            /\ SendJobs("broadcast", Least(Ready), t, writes, channels)
           /\ Ready = {} => UNCHANGED writes
           /\ UNCHANGED inbound
    BY <1>14, EmitFacts
  <2>2. "broadcast" \in Task BY DEF Task
  <2>3. CASE Ready # {} BY <1>0, <1>7, <2>1, <2>2, <2>3
  <2>4. CASE Ready = {} BY <1>0, <2>1, <2>4 DEF OneInbound
  <2> QED BY <2>3, <2>4
<1>15. ASSUME NEW i \in DOMAIN writes, Overtakes(i) PROVE OneInbound'
  BY <1>0, <1>15, ChainForward DEF Overtakes, OneInbound
<1>16. CASE CutShort
  BY <1>16, ChainOthers DEF CutShort, OneInbound
<1> QED BY <1>1, <1>2, <1>3, <1>4, <1>5, <1>6, <1>8, <1>9, <1>10, <1>11, <1>12, <1>13, <1>14,
           <1>15, <1>16, StepKinds DEF StepKind

-----------------------------------------------------------------------------
(* Shares: what the session remembers of those it credited.                *)

(* One channel is open at a time, and the duplicate set is not full.  With *)
(* two channels a new tip on the one clears the set for the other, whose   *)
(* jobs stay; a full set is cleared with the jobs that are in it.          *)
Single == \A c, d \in Open : c = d
BelowCap == ~(Cardinality(submissionHashes) >= MaxSubmissions)

\* No channel is gone before the session ends, and tasks hold no absent one.
HeldBy(q, chs) == \A i \in DOMAIN q : q[i].channel # 0 => chs[q[i].channel].state # "absent"
Held ==
    /\ HeldBy(writes, channels)
    /\ ~destroyed => \A c \in Channel : channels[c].state # "gone"

(* A share credited, or being credited, on a job its channel still has is  *)
(* in the duplicate set.                                                   *)
Recorded ==
    /\ \A k \in credited \union storing : k[2] < nextJobId
    /\ ~destroyed => \A k \in credited \union storing :
         k[1] \in Open /\ k[2] \in Ids(channels[k[1]].jobs) => k \in submissionHashes
    /\ storing \intersect credited = {}
    /\ storing # {} => inbound \in {"block", "storing"}
    /\ creditedAgain = {}

LEMMA HeldAppend ==
    ASSUME NEW q \in Seq(Write), NEW chs, HeldBy(q, chs), NEW e \in Write,
           e.channel # 0 => chs[e.channel].state # "absent"
    PROVE  HeldBy(Append(q, e), chs)
BY QueueAppend DEF HeldBy

LEMMA HeldTail ==
    ASSUME NEW q \in Seq(Write), q # <<>>, NEW chs, HeldBy(q, chs)
    PROVE  HeldBy(Tail(q), chs) /\ (q[1].channel # 0 => chs[q[1].channel].state # "absent")
BY QueueTail DEF HeldBy

LEMMA HeldMono ==
    ASSUME NEW q \in Seq(Write), NEW chs, NEW chs2, HeldBy(q, chs),
           \A c \in Channel : chs[c].state # "absent" => chs2[c].state # "absent"
    PROVE  HeldBy(q, chs2)
<1>1. \A i \in DOMAIN q : q[i] \in Write BY EmptySeq
<1> QED BY <1>1 DEF HeldBy, Write

\* A channel that was there stays in the map, or a task may still hold it.
NeverAbsent == \A c \in Channel : channels[c].state # "absent" => channels'[c].state # "absent"

LEMMA HeldRest ==
    ASSUME TypeOK, Shape, HeldBy(writes, channels), NeverAbsent
    PROVE  /\ HeldBy(writes, channels')
           /\ writes # <<>> => /\ HeldBy(Others, channels')
                               /\ w.channel # 0 => channels'[w.channel].state # "absent"
<1>1. writes \in Seq(Write) /\ HeldBy(writes, channels')
  BY HeldMono DEF NeverAbsent, TypeOK
<1>2. writes # <<>> => /\ HeldBy(Others, channels')
                       /\ w.channel # 0 => channels'[w.channel].state # "absent"
  BY <1>1, HeldTail, HeadTypes DEF Others
<1> QED BY <1>1, <1>2

LEMMA StatesNeverAbsent == ASSUME StatesKept PROVE NeverAbsent
BY DEF StatesKept, NeverAbsent

LEMMA SentHeld ==
    ASSUME NEW task \in Task, NEW c \in Channel, NEW t \in Template, NEW rest \in Seq(Write),
           NEW known, TypeOK, SameJobs(known), SendJobs(task, c, t, rest, known),
           HeldBy(rest, channels'), channels'[c].state # "absent"
    PROVE  HeldBy(writes', channels')
<1>1. SentWrite(task, c, t, known).channel = c BY DEF SentWrite, Waiting
<1>2. /\ SentWrite(task, c, t, known) \in Write
      /\ writes' = Append(rest, SentWrite(task, c, t, known))
  BY SendJobsFacts
<1> QED BY <1>1, <1>2, HeldAppend

LEMMA TaskHeld ==
    ASSUME TypeOK, Shape, HeldBy(writes, channels),
           Emit \/ Idles \/ Asks \/ Ends \/ SendsFirst \/ SendsOn \/ SendsAgain \/ GoesOn
             \/ \E c \in Channel, d \in Difficulty : Updates(c, d) \/ Starts(c, d) \/ Continues(c, d)
    PROVE  HeldBy(writes', channels')
<1>1. StatesKept /\ NeverAbsent BY TaskStates, StatesNeverAbsent
<1>2. HeldBy(writes, channels') /\ writes \in Seq(Write) BY <1>1, HeldRest DEF TypeOK
<1>3. writes # <<>> => /\ HeldBy(Others, channels') /\ Others \in Seq(Write)
                       /\ w.channel # 0 => channels'[w.channel].state # "absent"
  BY <1>1, HeldRest, HeadTypes
<1>4. SameJobs(channels) /\ {"broadcast", "inbound", "pass"} \subseteq Task
  BY DEF TypeOK, SameJobs, Task
<1>5. \A c \in Open : channels'[c].state # "absent" BY <1>1 DEF StatesKept, Open
<1>6. \A e \in Write : e.channel = 0 => HeldBy(Append(writes, e), channels')
  BY <1>2, HeldAppend
<1>7. CASE Idles BY <1>2, <1>7 DEF Idles
<1>8. CASE Asks
  <2>1. PICK at \in {"act2", "answered", "refused"} :
           writes' = Append(writes, Waiting("inbound", at, 0, None, None, FALSE))
    BY <1>8 DEF Asks
  <2>2. Waiting("inbound", at, 0, None, None, FALSE).channel = 0 BY DEF Waiting
  <2> QED BY <1>6, <2>1, <2>2, NewWrites
<1>9. CASE Ends BY <1>3, <1>9 DEF Ends, End
<1>10. CASE SendsFirst
  <2>1. writes # <<>> /\ w.channel \in Channel
    BY <1>10, HeadTypes DEF SendsFirst, Opened, Shaped
  <2>2. SameJobs(MadeReady) BY <2>1, MadeReadySame
  <2>3. w.channel # 0 BY <2>1, Bounds DEF Channel
  <2>4. CASE latest # None
    <3>1. SendJobs("inbound", w.channel, latest, Others, MadeReady) /\ latest \in Template
      BY <1>10, <2>4 DEF SendsFirst, Opened, MadeReady, TypeOK
    <3>2. HeldBy(Others, channels') /\ Others \in Seq(Write)
          /\ channels'[w.channel].state # "absent" /\ "inbound" \in Task
      BY <1>3, <2>1, <2>3 DEF Task
    <3> QED BY <2>1, <2>2, <3>1, <3>2, SentHeld
  <2>5. CASE latest = None
    BY <1>3, <1>10, <2>1, <2>5 DEF SendsFirst, Opened
  <2> QED BY <2>4, <2>5
<1>11. CASE SendsOn
  BY <1>3, <1>4, <1>5, <1>11, SendsOnFacts, SentHeld, AfterChannel
<1>12. CASE SendsAgain
  <2>1. w.channel # 0 BY <1>12, SendsAgainFacts, Bounds DEF Channel
  <2> QED BY <1>3, <1>4, <1>12, <2>1, SendsAgainFacts, SentHeld
<1>13. CASE GoesOn
  <2>1. writes # <<>> /\ \E at \in {"prevHash", "target"} : writes' = GoOn(at)
    BY <1>13 DEF GoesOn, JobWritten, PrevHashWritten
  <2>2. PICK at \in {"prevHash", "target"} : writes' = Append(Others, [w EXCEPT !.at = at])
    BY <2>1 DEF GoOn
  <2>3. [w EXCEPT !.at = at] \in Write /\ w \in Write BY <2>1, HeadTypes DEF Stage
  <2>4. [w EXCEPT !.at = at].channel = w.channel BY <2>3 DEF Write
  <2> QED BY <1>3, <2>1, <2>2, <2>3, <2>4, HeldAppend
<1>14. ASSUME NEW c \in Channel, NEW d \in Difficulty,
              Updates(c, d) \/ Starts(c, d) \/ Continues(c, d)
       PROVE  HeldBy(writes', channels')
  <2>1. CASE Updates(c, d)
    <3>1. Answer \in Write /\ Answer.channel = 0 BY NewWrites DEF Waiting
    <3> QED BY <1>6, <2>1, <3>1 DEF Updates, Changes
  <2>2. CASE Starts(c, d) \/ Continues(c, d)
    <3>1. RetargetWrite(c) \in Write /\ RetargetWrite(c).channel = c
      BY NewWrites DEF RetargetWrite, Waiting
    <3>2. c \in Ready /\ channels'[c].state # "absent"
      BY <1>5, <2>2, AfterChannel DEF Starts, Continues
    <3>3. \/ writes' = Append(writes, RetargetWrite(c))
          \/ writes # <<>> /\ writes' = Append(Others, RetargetWrite(c))
      BY <2>2 DEF Starts, Continues, Changes
    <3>4. CASE writes' = Append(writes, RetargetWrite(c))
      BY <1>2, <3>1, <3>2, <3>4, HeldAppend
    <3>5. CASE writes # <<>> /\ writes' = Append(Others, RetargetWrite(c))
      BY <1>3, <3>1, <3>2, <3>5, HeldAppend
    <3> QED BY <3>3, <3>4, <3>5
  <2> QED BY <1>14, <2>1, <2>2
<1>15. CASE Emit
  <2>1. PICK t \in Template :
           /\ Ready # {} => /\ Least(Ready) \in Ready /\ Least(Ready) \in Channel
                            /\ SendJobs("broadcast", Least(Ready), t, writes, channels)
           /\ Ready = {} => UNCHANGED writes
    BY <1>15, EmitFacts
  <2>2. CASE Ready # {}
    BY <1>2, <1>4, <1>5, <2>1, <2>2, SentHeld, AfterChannel
  <2>3. CASE Ready = {} BY <1>2, <2>1, <2>3
  <2> QED BY <2>2, <2>3
<1> QED BY <1>7, <1>8, <1>9, <1>10, <1>11, <1>12, <1>13, <1>14, <1>15

LEMMA HeldStep == ASSUME TypeOK, Shape, Held, Single, [Next]_vars PROVE Held'
<1>1. \A c \in Channel : channels[c] \in ChannelState BY DEF TypeOK
<1>2. writes \in Seq(Write) BY DEF TypeOK
<1>3. CASE Emit \/ Idles \/ Asks \/ Ends \/ SendsFirst \/ SendsOn \/ SendsAgain \/ GoesOn
             \/ \E c \in Channel, d \in Difficulty : Updates(c, d) \/ Starts(c, d) \/ Continues(c, d)
  <2>1. HeldBy(writes', channels') /\ StatesKept BY <1>3, TaskHeld, TaskStates DEF Held
  <2>2. UNCHANGED destroyed
    BY <1>3 DEF Emit, Idles, Asks, Ends, SendsFirst, SendsOn, SendsAgain, GoesOn, Updates, Starts,
         Continues, Changes, Kept
  <2> QED BY <2>1, <2>2 DEF Held, StatesKept
<1>4. CASE Vanishes
  BY <1>4, EmptySeq DEF Vanishes, Held, HeldBy
<1>5. ASSUME NEW left \in 0..MaxChunk, OpenChannel(left) PROVE Held'
  <2>1. PICK c \in Channel, d \in Difficulty :
           /\ channels' = [channels EXCEPT ![c] = OpenedState(d)]
           /\ destroyed => UNCHANGED writes
           /\ ~destroyed =>
                writes' = Append(writes, Waiting("inbound", "opened", c, None, None, FALSE))
           /\ UNCHANGED destroyed
    BY <1>5, OpenChannelFacts
  <2>2. OpenedState(d).state = "open" BY DEF OpenedState, Absent
  <2>3. channels'[c].state = "open" /\ \A x \in Channel : x # c => channels'[x] = channels[x]
    BY <2>1, <2>2 DEF TypeOK
  <2>4. NeverAbsent BY <2>3 DEF NeverAbsent
  <2>5. HeldBy(writes, channels') BY <2>4, HeldRest DEF Held
  <2>6. HeldBy(writes', channels')
    <3>1. CASE destroyed BY <2>1, <2>5, <3>1
    <3>2. CASE ~destroyed
      <4>1. Waiting("inbound", "opened", c, None, None, FALSE).channel = c BY DEF Waiting
      <4> QED BY <1>2, <2>1, <2>3, <2>5, <3>2, <4>1, NewWrites, HeldAppend
    <3> QED BY <3>1, <3>2
  <2> QED BY <2>1, <2>3, <2>6 DEF Held
<1>6. ASSUME NEW c \in Channel, Closes(c) PROVE Held'
  <2>1. destroyed
    BY <1>6 DEF Closes, Single
  <2>2. channels'[c].state = "gone" /\ \A x \in Channel : x # c => channels'[x] = channels[x]
    BY <1>1, <1>6 DEF Closes, TypeOK, ChannelState
  <2>3. NeverAbsent BY <2>2 DEF NeverAbsent
  <2> QED BY <1>6, <2>1, <2>3, HeldRest DEF Held, Closes
<1>7. ASSUME NEW i \in DOMAIN writes, Overtakes(i) PROVE Held'
  <2>1. HeldBy(writes', channels)
    <3>1. \A k \in DOMAIN writes' : \E j \in DOMAIN writes : writes'[k] = writes[j]
      BY <1>2, <1>7, QueueForward DEF Overtakes
    <3> QED BY <3>1 DEF Held, HeldBy
  <2> QED BY <1>7, <2>1 DEF Overtakes, Untouched, Held
<1>8. CASE CutShort
  BY <1>2, <1>8, HeldTail DEF CutShort, Untouched, Others, Held
<1> QED BY <1>3, <1>4, <1>5, <1>6, <1>7, <1>8, StepKinds DEF StepKind

\* No job joins an open channel, and nothing is forgotten.
LEMMA RecordedKept ==
    ASSUME TypeOK, Recorded, destroyed' = destroyed, nextJobId' = nextJobId,
           submissionHashes \subseteq submissionHashes',
           UNCHANGED <<storing, credited, creditedAgain>>,
           storing # {} => inbound' \in {"block", "storing"},
           \A c \in Open' : \/ c \in Open /\ channels'[c].jobs = channels[c].jobs
                            \/ channels'[c].jobs = {}
    PROVE  Recorded'
<1>1. CASE destroyed BY <1>1 DEF Recorded
<1>2. CASE ~destroyed
  <2>1. ASSUME NEW k \in credited \union storing, k[1] \in Open',
               k[2] \in Ids(channels'[k[1]].jobs)
        PROVE  k \in submissionHashes'
    <3>1. Ids({}) = {} BY DEF Ids
    <3>2. k[1] \in Open /\ k[2] \in Ids(channels[k[1]].jobs) BY <2>1, <3>1
    <3> QED BY <1>2, <3>2 DEF Recorded
  <2> QED BY <1>2, <2>1 DEF Recorded
<1>3. destroyed \in BOOLEAN BY DEF TypeOK
<1> QED BY <1>1, <1>2, <1>3

\* A job is sent: its id is new, and a cleared set goes with all older jobs.
LEMMA RecordedSend ==
    ASSUME TypeOK, Recorded, Single, NEW task \in Task, NEW c \in Open, NEW t \in Template,
           NEW rest, NEW known, SameJobs(known), SendJobs(task, c, t, rest, known),
           Open' = Open, UNCHANGED <<destroyed, storing, credited, creditedAgain, inbound>>
    PROVE  Recorded'
<1> DEFINE newTip == NewTip(c, t, known)
<1>1. c \in Channel BY DEF Open
<1>2. /\ nextJobId' = nextJobId + 1 /\ nextJobId \in Nat
      /\ channels' = [known EXCEPT ![c].jobs =
           JobsWith(SentJob(t), newTip, channels[c].jobs)]
      /\ newTip \in BOOLEAN
  BY <1>1, SendJobsFacts DEF TypeOK
<1>3. submissionHashes' = IF newTip THEN {} ELSE submissionHashes
  BY DEF SendJobs, HashesAfter
<1>4. JobsWith(SentJob(t), newTip, channels[c].jobs)
        \subseteq (IF newTip THEN {} ELSE channels[c].jobs) \union {SentJob(t)}
  BY DEF JobsWith, Newest
<1>5. channels'[c].jobs = JobsWith(SentJob(t), newTip, channels[c].jobs)
  <2> DEFINE js == JobsWith(SentJob(t), newTip, channels[c].jobs)
  <2>1. channels' = [known EXCEPT ![c].jobs = js] BY <1>2
  <2> HIDE DEF js
  <2>2. channels'[c].jobs = js BY <1>1, <2>1 DEF SameJobs, ChannelState
  <2> QED BY <2>2 DEF js
<1> HIDE DEF newTip
<1>6. Ids(channels'[c].jobs)
        \subseteq (IF newTip THEN {} ELSE Ids(channels[c].jobs)) \union {nextJobId}
  BY <1>4, <1>5 DEF Ids, SentJob
<1>7. ASSUME NEW k \in credited \union storing
      PROVE  k[2] < nextJobId /\ k[2] < nextJobId' /\ k[2] # nextJobId
  <2>1. k[2] \in Nat /\ k[2] < nextJobId BY DEF TypeOK, Share, Recorded
  <2> QED BY <1>2, <2>1
<1>8. ASSUME NEW k \in credited \union storing, k[1] \in Open',
             k[2] \in Ids(channels'[k[1]].jobs), ~destroyed
      PROVE  k \in submissionHashes'
  <2>1. k[1] = c BY <1>8 DEF Single
  <2>2. ~newTip /\ k[2] \in Ids(channels[c].jobs) BY <1>2, <1>6, <1>7, <1>8, <2>1
  <2> QED BY <1>3, <1>8, <2>1, <2>2 DEF Recorded
<1> QED BY <1>7, <1>8 DEF Recorded

\* The session has ended: what it still stores is credited for the first time.
LEMMA RecordedEnded ==
    ASSUME TypeOK, Recorded, destroyed' = TRUE, nextJobId' = nextJobId,
           UNCHANGED <<credited, creditedAgain>>,
           storing' \in {storing, {}}, inbound' = inbound \/ inbound = "writing" \/ storing' = {}
    PROVE  Recorded'
BY DEF Recorded

LEMMA RecordedTask ==
    ASSUME TypeOK, Shape, OneInbound, Held, Recorded, Single, WriteDone
    PROVE  Recorded'
<1>1. /\ writes # <<>> /\ Kept
      /\ UNCHANGED <<destroyed, storing, credited, creditedAgain>>
  BY WriteDoneKeeps DEF WriteDone, Kept, boundVars
<1>2. StatesKept /\ Open' = Open BY WriteDoneStates, OpenKept
<1>3. ~destroyed /\ Shaped(w, latest, nextJobId) /\ w \in Write BY <1>1, HeadTypes
<1>4. SameJobs(channels) /\ {"broadcast", "inbound", "pass"} \subseteq Task
  BY DEF TypeOK, SameJobs, Task
<1>5. \A c \in Channel : channels[c] \in ChannelState BY DEF TypeOK
<1>6. w.task = "inbound" => storing = {}
  BY <1>1, ChainOthers DEF Recorded
<1>7. w.channel \in Channel => w.channel \in Open
  <2>1. w = writes[1] /\ 1 \in DOMAIN writes BY <1>1, HeadTypes
  <2>2. w.channel \in Channel => w.channel # 0 BY Bounds DEF Channel
  <2> QED BY <1>3, <1>5, <2>1, <2>2 DEF Held, HeldBy, ChannelState, Open
<1>8. ASSUME UNCHANGED <<nextJobId, submissionHashes>>,
             \A c \in Channel : channels'[c].jobs = channels[c].jobs,
             storing # {} => inbound' = inbound
      PROVE  Recorded'
  BY <1>1, <1>2, <1>8, RecordedKept DEF Recorded, Open
<1>9. CASE End BY <1>6, <1>8, <1>9 DEF End
<1>10. CASE Opened
  <2>1. w.task = "inbound" /\ w.channel \in Channel BY <1>3, <1>10 DEF Opened, Shaped
  <2>2. SameJobs(MadeReady) BY <2>1, MadeReadySame
  <2>3. CASE latest # None
    <3>1. SendJobs("inbound", w.channel, latest, Others, MadeReady) /\ latest \in Template
          /\ UNCHANGED inbound
      BY <1>10, <2>3 DEF Opened, MadeReady, TypeOK
    <3>2. "inbound" \in Task /\ w.channel \in Open BY <1>7, <2>1 DEF Task
    <3> QED BY <1>1, <1>2, <2>2, <3>1, <3>2, RecordedSend
  <2>4. CASE latest = None
    <3>1. channels' = MadeReady /\ UNCHANGED <<nextJobId, submissionHashes>>
      BY <1>10, <2>4 DEF Opened, MadeReady
    <3> QED BY <1>6, <1>8, <2>1, <2>2, <3>1 DEF SameJobs
  <2> QED BY <2>3, <2>4
<1>11. CASE JobWritten BY <1>8, <1>11 DEF JobWritten
<1>12. CASE PrevHashWritten
  <2>1. \A c \in Channel : channels'[c].jobs = channels[c].jobs
    BY <1>5, <1>12 DEF PrevHashWritten, TypeOK, ChannelState
  <2> QED BY <1>8, <1>12, <2>1 DEF PrevHashWritten
<1>13. CASE BroadcastOn /\ After(w.channel) # {}
  <2>1. SendsOn BY <1>1, <1>13 DEF SendsOn
  <2> QED BY <1>1, <1>2, <1>4, <2>1, SendsOnFacts, AfterChannel, RecordedSend
<1>14. CASE Retargeted
  <2>1. SendsAgain BY <1>1, <1>14 DEF SendsAgain
  <2> QED BY <1>1, <1>2, <1>4, <1>7, <2>1, SendsAgainFacts, RecordedSend
<1>15. ASSUME NEW c \in Channel, NEW d, Retarget(c, d, Others),
              UNCHANGED <<nextJobId, submissionHashes, inbound>>
       PROVE  Recorded'
  <2>1. channels' = [channels EXCEPT ![c].difficulty = d] BY <1>15 DEF Retarget
  <2>2. \A x \in Channel : channels'[x].jobs = channels[x].jobs
    BY <1>5, <2>1 DEF TypeOK, ChannelState
  <2> QED BY <1>8, <1>15, <2>2
<1> QED BY <1>9, <1>10, <1>11, <1>12, <1>13, <1>14, <1>15, AfterChannel
        DEF WriteDone, Act2Written, Answered, BroadcastOn, OpenDone, PassOn

LEMMA RecordedStep ==
    ASSUME TypeOK, Shape, OneInbound, Held, Recorded, Single, BelowCap, [Next]_vars
    PROVE  Recorded'
<1>1. \A c \in Channel : channels[c] \in ChannelState BY DEF TypeOK
<1>2. ASSUME UNCHANGED <<destroyed, nextJobId, submissionHashes, storing, credited, creditedAgain>>,
             \A c \in Open' : \/ c \in Open /\ channels'[c].jobs = channels[c].jobs
                              \/ channels'[c].jobs = {},
             storing # {} => inbound' \in {"block", "storing"}
      PROVE  Recorded'
  BY <1>2, RecordedKept
<1>3. ASSUME UNCHANGED <<destroyed, nextJobId, submissionHashes, storing, credited, creditedAgain,
                         channels>>,
             storing # {} => inbound' \in {"block", "storing"}
      PROVE  Recorded'
  BY <1>2, <1>3 DEF Open
<1>4. inbound = Idle => storing = {} BY DEF Recorded, Idle
<1>5. CASE Emit
  <2>1. PICK t \in Template :
           /\ Ready # {} => /\ Least(Ready) \in Ready
                            /\ SendJobs("broadcast", Least(Ready), t, writes, channels)
           /\ UNCHANGED <<destroyed, inbound>>
    BY <1>5, EmitFacts
  <2>2. SameJobs(channels) /\ "broadcast" \in Task /\ Open' = Open
    BY <1>5, EmitStates, OpenKept DEF TypeOK, SameJobs, Task
  <2>3. UNCHANGED <<storing, credited, creditedAgain>> BY <1>5 DEF Emit
  <2>4. CASE Ready # {} BY <2>1, <2>2, <2>3, <2>4, AfterChannel, RecordedSend
  <2>5. CASE Ready = {}
    <3>1. UNCHANGED <<channels, nextJobId, submissionHashes>> BY <1>5, <2>5 DEF Emit
    <3> QED BY <1>3, <2>1, <2>3, <3>1 DEF Recorded
  <2> QED BY <2>4, <2>5
<1>6. ASSUME NEW left \in 0..MaxChunk,
             Handshake(left) \/ AnswerOnly(left) \/ AnswerAndClose(left)
      PROVE  Recorded'
  BY <1>3, <1>4, <1>6 DEF Handshake, AnswerOnly, AnswerAndClose, Frame, NextFrame, shareVars
<1>7. ASSUME NEW left \in 0..MaxChunk, OpenChannel(left) PROVE Recorded'
  <2>1. PICK c \in Channel, d \in Difficulty :
           /\ channels' = [channels EXCEPT ![c] = OpenedState(d)]
           /\ UNCHANGED <<destroyed, nextJobId>>
    BY <1>7, OpenChannelFacts
  <2>2. OpenedState(d).jobs = {} BY DEF OpenedState, Absent
  <2>3. \A x \in Open' : \/ x \in Open /\ channels'[x].jobs = channels[x].jobs
                         \/ channels'[x].jobs = {}
    BY <2>1, <2>2 DEF Open, TypeOK
  <2>4. inbound = Idle /\ UNCHANGED <<submissionHashes, storing, credited, creditedAgain>>
    BY <1>7 DEF OpenChannel, Frame, NextFrame, shareVars
  <2> QED BY <1>2, <1>4, <2>1, <2>3, <2>4
<1>8. ASSUME NEW left \in 0..MaxChunk, Destroy(left),
             UNCHANGED <<nextJobId, credited, creditedAgain>>
      PROVE  Recorded'
  BY <1>8, RecordedEnded DEF Destroy
<1>9. ASSUME NEW left \in 0..MaxChunk, NEW c \in Channel, CloseChannel(c, left)
      PROVE  Recorded'
  <2>1. CASE Open = {c} /\ ~destroyed
    BY <1>8, <1>9, <2>1 DEF CloseChannel
  <2>2. CASE ~(Open = {c} /\ ~destroyed)
    <3>1. /\ channels' = [channels EXCEPT ![c].state = "gone"]
          /\ UNCHANGED <<destroyed, nextJobId, submissionHashes, storing, credited,
                         creditedAgain, inbound>>
      BY <1>9, <2>2 DEF CloseChannel
    <3>2. \A x \in Open' : x \in Open /\ channels'[x].jobs = channels[x].jobs
      BY <1>1, <3>1 DEF Open, TypeOK, ChannelState
    <3> QED BY <1>2, <3>1, <3>2 DEF Recorded
  <2> QED BY <2>1, <2>2
<1>10. ASSUME NEW c \in Channel, NEW d, channels' = [channels EXCEPT ![c].difficulty = d]
       PROVE  \A x \in Open' : x \in Open /\ channels'[x].jobs = channels[x].jobs
  BY <1>1, <1>10 DEF Open, TypeOK, ChannelState
<1>11. ASSUME NEW left \in 0..MaxChunk, NEW c \in Channel, UpdateChannel(c, left)
       PROVE  Recorded'
  <2>1. inbound = Idle
        /\ UNCHANGED <<destroyed, nextJobId, submissionHashes, storing, credited, creditedAgain>>
    BY <1>11 DEF UpdateChannel, Frame, NextFrame, shareVars
  <2> QED BY <1>2, <1>4, <1>10, <1>11, <2>1 DEF UpdateChannel
<1>12. CASE StartPass
  <2>1. UNCHANGED <<destroyed, nextJobId, submissionHashes, storing, credited, creditedAgain,
                    inbound>>
    BY <1>12 DEF StartPass, shareVars
  <2>2. \A x \in Open' : x \in Open /\ channels'[x].jobs = channels[x].jobs
    BY <1>10, <1>12, AfterChannel DEF StartPass, Retarget
  <2> QED BY <1>2, <2>1, <2>2 DEF Recorded
<1>13. ASSUME NEW left \in 0..MaxChunk, NEW c \in Open, NEW id \in Ids(channels[c].jobs),
              NEW n \in Nonce, TakeShare(c, id, n, left) \/ RejectShare(c, id, n, left)
       PROVE  Recorded'
  <2> DEFINE k == <<c, id, n>>
  <2>1. submissionHashes' = submissionHashes \union {k} /\ k \notin submissionHashes
    <3>1. submissionHashes' = Remembered(k) /\ k \notin submissionHashes
      BY <1>13 DEF TakeShare, RejectShare, IsNew
    <3>2. ~(Cardinality(submissionHashes) >= MaxSubmissions)
      BY DEF BelowCap
    <3> QED BY <3>1, <3>2 DEF Remembered
  <2>2. storing = {} /\ UNCHANGED <<destroyed, nextJobId, channels, credited, creditedAgain>>
    BY <1>4, <1>13 DEF TakeShare, RejectShare, Frame, NextFrame
  <2>3. CASE RejectShare(c, id, n, left)
    <3>1. UNCHANGED storing BY <2>3 DEF RejectShare
    <3>2. submissionHashes \subseteq submissionHashes' BY <2>1
    <3>3. \A x \in Open' : x \in Open /\ channels'[x].jobs = channels[x].jobs
      BY <2>2 DEF Open
    <3> QED BY <2>2, <3>1, <3>2, <3>3, RecordedKept
  <2>4. CASE TakeShare(c, id, n, left)
    <3>1. ~destroyed /\ storing' = {k} /\ inbound' \in {"block", "storing"}
      BY <2>4 DEF TakeShare
    <3>2. k \notin credited
      <4>1. k \in credited => k \in submissionHashes BY <1>13, <3>1 DEF Recorded
      <4> QED BY <2>1, <4>1
    <3>3. id < nextJobId
      <4>1. c \in Channel BY DEF Open
      <4>2. id \in 1..(nextJobId - 1) BY <1>13, <4>1 DEF TypeOK
      <4> QED BY <4>2 DEF TypeOK
    <3>4. \A x \in credited' \union storing' : x[2] < nextJobId'
      BY <2>2, <3>1, <3>3 DEF Recorded
    <3>5. \A x \in credited' \union storing' :
            x[1] \in Open' /\ x[2] \in Ids(channels'[x[1]].jobs) => x \in submissionHashes'
      <4> HIDE DEF k
      <4> QED BY <2>1, <2>2, <3>1 DEF Recorded, Open
    <3> HIDE DEF k
    <3> QED BY <2>2, <3>1, <3>2, <3>4, <3>5 DEF Recorded
  <2> QED BY <1>13, <2>3, <2>4
<1>14. CASE BlockSaved BY <1>3, <1>14 DEF BlockSaved, shareVars
<1>15. CASE BlockNotSaved BY <1>15, RecordedEnded DEF BlockNotSaved
<1>16. CASE CreditShare
  <2>1. /\ storing' = {} /\ credited' = credited \union storing
        /\ creditedAgain' = creditedAgain \union (storing \intersect credited)
        /\ UNCHANGED <<destroyed, nextJobId, channels, submissionHashes>>
    BY <1>16 DEF CreditShare, AddShares
  <2> QED BY <2>1 DEF Recorded, Open
<1>17. CASE WriteDone BY <1>17, RecordedTask
<1>18. CASE CloseWritten \/ Disconnect
  BY <1>8, <1>18 DEF CloseWritten, Disconnect, TypeOK
<1>19. CASE UNCHANGED vars BY <1>3, <1>19 DEF vars, shareVars, taskVars, Recorded
<1>20. CASE PassFails BY <1>3, <1>20 DEF PassFails, shareVars, Recorded
<1>21. ASSUME NEW i \in DOMAIN writes, Overtake(i) PROVE Recorded'
  BY <1>3, <1>21 DEF Overtake, shareVars, Recorded
<1> QED BY <1>5, <1>6, <1>7, <1>9, <1>11, <1>12, <1>13, <1>14, <1>15, <1>16, <1>17, <1>18, <1>19,
           <1>20, <1>21, Actions

LEMMA Inbound == Spec => []OneInbound
<1>1. Init => OneInbound BY DEF Init, OneInbound, Chain
<1>2. OneInbound /\ (TypeOK /\ Shape /\ JobSets) /\ [Next]_vars => OneInbound'
  BY OneInboundStep
<1> QED BY <1>1, <1>2, Base, PTL DEF Spec

(* No share is credited twice while one channel is open at a time and the  *)
(* duplicate set is below its cap ("must not forget shares",               *)
(* StratumV1Client.ts:498): the set loses a share only with its job,       *)
(* however jobs are cleared while the credit is being stored.              *)
THEOREM Credited == Spec /\ [](Single /\ BelowCap) => []CreditedOnce
<1>1. Init => Held /\ Recorded
  BY DEF Init, Held, HeldBy, Recorded, Absent
<1>2. (Held /\ Recorded) /\ (Single /\ BelowCap) /\ (TypeOK /\ Shape /\ JobSets) /\ OneInbound
        /\ [Next]_vars => (Held /\ Recorded)'
  BY HeldStep, RecordedStep
<1>3. Recorded => CreditedOnce
  BY DEF Recorded, CreditedOnce
<1> QED BY <1>1, <1>2, <1>3, Base, Inbound, PTL DEF Spec

-----------------------------------------------------------------------------
(* The entries of the queue, and the last of them that moves a tip.        *)

LEMMA EntriesAppend ==
    ASSUME NEW q \in Seq(Write), NEW e \in Write
    PROVE  Entries(Append(q, e)) = Entries(q) \union {e} /\ Entries(q) \subseteq Write
<1>1. \A f \in Entries(Append(q, e)) : f \in Entries(q) \union {e}
  <2>1. \A i \in DOMAIN Append(q, e) : i \in DOMAIN q \/ i = Len(q) + 1 BY QueueAppend
  <2> QED BY <2>1, QueueAppend DEF Entries
<1>2. \A f \in Entries(q) : f \in Entries(Append(q, e)) BY QueueAppend DEF Entries
<1>3. e \in Entries(Append(q, e)) BY QueueAppend DEF Entries
<1>4. Entries(q) \subseteq Write BY QueueAppend DEF Entries
<1> QED BY <1>1, <1>2, <1>3, <1>4

LEMMA EntriesTail ==
    ASSUME NEW q \in Seq(Write), q # <<>>
    PROVE  Entries(q) = Entries(Tail(q)) \union {q[1]} /\ Entries(Tail(q)) \subseteq Entries(q)
<1>1. \A f \in Entries(q) : f \in Entries(Tail(q)) \/ f = q[1]
  <2>1. \A i \in DOMAIN q : i = 1 \/ (i - 1 \in DOMAIN Tail(q) /\ Tail(q)[i - 1] = q[i])
    BY QueueTail
  <2> QED BY <2>1 DEF Entries
<1>2. \A i \in DOMAIN Tail(q) : i + 1 \in DOMAIN q /\ Tail(q)[i] = q[i + 1] BY QueueTail
<1>3. Entries(Tail(q)) \subseteq Entries(q) BY <1>2 DEF Entries
<1>4. q[1] \in Entries(q) BY QueueTail DEF Entries
<1> QED BY <1>1, <1>3, <1>4

LEMMA EntriesEmpty == Entries(<<>>) = {}
BY EmptySeq DEF Entries

LEMMA EntriesOthers ==
    ASSUME TypeOK, writes # <<>>
    PROVE  /\ Others \in Seq(Write)
           /\ Entries(writes) = Entries(Others) \union {w}
           /\ Entries(Others) \subseteq Entries(writes)
           /\ Entries(writes) \subseteq Write
<1>1. writes \in Seq(Write) BY DEF TypeOK
<1>2. w = writes[1] /\ Others \in Seq(Write) BY <1>1, QueueTail DEF w, Others
<1>3. Entries(writes) \subseteq Write BY <1>1, QueueTail DEF Entries
<1> QED BY <1>1, <1>2, <1>3, EntriesTail DEF Others

\* An entry that does not move the tip changes nothing at the end.
LEMMA StillLast ==
    ASSUME NEW q \in Seq(Write), NEW e \in Write, NEW at, NEW c, ~Moves(e, at, c)
    PROVE  /\ NoMove(Append(q, e), at, c) <=> NoMove(q, at, c)
           /\ \A f : LastMove(Append(q, e), at, c, f) => LastMove(q, at, c, f)
<1>1. NoMove(Append(q, e), at, c) <=> NoMove(q, at, c) BY EntriesAppend DEF NoMove
<1>2. ASSUME NEW f, LastMove(Append(q, e), at, c, f) PROVE LastMove(q, at, c, f)
  <2>1. PICK i \in DOMAIN Append(q, e) :
           /\ Append(q, e)[i] = f /\ Moves(f, at, c)
           /\ \A k \in DOMAIN Append(q, e) : k > i => ~Moves(Append(q, e)[k], at, c)
    BY <1>2 DEF LastMove
  <2>2. i # Len(q) + 1 BY <2>1, QueueAppend
  <2>3. i \in DOMAIN q /\ q[i] = f BY <2>1, <2>2, QueueAppend
  <2>4. \A k \in DOMAIN q : k > i => ~Moves(q[k], at, c) BY <2>1, QueueAppend
  <2> QED BY <2>1, <2>3, <2>4 DEF LastMove
<1> QED BY <1>1, <1>2

\* One that does is the last.
LEMMA NowLast ==
    ASSUME NEW q \in Seq(Write), NEW e \in Write, NEW at, NEW c, Moves(e, at, c)
    PROVE  /\ ~NoMove(Append(q, e), at, c)
           /\ \A f : LastMove(Append(q, e), at, c, f) => f = e
<1>1. ~NoMove(Append(q, e), at, c) BY EntriesAppend DEF NoMove
<1>2. ASSUME NEW f, LastMove(Append(q, e), at, c, f) PROVE f = e
  <2>1. PICK i \in DOMAIN Append(q, e) :
           /\ Append(q, e)[i] = f
           /\ \A k \in DOMAIN Append(q, e) : k > i => ~Moves(Append(q, e)[k], at, c)
    BY <1>2 DEF LastMove
  <2>2. ~(Len(q) + 1 > i) BY <2>1, QueueAppend
  <2>3. i = Len(q) + 1 BY <2>1, <2>2, QueueAppend
  <2> QED BY <2>1, <2>3, QueueAppend
<1> QED BY <1>1, <1>2

LEMMA LastBehindHead ==
    ASSUME NEW q \in Seq(Write), q # <<>>, NEW at, NEW c
    PROVE  /\ NoMove(q, at, c) => NoMove(Tail(q), at, c)
           /\ NoMove(Tail(q), at, c) /\ ~Moves(q[1], at, c) => NoMove(q, at, c)
           /\ NoMove(Tail(q), at, c) /\ Moves(q[1], at, c) => LastMove(q, at, c, q[1])
           /\ \A f : LastMove(Tail(q), at, c, f) => LastMove(q, at, c, f)
<1>1. NoMove(q, at, c) => NoMove(Tail(q), at, c) BY EntriesTail DEF NoMove
<1>2. NoMove(Tail(q), at, c) /\ ~Moves(q[1], at, c) => NoMove(q, at, c)
  BY EntriesTail DEF NoMove
<1>3. \A i \in DOMAIN q : i > 1 => i - 1 \in DOMAIN Tail(q) /\ Tail(q)[i - 1] = q[i]
  BY QueueTail
<1>4. ASSUME NoMove(Tail(q), at, c), Moves(q[1], at, c) PROVE LastMove(q, at, c, q[1])
  <2>1. \A k \in DOMAIN q : k > 1 => ~Moves(q[k], at, c) BY <1>3, <1>4 DEF NoMove, Entries
  <2>2. 1 \in DOMAIN q BY QueueTail
  <2> QED BY <1>4, <2>1, <2>2 DEF LastMove
<1>5. ASSUME NEW f, LastMove(Tail(q), at, c, f) PROVE LastMove(q, at, c, f)
  <2>1. PICK i \in DOMAIN Tail(q) :
           /\ Tail(q)[i] = f /\ Moves(f, at, c)
           /\ \A k \in DOMAIN Tail(q) : k > i => ~Moves(Tail(q)[k], at, c)
    BY <1>5 DEF LastMove
  <2>2. i + 1 \in DOMAIN q /\ q[i + 1] = f BY <2>1, QueueTail
  <2>3. ASSUME NEW k \in DOMAIN q, k > i + 1 PROVE ~Moves(q[k], at, c)
    <3>1. k - 1 \in DOMAIN Tail(q) /\ k - 1 > i /\ Tail(q)[k - 1] = q[k]
      BY <1>3, <2>3, QueueTail
    <3> QED BY <2>1, <3>1
  <2> QED BY <2>1, <2>2, <2>3 DEF LastMove
<1> QED BY <1>1, <1>2, <1>4, <1>5

\* Moving an entry forward leaves the set of them alone, and the order of those
\* of a channel if it passes none of its own channel.
LEMMA ForwardEntries ==
    ASSUME NEW q \in Seq(Write), NEW i \in DOMAIN q
    PROVE  Entries(Forward(q, i)) = Entries(q)
<1>1. \A e \in Entries(Forward(q, i)) : e \in Entries(q) BY QueueForward DEF Entries
<1>2. \A e \in Entries(q) : e \in Entries(Forward(q, i)) BY QueueForward DEF Entries
<1> QED BY <1>1, <1>2

LEMMA ForwardMoves ==
    ASSUME NEW q \in Seq(Write), NEW i \in DOMAIN q, NEW at, NEW c,
           \A k \in DOMAIN q : k < i /\ q[k].channel = q[i].channel => q[k].channel # c
    PROVE  /\ NoMove(Forward(q, i), at, c) <=> NoMove(q, at, c)
           /\ \A f : LastMove(Forward(q, i), at, c, f) => LastMove(q, at, c, f)
<1>1. NoMove(Forward(q, i), at, c) <=> NoMove(q, at, c) BY ForwardEntries DEF NoMove
<1>2. ASSUME NEW f, LastMove(Forward(q, i), at, c, f) PROVE LastMove(q, at, c, f)
  <2>1. DOMAIN Forward(q, i) = DOMAIN q BY QueueForward
  <2>2. PICK k \in DOMAIN q :
           /\ Forward(q, i)[k] = f /\ Moves(f, at, c)
           /\ \A j \in DOMAIN q : j > k => ~Moves(Forward(q, i)[j], at, c)
    BY <1>2, <2>1 DEF LastMove
  <2>3. PICK s \in DOMAIN q : s = Source(i, k) BY QueueForward
  <2>4. q[s] = f /\ Place(i, s) = k BY <2>2, <2>3, QueueForward
  <2>6. /\ \A m \in DOMAIN q : Place(i, m) \in DOMAIN q /\ Forward(q, i)[Place(i, m)] = q[m]
        /\ \A m, r \in DOMAIN q : m < r /\ r # i => Place(i, m) < Place(i, r)
    BY QueueForward
  <2>5. ASSUME NEW j \in DOMAIN q, j > s PROVE ~Moves(q[j], at, c)
    <3> PICK n \in Nat : n = Len(q) BY QueueForward
    <3>0. DOMAIN q = 1..n BY QueueForward
    <3>1. i \in Nat /\ j \in Nat /\ s \in Nat /\ k \in Nat BY <3>0
    <3>2. CASE j # i
      <4>1. Place(i, s) < Place(i, j) BY <2>5, <2>6, <3>2
      <4>2. Place(i, j) \in DOMAIN q /\ Forward(q, i)[Place(i, j)] = q[j] BY <2>6
      <4>3. Place(i, j) \in Nat BY <3>0, <4>2
      <4>4. Place(i, j) > k BY <2>4, <3>1, <4>1, <4>3
      <4> QED BY <2>2, <4>2, <4>4
    <3>3. CASE j = i
      <4>1. s < i BY <2>5, <3>1, <3>3
      <4> QED BY <2>2, <2>4, <3>3, <4>1 DEF Moves
    <3> QED BY <3>2, <3>3
  <2> QED BY <2>2, <2>4, <2>5 DEF LastMove
<1> QED BY <1>1, <1>2

LEMMA NoneLast == ASSUME NEW q, NEW at, NEW c, NoMove(q, at, c) PROVE \A f : ~LastMove(q, at, c, f)
BY DEF NoMove, LastMove, Entries

-----------------------------------------------------------------------------
(* The steps by what they do to the tips of the channels.                  *)

TipsKept ==
    \A x \in Channel :
        /\ channels'[x].state = channels[x].state
        /\ channels'[x].ready = channels[x].ready
        /\ channels'[x].activeTip = channels[x].activeTip
        /\ miner'[x].tip = miner[x].tip
        /\ miner'[x].job = miner[x].job

\* The queue that a step leaves in front of what it appends.
Rest(rest) ==
    \/ rest = writes
    \/ /\ writes # <<>> /\ rest = Others
       /\ w.at \in {"act2", "answered", "target", "retarget"}
       /\ w.at = "target" /\ Broadcast(w) => After(w.channel) = {}

\* An entry that sends no job.
Dull(e) ==
    /\ e \in Write /\ ~Sending(e) /\ ~Broadcast(e) /\ e.at # "opened"
    /\ e.at = "retarget" => e.channel \in Ready

\* Nothing that concerns the tips happens; a task may end, another may write.
Calm ==
    /\ Kept /\ TipsKept
    /\ \E rest \in Seq(Write) :
         /\ Rest(rest)
         /\ writes' = rest \/ \E e : Dull(e) /\ writes' = Append(rest, e)

CalmKinds ==
    \/ Idles \/ Asks \/ Ends
    \/ \E c \in Channel, d \in Difficulty : Updates(c, d) \/ Starts(c, d) \/ Continues(c, d)
    \/ CutShort /\ ~Sending(w)

\* The pass is cut short while it sends a job.
Tears == CutShort /\ Sending(w)

LEMMA UntouchedTips == ASSUME UNCHANGED <<channels, miner>> PROVE TipsKept
BY DEF TipsKept

LEMMA HearTargetTips ==
    ASSUME TypeOK, NEW c, NEW d, miner' = HearTarget(c, d)
    PROVE  \A x \in Channel : /\ miner'[x].tip = miner[x].tip /\ miner'[x].job = miner[x].job
                              /\ miner'[x].target = IF x = c THEN d ELSE miner[x].target
<1>1. \A x \in Channel : miner[x] \in MinerState BY DEF TypeOK
<1>2. miner' = [miner EXCEPT ![c].target = d] BY DEF HearTarget
<1> QED BY <1>1, <1>2 DEF TypeOK, MinerState

LEMMA DifficultyTips ==
    ASSUME TypeOK, NEW c \in Channel, NEW d, channels' = [channels EXCEPT ![c].difficulty = d]
    PROVE  \A x \in Channel :
             /\ channels'[x].state = channels[x].state
             /\ channels'[x].ready = channels[x].ready
             /\ channels'[x].activeTip = channels[x].activeTip
             /\ channels'[x].jobs = channels[x].jobs
             /\ channels'[x].difficulty = IF x = c THEN d ELSE channels[x].difficulty
<1>1. \A x \in Channel : channels[x] \in ChannelState BY DEF TypeOK
<1> QED BY <1>1 DEF TypeOK, ChannelState

LEMMA CalmFacts == ASSUME TypeOK, Shape, CalmKinds PROVE Calm
<1>1. writes \in Seq(Write) /\ Rest(writes) BY DEF TypeOK, Rest
<1>2. CASE Idles
  BY <1>1, <1>2, UntouchedTips DEF Idles, Untouched, Calm
<1>3. CASE Asks
  <2>1. PICK at \in {"act2", "answered", "refused"} :
           writes' = Append(writes, Waiting("inbound", at, 0, None, None, FALSE))
    BY <1>3 DEF Asks
  <2>2. Dull(Waiting("inbound", at, 0, None, None, FALSE))
    BY NewWrites DEF Dull, Waiting, Sending, Broadcast
  <2>3. TipsKept /\ Kept BY <1>3, UntouchedTips DEF Asks, Untouched
  <2> QED BY <1>1, <2>1, <2>2, <2>3 DEF Calm
<1>4. CASE Ends
  <2>1. Rest(Others) /\ Others \in Seq(Write)
    BY <1>4, HeadTypes DEF Ends, Rest
  <2>2. TipsKept /\ Kept /\ writes' = Others
    BY <1>4, UntouchedTips DEF Ends, End
  <2> QED BY <2>1, <2>2 DEF Calm
<1>5. ASSUME NEW c \in Channel, NEW d \in Difficulty, NEW rest \in Seq(Write), Rest(rest),
             NEW e, Dull(e), Changes(c, d, rest, e)
      PROVE  Calm
  <2>1. TipsKept
    BY <1>5, HearTargetTips, DifficultyTips DEF Changes, TipsKept
  <2> QED BY <1>5, <2>1 DEF Changes, Calm
<1>6. ASSUME NEW c \in Channel, NEW d \in Difficulty, Updates(c, d) PROVE Calm
  <2>1. Dull(Answer) BY NewWrites DEF Dull, Waiting, Sending, Broadcast
  <2> QED BY <1>1, <1>5, <1>6, <2>1 DEF Updates
<1>7. ASSUME NEW c \in Channel, NEW d \in Difficulty, Starts(c, d) \/ Continues(c, d) PROVE Calm
  <2>1. c \in Ready BY <1>7 DEF Starts, Continues
  <2>2. Dull(RetargetWrite(c))
    BY <2>1, NewWrites DEF Dull, RetargetWrite, Waiting, Sending, Broadcast
  <2>3. CASE Starts(c, d) BY <1>1, <1>5, <2>2, <2>3 DEF Starts
  <2>4. CASE Continues(c, d)
    <3>1. Rest(Others) /\ Others \in Seq(Write)
      BY <2>4, HeadTypes DEF Continues, Rest, Broadcast
    <3> QED BY <1>5, <2>2, <2>4, <3>1 DEF Continues
  <2> QED BY <1>7, <2>3, <2>4
<1>8. CASE CutShort /\ ~Sending(w)
  <2>1. writes # <<>> /\ w.task = "pass" /\ writes' = Others BY <1>8 DEF CutShort
  <2>2. w \in Write /\ Shaped(w, latest, nextJobId) /\ Others \in Seq(Write) BY <2>1, HeadTypes
  <2>3. w.at = "retarget" BY <1>8, <2>1, <2>2 DEF Shaped, Sending, Write, Stage
  <2>4. Rest(Others) BY <2>1, <2>3 DEF Rest
  <2>5. TipsKept BY <1>8, UntouchedTips DEF CutShort, Untouched
  <2>6. Kept BY <1>8, <2>3 DEF CutShort, Kept
  <2> QED BY <2>1, <2>2, <2>4, <2>5, <2>6 DEF Calm
<1> QED BY <1>2, <1>3, <1>4, <1>6, <1>7, <1>8 DEF CalmKinds

\* What a step that sends a job appends to the queue.
LEMMA SentFields ==
    ASSUME NEW task, NEW c, NEW t, NEW known
    PROVE  /\ SentWrite(task, c, t, known).task = task
           /\ SentWrite(task, c, t, known).at = "newJob"
           /\ SentWrite(task, c, t, known).channel = c
           /\ SentWrite(task, c, t, known).template = t
           /\ SentWrite(task, c, t, known).job = SentJob(t)
           /\ SentWrite(task, c, t, known).newTip = NewTip(c, t, known)
BY DEF SentWrite, Waiting

\* The channel that opened is ready; with a template, its first job is sent.
LEMMA SendsFirstFacts ==
    ASSUME TypeOK, Shape, SendsFirst
    PROVE  /\ writes # <<>> /\ w.at = "opened" /\ w.task = "inbound" /\ w.channel \in Channel
           /\ SameJobs(MadeReady)
           /\ \A x \in Channel :
                /\ MadeReady[x].state = channels[x].state
                /\ MadeReady[x].ready = (IF x = w.channel THEN TRUE ELSE channels[x].ready)
                /\ MadeReady[x].activeTip = channels[x].activeTip
                /\ MadeReady[x].difficulty = channels[x].difficulty
           /\ latest # None => /\ latest \in Template /\ UNCHANGED inbound
                               /\ SendJobs("inbound", w.channel, latest, Others, MadeReady)
           /\ latest = None => /\ channels' = MadeReady /\ writes' = Others
                               /\ UNCHANGED <<nextJobId, miner>>
           /\ Kept
<1>1. writes # <<>> /\ w.at = "opened" /\ Kept BY DEF SendsFirst, Opened
<1>2. w.task = "inbound" /\ w.channel \in Channel BY <1>1, HeadTypes DEF Shaped
<1>3. \A x \in Channel : channels[x] \in ChannelState BY DEF TypeOK
<1>4. \A x \in Channel :
        /\ MadeReady[x].state = channels[x].state
        /\ MadeReady[x].ready = (IF x = w.channel THEN TRUE ELSE channels[x].ready)
        /\ MadeReady[x].activeTip = channels[x].activeTip
        /\ MadeReady[x].difficulty = channels[x].difficulty
  BY <1>3 DEF MadeReady, TypeOK, ChannelState
<1>5. latest # None => /\ latest \in Template /\ UNCHANGED inbound
                       /\ SendJobs("inbound", w.channel, latest, Others, MadeReady)
  BY DEF SendsFirst, Opened, MadeReady, TypeOK
<1>6. latest = None => /\ channels' = MadeReady /\ writes' = Others
                       /\ UNCHANGED <<nextJobId, miner>>
  BY DEF SendsFirst, Opened, MadeReady
<1> QED BY <1>1, <1>2, <1>4, <1>5, <1>6, MadeReadySame

(* A task that is sending a job goes on: to SetNewPrevHash with a job for  *)
(* a new tip, to SetTarget with another, and from the one to the other.    *)
Onward(at) == [w EXCEPT !.at = at]

LEMMA GoesOnFacts ==
    ASSUME TypeOK, Shape, GoesOn
    PROVE  /\ writes # <<>> /\ w.channel \in Channel /\ w.job \in Job /\ w.template \in Template
           /\ w.job.tip = w.template.tip /\ Sending(w) /\ Kept
           /\ UNCHANGED <<nextJobId, inbound>>
           /\ \E at \in {"prevHash", "target"} :
                /\ Onward(at) \in Write /\ writes' = Append(Others, Onward(at))
                /\ Onward(at).at = at /\ Onward(at).task = w.task /\ Onward(at).channel = w.channel
                /\ Onward(at).template = w.template /\ Onward(at).job = w.job
                /\ Onward(at).newTip = w.newTip
                /\ at = "prevHash" => JobWritten /\ w.at = "newJob" /\ w.newTip
                /\ at = "target" => \/ JobWritten /\ w.at = "newJob" /\ ~w.newTip
                                    \/ PrevHashWritten /\ w.at = "prevHash" /\ w.newTip
<1>1. writes # <<>> /\ w.at \in {"newJob", "prevHash"} /\ Kept
      /\ UNCHANGED <<nextJobId, inbound>>
  BY DEF GoesOn, JobWritten, PrevHashWritten
<1>2. Shaped(w, latest, nextJobId) /\ w \in Write BY <1>1, HeadTypes
<1>3. /\ w.channel \in Channel /\ w.job \in Job /\ w.template \in Template
      /\ w.job.tip = w.template.tip /\ Sending(w) /\ (w.at = "prevHash" => w.newTip)
  BY <1>1, <1>2 DEF Shaped, Sending
<1>4. \A at \in {"prevHash", "target"} :
         /\ Onward(at) \in Write
         /\ Onward(at).at = at /\ Onward(at).task = w.task /\ Onward(at).channel = w.channel
         /\ Onward(at).template = w.template /\ Onward(at).job = w.job
         /\ Onward(at).newTip = w.newTip
  BY <1>1, <1>2, HeadTypes DEF Onward, Write, Stage
<1>5. \E at \in {"prevHash", "target"} :
         /\ writes' = Append(Others, Onward(at))
         /\ at = "prevHash" => JobWritten /\ w.at = "newJob" /\ w.newTip
         /\ at = "target" => \/ JobWritten /\ w.at = "newJob" /\ ~w.newTip
                             \/ PrevHashWritten /\ w.at = "prevHash" /\ w.newTip
  <2>1. CASE JobWritten /\ w.newTip BY <2>1 DEF JobWritten, GoOn, Onward
  <2>2. CASE JobWritten /\ ~w.newTip BY <2>2 DEF JobWritten, GoOn, Onward
  <2>3. CASE PrevHashWritten BY <1>3, <2>3 DEF PrevHashWritten, GoOn, Onward
  <2> QED BY <2>1, <2>2, <2>3 DEF GoesOn
<1> QED BY <1>1, <1>3, <1>4, <1>5

\* NewMiningJob was written.
LEMMA JobWrittenFacts ==
    ASSUME TypeOK, w.channel \in Channel, JobWritten
    PROVE  /\ UNCHANGED channels
           /\ \A x \in Channel : x # w.channel =>
                miner'[x].tip = miner[x].tip /\ miner'[x].job = miner[x].job
                  /\ miner'[x].target = miner[x].target
           /\ w.newTip => /\ miner'[w.channel].tip = w.job.tip
                          /\ miner'[w.channel].job = w.job.id
                          /\ miner'[w.channel].target = miner[w.channel].target
           /\ ~w.newTip => /\ miner'[w.channel].tip = miner[w.channel].tip
                           /\ miner'[w.channel].job = miner[w.channel].job
                           /\ miner'[w.channel].target = channels[w.channel].difficulty
<1>1. \A x \in Channel : miner[x] \in MinerState BY DEF TypeOK
<1>2. CASE w.newTip
  <2>1. miner' = [miner EXCEPT ![w.channel].tip = w.job.tip, ![w.channel].job = w.job.id,
                               ![w.channel].future = {}]
    BY <1>2 DEF JobWritten, HearPrevHash
  <2>2. miner' = [miner EXCEPT ![w.channel] =
                    [miner[w.channel] EXCEPT !.tip = w.job.tip, !.job = w.job.id, !.future = {}]]
    BY <2>1 DEF TypeOK
  <2> QED BY <1>1, <1>2, <2>2 DEF JobWritten, TypeOK, MinerState
<1>3. CASE ~w.newTip
  BY <1>3, HearTargetTips DEF JobWritten
<1> QED BY <1>2, <1>3

\* SetNewPrevHash was written.
LEMMA PrevHashWrittenFacts ==
    ASSUME TypeOK, w.channel \in Channel, PrevHashWritten
    PROVE  /\ \A x \in Channel :
                /\ channels'[x].state = channels[x].state
                /\ channels'[x].ready = channels[x].ready
                /\ channels'[x].jobs = channels[x].jobs
                /\ channels'[x].difficulty = channels[x].difficulty
                /\ channels'[x].activeTip =
                     IF x = w.channel THEN w.template.tip ELSE channels[x].activeTip
                /\ miner'[x].tip = miner[x].tip /\ miner'[x].job = miner[x].job
                /\ miner'[x].target =
                     IF x = w.channel THEN channels[x].difficulty ELSE miner[x].target
<1>1. \A x \in Channel : channels[x] \in ChannelState BY DEF TypeOK
<1>2. channels' = [channels EXCEPT ![w.channel].activeTip = w.template.tip]
  BY DEF PrevHashWritten
<1>3. \A x \in Channel :
        /\ channels'[x].state = channels[x].state
        /\ channels'[x].ready = channels[x].ready
        /\ channels'[x].jobs = channels[x].jobs
        /\ channels'[x].difficulty = channels[x].difficulty
        /\ channels'[x].activeTip =
             IF x = w.channel THEN w.template.tip ELSE channels[x].activeTip
  BY <1>1, <1>2 DEF TypeOK, ChannelState
<1> QED BY <1>3, HearTargetTips DEF PrevHashWritten

-----------------------------------------------------------------------------
(* A channel that is not ready has been sent nothing.                      *)

LEMMA EntryShape ==
    ASSUME TypeOK, Shape
    PROVE  \A e \in Entries(writes) : e \in Write /\ Shaped(e, latest, nextJobId)
BY QueueTail, EmptySeq DEF Shape, AllShaped, Entries, TypeOK

LEMMA CalmQueue ==
    ASSUME TypeOK, Shape, NEW rest \in Seq(Write), Rest(rest)
    PROVE  /\ Entries(rest) \subseteq Entries(writes)
           /\ \A e \in Entries(writes) : e \in Entries(rest) \/ (e = w /\ writes # <<>> /\ rest = Others)
BY EntriesOthers DEF Rest

LEMMA CalmEntries ==
    ASSUME TypeOK, Shape, Calm
    PROVE  /\ \A e \in Entries(writes') : e \in Entries(writes) \/ Dull(e)
           /\ \A e \in Entries(writes) :
                \/ e \in Entries(writes')
                \/ /\ e = w /\ w.at \in {"act2", "answered", "target", "retarget"}
                   /\ w.at = "target" /\ Broadcast(w) => After(w.channel) = {}
<1>1. PICK rest \in Seq(Write) :
         /\ Rest(rest)
         /\ writes' = rest \/ \E e : Dull(e) /\ writes' = Append(rest, e)
  BY DEF Calm
<1>2. /\ Entries(rest) \subseteq Entries(writes)
      /\ \A e \in Entries(writes) : e \in Entries(rest) \/ (e = w /\ writes # <<>> /\ rest = Others)
  BY <1>1, CalmQueue
<1>3. /\ Entries(rest) \subseteq Entries(writes')
      /\ \A e \in Entries(writes') : e \in Entries(rest) \/ Dull(e)
  <2>1. CASE writes' = rest BY <2>1
  <2>2. ASSUME NEW e, Dull(e), writes' = Append(rest, e)
        PROVE  Entries(writes') = Entries(rest) \union {e}
    <3>1. e \in Write BY <2>2 DEF Dull
    <3> QED BY <2>2, <3>1, EntriesAppend
  <2> QED BY <1>1, <2>1, <2>2
<1>4. ASSUME NEW e \in Entries(writes), e \notin Entries(rest)
      PROVE  /\ e = w /\ w.at \in {"act2", "answered", "target", "retarget"}
             /\ w.at = "target" /\ Broadcast(w) => After(w.channel) = {}
  BY <1>1, <1>2, <1>4 DEF Rest
<1> QED BY <1>2, <1>3, <1>4

LEMMA TipsKeptReady == ASSUME TipsKept PROVE Open' = Open /\ Ready' = Ready
BY DEF TipsKept, Open, Ready

LEMMA UnreadyCalm == ASSUME TypeOK, Shape, Unready, Calm PROVE Unready'
<1>1. TipsKept /\ Kept /\ Open' = Open BY TipsKeptReady DEF Calm
<1>2. \A c \in Channel : channels'[c].state = "absent" => ~channels'[c].ready
  BY <1>1 DEF TipsKept, Unready
<1>3. \A c \in Channel : ~channels'[c].ready =>
         /\ channels'[c].activeTip = 0
         /\ channels'[c].state # "gone" => miner'[c].tip = 0 /\ miner'[c].job = 0
  BY <1>1 DEF TipsKept, Unready
<1>4. ASSUME NEW c \in Open', ~channels'[c].ready, ~destroyed'
      PROVE  \E e \in Entries(writes') : e.at = "opened" /\ e.channel = c
  <2>1. c \in Open /\ ~channels[c].ready /\ ~destroyed
    BY <1>1, <1>4 DEF TipsKept, Kept, Open
  <2>2. PICK e \in Entries(writes) : e.at = "opened" /\ e.channel = c BY <2>1 DEF Unready
  <2> QED BY <2>2, CalmEntries
<1>5. ASSUME NEW e \in Entries(writes')
      PROVE  /\ Sending(e) \/ e.at = "retarget" => channels'[e.channel].ready
             /\ e.at = "opened" => /\ channels'[e.channel].state = "open"
                                   /\ ~channels'[e.channel].ready
  <2>1. CASE e \in Entries(writes)
    <3>1. Sending(e) \/ e.at \in {"retarget", "opened"} => e.channel \in Channel
      BY <2>1, EntryShape DEF Shaped
    <3> QED BY <1>1, <2>1, <3>1 DEF Unready, TipsKept
  <2>2. CASE Dull(e)
    BY <1>1, <2>2, AfterChannel DEF Dull, TipsKept, Ready
  <2> QED BY <2>1, <2>2, CalmEntries
<1>6. destroyed' => \A c \in Open' : miner'[c].job = 0
  BY <1>1 DEF Unready, TipsKept, Kept, Open
<1> QED BY <1>2, <1>3, <1>4, <1>5, <1>6 DEF Unready

\* The same for steps of a task that leave the ready channels ready.
LEMMA UnreadyTask ==
    ASSUME TypeOK, Shape, Unready, ~destroyed, ~destroyed', NEW c \in Channel,
           channels'[c].ready,
           \A x \in Channel :
             /\ channels'[x].state = channels[x].state
             /\ channels[x].ready => channels'[x].ready
             /\ channels'[x].ready => channels[x].ready \/ x = c
             /\ x # c => /\ channels'[x].activeTip = channels[x].activeTip
                         /\ miner'[x].tip = miner[x].tip /\ miner'[x].job = miner[x].job,
           \A e \in Entries(writes') :
             \/ e \in Entries(writes) /\ (e.at = "opened" => e.channel # c)
             \/ Sending(e) /\ e.channel = c
             \/ Sending(e) /\ e.channel \in Ready,
           \A e \in Entries(writes) : e.at = "opened" /\ e.channel # c => e \in Entries(writes'),
           channels[c].state # "absent"
    PROVE  Unready'
<1>1. Open' = Open BY DEF Open
<1>2. \A x \in Channel : channels'[x].state = "absent" => ~channels'[x].ready
  BY DEF Unready
<1>3. \A x \in Channel : ~channels'[x].ready =>
         /\ channels'[x].activeTip = 0
         /\ channels'[x].state # "gone" => miner'[x].tip = 0 /\ miner'[x].job = 0
  BY DEF Unready
<1>4. ASSUME NEW x \in Open', ~channels'[x].ready
      PROVE  \E e \in Entries(writes') : e.at = "opened" /\ e.channel = x
  <2>1. x \in Open /\ x \in Channel /\ ~channels[x].ready /\ x # c BY <1>1, <1>4 DEF Open
  <2>2. PICK e \in Entries(writes) : e.at = "opened" /\ e.channel = x BY <2>1 DEF Unready
  <2> QED BY <2>1, <2>2
<1>5. ASSUME NEW e \in Entries(writes')
      PROVE  /\ Sending(e) \/ e.at = "retarget" => channels'[e.channel].ready
             /\ e.at = "opened" => /\ channels'[e.channel].state = "open"
                                   /\ ~channels'[e.channel].ready
  <2>1. CASE e \in Entries(writes) /\ (e.at = "opened" => e.channel # c)
    <3>1. Sending(e) \/ e.at \in {"retarget", "opened"} => e.channel \in Channel
      BY <2>1, EntryShape DEF Shaped
    <3> QED BY <2>1, <3>1 DEF Unready
  <2>2. CASE Sending(e) /\ e.channel = c BY <2>2 DEF Sending
  <2>3. CASE Sending(e) /\ e.channel \in Ready BY <2>3, AfterChannel DEF Sending, Ready
  <2> QED BY <2>1, <2>2, <2>3
<1> QED BY <1>2, <1>3, <1>4, <1>5 DEF Unready

\* The step that sends a job, as one that leaves the ready channels ready.
LEMMA SentEntries ==
    ASSUME NEW task \in Task, NEW c \in Channel, NEW t \in Template, NEW rest \in Seq(Write),
           NEW known, TypeOK, SameJobs(known), SendJobs(task, c, t, rest, known)
    PROVE  /\ Entries(writes') = Entries(rest) \union {SentWrite(task, c, t, known)}
           /\ Sending(SentWrite(task, c, t, known))
           /\ SentWrite(task, c, t, known).channel = c
           /\ \A x \in Channel : x # c => miner'[x].job = miner[x].job
           /\ \A x \in Channel : miner'[x].tip = miner[x].tip
<1>1. /\ SentWrite(task, c, t, known) \in Write
      /\ writes' = Append(rest, SentWrite(task, c, t, known))
  BY SendJobsFacts
<1>2. Entries(writes') = Entries(rest) \union {SentWrite(task, c, t, known)}
  BY <1>1, EntriesAppend
<1>3. /\ Sending(SentWrite(task, c, t, known))
      /\ SentWrite(task, c, t, known).channel = c
  BY SentFields DEF Sending
<1>4. /\ \A x \in Channel : x # c => miner'[x].job = miner[x].job
      /\ \A x \in Channel : miner'[x].tip = miner[x].tip
  BY SendJobsFields
<1> QED BY <1>2, <1>3, <1>4

LEMMA NoOpened ==
    ASSUME TypeOK, Shape, NEW q \in Seq(Write), NoInbound(q), Entries(q) \subseteq Entries(writes)
    PROVE  \A e \in Entries(q) : e.at # "opened"
<1>1. \A e \in Entries(q) : e.task # "inbound" BY DEF NoInbound, Entries
<1> QED BY <1>1, EntryShape DEF Shaped

LEMMA UnreadySends ==
    ASSUME TypeOK, Shape, OneInbound, Unready, SendsFirst \/ SendsOn \/ SendsAgain
    PROVE  Unready'
<1>1. writes # <<>> /\ Kept BY DEF SendsFirst, SendsOn, SendsAgain
<1>2. ~destroyed /\ ~destroyed' /\ w \in Entries(writes)
  BY <1>1, HeadTypes, EntriesOthers DEF Kept
<1>3. /\ Others \in Seq(Write) /\ Entries(writes) = Entries(Others) \union {w}
  BY <1>1, EntriesOthers
<1>4. SameJobs(channels) /\ {"broadcast", "inbound", "pass"} \subseteq Task
  BY DEF TypeOK, SameJobs, Task
<1>5. \A e \in Entries(writes) : e.at = "opened" => e.channel \notin Ready
  BY DEF Unready, Ready
<1>6. CASE SendsFirst
  <2> DEFINE c == w.channel
  <2>1. c \in Channel /\ w.at = "opened" /\ w.task = "inbound" /\ SameJobs(MadeReady)
    BY <1>6, SendsFirstFacts
  <2>2. channels[c].state = "open" BY <1>2, <2>1 DEF Unready
  <2>3. \A e \in Entries(Others) : e.at # "opened"
    BY <1>1, <1>3, <2>1, ChainOthers, NoOpened
  <2>4. \A x \in Channel :
          /\ MadeReady[x].state = channels[x].state
          /\ MadeReady[x].ready = (IF x = c THEN TRUE ELSE channels[x].ready)
          /\ MadeReady[x].activeTip = channels[x].activeTip
    BY <1>6, SendsFirstFacts
  <2>5. /\ \A x \in Channel :
             /\ channels'[x].state = MadeReady[x].state
             /\ channels'[x].ready = MadeReady[x].ready
             /\ channels'[x].activeTip = MadeReady[x].activeTip
             /\ miner'[x].tip = miner[x].tip
             /\ x # c => miner'[x].job = miner[x].job
        /\ Entries(Others) \subseteq Entries(writes')
        /\ \A e \in Entries(writes') : e \in Entries(Others) \/ (Sending(e) /\ e.channel = c)
    <3>1. CASE latest # None
      <4>1. SendJobs("inbound", c, latest, Others, MadeReady) /\ latest \in Template
            /\ "inbound" \in Task
        BY <1>6, <3>1, SendsFirstFacts DEF Task
      <4> QED BY <1>3, <2>1, <4>1, SendJobsFields, SentEntries
    <3>2. CASE latest = None
      BY <1>6, <3>2, SendsFirstFacts
    <3> QED BY <3>1, <3>2
  <2>6. channels'[c].ready BY <2>1, <2>4, <2>5
  <2>7. \A x \in Channel :
          /\ channels'[x].state = channels[x].state
          /\ channels[x].ready => channels'[x].ready
          /\ channels'[x].ready => channels[x].ready \/ x = c
          /\ x # c => /\ channels'[x].activeTip = channels[x].activeTip
                      /\ miner'[x].tip = miner[x].tip /\ miner'[x].job = miner[x].job
    BY <2>4, <2>5
  <2>8. \A e \in Entries(writes') :
          \/ e \in Entries(writes) /\ (e.at = "opened" => e.channel # c)
          \/ Sending(e) /\ e.channel = c
    BY <1>3, <2>3, <2>5
  <2>9. \A e \in Entries(writes) : e.at = "opened" /\ e.channel # c => e \in Entries(writes')
    BY <1>3, <2>5
  <2>10. channels[c].state # "absent" BY <2>2
  <2> HIDE DEF c
  <2>11. c \in Channel BY <2>1 DEF c
  <2> QED BY <1>2, <2>6, <2>7, <2>8, <2>9, <2>10, <2>11, UnreadyTask
<1>7. ASSUME NEW task \in Task, NEW c \in Channel, NEW t \in Template, channels[c].ready,
             SendJobs(task, c, t, Others, channels), w.at # "opened"
      PROVE  Unready'
  <2>1. /\ Entries(Others) \subseteq Entries(writes')
        /\ \A e \in Entries(writes') : e \in Entries(Others) \/ (Sending(e) /\ e.channel = c)
        /\ \A x \in Channel : /\ miner'[x].tip = miner[x].tip
                              /\ x # c => miner'[x].job = miner[x].job
    BY <1>3, <1>4, <1>7, SentEntries
  <2>2. \A x \in Channel : /\ channels'[x].state = channels[x].state
                           /\ channels'[x].ready = channels[x].ready
                           /\ channels'[x].activeTip = channels[x].activeTip
    BY <1>4, <1>7, SendJobsFields
  <2>3. \A e \in Entries(writes) : e.at = "opened" => e.channel # c
    BY <1>7 DEF Unready
  <2>4. channels[c].state # "absent" BY <1>7 DEF Unready
  <2>5. channels'[c].ready BY <1>7, <2>2
  <2> QED BY <1>2, <1>3, <1>7, <2>1, <2>2, <2>3, <2>4, <2>5, UnreadyTask
<1>8. CASE SendsOn
  <2>1. "broadcast" \in Task BY DEF Task
  <2> QED BY <1>7, <1>8, <2>1, SendsOnFacts DEF Ready
<1>9. CASE SendsAgain
  <2>1. "pass" \in Task BY DEF Task
  <2>2. channels[w.channel].ready BY <1>2, <1>9, SendsAgainFacts DEF Unready
  <2> QED BY <1>7, <1>9, <2>1, <2>2, SendsAgainFacts
<1> QED BY <1>6, <1>8, <1>9

LEMMA UnreadyGoesOn == ASSUME TypeOK, Shape, Unready, GoesOn PROVE Unready'
<1>1. /\ writes # <<>> /\ w.channel \in Channel /\ Sending(w) /\ Kept
  BY GoesOnFacts
<1>2. ~destroyed /\ ~destroyed' /\ w \in Entries(writes)
  BY <1>1, HeadTypes, EntriesOthers DEF Kept
<1>3. channels[w.channel].ready /\ channels[w.channel].state # "absent"
  BY <1>1, <1>2 DEF Unready
<1>4. PICK at \in {"prevHash", "target"} :
         /\ Onward(at) \in Write /\ writes' = Append(Others, Onward(at))
         /\ Onward(at).at = at /\ Onward(at).channel = w.channel
  BY GoesOnFacts
<1>5. Entries(writes') = Entries(Others) \union {Onward(at)} /\ Sending(Onward(at))
  BY <1>1, <1>4, EntriesOthers, EntriesAppend DEF Sending
<1>6. Entries(writes) = Entries(Others) \union {w} BY <1>1, EntriesOthers
<1>7. \A x \in Channel :
        /\ channels'[x].state = channels[x].state
        /\ channels'[x].ready = channels[x].ready
        /\ x # w.channel => /\ channels'[x].activeTip = channels[x].activeTip
                            /\ miner'[x].tip = miner[x].tip /\ miner'[x].job = miner[x].job
  <2>1. CASE JobWritten BY <1>1, <2>1, JobWrittenFacts
  <2>2. CASE PrevHashWritten BY <1>1, <2>2, PrevHashWrittenFacts
  <2> QED BY <2>1, <2>2 DEF GoesOn
<1>8. \A e \in Entries(writes) : e.at = "opened" => e.channel # w.channel
  BY <1>3 DEF Unready
<1>9. channels'[w.channel].ready BY <1>1, <1>3, <1>7
<1>10. w.at # "opened" BY <1>1 DEF Sending
<1> QED BY <1>1, <1>2, <1>3, <1>4, <1>5, <1>6, <1>7, <1>8, <1>9, <1>10, UnreadyTask

LEMMA UnreadyEmit == ASSUME TypeOK, Shape, Unready, Emit PROVE Unready'
<1>1. PICK t \in Template :
         /\ Ready # {} => /\ Least(Ready) \in Ready /\ Least(Ready) \in Channel
                          /\ SendJobs("broadcast", Least(Ready), t, writes, channels)
         /\ Ready = {} => UNCHANGED <<channels, nextJobId, miner, writes>>
         /\ ~destroyed /\ UNCHANGED <<destroyed, inbound>>
  BY EmitFacts
<1>2. CASE Ready = {} BY <1>1, <1>2 DEF Unready, Open
<1>3. CASE Ready # {}
  <2> DEFINE c == Least(Ready)
  <2>1. c \in Ready /\ c \in Channel /\ "broadcast" \in Task /\ SameJobs(channels)
        /\ SendJobs("broadcast", c, t, writes, channels) /\ writes \in Seq(Write)
    BY <1>1, <1>3 DEF Task, SameJobs, TypeOK
  <2> HIDE DEF c
  <2>2. /\ Entries(writes) \subseteq Entries(writes')
        /\ \A e \in Entries(writes') : e \in Entries(writes) \/ (Sending(e) /\ e.channel = c)
        /\ \A x \in Channel : /\ miner'[x].tip = miner[x].tip
                              /\ x # c => miner'[x].job = miner[x].job
    BY <2>1, SentEntries
  <2>3. \A x \in Channel : /\ channels'[x].state = channels[x].state
                           /\ channels'[x].ready = channels[x].ready
                           /\ channels'[x].activeTip = channels[x].activeTip
    BY <2>1, SendJobsFields
  <2>4. channels[c].ready /\ channels[c].state # "absent" BY <2>1 DEF Ready, Open
  <2>5. \A e \in Entries(writes) : e.at = "opened" => e.channel # c
    BY <2>4 DEF Unready
  <2> QED BY <1>1, <2>1, <2>2, <2>3, <2>4, <2>5, UnreadyTask
<1> QED BY <1>2, <1>3

LEMMA UnreadyVanishes == ASSUME TypeOK, Unready, Vanishes PROVE Unready'
<1>1. \A c \in Channel : /\ channels'[c].activeTip = 0 /\ ~channels'[c].ready
                         /\ channels'[c].state \in {"absent", "gone"}
                         /\ channels'[c].state = "absent" => channels[c].state = "absent"
  BY DEF Vanishes, AllGone, Absent
<1>2. Open' = {} BY <1>1 DEF Open
<1>3. Entries(writes') = {} BY EntriesEmpty DEF Vanishes
<1>4. \A c \in Channel : channels[c].state = "absent" => miner[c].tip = 0 /\ miner[c].job = 0
  BY DEF Unready
<1>5. miner' = miner BY DEF Vanishes
<1> QED BY <1>1, <1>2, <1>3, <1>4, <1>5 DEF Unready

LEMMA UnreadyOpens ==
    ASSUME TypeOK, Shape, Unready, NEW left \in 0..MaxChunk, OpenChannel(left)
    PROVE  Unready'
<1>1. PICK c \in Channel, d \in Difficulty :
         /\ channels[c].state = "absent"
         /\ channels' = [channels EXCEPT ![c] = OpenedState(d)]
         /\ destroyed => UNCHANGED <<writes, inbound, miner>>
         /\ ~destroyed =>
              /\ writes' = Append(writes, Waiting("inbound", "opened", c, None, None, FALSE))
              /\ miner' = HearTarget(c, d)
         /\ UNCHANGED destroyed
  BY OpenChannelFacts
<1> DEFINE e0 == Waiting("inbound", "opened", c, None, None, FALSE)
<1>2. /\ channels'[c].state = "open" /\ channels'[c].ready = destroyed
      /\ channels'[c].activeTip = 0
      /\ \A x \in Channel : x # c => channels'[x] = channels[x]
  BY <1>1 DEF OpenedState, Absent, TypeOK
<1>3. \A x \in Channel : miner'[x].tip = miner[x].tip /\ miner'[x].job = miner[x].job
  BY <1>1, HearTargetTips
<1>4. e0 \in Write /\ e0.at = "opened" /\ e0.channel = c /\ ~Sending(e0)
  BY NewWrites DEF Waiting, Sending
<1>5. destroyed => Entries(writes') = Entries(writes)
  BY <1>1
<1>6. ~destroyed => Entries(writes') = Entries(writes) \union {e0}
  BY <1>1, <1>4, EntriesAppend DEF TypeOK
<1> HIDE DEF e0
<1>7. miner[c].tip = 0 /\ miner[c].job = 0 /\ ~channels[c].ready BY <1>1 DEF Unready
<1>8. \A x \in Channel : channels'[x].state = "absent" => ~channels'[x].ready
  BY <1>2 DEF Unready
<1>9. \A x \in Channel : ~channels'[x].ready =>
         /\ channels'[x].activeTip = 0
         /\ channels'[x].state # "gone" => miner'[x].tip = 0 /\ miner'[x].job = 0
  BY <1>2, <1>3, <1>7 DEF Unready
<1>10. ASSUME NEW x \in Open', ~channels'[x].ready, ~destroyed'
       PROVE  \E e \in Entries(writes') : e.at = "opened" /\ e.channel = x
  <2>1. CASE x = c BY <1>1, <1>4, <1>6, <1>10, <2>1
  <2>2. CASE x # c
    <3>1. x \in Open /\ ~channels[x].ready /\ ~destroyed BY <1>1, <1>2, <1>10, <2>2 DEF Open
    <3>2. PICK e \in Entries(writes) : e.at = "opened" /\ e.channel = x BY <3>1 DEF Unready
    <3> QED BY <1>6, <3>1, <3>2
  <2> QED BY <2>1, <2>2
<1>11. ASSUME NEW e \in Entries(writes')
       PROVE  /\ Sending(e) \/ e.at = "retarget" => channels'[e.channel].ready
              /\ e.at = "opened" => /\ channels'[e.channel].state = "open"
                                    /\ ~channels'[e.channel].ready
  <2>1. CASE e \in Entries(writes)
    <3>1. Sending(e) \/ e.at \in {"retarget", "opened"} => e.channel \in Channel
      BY <2>1, EntryShape DEF Shaped
    <3> QED BY <1>1, <1>2, <1>7, <2>1, <3>1 DEF Unready
  <2>2. CASE e = e0 /\ ~destroyed BY <1>2, <1>4, <2>2
  <2>3. destroyed \in BOOLEAN BY DEF TypeOK
  <2> QED BY <1>5, <1>6, <2>1, <2>2, <2>3
<1>12. ASSUME destroyed' PROVE \A x \in Open' : miner'[x].job = 0
  BY <1>1, <1>2, <1>3, <1>7, <1>12 DEF Unready, Open
<1> QED BY <1>8, <1>9, <1>10, <1>11, <1>12 DEF Unready

LEMMA ClosesFacts ==
    ASSUME TypeOK, NEW c \in Channel, Closes(c)
    PROVE  /\ \A x \in Channel :
                /\ channels'[x].state = IF x = c THEN "gone" ELSE channels[x].state
                /\ channels'[x].ready = channels[x].ready
                /\ channels'[x].activeTip = channels[x].activeTip
                /\ channels'[x].jobs = channels[x].jobs
                /\ channels'[x].difficulty = channels[x].difficulty
           /\ Open' = Open \ {c} /\ Ready' = Ready \ {c}
<1>1. \A x \in Channel : channels[x] \in ChannelState BY DEF TypeOK
<1>2. channels' = [channels EXCEPT ![c].state = "gone"] BY DEF Closes
<1>3. \A x \in Channel :
                /\ channels'[x].state = IF x = c THEN "gone" ELSE channels[x].state
                /\ channels'[x].ready = channels[x].ready
                /\ channels'[x].activeTip = channels[x].activeTip
                /\ channels'[x].jobs = channels[x].jobs
                /\ channels'[x].difficulty = channels[x].difficulty
  BY <1>1, <1>2 DEF TypeOK, ChannelState
<1>4. Open' = Open \ {c} BY <1>3 DEF Open
<1>5. Ready' = Ready \ {c} BY <1>3, <1>4, AfterChannel DEF Ready
<1> QED BY <1>3, <1>4, <1>5

LEMMA UnreadyCloses ==
    ASSUME TypeOK, Shape, OneInbound, Unready, NEW c \in Channel, Closes(c) PROVE Unready'
<1>1. /\ inbound # "writing" /\ c \in Open /\ writes \in Seq(Write)
      /\ UNCHANGED <<destroyed, miner, writes>>
  BY DEF Closes, TypeOK
<1>2. \A e \in Entries(writes) : e.at # "opened"
  BY <1>1, ChainFree, NoOpened DEF OneInbound
<1>3. \A x \in Channel :
         /\ channels'[x].state = IF x = c THEN "gone" ELSE channels[x].state
         /\ channels'[x].ready = channels[x].ready
         /\ channels'[x].activeTip = channels[x].activeTip
  BY ClosesFacts
<1>4. Open' \subseteq Open BY ClosesFacts
<1>5. \A e \in Entries(writes) : Sending(e) \/ e.at = "retarget" => e.channel \in Channel
  BY EntryShape DEF Shaped
<1>6. \A e \in Entries(writes') :
         /\ Sending(e) \/ e.at = "retarget" => channels'[e.channel].ready
         /\ e.at # "opened"
  BY <1>1, <1>2, <1>3, <1>5 DEF Unready
<1>7. \A x \in Channel : ~channels'[x].ready =>
         /\ channels'[x].activeTip = 0
         /\ channels'[x].state # "gone" => miner'[x].tip = 0 /\ miner'[x].job = 0
  BY <1>1, <1>3 DEF Unready
<1>8. \A x \in Channel : channels'[x].state = "absent" => ~channels'[x].ready
  BY <1>3 DEF Unready
<1>9. \A x \in Open' : ~(~channels'[x].ready /\ ~destroyed')
  <2>1. \A x \in Open : ~(~channels[x].ready /\ ~destroyed) BY <1>2 DEF Unready
  <2> QED BY <1>1, <1>3, <1>4, <2>1 DEF Open
<1>10. destroyed' => \A x \in Open' : miner'[x].job = 0 BY <1>1, <1>4 DEF Unready
<1> QED BY <1>6, <1>7, <1>8, <1>9, <1>10 DEF Unready

LEMMA UnreadyStep == ASSUME TypeOK, Shape, OneInbound, Unready, [Next]_vars PROVE Unready'
<1>1. CASE CalmKinds BY <1>1, CalmFacts, UnreadyCalm
<1>2. CASE SendsFirst \/ SendsOn \/ SendsAgain BY <1>2, UnreadySends
<1>3. CASE GoesOn BY <1>3, UnreadyGoesOn
<1>4. CASE Vanishes BY <1>4, UnreadyVanishes
<1>5. ASSUME NEW left \in 0..MaxChunk, OpenChannel(left) PROVE Unready'
  BY <1>5, UnreadyOpens
<1>6. ASSUME NEW c \in Channel, Closes(c) PROVE Unready' BY <1>6, UnreadyCloses
<1>7. CASE Emit BY <1>7, UnreadyEmit
<1>8. ASSUME Untouched, UNCHANGED destroyed, Entries(writes') \subseteq Entries(writes),
             \A e \in Entries(writes) : e.at = "opened" => e \in Entries(writes')
      PROVE  Unready'
  <2>1. Open' = Open BY <1>8 DEF Untouched, Open
  <2> QED BY <1>8, <2>1 DEF Untouched, Unready
<1>9. ASSUME NEW i \in DOMAIN writes, Overtakes(i) PROVE Unready'
  <2>1. Entries(writes') = Entries(writes) BY <1>9, ForwardEntries DEF Overtakes, TypeOK
  <2> QED BY <1>8, <1>9, <2>1 DEF Overtakes
<1>10. CASE Tears
  <2>1. w.at # "opened" /\ Entries(writes) = Entries(Others) \union {w}
    BY <1>10, EntriesOthers DEF Tears, CutShort, Sending
  <2> QED BY <1>8, <1>10, <2>1 DEF Tears, CutShort
<1> QED BY <1>1, <1>2, <1>3, <1>4, <1>5, <1>6, <1>7, <1>9, <1>10, StepKinds
        DEF StepKind, CalmKinds, Tears

-----------------------------------------------------------------------------
(* The tip a miner has heard of.                                           *)

\* A step whose entries do not move the tip.
LEMMA QueueStill ==
    ASSUME TypeOK, NEW at, NEW c, NEW rest \in Seq(Write),
           rest = writes \/ (writes # <<>> /\ rest = Others /\ ~Moves(w, at, c)),
           NEW q, q = rest \/ \E e \in Write : ~Moves(e, at, c) /\ q = Append(rest, e)
    PROVE  /\ NoMove(q, at, c) <=> NoMove(writes, at, c)
           /\ \A f : LastMove(q, at, c, f) => LastMove(writes, at, c, f)
<1>1. /\ NoMove(rest, at, c) <=> NoMove(writes, at, c)
      /\ \A f : LastMove(rest, at, c, f) => LastMove(writes, at, c, f)
  <2>1. CASE rest = writes BY <2>1
  <2>2. CASE writes # <<>> /\ rest = Others /\ ~Moves(w, at, c)
    <3>1. writes \in Seq(Write) /\ w = writes[1] /\ Others = Tail(writes)
      BY <2>2, QueueTail DEF TypeOK, w, Others
    <3> QED BY <2>2, <3>1, LastBehindHead
  <2> QED BY <2>1, <2>2
<1>2. CASE q = rest BY <1>1, <1>2
<1>3. ASSUME NEW e \in Write, ~Moves(e, at, c), q = Append(rest, e)
      PROVE  /\ NoMove(q, at, c) <=> NoMove(writes, at, c)
             /\ \A f : LastMove(q, at, c, f) => LastMove(writes, at, c, f)
  BY <1>1, <1>3, StillLast
<1> QED BY <1>2, <1>3

\* A channel that the step does not concern.
LEMMA HeardStill ==
    ASSUME NEW c, HeardTip(c), channels'[c].activeTip = channels[c].activeTip,
           miner'[c].tip = miner[c].tip,
           NoMove(writes', "prevHash", c) => NoMove(writes, "prevHash", c),
           \A f : LastMove(writes', "prevHash", c, f) => LastMove(writes, "prevHash", c, f)
    PROVE  HeardTip(c)'
BY DEF HeardTip

LEMMA CalmStill ==
    ASSUME TypeOK, Shape, Calm, NEW c, NEW at \in {"newJob", "prevHash"}
    PROVE  /\ NoMove(writes', at, c) <=> NoMove(writes, at, c)
           /\ \A f : LastMove(writes', at, c, f) => LastMove(writes, at, c, f)
<1>1. PICK rest \in Seq(Write) :
         /\ Rest(rest)
         /\ writes' = rest \/ \E e : Dull(e) /\ writes' = Append(rest, e)
  BY DEF Calm
<1>2. rest = writes \/ (writes # <<>> /\ rest = Others /\ ~Moves(w, at, c))
  BY <1>1 DEF Rest, Moves
<1>3. writes' = rest \/ \E e \in Write : ~Moves(e, at, c) /\ writes' = Append(rest, e)
  BY <1>1 DEF Dull, Sending, Moves
<1> QED BY <1>2, <1>3, QueueStill

\* The job that is sent moves no tip yet; the entry in front of it had none to move.
LEMMA SentStill ==
    ASSUME TypeOK, NEW task \in Task, NEW c \in Channel, NEW t \in Template,
           NEW rest \in Seq(Write), NEW known, SameJobs(known),
           SendJobs(task, c, t, rest, known), NEW at, NEW x,
           rest = writes \/ (writes # <<>> /\ rest = Others /\ w.at \notin {"newJob", "prevHash"}),
           at = "prevHash" \/ (at = "newJob" /\ (x # c \/ ~NewTip(c, t, known)))
    PROVE  /\ NoMove(writes', at, x) <=> NoMove(writes, at, x)
           /\ \A f : LastMove(writes', at, x, f) => LastMove(writes, at, x, f)
<1>1. /\ SentWrite(task, c, t, known) \in Write
      /\ writes' = Append(rest, SentWrite(task, c, t, known))
  BY SendJobsFacts
<1>2. ~Moves(SentWrite(task, c, t, known), at, x) BY SentFields DEF Moves
<1>3. rest = writes \/ (writes # <<>> /\ rest = Others /\ ~Moves(w, at, x)) BY DEF Moves
<1> QED BY <1>1, <1>2, <1>3, QueueStill

LEMMA HeardSent ==
    ASSUME TypeOK, NEW task \in Task, NEW c \in Channel, NEW t \in Template,
           NEW rest \in Seq(Write), NEW known, SameJobs(known),
           SendJobs(task, c, t, rest, known), NEW x \in Channel, HeardTip(x),
           known[x].activeTip = channels[x].activeTip,
           rest = writes \/ (writes # <<>> /\ rest = Others /\ w.at \notin {"newJob", "prevHash"})
    PROVE  HeardTip(x)'
<1>1. channels'[x].activeTip = channels[x].activeTip /\ miner'[x].tip = miner[x].tip
  BY SendJobsFields
<1>2. /\ NoMove(writes', "prevHash", x) <=> NoMove(writes, "prevHash", x)
      /\ \A f : LastMove(writes', "prevHash", x, f) => LastMove(writes, "prevHash", x, f)
  BY SentStill
<1> QED BY <1>1, <1>2, HeardStill

LEMMA HeardGoesOn ==
    ASSUME TypeOK, Shape, GoesOn, NEW x \in Channel, HeardTip(x) PROVE HeardTip(x)'
<1>1. /\ writes # <<>> /\ w.channel \in Channel /\ w.job.tip = w.template.tip
      /\ Others \in Seq(Write) /\ writes \in Seq(Write) /\ w = writes[1] /\ Others = Tail(writes)
  BY GoesOnFacts, HeadTypes DEF Others, TypeOK
<1>2. PICK at \in {"prevHash", "target"} :
         /\ Onward(at) \in Write /\ writes' = Append(Others, Onward(at))
         /\ Onward(at).at = at /\ Onward(at).channel = w.channel
         /\ Onward(at).template = w.template /\ Onward(at).newTip = w.newTip
         /\ at = "prevHash" => JobWritten /\ w.at = "newJob" /\ w.newTip
         /\ at = "target" => \/ JobWritten /\ w.at = "newJob" /\ ~w.newTip
                             \/ PrevHashWritten /\ w.at = "prevHash" /\ w.newTip
  BY GoesOnFacts
<1>3. ASSUME ~Moves(w, "prevHash", x), ~Moves(Onward(at), "prevHash", x),
             channels'[x].activeTip = channels[x].activeTip, miner'[x].tip = miner[x].tip
      PROVE  HeardTip(x)'
  BY <1>1, <1>2, <1>3, QueueStill, HeardStill
<1>4. CASE at = "prevHash" /\ x = w.channel
  <2>1. miner'[x].tip = w.template.tip BY <1>1, <1>2, <1>4, JobWrittenFacts
  <2>2. Moves(Onward(at), "prevHash", x) BY <1>2, <1>4 DEF Moves
  <2>3. /\ ~NoMove(writes', "prevHash", x)
        /\ \A f : LastMove(writes', "prevHash", x, f) => f = Onward(at)
    BY <1>1, <1>2, <2>2, NowLast
  <2> QED BY <1>2, <2>1, <2>3 DEF HeardTip
<1>5. CASE at = "prevHash" /\ x # w.channel
  <2>1. channels'[x].activeTip = channels[x].activeTip /\ miner'[x].tip = miner[x].tip
    BY <1>1, <1>2, <1>5, JobWrittenFacts
  <2> QED BY <1>2, <1>3, <1>5, <2>1 DEF Moves
<1>6. CASE at = "target" /\ JobWritten
  <2>1. w.at = "newJob" BY <1>6 DEF JobWritten
  <2>2. ~w.newTip BY <1>2, <1>6, <2>1
  <2>3. channels'[x].activeTip = channels[x].activeTip /\ miner'[x].tip = miner[x].tip
    BY <1>1, <1>6, <2>2, JobWrittenFacts
  <2> QED BY <1>2, <1>3, <1>6, <2>1, <2>3 DEF Moves
<1>7. CASE at = "target" /\ PrevHashWritten /\ x # w.channel
  <2>1. channels'[x].activeTip = channels[x].activeTip /\ miner'[x].tip = miner[x].tip
    BY <1>1, <1>7, PrevHashWrittenFacts
  <2> QED BY <1>2, <1>3, <1>7, <2>1 DEF Moves
<1>8. CASE at = "target" /\ PrevHashWritten /\ x = w.channel
  <2>1. channels'[x].activeTip = w.template.tip /\ miner'[x].tip = miner[x].tip
    BY <1>1, <1>8, PrevHashWrittenFacts
  <2>2. w.at = "prevHash" /\ w.newTip
    BY <1>2, <1>8 DEF PrevHashWritten, JobWritten
  <2>3. Moves(w, "prevHash", x) /\ ~Moves(Onward(at), "prevHash", x)
    BY <1>2, <1>8, <2>2 DEF Moves
  <2>4. /\ NoMove(writes', "prevHash", x) <=> NoMove(Others, "prevHash", x)
        /\ \A f : LastMove(writes', "prevHash", x, f) => LastMove(Others, "prevHash", x, f)
    BY <1>1, <1>2, <2>3, StillLast
  <2>5. /\ NoMove(Others, "prevHash", x) => LastMove(writes, "prevHash", x, w)
        /\ \A f : LastMove(Others, "prevHash", x, f) => LastMove(writes, "prevHash", x, f)
    BY <1>1, <2>3, LastBehindHead
  <2> QED BY <2>1, <2>4, <2>5 DEF HeardTip
<1> QED BY <1>2, <1>4, <1>5, <1>6, <1>7, <1>8

\* The channels that a task which goes before others, or is cut short, leaves
\* in order.
LEMMA OvertakesMoves ==
    ASSUME TypeOK, NEW i \in DOMAIN writes, Overtakes(i), NEW c, c \notin torn', NEW at
    PROVE  /\ NoMove(writes', at, c) <=> NoMove(writes, at, c)
           /\ \A f : LastMove(writes', at, c, f) => LastMove(writes, at, c, f)
<1>1. writes \in Seq(Write) /\ DOMAIN writes = 1..Len(writes) /\ Len(writes) \in Nat
  BY QueueForward DEF TypeOK
<1>2. ASSUME NEW k \in DOMAIN writes, k < i, writes[k].channel = writes[i].channel
      PROVE  writes[k].channel # c
  <2>1. k \in Swapped(i) BY <1>1, <1>2 DEF Swapped
  <2> QED BY <2>1 DEF Overtakes
<1>3. writes' = Forward(writes, i) BY DEF Overtakes
<1> QED BY <1>1, <1>2, <1>3, ForwardMoves

LEMMA TearsMoves ==
    ASSUME TypeOK, Shape, Tears, NEW c, c \notin torn', NEW at \in {"newJob", "prevHash"}
    PROVE  /\ NoMove(writes', at, c) <=> NoMove(writes, at, c)
           /\ \A f : LastMove(writes', at, c, f) => LastMove(writes, at, c, f)
<1>1. writes # <<>> /\ writes' = Others /\ Others \in Seq(Write)
  BY HeadTypes DEF Tears, CutShort
<1>2. ~Moves(w, at, c) BY DEF Tears, CutShort, Moves
<1> QED BY <1>1, <1>2, QueueStill

LEMMA HeardStep ==
    ASSUME TypeOK, Shape, OneInbound, Unready, HeardTips, [Next]_vars PROVE HeardTips'
<1>1. ASSUME CalmKinds PROVE HeardTips'
  <2>1. Calm /\ TipsKept /\ Open' = Open /\ torn' = torn
    BY <1>1, CalmFacts, TipsKeptReady DEF Calm, Kept
  <2> QED BY <2>1, CalmStill, HeardStill, AfterChannel DEF HeardTips, TipsKept
<1>2. SameJobs(channels) /\ {"broadcast", "inbound", "pass"} \subseteq Task
  BY DEF TypeOK, SameJobs, Task
<1>3. ASSUME StatesKept, torn' = torn, \A x \in Open \ torn : HeardTip(x)' PROVE HeardTips'
  BY <1>3, OpenKept DEF HeardTips
<1>4. CASE SendsFirst
  <2>1. StatesKept /\ torn' = torn BY <1>4, TaskStates DEF SendsFirst, Kept
  <2>2. /\ writes # <<>> /\ w.at = "opened" /\ w.channel \in Channel /\ SameJobs(MadeReady)
        /\ \A x \in Channel : MadeReady[x].activeTip = channels[x].activeTip
        /\ Others \in Seq(Write)
    BY <1>4, SendsFirstFacts, HeadTypes
  <2>3. ASSUME NEW x \in Open \ torn PROVE HeardTip(x)'
    <3>1. x \in Channel /\ HeardTip(x) BY AfterChannel DEF HeardTips
    <3>2. CASE latest # None
      <4>1. latest \in Template /\ SendJobs("inbound", w.channel, latest, Others, MadeReady)
            /\ "inbound" \in Task
        BY <1>4, <3>2, SendsFirstFacts DEF Task
      <4> QED BY <2>2, <3>1, <4>1, HeardSent
    <3>3. CASE latest = None
      <4>1. writes' = Others /\ channels' = MadeReady /\ UNCHANGED miner
        BY <1>4, <3>3, SendsFirstFacts
      <4>2. ~Moves(w, "prevHash", x) BY <2>2 DEF Moves
      <4> QED BY <2>2, <3>1, <4>1, <4>2, QueueStill, HeardStill
    <3> QED BY <3>2, <3>3
  <2> QED BY <1>3, <2>1, <2>3
<1>5. CASE SendsOn
  <2>1. StatesKept /\ torn' = torn BY <1>5, TaskStates DEF SendsOn, Kept
  <2>2. "broadcast" \in Task /\ Others \in Seq(Write) BY <1>5, SendsOnFacts, HeadTypes DEF Task
  <2>3. w.at \notin {"newJob", "prevHash"} BY <1>5, SendsOnFacts
  <2> QED BY <1>2, <1>3, <1>5, <2>1, <2>2, <2>3, SendsOnFacts, HeardSent, AfterChannel
          DEF HeardTips
<1>6. CASE SendsAgain
  <2>1. StatesKept /\ torn' = torn BY <1>6, TaskStates DEF SendsAgain, Kept
  <2>2. "pass" \in Task /\ Others \in Seq(Write) BY <1>6, SendsAgainFacts, HeadTypes DEF Task
  <2>3. w.at \notin {"newJob", "prevHash"} BY <1>6, SendsAgainFacts
  <2> QED BY <1>2, <1>3, <1>6, <2>1, <2>2, <2>3, SendsAgainFacts, HeardSent, AfterChannel
          DEF HeardTips
<1>7. CASE GoesOn
  <2>1. StatesKept /\ torn' = torn BY <1>7, TaskStates DEF GoesOn, Kept
  <2> QED BY <1>3, <1>7, <2>1, HeardGoesOn, AfterChannel DEF HeardTips
<1>8. CASE Vanishes
  <2>1. Open' = {} BY <1>8, GoneChannels DEF Vanishes
  <2> QED BY <2>1 DEF HeardTips
<1>9. ASSUME NEW left \in 0..MaxChunk, OpenChannel(left) PROVE HeardTips'
  <2>1. PICK c \in Channel, d \in Difficulty :
           /\ channels[c].state = "absent"
           /\ channels' = [channels EXCEPT ![c] = OpenedState(d)]
           /\ destroyed => UNCHANGED <<writes, inbound, miner>>
           /\ ~destroyed =>
                /\ writes' = Append(writes, Waiting("inbound", "opened", c, None, None, FALSE))
                /\ miner' = HearTarget(c, d)
           /\ UNCHANGED torn
    BY <1>9, OpenChannelFacts
  <2>2. \A x \in Channel : miner'[x].tip = miner[x].tip BY <2>1, HearTargetTips
  <2>3. /\ channels'[c].activeTip = 0
        /\ \A x \in Channel : x # c => channels'[x] = channels[x]
    BY <2>1 DEF OpenedState, Absent, TypeOK
  <2>4. ~channels[c].ready /\ miner[c].tip = 0 BY <2>1 DEF Unready
  <2>5. ASSUME NEW x
        PROVE  /\ NoMove(writes', "prevHash", x) <=> NoMove(writes, "prevHash", x)
               /\ \A f : LastMove(writes', "prevHash", x, f) => LastMove(writes, "prevHash", x, f)
    <3> DEFINE e0 == Waiting("inbound", "opened", c, None, None, FALSE)
    <3>1. e0 \in Write /\ ~Moves(e0, "prevHash", x) BY NewWrites DEF Waiting, Moves
    <3>2. writes \in Seq(Write) /\ destroyed \in BOOLEAN BY DEF TypeOK
    <3>3. writes' = writes \/ writes' = Append(writes, e0) BY <2>1, <3>2
    <3> HIDE DEF e0
    <3> QED BY <3>1, <3>2, <3>3, QueueStill
  <2>6. NoMove(writes, "prevHash", c) /\ \A f : ~LastMove(writes, "prevHash", c, f)
    <3>1. NoMove(writes, "prevHash", c) BY <2>4 DEF NoMove, Moves, Unready, Sending
    <3> QED BY <3>1, NoneLast
  <2>7. HeardTip(c)' BY <2>2, <2>3, <2>4, <2>5, <2>6 DEF HeardTip
  <2>8. ASSUME NEW x \in Open' \ torn, x # c PROVE HeardTip(x)'
    <3>1. x \in Open \ torn /\ x \in Channel BY <2>3, <2>8 DEF Open
    <3>2. HeardTip(x) BY <3>1 DEF HeardTips
    <3>3. channels'[x].activeTip = channels[x].activeTip /\ miner'[x].tip = miner[x].tip
      BY <2>2, <2>3, <2>8, <3>1
    <3>4. NoMove(writes', "prevHash", x) <=> NoMove(writes, "prevHash", x) BY <2>5
    <3>5. \A f : LastMove(writes', "prevHash", x, f) => LastMove(writes, "prevHash", x, f)
      BY <2>5
    <3> QED BY <3>2, <3>3, <3>4, <3>5, HeardStill
  <2> QED BY <2>1, <2>7, <2>8 DEF HeardTips
<1>10. ASSUME NEW c \in Channel, Closes(c) PROVE HeardTips'
  <2>1. Open' \subseteq Open /\ UNCHANGED <<writes, miner, torn>>
        /\ \A x \in Channel : channels'[x].activeTip = channels[x].activeTip
    BY <1>10, ClosesFacts DEF Closes
  <2> QED BY <2>1, AfterChannel DEF HeardTips, HeardTip
<1>11. CASE Emit
  <2>1. StatesKept /\ torn' = torn BY <1>11, TaskStates, EmitFacts
  <2>2. PICK t \in Template :
           /\ Ready # {} => /\ Least(Ready) \in Channel
                            /\ SendJobs("broadcast", Least(Ready), t, writes, channels)
           /\ Ready = {} => UNCHANGED <<channels, miner, writes>>
    BY <1>11, EmitFacts
  <2>3. "broadcast" \in Task /\ writes \in Seq(Write) BY DEF Task, TypeOK
  <2>4. ASSUME NEW x \in Open \ torn PROVE HeardTip(x)'
    <3>1. x \in Channel /\ HeardTip(x) BY AfterChannel DEF HeardTips
    <3>2. CASE Ready # {} BY <1>2, <2>2, <2>3, <3>1, <3>2, HeardSent
    <3>3. CASE Ready = {} BY <2>2, <3>1, <3>3 DEF HeardTip
    <3> QED BY <3>2, <3>3
  <2> QED BY <1>3, <2>1, <2>4
<1>12. ASSUME Untouched, torn \subseteq torn',
              \A x \in Open \ torn' :
                /\ NoMove(writes', "prevHash", x) => NoMove(writes, "prevHash", x)
                /\ \A f : LastMove(writes', "prevHash", x, f) => LastMove(writes, "prevHash", x, f)
       PROVE  HeardTips'
  <2>1. Open' = Open BY <1>12 DEF Untouched, Open
  <2> QED BY <1>12, <2>1, HeardStill DEF Untouched, HeardTips
<1>13. ASSUME NEW i \in DOMAIN writes, Overtakes(i) PROVE HeardTips'
  <2>1. Untouched /\ torn \subseteq torn' BY <1>13 DEF Overtakes
  <2> QED BY <1>12, <1>13, <2>1, OvertakesMoves
<1>14. CASE Tears
  <2>1. Untouched /\ torn \subseteq torn' BY <1>14 DEF Tears, CutShort
  <2> QED BY <1>12, <1>14, <2>1, TearsMoves
<1> QED BY <1>1, <1>4, <1>5, <1>6, <1>7, <1>8, <1>9, <1>10, <1>11, <1>13, <1>14, StepKinds
        DEF StepKind, CalmKinds, Tears

-----------------------------------------------------------------------------
(* The order of the broadcasts.                                            *)

\* f has got as far as e, or further, on its way through the channels.
AsFar(f, e) ==
    f.channel > e.channel \/ (f.channel = e.channel /\ StageOf(f) >= StageOf(e))
Further(f, e) ==
    f.channel > e.channel \/ (f.channel = e.channel /\ StageOf(f) > StageOf(e))
Older(f, e) ==
    /\ Broadcast(f) /\ Broadcast(e)
    /\ f.template.tip < e.template.tip /\ e.template.clear

LEMMA StageNat == ASSUME NEW e PROVE StageOf(e) \in 0..2
BY DEF StageOf

LEMMA OrderedDull ==
    ASSUME NEW q \in Seq(Write), NEW e \in Write, Ordered(q), ~Broadcast(e)
    PROVE  Ordered(Append(q, e))
<1>1. \A i \in DOMAIN Append(q, e) : Broadcast(Append(q, e)[i]) =>
         i \in DOMAIN q /\ Append(q, e)[i] = q[i]
  BY QueueAppend
<1> QED BY <1>1 DEF Ordered, Ahead

LEMMA OrderedTail ==
    ASSUME NEW q \in Seq(Write), q # <<>>, Ordered(q)
    PROVE  Ordered(Tail(q))
<1> SUFFICES ASSUME NEW i \in DOMAIN Tail(q), NEW j \in DOMAIN Tail(q),
                    Broadcast(Tail(q)[i]), Broadcast(Tail(q)[j]),
                    Tail(q)[i].template.tip < Tail(q)[j].template.tip,
                    Tail(q)[j].template.clear
             PROVE  Ahead(Tail(q), i, j)
  BY DEF Ordered
<1>1. /\ i + 1 \in DOMAIN q /\ j + 1 \in DOMAIN q /\ i \in Nat /\ j \in Nat
      /\ Tail(q)[i] = q[i + 1] /\ Tail(q)[j] = q[j + 1]
  BY QueueTail
<1>2. Ahead(q, i + 1, j + 1) BY <1>1 DEF Ordered
<1>3. i + 1 < j + 1 => i < j BY <1>1
<1> QED BY <1>1, <1>2, <1>3 DEF Ahead

LEMMA OrderedNew ==
    ASSUME NEW q \in Seq(Write), NEW e \in Write, Ordered(q),
           \A f \in Entries(q) : (Older(f, e) => AsFar(f, e)) /\ (Older(e, f) => Further(e, f)),
           ~Older(e, e)
    PROVE  Ordered(Append(q, e))
<1> DEFINE p == Append(q, e)
<1> SUFFICES ASSUME NEW i \in DOMAIN p, NEW j \in DOMAIN p, Older(p[i], p[j])
             PROVE  Ahead(p, i, j)
  BY DEF Ordered, Older
<1>1. /\ Len(q) \in Nat
      /\ i \in 1..Len(q) \/ i = Len(q) + 1
      /\ j \in 1..Len(q) \/ j = Len(q) + 1
      /\ \A k \in 1..Len(q) : k \in DOMAIN q /\ p[k] = q[k] /\ q[k] \in Entries(q)
      /\ p[Len(q) + 1] = e
  BY QueueAppend DEF Entries
<1> HIDE DEF p
<1>2. CASE i \in 1..Len(q) /\ j \in 1..Len(q)
  <2>1. Ahead(q, i, j) BY <1>1, <1>2 DEF Ordered, Older
  <2> QED BY <1>1, <1>2, <2>1 DEF Ahead
<1>3. CASE i \in 1..Len(q) /\ j = Len(q) + 1
  <2>1. AsFar(p[i], p[j]) BY <1>1, <1>3
  <2>2. i < j BY <1>1, <1>3
  <2> QED BY <2>1, <2>2, StageNat DEF Ahead, AsFar
<1>4. CASE i = Len(q) + 1 /\ j \in 1..Len(q)
  <2>1. Further(p[i], p[j]) BY <1>1, <1>4
  <2> QED BY <2>1 DEF Ahead, Further
<1>5. CASE i = Len(q) + 1 /\ j = Len(q) + 1
  BY <1>1, <1>5
<1> QED BY <1>1, <1>2, <1>3, <1>4, <1>5

LEMMA OrderedHead ==
    ASSUME NEW q \in Seq(Write), q # <<>>, Ordered(q), NEW f \in Entries(Tail(q))
    PROVE  (Older(q[1], f) => AsFar(q[1], f)) /\ (Older(f, q[1]) => Further(f, q[1]))
<1>1. PICK k \in DOMAIN Tail(q) : Tail(q)[k] = f BY DEF Entries
<1>2. k + 1 \in DOMAIN q /\ q[k + 1] = f /\ 1 \in DOMAIN q /\ 1 < k + 1 /\ ~(k + 1 < 1)
  BY <1>1, QueueTail
<1>3. Older(q[1], f) => Ahead(q, 1, k + 1) BY <1>2 DEF Ordered, Older
<1>4. Older(f, q[1]) => Ahead(q, k + 1, 1) BY <1>2 DEF Ordered, Older
<1> QED BY <1>2, <1>3, <1>4, StageNat DEF Ahead, AsFar, Further

\* What Shape says of a broadcast.
LEMMA BroadcastShape ==
    ASSUME TypeOK, Shape, NEW e \in Entries(writes), Broadcast(e)
    PROVE  /\ e.template \in Template /\ e.template.tip \in Nat /\ e.channel \in Channel
           /\ latest # None /\ latest \in Template /\ latest.tip \in Nat
           /\ e.template.tip <= latest.tip /\ Sending(e)
<1>1. Shaped(e, latest, nextJobId) BY EntryShape
<1>2. e.template \in Template /\ latest # None /\ e.channel \in Channel /\ Sending(e)
      /\ e.template.tip <= latest.tip
  BY <1>1 DEF Shaped, Broadcast
<1>3. latest \in Template BY <1>2 DEF TypeOK
<1> QED BY <1>2, <1>3 DEF Template

LEMMA NoBroadcasts ==
    ASSUME NEW ready, NEW newest, NEW said PROVE Broadcasts(<<>>, ready, newest, said)
BY EntriesEmpty, EmptySeq DEF Broadcasts, Ordered, Followed

\* Appending something else, and the head going if it is no broadcast.
LEMMA BroadcastsDull ==
    ASSUME NEW q \in Seq(Write), NEW e \in Write, NEW ready, NEW newest, NEW said,
           Broadcasts(q, ready, newest, said), ~Broadcast(e)
    PROVE  Broadcasts(Append(q, e), ready, newest, said)
<1>1. Entries(Append(q, e)) = Entries(q) \union {e} BY EntriesAppend
<1>2. said => Followed(Append(q, e), newest) BY <1>1 DEF Followed, Broadcasts
<1> QED BY <1>1, <1>2, OrderedDull DEF Broadcasts

LEMMA BroadcastsTail ==
    ASSUME NEW q \in Seq(Write), q # <<>>, NEW ready, NEW newest, NEW said,
           Broadcasts(q, ready, newest, said), ~Broadcast(q[1])
    PROVE  Broadcasts(Tail(q), ready, newest, said)
<1>1. Entries(q) = Entries(Tail(q)) \union {q[1]} BY EntriesTail
<1>2. said => Followed(Tail(q), newest)
  <2> SUFFICES ASSUME said, NEW e \in Entries(Tail(q)), Broadcast(e), e.template.tip < newest.tip
               PROVE  \E f \in Entries(Tail(q)) : Broadcast(f) /\ f.template.tip = newest.tip
                                                   /\ f.template.clear
    BY DEF Followed
  <2>1. PICK f \in Entries(q) : Broadcast(f) /\ f.template.tip = newest.tip /\ f.template.clear
    BY <1>1 DEF Followed, Broadcasts
  <2> QED BY <1>1, <2>1
<1> QED BY <1>1, <1>2, OrderedTail DEF Broadcasts

\* The last channel of a broadcast: everything older has gone before.
LEMMA BroadcastsEnd ==
    ASSUME TypeOK, Shape, writes # <<>>, Broadcasts(writes, Ready, latest, Announced),
           Broadcast(w), w.at = "target", After(w.channel) = {}
    PROVE  Broadcasts(Others, Ready, latest, Announced)
<1>1. /\ writes \in Seq(Write) /\ w = writes[1] /\ Others = Tail(writes)
      /\ Entries(writes) = Entries(Others) \union {w}
  BY EntriesOthers, HeadTypes DEF Others, TypeOK
<1>2. Announced => Followed(Others, latest)
  <2> SUFFICES ASSUME Announced, NEW e \in Entries(Others), Broadcast(e),
                      e.template.tip < latest.tip
               PROVE  \E f \in Entries(Others) : Broadcast(f) /\ f.template.tip = latest.tip
                                                  /\ f.template.clear
    BY DEF Followed
  <2>1. PICK f \in Entries(writes) : Broadcast(f) /\ f.template.tip = latest.tip /\ f.template.clear
    BY <1>1 DEF Followed, Broadcasts
  <2>2. f # w
    <3> SUFFICES ASSUME f = w PROVE FALSE OBVIOUS
    <3>1. Older(e, w) BY <2>1 DEF Older
    <3>2. Further(e, w) BY <1>1, <3>1, OrderedHead DEF Broadcasts
    <3>3. StageOf(w) = 2 BY DEF StageOf
    <3>4. e.channel > w.channel BY <3>2, <3>3, StageNat DEF Further
    <3>5. e.channel \in Ready BY <1>1 DEF Broadcasts
    <3> QED BY <3>4, <3>5 DEF After
  <2> QED BY <1>1, <2>1, <2>2
<1> QED BY <1>1, <1>2, OrderedTail DEF Broadcasts

\* The task at the head goes on, maybe to another channel.
LEMMA BroadcastsOn ==
    ASSUME TypeOK, Shape, writes # <<>>, Broadcasts(writes, Ready, latest, Announced), NEW e \in Write,
           e.task = w.task, e.template = w.template,
           Broadcast(w) => e.channel \in Ready /\ Further(e, w),
           Broadcast(w) /\ w.template.clear =>
             \A f \in Entries(Others) :
               Broadcast(f) /\ f.channel \in Ready /\ Further(f, w) => AsFar(f, e)
    PROVE  Broadcasts(Append(Others, e), Ready, latest, Announced)
<1>1. /\ writes \in Seq(Write) /\ w = writes[1] /\ Others = Tail(writes) /\ Others \in Seq(Write)
      /\ Entries(writes) = Entries(Others) \union {w} /\ w \in Write
  BY EntriesOthers, HeadTypes DEF Others, TypeOK
<1>2. CASE ~Broadcast(w)
  <2>1. ~Broadcast(e) BY <1>2 DEF Broadcast
  <2> QED BY <1>1, <1>2, <2>1, BroadcastsTail, BroadcastsDull
<1>3. CASE Broadcast(w)
  <2>1. Broadcast(e) BY <1>3 DEF Broadcast
  <2>2. Entries(Append(Others, e)) = Entries(Others) \union {e} BY <1>1, EntriesAppend
  <2>3. ASSUME NEW f \in Entries(Others)
        PROVE  (Older(f, e) => AsFar(f, e)) /\ (Older(e, f) => Further(e, f))
    <3>1. (Older(w, f) => AsFar(w, f)) /\ (Older(f, w) => Further(f, w))
      BY <1>1, <2>3, OrderedHead DEF Broadcasts
    <3>2. Older(f, e) => AsFar(f, e)
      <4>1. Older(f, e) => Older(f, w) /\ w.template.clear /\ Broadcast(f)
        BY <1>3 DEF Older
      <4>2. Broadcast(f) => f.channel \in Ready BY <1>1, <2>3 DEF Broadcasts
      <4> QED BY <1>3, <2>3, <3>1, <4>1, <4>2
    <3>3. Older(e, f) => Further(e, f)
      <4>1. Older(e, f) => Older(w, f) BY <1>3 DEF Older
      <4>2. f \in Write BY <1>1, <2>3, EntriesOthers
      <4>3. /\ e.channel \in Channel \union {0} /\ w.channel \in Channel \union {0}
            /\ f.channel \in Channel \union {0}
        BY <1>1, <4>2 DEF Write
      <4>4. e.channel \in Int /\ w.channel \in Int /\ f.channel \in Int
        BY <4>3, Bounds DEF Channel
      <4> QED BY <1>3, <3>1, <4>1, <4>4, StageNat DEF Further, AsFar
    <3> QED BY <3>2, <3>3
  <2>4. ~Older(e, e)
    <3>1. w.template.tip \in Nat BY <1>1, <1>3, BroadcastShape
    <3> QED BY <3>1 DEF Older
  <2>5. Ordered(Others) BY <1>1, OrderedTail DEF Broadcasts
  <2>6. Ordered(Append(Others, e)) BY <1>1, <2>3, <2>4, <2>5, OrderedNew
  <2>7. Announced => Followed(Append(Others, e), latest)
    <3> SUFFICES ASSUME Announced, NEW g \in Entries(Append(Others, e)), Broadcast(g),
                        g.template.tip < latest.tip
                 PROVE  \E f \in Entries(Append(Others, e)) :
                          Broadcast(f) /\ f.template.tip = latest.tip /\ f.template.clear
      BY DEF Followed
    <3>1. PICK g2 \in Entries(writes) : Broadcast(g2) /\ g2.template.tip < latest.tip
      BY <1>1, <1>3, <2>2
    <3>2. PICK f \in Entries(writes) : Broadcast(f) /\ f.template.tip = latest.tip /\ f.template.clear
      BY <3>1 DEF Followed, Broadcasts
    <3> QED BY <1>1, <2>1, <2>2, <3>2
  <2>8. \A f \in Entries(Append(Others, e)) : Broadcast(f) => f.channel \in Ready
    BY <1>1, <1>3, <2>2 DEF Broadcasts
  <2> QED BY <2>6, <2>7, <2>8 DEF Broadcasts
<1> QED BY <1>2, <1>3

\* A template without clearJobs announces nothing: its tip is an announced one.
LEMMA SaidBefore ==
    ASSUME TypeOK, Shape, emitted < MaxTemplates, NEW t \in Following(latest), ~t.clear,
           latest' = t, cleared' = IF t.clear THEN t.tip ELSE cleared, Announced'
    PROVE  latest # None /\ t.tip = latest.tip /\ Announced
<1>1. cleared = t.tip BY DEF Announced
<1>2. latest = None => t.tip = 1 /\ cleared = 0 BY FollowingTemplates DEF Shape
<1>3. latest # None BY <1>1, <1>2
<1>4. /\ latest.tip \in Nat /\ cleared <= latest.tip /\ cleared \in Nat
      /\ t.tip = latest.tip \/ t.tip = latest.tip + 1
  BY <1>3, FollowingTemplates DEF Shape, TypeOK, Template
<1>5. t.tip = latest.tip BY <1>1, <1>4
<1> QED BY <1>1, <1>3, <1>5 DEF Announced

\* A template is emitted: everybody else on its way is as far as the first channel.
LEMMA BroadcastsNew ==
    ASSUME TypeOK, Shape, Broadcasts(writes, Ready, latest, Announced), emitted < MaxTemplates,
           NEW t \in Following(latest), NEW e \in Write, Broadcast(e), e.template = t,
           e.channel \in Ready, \A c \in Ready : e.channel <= c, StageOf(e) = 0,
           latest' = t, cleared' = IF t.clear THEN t.tip ELSE cleared
    PROVE  Broadcasts(Append(writes, e), Ready, t, Announced')
<1>1. /\ t \in Template /\ t.tip \in Nat
      /\ latest # None => t.tip = latest.tip \/ t.tip = latest.tip + 1
  BY FollowingTemplates DEF Template
<1>2. writes \in Seq(Write) /\ Entries(Append(writes, e)) = Entries(writes) \union {e}
  BY EntriesAppend DEF TypeOK
<1>3. \A f \in Entries(writes) : Broadcast(f) =>
         /\ f.template.tip \in Nat /\ latest # None /\ latest.tip \in Nat
         /\ f.template.tip <= latest.tip /\ f.channel \in Ready
  BY BroadcastShape DEF Broadcasts
<1>4. ASSUME NEW f \in Entries(writes)
      PROVE  (Older(f, e) => AsFar(f, e)) /\ (Older(e, f) => Further(e, f))
  <2>1. Broadcast(f) => AsFar(f, e)
    <3>1. Broadcast(f) => f.channel \in Ready /\ e.channel <= f.channel BY <1>3
    <3>2. \A c \in Ready : c \in Int BY AfterChannel, Bounds DEF Channel
    <3> QED BY <3>1, <3>2, StageNat DEF AsFar
  <2>2. ~Older(e, f) BY <1>1, <1>3 DEF Older
  <2> QED BY <2>1, <2>2 DEF Older
<1>5. Ordered(Append(writes, e))
  <2>1. ~Older(e, e) BY <1>1 DEF Older
  <2> QED BY <1>2, <1>4, <2>1, OrderedNew DEF Broadcasts
<1>6. Announced' => Followed(Append(writes, e), t)
  <2> SUFFICES ASSUME Announced', NEW g \in Entries(Append(writes, e)), Broadcast(g),
                      g.template.tip < t.tip
               PROVE  \E f \in Entries(Append(writes, e)) :
                        Broadcast(f) /\ f.template.tip = t.tip /\ f.template.clear
    BY DEF Followed
  <2>1. g \in Entries(writes) BY <1>1, <1>2
  <2>2. CASE t.clear BY <1>2, <2>2
  <2>3. CASE ~t.clear
    <3>1. latest # None /\ t.tip = latest.tip /\ Announced BY <2>3, SaidBefore
    <3> QED BY <1>2, <2>1, <3>1 DEF Followed, Broadcasts
  <2> QED BY <2>2, <2>3
<1>7. \A f \in Entries(Append(writes, e)) : Broadcast(f) => f.channel \in Ready
  BY <1>2 DEF Broadcasts
<1> QED BY <1>5, <1>6, <1>7 DEF Broadcasts

LEMMA BroadcastsCalm ==
    ASSUME TypeOK, Shape, Calm, Broadcasts(writes, Ready, latest, Announced)
    PROVE  Broadcasts(writes', Ready, latest, Announced)
<1>1. PICK rest \in Seq(Write) :
         /\ Rest(rest)
         /\ writes' = rest \/ \E e : Dull(e) /\ writes' = Append(rest, e)
  BY DEF Calm
<1>2. Broadcasts(rest, Ready, latest, Announced)
  <2>1. CASE rest = writes BY <2>1
  <2>2. CASE /\ writes # <<>> /\ rest = Others
             /\ w.at \in {"act2", "answered", "target", "retarget"}
             /\ w.at = "target" /\ Broadcast(w) => After(w.channel) = {}
    <3>1. w = writes[1] /\ Others = Tail(writes) /\ writes \in Seq(Write)
          /\ Shaped(w, latest, nextJobId)
      BY <2>2, HeadTypes DEF Others, TypeOK
    <3>2. CASE Broadcast(w)
      <4>1. w.at = "target" BY <2>2, <3>1, <3>2 DEF Shaped, Sending, Broadcast
      <4> QED BY <2>2, <3>2, <4>1, BroadcastsEnd
    <3>3. CASE ~Broadcast(w) BY <2>2, <3>1, <3>3, BroadcastsTail
    <3> QED BY <3>2, <3>3
  <2> QED BY <1>1, <2>1, <2>2 DEF Rest
<1>3. CASE writes' = rest BY <1>2, <1>3
<1>4. ASSUME NEW e, Dull(e), writes' = Append(rest, e)
      PROVE  Broadcasts(writes', Ready, latest, Announced)
  BY <1>2, <1>4, BroadcastsDull DEF Dull
<1> QED BY <1>1, <1>3, <1>4

LEMMA BroadcastsReady ==
    ASSUME NEW q, NEW ready, NEW ready2, NEW newest, NEW said, Broadcasts(q, ready, newest, said),
           ready \subseteq ready2
    PROVE  Broadcasts(q, ready2, newest, said)
BY DEF Broadcasts

\* Who is ready after a step that sends a job.
LEMMA ReadySent ==
    ASSUME NEW task \in Task, NEW c \in Channel, NEW t \in Template, NEW rest, NEW known,
           TypeOK, SameJobs(known), SendJobs(task, c, t, rest, known),
           \A x \in Channel : /\ known[x].state = channels[x].state
                              /\ known[x].ready <=> channels[x].ready \/ x = c
    PROVE  /\ Open' = Open /\ Ready \subseteq Ready'
           /\ channels[c].ready => Ready' = Ready
           /\ \A x \in Ready' : x \in Ready \/ x = c
<1>1. \A x \in Channel : /\ channels'[x].state = channels[x].state
                         /\ channels'[x].ready = known[x].ready
  BY SendJobsFields
<1>2. Open' = Open BY <1>1 DEF Open
<1> QED BY <1>1, <1>2, AfterChannel DEF Ready

\* Moving an entry to the front changes nothing if no broadcast passes another.
LEMMA BroadcastsForward ==
    ASSUME TypeOK, NEW i \in DOMAIN writes, Passed(i) = {}, NEW ready, NEW newest, NEW said,
           Broadcasts(writes, ready, newest, said)
    PROVE  Broadcasts(Forward(writes, i), ready, newest, said)
<1> DEFINE f == Forward(writes, i)
<1>1. writes \in Seq(Write) BY DEF TypeOK
<1>2. Entries(f) = Entries(writes) BY <1>1, ForwardEntries
<1>3. DOMAIN writes = 1..Len(writes) /\ Len(writes) \in Nat BY <1>1, QueueForward
<1>4. \A k \in DOMAIN writes : k < i /\ Broadcast(writes[k]) => ~Broadcast(writes[i])
  BY <1>3 DEF Passed, Broadcast
<1>5. /\ DOMAIN f = DOMAIN writes
      /\ \A k \in DOMAIN writes : Source(i, k) \in DOMAIN writes /\ f[k] = writes[Source(i, k)]
  BY <1>1, QueueForward
<1>6. \A k \in DOMAIN writes : Place(i, Source(i, k)) = k BY <1>1, QueueForward
<1>7. \A j, k \in DOMAIN writes : j < k /\ k # i => Place(i, j) < Place(i, k)
  BY <1>1, QueueForward
<1> HIDE DEF f
<1>8. Ordered(f)
  <2> SUFFICES ASSUME NEW a \in DOMAIN f, NEW b \in DOMAIN f, Broadcast(f[a]), Broadcast(f[b]),
                      f[a].template.tip < f[b].template.tip, f[b].template.clear
               PROVE  Ahead(f, a, b)
    BY DEF Ordered
  <2>1. PICK s \in DOMAIN writes : f[a] = writes[s] /\ Place(i, s) = a BY <1>5, <1>6
  <2>2. PICK r \in DOMAIN writes : f[b] = writes[r] /\ Place(i, r) = b BY <1>5, <1>6
  <2>3. Ahead(writes, s, r) BY <2>1, <2>2 DEF Broadcasts, Ordered
  <2>4. s < r => r # i BY <1>4, <2>1, <2>2
  <2>5. s < r => a < b BY <1>7, <2>1, <2>2, <2>4
  <2> QED BY <2>1, <2>2, <2>3, <2>5 DEF Ahead
<1>9. \A e \in Entries(f) : Broadcast(e) => e.channel \in ready BY <1>2 DEF Broadcasts
<1>10. said => Followed(f, newest) BY <1>2 DEF Broadcasts, Followed
<1>11. Broadcasts(f, ready, newest, said) BY <1>8, <1>9, <1>10 DEF Broadcasts
<1> QED BY <1>11 DEF f

LEMMA OrderStep ==
    ASSUME TypeOK, Shape, OneInbound, Unready, BroadcastOrder, [Next]_vars
    PROVE  BroadcastOrder'
<1>1. CASE CalmKinds
  <2>1. Calm /\ Kept /\ Ready' = Ready BY <1>1, CalmFacts, TipsKeptReady DEF Calm
  <2>2. Announced' = Announced BY <2>1 DEF Kept, Announced
  <2> QED BY <2>1, <2>2, BroadcastsCalm DEF BroadcastOrder, Kept
<1>2. SameJobs(channels) /\ {"broadcast", "inbound", "pass"} \subseteq Task
  BY DEF TypeOK, SameJobs, Task
<1>3. ASSUME writes # <<>>, ~Broadcast(w), Kept, Ready \subseteq Ready',
             Broadcasts(writes, Ready, latest, Announced),
             writes' = Others \/ \E e \in Write : ~Broadcast(e) /\ writes' = Append(Others, e)
      PROVE  Broadcasts(writes', Ready', latest', Announced')
  <2>1. /\ writes \in Seq(Write) /\ w = writes[1] /\ Others = Tail(writes) /\ Others \in Seq(Write)
    BY <1>3, HeadTypes DEF Others, TypeOK
  <2>2. Broadcasts(Others, Ready', latest, Announced)
    BY <1>3, <2>1, BroadcastsTail, BroadcastsReady
  <2>3. latest' = latest /\ Announced' = Announced BY <1>3 DEF Kept, Announced
  <2> QED BY <1>3, <2>1, <2>2, <2>3, BroadcastsDull
<1>4. CASE SendsFirst
  <2>1. /\ writes # <<>> /\ w.channel \in Channel /\ w.task = "inbound" /\ SameJobs(MadeReady)
        /\ Kept /\ Others \in Seq(Write)
        /\ \A x \in Channel : /\ MadeReady[x].state = channels[x].state
                              /\ MadeReady[x].ready = (IF x = w.channel THEN TRUE ELSE channels[x].ready)
    BY <1>4, SendsFirstFacts, HeadTypes
  <2>2. \A x \in Channel : channels[x].ready \in BOOLEAN BY DEF TypeOK, ChannelState
  <2>3. ~Broadcast(w) BY <2>1 DEF Broadcast
  <2>4. /\ Ready \subseteq Ready'
        /\ writes' = Others \/ \E e \in Write : ~Broadcast(e) /\ writes' = Append(Others, e)
    <3>1. CASE latest # None
      <4>1. latest \in Template /\ SendJobs("inbound", w.channel, latest, Others, MadeReady)
            /\ "inbound" \in Task
        BY <1>4, <3>1, SendsFirstFacts DEF Task
      <4>2. Ready \subseteq Ready' BY <2>1, <2>2, <4>1, ReadySent
      <4>3. /\ SentWrite("inbound", w.channel, latest, MadeReady) \in Write
            /\ writes' = Append(Others, SentWrite("inbound", w.channel, latest, MadeReady))
        BY <2>1, <4>1, SendJobsFacts
      <4>4. ~Broadcast(SentWrite("inbound", w.channel, latest, MadeReady))
        BY SentFields DEF Broadcast
      <4> QED BY <4>2, <4>3, <4>4
    <3>2. CASE latest = None
      <4>1. writes' = Others /\ channels' = MadeReady BY <1>4, <3>2, SendsFirstFacts
      <4> QED BY <2>1, <4>1 DEF Ready, Open
    <3> QED BY <3>1, <3>2
  <2>5. overtaken' = overtaken BY <2>1 DEF Kept
  <2> QED BY <1>3, <2>1, <2>3, <2>4, <2>5 DEF BroadcastOrder
<1>5. CASE SendsAgain
  <2>1. /\ writes # <<>> /\ w.channel \in Channel /\ w.task = "pass" /\ Others \in Seq(Write)
        /\ "pass" \in Task /\ Cleared \in Template
        /\ SendJobs("pass", w.channel, Cleared, Others, channels) /\ w.at = "retarget"
        /\ w \in Entries(writes)
    BY <1>5, SendsAgainFacts, HeadTypes, EntriesOthers DEF Task
  <2>2. Kept /\ ~Broadcast(w) BY <1>5, <2>1 DEF SendsAgain, Broadcast
  <2>3. channels[w.channel].ready BY <2>1 DEF Unready
  <2>4. Ready \subseteq Ready' BY <1>2, <2>1, <2>3, ReadySent
  <2>5. /\ SentWrite("pass", w.channel, Cleared, channels) \in Write
        /\ writes' = Append(Others, SentWrite("pass", w.channel, Cleared, channels))
    BY <1>2, <2>1, SendJobsFacts
  <2>6. ~Broadcast(SentWrite("pass", w.channel, Cleared, channels))
    BY SentFields DEF Broadcast
  <2>7. overtaken' = overtaken BY <2>2 DEF Kept
  <2> QED BY <1>3, <2>1, <2>2, <2>4, <2>5, <2>6, <2>7 DEF BroadcastOrder
<1>6. CASE SendsOn
  <2> DEFINE c == Least(After(w.channel))
             e == SentWrite("broadcast", c, w.template, channels)
  <2>1. /\ writes # <<>> /\ w.at = "target" /\ Broadcast(w) /\ w.template \in Template
        /\ c \in After(w.channel) /\ \A d \in After(w.channel) : c <= d
        /\ c \in Ready /\ c \in Channel /\ w.channel \in Channel
        /\ SendJobs("broadcast", c, w.template, Others, channels)
        /\ Others \in Seq(Write) /\ "broadcast" \in Task
    BY <1>6, SendsOnFacts, HeadTypes DEF Task
  <2>2. Kept BY <1>6 DEF SendsOn
  <2>3. channels[c].ready BY <2>1 DEF Ready
  <2>4. Ready' = Ready BY <1>2, <2>1, <2>3, ReadySent
  <2>5. e \in Write /\ writes' = Append(Others, e) BY <1>2, <2>1, SendJobsFacts
  <2>6. e.task = "broadcast" /\ e.at = "newJob" /\ e.channel = c /\ e.template = w.template
    BY SentFields
  <2> HIDE DEF c, e
  <2>7. \A x \in Channel : x \in Int BY Bounds DEF Channel
  <2>8. c > w.channel BY <2>1 DEF After
  <2>9. e.task = w.task BY <2>1, <2>6 DEF Broadcast
  <2>10. e.channel \in Ready /\ Further(e, w) BY <2>1, <2>6, <2>8 DEF Further
  <2>11. ASSUME NEW f, f.channel \in Ready, Further(f, w) PROVE AsFar(f, e)
    <3>1. StageOf(w) = 2 /\ StageOf(e) = 0 BY <2>1, <2>6 DEF StageOf
    <3>2. f.channel > w.channel BY <2>11, <3>1, StageNat DEF Further
    <3>3. f.channel \in After(w.channel) /\ f.channel \in Channel
      BY <2>11, <3>2, AfterChannel DEF After
    <3>4. c <= f.channel BY <2>1, <3>3
    <3> QED BY <2>1, <2>6, <2>7, <3>1, <3>3, <3>4, StageNat DEF AsFar
  <2>12. ASSUME ~overtaken PROVE Broadcasts(writes', Ready, latest, Announced)
    BY <2>1, <2>5, <2>6, <2>9, <2>10, <2>11, <2>12, BroadcastsOn DEF BroadcastOrder
  <2>13. Announced' = Announced BY <2>2 DEF Kept, Announced
  <2> QED BY <2>2, <2>4, <2>12, <2>13 DEF BroadcastOrder, Kept
<1>7. CASE GoesOn
  <2>1. /\ writes # <<>> /\ w.channel \in Channel /\ Kept
        /\ Shaped(w, latest, nextJobId) /\ w \in Entries(writes)
    BY <1>7, GoesOnFacts, HeadTypes, EntriesOthers
  <2>2. PICK at \in {"prevHash", "target"} :
           /\ Onward(at) \in Write /\ writes' = Append(Others, Onward(at))
           /\ Onward(at).at = at /\ Onward(at).task = w.task /\ Onward(at).channel = w.channel
           /\ Onward(at).template = w.template
           /\ at = "prevHash" => w.at = "newJob"
           /\ at = "target" => (w.at = "newJob" /\ ~w.newTip) \/ w.at = "prevHash"
    BY <1>7, GoesOnFacts
  <2>3. Ready' = Ready
    <3>1. \A x \in Channel : /\ channels'[x].state = channels[x].state
                             /\ channels'[x].ready = channels[x].ready
      <4>1. CASE JobWritten BY <4>1 DEF JobWritten
      <4>2. CASE PrevHashWritten BY <2>1, <4>2, PrevHashWrittenFacts
      <4> QED BY <1>7, <4>1, <4>2 DEF GoesOn
    <3> QED BY <3>1 DEF Ready, Open
  <2>4. StageOf(Onward(at)) > StageOf(w) BY <2>2 DEF StageOf
  <2>5. Further(Onward(at), w) BY <2>2, <2>4 DEF Further
  <2>6. ASSUME Broadcast(w), w.template.clear PROVE StageOf(Onward(at)) = StageOf(w) + 1
    <3>1. w.newTip BY <2>1, <2>6 DEF Shaped, Broadcast
    <3> QED BY <2>2, <3>1 DEF StageOf
  <2>7. ASSUME Broadcast(w), w.template.clear, NEW f, Further(f, w)
        PROVE  AsFar(f, Onward(at))
    <3>1. StageOf(Onward(at)) = StageOf(w) + 1 BY <2>6, <2>7
    <3> QED BY <2>2, <2>7, <3>1, StageNat DEF Further, AsFar
  <2>8. ASSUME ~overtaken PROVE Broadcasts(writes', Ready, latest, Announced)
    <3>1. Broadcast(w) => Onward(at).channel \in Ready
      BY <2>1, <2>2, <2>8 DEF BroadcastOrder, Broadcasts
    <3>2. Broadcasts(writes, Ready, latest, Announced) BY <2>8 DEF BroadcastOrder
    <3> QED BY <2>1, <2>2, <2>5, <2>7, <3>1, <3>2, BroadcastsOn
  <2>9. Announced' = Announced BY <2>1 DEF Kept, Announced
  <2> QED BY <2>1, <2>3, <2>8, <2>9 DEF BroadcastOrder, Kept
<1>8. CASE Vanishes
  BY <1>8, NoBroadcasts DEF Vanishes, BroadcastOrder
<1>9. ASSUME NEW left \in 0..MaxChunk, OpenChannel(left) PROVE BroadcastOrder'
  <2>1. PICK c \in Channel, d \in Difficulty :
           /\ channels[c].state = "absent"
           /\ channels' = [channels EXCEPT ![c] = OpenedState(d)]
           /\ destroyed => UNCHANGED <<writes, inbound, miner>>
           /\ ~destroyed =>
                writes' = Append(writes, Waiting("inbound", "opened", c, None, None, FALSE))
           /\ UNCHANGED <<latest, overtaken, torn, cleared>>
    BY <1>9, OpenChannelFacts
  <2>2. \A x \in Channel : x # c => channels'[x] = channels[x]
    BY <2>1 DEF TypeOK
  <2>3. Ready \subseteq Ready' BY <2>1, <2>2 DEF Ready, Open
  <2>4. ASSUME ~overtaken PROVE Broadcasts(writes', Ready', latest, Announced)
    <3> DEFINE e0 == Waiting("inbound", "opened", c, None, None, FALSE)
    <3>1. e0 \in Write /\ ~Broadcast(e0) BY NewWrites DEF Waiting, Broadcast
    <3>2. writes \in Seq(Write) /\ destroyed \in BOOLEAN BY DEF TypeOK
    <3>3. writes' = writes \/ writes' = Append(writes, e0) BY <2>1, <3>2
    <3>4. Broadcasts(writes, Ready', latest, Announced)
      BY <2>3, <2>4, BroadcastsReady DEF BroadcastOrder
    <3> HIDE DEF e0
    <3> QED BY <3>1, <3>2, <3>3, <3>4, BroadcastsDull
  <2>5. Announced' = Announced BY <2>1 DEF Announced
  <2> QED BY <2>1, <2>4, <2>5 DEF BroadcastOrder
<1>10. ASSUME NEW c \in Channel, Closes(c) PROVE BroadcastOrder'
  <2>1. /\ UNCHANGED <<writes, latest, cleared>> /\ Ready' = Ready \ {c}
        /\ overtaken' = (overtaken \/ \E i \in DOMAIN writes :
                           writes[i].task = "broadcast" /\ writes[i].channel = c)
    BY <1>10, ClosesFacts DEF Closes
  <2>2. ASSUME ~overtaken' PROVE Broadcasts(writes, Ready \ {c}, latest, Announced)
    <3>1. ~overtaken /\ \A e \in Entries(writes) : Broadcast(e) => e.channel # c
      BY <2>1, <2>2 DEF Entries, Broadcast
    <3> QED BY <3>1 DEF BroadcastOrder, Broadcasts
  <2>3. Announced' = Announced BY <2>1 DEF Announced
  <2> QED BY <2>1, <2>2, <2>3 DEF BroadcastOrder
<1>11. CASE Emit
  <2>1. PICK t \in Template :
           /\ t \in Following(latest)
           /\ latest' = t /\ emitted < MaxTemplates
           /\ Ready # {} => /\ Least(Ready) \in Ready /\ Least(Ready) \in Channel
                            /\ \A c \in Ready : Least(Ready) <= c
                            /\ SendJobs("broadcast", Least(Ready), t, writes, channels)
           /\ Ready = {} => UNCHANGED <<channels, nextJobId, miner, writes>>
           /\ overtaken' = (overtaken /\ writes # <<>>)
           /\ cleared' = IF t.clear THEN t.tip ELSE cleared
    BY <1>11, EmitFacts
  <2>2. ASSUME ~overtaken' PROVE Broadcasts(writes, Ready, latest, Announced)
    <3>1. CASE writes = <<>> BY <3>1, NoBroadcasts
    <3>2. CASE ~overtaken BY <3>2 DEF BroadcastOrder
    <3> QED BY <2>1, <2>2, <3>1, <3>2
  <2>3. CASE Ready # {}
    <3> DEFINE c == Least(Ready)
               e == SentWrite("broadcast", c, t, channels)
    <3>1. "broadcast" \in Task /\ channels[c].ready BY <2>1, <2>3 DEF Task, Ready
    <3>2. Ready' = Ready BY <1>2, <2>1, <2>3, <3>1, ReadySent
    <3>3. e \in Write /\ writes' = Append(writes, e) BY <1>2, <2>1, <2>3, <3>1, SendJobsFacts
    <3>4. e.task = "broadcast" /\ e.at = "newJob" /\ e.channel = c /\ e.template = t
      BY SentFields
    <3>5. Broadcast(e) /\ StageOf(e) = 0 BY <3>4 DEF Broadcast, StageOf
    <3> HIDE DEF e
    <3> QED BY <2>1, <2>2, <2>3, <3>2, <3>3, <3>4, <3>5, BroadcastsNew DEF BroadcastOrder
  <2>4. CASE Ready = {}
    <3>1. Ready' = {} /\ writes' = writes BY <2>1, <2>4 DEF Ready, Open
    <3>2. ASSUME Broadcasts(writes, {}, latest, Announced)
          PROVE  Broadcasts(writes, {}, t, Announced')
      BY <3>2 DEF Broadcasts, Followed
    <3> QED BY <2>1, <2>2, <2>4, <3>1, <3>2 DEF BroadcastOrder
  <2> QED BY <2>3, <2>4
<1>12. ASSUME NEW i \in DOMAIN writes, Overtakes(i) PROVE BroadcastOrder'
  <2>1. /\ writes' = Forward(writes, i) /\ Ready' = Ready /\ latest' = latest
        /\ Announced' = Announced
    BY <1>12 DEF Overtakes, Untouched, Ready, Open, Announced
  <2>2. ASSUME ~overtaken' PROVE Broadcasts(writes', Ready, latest, Announced)
    <3>1. ~overtaken /\ Passed(i) = {} BY <1>12, <2>2 DEF Overtakes
    <3>2. Broadcasts(writes, Ready, latest, Announced) BY <3>1 DEF BroadcastOrder
    <3> QED BY <2>1, <3>1, <3>2, BroadcastsForward
  <2> QED BY <2>1, <2>2 DEF BroadcastOrder
<1>13. CASE Tears
  <2>1. /\ writes # <<>> /\ ~Broadcast(w) /\ writes' = Others /\ Ready' = Ready
        /\ latest' = latest /\ Announced' = Announced /\ overtaken' = overtaken
    BY <1>13 DEF Tears, CutShort, Untouched, Ready, Open, Announced, Broadcast
  <2>2. writes \in Seq(Write) /\ w = writes[1] /\ Others = Tail(writes)
    BY <2>1, HeadTypes DEF Others, TypeOK
  <2> QED BY <2>1, <2>2, BroadcastsTail DEF BroadcastOrder
<1> QED BY <1>1, <1>4, <1>5, <1>6, <1>7, <1>8, <1>9, <1>10, <1>11, <1>12, <1>13, StepKinds
        DEF StepKind, CalmKinds, Tears

-----------------------------------------------------------------------------
(* Every ready channel ends on the latest tip, or is brought it.           *)

LEMMA EndsStill ==
    ASSUME NEW x, EndsOn(x, latest.tip), latest'.tip = latest.tip, miner'[x].tip = miner[x].tip,
           NoMove(writes', "newJob", x) => NoMove(writes, "newJob", x),
           \A f : LastMove(writes', "newJob", x, f) => LastMove(writes, "newJob", x, f)
    PROVE  EndsOn(x, latest.tip)'
BY DEF EndsOn

LEMMA EndsNow ==
    ASSUME NEW x, NEW q \in Seq(Write), NEW e \in Write, Moves(e, "newJob", x),
           e.template.tip = latest'.tip, writes' = Append(q, e)
    PROVE  EndsOn(x, latest.tip)'
BY NowLast DEF EndsOn

\* What brought the channel the tip still does, or goes on in another entry.
LEMMA BringsStill ==
    ASSUME NEW x, NEW e, Brings(e, x), NEW f \in Entries(writes'), latest'.tip = latest.tip,
           Broadcast(f), f.channel < x, f.template = e.template,
           NoMove(writes, "newJob", x) => NoMove(writes', "newJob", x),
           NoMove(writes, "prevHash", x) => NoMove(writes', "prevHash", x)
    PROVE  Arrives(x)'
<1>1. Brings(f, x)' BY DEF Brings
<1> QED BY <1>1 DEF Arrives

\* A channel to which the job that is sent brings no new tip.
LEMMA EndsSent ==
    ASSUME TypeOK, NEW task \in Task, NEW c \in Channel, NEW t \in Template,
           NEW rest \in Seq(Write), NEW known, SameJobs(known),
           SendJobs(task, c, t, rest, known),
           rest = writes \/ (writes # <<>> /\ rest = Others /\ w.at \notin {"newJob", "prevHash"}),
           NEW x \in Channel, x # c \/ ~NewTip(c, t, known), latest'.tip = latest.tip,
           EndsOn(x, latest.tip)
    PROVE  EndsOn(x, latest.tip)'
<1>1. /\ NoMove(writes', "newJob", x) <=> NoMove(writes, "newJob", x)
      /\ \A f : LastMove(writes', "newJob", x, f) => LastMove(writes, "newJob", x, f)
  BY SentStill
<1>2. miner'[x].tip = miner[x].tip BY SendJobsFields
<1> QED BY <1>1, <1>2, EndsStill

LEMMA BringsSent ==
    ASSUME TypeOK, NEW task \in Task, NEW c \in Channel, NEW t \in Template,
           NEW rest \in Seq(Write), NEW known, SameJobs(known),
           SendJobs(task, c, t, rest, known),
           rest = writes \/ (writes # <<>> /\ rest = Others /\ w.at \notin {"newJob", "prevHash"}),
           NEW x \in Channel, x # c \/ ~NewTip(c, t, known), latest'.tip = latest.tip,
           NEW f \in Entries(writes), Brings(f, x),
           \/ f \in Entries(rest)
           \/ f = w /\ task = "broadcast" /\ t = w.template /\ c < x
    PROVE  Arrives(x)'
<1>1. /\ NoMove(writes', "newJob", x) <=> NoMove(writes, "newJob", x)
      /\ NoMove(writes', "prevHash", x) <=> NoMove(writes, "prevHash", x)
  BY SentStill
<1>2. Entries(writes') = Entries(rest) \union {SentWrite(task, c, t, known)} BY SentEntries
<1>3. CASE f \in Entries(rest)
  <2>1. f \in Entries(writes') BY <1>2, <1>3
  <2>2. Broadcast(f) /\ f.channel < x BY DEF Brings
  <2> QED BY <1>1, <2>1, <2>2, BringsStill
<1>4. CASE f = w /\ task = "broadcast" /\ t = w.template /\ c < x
  <2>1. /\ Broadcast(SentWrite(task, c, t, known))
        /\ SentWrite(task, c, t, known).channel < x
        /\ SentWrite(task, c, t, known).template = f.template
    BY <1>4, SentFields DEF Broadcast
  <2>2. SentWrite(task, c, t, known) \in Entries(writes') BY <1>2
  <2> QED BY <1>1, <2>1, <2>2, BringsStill
<1> QED BY <1>3, <1>4

\* The channel to which it does is told of it.
LEMMA EndsTold ==
    ASSUME TypeOK, NEW task \in Task, NEW c \in Channel, NEW t \in Template,
           NEW rest \in Seq(Write), NEW known, SameJobs(known),
           SendJobs(task, c, t, rest, known), NewTip(c, t, known), t.tip = latest'.tip
    PROVE  EndsOn(c, latest.tip)'
<1>1. /\ SentWrite(task, c, t, known) \in Write
      /\ writes' = Append(rest, SentWrite(task, c, t, known))
  BY SendJobsFacts
<1>2. /\ Moves(SentWrite(task, c, t, known), "newJob", c)
      /\ SentWrite(task, c, t, known).template.tip = latest'.tip
  BY SentFields DEF Moves
<1> QED BY <1>1, <1>2, EndsNow

LEMMA ArrivingCalm == ASSUME TypeOK, Shape, Arriving, Calm PROVE Arriving'
<1>1. TipsKept /\ Kept /\ Ready' = Ready BY TipsKeptReady DEF Calm
<1> SUFFICES ASSUME Announced, ~overtaken, ~destroyed, NEW x \in Ready \ torn
             PROVE  Arrives(x)'
  BY <1>1 DEF Arriving, Kept, Announced
<1>2. Arrives(x) /\ x \in Channel /\ latest'.tip = latest.tip
  BY <1>1, AfterChannel DEF Arriving, Kept
<1>3. \A at \in {"newJob", "prevHash"} :
        /\ NoMove(writes', at, x) <=> NoMove(writes, at, x)
        /\ \A f : LastMove(writes', at, x, f) => LastMove(writes, at, x, f)
  BY CalmStill
<1>4. CASE EndsOn(x, latest.tip)
  <2>1. miner'[x].tip = miner[x].tip BY <1>1, <1>2 DEF TipsKept
  <2> QED BY <1>2, <1>3, <1>4, <2>1, EndsStill DEF Arrives
<1>5. ASSUME NEW e \in Entries(writes), Brings(e, x) PROVE Arrives(x)'
  <2>1. Broadcast(e) /\ e.channel < x /\ Sending(e) BY <1>5, BroadcastShape DEF Brings
  <2>2. e \in Entries(writes')
    <3>1. ~(/\ e = w /\ w.at \in {"act2", "answered", "target", "retarget"}
            /\ w.at = "target" /\ Broadcast(w) => After(w.channel) = {})
      <4>1. x > e.channel BY <1>2, <1>5, <2>1, BroadcastShape, Bounds DEF Channel
      <4>2. x \in After(e.channel) BY <4>1 DEF After
      <4> QED BY <2>1, <4>2 DEF Sending
    <3> QED BY <3>1, CalmEntries
  <2> QED BY <1>2, <1>3, <1>5, <2>1, <2>2, BringsStill
<1> QED BY <1>2, <1>4, <1>5 DEF Arrives

\* A channel that opened is sent the latest template.
LEMMA ArrivingFirst == ASSUME TypeOK, Shape, Unready, Arriving, SendsFirst PROVE Arriving'
<1>1. /\ writes # <<>> /\ w.at = "opened" /\ w.task = "inbound"
      /\ w.channel \in Channel /\ SameJobs(MadeReady)
      /\ \A x \in Channel : /\ MadeReady[x].state = channels[x].state
                            /\ MadeReady[x].ready = (IF x = w.channel THEN TRUE ELSE channels[x].ready)
                            /\ MadeReady[x].activeTip = channels[x].activeTip
      /\ Kept /\ Others \in Seq(Write) /\ "inbound" \in Task
  BY SendsFirstFacts, HeadTypes DEF Task
<1> SUFFICES ASSUME Announced, ~overtaken, ~destroyed, NEW x \in Ready' \ torn
             PROVE  Arrives(x)'
  BY <1>1 DEF Arriving, Kept, Announced
<1>2. latest \in Template /\ SendJobs("inbound", w.channel, latest, Others, MadeReady)
  BY SendsFirstFacts DEF Announced
<1>3. \A y \in Channel : channels[y].ready \in BOOLEAN BY DEF TypeOK, ChannelState
<1>4. (x \in Ready \/ x = w.channel) /\ x \in Channel /\ latest' = latest
  BY <1>1, <1>2, <1>3, ReadySent, AfterChannel DEF Kept
<1>5. CASE x = w.channel
  <2>1. channels[x].activeTip = 0
    <3>1. w \in Entries(writes) BY <1>1, EntriesOthers
    <3> QED BY <1>1, <1>5, <3>1 DEF Unready
  <2>2. NewTip(w.channel, latest, MadeReady)
    <3>1. latest.tip # 0 BY <1>2, Bounds DEF Template
    <3> QED BY <1>1, <1>5, <2>1, <3>1 DEF NewTip
  <2> QED BY <1>1, <1>2, <1>4, <1>5, <2>2, EndsTold DEF Arrives
<1>6. CASE x # w.channel
  <2>1. Arrives(x) BY <1>4, <1>6 DEF Arriving
  <2>2. CASE EndsOn(x, latest.tip)
    BY <1>1, <1>2, <1>4, <1>6, <2>2, EndsSent DEF Arrives
  <2>3. ASSUME NEW f \in Entries(writes), Brings(f, x) PROVE Arrives(x)'
    <3>1. f # w BY <1>1, <2>3 DEF Brings, Broadcast
    <3>2. f \in Entries(Others) BY <1>1, <3>1, EntriesOthers
    <3> QED BY <1>1, <1>2, <1>4, <1>6, <2>3, <3>2, BringsSent
  <2> QED BY <2>1, <2>2, <2>3 DEF Arrives
<1> QED BY <1>5, <1>6

\* So is the channel of a pass that has changed its target.
LEMMA ArrivingAgain == ASSUME TypeOK, Shape, Unready, Arriving, SendsAgain PROVE Arriving'
<1>1. /\ writes # <<>> /\ w.channel \in Channel /\ w.task = "pass" /\ Others \in Seq(Write)
      /\ "pass" \in Task /\ Cleared \in Template /\ Cleared.tip = latest.tip /\ Cleared.clear
      /\ SendJobs("pass", w.channel, Cleared, Others, channels) /\ w.at = "retarget"
      /\ w \in Entries(writes) /\ SameJobs(channels) /\ Kept
  BY SendsAgainFacts, HeadTypes, EntriesOthers DEF Task, SendsAgain, TypeOK, SameJobs
<1>2. channels[w.channel].ready BY <1>1 DEF Unready
<1>3. Ready' = Ready BY <1>1, <1>2, ReadySent
<1> SUFFICES ASSUME Announced, ~overtaken, ~destroyed, NEW x \in Ready \ torn
             PROVE  Arrives(x)'
  BY <1>1, <1>3 DEF Arriving, Kept, Announced
<1>4. Arrives(x) /\ x \in Channel /\ latest' = latest BY <1>1, AfterChannel DEF Arriving, Kept
<1>5. CASE x = w.channel
  <2>1. NewTip(w.channel, Cleared, channels) BY <1>1 DEF NewTip
  <2> QED BY <1>1, <1>4, <1>5, <2>1, EndsTold DEF Arrives
<1>6. CASE x # w.channel
  <2>2. CASE EndsOn(x, latest.tip)
    BY <1>1, <1>4, <1>6, <2>2, EndsSent DEF Arrives
  <2>3. ASSUME NEW f \in Entries(writes), Brings(f, x) PROVE Arrives(x)'
    <3>1. f # w BY <1>1, <2>3 DEF Brings, Broadcast
    <3>2. f \in Entries(Others) BY <1>1, <3>1, EntriesOthers
    <3> QED BY <1>1, <1>4, <1>6, <2>3, <3>2, BringsSent
  <2> QED BY <1>4, <2>2, <2>3 DEF Arrives
<1> QED BY <1>5, <1>6

(* A broadcast goes to its next channel.  An older one is followed by the  *)
(* one that brought the latest tip, which comes to the channel later.      *)
LEMMA ArrivingOn ==
    ASSUME TypeOK, Shape, Unready, HeardTips, BroadcastOrder, Arriving, SendsOn PROVE Arriving'
<1> DEFINE c == Least(After(w.channel))
<1>1. /\ writes # <<>> /\ w.at = "target" /\ Broadcast(w) /\ w.template \in Template
      /\ c \in After(w.channel) /\ \A d \in After(w.channel) : c <= d
      /\ c \in Ready /\ c \in Channel /\ w.channel \in Channel
      /\ SendJobs("broadcast", c, w.template, Others, channels)
      /\ Others \in Seq(Write) /\ "broadcast" \in Task /\ SameJobs(channels)
      /\ w \in Entries(writes) /\ writes \in Seq(Write) /\ w = writes[1] /\ Others = Tail(writes)
  BY SendsOnFacts, HeadTypes, EntriesOthers DEF Task, TypeOK, SameJobs, Others
<1> HIDE DEF c
<1>2. Kept BY DEF SendsOn
<1>3. channels[c].ready BY <1>1 DEF Ready
<1>4. Ready' = Ready BY <1>1, <1>3, ReadySent
<1> SUFFICES ASSUME Announced, ~overtaken, ~destroyed, NEW x \in Ready \ torn
             PROVE  Arrives(x)'
  BY <1>2, <1>4 DEF Arriving, Kept, Announced
<1>5. Arrives(x) /\ x \in Channel /\ latest' = latest BY <1>2, AfterChannel DEF Arriving, Kept
<1>6. \A y \in Channel : y \in Nat BY Bounds DEF Channel
<1>7. c > w.channel BY <1>1 DEF After
<1>8. CASE x # c
  <2>1. CASE EndsOn(x, latest.tip)
    BY <1>1, <1>5, <1>8, <2>1, EndsSent DEF Arrives
  <2>2. ASSUME NEW f \in Entries(writes), Brings(f, x) PROVE Arrives(x)'
    <3>1. CASE f \in Entries(Others)
      BY <1>1, <1>5, <1>8, <2>2, <3>1, BringsSent
    <3>2. CASE f = w
      <4>1. x > w.channel BY <1>1, <1>5, <1>6, <2>2, <3>2 DEF Brings
      <4>2. c <= x BY <1>1, <4>1 DEF After
      <4>3. c < x BY <1>1, <1>5, <1>6, <1>8, <4>2
      <4> QED BY <1>1, <1>5, <1>8, <2>2, <3>2, <4>3, BringsSent
    <3> QED BY <1>1, <3>1, <3>2, EntriesOthers
  <2> QED BY <1>5, <2>1, <2>2 DEF Arrives
<1>9. CASE x = c /\ NewTip(c, w.template, channels)
  <2>1. w.template.tip <= latest.tip /\ w.template.tip \in Nat /\ latest.tip \in Nat
    BY <1>1, BroadcastShape
  <2>2. CASE w.template.tip = latest.tip
    BY <1>1, <1>5, <1>9, <2>2, EndsTold DEF Arrives
  <2>3. CASE w.template.tip < latest.tip
    <3>1. PICK f \in Entries(writes) :
             Broadcast(f) /\ f.template.tip = latest.tip /\ f.template.clear
      BY <1>1, <2>3 DEF BroadcastOrder, Broadcasts, Followed
    <3>2. f # w /\ f \in Entries(Others) BY <1>1, <2>1, <2>3, <3>1, EntriesOthers
    <3>3. AsFar(w, f)
      <4>1. Older(w, f) BY <1>1, <2>3, <3>1 DEF Older
      <4>2. Ordered(writes) BY DEF BroadcastOrder, Broadcasts
      <4> QED BY <1>1, <3>2, <4>1, <4>2, OrderedHead
    <3>4. f.channel \in Channel BY <3>1, BroadcastShape
    <3>5. f.channel < c BY <1>1, <1>6, <1>7, <3>3, <3>4 DEF AsFar
    <3>6. Entries(writes') = Entries(Others) \union {SentWrite("broadcast", c, w.template, channels)}
      BY <1>1, SentEntries
    <3>7. Brings(f, x)' BY <1>5, <1>9, <3>1, <3>5 DEF Brings
    <3> QED BY <3>2, <3>6, <3>7 DEF Arrives
  <2> QED BY <2>1, <2>2, <2>3
<1>10. CASE x = c /\ ~NewTip(c, w.template, channels)
  <2>1. CASE EndsOn(x, latest.tip)
    BY <1>1, <1>5, <1>10, <2>1, EndsSent DEF Arrives
  <2>2. ASSUME NEW f \in Entries(writes), Brings(f, x) PROVE Arrives(x)'
    <3>1. CASE f \in Entries(Others)
      BY <1>1, <1>5, <1>10, <2>2, <3>1, BringsSent
    <3>2. CASE f = w
      <4>1. channels[c].activeTip = w.template.tip /\ ~w.template.clear
        BY <1>1, <1>10 DEF NewTip, Template
      <4>2. /\ NoMove(writes, "newJob", c) /\ NoMove(writes, "prevHash", c)
            /\ w.template.tip = latest.tip
        BY <1>10, <2>2, <3>2, <4>1 DEF Brings
      <4>3. HeardTip(c) BY <1>1, <1>10, AfterChannel DEF HeardTips, Ready
      <4>4. miner[c].tip = latest.tip BY <4>1, <4>2, <4>3 DEF HeardTip
      <4>5. EndsOn(x, latest.tip) BY <1>10, <4>2, <4>4, NoneLast DEF EndsOn
      <4> QED BY <2>1, <4>5
    <3> QED BY <1>1, <3>1, <3>2, EntriesOthers
  <2> QED BY <1>5, <2>1, <2>2 DEF Arrives
<1> QED BY <1>8, <1>9, <1>10

\* A task that is sending a job goes on: the tip arrives.
LEMMA ArrivingGoesOn ==
    ASSUME TypeOK, Shape, Arriving, GoesOn PROVE Arriving'
<1>1. /\ writes # <<>> /\ w.channel \in Channel /\ w.job.tip = w.template.tip /\ Kept
      /\ Others \in Seq(Write) /\ writes \in Seq(Write) /\ w = writes[1] /\ Others = Tail(writes)
      /\ Entries(writes) = Entries(Others) \union {w}
  BY GoesOnFacts, HeadTypes, EntriesOthers DEF Others, TypeOK
<1>2. PICK at \in {"prevHash", "target"} :
         /\ Onward(at) \in Write /\ writes' = Append(Others, Onward(at))
         /\ Onward(at).at = at /\ Onward(at).task = w.task /\ Onward(at).channel = w.channel
         /\ Onward(at).template = w.template /\ Onward(at).newTip = w.newTip
         /\ at = "prevHash" => JobWritten /\ w.at = "newJob" /\ w.newTip
         /\ at = "target" => \/ JobWritten /\ w.at = "newJob" /\ ~w.newTip
                             \/ PrevHashWritten /\ w.at = "prevHash" /\ w.newTip
  BY GoesOnFacts
<1>3. Entries(writes') = Entries(Others) \union {Onward(at)}
  BY <1>1, <1>2, EntriesAppend
<1>4. Ready' = Ready
  <2>1. \A x \in Channel : /\ channels'[x].state = channels[x].state
                           /\ channels'[x].ready = channels[x].ready
    <3>1. CASE JobWritten BY <3>1 DEF JobWritten
    <3>2. CASE PrevHashWritten BY <1>1, <3>2, PrevHashWrittenFacts
    <3> QED BY <3>1, <3>2 DEF GoesOn
  <2> QED BY <2>1 DEF Ready, Open
<1> SUFFICES ASSUME Announced, ~overtaken, ~destroyed, NEW x \in Ready \ torn
             PROVE  Arrives(x)'
  BY <1>1, <1>4 DEF Arriving, Kept, Announced
<1>5. Arrives(x) /\ x \in Channel /\ latest' = latest BY <1>1, AfterChannel DEF Arriving, Kept
<1>6. CASE at = "prevHash" /\ x = w.channel
  <2>1. Moves(w, "newJob", x) /\ ~Moves(Onward(at), "newJob", x) BY <1>2, <1>6 DEF Moves
  <2>2. miner'[x].tip = w.template.tip BY <1>1, <1>2, <1>6, JobWrittenFacts
  <2>3. CASE EndsOn(x, latest.tip)
    <3>1. /\ NoMove(writes', "newJob", x) => NoMove(Others, "newJob", x)
          /\ \A f : LastMove(writes', "newJob", x, f) => LastMove(Others, "newJob", x, f)
      BY <1>1, <1>2, <2>1, StillLast
    <3>2. /\ NoMove(Others, "newJob", x) => LastMove(writes, "newJob", x, w)
          /\ \A f : LastMove(Others, "newJob", x, f) => LastMove(writes, "newJob", x, f)
      BY <1>1, <2>1, LastBehindHead
    <3>3. EndsOn(x, latest.tip)' BY <1>5, <2>2, <2>3, <3>1, <3>2 DEF EndsOn
    <3> QED BY <3>3 DEF Arrives
  <2>4. ASSUME NEW f \in Entries(writes), Brings(f, x) PROVE Arrives(x)'
    <3>1. f.template.clear
      <4>1. ~NoMove(writes, "newJob", x) BY <1>1, <2>1 DEF NoMove
      <4> QED BY <2>4, <4>1 DEF Brings
    <3>2. f # w BY <1>1, <1>6, <2>4, Bounds DEF Brings, Channel
    <3>3. f \in Entries(writes') BY <1>1, <1>3, <3>2
    <3>4. Brings(f, x)' BY <1>5, <2>4, <3>1 DEF Brings
    <3> QED BY <3>3, <3>4 DEF Arrives
  <2> QED BY <1>5, <2>3, <2>4 DEF Arrives
<1>7. CASE at = "target" \/ x # w.channel
  <2>1. ~Moves(w, "newJob", x) /\ \A a \in {"newJob", "prevHash"} : ~Moves(Onward(at), a, x)
    BY <1>2, <1>7 DEF Moves
  <2>2. miner'[x].tip = miner[x].tip
    <3>1. CASE PrevHashWritten BY <1>1, <1>5, <3>1, PrevHashWrittenFacts
    <3>2. CASE JobWritten
      <4>1. w.at = "newJob" BY <3>2 DEF JobWritten
      <4>2. x # w.channel \/ ~w.newTip BY <1>2, <1>7, <4>1
      <4> QED BY <1>1, <1>5, <3>2, <4>2, JobWrittenFacts
    <3> QED BY <3>1, <3>2 DEF GoesOn
  <2>3. /\ NoMove(writes', "newJob", x) <=> NoMove(writes, "newJob", x)
        /\ \A f : LastMove(writes', "newJob", x, f) => LastMove(writes, "newJob", x, f)
    BY <1>1, <1>2, <2>1, QueueStill
  <2>4. NoMove(writes, "prevHash", x) => NoMove(writes', "prevHash", x)
    BY <1>1, <1>3, <2>1 DEF NoMove
  <2>5. CASE EndsOn(x, latest.tip)
    BY <1>5, <2>2, <2>3, <2>5, EndsStill DEF Arrives
  <2>6. ASSUME NEW f \in Entries(writes), Brings(f, x) PROVE Arrives(x)'
    <3>1. CASE f \in Entries(Others)
      <4>1. f \in Entries(writes') /\ Broadcast(f) /\ f.channel < x
        BY <1>3, <2>6, <3>1 DEF Brings
      <4> QED BY <1>5, <2>3, <2>4, <2>6, <4>1, BringsStill
    <3>2. CASE f = w
      <4>1. /\ Onward(at) \in Entries(writes') /\ Broadcast(Onward(at)) /\ Onward(at).channel < x
            /\ Onward(at).template = f.template
        BY <1>2, <1>3, <2>6, <3>2 DEF Brings, Broadcast
      <4> QED BY <1>5, <2>3, <2>4, <2>6, <4>1, BringsStill
    <3> QED BY <1>1, <3>1, <3>2
  <2> QED BY <1>5, <2>5, <2>6 DEF Arrives
<1> QED BY <1>2, <1>6, <1>7

\* A template is emitted: its broadcast comes to every ready channel.
LEMMA ArrivingEmit ==
    ASSUME TypeOK, Shape, HeardTips, Arriving, Emit PROVE Arriving'
<1>1. PICK t \in Template :
         /\ t \in Following(latest) /\ emitted < MaxTemplates
         /\ latest' = t
         /\ Ready # {} => /\ Least(Ready) \in Ready /\ Least(Ready) \in Channel
                          /\ \A c \in Ready : Least(Ready) <= c
                          /\ SendJobs("broadcast", Least(Ready), t, writes, channels)
         /\ Ready = {} => UNCHANGED <<channels, nextJobId, miner, writes>>
         /\ overtaken' = (overtaken /\ writes # <<>>)
         /\ cleared' = IF t.clear THEN t.tip ELSE cleared
         /\ ~destroyed /\ UNCHANGED <<destroyed, torn>>
  BY EmitFacts
<1>2. CASE Ready = {}
  <2>1. Ready' = {} BY <1>1, <1>2 DEF Ready, Open
  <2> QED BY <2>1 DEF Arriving
<1>3. CASE Ready # {}
  <2> DEFINE c == Least(Ready)
  <2>1. /\ c \in Ready /\ c \in Channel /\ (\A x \in Ready : c <= x) /\ "broadcast" \in Task
        /\ SameJobs(channels) /\ SendJobs("broadcast", c, t, writes, channels)
        /\ writes \in Seq(Write) /\ channels[c].ready
    BY <1>1, <1>3 DEF Task, SameJobs, TypeOK, Ready
  <2>2. PICK e \in Entries(writes') : e.task = "broadcast" /\ e.channel = c /\ e.template = t
    <3>1. Entries(writes') = Entries(writes) \union {SentWrite("broadcast", c, t, channels)}
      BY <2>1, SentEntries
    <3> QED BY <3>1, SentFields
  <2>3. Ready' = Ready BY <2>1, ReadySent
  <2> HIDE DEF c
  <2> SUFFICES ASSUME ~overtaken', Announced', NEW x \in Ready \ torn PROVE Arrives(x)'
    BY <1>1, <2>3 DEF Arriving
  <2>4. x \in Channel /\ c <= x /\ \A y \in Channel : y \in Nat
    BY <2>1, AfterChannel, Bounds DEF Channel
  <2>5. CASE x # c /\ t.clear
    <3>1. c < x BY <2>1, <2>4, <2>5
    <3>2. Brings(e, x)' BY <1>1, <2>2, <2>5, <3>1 DEF Brings, Broadcast
    <3> QED BY <2>2, <3>2 DEF Arrives
  <2>6. CASE x = c /\ NewTip(c, t, channels)
    BY <1>1, <2>1, <2>6, EndsTold DEF Arrives
  <2>7. CASE ~((x # c /\ t.clear) \/ (x = c /\ NewTip(c, t, channels)))
    <3>1. ~t.clear BY <2>5, <2>6, <2>7 DEF NewTip
    <3>2. t.tip = latest.tip /\ Announced BY <1>1, <3>1, SaidBefore
    <3>3. latest'.tip = latest.tip BY <1>1, <3>2
    <3>4. x # c \/ ~NewTip(c, t, channels) BY <2>7
    <3>5. CASE EndsOn(x, latest.tip)
      BY <2>1, <2>4, <3>3, <3>4, <3>5, EndsSent DEF Arrives
    <3>6. ASSUME NEW f \in Entries(writes), Brings(f, x) PROVE Arrives(x)'
      BY <2>1, <2>4, <3>3, <3>4, <3>6, BringsSent
    <3>7. CASE ~overtaken
      <4>1. Arrives(x) BY <1>1, <3>2, <3>7 DEF Arriving
      <4> QED BY <3>5, <3>6, <4>1 DEF Arrives
    <3>8. CASE writes = <<>>
      <4>1. \A a, y : NoMove(writes, a, y) BY <3>8, EntriesEmpty DEF NoMove
      <4>2. CASE x = c
        <5>1. channels[c].activeTip = t.tip BY <2>7, <4>2 DEF NewTip
        <5>2. HeardTip(c) BY <2>1, <4>2, AfterChannel DEF HeardTips, Ready
        <5>3. miner[c].tip = latest.tip BY <3>2, <4>1, <5>1, <5>2 DEF HeardTip
        <5>4. EndsOn(x, latest.tip) BY <4>1, <4>2, <5>3, NoneLast DEF EndsOn
        <5> QED BY <3>5, <5>4
      <4>3. CASE x # c
        <5>1. c < x BY <2>1, <2>4, <4>3
        <5>2. \A a \in {"newJob", "prevHash"} : NoMove(writes', a, x)
          <6>1. \A a \in {"newJob", "prevHash"} : NoMove(writes', a, x) <=> NoMove(writes, a, x)
            BY <2>1, <4>3, SentStill
          <6> QED BY <4>1, <6>1
        <5>3. Brings(e, x)' BY <1>1, <2>2, <5>1, <5>2 DEF Brings, Broadcast
        <5> QED BY <2>2, <5>3 DEF Arrives
      <4> QED BY <4>2, <4>3
    <3> QED BY <1>1, <3>7, <3>8
  <2> QED BY <2>5, <2>6, <2>7
<1> QED BY <1>2, <1>3

LEMMA ArrivingOpens ==
    ASSUME TypeOK, Shape, Unready, Arriving, NEW left \in 0..MaxChunk, OpenChannel(left)
    PROVE  Arriving'
<1>1. PICK c \in Channel, d \in Difficulty :
         /\ channels[c].state = "absent"
         /\ channels' = [channels EXCEPT ![c] = OpenedState(d)]
         /\ ~destroyed =>
              /\ writes' = Append(writes, Waiting("inbound", "opened", c, None, None, FALSE))
              /\ miner' = HearTarget(c, d)
         /\ UNCHANGED <<latest, destroyed, overtaken, torn, cleared>>
  BY OpenChannelFacts
<1> SUFFICES ASSUME Announced, ~overtaken, ~destroyed, NEW x \in Ready' \ torn
             PROVE  Arrives(x)'
  BY <1>1 DEF Arriving, Announced
<1>2. x \in Ready \ torn /\ x \in Channel
  <2>1. \A y \in Channel : y # c => channels'[y] = channels[y] BY <1>1 DEF TypeOK
  <2>2. channels'[c] = OpenedState(d) BY <1>1 DEF TypeOK
  <2>3. ~channels'[c].ready
    <3>1. OpenedState(d).ready = destroyed BY DEF OpenedState, Absent
    <3> QED BY <2>2, <3>1
  <2>4. x # c /\ x \in Channel BY <2>3 DEF Ready, Open
  <2> QED BY <2>1, <2>4 DEF Ready, Open
<1>3. Arrives(x) BY <1>2 DEF Arriving
<1>4. PICK e0 \in Write : /\ writes' = Append(writes, e0)
                          /\ \A at \in {"newJob", "prevHash"} : ~Moves(e0, at, x)
  <2>1. Waiting("inbound", "opened", c, None, None, FALSE) \in Write BY NewWrites
  <2>2. \A at : ~Moves(Waiting("inbound", "opened", c, None, None, FALSE), at, x)
    BY DEF Waiting, Moves
  <2> QED BY <1>1, <2>1, <2>2
<1>5. \A at \in {"newJob", "prevHash"} :
        /\ NoMove(writes', at, x) <=> NoMove(writes, at, x)
        /\ \A f : LastMove(writes', at, x, f) => LastMove(writes, at, x, f)
  <2>1. writes \in Seq(Write) BY DEF TypeOK
  <2> QED BY <1>4, <2>1, StillLast
<1>6. miner'[x].tip = miner[x].tip BY <1>1, <1>2, HearTargetTips
<1>7. CASE EndsOn(x, latest.tip) BY <1>1, <1>5, <1>6, <1>7, EndsStill DEF Arrives
<1>8. ASSUME NEW f \in Entries(writes), Brings(f, x) PROVE Arrives(x)'
  <2>1. f \in Entries(writes') BY <1>4, EntriesAppend DEF TypeOK
  <2>2. Broadcast(f) /\ f.channel < x BY <1>8 DEF Brings
  <2> QED BY <1>1, <1>5, <1>8, <2>1, <2>2, BringsStill
<1> QED BY <1>3, <1>7, <1>8 DEF Arrives

\* A step that changes the queue only, and keeps what moves x and the broadcasts.
LEMMA ArrivesStill ==
    ASSUME NEW x \in Ready, Arrives(x), TipsKept, latest' = latest,
           \A at \in {"newJob", "prevHash"} :
             /\ NoMove(writes', at, x) <=> NoMove(writes, at, x)
             /\ \A f : LastMove(writes', at, x, f) => LastMove(writes, at, x, f),
           \A e \in Entries(writes) : Broadcast(e) => e \in Entries(writes')
    PROVE  Arrives(x)'
<1>1. miner'[x].tip = miner[x].tip BY AfterChannel DEF TipsKept
<1>2. CASE EndsOn(x, latest.tip) BY <1>1, <1>2, EndsStill DEF Arrives
<1>3. ASSUME NEW e \in Entries(writes), Brings(e, x) PROVE Arrives(x)'
  <2>1. Broadcast(e) /\ e.channel < x /\ e \in Entries(writes') BY <1>3 DEF Brings
  <2> QED BY <1>3, <2>1, BringsStill
<1> QED BY <1>2, <1>3 DEF Arrives

LEMMA ArrivingStep ==
    ASSUME TypeOK, Shape, Unready, HeardTips, BroadcastOrder, Arriving, [Next]_vars
    PROVE  Arriving'
<1>1. CASE CalmKinds BY <1>1, CalmFacts, ArrivingCalm
<1>2. CASE SendsFirst BY <1>2, ArrivingFirst
<1>3. CASE SendsOn BY <1>3, ArrivingOn
<1>4. CASE SendsAgain BY <1>4, ArrivingAgain
<1>5. CASE GoesOn BY <1>5, ArrivingGoesOn
<1>6. CASE Vanishes BY <1>6 DEF Vanishes, Arriving
<1>7. ASSUME NEW left \in 0..MaxChunk, OpenChannel(left) PROVE Arriving'
  BY <1>7, ArrivingOpens
<1>8. ASSUME NEW c \in Channel, Closes(c) PROVE Arriving'
  <2>1. /\ UNCHANGED <<writes, latest, destroyed, torn, cleared, miner>> /\ Ready' \subseteq Ready
        /\ ~overtaken' => ~overtaken
    BY <1>8, ClosesFacts DEF Closes
  <2>2. \A x \in Ready : Arrives(x) => Arrives(x)'
    BY <2>1 DEF Arrives, EndsOn, Brings
  <2> QED BY <2>1, <2>2 DEF Arriving, Announced
<1>9. CASE Emit BY <1>9, ArrivingEmit
<1>10. ASSUME NEW i \in DOMAIN writes, Overtakes(i) PROVE Arriving'
  <2>1. /\ TipsKept /\ Ready' = Ready /\ torn \subseteq torn'
        /\ ~overtaken' => ~overtaken
        /\ UNCHANGED <<latest, destroyed, cleared>> /\ writes' = Forward(writes, i)
    <3>1. UNCHANGED <<channels, miner>> /\ torn \subseteq torn'
          /\ UNCHANGED <<latest, destroyed, cleared>> /\ writes' = Forward(writes, i)
      BY <1>10 DEF Overtakes, Untouched
    <3>2. ~overtaken' => ~overtaken BY <1>10 DEF Overtakes
    <3>3. Ready' = Ready BY <3>1 DEF Ready, Open
    <3> QED BY <3>1, <3>2, <3>3, UntouchedTips
  <2>2. Entries(writes') = Entries(writes)
    <3>1. writes \in Seq(Write) BY DEF TypeOK
    <3> QED BY <2>1, <3>1, ForwardEntries
  <2>3. ASSUME NEW x \in Ready \ torn', Arrives(x) PROVE Arrives(x)'
    <3>1. \A at \in {"newJob", "prevHash"} :
             /\ NoMove(writes', at, x) <=> NoMove(writes, at, x)
             /\ \A f : LastMove(writes', at, x, f) => LastMove(writes, at, x, f)
      BY <1>10, <2>3, OvertakesMoves
    <3> QED BY <2>1, <2>2, <2>3, <3>1, ArrivesStill
  <2>4. Announced' = Announced BY <2>1 DEF Announced
  <2>5. SUFFICES ASSUME Announced, ~overtaken, ~destroyed, NEW x \in Ready \ torn'
                 PROVE  Arrives(x)'
    BY <2>1, <2>4 DEF Arriving
  <2> QED BY <2>1, <2>3, <2>5 DEF Arriving
<1>11. CASE Tears
  <2>1. /\ TipsKept /\ Ready' = Ready /\ torn \subseteq torn' /\ overtaken' = overtaken
        /\ UNCHANGED <<latest, destroyed, cleared>> /\ writes' = Others
        /\ writes # <<>> /\ ~Broadcast(w)
    BY <1>11, UntouchedTips DEF Tears, CutShort, Untouched, Ready, Open, Broadcast
  <2>2. \A e \in Entries(writes) : Broadcast(e) => e \in Entries(writes')
    BY <2>1, EntriesOthers
  <2>3. \A x \in Ready \ torn' : Arrives(x) => Arrives(x)'
    BY <1>11, <2>1, <2>2, TearsMoves, ArrivesStill
  <2> QED BY <2>1, <2>3 DEF Arriving, Announced
<1> QED BY <1>1, <1>2, <1>3, <1>4, <1>5, <1>6, <1>7, <1>8, <1>9, <1>10, <1>11, StepKinds
        DEF StepKind, CalmKinds, Tears

\* What holds of the tips, and of the broadcasts that bring them, in every state.
Tips == OneInbound /\ Unready /\ HeardTips /\ BroadcastOrder /\ Arriving

LEMMA TipsInit == Init => Tips
<1> SUFFICES ASSUME Init PROVE Tips
  OBVIOUS
<1>1. /\ writes = <<>> /\ latest = None /\ ~destroyed
      /\ \A c \in Channel : channels[c] = Absent /\ miner[c].tip = 0 /\ miner[c].job = 0
      /\ Entries(writes) = {}
  BY EntriesEmpty DEF Init
<1>2. Open = {} /\ Ready = {} BY <1>1 DEF Open, Ready, Absent
<1>3. OneInbound BY <1>1, EmptySeq DEF OneInbound, Chain
<1>4. Unready BY <1>1, <1>2 DEF Unready, Absent
<1>5. HeardTips BY <1>2 DEF HeardTips
<1>6. BroadcastOrder BY <1>1, NoBroadcasts DEF BroadcastOrder
<1>7. Arriving BY <1>1 DEF Arriving, Announced
<1> QED BY <1>3, <1>4, <1>5, <1>6, <1>7 DEF Tips

LEMMA TipsStep == ASSUME TypeOK, Shape, Tips, [Next]_vars PROVE Tips'
<1>1. OneInbound' BY OneInboundStep DEF Tips
<1>2. Unready' BY UnreadyStep DEF Tips
<1>3. HeardTips' BY HeardStep DEF Tips
<1>4. BroadcastOrder' BY OrderStep DEF Tips
<1>5. Arriving' BY ArrivingStep DEF Tips
<1> QED BY <1>1, <1>2, <1>3, <1>4, <1>5 DEF Tips

LEMMA TipsAlways == Spec => []Tips
<1>1. Init => Tips BY TipsInit
<1>2. TypeOK /\ Shape /\ JobSets /\ Tips /\ [Next]_vars => Tips' BY TipsStep
<1> QED BY <1>1, <1>2, Base, PTL DEF Spec

(* When no write is outstanding, every channel of a session that goes on   *)
(* works on the latest announced tip, however templates (StratumV2Client's *)
(* broadcastJob), openings and difficulty passes overlapped and resumed,   *)
(* but for the channels on which sends changed places or a pass was cut    *)
(* short.  A channel whose opening is answered is ready; what ends on the  *)
(* latest tip, or is brought it, has been told once nothing is left to     *)
(* write.                                                                  *)
THEOREM Settled == Spec => []SettledOnLatest
<1>1. TypeOK /\ Tips => SettledOnLatest
  <2> SUFFICES ASSUME TypeOK, Tips, writes = <<>>, Announced, ~overtaken, ~destroyed,
                      NEW c \in Open \ torn
               PROVE  channels[c].ready /\ miner[c].tip = latest.tip
    BY DEF SettledOnLatest
  <2>1. Entries(writes) = {} BY EntriesEmpty
  <2>2. channels[c].ready BY <2>1 DEF Tips, Unready
  <2>3. c \in Ready \ torn BY <2>2 DEF Ready
  <2>4. Arrives(c) BY <2>3 DEF Tips, Arriving
  <2>5. EndsOn(c, latest.tip) BY <2>1, <2>4 DEF Arrives
  <2>6. NoMove(writes, "newJob", c) BY <2>1 DEF NoMove
  <2> QED BY <2>2, <2>5, <2>6 DEF EndsOn
<1> QED BY <1>1, Base, TipsAlways, PTL

-----------------------------------------------------------------------------
(* What a quiet channel's miner was told.                                  *)

\* The miner is judged by the target it was told, from the moment a step changes it.
LEMMA TargetsStep == ASSUME TypeOK, Shape, Targets, [Next]_vars PROVE Targets'
<1>1. SameJobs(channels) /\ {"broadcast", "inbound", "pass"} \subseteq Task /\ Open \subseteq Channel
  BY AfterChannel DEF TypeOK, SameJobs, Task
<1>2. ASSUME StatesKept, destroyed' = destroyed,
             \A x \in Channel : \/ miner'[x].target = channels'[x].difficulty
                                \/ /\ miner'[x].target = miner[x].target
                                   /\ channels'[x].difficulty = channels[x].difficulty
      PROVE  Targets'
  <2>1. Open' = Open BY <1>2, OpenKept
  <2> SUFFICES ASSUME ~destroyed, NEW x \in Open
               PROVE  miner'[x].target = channels'[x].difficulty
    BY <1>2, <2>1 DEF Targets
  <2>2. miner[x].target = channels[x].difficulty BY DEF Targets
  <2> QED BY <1>1, <1>2, <2>2
<1>3. CASE Idles \/ Asks \/ Ends
  <2>1. StatesKept BY <1>3, TaskStates
  <2>2. UNCHANGED <<channels, miner, destroyed>>
    BY <1>3 DEF Idles, Asks, Ends, End, Untouched, Kept
  <2> QED BY <1>2, <2>1, <2>2
<1>4. ASSUME NEW c \in Channel, NEW d \in Difficulty,
             Updates(c, d) \/ Starts(c, d) \/ Continues(c, d)
      PROVE  Targets'
  <2>1. StatesKept BY <1>4, TaskStates
  <2>2. /\ channels' = [channels EXCEPT ![c].difficulty = d] /\ miner' = HearTarget(c, d)
        /\ destroyed' = destroyed
    BY <1>4 DEF Updates, Starts, Continues, Changes, Kept
  <2>3. \A x \in Channel :
          channels'[x].difficulty = IF x = c THEN d ELSE channels[x].difficulty
    <3>1. \A x \in Channel : channels[x] \in ChannelState BY DEF TypeOK
    <3> QED BY <2>2, <3>1 DEF TypeOK, ChannelState
  <2>4. \A x \in Channel : miner'[x].target = IF x = c THEN d ELSE miner[x].target
    BY <2>2, HearTargetTips
  <2> QED BY <1>2, <2>1, <2>2, <2>3, <2>4
<1>5. CASE SendsFirst
  <2>1. StatesKept BY <1>5, TaskStates
  <2>2. /\ w.channel \in Channel /\ SameJobs(MadeReady) /\ destroyed' = destroyed
        /\ \A x \in Channel : MadeReady[x].difficulty = channels[x].difficulty
    BY <1>5, SendsFirstFacts DEF Kept
  <2>3. \A x \in Channel : /\ miner'[x].target = miner[x].target
                           /\ channels'[x].difficulty = channels[x].difficulty
    <3>1. CASE latest # None
      <4>1. latest \in Template /\ SendJobs("inbound", w.channel, latest, Others, MadeReady)
        BY <1>5, <3>1, SendsFirstFacts
      <4> QED BY <1>1, <2>2, <4>1, SendJobsFields
    <3>2. CASE latest = None BY <1>5, <2>2, <3>2, SendsFirstFacts
    <3> QED BY <3>1, <3>2
  <2> QED BY <1>2, <2>1, <2>2, <2>3
<1>6. CASE SendsOn
  <2>1. StatesKept /\ destroyed' = destroyed BY <1>6, TaskStates DEF SendsOn, Kept
  <2> QED BY <1>1, <1>2, <1>6, <2>1, SendsOnFacts, SendJobsFields
<1>7. CASE SendsAgain
  <2>1. StatesKept /\ destroyed' = destroyed BY <1>7, TaskStates DEF SendsAgain, Kept
  <2> QED BY <1>1, <1>2, <1>7, <2>1, SendsAgainFacts, SendJobsFields
<1>8. CASE GoesOn
  <2>1. StatesKept /\ destroyed' = destroyed /\ w.channel \in Channel /\ w.newTip \in BOOLEAN
    BY <1>8, TaskStates, GoesOnFacts, HeadTypes DEF Kept, Write
  <2>2. CASE JobWritten BY <1>2, <2>1, <2>2, JobWrittenFacts
  <2>3. CASE PrevHashWritten BY <1>2, <2>1, <2>3, PrevHashWrittenFacts
  <2> QED BY <1>8, <2>2, <2>3 DEF GoesOn
<1>9. CASE Vanishes BY <1>9 DEF Vanishes, Targets
<1>10. ASSUME NEW left \in 0..MaxChunk, OpenChannel(left) PROVE Targets'
  <2>1. PICK c \in Channel, d \in Difficulty :
           /\ channels' = [channels EXCEPT ![c] = OpenedState(d)]
           /\ ~destroyed => miner' = HearTarget(c, d)
           /\ destroyed' = destroyed
    BY <1>10, OpenChannelFacts
  <2> SUFFICES ASSUME ~destroyed, NEW x \in Open'
               PROVE  miner'[x].target = channels'[x].difficulty
    BY <2>1 DEF Targets
  <2>2. x \in Channel BY DEF Open
  <2>3. miner'[x].target = IF x = c THEN d ELSE miner[x].target
    BY <2>1, <2>2, HearTargetTips
  <2>4. CASE x = c
    <3>1. channels'[c] = OpenedState(d) BY <2>1 DEF TypeOK
    <3> QED BY <2>3, <2>4, <3>1 DEF OpenedState, Absent
  <2>5. CASE x # c
    <3>1. channels'[x] = channels[x] BY <2>1, <2>2, <2>5 DEF TypeOK
    <3>2. x \in Open BY <2>2, <3>1 DEF Open
    <3> QED BY <2>3, <2>5, <3>1, <3>2 DEF Targets
  <2> QED BY <2>4, <2>5
<1>11. ASSUME NEW c \in Channel, Closes(c) PROVE Targets'
  <2>1. Open' \subseteq Open /\ UNCHANGED <<miner, destroyed>>
        /\ \A x \in Channel : channels'[x].difficulty = channels[x].difficulty
    BY <1>11, ClosesFacts DEF Closes
  <2> QED BY <1>1, <2>1 DEF Targets
<1>12. CASE Emit
  <2>1. StatesKept BY <1>12, TaskStates
  <2>2. PICK t \in Template :
           /\ Ready # {} => /\ Least(Ready) \in Channel
                            /\ SendJobs("broadcast", Least(Ready), t, writes, channels)
           /\ Ready = {} => UNCHANGED <<channels, miner>>
           /\ destroyed' = destroyed
    BY <1>12, EmitFacts
  <2>3. CASE Ready = {} BY <1>2, <2>1, <2>2, <2>3
  <2>4. CASE Ready # {} BY <1>1, <1>2, <2>1, <2>2, <2>4, SendJobsFields
  <2> QED BY <2>3, <2>4
<1>13. CASE CutShort \/ \E i \in DOMAIN writes : Overtakes(i)
  <2>1. UNCHANGED <<channels, miner, destroyed>>
    BY <1>13 DEF CutShort, Overtakes, Untouched
  <2> QED BY <1>2, <2>1 DEF StatesKept
<1> QED BY <1>3, <1>4, <1>5, <1>6, <1>7, <1>8, <1>9, <1>10, <1>11, <1>12, <1>13, StepKinds
        DEF StepKind

LEMMA TargetsAlways == Spec => []Targets
<1>1. Init => Targets BY DEF Init, Targets, Open, Absent
<1>2. TypeOK /\ Shape /\ JobSets /\ Targets /\ [Next]_vars => Targets' BY TargetsStep
<1> QED BY <1>1, <1>2, Base, PTL DEF Spec

(* Once nothing is being sent on a channel, or on its way to it, its miner *)
(* has the target it is judged by and is on the tip the service takes it   *)
(* to have (sendJobsForChannel, applyChannelDifficulty): however the tasks *)
(* of the session overlapped, and in whatever order their writes ended, if *)
(* no sends changed places on the channel and none was cut short.          *)
THEOREM QuietHeard ==
    Spec => [](\A c \in Ready : Quiet(c) /\ miner[c].job # 0 => Heard(c))
<1>1. TypeOK /\ Tips /\ Targets =>
        \A c \in Ready : Quiet(c) /\ miner[c].job # 0 => Heard(c)
  <2> SUFFICES ASSUME TypeOK, Tips, Targets, NEW c \in Ready, Quiet(c), miner[c].job # 0
               PROVE  Heard(c)
    OBVIOUS
  <2>1. c \in Open /\ c \in Channel BY AfterChannel
  <2>2. NoMove(writes, "prevHash", c) BY DEF Quiet, NoMove, Moves, Entries
  <2>3. c \notin torn => miner[c].tip = channels[c].activeTip
    BY <2>1, <2>2 DEF Tips, HeardTips, HeardTip
  <2>4. ~destroyed
    <3>1. destroyed \in BOOLEAN /\ (destroyed => miner[c].job = 0)
      BY <2>1 DEF TypeOK, Tips, Unready
    <3> QED BY <3>1
  <2>5. miner[c].target = channels[c].difficulty BY <2>1, <2>4 DEF Targets
  <2> QED BY <2>3, <2>5 DEF Heard
<1> QED BY <1>1, Base, TipsAlways, TargetsAlways, PTL
=============================================================================
