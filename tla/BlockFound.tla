----------------------------- MODULE BlockFound -----------------------------
(***************************************************************************)
(* What becomes of a share that solves a block, or that is the best of its *)
(* miner (handleMiningSubmission of StratumV1Client, the share handlers of *)
(* StratumV2Client).  The solution is sent to the node, recorded in the    *)
(* table of blocks and announced; the best difficulty of the session, of   *)
(* its row and of the payout address are brought up to date.               *)
(*                                                                         *)
(* Each session handles one message at a time.  Sessions of one process    *)
(* share the heights it has announced; sessions of all processes share the *)
(* table of blocks and the row of the address, which is one here, so that  *)
(* all sessions compete for its best.                                      *)
(***************************************************************************)
EXTENDS Integers

CONSTANTS
    Process,           \* worker processes
    Primary,           \* the process whose instance is 0: only it writes to Discord
    Session,           \* miners' sessions
    ProcessOf(_),      \* the process that serves the session
    IsV1(_),           \* whether it speaks Stratum V1
    Target(_),         \* its session difficulty
    NetworkDifficulty, \* a share of this difficulty solves a block
    MaxDifficulty,     \* bound: difficulty of a share
    MaxHeight,         \* bound: blocks of the chain
    MaxShares,         \* bound: shares submitted
    MaxFaults          \* bound: processes that crash, writes and accesses that fail

ASSUME ProcessAssumption ==
    /\ Primary \in Process
    /\ \A s \in Session : ProcessOf(s) \in Process /\ IsV1(s) \in BOOLEAN /\ Target(s) \in Nat
ASSUME BoundAssumption ==
    /\ NetworkDifficulty \in Nat /\ MaxDifficulty \in Nat \ {0} /\ MaxHeight \in Nat \ {0}
    /\ MaxShares \in Nat /\ MaxFaults \in Nat

VARIABLES
    tip,         \* height of the node's chain
    rows,        \* the heights blocks_entity has a row for
    best,        \* bestDifficulty of the address
    sessions,    \* what each session does with its share
    entityBest,  \* entity.bestDifficulty of each session
    notified,    \* notifiedBlockHeights of each process
    shares,      \* shares submitted so far
    faults,
    submitted,   \* history: calls of SUBMIT_BLOCK
    told,        \* history: how often a process told a channel of a height
    announced,   \* history: the heights some process announced
    cut,         \* history: the heights whose handler a crash ended before that
    crashes,     \* history: crashes of a process
    alerted,     \* history: alerts of a best difficulty, by difficulty
    behind       \* history: sessions whose best could not be stored for the address

node      == <<tip, submitted>>
announces == <<notified, told, announced, cut, crashes>>
bests     == <<best, entityBest, alerted, behind>>
vars == <<node, rows, sessions, shares, faults, announces, bests>>

-----------------------------------------------------------------------------
Height     == 1..MaxHeight
Difficulty == 1..MaxDifficulty
Channel    == {"discord", "telegram"}

\* A share's difficulty, and the height of its job's template.
Share   == [difficulty : Difficulty, height : Height]
NoShare == [difficulty |-> 1, height |-> 1]

\* judge: the message waits for its turn.  The other steps await something:
\* the answer of SV1, SUBMIT_BLOCK, existsByHeight, save, Discord and Telegram,
\* the entity with addShares, the row of the session, the row of the address.
Step == {"idle", "judge", "answer", "submit", "exists", "save", "notify", "telegram",
         "credit", "best", "address"}

Idle == [step |-> "idle", share |-> NoShare, result |-> "none", recorded |-> FALSE]
Handling == [step : Step, share : Share,
             result : {"none", "SUCCESS!", "rejected", "error"}, recorded : BOOLEAN]

Solves(share) == share.difficulty >= NetworkDifficulty

Init ==
    /\ tip = 0 /\ submitted = 0
    /\ rows = {}
    /\ best = 0
    /\ sessions = [s \in Session |-> Idle]
    /\ entityBest = [s \in Session |-> 0]
    /\ notified = [p \in Process |-> {}]
    /\ shares = 0 /\ faults = 0
    /\ told = [p \in Process |-> [c \in Channel |-> [h \in Height |-> 0]]]
    /\ announced = {} /\ cut = {} /\ crashes = 0
    /\ alerted = [d \in Difficulty |-> 0]
    /\ behind = {}

-----------------------------------------------------------------------------
(* A share comes in.                                                       *)

\* Somebody else finds a block.
NodeBlock ==
    /\ tip < MaxHeight
    /\ tip' = tip + 1
    /\ UNCHANGED <<submitted, rows, sessions, shares, faults, announces, bests>>

(* A share for the newest work or the work before it, of a job that is     *)
(* still on offer, and not sent before: handleMiningSubmission refuses     *)
(* others before it looks at their difficulty (V1Session, V2Channels).     *)
Submit(s, difficulty, height) ==
    /\ sessions[s].step = "idle"
    /\ shares < MaxShares
    /\ height \in {tip, tip + 1}
    /\ shares' = shares + 1
    /\ sessions' = [sessions EXCEPT ![s] =
         [Idle EXCEPT !.step = "judge",
                      !.share = [difficulty |-> difficulty, height |-> height]]]
    /\ UNCHANGED <<node, rows, faults, announces, bests>>

At(s, step) == sessions[s].step = step
Goto(s, step) == sessions' = [sessions EXCEPT ![s].step = step]
Done(s) == sessions' = [sessions EXCEPT ![s] = Idle]

\* A slip: a share of exactly the network's difficulty is no block.
NextStepAbove(share) == IF share.difficulty > NetworkDifficulty THEN "submit" ELSE "credit"

\* What follows once the share is accepted.
NextStep(share) == IF Solves(share) THEN "submit" ELSE "credit"

\* SV1 looks at the session's difficulty first, SV2 takes every solution.
Judge(s) ==
    LET share == sessions[s].share  meets == share.difficulty >= Target(s) IN
    /\ At(s, "judge")
    /\ IF IsV1(s)
         THEN IF meets THEN Goto(s, "answer") ELSE Done(s)
         ELSE IF meets \/ Solves(share) THEN Goto(s, NextStep(share)) ELSE Done(s)
    /\ UNCHANGED <<node, rows, shares, faults, announces, bests>>

\* The answer of SV1 is written.
Answered(s) ==
    /\ At(s, "answer")
    /\ Goto(s, NextStep(sessions[s].share))
    /\ UNCHANGED <<node, rows, shares, faults, announces, bests>>

\* The session ends with the handler; the next one of the miner begins with no best.
EndSession(s) ==
    /\ Done(s)
    /\ entityBest' = [entityBest EXCEPT ![s] = 0]
    /\ behind' = behind \ {s}
    /\ UNCHANGED <<best, alerted>>

\* The answer cannot be written: the handler returns, and the session is over.
AnswerFails(s) ==
    /\ At(s, "answer")
    /\ faults < MaxFaults
    /\ faults' = faults + 1
    /\ EndSession(s)
    /\ UNCHANGED <<node, rows, shares, announces>>

-----------------------------------------------------------------------------
(* The share solves a block.                                               *)

\* A slip: the node's null, which says that it took the block, is passed on.
AnswerOfNodeAsIs(accepted) == IF accepted THEN "null" ELSE "rejected"

\* SUBMIT_BLOCK turns the node's null into a text, so that it never returns null.
AnswerOfNode(accepted) == IF accepted THEN "SUCCESS!" ELSE "rejected"

\* The node takes a block that extends its chain.
Accepted(s) == sessions[s].share.height = tip + 1

SubmitBlock(s) ==
    /\ At(s, "submit")
    /\ tip' = IF Accepted(s) THEN tip + 1 ELSE tip
    /\ submitted' = submitted + 1
    /\ sessions' = [sessions EXCEPT ![s].step = "exists", ![s].result = AnswerOfNode(Accepted(s))]
    /\ UNCHANGED <<rows, shares, faults, announces, bests>>

\* The call fails or its answer is lost: the error is the result, there is no other attempt.
SubmitError(s) ==
    /\ At(s, "submit")
    /\ faults < MaxFaults
    /\ faults' = faults + 1
    /\ tip' \in {tip} \union (IF Accepted(s) THEN {tip + 1} ELSE {})
    /\ submitted' = submitted + 1
    /\ sessions' = [sessions EXCEPT ![s].step = "exists", ![s].result = "error"]
    /\ UNCHANGED <<rows, shares, announces, bests>>

\* existsByHeight
Exists(s) ==
    /\ At(s, "exists")
    /\ sessions' = [sessions EXCEPT ![s].step = "save",
                                    ![s].recorded = sessions[s].share.height \in rows]
    /\ UNCHANGED <<node, rows, shares, faults, announces, bests>>

\* A slip: the height is looked up behind the save.
SaveFirst(s) ==
    /\ At(s, "save")
    /\ rows' = rows \union {sessions[s].share.height}
    /\ sessions' = [sessions EXCEPT ![s].step = "notify",
                                    ![s].recorded = sessions[s].share.height \in rows']
    /\ UNCHANGED <<node, shares, faults, announces, bests>>

\* Every solution is saved, the heights are not unique.
Save(s) ==
    /\ At(s, "save")
    /\ rows' = rows \union {sessions[s].share.height}
    /\ Goto(s, "notify")
    /\ UNCHANGED <<node, shares, faults, announces, bests>>

\* Behind the announcement: a result of null clears the bests, then the share is
\* credited.  No result is null (AnswerOfNode), so that nothing is ever cleared.
GoOn(s) ==
    /\ sessions' = [sessions EXCEPT ![s] = [Idle EXCEPT !.step = "credit", !.share = sessions[s].share]]
    /\ best' = IF sessions[s].result = "null" THEN 0 ELSE best
    /\ UNCHANGED <<entityBest, alerted, behind>>

Tell(p, c, h) == told' = [told EXCEPT ![p][c][h] = @ + 1]

\* notifySubscribersBlockFound does nothing for a height it has seen.
AlreadyNotified(s) ==
    /\ At(s, "notify")
    /\ sessions[s].recorded \/ sessions[s].share.height \in notified[ProcessOf(s)]
    /\ GoOn(s)
    /\ UNCHANGED <<node, rows, shares, faults, announces>>

\* A slip: nothing but the row keeps a height from being announced again.
RememberedNever(s) == UNCHANGED notified

\* The height is remembered before anything is awaited.
Remembered(s) ==
    LET p == ProcessOf(s) IN
    notified' = [notified EXCEPT ![p] = @ \union {sessions[s].share.height}]

\* Discord's sendMany: only the primary instance sends; an error is only logged.
SendsDiscord(p) == p = Primary

\* Discord comes first.
Notify(s) ==
    LET p == ProcessOf(s)  h == sessions[s].share.height IN
    /\ At(s, "notify")
    /\ ~sessions[s].recorded /\ h \notin notified[p]
    /\ Remembered(s)
    /\ announced' = announced \union {h}
    /\ IF SendsDiscord(p) THEN Tell(p, "discord", h) ELSE UNCHANGED told
    /\ Goto(s, "telegram")
    /\ UNCHANGED <<node, rows, shares, faults, cut, crashes, bests>>

\* Then the subscribers on Telegram.
NotifyTelegram(s) ==
    LET p == ProcessOf(s)  h == sessions[s].share.height IN
    /\ At(s, "telegram")
    /\ Tell(p, "telegram", h)
    /\ GoOn(s)
    /\ UNCHANGED <<node, rows, shares, faults, notified, announced, cut, crashes>>

-----------------------------------------------------------------------------
(* The share is credited.                                                  *)

\* The entity and the statistics; then the session's best, if this is one.
Credit(s) ==
    /\ At(s, "credit")
    /\ IF sessions[s].share.difficulty > entityBest[s] THEN Goto(s, "best") ELSE Done(s)
    /\ UNCHANGED <<node, rows, shares, faults, announces, bests>>

\* The row of the session is stored; behind it the session remembers its best.
StoreBest(s) ==
    /\ At(s, "best")
    /\ entityBest' = [entityBest EXCEPT ![s] = sessions[s].share.difficulty]
    /\ Goto(s, "address")
    /\ UNCHANGED <<node, rows, shares, faults, announces, best, alerted, behind>>

\* A slip: every best of a session is written to the address.
HigherAlways(d) == TRUE

\* The condition of the UPDATE.
Higher(d) == best < d

\* updateBestDifficultyIfHigher; a row that was affected is an all-time high.
StoreAddressBest(s) ==
    LET d == sessions[s].share.difficulty IN
    /\ At(s, "address")
    /\ best' = IF Higher(d) THEN d ELSE best
    /\ alerted' = IF Higher(d) THEN [alerted EXCEPT ![d] = @ + 1] ELSE alerted
    /\ Done(s)
    /\ UNCHANGED <<node, rows, shares, faults, announces, entityBest, behind>>

-----------------------------------------------------------------------------
(* Failures and ends.                                                      *)

\* The database throws: the message fails, and the session is closed.
Throws(s) ==
    /\ sessions[s].step \in {"exists", "save", "telegram", "credit"}
         \union IF IsV1(s) THEN {"best", "address"} ELSE {}
    /\ faults < MaxFaults
    /\ faults' = faults + 1
    /\ EndSession(s)
    /\ UNCHANGED <<node, rows, shares, announces>>

\* SV2 catches what is thrown from addShares on: the share counts, its best is not stored.
Caught(s) ==
    /\ ~IsV1(s)
    /\ sessions[s].step \in {"credit", "best", "address"}
    /\ faults < MaxFaults
    /\ faults' = faults + 1
    /\ behind' = IF At(s, "address") THEN behind \union {s} ELSE behind
    /\ Done(s)
    /\ UNCHANGED <<node, rows, shares, announces, best, entityBest, alerted>>

\* The miner opens another session.
Reconnect(s) ==
    /\ At(s, "idle")
    /\ entityBest[s] # 0
    /\ EndSession(s)
    /\ UNCHANGED <<node, rows, shares, faults, announces>>

\* A process ends, with all its sessions, and is started again.
Crash(p) ==
    LET hit == {s \in Session : ProcessOf(s) = p} IN
    /\ faults < MaxFaults
    /\ faults' = faults + 1
    /\ sessions' = [s \in Session |-> IF s \in hit THEN Idle ELSE sessions[s]]
    /\ entityBest' = [s \in Session |-> IF s \in hit THEN 0 ELSE entityBest[s]]
    /\ notified' = [notified EXCEPT ![p] = {}]
    /\ told' = [told EXCEPT ![p] = [c \in Channel |-> [h \in Height |-> 0]]]
    /\ cut' = cut \union {sessions[s].share.height : s \in {t \in hit : At(t, "notify")}}
    /\ behind' = behind \ hit
    /\ crashes' = crashes + 1
    /\ UNCHANGED <<node, rows, shares, announced, best, alerted>>

Handle(s) ==
    \/ Judge(s) \/ Answered(s) \/ AnswerFails(s) \/ SubmitBlock(s) \/ SubmitError(s)
    \/ Exists(s) \/ Save(s) \/ AlreadyNotified(s) \/ Notify(s) \/ NotifyTelegram(s)
    \/ Credit(s) \/ StoreBest(s) \/ StoreAddressBest(s) \/ Throws(s) \/ Caught(s)

Next ==
    \/ NodeBlock
    \/ \E s \in Session :
         \/ Reconnect(s) \/ Handle(s)
         \/ \E d \in Difficulty, h \in Height : Submit(s, d, h)
    \/ \E p \in Process : Crash(p)

Spec == Init /\ [][Next]_vars

-----------------------------------------------------------------------------
TypeOK ==
    /\ tip \in 0..MaxHeight
    /\ rows \in SUBSET Height
    /\ best \in 0..MaxDifficulty
    /\ sessions \in [Session -> Handling]
    /\ entityBest \in [Session -> 0..MaxDifficulty]
    /\ notified \in [Process -> SUBSET Height]
    /\ shares \in 0..MaxShares
    /\ faults \in 0..MaxFaults
    /\ submitted \in Nat
    /\ told \in [Process -> [Channel -> [Height -> Nat]]]
    /\ announced \in SUBSET Height /\ cut \in SUBSET Height /\ crashes \in Nat
    /\ alerted \in [Difficulty -> Nat]
    /\ behind \in SUBSET Session

\* The session holds a solution that the node has not been given.
Holds(s) == Solves(sessions[s].share) /\ sessions[s].step \in {"judge", "answer", "submit"}

(* A solved block is given to the node, whatever else its handler awaits   *)
(* before: unless the process crashes, an SV1 answer cannot be written, or *)
(* an SV1 session's difficulty is above the network's, so that the share   *)
(* is refused (handleMiningSubmission, lines 697-703).                     *)
FoundIsSubmitted ==
    [][\A s \in Session : Holds(s) /\ ~Holds(s)' =>
         \/ submitted' > submitted
         \/ crashes' # crashes
         \/ At(s, "answer") /\ faults' # faults
         \/ IsV1(s) /\ sessions[s].share.difficulty < Target(s)]_vars

\* Its handler has saved the block and goes on to announce it.
Announces(s, h) == At(s, "notify") /\ ~sessions[s].recorded /\ sessions[s].share.height = h

(* A recorded block is announced, by one of the sessions that found it at  *)
(* about the same time, though each leaves it to those who recorded it     *)
(* before; unless a crash comes between the two (existsByHeight and save). *)
RecordedIsAnnounced ==
    \A h \in rows : h \in announced \union cut \/ \E s \in Session : Announces(s, h)

(* A process tells a channel of a height once, though two of its sessions  *)
(* look for the row before either has saved it, and Discord and Telegram   *)
(* are awaited (notifiedBlockHeights).                                     *)
ToldOnce ==
    \A p \in Process, c \in Channel, h \in Height : told[p][c][h] <= 1

(* The address's best is at least that of each session, in whatever order  *)
(* the sessions of all processes store theirs, and also behind a block the *)
(* node accepted; unless its own update is under way or has failed         *)
(* (updateBestDifficultyIfHigher).  The repository's test of a found block *)
(* expects the bests to be cleared then ("should submit and persist found  *)
(* blocks", StratumV1Client.spec.ts:705), with a mocked SUBMIT_BLOCK that  *)
(* answers nothing.  SUBMIT_BLOCK itself always answers something, so that *)
(* the clearing is not reached, and the bests outlive the block.           *)
AddressHasBest ==
    \A s \in Session : entityBest[s] <= best \/ At(s, "address") \/ s \in behind

(* An all-time high of the address is alerted once, however many sessions  *)
(* reach it, at the same time or after reconnecting (affected of the       *)
(* UPDATE, not the best of the session).                                   *)
RecordAlertedOnce ==
    \A d \in Difficulty : alerted[d] <= 1
=============================================================================
