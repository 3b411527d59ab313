# Lido, verified

A TLA+ model of Lido, the self-hosted solo Bitcoin pool in this repository
(NestJS on Node, Stratum V1 and V2, one SQLite database, optionally several PM2
processes), with its TLC configurations and TLAPS proofs.

The program is single-threaded: code between two `await`s runs as one step.
What goes wrong goes wrong *at* the awaits: a socket write, a database call or
an RPC lets another callback run on the same state. The models put one action
between two awaits, so TLC explores every interleaving Node can produce.

## 1. Inventory

| Part (source) | State it keeps | Operations | Talks to |
|---|---|---|---|
| Block watcher and template source, `services/bitcoin-rpc.service.ts` | `blockHeight`, `newBlock$` | poll by 500 ms timer or by ZMQ message, `getBlockTemplate`, `SUBMIT_BLOCK` | bitcoind (RPC, ZMQ), the `rpc_block` table, the job pipeline |
| Template sharing, `ORM/rpc-block` | one row per height: lock owner, template | `lockBlock`, `saveBlock`, `getBlock`, `deleteOldBlocks` | other PM2 processes |
| Job pipeline and registry, `services/stratum-v1-jobs.service.ts` | `blocks`, `jobs`, `lastBlockHeight`, `lastWorkSignature`, a `shareReplay` value | the RxJS pipeline, `addJob`, look-ups, pruning by age | every miner session |
| SV1 session, `models/StratumV1Client.ts` | handshake flags, `sessionDifficulty`, `submissionHashes`, its database row | subscribe, authorize, configure, suggest difficulty, submit, the minute's retarget, destroy | jobs, statistics, client rows, node |
| SV1 listener, `services/stratum-v1.service.ts` | sockets, paused flag | accept, pause and resume under backpressure, start-up cleaning | sessions |
| SV2 session, `models/StratumV2Client.ts` | channels with their jobs, prefixes, job ids, `submissionHashes` | handshake, SetupConnection, Open/Update/CloseChannel, SubmitShares, retarget, destroy | broadcaster, extranonce manager, statistics |
| SV2 service, `services/stratum-v2.service.ts` | `latestCanonicalJob`, sessions, authority key, counters | broadcast every template, keys, listener | sessions |
| Extranonce manager, `models/sv2/sv2-extranonce-manager.ts` | next, allocated and used prefixes | `allocate`, `release`, process namespaces | SV2 sessions of one process |
| Share statistics, `models/StratumV1ClientStatistics.ts` | ten-minute slot, share history | `addShares`, `addRejected`, `getSuggestedDifficulty` | statistics table |
| Client rows, `ORM/client/client.service.ts` | the `client_entity` table, an insert queue | insert, heartbeat, soft deletes, reaping | sessions, HTTP API |
| Roll-up, `services/app.service.ts`, `ORM/client-statistics`, `ORM/pool-meta` | statistics rows, the all-time counter | roll up and delete, uptime | timers |
| Blocks and addresses, `ORM/blocks`, `ORM/address-settings` | found blocks, the best difficulty of an address | save, look-up by height, update if higher | sessions |
| Notifications, `services/notification.service.ts` | heights this process has announced | block found, new best, other alerts | Discord, Telegram |
| Settings and digest, `services/notification-settings.service.ts`, `pool-digest.service.ts` | the settings file and a copy of it in each process | save, mark a digest as sent; a tick every five minutes in instance 0 | HTTP API, messengers |
| SV2 frames and Noise, `models/sv2/sv2-frame.ts`, `sv2-noise.ts` | bytes not yet read, the nonces of both directions | feed, write, the three acts of the handshake | one SV2 session |
| Message formats, `MiningJob`, HTTP controllers | none of their own | encode, decode, read | – |

**What is hard.** Polls and fetches overlap and are answered out of order; a
broadcast, an opening channel, a retarget and a share are in flight on one
session at once; a new block invalidates work while a share for it is being
judged; a socket dies between any two steps; a PM2 reload runs two processes of
one worker; a database row outlives, or is older than, the session it describes;
timers re-enter what they started. `PROJECT.json` lists each such hazard at its
line.

**What makes the parts correct.** Job pipeline: work never goes backwards, work of
an older block cannot be submitted, a new block is eventually worked on.
Sessions: miner and pool agree on job, tip and target whenever nothing is in
flight; one share is credited once; an ended session holds nothing. Transport:
frames arrive whole and in order, and what goes out can be decrypted. Extranonce
manager: no two channels of the deployment search the same space. Template
sharing: every process gets the newest template, whoever crashes with the lock.
Found blocks: a solution reaches the node, is recorded and announced once.
Client rows: the table shows the sessions that are there. Roll-up: no share is
lost or counted twice.

## 2. Modules

| Module | Models | Composes / extends | State |
|---|---|---|---|
| `PrefixPool` | what the extranonce allocation promises | – | done |
| `ExtranonceManager` | `Sv2ExtranonceManager` in every process of a deployment | implements `PrefixPool` | done |
| `JobStream` | block watcher, template fetch, job pipeline and registry | – | done for one process |
| `TemplateLock` | `rpc_block`: lock, load, save and wait of several PM2 processes | `JobStream`'s fetch, opened up | done |
| `V1Session` | one SV1 session and the registry it takes work from | – | done |
| `FrameChannel` | what the bytes of an SV2 session promise of its frames | – | done |
| `V2Transport` | Noise handshake, frame reader, nonces and writes of one SV2 session | implements `FrameChannel` | done |
| `V2Channels` | what the frames mean: one SV2 session and the broadcaster that feeds it | above `V2Transport` | done |
| `BlockFound` | solved blocks and best difficulties, sessions of both protocols in several processes | – | done |
| `SessionRegistry` | `client_entity` rows over all sessions and processes | – | done |
| `ShareLedger` | share counts: memory, rows, roll-up, all-time totals | – | done |
| `Backpressure` | the SV1 listener: pausing and resuming of accepts, connection limit | – | done |
| `AuthorityKey` | the pool's Noise key of one process: file, certificate, rotation, sessions | – | done for one process |
| `JobStreamProofs`, `TemplateLockProofs`, `V2TransportProofs`, `V2ChannelsProofs`, `BlockFoundProofs`, `ShareLedgerProofs` | theorems | extend the module of their name | done |
| `StratumV1Proofs` | theorems about the SV1 session and the listener | extends `V1Session`, `Backpressure` | done |
| `V2ServiceProofs` | theorems about what the SV2 sessions of a process share: prefixes and identity | extends `ExtranonceManager`, `AuthorityKey` | done |
| `NotificationSettings`, `PoolDigest` | the settings file with a copy in each process, the digest's schedule | – | planned |
| `SharedAuthorityKey` | the key file read and written by several PM2 processes | composes `AuthorityKey` | planned |
| `Vardiff` | difficulty suggestion and power-of-two rounding as functions against reference definitions | – | planned |

Each `MC*` module names small constant sets for the `.cfg` files. Definitions
whose comment begins with "A slip" are not used by the model: each is a
plausible mistake in one definition, kept beside it to show that the run which
checks a property would notice it.

## 3. How the models read the code

Names are the code's own. In every module an action is what the code does
between two awaits, whole: all it assigns, and the guard its conditions and
early returns give. `map` in `PROJECT.json` gives the lines of each definition.

**ExtranonceManager.** `live` is the set of running processes `<<worker,
generation>>`; the generation is PM2's `restart_time`. `nextPrefix`,
`allocatedPrefixes`, `usedPrefixes` are the fields of each process's manager (an
absent map entry is 0). `allocate` is three actions by its outcome (`Existing`,
`New`, `Exhausted`), `release` is one. `StartProcess` is the start and the
successor of a reload, `StartRejected` is `assertNamespaceFits` throwing,
`StopProcess` is external. *Assumption:* during a reload the new process is the
direct successor of the old one, as the comment of
`resolveSv2ProcessNamespace` takes for granted; two restarts during one overlap
would share a lane.

**JobStream.** An RPC is two actions: the node answers (`PollAnswer`,
`FetchAnswer`) and the callback runs (`PollDeliver`, `Deliver…`), so the chain,
another poll or a refresh may come in between. `fetch` is the one inner
observable that `switchMap` is subscribed to; replacing it is the unsubscription.
What a fetch does between several processes is in `TemplateLock`.
`DeliverTemplate`, `DeliverSame` and `DeliverError` are both `map`s and the
`tap`, which run synchronously; `TakeNote` is what the first `map` assigns before
it builds, which is why an error in between leaves it assigned. `Retry` is
`retryWhen`'s delay. Registry ages count refresh intervals. `AddJob` is a session
making a job of the template it was handed. The node, `Minute` and message loss
are the environment.

**V2Channels.** Tasks of a session meet in `writes`: a queue of the tasks that
await a socket write, each with the place it continues from and what it holds in
local variables (channel, template, job, `sendPrevHash`). Completing the head
(`WriteDone`) runs that task to its next write. So a broadcast that waits on
channel 1 has channel 2 untouched, `activeTipKey` is assigned behind the second
write, and `SET_TARGET` reads the difficulty of the moment it is written – as in
`sendJobsForChannel`. `inbound`, `storing` and `chunk` are the inbound chain: one
frame at a time, the rest of its chunk behind it. `Destroy` is `destroy()`.
Standard and extended channels have one model, since their handlers differ in job
data and the share key; both handlers' lines are in the map. Three things make the
order of events harder than it looks:

- A template may bring a new tip without clearJobs, and clearJobs without a new tip
  (`Following`): the flag compares the heights the poll has seen, while the tip is
  the node's at the moment it answers, so a refresh may run ahead of the poll.
- Writes of one flushed batch end at once, and 'drain' resumes the task of a later
  one first (`Overtake`). `done` counts the entries of `writes` that have ended and
  whose tasks are still to go on; nothing else happens before they did.
- A write of the difficulty pass that times out ends the pass only (`PassFails`):
  nobody awaits the pass, under PM2 the rejection is logged, and the session goes
  on, perhaps with a job whose `SetNewPrevHash` is missing.

*History:* `overtaken` says that a broadcast under way was passed by another,
`torn` has the channels on which sends changed places or one was cut short,
`cleared` is the tip of the newest template with clearJobs. *Assumptions:*
templates follow each other without reorganisations; the duplicate set stays under
its cap of 10000 entries; job ids do not wrap.

**V1Session.** The same idea with fewer tasks: `inbound` is what the message being
handled waits for, `pass` the difficulty check that waits for its write; an emitted
template is sent at once. `greeted`, `suggestion`, `initialized`, `streaming` are
the handshake's flags. A share is `Judge` (checks, duplicate set), which is
`SubmitWeak` or `Submit`, then `Acked`, `BlockSubmitted`, `Credit`, `Stored`, with a
failed write, save or insert possible at each. What is submitted, remembered and
credited is a `Submission`, a share in one `Spelling`: the duplicate key joins the
strings of the message, while the header is built from the numbers they stand for, so
the same share with other letters or leading zeros has another key. Templates are
those of `V2Channels`. *History:* `untold` marks the two
paths on which the code changes the difficulty without telling the miner.

**V2Transport.** A byte on the wire is `<<nonce, plaintext of its block, place>>`,
so a block decrypts only with the nonce it was made with, whole and
undamaged. `wire` is what TCP holds, `chain` the pieces in `inboundChain`, `reader`
the `Sv2FrameReader`. `feed` is synchronous: its loop is the steps `Read`, `ReadFails`
and `FeedReturns`, and while `reader.feeding` nothing else is enabled. If a block
does not decrypt, the frames read before it in the same `feed` are lost with it;
frames that were returned are handled even behind the session's end. `writeFrame`
encrypts synchronously, so the outbound nonce counts frames. `writeRaw` gives the
bytes to the socket, throws above the buffer limit or does nothing on an ended
session, all of them behind the encryption; `Finish` resumes the tasks of a flushed
batch in any order, since 'drain' is emitted before the callbacks. `Caught` is the
catch of each of the three tasks; the difficulty pass has none, so its rejection ends the
process, or `swallowed` records that PM2 only logged it. *Assumption:* act 1 is not
damaged; cryptography works.

**TemplateLock.** The table has one row per height. `lockBlock` is TypeORM's `save`:
it reads the row (`LockRead`) and then inserts it (`LockInsert`) or updates what
differs from what was read (`LockUpdate`). Only of two racing inserts does one
throw, as the comment at `bitcoin-rpc.service.ts:169` has in mind; behind a row that
exists a lock is taken over, and a template saved in between is cleared. Whatever
goes wrong in `lockBlock` counts as a lock of another process; the template found by
`waitForBlock` is not used, a new one is loaded. Overlapping calls of the owner may
make a row go back to an older template for a while. `deleteOldBlocks` is one
statement. A call that newMiningJob$ has switched away from runs on unheard
(`wanted`). Without PM2 there is one process, `Solo`, and no row is ever written.

**BlockFound.** One message at a time per session, a step per `await`. `rows` are the
heights of `blocks_entity`, `notified` the set each process keeps, `best` the row of the
one address all sessions mine to. A share of the model is of a job on offer and not
sent before; what is refused before its difficulty is looked at is in `V1Session` and
`V2Channels`. What the code does, and the model with it:

- `SUBMIT_BLOCK` returns a text, `'SUCCESS!'` or the error, never `null`, so
  `resetBestDifficultyAndShares` is not reached (`GoOn` has its branch, and
  `AnswerOfNode` never enables it); see section 6.
- A submission that fails is recorded and announced like any other and not tried
  again; a rejected one keeps a later, accepted block of the same height from being
  announced.
- SV1 refuses a share below the session's difficulty before it looks whether the
  share solves a block; SV2 looks first.
- Only the primary instance sends to Discord: of a block that another process
  recorded first, Discord hears nothing.
- If the address's update fails in SV2, the address stays behind its session until
  the next higher share.

*History:* `told`, `announced`, `alerted`, `submitted` count what went out; `cut`
and `behind` mark what a crash or a failed update took away.

**SessionRegistry.** One worker, several sessions on several processes. A row
has a liveness mark and its age in minutes. `stage` is how far
`ensureClientEntity` is; the insert queue, `Flush` and `Inserted` are
`insertClients` and the continuation of those who waited for it; `KillDead` and
`Prune` are the reaper's two halves, the read and the delete apart. `DeleteOld`
happens a day after the deletion, so only to sessions that are long over; its
guard says so. *Assumption:* SQLite runs statements in the order they are issued.

**ShareLedger.** Per session `slot`, `count` and `due` are `currentTimeSlot`, the
two counters and "the last save is over a minute old"; `work` is the statement
the session awaits, with the values fixed when it was issued. `rows` is the
statistics table, `meta` the row of `pool_meta`, `rolledUp` its copy in
memory; `RollUp` and `DeleteOld` are the two halves of
`AppService.deleteOldStatistics`, each with its own look at the clock.
`mishap` is set in the cases that lose or double counts and that the code
accepts: a failing insert or slot change, a row touched behind the retention, a
slot passing the cutoff between the halves, a crash between the halves or with a
statement outstanding. *Assumptions:* no statement takes ten minutes; a save of
the meta row is atomic and two of them keep their order.

**Backpressure.** `listener` is the entry of `listeners`; `servers` has every
`net.Server` made, since a closed one lives on with its sessions. What a check
measures is one of three loads. `CheckOverloaded`, `CheckAccepting`,
`CheckStrained` and `CheckHealthy` are the returns of `checkBackpressure`.
*Assumption:* a bind is over when the next check comes, five seconds later.

**AuthorityKey.** `Rotate` is `rotatePoolAuthorityKey` up to the `await` of
`generateServerKeypair`, which writes the new key and resolves it; a call waits in
`calls`; `KeypairReady` is the rest up to the `await` of the sessions' ends, and
`Answer` is the end. Resolving has the outcomes of
`resolveSv2AuthorityPrivKey`: pinned, read from the file, made and written, made
and not written. A session takes the certificate of the moment it is created.
*Assumption:* one process owns the file; that a rotation is seen by one process
of several only, and that two of them may make two keys at first start, is left to
`SharedAuthorityKey`.

## 4. Runs

| Run | Instance | Shows |
|---|---|---|
| `extranonce` | 2 workers, generations 0–2, 3 channels, 2 prefixes, one lane that does not fit its byte | unique bytes, `PrefixPool` implemented |
| `jobs` | timer and ZMQ, heights 1–2, 2 branches, 2 polls at once, a failure or reorganisation, a build error; fair | no old work submittable, never back, newest template on offer, withdrawal only with clearJobs, convergence |
| `template_lock` | 2 workers with a call each, or 1 process without PM2 with two; heights 1–2, 2 templates, a row of an earlier run, 1 fault; fair | a template fits what was asked for, every call ends, the node's last block and last template reach every process |
| `v1_session` | 2 templates, a pass, a share on every job in 2 spellings, one fault; fair | submissions once, newest work, told difficulty, accepted is credited, work is given |
| `v2_transport` | act 1 of 2 bytes, chunks of 2, payloads of 0, 1 and 3, 2 frames in, 3 writes out, buffer for 2, 1 fault; fair | nonces in step, `FrameChannel` implemented, every frame arrives |
| `v2_jobs` | up to 2 channels, 2 templates, a difficulty pass or a task that overtakes, an update, 2 jobs kept, frames one by one; shares and the update in sessions of one channel; fair | quiet channels agree, all settle on the latest announced tip, every such tip arrives, no share credited twice |
| `v2_release` | 2 channels, 1 template, a frame behind another in its chunk | **fails**: an ended session keeps a prefix (section 6) |
| `block_found` | SV1 and SV2 sessions in 2 processes, difficulties 1–3, a block from 2 on, heights 1–2, 3 shares, 1 fault | solutions submitted, recorded blocks announced, once, best kept, alerted once |
| `registry_live` | 2 sessions, SV1 and SV2, apart from the reaper, a crash or failing insert; fair | ghosts vanish, workers are shown again |
| `ledger` | 2 sessions, 4 slots, retention of 2, 3 shares, a failure, a crash | totals exact |
| `backpressure` | 3 healthy checks, 3 Servers, 2 connections each, 2 failures; fair | one Server accepts, resuming is earned, accepts come back |
| `authority_key` | 2 sessions, 4 keys, 2 failures | published and certified key agree, old sessions go, a persisted key is in the file |

Where `TypeOK` and an invariant like it (`UsedMatchesAllocated`, `ToldKeyWorks`) are
proved, the runs leave them out; `v2_jobs` and `ledger` run theirs. All runs pass but
`v2_release`, which shows a disagreement of the code with a document.

**Why the bounds are enough.** The scan of `allocate` wraps, fails and succeeds
behind a release with two prefixes and three channels. A stale poll or fetch needs
one newer and one older answer, hence two polls and two heights. The races of an SV2
session are between a broadcast and one of the other tasks; two channels are needed
for a broadcast to be caught in the middle, two templates for an old one to arrive
late, one overtaking or failing pass for a channel to be torn. `MaxChannelJobs` is 2 in
`v2_jobs`: a channel that opens beside a broadcast is sent its template twice, so the
next makes a third job, and one is trimmed. Shares and `UpdateChannel` are left to its sessions of one channel (`MCSpec`), since they touch
no other channel's jobs or target, and the duplicate set is claimed to be right for
one channel only. A row meets the reaper, another session's clean-up and
its own late insert with two sessions; `Dead` is the code's two minutes. Three
Servers give two pauses and two resumes, four keys three rotations that overlap. A
lock needs an owner and one who steals it, whose saves then come in either order; a
second height makes old rows (several calls of one worker at once are left to the
proof of `AnswerFits`). A payload of three bytes takes two encrypted chunks, one of
none takes no block; two frames fit one piece, and one can be cut anywhere. Three
writes of three tasks fill a buffer of two. Two sessions of one process and one of
another find a block of the same height at the same time. Two slots of retention
stand for 1152: a row is current, kept or behind it. Runs that set `CHECK_DEADLOCK
FALSE` stop when their budgets of events are used up or the session has ended.

**Bounds by name.** Constants beginning with `Max` and marked "bound" cap what
the environment does (blocks, templates, passes, faults, crashes, slots). No
property holds because a budget ran out: safety holds in every state on the way,
and fairness never asks for a budgeted event.

## 5. Fairness

Fairness is asked of callbacks and timers only, never of miners, of the chain or
of faults. Weak fairness: RPC answers (bounded by timeouts of the RPC client),
the 500 ms and 60 s timers, the retry delay, statements, PM2's restart, and
writes, which complete, or time out after two seconds and end the session or, in SV2,
the difficulty pass (`PassFails` is one of the ways out that `Fairness` of
`V2Channels` allows, so no liveness rests on a pass that goes through). In
`TemplateLock` a process polls and asks again each minute, and a call's next query
is answered or its deadline passes; in `V2Transport` TCP hands over what it holds,
promises settle, and the socket flushes unless a write fails. Strong
fairness: the delivery of a fetched template, which a refresh may disable
again and again in the model, while in the code a fetch ends within 30 s and
refreshes are 60 s apart. In `SessionRegistry`, a session that is served stores
shares again and again, since the retarget aims at a few a minute and a
session without any is closed as abandoned; `WorkerShownAgain` rests on that.

## 6. What does not hold

The properties state what the code keeps. Where it keeps less than a reader might
expect, the property names the case, and these are the cases:

- `NoWorkBelowTip` excepts behaviours in which a template could not be built: the
  height is noted before the template is built, so a build that throws takes the
  clearJobs of its block with it, and the jobs of the old block stay submittable.
- `CreditedOnce` of SV2 is checked for a session of one channel. With two it does not
  hold: `submissionHashes` is the session's and is emptied whenever one channel is
  sent work on a new tip, its first job, or a retarget, while the jobs of the other
  stay valid. In SV1 it holds below the cap at which the set is emptied, and of
  submissions as they are written: the same share in another spelling (letters of
  another case, leading zeros, a version mask left out) is credited again
  (`StratumV1Client.ts:655`, against the numbers of line 680).
- `QuietChannelsAgree` calls a channel quiet when nothing is being sent on it and no
  broadcast is on its way to it. With an older broadcast still to come, a channel may
  disagree: between the two writes of a retargeting, a refresh of the old tip is
  taken for more work on the new one (`activeTipKey` is set behind the second
  write), and the broadcast that follows puts it right. It takes three channels, with
  the refresh held up on the first and the next template's broadcast behind it. The
  model's miner takes up the job that a `SetNewPrevHash` names even if another task's
  `SetNewPrevHash` came in between, on which a strict miner may drop the jobs it was
  keeping for later.
- `QuietChannelsAgree`, `SettledOnLatest` and `TipsReachMiners` leave three cases out, in each
  of which a channel may stay behind until the next template with clearJobs.
  *A tip that was not announced:* a refresh asked for before the poll has seen a block
  brings its tip without clearJobs. A channel that is opened with it while an older
  broadcast is under way gets the old tip behind its own, sets `activeTipKey` to
  the new one, and the broadcast that follows is taken for more work on a tip the
  miner knows (`StratumV2Client.ts:1025`): it is left on the old previous hash with a
  job of the new one. The poll that catches up announces the tip.
  *A broadcast that was overtaken:* one held up by a channel that was closed, or passed
  by a later one on 'drain'. *A torn channel:* two sends changed places on it, or
  the pass's ended between `NewMiningJob` and `SetNewPrevHash`.
- `NonceInStep` excepts a session whose difficulty pass failed under PM2: nothing
  catches the rejection, PM2's handler logs it, and the session goes on without a frame
  whose nonce was used. Without PM2 the rejection ends the process.
- `RefreshReachesAll` excepts a row whose owner does not run any more (fewer workers,
  or no PM2): its template stays as it is until the next block.
- `FoundIsSubmitted` excepts a solved SV1 block whose answer could not be written, and
  one below the session's difficulty. `RecordedIsAnnounced` excepts a crash between
  the row and the announcement; two processes may both announce a height.
- `AddressHasBest` excepts an SV2 session whose update of the address failed.
- `ToldDifficulty` excepts the two paths of SV1 that change the difficulty silently.
- `AllTimeExact` excepts the mishaps named in section 3.
- `WorkerShownAgain` holds though two sessions of one worker that one flush inserts
  delete each other's rows, the younger too (`StratumV1Client.ts:584`; the comment at
  `client.service.ts:87` speaks of older ones): a heartbeat shows them again.
- The connection limit that `README.md:86` of the repository calls enforced per
  worker and port is one per `net.Server`: behind a pause and a resume a port may hold
  the connections of two. `OnlyListenerAccepts` says what is left, and no property
  bounds the connections of a port.
- `AcceptsAgain` excepts a bind that fails: it is logged, and nothing tries again.

Two disagreements of the code with what the repository says of it:

- **A prefix outlives its session.** "`CloseChannel` / clean disconnect releases session",
  says `scripts/sv2-sri-interop.md:48`. The run `v2_release` finds `SessionReleased` violated: a
  frame left in the chunk of a session that was destroyed is still handled, and an
  OpenChannel there allocates a prefix nothing releases. The theorem `Released` says
  what the code does keep: `destroy()` itself leaves no prefix allocated, so the
  leak can only come from a frame handled behind it.
- **A found block resets no best.** The test "should submit and persist found blocks"
  expects `resetBestDifficultyAndShares` to have been called
  (`StratumV1Client.spec.ts:705`); its mock of `SUBMIT_BLOCK` answers nothing. The real
  one answers `'SUCCESS!'` for the node's null (`bitcoin-rpc.service.ts:311`), so the branch
  behind `result == null` (`StratumV1Client.ts:737`, `StratumV2Client.ts:662` and
  `:852`) is never taken. `AddressHasBest` and `RecordAlertedOnce` hold for this reason: with a
  `SUBMIT_BLOCK` that passes the null on, as the slip `AnswerOfNodeAsIs` does, the
  address loses the best of sessions that go on.

## 7. Proofs

`V2ServiceProofs` proves of the extranonce managers, for any set of workers,
channels, prefix size and number of generations:

- `TypeCorrect`: `Spec => []TypeOK`;
- `BookkeepingCorrect`: `Spec => []UsedMatchesAllocated`;
- `PrefixesUnique`: `Spec => []UniqueWirePrefix`;
- `ManagerImplementsPool`: `Spec => ImplementsPool`.

They rest on the named assumptions of the module only (workers are naturals,
`MaxPrefix` is positive, the namespaces are naturals). `UniqueWirePrefix` is not
inductive. The inductive invariant is

    IInv == TypeOK /\ UsedMatchesAllocated /\ LanesOverlapByOne /\ PrefixInjective

`PrefixInjective` (no two channels of one process hold one number) needs
`UsedMatchesAllocated`, since `allocate` looks at the used set only;
`LanesOverlapByOne` (running processes of a worker have neighbouring generations)
gives, with the parity lanes, that two running processes with one namespace byte
are one process (`NamespaceDistinguishes`). `IInvStep` has one lemma per
conjunct, with one step per action. The refinement maps every manager step to a
step of the pool or to a stutter: `AllocateNew` is `Grant`, which needs
uniqueness across processes; `AllocateExhausted` is `Refuse`, which needs
`ScanReachesAll`, that the wrapped scan visits every prefix.

`JobStreamProofs` proves, for any height of the chain, any number of overlapping
polls, any age limit and any number of failures, with and without ZMQ:

- `TypeCorrect`: `Spec => []TypeOK`;
- `NeverBack`: `Spec => NeverBackToLowerTip`;
- `LatestOffered`: `Spec => []LatestIsOnOffer`;
- `OldWorkIsGone`: `Spec => []NoWorkBelowTip`, which speaks of behaviours in which
  every template could be built so far;
- `WithdrawnWithClear`: `Spec => WithdrawnOnlyWithClear`.

The inductive invariant is

    IInv == TypeOK /\ BlockSeen /\ NodeLeads /\ FetchIsFresh

`NodeLeads` (polls, the height taken note of and the template handed out are never
ahead of the node) and `FetchIsFresh` (what is fetched builds at least on the block
it was fetched for and is never behind what was handed out) depend on each other:
a template is taken from the node after the poll that asked for it, and the node
never loses height, so the late answer of an overtaken fetch, which `switchMap`
drops, is the only one that could be behind. `BlockSeen` says that only a block that was
seen is fetched for. `LatestIsOnOffer` is inductive with `TypeOK`: pruning by age
(`AgedEntries`) renames no template, and a template handed out is the
youngest. For `NoWorkBelowTip` the invariant is strengthened by `OfferAtTip`, the
same statement about all templates on offer, with or without a job.

`StratumV1Proofs` proves of the listener, for any number of healthy checks,
connections, Servers and failures, `ListenerTypeCorrect`, `OneServerAccepts` (`Spec => []OnlyListenerAccepts`)
and `ResumingIsEarned` (`Spec => ResumeIsEarned`). The inductive invariant adds
`Shape` (a listener that was started has a server or is paused, never both) and
`Counted` (no more checks are counted than were healthy in a row), from which the
last of the counted checks is the last of a row of `HealthyChecks`.

`V2ServiceProofs` proves of the pool's identity, for any sessions, keys and failures,
`KeyTypeCorrect`, `PublishedKeyProves`, `ToldKeyProves`, `SessionsAreCurrent` and `KeySurvives`, the
invariants of the run. They are inductive together with `Booting`: before the
first certificate there is nobody to drop and nobody was told a key. The argument is
that everything behind the `await` – signing, dropping, answering – reads the
fields as they are then, not what the call began with; the slips show that it
would fail otherwise.

`TemplateLockProofs` proves, for any number of workers, calls, blocks and faults,
`TypeCorrect` and `AnswersFit` (`Spec => AnswerFits`). The inductive invariant is

    IInv == TypeOK /\ KnownOfNode /\ TemplatesFit

`KnownOfNode`: no process knows of a block, and no call asks for one, that the node does
not have. `TemplatesFit`: what the row of a height holds, and what a call is about to
save there, build on that height or a later one. Stealing a lock
and clearing a row keep it, since a template is only ever written to the row that its
call asked for.

`StratumV1Proofs` proves of a session, for any number of templates, passes, shares and
faults, and any difficulties, `TypeCorrect`, `MinerKnowsDifficulty` (`Spec => []ToldDifficulty`),
`MinerIsUpToDate` (`Spec => []WorksOnLatest`) and `SubmissionsCountOnce`
(`Spec /\ []BelowCap => []CreditedOnce`), for any number of spellings. The inductive invariant relates the
handshake's flags to what waits (`Phases`), what the miner was told to the
session's difficulty (`Announced`), and what was credited or is on its way to be to
the duplicate set (`SharesRemembered`). A submission that was credited is in the set as long
as its job can be submitted: the set is emptied only with all its jobs, or before
the first one. At the cap it is emptied with the jobs still valid, hence `BelowCap`.

`V2TransportProofs` proves, for any sizes, lengths, buffers and faults,
`TypeCorrect` and `NoncesInStep` (`Spec => []NonceInStep`). The inductive part is
`InStep`, the same while `GoesOn`, with `ReadBehindHandshake`: no frame is read, and
so none written, before the handshake is complete. A write that is refused puts its
task in `failing`, and every way out of `failing` ends what `GoesOn` asks for, one
by one: that is where the exception for PM2 comes from.

It also proves the refinement, `ImplementsChannel` (`Spec => InboundInOrder`), step
by step: the miner's frame is `FrameChannel`'s `Send`, `HandleFrame` its `Handle`,
and every other step a stutter. The invariant `OrderInv` has three parts. `InOrder`:
what was handled, what waits for its handler and what the reader has just read are
together the first frames sent. `Batches`: only one of the two queues is filled at a
time, and before the handshake neither. `Followed`: there are a record of the blocks
the miner has encrypted, one for each nonce, and of the nonces at which its frames
begin (`Encoded`), such that every byte under way is one of those blocks or a damaged
one (`Carry`), and a reader that reads stands at a frame's header, or behind it at its
payload (`InPlace`). A damaged byte, and a piece dropped by a session that has ended,
disturb the bytes only: `DecryptsTheBlock` says that what decrypts with a nonce is the
block that was encrypted with it, so `HeaderFound` and `PayloadFound` give the frame
that is next, or the reader fails and the session is destroyed. They rest on laws of
the arithmetic of chunks (`PartsUnique`: no other number of chunks has the
ciphertext's length) and of sequences put together (`FlattenParts`: the chunks of a
payload give the payload). The community modules define the latter by recursion, so
`FlatExists` and what follows it are by induction over its index, stated with sets of
numbers (`AllNumbers`) because the library's induction theorems cannot be cited.

`BlockFoundProofs` proves, for any processes, sessions, targets and bounds, `TypeCorrect`
(with it, that `SUBMIT_BLOCK` never answers null), `RecordedAnnounced`, `ToldOnlyOnce`,
`AddressKeepsBest`, `RecordsAlertedOnce` and `SolutionsAreSubmitted`, the properties of
the run. `AnnounceInv` adds that a handler leaves the announcement to another only
if its height is in the table, and that what a process remembers was announced.
`ToldInv` adds that a channel was told only of heights in `notified`, which is written
before anything is awaited, and that one session at most is on its way to tell
Telegram of a height. `BestInv` adds that an alert was for a difficulty the
address has reached, so that the UPDATE's condition is false the next time.

`V2ChannelsProofs` proves of a session, for any number of channels, templates with and
without clearJobs, passes that end or fail, tasks that overtake, updates, frames in a
chunk, jobs kept and shares, and any difficulties:

- `TypeCorrect`: `Spec => []TypeOK`; no channel keeps more jobs than
  `MaxChannelJobs`;
- `Settled`: `Spec => []SettledOnLatest`;
- `QuietHeard`: the target and the tip of `QuietChannelsAgree`, of any tip, announced or
  not, and whatever was overtaken;
- `Released`: `Spec => []PrefixesOfOpen /\ [][EndReleases]_vars`: the prefixes allocated are
  those of the open channels, and a step that ends the session releases all of
  them, whatever is left in the chunk;
- `Credited`: `Spec /\ [](Single /\ BelowCap) => []CreditedOnce`.

The hypothesis of `Credited` is a condition on behaviours, and names the cases in which
the code does not keep the property (section 6): `Single` (one channel is open at a
time) and `BelowCap` are met by a miner that opens one channel and solves less than
`MaxSubmissions` shares of one tip. The other theorems have none.

All five rest on `TypeOK /\ Shape /\ JobSets`, proved together: what the entries of
`writes` have to do with each other's fields, and that an id names one job of a
channel. On top of it:

- `PrefixesOfOpen` is inductive, and `EndReleases` follows from it: the steps that end a session leave no channel open;
- `OneInbound` (at most one write of the inbound chain is waited for), `Held` (what
  is written belongs to a channel that was opened) and `Recorded` (a share that was
  credited, or is about to be, is in the duplicate set or its job is gone) give
  `CreditedOnce`;
- `HeardTips` relates the tip a miner heard last, `activeTipKey` and the
  last `SetNewPrevHash` on its way, on a channel that is not torn;
- `BroadcastOrder` says that of two broadcasts in the queue one with an older tip is
  ahead, on every channel, of one with a newer tip that clears, and that behind a
  broadcast of an older tip than the newest announced one there is one that brings
  it; unless one was overtaken;
- `Arriving` says that each channel ends on the latest announced tip with what is being
  sent to it, or has a broadcast coming that brings it. A broadcast brings it if it
  clears, or if the channel will still believe itself on the old tip when it comes:
  this is where a tip that was not announced may be missed. With an empty queue
  `Arriving` is `SettledOnLatest`;
- `Targets` (the last target told is the channel's difficulty) and `HeardTips` give
  `QuietHeard`. `Targets` needs no condition on the order of writes, since a
  `SetTarget` reads the difficulty when it is written.

`ShareLedgerProofs` proves, for any sessions, slots, shares, failures and crashes and
any retention of two slots or more, `TypeCorrect` and `TotalsExact`
(`Spec => []AllTimeExact`). The inductive invariant is

    TypeOK /\ Books /\ AllTimeExact

`Books` says what the memory of a session, its statement and its rows have to do with
each other: a statement stores what was counted, in the session's slot, and is a slot
old at most (`SessionBooks`); a row is never of a later slot than its session's, and
the one of the slot has what was stored last (`RowBooks`); the copy of the meta row is
the meta row, and what was summed is what will be deleted (`PoolBooks`). Retention of
two slots is needed so that the row of a statement under way, which is one slot old
at most, is not retired meanwhile. `AllTimeExact` sums over tables of any size. The
laws of `Sum` – no element, one element more, a value changed, a set split in two – are
proved from the recursion that defines the fold, by induction on the size of the set:
`AllNumbers` derives induction from the well-foundedness of the naturals. `Balance`
then has the arithmetic every step shares: what enters the rows left the memory. The
only assumption beyond those on numbers is that `Session`, all the sessions of a
behaviour, is finite.

Only model-checked: `SessionRegistry`, whose properties are liveness, and
`AckedIsCredited` and all other liveness: fairness and ENABLED are out of the prover's
reach. So is, of `QuietChannelsAgree`, that the job of a quiet channel is one it
accepts: in general 32 jobs could be given out while the `NewMiningJob` of one of them
waits, and `trimChannelJobs` would take it from a channel whose miner has yet to hear
of it; a write is over in two seconds, which no theorem speaks of. Every other
property of a passing run is stated by a theorem.

## 8. Not modelled

- *The settings file and the digest* (planned): each process writes the whole
  file from its own copy, so a mark of instance 0 overwrites what was saved
  through another process (`notification-settings.service.ts:306`).
- *The key file of several processes* (planned): that a rotation is seen by one of
  them only, and that two may make two keys at first start.
- *The difficulty suggestion* is a free choice among difficulties; its function is
  planned. So is the session's hash rate, and the difficulty at which a share is
  credited when it changed meanwhile (`StratumV2Client.ts:669`).
- *The codec and messages of SV2, the cryptography of Noise, `MiningJob`'s byte
  layout, address parsing:* data without control.
- *Payout split, user agents, the alerts of reconnecting and struggling miners,
  commands of the messengers:* data or texts that no modelled part reads.
- *HTTP controllers:* reads of the database.
