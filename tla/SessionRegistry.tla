--------------------------- MODULE SessionRegistry ---------------------------
(***************************************************************************)
(* The client_entity table: one row per miner session, written by the      *)
(* sessions (ensureClientEntity, share heartbeats, destroy) and by timers  *)
(* (ClientService.insertClients every 5 s, the reaper of AppService every  *)
(* minute).  All sessions here are of one address.worker, the rows of      *)
(* others never meet them: the miner reconnects, or two devices share the  *)
(* name.  Sessions are numbered in the order they connect and are spread   *)
(* over the PM2 processes; a process may crash and is started again.       *)
(*                                                                         *)
(* A database statement takes effect when it is issued (SQLite runs them   *)
(* in that order); what the code does with its result is a later step.     *)
(***************************************************************************)
EXTENDS Integers, Sequences, FiniteSets, SequencesExt

CONSTANTS
    MaxSession,   \* bound: sessions that ever connect
    Sv2,          \* the sessions that speak Stratum V2, the others speak V1
    Home,         \* [Session -> Process]: where a session is served
    Reaper,       \* the process with NODE_APP_INSTANCE 0 or none
    Dead,         \* killDeadClients: minutes without an update
    MaxCrash      \* bound: crashes and failing inserts

Session == 1..MaxSession
Process == {Home[s] : s \in Session} \union {Reaper}

ASSUME BoundAssumption == MaxSession \in Nat \ {0} /\ Dead \in Nat \ {0} /\ MaxCrash \in Nat
ASSUME SessionAssumption == Sv2 \subseteq Session /\ DOMAIN Home = Session

VARIABLES
    stage,      \* [Session -> Stage]: how far ensureClientEntity is
    open,       \* sessions not destroyed
    storing,    \* sessions waiting for addShares of an accepted share
    beat,       \* [Session -> minutes since entity.updatedAt]
    rows,       \* [Session -> row]
    insertQueue,\* [Process -> Seq(Session)]
    inserting,  \* [Process -> Seq(Session)]: the queueCopy being inserted
    up,         \* processes that run
    drop,       \* what pruneDuplicateSessions has read, or Idle
    crashes

queueVars == <<insertQueue, inserting>>
sessionVars == <<stage, open, storing, beat>>
vars == <<sessionVars, rows, queueVars, up, drop, crashes>>

-----------------------------------------------------------------------------
Stage == {"absent", "idle", "asking", "queued", "cleaned", "online", "failed"}
Idle == <<>>
Age == 0..(Dead + 1)          \* Dead + 1: longer ago than any check looks
Row == [kept : {"none", "live", "deleted"}, age : Age]
NoRow == [kept |-> "none", age |-> 0]
LiveRow == [kept |-> "live", age |-> 0]

Live == {s \in Session : rows[s].kept = "live"}
Older(age) == IF age > Dead THEN age ELSE age + 1

\* Soft deletion; TypeORM stamps updatedAt with it.
SoftDeleted(table, S) ==
    [s \in Session |-> IF s \in S /\ table[s].kept = "live"
                         THEN [kept |-> "deleted", age |-> 0] ELSE table[s]]

Init ==
    /\ stage = [s \in Session |-> "absent"]
    /\ open = {}
    /\ storing = {}
    /\ beat = [s \in Session |-> 0]
    /\ rows = [s \in Session |-> NoRow]
    /\ insertQueue = [p \in Process |-> <<>>]
    /\ inserting = [p \in Process |-> <<>>]
    /\ up = Process
    /\ drop = Idle
    /\ crashes = 0

-----------------------------------------------------------------------------
(* A session.                                                              *)

Connect(s) ==
    /\ stage[s] = "absent" /\ Home[s] \in up
    /\ \A t \in 1..(s - 1) : stage[t] # "absent"
    /\ stage' = [stage EXCEPT ![s] = "idle"]
    /\ open' = open \union {s}
    /\ UNCHANGED <<storing, beat, rows, queueVars, up, drop, crashes>>

\* ensureClientEntity: on a V1 session's first share, on a V2 channel's opening.
EnsureEntity(s) ==
    /\ s \in open /\ stage[s] = "idle"
    /\ stage' = [stage EXCEPT ![s] = "asking"]
    /\ UNCHANGED <<open, storing, beat, rows, queueVars, up, drop, crashes>>

\* hasWorkerHistory has answered: the row joins the insert queue.
Enqueue(s) ==
    /\ stage[s] = "asking"
    /\ stage' = [stage EXCEPT ![s] = "queued"]
    /\ insertQueue' = [insertQueue EXCEPT ![Home[s]] = Append(@, s)]
    /\ UNCHANGED <<open, storing, beat, rows, inserting, up, drop, crashes>>

\* A slip: the row's deletion mark stays.
HeartbeatKeepingMark(s) ==
    rows' = [rows EXCEPT ![s].age = 0]

\* heartbeat: brings a soft-deleted row back.
Heartbeat(s) ==
    rows' = [rows EXCEPT ![s] = IF @.kept = "none" THEN @ ELSE LiveRow]

\* A V2 session marks itself online as soon as its row is there.
HeartbeatOnline(s) ==
    /\ stage[s] = "cleaned"
    /\ stage' = [stage EXCEPT ![s] = "online"]
    /\ beat' = [beat EXCEPT ![s] = 0]
    /\ Heartbeat(s)
    /\ UNCHANGED <<open, storing, queueVars, up, drop, crashes>>

StoreShare(s) ==
    /\ s \in open \ storing /\ stage[s] = "online"
    /\ storing' = storing \union {s}
    /\ UNCHANGED <<stage, open, beat, rows, queueVars, up, drop, crashes>>

\* addShares has stored the share, whatever became of the session: "only
\* update every minute".
ShareStored(s) ==
    /\ s \in storing
    /\ storing' = storing \ {s}
    /\ IF beat[s] > 1
         THEN Heartbeat(s) /\ beat' = [beat EXCEPT ![s] = 0]
         ELSE UNCHANGED <<rows, beat>>
    /\ UNCHANGED <<stage, open, queueVars, up, drop, crashes>>

(* destroy: a V1 session deletes its row by session id, whether or not it  *)
(* is there yet; a V2 session only once the insert has told it so.         *)
Deletes(s) == s \notin Sv2 \/ stage[s] \in {"cleaned", "online"}

Close(s) ==
    /\ s \in open
    /\ open' = open \ {s}
    /\ rows' = IF Deletes(s) THEN SoftDeleted(rows, {s}) ELSE rows
    /\ UNCHANGED <<stage, storing, beat, queueVars, up, drop, crashes>>

-----------------------------------------------------------------------------
(* ClientService.insertClients, in each process.                           *)

Flush(p) ==
    /\ insertQueue[p] # <<>> /\ inserting[p] = <<>>
    /\ inserting' = [inserting EXCEPT ![p] = insertQueue[p]]
    /\ insertQueue' = [insertQueue EXCEPT ![p] = <<>>]
    /\ rows' = [s \in Session |-> IF s \in ToSet(insertQueue[p]) THEN LiveRow ELSE rows[s]]
    /\ UNCHANGED <<sessionVars, up, drop, crashes>>

\* One INSERT for the whole queue: if it fails, it fails for all of them.
FlushFails(p) ==
    /\ insertQueue[p] # <<>> /\ inserting[p] = <<>>
    /\ crashes < MaxCrash
    /\ crashes' = crashes + 1
    /\ insertQueue' = [insertQueue EXCEPT ![p] = <<>>]
    /\ stage' = [s \in Session |->
                   IF s \in ToSet(insertQueue[p]) THEN "failed" ELSE stage[s]]
    /\ UNCHANGED <<open, storing, beat, rows, inserting, up, drop>>

(* The sessions of the batch go on, one after the other: each soft-deletes *)
(* the other live rows of its worker.                                      *)
Inserted(p) ==
    LET batch == ToSet(inserting[p]) IN
    /\ batch # {}
    /\ inserting' = [inserting EXCEPT ![p] = <<>>]
    /\ rows' = SoftDeleted(rows, {s \in Session : \E t \in batch : t # s})
    /\ stage' = [s \in Session |->
         IF s \notin batch THEN stage[s] ELSE IF s \in Sv2 THEN "cleaned" ELSE "online"]
    /\ beat' = [s \in Session |-> IF s \in batch THEN 0 ELSE beat[s]]
    /\ UNCHANGED <<open, storing, insertQueue, up, drop, crashes>>

-----------------------------------------------------------------------------
(* Time and the reaper: killDeadClients, then pruneDuplicateSessions,      *)
(* which reads the live rows and soft-deletes all but the freshest.        *)

Minute ==
    /\ rows' = [s \in Session |-> [rows[s] EXCEPT !.age = Older(@)]]
    /\ beat' = [s \in Session |-> Older(beat[s])]
    /\ UNCHANGED <<stage, open, storing, queueVars, up, drop, crashes>>

\* A slip: only rows that were marked before are looked at.
StaleMarked == {s \in Session : rows[s].kept = "deleted" /\ rows[s].age > Dead}

Stale == {s \in Live : rows[s].age > Dead}

\* killDeadClients, and what pruneDuplicateSessions then finds.
KillDead ==
    /\ Reaper \in up /\ drop = Idle
    /\ rows' = SoftDeleted(rows, Stale)
    /\ LET left == Live \ Stale IN
         IF left = {} THEN drop' = Idle
         ELSE \E freshest \in left :
                /\ \A s \in left : rows[freshest].age <= rows[s].age
                /\ drop' = <<left \ {freshest}>>
    /\ UNCHANGED <<sessionVars, queueVars, up, crashes>>

Prune ==
    /\ drop # Idle
    /\ rows' = SoftDeleted(rows, drop[1])
    /\ drop' = Idle
    /\ UNCHANGED <<sessionVars, queueVars, up, crashes>>

\* deleteOldClients: a row goes for good a day after its deletion, when its
\* session is long gone (an open one stores a share in a day, or is abandoned).
DeleteOld(s) ==
    /\ Reaper \in up
    /\ rows[s].kept = "deleted" /\ rows[s].age > Dead
    /\ s \notin open \union storing /\ stage[s] \notin {"asking", "queued", "cleaned"}
    /\ rows' = [rows EXCEPT ![s] = NoRow]
    /\ UNCHANGED <<sessionVars, queueVars, up, drop, crashes>>

-----------------------------------------------------------------------------
(* A process ends without a word, and PM2 starts it again; the one with    *)
(* instance number 0 first soft-deletes all rows (deleteAll).              *)

Of(p) == {s \in Session : Home[s] = p /\ stage[s] # "absent"}

Crash(p) ==
    /\ p \in up
    /\ crashes < MaxCrash
    /\ crashes' = crashes + 1
    /\ up' = up \ {p}
    /\ open' = open \ Of(p)
    /\ storing' = storing \ Of(p)
    /\ stage' = [s \in Session |-> IF s \in Of(p) THEN "failed" ELSE stage[s]]
    /\ insertQueue' = [insertQueue EXCEPT ![p] = <<>>]
    /\ inserting' = [inserting EXCEPT ![p] = <<>>]
    /\ drop' = IF p = Reaper THEN Idle ELSE drop
    /\ UNCHANGED <<beat, rows>>

Start(p) ==
    /\ p \notin up
    /\ up' = up \union {p}
    /\ rows' = IF p = Reaper THEN SoftDeleted(rows, Session) ELSE rows
    /\ UNCHANGED <<sessionVars, queueVars, drop, crashes>>

-----------------------------------------------------------------------------
Next ==
    \/ \E s \in Session :
         \/ Connect(s) \/ EnsureEntity(s) \/ Enqueue(s) \/ HeartbeatOnline(s)
         \/ StoreShare(s) \/ ShareStored(s) \/ Close(s) \/ DeleteOld(s)
    \/ \E p \in Process : Flush(p) \/ FlushFails(p) \/ Inserted(p) \/ Crash(p) \/ Start(p)
    \/ Minute \/ KillDead \/ Prune

Spec == Init /\ [][Next]_vars

(* Statements are answered, timers fire, PM2 restarts what ended.  A miner *)
(* finds shares (the retarget aims at a few a minute), or its session is   *)
(* closed as abandoned.  Crashes owe nothing.                              *)
Fairness ==
    /\ \A s \in Session :
         /\ WF_vars(Enqueue(s)) /\ WF_vars(HeartbeatOnline(s))
         /\ WF_vars(StoreShare(s)) /\ WF_vars(ShareStored(s))
         /\ WF_vars(stage[s] = "failed" /\ Close(s))
    /\ \A p \in Process :
         WF_vars(Flush(p)) /\ WF_vars(Inserted(p)) /\ WF_vars(Start(p))
    /\ WF_vars(Minute) /\ WF_vars(KillDead) /\ WF_vars(Prune)

FairSpec == Spec /\ Fairness

-----------------------------------------------------------------------------
TypeOK ==
    /\ stage \in [Session -> Stage]
    /\ open \subseteq Session
    /\ storing \subseteq Session
    /\ beat \in [Session -> Age]
    /\ rows \in [Session -> Row]
    /\ insertQueue \in [Process -> Seq(Session)]
    /\ inserting \in [Process -> Seq(Session)]
    /\ up \subseteq Process
    /\ drop = Idle \/ drop[1] \subseteq Session
    /\ crashes \in 0..MaxCrash

Online(s) == s \in open /\ stage[s] = "online"

(* No ghosts: the row of a session that has ended is shown no more from    *)
(* some time on, although its insert may be flushed, and a heartbeat sent, *)
(* behind its end, and a crash deletes nothing ("Stale sessions after      *)
(* reconnects linger until this runs").                                    *)
GhostsVanish ==
    \A s \in Session : (stage[s] # "absent" /\ s \notin open) ~> [](s \notin Live)

(* A worker whose session is online is shown again, by that session's row  *)
(* or a fresher one's, whatever deleted it: another session's clean-up,    *)
(* the reaper acting on what it read before, a restart of process 0.       *)
WorkerShownAgain ==
    \A s \in Session : Online(s) ~> (s \in Live \/ ~Online(s) \/ Live \intersect open # {})
=============================================================================
