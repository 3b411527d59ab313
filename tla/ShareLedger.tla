----------------------------- MODULE ShareLedger -----------------------------
(***************************************************************************)
(* How shares become the pool's all-time totals.  Each session counts the  *)
(* shares of the current ten-minute slot in memory and stores them in a    *)
(* row of client_statistics now and then (StratumV1ClientStatistics, used  *)
(* by SV1 and SV2 sessions alike).  Every hour the rows behind the         *)
(* retention are added to the single pool_meta row and deleted             *)
(* (AppService.deleteOldStatistics, PoolMetaService).                      *)
(*                                                                         *)
(* A session adds its shares one after the other, so it waits for one      *)
(* statement at most.  A statement's values are fixed when it is issued.   *)
(* Time is counted in slots.  A share is of a kind; its difficulty, and    *)
(* the share history that vardiff reads, are left out.                     *)
(***************************************************************************)
EXTENDS Integers, FiniteSets, Functions

CONSTANTS
    Session,
    Home,          \* the sessions that the process of the roll-up serves
    Kind,          \* acceptedCount and rejectedCount
    Retention,     \* 8 days in slots
    MaxSlot,       \* bound: last slot
    MaxShares,     \* bound: shares added
    MaxFailures,   \* bound: statements of sessions that fail
    MaxCrashes     \* bound: crashes of the process of the roll-up

ASSUME SessionAssumption   == IsFiniteSet(Session)
ASSUME HomeAssumption      == Home \subseteq Session
ASSUME RetentionAssumption == Retention \in Nat /\ Retention >= 2
ASSUME BoundAssumption     ==
    /\ MaxSlot \in Nat \ {0}
    /\ MaxShares \in Nat
    /\ MaxFailures \in Nat
    /\ MaxCrashes \in Nat

VARIABLES
    now,           \* the current slot
    ended,         \* sessions that add no share any more
    slot,          \* currentTimeSlot, 0: null
    count,         \* acceptedCount and rejectedCount, in memory
    due,           \* the last save is more than a minute old
    work,          \* the statement that the session waits for
    rows,          \* the client_statistics table, by session and slot
    meta,          \* the rolled up counts of the pool_meta row
    rolledUp,      \* PoolMetaService's copy of them
    retiring,      \* the roll-up under way: counts in meta whose rows remain
    failures, crashes,
    added,         \* history: shares added
    stored,        \* history: of count, what the table was given
    mishap         \* history: a case happened that loses or doubles counts

sessionVars == <<ended, slot, count, due, work, stored>>
poolVars    == <<meta, rolledUp, retiring>>
boundVars   == <<failures, crashes>>
vars == <<now, sessionVars, rows, poolVars, boundVars, added, mishap>>

-----------------------------------------------------------------------------
Zero == [k \in Kind |-> 0]
One(k) == [Zero EXCEPT ![k] = 1]
Plus(a, b) == [k \in Kind |-> a[k] + b[k]]
Minus(a, b) == [k \in Kind |-> a[k] - b[k]]
Sum(f, S) == FoldFunctionOnSet(Plus, Zero, f, S)
Total(a) == FoldFunction(+, 0, a)

Idle == [op |-> "none"]
Nothing == [op |-> "nothing"]

\* A statement: what it does, for which slot, with which values; and, when the
\* old slot is stored first, the new slot and the share that waits for it.
Statement(op, at, values) ==
    [op |-> op, at |-> at, values |-> values, to |-> at, share |-> Zero]
Closing(s, values, to, k) ==
    [op |-> "close", at |-> slot[s], values |-> values, to |-> to, share |-> One(k)]

\* A slip: a share is put into the slot that is about to begin.
TimeSlotUp == now + 1

TimeSlot == now

Init ==
    /\ now = 1
    /\ ended = {}
    /\ slot = [s \in Session |-> 0]
    /\ count = [s \in Session |-> Zero]
    /\ due = [s \in Session |-> TRUE]
    /\ work = [s \in Session |-> Idle]
    /\ rows = << >>
    /\ meta = Zero
    /\ rolledUp = Zero
    /\ retiring = Nothing
    /\ failures = 0
    /\ crashes = 0
    /\ added = Zero
    /\ stored = [s \in Session |-> Zero]
    /\ mishap = FALSE

-----------------------------------------------------------------------------
(* addShares and addRejected of a session: they differ in the counter.     *)

\* A share may be added: the session handles one at a time.
CanAdd(s) ==
    /\ s \notin ended
    /\ work[s] = Idle
    /\ Total(added) < MaxShares

AddFirst(s, k) ==
    /\ CanAdd(s) /\ slot[s] = 0
    /\ added' = Plus(added, One(k))
    /\ slot' = [slot EXCEPT ![s] = TimeSlot]
    /\ count' = [count EXCEPT ![s] = Plus(@, One(k))]
    /\ work' = [work EXCEPT ![s] = Statement("insert", TimeSlot, count'[s])]
    /\ UNCHANGED <<now, ended, due, stored, rows, poolVars, boundVars, mishap>>

\* The slot has changed: the row of the old one is brought up to date first.
ClosingOld(s, k) == Closing(s, count[s], TimeSlot, k)

AddInNewSlot(s, k) ==
    /\ CanAdd(s) /\ slot[s] # 0 /\ slot[s] # TimeSlot
    /\ added' = Plus(added, One(k))
    /\ work' = [work EXCEPT ![s] = ClosingOld(s, k)]
    /\ UNCHANGED <<now, ended, slot, count, due, stored, rows, poolVars, boundVars, mishap>>

\* In the slot: counted in memory, and stored if the last save is a minute old.
AddInSlot(s, k) ==
    /\ CanAdd(s) /\ slot[s] = TimeSlot
    /\ added' = Plus(added, One(k))
    /\ count' = [count EXCEPT ![s] = Plus(@, One(k))]
    /\ work' = [work EXCEPT ![s] =
         IF due[s] THEN Statement("update", slot[s], count'[s]) ELSE Idle]
    /\ UNCHANGED <<now, ended, slot, due, stored, rows, poolVars, boundVars, mishap>>

-----------------------------------------------------------------------------
(* The statements of the sessions.                                         *)

Old(k) == now - k >= Retention
OldRows == {key \in DOMAIN rows : Old(key[2])}

RowsWith(key, values) ==
    [k \in DOMAIN rows \union {key} |-> IF k = key THEN values ELSE rows[k]]

InsertDone(s) ==
    /\ work[s].op = "insert"
    /\ rows' = RowsWith(<<s, work[s].at>>, work[s].values)
    /\ stored' = [stored EXCEPT ![s] = work[s].values]
    /\ work' = [work EXCEPT ![s] = Idle]
    /\ due' = [due EXCEPT ![s] = FALSE]
    /\ UNCHANGED <<now, ended, slot, count, poolVars, boundVars, added, mishap>>

(* UPDATE ... WHERE session and slot: without the row, nothing happens.  A *)
(* row behind the retention may be summed or deleted already.              *)
Update(s) ==
    LET key == <<s, work[s].at>> IN
    /\ rows' = IF key \in DOMAIN rows THEN [rows EXCEPT ![key] = work[s].values] ELSE rows
    /\ mishap' = (mishap \/ key \notin DOMAIN rows \/ Old(work[s].at))

UpdateDone(s) ==
    /\ work[s].op = "update"
    /\ Update(s)
    /\ stored' = [stored EXCEPT ![s] = work[s].values]
    /\ work' = [work EXCEPT ![s] = Idle]
    /\ due' = [due EXCEPT ![s] = FALSE]
    /\ UNCHANGED <<now, ended, slot, count, poolVars, boundVars, added>>

\* The new slot begins with the share that waited; its row is inserted.
CloseDone(s) ==
    /\ work[s].op = "close"
    /\ Update(s)
    /\ slot' = [slot EXCEPT ![s] = work[s].to]
    /\ count' = [count EXCEPT ![s] = work[s].share]
    /\ stored' = [stored EXCEPT ![s] = Zero]
    /\ work' = [work EXCEPT ![s] = Statement("insert", work[s].to, work[s].share)]
    /\ UNCHANGED <<now, ended, due, poolVars, boundVars, added>>

(* A statement fails and the caller logs it.  What was counted stays in    *)
(* memory for the next save; but a share that waited for its new slot is   *)
(* never counted, and a row that was not inserted is never there to update.*)
StatementFails(s) ==
    /\ work[s] # Idle
    /\ failures < MaxFailures
    /\ failures' = failures + 1
    /\ work' = [work EXCEPT ![s] = Idle]
    /\ mishap' = (mishap \/ work[s].op # "update")
    /\ UNCHANGED <<now, ended, slot, count, due, stored, rows, poolVars, crashes, added>>

\* The session has handled its last share; what is not stored stays so.
End(s) ==
    /\ s \notin ended
    /\ work[s] = Idle
    /\ ended' = ended \union {s}
    /\ UNCHANGED <<now, slot, count, due, work, stored, rows, poolVars, boundVars,
                   added, mishap>>

-----------------------------------------------------------------------------
(* Time.  Rows that fall behind the retention between the sum and the      *)
(* delete, each of which reads the clock, are deleted without being added. *)

Minute(s) ==
    /\ ~due[s]
    /\ due' = [due EXCEPT ![s] = TRUE]
    /\ UNCHANGED <<now, ended, slot, count, work, stored, rows, poolVars, boundVars,
                   added, mishap>>

NextSlot ==
    /\ now < MaxSlot
    /\ \A s \in Session : work[s] # Idle => work[s].to = now    \* none waits ten minutes
    /\ now' = now + 1
    /\ mishap' = (\/ mishap
                  \/ retiring # Nothing /\ \E key \in DOMAIN rows : key[2] = now' - Retention)
    /\ due' = [s \in Session |-> TRUE]
    /\ UNCHANGED <<ended, slot, count, work, stored, rows, poolVars, boundVars, added>>

-----------------------------------------------------------------------------
(* The hourly roll-up, and the minute's uptime flush, which saves the whole*)
(* row of pool_meta too.                                                   *)

\* A slip: the sum starts one slot later than the delete.
RetiringOlder == Sum(rows, {key \in DOMAIN rows : now - key[2] > Retention})

Retiring == Sum(rows, OldRows)

\* The old rows are summed, added to the copy, and the copy is saved.
RollUp ==
    /\ retiring = Nothing
    /\ retiring' = [counts |-> Retiring]
    /\ rolledUp' = Plus(rolledUp, Retiring)
    /\ meta' = IF Retiring = Zero THEN meta ELSE rolledUp'
    /\ UNCHANGED <<now, sessionVars, rows, boundVars, added, mishap>>

\* deleteOldStatistics: what is old by now goes.
DeleteOld ==
    /\ retiring # Nothing
    /\ retiring' = Nothing
    /\ rows' = Restrict(rows, DOMAIN rows \ OldRows)
    /\ UNCHANGED <<now, sessionVars, meta, rolledUp, boundVars, added, mishap>>

FlushUptime ==
    /\ meta' = rolledUp
    /\ UNCHANGED <<now, sessionVars, rows, rolledUp, retiring, boundVars, added, mishap>>

(* The process of the roll-up ends and a new one reads the row; between    *)
(* the saved sum and the delete, the rows will be added once more.         *)
Crash ==
    /\ crashes < MaxCrashes
    /\ crashes' = crashes + 1
    /\ ended' = ended \union Home
    /\ work' = [s \in Session |-> IF s \in Home THEN Idle ELSE work[s]]
    /\ rolledUp' = meta
    /\ retiring' = Nothing
    /\ mishap' = (mishap \/ (retiring # Nothing /\ retiring.counts # Zero)
                        \/ \E s \in Home : work[s] # Idle)
    /\ UNCHANGED <<now, slot, count, due, stored, rows, meta, failures, added>>

Next ==
    \/ \E s \in Session :
         \/ \E k \in Kind : AddFirst(s, k) \/ AddInNewSlot(s, k) \/ AddInSlot(s, k)
         \/ InsertDone(s) \/ UpdateDone(s) \/ CloseDone(s) \/ StatementFails(s)
         \/ End(s) \/ Minute(s)
    \/ NextSlot
    \/ RollUp \/ DeleteOld \/ FlushUptime
    \/ Crash

Spec == Init /\ [][Next]_vars

-----------------------------------------------------------------------------
Counts == [Kind -> Nat]
Statements ==
    [op : {"insert", "update", "close"}, at : 1..now, values : Counts, to : 1..now, share : Counts]

TypeOK ==
    /\ now \in 1..MaxSlot
    /\ ended \subseteq Session
    /\ slot \in [Session -> 0..now]
    /\ count \in [Session -> Counts]
    /\ due \in [Session -> BOOLEAN]
    /\ work \in [Session -> {Idle} \union Statements]
    /\ DOMAIN rows \subseteq Session \X (1..now)
    /\ \A key \in DOMAIN rows : rows[key] \in Counts
    /\ meta \in Counts /\ rolledUp \in Counts
    /\ retiring \in {Nothing} \union [counts : Counts]
    /\ failures \in 0..MaxFailures /\ crashes \in 0..MaxCrashes
    /\ added \in Counts
    /\ stored \in [Session -> Counts]
    /\ mishap \in BOOLEAN

\* What a session has been given and the table has not.
Unstored(s) ==
    Plus(Minus(count[s], stored[s]), IF work[s] = Idle THEN Zero ELSE work[s].share)

Twice == IF retiring = Nothing THEN Zero ELSE retiring.counts

(* "All-time accepted = this + SUM(current statistics)"                    *)
(* (pool-meta.entity.ts:23): the rolled up counts and the rows hold every  *)
(* share once, but for what sessions have in memory, and what is being     *)
(* retired at this moment.  That holds through slot changes, failing       *)
(* updates, the ends of sessions, roll-ups and crashes; the cases called   *)
(* mishaps above are the only ones that break it.                          *)
AllTimeExact ==
    ~mishap =>
        Plus(Plus(meta, Sum(rows, DOMAIN rows)), Sum([s \in Session |-> Unstored(s)], Session))
            = Plus(added, Twice)
=============================================================================
