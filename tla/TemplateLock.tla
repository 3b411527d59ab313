---------------------------- MODULE TemplateLock ----------------------------
(***************************************************************************)
(* How the worker processes of one pool share block templates              *)
(* (BitcoinRpcService.getBlockTemplate, RpcBlockService).  A table has one *)
(* row for each height: the process that locked it, and the template that  *)
(* it has loaded.  A process that finds the row empty locks it and asks    *)
(* the node; one that finds a template takes it; the owner asks the node   *)
(* again at each of its refreshes.  Without PM2 there is one process, with *)
(* no instance number, and it never writes a row.                          *)
(*                                                                         *)
(* lockBlock is TypeORM's save: it reads the row and, in a later step,     *)
(* inserts it or updates what differs from what was read.  Only one of two *)
(* inserts throws, so a lock can be taken over by another process, and a   *)
(* template that was saved in between is then cleared.                     *)
(***************************************************************************)
EXTENDS Integers

CONSTANTS
    Process,      \* NODE_APP_INSTANCE of the workers under PM2
    Solo,         \* the process of a pool that runs without PM2
    Gone,         \* an instance of an earlier run that does not run any more
    Call,         \* names for calls of getBlockTemplate in progress
    Caller(_),    \* the process whose call it is
    MaxHeight,    \* bound: blocks of the chain
    MaxContent,   \* bound: templates the node ever has
    MaxFaults     \* bound: processes that crash, accesses that fail or take a minute

ASSUME ProcessAssumption == Solo \notin Process /\ Gone \notin Process \union {Solo}
ASSUME CallerAssumption == \A c \in Call : Caller(c) \in Process \union {Solo}
ASSUME BoundAssumption == MaxHeight \in Nat \ {0} /\ MaxContent \in Nat \ {0} /\ MaxFaults \in Nat

VARIABLES
    node,      \* the node's template: the tip it builds on, and its content
    cluster,   \* whether the pool runs under PM2
    rows,      \* rpc_block_entity, by height
    calls,     \* calls of getBlockTemplate
    known,     \* blockHeight of each process
    work,      \* the template that each process was handed out last
    faults

vars == <<node, cluster, rows, calls, known, work, faults>>

-----------------------------------------------------------------------------
Height   == 1..MaxHeight
Template == [tip : Height, content : 1..MaxContent]
Instance == Process \union {Solo}

NoData == [tip |-> 0, content |-> 0]
NoRow  == [lockedBy |-> Gone, data |-> NoData, exists |-> FALSE]
Row(p, data) == [lockedBy |-> p, data |-> data, exists |-> TRUE]
RowType == [lockedBy : Instance \union {Gone}, data : Template \union {NoData}, exists : BOOLEAN]

\* get: getBlock.  lock, write: the two halves of lockBlock.
Step == {"idle", "get", "lock", "write", "wait", "load", "save"}

\* seen: what lockBlock has read.
\* wanted: the process has made no later call (newMiningJob$ has not switched).
Idle == [step |-> "idle", height |-> 1, seen |-> NoRow, template |-> NoData, wanted |-> FALSE]
CallType == [step : Step, height : Height, seen : RowType,
             template : Template \union {NoData}, wanted : BOOLEAN]

Running == IF cluster THEN Process ELSE {Solo}
CallsOf(p) == {c \in Call : Caller(c) = p}

\* The first row may be left over from an earlier run of the pool, by any process.
LeftOver ==
    {NoRow, Row(Gone, NoData)} \union
        {Row(p, [tip |-> 1, content |-> 1]) : p \in Instance \union {Gone}}

Init ==
    /\ node = [tip |-> 1, content |-> 1]
    /\ cluster \in BOOLEAN
    /\ \E row \in LeftOver : rows = [h \in Height |-> IF h = 1 THEN row ELSE NoRow]
    /\ calls = [c \in Call |-> Idle]
    /\ known = [p \in Instance |-> 0]
    /\ work = [p \in Instance |-> NoData]
    /\ faults = 0

-----------------------------------------------------------------------------
(* The node, and what a process knows of it.                               *)

\* A transaction comes, or a competing block of the same height.
NodeContent ==
    /\ node.content < MaxContent
    /\ node' = [node EXCEPT !.content = @ + 1]
    /\ UNCHANGED <<cluster, rows, calls, known, work, faults>>

NodeBlock ==
    /\ node.content < MaxContent /\ node.tip < MaxHeight
    /\ node' = [tip |-> node.tip + 1, content |-> node.content + 1]
    /\ UNCHANGED <<cluster, rows, calls, known, work, faults>>

\* pollMiningInfo: a block the process did not know of.
Poll(p) ==
    /\ node.tip > known[p]
    /\ known' = [known EXCEPT ![p] = node.tip]
    /\ UNCHANGED <<node, cluster, rows, calls, work, faults>>

-----------------------------------------------------------------------------
(* A call of getBlockTemplate.                                             *)

Goto(c, call) ==
    /\ calls' = [calls EXCEPT ![c] = call]
    /\ UNCHANGED <<node, cluster, known, faults>>

\* The call ends with a template; newMiningJob$ takes it if it asked for no other.
AnswerWith(c, template) ==
    /\ Goto(c, Idle)
    /\ work' = IF calls[c].wanted THEN [work EXCEPT ![Caller(c)] = template] ELSE work

\* The process still waits for an answer about the height it knows.
Slow(p) == \E d \in CallsOf(p) : calls[d].wanted /\ calls[d].height = known[p]

\* newBlock$ has had a value.
Knows(p) == known[p] # 0

\* A new block or the refresh of each minute; the calls before it go on unheard.
Ask(p, c) ==
    /\ Knows(p)
    /\ c \in CallsOf(p) /\ calls[c].step = "idle"
    /\ Slow(p) => faults < MaxFaults
    /\ faults' = IF Slow(p) THEN faults + 1 ELSE faults
    /\ calls' = [d \in Call |->
         IF d = c THEN [Idle EXCEPT !.step = "get", !.height = known[p], !.wanted = TRUE]
         ELSE IF d \in CallsOf(p) THEN [calls[d] EXCEPT !.wanted = FALSE]
         ELSE calls[d]]
    /\ UNCHANGED <<node, cluster, rows, known, work>>

Complete(row) == row.data # NoData

\* Without PM2 the owner is compared as null.
Owns(p, row) == row.lockedBy = p

\* A slip: a row that another process locked is waited for, not locked again.
FindRowWaiting(c) ==
    LET p == Caller(c)  row == rows[calls[c].height] IN
    /\ calls[c].step = "get"
    /\ IF Complete(row) /\ ~Owns(p, row)
         THEN AnswerWith(c, row.data)
         ELSE /\ Goto(c, [calls[c] EXCEPT !.step =
                   IF Complete(row) \/ ~cluster THEN "load"
                   ELSE IF row.exists THEN "wait" ELSE "lock"])
              /\ UNCHANGED work
    /\ UNCHANGED rows

\* A slip: the owner takes its own template back.
FindRowCached(c) ==
    LET row == rows[calls[c].height] IN
    /\ calls[c].step = "get"
    /\ IF Complete(row)
         THEN AnswerWith(c, row.data)
         ELSE /\ Goto(c, [calls[c] EXCEPT !.step = IF ~cluster THEN "load" ELSE "lock"])
              /\ UNCHANGED work
    /\ UNCHANGED rows

\* getBlock: a template of another process is the answer; the owner loads anew.
FindRow(c) ==
    LET p == Caller(c)  row == rows[calls[c].height] IN
    /\ calls[c].step = "get"
    /\ IF Complete(row) /\ ~Owns(p, row)
         THEN AnswerWith(c, row.data)
         ELSE /\ Goto(c, [calls[c] EXCEPT !.step =
                   IF Complete(row) \/ ~cluster THEN "load" ELSE "lock"])
              /\ UNCHANGED work
    /\ UNCHANGED rows

\* lockBlock reads the row.
LockRead(c) ==
    /\ calls[c].step = "lock"
    /\ Goto(c, [calls[c] EXCEPT !.step = "write", !.seen = rows[calls[c].height]])
    /\ UNCHANGED <<rows, work>>

\* There was no row: it is inserted, or another process has been faster.
LockInsert(c) ==
    LET h == calls[c].height IN
    /\ calls[c].step = "write" /\ ~calls[c].seen.exists
    /\ IF rows[h].exists
         THEN Goto(c, [calls[c] EXCEPT !.step = "wait"]) /\ UNCHANGED rows
         ELSE /\ rows' = [rows EXCEPT ![h] = Row(Caller(c), NoData)]
              /\ Goto(c, [calls[c] EXCEPT !.step = "load"])
    /\ UNCHANGED work

\* There was one: whatever differed then is written, if the row is still there.
LockUpdate(c) ==
    LET h == calls[c].height  seen == calls[c].seen IN
    /\ calls[c].step = "write" /\ seen.exists
    /\ rows' = IF ~rows[h].exists THEN rows
               ELSE [rows EXCEPT
                 ![h].lockedBy = IF seen.lockedBy # Caller(c) THEN Caller(c) ELSE @,
                 ![h].data = IF Complete(seen) THEN NoData ELSE @]
    /\ Goto(c, [calls[c] EXCEPT !.step = "load"])
    /\ UNCHANGED work

\* waitForBlock finds a template; the code goes on to load one all the same.
WaitFound(c) ==
    /\ calls[c].step = "wait"
    /\ Complete(rows[calls[c].height])
    /\ Goto(c, [calls[c] EXCEPT !.step = "load"])
    /\ UNCHANGED <<rows, work>>

\* A slip: there is no deadline.
WaitForever(c) == FALSE /\ UNCHANGED vars

\* The deadline of waitForBlock: it throws, and the call fails.
WaitTimeout(c) ==
    /\ calls[c].step = "wait"
    /\ Goto(c, Idle)
    /\ UNCHANGED <<rows, work>>

\* loadBlockTemplate: the node's template of now, whatever height was asked for.
Load(c) ==
    /\ calls[c].step = "load"
    /\ Goto(c, [calls[c] EXCEPT !.step = "save", !.template = node])
    /\ UNCHANGED <<rows, work>>

\* A slip: the row of the height that the process has come to know meanwhile.
SavedKnown(c) == known[Caller(c)]

\* The row that saveBlock updates.
SavedHeight(c) == calls[c].height

Save(c) ==
    LET h == SavedHeight(c) IN
    /\ calls[c].step = "save"
    /\ rows' = IF rows[h].exists THEN [rows EXCEPT ![h].data = calls[c].template] ELSE rows
    /\ AnswerWith(c, calls[c].template)

(* An access fails.  The node does not answer, has no template before the  *)
(* deadline, or the row cannot be read or written: the call fails.  But    *)
(* whatever goes wrong in lockBlock counts as a lock of another process.   *)
Fail(c) ==
    /\ calls[c].step \notin {"idle", "wait"}
    /\ faults < MaxFaults
    /\ faults' = faults + 1
    /\ calls' = [calls EXCEPT ![c] =
         IF @.step \in {"lock", "write"} THEN [@ EXCEPT !.step = "wait"] ELSE Idle]
    /\ UNCHANGED <<node, cluster, rows, known, work>>

-----------------------------------------------------------------------------
\* deleteOldBlocks, once a day: only the highest row stays.
DeleteOldBlocks ==
    /\ rows' = [h \in Height |-> IF \E g \in Height : g > h /\ rows[g].exists THEN NoRow ELSE rows[h]]
    /\ UNCHANGED <<node, cluster, calls, known, work, faults>>

\* A process ends, with its calls, and is started again.
Crash(p) ==
    /\ faults < MaxFaults
    /\ faults' = faults + 1
    /\ calls' = [c \in Call |-> IF c \in CallsOf(p) THEN Idle ELSE calls[c]]
    /\ known' = [known EXCEPT ![p] = 0]
    /\ work' = [work EXCEPT ![p] = NoData]
    /\ UNCHANGED <<node, cluster, rows>>

Advance(c) ==
    FindRow(c) \/ LockRead(c) \/ LockInsert(c) \/ LockUpdate(c)
      \/ WaitFound(c) \/ WaitTimeout(c) \/ Load(c) \/ Save(c)

Next ==
    \/ NodeContent \/ NodeBlock \/ DeleteOldBlocks
    \/ \E p \in Running : Poll(p) \/ Crash(p) \/ \E c \in CallsOf(p) : Ask(p, c)
    \/ \E c \in Call : Advance(c) \/ Fail(c)

Spec == Init /\ [][Next]_vars

(* A process polls and asks again for ever (the intervals of the services);*)
(* a call's next query is answered, or its deadline passes.                *)
Fairness ==
    /\ \A p \in Instance : WF_vars(p \in Running /\ Poll(p))
    /\ \A p \in Instance : WF_vars(p \in Running /\ \E c \in CallsOf(p) : Ask(p, c))
    /\ \A c \in Call : WF_vars(Advance(c))

FairSpec == Spec /\ Fairness

-----------------------------------------------------------------------------
TypeOK ==
    /\ node \in Template
    /\ cluster \in BOOLEAN
    /\ rows \in [Height -> RowType]
    /\ calls \in [Call -> CallType]
    /\ known \in [Instance -> 0..MaxHeight]
    /\ work \in [Instance -> Template \union {NoData}]
    /\ faults \in 0..MaxFaults

(* A template that is handed out builds on the block that was asked for or *)
(* a later one, though the node may be ahead of the process that asks, and *)
(* the row's template may come from a third (getBlockTemplate).            *)
AnswerFits ==
    [][\A c \in Call :
         calls[c].wanted /\ calls'[c] = Idle /\ work' # work
           => \/ work'[Caller(c)] = NoData
              \/ calls[c].height <= work'[Caller(c)].tip]_vars

(* A call of getBlockTemplate ends: no process waits for ever for one that *)
(* crashed with the lock, or whose row was deleted (waitForBlock).         *)
EveryCallEnds ==
    \A c \in Call : calls[c].step # "idle" ~> calls[c].step = "idle"

(* Once the chain stands still, every process works on its last block for  *)
(* good, whoever locked the row and crashed before a template was saved,   *)
(* and whichever process of an earlier run has left it behind.             *)
NewTipReachesAll ==
    <>[](\A p \in Running : work[p].tip = node.tip)

\* The row is locked by an instance that does not run: nobody refreshes it.
Orphaned == rows[node.tip].exists /\ rows[node.tip].lockedBy \notin Running

(* Once the node's template stays as it is, every process hands it out for *)
(* good, whether it asks the node or takes what the owner's refreshes      *)
(* saved; unless the row belongs to a process of an earlier run, with more *)
(* workers or under PM2: then its template stays until the next block.     *)
RefreshReachesAll ==
    <>[](~Orphaned => \A p \in Running : work[p] = node)
=============================================================================
