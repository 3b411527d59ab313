------------------------- MODULE TemplateLockProofs -------------------------
(***************************************************************************)
(* Theorems about TemplateLock, for any number of processes, calls that    *)
(* overlap, blocks, templates, crashes and failures.                       *)
(***************************************************************************)
EXTENDS TemplateLock, TLAPS

LEMMA BoundsAreNaturals == MaxHeight \in Nat /\ MaxHeight >= 1
                             /\ MaxContent \in Nat /\ MaxContent >= 1 /\ MaxFaults \in Nat
BY BoundAssumption

-----------------------------------------------------------------------------
(* No process, and no call, knows of a block that the node does not have.  *)
KnownOfNode ==
    /\ \A p \in Instance : known[p] <= node.tip
    /\ \A c \in Call : calls[c].step # "idle" => calls[c].height <= node.tip

(* A template under a height builds on that block or a later one; so does  *)
(* one that is about to be saved there.                                    *)
TemplatesFit ==
    /\ \A h \in Height : Complete(rows[h]) => h <= rows[h].data.tip
    /\ \A c \in Call : calls[c].step = "save" =>
         calls[c].template \in Template /\ calls[c].height <= calls[c].template.tip

IInv == TypeOK /\ KnownOfNode /\ TemplatesFit

LEMMA IdleCall == Idle \in CallType /\ Idle.step = "idle" /\ NoRow \in RowType
BY BoundsAreNaturals
   DEF Idle, CallType, Step, NoRow, RowType, Instance, NoData, Height, Template

LEMMA InitIInv == Init => IInv
<1> SUFFICES ASSUME Init PROVE IInv
  OBVIOUS
<1> DEFINE first == [tip |-> 1, content |-> 1]
<1>1. first \in Template /\ first # NoData
  BY BoundsAreNaturals DEF Template, Height, NoData
<1>2. PICK row \in LeftOver : rows = [h \in Height |-> IF h = 1 THEN row ELSE NoRow]
  BY DEF Init
<1>3. row \in RowType /\ (Complete(row) => row.data = first)
  <2>1. row = NoRow \/ row = Row(Gone, NoData) \/ \E p \in Instance \union {Gone} : row = Row(p, first)
    BY DEF LeftOver
  <2>2. \A p \in Instance \union {Gone} : Row(p, first) \in RowType /\ Row(p, first).data = first
    BY <1>1 DEF Row, RowType
  <2>3. Row(Gone, NoData) \in RowType /\ ~Complete(Row(Gone, NoData))
    BY DEF Row, RowType, Complete
  <2>4. ~Complete(NoRow) BY DEF Complete, NoRow
  <2>5. CASE row = NoRow BY <2>4, <2>5, IdleCall
  <2>6. CASE row = Row(Gone, NoData) BY <2>3, <2>6
  <2>7. CASE \E p \in Instance \union {Gone} : row = Row(p, first) BY <2>2, <2>7
  <2> QED BY <2>1, <2>5, <2>6, <2>7
<1>4. rows \in [Height -> RowType] BY <1>2, <1>3, IdleCall
<1>5. \A h \in Height : Complete(rows[h]) => h <= rows[h].data.tip
  BY <1>2, <1>3 DEF Complete, NoRow, Height
<1>6. TypeOK
  BY <1>1, <1>4, IdleCall, BoundsAreNaturals DEF Init, TypeOK
<1>7. KnownOfNode BY IdleCall DEF Init, KnownOfNode, Instance
<1>8. TemplatesFit BY <1>5, IdleCall DEF Init, TemplatesFit
<1> QED BY <1>6, <1>7, <1>8 DEF IInv

-----------------------------------------------------------------------------
(* The node goes on, and so does what a process knows of it.               *)

LEMMA NodeKeeps == ASSUME IInv, NodeContent \/ NodeBlock PROVE IInv'
<1>1. node' \in Template /\ node'.tip >= node.tip
  BY BoundsAreNaturals
     DEF IInv, TypeOK, NodeContent, NodeBlock, Template, Height
<1>2. UNCHANGED <<cluster, rows, calls, known, work, faults>>
  BY DEF NodeContent, NodeBlock
<1>3. node.tip \in Nat /\ node'.tip \in Nat
  BY <1>1 DEF IInv, TypeOK, Template, Height
<1>4. \A p \in Instance : known[p] \in Nat BY DEF IInv, TypeOK
<1>5. \A c \in Call : calls[c].height \in Nat BY DEF IInv, TypeOK, CallType, Height
<1>6. KnownOfNode' BY <1>1, <1>2, <1>3, <1>4, <1>5 DEF IInv, KnownOfNode
<1> QED BY <1>1, <1>2, <1>6 DEF IInv, TypeOK, TemplatesFit

LEMMA PollKeeps == ASSUME IInv, NEW p \in Running, Poll(p) PROVE IInv'
<1>1. node.tip \in 0..MaxHeight BY BoundsAreNaturals DEF IInv, TypeOK, Template, Height
<1>2. known' = [known EXCEPT ![p] = node.tip]
        /\ UNCHANGED <<node, cluster, rows, calls, work, faults>>
  BY DEF Poll
<1>3. TypeOK' BY <1>1, <1>2 DEF IInv, TypeOK
<1>4. KnownOfNode' BY <1>1, <1>2 DEF IInv, TypeOK, KnownOfNode
<1>5. TemplatesFit' BY <1>2 DEF IInv, TemplatesFit, Complete
<1> QED BY <1>3, <1>4, <1>5 DEF IInv

LEMMA AskKeeps == ASSUME IInv, NEW p \in Running, NEW c \in Call, Ask(p, c) PROVE IInv'
<1> DEFINE asked == [Idle EXCEPT !.step = "get", !.height = known[p], !.wanted = TRUE]
<1>1. p \in Instance BY DEF Running, Instance
<1>2. known[p] \in Height /\ known[p] <= node.tip
  BY <1>1, BoundsAreNaturals DEF Ask, Knows, IInv, TypeOK, KnownOfNode, Height
<1>3. asked \in CallType /\ asked.step = "get" /\ asked.height = known[p]
  BY <1>2, IdleCall DEF Idle, CallType, Step
<1>4. ASSUME NEW d \in Call
      PROVE  [calls[d] EXCEPT !.wanted = FALSE] \in CallType
  BY DEF IInv, TypeOK, CallType
<1>5. ASSUME NEW d \in Call, d # c
      PROVE  /\ calls'[d] \in CallType
             /\ calls'[d].step = calls[d].step
             /\ calls'[d].height = calls[d].height
             /\ calls'[d].template = calls[d].template
  <2>1. calls[d] \in CallType BY DEF IInv, TypeOK
  <2> QED BY <1>4, <1>5, <2>1 DEF Ask, CallType
<1>6. calls'[c] = asked BY DEF Ask
<1>7. calls' \in [Call -> CallType]
  <2>1. \A d \in Call : calls'[d] \in CallType BY <1>3, <1>5, <1>6
  <2>2. calls' = [d \in Call |-> calls'[d]] BY DEF Ask
  <2> QED BY <2>1, <2>2
<1>8. faults' \in 0..MaxFaults BY BoundsAreNaturals DEF Ask, IInv, TypeOK
<1>9. UNCHANGED <<node, cluster, rows, known, work>> BY DEF Ask
<1>10. TypeOK' BY <1>7, <1>8, <1>9 DEF IInv, TypeOK
<1>11. KnownOfNode' BY <1>2, <1>3, <1>5, <1>6, <1>9 DEF IInv, KnownOfNode
<1>12. TemplatesFit' BY <1>3, <1>5, <1>6, <1>9 DEF IInv, TemplatesFit
<1> QED BY <1>10, <1>11, <1>12 DEF IInv

-----------------------------------------------------------------------------
(* Steps of a call.                                                        *)

\* A call that goes on to another step, for the same height, with the rows as they are.
LEMMA GotoKeeps ==
    ASSUME IInv, NEW c \in Call, NEW call \in CallType, Goto(c, call),
           UNCHANGED <<rows, work>>,
           call.step # "idle" => calls[c].step # "idle" /\ call.height = calls[c].height,
           call.step = "save" => call.template \in Template /\ call.height <= call.template.tip
    PROVE  IInv'
<1>1. calls' = [calls EXCEPT ![c] = call] /\ UNCHANGED <<node, cluster, known, faults>>
  BY DEF Goto
<1>2. calls' \in [Call -> CallType] BY <1>1 DEF IInv, TypeOK
<1>3. calls'[c] = call /\ \A d \in Call \ {c} : calls'[d] = calls[d]
  BY <1>1 DEF IInv, TypeOK
<1>4. TypeOK' BY <1>1, <1>2 DEF IInv, TypeOK
<1>5. KnownOfNode' BY <1>1, <1>3 DEF IInv, KnownOfNode
<1>6. TemplatesFit' BY <1>1, <1>3 DEF IInv, TemplatesFit
<1> QED BY <1>4, <1>5, <1>6 DEF IInv

\* A call that ends with a template, the rows as they are or holding what fits.
LEMMA AnswerKeeps ==
    ASSUME IInv, NEW c \in Call, NEW t \in Template, AnswerWith(c, t),
           rows' \in [Height -> RowType],
           \A h \in Height : Complete(rows'[h]) => h <= rows'[h].data.tip
    PROVE  IInv'
<1>1. calls' = [calls EXCEPT ![c] = Idle] /\ UNCHANGED <<node, cluster, known, faults>>
  BY DEF AnswerWith, Goto
<1>2. calls' \in [Call -> CallType] BY <1>1, IdleCall DEF IInv, TypeOK
<1>3. calls'[c] = Idle /\ \A d \in Call \ {c} : calls'[d] = calls[d]
  BY <1>1 DEF IInv, TypeOK
<1>4. work' \in [Instance -> Template \union {NoData}]
  <2>1. work' = work \/ work' = [work EXCEPT ![Caller(c)] = t] BY DEF AnswerWith
  <2> QED BY <2>1 DEF IInv, TypeOK
<1>5. TypeOK' BY <1>1, <1>2, <1>4 DEF IInv, TypeOK
<1>6. KnownOfNode' BY <1>1, <1>3, IdleCall DEF IInv, KnownOfNode
<1>7. TemplatesFit' BY <1>1, <1>3, IdleCall DEF IInv, TemplatesFit, Complete
<1> QED BY <1>5, <1>6, <1>7 DEF IInv

\* Changing the step of a call that is in progress.
LEMMA StepKeeps ==
    ASSUME IInv, NEW c \in Call, NEW s \in Step \ {"save", "idle"}, calls[c].step # "idle",
           Goto(c, [calls[c] EXCEPT !.step = s]), UNCHANGED <<rows, work>>
    PROVE  IInv'
<1> DEFINE call == [calls[c] EXCEPT !.step = s]
<1>1. calls[c] \in CallType BY DEF IInv, TypeOK
<1>2. call \in CallType /\ call.step = s /\ call.height = calls[c].height
  BY <1>1 DEF CallType
<1> HIDE DEF call
<1> QED BY <1>2, GotoKeeps DEF call

LEMMA FindRowKeeps == ASSUME IInv, NEW c \in Call, FindRow(c) PROVE IInv'
<1> DEFINE row == rows[calls[c].height]
<1>1. calls[c].height \in Height BY DEF IInv, TypeOK, CallType
<1>2. row \in RowType BY <1>1 DEF IInv, TypeOK
<1>3. UNCHANGED rows /\ calls[c].step = "get" BY DEF FindRow
<1>4. CASE Complete(row) /\ ~Owns(Caller(c), row)
  <2>1. AnswerWith(c, row.data) BY <1>4 DEF FindRow
  <2>2. row.data \in Template BY <1>2, <1>4 DEF RowType, Complete
  <2> QED BY <1>3, <2>1, <2>2, AnswerKeeps DEF IInv, TypeOK, TemplatesFit
<1>5. CASE ~(Complete(row) /\ ~Owns(Caller(c), row))
  <2>1. PICK s \in {"load", "lock"} : Goto(c, [calls[c] EXCEPT !.step = s])
    BY <1>5 DEF FindRow
  <2>2. s \in Step \ {"save", "idle"} BY DEF Step
  <2>3. UNCHANGED work BY <1>5 DEF FindRow
  <2> QED BY <1>3, <2>1, <2>2, <2>3, StepKeeps
<1> QED BY <1>4, <1>5

LEMMA LockReadKeeps == ASSUME IInv, NEW c \in Call, LockRead(c) PROVE IInv'
<1> DEFINE call == [calls[c] EXCEPT !.step = "write", !.seen = rows[calls[c].height]]
<1>1. calls[c] \in CallType /\ rows[calls[c].height] \in RowType
  BY DEF IInv, TypeOK, CallType
<1>2. call \in CallType /\ call.step = "write" /\ call.height = calls[c].height
  BY <1>1 DEF CallType, Step
<1>3. Goto(c, call) /\ UNCHANGED <<rows, work>> /\ calls[c].step # "idle"
  BY DEF LockRead
<1> HIDE DEF call
<1> QED BY <1>2, <1>3, GotoKeeps

\* The rows of another height are left alone, and the changed one holds no new template.
LEMMA LockWriteKeeps ==
    ASSUME IInv, NEW c \in Call, LockInsert(c) \/ LockUpdate(c) PROVE IInv'
<1> DEFINE h == calls[c].height
<1>1. h \in Height /\ calls[c] \in CallType /\ calls[c].step = "write"
  BY DEF IInv, TypeOK, CallType, LockInsert, LockUpdate
<1>2. Caller(c) \in Instance BY CallerAssumption DEF Instance
<1>3. rows \in [Height -> RowType] BY DEF IInv, TypeOK
<1>4. PICK s \in {"load", "wait"} : Goto(c, [calls[c] EXCEPT !.step = s])
  BY DEF LockInsert, LockUpdate
<1>5. s \in Step \ {"save", "idle"} BY DEF Step
<1>6. UNCHANGED work BY DEF LockInsert, LockUpdate
<1>7. /\ rows' \in [Height -> RowType]
      /\ \A g \in Height : Complete(rows'[g]) => rows'[g].data = rows[g].data
  <2>1. CASE LockInsert(c)
    <3>1. rows' = rows \/ rows' = [rows EXCEPT ![h] = Row(Caller(c), NoData)]
      BY <2>1 DEF LockInsert
    <3>2. Row(Caller(c), NoData) \in RowType /\ ~Complete(Row(Caller(c), NoData))
      BY <1>2 DEF Row, RowType, Complete
    <3> HIDE DEF h
    <3> QED BY <1>1, <1>3, <3>1, <3>2
  <2>2. CASE LockUpdate(c)
    <3>1. PICK o \in Instance \union {Gone}, d \in {NoData, rows[h].data} :
            rows' = rows \/ rows' = [rows EXCEPT ![h].lockedBy = o, ![h].data = d]
      <4>1. rows[h].lockedBy \in Instance \union {Gone}
        BY <1>1, <1>3 DEF RowType
      <4> HIDE DEF h
      <4> QED BY <1>2, <2>2, <4>1 DEF LockUpdate, h
    <3>2. rows[h] \in RowType BY <1>1, <1>3
    <3>3. [rows[h] EXCEPT !.lockedBy = o, !.data = d] \in RowType
            /\ [rows[h] EXCEPT !.lockedBy = o, !.data = d].data = d
      BY <3>1, <3>2 DEF RowType
    <3>4. rows' = rows \/ rows' = [rows EXCEPT ![h] = [rows[h] EXCEPT !.lockedBy = o, !.data = d]]
      BY <1>1, <1>3, <3>1
    <3> HIDE DEF h
    <3> QED BY <1>1, <1>3, <3>1, <3>3, <3>4 DEF Complete
  <2> QED BY <2>1, <2>2
<1>8. \A g \in Height : Complete(rows'[g]) => g <= rows'[g].data.tip
  BY <1>7 DEF IInv, TemplatesFit, Complete
<1> DEFINE call == [calls[c] EXCEPT !.step = s]
<1>9. call \in CallType /\ call.step = s /\ call.height = h
  BY <1>1, <1>5 DEF CallType
<1>10. calls' = [calls EXCEPT ![c] = call] /\ UNCHANGED <<node, cluster, known, faults>>
  BY <1>4 DEF Goto
<1> HIDE DEF call
<1>11. calls' \in [Call -> CallType] BY <1>9, <1>10 DEF IInv, TypeOK
<1>12. calls'[c] = call /\ \A d \in Call \ {c} : calls'[d] = calls[d]
  BY <1>10 DEF IInv, TypeOK
<1>13. TypeOK' BY <1>6, <1>7, <1>10, <1>11 DEF IInv, TypeOK
<1>14. KnownOfNode' BY <1>1, <1>9, <1>10, <1>12 DEF IInv, KnownOfNode
<1>15. TemplatesFit' BY <1>5, <1>8, <1>9, <1>12 DEF IInv, TemplatesFit, Complete
<1> QED BY <1>13, <1>14, <1>15 DEF IInv

LEMMA LoadKeeps == ASSUME IInv, NEW c \in Call, Load(c) PROVE IInv'
<1> DEFINE call == [calls[c] EXCEPT !.step = "save", !.template = node]
<1>1. calls[c] \in CallType /\ node \in Template BY DEF IInv, TypeOK
<1>2. call \in CallType /\ call.height = calls[c].height /\ call.template = node
  BY <1>1 DEF CallType, Step
<1>3. Goto(c, call) /\ UNCHANGED <<rows, work>> /\ calls[c].step # "idle"
  BY DEF Load
<1>4. calls[c].height <= node.tip BY <1>3 DEF IInv, KnownOfNode
<1> HIDE DEF call
<1> QED BY <1>1, <1>2, <1>3, <1>4, GotoKeeps

LEMMA SaveKeeps == ASSUME IInv, NEW c \in Call, Save(c) PROVE IInv'
<1> DEFINE h == calls[c].height
           t == calls[c].template
<1>1. h \in Height /\ t \in Template /\ h <= t.tip
  BY DEF Save, IInv, TypeOK, CallType, TemplatesFit
<1>2. rows \in [Height -> RowType] BY DEF IInv, TypeOK
<1>3. rows' = rows \/ rows' = [rows EXCEPT ![h].data = t]
  BY DEF Save, SavedHeight
<1>4. rows[h] \in RowType BY <1>1, <1>2
<1>5. [rows[h] EXCEPT !.data = t] \in RowType /\ [rows[h] EXCEPT !.data = t].data = t
  BY <1>1, <1>4 DEF RowType
<1>6. rows' = rows \/ rows' = [rows EXCEPT ![h] = [rows[h] EXCEPT !.data = t]]
  BY <1>1, <1>2, <1>3
<1>7. AnswerWith(c, t) BY DEF Save
<1> HIDE DEF h, t
<1>8. rows' \in [Height -> RowType] BY <1>1, <1>2, <1>5, <1>6
<1>9. \A g \in Height : Complete(rows'[g]) => g <= rows'[g].data.tip
  BY <1>1, <1>2, <1>5, <1>6 DEF IInv, TemplatesFit, Complete
<1> QED BY <1>1, <1>7, <1>8, <1>9, AnswerKeeps

\* Calls that fail, or whose process crashes, are idle or wait.
LEMMA CallsDropKeep ==
    ASSUME IInv, UNCHANGED <<node, cluster, rows>>,
           calls' \in [Call -> CallType],
           \A c \in Call : calls'[c] = calls[c] \/ calls'[c] = Idle
                             \/ (calls'[c] = [calls[c] EXCEPT !.step = "wait"]
                                  /\ calls[c].step # "idle"),
           \A p \in Instance : known'[p] = known[p] \/ known'[p] = 0,
           known' \in [Instance -> 0..MaxHeight],
           work' \in [Instance -> Template \union {NoData}],
           faults' \in 0..MaxFaults
    PROVE  IInv'
<1>1. TypeOK' BY DEF IInv, TypeOK
<1>2. ASSUME NEW c \in Call
      PROVE  /\ calls'[c].step # "idle" =>
                  calls[c].step # "idle" /\ calls'[c].height = calls[c].height
             /\ calls'[c].step = "save" => calls'[c] = calls[c]
  <2>1. calls[c] \in CallType BY DEF IInv, TypeOK
  <2> QED BY <2>1, IdleCall DEF CallType
<1>3. node.tip \in Nat BY DEF IInv, TypeOK, Template, Height
<1>4. KnownOfNode' BY <1>2, <1>3 DEF IInv, KnownOfNode
<1>5. TemplatesFit' BY <1>2 DEF IInv, TemplatesFit, Complete
<1> QED BY <1>1, <1>4, <1>5 DEF IInv

LEMMA FailKeeps == ASSUME IInv, NEW c \in Call, Fail(c) PROVE IInv'
<1> DEFINE call == IF calls[c].step \in {"lock", "write"}
                     THEN [calls[c] EXCEPT !.step = "wait"] ELSE Idle
<1>1. calls[c] \in CallType BY DEF IInv, TypeOK
<1>2. call \in CallType BY <1>1, IdleCall DEF CallType, Step
<1>3. calls' = [calls EXCEPT ![c] = call] BY DEF Fail
<1>4. calls[c].step # "idle" BY DEF Fail
<1>5. call = Idle \/ call = [calls[c] EXCEPT !.step = "wait"] OBVIOUS
<1> HIDE DEF call
<1>6. calls' \in [Call -> CallType] BY <1>2, <1>3 DEF IInv, TypeOK
<1>7. \A d \in Call : calls'[d] = calls[d] \/ calls'[d] = Idle
         \/ (calls'[d] = [calls[d] EXCEPT !.step = "wait"] /\ calls[d].step # "idle")
  BY <1>3, <1>4, <1>5 DEF IInv, TypeOK
<1>8. faults' \in 0..MaxFaults BY BoundsAreNaturals DEF Fail, IInv, TypeOK
<1>9. UNCHANGED <<node, cluster, rows, known, work>> BY DEF Fail
<1> QED BY <1>6, <1>7, <1>8, <1>9, CallsDropKeep DEF IInv, TypeOK

LEMMA CrashKeeps == ASSUME IInv, NEW p \in Running, Crash(p) PROVE IInv'
<1>1. calls' \in [Call -> CallType] BY IdleCall DEF Crash, IInv, TypeOK
<1>2. \A c \in Call : calls'[c] = calls[c] \/ calls'[c] = Idle BY DEF Crash
<1>3. \A q \in Instance : known'[q] = known[q] \/ known'[q] = 0
  BY DEF Crash, IInv, TypeOK
<1>4. known' \in [Instance -> 0..MaxHeight]
  <2>1. 0 \in 0..MaxHeight BY BoundsAreNaturals
  <2>2. known' = [known EXCEPT ![p] = 0] /\ known \in [Instance -> 0..MaxHeight]
    BY DEF Crash, IInv, TypeOK
  <2> QED BY <2>1, <2>2
<1>5. work' \in [Instance -> Template \union {NoData}] BY DEF Crash, IInv, TypeOK
<1>6. faults' \in 0..MaxFaults BY BoundsAreNaturals DEF Crash, IInv, TypeOK
<1>7. UNCHANGED <<node, cluster, rows>> BY DEF Crash
<1> QED BY <1>1, <1>2, <1>3, <1>4, <1>5, <1>6, <1>7, CallsDropKeep

LEMMA DeleteKeeps == ASSUME IInv, DeleteOldBlocks PROVE IInv'
<1>1. rows' \in [Height -> RowType] /\ ~Complete(NoRow)
  BY IdleCall DEF DeleteOldBlocks, IInv, TypeOK, Complete, NoRow
<1>2. \A h \in Height : rows'[h] = rows[h] \/ rows'[h] = NoRow
  BY DEF DeleteOldBlocks
<1>3. \A h \in Height : Complete(rows'[h]) => h <= rows'[h].data.tip
  BY <1>1, <1>2 DEF IInv, TemplatesFit
<1> QED BY <1>1, <1>3 DEF DeleteOldBlocks, IInv, TypeOK, KnownOfNode, TemplatesFit, Complete

LEMMA AdvanceKeeps == ASSUME IInv, NEW c \in Call, Advance(c) PROVE IInv'
<1>1. CASE FindRow(c) BY <1>1, FindRowKeeps
<1>2. CASE LockRead(c) BY <1>2, LockReadKeeps
<1>3. CASE LockInsert(c) \/ LockUpdate(c) BY <1>3, LockWriteKeeps
<1>4. CASE WaitFound(c)
  <2>1. "load" \in Step \ {"save", "idle"} BY DEF Step
  <2> QED BY <1>4, <2>1, StepKeeps DEF WaitFound
<1>5. CASE WaitTimeout(c)
  BY <1>5, IdleCall, GotoKeeps DEF WaitTimeout
<1>6. CASE Load(c) BY <1>6, LoadKeeps
<1>7. CASE Save(c) BY <1>7, SaveKeeps
<1> QED BY <1>1, <1>2, <1>3, <1>4, <1>5, <1>6, <1>7 DEF Advance

LEMMA IInvStep == IInv /\ [Next]_vars => IInv'
<1> SUFFICES ASSUME IInv, [Next]_vars PROVE IInv'
  OBVIOUS
<1>1. CASE NodeContent \/ NodeBlock BY <1>1, NodeKeeps
<1>2. CASE DeleteOldBlocks BY <1>2, DeleteKeeps
<1>3. ASSUME NEW p \in Running, Poll(p) PROVE IInv' BY <1>3, PollKeeps
<1>4. ASSUME NEW p \in Running, Crash(p) PROVE IInv' BY <1>4, CrashKeeps
<1>5. ASSUME NEW p \in Running, NEW c \in CallsOf(p), Ask(p, c) PROVE IInv'
  BY <1>5, AskKeeps DEF CallsOf
<1>6. ASSUME NEW c \in Call, Advance(c) PROVE IInv' BY <1>6, AdvanceKeeps
<1>7. ASSUME NEW c \in Call, Fail(c) PROVE IInv' BY <1>7, FailKeeps
<1>8. CASE UNCHANGED vars
  BY <1>8 DEF vars, IInv, TypeOK, KnownOfNode, TemplatesFit, Complete
<1> QED BY <1>1, <1>2, <1>3, <1>4, <1>5, <1>6, <1>7, <1>8 DEF Next

LEMMA InvariantHolds == Spec => []IInv
BY InitIInv, IInvStep, PTL DEF Spec

-----------------------------------------------------------------------------
(* The variables keep their types; above all, every row holds nothing or a *)
(* whole template, whatever the two halves of lockBlock leave behind.      *)
THEOREM TypeCorrect == Spec => []TypeOK
<1>1. IInv => TypeOK BY DEF IInv
<1> QED BY <1>1, InvariantHolds, PTL

(* Whichever process loaded it, and however locks were taken over, a       *)
(* template that is handed out builds on the block that was asked for, or  *)
(* on a later one (getBlockTemplate).                                      *)
THEOREM AnswersFit == Spec => AnswerFits
<1>1. ASSUME IInv, [Next]_vars, NEW c \in Call, calls[c].wanted, calls'[c] = Idle,
             work' # work, work'[Caller(c)] # NoData
      PROVE  calls[c].height <= work'[Caller(c)].tip
  <2>1. PICK d \in Call : FindRow(d) \/ Save(d)
    <3>1. CASE NodeContent \/ NodeBlock \/ DeleteOldBlocks \/ UNCHANGED vars
      BY <1>1, <3>1 DEF NodeContent, NodeBlock, DeleteOldBlocks, vars
    <3>2. ASSUME NEW p \in Running, Poll(p) \/ \E d \in CallsOf(p) : Ask(p, d)
          PROVE  FALSE
      BY <1>1, <3>2 DEF Poll, Ask
    <3>3. ASSUME NEW p \in Running, Crash(p) PROVE FALSE
      <4>1. calls' = [d \in Call |-> IF d \in CallsOf(p) THEN Idle ELSE calls[d]]
        BY <3>3 DEF Crash
      <4>2. ~Idle.wanted BY DEF Idle
      <4>3. Caller(c) = p BY <1>1, <4>1, <4>2 DEF CallsOf
      <4>4. p \in Instance BY DEF Running, Instance
      <4> QED BY <1>1, <3>3, <4>3, <4>4 DEF Crash, IInv, TypeOK
    <3>4. ASSUME NEW d \in Call, Fail(d) PROVE FALSE BY <1>1, <3>4 DEF Fail
    <3>5. ASSUME NEW d \in Call, Advance(d), ~FindRow(d), ~Save(d) PROVE FALSE
      BY <1>1, <3>5 DEF Advance, LockRead, LockInsert, LockUpdate, WaitFound, WaitTimeout, Load
    <3> QED BY <1>1, <3>1, <3>2, <3>3, <3>4, <3>5 DEF Next
  <2>2. PICK t \in Template : AnswerWith(d, t) /\ calls[d].height <= t.tip
    <3>1. CASE Save(d)
      <4>1. calls[d].step = "save" /\ AnswerWith(d, calls[d].template)
        BY <3>1 DEF Save
      <4>2. calls[d].template \in Template /\ calls[d].height <= calls[d].template.tip
        BY <1>1, <4>1 DEF IInv, TemplatesFit
      <4> QED BY <4>1, <4>2
    <3>2. CASE FindRow(d)
      <4>1. Complete(rows[calls[d].height]) /\ AnswerWith(d, rows[calls[d].height].data)
        BY <1>1, <3>2 DEF FindRow
      <4>2. calls[d] \in CallType BY <1>1 DEF IInv, TypeOK
      <4>3. calls[d].height \in Height BY <4>2 DEF CallType
      <4>4. rows[calls[d].height] \in RowType BY <1>1, <4>3 DEF IInv, TypeOK
      <4>5. rows[calls[d].height].data \in Template BY <4>1, <4>4 DEF RowType, Complete
      <4> QED BY <1>1, <4>1, <4>3, <4>5 DEF IInv, TemplatesFit
    <3> QED BY <2>1, <3>1, <3>2
  <2>3. c = d
    <3>1. calls' = [calls EXCEPT ![d] = Idle] BY <2>2 DEF AnswerWith, Goto
    <3>2. ~Idle.wanted BY DEF Idle
    <3> QED BY <1>1, <3>1, <3>2 DEF IInv, TypeOK
  <2>4. work'[Caller(c)] = t
    <3>1. Caller(c) \in Instance BY CallerAssumption DEF Instance
    <3> QED BY <1>1, <2>2, <2>3, <3>1 DEF AnswerWith, IInv, TypeOK
  <2> QED BY <2>2, <2>3, <2>4
<1>2. IInv /\ [Next]_vars =>
        [\A c \in Call :
           calls[c].wanted /\ calls'[c] = Idle /\ work' # work
             => \/ work'[Caller(c)] = NoData
                \/ calls[c].height <= work'[Caller(c)].tip]_vars
  BY <1>1
<1> QED BY <1>2, InvariantHolds, PTL DEF Spec, AnswerFits
=============================================================================
