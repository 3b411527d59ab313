--------------------------- MODULE StratumV1Proofs ---------------------------
(***************************************************************************)
(* Theorems about the Stratum V1 side of a worker process: a session       *)
(* (V1Session), for any number of templates, retargets and faults, any     *)
(* difficulties and any shares; and the listener that sessions come from   *)
(* (Backpressure), for any connection limit, any number of healthy checks, *)
(* and any number of pauses, failed binds and crashes.                     *)
(***************************************************************************)
EXTENDS V1Session, Backpressure, TLAPS

-----------------------------------------------------------------------------
(* The share a handler holds across its awaits.                            *)
Carrying == {"ack", "node", "entity"}
InFlight(s) == inbound.at \in Carrying /\ inbound.share = s

(* Types that TypeOK leaves open.                                          *)
Typed ==
    /\ TypeOK /\ nextId # 0
    /\ miner \in [difficulty : Int, job : Nat, tip : Nat]
    /\ inbound.at \in Carrying => inbound.share \in Submission

(* How far the session has come.                                           *)
Phases ==
    /\ streaming => initialized /\ ~destroyed
    /\ pass => streaming
    /\ inbound.at \in Writing => ~destroyed
    /\ inbound.at = "init" => initialized /\ ~streaming
    /\ inbound.at = "suggest" => suggestion # "none"
    /\ initialized /\ ~destroyed => streaming \/ inbound.at = "init"

(* The difficulty is announced before work is, unless it was suggested; a  *)
(* suggestion binds until the session starts.                              *)
Announced ==
    /\ inbound.at = "init" \/ streaming => untold \/ miner.difficulty = sessionDifficulty
    /\ ~initialized /\ suggestion # "none" => miner.difficulty = sessionDifficulty

(* The duplicate set has every share, credited or in flight, whose job can *)
(* still be submitted.                                                     *)
Taken(s) == s \in credited \/ InFlight(s)

SharesRemembered ==
    /\ creditedAgain = {}
    /\ \A s \in Submission : InFlight(s) => s \notin credited
    /\ \A s \in Submission : Taken(s) => s[1] < nextId
    /\ \A s \in Submission : Taken(s) /\ ~destroyed => streaming
    /\ \A s \in Submission, j \in jobs :
         Taken(s) /\ ~destroyed /\ j.id = s[1] => s \in submissionHashes

(* The duplicate set never reaches its cap.                                *)
BelowCap == ~(Cardinality(submissionHashes) >= MaxSubmissions)

-----------------------------------------------------------------------------
(* Types.                                                                  *)

LEMMA InitTyped == Init => Typed
<1> SUFFICES ASSUME Init PROVE Typed
  OBVIOUS
<1>1. emitted \in 0..MaxTemplates /\ passes \in 0..MaxPasses /\ faults \in 0..MaxFaults
  BY BoundAssumption DEF Init
<1>2. {initialized, streaming, destroyed, pass, untold} \subseteq BOOLEAN BY DEF Init
<1>3. miner \in [difficulty : Int, job : Nat, tip : Nat] BY DEF Init, Untaught
<1>4. inbound.at = "idle" BY DEF Init, Idle
<1>5. acked \union credited \union creditedAgain \subseteq Submission BY DEF Init
<1>6. latest \in Template \union {None} /\ nextId \in Nat /\ jobs = {} BY DEF Init
<1>7. greeted \in [subscribed : BOOLEAN, authorized : BOOLEAN, cpuminer : BOOLEAN] BY DEF Init
<1> QED
  BY <1>1, <1>2, <1>3, <1>4, <1>5, <1>6, <1>7 DEF Init, Typed, TypeOK, Carrying, Writing

\* What sending a template does to the job table, and to the miner.
LEMMA SendJobTyped ==
  ASSUME Typed, NEW t \in Template, NEW known \in SUBSET jobs, SendJob(t, known)
  PROVE  /\ nextId' \in Nat /\ nextId' # 0
         /\ jobs' \subseteq [id : 1..(nextId' - 1), tip : Tip]
         /\ miner' \in [difficulty : Int, job : Nat, tip : Nat]
<1>1. t.tip \in Tip /\ Tip \subseteq Nat BY BoundAssumption DEF Template, Tip
<1>2. nextId \in Nat /\ nextId # 0 /\ jobs \subseteq [id : 1..(nextId - 1), tip : Tip]
  BY DEF Typed, TypeOK
<1>3. nextId' = nextId + 1 BY DEF SendJob
<1>4. [id |-> nextId, tip |-> t.tip] \in [id : 1..(nextId' - 1), tip : Tip]
  BY <1>1, <1>2, <1>3
<1>5. jobs \subseteq [id : 1..(nextId' - 1), tip : Tip] BY <1>2, <1>3
<1>6. miner' \in [difficulty : Int, job : Nat, tip : Nat]
  BY <1>1, <1>2 DEF SendJob, Typed
<1> QED BY <1>2, <1>3, <1>4, <1>5, <1>6 DEF SendJob

LEMMA HashesTyped ==
  ASSUME Typed, NEW t \in Template, ResetHashes(t)
  PROVE  submissionHashes' \subseteq Submission /\ resetTip' \in {0} \union Tip
BY DEF ResetHashes, hashVars, Typed, TypeOK, Template

LEMMA FollowingTyped == Following(latest) \subseteq Template
BY DEF Following, Template

LEMMA StreamTyped ==
  ASSUME Typed, Stream
  PROVE  /\ nextId' \in Nat /\ nextId' # 0
         /\ jobs' \subseteq [id : 1..(nextId' - 1), tip : Tip]
         /\ miner' \in [difficulty : Int, job : Nat, tip : Nat]
         /\ submissionHashes' \subseteq Submission /\ resetTip' \in {0} \union Tip
         /\ streaming' = TRUE /\ inbound' = Idle
<1>1. streaming' = TRUE /\ inbound' = Idle BY DEF Stream
<1>2. CASE latest = None BY <1>1, <1>2 DEF Stream, hashVars, Typed, TypeOK
<1>3. CASE latest # None
  <2>1. latest \in Template BY <1>3 DEF Typed, TypeOK
  <2> QED BY <1>1, <1>3, <2>1, SendJobTyped, HashesTyped DEF Stream
<1> QED BY <1>2, <1>3

\* The difficulties a session may have.
LEMMA DifficultyIsNatural ==
  /\ \A d \in Difficulty \union {StartDifficulty, CpuDifficulty} : d \in Nat
  /\ Typed => sessionDifficulty \in Nat
BY DifficultyAssumption DEF Typed, TypeOK

(* A step keeps the types if it keeps those of its own variables.          *)
LEMMA TypesFromParts ==
  ASSUME latest' \in Template \union {None}, emitted' \in 0..MaxTemplates,
         nextId' \in Nat, nextId' # 0, jobs' \subseteq [id : 1..(nextId' - 1), tip : Tip],
         greeted' \in [subscribed : BOOLEAN, authorized : BOOLEAN, cpuminer : BOOLEAN],
         suggestion' \in {"none", "made", "used"},
         initialized' \in BOOLEAN, streaming' \in BOOLEAN, destroyed' \in BOOLEAN,
         pass' \in BOOLEAN, untold' \in BOOLEAN,
         sessionDifficulty' \in Difficulty \union {StartDifficulty, CpuDifficulty},
         submissionHashes' \subseteq Submission, resetTip' \in {0} \union Tip,
         inbound'.at \in Writing \union {"idle", "node", "entity", "storing"},
         inbound'.at \in Carrying => inbound'.share \in Submission,
         passes' \in 0..MaxPasses, faults' \in 0..MaxFaults,
         miner' \in [difficulty : Int, job : Nat, tip : Nat],
         acked' \union credited' \union creditedAgain' \subseteq Submission
  PROVE  Typed'
<1>1. {initialized', streaming', destroyed', pass', untold'} \subseteq BOOLEAN OBVIOUS
<1> QED BY <1>1 DEF Typed, TypeOK

LEMMA TypesAreParts ==
  ASSUME Typed
  PROVE  /\ latest \in Template \union {None} /\ emitted \in 0..MaxTemplates
         /\ nextId \in Nat /\ nextId # 0 /\ jobs \subseteq [id : 1..(nextId - 1), tip : Tip]
         /\ greeted \in [subscribed : BOOLEAN, authorized : BOOLEAN, cpuminer : BOOLEAN]
         /\ suggestion \in {"none", "made", "used"}
         /\ initialized \in BOOLEAN /\ streaming \in BOOLEAN /\ destroyed \in BOOLEAN
         /\ pass \in BOOLEAN /\ untold \in BOOLEAN
         /\ sessionDifficulty \in Difficulty \union {StartDifficulty, CpuDifficulty}
         /\ submissionHashes \subseteq Submission /\ resetTip \in {0} \union Tip
         /\ inbound.at \in Writing \union {"idle", "node", "entity", "storing"}
         /\ (inbound.at \in Carrying => inbound.share \in Submission)
         /\ passes \in 0..MaxPasses /\ faults \in 0..MaxFaults
         /\ miner \in [difficulty : Int, job : Nat, tip : Nat]
         /\ acked \union credited \union creditedAgain \subseteq Submission
BY DEF Typed, TypeOK

LEMMA StepTyped == Typed /\ [Next]_vars => Typed'
<1> SUFFICES ASSUME Typed, [Next]_vars PROVE Typed'
  OBVIOUS
<1> USE TypesAreParts
<1>1. CASE Emit
  <2>1. PICK t \in Template :
          /\ latest' = t
          /\ \/ streaming /\ ~destroyed /\ ResetHashes(t)
                /\ SendJob(t, IF t.clear THEN {} ELSE jobs)
             \/ /\ jobs' = (IF t.clear THEN {} ELSE jobs)
                /\ UNCHANGED <<nextId, miner, submissionHashes, resetTip>>
    BY <1>1, FollowingTyped DEF Emit, hashVars
  <2>2. (IF t.clear THEN {} ELSE jobs) \in SUBSET jobs OBVIOUS
  <2>3. /\ nextId' \in Nat /\ nextId' # 0
        /\ jobs' \subseteq [id : 1..(nextId' - 1), tip : Tip]
        /\ miner' \in [difficulty : Int, job : Nat, tip : Nat]
        /\ submissionHashes' \subseteq Submission /\ resetTip' \in {0} \union Tip
    BY <2>1, <2>2, SendJobTyped, HashesTyped
  <2>4. emitted' \in 0..MaxTemplates BY <1>1, BoundAssumption DEF Emit
  <2> QED BY <1>1, <2>1, <2>3, <2>4, TypesFromParts DEF Emit, setupVars, history
<1>2. CASE Disconnect
  BY <1>2, TypesFromParts DEF Disconnect, Destroy, Idle, jobVars, history, Carrying
<1>3. CASE Subscribe
  BY <1>3, TypesFromParts DEF Subscribe, At, jobVars, hashVars, history, Carrying, Writing
<1>4. CASE Authorize
  <2>1. sessionDifficulty' \in Difficulty \union {StartDifficulty, CpuDifficulty} /\ untold' \in BOOLEAN
    BY <1>4 DEF Authorize, Raise
  <2> QED BY <1>4, <2>1, TypesFromParts
    DEF Authorize, At, jobVars, hashVars, history, Carrying, Writing
<1>5. CASE Suggest
  <2>1. miner' \in [difficulty : Int, job : Nat, tip : Nat] /\ sessionDifficulty' \in Difficulty
    BY <1>5, DifficultyIsNatural DEF Suggest
  <2> QED BY <1>5, <2>1, TypesFromParts
    DEF Suggest, At, jobVars, hashVars, history, Carrying, Writing
<1>6. CASE Answer
  BY <1>6, TypesFromParts DEF Answer, At, jobVars, setupVars, hashVars, history, Carrying, Writing
<1>7. CASE Answered
  <2>1. suggestion' \in {"none", "made", "used"} BY <1>7 DEF Answered
  <2>2. CASE Start
    <3>1. sessionDifficulty' \in Difficulty \union {StartDifficulty, CpuDifficulty}
      BY <2>2 DEF Start
    <3>2. CASE suggestion = "none"
      <4>1. miner' \in [difficulty : Int, job : Nat, tip : Nat]
        BY <2>2, <3>1, <3>2, DifficultyIsNatural DEF Start
      <4> QED BY <1>7, <2>1, <2>2, <3>1, <3>2, <4>1, TypesFromParts
        DEF Answered, Start, At, hashVars, history, Carrying, Writing
    <3>3. CASE suggestion # "none"
      <4>1. untold' \in BOOLEAN BY <2>2, <3>3 DEF Start
      <4>2. Stream BY <2>2, <3>3 DEF Start
      <4> QED BY <1>7, <2>1, <2>2, <3>1, <4>1, <4>2, StreamTyped, TypesFromParts
        DEF Answered, Start, Idle, history, Carrying
    <3> QED BY <3>2, <3>3
  <2>3. CASE ~Start
    BY <1>7, <2>1, <2>3, TypesFromParts DEF Answered, Idle, hashVars, history, Carrying
  <2> QED BY <2>2, <2>3
<1>8. CASE InitWritten
  BY <1>8, StreamTyped, TypesFromParts DEF InitWritten, Idle, history, Carrying
<1>9. CASE \E j \in jobs, n \in Nonce, k \in Spelling :
          Submit(<<j.id, n, k>>) \/ SubmitWeak(<<j.id, n, k>>)
  <2>1. PICK s \in Submission : Submit(s) \/ SubmitWeak(s) BY <1>9 DEF Submission
  <2>2. Judge(s) BY <2>1 DEF Submit, SubmitWeak
  <2>3. submissionHashes' \subseteq Submission BY <2>2 DEF Judge, Remembered
  <2>4. inbound'.at \in {"ack", "reply"} /\ (inbound'.at \in Carrying => inbound'.share \in Submission)
    BY <2>1 DEF Submit, SubmitWeak, At, AtShare, Carrying
  <2> QED BY <2>2, <2>3, <2>4, TypesFromParts DEF Judge, jobVars, setupVars, Writing
<1>10. CASE SubmitMalformed
  BY <1>10, TypesFromParts
    DEF SubmitMalformed, At, jobVars, setupVars, hashVars, history, Carrying, Writing
<1>11. CASE RefusalWritten
  BY <1>11, TypesFromParts DEF RefusalWritten, Disconnect, Destroy, Idle, jobVars, history, Carrying
<1>12. CASE Acked
  <2>1. inbound.share \in Submission BY <1>12 DEF Acked, Carrying
  <2>2. inbound'.at \in {"node", "entity"} /\ inbound'.share = inbound.share
    BY <1>12 DEF Acked, AtShare
  <2> QED BY <1>12, <2>1, <2>2, TypesFromParts DEF Acked, jobVars, setupVars, hashVars
<1>13. CASE BlockSubmitted
  <2>1. inbound.share \in Submission BY <1>13 DEF BlockSubmitted, Carrying
  <2>2. inbound'.at = "entity" /\ inbound'.share = inbound.share
    BY <1>13 DEF BlockSubmitted, AtShare
  <2> QED BY <1>13, <2>1, <2>2, TypesFromParts DEF BlockSubmitted, jobVars, setupVars, hashVars
<1>14. CASE Credit
  <2>1. inbound.share \in Submission BY <1>14 DEF Credit, Carrying
  <2>2. acked' \union credited' \union creditedAgain' \subseteq Submission BY <1>14, <2>1 DEF Credit
  <2> QED BY <1>14, <2>2, TypesFromParts
    DEF Credit, At, jobVars, setupVars, hashVars, Carrying, Writing
<1>15. CASE Stored
  BY <1>15, TypesFromParts DEF Stored, Idle, jobVars, setupVars, hashVars, history, Carrying
<1>16. CASE Fault
  <2>1. faults' \in 0..MaxFaults BY <1>16, BoundAssumption DEF Fault
  <2> QED BY <1>16, <2>1, TypesFromParts DEF Fault, Destroy, Idle, jobVars, Carrying
<1>17. CASE StartPass
  <2>1. passes' \in 0..MaxPasses BY <1>17, BoundAssumption DEF StartPass
  <2>2. miner' \in [difficulty : Int, job : Nat, tip : Nat] /\ sessionDifficulty' \in Difficulty
    BY <1>17, DifficultyIsNatural DEF StartPass
  <2>3. pass' \in BOOLEAN /\ untold' \in BOOLEAN BY <1>17 DEF StartPass
  <2>4. UNCHANGED <<latest, emitted, jobs, nextId, greeted, suggestion, initialized, streaming,
                    destroyed, submissionHashes, resetTip, inbound, faults, acked, credited,
                    creditedAgain>>
    BY <1>17 DEF StartPass, jobVars, setupVars, hashVars, history
  <2> QED BY <2>1, <2>2, <2>3, <2>4, TypesFromParts
<1>18. CASE Retarget
  <2>1. latest \in Template BY <1>18 DEF Retarget
  <2>2. SendJob(latest, jobs) BY <1>18 DEF Retarget
  <2>3. pass' \in BOOLEAN BY <1>18 DEF Retarget
  <2>4. /\ nextId' \in Nat /\ nextId' # 0
        /\ jobs' \subseteq [id : 1..(nextId' - 1), tip : Tip]
        /\ miner' \in [difficulty : Int, job : Nat, tip : Nat]
    BY <2>1, <2>2, SendJobTyped
  <2>5. UNCHANGED <<latest, emitted, greeted, suggestion, initialized, streaming, destroyed,
                    sessionDifficulty, submissionHashes, resetTip, inbound, passes, faults,
                    acked, credited, creditedAgain, untold>>
    BY <1>18 DEF Retarget, setupVars, hashVars, history
  <2> QED BY <2>3, <2>4, <2>5, TypesFromParts
<1>19. CASE UNCHANGED vars
  BY <1>19, TypesFromParts DEF vars, jobVars, setupVars, hashVars, history
<1> QED
  BY <1>1, <1>2, <1>3, <1>4, <1>5, <1>6, <1>7, <1>8, <1>9, <1>10, <1>11, <1>12, <1>13,
     <1>14, <1>15, <1>16, <1>17, <1>18, <1>19 DEF Next

-----------------------------------------------------------------------------
(* Phases.                                                                 *)

LEMMA InitPhases == Init => Phases
BY DEF Init, Phases, Idle, Writing

LEMMA StepPhases == Typed /\ Phases /\ [Next]_vars => Phases'
<1> SUFFICES ASSUME Typed, Phases, [Next]_vars PROVE Phases'
  OBVIOUS
<1>1. CASE Emit \/ Retarget \/ UNCHANGED vars
  <2>1. UNCHANGED <<streaming, initialized, destroyed, inbound, suggestion>> /\ (pass' => pass)
    BY <1>1 DEF Emit, Retarget, vars, setupVars
  <2> QED BY <2>1 DEF Phases
<1>2. CASE Disconnect \/ RefusalWritten \/ Fault
  <2>1. destroyed' = TRUE /\ streaming' = FALSE /\ pass' = FALSE
    BY <1>2 DEF Disconnect, RefusalWritten, Fault, Destroy
  <2>2. inbound'.at \notin Writing
    BY <1>2 DEF Disconnect, RefusalWritten, Fault, Idle, Writing
  <2>3. inbound'.at # "init" /\ inbound'.at # "suggest" BY <2>2 DEF Writing
  <2> QED BY <2>1, <2>2, <2>3 DEF Phases
<1>3. CASE Subscribe \/ Authorize \/ Answer \/ SubmitMalformed
  <2>1. UNCHANGED <<streaming, initialized, destroyed, pass, suggestion>>
    BY <1>3 DEF Subscribe, Authorize, Answer, SubmitMalformed, setupVars
  <2>2. Handling /\ inbound' \in {At("reply"), At("refused")}
    BY <1>3 DEF Subscribe, Authorize, Answer, SubmitMalformed
  <2>3. inbound.at = "idle" /\ ~destroyed BY <2>2 DEF Handling, Idle
  <2>4. inbound'.at \in {"reply", "refused"} BY <2>2 DEF At
  <2> QED BY <2>1, <2>3, <2>4 DEF Phases
<1>4. CASE Suggest
  <2>1. UNCHANGED <<streaming, initialized, destroyed, pass>> /\ suggestion' = "made"
    BY <1>4 DEF Suggest
  <2>2. inbound.at = "idle" /\ ~destroyed /\ inbound'.at = "suggest"
    BY <1>4 DEF Suggest, Handling, Idle, At
  <2> QED BY <2>1, <2>2 DEF Phases
<1>5. CASE Answered
  <2>1. inbound.at \in {"reply", "suggest"} /\ ~destroyed
    BY <1>5 DEF Answered, Phases, Writing
  <2>2. destroyed' = destroyed /\ pass' = pass BY <1>5 DEF Answered
  <2>3. suggestion # "none" => suggestion' # "none" BY <1>5 DEF Answered
  <2>4. CASE initialized' = TRUE /\ streaming' = streaming /\ inbound' = At("init") /\ ~initialized
    BY <2>1, <2>2, <2>4 DEF Phases, At
  <2>5. CASE initialized' = TRUE /\ streaming' = TRUE /\ inbound' = Idle
    BY <2>1, <2>2, <2>5 DEF Phases, Idle, Writing
  <2>6. CASE initialized' = initialized /\ streaming' = streaming /\ inbound' = Idle
    BY <2>1, <2>2, <2>6 DEF Phases, Idle, Writing
  <2>7. \/ initialized' = TRUE /\ streaming' = streaming /\ inbound' = At("init") /\ ~initialized
        \/ initialized' = TRUE /\ streaming' = TRUE /\ inbound' = Idle
        \/ initialized' = initialized /\ streaming' = streaming /\ inbound' = Idle
    BY <1>5 DEF Answered, Start, Stream
  <2> QED BY <2>4, <2>5, <2>6, <2>7
<1>6. CASE InitWritten
  <2>1. inbound.at = "init" BY <1>6 DEF InitWritten, At
  <2>2. streaming' = TRUE /\ inbound' = Idle /\ UNCHANGED <<initialized, destroyed, pass>>
    BY <1>6 DEF InitWritten, Stream
  <2> QED BY <2>1, <2>2 DEF Phases, Idle, Writing
<1>7. CASE \E j \in jobs, n \in Nonce, k \in Spelling :
          Submit(<<j.id, n, k>>) \/ SubmitWeak(<<j.id, n, k>>)
  <2>1. PICK s : Submit(s) \/ SubmitWeak(s) BY <1>7
  <2>2. Judge(s) BY <2>1 DEF Submit, SubmitWeak
  <2>3. UNCHANGED <<streaming, initialized, destroyed, pass, suggestion>>
    BY <2>2 DEF Judge, setupVars
  <2>4. inbound.at = "idle" /\ ~destroyed BY <2>2 DEF Judge, Handling, Idle
  <2>5. inbound'.at \in {"ack", "reply"} BY <2>1 DEF Submit, SubmitWeak, At, AtShare
  <2> QED BY <2>3, <2>4, <2>5 DEF Phases
<1>8. CASE Acked \/ BlockSubmitted \/ Credit \/ Stored
  <2>1. UNCHANGED <<streaming, initialized, destroyed, pass, suggestion>>
    BY <1>8 DEF Acked, BlockSubmitted, Credit, Stored, setupVars
  <2>2. inbound.at \notin {"init", "suggest"}
    BY <1>8 DEF Acked, BlockSubmitted, Credit, Stored, At
  <2>3. inbound'.at \in {"node", "entity", "storing", "idle"}
    BY <1>8 DEF Acked, BlockSubmitted, Credit, Stored, At, AtShare, Idle
  <2> QED BY <2>1, <2>2, <2>3 DEF Phases, Writing
<1>9. CASE StartPass
  BY <1>9 DEF StartPass, Phases, setupVars
<1> QED
  BY <1>1, <1>2, <1>3, <1>4, <1>5, <1>6, <1>7, <1>8, <1>9 DEF Next

-----------------------------------------------------------------------------
(* The difficulty the miner knows.                                         *)

LEMMA InitAnnounced == Init => Announced
BY DEF Init, Announced, Idle

\* Only these three tell the miner a difficulty.
LEMMA SendJobKeepsDifficulty ==
  ASSUME Typed, NEW t, NEW known, SendJob(t, known) PROVE miner'.difficulty = miner.difficulty
BY DEF SendJob, Typed

LEMMA StreamKeepsDifficulty ==
  ASSUME Typed, Stream PROVE miner'.difficulty = miner.difficulty
BY SendJobKeepsDifficulty DEF Stream

LEMMA StepAnnounced == Typed /\ Phases /\ Announced /\ [Next]_vars => Announced'
<1> SUFFICES ASSUME Typed, Phases, Announced, [Next]_vars PROVE Announced'
  OBVIOUS
<1>1. CASE Emit \/ Retarget
  <2>1. UNCHANGED <<streaming, initialized, suggestion, inbound, sessionDifficulty, untold>>
    BY <1>1 DEF Emit, Retarget, setupVars
  <2>2. miner'.difficulty = miner.difficulty
    BY <1>1, SendJobKeepsDifficulty DEF Emit, Retarget
  <2> QED BY <2>1, <2>2 DEF Announced
<1>2. CASE Disconnect \/ RefusalWritten \/ Fault
  <2>1. streaming' = FALSE /\ inbound'.at # "init"
    BY <1>2 DEF Disconnect, RefusalWritten, Fault, Destroy, Idle, Writing
  <2>2. UNCHANGED <<initialized, suggestion, miner, sessionDifficulty>>
    BY <1>2 DEF Disconnect, RefusalWritten, Fault
  <2> QED BY <2>1, <2>2 DEF Announced
<1>3. CASE Subscribe \/ Answer \/ SubmitMalformed
  <2>1. UNCHANGED <<streaming, initialized, suggestion, miner, sessionDifficulty, untold>>
    BY <1>3 DEF Subscribe, Answer, SubmitMalformed, setupVars
  <2>2. inbound' \in {At("reply"), At("refused")} BY <1>3 DEF Subscribe, Answer, SubmitMalformed
  <2>3. inbound'.at # "init" BY <2>2 DEF At
  <2> QED BY <2>1, <2>3 DEF Announced
<1>4. CASE Authorize
  <2>1. UNCHANGED <<streaming, initialized, suggestion, miner>> BY <1>4 DEF Authorize
  <2>2. inbound'.at # "init" BY <1>4 DEF Authorize, At
  <2>3. \/ UNCHANGED <<sessionDifficulty, untold>>
        \/ suggestion = "none" /\ untold' = (untold \/ initialized)
    BY <1>4 DEF Authorize, Raise
  <2>4. streaming => initialized BY DEF Phases
  <2> QED BY <2>1, <2>2, <2>3, <2>4 DEF Announced
<1>5. CASE Suggest
  <2>1. miner'.difficulty = sessionDifficulty' BY <1>5 DEF Suggest, Typed
  <2> QED BY <2>1 DEF Announced
<1>6. CASE Answered
  <2>1. inbound.at \in {"reply", "suggest"} BY <1>6 DEF Answered
  <2>2. CASE Start /\ ~initialized
    <3>1. initialized' = TRUE /\ ~initialized BY <2>2 DEF Start
    <3>2. CASE suggestion = "none"
      <4>1. miner'.difficulty = sessionDifficulty' BY <2>2, <3>2 DEF Start, Typed
      <4> QED BY <4>1 DEF Announced
    <3>3. CASE suggestion # "none"
      <4>1. Stream /\ untold' = (untold \/ greeted.cpuminer) BY <2>2, <3>3 DEF Start
      <4>2. miner'.difficulty = miner.difficulty BY <4>1, StreamKeepsDifficulty
      <4>3. miner.difficulty = sessionDifficulty BY <3>1, <3>3 DEF Announced
      <4>4. sessionDifficulty' = sessionDifficulty \/ greeted.cpuminer BY <2>2 DEF Start
      <4>5. greeted.cpuminer => untold' BY <4>1
      <4> QED BY <3>1, <4>2, <4>3, <4>4, <4>5 DEF Announced
    <3> QED BY <3>2, <3>3
  <2>3. CASE ~(Start /\ ~initialized)
    <3>1. UNCHANGED <<streaming, initialized, miner, sessionDifficulty, untold>> /\ inbound' = Idle
      BY <1>6, <2>3 DEF Answered
    <3>2. suggestion' # "none" => suggestion # "none" BY <1>6 DEF Answered, Phases
    <3> QED BY <3>1, <3>2 DEF Announced, Idle
  <2> QED BY <2>2, <2>3
<1>7. CASE InitWritten
  <2>1. inbound.at = "init" BY <1>7 DEF InitWritten, At
  <2>2. initialized BY <2>1 DEF Phases
  <2>3. UNCHANGED <<initialized, sessionDifficulty, untold>> BY <1>7 DEF InitWritten
  <2>4. miner'.difficulty = miner.difficulty BY <1>7, StreamKeepsDifficulty DEF InitWritten
  <2> QED BY <2>1, <2>2, <2>3, <2>4 DEF Announced
<1>8. CASE \E j \in jobs, n \in Nonce, k \in Spelling :
          Submit(<<j.id, n, k>>) \/ SubmitWeak(<<j.id, n, k>>)
  <2>1. PICK s : Submit(s) \/ SubmitWeak(s) BY <1>8
  <2>2. Judge(s) BY <2>1 DEF Submit, SubmitWeak
  <2>3. UNCHANGED <<streaming, initialized, suggestion, miner, sessionDifficulty, untold>>
    BY <2>2 DEF Judge, setupVars
  <2>4. inbound'.at # "init" BY <2>1 DEF Submit, SubmitWeak, At, AtShare
  <2> QED BY <2>3, <2>4 DEF Announced
<1>9. CASE Acked \/ BlockSubmitted \/ Credit \/ Stored
  <2>1. UNCHANGED <<streaming, initialized, suggestion, miner, sessionDifficulty, untold>>
    BY <1>9 DEF Acked, BlockSubmitted, Credit, Stored, setupVars, history
  <2>2. inbound'.at # "init"
    BY <1>9 DEF Acked, BlockSubmitted, Credit, Stored, At, AtShare, Idle
  <2> QED BY <2>1, <2>2 DEF Announced
<1>10. CASE StartPass
  <2>1. miner'.difficulty = sessionDifficulty' BY <1>10 DEF StartPass, Typed
  <2> QED BY <2>1 DEF Announced
<1>11. CASE UNCHANGED vars
  BY <1>11 DEF vars, setupVars, Announced
<1> QED
  BY <1>1, <1>2, <1>3, <1>4, <1>5, <1>6, <1>7, <1>8, <1>9, <1>10, <1>11 DEF Next

-----------------------------------------------------------------------------
(* The job the miner works on.                                             *)

\* Sending a template gives the miner a job of it that can be submitted.
LEMMA SendJobWorks ==
  ASSUME Typed, NEW t, NEW known, SendJob(t, known)
  PROVE  [id |-> miner'.job, tip |-> t.tip] \in jobs'
BY DEF SendJob, Typed

LEMMA StepWorks == Typed /\ Phases /\ WorksOnLatest /\ [Next]_vars => WorksOnLatest'
<1> SUFFICES ASSUME Typed, Phases, WorksOnLatest, [Next]_vars PROVE WorksOnLatest'
  OBVIOUS
<1>1. CASE Emit
  <2>1. streaming' = streaming BY <1>1 DEF Emit, setupVars
  <2>2. CASE streaming
    <3>1. ~destroyed BY <2>2 DEF Phases
    <3>2. \E known : SendJob(latest', known) BY <1>1, <2>2, <3>1 DEF Emit
    <3> QED BY <3>2, SendJobWorks DEF WorksOnLatest
  <2> QED BY <2>1, <2>2 DEF WorksOnLatest
<1>2. CASE Retarget
  <2>1. SendJob(latest, jobs) /\ latest' = latest BY <1>2 DEF Retarget
  <2> QED BY <2>1, SendJobWorks DEF WorksOnLatest
<1>3. CASE Disconnect \/ RefusalWritten \/ Fault
  BY <1>3 DEF Disconnect, RefusalWritten, Fault, Destroy, WorksOnLatest
<1>4. CASE Stream /\ latest' = latest
  BY <1>4, SendJobWorks DEF Stream, WorksOnLatest
<1>5. CASE Suggest \/ StartPass
  <2>1. UNCHANGED <<latest, jobs, streaming>> BY <1>5 DEF Suggest, StartPass, jobVars, setupVars
  <2>2. miner'.job = miner.job BY <1>5 DEF Suggest, StartPass, Typed
  <2> QED BY <2>1, <2>2 DEF WorksOnLatest
<1>6. CASE Start /\ suggestion = "none" /\ latest' = latest
  <2>1. UNCHANGED <<latest, jobs, streaming>> BY <1>6 DEF Start
  <2>2. miner'.job = miner.job BY <1>6 DEF Start, Typed
  <2> QED BY <2>1, <2>2 DEF WorksOnLatest
<1>7. CASE UNCHANGED <<latest, jobs, streaming, miner>>
  BY <1>7 DEF WorksOnLatest
<1>8. CASE Answered
  <2>1. latest' = latest BY <1>8 DEF Answered
  <2>2. CASE Start
    <3>1. suggestion # "none" => Stream BY <2>2 DEF Start
    <3> QED BY <2>1, <2>2, <3>1, <1>4, <1>6
  <2>3. CASE ~Start
    <3>1. UNCHANGED <<jobs, streaming, miner>> BY <1>8, <2>3 DEF Answered
    <3> QED BY <2>1, <3>1, <1>7
  <2> QED BY <2>2, <2>3
<1>9. CASE InitWritten
  BY <1>9, <1>4 DEF InitWritten
<1>10. CASE \/ Subscribe \/ Authorize \/ Answer \/ SubmitMalformed
            \/ Acked \/ BlockSubmitted \/ Credit \/ Stored
  BY <1>10, <1>7 DEF Subscribe, Authorize, Answer, SubmitMalformed, Acked, BlockSubmitted,
       Credit, Stored, jobVars, setupVars
<1>11. CASE \E j \in jobs, n \in Nonce, k \in Spelling :
          Submit(<<j.id, n, k>>) \/ SubmitWeak(<<j.id, n, k>>)
  <2>1. \E s : Judge(s) BY <1>11 DEF Submit, SubmitWeak
  <2> QED BY <2>1, <1>7 DEF Judge, jobVars, setupVars
<1>12. CASE UNCHANGED vars
  BY <1>12, <1>7 DEF vars, jobVars, setupVars
<1> QED
  BY <1>1, <1>2, <1>3, <1>5, <1>8, <1>9, <1>10, <1>11, <1>12 DEF Next

-----------------------------------------------------------------------------
(* Shares.                                                                 *)

LEMMA InitShares == Init => SharesRemembered
BY DEF Init, SharesRemembered, Taken, InFlight, Idle, Carrying

\* Nothing was credited and nothing is in flight before work is sent.
LEMMA NothingTakenYet ==
  ASSUME Phases, SharesRemembered, ~streaming, ~destroyed
  PROVE  \A s \in Submission : ~Taken(s)
BY DEF SharesRemembered

(* A template that is sent with the jobs of known, the set being emptied   *)
(* only when all of these were withdrawn, or before the first job.         *)
LEMMA SendKeepsShares ==
  ASSUME Typed, SharesRemembered, NEW t, NEW known \in SUBSET jobs, SendJob(t, known),
         UNCHANGED <<destroyed, credited, creditedAgain>>, streaming',
         \A s \in Submission : Taken(s)' <=> Taken(s),
         \A s \in Submission : InFlight(s)' => InFlight(s),
         \/ submissionHashes' = submissionHashes
         \/ known = {}
         \/ \A s \in Submission : ~Taken(s)
  PROVE  SharesRemembered'
<1>1. nextId \in Nat /\ nextId' = nextId + 1 /\ jobs' = known \union {[id |-> nextId, tip |-> t.tip]}
  BY DEF Typed, TypeOK, SendJob
<1>2. \A s \in Submission : s[1] \in Nat BY DEF Submission
<1>3. \A s \in Submission : Taken(s) => s[1] < nextId /\ s[1] # nextId
  BY <1>1, <1>2 DEF SharesRemembered
<1>4. \A s \in Submission : Taken(s)' => s[1] < nextId' BY <1>1, <1>2, <1>3
<1>5. ASSUME NEW s \in Submission, NEW j \in jobs', Taken(s)', ~destroyed', j.id = s[1]
      PROVE  s \in submissionHashes'
  <2>1. Taken(s) /\ ~destroyed BY <1>5
  <2>2. j \in known BY <1>1, <1>3, <1>5, <2>1
  <2>3. s \in submissionHashes BY <1>5, <2>1, <2>2 DEF SharesRemembered
  <2> QED BY <2>1, <2>2, <2>3
<1>6. \A s \in Submission : InFlight(s)' => s \notin credited' BY DEF SharesRemembered
<1> QED BY <1>4, <1>5, <1>6 DEF SharesRemembered

(* A step that gives out no job, empties no set and takes no share.        *)
LEMMA QuietKeepsShares ==
  ASSUME SharesRemembered,
         jobs' \subseteq jobs, nextId' = nextId, creditedAgain' = creditedAgain,
         credited' = credited,
         \A s \in Submission : InFlight(s)' => InFlight(s),
         destroyed' \/ (~destroyed /\ (streaming => streaming')
                        /\ submissionHashes \subseteq submissionHashes')
  PROVE  SharesRemembered'
<1>1. \A s \in Submission : Taken(s)' => Taken(s) BY DEF Taken
<1>2. \A s \in Submission : InFlight(s)' => s \notin credited' BY DEF SharesRemembered
<1>3. \A s \in Submission : Taken(s)' => s[1] < nextId' BY <1>1 DEF SharesRemembered
<1>4. \A s \in Submission : Taken(s)' /\ ~destroyed' => streaming' BY <1>1 DEF SharesRemembered
<1>5. \A s \in Submission, j \in jobs' :
        Taken(s)' /\ ~destroyed' /\ j.id = s[1] => s \in submissionHashes'
  BY <1>1 DEF SharesRemembered
<1> QED BY <1>2, <1>3, <1>4, <1>5 DEF SharesRemembered

LEMMA StreamKeepsShares ==
  ASSUME Typed, Phases, SharesRemembered, ~streaming, ~destroyed, Stream,
         inbound.at \notin Carrying, latest' = latest,
         UNCHANGED <<destroyed, credited, creditedAgain>>
  PROVE  SharesRemembered'
<1>1. streaming' = TRUE /\ inbound' = Idle BY DEF Stream
<1>2. \A s \in Submission : ~InFlight(s) /\ ~InFlight(s)'
  BY <1>1 DEF InFlight, Idle, Carrying
<1>3. \A s \in Submission : ~Taken(s) BY NothingTakenYet
<1>4. CASE latest = None
  <2>1. UNCHANGED <<nextId, jobs, submissionHashes>> BY <1>4 DEF Stream, hashVars
  <2> QED BY <1>1, <1>2, <2>1, QuietKeepsShares
<1>5. CASE latest # None
  <2>1. SendJob(latest, jobs) BY <1>5 DEF Stream
  <2>2. \A s \in Submission : Taken(s)' <=> Taken(s) BY <1>2 DEF Taken
  <2> QED BY <1>1, <1>2, <1>3, <2>1, <2>2, SendKeepsShares
<1> QED BY <1>4, <1>5

LEMMA EmitKeepsShares ==
  ASSUME Typed, Phases, SharesRemembered, Emit PROVE SharesRemembered'
<1>1. UNCHANGED <<streaming, destroyed, inbound, credited, creditedAgain>>
  BY DEF Emit, setupVars, history
<1>2. \A s \in Submission : (InFlight(s)' <=> InFlight(s)) /\ (Taken(s)' <=> Taken(s))
  BY <1>1 DEF Taken, InFlight
<1>3. PICK t :
        \/ streaming /\ ~destroyed /\ ResetHashes(t)
           /\ SendJob(t, IF t.clear THEN {} ELSE jobs)
        \/ /\ jobs' = (IF t.clear THEN {} ELSE jobs)
           /\ UNCHANGED <<nextId, submissionHashes>>
  BY DEF Emit, hashVars
<1>4. CASE streaming /\ ~destroyed /\ ResetHashes(t) /\ SendJob(t, IF t.clear THEN {} ELSE jobs)
  <2>1. (IF t.clear THEN {} ELSE jobs) \in SUBSET jobs OBVIOUS
  <2>2. submissionHashes' = submissionHashes \/ (IF t.clear THEN {} ELSE jobs) = {}
    BY <1>4 DEF ResetHashes, hashVars
  <2> QED BY <1>1, <1>2, <1>4, <2>1, <2>2, SendKeepsShares
<1>5. CASE jobs' = (IF t.clear THEN {} ELSE jobs) /\ UNCHANGED <<nextId, submissionHashes>>
  <2>1. jobs' \subseteq jobs BY <1>5
  <2> QED BY <1>1, <1>2, <1>5, <2>1, QuietKeepsShares
<1> QED BY <1>3, <1>4, <1>5

\* A share that is judged is new: not in the set, so not taken.
LEMMA JudgeKeepsShares ==
  ASSUME Typed, Phases, SharesRemembered, BelowCap, NEW s \in Submission, Submit(s) \/ SubmitWeak(s)
  PROVE  SharesRemembered'
<1>1. Judge(s) BY DEF Submit, SubmitWeak
<1>2. UNCHANGED <<jobs, nextId, streaming, destroyed, credited, creditedAgain>>
  BY <1>1 DEF Judge, jobVars, setupVars
<1>3. inbound.at = "idle" /\ ~destroyed /\ initialized BY <1>1 DEF Judge, Handling, Idle
<1>4. streaming BY <1>3 DEF Phases
<1>5. submissionHashes' = submissionHashes \union {s}
  <2>1. Remembered(s) = submissionHashes \union {s} BY DEF Remembered, BelowCap
  <2> QED BY <1>1, <2>1 DEF Judge
<1>6. PICK j \in jobs : j.id = s[1] BY <1>1 DEF Judge
<1>7. s \notin submissionHashes BY <1>1 DEF Judge
<1>8. s \notin credited BY <1>3, <1>6, <1>7 DEF SharesRemembered, Taken
<1>9. \A r \in Submission : InFlight(r)' => r = s
  BY DEF Submit, SubmitWeak, InFlight, At, AtShare, Carrying
<1>10. s[1] < nextId /\ nextId \in Nat
  BY <1>6 DEF Typed, TypeOK
<1>11. \A r \in Submission : Taken(r)' => Taken(r) \/ r = s BY <1>2, <1>9 DEF Taken
<1>12. \A r \in Submission : InFlight(r)' => r \notin credited' BY <1>2, <1>8, <1>9
<1>13. \A r \in Submission : Taken(r)' => r[1] < nextId' BY <1>2, <1>10, <1>11 DEF SharesRemembered
<1>14. \A r \in Submission, k \in jobs' :
         Taken(r)' /\ ~destroyed' /\ k.id = r[1] => r \in submissionHashes'
  BY <1>2, <1>5, <1>11 DEF SharesRemembered
<1> QED BY <1>2, <1>4, <1>12, <1>13, <1>14 DEF SharesRemembered

LEMMA CreditKeepsShares == ASSUME Typed, SharesRemembered, Credit PROVE SharesRemembered'
<1>1. UNCHANGED <<jobs, nextId, streaming, destroyed, submissionHashes>>
  BY DEF Credit, jobVars, setupVars, hashVars
<1>2. inbound.share \in Submission /\ InFlight(inbound.share)
  BY DEF Credit, Typed, Carrying, InFlight
<1>3. inbound.share \notin credited BY <1>2 DEF SharesRemembered
<1>4. creditedAgain' = creditedAgain BY <1>3 DEF Credit
<1>5. \A s \in Submission : ~InFlight(s)' BY DEF Credit, InFlight, At, Carrying
<1>6. \A s \in Submission : Taken(s)' => Taken(s) BY <1>2, <1>5 DEF Credit, Taken
<1> QED BY <1>1, <1>4, <1>5, <1>6 DEF SharesRemembered

LEMMA StepShares ==
  Typed /\ Phases /\ SharesRemembered /\ BelowCap /\ [Next]_vars => SharesRemembered'
<1> SUFFICES ASSUME Typed, Phases, SharesRemembered, BelowCap, [Next]_vars
             PROVE  SharesRemembered'
  OBVIOUS
<1>1. CASE Emit BY <1>1, EmitKeepsShares
<1>2. CASE Disconnect \/ RefusalWritten \/ Fault
  <2>1. destroyed' = TRUE /\ UNCHANGED <<jobs, nextId, credited, creditedAgain>>
    BY <1>2 DEF Disconnect, RefusalWritten, Fault, Destroy, jobVars, history
  <2>2. inbound' = Idle \/ inbound' = inbound BY <1>2 DEF Disconnect, RefusalWritten, Fault
  <2>3. \A s \in Submission : InFlight(s)' => InFlight(s) BY <2>2 DEF InFlight, Idle, Carrying
  <2> QED BY <2>1, <2>3, QuietKeepsShares
<1>3. CASE Subscribe \/ Authorize \/ Suggest \/ Answer \/ SubmitMalformed
  <2>1. Handling /\ inbound' \in {At("reply"), At("suggest"), At("refused")}
    BY <1>3 DEF Subscribe, Authorize, Suggest, Answer, SubmitMalformed
  <2>2. \A s \in Submission : ~InFlight(s)' BY <2>1 DEF InFlight, At, Carrying
  <2>3. UNCHANGED <<jobs, nextId, streaming, destroyed, submissionHashes, credited, creditedAgain>>
    BY <1>3 DEF Subscribe, Authorize, Suggest, Answer, SubmitMalformed, jobVars, setupVars,
       hashVars, history
  <2> QED BY <2>1, <2>2, <2>3, QuietKeepsShares DEF Handling
<1>4. CASE Answered
  <2>1. inbound.at \in {"reply", "suggest"} /\ ~destroyed
    BY <1>4 DEF Answered, Phases, Writing
  <2>2. UNCHANGED <<latest, destroyed, credited, creditedAgain>> BY <1>4 DEF Answered, history
  <2>3. CASE Stream /\ ~initialized
    BY <2>1, <2>2, <2>3, StreamKeepsShares DEF Phases, Carrying
  <2>4. CASE /\ inbound' \in {At("init"), Idle}
             /\ UNCHANGED <<streaming, nextId, jobs, submissionHashes>>
    <3>1. \A s \in Submission : ~InFlight(s)' BY <2>4 DEF InFlight, At, Idle, Carrying
    <3> QED BY <2>1, <2>2, <2>4, <3>1, QuietKeepsShares
  <2> QED BY <1>4, <2>3, <2>4 DEF Answered, Start, hashVars
<1>5. CASE InitWritten
  <2>1. inbound.at = "init" /\ Stream BY <1>5 DEF InitWritten, At
  <2>2. UNCHANGED <<latest, destroyed, credited, creditedAgain>> BY <1>5 DEF InitWritten, history
  <2> QED BY <2>1, <2>2, StreamKeepsShares DEF Phases, Carrying, Writing
<1>6. CASE \E j \in jobs, n \in Nonce, k \in Spelling :
          Submit(<<j.id, n, k>>) \/ SubmitWeak(<<j.id, n, k>>)
  <2>1. \A j \in jobs : j.id \in Nat BY DEF Typed, TypeOK
  <2>2. PICK s \in Submission : Submit(s) \/ SubmitWeak(s) BY <1>6, <2>1 DEF Submission
  <2> QED BY <2>2, JudgeKeepsShares
<1>7. CASE Acked \/ BlockSubmitted
  <2>1. UNCHANGED <<jobs, nextId, streaming, destroyed, submissionHashes, credited, creditedAgain>>
    BY <1>7 DEF Acked, BlockSubmitted, jobVars, setupVars, hashVars
  <2>2. inbound.at \in Carrying /\ inbound'.share = inbound.share
    BY <1>7 DEF Acked, BlockSubmitted, AtShare, Carrying
  <2>3. \A s \in Submission : InFlight(s)' => InFlight(s) BY <2>2 DEF InFlight
  <2> QED BY <2>1, <2>3, QuietKeepsShares
<1>8. CASE Credit BY <1>8, CreditKeepsShares
<1>9. CASE Stored
  <2>1. UNCHANGED <<jobs, nextId, streaming, destroyed, submissionHashes, credited, creditedAgain>>
    BY <1>9 DEF Stored, jobVars, setupVars, hashVars, history
  <2>2. \A s \in Submission : ~InFlight(s)' BY <1>9 DEF Stored, InFlight, Idle, Carrying
  <2> QED BY <2>1, <2>2, QuietKeepsShares
<1>10. CASE StartPass \/ UNCHANGED vars
  <2>1. UNCHANGED <<jobs, nextId, streaming, destroyed, submissionHashes, inbound, credited, creditedAgain>>
    BY <1>10 DEF StartPass, vars, jobVars, setupVars, hashVars, history
  <2>2. \A s \in Submission : InFlight(s)' => InFlight(s) BY <2>1 DEF InFlight
  <2> QED BY <2>1, <2>2, QuietKeepsShares
<1>11. CASE Retarget
  <2>1. SendJob(latest, jobs) BY <1>11 DEF Retarget
  <2>2. UNCHANGED <<streaming, destroyed, submissionHashes, inbound, credited, creditedAgain>>
    BY <1>11 DEF Retarget, setupVars, hashVars, history
  <2>3. streaming BY <1>11 DEF Retarget, Phases
  <2>4. \A s \in Submission : (InFlight(s)' <=> InFlight(s)) /\ (Taken(s)' <=> Taken(s))
    BY <2>2 DEF Taken, InFlight
  <2> QED BY <2>1, <2>2, <2>3, <2>4, SendKeepsShares
<1> QED
  BY <1>1, <1>2, <1>3, <1>4, <1>5, <1>6, <1>7, <1>8, <1>9, <1>10, <1>11 DEF Next

-----------------------------------------------------------------------------
(* Every variable of the session and of the registry keeps its type.       *)
THEOREM TypeCorrect == Spec => []TypeOK
<1>1. Typed => TypeOK BY DEF Typed
<1> QED BY <1>1, InitTyped, StepTyped, PTL DEF Spec

(* While it is served, a miner that was not changed without a word knows   *)
(* the difficulty it is judged by.                                         *)
THEOREM MinerKnowsDifficulty == Spec => []ToldDifficulty
<1>1. Announced => ToldDifficulty BY DEF Announced, ToldDifficulty
<1> QED
  BY <1>1, InitTyped, StepTyped, InitPhases, StepPhases, InitAnnounced, StepAnnounced, PTL DEF Spec

(* However templates, the handshake and retargets follow each other, the   *)
(* miner of a session works on a job of the newest template.               *)
THEOREM MinerIsUpToDate == Spec => []WorksOnLatest
<1>1. Init => WorksOnLatest BY DEF Init, WorksOnLatest
<1> QED BY <1>1, InitTyped, StepTyped, InitPhases, StepPhases, StepWorks, PTL DEF Spec

(* As long as the duplicate set does not reach its cap, at which the code  *)
(* empties it, no mining.submit is credited twice as it was written.       *)
THEOREM SubmissionsCountOnce == Spec /\ []BelowCap => []CreditedOnce
<1>1. SharesRemembered => CreditedOnce BY DEF SharesRemembered, CreditedOnce
<1> QED
  BY <1>1, InitTyped, StepTyped, InitPhases, StepPhases, InitShares, StepShares, PTL DEF Spec

-----------------------------------------------------------------------------
(* The listener and its monitor.                                           *)

LEMMA ListenerConstants ==
    /\ HealthyChecks \in Nat /\ HealthyChecks >= 1
    /\ MaxConnections \in Nat /\ MaxConnections >= 1
    /\ MaxServers \in Nat /\ MaxServers >= 1
    /\ MaxFailures \in Nat
BY LimitAssumption, ServerBound

Record == [state : ServerState, sessions : 0..MaxConnections]

\* What became of the variables that an action of the Servers leaves alone.
Aside == UNCHANGED <<load, listener, healthyBackpressureChecks, streak>>

-----------------------------------------------------------------------------
(* A listener that was started has a server or is paused, never both: so a *)
(* paused one can be opened, and only one Server at a time is its server.  *)
Shape ==
    /\ ~listener.started => listener = NotStarted
    /\ listener.started => (listener.paused <=> listener.server = NoServer)

\* While the listener is paused, no more checks are counted than were healthy.
Counted == listener.paused => healthyBackpressureChecks <= streak

ListenerInv == ListenerTypeOK /\ Shape /\ OnlyListenerAccepts /\ Counted

-----------------------------------------------------------------------------
LEMMA ListenerInvInit == ListenerInit => ListenerInv
BY ListenerConstants
   DEF ListenerInit, ListenerInv, ListenerTypeOK, Shape, OnlyListenerAccepts, Counted, NotStarted, Server,
       NoServer, ServerState, Load

\* Opening a listener that has no server keeps what concerns the two alone.
LEMMA ListenKeeps ==
    ASSUME ListenerInv, NEW of \in [started : BOOLEAN, server : {NoServer}, paused : BOOLEAN],
           of.started, listener.server = NoServer, Listen(of)
    PROVE  /\ listener' \in [started : BOOLEAN, server : Server, paused : {FALSE}]
           /\ listener'.started
           /\ servers' \in [Server -> Record]
           /\ \A s \in Server : servers'[s].state \in {"binding", "accepting"} =>
                s = listener'.server
<1>1. PICK s \in Unused :
        /\ listener' = [of EXCEPT !.server = s, !.paused = FALSE]
        /\ servers' = [servers EXCEPT ![s].state = "binding"]
  BY DEF Listen
<1>2. s \in Server /\ servers \in [Server -> Record] /\ NoServer \notin Server
  BY ListenerConstants DEF Unused, ListenerInv, ListenerTypeOK, Record, Server, NoServer
<1>3. listener' \in [started : BOOLEAN, server : Server, paused : {FALSE}]
  BY <1>1, <1>2
<1>4. listener'.started /\ listener'.server = s
  BY <1>1, <1>2
<1>5. servers' \in [Server -> Record]
  BY <1>1, <1>2 DEF Record, ServerState
<1>6. ASSUME NEW t \in Server, servers'[t].state \in {"binding", "accepting"}
      PROVE  t = s
  BY <1>1, <1>2, <1>6 DEF ListenerInv, OnlyListenerAccepts
<1> QED BY <1>3, <1>4, <1>5, <1>6

LEMMA StartKeeps == ASSUME ListenerInv, StartListening PROVE ListenerInv'
<1>1. listener = NotStarted BY DEF StartListening, ListenerInv, Shape
<1>2. /\ [NotStarted EXCEPT !.started = TRUE]
            \in [started : BOOLEAN, server : {NoServer}, paused : BOOLEAN]
      /\ [NotStarted EXCEPT !.started = TRUE].started
      /\ listener.server = NoServer
  BY <1>1 DEF NotStarted
<1>3. /\ listener' \in [started : BOOLEAN, server : Server, paused : {FALSE}]
      /\ listener'.started
      /\ servers' \in [Server -> Record]
      /\ \A s \in Server : servers'[s].state \in {"binding", "accepting"} =>
           s = listener'.server
  BY <1>2, ListenKeeps DEF StartListening
<1>4. NoServer \notin Server BY DEF NoServer, Server
<1> QED BY <1>3, <1>4
        DEF StartListening, ListenerInv, ListenerTypeOK, Shape, OnlyListenerAccepts, Counted, Record

-----------------------------------------------------------------------------
(* Steps of the Servers and their sessions.                                *)

\* A Server that takes nobody in stays so, and the rest stands still.
LEMMA ServersKeep ==
    ASSUME ListenerInv, Aside, servers' \in [Server -> Record], failures' \in 0..MaxFailures,
           \A s \in Server : servers'[s].state \in {"binding", "accepting"} =>
               servers[s].state \in {"binding", "accepting"}
    PROVE  ListenerInv'
BY DEF Aside, ListenerInv, ListenerTypeOK, Shape, OnlyListenerAccepts, Counted, Record

LEMMA ServerStepKeeps ==
    ASSUME ListenerInv, NEW s \in Server,
           Bound(s) \/ BindFailed(s) \/ Connect(s) \/ ConnectionEnds(s)
    PROVE  ListenerInv'
<1>1. servers \in [Server -> Record] /\ failures \in 0..MaxFailures
  BY DEF ListenerInv, ListenerTypeOK, Record
<1>2. servers[s].state \in ServerState /\ servers[s].sessions \in 0..MaxConnections
  BY <1>1 DEF Record
<1>3. CASE Bound(s)
  <2>1. servers' \in [Server -> Record] BY <1>1, <1>3 DEF Bound, Record, ServerState
  <2>2. \A t \in Server : servers'[t].state \in {"binding", "accepting"} =>
           servers[t].state \in {"binding", "accepting"}
    BY <1>1, <1>3 DEF Bound, Record
  <2> QED BY <1>1, <1>3, <2>1, <2>2, ServersKeep DEF Bound, Aside
<1>4. CASE BindFailed(s)
  <2>1. servers' \in [Server -> Record] BY <1>1, <1>4 DEF BindFailed, Record, ServerState
  <2>2. \A t \in Server : servers'[t].state \in {"binding", "accepting"} =>
           servers[t].state \in {"binding", "accepting"}
    BY <1>1, <1>4 DEF BindFailed, Record
  <2>3. failures' \in 0..MaxFailures
    BY <1>1, <1>4, ListenerConstants DEF BindFailed
  <2> QED BY <1>4, <2>1, <2>2, <2>3, ServersKeep DEF BindFailed, Aside
<1>5. CASE Connect(s)
  <2>1. servers[s].sessions + 1 \in 0..MaxConnections
    BY <1>2, <1>5, ListenerConstants DEF Connect
  <2>2. servers' \in [Server -> Record] BY <1>1, <1>5, <2>1 DEF Connect, Record
  <2>3. \A t \in Server : servers'[t].state = servers[t].state
    BY <1>1, <1>5 DEF Connect, Record
  <2> QED BY <1>1, <1>5, <2>2, <2>3, ServersKeep DEF Connect, Aside
<1>6. CASE ConnectionEnds(s)
  <2> DEFINE left == IF servers[s].state = "closing" /\ servers[s].sessions = 1
                       THEN "closed" ELSE servers[s].state
  <2>1. servers[s].sessions - 1 \in 0..MaxConnections
    BY <1>2, <1>6, ListenerConstants DEF ConnectionEnds
  <2>2. left \in ServerState BY <1>2 DEF ServerState
  <2>3. servers' = [servers EXCEPT ![s] = [servers[s] EXCEPT
                      !.sessions = servers[s].sessions - 1, !.state = left]]
    BY <1>1, <1>6 DEF ConnectionEnds, Record
  <2>4. [servers[s] EXCEPT !.sessions = servers[s].sessions - 1, !.state = left] \in Record
    BY <1>1, <2>1, <2>2 DEF Record
  <2>5. servers' \in [Server -> Record] BY <1>1, <2>3, <2>4
  <2>6. servers'[s].state = left /\ \A t \in Server \ {s} : servers'[t] = servers[t]
    BY <1>1, <2>3 DEF Record
  <2>7. \A t \in Server : servers'[t].state \in {"binding", "accepting"} =>
           servers[t].state \in {"binding", "accepting"}
    BY <2>6
  <2> QED BY <1>1, <1>6, <2>5, <2>7, ServersKeep DEF ConnectionEnds, Aside
<1> QED BY <1>3, <1>4, <1>5, <1>6

-----------------------------------------------------------------------------
(* The monitor.                                                            *)

\* Closing the listener's server leaves no Server that takes miners in.
LEMMA PauseKeeps ==
    ASSUME ListenerInv, listener.started, ~listener.paused, Pause
    PROVE  /\ listener' = [listener EXCEPT !.server = NoServer, !.paused = TRUE]
           /\ servers' \in [Server -> Record]
           /\ \A s \in Server : servers'[s].state \notin {"binding", "accepting"}
<1> DEFINE own == listener.server
<1>1. own \in Server /\ servers \in [Server -> Record]
  BY DEF ListenerInv, ListenerTypeOK, Shape, Record
<1>2. Closed(servers[own]) \in Record
  BY <1>1 DEF Closed, Record, ServerState
<1>3. Closed(servers[own]).state \notin {"binding", "accepting"}
  BY <1>1 DEF Closed, Record
<1>4. servers' = [servers EXCEPT ![own] = Closed(servers[own])]
  BY DEF Pause
<1>5. servers' \in [Server -> Record] BY <1>1, <1>2, <1>4
<1>6. ASSUME NEW s \in Server PROVE servers'[s].state \notin {"binding", "accepting"}
  <2>1. CASE s = own BY <1>1, <1>3, <1>4, <2>1
  <2>2. CASE s # own BY <1>1, <1>4, <2>2 DEF ListenerInv, OnlyListenerAccepts
  <2> QED BY <2>1, <2>2
<1> QED BY <1>5, <1>6 DEF Pause

LEMMA StreakType == ASSUME ListenerInv, CheckBackpressure PROVE streak' \in 0..HealthyChecks
BY ListenerConstants DEF ListenerInv, ListenerTypeOK, CheckBackpressure

LEMMA CheckKeeps == ASSUME ListenerInv, CheckBackpressure PROVE ListenerInv'
<1>1. streak' \in 0..HealthyChecks BY StreakType
<1>2. load' = load /\ failures' = failures BY DEF CheckBackpressure
<1>3. CASE CheckOverloaded
  <2>1. healthyBackpressureChecks' = 0 /\ 0 \in 0..(HealthyChecks - 1)
    BY <1>3, ListenerConstants DEF CheckOverloaded
  <2>2. streak' >= 0 BY <1>1, ListenerConstants
  <2>3. CASE listener.started /\ ~listener.paused
    <3>1. Pause BY <1>3, <2>3 DEF CheckOverloaded
    <3>2. /\ listener' = [listener EXCEPT !.server = NoServer, !.paused = TRUE]
          /\ servers' \in [Server -> Record]
          /\ \A s \in Server : servers'[s].state \notin {"binding", "accepting"}
      BY <2>3, <3>1, PauseKeeps
    <3> QED BY <1>1, <1>2, <2>1, <2>2, <2>3, <3>2
            DEF ListenerInv, ListenerTypeOK, Shape, OnlyListenerAccepts, Counted, Record
  <2>4. CASE ~(listener.started /\ ~listener.paused)
    <3>1. UNCHANGED <<listener, servers>> BY <1>3, <2>4 DEF CheckOverloaded
    <3> QED BY <1>1, <1>2, <2>1, <2>2, <3>1
            DEF ListenerInv, ListenerTypeOK, Shape, OnlyListenerAccepts, Counted
  <2> QED BY <2>3, <2>4
<1>4. CASE CheckAccepting
  BY <1>1, <1>2, <1>4
     DEF CheckAccepting, ListenerInv, ListenerTypeOK, Shape, OnlyListenerAccepts, Counted
<1>5. CASE CheckStrained
  <2>1. healthyBackpressureChecks' = 0 /\ 0 \in 0..(HealthyChecks - 1) /\ streak' >= 0
    BY <1>1, <1>5, ListenerConstants DEF CheckStrained
  <2> QED BY <1>1, <1>2, <1>5, <2>1
          DEF CheckStrained, ListenerInv, ListenerTypeOK, Shape, OnlyListenerAccepts, Counted
<1>6. CASE CheckHealthy
  <2>1. listener.paused /\ load = "healthy" BY <1>6 DEF CheckHealthy
  <2>2. listener.started /\ listener.server = NoServer
    BY <2>1 DEF ListenerInv, Shape, NotStarted
  <2>3. healthyBackpressureChecks \in 0..(HealthyChecks - 1) /\ streak \in 0..HealthyChecks
    BY DEF ListenerInv, ListenerTypeOK
  <2>4. healthyBackpressureChecks <= streak BY <2>1 DEF ListenerInv, Counted
  <2>5. CASE healthyBackpressureChecks + 1 >= HealthyChecks
    <3>1. Listen(listener) /\ healthyBackpressureChecks' = 0
      BY <1>6, <2>5 DEF CheckHealthy
    <3>2. listener \in [started : BOOLEAN, server : {NoServer}, paused : BOOLEAN]
      BY <2>2 DEF ListenerInv, ListenerTypeOK
    <3>3. /\ listener' \in [started : BOOLEAN, server : Server, paused : {FALSE}]
          /\ listener'.started
          /\ servers' \in [Server -> Record]
          /\ \A s \in Server : servers'[s].state \in {"binding", "accepting"} =>
               s = listener'.server
      BY <2>2, <3>1, <3>2, ListenKeeps
    <3>4. NoServer \notin Server /\ 0 \in 0..(HealthyChecks - 1)
      BY ListenerConstants DEF NoServer, Server
    <3> QED BY <1>1, <1>2, <3>1, <3>3, <3>4
            DEF ListenerInv, ListenerTypeOK, Shape, OnlyListenerAccepts, Counted, Record
  <2>6. CASE ~(healthyBackpressureChecks + 1 >= HealthyChecks)
    <3>1. /\ healthyBackpressureChecks' = healthyBackpressureChecks + 1
          /\ UNCHANGED <<listener, servers>>
      BY <1>6, <2>6 DEF CheckHealthy
    <3>2. healthyBackpressureChecks' \in 0..(HealthyChecks - 1)
      BY <2>3, <2>6, <3>1, ListenerConstants
    <3>3. streak' = IF streak < HealthyChecks THEN streak + 1 ELSE streak
      BY <2>1 DEF CheckBackpressure
    <3>4. healthyBackpressureChecks' <= streak'
      BY <2>3, <2>4, <2>6, <3>1, <3>3, ListenerConstants
    <3> QED BY <1>1, <1>2, <3>1, <3>2, <3>4
            DEF ListenerInv, ListenerTypeOK, Shape, OnlyListenerAccepts, Counted
  <2> QED BY <2>5, <2>6
<1> QED BY <1>3, <1>4, <1>5, <1>6 DEF CheckBackpressure

LEMMA CrashKeeps == ASSUME ListenerInv, Crash PROVE ListenerInv'
<1>1. failures' \in 0..MaxFailures
  BY ListenerConstants DEF Crash, ListenerInv, ListenerTypeOK
<1> QED BY <1>1, ListenerConstants
        DEF Crash, ListenerInv, ListenerTypeOK, Shape, OnlyListenerAccepts, Counted, NotStarted, Server,
            NoServer, ServerState

LEMMA ListenerInvStep == ListenerInv /\ [ListenerNext]_listenerVars => ListenerInv'
<1> SUFFICES ASSUME ListenerInv, [ListenerNext]_listenerVars PROVE ListenerInv'
  OBVIOUS
<1>1. CASE StartListening BY <1>1, StartKeeps
<1>2. CASE LoadChanges
  BY <1>2 DEF LoadChanges, ListenerInv, ListenerTypeOK, Shape, OnlyListenerAccepts, Counted
<1>3. CASE CheckBackpressure BY <1>3, CheckKeeps
<1>4. ASSUME NEW s \in Server, Bound(s) \/ BindFailed(s) \/ Connect(s) \/ ConnectionEnds(s)
      PROVE  ListenerInv'
  BY <1>4, ServerStepKeeps
<1>5. CASE Crash BY <1>5, CrashKeeps
<1>6. CASE UNCHANGED listenerVars
  BY <1>6 DEF listenerVars, ListenerInv, ListenerTypeOK, Shape, OnlyListenerAccepts, Counted
<1> QED BY <1>1, <1>2, <1>3, <1>4, <1>5, <1>6 DEF ListenerNext, Step

LEMMA ListenerInvHolds == ListenerSpec => []ListenerInv
BY ListenerInvInit, ListenerInvStep, PTL DEF ListenerSpec

-----------------------------------------------------------------------------
(* The variables of the listener and its monitor keep their types; the     *)
(* count of healthy checks never reaches its limit.                        *)
THEOREM ListenerTypeCorrect == ListenerSpec => []ListenerTypeOK
<1>1. ListenerInv => ListenerTypeOK BY DEF ListenerInv
<1> QED BY <1>1, ListenerInvHolds, PTL

(* However often the port is paused and opened again, at most one Server   *)
(* takes miners in, the one of the listener, and none while it is paused.  *)
THEOREM OneServerAccepts == ListenerSpec => []OnlyListenerAccepts
<1>1. ListenerInv => OnlyListenerAccepts BY DEF ListenerInv
<1> QED BY <1>1, ListenerInvHolds, PTL

(* A paused port is opened only by the last of HealthyChecks healthy       *)
(* checks in a row (checkBackpressure).                                    *)
THEOREM ResumingIsEarned == ListenerSpec => ResumeIsEarned
<1>1. ASSUME ListenerInv, [ListenerNext]_listenerVars,
             listener.paused, listener'.started, ~listener'.paused
      PROVE  streak' >= HealthyChecks
  <2>1. listener' # listener /\ listener.started
    BY <1>1 DEF ListenerInv, Shape, NotStarted
  <2>2. CASE CheckBackpressure
    <3>1. CheckHealthy /\ healthyBackpressureChecks + 1 >= HealthyChecks
      BY <1>1, <2>1, <2>2
         DEF CheckBackpressure, CheckOverloaded, CheckAccepting, CheckStrained, CheckHealthy
    <3>2. load = "healthy" BY <3>1 DEF CheckHealthy
    <3>3. streak' = IF streak < HealthyChecks THEN streak + 1 ELSE streak
      BY <2>2, <3>2 DEF CheckBackpressure
    <3>4. /\ streak \in 0..HealthyChecks
          /\ healthyBackpressureChecks \in 0..(HealthyChecks - 1)
          /\ healthyBackpressureChecks <= streak
      BY <1>1 DEF ListenerInv, ListenerTypeOK, Counted
    <3> QED BY <3>1, <3>3, <3>4, ListenerConstants
  <2>3. CASE StartListening BY <2>1, <2>3 DEF StartListening
  <2>4. CASE Crash BY <1>1, <2>4 DEF Crash, NotStarted
  <2>5. CASE LoadChanges \/ UNCHANGED listenerVars BY <2>1, <2>5 DEF LoadChanges, listenerVars
  <2>6. ASSUME NEW s \in Server, Bound(s) \/ BindFailed(s) \/ Connect(s) \/ ConnectionEnds(s)
        PROVE  FALSE
    BY <2>1, <2>6 DEF Bound, BindFailed, Connect, ConnectionEnds
  <2> QED BY <1>1, <2>2, <2>3, <2>4, <2>5, <2>6 DEF ListenerNext, Step
<1>2. ListenerInv /\ [ListenerNext]_listenerVars =>
        [listener.paused /\ listener'.started /\ ~listener'.paused
           => streak' >= HealthyChecks]_listenerVars
  BY <1>1
<1> QED BY <1>2, ListenerInvHolds, PTL DEF ListenerSpec, ResumeIsEarned
=============================================================================
