-------------------------- MODULE BlockFoundProofs --------------------------
(***************************************************************************)
(* Theorems about BlockFound, for any number of processes and sessions,    *)
(* any difficulties, blocks, shares, crashes and failures.                 *)
(***************************************************************************)
EXTENDS BlockFound, TLAPS

LEMMA BoundsAreNaturals ==
    /\ NetworkDifficulty \in Nat
    /\ MaxDifficulty \in Nat /\ MaxDifficulty >= 1 /\ MaxHeight \in Nat /\ MaxHeight >= 1
    /\ MaxShares \in Nat /\ MaxFaults \in Nat
BY BoundAssumption

-----------------------------------------------------------------------------
(* Types.                                                                  *)

LEMMA IdleType == Idle \in Handling /\ Idle.step = "idle" /\ Idle.share = NoShare
BY BoundsAreNaturals DEF Idle, Handling, Step, Share, NoShare, Difficulty, Height

\* What one session does, the sessions stay of their type.
LEMMA OneSession ==
    ASSUME TypeOK, NEW s \in Session, NEW x \in Handling, sessions' = [sessions EXCEPT ![s] = x]
    PROVE  sessions' \in [Session -> Handling]
BY DEF TypeOK

LEMMA GotoType ==
    ASSUME TypeOK, NEW s \in Session, NEW step \in Step, Goto(s, step)
    PROVE  sessions' \in [Session -> Handling]
<1>1. sessions[s] \in Handling BY DEF TypeOK
<1>2. [sessions[s] EXCEPT !.step = step] \in Handling BY <1>1 DEF Handling
<1>3. sessions' = [sessions EXCEPT ![s] = [sessions[s] EXCEPT !.step = step]]
  BY DEF Goto, TypeOK
<1> QED BY <1>2, <1>3, OneSession

LEMMA DoneType ==
    ASSUME TypeOK, NEW s \in Session, Done(s)
    PROVE  sessions' \in [Session -> Handling]
BY IdleType, OneSession DEF Done

LEMMA GoOnType ==
    ASSUME TypeOK, NEW s \in Session, GoOn(s)
    PROVE  sessions' \in [Session -> Handling] /\ best' \in 0..MaxDifficulty
           /\ UNCHANGED <<entityBest, alerted, behind>> /\ best' = best
<1>1. sessions[s] \in Handling BY DEF TypeOK
<1>2. [Idle EXCEPT !.step = "credit", !.share = sessions[s].share] \in Handling
  BY <1>1 DEF Idle, Handling, Step
<1>3. sessions[s].result # "null" BY <1>1 DEF Handling
<1> QED BY <1>2, <1>3, OneSession DEF GoOn, TypeOK

LEMMA TellType ==
    ASSUME TypeOK, NEW p \in Process, NEW c \in Channel, NEW h \in Height, Tell(p, c, h)
    PROVE  told' \in [Process -> [Channel -> [Height -> Nat]]]
BY DEF TypeOK, Tell

LEMMA ShareType ==
    ASSUME TypeOK, NEW s \in Session
    PROVE  /\ sessions[s].share \in Share
           /\ sessions[s].share.height \in Height
           /\ sessions[s].share.difficulty \in Difficulty
           /\ ProcessOf(s) \in Process
BY ProcessAssumption DEF TypeOK, Handling, Share

LEMMA FaultsCount ==
    ASSUME TypeOK, faults < MaxFaults, faults' = faults + 1
    PROVE  faults' \in 0..MaxFaults
BY BoundsAreNaturals DEF TypeOK

LEMMA EndSessionType ==
    ASSUME TypeOK, NEW s \in Session, EndSession(s)
    PROVE  /\ sessions' \in [Session -> Handling]
           /\ entityBest' \in [Session -> 0..MaxDifficulty]
           /\ behind' \in SUBSET Session
           /\ UNCHANGED <<best, alerted>>
<1>1. sessions' \in [Session -> Handling] BY DoneType DEF EndSession
<1>2. 0 \in 0..MaxDifficulty BY BoundsAreNaturals
<1> QED BY <1>1, <1>2 DEF EndSession, TypeOK

LEMMA InitType == Init => TypeOK
<1> SUFFICES ASSUME Init PROVE TypeOK OBVIOUS
<1>1. sessions \in [Session -> Handling] BY IdleType DEF Init
<1>2. told \in [Process -> [Channel -> [Height -> Nat]]] BY DEF Init
<1>3. alerted \in [Difficulty -> Nat] BY DEF Init
<1>4. entityBest \in [Session -> 0..MaxDifficulty] BY BoundsAreNaturals DEF Init
<1> QED BY <1>1, <1>2, <1>3, <1>4, BoundsAreNaturals DEF Init, TypeOK

\* Steps that leave all but the session and a counter alone.
LEMMA QuietType ==
    ASSUME TypeOK, sessions' \in [Session -> Handling], tip' \in 0..MaxHeight,
           submitted' \in Nat, shares' \in 0..MaxShares, faults' \in 0..MaxFaults,
           rows' \in SUBSET Height, UNCHANGED <<announces, bests>>
    PROVE  TypeOK'
BY DEF TypeOK, announces, bests

LEMMA TypeStep == TypeOK /\ [Next]_vars => TypeOK'
<1> SUFFICES ASSUME TypeOK, [Next]_vars PROVE TypeOK' OBVIOUS
<1> USE BoundsAreNaturals
<1>t. tip \in 0..MaxHeight /\ submitted \in Nat /\ shares \in 0..MaxShares
        /\ faults \in 0..MaxFaults /\ rows \in SUBSET Height /\ sessions \in [Session -> Handling]
  BY DEF TypeOK
<1>1. CASE NodeBlock
  BY <1>t, <1>1, QuietType DEF NodeBlock
<1>2. CASE \E s \in Session, d \in Difficulty, h \in Height : Submit(s, d, h)
  <2>1. PICK s \in Session, d \in Difficulty, h \in Height : Submit(s, d, h) BY <1>2
  <2> DEFINE x == [Idle EXCEPT !.step = "judge",
                               !.share = [difficulty |-> d, height |-> h]]
  <2>2. x \in Handling BY IdleType DEF Handling, Step, Share
  <2>3. sessions' = [sessions EXCEPT ![s] = x] BY <2>1 DEF Submit
  <2>4. sessions' \in [Session -> Handling] BY <2>2, <2>3, OneSession
  <2>5. shares' \in 0..MaxShares BY <1>t, <2>1 DEF Submit
  <2> QED BY <1>t, <2>1, <2>4, <2>5, QuietType DEF Submit, node
<1>3. CASE \E s \in Session : Judge(s)
  <2>1. PICK s \in Session : Judge(s) BY <1>3
  <2>2. NextStep(sessions[s].share) \in Step BY DEF NextStep, Step
  <2>3. Done(s) \/ \E step \in Step : Goto(s, step)
    <3>1. "answer" \in Step BY DEF Step
    <3> QED BY <2>1, <2>2, <3>1 DEF Judge
  <2>4. sessions' \in [Session -> Handling] BY <2>3, DoneType, GotoType
  <2> QED BY <1>t, <2>1, <2>4, QuietType DEF Judge, node
<1>4. CASE \E s \in Session : Answered(s)
  <2>1. PICK s \in Session : Answered(s) BY <1>4
  <2>2. NextStep(sessions[s].share) \in Step BY DEF NextStep, Step
  <2>3. sessions' \in [Session -> Handling] BY <2>1, <2>2, GotoType DEF Answered
  <2> QED BY <1>t, <2>1, <2>3, QuietType DEF Answered, node
<1>5. CASE \E s \in Session : AnswerFails(s) \/ Throws(s)
  <2>1. PICK s \in Session : AnswerFails(s) \/ Throws(s) BY <1>5
  <2>2. EndSession(s) /\ faults' \in 0..MaxFaults /\ UNCHANGED <<node, rows, shares, announces>>
    BY <2>1, FaultsCount DEF AnswerFails, Throws
  <2> QED BY <1>t, <2>2, EndSessionType DEF TypeOK, node, announces
<1>6. CASE \E s \in Session : SubmitBlock(s) \/ SubmitError(s)
  <2>1. PICK s \in Session : SubmitBlock(s) \/ SubmitError(s) BY <1>6
  <2>2. \E r \in {"SUCCESS!", "rejected", "error"} :
          sessions' = [sessions EXCEPT ![s].step = "exists", ![s].result = r]
    <3>1. AnswerOfNode(Accepted(s)) \in {"SUCCESS!", "rejected"} BY DEF AnswerOfNode
    <3> QED BY <2>1, <3>1 DEF SubmitBlock, SubmitError
  <2>3. PICK r \in {"SUCCESS!", "rejected", "error"} :
          sessions' = [sessions EXCEPT ![s].step = "exists", ![s].result = r]
    BY <2>2
  <2>4. [sessions[s] EXCEPT !.step = "exists", !.result = r] \in Handling
    BY <1>t DEF Handling, Step
  <2>5. sessions' = [sessions EXCEPT ![s] = [sessions[s] EXCEPT !.step = "exists", !.result = r]]
    BY <1>t, <2>3
  <2>6. sessions' \in [Session -> Handling] BY <2>4, <2>5, OneSession
  <2>7. tip' \in {tip} \union (IF Accepted(s) THEN {tip + 1} ELSE {}) BY <2>1 DEF SubmitBlock, SubmitError
  <2>8. Accepted(s) => tip + 1 \in Height BY ShareType DEF Accepted
  <2>9. tip' \in 0..MaxHeight BY <1>t, <2>7, <2>8 DEF Height
  <2>10. submitted' \in Nat BY <1>t, <2>1 DEF SubmitBlock, SubmitError
  <2>11. faults' \in 0..MaxFaults BY <1>t, <2>1, FaultsCount DEF SubmitBlock, SubmitError
  <2> QED BY <1>t, <2>1, <2>6, <2>9, <2>10, <2>11, QuietType DEF SubmitBlock, SubmitError
<1>7. CASE \E s \in Session : Exists(s)
  <2>1. PICK s \in Session : Exists(s) BY <1>7
  <2> DEFINE x == [sessions[s] EXCEPT !.step = "save",
                                      !.recorded = sessions[s].share.height \in rows]
  <2>2. x \in Handling
    <3>1. ASSUME NEW r \in BOOLEAN
          PROVE  [sessions[s] EXCEPT !.step = "save", !.recorded = r] \in Handling
      BY <1>t DEF Handling, Step
    <3>2. (sessions[s].share.height \in rows) \in BOOLEAN OBVIOUS
    <3> QED BY <3>1, <3>2
  <2>3. sessions' = [sessions EXCEPT ![s] = x] BY <1>t, <2>1 DEF Exists
  <2>4. sessions' \in [Session -> Handling] BY <2>2, <2>3, OneSession
  <2> QED BY <1>t, <2>1, <2>4, QuietType DEF Exists, node
<1>8. CASE \E s \in Session : Save(s)
  <2>1. PICK s \in Session : Save(s) BY <1>8
  <2>2. sessions' \in [Session -> Handling]
    <3>1. "notify" \in Step BY DEF Step
    <3> QED BY <2>1, <3>1, GotoType DEF Save
  <2>3. rows' \in SUBSET Height BY <1>t, <2>1, ShareType DEF Save
  <2> QED BY <1>t, <2>1, <2>2, <2>3, QuietType DEF Save, node
<1>9. CASE \E s \in Session : AlreadyNotified(s)
  <2>1. PICK s \in Session : AlreadyNotified(s) BY <1>9
  <2> QED BY <1>t, <2>1, GoOnType DEF AlreadyNotified, TypeOK, node, announces
<1>10. CASE \E s \in Session : Notify(s)
  <2>1. PICK s \in Session : Notify(s) BY <1>10
  <2>2. sessions' \in [Session -> Handling]
    <3>1. "telegram" \in Step BY DEF Step
    <3> QED BY <2>1, <3>1, GotoType DEF Notify
  <2>3. told' \in [Process -> [Channel -> [Height -> Nat]]]
    <3>1. "discord" \in Channel BY DEF Channel
    <3> QED BY <2>1, <3>1, ShareType, TellType DEF Notify, TypeOK
  <2>4. notified' \in [Process -> SUBSET Height]
    <3>1. notified[ProcessOf(s)] \union {sessions[s].share.height} \in SUBSET Height
      BY ShareType DEF TypeOK
    <3> QED BY <2>1, <3>1 DEF Notify, Remembered, TypeOK
  <2>5. announced' \in SUBSET Height BY <2>1, ShareType DEF Notify, TypeOK
  <2> QED BY <2>1, <2>2, <2>3, <2>4, <2>5 DEF Notify, TypeOK, node, bests
<1>11. CASE \E s \in Session : NotifyTelegram(s)
  <2>1. PICK s \in Session : NotifyTelegram(s) BY <1>11
  <2>2. told' \in [Process -> [Channel -> [Height -> Nat]]]
    <3>1. "telegram" \in Channel BY DEF Channel
    <3> QED BY <2>1, <3>1, ShareType, TellType DEF NotifyTelegram
  <2> QED BY <2>1, <2>2, GoOnType DEF NotifyTelegram, TypeOK, node
<1>12. CASE \E s \in Session : Credit(s)
  <2>1. PICK s \in Session : Credit(s) BY <1>12
  <2>2. sessions' \in [Session -> Handling]
    <3>1. "best" \in Step BY DEF Step
    <3> QED BY <2>1, <3>1, GotoType, DoneType DEF Credit
  <2> QED BY <1>t, <2>1, <2>2, QuietType DEF Credit, node
<1>13. CASE \E s \in Session : StoreBest(s)
  <2>1. PICK s \in Session : StoreBest(s) BY <1>13
  <2>2. sessions' \in [Session -> Handling]
    <3>1. "address" \in Step BY DEF Step
    <3> QED BY <2>1, <3>1, GotoType DEF StoreBest
  <2>3. entityBest' \in [Session -> 0..MaxDifficulty]
    BY <2>1, ShareType DEF StoreBest, TypeOK, Difficulty
  <2> QED BY <2>1, <2>2, <2>3 DEF StoreBest, TypeOK, node, announces
<1>14. CASE \E s \in Session : StoreAddressBest(s)
  <2>1. PICK s \in Session : StoreAddressBest(s) BY <1>14
  <2>2. sessions' \in [Session -> Handling] BY <2>1, DoneType DEF StoreAddressBest
  <2>3. best' \in 0..MaxDifficulty
    BY <2>1, ShareType DEF StoreAddressBest, TypeOK, Difficulty
  <2>4. alerted' \in [Difficulty -> Nat]
    BY <2>1, ShareType DEF StoreAddressBest, TypeOK
  <2> QED BY <2>1, <2>2, <2>3, <2>4 DEF StoreAddressBest, TypeOK, node, announces
<1>15. CASE \E s \in Session : Caught(s)
  <2>1. PICK s \in Session : Caught(s) BY <1>15
  <2>2. sessions' \in [Session -> Handling] BY <2>1, DoneType DEF Caught
  <2>3. behind' \in SUBSET Session BY <2>1 DEF Caught, TypeOK
  <2>4. faults' \in 0..MaxFaults BY <2>1, FaultsCount DEF Caught
  <2> QED BY <2>1, <2>2, <2>3, <2>4 DEF Caught, TypeOK, node, announces
<1>16. CASE \E s \in Session : Reconnect(s)
  <2>1. PICK s \in Session : Reconnect(s) BY <1>16
  <2> QED BY <1>t, <2>1, EndSessionType DEF Reconnect, TypeOK, node, announces
<1>17. CASE \E p \in Process : Crash(p)
  <2>1. PICK p \in Process : Crash(p) BY <1>17
  <2> DEFINE hit == {s \in Session : ProcessOf(s) = p}
  <2>2. sessions' \in [Session -> Handling] BY <1>t, <2>1, IdleType DEF Crash
  <2>3. entityBest' \in [Session -> 0..MaxDifficulty] BY <2>1 DEF Crash, TypeOK
  <2>4. notified' \in [Process -> SUBSET Height] BY <2>1 DEF Crash, TypeOK
  <2>5. told' \in [Process -> [Channel -> [Height -> Nat]]]
    <3>1. [c \in Channel |-> [h \in Height |-> 0]] \in [Channel -> [Height -> Nat]] OBVIOUS
    <3> QED BY <2>1, <3>1 DEF Crash, TypeOK
  <2>6. cut' \in SUBSET Height BY <2>1, ShareType DEF Crash, TypeOK
  <2>7. faults' \in 0..MaxFaults BY <2>1, FaultsCount DEF Crash
  <2>8. crashes' \in Nat BY <2>1 DEF Crash, TypeOK
  <2>9. behind' \in SUBSET Session BY <2>1 DEF Crash, TypeOK
  <2> QED BY <2>1, <2>2, <2>3, <2>4, <2>5, <2>6, <2>7, <2>8, <2>9 DEF Crash, TypeOK, node
<1>18. CASE UNCHANGED vars
  BY <1>18 DEF TypeOK, vars, node, announces, bests
<1> QED
  BY <1>1, <1>2, <1>3, <1>4, <1>5, <1>6, <1>7, <1>8, <1>9, <1>10, <1>11, <1>12, <1>13,
     <1>14, <1>15, <1>16, <1>17, <1>18 DEF Next, Handle

(* What sessions, processes, tables and counters hold keeps its type; in   *)
(* particular SUBMIT_BLOCK never answers null.                             *)
THEOREM TypeCorrect == Spec => []TypeOK
<1> QED BY InitType, TypeStep, PTL DEF Spec

-----------------------------------------------------------------------------
(* Announcing.                                                             *)

(* A session that found its height recorded found it in the table; what a  *)
(* process remembers was announced.                                        *)
AnnounceInv ==
    /\ \A s \in Session : sessions[s].step \in {"save", "notify"} /\ sessions[s].recorded
                            => sessions[s].share.height \in rows
    /\ \A p \in Process : notified[p] \subseteq announced
    /\ RecordedIsAnnounced

\* A session that does not announce goes on to another step than these two.
LEMMA AnnounceBeside ==
    ASSUME TypeOK, AnnounceInv, NEW s \in Session,
           \A t \in Session \ {s} : sessions'[t] = sessions[t],
           sessions[s].step # "notify", sessions'[s].step \notin {"save", "notify"},
           UNCHANGED <<rows, notified, announced, cut>>
    PROVE  AnnounceInv'
<1>1. \A t \in Session : sessions'[t].step \in {"save", "notify"} => t # s
  OBVIOUS
<1>2. ASSUME NEW h \in rows, NEW t \in Session, Announces(t, h)
      PROVE  Announces(t, h)'
  <2>1. t # s BY <1>2 DEF Announces, At
  <2> QED BY <1>2, <2>1 DEF Announces, At
<1>3. RecordedIsAnnounced' BY <1>2 DEF AnnounceInv, RecordedIsAnnounced
<1>4. (\A t \in Session : sessions[t].step \in {"save", "notify"} /\ sessions[t].recorded
                            => sessions[t].share.height \in rows)'
  BY <1>1 DEF AnnounceInv
<1> QED BY <1>3, <1>4 DEF AnnounceInv

\* What a step on one session makes of the others, and of this one.
LEMMA Others ==
    ASSUME TypeOK, NEW s \in Session,
           \/ \E step \in Step : Goto(s, step)
           \/ Done(s) \/ EndSession(s) \/ GoOn(s)
           \/ SubmitBlock(s) \/ SubmitError(s) \/ Exists(s)
           \/ \E d \in Difficulty, h \in Height : Submit(s, d, h)
    PROVE  \A t \in Session \ {s} : sessions'[t] = sessions[t]
BY DEF TypeOK, Goto, Done, EndSession, GoOn, SubmitBlock, SubmitError, Exists, Submit

LEMMA GotoFields ==
    ASSUME TypeOK, NEW s \in Session, NEW step \in Step, Goto(s, step)
    PROVE  /\ sessions'[s].step = step
           /\ sessions'[s].share = sessions[s].share
           /\ sessions'[s].recorded = sessions[s].recorded
BY DEF TypeOK, Handling, Goto

LEMMA DoneFields ==
    ASSUME TypeOK, NEW s \in Session, Done(s) \/ EndSession(s)
    PROVE  sessions'[s] = Idle /\ sessions'[s].step = "idle"
<1>1. sessions'[s] = Idle BY DEF TypeOK, Done, EndSession
<1> QED BY <1>1, IdleType

LEMMA GoOnFields ==
    ASSUME TypeOK, NEW s \in Session, GoOn(s)
    PROVE  sessions'[s].step = "credit" /\ sessions'[s].share = sessions[s].share
BY DEF TypeOK, GoOn, Idle

LEMMA AnnounceStep == TypeOK /\ AnnounceInv /\ [Next]_vars => AnnounceInv'
<1> SUFFICES ASSUME TypeOK, AnnounceInv, [Next]_vars PROVE AnnounceInv' OBVIOUS
<1>1. CASE NodeBlock
  BY <1>1 DEF NodeBlock, announces, AnnounceInv, RecordedIsAnnounced, Announces, At
<1>2. CASE \E s \in Session, d \in Difficulty, h \in Height : Submit(s, d, h)
  <2>1. PICK s \in Session, d \in Difficulty, h \in Height : Submit(s, d, h) BY <1>2
  <2>2. sessions'[s].step = "judge" /\ sessions[s].step = "idle"
    BY <2>1 DEF Submit, TypeOK, Idle
  <2> QED BY <2>1, <2>2, Others, AnnounceBeside DEF Submit, announces
<1>3. CASE \E s \in Session : Judge(s) \/ Answered(s) \/ Credit(s) \/ StoreBest(s)
  <2>1. PICK s \in Session : Judge(s) \/ Answered(s) \/ Credit(s) \/ StoreBest(s) BY <1>3
  <2>2. sessions[s].step \in {"judge", "answer", "credit", "best"}
    BY <2>1 DEF Judge, Answered, Credit, StoreBest, At
  <2>3. Done(s) \/ \E step \in Step \ {"save", "notify"} : Goto(s, step)
    <3>1. {"answer", "submit", "credit", "best", "address"} \subseteq Step \ {"save", "notify"}
      BY DEF Step
    <3>2. NextStep(sessions[s].share) \in {"submit", "credit"} BY DEF NextStep
    <3> QED BY <2>1, <3>1, <3>2 DEF Judge, Answered, Credit, StoreBest
  <2>4. sessions'[s].step \notin {"save", "notify"} BY <2>3, GotoFields, DoneFields
  <2>5. UNCHANGED <<rows, notified, announced, cut>>
    BY <2>1 DEF Judge, Answered, Credit, StoreBest, announces
  <2>6. \A t \in Session \ {s} : sessions'[t] = sessions[t] BY <2>3, Others
  <2> QED BY <2>2, <2>4, <2>5, <2>6, AnnounceBeside
<1>4. CASE \E s \in Session : \/ AnswerFails(s) \/ Throws(s) \/ Reconnect(s)
                              \/ Caught(s) \/ StoreAddressBest(s)
  <2>1. PICK s \in Session : \/ AnswerFails(s) \/ Throws(s) \/ Reconnect(s)
                             \/ Caught(s) \/ StoreAddressBest(s)
    BY <1>4
  <2>2. sessions[s].step # "notify"
    BY <2>1 DEF AnswerFails, Throws, Reconnect, Caught, StoreAddressBest, At
  <2>3. Done(s) \/ EndSession(s)
    BY <2>1 DEF AnswerFails, Throws, Reconnect, Caught, StoreAddressBest
  <2>4. UNCHANGED <<rows, notified, announced, cut>>
    BY <2>1 DEF AnswerFails, Throws, Reconnect, Caught, StoreAddressBest, announces
  <2> QED BY <2>2, <2>3, <2>4, DoneFields, Others, AnnounceBeside
<1>5. CASE \E s \in Session : SubmitBlock(s) \/ SubmitError(s)
  <2>1. PICK s \in Session : SubmitBlock(s) \/ SubmitError(s) BY <1>5
  <2>2. sessions[s].step = "submit" /\ sessions'[s].step = "exists"
    BY <2>1 DEF SubmitBlock, SubmitError, At, TypeOK, Handling
  <2>3. UNCHANGED <<rows, notified, announced, cut>>
    BY <2>1 DEF SubmitBlock, SubmitError, announces
  <2> QED BY <2>1, <2>2, <2>3, Others, AnnounceBeside
<1>6. CASE \E s \in Session : Exists(s)
  <2>1. PICK s \in Session : Exists(s) BY <1>6
  <2>2. sessions[s].step = "exists" /\ sessions'[s].step = "save"
         /\ sessions'[s].share = sessions[s].share
         /\ sessions'[s].recorded = (sessions[s].share.height \in rows)
    BY <2>1 DEF Exists, At, TypeOK, Handling
  <2>3. \A t \in Session \ {s} : sessions'[t] = sessions[t] BY <2>1, Others
  <2>4. UNCHANGED <<rows, notified, announced, cut>> BY <2>1 DEF Exists, announces
  <2>5. ASSUME NEW h \in rows, NEW t \in Session, Announces(t, h)
        PROVE  Announces(t, h)'
    BY <2>2, <2>3, <2>5 DEF Announces, At
  <2>6. RecordedIsAnnounced' BY <2>4, <2>5 DEF AnnounceInv, RecordedIsAnnounced
  <2>7. (\A t \in Session : sessions[t].step \in {"save", "notify"} /\ sessions[t].recorded
                              => sessions[t].share.height \in rows)'
    BY <2>2, <2>3, <2>4 DEF AnnounceInv
  <2> QED BY <2>4, <2>6, <2>7 DEF AnnounceInv
<1>7. CASE \E s \in Session : Save(s)
  <2>1. PICK s \in Session : Save(s) BY <1>7
  <2> DEFINE height == sessions[s].share.height
  <2>2. Goto(s, "notify") /\ "notify" \in Step BY <2>1 DEF Save, Step
  <2>3. sessions[s].step = "save" /\ sessions'[s].step = "notify"
         /\ sessions'[s].share = sessions[s].share
         /\ sessions'[s].recorded = sessions[s].recorded
    BY <2>1, <2>2, GotoFields DEF Save, At
  <2>4. \A t \in Session \ {s} : sessions'[t] = sessions[t] BY <2>2, Others
  <2>5. rows' = rows \union {height} /\ UNCHANGED <<notified, announced, cut>>
    BY <2>1 DEF Save, announces
  <2>6. ASSUME NEW h \in rows, NEW t \in Session, Announces(t, h)
        PROVE  Announces(t, h)'
    BY <2>3, <2>4, <2>6 DEF Announces, At
  <2>7. ASSUME NEW h \in rows', h \notin rows PROVE Announces(s, h)'
    <3>1. h = height BY <2>5, <2>7
    <3>2. ~sessions[s].recorded BY <2>3, <2>7, <3>1 DEF AnnounceInv
    <3> QED BY <2>3, <3>1, <3>2 DEF Announces, At
  <2>8. RecordedIsAnnounced'
    BY <2>5, <2>6, <2>7 DEF AnnounceInv, RecordedIsAnnounced
  <2>9. (\A t \in Session : sessions[t].step \in {"save", "notify"} /\ sessions[t].recorded
                              => sessions[t].share.height \in rows)'
    BY <2>3, <2>4, <2>5 DEF AnnounceInv
  <2> QED BY <2>5, <2>8, <2>9 DEF AnnounceInv
<1>8. CASE \E s \in Session : AlreadyNotified(s)
  <2>1. PICK s \in Session : AlreadyNotified(s) BY <1>8
  <2>2. GoOn(s) BY <2>1 DEF AlreadyNotified
  <2>3. sessions'[s].step = "credit" /\ \A t \in Session \ {s} : sessions'[t] = sessions[t]
    BY <2>2, GoOnFields, Others
  <2>4. UNCHANGED <<rows, notified, announced, cut>> BY <2>1 DEF AlreadyNotified, announces
  <2>5. ASSUME ~sessions[s].recorded PROVE sessions[s].share.height \in announced
    BY <2>1, <2>5, ShareType DEF AlreadyNotified, AnnounceInv
  <2>6. ASSUME NEW h \in rows, h \notin announced, NEW t \in Session, Announces(t, h)
        PROVE  Announces(t, h)'
    <3>1. t # s BY <2>5, <2>6 DEF Announces
    <3> QED BY <2>3, <2>6, <3>1 DEF Announces, At
  <2>7. RecordedIsAnnounced' BY <2>4, <2>6 DEF AnnounceInv, RecordedIsAnnounced
  <2>8. (\A t \in Session : sessions[t].step \in {"save", "notify"} /\ sessions[t].recorded
                              => sessions[t].share.height \in rows)'
    BY <2>3, <2>4 DEF AnnounceInv
  <2> QED BY <2>4, <2>7, <2>8 DEF AnnounceInv
<1>9. CASE \E s \in Session : Notify(s)
  <2>1. PICK s \in Session : Notify(s) BY <1>9
  <2> DEFINE height == sessions[s].share.height
  <2>2. Goto(s, "telegram") /\ "telegram" \in Step BY <2>1 DEF Notify, Step
  <2>3. sessions'[s].step = "telegram" /\ \A t \in Session \ {s} : sessions'[t] = sessions[t]
    BY <2>2, GotoFields, Others
  <2>4. announced' = announced \union {height} /\ UNCHANGED <<rows, cut>>
    BY <2>1 DEF Notify
  <2>5. \A p \in Process : notified'[p] \subseteq announced'
    BY <2>1, <2>4, ShareType DEF Notify, Remembered, AnnounceInv, TypeOK
  <2>6. ASSUME NEW h \in rows, h # height, NEW t \in Session, Announces(t, h)
        PROVE  Announces(t, h)'
    <3>1. t # s BY <2>6 DEF Announces
    <3> QED BY <2>3, <2>6, <3>1 DEF Announces, At
  <2>7. RecordedIsAnnounced' BY <2>4, <2>6 DEF AnnounceInv, RecordedIsAnnounced
  <2>8. (\A t \in Session : sessions[t].step \in {"save", "notify"} /\ sessions[t].recorded
                              => sessions[t].share.height \in rows)'
    BY <2>3, <2>4 DEF AnnounceInv
  <2> QED BY <2>5, <2>7, <2>8 DEF AnnounceInv
<1>10. CASE \E s \in Session : NotifyTelegram(s)
  <2>1. PICK s \in Session : NotifyTelegram(s) BY <1>10
  <2>2. sessions[s].step = "telegram" /\ GoOn(s) BY <2>1 DEF NotifyTelegram, At
  <2> QED BY <2>1, <2>2, GoOnFields, Others, AnnounceBeside DEF NotifyTelegram
<1>11. CASE \E p \in Process : Crash(p)
  <2>1. PICK p \in Process : Crash(p) BY <1>11
  <2> DEFINE hit == {s \in Session : ProcessOf(s) = p}
  <2>2. \A t \in Session : sessions'[t] = IF t \in hit THEN Idle ELSE sessions[t]
    BY <2>1 DEF Crash
  <2>3. UNCHANGED <<rows, announced>> /\ notified' = [notified EXCEPT ![p] = {}]
         /\ cut' = cut \union {sessions[s].share.height : s \in {t \in hit : At(t, "notify")}}
    BY <2>1 DEF Crash
  <2>4. ASSUME NEW h \in rows, h \notin cut', NEW t \in Session, Announces(t, h)
        PROVE  Announces(t, h)'
    <3>1. t \notin hit BY <2>3, <2>4 DEF Announces
    <3> QED BY <2>2, <2>4, <3>1 DEF Announces, At
  <2>5. RecordedIsAnnounced' BY <2>3, <2>4 DEF AnnounceInv, RecordedIsAnnounced
  <2>6. (\A t \in Session : sessions[t].step \in {"save", "notify"} /\ sessions[t].recorded
                              => sessions[t].share.height \in rows)'
    BY <2>2, <2>3, IdleType DEF AnnounceInv
  <2>7. \A q \in Process : notified'[q] \subseteq announced'
    BY <2>3 DEF AnnounceInv, TypeOK
  <2> QED BY <2>5, <2>6, <2>7 DEF AnnounceInv
<1>12. CASE UNCHANGED vars
  BY <1>12 DEF vars, announces, AnnounceInv, RecordedIsAnnounced, Announces, At
<1> QED
  BY <1>1, <1>2, <1>3, <1>4, <1>5, <1>6, <1>7, <1>8, <1>9, <1>10, <1>11, <1>12
     DEF Next, Handle

(* A recorded block is announced by one of those who found it, unless a    *)
(* crash came between: whoever leaves it to another found it in the table, *)
(* and what is in the table was announced or is about to be.               *)
THEOREM RecordedAnnounced == Spec => []RecordedIsAnnounced
<1>1. Init => AnnounceInv
  BY DEF Init, AnnounceInv, RecordedIsAnnounced, Idle
<1>2. AnnounceInv => RecordedIsAnnounced BY DEF AnnounceInv
<1> QED BY <1>1, <1>2, AnnounceStep, TypeCorrect, PTL DEF Spec

-----------------------------------------------------------------------------
(* Telling.                                                                *)

(* What a channel of a process was told, the process remembers; the        *)
(* session that is about to write to Telegram is the only one that is, and *)
(* the first for its height.                                               *)
ToldInv ==
    /\ \A p \in Process, c \in Channel, h \in Height :
         told[p][c][h] <= 1 /\ (told[p][c][h] # 0 => h \in notified[p])
    /\ \A s \in Session : At(s, "telegram") =>
         /\ sessions[s].share.height \in notified[ProcessOf(s)]
         /\ told[ProcessOf(s)]["telegram"][sessions[s].share.height] = 0
         /\ \A t \in Session : At(t, "telegram") /\ ProcessOf(t) = ProcessOf(s)
                /\ sessions[t].share.height = sessions[s].share.height => t = s

\* Steps that tell nobody, of sessions that were not about to.
LEMMA ToldBeside ==
    ASSUME TypeOK, ToldInv, UNCHANGED <<told, notified>>,
           \A t \in Session : sessions'[t] = sessions[t] \/ ~At(t, "telegram")'
    PROVE  ToldInv'
<1>1. \A t \in Session : At(t, "telegram")' => At(t, "telegram") /\ sessions'[t] = sessions[t]
  BY DEF At
<1> QED BY <1>1 DEF ToldInv

LEMMA ToldStep == TypeOK /\ ToldInv /\ [Next]_vars => ToldInv'
<1> SUFFICES ASSUME TypeOK, ToldInv, [Next]_vars PROVE ToldInv' OBVIOUS
<1>1. CASE NodeBlock
  BY <1>1, ToldBeside DEF NodeBlock, announces
<1>2. CASE \E s \in Session, d \in Difficulty, h \in Height : Submit(s, d, h)
  <2>1. PICK s \in Session, d \in Difficulty, h \in Height : Submit(s, d, h) BY <1>2
  <2>2. sessions'[s].step = "judge" BY <2>1 DEF Submit, TypeOK, Idle
  <2> QED BY <2>1, <2>2, Others, ToldBeside DEF Submit, announces, At
<1>3. CASE \E s \in Session : Judge(s) \/ Answered(s) \/ Credit(s) \/ StoreBest(s) \/ Save(s)
  <2>1. PICK s \in Session : Judge(s) \/ Answered(s) \/ Credit(s) \/ StoreBest(s) \/ Save(s)
    BY <1>3
  <2>2. Done(s) \/ \E step \in Step \ {"telegram"} : Goto(s, step)
    <3>1. {"answer", "submit", "credit", "best", "address", "notify"} \subseteq Step \ {"telegram"}
      BY DEF Step
    <3>2. NextStep(sessions[s].share) \in {"submit", "credit"} BY DEF NextStep
    <3> QED BY <2>1, <3>1, <3>2 DEF Judge, Answered, Credit, StoreBest, Save
  <2>3. sessions'[s].step # "telegram" BY <2>2, GotoFields, DoneFields
  <2>4. UNCHANGED <<told, notified>>
    BY <2>1 DEF Judge, Answered, Credit, StoreBest, Save, announces
  <2>5. \A t \in Session \ {s} : sessions'[t] = sessions[t] BY <2>2, Others
  <2> QED BY <2>3, <2>4, <2>5, ToldBeside DEF At
<1>4. CASE \E s \in Session : \/ AnswerFails(s) \/ Throws(s) \/ Reconnect(s)
                              \/ Caught(s) \/ StoreAddressBest(s)
  <2>1. PICK s \in Session : \/ AnswerFails(s) \/ Throws(s) \/ Reconnect(s)
                             \/ Caught(s) \/ StoreAddressBest(s)
    BY <1>4
  <2>2. (Done(s) \/ EndSession(s)) /\ UNCHANGED <<told, notified>>
    BY <2>1 DEF AnswerFails, Throws, Reconnect, Caught, StoreAddressBest, announces
  <2> QED BY <2>2, DoneFields, Others, ToldBeside DEF At
<1>5. CASE \E s \in Session : SubmitBlock(s) \/ SubmitError(s) \/ Exists(s)
  <2>1. PICK s \in Session : SubmitBlock(s) \/ SubmitError(s) \/ Exists(s) BY <1>5
  <2>2. sessions'[s].step \in {"exists", "save"}
    BY <2>1 DEF SubmitBlock, SubmitError, Exists, TypeOK, Handling
  <2>3. UNCHANGED <<told, notified>> BY <2>1 DEF SubmitBlock, SubmitError, Exists, announces
  <2> QED BY <2>1, <2>2, <2>3, Others, ToldBeside DEF At
<1>6. CASE \E s \in Session : AlreadyNotified(s)
  <2>1. PICK s \in Session : AlreadyNotified(s) BY <1>6
  <2>2. GoOn(s) /\ UNCHANGED <<told, notified>> BY <2>1 DEF AlreadyNotified, announces
  <2> QED BY <2>2, GoOnFields, Others, ToldBeside DEF At
<1>7. CASE \E s \in Session : Notify(s)
  <2>1. PICK s \in Session : Notify(s) BY <1>7
  <2> DEFINE height == sessions[s].share.height
             proc == ProcessOf(s)
  <2>2. height \in Height /\ proc \in Process BY ShareType
  <2>3. Goto(s, "telegram") /\ "telegram" \in Step BY <2>1 DEF Notify, Step
  <2>4. /\ sessions'[s].step = "telegram" /\ sessions'[s].share = sessions[s].share
        /\ \A t \in Session \ {s} : sessions'[t] = sessions[t]
    BY <2>3, GotoFields, Others
  <2>5. height \notin notified[proc] /\ notified' = [notified EXCEPT ![proc] = @ \union {height}]
    BY <2>1 DEF Notify, Remembered
  <2>6. notified'[proc] = notified[proc] \union {height}
         /\ \A p \in Process \ {proc} : notified'[p] = notified[p]
    BY <2>2, <2>5 DEF TypeOK
  <2>7. \A p \in Process, c \in Channel, h \in Height :
          told'[p][c][h] = IF p = proc /\ c = "discord" /\ h = height /\ SendsDiscord(proc)
                             THEN told[p][c][h] + 1 ELSE told[p][c][h]
    <3>1. CASE SendsDiscord(proc)
      <4>1. told' = [told EXCEPT ![proc]["discord"][height] = @ + 1]
        BY <2>1, <3>1 DEF Notify, Tell
      <4> QED BY <2>2, <3>1, <4>1 DEF TypeOK, Channel
    <3>2. CASE ~SendsDiscord(proc)
      BY <2>1, <3>2 DEF Notify
    <3> QED BY <3>1, <3>2
  <2>8. \A c \in Channel : told[proc][c][height] = 0
    BY <2>2, <2>5 DEF ToldInv
  <2>9. ASSUME NEW p \in Process, NEW c \in Channel, NEW h \in Height
        PROVE  told'[p][c][h] <= 1 /\ (told'[p][c][h] # 0 => h \in notified'[p])
    <3>1. told[p][c][h] <= 1 /\ (told[p][c][h] # 0 => h \in notified[p]) BY DEF ToldInv
    <3>2. CASE p = proc /\ c = "discord" /\ h = height /\ SendsDiscord(proc)
      BY <2>6, <2>7, <2>8, <3>2
    <3>3. CASE ~(p = proc /\ c = "discord" /\ h = height /\ SendsDiscord(proc))
      <4>1. told'[p][c][h] = told[p][c][h] BY <2>7, <3>3
      <4>2. notified[p] \subseteq notified'[p] BY <2>6
      <4> QED BY <3>1, <4>1, <4>2
    <3> QED BY <3>2, <3>3
  <2>10. ASSUME NEW t \in Session, At(t, "telegram")'
         PROVE  /\ sessions'[t].share.height \in notified'[ProcessOf(t)]
                /\ told'[ProcessOf(t)]["telegram"][sessions'[t].share.height] = 0
                /\ t # s => ~(ProcessOf(t) = proc /\ sessions'[t].share.height = height)
    <3>1. ProcessOf(t) \in Process /\ sessions[t].share.height \in Height BY ShareType
    <3>2. sessions'[t].share = sessions[t].share BY <2>4
    <3>3. told'[ProcessOf(t)]["telegram"][sessions[t].share.height]
            = told[ProcessOf(t)]["telegram"][sessions[t].share.height]
      BY <2>7, <3>1 DEF Channel
    <3>4. CASE t = s BY <2>6, <2>8, <3>2, <3>3, <3>4 DEF Channel
    <3>5. CASE t # s
      <4>1. At(t, "telegram") BY <2>4, <2>10, <3>5 DEF At
      <4>2. sessions[t].share.height \in notified[ProcessOf(t)]
             /\ told[ProcessOf(t)]["telegram"][sessions[t].share.height] = 0
        BY <4>1 DEF ToldInv
      <4>3. sessions[t].share.height \in notified'[ProcessOf(t)] BY <2>6, <3>1, <4>2
      <4> QED BY <2>5, <3>2, <3>3, <4>2, <4>3
    <3> QED BY <3>4, <3>5
  <2>11. ASSUME NEW t \in Session, NEW u \in Session, At(t, "telegram")', At(u, "telegram")',
                ProcessOf(u) = ProcessOf(t),
                sessions'[u].share.height = sessions'[t].share.height
         PROVE  u = t
    <3>1. CASE t = s \/ u = s BY <2>4, <2>10, <2>11, <3>1
    <3>2. CASE t # s /\ u # s BY <2>4, <2>11, <3>2 DEF ToldInv, At
    <3> QED BY <3>1, <3>2
  <2> QED BY <2>9, <2>10, <2>11 DEF ToldInv
<1>8. CASE \E s \in Session : NotifyTelegram(s)
  <2>1. PICK s \in Session : NotifyTelegram(s) BY <1>8
  <2> DEFINE height == sessions[s].share.height
             proc == ProcessOf(s)
  <2>2. height \in Height /\ proc \in Process BY ShareType
  <2>3. GoOn(s) /\ At(s, "telegram") BY <2>1 DEF NotifyTelegram
  <2>4. sessions'[s].step = "credit" /\ \A t \in Session \ {s} : sessions'[t] = sessions[t]
    BY <2>3, GoOnFields, Others
  <2>5. told' = [told EXCEPT ![proc]["telegram"][height] = @ + 1] /\ notified' = notified
    BY <2>1 DEF NotifyTelegram, Tell
  <2>6. \A p \in Process, c \in Channel, h \in Height :
          told'[p][c][h] = IF p = proc /\ c = "telegram" /\ h = height
                             THEN told[p][c][h] + 1 ELSE told[p][c][h]
    BY <2>2, <2>5 DEF TypeOK, Channel
  <2>7. told[proc]["telegram"][height] = 0 /\ height \in notified[proc]
    BY <2>3 DEF ToldInv
  <2>8. ASSUME NEW p \in Process, NEW c \in Channel, NEW h \in Height
        PROVE  told'[p][c][h] <= 1 /\ (told'[p][c][h] # 0 => h \in notified'[p])
    <3>1. told[p][c][h] <= 1 /\ (told[p][c][h] # 0 => h \in notified[p]) BY DEF ToldInv
    <3> QED BY <2>5, <2>6, <2>7, <3>1
  <2>9. ASSUME NEW t \in Session, At(t, "telegram")'
        PROVE  /\ t # s /\ At(t, "telegram") /\ sessions'[t] = sessions[t]
               /\ sessions[t].share.height \in notified'[ProcessOf(t)]
               /\ told'[ProcessOf(t)]["telegram"][sessions[t].share.height] = 0
    <3>1. t # s BY <2>4, <2>9 DEF At
    <3>2. At(t, "telegram") /\ sessions'[t] = sessions[t] BY <2>4, <2>9, <3>1 DEF At
    <3>3. ~(ProcessOf(t) = proc /\ sessions[t].share.height = height)
      BY <2>3, <3>1, <3>2 DEF ToldInv
    <3>4. told'[ProcessOf(t)]["telegram"][sessions[t].share.height]
            = told[ProcessOf(t)]["telegram"][sessions[t].share.height]
      BY <2>6, <3>3, ShareType DEF Channel
    <3> QED BY <2>5, <3>1, <3>2, <3>4 DEF ToldInv
  <2>10. ASSUME NEW t \in Session, NEW u \in Session, At(t, "telegram")', At(u, "telegram")',
                ProcessOf(u) = ProcessOf(t),
                sessions'[u].share.height = sessions'[t].share.height
         PROVE  u = t
    BY <2>9, <2>10 DEF ToldInv
  <2> QED BY <2>8, <2>9, <2>10 DEF ToldInv
<1>9. CASE \E p \in Process : Crash(p)
  <2>1. PICK p \in Process : Crash(p) BY <1>9
  <2>2. \A t \in Session : sessions'[t] = IF ProcessOf(t) = p THEN Idle ELSE sessions[t]
    BY <2>1 DEF Crash
  <2>3. \A t \in Session : At(t, "telegram")' =>
          At(t, "telegram") /\ ProcessOf(t) # p /\ sessions'[t] = sessions[t]
    BY <2>2, IdleType DEF At
  <2>4. \A q \in Process \ {p} : told'[q] = told[q] /\ notified'[q] = notified[q]
    BY <2>1 DEF Crash, TypeOK
  <2>5. \A c \in Channel, h \in Height : told'[p][c][h] = 0
    BY <2>1 DEF Crash, TypeOK
  <2>6. ASSUME NEW q \in Process, NEW c \in Channel, NEW h \in Height
        PROVE  told'[q][c][h] <= 1 /\ (told'[q][c][h] # 0 => h \in notified'[q])
    BY <2>4, <2>5 DEF ToldInv
  <2>7. \A t \in Session : ProcessOf(t) \in Process BY ShareType
  <2> QED BY <2>3, <2>4, <2>6, <2>7 DEF ToldInv
<1>10. CASE UNCHANGED vars
  BY <1>10, ToldBeside DEF vars, announces
<1> QED
  BY <1>1, <1>2, <1>3, <1>4, <1>5, <1>6, <1>7, <1>8, <1>9, <1>10 DEF Next, Handle

(* However many sessions of a process find a height at the same time, each *)
(* channel is told of it once: the process remembers it before it awaits.  *)
THEOREM ToldOnlyOnce == Spec => []ToldOnce
<1>1. Init => ToldInv
  BY IdleType DEF Init, ToldInv, At
<1>2. ToldInv => ToldOnce BY DEF ToldInv, ToldOnce
<1> QED BY <1>1, <1>2, ToldStep, TypeCorrect, PTL DEF Spec

-----------------------------------------------------------------------------
(* The best difficulties.                                                  *)

(* A session whose address is to be brought up to date knows its own best  *)
(* already; what was alerted is not above the address's best.              *)
BestInv ==
    /\ \A s \in Session : At(s, "address") => entityBest[s] = sessions[s].share.difficulty
    /\ AddressHasBest
    /\ \A d \in Difficulty : alerted[d] <= 1 /\ (alerted[d] # 0 => d <= best)

\* Steps that change no best, of sessions that are not about to.
LEMMA BestBeside ==
    ASSUME TypeOK, BestInv, UNCHANGED <<best, entityBest, alerted, behind>>,
           \A t \in Session : \/ sessions'[t] = sessions[t]
                              \/ ~At(t, "address") /\ ~At(t, "address")'
    PROVE  BestInv'
<1>1. ASSUME NEW t \in Session
      PROVE  /\ At(t, "address")' => entityBest'[t] = sessions'[t].share.difficulty
             /\ entityBest'[t] <= best' \/ At(t, "address")' \/ t \in behind'
  BY DEF BestInv, AddressHasBest, At
<1> QED BY <1>1 DEF BestInv, AddressHasBest

\* A session that ends begins with no best; the others keep theirs.
LEMMA BestOfEnded ==
    ASSUME TypeOK, BestInv, NEW s \in Session, EndSession(s)
    PROVE  BestInv'
<1>1. sessions'[s].step = "idle" /\ \A t \in Session \ {s} : sessions'[t] = sessions[t]
  BY DoneFields, Others
<1>2. /\ entityBest'[s] = 0 /\ \A t \in Session \ {s} : entityBest'[t] = entityBest[t]
      /\ behind' = behind \ {s} /\ UNCHANGED <<best, alerted>>
  BY DEF EndSession, TypeOK
<1>3. best \in 0..MaxDifficulty BY DEF TypeOK
<1>4. ASSUME NEW t \in Session
      PROVE  /\ At(t, "address")' => entityBest'[t] = sessions'[t].share.difficulty
             /\ entityBest'[t] <= best' \/ At(t, "address")' \/ t \in behind'
  <2>1. CASE t = s BY <1>1, <1>2, <1>3, <2>1 DEF At
  <2>2. CASE t # s BY <1>1, <1>2, <2>2 DEF BestInv, AddressHasBest, At
  <2> QED BY <2>1, <2>2
<1> QED BY <1>2, <1>4 DEF BestInv, AddressHasBest

LEMMA BestStep == TypeOK /\ BestInv /\ [Next]_vars => BestInv'
<1> SUFFICES ASSUME TypeOK, BestInv, [Next]_vars PROVE BestInv' OBVIOUS
<1>1. CASE NodeBlock
  BY <1>1, BestBeside DEF NodeBlock, bests
<1>2. CASE \E s \in Session, d \in Difficulty, h \in Height : Submit(s, d, h)
  <2>1. PICK s \in Session, d \in Difficulty, h \in Height : Submit(s, d, h) BY <1>2
  <2>2. sessions[s].step = "idle" /\ sessions'[s].step = "judge"
    BY <2>1 DEF Submit, TypeOK, Idle
  <2> QED BY <2>1, <2>2, Others, BestBeside DEF Submit, bests, At
<1>3. CASE \E s \in Session : \/ Judge(s) \/ Answered(s) \/ Credit(s) \/ Save(s) \/ Notify(s)
  <2>1. PICK s \in Session : \/ Judge(s) \/ Answered(s) \/ Credit(s) \/ Save(s) \/ Notify(s)
    BY <1>3
  <2>2. Done(s) \/ \E step \in Step \ {"address"} : Goto(s, step)
    <3>1. {"answer", "submit", "credit", "best", "notify", "telegram"} \subseteq Step \ {"address"}
      BY DEF Step
    <3>2. NextStep(sessions[s].share) \in {"submit", "credit"} BY DEF NextStep
    <3> QED BY <2>1, <3>1, <3>2 DEF Judge, Answered, Credit, Save, Notify
  <2>3. sessions'[s].step # "address" BY <2>2, GotoFields, DoneFields
  <2>4. UNCHANGED <<best, entityBest, alerted, behind>>
    BY <2>1 DEF Judge, Answered, Credit, Save, Notify, bests
  <2>5. \A t \in Session \ {s} : sessions'[t] = sessions[t] BY <2>2, Others
  <2>6. ~At(s, "address") BY <2>1 DEF Judge, Answered, Credit, Save, Notify, At
  <2> QED BY <2>3, <2>4, <2>5, <2>6, BestBeside DEF At
<1>4. CASE \E s \in Session : AnswerFails(s) \/ Throws(s) \/ Reconnect(s)
  <2>1. PICK s \in Session : AnswerFails(s) \/ Throws(s) \/ Reconnect(s) BY <1>4
  <2> QED BY <2>1, BestOfEnded DEF AnswerFails, Throws, Reconnect
<1>5. CASE \E s \in Session : SubmitBlock(s) \/ SubmitError(s) \/ Exists(s)
  <2>1. PICK s \in Session : SubmitBlock(s) \/ SubmitError(s) \/ Exists(s) BY <1>5
  <2>2. sessions[s].step \in {"submit", "exists"} /\ sessions'[s].step \in {"exists", "save"}
    BY <2>1 DEF SubmitBlock, SubmitError, Exists, TypeOK, Handling, At
  <2>3. UNCHANGED <<best, entityBest, alerted, behind>>
    BY <2>1 DEF SubmitBlock, SubmitError, Exists, bests
  <2> QED BY <2>1, <2>2, <2>3, Others, BestBeside DEF At
<1>6. CASE \E s \in Session : AlreadyNotified(s) \/ NotifyTelegram(s)
  <2>1. PICK s \in Session : AlreadyNotified(s) \/ NotifyTelegram(s) BY <1>6
  <2>2. GoOn(s) /\ ~At(s, "address") BY <2>1 DEF AlreadyNotified, NotifyTelegram, At
  <2> QED BY <2>2, GoOnFields, GoOnType, Others, BestBeside DEF At
<1>7. CASE \E s \in Session : StoreBest(s)
  <2>1. PICK s \in Session : StoreBest(s) BY <1>7
  <2>2. Goto(s, "address") /\ "address" \in Step BY <2>1 DEF StoreBest, Step
  <2>3. /\ sessions'[s].step = "address" /\ sessions'[s].share = sessions[s].share
        /\ \A t \in Session \ {s} : sessions'[t] = sessions[t]
    BY <2>2, GotoFields, Others
  <2>4. /\ entityBest'[s] = sessions[s].share.difficulty
        /\ \A t \in Session \ {s} : entityBest'[t] = entityBest[t]
        /\ UNCHANGED <<best, alerted, behind>>
    BY <2>1 DEF StoreBest, TypeOK
  <2>5. ASSUME NEW t \in Session
        PROVE  /\ At(t, "address")' => entityBest'[t] = sessions'[t].share.difficulty
               /\ entityBest'[t] <= best' \/ At(t, "address")' \/ t \in behind'
    <3>1. CASE t = s BY <2>3, <2>4, <3>1 DEF At
    <3>2. CASE t # s BY <2>3, <2>4, <3>2 DEF BestInv, AddressHasBest, At
    <3> QED BY <3>1, <3>2
  <2> QED BY <2>4, <2>5 DEF BestInv, AddressHasBest
<1>8. CASE \E s \in Session : StoreAddressBest(s)
  <2>1. PICK s \in Session : StoreAddressBest(s) BY <1>8
  <2> DEFINE d == sessions[s].share.difficulty
  <2>2. Done(s) /\ UNCHANGED <<entityBest, behind>> BY <2>1 DEF StoreAddressBest
  <2>3. sessions'[s].step = "idle" /\ \A t \in Session \ {s} : sessions'[t] = sessions[t]
    BY <2>2, DoneFields, Others
  <2>4. d \in Difficulty /\ d \in Nat /\ best \in Nat /\ \A e \in Difficulty : e \in Nat /\ alerted[e] \in Nat
    <3>1. d \in Difficulty BY ShareType
    <3>2. \A e \in Difficulty : e \in Nat BY DEF Difficulty
    <3>3. best \in Nat BY BoundsAreNaturals DEF TypeOK
    <3>4. \A e \in Difficulty : alerted[e] \in Nat BY DEF TypeOK
    <3> QED BY <3>1, <3>2, <3>3, <3>4
  <2>5. best' = IF best < d THEN d ELSE best
    BY <2>1 DEF StoreAddressBest, Higher
  <2>6. best' \in Nat /\ best <= best' /\ d <= best' BY <2>4, <2>5
  <2>7. entityBest[s] = d BY <2>1 DEF StoreAddressBest, BestInv
  <2>8. ASSUME NEW t \in Session
        PROVE  /\ At(t, "address")' => entityBest'[t] = sessions'[t].share.difficulty
               /\ entityBest'[t] <= best' \/ At(t, "address")' \/ t \in behind'
    <3>1. CASE t = s BY <2>2, <2>3, <2>6, <2>7, <3>1 DEF At
    <3>2. CASE t # s
      <4>1. entityBest[t] \in Nat BY DEF TypeOK
      <4> QED BY <2>2, <2>3, <2>4, <2>6, <3>2, <4>1 DEF BestInv, AddressHasBest, At
    <3> QED BY <3>1, <3>2
  <2>9. ASSUME NEW e \in Difficulty
        PROVE  alerted'[e] <= 1 /\ (alerted'[e] # 0 => e <= best')
    <3>1. alerted[e] <= 1 /\ (alerted[e] # 0 => e <= best) BY DEF BestInv
    <3>2. CASE best < d /\ e = d
      <4>1. alerted[e] = 0 BY <2>4, <3>1, <3>2
      <4>2. alerted'[e] = alerted[e] + 1
        BY <2>1, <2>4, <3>2 DEF StoreAddressBest, Higher, TypeOK
      <4> QED BY <2>6, <3>2, <4>1, <4>2
    <3>3. CASE ~(best < d /\ e = d)
      <4>1. alerted'[e] = alerted[e]
        BY <2>1, <2>4, <3>3 DEF StoreAddressBest, Higher, TypeOK
      <4> QED BY <2>4, <2>6, <3>1, <4>1
    <3> QED BY <3>2, <3>3
  <2> QED BY <2>8, <2>9 DEF BestInv, AddressHasBest
<1>9. CASE \E s \in Session : Caught(s)
  <2>1. PICK s \in Session : Caught(s) BY <1>9
  <2>2. Done(s) /\ UNCHANGED <<best, entityBest, alerted>>
         /\ behind' = IF At(s, "address") THEN behind \union {s} ELSE behind
    BY <2>1 DEF Caught
  <2>3. sessions'[s].step = "idle" /\ \A t \in Session \ {s} : sessions'[t] = sessions[t]
    BY <2>2, DoneFields, Others
  <2>4. ASSUME NEW t \in Session
        PROVE  /\ At(t, "address")' => entityBest'[t] = sessions'[t].share.difficulty
               /\ entityBest'[t] <= best' \/ At(t, "address")' \/ t \in behind'
    <3>1. CASE t = s BY <2>2, <2>3, <3>1 DEF BestInv, AddressHasBest, At
    <3>2. CASE t # s BY <2>2, <2>3, <3>2 DEF BestInv, AddressHasBest, At
    <3> QED BY <3>1, <3>2
  <2> QED BY <2>2, <2>4 DEF BestInv, AddressHasBest
<1>10. CASE \E p \in Process : Crash(p)
  <2>1. PICK p \in Process : Crash(p) BY <1>10
  <2>2. \A t \in Session : ProcessOf(t) = p => sessions'[t] = Idle /\ entityBest'[t] = 0
    BY <2>1 DEF Crash
  <2>3. \A t \in Session : ProcessOf(t) # p =>
          sessions'[t] = sessions[t] /\ entityBest'[t] = entityBest[t] /\ (t \in behind => t \in behind')
    BY <2>1 DEF Crash
  <2>4. UNCHANGED <<best, alerted>> /\ best \in 0..MaxDifficulty BY <2>1 DEF Crash, TypeOK
  <2>5. ASSUME NEW t \in Session
        PROVE  /\ At(t, "address")' => entityBest'[t] = sessions'[t].share.difficulty
               /\ entityBest'[t] <= best' \/ At(t, "address")' \/ t \in behind'
    <3>1. CASE ProcessOf(t) = p BY <2>2, <2>4, <3>1, IdleType DEF At
    <3>2. CASE ProcessOf(t) # p BY <2>3, <2>4, <3>2 DEF BestInv, AddressHasBest, At
    <3> QED BY <3>1, <3>2
  <2> QED BY <2>4, <2>5 DEF BestInv, AddressHasBest
<1>11. CASE UNCHANGED vars
  BY <1>11, BestBeside DEF vars, bests
<1> QED
  BY <1>1, <1>2, <1>3, <1>4, <1>5, <1>6, <1>7, <1>8, <1>9, <1>10, <1>11 DEF Next, Handle

LEMMA BestInvariant == Spec => []BestInv
<1>1. Init => BestInv
  BY IdleType, BoundsAreNaturals DEF Init, BestInv, AddressHasBest, At
<1> QED BY <1>1, BestStep, TypeCorrect, PTL DEF Spec

(* Whatever sessions of whatever processes store at the same time, the     *)
(* address has the best of all whose own update is neither under way nor   *)
(* has failed.                                                             *)
THEOREM AddressKeepsBest == Spec => []AddressHasBest
<1>1. BestInv => AddressHasBest BY DEF BestInv
<1> QED BY <1>1, BestInvariant, PTL

(* No all-time high is alerted twice.                                      *)
THEOREM RecordsAlertedOnce == Spec => []RecordAlertedOnce
<1>1. BestInv => RecordAlertedOnce BY DEF BestInv, RecordAlertedOnce
<1> QED BY <1>1, BestInvariant, PTL

-----------------------------------------------------------------------------
(* Solutions.                                                              *)

(* A solution that its handler gives up without giving it to the node was  *)
(* lost to a crash, to an answer that could not be written, or to an SV1   *)
(* session difficulty above the network's.                                 *)
THEOREM SolutionsAreSubmitted == Spec => FoundIsSubmitted
<1> DEFINE Given(s) == \/ submitted' > submitted
                       \/ crashes' # crashes
                       \/ At(s, "answer") /\ faults' # faults
                       \/ IsV1(s) /\ sessions[s].share.difficulty < Target(s)
<1>1. ASSUME TypeOK, [Next]_vars, NEW s \in Session, Holds(s), ~Holds(s)'
      PROVE  Given(s)
  <2> DEFINE share == sessions[s].share
  <2>1. Solves(share) /\ sessions[s].step \in {"judge", "answer", "submit"} BY <1>1 DEF Holds
  <2>2. share.difficulty \in Nat /\ Target(s) \in Nat /\ IsV1(s) \in BOOLEAN
    BY <1>1, ShareType, ProcessAssumption DEF Difficulty
  <2>3. NextStep(share) = "submit" BY <2>1 DEF NextStep
  <2>4. sessions'[s] # sessions[s] BY <1>1 DEF Holds
  <2>5. \A step \in {"answer", "submit"} : ~Goto(s, step)
    <3> SUFFICES ASSUME NEW step \in {"answer", "submit"}, Goto(s, step) PROVE FALSE OBVIOUS
    <3>1. sessions'[s].step = step /\ sessions'[s].share = share
      BY <1>1, GotoFields DEF Step
    <3> QED BY <1>1, <2>1, <3>1 DEF Holds
  <2>6. CASE Judge(s)
    <3>1. IsV1(s) BY <2>1, <2>3, <2>5, <2>6 DEF Judge
    <3>2. ~(share.difficulty >= Target(s)) BY <2>5, <2>6, <3>1 DEF Judge
    <3> QED BY <2>2, <3>1, <3>2
  <2>7. CASE Answered(s) BY <2>3, <2>5, <2>7 DEF Answered
  <2>8. CASE SubmitBlock(s) \/ SubmitError(s)
    <3>1. submitted' = submitted + 1 BY <2>8 DEF SubmitBlock, SubmitError
    <3>2. submitted \in Nat BY <1>1 DEF TypeOK
    <3> QED BY <3>1, <3>2
  <2>9. CASE AnswerFails(s) \/ Throws(s)
    <3>1. At(s, "answer") BY <2>1, <2>9 DEF AnswerFails, Throws, At
    <3>2. faults' = faults + 1 BY <2>9 DEF AnswerFails, Throws
    <3>3. faults \in 0..MaxFaults BY <1>1 DEF TypeOK
    <3> QED BY <3>1, <3>2, <3>3, BoundsAreNaturals
  <2>10. CASE \E p \in Process : Crash(p)
    <3>1. crashes' = crashes + 1 BY <2>10 DEF Crash
    <3>2. crashes \in Nat BY <1>1 DEF TypeOK
    <3> QED BY <3>1, <3>2
  <2>11. ASSUME NEW t \in Session, t # s, \/ Handle(t) \/ Reconnect(t)
                                          \/ \E d \in Difficulty, h \in Height : Submit(t, d, h)
         PROVE  Given(s)
    BY <1>1, <2>4, <2>11 DEF Handle, Reconnect, Submit, TypeOK, Judge, Answered, AnswerFails, SubmitBlock,
       SubmitError, Exists, Save, AlreadyNotified, Notify, NotifyTelegram, Credit, StoreBest,
       StoreAddressBest, Throws, Caught, Goto, Done, EndSession, GoOn
  <2>12. CASE NodeBlock \/ UNCHANGED vars BY <2>4, <2>12 DEF NodeBlock, vars
  <2>13. ~(\/ Exists(s) \/ Save(s) \/ AlreadyNotified(s) \/ Notify(s) \/ NotifyTelegram(s)
           \/ Credit(s) \/ StoreBest(s) \/ StoreAddressBest(s) \/ Caught(s) \/ Reconnect(s)
           \/ \E d \in Difficulty, h \in Height : Submit(s, d, h))
    BY <2>1 DEF Exists, Save, AlreadyNotified, Notify, NotifyTelegram, Credit, StoreBest,
       StoreAddressBest, Caught, Reconnect, Submit, At
  <2> QED
    BY <1>1, <2>6, <2>7, <2>8, <2>9, <2>10, <2>11, <2>12, <2>13 DEF Next, Handle
<1>2. TypeOK /\ [Next]_vars => [\A s \in Session : Holds(s) /\ ~Holds(s)' => Given(s)]_vars
  BY <1>1
<1> QED BY <1>2, TypeCorrect, PTL DEF Spec, FoundIsSubmitted
=============================================================================
