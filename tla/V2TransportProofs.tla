------------------------- MODULE V2TransportProofs -------------------------
(***************************************************************************)
(* Theorems about V2Transport, for any sizes of chunks and buffers, and    *)
(* any number of frames, writes, pieces and faults: the nonces of what the *)
(* pool writes stay in step, and the frames that come in are handled as    *)
(* FrameChannel says.                                                      *)
(***************************************************************************)
EXTENDS V2Transport, SequenceTheorems, WellFoundedInduction, TLAPS

LEMMA BoundsAreNaturals == MaxWrites \in Nat /\ MaxFaults \in Nat
BY BoundAssumption

-----------------------------------------------------------------------------
(* Nothing is read, and so no frame handled, before the handshake is       *)
(* complete; a handshake that failed ended the session.                    *)
ReadBehindHandshake ==
    /\ reader.feeding \/ frames # <<>> \/ handled # <<>> => handshake = "complete"
    /\ handshake = "failed" => destroyed

(* What was written is act 2 and the frames in the order of their nonces,  *)
(* and no nonce is ahead of it.                                            *)
InStep ==
    /\ \A i \in DOMAIN written : written[i] = i - 1
    /\ handshake \in {"none", "act1"} => written = <<>> /\ nonce = 0
    /\ handshake \in {"act2", "complete"} => Len(written) = nonce + 1

IInv == TypeOK /\ ReadBehindHandshake /\ (GoesOn => InStep)

LEMMA InitIInv == Init => IInv
<1> SUFFICES ASSUME Init PROVE IInv
  OBVIOUS
<1>1. TypeOK
  <2>1. written \in Seq(Nat) /\ flushed \in 0..Len(written) BY DEF Init
  <2>2. nonce \in 0..MaxWrites /\ faults \in 0..MaxFaults BY BoundsAreNaturals DEF Init
  <2>3. waiting \subseteq [task : Task, at : Nat] /\ failing \subseteq Task BY DEF Init
  <2> QED BY <2>1, <2>2, <2>3 DEF Init, TypeOK
<1>2. ReadBehindHandshake BY DEF Init, ReadBehindHandshake, NewReader
<1>3. InStep BY DEF Init, InStep
<1> QED BY <1>1, <1>2, <1>3 DEF IInv

-----------------------------------------------------------------------------
(* Steps that write nothing and settle nothing.                            *)
LEMMA QuietStepKeeps ==
  ASSUME IInv, UNCHANGED <<nonce, written, failing, processEnded, swallowed>>,
         flushed' \in 0..Len(written),
         waiting' \subseteq waiting,
         handshake' = handshake
           \/ (handshake = "none" /\ handshake' = "act1")
           \/ (handshake = "act2" /\ handshake' = "complete"),
         reader'.feeding \/ frames' # <<>> \/ handled' # <<>> => handshake' = "complete",
         destroyed' \in BOOLEAN, destroyed => destroyed',
         closed' \in BOOLEAN, closed => closed',
         faults' \in 0..MaxFaults
  PROVE  IInv'
<1>1. TypeOK'
  <2>1. handshake' \in {"none", "act1", "act2", "complete", "failed"} BY DEF IInv, TypeOK
  <2>2. waiting' \subseteq [task : Task, at : Nat] BY DEF IInv, TypeOK
  <2> QED BY <2>1, <2>2 DEF IInv, TypeOK
<1>2. ReadBehindHandshake' BY DEF IInv, ReadBehindHandshake
<1>3. GoesOn' => InStep'
  <2>1. GoesOn' => GoesOn BY DEF GoesOn, IInv, TypeOK
  <2> QED BY <2>1 DEF IInv, InStep
<1> QED BY <1>1, <1>2, <1>3 DEF IInv

LEMMA FaultBounded == ASSUME IInv, Fault PROVE faults' \in 0..MaxFaults
BY BoundsAreNaturals DEF IInv, TypeOK, Fault

LEMMA ExternalKeeps ==
  ASSUME IInv, \/ \E length \in PayloadLength : MinerSends(length)
               \/ Damage \/ Arrive
  PROVE  IInv'
<1>1. faults' \in 0..MaxFaults
  <2>1. CASE Damage BY <2>1, FaultBounded DEF Damage
  <2>2. CASE Arrive BY <2>2 DEF Arrive, EnqueueInbound, IInv, TypeOK
  <2>3. CASE \E length \in PayloadLength : MinerSends(length)
    BY <2>3 DEF MinerSends, IInv, TypeOK
  <2> QED BY <2>1, <2>2, <2>3
<1>2. UNCHANGED <<handshake, reader, frames, handled, nonce, written, flushed, waiting, failing,
                  destroyed, closed, processEnded, swallowed>>
  BY DEF MinerSends, Damage, Arrive, EnqueueInbound, inboundVars, socketVars, endVars
<1> QED BY <1>1, <1>2, QuietStepKeeps DEF IInv, TypeOK, ReadBehindHandshake

LEMMA FlushKeeps == ASSUME IInv, Flush \/ Resume PROVE IInv'
<1>1. UNCHANGED <<handshake, reader, frames, handled, nonce, written, failing, destroyed, closed,
                  processEnded, swallowed, faults>>
  BY DEF Flush, Resume, Finish, inboundVars, endVars
<1>2. flushed' \in 0..Len(written)
  BY DEF Flush, Resume, Finish, IInv, TypeOK
<1>3. waiting' \subseteq waiting BY DEF Flush, Resume, Finish
<1> QED BY <1>1, <1>2, <1>3, QuietStepKeeps DEF IInv, TypeOK, ReadBehindHandshake

LEMMA InboundKeeps ==
  ASSUME IInv, DropData \/ HandleHandshakeData \/ CompleteHandshake \/ HandleEncryptedData
  PROVE  IInv'
<1>1. UNCHANGED <<nonce, written, flushed, waiting, failing, destroyed, closed, processEnded,
                  swallowed, faults>>
  BY DEF DropData, HandleHandshakeData, CompleteHandshake, HandleEncryptedData, socketVars, endVars
<1>2. \/ UNCHANGED <<handshake, reader, frames, handled>>
      \/ /\ handshake = "none" /\ UNCHANGED <<reader, frames, handled>>
         /\ handshake' \in {"none", "act1"}
      \/ handshake \in {"act2", "complete"} /\ handshake' = "complete"
  BY DEF DropData, HandleHandshakeData, CompleteHandshake, HandleEncryptedData
<1>3. \/ handshake' = handshake
      \/ handshake = "none" /\ handshake' = "act1"
      \/ handshake = "act2" /\ handshake' = "complete"
  BY <1>2
<1>4. reader'.feeding \/ frames' # <<>> \/ handled' # <<>> => handshake' = "complete"
  BY <1>2 DEF IInv, ReadBehindHandshake
<1>5. destroyed \in BOOLEAN /\ closed \in BOOLEAN /\ flushed \in 0..Len(written) /\ faults \in 0..MaxFaults
  BY DEF IInv, TypeOK
<1> QED BY <1>1, <1>3, <1>4, <1>5, QuietStepKeeps

LEMMA FeedLoopKeeps == ASSUME IInv, FeedLoop PROVE IInv'
<1>1. handshake = "complete" BY DEF FeedLoop, IInv, ReadBehindHandshake
<1>2. destroyed' \in BOOLEAN /\ (destroyed => destroyed')
  <2>1. destroyed \in BOOLEAN BY DEF IInv, TypeOK
  <2>2. CASE Read \/ FeedReturns
    <3>1. destroyed' = destroyed BY <2>2 DEF Read, FeedReturns
    <3> QED BY <2>1, <3>1
  <2>3. CASE ReadFails
    <3>1. destroyed' = TRUE BY <2>3 DEF ReadFails
    <3> QED BY <3>1
  <2> QED BY <2>2, <2>3 DEF FeedLoop
<1>3. UNCHANGED <<handshake, nonce, written, flushed, waiting, failing, closed, processEnded,
                  swallowed, faults>>
  BY DEF FeedLoop, socketVars
<1>4. closed \in BOOLEAN /\ flushed \in 0..Len(written) /\ faults \in 0..MaxFaults
  BY DEF IInv, TypeOK
<1> QED BY <1>1, <1>2, <1>3, <1>4, QuietStepKeeps

-----------------------------------------------------------------------------
(* Steps that write.                                                       *)

(* What is written is the nonce that is next, or the task fails, or the    *)
(* session has ended.                                                      *)
LEMMA WriteRawOutcome ==
  ASSUME IInv, NEW task \in Task, NEW item \in Nat, WriteRaw(task, item)
  PROVE  /\ written' \in Seq(Nat) /\ Len(written) <= Len(written')
         /\ waiting' \subseteq [task : Task, at : Nat]
         /\ failing \subseteq failing' /\ failing' \subseteq Task
         /\ GoesOn /\ failing' = {} => written' = Append(written, item)
<1>1. CASE destroyed \/ closed
  <2>1. UNCHANGED <<written, waiting, failing>> BY <1>1 DEF WriteRaw
  <2>2. ~GoesOn BY <1>1 DEF GoesOn
  <2> QED BY <2>1, <2>2 DEF IInv, TypeOK
<1>2. CASE ~(destroyed \/ closed) /\ Buffered + 1 > BufferLimit
  <2>1. failing' = failing \union {task} /\ UNCHANGED <<written, waiting>>
    BY <1>2 DEF WriteRaw
  <2>2. failing' # {} BY <2>1
  <2> QED BY <2>1, <2>2 DEF IInv, TypeOK
<1>3. CASE ~(destroyed \/ closed) /\ ~(Buffered + 1 > BufferLimit)
  <2>1. /\ written' = Append(written, item) /\ failing' = failing
        /\ waiting' = waiting \union {[task |-> task, at |-> Len(written) + 1]}
    BY <1>3 DEF WriteRaw
  <2>2. written \in Seq(Nat) /\ Len(written) \in Nat BY DEF IInv, TypeOK
  <2>3. [task |-> task, at |-> Len(written) + 1] \in [task : Task, at : Nat] BY <2>2
  <2> QED BY <2>1, <2>2, <2>3 DEF IInv, TypeOK
<1> QED BY <1>1, <1>2, <1>3

LEMMA SendFrameKeeps ==
  ASSUME IInv, handshake = "complete", NEW task \in Task, SendFrame(task),
         UNCHANGED <<handshake, flushed, destroyed, closed, processEnded, swallowed, faults>>
  PROVE  IInv'
<1>1. nonce \in 0..MaxWrites /\ nonce' = nonce + 1 /\ nonce' \in 0..MaxWrites
  BY BoundsAreNaturals DEF SendFrame, IInv, TypeOK
<1>2. WriteRaw(task, nonce + 1) /\ nonce + 1 \in Nat
  BY <1>1 DEF SendFrame
<1>3. /\ written' \in Seq(Nat) /\ Len(written) <= Len(written')
      /\ waiting' \subseteq [task : Task, at : Nat]
      /\ failing \subseteq failing' /\ failing' \subseteq Task
      /\ GoesOn /\ failing' = {} => written' = Append(written, nonce + 1)
  BY <1>2, WriteRawOutcome
<1>4. TypeOK'
  <2>1. flushed' \in 0..Len(written') BY <1>3 DEF IInv, TypeOK
  <2> QED BY <1>1, <1>3, <2>1 DEF IInv, TypeOK
<1>5. ReadBehindHandshake' BY DEF ReadBehindHandshake
<1>6. ASSUME GoesOn' PROVE InStep'
  <2>1. GoesOn /\ failing' = {} BY <1>3, <1>6 DEF GoesOn
  <2>2. written' = Append(written, nonce + 1) BY <1>3, <2>1
  <2>3. InStep BY <2>1 DEF IInv
  <2>4. written \in Seq(Nat) /\ Len(written) = nonce + 1 BY <2>3 DEF InStep, IInv, TypeOK
  <2>5. \A i \in DOMAIN written' : written'[i] = i - 1
    BY <1>1, <2>2, <2>3, <2>4 DEF InStep
  <2>6. Len(written') = nonce' + 1 BY <1>1, <2>2, <2>4
  <2> QED BY <2>5, <2>6 DEF InStep
<1> QED BY <1>4, <1>5, <1>6 DEF IInv

LEMMA WriteAct2Keeps == ASSUME IInv, WriteAct2 PROVE IInv'
<1>1. WriteRaw("inbound", 0) /\ "inbound" \in Task /\ 0 \in Nat BY DEF WriteAct2, Task
<1>2. /\ written' \in Seq(Nat) /\ Len(written) <= Len(written')
      /\ waiting' \subseteq [task : Task, at : Nat]
      /\ failing \subseteq failing' /\ failing' \subseteq Task
      /\ GoesOn /\ failing' = {} => written' = Append(written, 0)
  BY <1>1, WriteRawOutcome
<1>3. /\ handshake = "act1" /\ handshake' = "act2"
      /\ UNCHANGED <<reader, frames, handled, nonce, flushed, destroyed, closed, processEnded,
                     swallowed, faults>>
  BY DEF WriteAct2, endVars
<1>4. TypeOK'
  <2>1. flushed' \in 0..Len(written') BY <1>2, <1>3 DEF IInv, TypeOK
  <2> QED BY <1>2, <1>3, <2>1 DEF IInv, TypeOK
<1>5. ReadBehindHandshake' BY <1>3 DEF IInv, ReadBehindHandshake
<1>6. ASSUME GoesOn' PROVE InStep'
  <2>1. GoesOn /\ failing' = {} BY <1>2, <1>3, <1>6 DEF GoesOn
  <2>2. written = <<>> /\ nonce = 0 BY <1>3, <2>1 DEF IInv, InStep
  <2>3. written' = <<0>> BY <1>2, <2>1, <2>2
  <2> QED BY <1>3, <2>2, <2>3 DEF InStep
<1> QED BY <1>4, <1>5, <1>6 DEF IInv

LEMMA WriteKeeps == ASSUME IInv, Broadcast \/ Retarget PROVE IInv'
<1>1. PICK task \in Task : Write(task) BY DEF Broadcast, Retarget, Task
<1>2. handshake = "complete" BY <1>1 DEF Write, IInv, ReadBehindHandshake
<1>3. SendFrame(task)
        /\ UNCHANGED <<handshake, flushed, destroyed, closed, processEnded, swallowed, faults>>
  BY <1>1 DEF Write, inboundVars, endVars
<1> QED BY <1>2, <1>3, SendFrameKeeps

-----------------------------------------------------------------------------
(* Failures: a task that fails ends the session, in the end.               *)

(* While a failure is on its way nothing is claimed of the order.          *)
LEMMA FailingKeeps ==
  ASSUME IInv, UNCHANGED <<nonce, written, flushed, handshake, reader, processEnded, swallowed>>,
         destroyed => destroyed', destroyed' \in BOOLEAN, closed' \in BOOLEAN,
         frames' # <<>> \/ handled' # <<>> => handshake = "complete",
         waiting' \subseteq waiting,
         failing' \subseteq Task, ~GoesOn',
         faults' \in 0..MaxFaults
  PROVE  IInv'
<1>1. TypeOK'
  <2>1. waiting' \subseteq [task : Task, at : Nat] BY DEF IInv, TypeOK
  <2> QED BY <2>1 DEF IInv, TypeOK
<1> QED BY <1>1 DEF IInv, ReadBehindHandshake

LEMMA HandleFrameKeeps == ASSUME IInv, HandleFrame PROVE IInv'
<1>1. handshake = "complete" BY DEF HandleFrame, IInv, ReadBehindHandshake
<1>2. UNCHANGED <<handshake, reader, flushed, destroyed, closed, processEnded, swallowed>>
  BY DEF HandleFrame, endVars
<1>3. CASE SendFrame("inbound") /\ UNCHANGED faults
  BY <1>1, <1>2, <1>3, SendFrameKeeps DEF Task
<1>4. CASE UNCHANGED <<nonce, written, waiting, failing, faults>>
  BY <1>1, <1>2, <1>4, QuietStepKeeps DEF IInv, TypeOK
<1>5. CASE Fault /\ failing' = failing \union {"inbound"} /\ UNCHANGED <<nonce, written, waiting>>
  <2>1. failing' \subseteq Task /\ failing' # {} BY <1>5 DEF IInv, TypeOK, Task
  <2>2. ~GoesOn' BY <2>1 DEF GoesOn
  <2> QED BY <1>1, <1>2, <1>5, <2>1, <2>2, FaultBounded, FailingKeeps DEF IInv, TypeOK
<1> QED BY <1>3, <1>4, <1>5 DEF HandleFrame

LEMMA WriteFailsKeeps == ASSUME IInv, NEW w \in waiting, WriteFails(w) PROVE IInv'
<1>1. w.task \in Task BY DEF IInv, TypeOK
<1>2. failing' \subseteq Task /\ failing' # {} BY <1>1 DEF WriteFails, IInv, TypeOK
<1>3. ~GoesOn' BY <1>2 DEF GoesOn
<1>4. waiting' \subseteq waiting BY DEF WriteFails
<1>5. UNCHANGED <<nonce, written, flushed, handshake, reader, frames, handled, destroyed, closed,
                  processEnded, swallowed>>
  BY DEF WriteFails, inboundVars, endVars
<1>6. faults' \in 0..MaxFaults BY FaultBounded DEF WriteFails
<1> QED BY <1>2, <1>3, <1>4, <1>5, <1>6, FailingKeeps DEF IInv, TypeOK, ReadBehindHandshake

LEMMA CaughtKeeps == ASSUME IInv, NEW task \in Task, Caught(task) PROVE IInv'
<1>1. UNCHANGED <<reader, handled, nonce, written, flushed, waiting, closed, faults>>
        /\ failing' \subseteq Task
  BY DEF Caught, socketVars, IInv, TypeOK
<1>2. CASE task = "inbound"
  <2>1. /\ destroyed' = TRUE /\ frames' = <<>>
        /\ handshake' = IF handshake = "complete" THEN handshake ELSE "failed"
        /\ UNCHANGED <<processEnded, swallowed>>
    BY <1>2 DEF Caught
  <2>2. TypeOK' BY <1>1, <2>1 DEF IInv, TypeOK
  <2>3. ReadBehindHandshake' BY <1>1, <2>1 DEF IInv, ReadBehindHandshake
  <2>4. ~GoesOn' BY <2>1 DEF GoesOn
  <2> QED BY <2>2, <2>3, <2>4 DEF IInv
<1>3. CASE task = "broadcast"
  <2>1. destroyed' = TRUE /\ UNCHANGED <<frames, handshake, processEnded, swallowed>>
    BY <1>3 DEF Caught, CaughtBroadcast
  <2>2. ~GoesOn' BY <2>1 DEF GoesOn
  <2> QED BY <1>1, <2>1, <2>2, FailingKeeps DEF IInv, TypeOK, ReadBehindHandshake
<1>4. CASE task = "retarget"
  <2>1. Unhandled /\ UNCHANGED <<frames, handshake, destroyed>>
    BY <1>4 DEF Caught
  <2>2. ~GoesOn' BY <2>1 DEF Unhandled, GoesOn
  <2>3. TypeOK' BY <1>1, <2>1 DEF Unhandled, IInv, TypeOK
  <2>4. ReadBehindHandshake' BY <1>1, <2>1 DEF IInv, ReadBehindHandshake
  <2> QED BY <2>2, <2>3, <2>4 DEF IInv
<1> QED BY <1>2, <1>3, <1>4 DEF Task

LEMMA CloseKeeps == ASSUME IInv, PeerCloses \/ CloseSocket PROVE IInv'
<1>1. Close BY DEF PeerCloses, CloseSocket
<1>2. UNCHANGED <<nonce, written, flushed, handshake, reader, frames, handled, destroyed,
                  processEnded, swallowed>>
  BY DEF PeerCloses, CloseSocket, inboundVars
<1>3. waiting' \subseteq waiting /\ closed' = TRUE BY <1>1 DEF Close
<1>4. failing' \subseteq Task
  <2>1. \A w \in waiting : w.task \in Task BY DEF IInv, TypeOK
  <2> QED BY <1>1, <2>1 DEF Close, IInv, TypeOK
<1>5. ~GoesOn' BY <1>3 DEF GoesOn
<1>6. faults' \in 0..MaxFaults
  <2>1. CASE PeerCloses BY <2>1, FaultBounded DEF PeerCloses
  <2>2. CASE CloseSocket BY <2>2 DEF CloseSocket, IInv, TypeOK
  <2> QED BY <2>1, <2>2
<1> QED BY <1>2, <1>3, <1>4, <1>5, <1>6, FailingKeeps DEF IInv, TypeOK, ReadBehindHandshake

LEMMA EndSessionKeeps == ASSUME IInv, EndSession PROVE IInv'
<1>1. faults' \in 0..MaxFaults
  BY FaultBounded DEF EndSession, IInv, TypeOK
<1>2. destroyed' = TRUE
        /\ UNCHANGED <<nonce, written, flushed, waiting, failing, handshake, reader, frames,
                       handled, closed, processEnded, swallowed>>
  BY DEF EndSession, inboundVars, socketVars
<1> QED BY <1>1, <1>2, QuietStepKeeps DEF IInv, TypeOK, ReadBehindHandshake

-----------------------------------------------------------------------------
LEMMA IInvStep == IInv /\ [Next]_vars => IInv'
<1> SUFFICES ASSUME IInv, [Next]_vars PROVE IInv'
  OBVIOUS
<1>1. CASE FeedLoop BY <1>1, FeedLoopKeeps
<1>2. CASE Concurrent
  <2>1. CASE (\E length \in PayloadLength : MinerSends(length)) \/ Damage \/ Arrive
    BY <2>1, ExternalKeeps
  <2>2. CASE Proceed
    BY <2>2, InboundKeeps, WriteAct2Keeps, HandleFrameKeeps DEF Proceed
  <2>3. CASE Flush \/ Resume BY <2>3, FlushKeeps
  <2>4. CASE \E w \in waiting : WriteFails(w) BY <2>4, WriteFailsKeeps
  <2>5. CASE Broadcast \/ Retarget BY <2>5, WriteKeeps
  <2>6. CASE Catch BY <2>6, CaughtKeeps DEF Catch
  <2>7. CASE PeerCloses \/ CloseSocket BY <2>7, CloseKeeps
  <2>8. CASE EndSession BY <2>8, EndSessionKeeps
  <2> QED BY <1>2, <2>1, <2>2, <2>3, <2>4, <2>5, <2>6, <2>7, <2>8 DEF Concurrent
<1>3. CASE UNCHANGED vars
  <2>1. UNCHANGED <<handshake, reader, frames, handled, nonce, written, flushed, waiting, failing,
                    destroyed, closed, processEnded, swallowed, faults>>
    BY <1>3 DEF vars, inboundVars, socketVars, endVars
  <2> QED BY <2>1, QuietStepKeeps DEF IInv, TypeOK, ReadBehindHandshake
<1> QED BY <1>1, <1>2, <1>3 DEF Next

LEMMA InvariantHolds == Spec => []IInv
BY InitIInv, IInvStep, PTL DEF Spec

-----------------------------------------------------------------------------
(* What the pool writes, the tasks that wait or fail, and the ends of the  *)
(* session keep their types.                                               *)
THEOREM TypeCorrect == Spec => []TypeOK
<1>1. IInv => TypeOK BY DEF IInv
<1> QED BY <1>1, InvariantHolds, PTL

(* Whatever tasks write beside each other, a session that goes on has      *)
(* written each frame it encrypted, in the order of the nonces (sendFrame).*)
THEOREM NoncesInStep == Spec => []NonceInStep
<1>1. ASSUME IInv PROVE NonceInStep
  <2> SUFFICES ASSUME GoesOn
               PROVE  /\ \A i \in DOMAIN written : written[i] = i - 1
                      /\ nonce > 0 => nonce = Len(written) - 1
    BY DEF NonceInStep
  <2>1. InStep /\ handshake # "failed"
    BY <1>1 DEF IInv, GoesOn, ReadBehindHandshake
  <2>2. nonce \in Nat /\ handshake \in {"none", "act1", "act2", "complete", "failed"}
    BY <1>1 DEF IInv, TypeOK
  <2> QED BY <2>1, <2>2 DEF InStep
<1> QED BY <1>1, InvariantHolds, PTL

-----------------------------------------------------------------------------
(* Numbers.                                                                *)

\* A set of numbers that is not empty has a least one.
LEMMA NatHasLeast ==
    ASSUME NEW S \in SUBSET Nat, S # {}
    PROVE  \E x \in S : \A y \in S : x <= y
<1>1. PICK x \in S : \A y \in S : ~(<<y, x>> \in OpToRel(<, Nat))
  BY NatLessThanWellFounded, WFMin
<1>2. \A y \in S : ~(y < x) BY <1>1 DEF OpToRel
<1> QED BY <1>2

\* A set of numbers with 0 and, with each number, the next one, has them all.
LEMMA AllNumbers ==
    ASSUME NEW S \in SUBSET Nat, 0 \in S, \A n \in S : n + 1 \in S
    PROVE  S = Nat
<1> SUFFICES ASSUME S # Nat PROVE FALSE
  OBVIOUS
<1>1. PICK m \in Nat \ S : \A y \in Nat \ S : m <= y
  <2>1. Nat \ S \in SUBSET Nat /\ Nat \ S # {} OBVIOUS
  <2> QED BY <2>1, NatHasLeast
<1>2. m # 0 BY <1>1
<1>3. m - 1 \in Nat /\ ~(m <= m - 1) BY <1>1, <1>2
<1>4. m - 1 \in S BY <1>1, <1>3
<1>5. (m - 1) + 1 = m BY <1>1
<1> QED BY <1>1, <1>4, <1>5

-----------------------------------------------------------------------------
(* Parts of a length.                                                      *)
PartsOf(n, size) == (n + size - 1) \div size

LEMMA Times ==
    /\ \A a, b, d \in Nat : a <= b => a * d <= b * d
    /\ \A a, d \in Nat : (a + 1) * d = a * d + d
    /\ \A a, d \in Nat : a * d \in Nat
<1>1. \A a, d \in Nat : a * d \in Nat OBVIOUS
<1>2. \A a, d \in Nat : (a + 1) * d = a * d + d OBVIOUS
<1>3. ASSUME NEW a \in Nat, NEW b \in Nat, NEW d \in Nat, a <= b PROVE a * d <= b * d
  <2>1. PICK c \in Nat : b = a + c
    <3>1. b - a \in Nat /\ b = a + (b - a) BY <1>3
    <3> QED BY <3>1
  <2>2. b * d = a * d + c * d BY <2>1
  <2>3. c * d \in Nat /\ a * d \in Nat BY <1>1
  <2> QED BY <2>2, <2>3
<1> QED BY <1>1, <1>2, <1>3

LEMMA PartsFit ==
    ASSUME NEW n \in Nat, NEW size \in Nat \ {0}
    PROVE  /\ PartsOf(n, size) \in Nat
           /\ n <= PartsOf(n, size) * size
           /\ PartsOf(n, size) * size < n + size
<1>1. n + size - 1 \in Nat BY Z3
<1> DEFINE m == n + size - 1  q == m \div size
<1>2. m \in Nat BY <1>1
<1> HIDE DEF m
<1>3. q \in Int /\ size * q <= m /\ m < size * q + size BY <1>2
<1>4. q >= 0 BY <1>2
<1> QED BY <1>3, <1>4 DEF m, PartsOf

\* No other number of parts fits.
LEMMA PartsUnique ==
    ASSUME NEW n \in Nat, NEW size \in Nat \ {0}, NEW p \in Nat,
           n <= p * size, p * size < n + size
    PROVE  PartsOf(n, size) = p
<1>1. PICK q \in Nat : q = PartsOf(n, size) /\ n <= q * size /\ q * size < n + size BY PartsFit
<1>2. ASSUME q < p PROVE FALSE
  <2>1. (q + 1) * size <= p * size /\ (q + 1) * size = q * size + size BY <1>2, Times
  <2>2. q * size \in Nat /\ p * size \in Nat BY Times
  <2> QED BY <1>1, <2>1, <2>2
<1>3. ASSUME p < q PROVE FALSE
  <2>1. (p + 1) * size <= q * size /\ (p + 1) * size = p * size + size BY <1>3, Times
  <2>2. q * size \in Nat /\ p * size \in Nat BY Times
  <2> QED BY <1>1, <2>1, <2>2
<1> QED BY <1>1, <1>2, <1>3

-----------------------------------------------------------------------------
(* The parts of a sequence.                                                *)
LEMMA LeastLaws ==
    \A a, b \in Nat : /\ Least(a, b) \in Nat /\ Least(a, b) <= a /\ Least(a, b) <= b
                      /\ a <= b => Least(a, b) = a
                      /\ b <= a => Least(a, b) = b
BY DEF Least

LEMMA PartsLaws ==
    ASSUME NEW S, NEW s \in Seq(S), NEW size \in Nat \ {0}
    PROVE  /\ Parts(s, size) \in Seq(Seq(S))
           /\ Len(Parts(s, size)) = PartsOf(Len(s), size)
           /\ \A i \in 1..PartsOf(Len(s), size) :
                /\ Parts(s, size)[i] = SubSeq(s, (i - 1) * size + 1, Least(i * size, Len(s)))
                /\ (i - 1) * size \in Nat /\ (i - 1) * size < Len(s)
                /\ Parts(s, size)[i] \in Seq(S)
                /\ Len(Parts(s, size)[i]) >= 1
                /\ Parts(s, size)[i][1] = s[(i - 1) * size + 1]
<1> DEFINE c == PartsOf(Len(s), size)
<1>1. Len(s) \in Nat /\ DOMAIN s = 1..Len(s) /\ \A i \in 1..Len(s) : s[i] \in S OBVIOUS
<1>2. c \in Nat /\ c * size < Len(s) + size BY <1>1, PartsFit
<1>3. Parts(s, size) = [i \in 1..c |-> SubSeq(s, (i - 1) * size + 1, Least(i * size, Len(s)))]
  BY DEF Parts, PartsOf
<1> HIDE DEF c
<1>4. ASSUME NEW i \in 1..c
      PROVE  /\ Parts(s, size)[i] = SubSeq(s, (i - 1) * size + 1, Least(i * size, Len(s)))
             /\ (i - 1) * size \in Nat /\ (i - 1) * size < Len(s)
             /\ Parts(s, size)[i] \in Seq(S)
             /\ Len(Parts(s, size)[i]) >= 1
             /\ Parts(s, size)[i][1] = s[(i - 1) * size + 1]
  <2>1. i - 1 \in Nat /\ i \in Nat /\ (i - 1) + 1 = i BY <1>2
  <2>2. i * size <= c * size /\ i * size = (i - 1) * size + size /\ (i - 1) * size \in Nat
    <3>1. i * size <= c * size BY <1>2, <2>1, Times
    <3>2. ((i - 1) + 1) * size = (i - 1) * size + size BY <2>1, Times
    <3> QED BY <2>1, <3>1, <3>2, Times
  <2>3. PICK a, b \in Nat : a = (i - 1) * size /\ b = Least(i * size, Len(s)) /\ a < b /\ b <= Len(s)
    <3>1. PICK a, e, d \in Nat : a = (i - 1) * size /\ e = i * size /\ d = c * size
      BY <1>2, <2>1, Times
    <3>2. a < Len(s) /\ a < e
      <4>1. d < Len(s) + size /\ e <= d /\ e = a + size BY <1>2, <2>2, <3>1
      <4> QED BY <1>1, <4>1
    <3>3. a < Least(e, Len(s)) /\ Least(e, Len(s)) <= Len(s) /\ Least(e, Len(s)) \in Nat
      BY <1>1, <3>2, LeastLaws DEF Least
    <3> QED BY <3>1, <3>3
  <2>4. Parts(s, size)[i] = SubSeq(s, a + 1, b) BY <1>3, <2>3
  <2>5. \A j \in (a + 1)..b : s[j] \in S BY <1>1, <2>3
  <2>6. /\ SubSeq(s, a + 1, b) \in Seq(S)
        /\ Len(SubSeq(s, a + 1, b)) = b - a
        /\ SubSeq(s, a + 1, b)[1] = s[a + 1]
    <3>1. a + 1 \in Int /\ b \in Int /\ a + 1 <= b BY <2>3
    <3>2. /\ SubSeq(s, a + 1, b) \in Seq(S)
          /\ Len(SubSeq(s, a + 1, b)) = IF a + 1 <= b THEN b - (a + 1) + 1 ELSE 0
          /\ \A j \in 1..b - (a + 1) + 1 : SubSeq(s, a + 1, b)[j] = s[(a + 1) + j - 1]
      BY <2>5, <3>1, SubSeqProperties
    <3> QED BY <3>1, <3>2
  <2> QED BY <2>2, <2>3, <2>4, <2>6
<1>5. Parts(s, size) \in Seq(Seq(S)) /\ Len(Parts(s, size)) = c
  <2>1. Parts(s, size) \in [1..c -> Seq(S)] BY <1>3, <1>4
  <2> QED BY <1>2, <2>1
<1> QED BY <1>4, <1>5 DEF c

-----------------------------------------------------------------------------
(* Sequences put together, as the community modules define it: recursively.*)
IsFlat(ss, n, f) == f = [i \in 1..n |-> IF i = 1 THEN ss[i] ELSE f[i - 1] \o ss[i]]

LEMMA FlattenFolds ==
    ASSUME NEW ss
    PROVE  FlattenSeq(ss) = IF Len(ss) = 0 THEN ss ELSE (CHOOSE f : IsFlat(ss, Len(ss), f))[Len(ss)]
BY DEF FlattenSeq, IsFlat

\* The recursion has a solution.
LEMMA FlatExists == ASSUME NEW ss, NEW m \in Nat PROVE \E f : IsFlat(ss, m, f)
<1> DEFINE T == {n \in Nat : \E f : IsFlat(ss, n, f)}
<1>1. 0 \in T
  <2> DEFINE f == [i \in 1..0 |-> ss[i]]
  <2>1. IsFlat(ss, 0, f) BY DEF IsFlat
  <2> QED BY <2>1
<1>2. ASSUME NEW n \in T PROVE n + 1 \in T
  <2>1. PICK f : IsFlat(ss, n, f) OBVIOUS
  <2> DEFINE h == [i \in 1..(n + 1) |-> IF i = 1 THEN ss[i] ELSE f[i - 1] \o ss[i]]
  <2>2. \A i \in 1..n : h[i] = f[i]
    <3>1. \A i \in 1..n : f[i] = IF i = 1 THEN ss[i] ELSE f[i - 1] \o ss[i] BY <2>1 DEF IsFlat
    <3>2. \A i \in 1..n : i \in 1..(n + 1) OBVIOUS
    <3> QED BY <3>1, <3>2
  <2>4. \A i \in 1..(n + 1) :
          (IF i = 1 THEN ss[i] ELSE f[i - 1] \o ss[i]) = (IF i = 1 THEN ss[i] ELSE h[i - 1] \o ss[i])
    <3> TAKE i \in 1..(n + 1)
    <3>1. i # 1 => i - 1 \in 1..n
      <4>1. n \in Nat OBVIOUS
      <4> QED BY <4>1
    <3> HIDE DEF h
    <3>2. i # 1 => h[i - 1] = f[i - 1] BY <2>2, <3>1
    <3> QED BY <3>2
  <2>5. IsFlat(ss, n + 1, h) BY <2>4 DEF IsFlat
  <2> QED BY <2>5
<1>3. T = Nat
  <2> HIDE DEF T
  <2>1. T \in SUBSET Nat BY DEF T
  <2> QED BY <1>1, <1>2, <2>1, AllNumbers
<1> QED BY <1>3

LEMMA FlattenIs ==
    ASSUME NEW ss, Len(ss) \in Nat \ {0}
    PROVE  \E f : IsFlat(ss, Len(ss), f) /\ FlattenSeq(ss) = f[Len(ss)]
<1> DEFINE f == CHOOSE f : IsFlat(ss, Len(ss), f)
<1>1. IsFlat(ss, Len(ss), f) BY FlatExists
<1>2. FlattenSeq(ss) = f[Len(ss)] BY FlattenFolds
<1> HIDE DEF f
<1> QED BY <1>1, <1>2

LEMMA FlattenTyped ==
    ASSUME NEW S, NEW ss \in Seq(Seq(S))
    PROVE  FlattenSeq(ss) \in Seq(S)
<1>1. CASE Len(ss) = 0
  <2>1. FlattenSeq(ss) = ss BY <1>1, FlattenFolds
  <2>2. ss = << >> BY <1>1
  <2> QED BY <2>1, <2>2
<1>2. CASE Len(ss) # 0
  <2>1. Len(ss) \in Nat \ {0} BY <1>2
  <2>2. PICK f : IsFlat(ss, Len(ss), f) /\ FlattenSeq(ss) = f[Len(ss)] BY <2>1, FlattenIs
  <2> DEFINE T == {n \in Nat : n + 1 <= Len(ss) => f[n + 1] \in Seq(S)}
  <2>3. \A i \in 1..Len(ss) : f[i] = IF i = 1 THEN ss[i] ELSE f[i - 1] \o ss[i]
    BY <2>2 DEF IsFlat
  <2>4. \A i \in 1..Len(ss) : ss[i] \in Seq(S) OBVIOUS
  <2>5. 0 \in T BY <2>1, <2>3, <2>4
  <2>6. ASSUME NEW n \in T PROVE n + 1 \in T
    <3> SUFFICES ASSUME (n + 1) + 1 <= Len(ss) PROVE f[(n + 1) + 1] \in Seq(S)
      OBVIOUS
    <3>1. f[n + 1] \in Seq(S) BY <2>1
    <3>2. PICK i \in 1..Len(ss) : i = (n + 1) + 1 /\ i # 1 /\ i - 1 = n + 1 BY <2>1
    <3>3. f[i] = f[n + 1] \o ss[i] BY <2>3, <3>2
    <3> QED BY <2>4, <3>1, <3>2, <3>3, ConcatProperties
  <2>7. T = Nat
    <3> HIDE DEF T
    <3>1. T \in SUBSET Nat BY DEF T
    <3> QED BY <2>5, <2>6, <3>1, AllNumbers
  <2>8. PICK m \in T : m + 1 = Len(ss)
    <3> HIDE DEF T
    <3>1. Len(ss) - 1 \in Nat /\ (Len(ss) - 1) + 1 = Len(ss) BY <2>1
    <3> QED BY <2>7, <3>1
  <2>9. f[m + 1] \in Seq(S) BY <2>1, <2>8
  <2> QED BY <2>2, <2>8, <2>9
<1> QED BY <1>1, <1>2

LEMMA FlattenOne ==
    ASSUME NEW ss, Len(ss) = 1
    PROVE  FlattenSeq(ss) = ss[1]
<1>1. Len(ss) \in Nat \ {0} OBVIOUS
<1>2. PICK f : IsFlat(ss, Len(ss), f) /\ FlattenSeq(ss) = f[Len(ss)] BY <1>1, FlattenIs
<1> QED BY <1>2 DEF IsFlat

\* The parts put together are the sequence.
LEMMA FlattenParts ==
    ASSUME NEW S, NEW s \in Seq(S), NEW size \in Nat \ {0}
    PROVE  FlattenSeq(Parts(s, size)) = s
<1>1. PICK c \in Nat : c = PartsOf(Len(s), size) /\ Len(s) <= c * size /\ Len(s) \in Nat
  <2>1. Len(s) \in Nat OBVIOUS
  <2> QED BY <2>1, PartsFit
<1>2. PICK ss \in Seq(Seq(S)) :
        /\ ss = Parts(s, size) /\ Len(ss) = c
        /\ \A i \in 1..c : /\ ss[i] = SubSeq(s, (i - 1) * size + 1, Least(i * size, Len(s)))
                           /\ (i - 1) * size \in Nat /\ (i - 1) * size < Len(s)
  <2>1. Parts(s, size) \in Seq(Seq(S)) /\ Len(Parts(s, size)) = c BY <1>1, PartsLaws
  <2>2. \A i \in 1..c :
          /\ Parts(s, size)[i] = SubSeq(s, (i - 1) * size + 1, Least(i * size, Len(s)))
          /\ (i - 1) * size \in Nat /\ (i - 1) * size < Len(s)
    BY <1>1, PartsLaws
  <2> QED BY <2>1, <2>2
<1>3. CASE c = 0
  <2>1. ss = << >> BY <1>2, <1>3
  <2>2. Len(s) = 0 BY <1>1, <1>3
  <2> QED BY <1>2, <1>3, <2>1, <2>2, FlattenFolds
<1>4. CASE c # 0
  <2>1. PICK f : IsFlat(ss, c, f) /\ FlattenSeq(ss) = f[c] BY <1>2, <1>4, FlattenIs
  <2>2. \A i \in 1..c : f[i] = IF i = 1 THEN ss[i] ELSE f[i - 1] \o ss[i]
    BY <2>1 DEF IsFlat
  <2> DEFINE T == {n \in Nat : n + 1 <= c => f[n + 1] = SubSeq(s, 1, Least((n + 1) * size, Len(s)))}
  <2>3. 0 \in T
    <3>1. 1 \in 1..c BY <1>1, <1>4
    <3>2. f[1] = SubSeq(s, (1 - 1) * size + 1, Least(1 * size, Len(s))) BY <1>2, <2>2, <3>1
    <3>3. (1 - 1) * size + 1 = 1 OBVIOUS
    <3> QED BY <3>2, <3>3
  <2>4. ASSUME NEW n \in T PROVE n + 1 \in T
    <3> SUFFICES ASSUME (n + 1) + 1 <= c
                 PROVE  f[(n + 1) + 1] = SubSeq(s, 1, Least(((n + 1) + 1) * size, Len(s)))
      OBVIOUS
    <3>1. PICK i \in 1..c : i = (n + 1) + 1 /\ i # 1 /\ i - 1 = n + 1 BY <1>1
    <3>2. f[n + 1] = SubSeq(s, 1, Least((n + 1) * size, Len(s))) BY <1>1
    <3>3. PICK a \in Nat : a = (n + 1) * size /\ a < Len(s) BY <1>2, <3>1
    <3>4. PICK b \in Nat : b = Least(i * size, Len(s)) /\ a <= b /\ b <= Len(s)
      <4>1. n + 1 \in Nat /\ i = (n + 1) + 1 BY <3>1
      <4>2. ((n + 1) + 1) * size = (n + 1) * size + size BY <4>1, Times
      <4>3. PICK e \in Nat : e = i * size /\ e = a + size BY <3>3, <4>1, <4>2
      <4>4. a <= Least(e, Len(s)) /\ Least(e, Len(s)) <= Len(s) /\ Least(e, Len(s)) \in Nat
        BY <1>1, <3>3, <4>3 DEF Least
      <4> QED BY <4>3, <4>4
    <3>5. Least((n + 1) * size, Len(s)) = a BY <1>1, <3>3, LeastLaws
    <3>6. f[i] = SubSeq(s, 1, a) \o SubSeq(s, a + 1, b)
      <4>1. f[i] = f[n + 1] \o ss[i] BY <2>2, <3>1
      <4>2. ss[i] = SubSeq(s, a + 1, b) BY <1>2, <3>1, <3>3, <3>4
      <4> QED BY <3>2, <3>5, <4>1, <4>2
    <3>7. SubSeq(s, 1, a) \o SubSeq(s, a + 1, b) = SubSeq(s, 1, b)
      <4>1. 1 \in 1..(Len(s) + 1) /\ a \in (1 - 1)..Len(s) /\ b \in a..Len(s) BY <1>1, <3>3, <3>4
      <4> QED BY <4>1, ConcatAdjacentSubSeq
    <3> QED BY <3>1, <3>4, <3>6, <3>7
  <2>5. T = Nat
    <3> HIDE DEF T
    <3>1. T \in SUBSET Nat BY DEF T
    <3> QED BY <2>3, <2>4, <3>1, AllNumbers
  <2>6. PICK m \in T : m + 1 = c
    <3> HIDE DEF T
    <3>1. c - 1 \in Nat /\ (c - 1) + 1 = c BY <1>1, <1>4
    <3> QED BY <2>5, <3>1
  <2>7. f[c] = SubSeq(s, 1, Least(c * size, Len(s)))
    <3>1. m + 1 <= c => f[m + 1] = SubSeq(s, 1, Least((m + 1) * size, Len(s))) OBVIOUS
    <3> QED BY <1>1, <2>6, <3>1
  <2>8. Least(c * size, Len(s)) = Len(s)
    <3>1. c * size \in Nat BY <1>1, Times
    <3> QED BY <1>1, <3>1, LeastLaws
  <2> QED BY <1>2, <2>1, <2>7, <2>8, SubSeqFull
<1> QED BY <1>3, <1>4

-----------------------------------------------------------------------------
(* What was encrypted can be recognised: a byte tells the nonce and the    *)
(* text of its block.                                                      *)
PlainByte == {<<"header", t, l>> : t, l \in Nat} \union {<<"payload", t, i>> : t, i \in Nat}

\* The bytes of the blocks a miner has encrypted, of act 1, and damaged ones.
Bytes(blocks) ==
    {<<0, << >>, i>> : i \in Nat} \union {<<n, blocks[n], i>> : n \in DOMAIN blocks, i \in Nat}

\* Bytes stay those of their blocks when more blocks are encrypted.
LEMMA BytesGrow ==
    ASSUME NEW blocks, NEW more, DOMAIN blocks \subseteq DOMAIN more,
           \A n \in DOMAIN blocks : more[n] = blocks[n]
    PROVE  Bytes(blocks) \subseteq Bytes(more)
BY DEF Bytes

\* Encrypting a block gives bytes of that block.
LEMMA EncryptedBytes ==
    ASSUME NEW blocks, NEW n \in DOMAIN blocks, NEW S, blocks[n] \in Seq(S)
    PROVE  Encrypted(blocks[n], n) \in Seq(Bytes(blocks))
<1>1. PICK l \in Nat : l = Len(blocks[n]) + MacSize BY SizeAssumption
<1>2. Encrypted(blocks[n], n) = [i \in 1..l |-> <<n, blocks[n], i>>] BY <1>1 DEF Encrypted
<1>3. \A i \in 1..l : <<n, blocks[n], i>> \in Bytes(blocks) BY DEF Bytes
<1>4. Encrypted(blocks[n], n) \in [1..l -> Bytes(blocks)] BY <1>2, <1>3
<1> QED BY <1>4

\* A block that decrypts with a nonce is the one that was encrypted with it.
LEMMA DecryptsTheBlock ==
    ASSUME NEW blocks, NEW cipher \in Seq(Bytes(blocks)), Len(cipher) >= 1,
           NEW n \in Nat \ {0}, Decrypts(cipher, n)
    PROVE  n \in DOMAIN blocks /\ Text(cipher) = blocks[n]
<1>1. cipher[1] \in Bytes(blocks) /\ 1 \in DOMAIN cipher OBVIOUS
<1>2. cipher = [i \in 1..(Len(Text(cipher)) + MacSize) |-> <<n, Text(cipher), i>>]
  BY DEF Decrypts, Encrypted
<1>3. cipher[1] = <<n, Text(cipher), 1>>
  <2>1. 1 \in 1..(Len(Text(cipher)) + MacSize) BY <1>1, <1>2
  <2> QED BY <1>2, <2>1
<1>4. cipher[1] \in {<<m, blocks[m], i>> : m \in DOMAIN blocks, i \in Nat} BY <1>1, <1>3 DEF Bytes
<1> QED BY <1>3, <1>4

\* A payload has the length its header tells.
LEMMA PayloadLaws ==
    ASSUME NEW type \in Nat, NEW length \in Nat
    PROVE  Payload(type, length) \in Seq(PlainByte) /\ Len(Payload(type, length)) = length
<1>1. Payload(type, length) = [i \in 1..length |-> <<"payload", type, i>>] BY DEF Payload
<1>2. \A i \in 1..length : <<"payload", type, i>> \in PlainByte BY DEF PlainByte
<1>3. Payload(type, length) \in [1..length -> PlainByte] BY <1>1, <1>2
<1> QED BY <1>3

LEMMA HeaderTyped == \A type, length \in Nat : <<Header(type, length)>> \in Seq(PlainByte)
<1>1. \A type, length \in Nat : Header(type, length) \in PlainByte BY DEF Header, PlainByte
<1> QED BY <1>1

Chunks(length) == PartsOf(length, MaxChunk)

\* The blocks of a frame: its header, and the chunks of its payload.
BlocksOf(blocks, n, type, length) ==
    /\ blocks[n] = <<Header(type, length)>>
    /\ \A i \in 1..Chunks(length) : blocks[n + i] = Parts(Payload(type, length), MaxChunk)[i]

\* writeFrame gives bytes of those blocks.
LEMMA FrameBytes ==
    ASSUME NEW blocks, NEW type \in Nat, NEW length \in Nat, NEW n \in Nat,
           n..(n + Chunks(length)) \subseteq DOMAIN blocks, BlocksOf(blocks, n, type, length)
    PROVE  WriteFrame(type, length, n) \in Seq(Bytes(blocks))
<1> DEFINE chunks == Parts(Payload(type, length), MaxChunk)
<1>1. MaxChunk \in Nat \ {0} BY SizeAssumption
<1>2. Payload(type, length) \in Seq(PlainByte) /\ Len(Payload(type, length)) = length BY PayloadLaws
<1>3. PICK c \in Nat : c = Chunks(length) BY <1>1, PartsFit DEF Chunks
<1>4. /\ chunks \in Seq(Seq(PlainByte)) /\ Len(chunks) = c
      /\ \A i \in 1..c : chunks[i] \in Seq(PlainByte)
  BY <1>1, <1>2, <1>3, PartsLaws DEF Chunks
<1>5. DOMAIN chunks = 1..c BY <1>4
<1> HIDE DEF chunks
<1>6. Encrypted(<<Header(type, length)>>, n) \in Seq(Bytes(blocks))
  <2>1. n \in DOMAIN blocks BY <1>3
  <2>2. blocks[n] = <<Header(type, length)>> /\ blocks[n] \in Seq(PlainByte)
    BY HeaderTyped DEF BlocksOf
  <2> QED BY <2>1, <2>2, EncryptedBytes
<1>7. ASSUME NEW i \in 1..c PROVE Encrypted(chunks[i], n + i) \in Seq(Bytes(blocks))
  <2>1. n + i \in DOMAIN blocks BY <1>3
  <2>2. blocks[n + i] = chunks[i] BY <1>3 DEF BlocksOf, chunks
  <2>3. blocks[n + i] \in Seq(PlainByte) BY <1>4, <2>2
  <2> QED BY <2>1, <2>2, <2>3, EncryptedBytes
<1> DEFINE ciphers == [i \in DOMAIN chunks |-> Encrypted(chunks[i], n + i)]
<1>8. ciphers \in [1..c -> Seq(Bytes(blocks))] BY <1>5, <1>7
<1>9. ciphers \in Seq(Seq(Bytes(blocks))) BY <1>8
<1>10. FlattenSeq(ciphers) \in Seq(Bytes(blocks)) BY <1>9, FlattenTyped
<1>11. WriteFrame(type, length, n) = Encrypted(<<Header(type, length)>>, n) \o FlattenSeq(ciphers)
  BY DEF WriteFrame, chunks
<1> HIDE DEF ciphers
<1> QED BY <1>6, <1>10, <1>11, ConcatProperties

-----------------------------------------------------------------------------
(* The bytes on their way, and where the reader stands among the blocks.   *)

\* Where the frames begin, and what the miner has encrypted with each nonce.
Encoding(first, blocks, k, length) ==
    /\ sent[k] = FrameOf(k, length)
    /\ first[k + 1] = first[k] + 1 + Chunks(length)
    /\ first[k + 1] <= minerNonce + 1
    /\ BlocksOf(blocks, first[k], k, length)

Encoded(first, blocks) ==
    /\ minerNonce \in Nat
    /\ DOMAIN blocks = 1..minerNonce
    /\ first \in [1..(Len(sent) + 1) -> Nat \ {0}]
    /\ first[1] = 1 /\ first[Len(sent) + 1] = minerNonce + 1
    /\ \A k \in 1..Len(sent) : \E length \in PayloadLength : Encoding(first, blocks, k, length)

Readers(B) ==
    [buf : Seq(B), header : [type : Nat, length : Nat], nonce : Nat \ {0}, frames : Seq(Frame),
     feeding : BOOLEAN]

Carry(B) ==
    /\ wire \in Seq(B) /\ chain \in Seq(Seq(B))
    /\ handshakeBuffer \in Seq(B) /\ remainder \in Seq(B)
    /\ reader \in Readers(B)

\* The frames read so far, and what is next: a header, or the payload behind one.
ReadSoFar == Len(handled) + Len(frames) + Len(reader.frames)

AtHeader(first, k) ==
    reader.header = NoHeader /\ k <= Len(sent) + 1 /\ reader.nonce = first[k]

AtPayload(first, k) ==
    /\ k <= Len(sent) /\ reader.nonce = first[k] + 1
    /\ \E length \in PayloadLength :
         sent[k] = FrameOf(k, length) /\ reader.header = [type |-> k, length |-> length]

InPlace(first) == AtHeader(first, ReadSoFar + 1) \/ AtPayload(first, ReadSoFar + 1)

\* A reader that met a block out of place ended its session.
Reading == reader.feeding \/ ~destroyed

Followed ==
    \E first, blocks : /\ Encoded(first, blocks) /\ Carry(Bytes(blocks))
                       /\ Reading => InPlace(first)

(* What was handled, what waits to be and what was just read are the       *)
(* frames sent, in their order.                                            *)
InOrder ==
    /\ sent \in Seq(Frame) /\ handled \in Seq(Frame) /\ frames \in Seq(Frame)
    /\ reader.frames \in Seq(Frame)
    /\ ReadSoFar <= Len(sent)
    /\ \A i \in 1..Len(handled) : handled[i] = sent[i]
    /\ \A i \in 1..Len(frames) : frames[i] = sent[Len(handled) + i]
    /\ \A i \in 1..Len(reader.frames) : reader.frames[i] = sent[Len(handled) + Len(frames) + i]

Batches ==
    /\ handshake # "complete" => reader = NewReader /\ frames = << >> /\ handled = << >>
    /\ reader.feeding => frames = << >>
    /\ ~reader.feeding => reader.frames = << >>

OrderInv == InOrder /\ Batches /\ Followed

LEMMA OrderInit == Init => OrderInv
<1> SUFFICES ASSUME Init PROVE OrderInv
  OBVIOUS
<1>1. InOrder BY DEF Init, InOrder, ReadSoFar, NewReader
<1>2. Batches BY DEF Init, Batches, NewReader
<1> DEFINE first == [k \in 1..1 |-> 1]  blocks == [n \in 1..0 |-> << >>]
<1>3. Encoded(first, blocks) BY DEF Init, Encoded
<1>4. Carry(Bytes(blocks))
  <2>1. Act1 \in Seq(Bytes(blocks))
    <3>1. \A i \in 1..Act1Size : <<0, << >>, i>> \in Bytes(blocks) BY SizeAssumption DEF Bytes
    <3>2. Act1 \in [1..Act1Size -> Bytes(blocks)] BY <3>1 DEF Act1
    <3> QED BY <3>2, SizeAssumption
  <2>2. NewReader \in Readers(Bytes(blocks)) BY DEF NewReader, NoHeader, Readers
  <2> QED BY <2>1, <2>2 DEF Init, Carry
<1>5. InPlace(first) BY DEF Init, InPlace, AtHeader, ReadSoFar, NewReader
<1> QED BY <1>1, <1>2, <1>3, <1>4, <1>5 DEF OrderInv, Followed

-----------------------------------------------------------------------------
(* Steps that bytes pass and no frame does.                                *)

\* The reader stays in place where its nonce and header do.
LEMMA FollowedKept ==
    ASSUME Followed, UNCHANGED <<sent, minerNonce>>,
           \A B : Damaged \in B /\ Carry(B) => Carry(B)',
           Reading' => Reading,
           Reading' => ReadSoFar' = ReadSoFar,
           Reading' => reader'.nonce = reader.nonce /\ reader'.header = reader.header
    PROVE  Followed'
<1>1. PICK first, blocks : /\ Encoded(first, blocks) /\ Carry(Bytes(blocks))
                           /\ Reading => InPlace(first)
  BY DEF Followed
<1>2. Encoded(first, blocks)' BY <1>1 DEF Encoded, Encoding
<1>3. Damaged \in Bytes(blocks) BY DEF Damaged, Bytes
<1>4. Carry(Bytes(blocks))' BY <1>1, <1>3
<1>5. Reading' => InPlace(first)' BY <1>1 DEF InPlace, AtHeader, AtPayload
<1> QED BY <1>2, <1>4, <1>5 DEF Followed

\* Steps of the socket, the tasks and the session's end.
LEMMA AsideKeepsOrder ==
    ASSUME OrderInv,
           UNCHANGED <<wire, sent, minerNonce, chain, handshakeBuffer, remainder, reader, handled>>,
           frames' = frames \/ (frames' = << >> /\ destroyed' /\ ~reader.feeding),
           handshake' = handshake \/ (handshake # "complete" /\ handshake' # "complete"),
           destroyed => destroyed', destroyed \in BOOLEAN, destroyed' \in BOOLEAN
    PROVE  OrderInv'
<1>1. InOrder' 
  <2>1. CASE frames' = frames BY <2>1 DEF OrderInv, InOrder, ReadSoFar
  <2>2. CASE frames' = << >> /\ ~reader.feeding
    <3>1. reader.frames = << >> BY <2>2 DEF OrderInv, Batches
    <3> QED BY <2>2, <3>1 DEF OrderInv, InOrder, ReadSoFar
  <2> QED BY <2>1, <2>2
<1>2. Batches' BY DEF OrderInv, Batches
<1>3. Followed'
  <2>1. Reading' => Reading /\ frames' = frames BY DEF Reading
  <2>2. \A B : Carry(B) => Carry(B)' BY DEF Carry
  <2>3. Reading' => ReadSoFar' = ReadSoFar BY <2>1 DEF ReadSoFar
  <2> QED BY <2>1, <2>2, <2>3, FollowedKept DEF OrderInv
<1> QED BY <1>1, <1>2, <1>3 DEF OrderInv

\* Part of a sequence has the elements of the sequence.
LEMMA SubSeqIn ==
    ASSUME NEW B, NEW s \in Seq(B), NEW m \in Nat \ {0}, NEW n \in Nat, n <= Len(s)
    PROVE  SubSeq(s, m, n) \in Seq(B)
<1>1. \A i \in m..n : s[i] \in B OBVIOUS
<1> QED BY <1>1, SubSeqProperties

\* Steps in which pieces move and nothing is read.
LEMMA BytesKeepOrder ==
    ASSUME OrderInv, UNCHANGED <<sent, minerNonce, frames, handled, reader, destroyed>>,
           \A B : Damaged \in B /\ Carry(B) => Carry(B)',
           handshake' = handshake \/ (handshake = "none" /\ handshake' = "act1")
    PROVE  OrderInv'
<1>1. InOrder' BY DEF OrderInv, InOrder, ReadSoFar
<1>2. Batches' BY DEF OrderInv, Batches
<1>3. Reading' => Reading /\ ReadSoFar' = ReadSoFar BY DEF Reading, ReadSoFar
<1>4. Followed' BY <1>3, FollowedKept DEF OrderInv
<1> QED BY <1>1, <1>2, <1>4 DEF OrderInv

\* TCP hands over pieces, and they wait or are put together.
LEMMA PiecesKeepOrder ==
    ASSUME OrderInv, Damage \/ Arrive \/ DropData \/ HandleHandshakeData
    PROVE  OrderInv'
<1>1. UNCHANGED <<sent, minerNonce, frames, handled, reader, destroyed>>
  BY DEF Damage, Arrive, EnqueueInbound, DropData, HandleHandshakeData, minerVars, inboundVars, endVars
<1>2. handshake' = handshake \/ (handshake = "none" /\ handshake' = "act1")
  BY DEF Damage, Arrive, EnqueueInbound, DropData, HandleHandshakeData, inboundVars
<1>3. ASSUME NEW B, Damaged \in B, Carry(B) PROVE Carry(B)'
  <2>1. /\ wire \in Seq(B) /\ chain \in Seq(Seq(B)) /\ reader' \in Readers(B)
        /\ handshakeBuffer \in Seq(B) /\ remainder \in Seq(B)
    BY <1>1, <1>3 DEF Carry
  <2>2. CASE Damage
    <3>1. wire # << >> /\ wire' = <<Damaged>> \o Tail(wire) BY <2>2 DEF Damage
    <3>2. Tail(wire) \in Seq(B) /\ <<Damaged>> \in Seq(B) BY <1>3, <2>1, <3>1
    <3>3. wire' \in Seq(B) BY <3>1, <3>2, ConcatProperties
    <3>4. UNCHANGED <<chain, handshakeBuffer, remainder>> BY <2>2 DEF Damage, inboundVars
    <3> QED BY <2>1, <3>3, <3>4 DEF Carry
  <2>3. CASE Arrive
    <3>1. PICK n \in 1..Len(wire) : EnqueueInbound(n) BY <2>3 DEF Arrive
    <3>2. n \in Nat /\ Len(wire) \in Nat /\ n <= Len(wire) BY <2>1, <3>1
    <3>3. SubSeq(wire, 1, n) \in Seq(B) /\ SubSeq(wire, n + 1, Len(wire)) \in Seq(B)
      BY <2>1, <3>2, SubSeqIn
    <3>4. wire' \in Seq(B) /\ chain' \in Seq(Seq(B)) BY <2>1, <3>1, <3>3 DEF EnqueueInbound
    <3>5. UNCHANGED <<handshakeBuffer, remainder>> BY <3>1 DEF EnqueueInbound
    <3> QED BY <2>1, <3>4, <3>5 DEF Carry
  <2>4. CASE DropData
    <3>1. chain # << >> /\ chain' = Tail(chain) BY <2>4 DEF DropData, Turn
    <3>2. chain' \in Seq(Seq(B)) BY <2>1, <3>1
    <3>3. UNCHANGED <<wire, handshakeBuffer, remainder>> BY <2>4 DEF DropData
    <3> QED BY <2>1, <3>2, <3>3 DEF Carry
  <2>5. CASE HandleHandshakeData
    <3>1. chain # << >> /\ chain' = Tail(chain) /\ wire' = wire
      BY <2>5 DEF HandleHandshakeData, Turn
    <3>2. chain' \in Seq(Seq(B)) /\ Head(chain) \in Seq(B) BY <2>1, <3>1
    <3> DEFINE buf == handshakeBuffer \o Head(chain)
    <3>3. buf \in Seq(B) BY <2>1, <3>2, ConcatProperties
    <3>4. \/ handshakeBuffer' = buf /\ remainder' = remainder
          \/ handshakeBuffer' = << >> /\ remainder' = SubSeq(buf, Act1Size + 1, Len(buf))
      BY <2>5 DEF HandleHandshakeData
    <3> HIDE DEF buf
    <3>5. SubSeq(buf, Act1Size + 1, Len(buf)) \in Seq(B)
      <4>1. Act1Size + 1 \in Nat \ {0} /\ Len(buf) \in Nat BY <3>3, SizeAssumption
      <4> QED BY <3>3, <4>1, SubSeqIn
    <3>6. handshakeBuffer' \in Seq(B) /\ remainder' \in Seq(B)
      <4>1. << >> \in Seq(B) OBVIOUS
      <4> QED BY <2>1, <3>3, <3>4, <3>5, <4>1, Zenon
    <3> QED BY <2>1, <3>1, <3>2, <3>6 DEF Carry
  <2> QED BY <2>2, <2>3, <2>4, <2>5
<1> QED BY <1>1, <1>2, <1>3, BytesKeepOrder

\* No more was read than was sent.
LEMMA ReadSoFarCounts ==
    ASSUME InOrder
    PROVE  ReadSoFar \in Nat /\ Len(sent) \in Nat /\ ReadSoFar <= Len(sent)
<1>1. /\ Len(handled) \in Nat /\ Len(frames) \in Nat /\ Len(reader.frames) \in Nat
      /\ Len(sent) \in Nat
  BY DEF InOrder
<1>2. PICK h, f, x \in Nat : ReadSoFar = h + f + x BY <1>1 DEF ReadSoFar
<1>3. ReadSoFar \in Nat BY <1>2
<1>4. ReadSoFar <= Len(sent) BY DEF InOrder
<1> QED BY <1>1, <1>3, <1>4

\* A reader is given bytes, once what it had read was handled.
LEMMA FeedKeepsOrder ==
    ASSUME OrderInv, CompleteHandshake \/ HandleEncryptedData, destroyed \in BOOLEAN
    PROVE  OrderInv'
<1>1. /\ UNCHANGED <<sent, minerNonce, wire, handshakeBuffer, frames, handled, destroyed>>
      /\ handshake' = "complete"
  BY DEF CompleteHandshake, HandleEncryptedData, minerVars, endVars
<1>2. PICK data :
        /\ reader' = [reader EXCEPT !.buf = @ \o data, !.feeding = TRUE]
        /\ \/ data = remainder /\ chain' = chain /\ remainder' = << >>
           \/ /\ data = Head(chain) /\ chain # << >> /\ chain' = Tail(chain)
              /\ remainder' = remainder
  BY DEF CompleteHandshake, HandleEncryptedData, Feed, Turn
<1>3. /\ frames = << >>
      /\ ~destroyed \/ (reader = NewReader /\ handled = << >>)
  BY DEF CompleteHandshake, HandleEncryptedData, Turn, OrderInv, Batches
<1>4. PICK first, blocks : /\ Encoded(first, blocks) /\ Carry(Bytes(blocks))
                           /\ Reading => InPlace(first)
  BY DEF OrderInv, Followed
<1> DEFINE B == Bytes(blocks)
<1> HIDE DEF B
<1>5. /\ reader \in Readers(B) /\ remainder \in Seq(B) /\ chain \in Seq(Seq(B))
      /\ wire \in Seq(B) /\ handshakeBuffer \in Seq(B)
  BY <1>4 DEF Carry, B
<1>6. /\ reader'.frames = reader.frames /\ reader'.header = reader.header
      /\ reader'.nonce = reader.nonce /\ reader'.feeding = TRUE
  BY <1>2, <1>5 DEF Readers
<1>7. InOrder' BY <1>1, <1>6 DEF OrderInv, InOrder, ReadSoFar
<1>8. Batches' BY <1>1, <1>3, <1>6 DEF OrderInv, Batches
<1>9. Carry(B)'
  <2>1. data \in Seq(B) BY <1>2, <1>5
  <2>2. reader.buf \o data \in Seq(B) BY <1>5, <2>1, ConcatProperties DEF Readers
  <2>3. reader' \in Readers(B) BY <1>2, <1>5, <2>2 DEF Readers
  <2>4. remainder' \in Seq(B) /\ chain' \in Seq(Seq(B))
    <3>1. << >> \in Seq(B) OBVIOUS
    <3>2. chain # << >> => Tail(chain) \in Seq(Seq(B)) BY <1>5
    <3> QED BY <1>2, <1>5, <3>1, <3>2, Zenon
  <2> QED BY <1>1, <1>5, <2>3, <2>4 DEF Carry
<1>10. InPlace(first)
  <2>1. CASE ~destroyed BY <1>4, <2>1 DEF Reading
  <2>2. CASE reader = NewReader /\ handled = << >>
    <3>1. reader.header = NoHeader /\ reader.nonce = 1 /\ ReadSoFar = 0
      BY <1>3, <2>2 DEF NewReader, ReadSoFar
    <3>2. first[1] = 1 /\ Len(sent) \in Nat BY <1>4 DEF Encoded, OrderInv, InOrder
    <3> QED BY <3>1, <3>2 DEF InPlace, AtHeader
  <2> QED BY <1>3, <2>1, <2>2
<1>11. ReadSoFar' = ReadSoFar BY <1>1, <1>6 DEF ReadSoFar
<1>12. InPlace(first)' BY <1>1, <1>6, <1>10, <1>11 DEF InPlace, AtHeader, AtPayload
<1>13. Encoded(first, blocks)' BY <1>1, <1>4 DEF Encoded, Encoding
<1>14. Followed' BY <1>9, <1>12, <1>13 DEF Followed, B
<1> QED BY <1>7, <1>8, <1>14 DEF OrderInv

-----------------------------------------------------------------------------
(* The miner sends a frame.                                                *)

\* Its blocks come behind those there are, and its frame behind those sent.
LEMMA MinerKeepsOrder ==
    ASSUME OrderInv, NEW length \in PayloadLength, MinerSends(length)
    PROVE  OrderInv'
<1> DEFINE type == Len(sent) + 1
<1>1. /\ Len(sent) < MaxFrames
      /\ sent' = Append(sent, FrameOf(type, length))
      /\ wire' = wire \o WriteFrame(type, length, minerNonce + 1)
      /\ minerNonce' = minerNonce + 1 + Chunks(length)
      /\ UNCHANGED <<chain, handshakeBuffer, handshake, remainder, reader, frames, handled, destroyed>>
  BY DEF MinerSends, Chunks, PartsOf, inboundVars, endVars
<1>2. PICK first, blocks : /\ Encoded(first, blocks) /\ Carry(Bytes(blocks))
                           /\ Reading => InPlace(first)
  BY DEF OrderInv, Followed
<1>3. PICK c \in Nat : c = Chunks(length)
  <2>1. length \in Nat /\ MaxChunk \in Nat \ {0} BY SizeAssumption
  <2> QED BY <2>1, PartsFit DEF Chunks
<1>4. PICK n \in Nat : n = minerNonce /\ DOMAIN blocks = 1..n BY <1>2 DEF Encoded
<1>5. PICK k \in Nat : k = Len(sent) /\ sent \in Seq(Frame) BY DEF OrderInv, InOrder
<1>6. minerNonce' = n + 1 + c BY <1>1, <1>3, <1>4
<1> DEFINE text(m) == IF m = n + 1 THEN <<Header(type, length)>>
                                   ELSE Parts(Payload(type, length), MaxChunk)[m - (n + 1)]
           newBlocks == [m \in 1..(n + 1 + c) |-> IF m <= n THEN blocks[m] ELSE text(m)]
           newFirst == [j \in 1..(k + 2) |-> IF j <= k + 1 THEN first[j] ELSE n + 2 + c]
<1>7. PICK blocks2 :
      /\ DOMAIN blocks2 = 1..(n + 1 + c) /\ \A m \in 1..n : blocks2[m] = blocks[m]
      /\ blocks2[n + 1] = <<Header(type, length)>>
      /\ \A i \in 1..c : blocks2[n + 1 + i] = Parts(Payload(type, length), MaxChunk)[i]
  <2>1. \A m \in 1..n : m \in 1..(n + 1 + c) BY <1>3
  <2>2. n + 1 \in 1..(n + 1 + c) /\ ~(n + 1 <= n) BY <1>3
  <2>3. \A i \in 1..c : /\ n + 1 + i \in 1..(n + 1 + c) /\ ~(n + 1 + i <= n)
                        /\ n + 1 + i # n + 1 /\ (n + 1 + i) - (n + 1) = i
    BY <1>3
  <2>4. \A m \in 1..(n + 1 + c) : newBlocks[m] = IF m <= n THEN blocks[m] ELSE text(m) OBVIOUS
  <2>5. \A m \in 1..n : newBlocks[m] = blocks[m] BY <2>1, <2>4
  <2>6. newBlocks[n + 1] = text(n + 1) BY <2>2, <2>4
  <2>7. \A i \in 1..c : newBlocks[n + 1 + i] = text(n + 1 + i) BY <2>3, <2>4
  <2>8. \A i \in 1..c : text(n + 1 + i) = Parts(Payload(type, length), MaxChunk)[i] BY <2>3
  <2>9. DOMAIN newBlocks = 1..(n + 1 + c) OBVIOUS
  <2> HIDE DEF newBlocks, text
  <2>10. text(n + 1) = <<Header(type, length)>> BY DEF text
  <2> QED BY <2>5, <2>6, <2>7, <2>8, <2>9, <2>10
<1>8. PICK first2 :
      /\ first2 \in [1..(k + 2) -> Nat \ {0}]
      /\ \A j \in 1..(k + 1) : first2[j] = first[j]
      /\ first2[k + 2] = n + 2 + c
  <2>1. first \in [1..(k + 1) -> Nat \ {0}] BY <1>2, <1>5 DEF Encoded
  <2>2. n + 2 + c \in Nat \ {0} BY <1>3
  <2>3. /\ newFirst \in [1..(k + 2) -> Nat \ {0}]
        /\ \A j \in 1..(k + 1) : newFirst[j] = first[j]
        /\ newFirst[k + 2] = n + 2 + c
    BY <2>1, <2>2
  <2> HIDE DEF newFirst
  <2> QED BY <2>3
<1> HIDE DEF newBlocks, newFirst, text
<1>9. sent' \in Seq(Frame) /\ Len(sent') = k + 1 /\ \A i \in 1..k : sent'[i] = sent[i]
  <2>1. FrameOf(type, length) \in Frame
    <3>1. type \in 1..MaxFrames BY <1>1, <1>5, BoundAssumption
    <3> QED BY <3>1 DEF Frame
  <2> QED BY <1>1, <1>5, <2>1
<1>10. sent'[k + 1] = FrameOf(k + 1, length) BY <1>1, <1>5
<1>11. Bytes(blocks) \subseteq Bytes(blocks2)
  <2>1. 1..n \subseteq 1..(n + 1 + c) BY <1>3
  <2> QED BY <1>4, <1>7, <2>1, BytesGrow
<1>12. WriteFrame(type, length, n + 1) \in Seq(Bytes(blocks2))
  <2>1. (n + 1)..(n + 1 + Chunks(length)) \subseteq DOMAIN blocks2 BY <1>3, <1>7
  <2>2. BlocksOf(blocks2, n + 1, type, length) BY <1>3, <1>7 DEF BlocksOf
  <2>3. type \in Nat /\ length \in Nat /\ n + 1 \in Nat BY <1>5, SizeAssumption
  <2> QED BY <2>1, <2>2, <2>3, FrameBytes
<1> DEFINE B == Bytes(blocks) C == Bytes(blocks2)
<1> HIDE DEF B, C
<1>13. Carry(C)'
  <2>1. Seq(B) \subseteq Seq(C) /\ Seq(Seq(B)) \subseteq Seq(Seq(C))
    BY <1>11, SeqMonotonic DEF B, C
  <2>2. Carry(C)
    <3>1. Carry(B) BY <1>2 DEF B
    <3>2. Readers(B) \subseteq Readers(C) BY <2>1 DEF Readers
    <3> QED BY <2>1, <3>1, <3>2 DEF Carry
  <2>3. wire' \in Seq(C)
    <3>1. wire \in Seq(C) BY <2>2 DEF Carry
    <3>2. WriteFrame(type, length, n + 1) \in Seq(C) BY <1>12 DEF C
    <3> QED BY <1>1, <1>4, <3>1, <3>2, ConcatProperties
  <2> QED BY <1>1, <2>2, <2>3 DEF Carry
<1>14. Encoded(first2, blocks2)'
  <2>1. first[1] = 1 /\ first[k + 1] = n + 1 BY <1>2, <1>4, <1>5 DEF Encoded
  <2>2. first2[1] = 1 /\ first2[k + 1] = n + 1
    <3>1. 1 \in 1..(k + 1) /\ k + 1 \in 1..(k + 1) OBVIOUS
    <3> QED BY <1>8, <2>1, <3>1
  <2>3. ASSUME NEW j \in 1..k
        PROVE  \E l \in PayloadLength : Encoding(first2, blocks2, j, l)'
    <3>1. PICK l \in PayloadLength : Encoding(first, blocks, j, l) BY <1>2, <1>5 DEF Encoded
    <3>2. PICK d \in Nat : d = Chunks(l)
      <4>1. l \in Nat /\ MaxChunk \in Nat \ {0} BY SizeAssumption
      <4> QED BY <4>1, PartsFit DEF Chunks
    <3>3. /\ sent[j] = FrameOf(j, l) /\ first[j + 1] = first[j] + 1 + d
          /\ first[j + 1] <= n + 1 /\ BlocksOf(blocks, first[j], j, l)
      BY <1>4, <3>1, <3>2 DEF Encoding
    <3>4. first2[j] = first[j] /\ first2[j + 1] = first[j + 1]
      <4>1. j \in 1..(k + 1) /\ j + 1 \in 1..(k + 1) OBVIOUS
      <4> QED BY <1>8, <4>1
    <3>5. first[j] \in Nat \ {0}
      <4>1. j \in 1..(Len(sent) + 1) BY <1>5
      <4> QED BY <1>2, <4>1 DEF Encoded
    <3>6. BlocksOf(blocks2, first[j], j, l)
      <4>1. first[j] \in 1..n /\ \A i \in 1..d : first[j] + i \in 1..n BY <3>2, <3>3, <3>5
      <4>2. blocks2[first[j]] = blocks[first[j]] BY <1>7, <4>1
      <4>3. \A i \in 1..d : blocks2[first[j] + i] = blocks[first[j] + i] BY <1>7, <4>1
      <4> QED BY <3>2, <3>3, <4>2, <4>3 DEF BlocksOf
    <3>7. sent'[j] = sent[j] /\ first2[j + 1] <= minerNonce' + 1 BY <1>3, <1>6, <1>9, <3>3, <3>4, <3>5
    <3> QED BY <3>2, <3>3, <3>4, <3>6, <3>7 DEF Encoding
  <2>4. Encoding(first2, blocks2, k + 1, length)'
    <3>1. BlocksOf(blocks2, n + 1, k + 1, length) BY <1>3, <1>5, <1>7 DEF BlocksOf
    <3>2. first2[k + 2] = first2[k + 1] + 1 + Chunks(length) BY <1>3, <1>8, <2>2
    <3>3. first2[k + 2] <= minerNonce' + 1 BY <1>3, <1>6, <1>8
    <3>4. (k + 1) + 1 = k + 2 OBVIOUS
    <3> QED BY <1>10, <2>2, <3>1, <3>2, <3>3, <3>4 DEF Encoding
  <2>5. \A j \in 1..(k + 1) : \E l \in PayloadLength : Encoding(first2, blocks2, j, l)'
    <3>1. \A j \in 1..(k + 1) : j \in 1..k \/ j = k + 1 OBVIOUS
    <3> QED BY <2>3, <2>4, <3>1
  <2>6. first2[Len(sent') + 1] = minerNonce' + 1 /\ Len(sent') + 1 = k + 2 BY <1>3, <1>6, <1>8, <1>9
  <2>7. minerNonce' \in Nat /\ DOMAIN blocks2 = 1..minerNonce' BY <1>3, <1>6, <1>7
  <2> QED BY <1>8, <1>9, <2>2, <2>5, <2>6, <2>7 DEF Encoded
<1>15. Reading' => InPlace(first2)'
  <2>1. ReadSoFar' = ReadSoFar BY <1>1 DEF ReadSoFar
  <2>2. ReadSoFar \in Nat /\ ReadSoFar <= k
    BY <1>5, ReadSoFarCounts DEF OrderInv
  <2>3. PICK r \in Nat : r = ReadSoFar + 1 /\ r <= k + 1 /\ r >= 1 BY <2>2
  <2>4. first2[r] = first[r] BY <1>8, <2>3
  <2>5. Reading' => AtHeader(first, r) \/ AtPayload(first, r)
    BY <1>1, <1>2, <2>3 DEF Reading, InPlace
  <2>6. AtHeader(first, r) => AtHeader(first2, r)'
    BY <1>1, <1>5, <1>9, <2>3, <2>4 DEF AtHeader
  <2>7. AtPayload(first, r) => AtPayload(first2, r)'
    <3> SUFFICES ASSUME AtPayload(first, r) PROVE AtPayload(first2, r)'
      OBVIOUS
    <3>1. r <= k /\ r \in 1..k BY <1>5, <2>3 DEF AtPayload
    <3>2. sent'[r] = sent[r] /\ r <= Len(sent') BY <1>9, <3>1
    <3> QED BY <1>1, <2>4, <3>2 DEF AtPayload
  <2> QED BY <2>1, <2>3, <2>5, <2>6, <2>7 DEF InPlace
<1>16. Followed' BY <1>13, <1>14, <1>15 DEF Followed, C
<1>17. InOrder'
  <2>1. /\ handled \in Seq(Frame) /\ frames \in Seq(Frame) /\ reader.frames \in Seq(Frame)
        /\ Len(handled) + Len(frames) + Len(reader.frames) <= k
        /\ \A i \in 1..Len(handled) : handled[i] = sent[i]
        /\ \A i \in 1..Len(frames) : frames[i] = sent[Len(handled) + i]
        /\ \A i \in 1..Len(reader.frames) :
             reader.frames[i] = sent[Len(handled) + Len(frames) + i]
    BY <1>5 DEF OrderInv, InOrder, ReadSoFar
  <2>2. PICK h, f, x \in Nat : h = Len(handled) /\ f = Len(frames) /\ x = Len(reader.frames)
    BY <2>1
  <2>3. h + f + x <= k BY <2>1, <2>2
  <2>4. \A i \in 1..h : handled[i] = sent'[i]
    <3>1. \A i \in 1..h : i \in 1..k BY <2>3
    <3> QED BY <1>9, <2>1, <2>2, <3>1
  <2>5. \A i \in 1..f : frames[i] = sent'[h + i]
    <3>1. \A i \in 1..f : h + i \in 1..k BY <2>3
    <3> QED BY <1>9, <2>1, <2>2, <3>1
  <2>6. \A i \in 1..x : reader.frames[i] = sent'[h + f + i]
    <3>1. \A i \in 1..x : h + f + i \in 1..k BY <2>3
    <3> QED BY <1>9, <2>1, <2>2, <3>1
  <2>7. h + f + x <= Len(sent') BY <1>9, <2>3
  <2> QED BY <1>1, <1>9, <2>1, <2>2, <2>4, <2>5, <2>6, <2>7 DEF InOrder, ReadSoFar
<1>18. Batches' BY <1>1 DEF OrderInv, Batches
<1> QED BY <1>16, <1>17, <1>18 DEF OrderInv

-----------------------------------------------------------------------------
(* The reader reads.                                                       *)

\* What the frame that is next has for blocks.
LEMMA NextFrameIs ==
    ASSUME InOrder, NEW first, NEW blocks, Encoded(first, blocks), NEW r,
           r = ReadSoFar + 1, r <= Len(sent)
    PROVE  /\ r \in 1..Len(sent) /\ first[r] \in Nat \ {0}
           /\ \E length \in PayloadLength : Encoding(first, blocks, r, length)
<1>1. ReadSoFar \in Nat /\ Len(sent) \in Nat BY ReadSoFarCounts
<1>2. r \in 1..Len(sent) BY <1>1
<1>3. r \in 1..(Len(sent) + 1) BY <1>1, <1>2
<1> QED BY <1>2, <1>3 DEF Encoded

\* Frames of different lengths differ.
LEMMA FrameLength ==
    ASSUME NEW k, NEW l \in Nat, NEW m \in Nat, FrameOf(k, l) = FrameOf(k, m)
    PROVE  l = m
<1>1. FrameOf(k, l).payload = FrameOf(k, m).payload OBVIOUS
<1>2. Payload(k, l) = Payload(k, m) BY <1>1 DEF FrameOf
<1>3. Payload(k, l) \in Seq({<<"payload", k, i>> : i \in Nat}) /\ Len(Payload(k, l)) = l
  <2>1. Payload(k, l) \in [1..l -> {<<"payload", k, i>> : i \in Nat}] BY DEF Payload
  <2>2. Payload(k, l) = [i \in 1..l |-> <<"payload", k, i>>] BY DEF Payload
  <2> QED BY <2>1, <2>2
<1>4. Len(Payload(k, m)) = m
  <2>1. Payload(k, m) \in [1..m -> {<<"payload", k, i>> : i \in Nat}] BY DEF Payload
  <2>2. Payload(k, m) = [i \in 1..m |-> <<"payload", k, i>>] BY DEF Payload
  <2> QED BY <2>1, <2>2
<1> QED BY <1>2, <1>3, <1>4

\* The bytes taken from the buffer.
LEMMA NextBytesTyped ==
    ASSUME NEW B, reader \in Readers(B), HasBytes
    PROVE  /\ NextSize \in Nat
           /\ NextBytes \in Seq(B) /\ Len(NextBytes) = NextSize
           /\ BytesBehind \in Seq(B)
<1>1. reader.buf \in Seq(B) /\ Len(reader.buf) \in Nat /\ reader.header.length \in Nat
  BY DEF Readers
<1>2. PICK size \in Nat : size = NextSize
  <2>1. HeaderSize + MacSize \in Nat BY SizeAssumption
  <2>2. CiphertextLength(reader.header.length) \in Nat
    <3>1. MaxChunk \in Nat \ {0} /\ MacSize \in Nat BY SizeAssumption
    <3>2. PICK p \in Nat : p = PartsOf(reader.header.length, MaxChunk) BY <1>1, <3>1, PartsFit
    <3>3. p * MacSize \in Nat BY <3>1, <3>2, Times
    <3> QED BY <1>1, <3>2, <3>3 DEF CiphertextLength, PartsOf
  <2> QED BY <2>1, <2>2 DEF NextSize
<1>3. size <= Len(reader.buf) BY <1>2 DEF HasBytes
<1>4. NextBytes = SubSeq(reader.buf, 1, size) BY <1>2 DEF NextBytes
<1>5. NextBytes \in Seq(B) /\ Len(NextBytes) = size
  <2>1. \A i \in 1..size : reader.buf[i] \in B BY <1>1, <1>3
  <2> QED BY <1>4, <2>1, <1>3, SubSeqProperties
<1>6. BytesBehind \in Seq(B) BY <1>1, <1>2, SubSeqIn DEF BytesBehind
<1> QED BY <1>2, <1>5, <1>6

\* The blocks taken are not empty, and each is one the miner has encrypted
\* with the nonce the reader expects.
LEMMA NextBlocksLegible ==
    ASSUME NEW blocks, reader \in Readers(Bytes(blocks)), HasBytes, Legible, NEW c \in Nat,
           NextSize <= c * (MaxChunk + MacSize),
           c * (MaxChunk + MacSize) < NextSize + MaxChunk + MacSize
    PROVE  /\ Len(NextBlocks) = c /\ DOMAIN NextBlocks = 1..c
           /\ \A i \in 1..c : /\ reader.nonce + i - 1 \in DOMAIN blocks
                              /\ Text(NextBlocks[i]) = blocks[reader.nonce + i - 1]
<1> DEFINE size == MaxChunk + MacSize  B == Bytes(blocks)
<1>1. size \in Nat \ {0} BY SizeAssumption
<1> HIDE DEF B
<1>2. NextSize \in Nat /\ NextBytes \in Seq(B) /\ Len(NextBytes) = NextSize
  BY NextBytesTyped DEF B
<1>3. PartsOf(Len(NextBytes), size) = c
  <2>1. c * size < NextSize + size BY <1>1, <1>2, SizeAssumption
  <2> HIDE DEF size
  <2> QED BY <1>1, <1>2, <2>1, PartsUnique DEF size
<1>4. /\ NextBlocks \in Seq(Seq(B)) /\ Len(NextBlocks) = c
      /\ \A i \in 1..c : NextBlocks[i] \in Seq(B) /\ Len(NextBlocks[i]) >= 1
  BY <1>1, <1>2, <1>3, PartsLaws DEF NextBlocks
<1>5. DOMAIN NextBlocks = 1..c BY <1>4
<1>6. ASSUME NEW i \in 1..c
      PROVE  /\ reader.nonce + i - 1 \in DOMAIN blocks
             /\ Text(NextBlocks[i]) = blocks[reader.nonce + i - 1]
  <2>1. Decrypts(NextBlocks[i], reader.nonce + i - 1) BY <1>5 DEF Legible
  <2>2. reader.nonce + i - 1 \in Nat \ {0} BY DEF Readers
  <2>3. NextBlocks[i] \in Seq(Bytes(blocks)) /\ Len(NextBlocks[i]) >= 1 BY <1>4 DEF B
  <2> QED BY <2>1, <2>2, <2>3, DecryptsTheBlock
<1> QED BY <1>4, <1>5, <1>6

\* In the place of a header the reader finds the one of the frame that is next.
LEMMA HeaderFound ==
    ASSUME InOrder, NEW first, NEW blocks, Encoded(first, blocks),
           reader \in Readers(Bytes(blocks)), HasBytes, Legible,
           reader.header = NoHeader, InPlace(first)
    PROVE  \E length \in PayloadLength :
             LET k == ReadSoFar + 1 IN
             /\ k <= Len(sent) /\ sent[k] = FrameOf(k, length)
             /\ DecodeFrameHeader(Plaintext[1]) = [type |-> k, length |-> length]
             /\ Len(NextBlocks) = 1 /\ reader.nonce = first[k]
<1>1. PICK r \in Nat : r = ReadSoFar + 1 /\ r >= 1 /\ r <= Len(sent) + 1 /\ Len(sent) \in Nat
  BY ReadSoFarCounts
<1>2. reader.nonce = first[r]
  <2>1. ~AtPayload(first, r)
    <3>1. NoHeader.type = 0 /\ r # 0 BY <1>1 DEF NoHeader
    <3> QED BY <3>1 DEF AtPayload
  <2> QED BY <1>1, <2>1 DEF InPlace, AtHeader
<1>3. /\ Len(NextBlocks) = 1 /\ DOMAIN NextBlocks = 1..1
      /\ first[r] \in DOMAIN blocks /\ Text(NextBlocks[1]) = blocks[first[r]]
  <2>1. /\ NextSize <= 1 * (MaxChunk + MacSize)
        /\ 1 * (MaxChunk + MacSize) < NextSize + MaxChunk + MacSize
    BY SizeAssumption DEF NextSize
  <2>2. /\ Len(NextBlocks) = 1 /\ DOMAIN NextBlocks = 1..1
        /\ \A i \in 1..1 : /\ reader.nonce + i - 1 \in DOMAIN blocks
                           /\ Text(NextBlocks[i]) = blocks[reader.nonce + i - 1]
    BY <2>1, NextBlocksLegible
  <2>3. reader.nonce + 1 - 1 = reader.nonce BY DEF Readers
  <2> QED BY <1>2, <2>2, <2>3
<1>4. r <= Len(sent)
  <2>1. first[r] <= minerNonce BY <1>3 DEF Encoded
  <2>2. first[Len(sent) + 1] = minerNonce + 1 /\ minerNonce \in Nat BY DEF Encoded
  <2>3. r # Len(sent) + 1 BY <2>1, <2>2
  <2> QED BY <1>1, <2>3
<1>5. PICK length \in PayloadLength : Encoding(first, blocks, r, length)
  BY <1>1, <1>4, NextFrameIs
<1>6. Text(NextBlocks[1]) = <<Header(r, length)>> BY <1>3, <1>5 DEF Encoding, BlocksOf
<1>7. Plaintext = <<Header(r, length)>>
  <2> DEFINE texts == [i \in DOMAIN NextBlocks |-> Text(NextBlocks[i])]
  <2>1. texts = << <<Header(r, length)>> >> BY <1>3, <1>6
  <2> HIDE DEF texts
  <2>2. Len(texts) = 1 /\ texts[1] = <<Header(r, length)>> BY <2>1
  <2>3. FlattenSeq(texts) = texts[1] BY <2>2, FlattenOne
  <2> QED BY <2>2, <2>3 DEF Plaintext, texts
<1>8. DecodeFrameHeader(Plaintext[1]) = [type |-> r, length |-> length]
  BY <1>7 DEF DecodeFrameHeader, Header
<1> QED BY <1>1, <1>2, <1>3, <1>4, <1>5, <1>8 DEF Encoding

\* Behind a header it finds the payload of that frame.
LEMMA PayloadFound ==
    ASSUME InOrder, NEW first, NEW blocks, Encoded(first, blocks),
           reader \in Readers(Bytes(blocks)), HasBytes, Legible,
           reader.header # NoHeader, InPlace(first)
    PROVE  LET k == ReadSoFar + 1 IN
           /\ k <= Len(sent)
           /\ [type |-> reader.header.type, payload |-> Plaintext] = sent[k]
           /\ reader.nonce + Len(NextBlocks) = first[k + 1]
<1>1. PICK r \in Nat : r = ReadSoFar + 1 /\ Len(sent) \in Nat BY ReadSoFarCounts
<1>2. AtPayload(first, r) BY <1>1 DEF InPlace, AtHeader
<1>3. PICK l \in PayloadLength :
        sent[r] = FrameOf(r, l) /\ reader.header = [type |-> r, length |-> l]
  BY <1>2 DEF AtPayload
<1>4. r <= Len(sent) /\ reader.nonce = first[r] + 1 BY <1>2 DEF AtPayload
<1>5. r \in 1..Len(sent) /\ first[r] \in Nat \ {0} /\ l \in Nat
  BY <1>1, <1>4, NextFrameIs, SizeAssumption
<1>6. Encoding(first, blocks, r, l)
  <2>1. PICK m \in PayloadLength : Encoding(first, blocks, r, m) BY <1>1, <1>4, NextFrameIs
  <2>2. m \in Nat BY SizeAssumption
  <2>3. FrameOf(r, l) = FrameOf(r, m) BY <1>3, <2>1 DEF Encoding
  <2> QED BY <1>5, <2>1, <2>2, <2>3, FrameLength
<1>7. PICK c \in Nat : /\ c = PartsOf(l, MaxChunk)
                       /\ l <= c * MaxChunk /\ c * MaxChunk < l + MaxChunk
  BY <1>5, SizeAssumption, PartsFit
<1>8. c = Chunks(l) BY <1>7 DEF Chunks
<1>9. /\ NextSize <= c * (MaxChunk + MacSize)
      /\ c * (MaxChunk + MacSize) < NextSize + MaxChunk + MacSize
  <2>1. NextSize = l + c * MacSize
    BY <1>3, <1>7 DEF NextSize, CiphertextLength, PartsOf
  <2>2. PICK a, b, d, e \in Nat : a = c * MaxChunk /\ b = c * MacSize /\ d = MaxChunk /\ e = MacSize
    BY SizeAssumption, Times
  <2>3. c * (MaxChunk + MacSize) = a + b
    <3>1. c \in Int /\ MaxChunk \in Int /\ MacSize \in Int BY SizeAssumption
    <3>2. c * (MaxChunk + MacSize) = c * MaxChunk + c * MacSize BY <3>1
    <3> QED BY <2>2, <3>2
  <2>4. l <= a /\ a < l + d /\ NextSize = l + b BY <1>7, <2>1, <2>2
  <2>5. NextSize <= a + b /\ a + b < NextSize + d + e
    <3>1. e \in Nat /\ b \in Nat /\ l \in Nat BY <1>5
    <3> QED BY <2>4, <3>1
  <2> QED BY <2>2, <2>3, <2>5
<1>10. /\ Len(NextBlocks) = c /\ DOMAIN NextBlocks = 1..c
       /\ \A i \in 1..c : Text(NextBlocks[i]) = blocks[reader.nonce + i - 1]
  BY <1>9, NextBlocksLegible
<1> DEFINE chunks == Parts(Payload(r, l), MaxChunk)
<1>11. /\ Payload(r, l) \in Seq(PlainByte) /\ MaxChunk \in Nat \ {0}
       /\ chunks = [i \in 1..c |-> chunks[i]]
  <2>1. Payload(r, l) \in Seq(PlainByte) /\ Len(Payload(r, l)) = l BY <1>5, PayloadLaws
  <2>2. MaxChunk \in Nat \ {0} BY SizeAssumption
  <2>3. chunks \in Seq(Seq(PlainByte)) /\ Len(chunks) = c
    BY <1>7, <2>1, <2>2, PartsLaws
  <2> HIDE DEF chunks
  <2>4. chunks = [i \in 1..c |-> chunks[i]] BY <2>3
  <2> QED BY <2>1, <2>2, <2>4
<1>12. ASSUME NEW i \in 1..c PROVE Text(NextBlocks[i]) = chunks[i]
  <2>1. reader.nonce + i - 1 = first[r] + i BY <1>4, <1>5
  <2>2. blocks[first[r] + i] = chunks[i] BY <1>6, <1>8 DEF Encoding, BlocksOf
  <2> QED BY <1>10, <2>1, <2>2
<1> HIDE DEF chunks
<1>13. Plaintext = Payload(r, l)
  <2>1. [i \in DOMAIN NextBlocks |-> Text(NextBlocks[i])] = chunks BY <1>10, <1>11, <1>12
  <2>2. FlattenSeq(chunks) = Payload(r, l) BY <1>11, FlattenParts DEF chunks
  <2> QED BY <2>1, <2>2 DEF Plaintext
<1>14. [type |-> reader.header.type, payload |-> Plaintext] = sent[r]
  BY <1>3, <1>13 DEF FrameOf
<1>15. reader.nonce + Len(NextBlocks) = first[r + 1]
  BY <1>4, <1>6, <1>8, <1>10 DEF Encoding
<1> QED BY <1>1, <1>4, <1>14, <1>15

\* A header or a payload is read: the reader stands behind it.
LEMMA ReadKeepsOrder ==
    ASSUME OrderInv, FeedLoop, Read
    PROVE  OrderInv'
<1>1. /\ UNCHANGED <<wire, sent, minerNonce, chain, handshakeBuffer, handshake, remainder, handled,
                     frames, destroyed>>
      /\ reader.feeding /\ HasBytes /\ Legible
  BY DEF FeedLoop, Read, minerVars
<1>2. handshake = "complete" /\ frames = << >>
  BY <1>1 DEF OrderInv, Batches, NewReader
<1>3. PICK first, blocks : /\ Encoded(first, blocks) /\ Carry(Bytes(blocks)) /\ InPlace(first)
  BY <1>1 DEF OrderInv, Followed, Reading
<1> DEFINE B == Bytes(blocks)
<1>4. reader \in Readers(B) BY <1>3 DEF Carry
<1>5. Encoded(first, blocks)' BY <1>1, <1>3 DEF Encoded, Encoding
<1>6. PICK r \in Nat : r = ReadSoFar + 1 BY ReadSoFarCounts DEF OrderInv
<1>7. BytesBehind \in Seq(B) BY <1>1, <1>4, NextBytesTyped
<1> HIDE DEF B
<1> DEFINE consumed == [reader EXCEPT !.buf = BytesBehind, !.nonce = @ + Len(NextBlocks)]
<1>8. /\ consumed.header = reader.header /\ consumed.frames = reader.frames
      /\ consumed.feeding = reader.feeding /\ consumed.nonce = reader.nonce + Len(NextBlocks)
      /\ Len(NextBlocks) \in Nat => consumed \in Readers(B)
  <2>1. PICK next : next = reader.nonce + Len(NextBlocks) OBVIOUS
  <2>2. consumed = [reader EXCEPT !.buf = BytesBehind, !.nonce = next] BY <2>1
  <2>3. Len(NextBlocks) \in Nat => next \in Nat \ {0} BY <1>4, <2>1 DEF Readers
  <2> HIDE DEF consumed
  <2>4. next \in Nat \ {0} => consumed \in Readers(B) BY <1>4, <1>7, <2>2 DEF Readers
  <2> QED BY <1>4, <2>1, <2>2, <2>3, <2>4 DEF Readers
<1>9. reader' = IF reader.header = NoHeader
                  THEN [consumed EXCEPT !.header = DecodeFrameHeader(Plaintext[1])]
                  ELSE [consumed EXCEPT !.header = NoHeader,
                          !.frames = Append(@, [type |-> reader.header.type, payload |-> Plaintext])]
  BY DEF Read
<1> HIDE DEF consumed
<1>10. CASE reader.header = NoHeader
  <2>1. PICK length \in PayloadLength :
          /\ r <= Len(sent) /\ sent[r] = FrameOf(r, length)
          /\ DecodeFrameHeader(Plaintext[1]) = [type |-> r, length |-> length]
          /\ Len(NextBlocks) = 1 /\ reader.nonce = first[r]
    <3>1. reader \in Readers(Bytes(blocks)) BY <1>4 DEF B
    <3> QED BY <1>1, <1>3, <1>6, <1>10, <3>1, HeaderFound DEF OrderInv
  <2>2. reader' = [consumed EXCEPT !.header = [type |-> r, length |-> length]]
    BY <1>9, <1>10, <2>1
  <2>3. consumed \in Readers(B) /\ length \in Nat BY <1>8, <2>1, SizeAssumption
  <2>4. /\ reader' \in Readers(B)
        /\ reader'.frames = reader.frames /\ reader'.feeding = reader.feeding
        /\ reader'.nonce = first[r] + 1 /\ reader'.header = [type |-> r, length |-> length]
    BY <1>8, <2>1, <2>2, <2>3 DEF Readers
  <2>5. InOrder' BY <1>1, <2>4 DEF OrderInv, InOrder, ReadSoFar
  <2>6. Batches' BY <1>1, <1>2, <2>4 DEF OrderInv, Batches
  <2>7. Carry(B)' BY <1>1, <1>3, <2>4 DEF Carry, B
  <2>8. ReadSoFar' = ReadSoFar BY <1>1, <2>4 DEF ReadSoFar
  <2>9. AtPayload(first, r)' BY <1>1, <2>1, <2>4 DEF AtPayload
  <2>10. InPlace(first)' BY <1>6, <2>8, <2>9 DEF InPlace
  <2> QED BY <1>5, <2>5, <2>6, <2>7, <2>10 DEF OrderInv, Followed, B
<1>11. CASE reader.header # NoHeader
  <2>1. /\ r <= Len(sent)
        /\ [type |-> reader.header.type, payload |-> Plaintext] = sent[r]
        /\ reader.nonce + Len(NextBlocks) = first[r + 1]
    <3>1. reader \in Readers(Bytes(blocks)) BY <1>4 DEF B
    <3> QED BY <1>1, <1>3, <1>6, <1>11, <3>1, PayloadFound DEF OrderInv
  <2>2. reader' = [consumed EXCEPT !.header = NoHeader, !.frames = Append(@, sent[r])]
    BY <1>9, <1>11, <2>1
  <2>3. sent \in Seq(Frame) /\ Len(sent) \in Nat BY DEF OrderInv, InOrder
  <2>4. sent[r] \in Frame /\ r \in 1..Len(sent)
    <3>1. r \in 1..Len(sent) BY <1>6, <2>1, <2>3, ReadSoFarCounts DEF OrderInv
    <3> QED BY <2>3, <3>1
  <2>5. consumed.nonce = first[r + 1] /\ first[r + 1] \in Nat \ {0}
    <3>1. r + 1 \in 1..(Len(sent) + 1) BY <2>3, <2>4
    <3> QED BY <1>3, <1>8, <2>1, <3>1 DEF Encoded
  <2>6. /\ reader' = [buf |-> BytesBehind, header |-> NoHeader, nonce |-> first[r + 1],
                      frames |-> Append(reader.frames, sent[r]), feeding |-> reader.feeding]
    BY <1>4, <2>1, <2>2 DEF consumed, Readers
  <2>7. Append(reader.frames, sent[r]) \in Seq(Frame) BY <2>4 DEF OrderInv, InOrder
  <2>8. reader' \in Readers(B)
    BY <1>4, <1>7, <2>5, <2>6, <2>7 DEF Readers, NoHeader
  <2>9. /\ reader'.frames = Append(reader.frames, sent[r]) /\ reader'.feeding = reader.feeding
        /\ reader'.nonce = first[r + 1] /\ reader'.header = NoHeader
    BY <2>6
  <2>10. PICK h, x \in Nat : h = Len(handled) /\ x = Len(reader.frames) /\ r = h + x + 1
    <3>1. Len(handled) \in Nat /\ Len(reader.frames) \in Nat /\ Len(frames) = 0
      BY <1>2 DEF OrderInv, InOrder
    <3>2. PICK h, x \in Nat : h = Len(handled) /\ x = Len(reader.frames) BY <3>1
    <3>3. ReadSoFar = h + 0 + x BY <3>1, <3>2 DEF ReadSoFar
    <3>4. r = h + x + 1 BY <1>6, <3>3
    <3> QED BY <3>2, <3>4
  <2>11. ReadSoFar' = r
    <3>1. Len(reader'.frames) = x + 1 BY <2>9, <2>10, <2>4 DEF OrderInv, InOrder
    <3>2. Len(handled') = h /\ Len(frames') = 0 BY <1>1, <1>2, <2>10
    <3> QED BY <2>10, <3>1, <3>2 DEF ReadSoFar
  <2>12. InOrder'
    <3>1. \A i \in 1..(x + 1) : reader'.frames[i] = sent[h + i]
      <4>1. \A i \in 1..x : reader.frames[i] = sent[h + i]
        <5>1. Len(handled) + Len(frames) = h BY <1>2, <2>10
        <5> QED BY <2>10, <5>1 DEF OrderInv, InOrder
      <4>2. reader.frames \in Seq(Frame) BY DEF OrderInv, InOrder
      <4>3. /\ \A i \in 1..x : reader'.frames[i] = reader.frames[i]
            /\ reader'.frames[x + 1] = sent[r]
        BY <2>4, <2>9, <2>10, <4>2
      <4>4. r = h + (x + 1) BY <2>10
      <4>5. \A i \in 1..(x + 1) : i \in 1..x \/ i = x + 1 OBVIOUS
      <4> QED BY <4>1, <4>3, <4>4, <4>5
    <3>2. /\ Len(reader'.frames) = x + 1 /\ reader'.frames \in Seq(Frame)
          /\ Len(handled') + Len(frames') = h
      BY <1>1, <1>2, <2>7, <2>9, <2>10 DEF OrderInv, InOrder
    <3>3. ReadSoFar' <= Len(sent') BY <1>1, <2>1, <2>11
    <3> QED BY <1>1, <1>2, <3>1, <3>2, <3>3 DEF OrderInv, InOrder
  <2>13. Batches' BY <1>1, <1>2, <2>9 DEF OrderInv, Batches
  <2>14. Carry(B)' BY <1>1, <1>3, <2>8 DEF Carry, B
  <2>15. AtHeader(first, r + 1)' BY <1>1, <2>1, <2>3, <2>9 DEF AtHeader
  <2>16. InPlace(first)' BY <2>11, <2>15 DEF InPlace
  <2> QED BY <1>5, <2>12, <2>13, <2>14, <2>16 DEF OrderInv, Followed, B
<1> QED BY <1>10, <1>11

\* The frames read before are lost, and nothing is read any more.
LEMMA ReadFailsKeepsOrder == ASSUME OrderInv, FeedLoop, ReadFails PROVE OrderInv'
<1>1. /\ UNCHANGED <<wire, sent, minerNonce, chain, handshakeBuffer, handshake, remainder, handled,
                     frames>>
      /\ destroyed' = TRUE /\ reader.feeding
      /\ reader' = [reader EXCEPT !.feeding = FALSE, !.frames = << >>]
  BY DEF FeedLoop, ReadFails, minerVars
<1>2. handshake = "complete" BY <1>1 DEF OrderInv, Batches, NewReader
<1>3. PICK C : Carry(C) BY DEF OrderInv, Followed
<1>4. reader'.frames = << >> /\ reader'.feeding = FALSE BY <1>1, <1>3 DEF Carry, Readers
<1>5. InOrder'
  <2>1. PICK h, f, x \in Nat : h = Len(handled) /\ f = Len(frames) /\ x = Len(reader.frames)
    BY DEF OrderInv, InOrder
  <2>2. ReadSoFar = h + f + x BY <2>1 DEF ReadSoFar
  <2>3. ReadSoFar <= Len(sent) /\ Len(sent) \in Nat BY ReadSoFarCounts DEF OrderInv
  <2>4. ReadSoFar' <= Len(sent')
    <3>1. Len(reader'.frames) = 0 BY <1>4
    <3>2. ReadSoFar' = h + f + 0 BY <1>1, <2>1, <3>1 DEF ReadSoFar
    <3>3. h + f + 0 <= Len(sent) BY <2>2, <2>3
    <3> QED BY <1>1, <3>2, <3>3
  <2>5. reader'.frames \in Seq(Frame) /\ Len(reader'.frames) = 0 BY <1>4
  <2> QED BY <1>1, <2>4, <2>5 DEF OrderInv, InOrder
<1>6. Batches' BY <1>1, <1>2, <1>4 DEF OrderInv, Batches
<1>7. Followed'
  <2>1. ~Reading' BY <1>1, <1>4 DEF Reading
  <2>2. ASSUME NEW B, Carry(B) PROVE Carry(B)'
    <3>1. reader \in Readers(B) /\ << >> \in Seq(Frame) BY <2>2 DEF Carry
    <3>2. reader' \in Readers(B) BY <1>1, <3>1 DEF Readers
    <3> QED BY <1>1, <2>2, <3>2 DEF Carry
  <2> QED BY <1>1, <2>1, <2>2, FollowedKept DEF OrderInv
<1> QED BY <1>5, <1>6, <1>7 DEF OrderInv

\* What was read waits to be handled.
LEMMA FeedReturnsKeepsOrder == ASSUME OrderInv, FeedLoop, FeedReturns PROVE OrderInv'
<1>1. /\ UNCHANGED <<wire, sent, minerNonce, chain, handshakeBuffer, handshake, remainder, handled,
                     destroyed>>
      /\ frames' = reader.frames /\ reader.feeding
      /\ reader' = [reader EXCEPT !.feeding = FALSE, !.frames = << >>]
  BY DEF FeedLoop, FeedReturns, minerVars
<1>2. handshake = "complete" /\ frames = << >> BY <1>1 DEF OrderInv, Batches, NewReader
<1>3. PICK C : Carry(C) BY DEF OrderInv, Followed
<1>4. /\ reader'.frames = << >> /\ reader'.feeding = FALSE
      /\ reader'.nonce = reader.nonce /\ reader'.header = reader.header
  BY <1>1, <1>3 DEF Carry, Readers
<1>5. PICK h, x \in Nat : /\ h = Len(handled) /\ x = Len(reader.frames)
                          /\ ReadSoFar = h + 0 + x /\ ReadSoFar' = h + x + 0
  <2>1. /\ Len(handled) \in Nat /\ Len(reader.frames) \in Nat
        /\ Len(frames) = 0 /\ Len(reader'.frames) = 0
    BY <1>2, <1>4 DEF OrderInv, InOrder
  <2>2. PICK h, x \in Nat : h = Len(handled) /\ x = Len(reader.frames) BY <2>1
  <2>3. ReadSoFar = h + 0 + x /\ ReadSoFar' = h + x + 0 BY <1>1, <2>1, <2>2 DEF ReadSoFar
  <2> QED BY <2>2, <2>3
<1>6. ReadSoFar' = ReadSoFar BY <1>5
<1>7. InOrder'
  <2>1. Len(handled) + Len(frames) = h
    <3>1. Len(frames) = 0 BY <1>2
    <3> QED BY <1>5, <3>1
  <2>2. \A i \in 1..x : reader.frames[i] = sent[h + i] BY <1>5, <2>1 DEF OrderInv, InOrder
  <2>3. \A i \in 1..Len(frames') : frames'[i] = sent'[Len(handled') + i] BY <1>1, <1>5, <2>2
  <2>4. reader'.frames \in Seq(Frame) /\ Len(reader'.frames) = 0 BY <1>4
  <2> QED BY <1>1, <1>6, <2>3, <2>4 DEF OrderInv, InOrder
<1>8. Batches' BY <1>1, <1>2, <1>4 DEF OrderInv, Batches
<1>9. Followed'
  <2>1. Reading' => Reading BY <1>1, <1>4 DEF Reading
  <2>2. ASSUME NEW B, Carry(B) PROVE Carry(B)'
    <3>1. reader \in Readers(B) /\ << >> \in Seq(Frame) BY <2>2 DEF Carry
    <3>2. reader' \in Readers(B) BY <1>1, <3>1 DEF Readers
    <3> QED BY <1>1, <2>2, <3>2 DEF Carry
  <2> QED BY <1>1, <1>4, <1>6, <2>1, <2>2, FollowedKept DEF OrderInv
<1> QED BY <1>7, <1>8, <1>9 DEF OrderInv

-----------------------------------------------------------------------------
(* The frame that is handled is the one that is next, and it was sent.     *)
LEMMA HandledNext ==
    ASSUME OrderInv, HandleFrame
    PROVE  /\ Len(handled) < Len(sent)
           /\ handled' = Append(handled, sent[Len(handled) + 1])
           /\ UNCHANGED sent
           /\ OrderInv'
<1>1. /\ UNCHANGED <<wire, sent, minerNonce, chain, handshakeBuffer, handshake, remainder, reader,
                     destroyed>>
      /\ frames # << >> /\ frames' = Tail(frames) /\ handled' = Append(handled, Head(frames))
  BY DEF HandleFrame, NextFrame, minerVars, endVars
<1>2. handled \in Seq(Frame) /\ frames \in Seq(Frame) BY DEF OrderInv, InOrder
<1>3. /\ Len(frames') = Len(frames) - 1 /\ frames' \in Seq(Frame)
      /\ \A i \in 1..Len(frames') : frames'[i] = frames[i + 1]
      /\ Head(frames) = frames[1] /\ Head(frames) \in Frame
  BY <1>1, <1>2
<1>4. PICK h, f, x \in Nat :
        /\ h = Len(handled) /\ f = Len(frames') /\ Len(frames) = f + 1 /\ x = Len(reader.frames)
  <2>1. Len(handled) \in Nat /\ Len(frames') \in Nat /\ Len(reader.frames) \in Nat
    BY <1>2, <1>3 DEF OrderInv, InOrder
  <2>2. Len(frames) = Len(frames') + 1
    <3>1. Len(frames) \in Nat BY <1>2
    <3> QED BY <1>3, <3>1
  <2> QED BY <2>1, <2>2
<1>5. Len(handled') = h + 1 /\ handled' \in Seq(Frame) BY <1>1, <1>2, <1>3, <1>4
<1>6. ReadSoFar = h + (f + 1) + x /\ ReadSoFar' = (h + 1) + f + x
  BY <1>1, <1>4, <1>5 DEF ReadSoFar
<1>7. ReadSoFar' = ReadSoFar BY <1>6
<1>8. Head(frames) = sent[h + 1] /\ h < Len(sent)
  <2>1. 1 \in 1..Len(frames) BY <1>4
  <2>2. frames[1] = sent[h + 1] BY <1>4, <2>1 DEF OrderInv, InOrder
  <2>3. h + (f + 1) + x <= Len(sent) /\ Len(sent) \in Nat
    BY <1>6 DEF OrderInv, InOrder
  <2> QED BY <1>3, <2>2, <2>3
<1>9. InOrder'
  <2>1. \A i \in 1..(h + 1) : handled'[i] = sent[i]
    <3>1. \A i \in 1..h : handled[i] = sent[i] BY <1>4 DEF OrderInv, InOrder
    <3>2. \A i \in 1..(h + 1) : handled'[i] = IF i <= h THEN handled[i] ELSE sent[h + 1]
      BY <1>1, <1>2, <1>4, <1>8
    <3> QED BY <3>1, <3>2
  <2>2. \A i \in 1..f : frames'[i] = sent[(h + 1) + i]
    <3>1. \A i \in 1..(f + 1) : frames[i] = sent[h + i] BY <1>4 DEF OrderInv, InOrder
    <3>2. \A i \in 1..f : i + 1 \in 1..(f + 1) /\ h + (i + 1) = (h + 1) + i OBVIOUS
    <3> QED BY <1>3, <1>4, <3>1, <3>2
  <2>3. \A i \in 1..x : reader.frames[i] = sent[(h + 1) + f + i]
    <3>1. Len(handled) + Len(frames) = h + (f + 1) BY <1>4
    <3>2. \A i \in 1..x : reader.frames[i] = sent[h + (f + 1) + i]
      BY <1>4, <3>1 DEF OrderInv, InOrder
    <3>3. h + (f + 1) = (h + 1) + f OBVIOUS
    <3> QED BY <3>2, <3>3
  <2>4. ReadSoFar' <= Len(sent') /\ sent' \in Seq(Frame) BY <1>1, <1>7 DEF OrderInv, InOrder
  <2>5. reader' = reader /\ sent' = sent /\ reader.frames \in Seq(Frame)
    BY <1>1 DEF OrderInv, InOrder
  <2> QED BY <1>3, <1>4, <1>5, <2>1, <2>2, <2>3, <2>4, <2>5 DEF InOrder
<1>10. Batches' BY <1>1 DEF OrderInv, Batches
<1>11. Followed'
  <2>1. \A B : Carry(B) => Carry(B)' BY <1>1 DEF Carry
  <2>2. Reading' => Reading BY <1>1 DEF Reading
  <2> QED BY <1>1, <1>7, <2>1, <2>2, FollowedKept DEF OrderInv
<1> QED BY <1>1, <1>4, <1>8, <1>9, <1>10, <1>11 DEF OrderInv

\* What the tasks, the socket and the ends of the session do beside it.
LEMMA OthersKeepOrder ==
    ASSUME OrderInv, IInv,
           \/ WriteAct2 \/ Flush \/ Resume \/ \E w \in waiting : WriteFails(w)
           \/ Broadcast \/ Retarget \/ (Quiet /\ Catch) \/ PeerCloses \/ EndSession \/ CloseSocket
           \/ UNCHANGED vars
    PROVE  OrderInv' /\ UNCHANGED <<sent, handled>>
<1>1. destroyed \in BOOLEAN BY DEF IInv, TypeOK
<1>2. CASE Quiet /\ Catch
  <2>1. PICK task \in Task : Caught(task) BY <1>2 DEF Catch
  <2>2. UNCHANGED <<wire, sent, minerNonce, chain, handshakeBuffer, remainder, reader, handled>>
    BY <2>1 DEF Caught, minerVars
  <2>3. \/ destroyed' = TRUE /\ frames' = << >>
           /\ handshake' = IF handshake = "complete" THEN handshake ELSE "failed"
        \/ destroyed' \in {destroyed, TRUE} /\ UNCHANGED <<frames, handshake>>
    BY <2>1 DEF Caught, CaughtBroadcast, Task
  <2>4. ~reader.feeding BY <1>2 DEF Quiet
  <2>5. CASE destroyed' = TRUE /\ frames' = << >>
    <3>1. handshake' = handshake \/ (handshake # "complete" /\ handshake' # "complete")
      BY <2>3
    <3> QED BY <1>1, <2>2, <2>4, <2>5, <3>1, AsideKeepsOrder
  <2>6. CASE destroyed' \in {destroyed, TRUE} /\ UNCHANGED <<frames, handshake>>
    BY <1>1, <2>2, <2>6, AsideKeepsOrder
  <2> QED BY <2>2, <2>3, <2>5, <2>6
<1>3. CASE ~(Quiet /\ Catch)
  <2>1. UNCHANGED <<wire, sent, minerNonce, chain, handshakeBuffer, remainder, reader, handled, frames>>
    BY <1>3 DEF WriteAct2, Flush, Resume, Finish, WriteFails, Broadcast, Retarget, Write, PeerCloses,
                EndSession, CloseSocket, vars, minerVars, inboundVars
  <2>2. handshake' = handshake \/ (handshake = "act1" /\ handshake' = "act2")
    BY <1>3 DEF WriteAct2, Flush, Resume, Finish, WriteFails, Broadcast, Retarget, Write, PeerCloses,
                EndSession, CloseSocket, vars, inboundVars
  <2>3. destroyed' = destroyed \/ destroyed' = TRUE
    BY <1>3 DEF WriteAct2, Flush, Resume, Finish, WriteFails, Broadcast, Retarget, Write, PeerCloses,
                EndSession, CloseSocket, vars, endVars
  <2> QED BY <1>1, <2>1, <2>2, <2>3, AsideKeepsOrder
<1> QED BY <1>2, <1>3

\* Each step is one of the abstract channel, or none of its own.
LEMMA OrderStep ==
    IInv /\ OrderInv /\ [Next]_vars => OrderInv' /\ [Channel!Next]_<<sent, handled>>
<1> SUFFICES ASSUME IInv, OrderInv, [Next]_vars
             PROVE  OrderInv' /\ (Channel!Next \/ UNCHANGED <<sent, handled>>)
  OBVIOUS
<1>1. destroyed \in BOOLEAN BY DEF IInv, TypeOK
<1>2. CASE FeedLoop
  <2>1. OrderInv'
    BY <1>2, ReadKeepsOrder, ReadFailsKeepsOrder, FeedReturnsKeepsOrder DEF FeedLoop
  <2> QED BY <1>2, <2>1 DEF FeedLoop, minerVars
<1>3. ASSUME NEW length \in PayloadLength, MinerSends(length)
      PROVE  OrderInv' /\ Channel!Next
  <2>1. sent' = Append(sent, FrameOf(Len(sent) + 1, length)) /\ UNCHANGED handled
    BY <1>3 DEF MinerSends, inboundVars
  <2>2. FrameOf(Len(sent) + 1, length) \in Frame
    <3>1. Len(sent) + 1 \in 1..MaxFrames
      <4>1. Len(sent) \in Nat /\ Len(sent) < MaxFrames BY <1>3 DEF OrderInv, InOrder, MinerSends
      <4> QED BY <4>1, BoundAssumption
    <3> QED BY <3>1 DEF Frame
  <2>3. Channel!Send BY <2>1, <2>2 DEF Channel!Send
  <2> QED BY <1>3, <2>3, MinerKeepsOrder DEF Channel!Next
<1>4. CASE Damage \/ Arrive \/ DropData \/ HandleHandshakeData
  <2>1. UNCHANGED <<sent, handled>>
    BY <1>4 DEF Damage, Arrive, EnqueueInbound, DropData, HandleHandshakeData, minerVars, inboundVars
  <2> QED BY <1>4, <2>1, PiecesKeepOrder
<1>5. CASE CompleteHandshake \/ HandleEncryptedData
  <2>1. UNCHANGED <<sent, handled>>
    BY <1>5 DEF CompleteHandshake, HandleEncryptedData, minerVars
  <2> QED BY <1>1, <1>5, <2>1, FeedKeepsOrder
<1>6. CASE HandleFrame
  BY <1>6, HandledNext DEF Channel!Next, Channel!Handle
<1>7. CASE \/ WriteAct2 \/ Flush \/ Resume \/ \E w \in waiting : WriteFails(w)
           \/ Broadcast \/ Retarget \/ (Quiet /\ Catch) \/ PeerCloses \/ EndSession \/ CloseSocket
           \/ UNCHANGED vars
  BY <1>7, OthersKeepOrder
<1> QED BY <1>2, <1>3, <1>4, <1>5, <1>6, <1>7 DEF Next, Concurrent, Proceed

-----------------------------------------------------------------------------
(* Whatever pieces TCP makes of the bytes and whatever is damaged on the   *)
(* way, the frames are handled whole, in the order the miner sent them     *)
(* (Sv2FrameReader, decryptWithAd, inboundChain).                          *)
THEOREM ImplementsChannel == Spec => InboundInOrder
<1>1. Init => Channel!Init BY DEF Init, Channel!Init
<1> QED
  BY <1>1, OrderInit, OrderStep, InitIInv, IInvStep, PTL DEF Spec, InboundInOrder, Channel!Spec
=============================================================================
