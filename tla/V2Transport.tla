---------------------------- MODULE V2Transport ----------------------------
(***************************************************************************)
(* The bytes of one Stratum V2 session: the Noise handshake, the frames    *)
(* read from whatever pieces TCP makes of the miner's bytes                *)
(* (Sv2FrameReader), and the frames that three kinds of tasks encrypt and  *)
(* write (sendFrame and writeRaw of StratumV2Client).  Each side decrypts  *)
(* only what was encrypted with the nonce that is next.                    *)
(*                                                                         *)
(* The pieces are handled one at a time (inboundChain), the handler of a   *)
(* frame waits for its answer to be written.  Broadcasts of job templates  *)
(* and the difficulty pass write beside it.  What a frame means is in      *)
(* V2Channels.                                                             *)
(***************************************************************************)
EXTENDS Integers, Sequences, FiniteSets, SequencesExt

CONSTANTS
    Act1Size,       \* SV2_NOISE_ACT1_SIZE
    HeaderSize,     \* SV2_HEADER_SIZE: 1, the header is a byte here
    MacSize,        \* SV2_MAC_SIZE
    MaxChunk,       \* SV2_MAX_PLAINTEXT_CHUNK
    BufferLimit,    \* DEFAULT_MAX_SOCKET_BUFFER_BYTES, in frames
    PayloadLength,  \* lengths of the payloads of a miner's frames
    MaxFrames,      \* bound: frames the miner sends
    MaxPieces,      \* bound: pieces that wait to be handled
    MaxWrites,      \* bound: frames encrypted by the pool
    MaxFaults       \* bound: bytes damaged, writes and handlers that fail, ends of the session

ASSUME SizeAssumption ==
    /\ Act1Size \in Nat \ {0} /\ HeaderSize = 1 /\ MacSize \in Nat \ {0}
    /\ MaxChunk \in Nat \ {0} /\ BufferLimit \in Nat \ {0} /\ PayloadLength \subseteq Nat
ASSUME BoundAssumption ==
    /\ MaxFrames \in Nat /\ MaxPieces \in Nat \ {0} /\ MaxWrites \in Nat /\ MaxFaults \in Nat

VARIABLES
    wire,              \* bytes on the way to the pool
    sent,              \* history: the miner's frames
    minerNonce,        \* blocks the miner has encrypted
    chain,             \* pieces in the inboundChain that wait for their turn
    handshakeBuffer,
    handshake,         \* "none", then awaits "act1" and "act2", then "complete"
    remainder,         \* the bytes behind act 1
    reader,            \* the Sv2FrameReader, and recvCipher's nonce
    frames,            \* frames read that wait for handleFrame
    handled,           \* history: the frames handleFrame was called with
    nonce,             \* sendCipher's nonce, counted in frames
    written,           \* what was given to the socket: 0 for act 2, the nonces of frames
    flushed,           \* how much of it the socket has passed on
    waiting,           \* writes whose task waits: [task, at], the place in written
    failing,           \* tasks whose write or handler failed, on the way to a catch
    destroyed,         \* of the session
    closed,            \* the socket is
    processEnded,      \* by a rejection that nothing catches
    swallowed,         \* history: PM2 only logged such a rejection
    faults

minerVars   == <<sent, minerNonce>>
inboundVars == <<chain, handshakeBuffer, handshake, remainder, reader, frames, handled>>
socketVars  == <<nonce, written, flushed, waiting>>
endVars     == <<destroyed, closed, processEnded, swallowed>>
vars == <<wire, minerVars, inboundVars, socketVars, failing, endVars, faults>>

-----------------------------------------------------------------------------
(* Frames and blocks.  A byte of plaintext is what it is for: the header,  *)
(* or one of the payload, of the frame of some type.  A byte on the wire   *)
(* is <<nonce of its block, the block's plaintext, its place in the block>>.*)

Header(type, length) == <<"header", type, length>>
Payload(type, length) == [i \in 1..length |-> <<"payload", type, i>>]
FrameOf(type, length) == [type |-> type, payload |-> Payload(type, length)]
Frame == {FrameOf(type, length) : type \in 1..MaxFrames, length \in PayloadLength}

Least(a, b) == IF a < b THEN a ELSE b

\* Consecutive parts of at most size elements.
Parts(s, size) ==
    [i \in 1..((Len(s) + size - 1) \div size) |->
        SubSeq(s, (i - 1) * size + 1, Least(i * size, Len(s)))]

\* encryptWithAd: the text and a MAC; decryptWithAd fails with another nonce or byte.
Encrypted(text, n) == [i \in 1..(Len(text) + MacSize) |-> <<n, text, i>>]
Text(cipher) == cipher[1][2]

Decrypts(cipher, n) == cipher = Encrypted(Text(cipher), n)

\* writeFrame: the header is one block, each chunk of the payload another.
WriteFrame(type, length, n) ==
    LET chunks == Parts(Payload(type, length), MaxChunk) IN
    Encrypted(<<Header(type, length)>>, n)
      \o FlattenSeq([i \in DOMAIN chunks |-> Encrypted(chunks[i], n + i)])

\* What every block of act 1 and a damaged byte look like.
Act1 == [i \in 1..Act1Size |-> <<0, <<>>, i>>]
Damaged == <<0, <<>>, 0>>

\* plaintextToCiphertextLength
CiphertextLength(length) ==
    length + ((length + MaxChunk - 1) \div MaxChunk) * MacSize

-----------------------------------------------------------------------------
(* Sv2FrameReader.  "feeding" while the loop of feed runs: nothing comes   *)
(* in between.                                                             *)

NoHeader == [type |-> 0, length |-> 0]
NewReader == [buf |-> <<>>, header |-> NoHeader, nonce |-> 1, frames |-> <<>>, feeding |-> FALSE]

DecodeFrameHeader(byte) == [type |-> byte[2], length |-> byte[3]]

\* What the reader needs next: READING_HEADER or READING_PAYLOAD.
NextSize ==
    IF reader.header = NoHeader THEN HeaderSize + MacSize
                                ELSE CiphertextLength(reader.header.length)
NextBytes == SubSeq(reader.buf, 1, NextSize)
BytesBehind == SubSeq(reader.buf, NextSize + 1, Len(reader.buf))

\* A slip: it is only read when more follows it.
HasBytesBehind == Len(reader.buf) > NextSize

HasBytes == Len(reader.buf) >= NextSize

\* decryptPayloadChunks, and the header's one block.
NextBlocks == Parts(NextBytes, MaxChunk + MacSize)
Legible == \A i \in DOMAIN NextBlocks : Decrypts(NextBlocks[i], reader.nonce + i - 1)
Plaintext == FlattenSeq([i \in DOMAIN NextBlocks |-> Text(NextBlocks[i])])

-----------------------------------------------------------------------------
Init ==
    /\ wire = Act1
    /\ sent = <<>> /\ minerNonce = 0
    /\ chain = <<>> /\ handshakeBuffer = <<>> /\ handshake = "none" /\ remainder = <<>>
    /\ reader = NewReader /\ frames = <<>> /\ handled = <<>>
    /\ nonce = 0 /\ written = <<>> /\ flushed = 0 /\ waiting = {}
    /\ failing = {}
    /\ destroyed = FALSE /\ closed = FALSE /\ processEnded = FALSE /\ swallowed = FALSE
    /\ faults = 0

Fault == faults < MaxFaults /\ faults' = faults + 1

-----------------------------------------------------------------------------
(* The miner and the wire (external).                                      *)

\* The miner has act 2, and with it the keys.
MinerSends(length) ==
    /\ flushed > 0 /\ ~closed
    /\ Len(sent) < MaxFrames
    /\ LET type == Len(sent) + 1 IN
         /\ sent' = Append(sent, FrameOf(type, length))
         /\ wire' = wire \o WriteFrame(type, length, minerNonce + 1)
    /\ minerNonce' = minerNonce + 1 + (length + MaxChunk - 1) \div MaxChunk
    /\ UNCHANGED <<inboundVars, socketVars, failing, endVars, faults>>

\* Bytes of act 1 stay whole: without it no side could read anything.
Damage ==
    /\ wire # <<>> /\ wire[1][1] > 0
    /\ Fault
    /\ wire' = <<Damaged>> \o Tail(wire)
    /\ UNCHANGED <<minerVars, inboundVars, socketVars, failing, endVars>>

\* enqueueInbound: TCP hands over the next n bytes as one piece.
EnqueueInbound(n) ==
    /\ ~closed
    /\ n <= Len(wire) /\ Len(chain) < MaxPieces
    /\ wire' = SubSeq(wire, n + 1, Len(wire))
    /\ chain' = IF destroyed THEN chain ELSE Append(chain, SubSeq(wire, 1, n))
    /\ UNCHANGED <<minerVars, handshakeBuffer, handshake, remainder, reader, frames, handled,
                   socketVars, failing, endVars, faults>>

-----------------------------------------------------------------------------
(* Writing.                                                                *)

\* The bytes not flushed yet, or those whose tasks wait, whichever are more.
Buffered ==
    LET inSocket == Len(written) - flushed  inTasks == Cardinality(waiting) IN
    IF inSocket > inTasks THEN inSocket ELSE inTasks

\* writeRaw up to its await: nothing on a session that has ended, an error
\* above the limit of the buffer.
WriteRaw(task, item) ==
    IF destroyed \/ closed THEN UNCHANGED <<written, waiting, failing>>
    ELSE IF Buffered + 1 > BufferLimit
      THEN failing' = failing \union {task} /\ UNCHANGED <<written, waiting>>
      ELSE /\ written' = Append(written, item)
           /\ waiting' = waiting \union {[task |-> task, at |-> Len(written) + 1]}
           /\ UNCHANGED failing

\* sendFrame: the frame is encrypted before anything is known of the write.
SendFrame(task) ==
    /\ nonce < MaxWrites
    /\ nonce' = nonce + 1
    /\ WriteRaw(task, nonce + 1)

Busy(task) == task \in failing \/ \E w \in waiting : w.task = task

\* The socket passes on what it holds, in order; the tasks of what was
\* passed on before have gone on.
Flush ==
    /\ ~closed
    /\ \A w \in waiting : w.at > flushed
    /\ flushed' \in (flushed + 1)..Len(written)
    /\ UNCHANGED <<wire, minerVars, inboundVars, nonce, written, waiting, failing, endVars, faults>>

\* A task goes on.  Of the writes of a batch any may be first: 'drain' is
\* emitted before the callbacks.
Finish(w) ==
    /\ w \in waiting /\ w.at <= flushed
    /\ waiting' = waiting \ {w}
    /\ UNCHANGED <<wire, minerVars, inboundVars, nonce, written, flushed, failing, endVars, faults>>

\* No write of the task is called back in time, or it is called back with an error.
WriteFails(w) ==
    /\ w \in waiting /\ w.at > flushed
    /\ Fault
    /\ waiting' = waiting \ {w}
    /\ failing' = failing \union {w.task}
    /\ UNCHANGED <<wire, minerVars, inboundVars, nonce, written, flushed, endVars>>

-----------------------------------------------------------------------------
(* The inbound chain: handleSocketData.                                    *)

Turn == chain # <<>> /\ frames = <<>> /\ ~Busy("inbound") /\ handshake \notin {"act1", "act2"}

\* A session that has ended drops the piece.
DropData ==
    /\ Turn /\ destroyed
    /\ chain' = Tail(chain)
    /\ UNCHANGED <<wire, minerVars, handshakeBuffer, handshake, remainder, reader, frames, handled,
                   socketVars, failing, endVars, faults>>

\* handleHandshakeData up to processAct1.
HandleHandshakeData ==
    LET buf == handshakeBuffer \o Head(chain) IN
    /\ Turn /\ ~destroyed /\ handshake = "none"
    /\ chain' = Tail(chain)
    /\ IF Len(buf) < Act1Size
         THEN handshakeBuffer' = buf /\ UNCHANGED <<handshake, remainder>>
         ELSE /\ handshakeBuffer' = <<>>
              /\ remainder' = SubSeq(buf, Act1Size + 1, Len(buf))
              /\ handshake' = "act1"
    /\ UNCHANGED <<wire, minerVars, reader, frames, handled, socketVars, failing, endVars, faults>>

\* processAct1 has loaded what it needs: act 2 is written as it is.
WriteAct2 ==
    /\ handshake = "act1"
    /\ handshake' = "act2"
    /\ WriteRaw("inbound", 0)
    /\ UNCHANGED <<wire, minerVars, chain, handshakeBuffer, remainder, reader, frames, handled,
                   nonce, flushed, endVars, faults>>

\* handleEncryptedData: the bytes are fed to the reader.
Feed(data) == reader' = [reader EXCEPT !.buf = @ \o data, !.feeding = TRUE]

\* Act 2 is written: the ciphers are set, and what was behind act 1 is read.
CompleteHandshake ==
    /\ handshake = "act2" /\ ~Busy("inbound")
    /\ handshake' = "complete"
    /\ remainder' = <<>>
    /\ Feed(remainder)
    /\ UNCHANGED <<wire, minerVars, chain, handshakeBuffer, frames, handled, socketVars, failing,
                   endVars, faults>>

HandleEncryptedData ==
    /\ Turn /\ ~destroyed /\ handshake = "complete"
    /\ chain' = Tail(chain)
    /\ Feed(Head(chain))
    /\ UNCHANGED <<wire, minerVars, handshakeBuffer, handshake, remainder, frames, handled,
                   socketVars, failing, endVars, faults>>

\* The loop of feed: a header or a payload is read, with the nonces its blocks take.
Read ==
    LET consumed == [reader EXCEPT !.buf = BytesBehind, !.nonce = @ + Len(NextBlocks)] IN
    /\ HasBytes /\ Legible
    /\ reader' =
         IF reader.header = NoHeader
           THEN [consumed EXCEPT !.header = DecodeFrameHeader(Plaintext[1])]
           ELSE [consumed EXCEPT !.header = NoHeader,
                   !.frames = Append(@, [type |-> reader.header.type, payload |-> Plaintext])]
    /\ UNCHANGED <<destroyed, frames>>

\* A block is not the next one of the miner: feed throws, the frames read
\* before are lost with it, and the session ends.
ReadFails ==
    /\ HasBytes /\ ~Legible
    /\ destroyed' = TRUE
    /\ reader' = [reader EXCEPT !.feeding = FALSE, !.frames = <<>>]
    /\ UNCHANGED frames

\* Until the buffer lacks bytes for what comes next.
FeedReturns ==
    /\ ~HasBytes
    /\ frames' = reader.frames
    /\ reader' = [reader EXCEPT !.feeding = FALSE, !.frames = <<>>]
    /\ UNCHANGED destroyed

FeedLoop ==
    /\ reader.feeding
    /\ Read \/ ReadFails \/ FeedReturns
    /\ UNCHANGED <<wire, minerVars, chain, handshakeBuffer, handshake, remainder, handled,
                   socketVars, failing, closed, processEnded,
                   swallowed, faults>>

\* A slip: the frames of a piece are taken from the end.
NextFrameLast == Last(frames)

NextFrame == Head(frames)

\* handleFrame: the frame is answered, or not, or its handler throws.
HandleFrame ==
    /\ frames # <<>> /\ ~Busy("inbound")
    /\ handled' = Append(handled, NextFrame)
    /\ frames' = Tail(frames)
    /\ \/ SendFrame("inbound") /\ UNCHANGED faults
       \/ UNCHANGED <<nonce, written, waiting, failing, faults>>
       \/ Fault /\ failing' = failing \union {"inbound"} /\ UNCHANGED <<nonce, written, waiting>>
    /\ UNCHANGED <<wire, minerVars, chain, handshakeBuffer, handshake, remainder, reader, flushed,
                   endVars>>

-----------------------------------------------------------------------------
(* The tasks beside it, for which a channel is needed: a broadcast or the  *)
(* difficulty pass begins, or goes on behind a write.                      *)

Write(task) ==
    /\ handled # <<>> /\ ~destroyed
    /\ SendFrame(task)
    /\ UNCHANGED <<wire, minerVars, inboundVars, flushed, endVars, faults>>

Broadcast == Write("broadcast")

\* checkDifficulty; a pass waits for its writes less long than for the next pass.
Retarget == ~Busy("retarget") /\ Write("retarget")

-----------------------------------------------------------------------------
(* Failures and the end of the session.                                    *)

\* A slip: the error of a broadcast is logged, and that is all.
CaughtBroadcastLogged == UNCHANGED destroyed

\* The catch of the broadcaster.
CaughtBroadcast == destroyed' = TRUE

\* Nothing catches what checkDifficulty throws: an unhandled rejection ends
\* the process, or is only logged where PM2 has a handler for it.
Unhandled ==
    \/ processEnded' = TRUE /\ UNCHANGED swallowed
    \/ swallowed' = TRUE /\ UNCHANGED processEnded

Caught(task) ==
    /\ task \in failing
    /\ failing' = failing \ {task}
    /\ CASE task = "inbound" ->
              /\ destroyed' = TRUE /\ frames' = <<>>
              /\ handshake' = IF handshake = "complete" THEN handshake ELSE "failed"
              /\ UNCHANGED <<processEnded, swallowed>>
         [] task = "broadcast" ->
              CaughtBroadcast /\ UNCHANGED <<frames, handshake, processEnded, swallowed>>
         [] task = "retarget" ->
              Unhandled /\ UNCHANGED <<frames, handshake, destroyed>>
    /\ UNCHANGED <<wire, minerVars, chain, handshakeBuffer, remainder, reader, handled, socketVars,
                   closed, faults>>

\* What is not flushed when the socket closes is called back with an error.
Close ==
    /\ closed' = TRUE
    /\ waiting' = {w \in waiting : w.at <= flushed}
    /\ failing' = failing \union {w.task : w \in waiting \ waiting'}

\* The miner leaves, or the connection breaks.
PeerCloses ==
    /\ ~closed
    /\ Fault
    /\ Close
    /\ UNCHANGED <<wire, minerVars, inboundVars, nonce, written, flushed, destroyed,
                   processEnded, swallowed>>

\* The listener hears of it, or the session is idle or abandoned.
EndSession ==
    /\ ~destroyed
    /\ IF closed THEN UNCHANGED faults ELSE Fault
    /\ destroyed' = TRUE
    /\ UNCHANGED <<wire, minerVars, inboundVars, socketVars, failing, closed, processEnded,
                   swallowed>>

\* destroy(), behind its last await.
CloseSocket ==
    /\ destroyed /\ ~closed
    /\ Close
    /\ UNCHANGED <<wire, minerVars, inboundVars, nonce, written, flushed, destroyed,
                   processEnded, swallowed, faults>>

-----------------------------------------------------------------------------
Task == {"inbound", "broadcast", "retarget"}

\* Everything the pool does of itself, once it can.
Arrive == \E n \in 1..Len(wire) : EnqueueInbound(n)
Proceed ==
    \/ DropData \/ HandleHandshakeData \/ WriteAct2 \/ CompleteHandshake
    \/ HandleEncryptedData \/ HandleFrame
Resume == \E w \in waiting : Finish(w)
Catch == \E task \in Task : Caught(task)

Quiet == ~processEnded /\ ~reader.feeding

Concurrent ==
    /\ Quiet
    /\ \/ \E length \in PayloadLength : MinerSends(length)
       \/ Damage \/ Arrive \/ Proceed
       \/ Flush \/ Resume \/ \E w \in waiting : WriteFails(w)
       \/ Broadcast \/ Retarget
       \/ Catch \/ PeerCloses \/ EndSession \/ CloseSocket

Next == FeedLoop \/ Concurrent

Spec == Init /\ [][Next]_vars

(* TCP delivers, promises settle, and a write is called back or times out. *)
Fairness ==
    /\ WF_vars(FeedLoop)
    /\ WF_vars(Quiet /\ Arrive) /\ WF_vars(Quiet /\ Proceed)
    /\ WF_vars(Quiet /\ Flush) /\ WF_vars(Quiet /\ Resume)
    /\ WF_vars(Quiet /\ Catch)

FairSpec == Spec /\ Fairness

-----------------------------------------------------------------------------
\* Of what the pool writes; the bytes that come in are sequences of any bytes.
TypeOK ==
    /\ handshake \in {"none", "act1", "act2", "complete", "failed"}
    /\ nonce \in 0..MaxWrites
    /\ written \in Seq(Nat)
    /\ flushed \in 0..Len(written)
    /\ waiting \subseteq [task : Task, at : Nat]
    /\ failing \subseteq Task
    /\ destroyed \in BOOLEAN /\ closed \in BOOLEAN
    /\ processEnded \in BOOLEAN /\ swallowed \in BOOLEAN
    /\ faults \in 0..MaxFaults

Channel == INSTANCE FrameChannel

(* The frames of the miner are handled as FrameChannel says: whole and in  *)
(* order, whatever pieces they come in and whatever is damaged on the way  *)
(* (Sv2FrameReader, decryptWithAd, inboundChain).                          *)
InboundInOrder == Channel!Spec

\* The session goes on, and no failure of it is on its way or was swallowed.
GoesOn == failing = {} /\ ~destroyed /\ ~closed /\ ~processEnded /\ ~swallowed

(* A session that goes on has given its socket every frame it has          *)
(* encrypted, in the order of the nonces, or the miner could decrypt       *)
(* nothing more: whatever answers, broadcasts and the difficulty pass      *)
(* write beside each other, however the buffer fills and writes fail       *)
(* (sendFrame counts the nonce before writeRaw may throw).  A failed pass  *)
(* whose rejection PM2 swallowed is excepted: the session goes on without  *)
(* the frame.                                                              *)
NonceInStep ==
    GoesOn =>
        /\ \A i \in DOMAIN written : written[i] = i - 1
        /\ nonce > 0 => nonce = Len(written) - 1

(* A frame that a miner has sent is handled, in whatever pieces it comes,  *)
(* unless the session or the process ends (feed reads all that is whole).  *)
FrameArrives ==
    \A k \in 1..MaxFrames :
        Len(sent) >= k ~> (Len(handled) >= k \/ destroyed \/ closed \/ processEnded)
=============================================================================
