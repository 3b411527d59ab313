---------------------------- MODULE AuthorityKey ----------------------------
(***************************************************************************)
(* The pool's Noise identity in one worker process (StratumV2Service): an  *)
(* authority key that miners are configured with, and a certificate signed *)
(* with it that every SV2 session shows in its handshake.  The key is      *)
(* pinned by the environment or kept in a file; rotating it writes a new   *)
(* one, makes a new certificate and drops the sessions of the old one.     *)
(* Making the server keypair is awaited: in between sessions begin, and    *)
(* rotations overtake each other.                                          *)
(*                                                                         *)
(* Keys are numbered in the order in which they are made.                  *)
(***************************************************************************)
EXTENDS Integers

CONSTANTS
    Session,      \* names of sessions, used again when they have ended
    MaxKeys,      \* bound: keys ever made
    MaxFailures   \* bound: crashes and file accesses that fail

ASSUME KeyBound == MaxKeys \in Nat \ {0} /\ MaxFailures \in Nat

VARIABLES
    file,         \* DB/sv2-authority.privkey
    made,         \* number of keys made so far
    priv,         \* authorityPrivKey; its public key is what the API publishes
    source,       \* authorityKeySource
    cert,         \* noiseConfig: the key that signed the certificate
    calls,        \* calls of initializeNoiseConfig and the rotations behind them
    sessions,     \* those in clients, and those that are being destroyed
    told,         \* the key in the last answer to a rotation
    failures

keyVars == <<file, made, priv, source>>
identityVars == <<keyVars, cert, calls, sessions, told, failures>>

-----------------------------------------------------------------------------
NoKey  == 0
Made   == 1..MaxKeys
EnvKey == MaxKeys + 1
Key    == Made \union {EnvKey}

\* id: the key a rotation wrote, NoKey for the start of the process.
\* keypair: generateServerKeypair is awaited.  dropping: the ends of sessions are.
Call == [id : Made \union {NoKey}, step : {"keypair", "dropping"}, dropped : SUBSET Session]
Begun(id) == [id |-> id, step |-> "keypair", dropped |-> {}]

NoSession == [state |-> "none", cert |-> NoKey]
SessionState == {NoSession} \union [state : {"handshake", "open", "ending"}, cert : Key]

Registered == {s \in Session : sessions[s].state \in {"handshake", "open"}}

\* The process is not running; what a crash leaves behind is the file.
Down ==
    /\ priv = NoKey
    /\ cert = NoKey
    /\ calls = {}
    /\ sessions = [s \in Session |-> NoSession]
    /\ told = NoKey

KeyInit ==
    /\ Down
    /\ file = NoKey
    /\ made = 0
    /\ source \in {"env", "persisted"}     \* whether SV2_AUTHORITY_PRIVKEY is set
    /\ failures = 0

-----------------------------------------------------------------------------
(* resolveSv2AuthorityPrivKey, with the file and the number of keys made   *)
(* as the caller left them.                                                *)

Pinned == source = "env"

UseEnv(f, m) ==
    /\ Pinned
    /\ priv' = EnvKey
    /\ file' = f /\ made' = m
    /\ UNCHANGED <<source, failures>>

UseFile(f, m) ==
    /\ ~Pinned /\ f # NoKey
    /\ priv' = f
    /\ file' = f /\ made' = m
    /\ source' = "persisted"
    /\ UNCHANGED failures

\* A slip: a key that could not be written counts as persisted.
SourceAlways(unwritten) == "persisted"

SourceOf(unwritten) == IF unwritten THEN "generated" ELSE "persisted"

\* There is no file, or reading it fails; the new key is written, or that fails.
MakeKey(f, m) ==
    /\ ~Pinned /\ m < MaxKeys
    /\ made' = m + 1
    /\ priv' = m + 1
    /\ \E unread, unwritten \in BOOLEAN :
         /\ unread \/ f = NoKey
         /\ failures' = failures + (IF unread THEN 1 ELSE 0) + (IF unwritten THEN 1 ELSE 0)
         /\ failures' <= MaxFailures
         /\ file' = IF unwritten THEN f ELSE m + 1
         /\ source' = SourceOf(unwritten)

Resolve(f, m) == UseEnv(f, m) \/ UseFile(f, m) \/ MakeKey(f, m)

-----------------------------------------------------------------------------
\* ensureInitialized, at the start of a process; the listeners wait for it.
Start ==
    /\ priv = NoKey
    /\ Resolve(file, made)
    /\ calls' = {Begun(NoKey)}
    /\ UNCHANGED <<cert, sessions, told>>

(* rotatePoolAuthorityKey, up to its first await: the new key is written,  *)
(* then resolved.  If writing fails, it throws and nothing has changed.    *)
Rotate ==
    /\ cert # NoKey /\ ~Pinned
    /\ made < MaxKeys
    /\ Resolve(made + 1, made + 1)
    /\ calls' = calls \union {Begun(made + 1)}
    /\ UNCHANGED <<cert, sessions, told>>

\* A slip: signed with the key the call began with.
SigningOwn(c) == IF c.id = NoKey THEN priv ELSE c.id

\* The key the certificate is signed with, read behind the await.
Signing(c) == priv

\* A slip: sessions that are still in their handshake are left alone.
DroppedOpen(c) == IF c.id = NoKey THEN {} ELSE {s \in Session : sessions[s].state = "open"}

\* A rotation drops all of clients.
Dropped(c) == IF c.id = NoKey THEN {} ELSE Registered

(* The keypair is there: the new noiseConfig is in use, and a rotation     *)
(* goes on at once to drop the sessions of the old one.                    *)
KeypairReady(c) ==
    /\ c.step = "keypair"
    /\ cert' = Signing(c)
    /\ sessions' = [s \in Session |->
         IF s \in Dropped(c) THEN [sessions[s] EXCEPT !.state = "ending"] ELSE sessions[s]]
    /\ calls' = (calls \ {c}) \union
         (IF c.id = NoKey THEN {}
          ELSE {[c EXCEPT !.step = "dropping", !.dropped = Dropped(c)]})
    /\ UNCHANGED <<keyVars, told, failures>>

AnswerKey(c) == priv

\* All its sessions are destroyed: the rotation is answered.
Answer(c) ==
    /\ c.step = "dropping" /\ c.dropped = {}
    /\ told' = AnswerKey(c)
    /\ calls' = calls \ {c}
    /\ UNCHANGED <<keyVars, cert, sessions, failures>>

-----------------------------------------------------------------------------
(* Sessions.                                                               *)

\* The first data of a connection: createClient, with the noiseConfig of now.
Connect(s) ==
    /\ cert # NoKey
    /\ sessions[s] = NoSession
    /\ sessions' = [sessions EXCEPT ![s] = [state |-> "handshake", cert |-> cert]]
    /\ UNCHANGED <<keyVars, cert, calls, told, failures>>

HandshakeDone(s) ==
    /\ sessions[s].state = "handshake"
    /\ sessions' = [sessions EXCEPT ![s].state = "open"]
    /\ UNCHANGED <<keyVars, cert, calls, told, failures>>

\* A session ends by itself: destroy takes it out of clients.
Leave(s) ==
    /\ s \in Registered
    /\ sessions' = [sessions EXCEPT ![s].state = "ending"]
    /\ UNCHANGED <<keyVars, cert, calls, told, failures>>

\* destroy is done: the row is deleted and the socket closed.
Destroyed(s) ==
    /\ sessions[s].state = "ending"
    /\ sessions' = [sessions EXCEPT ![s] = NoSession]
    /\ calls' = {[c EXCEPT !.dropped = @ \ {s}] : c \in calls}
    /\ UNCHANGED <<keyVars, cert, told, failures>>

\* The process ends and is started again.
Crash ==
    /\ priv # NoKey
    /\ failures < MaxFailures
    /\ failures' = failures + 1
    /\ priv' = NoKey /\ cert' = NoKey
    /\ calls' = {}
    /\ sessions' = [s \in Session |-> NoSession]
    /\ told' = NoKey
    /\ UNCHANGED <<file, made, source>>

Step ==
    \/ Start \/ Rotate
    \/ \E c \in calls : KeypairReady(c) \/ Answer(c)
    \/ \E s \in Session : Connect(s) \/ HandshakeDone(s) \/ Leave(s) \/ Destroyed(s)

KeyNext == Step \/ Crash

KeySpec == KeyInit /\ [][KeyNext]_identityVars

-----------------------------------------------------------------------------
KeyTypeOK ==
    /\ file \in Made \union {NoKey}
    /\ made \in 0..MaxKeys
    /\ priv \in Key \union {NoKey}
    /\ source \in {"env", "persisted", "generated"}
    /\ cert \in Key \union {NoKey}
    /\ calls \subseteq Call
    /\ sessions \in [Session -> SessionState]
    /\ told \in Key \union {NoKey}
    /\ failures \in 0..MaxFailures

Signed == \A c \in calls : c.step # "keypair"

(* The key that is published is the one the pool proves itself with,       *)
(* however rotations overlap, once none of them waits for its keypair;     *)
(* and so is the key that a finished rotation told the operator.           *)
PublishedKeyWorks == Signed => cert = priv
ToldKeyWorks == calls = {} /\ told # NoKey => told = cert

(* "drop connected SV2 clients so they re-handshake"                       *)
(* (stratum-v2.service.ts:195): no session goes on that was shown a        *)
(* certificate of a key other than the current one.                        *)
OldSessionsDropped ==
    \A s \in Registered : sessions[s].cert = cert

(* "a key is generated and persisted ... so the pubkey survives restarts"  *)
(* (README.md:52): a process that is started uses the key it used before,  *)
(* unless the file could not be read or written.                           *)
KeyIsInFile == priv # NoKey /\ source = "persisted" => file = priv
=============================================================================
