---------------------------- MODULE Backpressure ----------------------------
(***************************************************************************)
(* The SV1 listener of a worker process (StratumV1Service): it starts ten  *)
(* seconds after the process, and a monitor that runs every five seconds   *)
(* stops accepting miners under overload and listens again, with a new     *)
(* Server on the same port, after a row of healthy checks.  Closing a      *)
(* Server leaves its sessions alone: it is done when the last one ends.    *)
(*                                                                         *)
(* A measurement (event loop delay, memory) is one of three loads: past    *)
(* the limits, within the limits for resuming, or between the two.         *)
(***************************************************************************)
EXTENDS Integers, FiniteSets

CONSTANTS
    HealthyChecks,   \* STRATUM_BACKPRESSURE_HEALTHY_CHECKS
    MaxConnections,  \* STRATUM_MAX_CONNECTIONS_PER_LISTENER
    MaxServers,      \* bound: Servers made, so that the port is paused MaxServers - 1 times
    MaxFailures      \* bound: ports that cannot be bound, and crashes

ASSUME LimitAssumption == HealthyChecks \in Nat \ {0} /\ MaxConnections \in Nat \ {0}
ASSUME ServerBound == MaxServers \in Nat \ {0} /\ MaxFailures \in Nat

VARIABLES
    load,       \* what the next check will measure
    listener,   \* the entry of listeners: its server and paused, or not started
    servers,    \* every Server made, with its state and number of sessions
    healthyBackpressureChecks,
    streak,     \* healthy checks in a row (for ResumeIsEarned)
    failures

listenerVars == <<load, listener, servers, healthyBackpressureChecks, streak, failures>>

-----------------------------------------------------------------------------
Load   == {"overloaded", "strained", "healthy"}
Server == 1..MaxServers
NoServer == 0

\* binding: listen was called.  failed: only an 'error' event was logged.
ServerState == {"unused", "binding", "accepting", "failed", "closing", "closed"}

NotStarted == [started |-> FALSE, server |-> NoServer, paused |-> FALSE]

ListenerInit ==
    /\ load \in Load
    /\ listener = NotStarted
    /\ servers = [s \in Server |-> [state |-> "unused", sessions |-> 0]]
    /\ healthyBackpressureChecks = 0
    /\ streak = 0
    /\ failures = 0

Unused == {s \in Server : servers[s].state = "unused"}
Accepting == {s \in Server : servers[s].state = "accepting"}
Failed == {s \in Server : servers[s].state = "failed"}

\* listen: a listener that has a server is left alone.
Listen(of) ==
    IF of.server # NoServer
      THEN /\ listener' = of
           /\ UNCHANGED servers
      ELSE \E s \in Unused :
             /\ \A t \in Unused : s <= t
             /\ listener' = [of EXCEPT !.server = s, !.paused = FALSE]
             /\ servers' = [servers EXCEPT ![s].state = "binding"]

\* startSocketServer, ten seconds after the start, whatever the load.
StartListening ==
    /\ ~listener.started
    /\ Listen([NotStarted EXCEPT !.started = TRUE])
    /\ UNCHANGED <<load, healthyBackpressureChecks, streak, failures>>

Bound(s) ==
    /\ servers[s].state = "binding"
    /\ servers' = [servers EXCEPT ![s].state = "accepting"]
    /\ UNCHANGED <<load, listener, healthyBackpressureChecks, streak, failures>>

\* The port is taken: the error is logged and the listener keeps the server.
BindFailed(s) ==
    /\ servers[s].state = "binding"
    /\ failures < MaxFailures
    /\ failures' = failures + 1
    /\ servers' = [servers EXCEPT ![s].state = "failed"]
    /\ UNCHANGED <<load, listener, healthyBackpressureChecks, streak>>

-----------------------------------------------------------------------------
(* Sessions come and go; maxConnections counts those of one Server.        *)

Connect(s) ==
    /\ servers[s].state = "accepting"
    /\ servers[s].sessions < MaxConnections
    /\ servers' = [servers EXCEPT ![s].sessions = @ + 1]
    /\ UNCHANGED <<load, listener, healthyBackpressureChecks, streak, failures>>

\* The last session of a Server that was closed ends it.
ConnectionEnds(s) ==
    /\ servers[s].sessions > 0
    /\ servers' = [servers EXCEPT
         ![s].sessions = @ - 1,
         ![s].state = IF @ = "closing" /\ servers[s].sessions = 1 THEN "closed" ELSE @]
    /\ UNCHANGED <<load, listener, healthyBackpressureChecks, streak, failures>>

\* The load changes; overload only while there are Servers left to resume with.
LoadChanges ==
    /\ load' \in Load \ {load}
    /\ load' = "overloaded" => Unused # {}
    /\ UNCHANGED <<listener, servers, healthyBackpressureChecks, streak, failures>>

-----------------------------------------------------------------------------
(* checkBackpressure.  Checks are five seconds apart: a bind is over.      *)

Closed(server) ==
    [server EXCEPT !.state = CASE server.state = "failed"  -> "failed"
                               [] server.sessions = 0      -> "closed"
                               [] OTHER                    -> "closing"]

\* A slip: the closed server stays in the listener.
PauseKeepingServer ==
    /\ listener' = [listener EXCEPT !.paused = TRUE]
    /\ servers' = [servers EXCEPT ![listener.server] = Closed(@)]

\* A slip: the server is forgotten, not closed.
PauseForgetting ==
    /\ listener' = [listener EXCEPT !.server = NoServer, !.paused = TRUE]
    /\ UNCHANGED servers

\* pauseAccepting
Pause ==
    /\ listener' = [listener EXCEPT !.server = NoServer, !.paused = TRUE]
    /\ servers' = [servers EXCEPT ![listener.server] = Closed(@)]

CheckOverloaded ==
    /\ load = "overloaded"
    /\ healthyBackpressureChecks' = 0
    /\ IF listener.started /\ ~listener.paused THEN Pause
                                               ELSE UNCHANGED <<listener, servers>>

CheckAccepting ==
    /\ load # "overloaded" /\ ~listener.paused
    /\ UNCHANGED <<listener, servers, healthyBackpressureChecks>>

\* A slip: the count goes on behind a check that was not healthy.
CheckStrainedKeeping ==
    /\ load = "strained" /\ listener.paused
    /\ UNCHANGED <<listener, servers, healthyBackpressureChecks>>

CheckStrained ==
    /\ load = "strained" /\ listener.paused
    /\ healthyBackpressureChecks' = 0
    /\ UNCHANGED <<listener, servers>>

CheckHealthy ==
    /\ load = "healthy" /\ listener.paused
    /\ IF healthyBackpressureChecks + 1 >= HealthyChecks
         THEN Listen(listener) /\ healthyBackpressureChecks' = 0
         ELSE /\ healthyBackpressureChecks' = healthyBackpressureChecks + 1
              /\ UNCHANGED <<listener, servers>>

CheckBackpressure ==
    /\ \A s \in Server : servers[s].state # "binding"
    /\ CheckOverloaded \/ CheckAccepting \/ CheckStrained \/ CheckHealthy
    /\ streak' = IF load # "healthy" THEN 0
                 ELSE IF streak < HealthyChecks THEN streak + 1 ELSE streak
    /\ UNCHANGED <<load, failures>>

\* The process ends and is started again, with all its Servers and sessions.
Crash ==
    /\ listener.started
    /\ failures < MaxFailures
    /\ failures' = failures + 1
    /\ listener' = NotStarted
    /\ servers' = [s \in Server |-> [state |-> "unused", sessions |-> 0]]
    /\ healthyBackpressureChecks' = 0
    /\ UNCHANGED <<load, streak>>

Step ==
    \/ StartListening \/ LoadChanges \/ CheckBackpressure
    \/ \E s \in Server : Bound(s) \/ BindFailed(s) \/ Connect(s) \/ ConnectionEnds(s)

ListenerNext == Step \/ Crash

ListenerSpec == ListenerInit /\ [][ListenerNext]_listenerVars

\* The timers fire and a bind ends; neither miners nor the load owe anything.
ListenerFairness ==
    /\ WF_listenerVars(StartListening)
    /\ WF_listenerVars(CheckBackpressure)
    /\ WF_listenerVars(\E s \in Server : Bound(s) \/ BindFailed(s))

FairListenerSpec == ListenerSpec /\ ListenerFairness

-----------------------------------------------------------------------------
ListenerTypeOK ==
    /\ load \in Load
    /\ listener \in [started : BOOLEAN, server : Server \union {NoServer}, paused : BOOLEAN]
    /\ servers \in [Server -> [state : ServerState, sessions : 0..MaxConnections]]
    /\ healthyBackpressureChecks \in 0..(HealthyChecks - 1)
    /\ streak \in 0..HealthyChecks
    /\ failures \in 0..MaxFailures

(* Only the listener's own server takes miners in, and none does while it  *)
(* is paused: an older Server that is still closing takes nobody, and the  *)
(* port is never bound twice (pauseAccepting, resumeAccepting, listen).    *)
OnlyListenerAccepts ==
    \A s \in Server : servers[s].state \in {"binding", "accepting"} =>
        s = listener.server /\ ~listener.paused

(* A paused listener is opened again only by the last of HealthyChecks     *)
(* healthy checks in a row: anything worse in between starts the count     *)
(* again (checkBackpressure).                                              *)
ResumeIsEarned ==
    [][listener.paused /\ listener'.started /\ ~listener'.paused
         => streak' >= HealthyChecks]_listenerVars

(* Once the load stays healthy, miners are taken in for good, unless the   *)
(* port could not be bound: nothing tries again then (resumeAccepting).    *)
AcceptsAgain ==
    <>[](load = "healthy") => <>[](listener.server \in Accepting \union Failed)
=============================================================================
