-------------------------- MODULE ExtranonceManager --------------------------
(***************************************************************************)
(* src/models/sv2/sv2-extranonce-manager.ts: the allocation of the bytes   *)
(* the pool puts in front of an SV2 channel's extranonce.  Each PM2 worker *)
(* process owns one Sv2ExtranonceManager; the first byte of a prefix is    *)
(* the process's namespace, the rest a process-local number.  A reload     *)
(* overlaps the old and the new process of a worker.                       *)
(***************************************************************************)
EXTENDS Integers, FiniteSets

CONSTANTS
    Worker,          \* PM2 worker indices (NODE_APP_INSTANCE)
    Channel,         \* channel ids, as the service counts them per process
    MaxPrefix,       \* 2^(8*(prefixSize-1)) - 1, the last local prefix
    NamespaceBase,   \* SV2_EXTRANONCE_NAMESPACE_BASE
    MaxNamespace,    \* SV2_MAX_PROCESS_NAMESPACE, 0xff
    MaxGeneration    \* bound: last restart_time that is explored

ASSUME WorkerAssumption     == Worker \subseteq Nat
ASSUME MaxPrefixAssumption  == MaxPrefix \in Nat \ {0}
ASSUME NamespaceAssumption  == NamespaceBase \in Nat /\ MaxNamespace \in Nat
ASSUME GenerationAssumption == MaxGeneration \in Nat

VARIABLES
    live,               \* processes now running
    restartTime,        \* [Worker -> Nat]: PM2's restart_time of the next start
    nextPrefix,         \* [Process -> 1..MaxPrefix]
    allocatedPrefixes,  \* [Process -> [Channel -> 0..MaxPrefix]], 0: no entry
    usedPrefixes,       \* [Process -> SUBSET 1..MaxPrefix]
    reply               \* what the last call returned or threw

managerVars == <<nextPrefix, allocatedPrefixes, usedPrefixes>>
vars == <<live, restartTime, nextPrefix, allocatedPrefixes, usedPrefixes, reply>>

-----------------------------------------------------------------------------
Process     == Worker \X (0..MaxGeneration)
LocalPrefix == 1..MaxPrefix
NoPrefix    == 0
Nothing     == <<>>               \* no call yet, or a release
Full        == <<"exhausted">>    \* allocate() threw

\* A slip: one lane for each worker, the reloaded process takes its neighbour's.
NamespaceOneLane(p) == NamespaceBase + p[1] + (p[2] % 2)

(* resolveSv2ProcessNamespace: two lanes for each worker, by the parity of *)
(* its restart generation.                                                 *)
Namespace(p) == NamespaceBase + 2 * p[1] + (p[2] % 2)

(* prefixToBuffer: namespace byte, then the big-endian local number.       *)
PrefixToBuffer(p, prefix) == <<Namespace(p), prefix>>

(* The k-th prefix the loop of allocate() looks at, starting at n and      *)
(* wrapping to 1 behind MaxPrefix (0 stays reserved).  k < MaxPrefix       *)
(* reaches every prefix; the loop's further attempts look at prefixes it   *)
(* has already seen in use.                                                *)
ScanSlot(n, k) == IF n + k <= MaxPrefix THEN n + k ELSE n + k - MaxPrefix
ScanOffset == 0..(MaxPrefix - 1)

\* Prefix x is where the scan from n stops: free, and all before it in use.
FirstFree(n, used, x) ==
    \E k \in ScanOffset :
        /\ x = ScanSlot(n, k)
        /\ x \notin used
        /\ \A j \in 0..(k - 1) : ScanSlot(n, j) \in used

\* A slip: the scan gives up one slot early.
ExhaustedEarly(n, used) ==
    \A k \in ScanOffset \ {MaxPrefix - 1} : ScanSlot(n, k) \in used

Exhausted(n, used) == \A k \in ScanOffset : ScanSlot(n, k) \in used

NextAfter(prefix) == IF prefix + 1 > MaxPrefix THEN 1 ELSE prefix + 1

-----------------------------------------------------------------------------
FreshAllocation == [c \in Channel |-> NoPrefix]

Init ==
    /\ live = {}
    /\ restartTime = [w \in Worker |-> 0]
    /\ nextPrefix = [p \in Process |-> 1]
    /\ allocatedPrefixes = [p \in Process |-> FreshAllocation]
    /\ usedPrefixes = [p \in Process |-> {}]
    /\ reply = Nothing

(* PM2 starts a worker, or the successor of a running one during a reload: *)
(* at most one older process of the worker still runs, the one started     *)
(* just before.                                                            *)
StartProcess(w) ==
    LET p == <<w, restartTime[w]>> IN
    /\ restartTime[w] <= MaxGeneration
    /\ \A g \in 0..MaxGeneration : <<w, g>> \in live => g = restartTime[w] - 1
    /\ Namespace(p) <= MaxNamespace
    /\ live' = live \union {p}
    /\ restartTime' = [restartTime EXCEPT ![w] = @ + 1]
    /\ UNCHANGED <<nextPrefix, allocatedPrefixes, usedPrefixes, reply>>

\* assertNamespaceFits throws: the process ends before it serves anybody.
StartRejected(w) ==
    /\ restartTime[w] <= MaxGeneration
    /\ Namespace(<<w, restartTime[w]>>) > MaxNamespace
    /\ restartTime' = [restartTime EXCEPT ![w] = @ + 1]
    /\ UNCHANGED <<live, managerVars, reply>>

\* A process exits or crashes: its memory is gone, its sockets are closed.
StopProcess(p) ==
    /\ p \in live
    /\ live' = live \ {p}
    /\ nextPrefix' = [nextPrefix EXCEPT ![p] = 1]
    /\ allocatedPrefixes' = [allocatedPrefixes EXCEPT ![p] = FreshAllocation]
    /\ usedPrefixes' = [usedPrefixes EXCEPT ![p] = {}]
    /\ reply' = Nothing
    /\ UNCHANGED restartTime

\* allocate() of a channel that already has a prefix.
AllocateExisting(p, c) ==
    /\ p \in live
    /\ allocatedPrefixes[p][c] # NoPrefix
    /\ reply' = PrefixToBuffer(p, allocatedPrefixes[p][c])
    /\ UNCHANGED <<live, restartTime, managerVars>>

AllocateNew(p, c) ==
    /\ p \in live
    /\ allocatedPrefixes[p][c] = NoPrefix
    /\ \E prefix \in LocalPrefix :
         /\ FirstFree(nextPrefix[p], usedPrefixes[p], prefix)
         /\ allocatedPrefixes' = [allocatedPrefixes EXCEPT ![p][c] = prefix]
         /\ usedPrefixes' = [usedPrefixes EXCEPT ![p] = @ \union {prefix}]
         /\ nextPrefix' = [nextPrefix EXCEPT ![p] = NextAfter(prefix)]
         /\ reply' = PrefixToBuffer(p, prefix)
    /\ UNCHANGED <<live, restartTime>>

\* "Extranonce prefix space exhausted": nothing changes, the caller gets an error.
AllocateExhausted(p, c) ==
    /\ p \in live
    /\ allocatedPrefixes[p][c] = NoPrefix
    /\ Exhausted(nextPrefix[p], usedPrefixes[p])
    /\ reply' = Full
    /\ UNCHANGED <<live, restartTime, managerVars>>

\* release(): a channel without an entry is left alone.
Release(p, c) ==
    /\ p \in live
    /\ allocatedPrefixes' = [allocatedPrefixes EXCEPT ![p][c] = NoPrefix]
    /\ usedPrefixes' = [usedPrefixes EXCEPT ![p] = @ \ {allocatedPrefixes[p][c]}]
    /\ reply' = Nothing
    /\ UNCHANGED <<live, restartTime, nextPrefix>>

Next ==
    \/ \E w \in Worker : StartProcess(w) \/ StartRejected(w)
    \/ \E p \in Process :
         \/ StopProcess(p)
         \/ \E c \in Channel :
              \/ AllocateExisting(p, c)
              \/ AllocateNew(p, c)
              \/ AllocateExhausted(p, c)
              \/ Release(p, c)

Spec == Init /\ [][Next]_vars

-----------------------------------------------------------------------------
(* Every variable has its type: the counters stay in the local partition   *)
(* and 0, the reserved prefix, is never marked in use.                     *)
TypeOK ==
    /\ live \subseteq Process
    /\ restartTime \in [Worker -> Nat]
    /\ nextPrefix \in [Process -> LocalPrefix]
    /\ allocatedPrefixes \in [Process -> [Channel -> LocalPrefix \union {NoPrefix}]]
    /\ usedPrefixes \in [Process -> SUBSET LocalPrefix]

(* The set the scan consults is exactly what the channels hold, and what a *)
(* process that does not run holds is nothing: a leak would end in a false *)
(* "exhausted", a lost entry in a prefix given twice.                      *)
UsedMatchesAllocated ==
    /\ \A p \in Process :
         usedPrefixes[p] = {allocatedPrefixes[p][c] : c \in Channel} \ {NoPrefix}
    /\ \A p \in Process \ live : usedPrefixes[p] = {}

\* The processes of one worker that run together have consecutive generations.
LanesOverlapByOne ==
    \A w \in Worker : \A g \in 0..MaxGeneration : <<w, g>> \in live =>
        /\ g < restartTime[w]
        /\ \A h \in 0..MaxGeneration : <<w, h>> \in live => h \in {g - 1, g, g + 1}

(* No two channels of the deployment, whatever processes they are on, are  *)
(* given the same bytes: two miners with one prefix would search the same  *)
(* extranonce space.                                                       *)
UniqueWirePrefix ==
    \A p, q \in live : \A c, d \in Channel :
        /\ allocatedPrefixes[p][c] # NoPrefix
        /\ PrefixToBuffer(p, allocatedPrefixes[p][c]) = PrefixToBuffer(q, allocatedPrefixes[q][d])
        /\ allocatedPrefixes[q][d] # NoPrefix
        => p = q /\ c = d

(* Within a process no two channels hold one prefix, and every running      *)
(* process has a namespace that fits in its byte.                          *)
PrefixInjective ==
    \A p \in Process : \A c, d \in Channel :
        /\ allocatedPrefixes[p][c] # NoPrefix
        /\ allocatedPrefixes[p][c] = allocatedPrefixes[p][d]
        => c = d

\* The inductive invariant behind UniqueWirePrefix.
IInv ==
    /\ TypeOK
    /\ UsedMatchesAllocated
    /\ LanesOverlapByOne
    /\ PrefixInjective

-----------------------------------------------------------------------------
(* The manager implements the abstract pool: read the channels' entries of *)
(* the running processes as what is held.                                  *)
HeldOf(alloc) ==
    {<<h[1], h[2], PrefixToBuffer(h[1], alloc[h[1]][h[2]])>> :
        h \in {pc \in Process \X Channel : alloc[pc[1]][pc[2]] # NoPrefix}}

Held == HeldOf(allocatedPrefixes)

Lane == [p \in Process |-> {PrefixToBuffer(p, x) : x \in LocalPrefix}]

Pool == INSTANCE PrefixPool WITH LaneOf <- Lane, held <- Held, answer <- reply

(* Every step of the managers is a step of the pool: a prefix is granted   *)
(* only if nobody in the deployment holds it, and "exhausted" is answered  *)
(* only when the whole lane is held.                                       *)
ImplementsPool == Pool!Spec
=============================================================================
