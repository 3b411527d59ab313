------------------------- MODULE V2ServiceProofs -------------------------
(***************************************************************************)
(* Theorems about what the sessions of StratumV2Service share: the         *)
(* extranonce prefixes of the deployment (ExtranonceManager) and the Noise *)
(* identity of a process (AuthorityKey).                                   *)
(*                                                                         *)
(* For every number of workers, channels and prefixes, the extranonce      *)
(* managers never give one prefix to two channels, and they implement the  *)
(* abstract PrefixPool.  For any set of sessions, any number of rotations  *)
(* that overlap, and any number of crashes and failing files, the key that *)
(* is published is the one the pool proves itself with.                    *)
(***************************************************************************)
EXTENDS ExtranonceManager, AuthorityKey, TLAPS

(* The scan of allocate() visits every local prefix once it has gone round.*)
LEMMA ScanReachesAll ==
    ASSUME NEW n \in LocalPrefix, NEW x \in LocalPrefix
    PROVE  \E k \in ScanOffset : ScanSlot(n, k) = x
<1> USE MaxPrefixAssumption DEF LocalPrefix, ScanOffset, ScanSlot
<1>1. CASE x >= n
  <2>1. x - n \in ScanOffset /\ ScanSlot(n, x - n) = x  BY <1>1
  <2>2. QED  BY <2>1
<1>2. CASE x < n
  <2>1. x - n + MaxPrefix \in ScanOffset /\ ScanSlot(n, x - n + MaxPrefix) = x  BY <1>2
  <2>2. QED  BY <2>1
<1>3. QED  BY <1>1, <1>2

(* ... and never leaves the local partition.                               *)
LEMMA ScanStaysLocal ==
    ASSUME NEW n \in LocalPrefix, NEW k \in ScanOffset
    PROVE  ScanSlot(n, k) \in LocalPrefix
BY MaxPrefixAssumption DEF LocalPrefix, ScanOffset, ScanSlot

(* "Exhausted" is thrown only when no local prefix is free.                *)
LEMMA ExhaustedIsFull ==
    ASSUME NEW n \in LocalPrefix, NEW used, Exhausted(n, used)
    PROVE  LocalPrefix \subseteq used
BY ScanReachesAll DEF Exhausted

(* A granted prefix is local and was free.                                 *)
LEMMA FirstFreeIsFree ==
    ASSUME NEW n \in LocalPrefix, NEW used, NEW x, FirstFree(n, used, x)
    PROVE  x \in LocalPrefix /\ x \notin used /\ x # NoPrefix
<1>1. x \in LocalPrefix /\ x \notin used  BY ScanStaysLocal DEF FirstFree
<1>2. QED  BY <1>1 DEF LocalPrefix, NoPrefix

LEMMA NextAfterLocal ==
    ASSUME NEW x \in LocalPrefix
    PROVE  NextAfter(x) \in LocalPrefix
BY MaxPrefixAssumption DEF LocalPrefix, NextAfter

-----------------------------------------------------------------------------
LEMMA TypeStep == TypeOK /\ [Next]_vars => TypeOK'
<1> SUFFICES ASSUME TypeOK, [Next]_vars  PROVE TypeOK'
  OBVIOUS
<1> USE DEF TypeOK
<1>1. ASSUME NEW w \in Worker, StartProcess(w)  PROVE TypeOK'
  <2>1. restartTime[w] \in 0..MaxGeneration
    BY <1>1, GenerationAssumption DEF StartProcess
  <2>2. <<w, restartTime[w]>> \in Process  BY <2>1 DEF Process
  <2>3. live' \subseteq Process  BY <1>1, <2>2 DEF StartProcess
  <2>4. restartTime' \in [Worker -> Nat]  BY <1>1 DEF StartProcess
  <2>5. QED  BY <1>1, <2>3, <2>4 DEF StartProcess
<1>2. ASSUME NEW w \in Worker, StartRejected(w)  PROVE TypeOK'
  BY <1>2 DEF StartRejected, managerVars
<1>3. ASSUME NEW p \in Process, StopProcess(p)  PROVE TypeOK'
  BY <1>3, MaxPrefixAssumption
     DEF StopProcess, FreshAllocation, LocalPrefix, NoPrefix
<1>4. ASSUME NEW p \in Process, NEW c \in Channel, AllocateExisting(p, c)
      PROVE  TypeOK'
  BY <1>4 DEF AllocateExisting, managerVars
<1>5. ASSUME NEW p \in Process, NEW c \in Channel, AllocateNew(p, c)
      PROVE  TypeOK'
  BY <1>5, NextAfterLocal DEF AllocateNew
<1>6. ASSUME NEW p \in Process, NEW c \in Channel, AllocateExhausted(p, c)
      PROVE  TypeOK'
  BY <1>6 DEF AllocateExhausted, managerVars
<1>7. ASSUME NEW p \in Process, NEW c \in Channel, Release(p, c)
      PROVE  TypeOK'
  BY <1>7 DEF Release
<1>8. CASE UNCHANGED vars
  BY <1>8 DEF vars
<1>9. QED
  BY <1>1, <1>2, <1>3, <1>4, <1>5, <1>6, <1>7, <1>8 DEF Next

(* Every reachable state has the variables in their types.                 *)
THEOREM TypeCorrect == Spec => []TypeOK
<1>1. Init => TypeOK
  BY MaxPrefixAssumption
     DEF Init, TypeOK, FreshAllocation, LocalPrefix, NoPrefix
<1>2. QED
  BY <1>1, TypeStep, PTL DEF Spec

-----------------------------------------------------------------------------
(* The bookkeeping of the managers, the overlap of the lanes and the        *)
(* injectivity inside a process are preserved by every step.                *)
LEMMA IInvInit == Init => IInv
<1> SUFFICES ASSUME Init  PROVE IInv
  OBVIOUS
<1>1. TypeOK
  BY MaxPrefixAssumption
     DEF Init, TypeOK, FreshAllocation, LocalPrefix, NoPrefix
<1>2. UsedMatchesAllocated
  BY DEF Init, UsedMatchesAllocated, FreshAllocation
<1>3. LanesOverlapByOne
  BY DEF Init, LanesOverlapByOne
<1>4. PrefixInjective
  BY DEF Init, PrefixInjective, FreshAllocation
<1>5. QED  BY <1>1, <1>2, <1>3, <1>4 DEF IInv

\* A free prefix is held by no channel of its process.
LEMMA FreeIsUnheld ==
    ASSUME UsedMatchesAllocated, NEW p \in Process, NEW x,
           x \notin usedPrefixes[p], x # NoPrefix
    PROVE  \A c \in Channel : allocatedPrefixes[p][c] # x
BY DEF UsedMatchesAllocated

LEMMA UsedMatchesStep ==
    ASSUME IInv, TypeOK', [Next]_vars
    PROVE  UsedMatchesAllocated'
<1> USE DEF IInv, TypeOK, UsedMatchesAllocated
<1>1. ASSUME NEW w \in Worker, StartProcess(w)  PROVE UsedMatchesAllocated'
  BY <1>1 DEF StartProcess
<1>2. ASSUME NEW w \in Worker, StartRejected(w)  PROVE UsedMatchesAllocated'
  BY <1>2 DEF StartRejected, managerVars
<1>3. ASSUME NEW p \in Process, StopProcess(p)  PROVE UsedMatchesAllocated'
  <2>1. \A c \in Channel : allocatedPrefixes'[p][c] = NoPrefix
    BY <1>3 DEF StopProcess, FreshAllocation
  <2>2. usedPrefixes'[p] = {}  BY <1>3 DEF StopProcess
  <2>3. \A q \in Process \ {p} : /\ usedPrefixes'[q] = usedPrefixes[q]
                                 /\ allocatedPrefixes'[q] = allocatedPrefixes[q]
    BY <1>3 DEF StopProcess
  <2>4. live' = live \ {p}  BY <1>3 DEF StopProcess
  <2>5. QED  BY <2>1, <2>2, <2>3, <2>4
<1>4. ASSUME NEW p \in Process, NEW c \in Channel, AllocateExisting(p, c)
      PROVE  UsedMatchesAllocated'
  BY <1>4 DEF AllocateExisting, managerVars
<1>5. ASSUME NEW p \in Process, NEW c \in Channel, AllocateNew(p, c)
      PROVE  UsedMatchesAllocated'
  <2>1. PICK x \in LocalPrefix :
          /\ FirstFree(nextPrefix[p], usedPrefixes[p], x)
          /\ allocatedPrefixes' = [allocatedPrefixes EXCEPT ![p][c] = x]
          /\ usedPrefixes' = [usedPrefixes EXCEPT ![p] = @ \union {x}]
    BY <1>5 DEF AllocateNew
  <2>2. x # NoPrefix  BY <2>1, FirstFreeIsFree
  <2>3. allocatedPrefixes[p][c] = NoPrefix /\ p \in live /\ live' = live
    BY <1>5 DEF AllocateNew
  <2>4. \A d \in Channel : allocatedPrefixes'[p][d] =
                              IF d = c THEN x ELSE allocatedPrefixes[p][d]
    BY <2>1
  <2>5. usedPrefixes'[p] = usedPrefixes[p] \union {x}  BY <2>1
  <2>6. usedPrefixes'[p] = {allocatedPrefixes'[p][d] : d \in Channel} \ {NoPrefix}
    BY <2>2, <2>3, <2>4, <2>5
  <2>7. \A q \in Process \ {p} : /\ usedPrefixes'[q] = usedPrefixes[q]
                                 /\ allocatedPrefixes'[q] = allocatedPrefixes[q]
    BY <2>1
  <2>8. QED  BY <2>3, <2>6, <2>7
<1>6. ASSUME NEW p \in Process, NEW c \in Channel, AllocateExhausted(p, c)
      PROVE  UsedMatchesAllocated'
  BY <1>6 DEF AllocateExhausted, managerVars
<1>7. ASSUME NEW p \in Process, NEW c \in Channel, Release(p, c)
      PROVE  UsedMatchesAllocated'
  <2>1. \A d \in Channel : allocatedPrefixes'[p][d] =
                              IF d = c THEN NoPrefix ELSE allocatedPrefixes[p][d]
    BY <1>7 DEF Release
  <2>2. usedPrefixes'[p] = usedPrefixes[p] \ {allocatedPrefixes[p][c]}
    BY <1>7 DEF Release
  <2>3. \A d \in Channel \ {c} : allocatedPrefixes[p][d] # NoPrefix
                                => allocatedPrefixes[p][d] # allocatedPrefixes[p][c]
    BY DEF PrefixInjective
  <2>4. usedPrefixes'[p] = {allocatedPrefixes'[p][d] : d \in Channel} \ {NoPrefix}
    BY <2>1, <2>2, <2>3
  <2>5. \A q \in Process \ {p} : /\ usedPrefixes'[q] = usedPrefixes[q]
                                 /\ allocatedPrefixes'[q] = allocatedPrefixes[q]
    BY <1>7 DEF Release
  <2>6. p \in live /\ live' = live  BY <1>7 DEF Release
  <2>7. \A q \in Process :
          usedPrefixes'[q] = {allocatedPrefixes'[q][d] : d \in Channel} \ {NoPrefix}
    BY <2>4, <2>5
  <2>8. \A q \in Process \ live' : usedPrefixes'[q] = {}
    BY <2>5, <2>6
  <2>9. QED  BY <2>7, <2>8
<1>8. CASE UNCHANGED vars
  BY <1>8 DEF vars
<1>9. QED
  BY <1>1, <1>2, <1>3, <1>4, <1>5, <1>6, <1>7, <1>8 DEF Next

LEMMA LanesOverlapStep ==
    ASSUME IInv, [Next]_vars
    PROVE  LanesOverlapByOne'
<1> USE DEF IInv, TypeOK, LanesOverlapByOne
<1>1. ASSUME NEW w \in Worker, StartProcess(w)  PROVE LanesOverlapByOne'
  <2>1. restartTime[w] \in 0..MaxGeneration
    BY <1>1, GenerationAssumption DEF StartProcess
  <2>2. \A v \in Worker : restartTime'[v] = IF v = w THEN restartTime[w] + 1 ELSE restartTime[v]
    BY <1>1 DEF StartProcess
  <2>3. \A v \in Worker, g \in 0..MaxGeneration :
           <<v, g>> \in live' <=> <<v, g>> \in live \/ (v = w /\ g = restartTime[w])
    BY <1>1 DEF StartProcess
  <2>4. \A g \in 0..MaxGeneration : <<w, g>> \in live => g = restartTime[w] - 1
    BY <1>1 DEF StartProcess
  <2>5. ASSUME NEW v \in Worker, NEW g \in 0..MaxGeneration, <<v, g>> \in live'
        PROVE  /\ g < restartTime'[v]
               /\ \A h \in 0..MaxGeneration : <<v, h>> \in live' => h \in {g - 1, g, g + 1}
    <3>1. CASE v = w
      BY <2>1, <2>2, <2>3, <2>4, <2>5, <3>1, GenerationAssumption
    <3>2. CASE v # w
      BY <2>2, <2>3, <2>5, <3>2
    <3>3. QED  BY <3>1, <3>2
  <2>6. QED  BY <2>5
<1>2. ASSUME NEW w \in Worker, StartRejected(w)  PROVE LanesOverlapByOne'
  <2>1. live' = live  BY <1>2 DEF StartRejected
  <2>2. \A v \in Worker : restartTime'[v] >= restartTime[v]
    BY <1>2 DEF StartRejected
  <2>3. \A v \in Worker : restartTime'[v] \in Nat /\ restartTime[v] \in Nat
    BY <1>2 DEF StartRejected
  <2>4. QED  BY <2>1, <2>2, <2>3, GenerationAssumption
<1>3. ASSUME NEW p \in Process, StopProcess(p)  PROVE LanesOverlapByOne'
  BY <1>3 DEF StopProcess
<1>4. ASSUME UNCHANGED <<live, restartTime>>  PROVE LanesOverlapByOne'
  BY <1>4
<1>5. QED
  BY <1>1, <1>2, <1>3, <1>4
     DEF Next, vars, AllocateExisting, AllocateNew, AllocateExhausted, Release

LEMMA InjectiveStep ==
    ASSUME IInv, [Next]_vars
    PROVE  PrefixInjective'
<1> USE DEF IInv, TypeOK, PrefixInjective
<1>1. ASSUME NEW p \in Process, StopProcess(p)  PROVE PrefixInjective'
  <2>1. \A c \in Channel : allocatedPrefixes'[p][c] = NoPrefix
    BY <1>1 DEF StopProcess, FreshAllocation
  <2>2. \A q \in Process \ {p} : allocatedPrefixes'[q] = allocatedPrefixes[q]
    BY <1>1 DEF StopProcess
  <2>3. QED  BY <2>1, <2>2
<1>2. ASSUME NEW p \in Process, NEW c \in Channel, AllocateNew(p, c)
      PROVE  PrefixInjective'
  <2>1. PICK x \in LocalPrefix :
          /\ FirstFree(nextPrefix[p], usedPrefixes[p], x)
          /\ allocatedPrefixes' = [allocatedPrefixes EXCEPT ![p][c] = x]
    BY <1>2 DEF AllocateNew
  <2>2. \A d \in Channel : allocatedPrefixes[p][d] # x
    BY <2>1, FirstFreeIsFree, FreeIsUnheld
  <2>3. \A d \in Channel : allocatedPrefixes'[p][d] =
                              IF d = c THEN x ELSE allocatedPrefixes[p][d]
    BY <2>1
  <2>4. \A q \in Process \ {p} : allocatedPrefixes'[q] = allocatedPrefixes[q]
    BY <2>1
  <2>5. QED  BY <2>2, <2>3, <2>4
<1>3. ASSUME NEW p \in Process, NEW c \in Channel, Release(p, c)
      PROVE  PrefixInjective'
  <2>1. \A d \in Channel : allocatedPrefixes'[p][d] =
                              IF d = c THEN NoPrefix ELSE allocatedPrefixes[p][d]
    BY <1>3 DEF Release
  <2>2. \A q \in Process \ {p} : allocatedPrefixes'[q] = allocatedPrefixes[q]
    BY <1>3 DEF Release
  <2>3. QED  BY <2>1, <2>2
<1>4. ASSUME UNCHANGED allocatedPrefixes  PROVE PrefixInjective'
  BY <1>4
<1>5. QED
  BY <1>1, <1>2, <1>3, <1>4
     DEF Next, vars, managerVars, StartProcess, StartRejected,
         AllocateExisting, AllocateExhausted

LEMMA IInvStep == IInv /\ [Next]_vars => IInv'
<1> SUFFICES ASSUME IInv, [Next]_vars  PROVE IInv'
  OBVIOUS
<1>1. TypeOK'  BY TypeStep DEF IInv
<1>2. QED
  BY <1>1, UsedMatchesStep, LanesOverlapStep, InjectiveStep DEF IInv

LEMMA Invariance == Spec => []IInv
BY IInvInit, IInvStep, PTL DEF Spec

-----------------------------------------------------------------------------
(* The set the scan of allocate() consults is always exactly what the       *)
(* channels hold, so no prefix leaks and none is lost track of.             *)
THEOREM BookkeepingCorrect == Spec => []UsedMatchesAllocated
<1>1. IInv => UsedMatchesAllocated  BY DEF IInv
<1>2. QED  BY <1>1, Invariance, PTL

(* Two running processes with one namespace are the same process: workers   *)
(* are two lanes apart, and overlapping generations differ in parity.       *)
LEMMA NamespaceDistinguishes ==
    ASSUME IInv, NEW p \in live, NEW q \in live, Namespace(p) = Namespace(q)
    PROVE  p = q
<1>1. p \in Process /\ q \in Process  BY DEF IInv, TypeOK
<1>2. PICK v \in Worker, g \in 0..MaxGeneration : p = <<v, g>>
  BY <1>1 DEF Process
<1>3. PICK w \in Worker, h \in 0..MaxGeneration : q = <<w, h>>
  BY <1>1 DEF Process
<1>4. v \in Nat /\ w \in Nat /\ g \in Nat /\ h \in Nat
  BY WorkerAssumption, GenerationAssumption
<1> DEFINE a == g % 2
           b == h % 2
<1>5. a \in {0, 1} /\ b \in {0, 1}
  BY <1>4
<1>6. Namespace(p) = NamespaceBase + 2 * v + a /\ Namespace(q) = NamespaceBase + 2 * w + b
  BY <1>2, <1>3 DEF Namespace
<1>7. v = w /\ a = b
  <2> HIDE DEF a, b
  <2>1. NamespaceBase + 2 * v + a = NamespaceBase + 2 * w + b  BY <1>6
  <2>2. QED  BY <2>1, <1>4, <1>5, NamespaceAssumption
<1>8. h \in {g - 1, g, g + 1}
  BY <1>2, <1>3, <1>7 DEF IInv, LanesOverlapByOne
<1>9. g = h
  BY <1>4, <1>7, <1>8
<1>10. QED  BY <1>2, <1>3, <1>7, <1>9

(* No two channels of the deployment are ever given the same bytes.         *)
THEOREM PrefixesUnique == Spec => []UniqueWirePrefix
<1>1. IInv => UniqueWirePrefix
  <2> SUFFICES ASSUME IInv, NEW p \in live, NEW q \in live,
                      NEW c \in Channel, NEW d \in Channel,
                      allocatedPrefixes[p][c] # NoPrefix,
                      PrefixToBuffer(p, allocatedPrefixes[p][c])
                        = PrefixToBuffer(q, allocatedPrefixes[q][d])
               PROVE  p = q /\ c = d
    BY DEF UniqueWirePrefix
  <2>1. /\ Namespace(p) = Namespace(q)
        /\ allocatedPrefixes[p][c] = allocatedPrefixes[q][d]
    BY DEF PrefixToBuffer
  <2>2. p = q  BY <2>1, NamespaceDistinguishes
  <2>3. p \in Process  BY DEF IInv, TypeOK
  <2>4. c = d  BY <2>1, <2>2, <2>3 DEF IInv, PrefixInjective
  <2>5. QED  BY <2>2, <2>4
<1>2. QED  BY <1>1, Invariance, PTL

-----------------------------------------------------------------------------
\* Held, read as a relation.
LEMMA HeldOfShape ==
    ASSUME NEW alloc, NEW h
    PROVE  h \in HeldOf(alloc) <=>
             \E q \in Process, d \in Channel :
               /\ alloc[q][d] # NoPrefix
               /\ h = <<q, d, PrefixToBuffer(q, alloc[q][d])>>
<1>1. ASSUME NEW q \in Process, NEW d \in Channel,
             alloc[q][d] # NoPrefix,
             h = <<q, d, PrefixToBuffer(q, alloc[q][d])>>
      PROVE  h \in HeldOf(alloc)
  <2> DEFINE pc == <<q, d>>
  <2>1. pc \in Process \X Channel /\ pc[1] = q /\ pc[2] = d  OBVIOUS
  <2>2. h = <<pc[1], pc[2], PrefixToBuffer(pc[1], alloc[pc[1]][pc[2]])>>
    BY <1>1
  <2> HIDE DEF pc
  <2>3. QED  BY <1>1, <2>1, <2>2 DEF HeldOf
<1>2. ASSUME h \in HeldOf(alloc)
      PROVE  \E q \in Process, d \in Channel :
               /\ alloc[q][d] # NoPrefix
               /\ h = <<q, d, PrefixToBuffer(q, alloc[q][d])>>
  <2>1. PICK pc \in Process \X Channel :
          /\ alloc[pc[1]][pc[2]] # NoPrefix
          /\ h = <<pc[1], pc[2], PrefixToBuffer(pc[1], alloc[pc[1]][pc[2]])>>
    BY <1>2 DEF HeldOf
  <2>2. pc[1] \in Process /\ pc[2] \in Channel  OBVIOUS
  <2>3. QED  BY <2>1, <2>2
<1>3. QED  BY <1>1, <1>2

LEMMA HeldShape ==
    ASSUME NEW h
    PROVE  h \in Held <=>
             \E q \in Process, d \in Channel :
               /\ allocatedPrefixes[q][d] # NoPrefix
               /\ h = <<q, d, PrefixToBuffer(q, allocatedPrefixes[q][d])>>
BY HeldOfShape DEF Held

LEMMA HeldIff ==
    ASSUME NEW q \in Process, NEW d \in Channel, NEW y
    PROVE  <<q, d, y>> \in Held <=>
             /\ allocatedPrefixes[q][d] # NoPrefix
             /\ y = PrefixToBuffer(q, allocatedPrefixes[q][d])
<1>1. ASSUME <<q, d, y>> \in Held
      PROVE  allocatedPrefixes[q][d] # NoPrefix /\ y = PrefixToBuffer(q, allocatedPrefixes[q][d])
  <2>1. PICK r \in Process, e \in Channel :
          /\ allocatedPrefixes[r][e] # NoPrefix
          /\ <<q, d, y>> = <<r, e, PrefixToBuffer(r, allocatedPrefixes[r][e])>>
    BY <1>1, HeldShape
  <2>2. q = r /\ d = e /\ y = PrefixToBuffer(r, allocatedPrefixes[r][e])  BY <2>1
  <2>3. QED  BY <2>1, <2>2
<1>2. QED  BY <1>1, HeldShape

\* The same two facts of the next state.
LEMMA HeldShapeNext ==
    ASSUME NEW h
    PROVE  h \in Held' <=>
             \E q \in Process, d \in Channel :
               /\ allocatedPrefixes'[q][d] # NoPrefix
               /\ h = <<q, d, PrefixToBuffer(q, allocatedPrefixes'[q][d])>>
BY HeldOfShape DEF Held

\* A channel holds a prefix in the abstract pool iff its entry is set.
LEMMA HoldsIff ==
    ASSUME NEW q \in Process, NEW d \in Channel
    PROVE  Pool!Holds(q, d) <=> allocatedPrefixes[q][d] # NoPrefix
<1>1. ASSUME NEW h \in Held, h[1] = q, h[2] = d  PROVE allocatedPrefixes[q][d] # NoPrefix
  <2>1. PICK r \in Process, e \in Channel :
          /\ allocatedPrefixes[r][e] # NoPrefix
          /\ h = <<r, e, PrefixToBuffer(r, allocatedPrefixes[r][e])>>
    BY HeldShape
  <2>2. r = q /\ e = d  BY <1>1, <2>1
  <2>3. QED  BY <2>1, <2>2
<1>2. ASSUME allocatedPrefixes[q][d] # NoPrefix
      PROVE  \E h \in Held : h[1] = q /\ h[2] = d
  <2>1. <<q, d, PrefixToBuffer(q, allocatedPrefixes[q][d])>> \in Held  BY <1>2, HeldIff
  <2>2. QED  BY <2>1
<1>3. QED  BY <1>1, <1>2 DEF Pool!Holds

LEMMA StopIsVanish ==
    ASSUME NEW p \in Process, StopProcess(p), TypeOK
    PROVE  Pool!Vanish(p)
<1>1. \A d \in Channel : allocatedPrefixes'[p][d] = NoPrefix
  BY DEF StopProcess, FreshAllocation, TypeOK
<1>2. \A q \in Process : q # p => allocatedPrefixes'[q] = allocatedPrefixes[q]
  BY DEF StopProcess, TypeOK
<1>3. \A h : h \in Held' <=> h \in Held /\ h[1] # p
  <2> TAKE h
  <2>1. ASSUME h \in Held'  PROVE h \in Held /\ h[1] # p
    BY <2>1, <1>1, <1>2, HeldShape, HeldShapeNext
  <2>2. ASSUME h \in Held, h[1] # p  PROVE h \in Held'
    BY <2>2, <1>2, HeldShape, HeldShapeNext
  <2>3. QED  BY <2>1, <2>2
<1>4. Held' = {h \in Held : h[1] # p}
  BY <1>3
<1>5. QED  BY <1>4 DEF Pool!Vanish, StopProcess

LEMMA ReleaseIsRelease ==
    ASSUME NEW p \in Process, NEW c \in Channel, Release(p, c), TypeOK
    PROVE  Pool!Release(p, c)
<1>1. \A q \in Process, d \in Channel : allocatedPrefixes'[q][d] =
         IF q = p /\ d = c THEN NoPrefix ELSE allocatedPrefixes[q][d]
  BY DEF Release, TypeOK
<1>2. \A h : h \in Held' <=> h \in Held /\ ~(h[1] = p /\ h[2] = c)
  <2> TAKE h
  <2>1. ASSUME h \in Held'  PROVE h \in Held /\ ~(h[1] = p /\ h[2] = c)
    BY <2>1, <1>1, HeldShape, HeldShapeNext
  <2>2. ASSUME h \in Held, ~(h[1] = p /\ h[2] = c)  PROVE h \in Held'
    BY <2>2, <1>1, HeldShape, HeldShapeNext
  <2>3. QED  BY <2>1, <2>2
<1>3. Held' = {h \in Held : ~(h[1] = p /\ h[2] = c)}
  BY <1>2
<1>4. QED  BY <1>3 DEF Pool!Release, Release

\* A prefix free in its process is free in the deployment.
LEMMA FreeIsFreeEverywhere ==
    ASSUME IInv, NEW p \in live, NEW x \in LocalPrefix, x \notin usedPrefixes[p], x # NoPrefix
    PROVE  PrefixToBuffer(p, x) \notin Pool!HeldPrefixes
<1> SUFFICES ASSUME NEW q \in Process, NEW d \in Channel,
                    allocatedPrefixes[q][d] # NoPrefix,
                    PrefixToBuffer(p, x) = PrefixToBuffer(q, allocatedPrefixes[q][d])
             PROVE  FALSE
  BY HeldShape DEF Pool!HeldPrefixes
<1>1. allocatedPrefixes[q][d] \in usedPrefixes[q]
  BY DEF IInv, UsedMatchesAllocated
<1>2. q \in live
  BY <1>1 DEF IInv, UsedMatchesAllocated
<1>3. Namespace(p) = Namespace(q) /\ x = allocatedPrefixes[q][d]
  BY DEF PrefixToBuffer
<1>4. p = q  BY <1>2, <1>3, NamespaceDistinguishes
<1>5. QED  BY <1>1, <1>3, <1>4

LEMMA NewIsGrant ==
    ASSUME IInv, NEW p \in Process, NEW c \in Channel, AllocateNew(p, c)
    PROVE  Pool!Grant(p, c)
<1>1. PICK x \in LocalPrefix :
        /\ FirstFree(nextPrefix[p], usedPrefixes[p], x)
        /\ allocatedPrefixes' = [allocatedPrefixes EXCEPT ![p][c] = x]
        /\ reply' = PrefixToBuffer(p, x)
  BY DEF AllocateNew
<1>2. x \notin usedPrefixes[p] /\ x # NoPrefix
  BY <1>1, FirstFreeIsFree DEF IInv, TypeOK
<1>3. PrefixToBuffer(p, x) \in Lane[p] \ Pool!HeldPrefixes
  <2>1. PrefixToBuffer(p, x) \in Lane[p]  BY DEF Lane
  <2>2. p \in live  BY DEF AllocateNew
  <2>3. QED  BY <1>2, <2>1, <2>2, FreeIsFreeEverywhere
<1>4. allocatedPrefixes[p][c] = NoPrefix  BY DEF AllocateNew
<1>5. ~Pool!Holds(p, c)  BY <1>4, HoldsIff
<1>6. \A q \in Process, d \in Channel : allocatedPrefixes'[q][d] =
         IF q = p /\ d = c THEN x ELSE allocatedPrefixes[q][d]
  BY <1>1 DEF IInv, TypeOK
<1>7. \A h : h \in Held' <=> h \in Held \/ h = <<p, c, PrefixToBuffer(p, x)>>
  <2> TAKE h
  <2>1. ASSUME h \in Held'  PROVE h \in Held \/ h = <<p, c, PrefixToBuffer(p, x)>>
    BY <2>1, <1>6, HeldShape, HeldShapeNext
  <2>2. ASSUME h \in Held  PROVE h \in Held'
    BY <2>2, <1>4, <1>6, HeldShape, HeldShapeNext
  <2>3. ASSUME h = <<p, c, PrefixToBuffer(p, x)>>  PROVE h \in Held'
    BY <2>3, <1>2, <1>6, HeldShapeNext
  <2>4. QED  BY <2>1, <2>2, <2>3
<1>8. Held' = Held \union {<<p, c, PrefixToBuffer(p, x)>>}
  BY <1>7
<1>9. QED  BY <1>1, <1>3, <1>5, <1>8 DEF Pool!Grant

LEMMA ExhaustedIsRefuse ==
    ASSUME IInv, NEW p \in Process, NEW c \in Channel, AllocateExhausted(p, c)
    PROVE  Pool!Refuse(p, c)
<1>1. LocalPrefix \subseteq usedPrefixes[p]
  BY ExhaustedIsFull DEF AllocateExhausted, IInv, TypeOK
<1>2. ASSUME NEW x \in LocalPrefix  PROVE PrefixToBuffer(p, x) \in Pool!HeldPrefixes
  <2>1. PICK d \in Channel : allocatedPrefixes[p][d] = x /\ x # NoPrefix
    BY <1>1 DEF IInv, UsedMatchesAllocated
  <2>2. <<p, d, PrefixToBuffer(p, x)>> \in Held  BY <2>1, HeldIff
  <2>3. QED  BY <2>2 DEF Pool!HeldPrefixes
<1>3. Lane[p] \subseteq Pool!HeldPrefixes  BY <1>2 DEF Lane
<1>4. ~Pool!Holds(p, c)  BY HoldsIff DEF AllocateExhausted
<1>5. Held' = Held
  BY HeldShape, HeldShapeNext DEF AllocateExhausted, managerVars
<1>6. QED  BY <1>3, <1>4, <1>5 DEF Pool!Refuse, AllocateExhausted

LEMMA ExistingIsRepeat ==
    ASSUME IInv, NEW p \in Process, NEW c \in Channel, AllocateExisting(p, c)
    PROVE  Pool!Repeat(p, c)
<1>1. allocatedPrefixes[p][c] \in LocalPrefix
  BY DEF AllocateExisting, IInv, TypeOK
<1>2. reply' \in Lane[p]  BY <1>1 DEF AllocateExisting, Lane
<1>3. <<p, c, reply'>> \in Held  BY HeldIff DEF AllocateExisting
<1>4. Held' = Held
  BY HeldShape, HeldShapeNext DEF AllocateExisting, managerVars
<1>5. QED  BY <1>2, <1>3, <1>4 DEF Pool!Repeat

(* The managers of all processes together implement the abstract pool.      *)
THEOREM ManagerImplementsPool == Spec => ImplementsPool
<1>1. Init => Pool!Init
  <2> SUFFICES ASSUME Init  PROVE Held = {} /\ reply = Nothing
    BY DEF Pool!Init
  <2>1. \A q \in Process, d \in Channel : allocatedPrefixes[q][d] = NoPrefix
    BY DEF Init, FreshAllocation
  <2>2. QED  BY <2>1, HeldShape DEF Init
<1>2. IInv /\ [Next]_vars => [Pool!Next]_(Pool!poolVars)
  <2> SUFFICES ASSUME IInv, [Next]_vars  PROVE Pool!Next \/ UNCHANGED Pool!poolVars
    OBVIOUS
  <2>1. ASSUME UNCHANGED <<allocatedPrefixes, reply>>  PROVE UNCHANGED Pool!poolVars
    BY <2>1, HeldShape, HeldShapeNext DEF Pool!poolVars
  <2>2. ASSUME NEW p \in Process, StopProcess(p)  PROVE Pool!Next
    BY <2>2, StopIsVanish DEF IInv, Pool!Next
  <2>3. ASSUME NEW p \in Process, NEW c \in Channel,
               \/ AllocateExisting(p, c) \/ AllocateNew(p, c)
               \/ AllocateExhausted(p, c) \/ Release(p, c)
        PROVE  Pool!Next
    BY <2>3, ExistingIsRepeat, NewIsGrant, ExhaustedIsRefuse, ReleaseIsRelease
       DEF IInv, Pool!Next
  <2>4. QED
    BY <2>1, <2>2, <2>3
       DEF Next, vars, StartProcess, StartRejected, managerVars
<1>3. QED
  BY <1>1, <1>2, Invariance, PTL DEF Spec, ImplementsPool, Pool!Spec

-----------------------------------------------------------------------------
(* The Noise identity.                                                     *)

\* A rotation, once it has its keypair, ends sessions; the start of a process
\* waits for a keypair while there is no certificate and nobody was told a key.
Booting ==
    /\ priv = NoKey => cert = NoKey /\ calls = {}
    /\ cert = NoKey => calls \subseteq {Begun(NoKey)} /\ told = NoKey /\ Registered = {}
    /\ \A c \in calls : c.id = NoKey => c = Begun(NoKey) /\ cert = NoKey

KeyInv == KeyTypeOK /\ Booting /\ PublishedKeyWorks /\ ToldKeyWorks /\ OldSessionsDropped
             /\ KeyIsInFile

-----------------------------------------------------------------------------
LEMMA NoKeyIsNone == /\ MaxKeys \in Nat /\ MaxKeys >= 1 /\ MaxFailures \in Nat
                     /\ NoKey \notin Key
BY KeyBound DEF NoKey, Key, Made, EnvKey

LEMMA KeyInvInit == KeyInit => KeyInv
BY NoKeyIsNone
   DEF KeyInit, Down, KeyInv, KeyTypeOK, Booting, PublishedKeyWorks, ToldKeyWorks,
       OldSessionsDropped, KeyIsInFile, Registered, NoSession, SessionState, Call,
       Signed, NoKey, Made

\* Resolving gives a key, and the one in the file if it counts as persisted.
LEMMA Resolved ==
    ASSUME KeyTypeOK, NEW f \in Made \union {NoKey}, NEW m \in 0..MaxKeys, Resolve(f, m)
    PROVE  /\ priv' \in Key
           /\ file' \in Made \union {NoKey}
           /\ made' \in 0..MaxKeys
           /\ source' \in {"env", "persisted", "generated"}
           /\ failures' \in 0..MaxFailures
           /\ KeyIsInFile'
<1>1. CASE UseEnv(f, m)
  BY <1>1, NoKeyIsNone DEF UseEnv, Pinned, KeyTypeOK, KeyIsInFile, Key, EnvKey
<1>2. CASE UseFile(f, m)
  BY <1>2, NoKeyIsNone DEF UseFile, KeyTypeOK, KeyIsInFile, Key, Made
<1>3. CASE MakeKey(f, m)
  <2>1. m + 1 \in Made /\ m + 1 \in 0..MaxKeys
    BY <1>3, NoKeyIsNone DEF MakeKey, Made
  <2>2. PICK unread, unwritten \in BOOLEAN :
          /\ failures' = failures + (IF unread THEN 1 ELSE 0) + (IF unwritten THEN 1 ELSE 0)
          /\ failures' <= MaxFailures
          /\ file' = IF unwritten THEN f ELSE m + 1
          /\ source' = SourceOf(unwritten)
    BY <1>3 DEF MakeKey
  <2>3. failures' \in 0..MaxFailures
    BY <2>2, NoKeyIsNone DEF KeyTypeOK
  <2> QED BY <1>3, <2>1, <2>2, <2>3 DEF MakeKey, SourceOf, KeyIsInFile, Key
<1> QED BY <1>1, <1>2, <1>3 DEF Resolve

\* A call that has begun waits for its keypair.
LEMMA BegunCall ==
    ASSUME NEW id \in Made \union {NoKey}
    PROVE  Begun(id) \in Call /\ Begun(id).step = "keypair" /\ Begun(id).id = id
BY DEF Begun, Call

-----------------------------------------------------------------------------
LEMMA StartKeeps == ASSUME KeyInv, Start PROVE KeyInv'
<1>1. /\ priv' \in Key
      /\ file' \in Made \union {NoKey}
      /\ made' \in 0..MaxKeys
      /\ source' \in {"env", "persisted", "generated"}
      /\ failures' \in 0..MaxFailures
      /\ KeyIsInFile'
  BY Resolved DEF Start, KeyInv, KeyTypeOK
<1>2. Begun(NoKey) \in Call /\ Begun(NoKey).step = "keypair"
  BY BegunCall
<1>3. calls' = {Begun(NoKey)} /\ UNCHANGED <<cert, sessions, told>> /\ cert = NoKey
  BY DEF Start, KeyInv, Booting
<1>4. KeyTypeOK' BY <1>1, <1>2, <1>3 DEF KeyInv, KeyTypeOK
<1>5. Booting' BY <1>1, <1>3, NoKeyIsNone DEF KeyInv, Booting, Registered
<1>6. PublishedKeyWorks' BY <1>2, <1>3 DEF PublishedKeyWorks, Signed
<1>7. ToldKeyWorks' BY <1>3 DEF ToldKeyWorks
<1>8. OldSessionsDropped' BY <1>3 DEF KeyInv, OldSessionsDropped, Registered
<1> QED BY <1>1, <1>4, <1>5, <1>6, <1>7, <1>8 DEF KeyInv

LEMMA RotateKeeps == ASSUME KeyInv, Rotate PROVE KeyInv'
<1>1. made + 1 \in Made /\ made + 1 \in 0..MaxKeys /\ made + 1 # NoKey
  BY NoKeyIsNone DEF Rotate, KeyInv, KeyTypeOK, Made, NoKey
<1>2. /\ priv' \in Key
      /\ file' \in Made \union {NoKey}
      /\ made' \in 0..MaxKeys
      /\ source' \in {"env", "persisted", "generated"}
      /\ failures' \in 0..MaxFailures
      /\ KeyIsInFile'
  BY <1>1, Resolved DEF Rotate, KeyInv
<1>3. Begun(made + 1) \in Call /\ Begun(made + 1).step = "keypair"
        /\ Begun(made + 1).id = made + 1
  BY <1>1, BegunCall
<1>4. /\ calls' = calls \union {Begun(made + 1)}
      /\ UNCHANGED <<cert, sessions, told>>
      /\ cert # NoKey
  BY DEF Rotate
<1>5. KeyTypeOK' BY <1>2, <1>3, <1>4 DEF KeyInv, KeyTypeOK
<1>6. Booting' BY <1>1, <1>2, <1>3, <1>4, NoKeyIsNone DEF KeyInv, Booting
<1>7. PublishedKeyWorks' BY <1>3, <1>4 DEF PublishedKeyWorks, Signed
<1>8. ToldKeyWorks' BY <1>4 DEF ToldKeyWorks
<1>9. OldSessionsDropped' BY <1>4 DEF KeyInv, OldSessionsDropped, Registered
<1> QED BY <1>2, <1>5, <1>6, <1>7, <1>8, <1>9 DEF KeyInv

-----------------------------------------------------------------------------
(* The keypair is there: cert becomes priv, whichever key the call began   *)
(* with; a rotation leaves no session registered, and at the start of a    *)
(* process there was none.                                                 *)
LEMMA KeypairReadyKeeps == ASSUME KeyInv, NEW c \in calls, KeypairReady(c) PROVE KeyInv'
<1>1. /\ cert' = priv
      /\ UNCHANGED <<keyVars, told, failures>>
      /\ c \in Call
  BY DEF KeypairReady, Signing, KeyInv, KeyTypeOK
<1>2. priv \in Key BY DEF KeyInv, KeyTypeOK, Booting
<1>3. sessions' = [s \in Session |->
         IF s \in Dropped(c) THEN [sessions[s] EXCEPT !.state = "ending"] ELSE sessions[s]]
  BY DEF KeypairReady
<1>4. Dropped(c) = IF c.id = NoKey THEN {} ELSE Registered
  BY DEF Dropped
<1>5. ASSUME NEW s \in Session
      PROVE  /\ sessions'[s] \in SessionState
             /\ s \notin Registered'
  <2>1. sessions[s] \in SessionState BY DEF KeyInv, KeyTypeOK
  <2>2. CASE s \in Dropped(c)
    <3>1. s \in Registered BY <1>4, <2>2
    <3>2. sessions[s] \in [state : {"handshake", "open", "ending"}, cert : Key]
      BY <2>1, <3>1 DEF Registered, SessionState, NoSession
    <3> QED BY <1>3, <2>2, <3>2 DEF SessionState, Registered
  <2>3. CASE s \notin Dropped(c)
    <3>1. sessions'[s] = sessions[s] BY <1>3, <2>3
    <3>2. s \notin Registered BY <1>4, <2>3 DEF KeyInv, Booting
    <3> QED BY <2>1, <3>1, <3>2 DEF Registered
  <2> QED BY <2>2, <2>3
<1>6. sessions' \in [Session -> SessionState] BY <1>3, <1>5
<1>7. Registered' = {} BY <1>5 DEF Registered
<1> DEFINE next == [c EXCEPT !.step = "dropping", !.dropped = Dropped(c)]
<1>8. next \in Call /\ next.step = "dropping" /\ next.id = c.id
  BY <1>1, <1>4 DEF Call, Registered
<1>9. calls' = (calls \ {c}) \union (IF c.id = NoKey THEN {} ELSE {next})
  BY DEF KeypairReady
<1>10. KeyTypeOK'
  BY <1>1, <1>2, <1>6, <1>8, <1>9 DEF KeyInv, KeyTypeOK, keyVars
<1>11. \A d \in calls' : d.id # NoKey
  <2>1. CASE c.id = NoKey
    <3>1. cert = NoKey /\ calls \subseteq {c} BY <2>1 DEF KeyInv, Booting
    <3> QED BY <1>9, <2>1, <3>1
  <2>2. CASE c.id # NoKey
    <3>1. cert # NoKey
      BY <2>2, BegunCall DEF KeyInv, Booting, Begun
    <3>2. ASSUME NEW d \in calls PROVE d.id # NoKey
      BY <3>1 DEF KeyInv, Booting
    <3> QED BY <1>8, <1>9, <2>2, <3>2
  <2> QED BY <2>1, <2>2
<1>12. Booting' BY <1>1, <1>2, <1>11, NoKeyIsNone DEF Booting, keyVars
<1>13. PublishedKeyWorks' BY <1>1 DEF PublishedKeyWorks, keyVars
<1>14. ToldKeyWorks'
  <2>1. CASE c.id = NoKey
    BY <1>1, <2>1 DEF KeyInv, Booting, ToldKeyWorks
  <2>2. CASE c.id # NoKey BY <1>9, <2>2 DEF ToldKeyWorks
  <2> QED BY <2>1, <2>2
<1>15. OldSessionsDropped' BY <1>7 DEF OldSessionsDropped
<1>16. KeyIsInFile' BY <1>1 DEF KeyInv, KeyIsInFile, keyVars
<1> QED BY <1>10, <1>12, <1>13, <1>14, <1>15, <1>16 DEF KeyInv

\* The answer names priv: if it was the last call, that is what is certified.
LEMMA AnswerKeeps == ASSUME KeyInv, NEW c \in calls, Answer(c) PROVE KeyInv'
<1>1. /\ told' = priv
      /\ calls' = calls \ {c}
      /\ UNCHANGED <<keyVars, cert, sessions, failures>>
      /\ c.step = "dropping"
  BY DEF Answer, AnswerKey
<1>2. cert # NoKey
  BY <1>1, BegunCall DEF KeyInv, Booting
<1>3. KeyTypeOK' BY <1>1 DEF KeyInv, KeyTypeOK, keyVars
<1>4. Booting' BY <1>1, <1>2 DEF KeyInv, Booting, keyVars
<1>5. calls' = {} => cert = priv
  BY <1>1 DEF KeyInv, PublishedKeyWorks, Signed
<1>6. PublishedKeyWorks' BY <1>1 DEF KeyInv, PublishedKeyWorks, Signed, keyVars
<1>7. ToldKeyWorks' BY <1>1, <1>5 DEF ToldKeyWorks
<1>8. OldSessionsDropped' BY <1>1 DEF KeyInv, OldSessionsDropped, Registered
<1>9. KeyIsInFile' BY <1>1 DEF KeyInv, KeyIsInFile, keyVars
<1> QED BY <1>3, <1>4, <1>6, <1>7, <1>8, <1>9 DEF KeyInv

-----------------------------------------------------------------------------
(* Sessions come with the certificate of the moment and go.                *)

LEMMA ConnectKeeps == ASSUME KeyInv, NEW s \in Session, Connect(s) PROVE KeyInv'
<1> DEFINE begun == [state |-> "handshake", cert |-> cert]
<1>1. /\ cert # NoKey
      /\ sessions' = [sessions EXCEPT ![s] = begun]
      /\ UNCHANGED <<keyVars, cert, calls, told, failures>>
  BY DEF Connect
<1>2. begun \in SessionState BY <1>1 DEF KeyInv, KeyTypeOK, SessionState
<1>3. KeyTypeOK' BY <1>1, <1>2 DEF KeyInv, KeyTypeOK, keyVars
<1>4. \A t \in Session \ {s} : sessions'[t] = sessions[t] BY <1>1 DEF KeyInv, KeyTypeOK
<1>5. sessions'[s].cert = cert BY <1>1 DEF KeyInv, KeyTypeOK
<1>6. OldSessionsDropped'
  BY <1>1, <1>4, <1>5 DEF KeyInv, OldSessionsDropped, Registered
<1> QED BY <1>1, <1>3, <1>6
        DEF KeyInv, Booting, PublishedKeyWorks, ToldKeyWorks, KeyIsInFile, Signed, keyVars

\* A registered session whose state changes keeps its certificate.
LEMMA ChangeKeeps ==
    ASSUME KeyInv, NEW s \in Session, HandshakeDone(s) \/ Leave(s) PROVE KeyInv'
<1> DEFINE to == sessions'[s].state
<1>1. PICK new \in {"open", "ending"} :
        sessions' = [sessions EXCEPT ![s].state = new]
  BY DEF HandshakeDone, Leave
<1>2. s \in Registered BY DEF HandshakeDone, Leave, Registered
<1>3. UNCHANGED <<keyVars, cert, calls, told, failures>>
  BY DEF HandshakeDone, Leave
<1>4. sessions[s] \in [state : {"handshake", "open", "ending"}, cert : Key]
  BY <1>2 DEF KeyInv, KeyTypeOK, Registered, SessionState, NoSession
<1>5. sessions \in [Session -> SessionState] BY DEF KeyInv, KeyTypeOK
<1>6. /\ sessions'[s] = [state |-> new, cert |-> sessions[s].cert]
      /\ \A t \in Session \ {s} : sessions'[t] = sessions[t]
  BY <1>1, <1>4, <1>5
<1>7. sessions'[s] \in SessionState BY <1>4, <1>6 DEF SessionState
<1>8. sessions' \in [Session -> SessionState] BY <1>1, <1>5, <1>7
<1>9. KeyTypeOK' BY <1>3, <1>8 DEF KeyInv, KeyTypeOK, keyVars
<1>10. cert # NoKey BY <1>2 DEF KeyInv, Booting
<1>11. OldSessionsDropped'
  BY <1>2, <1>3, <1>6 DEF KeyInv, OldSessionsDropped, Registered
<1> QED BY <1>3, <1>9, <1>10, <1>11
        DEF KeyInv, Booting, PublishedKeyWorks, ToldKeyWorks, KeyIsInFile, Signed, keyVars

LEMMA DestroyedKeeps == ASSUME KeyInv, NEW s \in Session, Destroyed(s) PROVE KeyInv'
<1> DEFINE without(c) == [c EXCEPT !.dropped = @ \ {s}]
<1>1. /\ sessions' = [sessions EXCEPT ![s] = NoSession]
      /\ calls' = {without(c) : c \in calls}
      /\ UNCHANGED <<keyVars, cert, told, failures>>
  BY DEF Destroyed
<1>2. ASSUME NEW c \in calls
      PROVE  /\ without(c) \in Call /\ without(c).id = c.id /\ without(c).step = c.step
             /\ c = Begun(NoKey) => without(c) = c
  BY DEF KeyInv, KeyTypeOK, Call, Begun
<1>3. sessions' \in [Session -> SessionState]
  BY <1>1 DEF KeyInv, KeyTypeOK, SessionState
<1>4. KeyTypeOK' BY <1>1, <1>2, <1>3 DEF KeyInv, KeyTypeOK, keyVars
<1>5. \A t \in Session : t \in Registered' => t \in Registered /\ sessions'[t] = sessions[t]
  BY <1>1 DEF KeyInv, KeyTypeOK, Registered, NoSession
<1>6. Registered' \subseteq Registered BY <1>5 DEF Registered
<1>7. Booting'
  <2>1. priv = NoKey => cert = NoKey /\ calls' = {}
    <3> HIDE DEF without
    <3> QED BY <1>1 DEF KeyInv, Booting
  <2>2. cert = NoKey => calls' \subseteq {Begun(NoKey)} /\ told = NoKey /\ Registered' = {}
    <3> HIDE DEF without
    <3>1. cert = NoKey => calls \subseteq {Begun(NoKey)} /\ told = NoKey /\ Registered = {}
      BY DEF KeyInv, Booting
    <3> QED BY <1>1, <1>2, <1>6, <3>1
  <2>3. \A c \in calls : without(c).id = NoKey => without(c) = Begun(NoKey) /\ cert = NoKey
    BY <1>2 DEF KeyInv, Booting
  <2>4. \A d \in calls' : d.id = NoKey => d = Begun(NoKey) /\ cert = NoKey
    <3> HIDE DEF without
    <3> QED BY <1>1, <2>3
  <2> QED BY <1>1, <2>1, <2>2, <2>4 DEF Booting, keyVars, Begun
<1>8. Signed' => Signed BY <1>1, <1>2 DEF Signed
<1>9. PublishedKeyWorks' BY <1>1, <1>8 DEF KeyInv, PublishedKeyWorks, keyVars
<1>10. ToldKeyWorks' BY <1>1 DEF KeyInv, ToldKeyWorks
<1>11. OldSessionsDropped' BY <1>1, <1>5, <1>6 DEF KeyInv, OldSessionsDropped
<1>12. KeyIsInFile' BY <1>1 DEF KeyInv, KeyIsInFile, keyVars
<1> QED BY <1>4, <1>7, <1>9, <1>10, <1>11, <1>12 DEF KeyInv

LEMMA CrashKeeps == ASSUME KeyInv, Crash PROVE KeyInv'
<1>1. /\ priv' = NoKey /\ cert' = NoKey /\ calls' = {} /\ told' = NoKey
      /\ sessions' = [s \in Session |-> NoSession]
      /\ failures' = failures + 1 /\ failures < MaxFailures
      /\ UNCHANGED <<file, made, source>>
  BY DEF Crash
<1>2. failures' \in 0..MaxFailures BY <1>1, NoKeyIsNone DEF KeyInv, KeyTypeOK
<1>3. KeyTypeOK' BY <1>1, <1>2 DEF KeyInv, KeyTypeOK, SessionState
<1>4. Registered' = {} BY <1>1 DEF Registered, NoSession
<1> QED BY <1>1, <1>3, <1>4
        DEF KeyInv, Booting, PublishedKeyWorks, ToldKeyWorks, OldSessionsDropped,
            KeyIsInFile, Signed

LEMMA KeyInvStep == KeyInv /\ [KeyNext]_identityVars => KeyInv'
<1> SUFFICES ASSUME KeyInv, [KeyNext]_identityVars PROVE KeyInv'
  OBVIOUS
<1>1. CASE Start BY <1>1, StartKeeps
<1>2. CASE Rotate BY <1>2, RotateKeeps
<1>3. ASSUME NEW c \in calls, KeypairReady(c) \/ Answer(c) PROVE KeyInv'
  BY <1>3, KeypairReadyKeeps, AnswerKeeps
<1>4. ASSUME NEW s \in Session,
             Connect(s) \/ HandshakeDone(s) \/ Leave(s) \/ Destroyed(s)
      PROVE  KeyInv'
  BY <1>4, ConnectKeeps, ChangeKeeps, DestroyedKeeps
<1>5. CASE Crash BY <1>5, CrashKeeps
<1>6. CASE UNCHANGED identityVars
  BY <1>6 DEF identityVars, keyVars, KeyInv, KeyTypeOK, Booting, PublishedKeyWorks, ToldKeyWorks,
       OldSessionsDropped, KeyIsInFile, Registered, Signed
<1> QED BY <1>1, <1>2, <1>3, <1>4, <1>5, <1>6 DEF KeyNext, Step

LEMMA KeyInvHolds == KeySpec => []KeyInv
BY KeyInvInit, KeyInvStep, PTL DEF KeySpec

-----------------------------------------------------------------------------
(* The variables of the key and its sessions keep their types: no more     *)
(* keys are made, and no other states reached, than the module names.      *)
THEOREM KeyTypeCorrect == KeySpec => []KeyTypeOK
<1>1. KeyInv => KeyTypeOK BY DEF KeyInv
<1> QED BY <1>1, KeyInvHolds, PTL

(* However rotations overlap, once none waits for its keypair, the key     *)
(* that is published is the one the certificate is signed with.            *)
THEOREM PublishedKeyProves == KeySpec => []PublishedKeyWorks
<1>1. KeyInv => PublishedKeyWorks BY DEF KeyInv
<1> QED BY <1>1, KeyInvHolds, PTL

(* When no rotation is under way, the key that the last one answered with  *)
(* is the one in use.                                                      *)
THEOREM ToldKeyProves == KeySpec => []ToldKeyWorks
<1>1. KeyInv => ToldKeyWorks BY DEF KeyInv
<1> QED BY <1>1, KeyInvHolds, PTL

(* No session that goes on was shown a certificate of an earlier key.      *)
THEOREM SessionsAreCurrent == KeySpec => []OldSessionsDropped
<1>1. KeyInv => OldSessionsDropped BY DEF KeyInv
<1> QED BY <1>1, KeyInvHolds, PTL

(* The key in use is in the file, unless it is pinned or could not be      *)
(* written; so the next process finds it.                                  *)
THEOREM KeySurvives == KeySpec => []KeyIsInFile
<1>1. KeyInv => KeyIsInFile BY DEF KeyInv
<1> QED BY <1>1, KeyInvHolds, PTL
=============================================================================
