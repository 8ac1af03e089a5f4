------------------------------ MODULE RedisProofs ------------------------------
(***************************************************************************)
(* Proofs about the Redis client and the limiters that call through it:    *)
(* RedisClient, for any number of coroutines, any cooldown and any pool,   *)
(* then RateLimiter, for any windows, limits and lengths, and              *)
(* AuthRateLimit, for any clients and size of the store.                   *)
(***************************************************************************)
EXTENDS RedisClient, RateLimiter, AuthRateLimit, FiniteSetTheorems, WellFoundedInduction, TLAPS

(* Who pings or closes holds the lock and nobody else does; a coroutine pings   *)
(* only when there is no client and closes only when there is one.              *)
LockInv ==
  /\ \A c \in Callers : pc[c] \in {"ping", "closing"} <=> lock = c
  /\ \A c \in Callers : pc[c] = "ping" => client = NoClient
  /\ \A c \in Callers : pc[c] = "closing" => client # NoClient

ClientInv == TypeOK /\ LockInv /\ SingleLiveClient

LEMMA Bounds == Cooldown \in Nat /\ None \notin Callers /\ 0 \in 0 .. Cooldown
<1>1. Cooldown \in Nat /\ None \notin Callers
  BY ConstantsOK
<1> QED
  BY <1>1

LEMMA InitClient == Init => ClientInv
<1> SUFFICES ASSUME Init PROVE ClientInv
  OBVIOUS
<1>1. TypeOK
  BY DEF Init, TypeOK, PCs
<1>2. LockInv
  BY ConstantsOK DEF Init, LockInv
<1>3. SingleLiveClient
  BY DEF Init, SingleLiveClient
<1> QED
  BY <1>1, <1>2, <1>3 DEF ClientInv

(* A coroutine that gets the cached client, or drops the one it holds, holds    *)
(* nothing that has been lost.                                                  *)
LEMMA HoldKeeps ==
  ASSUME NEW c \in Callers, NEW k \in {client, NoClient}, ClientInv, Hold(c, k), client' = client
  PROVE  /\ SingleLiveClient'
         /\ handle' \in [Callers -> Ids \cup {NoClient}] /\ late' \subseteq Callers
<1>1. handle \in [Callers -> Ids \cup {NoClient}] /\ late \subseteq Callers
      /\ client \in Ids \cup {NoClient}
  BY DEF ClientInv, TypeOK
<1>2. handle' \in [Callers -> Ids \cup {NoClient}] /\ late' \subseteq Callers
  BY <1>1 DEF Hold
<1>3. ASSUME NEW d \in Callers PROVE handle'[d] \in {NoClient, client'} \/ d \in late'
  BY <1>1, <1>3 DEF ClientInv, SingleLiveClient, Hold
<1> QED
  BY <1>2, <1>3 DEF SingleLiveClient

LEMMA SameHandles ==
  ASSUME ClientInv, UNCHANGED <<client, handle, late>>
  PROVE  SingleLiveClient'
  BY DEF ClientInv, SingleLiveClient

(* Steps that do not touch the client: the lock is taken, kept or given back    *)
(* with the place it belongs to.                                                *)
LEMMA AcquireKeeps == ASSUME NEW c \in Callers, ClientInv, Acquire(c) PROVE ClientInv'
<1>1. CASE client # NoClient
  <2>1. Hold(c, client) /\ client' = client /\ lock' = lock /\ burst' = burst
        /\ pc' = [pc EXCEPT ![c] = "have"] /\ pc[c] = "wait"
        /\ UNCHANGED <<up, stale, since>>
    BY <1>1 DEF Acquire, Goto
  <2>2. /\ SingleLiveClient'
        /\ handle' \in [Callers -> Ids \cup {NoClient}] /\ late' \subseteq Callers
    BY <2>1, HoldKeeps
  <2>3. TypeOK'
    BY <2>1, <2>2 DEF ClientInv, TypeOK, PCs
  <2>4. LockInv'
    BY <2>1 DEF ClientInv, TypeOK, LockInv
  <2> QED
    BY <2>2, <2>3, <2>4 DEF ClientInv
<1>2. CASE client = NoClient
  <2>1. /\ pc' = [pc EXCEPT ![c] = "ping"] /\ lock' = c /\ lock = None /\ pc[c] = "wait"
        /\ burst' = IF Open THEN burst + 1 ELSE burst
        /\ UNCHANGED <<up, client, handle, stale, since, late>>
    BY <1>2 DEF Acquire, Goto
  <2>2. TypeOK'
    BY <2>1 DEF ClientInv, TypeOK, PCs
  <2>3. LockInv'
    BY <1>2, <2>1, ConstantsOK DEF ClientInv, TypeOK, LockInv
  <2> QED
    BY <2>1, <2>2, <2>3, SameHandles DEF ClientInv
<1> QED
  BY <1>1, <1>2

(* A new client takes the place of none, so whoever held a client before holds  *)
(* one that has been closed.                                                    *)
LEMMA PingOkKeeps == ASSUME NEW c \in Callers, ClientInv, PingOk(c) PROVE ClientInv'
<1>1. PICK k \in Unused : client' = k /\ Hold(c, k) /\ stale' = stale \ {k}
  BY DEF PingOk
<1>2. k \in Ids
  BY DEF Unused
<1>3. /\ pc' = [pc EXCEPT ![c] = "have"] /\ lock' = None /\ pc[c] = "ping"
      /\ UNCHANGED <<up, since, burst>>
  BY DEF PingOk, Goto
<1>4. TypeOK'
  <2>1. handle' \in [Callers -> Ids \cup {NoClient}] /\ late' \subseteq Callers
    BY <1>1, <1>2 DEF ClientInv, TypeOK, Hold
  <2> QED
    BY <1>1, <1>2, <1>3, <2>1 DEF ClientInv, TypeOK, PCs
<1>5. client = NoClient /\ lock = c
  BY <1>3 DEF ClientInv, LockInv
<1>6. LockInv'
  BY <1>3, <1>5, ConstantsOK DEF ClientInv, TypeOK, LockInv
<1>7. ASSUME NEW d \in Callers PROVE handle'[d] \in {NoClient, client'} \/ d \in late'
  <2>1. handle[d] = NoClient \/ d \in late
    BY <1>5 DEF ClientInv, SingleLiveClient
  <2> QED
    BY <1>1, <2>1 DEF ClientInv, TypeOK, Hold
<1> QED
  BY <1>4, <1>6, <1>7 DEF ClientInv, SingleLiveClient

LEMMA PingFailsKeeps == ASSUME NEW c \in Callers, ClientInv, PingFails(c) PROVE ClientInv'
<1>1. /\ Hold(c, NoClient) /\ lock' = None /\ since' = 0 /\ pc[c] = "ping"
      /\ burst' = IF Open THEN burst ELSE 0
      /\ UNCHANGED <<up, client, stale>>
  BY DEF PingFails, GiveUp, Drop
<1>2. PICK p \in {"idle", "reset"} : pc' = [pc EXCEPT ![c] = p]
  BY DEF PingFails, GiveUp, Goto
<1>3. /\ SingleLiveClient'
      /\ handle' \in [Callers -> Ids \cup {NoClient}] /\ late' \subseteq Callers
  BY <1>1, HoldKeeps
<1>4. TypeOK'
  BY <1>1, <1>2, <1>3, Bounds DEF ClientInv, TypeOK, PCs
<1>5. LockInv'
  BY <1>1, <1>2, ConstantsOK DEF ClientInv, TypeOK, LockInv
<1> QED
  BY <1>3, <1>4, <1>5 DEF ClientInv

LEMMA ResetAcquireKeeps == ASSUME NEW c \in Callers, ClientInv, ResetAcquire(c) PROVE ClientInv'
<1>1. TypeOK'
  BY DEF ClientInv, TypeOK, PCs, ResetAcquire, Goto
<1>2. LockInv'
  BY ConstantsOK DEF ClientInv, TypeOK, LockInv, ResetAcquire, Goto
<1>3. SingleLiveClient'
  BY SameHandles DEF ResetAcquire
<1> QED
  BY <1>1, <1>2, <1>3 DEF ClientInv

LEMMA ClosedKeeps == ASSUME NEW c \in Callers, ClientInv, Closed(c) PROVE ClientInv'
<1>1. TypeOK'
  BY DEF ClientInv, TypeOK, PCs, Closed, Goto
<1>2. LockInv'
  BY ConstantsOK DEF ClientInv, TypeOK, LockInv, Closed, Goto
<1>3. SingleLiveClient'
  BY DEF ClientInv, SingleLiveClient, Closed
<1> QED
  BY <1>1, <1>2, <1>3 DEF ClientInv

LEMMA CancelKeeps == ASSUME NEW c \in Callers, ClientInv, Cancel(c) PROVE ClientInv'
<1>1. /\ Hold(c, NoClient) /\ client' = client /\ pc' = [pc EXCEPT ![c] = "idle"]
      /\ lock' = IF lock = c THEN None ELSE lock
      /\ UNCHANGED <<up, stale, since, burst>>
  BY DEF Cancel, Drop, Goto
<1>2. /\ SingleLiveClient'
      /\ handle' \in [Callers -> Ids \cup {NoClient}] /\ late' \subseteq Callers
  BY <1>1, HoldKeeps
<1>3. TypeOK'
  BY <1>1, <1>2 DEF ClientInv, TypeOK, PCs
<1>4. LockInv'
  BY <1>1, ConstantsOK DEF ClientInv, TypeOK, LockInv
<1> QED
  BY <1>2, <1>3, <1>4 DEF ClientInv

(* Steps outside the lock: from a place that does not need it to another.       *)
Unlocked == PCs \ {"ping", "closing"}

LEMMA UnlockedKeeps ==
  ASSUME NEW c \in Callers, ClientInv, Get(c) \/ Send(c) \/ Command(c) \/ CommandFails(c) \/ Cut(c)
  PROVE  ClientInv'
<1>1. PICK p \in Unlocked : pc' = [pc EXCEPT ![c] = p]
  <2>1. CASE Get(c)
    BY <2>1 DEF Get, GetCached, FailFast, WaitToConnect, GiveUp, Goto, Unlocked, PCs
  <2>2. CASE Send(c)
    BY <2>2 DEF Send, Goto, Unlocked, PCs
  <2>3. CASE Command(c) \/ CommandFails(c) \/ Cut(c)
    BY <2>3 DEF Command, CommandFails, Cut, GiveUp, Goto, Unlocked, PCs
  <2> QED
    BY <2>1, <2>2, <2>3
<1>2. /\ pc[c] \in Unlocked
      /\ UNCHANGED <<up, client, lock, since, burst>>
  BY DEF Get, GetCached, FailFast, WaitToConnect, Send, Command, CommandFails, Cut, Unlocked, PCs
<1>3. stale' \subseteq Ids
  BY DEF ClientInv, TypeOK, Get, GetCached, FailFast, WaitToConnect, Send, Command,
     CommandFails, Cut
<1>4. \/ Hold(c, client) \/ Hold(c, NoClient)
      \/ UNCHANGED <<handle, late>>
  BY DEF Get, GetCached, FailFast, WaitToConnect, Send, Command, CommandFails, Cut, GiveUp, Drop
<1>5. /\ SingleLiveClient'
      /\ handle' \in [Callers -> Ids \cup {NoClient}] /\ late' \subseteq Callers
  <2>1. CASE UNCHANGED <<handle, late>>
    BY <1>2, <2>1, SameHandles DEF ClientInv, TypeOK
  <2>2. CASE Hold(c, client)
    BY <1>2, <2>2, HoldKeeps
  <2>3. CASE Hold(c, NoClient)
    BY <1>2, <2>3, HoldKeeps
  <2> QED
    BY <1>4, <2>1, <2>2, <2>3
<1>6. TypeOK'
  BY <1>1, <1>2, <1>3, <1>5 DEF ClientInv, TypeOK, Unlocked
<1>7. LockInv'
  BY <1>1, <1>2, ConstantsOK DEF ClientInv, TypeOK, LockInv, Unlocked
<1> QED
  BY <1>5, <1>6, <1>7 DEF ClientInv

LEMMA WorldKeeps == ClientInv /\ (Outage \/ Tick) => ClientInv'
<1> SUFFICES ASSUME ClientInv, Outage \/ Tick PROVE ClientInv'
  OBVIOUS
<1>1. TypeOK'
  <2>1. CASE Outage
    BY <2>1 DEF ClientInv, TypeOK, Outage, Unused
  <2>2. CASE Tick
    <3>1. since' \in 0 .. Cooldown /\ burst' \in Nat
      BY <2>2, Bounds DEF ClientInv, TypeOK, Tick, Open
    <3> QED
      BY <2>2, <3>1 DEF ClientInv, TypeOK, Tick
  <2> QED
    BY <2>1, <2>2
<1> QED
  BY <1>1 DEF ClientInv, LockInv, SingleLiveClient, Outage, Tick

LEMMA StepClient == ClientInv /\ [Next]_vars => ClientInv'
<1> SUFFICES ASSUME ClientInv, [Next]_vars PROVE ClientInv'
  OBVIOUS
<1>1. CASE Outage \/ Tick
  BY <1>1, WorldKeeps
<1>2. ASSUME NEW c \in Callers, Get(c) \/ Progress(c) \/ Cut(c) \/ Cancel(c) PROVE ClientInv'
  BY <1>2, AcquireKeeps, PingOkKeeps, PingFailsKeeps, ResetAcquireKeeps, ClosedKeeps,
     CancelKeeps, UnlockedKeeps DEF Progress
<1>3. CASE UNCHANGED vars
  BY <1>3 DEF vars, ClientInv, TypeOK, LockInv, SingleLiveClient
<1> QED
  BY <1>1, <1>2, <1>3 DEF Next

(* However many coroutines get, use, reset and abandon the client, and however  *)
(* long they keep it: no client is replaced without being closed, and one that  *)
(* is held beside the cached one was closed after its coroutine got it.         *)
THEOREM OneClient == Spec => []SingleLiveClient
<1>1. ClientInv => SingleLiveClient
  BY DEF ClientInv
<1> QED
  BY <1>1, InitClient, StepClient, PTL DEF Spec

(* The types of the variables. *)
THEOREM ClientTypes == Spec => []TypeOK
<1>1. ClientInv => TypeOK
  BY DEF ClientInv
<1> QED
  BY <1>1, InitClient, StepClient, PTL DEF Spec

-------------------------------------------------------------------------------
(* The burst.  Nobody starts to wait while the breaker is open, so those who   *)
(* may still ping are the waiters left from before, one ping each; the one who *)
(* opened the breaker was none of them.                                        *)

Waiters == {c \in Callers : pc[c] = "wait"}

BurstInv ==
  IF Open THEN burst + Cardinality(Waiters) <= Cardinality(Callers) - 1 ELSE burst = 0

Counted == ClientInv /\ BurstInv

LEMMA WaitersFinite ==
  /\ IsFiniteSet(Waiters) /\ Cardinality(Waiters) \in Nat
  /\ Cardinality(Callers) \in Nat \ {0}
<1>1. IsFiniteSet(Callers) /\ Callers # {}
  BY ConstantsOK
<1>2. Cardinality(Callers) \in Nat /\ Cardinality(Callers) # 0
  BY <1>1, FS_CardinalityType, FS_EmptySet
<1>3. IsFiniteSet(Waiters)
  BY <1>1, FS_Subset DEF Waiters
<1> QED
  BY <1>2, <1>3, FS_CardinalityType

(* A step after which no more coroutines wait, and that neither opens the       *)
(* breaker nor counts a ping, keeps the bound.                                  *)
LEMMA FewerWait ==
  ASSUME Counted, Waiters' \subseteq Waiters, burst' = burst, since' = since
  PROVE  BurstInv'
<1>1. Cardinality(Waiters') <= Cardinality(Waiters) /\ Cardinality(Waiters') \in Nat
  BY WaitersFinite, FS_Subset, FS_CardinalityType
<1>2. burst \in Nat
  BY DEF Counted, ClientInv, TypeOK
<1> QED
  BY <1>1, <1>2, WaitersFinite DEF Counted, BurstInv, Open

LEMMA InitBurst == Init => BurstInv
<1> SUFFICES ASSUME Init PROVE BurstInv
  OBVIOUS
<1>1. Waiters = {}
  BY DEF Init, Waiters
<1>2. Cardinality(Waiters) = 0
  BY <1>1, FS_EmptySet
<1> QED
  BY <1>2, WaitersFinite DEF Init, BurstInv

LEMMA AcquireBurst == ASSUME NEW c \in Callers, Counted, Acquire(c) PROVE BurstInv'
<1>1. CASE client # NoClient
  <2>1. Waiters' \subseteq Waiters
    BY <1>1 DEF Counted, ClientInv, TypeOK, Waiters, Acquire, Goto
  <2> QED
    BY <1>1, <2>1, FewerWait DEF Acquire
<1>2. CASE client = NoClient
  <2>1. Waiters' = Waiters \ {c} /\ c \in Waiters
    BY <1>2 DEF Counted, ClientInv, TypeOK, Waiters, Acquire, Goto
  <2>2. Cardinality(Waiters') = Cardinality(Waiters) - 1
    BY <2>1, WaitersFinite, FS_RemoveElement
  <2>3. burst \in Nat /\ since' = since /\ burst' = IF Open THEN burst + 1 ELSE burst
    BY <1>2 DEF Counted, ClientInv, TypeOK, Acquire
  <2> QED
    BY <2>2, <2>3, WaitersFinite DEF Counted, BurstInv, Open
<1> QED
  BY <1>1, <1>2

LEMMA PingFailsBurst == ASSUME NEW c \in Callers, Counted, PingFails(c) PROVE BurstInv'
<1>1. Waiters' \subseteq Waiters /\ c \notin Waiters
  BY DEF Counted, ClientInv, TypeOK, Waiters, PingFails, GiveUp, Goto
<1>2. Cardinality(Waiters') <= Cardinality(Waiters) /\ Cardinality(Waiters') \in Nat
  BY <1>1, WaitersFinite, FS_Subset, FS_CardinalityType
<1>3. Cardinality(Waiters) <= Cardinality(Callers) - 1
  <2>1. IsFiniteSet(Callers \ {c}) /\ Cardinality(Callers \ {c}) = Cardinality(Callers) - 1
    BY ConstantsOK, FS_RemoveElement
  <2>2. Waiters \in SUBSET (Callers \ {c})
    BY <1>1 DEF Waiters
  <2> QED
    BY <2>1, <2>2, FS_Subset
<1>4. burst \in Nat /\ burst' = IF Open THEN burst ELSE 0
  BY DEF Counted, ClientInv, TypeOK, PingFails
<1>5. Open'
  BY Bounds, ConstantsOK DEF PingFails, Open
<1> QED
  BY <1>2, <1>3, <1>4, <1>5, WaitersFinite DEF Counted, BurstInv

LEMMA WaitBurst == ASSUME NEW c \in Callers, Counted, WaitToConnect(c) PROVE BurstInv'
  BY DEF Counted, BurstInv, WaitToConnect, Open

LEMMA TickBurst == Counted /\ Tick => BurstInv'
<1> SUFFICES ASSUME Counted, Tick PROVE BurstInv'
  OBVIOUS
<1>1. Waiters' = Waiters
  BY DEF Waiters, Tick
<1>2. since \in 0 .. Cooldown /\ since < Cooldown /\ since' = since + 1
      /\ burst' = IF since + 1 = Cooldown THEN 0 ELSE burst
  BY DEF Counted, ClientInv, TypeOK, Tick, Open
<1> QED
  BY <1>1, <1>2, Bounds DEF Counted, BurstInv, Open

LEMMA StepCounted == Counted /\ [Next]_vars => Counted'
<1> SUFFICES ASSUME Counted, [Next]_vars PROVE Counted'
  OBVIOUS
<1>0. ClientInv'
  BY StepClient DEF Counted
<1>1. CASE Tick
  BY <1>0, <1>1, TickBurst DEF Counted
<1>2. CASE Outage \/ UNCHANGED vars
  <2>1. Waiters' = Waiters /\ burst' = burst /\ since' = since
    BY <1>2 DEF Waiters, Outage, vars
  <2> QED
    BY <1>0, <2>1, FewerWait DEF Counted
<1>3. ASSUME NEW c \in Callers, Get(c) \/ Progress(c) \/ Cut(c) \/ Cancel(c) PROVE BurstInv'
  <2>1. CASE Acquire(c)
    BY <2>1, AcquireBurst
  <2>2. CASE PingFails(c)
    BY <2>2, PingFailsBurst
  <2>3. CASE WaitToConnect(c)
    BY <2>3, WaitBurst
  <2>4. CASE \/ GetCached(c) \/ FailFast(c) \/ PingOk(c) \/ Send(c) \/ Command(c)
             \/ CommandFails(c) \/ ResetAcquire(c) \/ Closed(c) \/ Cut(c) \/ Cancel(c)
    <3>1. PICK p \in PCs \ {"wait"} : pc' = [pc EXCEPT ![c] = p]
      <4>1. CASE \/ GetCached(c) \/ FailFast(c) \/ PingOk(c) \/ Command(c)
                 \/ CommandFails(c) \/ ResetAcquire(c) \/ Closed(c) \/ Cut(c) \/ Cancel(c)
        BY <4>1 DEF GetCached, FailFast, PingOk, Command, CommandFails, ResetAcquire, Closed,
           Cut, Cancel, GiveUp, Goto, PCs
      <4>2. CASE Send(c)
        BY <4>2 DEF Send, Goto, PCs
      <4> QED
        BY <2>4, <4>1, <4>2
    <3>2. Waiters' \subseteq Waiters
      BY <3>1 DEF Counted, ClientInv, TypeOK, Waiters
    <3>3. burst' = burst /\ since' = since
      BY <2>4 DEF GetCached, FailFast, PingOk, Send, Command, CommandFails, ResetAcquire,
         Closed, Cut, Cancel
    <3> QED
      BY <3>2, <3>3, FewerWait
  <2> QED
    BY <1>3, <2>1, <2>2, <2>3, <2>4 DEF Get, Progress
<1> QED
  BY <1>0, <1>1, <1>2, <1>3 DEF Next, Counted

(* While the breaker is open a dead Redis is pinged at most once by each of the  *)
(* coroutines other than the one that opened it, however many there are.        *)
THEOREM BurstBound == Spec => []BurstBounded
<1>1. Counted => BurstBounded
  <2> SUFFICES ASSUME Counted PROVE BurstBounded
    OBVIOUS
  <2>1. burst \in Nat
    BY DEF Counted, ClientInv, TypeOK
  <2> QED
    BY <2>1, WaitersFinite DEF Counted, BurstInv, BurstBounded
<1>2. Init => Counted
  BY InitClient, InitBurst DEF Counted
<1> QED
  BY <1>1, <1>2, StepCounted, PTL DEF Spec

-------------------------------------------------------------------------------
(* Sums over the last units of time, by induction in the form of sets: a set   *)
(* of numbers that is not empty has a least one, so one that holds 0 and the   *)
(* successor of each of its members holds every number.                        *)

LEMMA Least ==
  ASSUME NEW T \in SUBSET Nat, T # {}
  PROVE  \E x \in T : \A y \in T : x <= y
<1> DEFINE R == {ss \in Nat \X Nat : ss[1] < ss[2]}
<1>1. IsWellFoundedOn(R, Nat)
  BY NatLessThanWellFounded DEF OpToRel
<1>2. PICK x \in T : \A y \in T : ~ (<<y, x>> \in R)
  <2> HIDE DEF R
  <2> QED
    BY <1>1, WFMin
<1>3. ASSUME NEW y \in T PROVE x <= y
  <2>1. <<y, x>> \in Nat \X Nat /\ <<y, x>>[1] = y /\ <<y, x>>[2] = x
    OBVIOUS
  <2>2. ~ (y < x)
    BY <1>2, <2>1
  <2> QED
    BY <2>1, <2>2
<1> QED
  BY <1>3

LEMMA Inductive ==
  ASSUME NEW S \in SUBSET Nat, NEW n \in Nat,
         0 \in S, \A k \in S : k < n => k + 1 \in S
  PROVE  0 .. n \subseteq S
<1> SUFFICES ASSUME (0 .. n) \ S # {} PROVE FALSE
  OBVIOUS
<1>1. PICK x \in (0 .. n) \ S : \A y \in (0 .. n) \ S : x <= y
  <2>1. (0 .. n) \ S \in SUBSET Nat
    OBVIOUS
  <2> QED
    BY <2>1, Least
<1>2. x - 1 \in S /\ x - 1 < n /\ (x - 1) + 1 = x
  <2>1. x # 0
    OBVIOUS
  <2>2. x - 1 \in 0 .. n
    BY <2>1
  <2> QED
    BY <1>1, <2>2
<1> QED
  BY <1>2

(* s[n] is the sum of the first n of a. *)
Sums(s, a, h) ==
  /\ a \in [1 .. h -> Nat] /\ s \in [0 .. h -> Nat] /\ s[0] = 0
  /\ \A n \in 1 .. h : s[n] = a[n] + s[n - 1]

(* There is such a function, one position after the other ... *)
LEMMA SumsExist ==
  ASSUME NEW h \in Nat, NEW a \in [1 .. h -> Nat]
  PROVE  \E s : Sums(s, a, h)
<1> DEFINE SumsTo(s, m) == /\ s \in [0 .. m -> Nat] /\ s[0] = 0
                           /\ \A n \in 1 .. m : s[n] = a[n] + s[n - 1]
           S == {m \in 0 .. h : \E s : SumsTo(s, m)}
<1>1. 0 \in S
  <2> DEFINE s == [n \in 0 .. 0 |-> 0]
  <2>1. SumsTo(s, 0)
    OBVIOUS
  <2> HIDE DEF s, SumsTo
  <2> QED
    BY <2>1
<1>2. ASSUME NEW k \in S, k < h PROVE k + 1 \in S
  <2>1. PICK s : SumsTo(s, k)
    OBVIOUS
  <2> DEFINE t == [n \in 0 .. k + 1 |-> IF n = k + 1 THEN a[n] + s[k] ELSE s[n]]
  <2>2. /\ k \in 0 .. h /\ k + 1 \in 1 .. h /\ a[k + 1] \in Nat
        /\ s \in [0 .. k -> Nat] /\ s[k] \in Nat /\ s[0] = 0
    BY <1>2, <2>1
  <2>3. t \in [0 .. k + 1 -> Nat] /\ t[0] = 0
    BY <2>2
  <2>4. ASSUME NEW n \in 1 .. k + 1 PROVE t[n] = a[n] + t[n - 1]
    <3>1. CASE n = k + 1
      BY <2>2, <3>1
    <3>2. CASE n # k + 1
      BY <2>1, <2>2, <3>2
    <3> QED
      BY <3>1, <3>2
  <2>5. SumsTo(t, k + 1)
    BY <2>3, <2>4
  <2> HIDE DEF t, SumsTo
  <2> QED
    BY <2>2, <2>5
<1>3. S \in SUBSET Nat /\ h \in 0 .. h
  OBVIOUS
<1> HIDE DEF S
<1>4. h \in S
  BY <1>1, <1>2, <1>3, Inductive
<1> QED
  BY <1>4 DEF S, Sums

(* ... and so the recursive definition of one has its values. *)
LEMMA SumsChosen ==
  ASSUME NEW h \in Nat, NEW a \in [1 .. h -> Nat], NEW s,
         s = CHOOSE f : f = [n \in 0 .. h |-> IF n = 0 THEN 0 ELSE a[n] + f[n - 1]]
  PROVE  Sums(s, a, h)
<1>1. PICK t : Sums(t, a, h)
  BY SumsExist
<1>2. t = [n \in 0 .. h |-> IF n = 0 THEN 0 ELSE a[n] + t[n - 1]]
  <2>1. t \in [0 .. h -> Nat] /\ t[0] = 0 /\ \A n \in 1 .. h : t[n] = a[n] + t[n - 1]
    BY <1>1 DEF Sums
  <2>2. \A n \in 0 .. h : t[n] = IF n = 0 THEN 0 ELSE a[n] + t[n - 1]
    BY <2>1
  <2> QED
    BY <2>1, <2>2
<1>3. s = [n \in 0 .. h |-> IF n = 0 THEN 0 ELSE a[n] + s[n - 1]]
  BY <1>2
<1>4. s[0] = 0 /\ \A n \in 1 .. h : s[n] = a[n] + s[n - 1]
  <2> DEFINE g == [n \in 0 .. h |-> IF n = 0 THEN 0 ELSE a[n] + s[n - 1]]
  <2>1. g[0] = 0 /\ \A n \in 1 .. h : g[n] = a[n] + s[n - 1]
    OBVIOUS
  <2>2. s = g
    BY <1>3
  <2> HIDE DEF g
  <2> QED
    BY <2>1, <2>2
<1> DEFINE S == {n \in 0 .. h : s[n] \in Nat}
<1>5. 0 \in S /\ S \in SUBSET Nat
  <2>1. 0 \in 0 .. h /\ s[0] \in Nat
    BY <1>4
  <2>2. 0 \in S
    BY <2>1
  <2>3. S \in SUBSET Nat
    OBVIOUS
  <2> QED
    BY <2>2, <2>3
<1>6. ASSUME NEW k \in S, k < h PROVE k + 1 \in S
  <2>1. k + 1 \in 1 .. h /\ (k + 1) - 1 = k /\ s[k] \in Nat /\ a[k + 1] \in Nat
    BY <1>6
  <2>2. s[k + 1] = a[k + 1] + s[k]
    BY <1>4, <2>1
  <2> QED
    BY <2>1, <2>2
<1> HIDE DEF S
<1>7. 0 .. h \subseteq S
  BY <1>5, <1>6, Inductive
<1>8. \A n \in 0 .. h : s[n] \in Nat
  BY <1>7 DEF S
<1>9. s \in [0 .. h -> Nat]
  BY <1>3, <1>8
<1> QED
  BY <1>4, <1>9 DEF Sums

(* A unit of time passes, or one more is counted in the latest unit ... *)
Shifted(a, b, h) == \A i \in 1 .. h : b[i] = IF i = 1 THEN 0 ELSE a[i - 1]

Bumped(a, b, h) == \A i \in 1 .. h : b[i] = IF i = 1 THEN a[i] + 1 ELSE a[i]

(* ... and the sums move on by one ... *)
LEMMA SumsShift ==
  ASSUME NEW h \in Nat, NEW a, NEW b, NEW s, NEW t,
         Sums(s, a, h), Sums(t, b, h), Shifted(a, b, h)
  PROVE  \A n \in 1 .. h : t[n] = s[n - 1]
<1> DEFINE S == {n \in 0 .. h : n > 0 => t[n] = s[n - 1]}
<1>1. 0 \in S /\ S \in SUBSET Nat
  OBVIOUS
<1>2. ASSUME NEW k \in S, k < h PROVE k + 1 \in S
  <2>1. k + 1 \in 1 .. h /\ (k + 1) - 1 = k /\ k \in Nat
    BY <1>2
  <2>2. t[k + 1] = b[k + 1] + t[k]
    BY <2>1 DEF Sums
  <2>3. CASE k = 0
    <3>1. 1 \in 1 .. h
      BY <2>1, <2>3
    <3>2. b[1] = 0
      BY <3>1 DEF Shifted
    <3>3. t[0] = 0 /\ s[0] = 0
      BY DEF Sums
    <3> QED
      BY <2>1, <2>2, <2>3, <3>2, <3>3
  <2>4. CASE k > 0
    <3>1. b[k + 1] = a[k] /\ t[k] = s[k - 1] /\ k \in 1 .. h
      BY <1>2, <2>1, <2>4 DEF Shifted
    <3>2. s[k] = a[k] + s[k - 1]
      BY <3>1 DEF Sums
    <3> QED
      BY <2>1, <2>2, <3>1, <3>2
  <2> QED
    BY <2>1, <2>3, <2>4
<1> HIDE DEF S
<1>3. 0 .. h \subseteq S
  BY <1>1, <1>2, Inductive
<1> QED
  BY <1>3 DEF S

(* ... or are one more, all of them. *)
LEMMA SumsBump ==
  ASSUME NEW h \in Nat, NEW a, NEW b, NEW s, NEW t,
         Sums(s, a, h), Sums(t, b, h), Bumped(a, b, h)
  PROVE  \A n \in 1 .. h : t[n] = s[n] + 1
<1> DEFINE S == {n \in 0 .. h : n > 0 => t[n] = s[n] + 1}
<1>1. 0 \in S /\ S \in SUBSET Nat
  OBVIOUS
<1>2. ASSUME NEW k \in S, k < h PROVE k + 1 \in S
  <2>1. k + 1 \in 1 .. h /\ (k + 1) - 1 = k /\ k \in 0 .. h
    BY <1>2
  <2>2. t[k + 1] = b[k + 1] + t[k] /\ s[k + 1] = a[k + 1] + s[k]
    BY <2>1 DEF Sums
  <2>3. s[k] \in Nat /\ a[k + 1] \in Nat /\ s[0] = 0 /\ t[0] = 0
    BY <2>1 DEF Sums
  <2>4. CASE k = 0
    <3>1. b[1] = a[1] + 1
      BY <2>1, <2>4 DEF Bumped
    <3> QED
      BY <2>1, <2>2, <2>3, <2>4, <3>1
  <2>5. CASE k > 0
    <3>1. b[k + 1] = a[k + 1] /\ t[k] = s[k] + 1
      BY <1>2, <2>1, <2>5 DEF Bumped
    <3> QED
      BY <2>1, <2>2, <2>3, <3>1
  <2> QED
    BY <2>1, <2>4, <2>5
<1> HIDE DEF S
<1>3. 0 .. h \subseteq S
  BY <1>1, <1>2, Inductive
<1> QED
  BY <1>3 DEF S

(* A counter of a fixed window of length n and limit l that has counted c and   *)
(* lives for another e (0 when there is none): with s[i] let through in the     *)
(* last i units, less than c was since the moment after its creation, n - e     *)
(* ago, and of the life of the counter before it all but its first request.     *)
Within(s, c, e, n, l) ==
  IF c = 0 THEN s[n] <= l - 1
           ELSE s[n - e] <= c - 1 /\ s[n] <= c + l - 1

(* One more is counted, and let through or not. *)
LEMMA WithinCount ==
  ASSUME NEW h \in Nat, NEW n \in 1 .. h, NEW l \in Nat \ {0}, NEW c \in Nat, c < l,
         NEW e \in Nat, c > 0 => e \in 1 .. n,
         NEW s \in [0 .. h -> Nat], NEW t \in [0 .. h -> Nat],
         t[0] = 0, \A i \in 1 .. h : t[i] <= s[i] + 1,
         Within(s, c, e, n, l)
  PROVE  Within(t, c + 1, IF c = 0 THEN n ELSE e, n, l)
<1>1. /\ c + 1 # 0 /\ s[n] \in Nat /\ t[n] \in Nat /\ t[n] <= s[n] + 1
  OBVIOUS
<1>2. CASE c = 0
  <2>1. s[n] <= l - 1
    BY <1>2 DEF Within
  <2>2. n - n = 0 /\ t[n] <= (c + 1) + l - 1 /\ t[0] <= (c + 1) - 1
    BY <1>1, <1>2, <2>1
  <2> QED
    BY <1>1, <1>2, <2>2 DEF Within
<1>3. CASE c > 0
  <2> DEFINE k == n - e
  <2>1. s[k] <= c - 1 /\ s[n] <= c + l - 1 /\ k \in 0 .. h
    BY <1>3 DEF Within
  <2>2. Within(t, c + 1, e, n, l) <=> t[k] <= (c + 1) - 1 /\ t[n] <= (c + 1) + l - 1
    BY <1>1 DEF Within
  <2> HIDE DEF k
  <2>3. s[k] \in Nat /\ t[k] \in Nat
    BY <2>1
  <2>4. t[k] <= s[k] + 1
    <3>1. CASE k = 0
      BY <2>3, <3>1
    <3>2. CASE k \in 1 .. h
      BY <3>2
    <3> QED
      BY <2>1, <3>1, <3>2
  <2>5. t[k] <= (c + 1) - 1
    BY <2>1, <2>3, <2>4
  <2>6. t[n] <= (c + 1) + l - 1
    BY <1>1, <2>1
  <2> QED
    BY <1>3, <2>2, <2>5, <2>6
<1> QED
  BY <1>2, <1>3

(* A unit of time passes; with its last one the counter goes. *)
LEMMA WithinTick ==
  ASSUME NEW h \in Nat, NEW n \in 1 .. h, NEW l \in Nat \ {0}, NEW c \in Nat, c <= l,
         NEW e \in Nat, c > 0 => e \in 1 .. n,
         NEW s \in [0 .. h -> Nat], NEW t \in [0 .. h -> Nat],
         \A i \in 1 .. h : t[i] = s[i - 1] /\ s[i - 1] <= s[i],
         Within(s, c, e, n, l)
  PROVE  Within(t, IF e = 1 THEN 0 ELSE c, IF e > 0 THEN e - 1 ELSE e, n, l)
<1>1. /\ t[n] = s[n - 1] /\ s[n - 1] <= s[n] /\ s[n] \in Nat /\ s[n - 1] \in Nat
  <2>1. n - 1 \in 0 .. h /\ n \in 0 .. h
    OBVIOUS
  <2> QED
    BY <2>1
<1>2. CASE c = 0
  BY <1>1, <1>2 DEF Within
<1>3. CASE c > 0 /\ e = 1
  <2>1. s[n - 1] <= c - 1
    BY <1>3 DEF Within
  <2>2. t[n] <= l - 1
    BY <1>1, <2>1
  <2> QED
    BY <1>3, <2>2 DEF Within
<1>4. CASE c > 0 /\ e # 1
  <2>1. s[n - e] <= c - 1 /\ s[n] <= c + l - 1
    BY <1>4 DEF Within
  <2>2. /\ n - (e - 1) \in 1 .. h /\ (n - (e - 1)) - 1 = n - e /\ e > 0
    BY <1>4
  <2>3. t[n - (e - 1)] = s[n - e]
    BY <2>2
  <2>4. t[n] <= c + l - 1
    BY <1>1, <2>1
  <2> QED
    BY <1>4, <2>1, <2>2, <2>3, <2>4 DEF Within
<1> QED
  BY <1>2, <1>3, <1>4

LEMMA WithinBound ==
  ASSUME NEW h \in Nat, NEW n \in 1 .. h, NEW l \in Nat \ {0}, NEW c \in Nat, c <= l,
         NEW e, NEW s \in [0 .. h -> Nat], Within(s, c, e, n, l)
  PROVE  s[n] <= 2 * l - 1
<1>1. s[n] \in Nat
  OBVIOUS
<1>2. s[n] <= c + l - 1
  BY <1>1 DEF Within
<1> QED
  BY <1>1, <1>2

(* Nothing let through is within any counter. *)
LEMMA WithinNone ==
  ASSUME NEW h \in Nat, NEW n \in 1 .. h, NEW l \in Nat \ {0}, NEW c \in Nat,
         NEW e \in Nat, c > 0 => e \in 1 .. n,
         NEW s \in [0 .. h -> {0}]
  PROVE  Within(s, c, e, n, l)
<1>1. s[n] = 0
  OBVIOUS
<1>2. c > 0 => s[n - e] = 0
  OBVIOUS
<1> QED
  BY <1>1, <1>2 DEF Within

LEMMA SumsGrow ==
  ASSUME NEW h \in Nat, NEW a, NEW s, Sums(s, a, h)
  PROVE  /\ s \in [0 .. h -> Nat] /\ s[0] = 0
         /\ \A i \in 1 .. h : s[i - 1] <= s[i]
<1>1. s \in [0 .. h -> Nat] /\ s[0] = 0 /\ \A i \in 1 .. h : s[i] = a[i] + s[i - 1]
  BY DEF Sums
<1>2. ASSUME NEW i \in 1 .. h PROVE s[i - 1] <= s[i]
  <2>1. s[i - 1] \in Nat /\ a[i] \in Nat /\ s[i] = a[i] + s[i - 1]
    BY <1>1 DEF Sums
  <2> QED
    BY <2>1
<1> QED
  BY <1>1, <1>2

LEMMA SumsNone ==
  ASSUME NEW h \in Nat, NEW a, NEW s, Sums(s, a, h), \A i \in 1 .. h : a[i] = 0
  PROVE  s \in [0 .. h -> {0}]
<1> DEFINE S == {i \in 0 .. h : s[i] = 0}
<1>1. 0 \in S /\ S \in SUBSET Nat
  BY DEF Sums
<1>2. ASSUME NEW i \in S, i < h PROVE i + 1 \in S
  <2>1. i + 1 \in 1 .. h /\ (i + 1) - 1 = i
    BY <1>2
  <2>2. s[i + 1] = 0 + 0
    BY <2>1 DEF Sums
  <2> QED
    BY <2>1, <2>2
<1> HIDE DEF S
<1>3. 0 .. h \subseteq S
  BY <1>1, <1>2, Inductive
<1> QED
  BY <1>3 DEF S, Sums

LEMMA SumsSame ==
  ASSUME NEW h \in Nat, NEW a, NEW s, NEW t, Sums(s, a, h), Sums(t, a, h)
  PROVE  s = t
<1> DEFINE S == {i \in 0 .. h : s[i] = t[i]}
<1>1. 0 \in S /\ S \in SUBSET Nat
  BY DEF Sums
<1>2. ASSUME NEW i \in S, i < h PROVE i + 1 \in S
  <2>1. i + 1 \in 1 .. h /\ (i + 1) - 1 = i /\ s[i] = t[i]
    BY <1>2
  <2>2. s[i + 1] = a[i + 1] + s[i] /\ t[i + 1] = a[i + 1] + t[i]
    BY <2>1 DEF Sums
  <2> QED
    BY <2>1, <2>2
<1> HIDE DEF S
<1>3. 0 .. h \subseteq S
  BY <1>1, <1>2, Inductive
<1>4. \A i \in 0 .. h : s[i] = t[i]
  BY <1>3 DEF S
<1> QED
  BY <1>4 DEF Sums

-------------------------------------------------------------------------------
(* The three-window limiter (RateLimiter), for any windows, limits, lengths    *)
(* and number of requests.                                                     *)

(* A length in seconds is one in ticks, and time is long enough for it. *)
LEMMA Lives ==
  /\ Second \in Nat \ {0}
  /\ \A w \in Windows : Life(w) \in Nat \ {0} /\ Life(w) <= Horizon
<1>1. Second \in Nat \ {0} /\ Length \in [Windows -> Nat \ {0}]
  BY LimiterConstantsOK
<1>2. ASSUME NEW w \in Windows PROVE Life(w) \in Nat \ {0} /\ Life(w) <= Horizon
  <2>1. Length[w] \in Nat \ {0} /\ Length[w] * Second <= Horizon
    BY <1>1, LimiterConstantsOK
  <2> QED
    BY <1>1, <2>1 DEF Life
<1> QED
  BY <1>1, <1>2

(* The types of what the proof of CountersExpire reads. *)
CounterTypes == count \in [Windows -> Nat] /\ ttl \in [Windows -> Nat]

CounterInv == CounterTypes /\ CountersExpire

(* The script keeps every counter within its limit and gives each one it       *)
(* creates its expiry.                                                         *)
LEMMA AdmitKeeps == CounterInv /\ Admit => CounterInv'
<1> SUFFICES ASSUME CounterInv, Admit PROVE CounterInv'
  OBVIOUS
<1>1. \A w \in Windows : Limit[w] \in Nat \ {0} /\ Life(w) \in Nat \ {0}
  BY LimiterConstantsOK, Lives
<1>2. \A w \in Windows : count[w] \in Nat /\ ttl[w] \in Nat /\ count[w] < Limit[w]
  BY <1>1 DEF CounterInv, CounterTypes, Admit, Full
<1>3. \A w \in Windows : /\ count'[w] = count[w] + 1
                         /\ ttl'[w] = IF count[w] + 1 = 1 THEN Life(w) ELSE ttl[w]
  BY DEF Admit, Counts, Expiries
<1>4. CounterTypes'
  BY <1>1, <1>2 DEF Admit, Counts, Expiries, CounterTypes
<1>5. CountersExpire'
  BY <1>1, <1>2, <1>3 DEF CounterInv, CountersExpire
<1> QED
  BY <1>4, <1>5 DEF CounterInv

(* Time deletes a counter with its expiry. *)
LEMMA TickKeeps == CounterInv /\ LimiterTick => CounterInv'
<1> SUFFICES ASSUME CounterInv, LimiterTick PROVE CounterInv'
  OBVIOUS
<1>1. \A w \in Windows : Limit[w] \in Nat \ {0} /\ Life(w) \in Nat \ {0}
  BY LimiterConstantsOK, Lives
<1>2. \A w \in Windows : count[w] \in Nat /\ ttl[w] \in Nat
  BY DEF CounterInv, CounterTypes
<1>3. \A w \in Windows : /\ count'[w] = IF ttl[w] = 1 THEN 0 ELSE count[w]
                         /\ ttl'[w] = IF ttl[w] > 0 THEN ttl[w] - 1 ELSE ttl[w]
  BY DEF LimiterTick
<1>4. CounterTypes'
  BY <1>2 DEF LimiterTick, CounterTypes
<1>5. CountersExpire'
  BY <1>1, <1>2, <1>3 DEF CounterInv, CountersExpire
<1> QED
  BY <1>4, <1>5 DEF CounterInv

(* Whatever requests run, fail or are denied, every counter in Redis expires   *)
(* within the length of its window and never exceeds its limit.                *)
THEOREM NoImmortalCounter == LimiterSpec => []CountersExpire
<1>1. LimiterInit => CounterInv
  BY LimiterConstantsOK DEF LimiterInit, CounterInv, CounterTypes, CountersExpire
<1>2. CounterInv /\ [LimiterNext]_limiterVars => CounterInv'
  <2> SUFFICES ASSUME CounterInv, [LimiterNext]_limiterVars PROVE CounterInv'
    OBVIOUS
  <2>1. ASSUME NEW r \in Requests, Start(r) \/ Answer(r) \/ Done(r)
        PROVE  CounterInv'
    BY <2>1 DEF Start, Answer, Done, CounterInv, CounterTypes,
       CountersExpire
  <2>2. ASSUME NEW r \in Requests, Script(r) \/ Fail(r) PROVE CounterInv'
    <3>1. Admit \/ UNCHANGED <<count, ttl>>
      BY <2>2 DEF Script, Fail, Deny
    <3>2. CASE UNCHANGED <<count, ttl>>
      BY <3>2 DEF CounterInv, CounterTypes, CountersExpire
    <3> QED
      BY <3>1, <3>2, AdmitKeeps
  <2>3. CASE LimiterTick
    BY <2>3, TickKeeps
  <2>4. CASE UNCHANGED limiterVars
    BY <2>4 DEF limiterVars, CounterInv, CounterTypes, CountersExpire
  <2> QED
    BY <2>1, <2>2, <2>3, <2>4 DEF LimiterNext, Call
<1>3. CounterInv => CountersExpire
  BY DEF CounterInv
<1> QED
  BY <1>1, <1>2, <1>3, PTL DEF LimiterSpec

-------------------------------------------------------------------------------
(* The types, and what a denied client is told. *)

LEMMA Division ==
  ASSUME NEW a \in Nat, NEW b \in Nat \ {0}
  PROVE  a \div b \in Nat /\ b * (a \div b) <= a /\ a < b * (a \div b) + b
<1>1. a \div b \in Int
  OBVIOUS
<1>2. b * (a \div b) <= a /\ a < b * (a \div b) + b
  OBVIOUS
<1> QED
  BY <1>1, <1>2

(* TTL is off by half a second at most. *)
LEMMA RoundedIs ==
  ASSUME NEW t \in Nat
  PROVE  /\ Rounded(t) \in Nat
         /\ 2 * (Second * Rounded(t)) <= 2 * t + Second
         /\ 2 * t < 2 * (Second * Rounded(t)) + Second
<1> DEFINE a == 2 * t + Second
           b == 2 * Second
<1>1. Second \in Nat \ {0}
  BY Lives
<1>2. a \in Nat /\ b \in Nat \ {0}
  BY <1>1
<1>3. a \div b \in Nat /\ b * (a \div b) <= a /\ a < b * (a \div b) + b
  <2> HIDE DEF a, b
  <2> QED
    BY <1>2, Division
<1>4. Rounded(t) = a \div b
  BY DEF Rounded
<1>5. b * Rounded(t) = 2 * (Second * Rounded(t))
  <2>1. Rounded(t) \in Nat
    BY <1>3, <1>4
  <2> QED
    BY <1>1, <2>1
<1> DEFINE n == Rounded(t)
           p == Second * Rounded(t)
<1>6. p \in Nat
  BY <1>1, <1>3, <1>4
<1>7. 2 * p <= 2 * t + Second /\ 2 * t + Second < 2 * p + 2 * Second
  BY <1>3, <1>4, <1>5
<1> HIDE DEF p
<1>8. 2 * t < 2 * p + Second
  BY <1>1, <1>6, <1>7
<1> QED
  BY <1>3, <1>4, <1>7, <1>8 DEF p

LEMMA Numbers ==
  /\ \A w \in Windows : Limit[w] \in Nat \ {0} /\ Life(w) \in Nat \ {0}
  /\ Second \in Nat \ {0} /\ 0 \in 0 .. Second - 1
  /\ MaxLag \in Nat /\ Horizon \in Nat \ {0} /\ 1 \in 1 .. Horizon /\ 0 \in 0 .. MaxLag
<1>1. MaxLag \in Nat /\ Horizon \in Nat \ {0}
  BY LimiterConstantsOK
<1>2. /\ \A w \in Windows : Limit[w] \in Nat \ {0} /\ Life(w) \in Nat \ {0}
      /\ Second \in Nat \ {0} /\ 0 \in 0 .. Second - 1
  BY LimiterConstantsOK, Lives
<1> QED
  BY <1>1, <1>2

(* What the script does to the Redis side. *)
LEMMA ScriptTypes ==
  ASSUME LimiterTypeOK,
         Deny \/ Admit \/ UNCHANGED <<count, ttl, admitted>>
  PROVE  /\ count' \in [Windows -> Nat] /\ ttl' \in [Windows -> Nat]
         /\ admitted' \in [1 .. Horizon -> Nat]
<1>1. CASE Deny \/ UNCHANGED <<count, ttl, admitted>>
  BY <1>1 DEF LimiterTypeOK, Deny
<1>2. CASE Admit
  <2>1. count' \in [Windows -> Nat] /\ ttl' \in [Windows -> Nat]
    BY <1>2, Numbers DEF LimiterTypeOK, Admit, Counts, Expiries
  <2>2. admitted' \in [1 .. Horizon -> Nat]
    BY <1>2, Numbers DEF LimiterTypeOK, Admit
  <2> QED
    BY <2>1, <2>2
<1> QED
  BY <1>1, <1>2

(* The whole seconds between the two readings of the clock are the ticks that   *)
(* passed, to within one second.                                                *)
LEMMA AdvancedIs ==
  ASSUME NEW r \in Requests, req[r] \in ReqState
  PROVE  /\ Advanced(r) \in Nat
         /\ Second * Advanced(r) < req[r].before + req[r].after + Second
         /\ req[r].before + req[r].after < Second * Advanced(r) + Second
<1> DEFINE a == req[r].cut + req[r].before + req[r].after
           b == Second
<1>1. b \in Nat \ {0} /\ MaxLag \in Nat
  BY Numbers
<1>2. req[r].cut \in 0 .. Second - 1 /\ req[r].before \in Nat /\ req[r].after \in Nat
  BY <1>1 DEF ReqState
<1>3. a \in Nat
  BY <1>1, <1>2
<1>4. a \div b \in Nat /\ b * (a \div b) <= a /\ a < b * (a \div b) + b
  <2> HIDE DEF a, b
  <2> QED
    BY <1>1, <1>3, Division
<1>5. Advanced(r) = a \div b
  BY DEF Advanced
<1> DEFINE p == b * Advanced(r)
<1>6. Advanced(r) \in Nat /\ p \in Nat /\ p <= a /\ a < p + b
  BY <1>1, <1>4, <1>5
<1> HIDE DEF p
<1>7. p < req[r].before + req[r].after + b /\ req[r].before + req[r].after < p + b
  BY <1>1, <1>2, <1>6
<1> QED
  BY <1>6, <1>7 DEF p

(* The record an answer leaves, with the window it was computed from. *)
LEMMA AnswerIs ==
  ASSUME NEW r \in Requests, LimiterTypeOK, Answer(r)
  PROVE  \E w \in Windows, remaining \in Int, retry \in Nat :
           /\ MostRestrictive(r, w)
           /\ Exhausted(r) # {} /\ ~ req[r].allowed =>
                retry = NonNegative(req[r].ttls[w] - Advanced(r))
           /\ Exhausted(r) = {} => retry = 0
           /\ req' = [req EXCEPT ![r].pc = "answered", ![r].remaining = remaining,
                                 ![r].retry = retry]
<1> DEFINE denied == Exhausted(r) # {} /\ ~ req[r].allowed
           room(w) == IF denied THEN 0 ELSE Remaining(r, w)
           wait(w) == IF denied
                        THEN NonNegative(req[r].ttls[w] - Advanced(r))
                        ELSE 0
<1>1. PICK w \in Windows :
        /\ MostRestrictive(r, w)
        /\ req' = [req EXCEPT ![r].pc = "answered", ![r].remaining = room(w),
                              ![r].retry = wait(w)]
  BY DEF Answer
<1>2. req[r].ttls[w] \in Nat /\ req[r].counts[w] \in Nat
      /\ Advanced(r) \in Nat
  <2>1. req[r] \in ReqState
    BY DEF LimiterTypeOK
  <2>2. req[r].ttls \in [Windows -> Nat] /\ req[r].counts \in [Windows -> Nat]
    BY <2>1 DEF ReqState
  <2>3. Advanced(r) \in Nat
    BY <2>1, AdvancedIs
  <2> QED
    BY <2>2, <2>3
<1>3. room(w) \in Int /\ wait(w) \in Nat
  BY <1>2, Numbers DEF Remaining, NonNegative
<1>4. /\ denied => wait(w) = NonNegative(req[r].ttls[w] - Advanced(r))
      /\ Exhausted(r) = {} => wait(w) = 0
  OBVIOUS
<1> HIDE DEF room, wait
<1> QED
  BY <1>1, <1>3, <1>4

LEMMA AnswerTypes ==
  ASSUME NEW r \in Requests, LimiterTypeOK, Answer(r)
  PROVE  LimiterTypeOK'
<1>1. PICK remaining \in Int, retry \in Nat :
        req' = [req EXCEPT ![r].pc = "answered", ![r].remaining = remaining,
                           ![r].retry = retry]
  BY AnswerIs
<1> DEFINE new == [req[r] EXCEPT !.pc = "answered", !.remaining = remaining,
                                 !.retry = retry]
<1>2. req[r] \in ReqState /\ req \in [Requests -> ReqState]
  BY DEF LimiterTypeOK
<1>3. new \in ReqState
  BY <1>2 DEF ReqState, LimiterPCs
<1>4. req' = [req EXCEPT ![r] = new]
  BY <1>1, <1>2
<1>5. req' \in [Requests -> ReqState]
  <2> HIDE DEF new
  <2> QED
    BY <1>2, <1>3, <1>4
<1> QED
  BY <1>5 DEF LimiterTypeOK, Answer

LEMMA TickTypes == LimiterTypeOK /\ LimiterTick => LimiterTypeOK'
<1> SUFFICES ASSUME LimiterTypeOK, LimiterTick PROVE LimiterTypeOK'
  OBVIOUS
<1>1. count' \in [Windows -> Nat] /\ ttl' \in [Windows -> Nat]
  BY DEF LimiterTypeOK, LimiterTick
<1>2. admitted' \in [1 .. Horizon -> Nat]
  BY Numbers DEF LimiterTypeOK, LimiterTick
<1>3. ASSUME NEW r \in Requests PROVE Older(req[r]) \in ReqState
  <2>1. req[r] \in ReqState
    BY DEF LimiterTypeOK
  <2>2. CASE req[r].pc = "calling"
    <3>1. Older(req[r]) = [req[r] EXCEPT !.before = @ + 1]
      BY <2>2 DEF Older
    <3>2. req[r].before + 1 \in 0 .. MaxLag
      <4>1. req[r].before \in 0 .. MaxLag /\ req[r].before < MaxLag
        BY <2>1, <2>2 DEF LimiterTick, ReqState
      <4>2. MaxLag \in Nat
        BY Numbers
      <4> QED
        BY <4>1, <4>2
    <3> QED
      BY <2>1, <3>1, <3>2 DEF ReqState
  <2>3. CASE req[r].pc = "replied"
    <3>1. Older(req[r]) = [req[r] EXCEPT !.after = @ + 1]
      BY <2>3 DEF Older
    <3>2. req[r].after + 1 \in 0 .. MaxLag
      BY <2>1, <2>3, Numbers DEF LimiterTick, ReqState
    <3> QED
      BY <2>1, <3>1, <3>2 DEF ReqState
  <2>4. CASE req[r].pc \notin {"calling", "replied"}
    BY <2>1, <2>4 DEF Older
  <2> QED
    BY <2>2, <2>3, <2>4
<1> QED
  BY <1>1, <1>2, <1>3 DEF LimiterTypeOK, LimiterTick

LEMMA StepTypes == LimiterTypeOK /\ [LimiterNext]_limiterVars => LimiterTypeOK'
<1> SUFFICES ASSUME LimiterTypeOK, [LimiterNext]_limiterVars PROVE LimiterTypeOK'
  OBVIOUS
<1>1. ASSUME NEW r \in Requests, Start(r) PROVE LimiterTypeOK'
  <2>1. PICK fraction \in 0 .. Second - 1 :
          req' = [req EXCEPT ![r].pc = "calling", ![r].cut = fraction]
    BY <1>1 DEF Start
  <2> DEFINE new == [req[r] EXCEPT !.pc = "calling", !.cut = fraction]
  <2>2. req[r] \in ReqState /\ req \in [Requests -> ReqState]
    BY DEF LimiterTypeOK
  <2>3. new \in ReqState
    BY <2>2 DEF ReqState, LimiterPCs
  <2>4. req' = [req EXCEPT ![r] = new]
    BY <2>1, <2>2
  <2> HIDE DEF new
  <2> QED
    BY <1>1, <2>2, <2>3, <2>4 DEF LimiterTypeOK, Start
<1>2. ASSUME NEW r \in Requests, Script(r) PROVE LimiterTypeOK'
  <2>1. /\ count' \in [Windows -> Nat] /\ ttl' \in [Windows -> Nat]
        /\ admitted' \in [1 .. Horizon -> Nat]
    BY <1>2, ScriptTypes DEF Script
  <2> DEFINE seconds == [w \in Windows |-> Rounded(ttl'[w])]
  <2>0. seconds \in [Windows -> Nat]
    BY <2>1, RoundedIs
  <2>2. PICK b \in BOOLEAN :
          req' = [req EXCEPT ![r].pc = "replied", ![r].allowed = b,
                             ![r].counts = count', ![r].left = ttl', ![r].ttls = seconds]
    <3> DEFINE room == \A w \in Windows : ~ Full(w)
    <3>1. room \in BOOLEAN
      OBVIOUS
    <3>2. req' = [req EXCEPT ![r].pc = "replied", ![r].allowed = room,
                             ![r].counts = count', ![r].left = ttl', ![r].ttls = seconds]
      BY <1>2 DEF Script
    <3> HIDE DEF room, seconds
    <3> QED
      BY <3>1, <3>2
  <2> HIDE DEF seconds
  <2> DEFINE new == [req[r] EXCEPT !.pc = "replied", !.allowed = b, !.counts = count',
                                   !.left = ttl', !.ttls = seconds]
  <2>3. req[r] \in ReqState /\ req \in [Requests -> ReqState]
    BY DEF LimiterTypeOK
  <2>4. new \in ReqState
    BY <2>0, <2>1, <2>3 DEF ReqState, LimiterPCs
  <2>5. req' = [req EXCEPT ![r] = new]
    BY <2>2, <2>3
  <2>6. req' \in [Requests -> ReqState]
    <3> HIDE DEF new
    <3> QED
      BY <2>3, <2>4, <2>5
  <2> QED
    BY <2>1, <2>6 DEF LimiterTypeOK
<1>3. ASSUME NEW r \in Requests, Fail(r) PROVE LimiterTypeOK'
  <2>1. /\ count' \in [Windows -> Nat] /\ ttl' \in [Windows -> Nat]
        /\ admitted' \in [1 .. Horizon -> Nat]
    BY <1>3, ScriptTypes DEF Fail
  <2>2. req' \in [Requests -> ReqState]
    <3> DEFINE new == [req[r] EXCEPT !.pc = "unavailable"]
    <3>1. req[r] \in ReqState /\ req \in [Requests -> ReqState]
      BY DEF LimiterTypeOK
    <3>2. new \in ReqState
      BY <3>1 DEF ReqState, LimiterPCs
    <3>3. req' = [req EXCEPT ![r] = new]
      BY <1>3, <3>1 DEF Fail
    <3> HIDE DEF new
    <3> QED
      BY <3>1, <3>2, <3>3
  <2> QED
    BY <2>1, <2>2 DEF LimiterTypeOK
<1>4. ASSUME NEW r \in Requests, Done(r) PROVE LimiterTypeOK'
  <2>1. IdleReq \in ReqState
    BY Numbers DEF IdleReq, Nothing, ReqState, LimiterPCs
  <2> QED
    BY <1>4, <2>1 DEF LimiterTypeOK, Done
<1>5. CASE UNCHANGED limiterVars
  BY <1>5 DEF limiterVars, LimiterTypeOK
<1> QED
  BY <1>1, <1>2, <1>3, <1>4, <1>5, AnswerTypes, TickTypes DEF LimiterNext, Call

LEMMA InitTypes == LimiterInit => LimiterTypeOK
<1> SUFFICES ASSUME LimiterInit PROVE LimiterTypeOK
  OBVIOUS
<1>1. IdleReq \in ReqState
  BY Numbers DEF IdleReq, Nothing, ReqState, LimiterPCs
<1> QED
  BY <1>1 DEF LimiterInit, LimiterTypeOK

(* Every variable keeps its type; in particular a retry_after is never negative *)
(* and the lags never pass MaxLag.                                              *)
THEOREM LimiterTypes == LimiterSpec => []LimiterTypeOK
  BY InitTypes, StepTypes, PTL DEF LimiterSpec

(* What a denied client is told.                                               *)

(* The multiplication by Second, kept out of the way of the arithmetic below.   *)
Ticks(n) == Second * n

LEMMA TicksGrow ==
  ASSUME NEW m \in Nat, NEW n \in Nat
  PROVE  /\ Ticks(m) \in Nat
         /\ m <= n => Ticks(m) <= Ticks(n)
         /\ Ticks(NonNegative(m - n)) >= Ticks(m) - Ticks(n)
         /\ m - n > 0 => Ticks(NonNegative(m - n)) = Ticks(m) - Ticks(n)
<1>1. Second \in Nat \ {0}
  BY Lives
<1>2. Ticks(m) \in Nat /\ Ticks(n) \in Nat
  BY <1>1 DEF Ticks
<1>3. m <= n => Ticks(m) <= Ticks(n)
  BY <1>1 DEF Ticks
<1>4. Second * (m - n) = Ticks(m) - Ticks(n)
  BY <1>1 DEF Ticks
<1>5. CASE m - n > 0
  <2>1. NonNegative(m - n) = m - n
    BY <1>5 DEF NonNegative
  <2>2. Ticks(NonNegative(m - n)) = Ticks(m) - Ticks(n)
    BY <1>4, <2>1 DEF Ticks
  <2> QED
    BY <1>2, <1>3, <2>2
<1>6. CASE ~ (m - n > 0)
  <2>1. NonNegative(m - n) = 0 /\ m <= n
    BY <1>6 DEF NonNegative
  <2>2. Ticks(NonNegative(m - n)) = 0
    BY <1>1, <2>1 DEF Ticks
  <2> QED
    BY <1>2, <1>3, <1>6, <2>1, <2>2
<1> QED
  BY <1>5, <1>6

(* The seconds in a reply are those its counters had left, rounded.             *)
RepliesRounded ==
  \A r \in Requests : req[r].pc \in {"replied", "answered"} =>
    \A w \in Windows : req[r].ttls[w] = Rounded(req[r].left[w])

(* The answer given to a denied request: the wait is the longest of the         *)
(* exhausted windows', each of them off by half a second, less the whole        *)
(* seconds passed, off by one.                                                  *)
LEMMA AnswerAccurate ==
  ASSUME NEW r \in Requests, LimiterTypeOK, RepliesRounded, Answer(r), ~ req[r].allowed
  PROVE  LongEnough(r)' /\ NotTooLong(r)'
<1>1. PICK w \in Windows, remaining \in Int, retry \in Nat :
        /\ MostRestrictive(r, w)
        /\ Exhausted(r) # {} /\ ~ req[r].allowed =>
             retry = NonNegative(req[r].ttls[w] - Advanced(r))
        /\ Exhausted(r) = {} => retry = 0
        /\ req' = [req EXCEPT ![r].pc = "answered", ![r].remaining = remaining,
                              ![r].retry = retry]
  BY AnswerIs
<1>2. req[r] \in ReqState /\ req \in [Requests -> ReqState]
  BY DEF LimiterTypeOK
<1>3. /\ req'[r].ttls = req[r].ttls /\ req'[r].counts = req[r].counts
      /\ req'[r].left = req[r].left /\ req'[r].before = req[r].before
      /\ req'[r].after = req[r].after /\ req'[r].retry = retry
  BY <1>1, <1>2 DEF ReqState
<1>4. Exhausted(r)' = Exhausted(r)
  BY <1>3 DEF Exhausted, Remaining
<1>5. CASE Exhausted(r) = {}
  <2>1. retry = 0
    BY <1>1, <1>5
  <2> QED
    BY <1>3, <1>4, <1>5, <2>1 DEF LongEnough, NotTooLong
<1>6. CASE Exhausted(r) # {}
  <2> DEFINE before == req[r].before
             after == req[r].after
             elapsed == Advanced(r)
             seconds(v) == req[r].ttls[v]
             ticks(v) == req[r].left[v]
  <2>1. /\ Second \in Nat \ {0} /\ before \in Nat /\ after \in Nat /\ elapsed \in Nat
        /\ Ticks(elapsed) < before + after + Second
        /\ before + after < Ticks(elapsed) + Second
    BY <1>2, Numbers, AdvancedIs DEF ReqState, Ticks
  <2>2. ASSUME NEW v \in Windows
        PROVE  /\ seconds(v) \in Nat /\ ticks(v) \in Nat
               /\ 2 * Ticks(seconds(v)) <= 2 * ticks(v) + Second
               /\ 2 * ticks(v) < 2 * Ticks(seconds(v)) + Second
    <3>1. ticks(v) \in Nat /\ seconds(v) = Rounded(ticks(v))
      BY <1>2 DEF ReqState, RepliesRounded, Answer
    <3> QED
      BY <3>1, RoundedIs DEF Ticks
  <2>3. retry = NonNegative(seconds(w) - elapsed)
    BY <1>1, <1>6
  <2>4. w \in Exhausted(r) /\ \A v \in Exhausted(r) : seconds(v) <= seconds(w)
    BY <1>1, <1>6 DEF MostRestrictive
  <2>5. /\ Ticks(seconds(w)) \in Nat /\ Ticks(elapsed) \in Nat /\ Ticks(retry) \in Nat
        /\ Ticks(retry) >= Ticks(seconds(w)) - Ticks(elapsed)
        /\ retry > 0 => Ticks(retry) = Ticks(seconds(w)) - Ticks(elapsed)
    <3>1. seconds(w) \in Nat /\ elapsed \in Nat
      BY <2>1, <2>2
    <3>2. /\ Ticks(seconds(w)) \in Nat /\ Ticks(elapsed) \in Nat /\ Ticks(retry) \in Nat
      BY <1>1, <3>1, TicksGrow
    <3>3. Ticks(NonNegative(seconds(w) - elapsed)) >= Ticks(seconds(w)) - Ticks(elapsed)
      BY <3>1, TicksGrow
    <3>4. seconds(w) - elapsed > 0 =>
            Ticks(NonNegative(seconds(w) - elapsed)) = Ticks(seconds(w)) - Ticks(elapsed)
      BY <3>1, TicksGrow
    <3>5. retry > 0 => seconds(w) - elapsed > 0
      BY <2>3, <3>1 DEF NonNegative
    <3> QED
      BY <2>3, <3>2, <3>3, <3>4, <3>5
  <2>6. ASSUME NEW v \in Exhausted(r)
        PROVE  2 * (ticks(v) - after) < 2 * Ticks(retry) + 2 * before + 3 * Second
    <3>1. v \in Windows
      BY DEF Exhausted
    <3>2. Ticks(seconds(v)) <= Ticks(seconds(w)) /\ Ticks(seconds(v)) \in Nat
      BY <2>2, <2>4, <3>1, TicksGrow
    <3>3. ticks(v) \in Nat /\ 2 * ticks(v) < 2 * Ticks(seconds(v)) + Second
      BY <2>2, <3>1
    <3> HIDE DEF before, after, elapsed, seconds, ticks
    <3> QED
      BY <2>1, <2>5, <3>2, <3>3
  <2>7. retry > 0 => 2 * Ticks(retry) < 2 * (ticks(w) - after) + 3 * Second
    <3>1. ticks(w) \in Nat /\ 2 * Ticks(seconds(w)) <= 2 * ticks(w) + Second
      BY <2>2
    <3> HIDE DEF before, after, elapsed, seconds, ticks
    <3> QED
      BY <2>1, <2>5, <3>1
  <2>8. 2 * Second * retry = 2 * Ticks(retry)
    BY <1>1, <2>1 DEF Ticks
  <2>9. LongEnough(r)'
    <3>1. \A v \in Exhausted(r) :
            2 * (req[r].left[v] - req[r].after)
              < 2 * Second * retry + 2 * req[r].before + 3 * Second
      BY <2>6, <2>8
    <3> QED
      BY <1>3, <1>4, <3>1 DEF LongEnough, Left
  <2>10. NotTooLong(r)'
    <3>1. retry > 0 =>
            2 * Second * retry < 2 * (req[r].left[w] - req[r].after) + 3 * Second
      BY <2>7, <2>8
    <3> QED
      BY <1>3, <1>4, <2>4, <3>1 DEF NotTooLong, Left
  <2> QED
    BY <2>9, <2>10
<1> QED
  BY <1>5, <1>6

LEMMA ScriptRounds ==
  ASSUME LimiterTypeOK, RepliesRounded, [LimiterNext]_limiterVars
  PROVE  RepliesRounded'
<1> SUFFICES ASSUME NEW r \in Requests, req'[r].pc \in {"replied", "answered"},
                    NEW w \in Windows
             PROVE  req'[r].ttls[w] = Rounded(req'[r].left[w])
  BY DEF RepliesRounded
<1>1. req \in [Requests -> ReqState] /\ req[r] \in ReqState
  BY DEF LimiterTypeOK
<1>2. CASE /\ req[r].pc \in {"replied", "answered"}
           /\ req'[r].ttls = req[r].ttls /\ req'[r].left = req[r].left
  BY <1>2 DEF RepliesRounded
<1>3. CASE Start(r) \/ Fail(r) \/ Done(r)
  <2>1. CASE Start(r)
    <3>1. PICK fraction \in 0 .. Second - 1 :
            req' = [req EXCEPT ![r].pc = "calling", ![r].cut = fraction]
      BY <2>1 DEF Start
    <3>2. req'[r].pc = "calling"
      BY <1>1, <3>1 DEF ReqState
    <3> QED
      BY <3>2
  <2>2. CASE Fail(r)
    BY <1>1, <2>2 DEF Fail, ReqState
  <2>3. CASE Done(r)
    BY <1>1, <2>3 DEF Done, IdleReq
  <2> QED
    BY <1>3, <2>1, <2>2, <2>3
<1>4. CASE Script(r)
  <2> DEFINE room == \A v \in Windows : ~ Full(v)
             seconds == [v \in Windows |-> Rounded(ttl'[v])]
  <2>1. req' = [req EXCEPT ![r].pc = "replied", ![r].allowed = room,
                           ![r].counts = count', ![r].left = ttl', ![r].ttls = seconds]
    BY <1>4 DEF Script
  <2>2. seconds[w] = Rounded(ttl'[w])
    OBVIOUS
  <2> HIDE DEF room, seconds
  <2>3. req'[r].left = ttl' /\ req'[r].ttls = seconds
    BY <1>1, <2>1 DEF ReqState
  <2> QED
    BY <2>2, <2>3
<1>5. CASE Answer(r)
  <2>1. PICK remaining \in Int, retry \in Nat :
          req' = [req EXCEPT ![r].pc = "answered", ![r].remaining = remaining,
                             ![r].retry = retry]
    BY <1>5, AnswerIs
  <2>2. req'[r].ttls = req[r].ttls /\ req'[r].left = req[r].left
    BY <1>1, <2>1 DEF ReqState
  <2> QED
    BY <1>2, <1>5, <2>2 DEF Answer
<1>6. CASE LimiterTick
  <2>1. req'[r] = Older(req[r])
    BY <1>6 DEF LimiterTick
  <2>2. /\ req'[r].pc = req[r].pc
        /\ req'[r].ttls = req[r].ttls /\ req'[r].left = req[r].left
    BY <1>1, <2>1 DEF Older, ReqState
  <2> QED
    BY <1>2, <2>2
<1>7. ASSUME NEW q \in Requests \ {r}, Start(q) \/ Call(q) \/ Done(q)
      PROVE  req'[r] = req[r]
  BY <1>7 DEF Start, Call, Script, Fail, Answer, Done, LimiterTypeOK
<1>8. CASE req'[r] = req[r]
  BY <1>2, <1>8
<1> QED
  BY <1>3, <1>4, <1>5, <1>6, <1>7, <1>8 DEF LimiterNext, Call, limiterVars

(* What a denied client is told to wait is what its exhausted windows have left, *)
(* give or take a second and a half, and the delay of the script: for any        *)
(* windows, limits, lengths, any delays and any number of requests.              *)
THEOREM RetryHolds == LimiterSpec => []RetryAccurate
<1> DEFINE Told == LimiterTypeOK /\ RepliesRounded /\ RetryAccurate
<1>1. LimiterInit => Told
  BY InitTypes DEF LimiterInit, IdleReq, RetryAccurate, RepliesRounded
<1>2. Told /\ [LimiterNext]_limiterVars => Told'
  <2> SUFFICES ASSUME LimiterTypeOK, RepliesRounded, RetryAccurate,
                      [LimiterNext]_limiterVars
               PROVE  RetryAccurate'
    BY StepTypes, ScriptRounds
  <2> SUFFICES ASSUME NEW r \in Requests, req'[r].pc = "answered", ~ req'[r].allowed
               PROVE  LongEnough(r)' /\ NotTooLong(r)'
    BY DEF RetryAccurate
  <2>1. CASE Answer(r)
    <3>1. req'[r].allowed = req[r].allowed
      <4>1. PICK remaining \in Int, retry \in Nat :
              req' = [req EXCEPT ![r].pc = "answered", ![r].remaining = remaining,
                                 ![r].retry = retry]
        BY <2>1, AnswerIs
      <4> QED
        BY <4>1 DEF LimiterTypeOK, ReqState
    <3> QED
      BY <2>1, <3>1, AnswerAccurate
  <2>2. CASE req'[r] = req[r]
    <3>1. LongEnough(r) /\ NotTooLong(r)
      BY <2>2 DEF RetryAccurate
    <3>2. Exhausted(r)' = Exhausted(r)
      BY <2>2 DEF Exhausted, Remaining
    <3> QED
      BY <2>2, <3>1, <3>2 DEF LongEnough, NotTooLong, Left
  <2>3. CASE Start(r) \/ Script(r) \/ Fail(r) \/ Done(r)
    <3>1. req \in [Requests -> ReqState]
      BY DEF LimiterTypeOK
    <3>2. req'[r].pc \in {"idle", "calling", "replied", "unavailable"}
      <4>1. CASE Fail(r)
        BY <3>1, <4>1 DEF Fail, ReqState
      <4>2. CASE Done(r)
        BY <3>1, <4>2 DEF Done, IdleReq
      <4>3. CASE Start(r)
        <5>1. PICK fraction \in 0 .. Second - 1 :
                req' = [req EXCEPT ![r].pc = "calling", ![r].cut = fraction]
          BY <4>3 DEF Start
        <5> QED
          BY <3>1, <5>1 DEF ReqState
      <4>4. CASE Script(r)
        <5> DEFINE room == \A w \in Windows : ~ Full(w)
                   seconds == [w \in Windows |-> Rounded(ttl'[w])]
        <5>1. req' = [req EXCEPT ![r].pc = "replied", ![r].allowed = room,
                                 ![r].counts = count', ![r].left = ttl',
                                 ![r].ttls = seconds]
          BY <4>4 DEF Script
        <5> HIDE DEF room, seconds
        <5> QED
          BY <3>1, <5>1 DEF ReqState
      <4> QED
        BY <2>3, <4>1, <4>2, <4>3, <4>4
    <3> QED
      BY <3>2
  <2>4. CASE LimiterTick
    <3>1. req'[r] = Older(req[r]) /\ req[r] \in ReqState
      BY <2>4 DEF LimiterTick, LimiterTypeOK
    <3>2. req[r].pc \notin {"calling", "replied"}
      BY <3>1 DEF Older, ReqState
    <3> QED
      BY <2>2, <3>1, <3>2 DEF Older
  <2>5. ASSUME NEW q \in Requests \ {r}, Start(q) \/ Call(q) \/ Done(q)
        PROVE  req'[r] = req[r]
    BY <2>5 DEF Start, Call, Script, Fail, Answer, Done, LimiterTypeOK
  <2> QED
    BY <2>1, <2>2, <2>3, <2>4, <2>5 DEF LimiterNext, Call, limiterVars
<1>3. Told => RetryAccurate
  OBVIOUS
<1> QED
  BY <1>1, <1>2, <1>3, PTL DEF LimiterSpec

-------------------------------------------------------------------------------
(* What is admitted over time. *)

LifeOf(w) == Within(Recent, count[w], ttl[w], Life(w), Limit[w])

SlideInv == LimiterTypeOK /\ CountersExpire /\ \A w \in Windows : LifeOf(w)

LEMMA RecentSums ==
  ASSUME admitted \in [1 .. Horizon -> Nat]
  PROVE  Sums(Recent, admitted, Horizon)
<1>1. Horizon \in Nat
  BY Numbers
<1>2. Recent = CHOOSE f : f = [n \in 0 .. Horizon |->
                                         IF n = 0 THEN 0 ELSE admitted[n] + f[n - 1]]
  BY DEF Recent
<1> QED
  BY <1>1, <1>2, SumsChosen

LEMMA RecentSumsNext ==
  ASSUME admitted' \in [1 .. Horizon -> Nat]
  PROVE  Sums(Recent', admitted', Horizon)
<1>1. Horizon \in Nat
  BY Numbers
<1>2. Recent' = CHOOSE f : f = [n \in 0 .. Horizon |->
                                         IF n = 0 THEN 0 ELSE admitted'[n] + f[n - 1]]
  BY DEF Recent
<1> QED
  BY <1>1, <1>2, SumsChosen

(* What is known of one window. *)
LEMMA OfWindow ==
  ASSUME SlideInv, NEW w \in Windows
  PROVE  /\ Limit[w] \in Nat \ {0} /\ Life(w) \in 1 .. Horizon /\ Horizon \in Nat
         /\ count[w] \in Nat /\ count[w] <= Limit[w] /\ ttl[w] \in Nat
         /\ count[w] = 0 => ttl[w] = 0
         /\ count[w] > 0 => ttl[w] \in 1 .. Life(w)
         /\ Sums(Recent, admitted, Horizon)
         /\ LifeOf(w)
<1>1. Limit[w] \in Nat \ {0} /\ Life(w) \in Nat \ {0} /\ Horizon \in Nat
  BY Numbers
<1>2. Life(w) \in 1 .. Horizon
  BY <1>1, Lives
<1>3. count[w] \in Nat /\ ttl[w] \in Nat /\ admitted \in [1 .. Horizon -> Nat]
  BY DEF SlideInv, LimiterTypeOK
<1>4. /\ count[w] <= Limit[w]
      /\ count[w] = 0 => ttl[w] = 0
      /\ count[w] > 0 => ttl[w] \in 1 .. Life(w)
  BY DEF SlideInv, CountersExpire
<1> QED
  BY <1>1, <1>2, <1>3, <1>4, RecentSums DEF SlideInv

(* The sums before and after a step. *)
LEMMA SumsStep ==
  ASSUME SlideInv, admitted' \in [1 .. Horizon -> Nat]
  PROVE  /\ Sums(Recent, admitted, Horizon) /\ Sums(Recent', admitted', Horizon)
         /\ admitted \in [1 .. Horizon -> Nat] /\ Horizon \in Nat
<1>1. admitted \in [1 .. Horizon -> Nat] /\ Horizon \in Nat
  BY Numbers DEF SlideInv, LimiterTypeOK
<1> QED
  BY <1>1, RecentSums, RecentSumsNext

LEMMA AdmitSlides ==
  ASSUME SlideInv, Admit, NEW w \in Windows
  PROVE  LifeOf(w)'
<1> DEFINE s == Recent
           t == Recent'
<1>1. Bumped(admitted, admitted', Horizon) /\ admitted' \in [1 .. Horizon -> Nat]
  BY Numbers DEF SlideInv, LimiterTypeOK, Admit, Bumped
<1>2. /\ Sums(s, admitted, Horizon) /\ Sums(t, admitted', Horizon)
      /\ admitted \in [1 .. Horizon -> Nat] /\ Horizon \in Nat
  BY <1>1, SumsStep
<1>3. /\ s \in [0 .. Horizon -> Nat] /\ t \in [0 .. Horizon -> Nat] /\ t[0] = 0
  BY <1>2 DEF Sums
<1> HIDE DEF s, t
<1>4. \A i \in 1 .. Horizon : t[i] = s[i] + 1
  BY <1>1, <1>2, SumsBump
<1>5. \A i \in 1 .. Horizon : t[i] <= s[i] + 1
  <2>1. \A i \in 1 .. Horizon : s[i] + 1 \in Nat
    BY <1>3
  <2> QED
    BY <1>4, <2>1
<1>6. /\ count'[w] = count[w] + 1 /\ count[w] < Limit[w]
      /\ ttl'[w] = IF count[w] = 0 THEN Life(w) ELSE ttl[w]
  BY OfWindow DEF Admit, Counts, Expiries, Full
<1>7. /\ Limit[w] \in Nat \ {0} /\ Life(w) \in 1 .. Horizon
      /\ count[w] \in Nat /\ ttl[w] \in Nat
      /\ count[w] > 0 => ttl[w] \in 1 .. Life(w)
      /\ Within(s, count[w], ttl[w], Life(w), Limit[w])
  BY OfWindow DEF LifeOf, s
<1>8. Within(t, count[w] + 1, IF count[w] = 0 THEN Life(w) ELSE ttl[w], Life(w), Limit[w])
  BY <1>2, <1>3, <1>5, <1>6, <1>7, WithinCount
<1> QED
  BY <1>6, <1>8 DEF LifeOf, t

LEMMA TickSlides ==
  ASSUME SlideInv, LimiterTick, NEW w \in Windows
  PROVE  LifeOf(w)'
<1> DEFINE s == Recent
           t == Recent'
<1>1. Shifted(admitted, admitted', Horizon) /\ admitted' \in [1 .. Horizon -> Nat]
  BY Numbers DEF SlideInv, LimiterTypeOK, LimiterTick, Shifted
<1>2. /\ Sums(s, admitted, Horizon) /\ Sums(t, admitted', Horizon)
      /\ admitted \in [1 .. Horizon -> Nat] /\ Horizon \in Nat
  BY <1>1, SumsStep
<1>3. s \in [0 .. Horizon -> Nat] /\ t \in [0 .. Horizon -> Nat]
  BY <1>2 DEF Sums
<1> HIDE DEF s, t
<1>4. \A i \in 1 .. Horizon : t[i] = s[i - 1]
  BY <1>1, <1>2, SumsShift
<1>5. \A i \in 1 .. Horizon : s[i - 1] <= s[i]
  BY <1>2, SumsGrow
<1>6. /\ count'[w] = IF ttl[w] = 1 THEN 0 ELSE count[w]
      /\ ttl'[w] = IF ttl[w] > 0 THEN ttl[w] - 1 ELSE ttl[w]
  BY DEF LimiterTick
<1>7. /\ Limit[w] \in Nat \ {0} /\ Life(w) \in 1 .. Horizon
      /\ count[w] \in Nat /\ count[w] <= Limit[w] /\ ttl[w] \in Nat
      /\ count[w] > 0 => ttl[w] \in 1 .. Life(w)
      /\ Within(s, count[w], ttl[w], Life(w), Limit[w])
  BY OfWindow DEF LifeOf, s
<1>8. Within(t, IF ttl[w] = 1 THEN 0 ELSE count[w], IF ttl[w] > 0 THEN ttl[w] - 1 ELSE ttl[w],
             Life(w), Limit[w])
  BY <1>2, <1>3, <1>4, <1>5, <1>7, WithinTick
<1> QED
  BY <1>6, <1>8 DEF LifeOf, t

(* A counter's life starts with the first request it counts: whatever clients   *)
(* do, no period as long as a window admits as much as twice its limit          *)
(* (rate_limit.lua).                                                            *)
THEOREM SlidingBounded == LimiterSpec => []SlidingBound
<1>1. LimiterInit => \A w \in Windows : LifeOf(w)
  <2> SUFFICES ASSUME LimiterInit, NEW w \in Windows PROVE LifeOf(w)
    OBVIOUS
  <2> DEFINE s == Recent
  <2>1. Limit[w] \in Nat \ {0} /\ Life(w) \in 1 .. Horizon /\ Horizon \in Nat
    BY Numbers, Lives
  <2>2. /\ admitted \in [1 .. Horizon -> Nat] /\ \A i \in 1 .. Horizon : admitted[i] = 0
        /\ count[w] = 0
    BY DEF LimiterInit
  <2>3. Sums(s, admitted, Horizon)
    BY <2>2, RecentSums
  <2>4. s \in [0 .. Horizon -> {0}]
    BY <2>1, <2>2, <2>3, SumsNone
  <2>5. ttl[w] = 0
    BY DEF LimiterInit
  <2> HIDE DEF s
  <2>6. Within(s, 0, 0, Life(w), Limit[w])
    BY <2>1, <2>4, WithinNone
  <2> QED
    BY <2>2, <2>5, <2>6 DEF LifeOf, s
<1>2. SlideInv /\ [LimiterNext]_limiterVars => (\A w \in Windows : LifeOf(w))'
  <2> SUFFICES ASSUME SlideInv, [LimiterNext]_limiterVars, NEW w \in Windows
               PROVE  LifeOf(w)'
    OBVIOUS
  <2>1. CASE UNCHANGED <<count, ttl, admitted>>
    <3>1. Recent' = Recent
      BY <2>1 DEF Recent
    <3> QED
      BY <2>1, <3>1 DEF SlideInv, LifeOf
  <2>2. CASE Admit
    BY <2>2, AdmitSlides
  <2>3. CASE LimiterTick
    BY <2>3, TickSlides
  <2>4. ASSUME NEW r \in Requests, Start(r) \/ Call(r) \/ Done(r)
        PROVE  Admit \/ UNCHANGED <<count, ttl, admitted>>
    BY <2>4 DEF Start, Call, Script, Fail, Deny,
       Answer, Done
  <2> QED
    BY <2>1, <2>2, <2>3, <2>4 DEF LimiterNext, limiterVars
<1>3. SlideInv => SlidingBound
  <2> SUFFICES ASSUME SlideInv, NEW w \in Windows
               PROVE  Recent[Life(w)] <= 2 * Limit[w] - 1
    BY DEF SlidingBound
  <2> DEFINE s == Recent
  <2>1. /\ Limit[w] \in Nat \ {0} /\ count[w] \in Nat /\ count[w] <= Limit[w]
        /\ Life(w) \in 1 .. Horizon /\ Horizon \in Nat
        /\ Sums(s, admitted, Horizon) /\ Within(s, count[w], ttl[w], Life(w), Limit[w])
    BY OfWindow DEF LifeOf
  <2>2. s \in [0 .. Horizon -> Nat]
    BY <2>1 DEF Sums
  <2> HIDE DEF s
  <2>3. s[Life(w)] <= 2 * Limit[w] - 1
    BY <2>1, <2>2, WithinBound
  <2> QED
    BY <2>3 DEF s
<1>4. LimiterSpec => []CountersExpire
  BY NoImmortalCounter
<1>5. LimiterSpec => []LimiterTypeOK
  BY LimiterTypes
<1> QED
  BY <1>1, <1>2, <1>3, <1>4, <1>5, PTL DEF LimiterSpec, SlideInv

-------------------------------------------------------------------------------
(* The limit of the auth endpoints (AuthRateLimit), for any clients, limit,    *)
(* window and cap of the fallback store.                                       *)

LEMMA AuthNumbers ==
  /\ IsFiniteSet(Clients) /\ Watched \in Clients
  /\ AuthLimit \in Nat \ {0} /\ Window \in Nat \ {0}
  /\ MaxEntries \in Nat /\ MaxWaiting \in Nat
  /\ 0 \in 0 .. AuthLimit /\ 1 \in 0 .. AuthLimit /\ 0 \in 0 .. Window
<1>1. /\ IsFiniteSet(Clients) /\ Watched \in Clients
      /\ AuthLimit \in Nat \ {0} /\ Window \in Nat \ {0}
      /\ MaxEntries \in Nat /\ MaxWaiting \in Nat
  BY AuthConstantsOK
<1> QED
  BY <1>1

(* The store as a whole, and its size, which the entry type does not bound. *)
Entries == [age : 0 .. Window, count : 0 .. AuthLimit]

Sized == Cardinality(Tracked) <= MaxEntries + 1

LEMMA AuthTypes ==
  AuthTypeOK <=>
    /\ tries \in 0 .. AuthLimit + 1 /\ expiry \in 0 .. Window
    /\ entry \in [Clients -> Entries] /\ waiting \in [Clients -> 0 .. MaxWaiting]
    /\ passed \in [1 .. Window -> Nat] /\ Sized
  BY DEF AuthTypeOK, Entries, Sized

LEMMA AuthTypesHold ==
  ASSUME tries' \in 0 .. AuthLimit + 1, expiry' \in 0 .. Window,
         entry' \in [Clients -> Entries], waiting' \in [Clients -> 0 .. MaxWaiting],
         passed' \in [1 .. Window -> Nat], Sized'
  PROVE  AuthTypeOK'
  BY DEF AuthTypeOK, Entries, Sized

LEMMA Stored ==
  ASSUME NEW S \in SUBSET Clients
  PROVE  IsFiniteSet(S) /\ Cardinality(S) \in Nat
  BY AuthNumbers, FS_Subset, FS_CardinalityType

(* The store loses nothing but what _evict drops, and gains the client that    *)
(* asks.                                                                       *)
LEMMA Emptied ==
  /\ NoEntry \in Entries
  /\ [c \in Clients |-> NoEntry] \in [Clients -> Entries]
  BY AuthNumbers DEF NoEntry, Entries

LEMMA CheckedIs ==
  ASSUME NEW e \in Entries
  PROVE  Checked(e) \in Entries
<1>1. CASE Over(e)
  BY <1>1, AuthNumbers DEF Checked, Entries
<1>2. CASE ~ Over(e)
  <2> DEFINE n == IF e.count < AuthLimit THEN e.count + 1 ELSE e.count
  <2>1. e.count \in 0 .. AuthLimit /\ AuthLimit \in Nat
    BY AuthNumbers DEF Entries
  <2>2. n \in 0 .. AuthLimit
    BY <2>1
  <2>3. Checked(e) = [e EXCEPT !.count = n]
    BY <1>2 DEF Checked
  <2> HIDE DEF n
  <2> QED
    BY <2>2, <2>3 DEF Entries
<1> QED
  BY <1>1, <1>2

(* What is kept is within the cap, and so the store is within one more after   *)
(* the client that asks is counted.                                            *)
LEMMA KeptFew ==
  ASSUME NEW S \in SUBSET Tracked, Kept(S)
  PROVE  Cardinality(S) <= MaxEntries
<1>1. /\ Tracked \subseteq Clients /\ Current \subseteq Clients /\ S \subseteq Clients
  BY DEF Tracked, Current
<1>2. MaxEntries \in Nat
  BY AuthNumbers
<1> QED
  BY <1>1, <1>2, Stored DEF Kept

LEMMA FallbackTypes ==
  ASSUME AuthTypeOK, NEW c \in Clients, ByFallback(c)
  PROVE  AuthTypeOK'
<1> DEFINE evicted(S) == [d \in Clients |-> IF d \in S THEN entry[d] ELSE NoEntry]
           left(S) == IF Watched \in Forgotten(S) THEN [i \in 1 .. Window |-> 0] ELSE passed
<1>1. PICK S \in SUBSET Tracked :
        /\ Kept(S)
        /\ entry' = [evicted(S) EXCEPT ![c] = Checked(@)]
        /\ passed' = IF c = Watched /\ Allows(evicted(S)[c])
                       THEN OneMore(left(S)) ELSE left(S)
  BY DEF ByFallback
<1>2. /\ waiting[c] > 0 /\ waiting' = [waiting EXCEPT ![c] = @ - 1]
      /\ tries' = tries /\ expiry' = expiry
  BY DEF ByFallback, redis
<1>3. waiting' \in [Clients -> 0 .. MaxWaiting]
  <2>1. MaxWaiting \in Nat /\ waiting \in [Clients -> 0 .. MaxWaiting]
    BY AuthNumbers, AuthTypes
  <2> QED
    BY <1>2, <2>1
<1>4. evicted(S) \in [Clients -> Entries]
  BY AuthTypes, Emptied
<1>5. entry' \in [Clients -> Entries]
  BY <1>1, <1>4, CheckedIs
<1>6. passed' \in [1 .. Window -> Nat]
  <2>1. passed \in [1 .. Window -> Nat] /\ 1 \in 1 .. Window
    BY AuthTypes, AuthNumbers
  <2>2. left(S) \in [1 .. Window -> Nat]
    BY <2>1
  <2> HIDE DEF left
  <2>3. OneMore(left(S)) \in [1 .. Window -> Nat]
    BY <2>1, <2>2 DEF OneMore
  <2> QED
    BY <1>1, <2>2, <2>3
<1>7. Sized'
  <2>1. ASSUME NEW d \in Tracked' PROVE d \in S \cup {c}
    <3>1. d \in Clients /\ entry'[d].count > 0
      BY DEF Tracked
    <3> QED
      BY <1>1, <1>4, <3>1 DEF NoEntry
  <2>2. S \in SUBSET Clients /\ S \cup {c} \in SUBSET Clients /\ Tracked' \in SUBSET Clients
    BY DEF Tracked
  <2>3. Cardinality(S \cup {c}) <= Cardinality(S) + 1
    BY <2>2, Stored, FS_AddElement
  <2>4. Cardinality(Tracked') <= Cardinality(S \cup {c})
    BY <2>1, <2>2, Stored, FS_Subset
  <2>5. Cardinality(S) <= MaxEntries
    BY <1>1, KeptFew
  <2> QED
    BY <2>2, <2>3, <2>4, <2>5, AuthNumbers, Stored DEF Sized
<1> QED
  BY <1>2, <1>3, <1>5, <1>6, <1>7, AuthTypes, AuthTypesHold

(* An attempt counted by the script. *)
LEMMA ScriptCounts ==
  ASSUME AuthTypeOK, AuthScript
  PROVE  tries' \in 0 .. AuthLimit + 1 /\ expiry' \in 0 .. Window
<1>1. /\ AuthLimit \in Nat /\ Window \in Nat /\ tries \in 0 .. AuthLimit + 1
      /\ expiry \in 0 .. Window
  BY AuthNumbers, AuthTypes
<1>2. /\ tries' = IF tries > AuthLimit THEN tries ELSE tries + 1
      /\ expiry' = IF tries = 0 THEN Window ELSE expiry
  BY DEF AuthScript, Expiry
<1> QED
  BY <1>1, <1>2

LEMMA OneMoreIs ==
  ASSUME AuthTypeOK
  PROVE  OneMore(passed) \in [1 .. Window -> Nat]
<1>1. passed \in [1 .. Window -> Nat] /\ 1 \in 1 .. Window
  BY AuthTypes, AuthNumbers
<1> QED
  BY <1>1 DEF OneMore

LEMMA RedisSideTypes ==
  ASSUME AuthTypeOK,
         ByRedis \/ \E c \in Clients : RedisFails(c)
  PROVE  AuthTypeOK'
<1>1. CASE ByRedis
  <2>1. /\ AuthScript /\ entry' = entry /\ waiting' = waiting
        /\ passed' = passed \/ passed' = OneMore(passed)
    BY <1>1 DEF ByRedis
  <2>2. Sized'
    BY <2>1, AuthTypes DEF Sized, Tracked
  <2> QED
    BY <2>1, <2>2, ScriptCounts, OneMoreIs, AuthTypes, AuthTypesHold
<1>2. ASSUME NEW c \in Clients, RedisFails(c) PROVE AuthTypeOK'
  <2>1. /\ AuthScript \/ (tries' = tries /\ expiry' = expiry)
        /\ waiting[c] < MaxWaiting /\ waiting' = [waiting EXCEPT ![c] = @ + 1]
        /\ entry' = entry /\ passed' = passed
    BY <1>2 DEF RedisFails, redis
  <2>2. Sized'
    BY <2>1, AuthTypes DEF Sized, Tracked
  <2>3. waiting' \in [Clients -> 0 .. MaxWaiting]
    <3>1. MaxWaiting \in Nat /\ waiting \in [Clients -> 0 .. MaxWaiting]
      BY AuthNumbers, AuthTypes
    <3> QED
      BY <2>1, <3>1
  <2>4. tries' \in 0 .. AuthLimit + 1 /\ expiry' \in 0 .. Window
    BY <2>1, ScriptCounts, AuthTypes
  <2> QED
    BY <2>1, <2>2, <2>3, <2>4, AuthTypes, AuthTypesHold
<1> QED
  BY <1>1, <1>2

(* A restart empties the store. *)
LEMMA EmptySized ==
  ASSUME entry = [c \in Clients |-> NoEntry]
  PROVE  Tracked = {} /\ Sized
<1>1. Tracked = {}
  BY DEF Tracked, NoEntry
<1>2. Cardinality({}) = 0
  BY FS_EmptySet
<1> QED
  BY <1>1, <1>2, AuthNumbers DEF Sized

LEMMA RestartTypes == ASSUME AuthTypeOK, Restart PROVE AuthTypeOK'
<1>1. /\ entry' = [c \in Clients |-> NoEntry] /\ waiting' = [c \in Clients |-> 0]
      /\ passed' = [i \in 1 .. Window |-> 0] /\ tries' = tries /\ expiry' = expiry
  BY DEF Restart, redis
<1>2. Sized'
  <2>1. Tracked' = {}
    BY <1>1 DEF Tracked, NoEntry
  <2>2. Cardinality({}) = 0
    BY FS_EmptySet
  <2> QED
    BY <2>1, <2>2, AuthNumbers DEF Sized
<1>3. waiting' \in [Clients -> 0 .. MaxWaiting] /\ passed' \in [1 .. Window -> Nat]
  BY <1>1, AuthNumbers
<1> QED
  BY <1>1, <1>2, <1>3, Emptied, AuthTypes, AuthTypesHold

LEMMA AuthTickTypes == ASSUME AuthTypeOK, AuthTick PROVE AuthTypeOK'
<1>1. /\ tries' = IF expiry = 1 THEN 0 ELSE tries
      /\ expiry' = IF expiry > 0 THEN expiry - 1 ELSE 0
      /\ waiting' = waiting
      /\ passed' = [i \in 1 .. Window |-> IF i = 1 THEN 0 ELSE passed[i - 1]]
      /\ entry' = [c \in Clients |-> IF c \in Current
                                     THEN [entry[c] EXCEPT !.age = @ + 1] ELSE entry[c]]
  BY DEF AuthTick
<1>2. /\ AuthLimit \in Nat /\ Window \in Nat
      /\ tries \in 0 .. AuthLimit + 1 /\ expiry \in 0 .. Window
      /\ passed \in [1 .. Window -> Nat] /\ entry \in [Clients -> Entries]
  BY AuthNumbers, AuthTypes
<1>3. tries' \in 0 .. AuthLimit + 1 /\ expiry' \in 0 .. Window
  BY <1>1, <1>2
<1>4. passed' \in [1 .. Window -> Nat]
  BY <1>1, <1>2
<1>5. ASSUME NEW c \in Clients
      PROVE  entry'[c] \in Entries /\ entry'[c].count = entry[c].count
  <2>1. entry[c] \in Entries
    BY <1>2
  <2>2. CASE c \in Current
    <3>1. entry[c].age + 1 \in 0 .. Window
      BY <1>2, <2>1, <2>2 DEF Current, Entries
    <3>2. entry'[c] = [entry[c] EXCEPT !.age = entry[c].age + 1]
      BY <1>1, <2>2
    <3> QED
      BY <2>1, <3>1, <3>2 DEF Entries
  <2> QED
    BY <1>1, <2>1, <2>2
<1>6. entry' \in [Clients -> Entries]
  BY <1>1, <1>5
<1>7. Sized'
  <2>1. Tracked' = Tracked
    BY <1>5 DEF Tracked
  <2> QED
    BY <2>1, AuthTypes DEF Sized
<1> QED
  BY <1>1, <1>3, <1>4, <1>6, <1>7, AuthTypes, AuthTypesHold

LEMMA AuthStepTypes == AuthTypeOK /\ [AuthNext]_authVars => AuthTypeOK'
<1> SUFFICES ASSUME AuthTypeOK, [AuthNext]_authVars PROVE AuthTypeOK'
  OBVIOUS
<1>1. CASE UNCHANGED authVars
  <2>1. /\ tries' = tries /\ expiry' = expiry /\ entry' = entry /\ waiting' = waiting
        /\ passed' = passed
    BY <1>1 DEF authVars, redis
  <2>2. Sized'
    BY <2>1, AuthTypes DEF Sized, Tracked
  <2> QED
    BY <2>1, <2>2, AuthTypes, AuthTypesHold
<1> QED
  BY <1>1, AuthTickTypes, RestartTypes, RedisSideTypes, FallbackTypes DEF AuthNext

LEMMA InitAuth == AuthInit => AuthTypeOK
<1> SUFFICES ASSUME AuthInit PROVE AuthTypeOK
  OBVIOUS
<1>1. /\ tries = 0 /\ expiry = 0 /\ entry = [c \in Clients |-> NoEntry]
      /\ waiting = [c \in Clients |-> 0] /\ passed = [i \in 1 .. Window |-> 0]
  BY DEF AuthInit
<1>2. Sized
  BY <1>1, EmptySized
<1> QED
  BY <1>1, <1>2, AuthNumbers, Emptied, AuthTypes

(* The types of the variables, and with them the size of the store: it never   *)
(* holds more than one entry above its cap (_FallbackStore.check).             *)
THEOREM AuthLimitTypes == AuthSpec => []AuthTypeOK
  BY InitAuth, AuthStepTypes, PTL DEF AuthSpec

(* What the store forgets before its time is older than as many windows as its *)
(* cap.                                                                        *)
LEMMA Loss ==
  ASSUME AuthTypeOK, NEW c \in Clients, ByFallback(c),
         NEW d \in Current, Loses(d)
  PROVE  Cardinality(NoEarlier(d)) >= MaxEntries
<1> DEFINE evicted(S) == [x \in Clients |-> IF x \in S THEN entry[x] ELSE NoEntry]
<1>1. PICK S \in SUBSET Tracked :
        Kept(S) /\ entry' = [evicted(S) EXCEPT ![c] = Checked(@)]
  BY DEF ByFallback
<1>2. /\ d \in Clients /\ d \in Tracked /\ entry[d] \in Entries /\ entry[d].count > 0
      /\ entry[d].age < Window
  BY AuthTypes DEF Current, Tracked
<1>3. /\ entry[d].age \in Nat /\ entry[d].count \in Nat
  BY <1>2, AuthNumbers DEF Entries
<1>4. d \notin S
  <2> SUFFICES ASSUME d \in S PROVE ~ Loses(d)
    OBVIOUS
  <2>1. evicted(S)[d] = entry[d]
    BY <1>2
  <2>2. CASE d # c
    <3>1. entry'[d] = entry[d]
      BY <1>1, <1>2, <2>1, <2>2
    <3> QED
      BY <1>3, <3>1 DEF Loses
  <2>3. CASE d = c
    <3>1. entry'[d] = Checked(entry[d])
      BY <1>1, <1>2, <2>1, <2>3
    <3>2. ~ Over(entry[d])
      BY <1>2, <1>3, AuthNumbers DEF Over
    <3> DEFINE n == IF entry[d].count < AuthLimit THEN entry[d].count + 1 ELSE entry[d].count
    <3>3. entry'[d] = [entry[d] EXCEPT !.count = n]
      BY <3>1, <3>2 DEF Checked
    <3>4. n >= entry[d].count /\ n \in Nat
      BY <1>3
    <3>5. entry'[d].count = n /\ entry'[d].age = entry[d].age
      BY <1>2, <3>3 DEF Entries
    <3> QED
      BY <1>3, <3>4, <3>5 DEF Loses
  <2> QED
    BY <2>2, <2>3
<1>5. /\ S \subseteq Current /\ Cardinality(S) = MaxEntries
      /\ \A x \in S : entry[x].age <= entry[d].age
  BY <1>1, <1>2, <1>4 DEF Kept, Oldest, Current
<1>6. S \subseteq NoEarlier(d)
  BY <1>4, <1>5 DEF NoEarlier
<1>7. NoEarlier(d) \in SUBSET Clients /\ S \in SUBSET Clients
  BY DEF NoEarlier, Current, Tracked
<1> QED
  BY <1>5, <1>6, <1>7, Stored, FS_Subset

LEMMA OthersLoseNothing ==
  ASSUME AuthTypeOK, NEW d \in Current,
         \/ entry' = entry
         \/ AuthTick
  PROVE  ~ Loses(d)
<1>1. d \in Clients /\ entry[d] \in Entries
  BY AuthTypes DEF Current, Tracked
<1>2. entry[d].age \in Nat /\ entry[d].count \in Nat
  BY <1>1, AuthNumbers DEF Entries
<1>3. CASE entry' = entry
  BY <1>2, <1>3 DEF Loses
<1>4. CASE AuthTick
  <2>1. entry'[d] = [entry[d] EXCEPT !.age = @ + 1]
    BY <1>1, <1>4 DEF AuthTick
  <2>2. entry'[d].age = entry[d].age + 1 /\ entry'[d].count = entry[d].count
    BY <1>1, <2>1 DEF Entries
  <2> QED
    BY <1>2, <2>2 DEF Loses
<1> QED
  BY <1>3, <1>4

(* Whatever fails, a client inside its window is forgotten only by a restart    *)
(* or for as many others, no older, as the store's cap (_evict).               *)
THEOREM OldestForgotten == AuthSpec => ForgetsOldest
<1>1. AuthTypeOK /\ [AuthNext]_authVars =>
        [\A c \in Current : Loses(c) =>
           Tracked' = {} \/ Cardinality(NoEarlier(c)) >= MaxEntries]_authVars
  <2> SUFFICES ASSUME AuthTypeOK, AuthNext, NEW d \in Current, Loses(d)
               PROVE  Tracked' = {} \/ Cardinality(NoEarlier(d)) >= MaxEntries
    OBVIOUS
  <2>1. CASE Restart
    <3>1. entry' = [c \in Clients |-> NoEntry]
      BY <2>1 DEF Restart
    <3> QED
      BY <3>1 DEF Tracked, NoEntry
  <2>2. CASE ByRedis \/ \E c \in Clients : RedisFails(c)
    BY <2>2, OthersLoseNothing DEF ByRedis, RedisFails
  <2>3. CASE AuthTick
    BY <2>3, OthersLoseNothing
  <2>4. ASSUME NEW c \in Clients, ByFallback(c)
        PROVE  Cardinality(NoEarlier(d)) >= MaxEntries
    BY <2>4, Loss
  <2> QED
    BY <2>1, <2>2, <2>3, <2>4 DEF AuthNext
<1> QED
  BY <1>1, AuthLimitTypes, PTL DEF AuthSpec, ForgetsOldest

-------------------------------------------------------------------------------
(* The attempts let through are those Redis let through and those the store    *)
(* did, each within a counter of its own: the key in Redis, where what is      *)
(* above the limit counts as the limit, and the entry of the store until its   *)
(* window is over.                                                             *)

Half(s, c, e) ==
  /\ s \in [0 .. Window -> Nat] /\ s[0] = 0
  /\ \A i \in 1 .. Window : s[i - 1] <= s[i]
  /\ Within(s, c, e, Window, AuthLimit)

Told == IF tries > AuthLimit THEN AuthLimit ELSE tries

Held(e) == IF Over(e) THEN 0 ELSE e.count

LeftOf(e) == IF Over(e) THEN 0 ELSE Window - e.age

(* p[i] attempts in the last i units, with c counted in Redis for another x,    *)
(* and the entry e.                                                            *)
Splits(p, c, x, e) ==
  \E r, u : /\ Half(r, c, x) /\ Half(u, Held(e), LeftOf(e))
            /\ \A i \in 0 .. Window : p[i] = r[i] + u[i]

AttemptsInv ==
  /\ AuthTypeOK
  /\ tries > 0 <=> expiry > 0
  /\ Splits(AuthRecent, Told, expiry, entry[Watched])

(* One unit of time later, and one attempt more in the latest one. *)
Later(s) == [i \in 0 .. Window |-> IF i = 0 THEN 0 ELSE s[i - 1]]

More(s) == [i \in 0 .. Window |-> IF i = 0 THEN 0 ELSE s[i] + 1]

LEMMA HalfMore ==
  ASSUME NEW s, NEW c \in Nat, c < AuthLimit, NEW e \in Nat,
         c > 0 => e \in 1 .. Window, Half(s, c, e)
  PROVE  /\ Half(More(s), c + 1, IF c = 0 THEN Window ELSE e)
         /\ Half(s, c + 1, IF c = 0 THEN Window ELSE e)
<1>1. Window \in Nat /\ Window \in 1 .. Window /\ AuthLimit \in Nat \ {0}
  BY AuthNumbers
<1>2. /\ s \in [0 .. Window -> Nat] /\ s[0] = 0 /\ \A i \in 1 .. Window : s[i - 1] <= s[i]
      /\ Within(s, c, e, Window, AuthLimit)
  BY DEF Half
<1> DEFINE t == More(s)
<1>3. /\ t \in [0 .. Window -> Nat] /\ t[0] = 0
      /\ \A i \in 1 .. Window : t[i] = s[i] + 1
  BY <1>1, <1>2 DEF More
<1>4. \A i \in 1 .. Window : t[i] <= s[i] + 1 /\ s[i] <= s[i] + 1
  BY <1>2, <1>3
<1>5. ASSUME NEW i \in 1 .. Window PROVE t[i - 1] <= t[i]
  <2>1. i - 1 \in 0 .. Window /\ s[i - 1] \in Nat /\ s[i] \in Nat /\ s[i - 1] <= s[i]
    BY <1>1, <1>2
  <2>2. CASE i - 1 = 0
    BY <1>3, <2>1, <2>2
  <2>3. CASE i - 1 \in 1 .. Window
    BY <1>3, <2>1, <2>3
  <2> QED
    BY <1>1, <2>1, <2>2, <2>3
<1> HIDE DEF t
<1>6. Within(t, c + 1, IF c = 0 THEN Window ELSE e, Window, AuthLimit)
  BY <1>1, <1>2, <1>3, <1>4, WithinCount
<1>7. Within(s, c + 1, IF c = 0 THEN Window ELSE e, Window, AuthLimit)
  BY <1>1, <1>2, <1>4, WithinCount
<1> QED
  BY <1>2, <1>3, <1>5, <1>6, <1>7 DEF Half, t

LEMMA HalfLater ==
  ASSUME NEW s, NEW c \in Nat, c <= AuthLimit, NEW e \in Nat,
         c > 0 => e \in 1 .. Window, Half(s, c, e)
  PROVE  Half(Later(s), IF e = 1 THEN 0 ELSE c, IF e > 0 THEN e - 1 ELSE e)
<1>1. Window \in Nat /\ Window \in 1 .. Window /\ AuthLimit \in Nat \ {0}
  BY AuthNumbers
<1>2. /\ s \in [0 .. Window -> Nat] /\ s[0] = 0 /\ \A i \in 1 .. Window : s[i - 1] <= s[i]
      /\ Within(s, c, e, Window, AuthLimit)
  BY DEF Half
<1> DEFINE t == Later(s)
<1>3. /\ t \in [0 .. Window -> Nat] /\ t[0] = 0
      /\ \A i \in 1 .. Window : t[i] = s[i - 1]
  BY <1>1, <1>2 DEF Later
<1>4. \A i \in 1 .. Window : t[i] = s[i - 1] /\ s[i - 1] <= s[i]
  BY <1>2, <1>3
<1>5. ASSUME NEW i \in 1 .. Window PROVE t[i - 1] <= t[i]
  <2>1. i - 1 \in 0 .. Window /\ s[i - 1] \in Nat /\ t[i] = s[i - 1]
    BY <1>1, <1>2, <1>3
  <2>2. CASE i - 1 = 0
    BY <1>3, <2>1, <2>2
  <2>3. CASE i - 1 \in 1 .. Window
    BY <1>2, <1>3, <2>1, <2>3
  <2> QED
    BY <1>1, <2>1, <2>2, <2>3
<1> HIDE DEF t
<1>6. Within(t, IF e = 1 THEN 0 ELSE c, IF e > 0 THEN e - 1 ELSE e, Window, AuthLimit)
  BY <1>1, <1>2, <1>3, <1>4, WithinTick
<1> QED
  BY <1>3, <1>5, <1>6 DEF Half, t

LEMMA HalfNone ==
  ASSUME NEW c \in Nat, NEW e \in Nat, c > 0 => e \in 1 .. Window,
         NEW s \in [0 .. Window -> {0}]
  PROVE  Half(s, c, e)
<1>1. Window \in Nat /\ Window \in 1 .. Window /\ AuthLimit \in Nat \ {0}
  BY AuthNumbers
<1>2. Within(s, c, e, Window, AuthLimit)
  BY <1>1, WithinNone
<1>3. /\ s \in [0 .. Window -> Nat] /\ s[0] = 0
      /\ \A i \in 1 .. Window : s[i - 1] = 0 /\ s[i] = 0
  BY <1>1
<1> QED
  BY <1>2, <1>3 DEF Half

LEMMA EntryNumbers ==
  ASSUME NEW e \in Entries
  PROVE  /\ Held(e) \in Nat /\ Held(e) <= AuthLimit /\ LeftOf(e) \in Nat
         /\ Held(e) > 0 => LeftOf(e) \in 1 .. Window
<1>1. /\ e.count \in 0 .. AuthLimit /\ e.age \in 0 .. Window
      /\ AuthLimit \in Nat \ {0} /\ Window \in Nat \ {0}
  BY AuthNumbers DEF Entries
<1>2. CASE Over(e)
  BY <1>1, <1>2 DEF Held, LeftOf
<1>3. CASE ~ Over(e)
  <2>1. Held(e) = e.count /\ LeftOf(e) = Window - e.age
    BY <1>3 DEF Held, LeftOf
  <2>2. e.age < Window
    BY <1>1, <1>3 DEF Over
  <2> QED
    BY <1>1, <2>1, <2>2
<1> QED
  BY <1>2, <1>3

(* What the store lets through it counts. *)
LEMMA CheckedHalf ==
  ASSUME NEW e \in Entries, NEW u, Half(u, Held(e), LeftOf(e))
  PROVE  Half(IF Allows(e) THEN More(u) ELSE u,
              Held(Checked(e)), LeftOf(Checked(e)))
<1>1. /\ e.count \in 0 .. AuthLimit /\ e.age \in 0 .. Window
      /\ AuthLimit \in Nat \ {0} /\ Window \in Nat \ {0}
  BY AuthNumbers DEF Entries
<1>2. /\ Held(e) \in Nat /\ Held(e) <= AuthLimit /\ LeftOf(e) \in Nat
      /\ Held(e) > 0 => LeftOf(e) \in 1 .. Window
  BY EntryNumbers
<1>3. CASE Over(e)
  <2>1. Allows(e) /\ Held(e) = 0 /\ LeftOf(e) = 0
    BY <1>3 DEF Allows, Held, LeftOf
  <2>2. Checked(e) = [age |-> 0, count |-> 1]
    BY <1>3 DEF Checked
  <2>3. ~ Over(Checked(e))
    BY <1>1, <2>2 DEF Over
  <2>4. Held(Checked(e)) = 0 + 1 /\ LeftOf(Checked(e)) = Window
    BY <1>1, <2>2, <2>3 DEF Held, LeftOf
  <2>5. Half(More(u), 0 + 1, IF 0 = 0 THEN Window ELSE 0)
    <3>1. 0 \in Nat /\ 0 < AuthLimit /\ ~ (0 > 0) /\ Half(u, 0, 0)
      BY <1>1, <2>1
    <3> QED
      BY <3>1, HalfMore
  <2> QED
    BY <2>1, <2>4, <2>5
<1>4. CASE ~ Over(e) /\ e.count < AuthLimit
  <2>1. Allows(e) /\ Held(e) = e.count /\ LeftOf(e) = Window - e.age /\ e.count # 0
    BY <1>4 DEF Allows, Over, Held, LeftOf
  <2>2. Checked(e) = [e EXCEPT !.count = e.count + 1]
    BY <1>4 DEF Checked
  <2>3. Checked(e).count = e.count + 1 /\ Checked(e).age = e.age
    BY <2>2 DEF Entries
  <2>4. ~ Over(Checked(e))
    BY <1>1, <1>4, <2>3 DEF Over
  <2>5. Held(Checked(e)) = Held(e) + 1 /\ LeftOf(Checked(e)) = LeftOf(e)
    BY <2>1, <2>3, <2>4 DEF Held, LeftOf
  <2>6. Half(More(u), Held(e) + 1, IF Held(e) = 0 THEN Window ELSE LeftOf(e))
    BY <1>2, <1>4, <2>1, HalfMore
  <2> QED
    BY <2>1, <2>5, <2>6
<1>5. CASE ~ Over(e) /\ ~ (e.count < AuthLimit)
  <2>1. ~ Allows(e) /\ Checked(e) = [e EXCEPT !.count = e.count]
    BY <1>5 DEF Allows, Checked
  <2>2. Checked(e) = e
    BY <2>1 DEF Entries
  <2> QED
    BY <2>1, <2>2
<1> QED
  BY <1>3, <1>4, <1>5

LEMMA PassedSums ==
  ASSUME passed \in [1 .. Window -> Nat]
  PROVE  Sums(AuthRecent, passed, Window)
<1>1. Window \in Nat
  BY AuthNumbers
<1>2. AuthRecent = CHOOSE f : f = [n \in 0 .. Window |->
                                      IF n = 0 THEN 0 ELSE passed[n] + f[n - 1]]
  BY DEF AuthRecent
<1> QED
  BY <1>1, <1>2, SumsChosen

LEMMA PassedSumsNext ==
  ASSUME passed' \in [1 .. Window -> Nat]
  PROVE  Sums(AuthRecent', passed', Window)
<1>1. Window \in Nat
  BY AuthNumbers
<1>2. AuthRecent' = CHOOSE f : f = [n \in 0 .. Window |->
                                       IF n = 0 THEN 0 ELSE passed'[n] + f[n - 1]]
  BY DEF AuthRecent
<1> QED
  BY <1>1, <1>2, SumsChosen

(* What is known of Redis and of the watched client's entry. *)
LEMMA Watching ==
  ASSUME AttemptsInv
  PROVE  /\ Told \in Nat /\ Told <= AuthLimit /\ expiry \in Nat
         /\ Told > 0 => expiry \in 1 .. Window
         /\ Told = 0 => expiry = 0
         /\ entry[Watched] \in Entries /\ passed \in [1 .. Window -> Nat]
         /\ Sums(AuthRecent, passed, Window)
         /\ Splits(AuthRecent, Told, expiry, entry[Watched])
         /\ Window \in Nat \ {0} /\ AuthLimit \in Nat \ {0}
<1>1. /\ Window \in Nat \ {0} /\ AuthLimit \in Nat \ {0} /\ Watched \in Clients
      /\ tries \in 0 .. AuthLimit + 1 /\ expiry \in 0 .. Window
      /\ entry \in [Clients -> Entries] /\ passed \in [1 .. Window -> Nat]
  BY AuthNumbers, AuthTypes DEF AttemptsInv
<1>2. (tries > 0 <=> expiry > 0) /\ Splits(AuthRecent, Told, expiry, entry[Watched])
  BY DEF AttemptsInv
<1> QED
  BY <1>1, <1>2, PassedSums DEF Told

(* Redis counts an attempt and lets it through, counts it in vain, or only     *)
(* refuses it.                                                                 *)
LEMMA ScriptSplits ==
  ASSUME AttemptsInv, AuthScript,
         \/ passed' = IF tries' <= AuthLimit THEN OneMore(passed) ELSE passed
         \/ passed' = passed
  PROVE  /\ tries' > 0 <=> expiry' > 0
         /\ Splits(AuthRecent', Told', expiry', entry[Watched])
<1>1. /\ Told \in Nat /\ Told <= AuthLimit /\ expiry \in Nat
      /\ Told > 0 => expiry \in 1 .. Window
      /\ Told = 0 => expiry = 0
      /\ passed \in [1 .. Window -> Nat] /\ Sums(AuthRecent, passed, Window)
      /\ Splits(AuthRecent, Told, expiry, entry[Watched])
      /\ Window \in Nat \ {0} /\ AuthLimit \in Nat \ {0}
  BY Watching
<1>2. tries \in 0 .. AuthLimit + 1
  BY AuthTypes DEF AttemptsInv
<1>3. /\ tries' = IF tries > AuthLimit THEN tries ELSE tries + 1
      /\ expiry' = IF tries = 0 THEN Window ELSE expiry
  BY DEF AuthScript, Expiry
<1>4. tries' > 0 /\ expiry' > 0
  BY <1>1, <1>2, <1>3 DEF AttemptsInv
<1> DEFINE p == AuthRecent
           q == AuthRecent'
           e == entry[Watched]
<1>5. CASE tries < AuthLimit
  <2>1. /\ Told = tries /\ Told' = Told + 1 /\ Told < AuthLimit
        /\ expiry' = IF Told = 0 THEN Window ELSE expiry
    BY <1>1, <1>2, <1>3, <1>5 DEF Told
  <2>2. PICK r, u : /\ Half(r, Told, expiry) /\ Half(u, Held(e), LeftOf(e))
                    /\ \A i \in 0 .. Window : p[i] = r[i] + u[i]
    BY <1>1 DEF Splits
  <2>3. Half(More(r), Told', expiry') /\ Half(r, Told', expiry')
    BY <1>1, <2>1, <2>2, HalfMore
  <2>4. CASE passed' = passed
    <3>1. q = p
      BY <2>4 DEF AuthRecent
    <3> QED
      BY <1>4, <2>2, <2>3, <3>1 DEF Splits
  <2>5. CASE passed' = OneMore(passed)
    <3>1. passed' \in [1 .. Window -> Nat] /\ Bumped(passed, passed', Window)
      BY <1>1, <2>5 DEF OneMore, Bumped
    <3>2. Sums(q, passed', Window)
      BY <3>1, PassedSumsNext
    <3>3. Window \in Nat /\ Sums(p, passed, Window)
      BY <1>1
    <3> HIDE DEF p, q
    <3>4. \A i \in 1 .. Window : q[i] = p[i] + 1
      BY <3>1, <3>2, <3>3, SumsBump
    <3>5. q[0] = 0 /\ p[0] = 0
      BY <3>2, <3>3 DEF Sums
    <3>6. ASSUME NEW i \in 0 .. Window PROVE q[i] = More(r)[i] + u[i]
      <4>1. r \in [0 .. Window -> Nat] /\ u \in [0 .. Window -> Nat] /\ r[0] = 0 /\ u[0] = 0
        BY <2>2 DEF Half
      <4>2. More(r)[i] = IF i = 0 THEN 0 ELSE r[i] + 1
        BY DEF More
      <4>3. p[i] = r[i] + u[i] /\ r[i] \in Nat /\ u[i] \in Nat
        BY <2>2, <4>1
      <4>4. CASE i = 0
        <5>1. q[i] = 0 /\ More(r)[i] = 0 /\ u[i] = 0
          BY <3>5, <4>1, <4>2, <4>4
        <5> QED
          BY <5>1
      <4>5. CASE i \in 1 .. Window
        <5>1. q[i] = p[i] + 1 /\ More(r)[i] = r[i] + 1
          BY <3>4, <4>2, <4>5
        <5> QED
          BY <4>3, <5>1
      <4> QED
        BY <3>3, <4>4, <4>5
    <3>7. Splits(q, Told', expiry', e)
      BY <2>2, <2>3, <3>6 DEF Splits
    <3> QED
      BY <1>4, <3>7 DEF q
  <2>6. tries' <= AuthLimit
    BY <1>1, <1>2, <1>3, <1>5
  <2> QED
    BY <2>4, <2>5, <2>6
<1>6. CASE tries >= AuthLimit
  <2>1. tries' > AuthLimit /\ Told' = Told /\ expiry' = expiry
    BY <1>1, <1>2, <1>3, <1>6 DEF Told
  <2>2. passed' = passed
    BY <1>1, <1>2, <2>1, <1>3, <1>6
  <2>3. q = p
    BY <2>2 DEF AuthRecent
  <2> QED
    BY <1>1, <1>4, <2>1, <2>3
<1> QED
  BY <1>1, <1>2, <1>5, <1>6

LEMMA FallbackSplits ==
  ASSUME AttemptsInv, NEW c \in Clients, ByFallback(c)
  PROVE  Splits(AuthRecent', Told, expiry, entry'[Watched])
<1> DEFINE evicted(S) == [d \in Clients |-> IF d \in S THEN entry[d] ELSE NoEntry]
           left(S) == IF Watched \in Forgotten(S) THEN [i \in 1 .. Window |-> 0] ELSE passed
<1>1. PICK S \in SUBSET Tracked :
        /\ Kept(S)
        /\ entry' = [evicted(S) EXCEPT ![c] = Checked(@)]
        /\ passed' = IF c = Watched /\ Allows(evicted(S)[c])
                       THEN OneMore(left(S)) ELSE left(S)
  BY DEF ByFallback
<1>2. /\ Told \in Nat /\ Told <= AuthLimit /\ expiry \in Nat
      /\ Told > 0 => expiry \in 1 .. Window
      /\ entry[Watched] \in Entries /\ passed \in [1 .. Window -> Nat]
      /\ Sums(AuthRecent, passed, Window)
      /\ Splits(AuthRecent, Told, expiry, entry[Watched])
      /\ Window \in Nat /\ 1 \in 1 .. Window /\ Watched \in Clients
  BY Watching, AuthNumbers
<1> DEFINE a == left(S)
           e == evicted(S)[Watched]
           q == AuthRecent'
<1>3. e = IF Watched \in S THEN entry[Watched] ELSE NoEntry
  BY <1>2
<1>4. e \in Entries
  BY <1>2, <1>3, Emptied
<1>5. entry'[Watched] = IF c = Watched THEN Checked(e) ELSE e
  BY <1>1, <1>2
<1>6. a \in [1 .. Window -> Nat]
  BY <1>2
<1>7. passed' = IF c = Watched /\ Allows(e) THEN OneMore(a) ELSE a
  BY <1>1
<1>8. PICK p : Sums(p, a, Window) /\ Splits(p, Told, expiry, e)
  <2>1. CASE Watched \in Forgotten(S)
    <3>1. Watched \notin S
      BY <2>1 DEF Forgotten
    <3>2. PICK p : Sums(p, a, Window)
      BY <1>2, <1>6, SumsExist
    <3>3. \A i \in 1 .. Window : a[i] = 0
      BY <2>1
    <3> HIDE DEF a
    <3>4. p \in [0 .. Window -> {0}]
      BY <1>2, <3>2, <3>3, SumsNone
    <3>5. Held(NoEntry) = 0 /\ LeftOf(NoEntry) = 0
      BY DEF NoEntry, Over, Held, LeftOf
    <3>6. Half(p, Told, expiry)
      BY <1>2, <3>4, HalfNone
    <3>7. Half(p, 0, 0)
      BY <3>4, HalfNone
    <3>8. \A i \in 0 .. Window : p[i] = p[i] + p[i]
      BY <3>4
    <3>9. Splits(p, Told, expiry, NoEntry)
      BY <3>5, <3>6, <3>7, <3>8 DEF Splits
    <3> QED
      BY <1>3, <3>1, <3>2, <3>9
  <2>2. CASE Watched \notin Forgotten(S)
    <3>1. Held(e) = Held(entry[Watched]) /\ LeftOf(e) = LeftOf(entry[Watched])
      <4>1. CASE Watched \in S
        BY <1>3, <4>1
      <4>2. CASE Watched \notin S
        <5>1. Watched \notin Current
          BY <1>1, <2>2, <4>2, AuthNumbers DEF Kept, Forgotten, Current
        <5>2. /\ entry[Watched].count \in 0 .. AuthLimit
              /\ entry[Watched].age \in 0 .. Window /\ AuthLimit \in Nat
          BY <1>2, AuthNumbers DEF Entries
        <5>3. Over(entry[Watched])
          BY <1>2, <5>1, <5>2 DEF Current, Tracked, Over
        <5>4. Over(NoEntry) /\ e = NoEntry
          BY <1>3, <4>2 DEF NoEntry, Over
        <5> QED
          BY <5>3, <5>4 DEF Held, LeftOf
      <4> QED
        BY <4>1, <4>2
    <3>2. a = passed
      BY <2>2
    <3>3. Splits(AuthRecent, Told, expiry, e)
      BY <1>2, <3>1 DEF Splits
    <3> QED
      BY <1>2, <3>2, <3>3
  <2> QED
    BY <2>1, <2>2
<1> HIDE DEF a, e
<1>9. PICK r, u : /\ Half(r, Told, expiry) /\ Half(u, Held(e), LeftOf(e))
                  /\ \A i \in 0 .. Window : p[i] = r[i] + u[i]
  BY <1>8 DEF Splits
<1>10. Half(IF Allows(e) THEN More(u) ELSE u,
            Held(Checked(e)), LeftOf(Checked(e)))
  BY <1>4, <1>9, CheckedHalf
<1>11. CASE c = Watched /\ Allows(e)
  <2>1. passed' \in [1 .. Window -> Nat] /\ Bumped(a, passed', Window)
    BY <1>2, <1>6, <1>7, <1>11 DEF OneMore, Bumped
  <2>2. Sums(q, passed', Window)
    BY <2>1, PassedSumsNext
  <2> HIDE DEF q
  <2>3. \A i \in 1 .. Window : q[i] = p[i] + 1
    BY <1>2, <1>8, <2>1, <2>2, SumsBump
  <2>4. q[0] = 0 /\ p[0] = 0
    BY <1>8, <2>2 DEF Sums
  <2>5. ASSUME NEW i \in 0 .. Window PROVE q[i] = r[i] + More(u)[i]
    <3>1. r \in [0 .. Window -> Nat] /\ u \in [0 .. Window -> Nat] /\ r[0] = 0 /\ u[0] = 0
      BY <1>9 DEF Half
    <3>2. More(u)[i] = IF i = 0 THEN 0 ELSE u[i] + 1
      BY DEF More
    <3>3. p[i] = r[i] + u[i] /\ r[i] \in Nat /\ u[i] \in Nat
      BY <1>9, <3>1
    <3>4. CASE i = 0
      <4>1. q[i] = 0 /\ r[i] = 0 /\ More(u)[i] = 0
        BY <2>4, <3>1, <3>2, <3>4
      <4> QED
        BY <4>1
    <3>5. CASE i \in 1 .. Window
      <4>1. q[i] = p[i] + 1 /\ More(u)[i] = u[i] + 1
        BY <2>3, <3>2, <3>5
      <4> QED
        BY <3>3, <4>1
    <3> QED
      BY <1>2, <3>4, <3>5
  <2>6. Splits(q, Told, expiry, Checked(e))
    BY <1>9, <1>10, <1>11, <2>5 DEF Splits
  <2> QED
    BY <1>5, <1>11, <2>6 DEF q
<1>12. CASE ~ (c = Watched /\ Allows(e))
  <2>1. passed' = a
    BY <1>7, <1>12
  <2>2. Sums(q, a, Window)
    BY <1>6, <2>1, PassedSumsNext
  <2>3. q = p
    <3> HIDE DEF q
    <3> QED
      BY <1>2, <1>8, <2>2, SumsSame
  <2>4. CASE c = Watched
    <3>1. Splits(p, Told, expiry, Checked(e))
      BY <1>9, <1>10, <1>12, <2>4 DEF Splits
    <3> QED
      BY <1>5, <2>3, <2>4, <3>1
  <2>5. CASE c # Watched
    BY <1>5, <1>8, <2>3, <2>5
  <2> QED
    BY <2>4, <2>5
<1> QED
  BY <1>11, <1>12

LEMMA TickSplits ==
  ASSUME AttemptsInv, AuthTick
  PROVE  /\ tries' > 0 <=> expiry' > 0
         /\ Splits(AuthRecent', Told', expiry', entry'[Watched])
<1>1. /\ Told \in Nat /\ Told <= AuthLimit /\ expiry \in Nat
      /\ Told > 0 => expiry \in 1 .. Window
      /\ Told = 0 => expiry = 0
      /\ entry[Watched] \in Entries /\ passed \in [1 .. Window -> Nat]
      /\ Sums(AuthRecent, passed, Window)
      /\ Splits(AuthRecent, Told, expiry, entry[Watched])
      /\ Window \in Nat \ {0} /\ AuthLimit \in Nat \ {0}
  BY Watching
<1>2. /\ tries' = IF expiry = 1 THEN 0 ELSE tries
      /\ expiry' = IF expiry > 0 THEN expiry - 1 ELSE 0
      /\ passed' = [i \in 1 .. Window |-> IF i = 1 THEN 0 ELSE passed[i - 1]]
      /\ entry'[Watched] = IF Watched \in Current
                             THEN [entry[Watched] EXCEPT !.age = @ + 1] ELSE entry[Watched]
  BY AuthNumbers DEF AuthTick
<1>3. tries \in 0 .. AuthLimit + 1 /\ (tries > 0 <=> expiry > 0)
  BY AuthTypes DEF AttemptsInv
<1>4. /\ tries' > 0 <=> expiry' > 0
      /\ Told' = IF expiry = 1 THEN 0 ELSE Told
      /\ expiry' = IF expiry > 0 THEN expiry - 1 ELSE expiry
  BY <1>1, <1>2, <1>3 DEF Told
<1> DEFINE p == AuthRecent
           q == AuthRecent'
           e == entry[Watched]
           f == entry'[Watched]
<1>5. /\ Held(f) = IF LeftOf(e) = 1 THEN 0 ELSE Held(e)
      /\ LeftOf(f) = IF LeftOf(e) > 0 THEN LeftOf(e) - 1 ELSE LeftOf(e)
  <2>1. /\ e.count \in 0 .. AuthLimit /\ e.age \in 0 .. Window
        /\ AuthLimit \in Nat /\ Window \in Nat /\ Watched \in Clients
    BY <1>1, AuthNumbers DEF Entries
  <2>2. Watched \in Current <=> ~ Over(e)
    BY <2>1 DEF Current, Tracked, Over
  <2>3. CASE Over(e)
    <3>1. f = e /\ Held(e) = 0 /\ LeftOf(e) = 0
      BY <1>2, <2>2, <2>3 DEF Held, LeftOf
    <3> QED
      BY <3>1
  <2>4. CASE ~ Over(e)
    <3>1. f = [e EXCEPT !.age = e.age + 1] /\ Held(e) = e.count /\ LeftOf(e) = Window - e.age
      BY <1>2, <2>2, <2>4 DEF Held, LeftOf
    <3>2. f.age = e.age + 1 /\ f.count = e.count
      BY <1>1, <3>1 DEF Entries
    <3>3. e.count # 0 /\ e.age < Window
      BY <2>1, <2>4 DEF Over
    <3>4. Over(f) <=> LeftOf(e) = 1
      BY <2>1, <3>1, <3>2, <3>3 DEF Over
    <3>5. CASE LeftOf(e) = 1
      BY <3>4, <3>5 DEF Held, LeftOf
    <3>6. CASE LeftOf(e) # 1
      <4>1. Held(f) = f.count /\ LeftOf(f) = Window - f.age
        BY <3>4, <3>6 DEF Held, LeftOf
      <4>2. LeftOf(e) > 0 /\ Window - (e.age + 1) = (Window - e.age) - 1
        BY <2>1, <3>1, <3>3
      <4> QED
        BY <3>1, <3>2, <3>6, <4>1, <4>2
    <3> QED
      BY <3>5, <3>6
  <2> QED
    BY <2>3, <2>4
<1>6. passed' \in [1 .. Window -> Nat] /\ Shifted(passed, passed', Window)
  BY <1>1, <1>2 DEF Shifted
<1>7. Sums(q, passed', Window) /\ Sums(p, passed, Window) /\ Window \in Nat
  BY <1>1, <1>6, PassedSumsNext
<1>8. PICK r, u : /\ Half(r, Told, expiry) /\ Half(u, Held(e), LeftOf(e))
                  /\ \A i \in 0 .. Window : p[i] = r[i] + u[i]
  BY <1>1 DEF Splits
<1> HIDE DEF p, q, f
<1>9. \A i \in 1 .. Window : q[i] = p[i - 1]
  BY <1>6, <1>7, SumsShift
<1>10. Half(Later(r), Told', expiry')
  <2>1. Half(Later(r), IF expiry = 1 THEN 0 ELSE Told, IF expiry > 0 THEN expiry - 1 ELSE expiry)
    BY <1>1, <1>8, HalfLater
  <2> QED
    BY <1>4, <2>1
<1>11. Half(Later(u), Held(f), LeftOf(f))
  <2>1. /\ Held(e) \in Nat /\ Held(e) <= AuthLimit /\ LeftOf(e) \in Nat
        /\ Held(e) > 0 => LeftOf(e) \in 1 .. Window
    BY <1>1, EntryNumbers
  <2>2. Half(Later(u), IF LeftOf(e) = 1 THEN 0 ELSE Held(e),
             IF LeftOf(e) > 0 THEN LeftOf(e) - 1 ELSE LeftOf(e))
    BY <1>8, <2>1, HalfLater
  <2> QED
    BY <1>5, <2>2
<1>12. ASSUME NEW i \in 0 .. Window PROVE q[i] = Later(r)[i] + Later(u)[i]
  <2>1. /\ Later(r)[i] = IF i = 0 THEN 0 ELSE r[i - 1]
        /\ Later(u)[i] = IF i = 0 THEN 0 ELSE u[i - 1]
    BY DEF Later
  <2>2. CASE i = 0
    <3>1. q[0] = 0
      BY <1>7 DEF Sums
    <3> QED
      BY <2>1, <2>2, <3>1
  <2>3. CASE i \in 1 .. Window
    <3>1. i - 1 \in 0 .. Window /\ q[i] = p[i - 1]
      BY <1>7, <1>9, <2>3
    <3>2. p[i - 1] = r[i - 1] + u[i - 1]
      BY <1>8, <3>1
    <3> QED
      BY <2>1, <2>3, <3>1, <3>2
  <2> QED
    BY <1>7, <2>2, <2>3
<1>13. Splits(q, Told', expiry', f)
  BY <1>10, <1>11, <1>12 DEF Splits
<1> QED
  BY <1>4, <1>13 DEF q, f

LEMMA EmptySplits ==
  ASSUME NEW c \in Nat, NEW x \in Nat, c > 0 => x \in 1 .. Window,
         NEW p, NEW a, Sums(p, a, Window), \A i \in 1 .. Window : a[i] = 0
  PROVE  Splits(p, c, x, NoEntry)
<1>1. Window \in Nat
  BY AuthNumbers
<1>2. p \in [0 .. Window -> {0}]
  BY <1>1, SumsNone
<1>3. Held(NoEntry) = 0 /\ LeftOf(NoEntry) = 0
  BY DEF NoEntry, Over, Held, LeftOf
<1>4. Half(p, c, x)
  BY <1>2, HalfNone
<1>5. Half(p, 0, 0)
  BY <1>2, HalfNone
<1>6. \A i \in 0 .. Window : p[i] = p[i] + p[i]
  BY <1>2
<1> QED
  BY <1>3, <1>4, <1>5, <1>6 DEF Splits

LEMMA RestartSplits ==
  ASSUME AttemptsInv, Restart
  PROVE  Splits(AuthRecent', Told, expiry, entry'[Watched])
<1>1. /\ Told \in Nat /\ expiry \in Nat
      /\ Told > 0 => expiry \in 1 .. Window
      /\ Watched \in Clients
  BY Watching, AuthNumbers
<1>2. passed' = [i \in 1 .. Window |-> 0] /\ entry'[Watched] = NoEntry
  BY <1>1 DEF Restart
<1>3. /\ Sums(AuthRecent', passed', Window)
      /\ \A i \in 1 .. Window : passed'[i] = 0
  BY <1>2, PassedSumsNext
<1> QED
  BY <1>1, <1>2, <1>3, EmptySplits

LEMMA StepAttempts == AttemptsInv /\ [AuthNext]_authVars => AttemptsInv'
<1> SUFFICES ASSUME AttemptsInv, [AuthNext]_authVars PROVE AttemptsInv'
  OBVIOUS
<1>1. AuthTypeOK'
  BY AuthStepTypes DEF AttemptsInv
<1>2. /\ tries > 0 <=> expiry > 0
      /\ Splits(AuthRecent, Told, expiry, entry[Watched]) /\ Watched \in Clients
  BY AuthNumbers DEF AttemptsInv
<1>3. /\ tries' > 0 <=> expiry' > 0
      /\ Splits(AuthRecent', Told', expiry', entry'[Watched])
  <2>1. CASE AuthTick
    BY <2>1, TickSplits
  <2>2. CASE Restart \/ \E c \in Clients : ByFallback(c)
    <3>1. tries' = tries /\ expiry' = expiry
      BY <2>2 DEF Restart, ByFallback, redis
    <3>2. Told' = Told
      BY <3>1 DEF Told
    <3>3. Splits(AuthRecent', Told, expiry, entry'[Watched])
      BY <2>2, RestartSplits, FallbackSplits
    <3> QED
      BY <1>2, <3>1, <3>2, <3>3
  <2>3. CASE ByRedis
    <3>1. /\ AuthScript /\ entry' = entry
          /\ passed' = IF tries' <= AuthLimit THEN OneMore(passed) ELSE passed
      BY <2>3 DEF ByRedis
    <3> QED
      BY <3>1, ScriptSplits
  <2>4. ASSUME NEW c \in Clients, RedisFails(c)
        PROVE  /\ tries' > 0 <=> expiry' > 0
               /\ Splits(AuthRecent', Told', expiry', entry'[Watched])
    <3>1. /\ AuthScript \/ UNCHANGED <<tries, expiry>>
          /\ entry' = entry /\ passed' = passed
      BY <2>4 DEF RedisFails, redis
    <3>2. CASE AuthScript
      BY <3>1, <3>2, ScriptSplits
    <3>3. CASE UNCHANGED <<tries, expiry>>
      <4>1. Told' = Told /\ AuthRecent' = AuthRecent
        BY <3>1, <3>3 DEF Told, AuthRecent
      <4> QED
        BY <1>2, <3>1, <3>3, <4>1
    <3> QED
      BY <3>1, <3>2, <3>3
  <2>5. CASE UNCHANGED authVars
    <3>1. tries' = tries /\ expiry' = expiry /\ entry' = entry /\ passed' = passed
      BY <2>5 DEF authVars, redis
    <3>2. Told' = Told /\ AuthRecent' = AuthRecent
      BY <3>1 DEF Told, AuthRecent
    <3> QED
      BY <1>2, <3>1, <3>2
  <2> QED
    BY <2>1, <2>2, <2>3, <2>4, <2>5 DEF AuthNext
<1> QED
  BY <1>1, <1>3 DEF AttemptsInv

(* Whichever calls to Redis fail and whenever, a client is let through in a     *)
(* period as long as the window no more often than by both limiters side by    *)
(* side, each at most twice its limit less one (check_auth_rate_limit).        *)
THEOREM AttemptsHeld == AuthSpec => []AttemptsBounded
<1>1. AuthInit => AttemptsInv
  <2> SUFFICES ASSUME AuthInit PROVE AttemptsInv
    OBVIOUS
  <2>1. /\ tries = 0 /\ expiry = 0 /\ passed = [i \in 1 .. Window |-> 0]
        /\ entry[Watched] = NoEntry /\ AuthLimit \in Nat
    BY AuthNumbers DEF AuthInit
  <2>2. Sums(AuthRecent, passed, Window) /\ \A i \in 1 .. Window : passed[i] = 0
    BY <2>1, PassedSums
  <2>3. Told = 0
    BY <2>1 DEF Told
  <2>4. Splits(AuthRecent, 0, 0, NoEntry)
    BY <2>2, EmptySplits
  <2> QED
    BY <2>1, <2>3, <2>4, InitAuth DEF AttemptsInv
<1>2. AttemptsInv => AttemptsBounded
  <2> SUFFICES ASSUME AttemptsInv PROVE AttemptsBounded
    OBVIOUS
  <2> DEFINE p == AuthRecent
             e == entry[Watched]
  <2>1. /\ Told \in Nat /\ Told <= AuthLimit /\ e \in Entries
        /\ Splits(p, Told, expiry, e)
        /\ Window \in Nat /\ Window \in 1 .. Window /\ AuthLimit \in Nat \ {0}
    BY Watching
  <2>2. PICK r, u : /\ Half(r, Told, expiry) /\ Half(u, Held(e), LeftOf(e))
                    /\ \A i \in 0 .. Window : p[i] = r[i] + u[i]
    BY <2>1 DEF Splits
  <2>3. Held(e) \in Nat /\ Held(e) <= AuthLimit
    BY <2>1, EntryNumbers
  <2>4. /\ r \in [0 .. Window -> Nat] /\ Within(r, Told, expiry, Window, AuthLimit)
        /\ u \in [0 .. Window -> Nat] /\ Within(u, Held(e), LeftOf(e), Window, AuthLimit)
    BY <2>2 DEF Half
  <2>5. r[Window] <= 2 * AuthLimit - 1
    BY <2>1, <2>4, WithinBound
  <2>6. u[Window] <= 2 * AuthLimit - 1
    BY <2>1, <2>3, <2>4, WithinBound
  <2>7. p[Window] = r[Window] + u[Window] /\ r[Window] \in Nat /\ u[Window] \in Nat
    BY <2>1, <2>2, <2>4
  <2> HIDE DEF p
  <2>8. p[Window] <= 2 * (2 * AuthLimit - 1)
    BY <2>1, <2>5, <2>6, <2>7
  <2> QED
    BY <2>8 DEF p, AttemptsBounded
<1> QED
  BY <1>1, <1>2, StepAttempts, PTL DEF AuthSpec

===============================================================================
