-------------------------- MODULE MetagraphSyncProofs --------------------------
(***************************************************************************)
(* Proofs about MetagraphSync, for any subnets, threads, timeout and       *)
(* interval, and for calls that fail or never return.                      *)
(***************************************************************************)
EXTENDS MetagraphSync, Integers, TLAPS

(* What waits for a thread is awaited, once, and not already running. *)
QueueInv ==
  /\ \A i \in 1 .. Len(queue) :
       queue[i] \in pending /\ \A w \in Workers : ~ Serves(w, queue[i])
  /\ \A i, j \in 1 .. Len(queue) : queue[i] = queue[j] => i = j

(* A call whose result is awaited is the only one of its subnet, and will       *)
(* return a version that is not older than the one held.                       *)
CallInv ==
  /\ \A w \in Workers, s \in Subnets : Serves(w, s) =>
       s \in pending /\ graph[s] <= worker[w].seen /\ worker[w].seen <= head[s]
  /\ \A w, v \in Workers, s \in Subnets : Serves(w, s) /\ Serves(v, s) => w = v
  /\ \A s \in Subnets : graph[s] <= head[s]

(* Between rounds nothing is awaited; a process that serves has every metagraph. *)
PhaseInv ==
  /\ phase = "starting" => syncing
  /\ phase \in {"failed", "stopped"} => ~ syncing
  /\ ~ syncing => pending = {} /\ queue = <<>>
  /\ phase = "serving" => \A s \in Subnets : graph[s] # 0

(* A list of the present generation was built from the metagraph held. *)
RouteInv == RoutedOnPresent /\ \A s \in Subnets : fresh[s] => cache[s] = graph[s]

(* The age of a metagraph whose last call did not fail: the last round got it,  *)
(* or this one did.                                                            *)
Allowed(s) ==
  IF ~ syncing THEN Timeout + timer
  ELSE IF s \in pending THEN Timeout + Interval + timer
  ELSE timer

AgeInv ==
  phase \in {"starting", "serving"} =>
    \A s \in Subnets : graph[s] # 0 /\ ~ failing[s] => age[s] <= Allowed(s)

SyncInv == TypeOK /\ QueueInv /\ CallInv /\ PhaseInv /\ RouteInv /\ AgeInv

LEMMA Bounds ==
  /\ Timeout \in Nat /\ Timeout >= 1 /\ Interval \in Nat /\ Interval >= 1
  /\ Staleness \in Nat /\ MaxCall \in Nat /\ MaxHead \in Nat /\ MaxHead >= 1
  /\ Order \in Seq(Subnets) /\ None \notin Calls
  /\ \A i, j \in 1 .. Len(Order) : Order[i] = Order[j] => i = j
  /\ \A i \in 1 .. Len(Order) : Order[i] \in Subnets
<1>1. Order \in Seq(Subnets) /\ DOMAIN Order = 1 .. Len(Order)
  BY ConstantsOK
<1> QED
  BY <1>1, ConstantsOK DEF IsInjective

(* A thread with a call. *)
LEMMA OfCall ==
  ASSUME TypeOK, NEW w \in Workers, ~ Idle(w)
  PROVE  /\ worker[w] \in Calls /\ worker[w].net \in Subnets /\ worker[w].seen \in 1 .. MaxHead
         /\ worker[w].ran \in 0 .. MaxCall /\ worker[w].waited \in BOOLEAN
<1>1. worker[w] \in Calls
  BY DEF TypeOK, Idle
<1> QED
  BY <1>1 DEF Calls

(* The numbers kept of a subnet. *)
LEMMA OfSubnet ==
  ASSUME TypeOK, NEW s \in Subnets
  PROVE  /\ graph[s] \in 0 .. MaxHead /\ graph[s] \in Nat
         /\ head[s] \in 1 .. MaxHead /\ head[s] \in Nat
         /\ age[s] \in 0 .. Staleness + 1 /\ age[s] \in Nat
         /\ timer \in Nat
<1>1. graph[s] \in 0 .. MaxHead /\ head[s] \in 1 .. MaxHead /\ age[s] \in 0 .. Staleness + 1
  BY DEF TypeOK
<1>2. timer \in 0 .. Timeout \/ timer \in 0 .. Interval
  BY DEF TypeOK
<1> QED
  BY <1>1, <1>2, Bounds

(* A queue without one of its elements. *)
LEMMA RemoveAtIs ==
  ASSUME NEW S, NEW q \in Seq(S), NEW i \in 1 .. Len(q)
  PROVE  /\ RemoveAt(q, i) \in Seq(S) /\ Len(RemoveAt(q, i)) = Len(q) - 1
         /\ \A j \in 1 .. Len(q) - 1 : RemoveAt(q, i)[j] = IF j < i THEN q[j] ELSE q[j + 1]
<1>1. Len(q) \in Nat
  OBVIOUS
<1>2. /\ SubSeq(q, 1, i - 1) \in Seq(S) /\ Len(SubSeq(q, 1, i - 1)) = i - 1
      /\ \A j \in 1 .. i - 1 : SubSeq(q, 1, i - 1)[j] = q[j]
  BY <1>1
<1>3. /\ SubSeq(q, i + 1, Len(q)) \in Seq(S) /\ Len(SubSeq(q, i + 1, Len(q))) = Len(q) - i
      /\ \A j \in 1 .. Len(q) - i : SubSeq(q, i + 1, Len(q))[j] = q[i + j]
  BY <1>1
<1> DEFINE a == SubSeq(q, 1, i - 1)
           b == SubSeq(q, i + 1, Len(q))
<1>4. RemoveAt(q, i) = a \o b
  BY DEF RemoveAt
<1> HIDE DEF a, b
<1>5. a \in Seq(S) /\ b \in Seq(S) /\ Len(a) = i - 1 /\ Len(b) = Len(q) - i
      /\ (\A j \in 1 .. i - 1 : a[j] = q[j]) /\ (\A j \in 1 .. Len(q) - i : b[j] = q[i + j])
  BY <1>2, <1>3 DEF a, b
<1>6. a \o b \in Seq(S) /\ Len(a \o b) = Len(q) - 1
  BY <1>1, <1>5
<1>7. \A j \in 1 .. Len(q) - 1 : (a \o b)[j] = IF j < i THEN q[j] ELSE q[j + 1]
  <2> TAKE j \in 1 .. Len(q) - 1
  <2>1. CASE j < i
    BY <1>1, <1>5, <2>1
  <2>2. CASE ~ (j < i)
    <3>1. (a \o b)[j] = b[j - (i - 1)]
      BY <1>1, <1>5, <2>2
    <3>2. j - (i - 1) \in 1 .. Len(q) - i /\ i + (j - (i - 1)) = j + 1
      BY <1>1, <2>2
    <3>3. b[j - (i - 1)] = q[i + (j - (i - 1))]
      BY <1>5, <3>2
    <3> QED
      BY <3>1, <3>2, <3>3, <2>2
  <2> QED
    BY <2>1, <2>2
<1> QED
  BY <1>4, <1>6, <1>7

(* Withdraw leaves the other calls in their places, and none of s. *)
LEMMA Withdrawn ==
  ASSUME SyncInv, NEW s, Withdraw(s)
  PROVE  /\ queue' \in Seq(Subnets)
         /\ \A i \in 1 .. Len(queue') : queue'[i] # s /\ \E j \in 1 .. Len(queue) : queue'[i] = queue[j]
         /\ \A i, j \in 1 .. Len(queue') : queue'[i] = queue'[j] => i = j
<1>1. /\ queue \in Seq(Subnets) /\ Len(queue) \in Nat /\ DOMAIN queue = 1 .. Len(queue)
      /\ \A i, j \in 1 .. Len(queue) : queue[i] = queue[j] => i = j
  BY DEF SyncInv, TypeOK, QueueInv
<1>2. CASE s \notin ToSet(queue)
  BY <1>1, <1>2 DEF Withdraw, ToSet
<1>3. CASE s \in ToSet(queue)
  <2>1. PICK k \in 1 .. Len(queue) : queue[k] = s /\ queue' = RemoveAt(queue, k)
    BY <1>3 DEF Withdraw
  <2>2. /\ queue' \in Seq(Subnets) /\ Len(queue') = Len(queue) - 1
        /\ \A j \in 1 .. Len(queue) - 1 : queue'[j] = IF j < k THEN queue[j] ELSE queue[j + 1]
    BY <1>1, <2>1, RemoveAtIs
  <2>3. ASSUME NEW i \in 1 .. Len(queue')
        PROVE  queue'[i] # s /\ \E j \in 1 .. Len(queue) : queue'[i] = queue[j]
    <3>1. CASE i < k
      BY <1>1, <2>1, <2>2, <3>1
    <3>2. CASE ~ (i < k)
      <4>1. i + 1 \in 1 .. Len(queue) /\ i + 1 # k /\ queue'[i] = queue[i + 1]
        BY <1>1, <2>2, <3>2
      <4> QED
        BY <1>1, <2>1, <4>1
    <3> QED
      BY <3>1, <3>2
  <2>4. ASSUME NEW i \in 1 .. Len(queue'), NEW j \in 1 .. Len(queue'), queue'[i] = queue'[j]
        PROVE  i = j
    <3> DEFINE at(n) == IF n < k THEN n ELSE n + 1
    <3>1. at(i) \in 1 .. Len(queue) /\ at(j) \in 1 .. Len(queue)
      BY <1>1, <2>2
    <3>2. queue'[i] = queue[at(i)] /\ queue'[j] = queue[at(j)]
      BY <2>2
    <3>3. at(i) = at(j)
      BY <1>1, <2>4, <3>1, <3>2
    <3> QED
      BY <1>1, <2>2, <3>3
  <2> QED
    BY <2>2, <2>3, <2>4
<1> QED
  BY <1>2, <1>3

LEMMA InitSync == Init => SyncInv
<1> SUFFICES ASSUME Init PROVE SyncInv
  OBVIOUS
<1>1. /\ 0 \in 0 .. MaxHead /\ 1 \in 1 .. MaxHead /\ 0 \in 0 .. Timeout
      /\ Staleness + 1 \in 0 .. Staleness + 1 /\ <<0, 0>>[1] = <<0, 0>>[2]
      /\ <<0, 0>> \in (0 .. MaxHead) \X (0 .. MaxHead)
  BY Bounds
<1>2. TypeOK
  BY <1>1, Bounds DEF Init, TypeOK
<1>3. QueueInv
  BY Bounds DEF Init, QueueInv, Serves, Idle
<1>4. CallInv
  BY DEF Init, CallInv, Serves, Idle
<1>5. PhaseInv /\ RouteInv /\ AgeInv
  BY <1>1 DEF Init, PhaseInv, RouteInv, RoutedOnPresent, AgeInv
<1> QED
  BY <1>2, <1>3, <1>4, <1>5 DEF SyncInv
-------------------------------------------------------------------------------
(* The thread pool. *)

LEMMA BeginKeeps == ASSUME SyncInv, NEW w \in Workers, Begin(w) PROVE SyncInv'
<1> DEFINE s == Head(queue)
           c == [net |-> s, seen |-> head[s], ran |-> 0, waited |-> TRUE]
<1>1. /\ Idle(w) /\ queue # <<>> /\ worker' = [worker EXCEPT ![w] = c] /\ queue' = Tail(queue)
      /\ UNCHANGED <<phase, syncing, timer, pending, head, graph, age, failing, cache, fresh, picked>>
  BY DEF Begin, round, state, routing
<1>2. /\ queue \in Seq(Subnets) /\ Len(queue) \in Nat /\ Len(queue) >= 1
      /\ s = queue[1] /\ s \in Subnets
      /\ queue' \in Seq(Subnets) /\ Len(queue') = Len(queue) - 1
      /\ \A i \in 1 .. Len(queue) - 1 : queue'[i] = queue[i + 1]
  BY <1>1 DEF SyncInv, TypeOK
<1>3. c \in Calls
  BY <1>2, Bounds DEF SyncInv, TypeOK, Calls
<1>4. /\ worker' \in [Workers -> Calls \cup {None}] /\ worker'[w] = c
      /\ \A v \in Workers : v # w => worker'[v] = worker[v]
      /\ c # None
  BY <1>1, <1>3, Bounds DEF SyncInv, TypeOK
<1>5. TypeOK'
  BY <1>1, <1>2, <1>4 DEF SyncInv, TypeOK
<1>6. s \in pending /\ \A v \in Workers : ~ Serves(v, s)
  BY <1>2 DEF SyncInv, QueueInv
<1>7. \A v \in Workers, u \in Subnets :
        Serves(v, u)' <=> (IF v = w THEN u = s ELSE Serves(v, u))
  <2>1. c.net = s /\ c.waited = TRUE
    OBVIOUS
  <2> HIDE DEF c
  <2> QED
    BY <1>4, <2>1 DEF Serves, Idle
<1>8. \A u \in Subnets : ~ Serves(w, u)
  BY <1>1 DEF Serves
<1>9. QueueInv'
  <2>1. ASSUME NEW i \in 1 .. Len(queue')
        PROVE  queue'[i] \in pending /\ \A v \in Workers : ~ Serves(v, queue[i])'
    <3>1. i + 1 \in 1 .. Len(queue) /\ queue'[i] = queue[i + 1] /\ queue'[i] \in Subnets
      BY <1>2
    <3>2. queue'[i] \in pending /\ queue'[i] # s /\ \A v \in Workers : ~ Serves(v, queue'[i])
      BY <1>2, <3>1 DEF SyncInv, QueueInv
    <3>3. \A v \in Workers : Serves(v, queue[i])' <=> (IF v = w THEN queue'[i] = s
                                                       ELSE Serves(v, queue'[i]))
      BY <1>7, <3>1 DEF Serves
    <3> QED
      BY <3>2, <3>3
  <2>2. ASSUME NEW i \in 1 .. Len(queue'), NEW j \in 1 .. Len(queue'), queue'[i] = queue'[j]
        PROVE  i = j
    <3>1. i + 1 \in 1 .. Len(queue) /\ j + 1 \in 1 .. Len(queue) /\ queue[i + 1] = queue[j + 1]
      BY <1>2, <2>2
    <3> QED
      BY <3>1, <1>2 DEF SyncInv, QueueInv
  <2> QED
    BY <1>1, <2>1, <2>2 DEF QueueInv
<1>10. CallInv'
  <2>1. c.seen = head[s]
    OBVIOUS
  <2> HIDE DEF c
  <2>2. head[s] \in Nat /\ graph[s] <= head[s]
    BY <1>2 DEF SyncInv, TypeOK, CallInv
  <2> QED
    BY <1>1, <1>4, <1>6, <1>7, <2>1, <2>2 DEF SyncInv, CallInv
<1>11. PhaseInv'
  BY <1>1 DEF SyncInv, PhaseInv
<1>12. RouteInv' /\ AgeInv'
  BY <1>1 DEF SyncInv, RouteInv, RoutedOnPresent, AgeInv, Allowed
<1> QED
  BY <1>5, <1>9, <1>10, <1>11, <1>12 DEF SyncInv

(* A call that ends: an awaited one is answered and no longer awaited, another  *)
(* leaves everything but its thread alone.                                     *)
LEMMA EndedCall ==
  ASSUME SyncInv, NEW w \in Workers, ~ Idle(w), worker' = [worker EXCEPT ![w] = None],
         UNCHANGED <<phase, syncing, timer, queue, head>>,
         pending' = IF worker[w].waited THEN pending \ {worker[w].net} ELSE pending,
         graph' \in [Subnets -> 0 .. MaxHead],
         \A s \in Subnets : s # worker[w].net => graph'[s] = graph[s],
         graph'[worker[w].net] <= head[worker[w].net],
         ~ worker[w].waited => graph' = graph,
         \A s \in Subnets : graph[s] # 0 => graph'[s] # 0
  PROVE  /\ worker' \in [Workers -> Calls \cup {None}] /\ pending' \subseteq Subnets
         /\ QueueInv' /\ CallInv' /\ PhaseInv'
<1> DEFINE n == worker[w].net
<1>1. /\ worker' \in [Workers -> Calls \cup {None}] /\ worker'[w] = None
      /\ \A v \in Workers : v # w => worker'[v] = worker[v]
      /\ pending' \subseteq Subnets /\ n \in Subnets
  BY OfCall DEF SyncInv, TypeOK
<1>2. \A v \in Workers : \A u : Serves(v, u)' <=> v # w /\ Serves(v, u)
  BY <1>1 DEF Serves, Idle
<1>3. worker[w].waited => Serves(w, n)
  BY DEF Serves
<1>4. \A s \in pending : s \notin pending' => worker[w].waited /\ s = n
  OBVIOUS
<1>5. QueueInv'
  <2>1. ASSUME NEW i \in 1 .. Len(queue) PROVE queue[i] \in pending'
    BY <1>3, <1>4 DEF SyncInv, QueueInv
  <2>2. ASSUME NEW i \in 1 .. Len(queue), NEW v \in Workers PROVE ~ Serves(v, queue[i])'
    <3>1. ~ Serves(v, queue[i])
      BY DEF SyncInv, QueueInv
    <3> QED
      BY <1>1, <3>1 DEF Serves, Idle
  <2> QED
    BY <2>1, <2>2 DEF SyncInv, QueueInv
<1>6. CallInv'
  <2>1. ASSUME NEW v \in Workers, NEW u \in Subnets, Serves(v, u)'
        PROVE  u \in pending' /\ graph'[u] <= worker'[v].seen /\ worker'[v].seen <= head[u]
    <3>1. v # w /\ Serves(v, u) /\ worker'[v] = worker[v]
      BY <1>1, <1>2, <2>1
    <3>2. CASE worker[w].waited
      <4>1. u # n
        BY <1>1, <1>3, <3>1, <3>2 DEF SyncInv, CallInv
      <4> QED
        BY <1>4, <3>1, <4>1 DEF SyncInv, CallInv
    <3>3. CASE ~ worker[w].waited
      BY <3>1, <3>3 DEF SyncInv, CallInv
    <3> QED
      BY <3>2, <3>3
  <2>2. \A s \in Subnets : graph'[s] <= head[s]
    BY DEF SyncInv, CallInv
  <2> QED
    BY <1>2, <2>1, <2>2 DEF SyncInv, CallInv
<1>7. PhaseInv'
  BY DEF SyncInv, PhaseInv
<1> QED
  BY <1>1, <1>5, <1>6, <1>7

LEMMA ReturnKeeps ==
  ASSUME SyncInv, NEW w \in Workers, Return(w)
  PROVE  SyncInv' /\ \A s \in Subnets : graph'[s] >= graph[s]
<1> DEFINE c == worker[w]
           n == worker[w].net
<1>1. /\ ~ Idle(w) /\ worker' = [worker EXCEPT ![w] = None] /\ TypeOK
      /\ UNCHANGED <<phase, syncing, timer, queue, head, cache, picked>>
      /\ c.net \in Subnets /\ c.seen \in 1 .. MaxHead /\ c.waited \in BOOLEAN
  BY OfCall DEF Return, SyncInv
<1>2. /\ graph \in [Subnets -> 0 .. MaxHead] /\ \A s \in Subnets : graph[s] \in Nat
      /\ \A s \in Subnets : head[s] \in Nat
  BY <1>1, OfSubnet DEF TypeOK
<1>3. CASE c.waited
  <2>1. /\ graph' = [graph EXCEPT ![n] = c.seen] /\ age' = [age EXCEPT ![n] = 0]
        /\ failing' = [failing EXCEPT ![n] = FALSE] /\ fresh' = [fresh EXCEPT ![n] = FALSE]
        /\ pending' = pending \ {n}
    BY <1>3 DEF Return, Synced
  <2>2. /\ graph' \in [Subnets -> 0 .. MaxHead] /\ graph'[n] = c.seen
        /\ \A s \in Subnets : s # n => graph'[s] = graph[s]
    BY <1>1, <1>2, <2>1, Bounds
  <2>3. graph[n] <= c.seen /\ c.seen <= head[n] /\ n \in pending
    BY <1>1, <1>3 DEF SyncInv, CallInv, Serves
  <2>4. c.seen \in Nat /\ c.seen >= 1
    BY <1>1, Bounds
  <2>5. /\ worker' \in [Workers -> Calls \cup {None}] /\ pending' \subseteq Subnets
        /\ QueueInv' /\ CallInv' /\ PhaseInv'
    <3>1. \A s \in Subnets : graph[s] # 0 => graph'[s] # 0
      BY <2>2, <2>4
    <3> QED
      BY <1>1, <1>3, <2>1, <2>2, <2>3, <3>1, EndedCall
  <2>6. /\ age' \in [Subnets -> 0 .. Staleness + 1] /\ failing' \in [Subnets -> BOOLEAN]
        /\ fresh' \in [Subnets -> BOOLEAN]
        /\ age'[n] = 0 /\ failing'[n] = FALSE /\ fresh'[n] = FALSE
        /\ \A s \in Subnets : s # n =>
             age'[s] = age[s] /\ failing'[s] = failing[s] /\ fresh'[s] = fresh[s]
    BY <1>1, <2>1, Bounds DEF TypeOK
  <2>7. TypeOK'
    BY <1>1, <2>2, <2>5, <2>6 DEF TypeOK
  <2>8. RouteInv'
    BY <1>1, <2>2, <2>6 DEF SyncInv, RouteInv, RoutedOnPresent
  <2>9. AgeInv'
    <3> SUFFICES ASSUME phase \in {"starting", "serving"}, NEW s \in Subnets,
                        graph'[s] # 0, ~ failing'[s]
                 PROVE  age'[s] <= Allowed(s)'
      BY <1>1 DEF AgeInv
    <3>1. timer \in Nat /\ Timeout \in Nat /\ Interval \in Nat
      BY <1>1, Bounds DEF TypeOK
    <3>2. CASE s = n
      BY <1>1, <2>6, <3>1, <3>2 DEF Allowed
    <3>3. CASE s # n
      <4>1. age[s] <= Allowed(s)
        BY <2>2, <2>6, <3>3 DEF SyncInv, AgeInv
      <4> QED
        BY <1>1, <2>1, <2>6, <3>3, <4>1 DEF Allowed
    <3> QED
      BY <3>2, <3>3
  <2>10. \A s \in Subnets : graph'[s] >= graph[s]
    BY <1>2, <2>2, <2>3
  <2> QED
    BY <2>5, <2>7, <2>8, <2>9, <2>10 DEF SyncInv
<1>4. CASE ~ c.waited
  <2>1. UNCHANGED <<pending, graph, age, failing, fresh>>
    BY <1>4 DEF Return, state
  <2>2. /\ worker' \in [Workers -> Calls \cup {None}] /\ pending' \subseteq Subnets
        /\ QueueInv' /\ CallInv' /\ PhaseInv'
    <3>1. graph[n] <= head[n]
      BY <1>1 DEF SyncInv, CallInv
    <3> QED
      BY <1>1, <1>2, <1>4, <2>1, <3>1, EndedCall
  <2>3. TypeOK'
    BY <1>1, <2>1, <2>2 DEF TypeOK
  <2>4. RouteInv' /\ AgeInv'
    BY <1>1, <2>1 DEF SyncInv, RouteInv, RoutedOnPresent, AgeInv, Allowed
  <2> QED
    BY <1>2, <2>1, <2>2, <2>3, <2>4 DEF SyncInv
<1> QED
  BY <1>1, <1>3, <1>4
LEMMA RaiseKeeps == ASSUME SyncInv, NEW w \in Workers, Raise(w) PROVE SyncInv'
<1> DEFINE c == worker[w]
           n == worker[w].net
<1>1. /\ ~ Idle(w) /\ worker' = [worker EXCEPT ![w] = None] /\ TypeOK
      /\ UNCHANGED <<phase, syncing, timer, queue, head, graph, age, cache, fresh, picked>>
      /\ c.net \in Subnets /\ c.waited \in BOOLEAN
  BY OfCall DEF Raise, SyncInv, routing
<1>2. /\ graph \in [Subnets -> 0 .. MaxHead] /\ graph[n] <= head[n]
  BY <1>1 DEF TypeOK, SyncInv, CallInv
<1>3. /\ failing' \in [Subnets -> BOOLEAN]
      /\ \A s \in Subnets : failing'[s] = (failing[s] \/ (s = n /\ c.waited))
      /\ pending' = IF c.waited THEN pending \ {n} ELSE pending
  <2>1. failing \in [Subnets -> BOOLEAN] /\ n = c.net
    BY <1>1 DEF TypeOK
  <2>2. CASE c.waited
    <3>1. failing' = [failing EXCEPT ![n] = TRUE] /\ pending' = pending \ {n}
      BY <2>2 DEF Raise
    <3> HIDE DEF c
    <3> QED
      BY <2>1, <2>2, <3>1
  <2>3. CASE ~ c.waited
    <3>1. failing' = failing /\ pending' = pending
      BY <2>3 DEF Raise
    <3> QED
      BY <1>1, <2>1, <2>3, <3>1
  <2> QED
    BY <1>1, <2>2, <2>3
<1>4. /\ worker' \in [Workers -> Calls \cup {None}] /\ pending' \subseteq Subnets
      /\ QueueInv' /\ CallInv' /\ PhaseInv'
  BY <1>1, <1>2, <1>3, EndedCall
<1>5. TypeOK'
  BY <1>1, <1>3, <1>4 DEF TypeOK
<1>6. RouteInv'
  BY <1>1 DEF SyncInv, RouteInv, RoutedOnPresent
<1>7. AgeInv'
  BY <1>1, <1>3 DEF SyncInv, AgeInv, Allowed
<1> QED
  BY <1>4, <1>5, <1>6, <1>7 DEF SyncInv

LEMMA TimeOutKeeps == ASSUME SyncInv, NEW s \in Subnets, TimeOut(s) PROVE SyncInv'
<1>1. /\ s \in pending /\ pending' = pending \ {s} /\ Withdraw(s) /\ TypeOK
      /\ failing' = [failing EXCEPT ![s] = TRUE]
      /\ worker' = [w \in Workers |->
           IF Serves(w, s) THEN [worker[w] EXCEPT !.waited = FALSE] ELSE worker[w]]
      /\ UNCHANGED <<phase, syncing, timer, head, graph, age, cache, fresh, picked>>
  BY DEF TimeOut, SyncInv, routing
<1>2. /\ failing' \in [Subnets -> BOOLEAN] /\ failing'[s] = TRUE
      /\ \A u \in Subnets : u # s => failing'[u] = failing[u]
  BY <1>1 DEF TypeOK
<1>3. ASSUME NEW w \in Workers
      PROVE  /\ worker'[w] \in Calls \cup {None}
             /\ \A u \in Subnets : Serves(w, u)' =>
                  u # s /\ Serves(w, u) /\ worker'[w] = worker[w]
  <2>1. CASE Serves(w, s)
    <3>1. /\ worker[w] \in Calls /\ worker'[w] = [worker[w] EXCEPT !.waited = FALSE]
      BY <1>1, <2>1, OfCall DEF Serves
    <3>2. worker'[w] \in Calls /\ worker'[w].waited = FALSE
      BY <3>1 DEF Calls
    <3> QED
      BY <3>2 DEF Serves
  <2>2. CASE ~ Serves(w, s)
    <3>1. worker'[w] = worker[w]
      BY <1>1, <2>2
    <3> QED
      BY <1>1, <2>2, <3>1 DEF Serves, Idle, TypeOK
  <2> QED
    BY <2>1, <2>2
<1>4. worker' \in [Workers -> Calls \cup {None}]
  <2>1. worker' = [w \in Workers |-> worker'[w]]
    BY <1>1
  <2> QED
    BY <1>3, <2>1
<1>5. /\ queue' \in Seq(Subnets)
      /\ \A i \in 1 .. Len(queue') :
           queue'[i] # s /\ \E j \in 1 .. Len(queue) : queue'[i] = queue[j]
      /\ \A i, j \in 1 .. Len(queue') : queue'[i] = queue'[j] => i = j
  BY <1>1, Withdrawn
<1>6. TypeOK'
  BY <1>1, <1>2, <1>4, <1>5 DEF TypeOK
<1>7. QueueInv'
  <2> SUFFICES ASSUME NEW i \in 1 .. Len(queue')
               PROVE  queue'[i] \in pending' /\ \A w \in Workers : ~ Serves(w, queue[i])'
    BY <1>5 DEF QueueInv
  <2>1. PICK j \in 1 .. Len(queue) : queue'[i] = queue[j]
    BY <1>5
  <2>2. queue[j] \in pending /\ queue[j] # s /\ \A w \in Workers : ~ Serves(w, queue[j])
    BY <1>5, <2>1 DEF SyncInv, QueueInv
  <2>3. queue[j] \in Subnets
    BY <1>1, <2>2 DEF TypeOK
  <2>4. \A w \in Workers : Serves(w, queue[i])' => Serves(w, queue[j])
    BY <1>3, <2>1, <2>3 DEF Serves
  <2> QED
    BY <1>1, <2>1, <2>2, <2>4
<1>8. CallInv'
  BY <1>1, <1>3 DEF SyncInv, CallInv
<1>9. PhaseInv'
  BY <1>1 DEF SyncInv, PhaseInv
<1>10. RouteInv'
  BY <1>1 DEF SyncInv, RouteInv, RoutedOnPresent
<1>11. AgeInv'
  BY <1>1, <1>2 DEF SyncInv, AgeInv, Allowed
<1> QED
  BY <1>6, <1>7, <1>8, <1>9, <1>10, <1>11 DEF SyncInv
-------------------------------------------------------------------------------
(* The loop, startup and shutdown. *)

(* With nothing awaited no call is queued, and no thread serves one. *)
LEMMA EndRoundKeeps == ASSUME SyncInv, EndRound PROVE SyncInv'
<1>1. /\ syncing /\ pending = {} /\ syncing' = FALSE /\ timer' = 0 /\ TypeOK
      /\ phase' \in {"failed", "serving"}
      /\ phase' = "serving" =>
           phase # "starting" \/ \A s \in Subnets : graph[s] # 0
      /\ UNCHANGED <<pending, queue, worker, head, graph, age, failing, cache, fresh, picked>>
  BY DEF EndRound, SyncInv, chain, state, routing
<1>2. queue \in Seq(Subnets) /\ Len(queue) \in Nat
  BY <1>1 DEF TypeOK
<1>3. queue = <<>>
  <2>1. ~ (1 \in 1 .. Len(queue))
    BY <1>1 DEF SyncInv, QueueInv
  <2> QED
    BY <1>2, <2>1
<1>4. TypeOK'
  <2>1. 0 \in 0 .. Interval
    BY Bounds
  <2> QED
    BY <1>1, <2>1 DEF TypeOK
<1>5. QueueInv' /\ CallInv'
  BY <1>1 DEF SyncInv, QueueInv, CallInv, Serves, Idle
<1>6. PhaseInv'
  BY <1>1, <1>3 DEF SyncInv, PhaseInv, TypeOK
<1>7. RouteInv'
  BY <1>1 DEF SyncInv, RouteInv, RoutedOnPresent
<1>8. AgeInv'
  <2> SUFFICES ASSUME phase' = "serving", NEW s \in Subnets, graph[s] # 0, ~ failing[s]
               PROVE  age[s] <= Timeout
    BY <1>1, Bounds DEF AgeInv, Allowed
  <2>1. timer \in 0 .. Timeout
    BY <1>1 DEF TypeOK
  <2>2. phase \in {"starting", "serving"}
    BY <1>1 DEF SyncInv, PhaseInv, TypeOK
  <2>3. age[s] <= timer
    BY <1>1, <2>2 DEF SyncInv, AgeInv, Allowed
  <2> QED
    BY <1>1, <2>1, <2>3, OfSubnet, Bounds
<1> QED
  BY <1>4, <1>5, <1>6, <1>7, <1>8 DEF SyncInv

LEMMA StartRoundKeeps == ASSUME SyncInv, StartRound PROVE SyncInv'
<1>1. /\ phase = "serving" /\ ~ syncing /\ timer = Interval /\ TypeOK
      /\ syncing' = TRUE /\ timer' = 0 /\ pending' = Subnets /\ queue' = queue \o Order
      /\ UNCHANGED <<phase, worker, head, graph, age, failing, cache, fresh, picked>>
  BY DEF StartRound, SyncInv, state, routing
<1>2. pending = {} /\ queue = <<>>
  BY <1>1 DEF SyncInv, PhaseInv
<1>3. queue' = Order
  BY <1>1, <1>2, Bounds
<1>4. \A w \in Workers, s \in Subnets : ~ Serves(w, s)
  BY <1>2 DEF SyncInv, CallInv
<1>5. TypeOK'
  BY <1>1, <1>3, Bounds DEF TypeOK
<1>6. QueueInv'
  BY <1>1, <1>3, <1>4, Bounds DEF QueueInv, Serves, Idle
<1>7. CallInv'
  BY <1>1, <1>4 DEF SyncInv, CallInv, Serves, Idle
<1>8. PhaseInv'
  BY <1>1 DEF SyncInv, PhaseInv
<1>9. RouteInv'
  BY <1>1 DEF SyncInv, RouteInv, RoutedOnPresent
<1>10. AgeInv'
  BY <1>1, OfSubnet, Bounds DEF SyncInv, AgeInv, Allowed
<1> QED
  BY <1>5, <1>6, <1>7, <1>8, <1>9, <1>10 DEF SyncInv

LEMMA StopKeeps == ASSUME SyncInv, Stop PROVE SyncInv'
<1>1. /\ phase' = "stopped" /\ syncing' = FALSE /\ timer' = 0 /\ pending' = {} /\ queue' = <<>>
      /\ worker' = [w \in Workers |->
           IF Idle(w) THEN None ELSE [worker[w] EXCEPT !.waited = FALSE]]
      /\ UNCHANGED <<head, graph, age, failing, cache, fresh, picked>> /\ TypeOK
  BY DEF Stop, SyncInv, state, routing
<1>2. ASSUME NEW w \in Workers
      PROVE  worker'[w] \in Calls \cup {None} /\ \A s : ~ Serves(w, s)'
  <2>1. CASE Idle(w)
    BY <1>1, <2>1 DEF Serves, Idle
  <2>2. CASE ~ Idle(w)
    <3>1. worker[w] \in Calls /\ worker'[w] = [worker[w] EXCEPT !.waited = FALSE]
      BY <1>1, <2>2, OfCall
    <3>2. worker'[w] \in Calls /\ worker'[w].waited = FALSE
      BY <3>1 DEF Calls
    <3> QED
      BY <3>2 DEF Serves
  <2> QED
    BY <2>1, <2>2
<1>3. worker' \in [Workers -> Calls \cup {None}]
  <2>1. worker' = [w \in Workers |-> worker'[w]]
    BY <1>1
  <2> QED
    BY <1>2, <2>1
<1>4. TypeOK'
  <2>1. 0 \in 0 .. Interval /\ <<>> \in Seq(Subnets)
    BY Bounds
  <2> QED
    BY <1>1, <1>3, <2>1 DEF TypeOK
<1>5. QueueInv'
  BY <1>1 DEF QueueInv
<1>6. CallInv'
  BY <1>1, <1>2 DEF SyncInv, CallInv
<1>7. PhaseInv' /\ AgeInv'
  BY <1>1 DEF PhaseInv, AgeInv
<1>8. RouteInv'
  BY <1>1 DEF SyncInv, RouteInv, RoutedOnPresent
<1> QED
  BY <1>4, <1>5, <1>6, <1>7, <1>8 DEF SyncInv

-------------------------------------------------------------------------------
(* Requests, the chain and time. *)

LEMMA SelectKeeps == ASSUME SyncInv, NEW s \in Subnets, Select(s) PROVE SyncInv'
<1> DEFINE used == IF fresh[s] THEN cache[s] ELSE graph[s]
<1>1. /\ cache' = [cache EXCEPT ![s] = used]
      /\ picked' = [picked EXCEPT ![s] = <<used, graph[s]>>]
      /\ fresh' = [fresh EXCEPT ![s] = TRUE] /\ TypeOK
      /\ UNCHANGED <<phase, syncing, timer, pending, queue, worker, head, graph, age, failing>>
  BY DEF Select, SyncInv, round, chain, state
<1>2. used = graph[s] /\ graph[s] \in 0 .. MaxHead
  BY <1>1, OfSubnet DEF SyncInv, RouteInv
<1> HIDE DEF used
<1>3. TypeOK'
  BY <1>1, <1>2 DEF TypeOK
<1>4. QueueInv' /\ CallInv'
  BY <1>1 DEF SyncInv, QueueInv, CallInv, Serves, Idle
<1>5. PhaseInv' /\ AgeInv'
  BY <1>1 DEF SyncInv, PhaseInv, AgeInv, Allowed
<1>6. RouteInv'
  BY <1>1, <1>2 DEF SyncInv, RouteInv, RoutedOnPresent, TypeOK
<1> QED
  BY <1>3, <1>4, <1>5, <1>6 DEF SyncInv

LEMMA EpochKeeps == ASSUME SyncInv, NEW s \in Subnets, Epoch(s) PROVE SyncInv'
<1>1. /\ head[s] < MaxHead /\ head' = [head EXCEPT ![s] = head[s] + 1] /\ TypeOK
      /\ UNCHANGED <<phase, syncing, timer, pending, queue, worker, graph, age, failing,
                     cache, fresh, picked>>
  BY DEF Epoch, SyncInv, round, state, routing
<1>2. head' \in [Subnets -> 1 .. MaxHead] /\ \A u \in Subnets : head[u] <= head'[u]
  <2>1. head[s] + 1 \in 1 .. MaxHead /\ \A u \in Subnets : head[u] \in Nat
    BY <1>1, OfSubnet, Bounds
  <2>2. head \in [Subnets -> 1 .. MaxHead]
    BY <1>1 DEF TypeOK
  <2> QED
    BY <1>1, <2>1, <2>2
<1>3. \A u \in Subnets : head'[u] \in Nat
  BY <1>2, Bounds
<1>4. TypeOK'
  BY <1>1, <1>2 DEF TypeOK
<1>5. QueueInv' /\ PhaseInv' /\ RouteInv' /\ AgeInv'
  BY <1>1 DEF SyncInv, QueueInv, PhaseInv, RouteInv, RoutedOnPresent, AgeInv, Allowed, Serves, Idle
<1>6. CallInv'
  <2>1. ASSUME NEW w \in Workers, NEW u \in Subnets, Serves(w, u)
        PROVE  worker[w].seen <= head'[u]
    <3>1. worker[w].seen \in 1 .. MaxHead /\ worker[w].seen <= head[u]
      BY <1>1, <2>1, OfCall DEF SyncInv, CallInv, Serves
    <3> QED
      BY <1>1, <1>2, <1>3, <3>1, OfSubnet, Bounds
  <2>2. \A u \in Subnets : graph[u] <= head'[u]
    BY <1>1, <1>2, <1>3, OfSubnet DEF SyncInv, CallInv
  <2> QED
    BY <1>1, <2>1, <2>2 DEF SyncInv, CallInv, Serves, Idle
<1> QED
  BY <1>4, <1>5, <1>6 DEF SyncInv

(* Time passes for calls and metagraphs alike. *)
LEMMA TickKeeps == ASSUME SyncInv, Tick PROVE SyncInv'
<1>1. /\ phase \in {"starting", "serving"} /\ Quiet /\ timer' = timer + 1 /\ TypeOK
      /\ age' = [s \in Subnets |-> IF age[s] > Staleness THEN age[s] ELSE age[s] + 1]
      /\ worker' = [w \in Workers |->
           IF Idle(w) \/ Overdue(w) THEN worker[w] ELSE [worker[w] EXCEPT !.ran = worker[w].ran + 1]]
      /\ UNCHANGED <<phase, syncing, pending, queue, head, graph, failing, cache, fresh, picked>>
  BY DEF Tick, SyncInv, routing
<1>2. timer \in Nat /\ timer' \in 0 .. (IF syncing THEN Timeout ELSE Interval)
  <2>1. timer \in 0 .. (IF syncing THEN Timeout ELSE Interval) /\ syncing \in BOOLEAN
    BY <1>1 DEF TypeOK
  <2>2. CASE syncing
    BY <1>1, <2>1, <2>2, Bounds DEF Quiet
  <2>3. CASE ~ syncing
    <3>1. phase = "serving" /\ timer < Interval
      BY <1>1, <2>3 DEF Quiet, SyncInv, PhaseInv
    <3> QED
      BY <1>1, <2>1, <2>3, <3>1, Bounds
  <2> QED
    BY <2>1, <2>2, <2>3
<1>3. ASSUME NEW w \in Workers
      PROVE  /\ worker'[w] \in Calls \cup {None}
             /\ Idle(w)' <=> Idle(w)
             /\ ~ Idle(w) => /\ worker'[w].net = worker[w].net
                             /\ worker'[w].seen = worker[w].seen
                             /\ worker'[w].waited = worker[w].waited
  <2>1. CASE Idle(w) \/ Overdue(w)
    <3>1. worker'[w] = worker[w]
      BY <1>1, <2>1
    <3> QED
      BY <1>1, <3>1 DEF Idle, TypeOK
  <2>2. CASE ~ (Idle(w) \/ Overdue(w))
    <3>1. worker'[w] = [worker[w] EXCEPT !.ran = worker[w].ran + 1] /\ worker[w] \in Calls
      BY <1>1, <2>2, OfCall
    <3>2. worker[w].ran + 1 \in 0 .. MaxCall
      BY <1>1, <2>2, OfCall, Bounds DEF Overdue
    <3>3. /\ worker'[w] \in Calls /\ worker'[w].net = worker[w].net
          /\ worker'[w].seen = worker[w].seen /\ worker'[w].waited = worker[w].waited
      BY <3>1, <3>2 DEF Calls
    <3> QED
      BY <2>2, <3>3, Bounds DEF Idle
  <2> QED
    BY <2>1, <2>2
<1>4. worker' \in [Workers -> Calls \cup {None}]
  <2>1. worker' = [w \in Workers |-> worker'[w]]
    BY <1>1
  <2> QED
    BY <1>3, <2>1
<1>5. \A w \in Workers : \A u :
        (Serves(w, u)' <=> Serves(w, u)) /\ (Serves(w, u) => worker'[w].seen = worker[w].seen)
  BY <1>3 DEF Serves
<1>6. /\ age' \in [Subnets -> 0 .. Staleness + 1]
      /\ \A s \in Subnets : age'[s] <= age[s] + 1 /\ age'[s] \in Nat
  <2>1. ASSUME NEW s \in Subnets
        PROVE  /\ age'[s] = IF age[s] > Staleness THEN age[s] ELSE age[s] + 1
               /\ age[s] \in 0 .. Staleness + 1
    BY <1>1, OfSubnet
  <2>2. \A s \in Subnets :
          age'[s] \in 0 .. Staleness + 1 /\ age'[s] <= age[s] + 1 /\ age'[s] \in Nat
    BY <2>1, Bounds
  <2>3. age' = [s \in Subnets |-> age'[s]]
    BY <1>1
  <2> QED
    BY <2>2, <2>3
<1>7. TypeOK'
  BY <1>1, <1>2, <1>4, <1>6 DEF TypeOK
<1>8. QueueInv'
  <2>1. \A w \in Workers : \A i : Serves(w, queue[i])' <=> Serves(w, queue[i])
    BY <1>1, <1>3 DEF Serves
  <2> QED
    BY <1>1, <2>1 DEF SyncInv, QueueInv
<1>9. CallInv'
  BY <1>1, <1>5 DEF SyncInv, CallInv
<1>10. PhaseInv' /\ RouteInv'
  BY <1>1 DEF SyncInv, PhaseInv, RouteInv, RoutedOnPresent
<1>11. AgeInv'
  <2> SUFFICES ASSUME NEW s \in Subnets, graph[s] # 0, ~ failing[s]
               PROVE  age'[s] <= Allowed(s)'
    BY <1>1 DEF AgeInv
  <2>1. age[s] <= Allowed(s)
    BY <1>1 DEF SyncInv, AgeInv
  <2>2. Allowed(s) \in Nat /\ Allowed(s)' = Allowed(s) + 1
    <3>1. Timeout \in Nat /\ Interval \in Nat
      BY Bounds
    <3> QED
      BY <1>1, <1>2, <3>1 DEF Allowed
  <2> QED
    BY <1>1, <1>6, <2>1, <2>2, OfSubnet
<1> QED
  BY <1>7, <1>8, <1>9, <1>10, <1>11 DEF SyncInv

LEMMA StepSync == SyncInv /\ [Next]_vars => SyncInv'
<1> SUFFICES ASSUME SyncInv, [Next]_vars PROVE SyncInv'
  OBVIOUS
<1>1. CASE UNCHANGED vars
  BY <1>1 DEF vars, round, chain, state, routing, SyncInv, TypeOK, QueueInv, CallInv, PhaseInv,
     RouteInv, RoutedOnPresent, AgeInv, Allowed, Serves, Idle
<1> QED
  BY <1>1, BeginKeeps, ReturnKeeps, RaiseKeeps, TimeOutKeeps, EndRoundKeeps, StartRoundKeeps,
     StopKeeps, SelectKeeps, EpochKeeps, TickKeeps DEF Next, Pool

LEMMA AlwaysSync == Spec => []SyncInv
  BY InitSync, StepSync, PTL DEF Spec

-------------------------------------------------------------------------------
(* The type invariant: among others, no round and no sleep outlasts its time. *)
THEOREM SyncTypes == Spec => []TypeOK
<1>1. SyncInv => TypeOK
  BY DEF SyncInv
<1> QED
  BY <1>1, AlwaysSync, PTL

(* However late the calls return that were given up, a subnet's metagraph is    *)
(* never replaced by an older one.                                             *)
THEOREM NeverBack == Spec => NeverOlder
<1>1. ASSUME SyncInv, [Next]_vars PROVE \A s \in Subnets : graph'[s] >= graph[s]
  <2>1. ASSUME NEW w \in Workers, Return(w) PROVE \A s \in Subnets : graph'[s] >= graph[s]
    BY <1>1, <2>1, ReturnKeeps
  <2>2. CASE graph' = graph
    BY <1>1, <2>2, OfSubnet DEF SyncInv
  <2> QED
    BY <1>1, <2>1, <2>2
    DEF Next, Pool, Begin, Raise, TimeOut, EndRound, StartRound, Stop, Select, Epoch, Tick, vars,
        state, chain
<1> QED
  BY <1>1, AlwaysSync, PTL DEF Spec, NeverOlder

(* Every request is routed on the metagraph held when it is routed. *)
THEOREM RoutedRight == Spec => []RoutedOnPresent
<1>1. SyncInv => RoutedOnPresent
  BY DEF SyncInv, RouteInv
<1> QED
  BY <1>1, AlwaysSync, PTL

(* A process that serves holds every metagraph, and one that goes stale has a   *)
(* failure count that says so, if the threshold leaves room for a round of      *)
(* timeouts on either side of a sleep: 300 s for 120 s of sleep and 30 s of     *)
(* timeout in metagraph_sync.py.                                               *)
THEOREM StalenessShows ==
  ASSUME Staleness >= Interval + 2 * Timeout
  PROVE  Spec => []NoSilentStaleness
<1>1. ASSUME SyncInv PROVE NoSilentStaleness
  <2> SUFFICES ASSUME phase = "serving", NEW s \in Subnets
               PROVE  graph[s] # 0 /\ (age[s] > Staleness => failing[s])
    BY DEF NoSilentStaleness
  <2>1. graph[s] # 0
    BY <1>1 DEF SyncInv, PhaseInv
  <2>2. CASE ~ failing[s]
    <3>1. age[s] <= Allowed(s)
      BY <1>1, <2>1, <2>2 DEF SyncInv, AgeInv
    <3>2. timer \in 0 .. (IF syncing THEN Timeout ELSE Interval)
      BY <1>1 DEF SyncInv, TypeOK
    <3>3. Allowed(s) \in Nat /\ Allowed(s) <= Staleness
      BY <3>2, Bounds DEF Allowed
    <3> QED
      BY <1>1, <2>1, <3>1, <3>3, OfSubnet, Bounds DEF SyncInv
  <2> QED
    BY <2>1, <2>2
<1> QED
  BY <1>1, AlwaysSync, PTL
===============================================================================
