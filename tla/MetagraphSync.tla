---------------------------- MODULE MetagraphSync ----------------------------
(***************************************************************************)
(* MetagraphManager: the background loop that refreshes the metagraph of   *)
(* every subnet, whose blocking calls run on a thread pool and are given   *)
(* up, but not stopped, after a timeout; MinerSelector, which routes on    *)
(* what the loop left and caches its list of eligible miners; the startup  *)
(* check and the shutdown of main.lifespan.                                *)
(*                                                                         *)
(* A metagraph is the version of the chain it was read at; time is counted *)
(* in ticks.                                                               *)
(***************************************************************************)
EXTENDS Naturals, SequencesExt

CONSTANTS
  Order,      \* the registered subnets, in the order of enabled_subnets
  Workers,    \* threads of the pool (max_workers)
  Timeout,    \* _sync_timeout
  Interval,   \* _sync_interval
  Staleness,  \* staleness_threshold
  MaxCall,    \* bound: ticks a call that returns takes at most
  Hanging,    \* subnets whose calls may never return
  MayFail,    \* calls may raise
  MaxHead,    \* bound: versions of a metagraph on the chain
  None

Subnets == ToSet(Order)

(* A call in the pool: its subnet, what it will return, how long it has run, and *)
(* whether its result is still awaited.                                        *)
Calls == [net : Subnets, seen : 1 .. MaxHead, ran : 0 .. MaxCall, waited : BOOLEAN]

(* The subnets are the keys of a dictionary. *)
ASSUME ConstantsOK ==
  /\ Order \in Seq(Subnets) /\ IsInjective(Order)
  /\ Timeout \in Nat \ {0} /\ Interval \in Nat \ {0} /\ Staleness \in Nat
  /\ MaxCall \in Nat /\ MaxHead \in Nat \ {0}
  /\ Hanging \subseteq Subnets /\ MayFail \in BOOLEAN
  /\ None \notin Calls

VARIABLES
  phase,    \* of the process: "starting", "serving", "failed" or "stopped"
  syncing,  \* a round of sync_all is awaited; otherwise the loop sleeps
  timer,    \* time since the round or the sleep began
  pending,  \* subnets whose call the round still awaits
  queue,    \* calls submitted to the pool and not begun
  worker,   \* worker[w]: the call thread w runs, or None
  head,     \* head[s]: version of the metagraph on the chain
  graph,    \* graph[s]: version held in the state of s, 0 for none
  age,      \* age[s]: time since last_sync_mono, at most Staleness + 1
  failing,  \* failing[s]: consecutive_failures is not 0
  cache,    \* cache[s]: version the selector's list was built from, 0 for none
  fresh,    \* fresh[s]: the list carries the present sync_generation
  picked    \* picked[s]: version that routed the last request, and version held
            \* at the time (history)

round == <<syncing, timer, pending>>
chain == <<queue, worker, head>>
state == <<graph, age, failing>>
routing == <<cache, fresh, picked>>
vars == <<phase, round, chain, state, routing>>

(* The type of every variable. *)
TypeOK ==
  /\ phase \in {"starting", "serving", "failed", "stopped"}
  /\ syncing \in BOOLEAN
  /\ timer \in 0 .. (IF syncing THEN Timeout ELSE Interval)
  /\ pending \subseteq Subnets
  /\ queue \in Seq(Subnets)
  /\ worker \in [Workers -> Calls \cup {None}]
  /\ head \in [Subnets -> 1 .. MaxHead] /\ graph \in [Subnets -> 0 .. MaxHead]
  /\ age \in [Subnets -> 0 .. Staleness + 1]
  /\ failing \in [Subnets -> BOOLEAN]
  /\ cache \in [Subnets -> 0 .. MaxHead] /\ fresh \in [Subnets -> BOOLEAN]
  /\ picked \in [Subnets -> (0 .. MaxHead) \X (0 .. MaxHead)]

(* start awaits a first round. *)
Init ==
  /\ phase = "starting"
  /\ syncing = TRUE /\ timer = 0
  /\ pending = Subnets /\ queue = Order
  /\ worker = [w \in Workers |-> None]
  /\ head = [s \in Subnets |-> 1] /\ graph = [s \in Subnets |-> 0]
  /\ age = [s \in Subnets |-> Staleness + 1]
  /\ failing = [s \in Subnets |-> FALSE]
  /\ cache = [s \in Subnets |-> 0] /\ fresh = [s \in Subnets |-> FALSE]
  /\ picked = [s \in Subnets |-> <<0, 0>>]

Idle(w) == worker[w] = None
Serves(w, s) == ~ Idle(w) /\ worker[w].net = s /\ worker[w].waited

-------------------------------------------------------------------------------
(* The thread pool *)

(* A thread takes the oldest call; what it will return is read from the chain. *)
Begin(w) ==
  /\ Idle(w) /\ queue # <<>>
  /\ worker' = [worker EXCEPT ![w] = [net |-> Head(queue), seen |-> head[Head(queue)],
                                      ran |-> 0, waited |-> TRUE]]
  /\ queue' = Tail(queue)
  /\ UNCHANGED <<phase, round, head, state, routing>>

(* Mutant of Synced: sync_generation stays what it was. *)
SyncedSameGeneration(s, version) ==
  /\ graph' = [graph EXCEPT ![s] = version]
  /\ age' = [age EXCEPT ![s] = 0]
  /\ failing' = [failing EXCEPT ![s] = FALSE]
  /\ UNCHANGED fresh

(* The metagraph replaces the one held, with a new sync_generation. *)
Synced(s, version) ==
  /\ graph' = [graph EXCEPT ![s] = version]
  /\ age' = [age EXCEPT ![s] = 0]
  /\ failing' = [failing EXCEPT ![s] = FALSE]
  /\ fresh' = [fresh EXCEPT ![s] = FALSE]

(* Mutant of Return: the result of a call given up is used all the same. *)
ReturnLate(w) ==
  /\ ~ Idle(w)
  /\ Synced(worker[w].net, worker[w].seen)
  /\ pending' = IF worker[w].waited THEN pending \ {worker[w].net} ELSE pending
  /\ worker' = [worker EXCEPT ![w] = None]
  /\ UNCHANGED <<phase, syncing, timer, queue, head, cache, picked>>

(* The call returns; wait_for has dropped the future of one it gave up. *)
Return(w) ==
  /\ ~ Idle(w)
  /\ LET c == worker[w]
     IN IF c.waited
          THEN /\ Synced(c.net, c.seen)
               /\ pending' = pending \ {c.net}
          ELSE UNCHANGED <<pending, state, fresh>>
  /\ worker' = [worker EXCEPT ![w] = None]
  /\ UNCHANGED <<phase, syncing, timer, queue, head, cache, picked>>

(* The call raises: the metagraph held before stays. *)
Raise(w) ==
  /\ MayFail /\ ~ Idle(w)
  /\ LET c == worker[w]
     IN IF c.waited
          THEN /\ failing' = [failing EXCEPT ![c.net] = TRUE]
               /\ pending' = pending \ {c.net}
          ELSE UNCHANGED <<pending, failing>>
  /\ worker' = [worker EXCEPT ![w] = None]
  /\ UNCHANGED <<phase, syncing, timer, queue, head, graph, age, routing>>

(* A call that has not begun leaves the queue. *)
Withdraw(s) ==
  IF s \in ToSet(queue)
    THEN \E i \in 1 .. Len(queue) : queue[i] = s /\ queue' = RemoveAt(queue, i)
    ELSE UNCHANGED queue

(* Mutant of TimeOut: a timeout is not counted as a failure. *)
TimeOutSilently(s) ==
  /\ s \in pending /\ timer = Timeout
  /\ pending' = pending \ {s}
  /\ Withdraw(s)
  /\ worker' = [w \in Workers |->
       IF Serves(w, s) THEN [worker[w] EXCEPT !.waited = FALSE] ELSE worker[w]]
  /\ UNCHANGED <<phase, syncing, timer, head, state, routing>>

(* Mutant of TimeOut: a call that runs is waited for. *)
TimeOutWaits(s) ==
  /\ s \in pending /\ timer = Timeout
  /\ \A w \in Workers : ~ Serves(w, s)
  /\ failing' = [failing EXCEPT ![s] = TRUE]
  /\ pending' = pending \ {s}
  /\ Withdraw(s)
  /\ UNCHANGED <<phase, syncing, timer, worker, head, graph, age, routing>>

(* wait_for gives the call up: one not begun leaves the queue, one that runs   *)
(* keeps its thread.                                                           *)
TimeOut(s) ==
  /\ s \in pending /\ timer = Timeout
  /\ failing' = [failing EXCEPT ![s] = TRUE]
  /\ pending' = pending \ {s}
  /\ Withdraw(s)
  /\ worker' = [w \in Workers |->
       IF Serves(w, s) THEN [worker[w] EXCEPT !.waited = FALSE] ELSE worker[w]]
  /\ UNCHANGED <<phase, syncing, timer, head, graph, age, routing>>

-------------------------------------------------------------------------------
(* The loop, startup and shutdown *)

(* sync_all returns.  At startup every subnet must have a metagraph by now;    *)
(* otherwise the manager is stopped and the process does not start.            *)
EndRound ==
  /\ syncing /\ pending = {}
  /\ syncing' = FALSE /\ timer' = 0
  /\ phase' = IF phase = "starting" /\ \E s \in Subnets : graph[s] = 0
                THEN "failed" ELSE "serving"
  /\ UNCHANGED <<pending, chain, state, routing>>

(* Mutant of StartRound: the timeout is counted from the end of the last round. *)
StartRoundLateClock ==
  /\ phase = "serving" /\ ~ syncing /\ timer = Interval
  /\ syncing' = TRUE
  /\ pending' = Subnets /\ queue' = queue \o Order
  /\ UNCHANGED <<phase, timer, worker, head, state, routing>>

StartRound ==
  /\ phase = "serving" /\ ~ syncing /\ timer = Interval
  /\ syncing' = TRUE /\ timer' = 0
  /\ pending' = Subnets /\ queue' = queue \o Order
  /\ UNCHANGED <<phase, worker, head, state, routing>>

(* The loop is cancelled and the calls not begun are dropped; threads run on.  *)
Stop ==
  /\ phase = "serving"
  /\ phase' = "stopped"
  /\ syncing' = FALSE /\ timer' = 0
  /\ pending' = {} /\ queue' = <<>>
  /\ worker' = [w \in Workers |->
       IF Idle(w) THEN None ELSE [worker[w] EXCEPT !.waited = FALSE]]
  /\ UNCHANGED <<head, state, routing>>

-------------------------------------------------------------------------------
(* Requests, the chain and time *)

(* select_miner: the list is built anew unless it carries the generation of    *)
(* the state; is_stale is not looked at.                                       *)
Select(s) ==
  /\ phase = "serving" /\ graph[s] # 0
  /\ LET used == IF fresh[s] THEN cache[s] ELSE graph[s]
     IN /\ cache' = [cache EXCEPT ![s] = used]
        /\ picked' = [picked EXCEPT ![s] = <<used, graph[s]>>]
  /\ fresh' = [fresh EXCEPT ![s] = TRUE]
  /\ UNCHANGED <<phase, round, chain, state>>

Epoch(s) ==
  /\ head[s] < MaxHead
  /\ head' = [head EXCEPT ![s] = @ + 1]
  /\ UNCHANGED <<phase, round, queue, worker, state, routing>>

(* A call has run as long as one that returns can. *)
Overdue(w) == ~ Idle(w) /\ worker[w].ran = MaxCall

(* Nothing that is due is waiting: threads and the event loop are prompt. *)
Quiet ==
  /\ queue # <<>> => \A w \in Workers : ~ Idle(w)
  /\ \A w \in Workers : Overdue(w) => worker[w].net \in Hanging
  /\ IF syncing THEN pending # {} /\ timer < Timeout
     ELSE phase = "serving" => timer < Interval

Tick ==
  /\ phase \in {"starting", "serving"} /\ Quiet
  /\ timer' = timer + 1
  /\ age' = [s \in Subnets |-> IF age[s] > Staleness THEN age[s] ELSE age[s] + 1]
  /\ worker' = [w \in Workers |->
       IF Idle(w) \/ Overdue(w) THEN worker[w] ELSE [worker[w] EXCEPT !.ran = @ + 1]]
  /\ UNCHANGED <<phase, syncing, pending, queue, head, graph, failing, routing>>

Pool == \E w \in Workers : Begin(w) \/ Return(w) \/ Raise(w)

Next ==
  \/ Pool \/ EndRound \/ StartRound \/ Stop \/ Tick
  \/ \E s \in Subnets : TimeOut(s) \/ Select(s) \/ Epoch(s)

(* Time passes, the event loop runs what is due, and threads go on; a call     *)
(* that returns does so when it is overdue (Quiet).                            *)
Fairness ==
  /\ WF_vars(Tick) /\ WF_vars(EndRound) /\ WF_vars(StartRound)
  /\ \A s \in Subnets : WF_vars(TimeOut(s))
  /\ \A w \in Workers :
       /\ WF_vars(Begin(w))
       /\ WF_vars(Overdue(w) /\ worker[w].net \notin Hanging /\ (Return(w) \/ Raise(w)))

Spec == Init /\ [][Next]_vars /\ Fairness

-------------------------------------------------------------------------------
(* Properties *)

(* A subnet's metagraph is never replaced by an older one, though the calls    *)
(* that were given up return long after newer ones (_sync_subnet).             *)
NeverOlder == [][\A s \in Subnets : graph'[s] >= graph[s]]_vars

(* A request is routed on the metagraph held when it is routed: the cached     *)
(* list of eligible miners is never that of an earlier one (select_miner).     *)
RoutedOnPresent == \A s \in Subnets : picked[s][1] = picked[s][2]

(* A process that serves has a metagraph of every subnet, and none goes stale  *)
(* in silence: when one is older than the staleness threshold its              *)
(* consecutive_failures say so (lifespan, select_miner, is_stale).             *)
NoSilentStaleness ==
  phase = "serving" =>
    \A s \in Subnets : graph[s] # 0 /\ (age[s] > Staleness => failing[s])

(* As long as the process serves, round follows round, and each asks for every *)
(* subnet: no call, not even one that never returns and keeps its thread, holds *)
(* up the loop (sync_all, _sync_loop).                                         *)
RoundsGoOn ==
  \A s \in Subnets : []<>(s \in pending \/ phase \in {"failed", "stopped"})
===============================================================================
