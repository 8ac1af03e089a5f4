------------------------------ MODULE RedisClient ------------------------------
(***************************************************************************)
(* The process-wide Redis client of gateway/core/redis.py: coroutines that *)
(* get it, connect it under a lock, fail and reset it, and the circuit     *)
(* breaker that is meant to keep them from reconnecting to a dead Redis.   *)
(*                                                                         *)
(* A coroutine keeps the client it got over its awaits (auth.py:54 to      *)
(* 134), so it may use one that another has closed meanwhile: a command on *)
(* it opens its pool anew, and an old client lives beside the cached one   *)
(* for as long as somebody holds it.  Clients are told apart by numbers; a *)
(* number nobody refers to any more is used again.                         *)
(*                                                                         *)
(* Redis goes down and comes back as it likes.  Whatever makes a command   *)
(* raise for a reason of its own (a time-out, a reply nobody expects) is   *)
(* an outage between the command and its reply.                            *)
(***************************************************************************)
EXTENDS Integers, FiniteSets

CONSTANTS
  Callers,   \* concurrent coroutines that use Redis
  Cooldown,  \* _CIRCUIT_BREAKER_COOLDOWN
  Pool,      \* redis_max_connections
  None

ASSUME ConstantsOK ==
  /\ IsFiniteSet(Callers) /\ Callers # {}
  /\ Cooldown \in Nat \ {0}
  /\ Pool \in Nat \ {0}
  /\ None \notin Callers

VARIABLES
  up,      \* Redis answers
  client,  \* the client redis_client refers to, NoClient when it is None
  handle,  \* handle[c]: the client that coroutine c got and still uses
  stale,   \* clients with a pooled connection that an outage broke
  lock,    \* the coroutine that holds _redis_lock, or None
  since,   \* time since _last_failure_time, at most Cooldown
  pc,      \* pc[c]: where coroutine c is
  late,    \* coroutines whose client has been closed since they got it (history)
  burst    \* connections tried since the breaker last opened (history)

vars == <<up, client, handle, stale, lock, since, pc, late, burst>>

(* "sent" is a command under way, "failing" one that raises although Redis is  *)
(* up: its connection was closed under it, or the pool had none to give.       *)
PCs == {"idle", "wait", "ping", "have", "sent", "failing", "reset", "closing"}

NoClient == 0

(* Numbers for the client of every coroutine and the cached one. *)
Ids == 1 .. Cardinality(Callers) + 1

(* The type of every variable. *)
TypeOK ==
  /\ up \in BOOLEAN
  /\ client \in Ids \cup {NoClient}
  /\ handle \in [Callers -> Ids \cup {NoClient}]
  /\ stale \subseteq Ids /\ late \subseteq Callers
  /\ lock \in Callers \cup {None}
  /\ since \in 0 .. Cooldown
  /\ pc \in [Callers -> PCs]
  /\ burst \in Nat

(* _last_failure_time starts at 0 of the monotonic clock, which counts from the *)
(* host's boot: on a host just booted the breaker starts open.                  *)
Init ==
  /\ up \in BOOLEAN /\ client = NoClient /\ stale = {}
  /\ handle = [c \in Callers |-> NoClient]
  /\ lock = None
  /\ since \in 0 .. Cooldown
  /\ pc = [c \in Callers |-> "idle"]
  /\ late = {} /\ burst = 0

Open == since < Cooldown

Goto(c, p) == pc' = [pc EXCEPT ![c] = p]

Hold(c, k) == handle' = [handle EXCEPT ![c] = k] /\ late' = late \ {c}

Drop(c) == Hold(c, NoClient)

(* A caller that could not get the client gives up, or resets it first         *)
(* (try_get_redis with reset_on_failure, check_rate_limit).                    *)
GiveUp(c) == Drop(c) /\ (Goto(c, "idle") \/ Goto(c, "reset"))

-------------------------------------------------------------------------------
(* get_redis *)

GetCached(c) ==
  /\ pc[c] = "idle" /\ client # NoClient
  /\ Goto(c, "have") /\ Hold(c, client)
  /\ UNCHANGED <<up, client, stale, lock, since, burst>>

(* No client and the breaker is open: ConnectionError at once. *)
FailFast(c) ==
  /\ pc[c] = "idle" /\ client = NoClient /\ Open
  /\ GiveUp(c)
  /\ UNCHANGED <<up, client, stale, lock, since, burst>>

(* Mutant of WaitToConnect: the breaker is not looked at. *)
WaitAnyway(c) ==
  /\ pc[c] = "idle" /\ client = NoClient
  /\ Goto(c, "wait")
  /\ UNCHANGED <<up, client, handle, stale, lock, since, late, burst>>

(* No client and the breaker is closed: wait for the lock. *)
WaitToConnect(c) ==
  /\ pc[c] = "idle" /\ client = NoClient /\ ~ Open
  /\ Goto(c, "wait")
  /\ UNCHANGED <<up, client, handle, stale, lock, since, late, burst>>

(* Mutant of Acquire: the client is not looked at again under the lock. *)
AcquireBlindly(c) ==
  /\ pc[c] = "wait" /\ lock = None
  /\ Goto(c, "ping") /\ lock' = c
  /\ burst' = IF Open THEN burst + 1 ELSE burst
  /\ UNCHANGED <<up, client, handle, stale, since, late>>

(* Under the lock the client is looked at again; without one a new client is   *)
(* made and pinged.  The breaker is not looked at again.                       *)
Acquire(c) ==
  /\ pc[c] = "wait" /\ lock = None
  /\ IF client # NoClient
       THEN Goto(c, "have") /\ Hold(c, client) /\ UNCHANGED <<lock, burst>>
       ELSE /\ Goto(c, "ping") /\ lock' = c
            /\ burst' = IF Open THEN burst + 1 ELSE burst
            /\ UNCHANGED <<handle, late>>
  /\ UNCHANGED <<up, client, stale, since>>

(* Numbers that nobody refers to. *)
Unused == {k \in Ids : k # client /\ \A c \in Callers : handle[c] # k}

PingOk(c) ==
  /\ pc[c] = "ping" /\ up
  /\ \E k \in Unused :
       /\ \A j \in Unused : k <= j
       /\ client' = k /\ Hold(c, k)
       /\ stale' = stale \ {k}
  /\ Goto(c, "have")
  /\ lock' = None
  /\ UNCHANGED <<up, since, burst>>

(* The breaker opens, or opens anew. *)
PingFails(c) ==
  /\ pc[c] = "ping" /\ ~ up
  /\ since' = 0
  /\ burst' = IF Open THEN burst ELSE 0
  /\ GiveUp(c)
  /\ lock' = None
  /\ UNCHANGED <<up, client, stale>>

-------------------------------------------------------------------------------
(* Commands on the client a coroutine holds, cached or not *)

(* The pool of a client has Pool connections at most, one to a command. *)
PoolEmpty(k) == Cardinality({c \in Callers : pc[c] = "sent" /\ handle[c] = k}) >= Pool

Send(c) ==
  /\ pc[c] = "have"
  /\ Goto(c, IF PoolEmpty(handle[c]) THEN "failing" ELSE "sent")
  /\ UNCHANGED <<up, client, handle, stale, lock, since, late, burst>>

(* The coroutine has done with the client, or has more commands for it. *)
Command(c) ==
  /\ pc[c] = "sent" /\ up
  /\ \/ Goto(c, "idle") /\ Drop(c)
     \/ Goto(c, "have") /\ UNCHANGED <<handle, late>>
  /\ UNCHANGED <<up, client, stale, lock, since, burst>>

(* A command that raises: Redis is down; the connection was broken by an       *)
(* outage, perhaps the last of its client's; or it fails with Redis up.  Its   *)
(* coroutine gives up, or carries on with the next one (auth.py:66).           *)
CommandFails(c) ==
  /\ \/ pc[c] = "sent" /\ ~ up /\ UNCHANGED stale
     \/ pc[c] = "sent" /\ handle[c] \in stale /\ stale' \in {stale, stale \ {handle[c]}}
     \/ pc[c] = "failing" /\ UNCHANGED stale
  /\ \/ GiveUp(c)
     \/ Goto(c, "have") /\ UNCHANGED <<handle, late>>
  /\ UNCHANGED <<up, client, lock, since, burst>>

-------------------------------------------------------------------------------
(* reset_redis: whatever client there is by now is closed under the lock, be    *)
(* it the one that failed or a healthy one made since.                          *)

ResetAcquire(c) ==
  /\ pc[c] = "reset" /\ lock = None
  /\ IF client # NoClient
       THEN Goto(c, "closing") /\ lock' = c
       ELSE Goto(c, "idle") /\ UNCHANGED lock
  /\ UNCHANGED <<up, client, handle, stale, since, late, burst>>

(* aclose takes the connections away from the commands under way on them; a     *)
(* reply that was in already may still be read.                                 *)
Cut(c) ==
  /\ pc[c] = "sent" /\ handle[c] = client /\ \E d \in Callers : pc[d] = "closing"
  /\ Goto(c, "failing")
  /\ UNCHANGED <<up, client, handle, stale, lock, since, late, burst>>

(* aclose has returned, or raised, which is suppressed. *)
Closed(c) ==
  /\ pc[c] = "closing"
  /\ Goto(c, "idle")
  /\ client' = NoClient /\ stale' = stale \ {client}
  /\ late' = late \cup {d \in Callers : handle[d] = client}
  /\ lock' = None
  /\ UNCHANGED <<up, handle, since, burst>>

(* Mutant of Cancel: the lock is not given back on the way out. *)
CancelKeepsLock(c) ==
  /\ pc[c] # "idle"
  /\ Goto(c, "idle") /\ Drop(c)
  /\ UNCHANGED <<up, client, stale, lock, since, burst>>

(* The request is cancelled at an await: async with releases the lock; neither  *)
(* the breaker nor redis_client is touched (CancelledError is no Exception).    *)
Cancel(c) ==
  /\ pc[c] # "idle"
  /\ Goto(c, "idle") /\ Drop(c)
  /\ lock' = IF lock = c THEN None ELSE lock
  /\ UNCHANGED <<up, client, stale, since, burst>>

-------------------------------------------------------------------------------
(* Redis and time *)

(* Redis goes down, with the connections of the clients in use or without (a    *)
(* time-out), or comes back.                                                    *)
Outage ==
  /\ up' = ~ up
  /\ stale' \in IF up THEN {stale, Ids \ Unused} ELSE {stale}
  /\ UNCHANGED <<client, handle, lock, since, pc, late, burst>>

Tick ==
  /\ Open
  /\ since' = since + 1
  /\ burst' = IF since + 1 = Cooldown THEN 0 ELSE burst
  /\ UNCHANGED <<up, client, handle, stale, lock, pc, late>>

Get(c) == GetCached(c) \/ FailFast(c) \/ WaitToConnect(c)

Progress(c) ==
  \/ Acquire(c) \/ PingOk(c) \/ PingFails(c)
  \/ Send(c) \/ Command(c) \/ CommandFails(c)
  \/ ResetAcquire(c) \/ Closed(c)

Next ==
  \/ Outage \/ Tick
  \/ \E c \in Callers : Get(c) \/ Progress(c) \/ Cut(c) \/ Cancel(c)

(* Time passes; requests keep coming, and not every one of them is cancelled   *)
(* while it waits or pings; asyncio.Lock serves a waiter when it is free; a    *)
(* command and a close return or raise.                                        *)
Fairness ==
  /\ WF_vars(Tick)
  /\ SF_vars(\E c \in Callers : Get(c))
  /\ SF_vars(\E c \in Callers : Acquire(c))
  /\ SF_vars(\E c \in Callers : PingOk(c))
  /\ \A c \in Callers : WF_vars(Progress(c))

Spec == Init /\ [][Next]_vars /\ Fairness

-------------------------------------------------------------------------------
(* Properties *)

(* No client is replaced or forgotten without being closed: coroutines that     *)
(* find none at the same time connect one between them, and a client that a     *)
(* coroutine still holds is the cached one or one that reset_redis closed, so   *)
(* what it has open it opened again after that (get_redis, _close_client).      *)
SingleLiveClient == \A c \in Callers : handle[c] \in {NoClient, client} \/ c \in late

(* A dead Redis is pinged, while the breaker is open, by no more coroutines    *)
(* than were waiting for the lock when it opened: each of them once.           *)
BurstBounded == burst <= Cardinality(Callers) - 1

(* When Redis is back for good the process gets a client time and again, and    *)
(* ends up with one for good unless commands fail for ever with Redis up.  The  *)
(* resets left over from the outage come to an end, but each one takes the      *)
(* connections of other commands away, and so does a pool that runs out: these  *)
(* commands' coroutines reset the client in their turn.                         *)
Recovers ==
  <>[]up => /\ []<>(client # NoClient)
            /\ \/ <>[](client # NoClient)
               \/ []<>(\E c \in Callers : pc[c] = "failing")
===============================================================================
