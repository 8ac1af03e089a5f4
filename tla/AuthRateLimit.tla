---------------------------- MODULE AuthRateLimit -----------------------------
(***************************************************************************)
(* The rate limit of the auth endpoints (gateway/core/rate_limit.py, used  *)
(* by _rate_limit_auth of gateway/api/auth.py): a fixed window per client  *)
(* address in Redis, and the in-memory store of windows that takes over,   *)
(* from zero, whenever Redis fails.                                        *)
(*                                                                         *)
(* A client is the address _rate_limit_auth arrives at; a request without  *)
(* one is not limited.  Clients share the store; in Redis each has a key   *)
(* of its own, and one client's is modelled.  Ages of windows are kept     *)
(* instead of their starts.                                                *)
(*                                                                         *)
(* Names that RedisClient or RateLimiter has too carry a prefix, as        *)
(* RedisProofs extends all three.                                          *)
(***************************************************************************)
EXTENDS Integers, FiniteSets

CONSTANTS
  Clients,     \* client addresses
  Watched,     \* the client whose key in Redis is modelled
  AuthLimit,   \* auth_rate_limit_per_minute
  Window,      \* window_seconds and fallback_window
  MaxEntries,  \* _FALLBACK_MAX_ENTRIES
  MaxWaiting   \* bound: attempts of a client in reset_redis at once

ASSUME AuthConstantsOK ==
  /\ IsFiniteSet(Clients) /\ Watched \in Clients
  /\ AuthLimit \in Nat \ {0} /\ Window \in Nat \ {0}
  /\ MaxEntries \in Nat /\ MaxWaiting \in Nat

VARIABLES
  tries,    \* the counter of Watched in Redis, 0 when there is none;
            \* AuthLimit + 1 stands for every value above AuthLimit
  expiry,   \* the time left to it, 0 when it has no expiry
  entry,    \* entry[c]: [age, count] of the window in the store; count 0: none
  waiting,  \* waiting[c]: attempts whose call to Redis failed, in reset_redis
  passed    \* passed[i]: attempts of Watched let through i - 1 units of time
            \* ago, since the store last forgot it (history)

redis == <<tries, expiry>>
authVars == <<redis, entry, waiting, passed>>

NoEntry == [age |-> 0, count |-> 0]

(* The clients the store has an entry of, and those whose window is not over. *)
Tracked == {c \in Clients : entry[c].count > 0}
Current == {c \in Tracked : entry[c].age < Window}

(* The type of every variable; the store is checked before it grows, so it     *)
(* holds one entry more than its cap, and no more.                             *)
AuthTypeOK ==
  /\ tries \in 0 .. AuthLimit + 1 /\ expiry \in 0 .. Window
  /\ entry \in [Clients -> [age : 0 .. Window, count : 0 .. AuthLimit]]
  /\ waiting \in [Clients -> 0 .. MaxWaiting]
  /\ passed \in [1 .. Window -> Nat]
  /\ Cardinality(Tracked) <= MaxEntries + 1

AuthInit ==
  /\ tries = 0 /\ expiry = 0
  /\ entry = [c \in Clients |-> NoEntry]
  /\ waiting = [c \in Clients |-> 0]
  /\ passed = [i \in 1 .. Window |-> 0]

-------------------------------------------------------------------------------
(* Redis *)

(* Mutant of Expiry: every attempt renews the window. *)
ExpiryRenewed == Window

(* EXPIRE only for the counter INCR has just created. *)
Expiry == IF tries = 0 THEN Window ELSE expiry

(* The script, which counts an attempt that will be refused as well. *)
AuthScript ==
  /\ tries' = IF tries > AuthLimit THEN tries ELSE tries + 1
  /\ expiry' = Expiry

(* An attempt more is let through. *)
OneMore(p) == [p EXCEPT ![1] = @ + 1]

(* Redis decides on an attempt of Watched. *)
ByRedis ==
  /\ AuthScript
  /\ passed' = IF tries' <= AuthLimit THEN OneMore(passed) ELSE passed
  /\ UNCHANGED <<entry, waiting>>

(* get_redis or the script raises; the script may have run for all that.  The  *)
(* client is reset before the store is asked.                                  *)
RedisFails(c) ==
  /\ waiting[c] < MaxWaiting
  /\ \/ c = Watched /\ AuthScript
     \/ UNCHANGED redis
  /\ waiting' = [waiting EXCEPT ![c] = @ + 1]
  /\ UNCHANGED <<entry, passed>>

-------------------------------------------------------------------------------
(* _FallbackStore *)

(* Mutant of Oldest: the newest windows go. *)
OldestReversed(c, d) == entry[c].age >= entry[d].age

(* c is to stay rather than d. *)
Oldest(c, d) == entry[c].age <= entry[d].age

(* Mutant of Kept: only windows that are over go. *)
KeptCurrent(S) ==
  \/ Cardinality(Tracked) <= MaxEntries /\ S = Tracked
  \/ Cardinality(Tracked) > MaxEntries /\ S = Current

(* _evict: nothing up to the cap; above it windows that are over go, then, if  *)
(* the rest is still above it, the oldest of them.                             *)
Kept(S) ==
  \/ Cardinality(Tracked) <= MaxEntries /\ S = Tracked
  \/ /\ Cardinality(Tracked) > MaxEntries /\ Cardinality(Current) <= MaxEntries
     /\ S = Current
  \/ /\ Cardinality(Current) > MaxEntries
     /\ S \subseteq Current /\ Cardinality(S) = MaxEntries
     /\ \A c \in S, d \in Current \ S : Oldest(c, d)

(* The clients whose window was dropped before it was over. *)
Forgotten(S) == IF Cardinality(Current) > MaxEntries THEN Current \ S ELSE {}

Over(e) == e.count = 0 \/ e.age >= Window

(* Mutant of Allows: one more than the limit. *)
AllowsOneMore(e) == Over(e) \/ e.count <= AuthLimit

(* What check answers, and the entry it leaves. *)
Allows(e) == Over(e) \/ e.count < AuthLimit

Checked(e) ==
  IF Over(e) THEN [age |-> 0, count |-> 1]
  ELSE [e EXCEPT !.count = IF @ < AuthLimit THEN @ + 1 ELSE @]

(* reset_redis has returned and the store decides, all in one step. *)
ByFallback(c) ==
  /\ waiting[c] > 0
  /\ waiting' = [waiting EXCEPT ![c] = @ - 1]
  /\ \E S \in SUBSET Tracked :
       LET evicted == [d \in Clients |-> IF d \in S THEN entry[d] ELSE NoEntry]
           since == IF Watched \in Forgotten(S) THEN [i \in 1 .. Window |-> 0] ELSE passed IN
       /\ Kept(S)
       /\ entry' = [evicted EXCEPT ![c] = Checked(@)]
       /\ passed' = IF c = Watched /\ Allows(evicted[c]) THEN OneMore(since) ELSE since
  /\ UNCHANGED redis

(* The process dies; its successor has an empty store. *)
Restart ==
  /\ entry' = [c \in Clients |-> NoEntry]
  /\ waiting' = [c \in Clients |-> 0]
  /\ passed' = [i \in 1 .. Window |-> 0]
  /\ UNCHANGED redis

-------------------------------------------------------------------------------
AuthTick ==
  /\ tries' = IF expiry = 1 THEN 0 ELSE tries
  /\ expiry' = IF expiry > 0 THEN expiry - 1 ELSE 0
  /\ entry' = [c \in Clients |-> IF c \in Current THEN [entry[c] EXCEPT !.age = @ + 1]
                                 ELSE entry[c]]
  /\ passed' = [i \in 1 .. Window |-> IF i = 1 THEN 0 ELSE passed[i - 1]]
  /\ UNCHANGED waiting

AuthNext ==
  \/ AuthTick \/ Restart \/ ByRedis
  \/ \E c \in Clients : RedisFails(c) \/ ByFallback(c)

(* Time passes; whether clients try, and Redis works, is up to them. *)
AuthSpec == AuthInit /\ [][AuthNext]_authVars /\ WF_authVars(AuthTick)

-------------------------------------------------------------------------------
(* Properties *)

(* Attempts let through in the last n units of time. *)
AuthRecent[n \in 0 .. Window] == IF n = 0 THEN 0 ELSE passed[n] + AuthRecent[n - 1]

(* Whichever calls to Redis fail, a client gets no more attempts through       *)
(* in a period as long as the window than both limiters give it side by side,  *)
(* each at most twice the limit less one around the end of a window, while the *)
(* store does not forget it.                                                   *)
AttemptsBounded == AuthRecent[Window] <= 2 * (2 * AuthLimit - 1)

(* A client is forgotten inside its window only when as many others as the    *)
(* store's cap have begun theirs no earlier (_evict), or by a restart.         *)
Loses(c) == entry'[c].count < entry[c].count \/ entry'[c].age < entry[c].age

NoEarlier(c) == {d \in Current \ {c} : entry[d].age <= entry[c].age}

ForgetsOldest ==
  [][\A c \in Current : Loses(c) =>
       Tracked' = {} \/ Cardinality(NoEarlier(c)) >= MaxEntries]_authVars

(* A client that goes on trying is let in again and again: its attempts,       *)
(* refused ones included, do not put off the end of a window ("a true          *)
(* fixed-window rate limit instead of resetting the TTL on every request",     *)
(* rate_limit.py:20), in neither limiter.                                      *)
NeverShutOut == []<>(tries < AuthLimit) /\ \A c \in Clients : []<>Allows(entry[c])
===============================================================================
