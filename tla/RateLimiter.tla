----------------------------- MODULE RateLimiter ------------------------------
(***************************************************************************)
(* The three-window rate limiter of one API key on one subnet: the Lua     *)
(* script Redis runs atomically (scripts/rate_limit.lua) and the requests  *)
(* that call it and turn its reply into an answer                          *)
(* (gateway/middleware/rate_limit.py).                                     *)
(*                                                                         *)
(* Redis keeps time in ticks, of which a second has Second; the program    *)
(* sees it in whole seconds only, and in two ways: TTL rounds what a       *)
(* counter has left, and int(time.time()) cuts the fraction off the wall   *)
(* clock, which runs beside that of Redis.  Counters of other keys or      *)
(* subnets are other Redis keys and share nothing with these.              *)
(*                                                                         *)
(* Names that RedisClient has too carry a prefix: RedisProofs extends both *)
(* and AuthRateLimit.                                                      *)
(***************************************************************************)
EXTENDS Integers, FiniteSets

CONSTANTS
  Windows,   \* the windows, in the code minute, day and month
  Limit,     \* Limit[w]: requests a counter of w admits
  Length,    \* Length[w]: how long a counter of w lives, in seconds
  Second,    \* ticks in a second
  Requests,  \* concurrent requests
  MaxLag,    \* most ticks from time.time() to the script, and from it to the answer
  Horizon    \* how many ticks back the history of admissions reaches

ASSUME LimiterConstantsOK ==
  /\ IsFiniteSet(Windows) /\ Windows # {}
  /\ Limit \in [Windows -> Nat \ {0}]
  /\ Length \in [Windows -> Nat \ {0}]
  /\ Second \in Nat \ {0}
  /\ MaxLag \in Nat
  /\ Horizon \in Nat \ {0} /\ \A w \in Windows : Length[w] * Second <= Horizon

VARIABLES
  count,    \* count[w]: the counter of w in Redis, 0 when there is no key
  ttl,      \* ttl[w]: ticks left to it, 0 when there is no key
  req,      \* req[r]: control state and locals of check_rate_limit
  admitted  \* admitted[i]: requests admitted i - 1 ticks ago (history)

limiterVars == <<count, ttl, req, admitted>>

LimiterPCs == {"idle", "calling", "replied", "answered", "unavailable"}

(* A call and its locals: the fraction of a second that int(time.time()) cut   *)
(* off, the ticks from there to the script and from the script to the answer,  *)
(* the reply, the answer, and (history) what the counters really had left when *)
(* the script ran.                                                             *)
ReqState == [pc : LimiterPCs, cut : 0 .. Second - 1, before : 0 .. MaxLag,
             after : 0 .. MaxLag, allowed : BOOLEAN,
             counts : [Windows -> Nat], ttls : [Windows -> Nat], left : [Windows -> Nat],
             remaining : Int, retry : Nat]

Nothing == [w \in Windows |-> 0]

IdleReq == [pc |-> "idle", cut |-> 0, before |-> 0, after |-> 0, allowed |-> FALSE,
            counts |-> Nothing, ttls |-> Nothing, left |-> Nothing,
            remaining |-> 0, retry |-> 0]

(* The type of every variable. *)
LimiterTypeOK ==
  /\ count \in [Windows -> Nat]
  /\ ttl \in [Windows -> Nat]
  /\ req \in [Requests -> ReqState]
  /\ admitted \in [1 .. Horizon -> Nat]

LimiterInit ==
  /\ count = [w \in Windows |-> 0]
  /\ ttl = [w \in Windows |-> 0]
  /\ req = [r \in Requests |-> IdleReq]
  /\ admitted = [i \in 1 .. Horizon |-> 0]

-------------------------------------------------------------------------------
(* rate_limit.lua *)

(* How long EXPIRE lets a counter live, in ticks. *)
Life(w) == Length[w] * Second

(* A window without room: the script denies without counting. *)
Full(w) == count[w] >= Limit[w]

(* The counters and their expiry after the script: EXPIRE only for a counter   *)
(* that INCR has just created.                                                 *)
Counts == [w \in Windows |-> count[w] + 1]

(* Mutant of Expiries: the value before INCR is looked at. *)
ExpiriesLate == [w \in Windows |-> IF count[w] = 1 THEN Life(w) ELSE ttl[w]]

(* Mutant of Expiries: each counter gets the expiry of the shortest window. *)
ExpiriesShort ==
  LET shortest == CHOOSE w \in Windows : \A v \in Windows : Length[w] <= Length[v] IN
  [w \in Windows |-> IF Counts[w] = 1 THEN Life(shortest) ELSE ttl[w]]

Expiries == [w \in Windows |-> IF Counts[w] = 1 THEN Life(w) ELSE ttl[w]]

(* Mutant of Deny: a denied call starts the full window afresh. *)
DenyRenewing ==
  /\ \E w \in Windows : Full(w)
  /\ ttl' = [w \in Windows |-> IF Full(w) THEN Life(w) ELSE ttl[w]]
  /\ UNCHANGED <<count, admitted>>

Deny ==
  /\ \E w \in Windows : Full(w)
  /\ UNCHANGED <<count, ttl, admitted>>

Admit ==
  /\ \A w \in Windows : ~ Full(w)
  /\ count' = Counts
  /\ ttl' = Expiries
  /\ admitted' = [admitted EXCEPT ![1] = @ + 1]

-------------------------------------------------------------------------------
(* check_rate_limit *)

(* now = int(time.time()), then get_redis and the script's round trip. *)
Start(r) ==
  /\ req[r].pc = "idle"
  /\ \E fraction \in 0 .. Second - 1 :
       req' = [req EXCEPT ![r].pc = "calling", ![r].cut = fraction]
  /\ UNCHANGED <<count, ttl, admitted>>

(* TTL: what a counter has left, rounded to whole seconds, a half up.           *)
Rounded(t) == (2 * t + Second) \div (2 * Second)

(* Redis runs the script and the reply arrives: raw[0] and the counts and TTLs. *)
Script(r) ==
  /\ req[r].pc = "calling"
  /\ Deny \/ Admit
  /\ req' = [req EXCEPT ![r].pc = "replied",
                        ![r].allowed = \A w \in Windows : ~ Full(w),
                        ![r].counts = count', ![r].left = ttl',
                        ![r].ttls = [w \in Windows |-> Rounded(ttl'[w])]]

(* get_redis raises, or the script fails: the request is refused.  The script   *)
(* may have counted it all the same when only its reply is lost.                *)
Fail(r) ==
  /\ req[r].pc = "calling"
  /\ Deny \/ Admit \/ UNCHANGED <<count, ttl, admitted>>
  /\ req' = [req EXCEPT ![r].pc = "unavailable"]

(* _compute_most_restrictive: of the windows without room the one that resets   *)
(* last when the request is denied, else the window with the least room left.   *)
Remaining(r, w) == Limit[w] - req[r].counts[w]

Exhausted(r) == {w \in Windows : Remaining(r, w) <= 0}

(* Mutant of MostRestrictive: the window that resets first. *)
MostRestrictiveFirst(r, w) ==
  IF Exhausted(r) # {} /\ ~ req[r].allowed
    THEN /\ w \in Exhausted(r)
         /\ \A v \in Exhausted(r) : req[r].ttls[w] <= req[r].ttls[v]
    ELSE \A v \in Windows : Remaining(r, w) <= Remaining(r, v)

MostRestrictive(r, w) ==
  IF Exhausted(r) # {} /\ ~ req[r].allowed
    THEN /\ w \in Exhausted(r)
         /\ \A v \in Exhausted(r) : req[r].ttls[v] <= req[r].ttls[w]
    ELSE \A v \in Windows : Remaining(r, w) <= Remaining(r, v)

NonNegative(n) == IF n > 0 THEN n ELSE 0

(* Whole seconds that int(time.time()) has advanced by since Start.             *)
Advanced(r) == (req[r].cut + req[r].before + req[r].after) \div Second

(* The answer: the reset of w is the time read in Start plus its TTL, and the   *)
(* client is told to retry after that reset minus the time it is now.           *)
Answer(r) ==
  /\ req[r].pc = "replied"
  /\ \E w \in Windows :
       LET denied == Exhausted(r) # {} /\ ~ req[r].allowed IN
       /\ MostRestrictive(r, w)
       /\ req' = [req EXCEPT
                    ![r].pc = "answered",
                    ![r].remaining = IF denied THEN 0 ELSE Remaining(r, w),
                    ![r].retry = IF denied
                      THEN NonNegative(req[r].ttls[w] - Advanced(r)) ELSE 0]
  /\ UNCHANGED <<count, ttl, admitted>>

Done(r) ==
  /\ req[r].pc \in {"answered", "unavailable"}
  /\ req' = [req EXCEPT ![r] = IdleReq]
  /\ UNCHANGED <<count, ttl, admitted>>

-------------------------------------------------------------------------------
(* Time: a counter whose time is up is deleted; one without expiry stays. *)
Older(s) ==
  CASE s.pc = "calling" -> [s EXCEPT !.before = @ + 1]
    [] s.pc = "replied" -> [s EXCEPT !.after = @ + 1]
    [] OTHER -> s

LimiterTick ==
  /\ \A r \in Requests : /\ req[r].pc = "calling" => req[r].before < MaxLag
                         /\ req[r].pc = "replied" => req[r].after < MaxLag
  /\ count' = [w \in Windows |-> IF ttl[w] = 1 THEN 0 ELSE count[w]]
  /\ ttl' = [w \in Windows |-> IF ttl[w] > 0 THEN ttl[w] - 1 ELSE ttl[w]]
  /\ req' = [r \in Requests |-> Older(req[r])]
  /\ admitted' = [i \in 1 .. Horizon |-> IF i = 1 THEN 0 ELSE admitted[i - 1]]

Call(r) == Script(r) \/ Fail(r) \/ Answer(r)

LimiterNext == LimiterTick \/ \E r \in Requests : Start(r) \/ Call(r) \/ Done(r)

(* Redis keeps time, and a call to it returns or raises. *)
LimiterFairness == WF_limiterVars(LimiterTick) /\ \A r \in Requests : WF_limiterVars(Call(r))

LimiterSpec == LimiterInit /\ [][LimiterNext]_limiterVars /\ LimiterFairness

-------------------------------------------------------------------------------
(* Properties *)

(* Every counter the script leaves behind has an expiry within its window's    *)
(* length, and counts no more than its limit: no counter locks a key out for   *)
(* good.                                                                       *)
CountersExpire ==
  \A w \in Windows : /\ count[w] <= Limit[w]
                     /\ count[w] = 0 => ttl[w] = 0
                     /\ count[w] > 0 => ttl[w] \in 1 .. Life(w)

(* Admissions of the last n ticks. *)
Recent[n \in 0 .. Horizon] == IF n = 0 THEN 0 ELSE admitted[n] + Recent[n - 1]

(* A counter's life starts with the first request it counts, so over any       *)
(* period as long as a window at most twice its limit less one are admitted.   *)
SlidingBound == \A w \in Windows : Recent[Life(w)] <= 2 * Limit[w] - 1

(* A key that is denied is admitted again: time and time again every window    *)
(* has room.                                                                   *)
NeverLockedOut == []<>(\A w \in Windows : ~ Full(w))

(* A denied client is told the truth, as far as whole seconds allow.  The      *)
(* wait it is told falls short of what any window it exhausted still has left  *)
(* by less than a second and a half (half of it lost to TTL's rounding, one to *)
(* the two readings of the clock), and by the time the script took to be run   *)
(* beyond that; and it does not ask for more than is left to all of them by as *)
(* much as a second and a half.  A wait of 0 with a window still full is       *)
(* within this: the answer then has no Retry-After at all.                     *)
Left(r, w) == req[r].left[w] - req[r].after

LongEnough(r) ==
  \A w \in Exhausted(r) :
    2 * Left(r, w) < 2 * Second * req[r].retry + 2 * req[r].before + 3 * Second

NotTooLong(r) ==
  req[r].retry > 0 =>
    \E w \in Exhausted(r) : 2 * Second * req[r].retry < 2 * Left(r, w) + 3 * Second

RetryAccurate ==
  \A r \in Requests :
    req[r].pc = "answered" /\ ~ req[r].allowed => LongEnough(r) /\ NotTooLong(r)
===============================================================================
