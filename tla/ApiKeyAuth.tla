------------------------------ MODULE ApiKeyAuth ------------------------------
(***************************************************************************)
(* Authentication of API keys: the api_keys table, the Redis cache and     *)
(* revocation tombstones in front of it, requests authenticating           *)
(* (gateway/middleware/auth.py) and owners revoking, rotating and updating *)
(* keys (gateway/services/api_key_service.py).                             *)
(*                                                                         *)
(* Every await of a handler ends an action.  Time passes in Tick; a Redis  *)
(* key carries the time it has left to live.  A token is the key whose     *)
(* prefix it has plus whether its secret part is right.  The table is      *)
(* PostgreSQL at READ COMMITTED: a row is written at commit, and SELECT    *)
(* ... FOR UPDATE holds its lock until then.                               *)
(*                                                                         *)
(* Left out: try_rehash, whose UPDATE touches only key_hash, and cache     *)
(* values nobody in this program writes (undecodable or with missing       *)
(* fields), which auth.py deletes and treats as a miss.                    *)
(***************************************************************************)
EXTENDS Integers, FiniteSets

CONSTANTS
  Keys,          \* API keys that can be created; a rotation uses up one
  Requests,      \* concurrent requests that present an API key
  Admins,        \* concurrent requests of the key's owner
  CacheTTL,      \* API_KEY_CACHE_TTL
  TombstoneTTL,  \* _REVOCATION_TOMBSTONE_TTL
  MaxStall,      \* longest time from a request's SELECT to its cache SET
  Operations,    \* what owners do: any of revoke, rotate, update
  Managed,       \* the keys they do it to (all, but for a bound)
  None

(* The assertion of api_key_service.py:28, and the ranges of the constants. *)
ASSUME ConstantsOK ==
  /\ CacheTTL \in Nat \ {0}
  /\ TombstoneTTL \in Nat
  /\ TombstoneTTL >= CacheTTL
  /\ MaxStall \in Nat
  /\ Operations \subseteq {"revoke", "rotate", "update"}
  /\ Managed \subseteq Keys
  /\ None \notin Admins

VARIABLES
  status,     \* status[k]: the row of k is absent, active or revoked
  debug,      \* debug[k]: debug_mode of the row
  rowLock,    \* rowLock[k]: the owner's request that holds the row FOR UPDATE
  cache,      \* cache[k]: the entry "api_key:<k>", gone when ttl = 0
  tombstone,  \* tombstone[k]: time left to the key "api_key_revoked:<k>"
  req,        \* req[r]: control state and locals of get_current_api_key
  adm,        \* adm[a]: control state and locals of a management handler
  (* History: what the properties compare, read by no action of the code. *)
  revokedFor, \* revokedFor[k]: time since k's row was revoked, saturating
  changedFor, \* changedFor[k]: time since k's debug_mode changed, saturating
  barred,     \* keys whose revocation was reported with the tombstone set
  late        \* requests that began when their key was in "barred", and whose
              \* tombstone check has not raised

database == <<status, debug, rowLock>>
redis    == <<cache, tombstone>>
ages     == <<revokedFor, changedFor>>
history  == <<barred, late>>
vars     == <<database, redis, req, adm, ages, history>>

Grace   == CacheTTL + MaxStall
NoEntry == [debug |-> FALSE, ttl |-> 0]

Statuses == {"absent", "active", "revoked"}
ReqPCs   == {"idle", "exists", "get", "lookup", "fill", "accepted", "rejected"}
AdmPCs   == {"idle", "commit", "invalidate"}
Kinds    == {"revoke", "rotate", "update"}

ReqState == [pc : ReqPCs, key : Keys, good : BOOLEAN, redis : BOOLEAN,
             seen : BOOLEAN, stall : 0 .. MaxStall]
AdmState == [pc : AdmPCs, kind : Kinds, key : Keys, value : BOOLEAN, seen : BOOLEAN]

(* A slot that serves no request: the locals of the last handler are gone. *)
IdleReq(k) == [pc |-> "idle", key |-> k, good |-> FALSE, redis |-> FALSE,
               seen |-> FALSE, stall |-> 0]
IdleAdm(k) == [pc |-> "idle", kind |-> "revoke", key |-> k, value |-> FALSE,
               seen |-> FALSE]

(* The type of every variable. *)
TypeOK ==
  /\ status \in [Keys -> Statuses]
  /\ debug \in [Keys -> BOOLEAN]
  /\ rowLock \in [Keys -> Admins \cup {None}]
  /\ cache \in [Keys -> [debug : BOOLEAN, ttl : 0 .. CacheTTL]]
  /\ tombstone \in [Keys -> 0 .. TombstoneTTL]
  /\ req \in [Requests -> ReqState]
  /\ adm \in [Admins -> AdmState]
  /\ revokedFor \in [Keys -> 0 .. Grace + 1]
  /\ changedFor \in [Keys -> 0 .. Grace + 1]
  /\ barred \subseteq Keys
  /\ late \subseteq Requests

Init ==
  /\ status = [k \in Keys |-> "absent"]
  /\ debug = [k \in Keys |-> FALSE]
  /\ rowLock = [k \in Keys |-> None]
  /\ cache = [k \in Keys |-> NoEntry]
  /\ tombstone = [k \in Keys |-> 0]
  /\ \E k \in Keys :
       /\ req = [r \in Requests |-> IdleReq(k)]
       /\ adm = [a \in Admins |-> IdleAdm(k)]
  /\ revokedFor = [k \in Keys |-> 0]
  /\ changedFor = [k \in Keys |-> Grace + 1]
  /\ barred = {} /\ late = {}

-------------------------------------------------------------------------------
(* get_current_api_key *)

(* The bearer token arrives and try_get_redis gives a client or None; without *)
(* Redis both lookups of the cache are skipped.                               *)
AuthStart(r) ==
  /\ req[r].pc = "idle"
  /\ \E k \in Keys, good \in BOOLEAN, up \in BOOLEAN :
       /\ req' = [req EXCEPT ![r] =
                    [pc |-> IF up THEN "exists" ELSE "lookup", key |-> k,
                     good |-> good, redis |-> up, seen |-> FALSE, stall |-> 0]]
       /\ late' = IF k \in barred THEN late \cup {r} ELSE late \ {r}
  /\ UNCHANGED <<database, redis, adm, ages, barred>>

(* EXISTS of the tombstone.  An exception other than the rejection itself is *)
(* logged and the cache is consulted all the same.                           *)
AuthTombstone(r) ==
  /\ req[r].pc = "exists"
  /\ \/ /\ tombstone[req[r].key] > 0
        /\ req' = [req EXCEPT ![r].pc = "rejected"]
        /\ UNCHANGED late
     \/ /\ tombstone[req[r].key] = 0
        /\ req' = [req EXCEPT ![r].pc = "get"]
        /\ UNCHANGED late
     \/ /\ req' = [req EXCEPT ![r].pc = "get"]
        /\ late' = late \ {r}
  /\ UNCHANGED <<database, redis, adm, ages, barred>>

(* Mutant of AuthGet: a hit is not compared with the token. *)
AuthGetByPrefix(r) ==
  /\ req[r].pc = "get"
  /\ \/ /\ cache[req[r].key].ttl > 0
        /\ req' = [req EXCEPT ![r].pc = "accepted",
                              ![r].seen = cache[req[r].key].debug]
     \/ req' = [req EXCEPT ![r].pc = "lookup"]
  /\ UNCHANGED <<database, redis, adm, ages, history>>

(* GET of the cache entry.  A hit is decided by the digest of the token; a    *)
(* miss, or an exception of the command, goes on to the table.                *)
AuthGet(r) ==
  /\ req[r].pc = "get"
  /\ \/ /\ cache[req[r].key].ttl > 0
        /\ req' = [req EXCEPT
                     ![r].pc = IF req[r].good THEN "accepted" ELSE "rejected",
                     ![r].seen = cache[req[r].key].debug]
     \/ req' = [req EXCEPT ![r].pc = "lookup"]
  /\ UNCHANGED <<database, redis, adm, ages, history>>

(* Mutant of AuthLookup: the mode of an entry that is there is preferred. *)
AuthLookupMixing(r) ==
  LET k == req[r].key IN
  /\ req[r].pc = "lookup"
  /\ req' = [req EXCEPT
               ![r].pc = IF status[k] = "active" /\ req[r].good THEN "fill" ELSE "rejected",
               ![r].seen = IF cache[k].ttl > 0 THEN cache[k].debug ELSE debug[k]]
  /\ UNCHANGED <<database, redis, adm, ages, history>>

(* The SELECT of the active row with this prefix, then ph.verify. *)
AuthLookup(r) ==
  /\ req[r].pc = "lookup"
  /\ req' = [req EXCEPT
               ![r].pc = IF status[req[r].key] = "active" /\ req[r].good
                           THEN "fill" ELSE "rejected",
               ![r].seen = debug[req[r].key]]
  /\ UNCHANGED <<database, redis, adm, ages, history>>

(* Best-effort SET of the cache entry from the row that was read, then the    *)
(* request is accepted.  A SET that raises may or may not have been executed. *)
AuthFill(r) ==
  /\ req[r].pc = "fill"
  /\ req' = [req EXCEPT ![r].pc = "accepted"]
  /\ \/ /\ req[r].redis
        /\ cache' = [cache EXCEPT ![req[r].key] =
                       [debug |-> req[r].seen, ttl |-> CacheTTL]]
     \/ UNCHANGED cache
  /\ UNCHANGED <<database, tombstone, adm, ages, history>>

(* The handler behind the dependency is done; the slot can serve again. *)
AuthReturn(r) ==
  /\ req[r].pc \in {"accepted", "rejected"}
  /\ req' = [req EXCEPT ![r] = IdleReq(req[r].key)]
  /\ late' = late \ {r}
  /\ UNCHANGED <<database, redis, adm, ages, barred>>

-------------------------------------------------------------------------------
(* create_api_key, revoke_api_key, rotate_api_key, update_api_key *)

(* create_api_key commits a row no cache entry or tombstone refers to yet.    *)
(* Its limit on the number of keys is the subject of module KeyQuota.         *)
CreateKey(k) ==
  /\ status[k] = "absent"
  /\ status' = [status EXCEPT ![k] = "active"]
  /\ UNCHANGED <<debug, rowLock, redis, req, adm, ages, history>>

(* A management request arrives and SELECTs the owner's active key; when there *)
(* is none it is answered 404.  Only a rotation asks for the row lock, and     *)
(* waits for the one who holds it.  That get_redis may have given no client    *)
(* shows in AdminFinish.                                                       *)
AdminRead(a) ==
  /\ adm[a].pc = "idle"
  /\ \E kind \in Operations, k \in Managed, value \in BOOLEAN :
       /\ status[k] = "active"
       /\ kind = "rotate" => rowLock[k] = None
       /\ adm' = [adm EXCEPT ![a] = [pc |-> "commit", kind |-> kind, key |-> k,
                    value |-> kind = "update" /\ value, seen |-> debug[k]]]
       /\ rowLock' = IF kind = "rotate" THEN [rowLock EXCEPT ![k] = a] ELSE rowLock
  /\ UNCHANGED <<status, debug, redis, req, ages, history>>

(* revoke_api_key: UPDATE is_active = false, whatever the row says by now. *)
CommitRevoke(a) ==
  LET k == adm[a].key IN
  /\ adm[a].kind = "revoke"
  /\ rowLock[k] = None
  /\ status' = [status EXCEPT ![k] = "revoked"]
  /\ UNCHANGED <<debug, rowLock, changedFor>>

(* rotate_api_key: the new row and the revocation of the old one commit       *)
(* together and release the lock.  The new row has the default debug_mode.    *)
CommitRotate(a) ==
  LET k == adm[a].key IN
  /\ adm[a].kind = "rotate"
  /\ \E n \in Keys :
       /\ status[n] = "absent"
       /\ status' = [status EXCEPT ![k] = "revoked", ![n] = "active"]
  /\ rowLock' = [rowLock EXCEPT ![k] = None]
  /\ UNCHANGED <<debug, changedFor>>

(* update_api_key: the ORM writes debug_mode only if it differs from the value *)
(* it read.                                                                    *)
CommitUpdate(a) ==
  LET k == adm[a].key
      new == IF adm[a].value # adm[a].seen THEN adm[a].value ELSE debug[k] IN
  /\ adm[a].kind = "update"
  /\ rowLock[k] = None
  /\ debug' = [debug EXCEPT ![k] = new]
  /\ changedFor' = IF new # debug[k] THEN [changedFor EXCEPT ![k] = 0] ELSE changedFor
  /\ UNCHANGED <<status, rowLock>>

AdminCommit(a) ==
  /\ adm[a].pc = "commit"
  /\ CommitRevoke(a) \/ CommitRotate(a) \/ CommitUpdate(a)
  /\ adm' = [adm EXCEPT ![a].pc = "invalidate"]
  /\ UNCHANGED <<redis, req, revokedFor, history>>

(* Mutant of Invalidate: only the entry is deleted, as before there were       *)
(* tombstones.                                                                 *)
InvalidateEntryOnly(a) ==
  /\ cache' = [cache EXCEPT ![adm[a].key] = NoEntry]
  /\ UNCHANGED tombstone

(* The Redis part of a handler: for a revocation the MULTI/EXEC that sets the  *)
(* tombstone and deletes the entry, for an update the DEL alone.               *)
Invalidate(a) ==
  LET k == adm[a].key IN
  /\ cache' = [cache EXCEPT ![k] = NoEntry]
  /\ tombstone' = IF adm[a].kind = "update" THEN tombstone
                  ELSE [tombstone EXCEPT ![k] = TombstoneTTL]

(* Then the handler reports success, also when Redis was down or the commands *)
(* raised.                                                                    *)
AdminFinish(a) ==
  LET k == adm[a].key IN
  /\ adm[a].pc = "invalidate"
  /\ \/ /\ Invalidate(a)
        /\ barred' = IF adm[a].kind = "update" THEN barred ELSE barred \cup {k}
     \/ UNCHANGED <<redis, barred>>
  /\ adm' = [adm EXCEPT ![a] = IdleAdm(k)]
  /\ UNCHANGED <<database, req, ages, late>>

(* The handler ends early: the client is gone, the process dies, the commit   *)
(* or the db.refresh after it raises.  The transaction is rolled back if it   *)
(* has not committed; nothing is reported.                                    *)
AdminAbort(a) ==
  /\ adm[a].pc \in {"commit", "invalidate"}
  /\ adm' = [adm EXCEPT ![a] = IdleAdm(adm[a].key)]
  /\ rowLock' = [k \in Keys |-> IF rowLock[k] = a THEN None ELSE rowLock[k]]
  /\ UNCHANGED <<status, debug, redis, req, ages, history>>

-------------------------------------------------------------------------------
(* Time.  Redis keys age and expire.  A request between its SELECT and its    *)
(* SET is not delayed for longer than MaxStall.                               *)

Minus1(n) == IF n > 0 THEN n - 1 ELSE 0

Older(n) == IF n <= Grace THEN n + 1 ELSE n

Tick ==
  /\ \A r \in Requests : req[r].pc = "fill" => req[r].stall < MaxStall
  /\ cache' = [k \in Keys |-> IF cache[k].ttl > 1
                 THEN [cache[k] EXCEPT !.ttl = @ - 1] ELSE NoEntry]
  /\ tombstone' = [k \in Keys |-> Minus1(tombstone[k])]
  /\ req' = [r \in Requests |-> IF req[r].pc = "fill"
               THEN [req[r] EXCEPT !.stall = @ + 1] ELSE req[r]]
  /\ revokedFor' = [k \in Keys |-> IF status[k] = "revoked"
                      THEN Older(revokedFor[k]) ELSE revokedFor[k]]
  /\ changedFor' = [k \in Keys |-> Older(changedFor[k])]
  /\ UNCHANGED <<database, adm, history>>

AuthStep(r) ==
  \/ AuthStart(r) \/ AuthTombstone(r) \/ AuthGet(r)
  \/ AuthLookup(r) \/ AuthFill(r) \/ AuthReturn(r)

AdminStep(a) ==
  AdminRead(a) \/ AdminCommit(a) \/ AdminFinish(a) \/ AdminAbort(a)

Next ==
  \/ Tick
  \/ \E r \in Requests : AuthStep(r)
  \/ \E k \in Keys : CreateKey(k)
  \/ \E a \in Admins : AdminStep(a)

Spec == Init /\ [][Next]_vars

-------------------------------------------------------------------------------
(* Properties *)

(* A request that begins after the revocation (or rotation) of its key was    *)
(* reported as done is never accepted, if the tombstone was set and the check *)
(* for it did not raise: the tombstone outlives every cache entry that a      *)
(* request still in flight at the time may write.                             *)
RevocationImmediate == \A r \in late : req[r].pc # "accepted"

(* Whatever fails, a request is never accepted with a debug_mode that was      *)
(* replaced longer than Grace ago.                                             *)
StaleDebugBounded ==
  [][\A r \in Requests :
       /\ req[r].pc # "accepted" /\ req'[r].pc = "accepted"
       /\ req'[r].seen # debug[req[r].key]
       => changedFor[req[r].key] <= Grace]_vars

(* Whatever fails, authentication answers as the table would, but for a grace *)
(* period after a revocation: only a right token is accepted, a right token   *)
(* of an active key is never refused, and a revoked key is refused for good   *)
(* after Grace and never active again.                                        *)
Phase(pc) == IF pc \in {"idle", "accepted", "rejected"} THEN pc ELSE "asked"

Authority == INSTANCE KeyAuthority WITH
  ask <- [r \in Requests |-> [phase |-> Phase(req[r].pc), key |-> req[r].key,
                              good |-> req[r].good]]

ImplementsAuthority == Authority!Spec
===============================================================================
