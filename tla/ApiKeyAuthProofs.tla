--------------------------- MODULE ApiKeyAuthProofs ---------------------------
(***************************************************************************)
(* Proofs about ApiKeyAuth for any number of keys, requests and owners and *)
(* any time limits.  The argument: a cache entry for a revoked key was     *)
(* written from a row read before the revocation, so what it has left to   *)
(* live plus the age of the revocation never exceeds Grace.                *)
(***************************************************************************)
EXTENDS ApiKeyAuth, TLAPS

(* Redis holds nothing about a key that is not there yet, and the tombstone   *)
(* of no key that is active.                                                  *)
RedisInv ==
  \A k \in Keys :
    /\ status[k] = "absent" => cache[k].ttl = 0
    /\ status[k] # "revoked" =>
         revokedFor[k] = 0 /\ tombstone[k] = 0 /\ k \notin barred

(* The cache entry of a revoked key is gone when the revocation is Grace old. *)
CacheInv ==
  \A k \in Keys :
    status[k] = "revoked" /\ cache[k].ttl > 0 => revokedFor[k] + cache[k].ttl <= Grace

(* A request about to write the cache read its row while it was active, no    *)
(* longer ago than the time it has been stalled.                              *)
FillInv ==
  \A r \in Requests :
    req[r].pc = "fill" =>
      /\ req[r].good
      /\ \/ status[req[r].key] = "active"
         \/ status[req[r].key] = "revoked" /\ revokedFor[req[r].key] <= req[r].stall

(* A management handler past its SELECT has a row, a rotation holds its lock, *)
(* and a handler past its commit has revoked the key.                         *)
AdminInv ==
  \A a \in Admins :
    /\ adm[a].pc = "commit" => status[adm[a].key] # "absent"
    /\ adm[a].pc = "commit" /\ adm[a].kind = "rotate" =>
         rowLock[adm[a].key] = a /\ status[adm[a].key] = "active"
    /\ adm[a].pc = "invalidate" /\ adm[a].kind # "update" =>
         status[adm[a].key] = "revoked"

IInv == TypeOK /\ RedisInv /\ CacheInv /\ FillInv /\ AdminInv

(* When the tombstone outlives Grace: a tombstone that was set is there until  *)
(* no cache entry can be.                                                      *)
TombstoneInv ==
  \A k \in barred : tombstone[k] + revokedFor[k] >= Grace

(* A late request is turned away by the tombstone, or finds no cache entry.    *)
LateInv ==
  \A r \in late :
    /\ req[r].key \in barred
    /\ req[r].pc \in {"exists", "get", "lookup", "rejected"}
    /\ req[r].pc = "get" => revokedFor[req[r].key] >= Grace

LateIInv == TombstoneInv /\ LateInv

(* A cache entry, or a fill under way, with a debug_mode that was replaced was *)
(* read before it was.                                                         *)
StaleEntryInv ==
  \A k \in Keys :
    cache[k].ttl > 0 /\ cache[k].debug # debug[k] => changedFor[k] + cache[k].ttl <= Grace

StaleFillInv ==
  \A r \in Requests :
    req[r].pc = "fill" /\ req[r].seen # debug[req[r].key]
      => changedFor[req[r].key] <= req[r].stall

StaleInv == StaleEntryInv /\ StaleFillInv

-------------------------------------------------------------------------------
(* Time left and ages stay within their ranges. *)
LEMMA TimerTypes ==
  /\ Grace \in Nat
  /\ \A n \in Nat : Minus1(n) \in Nat /\ Minus1(n) <= n
  /\ \A n \in 0 .. Grace + 1 : Older(n) \in 0 .. Grace + 1
BY ConstantsOK DEF Grace, Minus1, Older

(* Moving a request to another program point, remembering a debug flag or      *)
(* growing its stall leaves a record of the same type.                         *)
LEMMA ReqTypes ==
  ASSUME NEW s \in ReqState
  PROVE /\ \A p \in ReqPCs : [s EXCEPT !.pc = p] \in ReqState
        /\ \A p \in ReqPCs, d \in BOOLEAN : [s EXCEPT !.pc = p, !.seen = d] \in ReqState
        /\ s.stall < MaxStall => [s EXCEPT !.stall = @ + 1] \in ReqState
        /\ s.key \in Keys /\ s.good \in BOOLEAN /\ s.seen \in BOOLEAN /\ s.pc \in ReqPCs
        /\ s.stall \in 0 .. MaxStall
        /\ \A k \in Keys : IdleReq(k) \in ReqState
<1>1. /\ \A p \in ReqPCs : [s EXCEPT !.pc = p] \in ReqState
      /\ \A p \in ReqPCs, d \in BOOLEAN : [s EXCEPT !.pc = p, !.seen = d] \in ReqState
  BY DEF ReqState
<1>2. s.stall < MaxStall => [s EXCEPT !.stall = @ + 1] \in ReqState
  <2>1. s.stall < MaxStall => s.stall + 1 \in 0 .. MaxStall
    BY ConstantsOK DEF ReqState
  <2> QED
    BY <2>1 DEF ReqState
<1>3. \A k \in Keys : IdleReq(k) \in ReqState
  BY ConstantsOK DEF ReqState, ReqPCs, IdleReq
<1> QED
  BY <1>1, <1>2, <1>3 DEF ReqState

(* The same for the records of management handlers. *)
LEMMA AdmTypes ==
  ASSUME NEW s \in AdmState
  PROVE /\ \A p \in AdmPCs : [s EXCEPT !.pc = p] \in AdmState
        /\ \A p \in AdmPCs, d \in BOOLEAN : [s EXCEPT !.pc = p, !.seen = d] \in AdmState
        /\ s.key \in Keys /\ s.value \in BOOLEAN
        /\ \A k \in Keys : IdleAdm(k) \in AdmState
BY DEF AdmState, AdmPCs, Kinds, IdleAdm

(* Every variable keeps its type, whatever action is taken. *)
LEMMA TypeStep == TypeOK /\ [Next]_vars => TypeOK'
<1> SUFFICES ASSUME TypeOK, [Next]_vars PROVE TypeOK'
  OBVIOUS
<1> USE DEF database, redis, ages, history
<1>a. ASSUME NEW r \in Requests PROVE req[r] \in ReqState
  BY DEF TypeOK
<1>b. ASSUME NEW a \in Admins PROVE adm[a] \in AdmState
  BY DEF TypeOK
<1>1. ASSUME NEW r \in Requests, AuthStep(r) PROVE TypeOK'
  <2>1. CASE AuthStart(r)
    <3>1. req' \in [Requests -> ReqState]
      BY <2>1, ConstantsOK DEF TypeOK, AuthStart, ReqState, ReqPCs
    <3> QED
      BY <2>1, <3>1 DEF TypeOK, AuthStart
  <2>2. CASE AuthTombstone(r)
    <3>1. PICK p \in ReqPCs : req' = [req EXCEPT ![r] = [req[r] EXCEPT !.pc = p]]
      BY <2>2 DEF AuthTombstone, ReqPCs
    <3> QED
      BY <2>2, <3>1, <1>a, ReqTypes DEF TypeOK, AuthTombstone
  <2>3. CASE AuthGet(r)
    <3>1. cache[req[r].key].debug \in BOOLEAN
      BY <1>a, ReqTypes DEF TypeOK
    <3>2. CASE req' = [req EXCEPT ![r].pc = "lookup"]
      BY <2>3, <3>2, <1>a, ReqTypes DEF TypeOK, AuthGet, ReqPCs
    <3>3. CASE req' = [req EXCEPT ![r].pc = IF req[r].good THEN "accepted" ELSE "rejected",
                                  ![r].seen = cache[req[r].key].debug]
      <4>1. (IF req[r].good THEN "accepted" ELSE "rejected") \in ReqPCs
        BY DEF ReqPCs
      <4>2. PICK p \in ReqPCs, d \in BOOLEAN :
              req' = [req EXCEPT ![r] = [req[r] EXCEPT !.pc = p, !.seen = d]]
        BY <3>1, <3>3, <4>1, <1>a DEF TypeOK
      <4> QED
        BY <2>3, <4>2, <1>a, ReqTypes DEF TypeOK, AuthGet
    <3> QED
      BY <2>3, <3>2, <3>3 DEF AuthGet
  <2>4. CASE AuthLookup(r)
    <3>1. debug[req[r].key] \in BOOLEAN
      BY <1>a, ReqTypes DEF TypeOK
    <3>2. (IF status[req[r].key] = "active" /\ req[r].good THEN "fill" ELSE "rejected")
            \in ReqPCs
      BY DEF ReqPCs
    <3>3. PICK p \in ReqPCs, d \in BOOLEAN :
            req' = [req EXCEPT ![r] = [req[r] EXCEPT !.pc = p, !.seen = d]]
      BY <2>4, <3>1, <3>2, <1>a DEF TypeOK, AuthLookup
    <3>4. req' \in [Requests -> ReqState]
      BY <3>3, <1>a, ReqTypes DEF TypeOK
    <3> QED
      BY <2>4, <3>4 DEF TypeOK, AuthLookup
  <2>5. CASE AuthFill(r)
    <3>1. req' \in [Requests -> ReqState]
      BY <2>5, <1>a, ReqTypes DEF TypeOK, AuthFill, ReqPCs
    <3>2. req[r].seen \in BOOLEAN
      BY <1>a, ReqTypes
    <3>5. CacheTTL \in 0 .. CacheTTL
      BY ConstantsOK
    <3>3. [debug |-> req[r].seen, ttl |-> CacheTTL] \in [debug : BOOLEAN, ttl : 0 .. CacheTTL]
      BY <3>2, <3>5
    <3>4. cache' \in [Keys -> [debug : BOOLEAN, ttl : 0 .. CacheTTL]]
      BY <2>5, <3>3 DEF TypeOK, AuthFill
    <3> QED
      BY <2>5, <3>1, <3>4 DEF TypeOK, AuthFill
  <2>6. CASE AuthReturn(r)
    BY <2>6, <1>a, ReqTypes DEF TypeOK, AuthReturn
  <2> QED
    BY <1>1, <2>1, <2>2, <2>3, <2>4, <2>5, <2>6 DEF AuthStep
<1>2. ASSUME NEW k \in Keys, CreateKey(k) PROVE TypeOK'
  BY <1>2 DEF TypeOK, CreateKey, Statuses
<1>3. ASSUME NEW a \in Admins, AdminStep(a) PROVE TypeOK'
  <2>k. adm[a].key \in Keys /\ adm[a].value \in BOOLEAN
    BY <1>b, AdmTypes
  <2>1. CASE AdminRead(a)
    <3>1. PICK kind \in Operations, k \in Managed, value \in BOOLEAN :
            /\ adm' = [adm EXCEPT ![a] = [pc |-> "commit", kind |-> kind, key |-> k,
                        value |-> kind = "update" /\ value, seen |-> debug[k]]]
            /\ rowLock' = IF kind = "rotate" THEN [rowLock EXCEPT ![k] = a] ELSE rowLock
      BY <2>1 DEF AdminRead
    <3>k. k \in Keys /\ kind \in Kinds
      BY ConstantsOK DEF Kinds
    <3>2. [pc |-> "commit", kind |-> kind, key |-> k, value |-> kind = "update" /\ value,
           seen |-> debug[k]] \in AdmState
      BY <3>k DEF TypeOK, AdmState, AdmPCs
    <3>3. adm' \in [Admins -> AdmState] /\ rowLock' \in [Keys -> Admins \cup {None}]
      BY <3>1, <3>2 DEF TypeOK
    <3> QED
      BY <2>1, <3>3 DEF TypeOK, AdminRead
  <2>3. CASE AdminCommit(a)
    <3>1. adm' \in [Admins -> AdmState]
      BY <2>3, <1>b, AdmTypes DEF TypeOK, AdminCommit, AdmPCs
    <3>2. CASE CommitRevoke(a)
      BY <2>3, <3>1, <3>2, <2>k DEF TypeOK, AdminCommit, CommitRevoke, Statuses
    <3>3. CASE CommitRotate(a)
      BY <2>3, <3>1, <3>3, <2>k DEF TypeOK, AdminCommit, CommitRotate, Statuses
    <3>4. CASE CommitUpdate(a)
      <4>1. debug' \in [Keys -> BOOLEAN]
        BY <3>4, <2>k DEF TypeOK, CommitUpdate
      <4>2. changedFor' \in [Keys -> 0 .. Grace + 1]
        <5>1. 0 \in 0 .. Grace + 1
          BY TimerTypes
        <5>2. \/ changedFor' = [changedFor EXCEPT ![adm[a].key] = 0]
              \/ changedFor' = changedFor
          BY <3>4 DEF CommitUpdate
        <5> QED
          BY <5>1, <5>2 DEF TypeOK
      <4> QED
        BY <2>3, <3>1, <3>4, <4>1, <4>2 DEF TypeOK, AdminCommit, CommitUpdate
    <3> QED
      BY <2>3, <3>2, <3>3, <3>4 DEF AdminCommit
  <2>4. CASE AdminFinish(a)
    <3>1. adm' \in [Admins -> AdmState]
      BY <2>4, <2>k, <1>b, AdmTypes DEF TypeOK, AdminFinish
    <3>2. /\ cache' \in [Keys -> [debug : BOOLEAN, ttl : 0 .. CacheTTL]]
          /\ tombstone' \in [Keys -> 0 .. TombstoneTTL]
      <4>1. NoEntry \in [debug : BOOLEAN, ttl : 0 .. CacheTTL] /\ TombstoneTTL \in 0 .. TombstoneTTL
        BY ConstantsOK DEF NoEntry
      <4>2. CASE Invalidate(a)
        BY <4>1, <4>2 DEF TypeOK, Invalidate
      <4>3. CASE UNCHANGED redis
        BY <4>3 DEF TypeOK
      <4> QED
        BY <2>4, <4>2, <4>3 DEF AdminFinish
    <3> QED
      BY <2>4, <2>k, <3>1, <3>2 DEF TypeOK, AdminFinish
  <2>5. CASE AdminAbort(a)
    BY <2>5, <2>k, <1>b, AdmTypes DEF TypeOK, AdminAbort
  <2> QED
    BY <1>3, <2>1, <2>3, <2>4, <2>5 DEF AdminStep
<1>4. CASE Tick
  <2>1. cache' \in [Keys -> [debug : BOOLEAN, ttl : 0 .. CacheTTL]]
    BY <1>4, ConstantsOK DEF TypeOK, Tick, NoEntry
  <2>2. tombstone' \in [Keys -> 0 .. TombstoneTTL]
    BY <1>4, TimerTypes, ConstantsOK DEF TypeOK, Tick
  <2>3. req' \in [Requests -> ReqState]
    BY <1>4, <1>a, ReqTypes DEF TypeOK, Tick
  <2>4. revokedFor' \in [Keys -> 0 .. Grace + 1] /\ changedFor' \in [Keys -> 0 .. Grace + 1]
    BY <1>4, TimerTypes DEF TypeOK, Tick
  <2> QED
    BY <1>4, <2>1, <2>2, <2>3, <2>4 DEF TypeOK, Tick
<1>5. CASE UNCHANGED vars
  BY <1>5 DEF TypeOK, vars
<1> QED
  BY <1>1, <1>2, <1>3, <1>4, <1>5 DEF Next

(* The initial state has the types too. *)
LEMMA InitTypes == Init => TypeOK
<1> SUFFICES ASSUME Init PROVE TypeOK
  OBVIOUS
<1>1. PICK k \in Keys : /\ req = [r \in Requests |-> IdleReq(k)]
                        /\ adm = [a \in Admins |-> IdleAdm(k)]
  BY DEF Init
<1>2. req \in [Requests -> ReqState] /\ adm \in [Admins -> AdmState]
  BY <1>1, ConstantsOK DEF IdleReq, IdleAdm, ReqState, ReqPCs, AdmState, AdmPCs, Kinds
<1> QED
  BY <1>2, ConstantsOK, TimerTypes DEF Init, TypeOK, Statuses, NoEntry

(* No behaviour of the authentication code leaves the types of its variables. *)
THEOREM TypeCorrect == Spec => []TypeOK
<1>1. Init => TypeOK
  BY InitTypes
<1> QED
  BY <1>1, TypeStep, PTL DEF Spec

-------------------------------------------------------------------------------
(* What the parts of the invariant read of a key and of a request. *)
LEMMA Ranges ==
  ASSUME TypeOK
  PROVE /\ \A k \in Keys : /\ cache[k].ttl \in 0 .. CacheTTL /\ tombstone[k] \in Nat
                           /\ revokedFor[k] \in 0 .. Grace + 1
        /\ \A r \in Requests : req[r].key \in Keys /\ req[r].stall \in 0 .. MaxStall
        /\ \A a \in Admins : adm[a].key \in Keys
        /\ \A k \in Keys : status[k] \in Statuses
        /\ CacheTTL \in Nat /\ MaxStall \in Nat /\ TombstoneTTL \in Nat
<1>1. \A k \in Keys : /\ cache[k] \in [debug : BOOLEAN, ttl : 0 .. CacheTTL]
                       /\ tombstone[k] \in 0 .. TombstoneTTL
                       /\ revokedFor[k] \in 0 .. Grace + 1 /\ status[k] \in Statuses
  BY DEF TypeOK
<1>2. \A r \in Requests : req[r] \in ReqState
  BY DEF TypeOK
<1>3. \A a \in Admins : adm[a] \in AdmState
  BY DEF TypeOK
<1> QED
  BY <1>1, <1>2, <1>3, ConstantsOK DEF ReqState, AdmState

(* The strengthened invariant is inductive. *)
LEMMA InvStep == IInv /\ [Next]_vars => IInv'
<1> SUFFICES ASSUME IInv, [Next]_vars
             PROVE (RedisInv /\ CacheInv /\ FillInv /\ AdminInv)'
  BY TypeStep DEF IInv
<1> USE DEF database, redis, ages, history
<1>t. TypeOK /\ TypeOK'
  BY TypeStep DEF IInv
<1>r. TypeOK /\ RedisInv /\ CacheInv /\ FillInv /\ AdminInv
  BY DEF IInv
<1>1. ASSUME NEW r \in Requests, AuthStep(r)
      PROVE (RedisInv /\ CacheInv /\ FillInv /\ AdminInv)'
  <2>1. CASE AuthStart(r) \/ AuthTombstone(r) \/ AuthGet(r) \/ AuthReturn(r)
    <3>1. \A q \in Requests : req'[q].pc = "fill" => req'[q] = req[q]
      <4>1. \A q \in Requests \ {r} : req'[q] = req[q]
        BY <2>1, <1>t DEF TypeOK, AuthStart, AuthTombstone, AuthGet, AuthReturn
      <4>2. req'[r].pc # "fill"
        <5>1. CASE AuthStart(r)
          BY <5>1, <1>t DEF TypeOK, AuthStart
        <5>2. CASE AuthTombstone(r)
          BY <5>2, <1>t DEF TypeOK, AuthTombstone, ReqState
        <5>3. CASE AuthGet(r)
          BY <5>3, <1>t DEF TypeOK, AuthGet, ReqState
        <5>4. CASE AuthReturn(r)
          BY <5>4, <1>t DEF TypeOK, AuthReturn, IdleReq
        <5> QED
          BY <2>1, <5>1, <5>2, <5>3, <5>4
      <4> QED
        BY <4>1, <4>2
    <3>2. /\ UNCHANGED <<status, rowLock, cache, tombstone, adm, revokedFor>>
          /\ barred' = barred
      BY <2>1 DEF AuthStart, AuthTombstone, AuthGet, AuthReturn
    <3> QED
      BY <1>r, <3>1, <3>2 DEF RedisInv, CacheInv, FillInv, AdminInv
  <2>2. CASE AuthLookup(r)
    <3>1. UNCHANGED <<status, rowLock, cache, tombstone, adm, revokedFor, barred>>
      BY <2>2 DEF AuthLookup
    <3>2. \A q \in Requests \ {r} : req'[q] = req[q]
      BY <2>2, <1>t DEF TypeOK, AuthLookup
    <3>3. req'[r].pc = "fill" =>
            req'[r].good /\ status[req'[r].key] = "active"
      BY <2>2, <1>t DEF TypeOK, AuthLookup, ReqState
    <3> QED
      BY <1>r, <3>1, <3>2, <3>3 DEF RedisInv, CacheInv, FillInv, AdminInv
  <2>3. CASE AuthFill(r)
    <3>1. UNCHANGED <<status, rowLock, tombstone, adm, revokedFor, barred>>
      BY <2>3 DEF AuthFill
    <3>2. /\ \A q \in Requests \ {r} : req'[q] = req[q]
          /\ req'[r].pc = "accepted"
      BY <2>3, <1>t DEF TypeOK, AuthFill, ReqState
    <3>3. FillInv' /\ AdminInv'
      BY <1>r, <3>1, <3>2 DEF FillInv, AdminInv
    <3>4. \A k \in Keys : cache'[k] = cache[k] \/ (k = req[r].key /\ cache'[k].ttl = CacheTTL)
      BY <2>3, <1>t DEF TypeOK, AuthFill
    <3>5. \/ status[req[r].key] = "active"
          \/ status[req[r].key] = "revoked" /\ revokedFor[req[r].key] <= req[r].stall
      BY <2>3, <1>r DEF AuthFill, FillInv
    <3>6. RedisInv'
      BY <1>r, <3>1, <3>4, <3>5 DEF RedisInv
    <3>7. CacheInv'
      BY <1>r, <1>t, Ranges, <3>1, <3>4, <3>5 DEF CacheInv, Grace
    <3> QED
      BY <3>3, <3>6, <3>7
  <2> QED
    BY <1>1, <2>1, <2>2, <2>3 DEF AuthStep
<1>2. ASSUME NEW k \in Keys, CreateKey(k)
      PROVE (RedisInv /\ CacheInv /\ FillInv /\ AdminInv)'
  <2>1. UNCHANGED <<rowLock, cache, tombstone, req, adm, revokedFor, barred>>
    BY <1>2 DEF CreateKey
  <2>2. status[k] = "absent" /\ status' = [status EXCEPT ![k] = "active"]
    BY <1>2 DEF CreateKey
  <2>3. \A x \in Keys : status'[x] = IF x = k THEN "active" ELSE status[x]
    BY <2>2, <1>t DEF TypeOK
  <2> QED
    BY <1>r, <1>t, Ranges, <2>1, <2>2, <2>3 DEF RedisInv, CacheInv, FillInv, AdminInv
<1>3. ASSUME NEW a \in Admins, AdminStep(a)
      PROVE (RedisInv /\ CacheInv /\ FillInv /\ AdminInv)'
  <2>k. adm[a].key \in Keys
    BY <1>t, Ranges
  <2>2. CASE AdminRead(a)
    <3>1. UNCHANGED <<status, cache, tombstone, req, revokedFor, barred>>
      BY <2>2 DEF AdminRead
    <3>2. PICK kind \in Operations, k \in Managed, value \in BOOLEAN :
            /\ status[k] = "active"
            /\ kind = "rotate" => rowLock[k] = None
            /\ adm' = [adm EXCEPT ![a] = [pc |-> "commit", kind |-> kind, key |-> k,
                        value |-> kind = "update" /\ value, seen |-> debug[k]]]
            /\ rowLock' = IF kind = "rotate" THEN [rowLock EXCEPT ![k] = a] ELSE rowLock
      BY <2>2 DEF AdminRead
    <3>k. k \in Keys
      BY ConstantsOK
    <3>3. /\ \A b \in Admins \ {a} : adm'[b] = adm[b]
          /\ adm'[a].pc = "commit" /\ adm'[a].kind = kind /\ adm'[a].key = k
      BY <3>2, <3>k, <1>t DEF TypeOK
    <3>4. /\ kind = "rotate" => rowLock'[k] = a
          /\ kind # "rotate" => rowLock' = rowLock
          /\ \A x \in Keys \ {k} : rowLock'[x] = rowLock[x]
      BY <3>2, <3>k, <1>t DEF TypeOK
    <3>5. AdminInv'
      BY <1>r, <1>t, Ranges, ConstantsOK, <3>k, <3>1, <3>2, <3>3, <3>4 DEF AdminInv
    <3> QED
      BY <1>r, <3>1, <3>5 DEF RedisInv, CacheInv, FillInv
  <2>3. CASE AdminCommit(a)
    <3>1. UNCHANGED <<cache, tombstone, req, revokedFor, barred>>
      BY <2>3 DEF AdminCommit
    <3>2. /\ \A b \in Admins \ {a} : adm'[b] = adm[b]
          /\ adm'[a].pc = "invalidate" /\ adm'[a].kind = adm[a].kind
          /\ adm'[a].key = adm[a].key
      BY <2>3, <1>t DEF TypeOK, AdminCommit, AdmState
    <3>3. status[adm[a].key] # "absent"
      BY <2>3, <1>r DEF AdminCommit, AdminInv
    <3>4. CASE CommitRevoke(a)
      <4>1. /\ rowLock' = rowLock /\ rowLock[adm[a].key] = None
            /\ \A x \in Keys : status'[x] = IF x = adm[a].key THEN "revoked" ELSE status[x]
        BY <3>4, <2>k, <1>t DEF TypeOK, CommitRevoke
      <4>2. RedisInv' /\ CacheInv' /\ FillInv'
        BY <1>r, <1>t, Ranges, ConstantsOK, <3>1, <3>3, <4>1
           DEF RedisInv, CacheInv, FillInv, Statuses, Grace
      <4>3. AdminInv'
        BY <1>r, <1>t, Ranges, ConstantsOK, <3>2, <4>1 DEF AdminInv
      <4> QED
        BY <4>2, <4>3
    <3>5. CASE CommitRotate(a)
      <4>1. PICK n \in Keys : /\ status[n] = "absent"
                              /\ status' = [status EXCEPT ![adm[a].key] = "revoked",
                                                          ![n] = "active"]
        BY <3>5 DEF CommitRotate
      <4>2. /\ status[adm[a].key] = "active" /\ rowLock[adm[a].key] = a
            /\ n # adm[a].key
        BY <2>3, <3>5, <4>1, <1>r DEF AdminCommit, CommitRotate, AdminInv
      <4>3. \A x \in Keys : status'[x] = IF x = adm[a].key THEN "revoked"
                                         ELSE IF x = n THEN "active" ELSE status[x]
        BY <4>1, <4>2, <2>k, <1>t DEF TypeOK
      <4>9. /\ status[n] = "absent" /\ status'[n] = "active"
            /\ status'[adm[a].key] = "revoked"
            /\ \A x \in Keys \ {adm[a].key, n} : status'[x] = status[x]
        BY <4>1, <4>2, <4>3, <2>k
      <4>4. \A x \in Keys \ {adm[a].key} : rowLock'[x] = rowLock[x]
        BY <3>5, <1>t DEF TypeOK, CommitRotate
      <4>5. RedisInv'
        <5>1. \A x \in Keys : /\ status'[x] # "revoked" => status[x] # "revoked"
                              /\ status'[x] = "absent" => status[x] = "absent"
          BY <4>9
        <5> QED
          BY <1>r, <3>1, <5>1 DEF RedisInv
      <4>6. CacheInv'
        <5>1. cache[adm[a].key].ttl <= CacheTTL /\ revokedFor[adm[a].key] = 0
          BY <1>t, <1>r, Ranges, <2>k, <4>2 DEF RedisInv
        <5>2. cache[adm[a].key].ttl \in Nat /\ CacheTTL \in Nat /\ MaxStall \in Nat
          BY <1>t, Ranges, <2>k
        <5>3. revokedFor[adm[a].key] + cache[adm[a].key].ttl <= Grace
          BY <5>1, <5>2 DEF Grace
        <5> QED
          BY <1>r, <3>1, <4>3, <5>3 DEF CacheInv
      <4>7. FillInv'
        <5>1. \A r \in Requests : req[r].key \in Keys /\ req[r].stall >= 0
          BY <1>t, Ranges
        <5>2. revokedFor[adm[a].key] = 0
          BY <1>r, <2>k, <4>2 DEF RedisInv
        <5> QED
          BY <1>r, <3>1, <4>1, <4>3, <5>1, <5>2 DEF FillInv
      <4>8. AdminInv'
        <5> SUFFICES ASSUME NEW b \in Admins
                     PROVE /\ adm'[b].pc = "commit" => status'[adm'[b].key] # "absent"
                           /\ adm'[b].pc = "commit" /\ adm'[b].kind = "rotate" =>
                                /\ rowLock'[adm'[b].key] = b
                                /\ status'[adm'[b].key] = "active"
                           /\ adm'[b].pc = "invalidate" /\ adm'[b].kind # "update" =>
                                status'[adm'[b].key] = "revoked"
          BY DEF AdminInv
        <5>1. CASE b = a
          BY <3>2, <4>3, <2>k, <5>1
        <5>2. CASE b # a
          <6>1. adm'[b] = adm[b] /\ adm[b].key \in Keys
            BY <3>2, <5>2, <1>t, Ranges
          <6>2. adm[b].pc = "commit" /\ adm[b].kind = "rotate" => adm[b].key # adm[a].key
            BY <1>r, <4>2, <5>2 DEF AdminInv
          <6>3. /\ status[adm[b].key] # "absent" => status'[adm[b].key] # "absent"
                /\ status[adm[b].key] = "revoked" => status'[adm[b].key] = "revoked"
                /\ adm[b].key # adm[a].key /\ status[adm[b].key] = "active" =>
                     status'[adm[b].key] = "active"
                /\ adm[b].key # adm[a].key => rowLock'[adm[b].key] = rowLock[adm[b].key]
            BY <6>1, <4>4, <4>9
          <6> QED
            BY <1>r, <6>1, <6>2, <6>3 DEF AdminInv
        <5> QED
          BY <5>1, <5>2
      <4> QED
        BY <4>5, <4>6, <4>7, <4>8
    <3>6. CASE CommitUpdate(a)
      <4>1. UNCHANGED <<status, rowLock>> /\ adm[a].kind = "update"
        BY <3>6 DEF CommitUpdate
      <4> QED
        BY <1>r, <3>1, <3>2, <4>1 DEF RedisInv, CacheInv, FillInv, AdminInv
    <3> QED
      BY <2>3, <3>4, <3>5, <3>6 DEF AdminCommit
  <2>4. CASE AdminFinish(a)
    <3>1. UNCHANGED <<status, rowLock, req, revokedFor>>
      BY <2>4 DEF AdminFinish
    <3>2. /\ \A b \in Admins \ {a} : adm'[b] = adm[b]
          /\ adm'[a].pc = "idle"
      BY <2>4, <1>t DEF TypeOK, AdminFinish, IdleAdm
    <3>3. FillInv' /\ AdminInv'
      BY <1>r, <3>1, <3>2 DEF FillInv, AdminInv
    <3>4. adm[a].kind # "update" => status[adm[a].key] = "revoked"
      BY <2>4, <1>r DEF AdminFinish, AdminInv
    <3>5. \A k \in Keys : cache'[k] = cache[k] \/ cache'[k].ttl = 0
      BY <2>4, <1>t DEF TypeOK, AdminFinish, Invalidate, NoEntry
    <3>6. \A k \in Keys : \/ tombstone'[k] = tombstone[k] /\ (k \in barred' => k \in barred)
                          \/ status[k] = "revoked"
      BY <2>4, <3>4, <1>t DEF TypeOK, AdminFinish, Invalidate
    <3> QED
      BY <1>r, <3>1, <3>3, <3>5, <3>6 DEF RedisInv, CacheInv
  <2>5. CASE AdminAbort(a)
    <3>1. UNCHANGED <<status, cache, tombstone, req, revokedFor, barred>>
      BY <2>5 DEF AdminAbort
    <3>2. /\ \A b \in Admins \ {a} : adm'[b] = adm[b]
          /\ adm'[a].pc = "idle"
      BY <2>5, <1>t DEF TypeOK, AdminAbort, IdleAdm
    <3>3. \A k \in Keys : rowLock[k] # a => rowLock'[k] = rowLock[k]
      BY <2>5 DEF AdminAbort
    <3> QED
      BY <1>r, <1>t, Ranges, <3>1, <3>2, <3>3 DEF RedisInv, CacheInv, FillInv, AdminInv
  <2> QED
    BY <1>3, <2>2, <2>3, <2>4, <2>5 DEF AdminStep
<1>4. CASE Tick
  <2>1. UNCHANGED <<status, rowLock, adm, barred>>
    BY <1>4 DEF Tick
  <2>2. \A k \in Keys : /\ cache[k].ttl > 1 => cache'[k].ttl = cache[k].ttl - 1
                        /\ ~ (cache[k].ttl > 1) => cache'[k].ttl = 0
    BY <1>4, <1>t DEF TypeOK, Tick, NoEntry
  <2>3. \A k \in Keys : tombstone[k] = 0 => tombstone'[k] = 0
    BY <1>4 DEF Tick, Minus1
  <2>4. \A k \in Keys : /\ status[k] # "revoked" => revokedFor'[k] = revokedFor[k]
                        /\ status[k] = "revoked" => revokedFor'[k] = Older(revokedFor[k])
    BY <1>4 DEF Tick
  <2>5. \A k \in Keys : revokedFor'[k] <= revokedFor[k] + 1
    BY <2>4, <1>t, Ranges, TimerTypes DEF Older
  <2>6. \A r \in Requests : req'[r].pc = "fill" =>
          /\ req[r].pc = "fill" /\ req'[r].stall = req[r].stall + 1
          /\ req'[r].key = req[r].key /\ req'[r].good = req[r].good
    BY <1>4, <1>t DEF TypeOK, Tick, ReqState
  <2>7. RedisInv'
    BY <1>r, <1>t, Ranges, <2>1, <2>2, <2>3, <2>4 DEF RedisInv
  <2>8. CacheInv'
    <3> SUFFICES ASSUME NEW k \in Keys, status[k] = "revoked", cache'[k].ttl > 0
                 PROVE revokedFor'[k] + cache'[k].ttl <= Grace
      BY <2>1 DEF CacheInv
    <3>1. cache[k].ttl \in Nat /\ revokedFor[k] \in Nat /\ revokedFor'[k] \in Nat
      BY <1>t, Ranges, TimerTypes, <2>4 DEF Older
    <3>2. cache[k].ttl > 0 /\ cache'[k].ttl = cache[k].ttl - 1
      BY <2>2, <3>1
    <3>3. revokedFor[k] + cache[k].ttl <= Grace
      BY <1>r, <3>2 DEF CacheInv
    <3> QED
      BY <2>5, <3>1, <3>2, <3>3, TimerTypes
  <2>9. FillInv'
    <3> SUFFICES ASSUME NEW r \in Requests, req'[r].pc = "fill"
                 PROVE /\ req[r].good
                       /\ \/ status[req[r].key] = "active"
                          \/ /\ status[req[r].key] = "revoked"
                             /\ revokedFor'[req[r].key] <= req[r].stall + 1
      BY <2>1, <2>6 DEF FillInv
    <3>1. /\ req[r].key \in Keys /\ req[r].stall \in Nat
          /\ revokedFor[req[r].key] \in Nat /\ revokedFor'[req[r].key] \in Nat
      BY <1>t, Ranges, TimerTypes, <2>4, ConstantsOK DEF Older
    <3> QED
      BY <1>r, <2>5, <2>6, <3>1 DEF FillInv
  <2> QED
    BY <1>r, <2>1, <2>7, <2>8, <2>9 DEF AdminInv
<1>5. CASE UNCHANGED vars
  BY <1>r, <1>5 DEF vars, RedisInv, CacheInv, FillInv, AdminInv
<1> QED
  BY <1>1, <1>2, <1>3, <1>4, <1>5 DEF Next

(* The strengthened invariant holds in every reachable state. *)
THEOREM Invariant == Spec => []IInv
<1>1. Init => TypeOK
  BY InitTypes
<1>2. Init => RedisInv /\ CacheInv /\ FillInv /\ AdminInv
  BY ConstantsOK DEF Init, RedisInv, CacheInv, FillInv, AdminInv, NoEntry, IdleReq, IdleAdm
<1> QED
  BY <1>1, <1>2, InvStep, PTL DEF Spec, IInv

-------------------------------------------------------------------------------
(* Refinement of KeyAuthority. *)

AskOf(s) == [phase |-> Phase(s.pc), key |-> s.key, good |-> s.good]

(* A request that moves between two points the authority does not tell apart  *)
(* leaves the authority's state alone.                                        *)
LEMMA SilentMove ==
  ASSUME NEW r \in Requests, NEW s \in ReqState, req' = [req EXCEPT ![r] = s],
         TypeOK, AskOf(s) = AskOf(req[r]), UNCHANGED <<status, revokedFor>>
  PROVE UNCHANGED Authority!vars
<1>1. \A q \in Requests : AskOf(req'[q]) = AskOf(req[q])
  BY DEF TypeOK
<1> QED
  BY <1>1 DEF Authority!vars, AskOf

(* An answer of the code is one the authority allows. *)
LEMMA AnswerMove ==
  ASSUME NEW r \in Requests, NEW s \in ReqState, req' = [req EXCEPT ![r] = s],
         TypeOK, UNCHANGED <<status, revokedFor>>,
         Phase(req[r].pc) = "asked", s.key = req[r].key, s.good = req[r].good,
         \/ s.pc = "accepted" /\ Authority!MayAccept(r)
         \/ s.pc = "rejected" /\ Authority!MayReject(r)
  PROVE Authority!Answer(r)
<1> DEFINE ask == [q \in Requests |-> [phase |-> Phase(req[q].pc), key |-> req[q].key,
                                       good |-> req[q].good]]
<1>1. \A q \in Requests : req'[q] = IF q = r THEN s ELSE req[q]
  BY DEF TypeOK
<1>2. Phase(s.pc) = s.pc
  BY DEF Phase
<1>3. ask' = [ask EXCEPT ![r].phase = s.pc]
  BY <1>1, <1>2
<1>4. ask[r].phase = "asked"
  OBVIOUS
<1> QED
  BY <1>3, <1>4 DEF Authority!Answer

(* Every step of the code is a step of the authority, or none. *)
LEMMA RefinementStep == IInv /\ IInv' /\ [Next]_vars => [Authority!Next]_(Authority!vars)
<1> SUFFICES ASSUME IInv, IInv', [Next]_vars PROVE [Authority!Next]_(Authority!vars)
  OBVIOUS
<1> USE DEF database, redis, ages, history
<1>r. TypeOK /\ TypeOK' /\ RedisInv /\ CacheInv /\ FillInv /\ AdminInv
  BY DEF IInv
<1>1. ASSUME NEW r \in Requests, AuthStep(r) PROVE [Authority!Next]_(Authority!vars)
  <2>k. /\ req[r] \in ReqState /\ req'[r] \in ReqState /\ req' = [req EXCEPT ![r] = req'[r]]
        /\ req[r].key \in Keys /\ status[req[r].key] \in Statuses
        /\ UNCHANGED <<status, revokedFor>>
    <3>1. req[r] \in ReqState /\ req'[r] \in ReqState
      BY <1>r DEF TypeOK
    <3>2. UNCHANGED <<status, revokedFor>>
      BY <1>1 DEF AuthStep, AuthStart, AuthTombstone, AuthGet, AuthLookup, AuthFill, AuthReturn
    <3>3. \A q \in Requests \ {r} : req'[q] = req[q]
      BY <1>1, <1>r DEF TypeOK, AuthStep, AuthStart, AuthTombstone, AuthGet, AuthLookup,
         AuthFill, AuthReturn
    <3> QED
      BY <3>1, <3>2, <3>3, <1>r, Ranges DEF TypeOK
  <2>s. ASSUME AskOf(req'[r]) = AskOf(req[r]) PROVE UNCHANGED Authority!vars
    BY <2>k, <2>s, <1>r, SilentMove
  <2>a. ASSUME Phase(req[r].pc) = "asked", req'[r].key = req[r].key,
               req'[r].good = req[r].good,
               \/ req'[r].pc = "accepted" /\ Authority!MayAccept(r)
               \/ req'[r].pc = "rejected" /\ Authority!MayReject(r)
        PROVE Authority!Next
    BY <2>k, <2>a, <1>r, AnswerMove DEF Authority!Next
  <2> DEFINE ask == [q \in Requests |-> [phase |-> Phase(req[q].pc), key |-> req[q].key,
                                         good |-> req[q].good]]
  <2>e. ask' = [ask EXCEPT ![r] = AskOf(req'[r])]
    <3>1. \A q \in Requests \ {r} : req'[q] = req[q]
      BY <2>k, <1>r DEF TypeOK
    <3> QED
      BY <3>1 DEF AskOf
  <2>1. CASE AuthStart(r)
    <3>1. PICK k \in Keys, good \in BOOLEAN, up \in BOOLEAN :
            req'[r] = [pc |-> IF up THEN "exists" ELSE "lookup", key |-> k, good |-> good,
                       redis |-> up, seen |-> FALSE, stall |-> 0]
      BY <2>1, <1>r DEF TypeOK, AuthStart
    <3>2. AskOf(req'[r]) = [phase |-> "asked", key |-> k, good |-> good]
      BY <3>1 DEF AskOf, Phase
    <3>3. ask[r].phase = "idle"
      BY <2>1 DEF AuthStart, Phase
    <3>4. ask' = [ask EXCEPT ![r] = [phase |-> "asked", key |-> k, good |-> good]]
      BY <2>e, <3>2
    <3>5. Authority!Ask(r)
      BY <2>k, <3>3, <3>4 DEF Authority!Ask
    <3> QED
      BY <3>5 DEF Authority!Next
  <2>2. CASE AuthTombstone(r)
    <3>1. /\ req'[r].key = req[r].key /\ req'[r].good = req[r].good
          /\ Phase(req[r].pc) = "asked"
          /\ \/ req'[r].pc = "get"
             \/ req'[r].pc = "rejected" /\ tombstone[req[r].key] > 0
      BY <2>2, <2>k, <1>r DEF TypeOK, AuthTombstone, ReqState, Phase
    <3>2. tombstone[req[r].key] > 0 => status[req[r].key] = "revoked"
      BY <2>k, <1>r DEF RedisInv
    <3> QED
      BY <3>1, <3>2, <2>s, <2>a DEF AskOf, Phase, Authority!MayReject
  <2>3. CASE AuthGet(r)
    <3>1. /\ req'[r].key = req[r].key /\ req'[r].good = req[r].good
          /\ Phase(req[r].pc) = "asked"
          /\ \/ req'[r].pc = "lookup"
             \/ req'[r].pc = "accepted" /\ req[r].good /\ cache[req[r].key].ttl > 0
             \/ req'[r].pc = "rejected" /\ ~ req[r].good
      BY <2>3, <2>k, <1>r DEF TypeOK, AuthGet, ReqState, Phase
    <3>2. cache[req[r].key].ttl > 0 =>
            \/ status[req[r].key] = "active"
            \/ status[req[r].key] = "revoked" /\ revokedFor[req[r].key] <= Grace
      BY <2>k, <1>r, Ranges, TimerTypes DEF RedisInv, CacheInv, Statuses
    <3> QED
      BY <3>1, <3>2, <2>s, <2>a DEF AskOf, Phase, Authority!MayAccept, Authority!MayReject
  <2>4. CASE AuthLookup(r)
    <3>1. /\ req'[r].key = req[r].key /\ req'[r].good = req[r].good
          /\ Phase(req[r].pc) = "asked"
          /\ \/ req'[r].pc = "fill"
             \/ req'[r].pc = "rejected" /\ ~ (status[req[r].key] = "active" /\ req[r].good)
      BY <2>4, <2>k, <1>r DEF TypeOK, AuthLookup, ReqState, Phase
    <3> QED
      BY <3>1, <2>s, <2>a DEF AskOf, Phase, Authority!MayReject
  <2>5. CASE AuthFill(r)
    <3>1. /\ req'[r].key = req[r].key /\ req'[r].good = req[r].good
          /\ Phase(req[r].pc) = "asked" /\ req'[r].pc = "accepted" /\ req[r].pc = "fill"
      BY <2>5, <2>k, <1>r DEF TypeOK, AuthFill, ReqState, Phase
    <3>2. /\ req[r].good
          /\ \/ status[req[r].key] = "active"
             \/ status[req[r].key] = "revoked" /\ revokedFor[req[r].key] <= Grace
      BY <3>1, <2>k, <1>r, Ranges DEF FillInv, Grace
    <3> QED
      BY <3>1, <3>2, <2>a DEF Authority!MayAccept
  <2>6. CASE AuthReturn(r)
    <3>1. req'[r] = IdleReq(req[r].key)
      BY <2>6, <1>r DEF TypeOK, AuthReturn
    <3>2. AskOf(req'[r]) = [phase |-> "idle", key |-> req[r].key, good |-> FALSE]
      BY <3>1 DEF AskOf, Phase, IdleReq
    <3>3. ask[r].phase \in {"accepted", "rejected"} /\ ask[r].key = req[r].key
      BY <2>6 DEF AuthReturn, Phase
    <3>4. ask' = [ask EXCEPT ![r].phase = "idle", ![r].good = FALSE]
      BY <2>e, <3>2, <3>3
    <3>5. Authority!Done(r)
      BY <2>k, <3>3, <3>4 DEF Authority!Done
    <3> QED
      BY <3>5 DEF Authority!Next
  <2> QED
    BY <1>1, <2>1, <2>2, <2>3, <2>4, <2>5, <2>6 DEF AuthStep
<1>2. ASSUME NEW k \in Keys, CreateKey(k) PROVE [Authority!Next]_(Authority!vars)
  BY <1>2 DEF CreateKey, Authority!Next, Authority!Create
<1>3. ASSUME NEW a \in Admins, AdminStep(a) PROVE [Authority!Next]_(Authority!vars)
  <2>k. adm[a].key \in Keys /\ status[adm[a].key] \in Statuses
    BY <1>r, Ranges
  <2>1. CASE AdminRead(a) \/ AdminFinish(a) \/ AdminAbort(a)
    BY <2>1 DEF AdminRead, AdminFinish, AdminAbort, Authority!vars
  <2>2. CASE AdminCommit(a)
    <3>1. UNCHANGED <<req, revokedFor>>
      BY <2>2 DEF AdminCommit
    <3>2. CASE CommitRevoke(a)
      <4>1. status[adm[a].key] = "active" \/ status' = status
        BY <2>2, <3>2, <2>k, <1>r DEF AdminCommit, CommitRevoke, AdminInv, TypeOK, Statuses
      <4> QED
        BY <3>1, <3>2, <4>1, <2>k DEF CommitRevoke, Authority!Next, Authority!Revoke,
           Authority!vars
    <3>3. CASE CommitRotate(a)
      <4>1. status[adm[a].key] = "active"
        BY <2>2, <3>3, <1>r DEF AdminCommit, CommitRotate, AdminInv
      <4> QED
        BY <3>1, <3>3, <4>1, <2>k DEF CommitRotate, Authority!Next, Authority!Rotate
    <3>4. CASE CommitUpdate(a)
      BY <3>1, <3>4 DEF CommitUpdate, Authority!vars
    <3> QED
      BY <2>2, <3>2, <3>3, <3>4 DEF AdminCommit
  <2> QED
    BY <1>3, <2>1, <2>2 DEF AdminStep
<1>4. CASE Tick
  <2>1. \A r \in Requests : AskOf(req'[r]) = AskOf(req[r])
    BY <1>4, <1>r DEF Tick, TypeOK, ReqState, AskOf
  <2>2. revokedFor' = [k \in Keys |-> Authority!Age(k)]
    BY <1>4 DEF Tick, Older, Authority!Age
  <2> QED
    BY <1>4, <2>1, <2>2 DEF Tick, AskOf, Authority!Next, Authority!Tick
<1>5. CASE UNCHANGED vars
  BY <1>5 DEF vars, Authority!vars
<1> QED
  BY <1>1, <1>2, <1>3, <1>4, <1>5 DEF Next

(* For any numbers and time limits, and whatever fails, the authentication     *)
(* code implements the authority.                                             *)
THEOREM Refinement == Spec => ImplementsAuthority
<1>1. Init => Authority!Init
  BY DEF Init, IdleReq, Phase, Authority!Init
<1> QED
  BY <1>1, Invariant, RefinementStep, PTL DEF Spec, ImplementsAuthority, Authority!Spec

-------------------------------------------------------------------------------
(* A tombstone that outlives Grace is there until the last cache entry of its  *)
(* key is gone, whatever happens to other commands.                            *)
LEMMA LateStep ==
  ASSUME TombstoneTTL >= CacheTTL + MaxStall
  PROVE IInv /\ LateIInv /\ [Next]_vars => LateIInv'
<1> SUFFICES ASSUME IInv, LateIInv, [Next]_vars PROVE LateIInv'
  OBVIOUS
<1> USE DEF database, redis, ages, history
<1>r. TypeOK /\ RedisInv /\ CacheInv /\ FillInv /\ AdminInv /\ TombstoneInv /\ LateInv
  BY DEF IInv, LateIInv
<1>s. barred \subseteq Keys /\ late \subseteq Requests
  BY <1>r DEF TypeOK
<1>1. ASSUME NEW r \in Requests, AuthStep(r) PROVE LateIInv'
  <2>1. TombstoneInv'
    <3>1. UNCHANGED <<tombstone, revokedFor, barred>>
      BY <1>1 DEF AuthStep, AuthStart, AuthTombstone, AuthGet, AuthLookup, AuthFill, AuthReturn
    <3> QED
      BY <3>1, <1>r DEF TombstoneInv
  <2>2. \A q \in Requests \ {r} : req'[q] = req[q] /\ (q \in late' => q \in late)
    BY <1>1, <1>r DEF TypeOK, AuthStep, AuthStart, AuthTombstone, AuthGet, AuthLookup,
       AuthFill, AuthReturn
  <2>3. UNCHANGED <<revokedFor, barred>> /\ late' \subseteq Requests
    BY <1>1, <1>s DEF AuthStep, AuthStart, AuthTombstone, AuthGet, AuthLookup, AuthFill,
       AuthReturn
  <2>4. r \in late' =>
          /\ req'[r].key \in barred
          /\ req'[r].pc \in {"exists", "get", "lookup", "rejected"}
          /\ req'[r].pc = "get" => revokedFor[req'[r].key] >= Grace
    <3> SUFFICES ASSUME r \in late' PROVE
          /\ req'[r].key \in barred
          /\ req'[r].pc \in {"exists", "get", "lookup", "rejected"}
          /\ req'[r].pc = "get" => revokedFor[req'[r].key] >= Grace
      OBVIOUS
    <3>1. CASE AuthStart(r)
      BY <3>1, <1>r DEF TypeOK, AuthStart
    <3>2. CASE AuthReturn(r)
      BY <3>2 DEF AuthReturn
    <3>3. CASE AuthTombstone(r) \/ AuthGet(r) \/ AuthLookup(r) \/ AuthFill(r)
      <4>1. /\ r \in late /\ req'[r].key = req[r].key /\ req[r].key \in Keys
            /\ req[r] \in ReqState
        BY <3>3, <1>r, Ranges DEF TypeOK, AuthTombstone, AuthGet, AuthLookup, AuthFill, ReqState
      <4>2. /\ req[r].key \in barred /\ status[req[r].key] = "revoked"
            /\ tombstone[req[r].key] + revokedFor[req[r].key] >= Grace
            /\ req[r].pc \in {"exists", "get", "lookup", "rejected"}
            /\ req[r].pc = "get" => revokedFor[req[r].key] >= Grace
        BY <4>1, <1>r DEF LateInv, RedisInv, TombstoneInv
      <4>3. CASE AuthTombstone(r)
        <5>1. \/ req'[r].pc = "rejected"
              \/ req'[r].pc = "get" /\ tombstone[req[r].key] = 0
          BY <4>1, <4>3, <1>r DEF TypeOK, AuthTombstone, ReqState
        <5>2. tombstone[req[r].key] = 0 => revokedFor[req[r].key] >= Grace
          BY <4>1, <4>2, <1>r, Ranges, TimerTypes
        <5> QED
          BY <4>1, <4>2, <5>1, <5>2
      <4>4. CASE AuthGet(r)
        <5>1. ~ (cache[req[r].key].ttl > 0)
          BY <4>1, <4>2, <4>4, <1>r, Ranges, TimerTypes DEF AuthGet, CacheInv
        <5>2. req'[r].pc = "lookup"
          BY <4>1, <4>4, <5>1, <1>r DEF TypeOK, AuthGet, ReqState
        <5> QED
          BY <4>1, <4>2, <5>2
      <4>5. CASE AuthLookup(r)
        <5>1. req'[r].pc = "rejected"
          BY <4>1, <4>2, <4>5, <1>r DEF TypeOK, AuthLookup, ReqState
        <5> QED
          BY <4>1, <4>2, <5>1
      <4>6. CASE AuthFill(r)
        BY <4>2, <4>6 DEF AuthFill
      <4> QED
        BY <3>3, <4>3, <4>4, <4>5, <4>6
    <3> QED
      BY <1>1, <3>1, <3>2, <3>3 DEF AuthStep
  <2>5. LateInv'
    BY <1>r, <2>2, <2>3, <2>4 DEF LateInv
  <2> QED
    BY <2>1, <2>5 DEF LateIInv
<1>2. ASSUME NEW k \in Keys, CreateKey(k) PROVE LateIInv'
  BY <1>2, <1>r DEF CreateKey, LateIInv, TombstoneInv, LateInv
<1>3. ASSUME NEW a \in Admins, AdminStep(a) PROVE LateIInv'
  <2>1. CASE AdminRead(a) \/ AdminCommit(a) \/ AdminAbort(a)
    <3>1. UNCHANGED <<tombstone, req, revokedFor, barred, late>>
      BY <2>1 DEF AdminRead, AdminCommit, AdminAbort
    <3> QED
      BY <3>1, <1>r DEF LateIInv, TombstoneInv, LateInv
  <2>2. CASE AdminFinish(a)
    <3>1. UNCHANGED <<req, revokedFor, late>> /\ barred \subseteq barred'
      BY <2>2 DEF AdminFinish
    <3>2. CASE UNCHANGED <<tombstone, barred>>
      BY <3>1, <3>2, <1>r DEF LateIInv, TombstoneInv, LateInv
    <3>3. CASE adm[a].kind # "update" /\ Invalidate(a) /\ barred' = barred \cup {adm[a].key}
      <4>1. /\ adm[a].key \in Keys /\ tombstone'[adm[a].key] = TombstoneTTL
            /\ \A k \in Keys \ {adm[a].key} : tombstone'[k] = tombstone[k]
        BY <3>1, <3>3, <1>r, Ranges DEF TypeOK, Invalidate
      <4>2. barred' = barred \cup {adm[a].key}
        BY <3>3
      <4>3. TombstoneTTL + revokedFor[adm[a].key] >= Grace
        BY <4>1, <1>r, Ranges DEF Grace
      <4>4. TombstoneInv'
        BY <3>1, <4>1, <4>2, <4>3, <1>r, <1>s DEF TombstoneInv
      <4> QED
        BY <3>1, <4>4, <1>r DEF LateIInv, LateInv
    <3> QED
      BY <2>2, <3>2, <3>3 DEF AdminFinish, Invalidate
  <2> QED
    BY <1>3, <2>1, <2>2 DEF AdminStep
<1>4. CASE Tick
  <2>1. /\ UNCHANGED <<barred, late>>
        /\ \A r \in Requests : req'[r].pc = req[r].pc /\ req'[r].key = req[r].key
    BY <1>4, <1>r DEF TypeOK, Tick, ReqState
  <2>2. \A k \in barred : /\ revokedFor'[k] = Older(revokedFor[k])
                          /\ tombstone'[k] = Minus1(tombstone[k])
                          /\ tombstone[k] \in Nat /\ revokedFor[k] \in 0 .. Grace + 1
                          /\ tombstone[k] + revokedFor[k] >= Grace
    BY <1>4, <1>r, <1>s, Ranges DEF Tick, RedisInv, TombstoneInv
  <2>3. \A k \in barred : /\ revokedFor[k] >= Grace => revokedFor'[k] >= Grace
                          /\ tombstone'[k] + revokedFor'[k] >= Grace
    BY <2>2, TimerTypes DEF Older, Minus1
  <2>4. TombstoneInv'
    BY <2>1, <2>3 DEF TombstoneInv
  <2>5. LateInv'
    BY <2>1, <2>3, <1>r, <1>s DEF LateInv
  <2> QED
    BY <2>4, <2>5 DEF LateIInv
<1>5. CASE UNCHANGED vars
  BY <1>5, <1>r DEF vars, LateIInv, TombstoneInv, LateInv
<1> QED
  BY <1>1, <1>2, <1>3, <1>4, <1>5 DEF Next

(* When the tombstone outlives a cache entry by the longest delay of a cache   *)
(* fill, no request that begins after a revocation whose tombstone was set,    *)
(* and whose check for it does not raise, is accepted.                         *)
THEOREM Revocation ==
  ASSUME TombstoneTTL >= CacheTTL + MaxStall
  PROVE Spec => []RevocationImmediate
<1>1. Init => LateIInv
  BY DEF Init, LateIInv, TombstoneInv, LateInv
<1>2. IInv /\ LateIInv /\ [Next]_vars => LateIInv'
  BY LateStep
<1>3. LateIInv => RevocationImmediate
  BY DEF LateIInv, LateInv, RevocationImmediate
<1> QED
  BY <1>1, <1>2, <1>3, Invariant, PTL DEF Spec

-------------------------------------------------------------------------------
(* What is read of the cache, of requests and of ages below. *)
LEMMA DebugRanges ==
  ASSUME TypeOK
  PROVE /\ \A k \in Keys : /\ cache[k].ttl \in 0 .. CacheTTL
                           /\ changedFor[k] \in 0 .. Grace + 1
        /\ \A r \in Requests : /\ req[r] \in ReqState /\ req[r].key \in Keys
                               /\ req[r].stall \in 0 .. MaxStall
        /\ \A a \in Admins : adm[a] \in AdmState /\ adm[a].key \in Keys
        /\ CacheTTL \in Nat /\ MaxStall \in Nat
<1>1. \A k \in Keys : /\ cache[k] \in [debug : BOOLEAN, ttl : 0 .. CacheTTL]
                       /\ changedFor[k] \in 0 .. Grace + 1
  BY DEF TypeOK
<1>2. /\ \A r \in Requests : req[r] \in ReqState
      /\ \A a \in Admins : adm[a] \in AdmState
  BY DEF TypeOK
<1> QED
  BY <1>1, <1>2, ConstantsOK DEF ReqState, AdmState

(* No action lets a replaced debug_mode be kept for longer than Grace. *)
LEMMA StaleStep == TypeOK /\ StaleInv /\ [Next]_vars => StaleInv'
<1> SUFFICES ASSUME TypeOK, StaleInv, [Next]_vars PROVE StaleInv'
  OBVIOUS
<1> USE DEF database, redis, ages, history
<1>r. StaleEntryInv /\ StaleFillInv
  BY DEF StaleInv
<1>1. ASSUME NEW r \in Requests, AuthStep(r) PROVE StaleInv'
  <2>0. \A q \in Requests \ {r} : req'[q] = req[q]
    BY <1>1 DEF TypeOK, AuthStep, AuthStart, AuthTombstone, AuthGet, AuthLookup, AuthFill,
       AuthReturn
  <2>1. UNCHANGED <<debug, changedFor>>
    BY <1>1 DEF AuthStep, AuthStart, AuthTombstone, AuthGet, AuthLookup, AuthFill, AuthReturn
  <2>2. req'[r].pc = "fill" => req'[r].seen = debug[req'[r].key]
    <3>1. CASE AuthStart(r)
      BY <3>1 DEF TypeOK, AuthStart
    <3>2. CASE AuthTombstone(r)
      BY <3>2 DEF TypeOK, AuthTombstone, ReqState
    <3>3. CASE AuthGet(r)
      BY <3>3 DEF TypeOK, AuthGet, ReqState
    <3>4. CASE AuthLookup(r)
      BY <3>4 DEF TypeOK, AuthLookup, ReqState
    <3>5. CASE AuthFill(r)
      BY <3>5 DEF TypeOK, AuthFill, ReqState
    <3>6. CASE AuthReturn(r)
      BY <3>6 DEF TypeOK, AuthReturn, IdleReq
    <3> QED
      BY <1>1, <3>1, <3>2, <3>3, <3>4, <3>5, <3>6 DEF AuthStep
  <2>3. StaleFillInv'
    BY <2>0, <2>1, <2>2, <1>r DEF StaleFillInv
  <2>4. StaleEntryInv'
    <3>1. CASE AuthFill(r)
      <4>1. \A k \in Keys :
              \/ cache'[k] = cache[k]
              \/ k = req[r].key /\ cache'[k] = [debug |-> req[r].seen, ttl |-> CacheTTL]
        BY <3>1 DEF TypeOK, AuthFill
      <4>2. req[r].seen # debug[req[r].key] => changedFor[req[r].key] <= req[r].stall
        BY <3>1, <1>r DEF AuthFill, StaleFillInv
      <4> QED
        BY <4>1, <4>2, <2>1, <1>r, DebugRanges DEF StaleEntryInv, Grace
    <3>2. CASE UNCHANGED cache
      BY <3>2, <2>1, <1>r DEF StaleEntryInv
    <3> QED
      BY <1>1, <3>1, <3>2 DEF AuthStep, AuthStart, AuthTombstone, AuthGet, AuthLookup, AuthReturn
  <2> QED
    BY <2>3, <2>4 DEF StaleInv
<1>2. ASSUME NEW k \in Keys, CreateKey(k) PROVE StaleInv'
  BY <1>2, <1>r DEF CreateKey, StaleInv, StaleEntryInv, StaleFillInv
<1>3. ASSUME NEW a \in Admins, AdminStep(a) PROVE StaleInv'
  <2>1. CASE AdminRead(a) \/ AdminAbort(a)
    BY <2>1, <1>r DEF AdminRead, AdminAbort, StaleInv, StaleEntryInv, StaleFillInv
  <2>2. CASE AdminCommit(a)
    <3>1. UNCHANGED <<cache, req>>
      BY <2>2 DEF AdminCommit
    <3>2. \A k \in Keys : \/ debug'[k] = debug[k] /\ changedFor'[k] = changedFor[k]
                          \/ changedFor'[k] = 0
      <4>1. CASE CommitRevoke(a) \/ CommitRotate(a)
        BY <4>1 DEF CommitRevoke, CommitRotate
      <4>2. CASE CommitUpdate(a)
        BY <4>2 DEF CommitUpdate, TypeOK
      <4> QED
        BY <2>2, <4>1, <4>2 DEF AdminCommit
    <3>3. StaleEntryInv'
      BY <3>1, <3>2, <1>r, DebugRanges DEF StaleEntryInv, Grace
    <3>4. StaleFillInv'
      BY <3>1, <3>2, <1>r, DebugRanges DEF StaleFillInv
    <3> QED
      BY <3>3, <3>4 DEF StaleInv
  <2>3. CASE AdminFinish(a)
    <3>1. UNCHANGED <<debug, changedFor, req>>
      BY <2>3 DEF AdminFinish
    <3>2. \A k \in Keys : cache'[k] = cache[k] \/ cache'[k].ttl = 0
      BY <2>3 DEF AdminFinish, Invalidate, NoEntry, TypeOK
    <3> QED
      BY <3>1, <3>2, <1>r DEF StaleInv, StaleEntryInv, StaleFillInv
  <2> QED
    BY <1>3, <2>1, <2>2, <2>3 DEF AdminStep
<1>4. CASE Tick
  <2>1. UNCHANGED debug
    BY <1>4 DEF Tick
  <2>2. \A k \in Keys : changedFor'[k] \in Nat /\ changedFor'[k] <= changedFor[k] + 1
    BY <1>4, DebugRanges, TimerTypes DEF Tick, Older
  <2>3. \A k \in Keys :
          cache'[k].ttl > 0 => /\ cache[k].ttl > 0 /\ cache'[k].ttl = cache[k].ttl - 1
                               /\ cache'[k].debug = cache[k].debug
    <3> SUFFICES ASSUME NEW k \in Keys, cache'[k].ttl > 0
                 PROVE /\ cache[k].ttl > 0 /\ cache'[k].ttl = cache[k].ttl - 1
                       /\ cache'[k].debug = cache[k].debug
      OBVIOUS
    <3>1. /\ cache[k] \in [debug : BOOLEAN, ttl : 0 .. CacheTTL]
          /\ cache'[k] = IF cache[k].ttl > 1
                           THEN [cache[k] EXCEPT !.ttl = @ - 1] ELSE NoEntry
      BY <1>4 DEF Tick, TypeOK
    <3>2. CASE cache[k].ttl > 1
      <4>1. cache'[k] = [cache[k] EXCEPT !.ttl = @ - 1]
        BY <3>1, <3>2
      <4>2. cache'[k].ttl = cache[k].ttl - 1 /\ cache'[k].debug = cache[k].debug
        BY <3>1, <4>1
      <4>3. cache[k].ttl > 0
        BY <3>1, <3>2
      <4> QED
        BY <4>2, <4>3
    <3>3. CASE ~ (cache[k].ttl > 1)
      BY <3>1, <3>3 DEF NoEntry
    <3> QED
      BY <3>2, <3>3
  <2>4. \A r \in Requests :
          req'[r].pc = "fill" =>
            /\ req[r].pc = "fill" /\ req'[r].stall = req[r].stall + 1
            /\ req'[r].key = req[r].key /\ req'[r].seen = req[r].seen
    BY <1>4 DEF Tick, TypeOK, ReqState
  <2>5. StaleEntryInv'
    <3> SUFFICES ASSUME NEW k \in Keys, cache'[k].ttl > 0, cache'[k].debug # debug[k]
                 PROVE changedFor'[k] + cache'[k].ttl <= Grace
      BY <2>1 DEF StaleEntryInv
    <3>1. changedFor[k] + cache[k].ttl <= Grace
      BY <2>3, <1>r DEF StaleEntryInv
    <3>2. changedFor[k] \in Nat /\ cache[k].ttl \in Nat
      BY DebugRanges
    <3> QED
      BY <2>2, <2>3, <3>1, <3>2, TimerTypes
  <2>6. StaleFillInv'
    <3> SUFFICES ASSUME NEW r \in Requests, req'[r].pc = "fill",
                        req[r].seen # debug[req[r].key]
                 PROVE changedFor'[req[r].key] <= req[r].stall + 1
      BY <2>1, <2>4 DEF StaleFillInv
    <3>1. changedFor[req[r].key] <= req[r].stall
      BY <2>4, <1>r DEF StaleFillInv
    <3>2. /\ req[r].key \in Keys /\ req[r].stall \in Nat
          /\ changedFor[req[r].key] \in Nat
      BY DebugRanges
    <3> QED
      BY <2>2, <3>1, <3>2
  <2> QED
    BY <2>5, <2>6 DEF StaleInv
<1>5. CASE UNCHANGED vars
  BY <1>5, <1>r DEF vars, StaleInv, StaleEntryInv, StaleFillInv
<1> QED
  BY <1>1, <1>2, <1>3, <1>4, <1>5 DEF Next

(* A request that is accepted got its debug_mode from an entry or from a row    *)
(* it read itself.                                                             *)
LEMMA AcceptedFresh ==
  ASSUME TypeOK, StaleInv, Next, NEW r \in Requests,
         req[r].pc # "accepted", req'[r].pc = "accepted",
         req'[r].seen # debug[req[r].key]
  PROVE changedFor[req[r].key] <= Grace
<1> USE DEF database, redis, ages, history
<1>r. StaleEntryInv /\ StaleFillInv
  BY DEF StaleInv
<1>1. AuthGet(r) \/ AuthFill(r)
  <2>1. CASE Tick \/ (\E k \in Keys : CreateKey(k)) \/ (\E a \in Admins : AdminStep(a))
    <3>1. req'[r].pc = req[r].pc
      <4>1. CASE Tick
        BY <4>1 DEF Tick, TypeOK, ReqState
      <4>2. CASE \E k \in Keys : CreateKey(k)
        BY <4>2 DEF CreateKey
      <4>3. CASE \E a \in Admins : AdminStep(a)
        BY <4>3 DEF AdminStep, AdminRead, AdminCommit, AdminFinish, AdminAbort
      <4> QED
        BY <2>1, <4>1, <4>2, <4>3
    <3> QED
      BY <3>1
  <2>2. ASSUME NEW q \in Requests, AuthStep(q) PROVE AuthGet(r) \/ AuthFill(r)
    <3>1. CASE q # r
      <4>1. req'[r] = req[r]
        BY <2>2, <3>1 DEF TypeOK, AuthStep, AuthStart, AuthTombstone, AuthGet, AuthLookup,
           AuthFill, AuthReturn
      <4> QED
        BY <4>1
    <3>2. CASE q = r
      <4>1. CASE AuthStart(r)
        BY <4>1 DEF TypeOK, AuthStart
      <4>2. CASE AuthTombstone(r)
        BY <4>2 DEF TypeOK, AuthTombstone, ReqState
      <4>3. CASE AuthLookup(r)
        BY <4>3 DEF TypeOK, AuthLookup, ReqState
      <4>4. CASE AuthReturn(r)
        BY <4>4 DEF TypeOK, AuthReturn, IdleReq
      <4> QED
        BY <2>2, <3>2, <4>1, <4>2, <4>3, <4>4 DEF AuthStep
    <3> QED
      BY <3>1, <3>2
  <2> QED
    BY <2>1, <2>2 DEF Next
<1>2. CASE AuthGet(r)
  <2>1. cache[req[r].key].ttl > 0 /\ req'[r].seen = cache[req[r].key].debug
    BY <1>2, DebugRanges DEF TypeOK, AuthGet, ReqState
  <2>2. changedFor[req[r].key] + cache[req[r].key].ttl <= Grace
    BY <2>1, <1>r, DebugRanges DEF StaleEntryInv
  <2> QED
    BY <2>1, <2>2, DebugRanges, TimerTypes
<1>3. CASE AuthFill(r)
  <2>1. req'[r].seen = req[r].seen
    BY <1>3, DebugRanges DEF TypeOK, AuthFill, ReqState
  <2>2. changedFor[req[r].key] <= req[r].stall
    BY <1>3, <2>1, <1>r DEF AuthFill, StaleFillInv
  <2> QED
    BY <2>2, DebugRanges DEF Grace
<1> QED
  BY <1>1, <1>2, <1>3

(* Whatever fails, a replaced debug_mode is used for no longer than a cache    *)
(* entry lives plus the time its fill may be delayed.                          *)
THEOREM DebugBounded == Spec => StaleDebugBounded
<1>1. Init => StaleInv
  <2> SUFFICES ASSUME Init PROVE StaleEntryInv /\ StaleFillInv
    BY DEF StaleInv
  <2>1. \A k \in Keys : cache[k].ttl = 0
    BY DEF Init, NoEntry
  <2>2. \A r \in Requests : req[r].pc = "idle"
    BY DEF Init, IdleReq
  <2> QED
    BY <2>1, <2>2 DEF StaleEntryInv, StaleFillInv
<1>2. TypeOK /\ StaleInv /\ [Next]_vars =>
        [\A r \in Requests :
           /\ req[r].pc # "accepted" /\ req'[r].pc = "accepted"
           /\ req'[r].seen # debug[req[r].key]
           => changedFor[req[r].key] <= Grace]_vars
  BY AcceptedFresh
<1> QED
  BY <1>1, <1>2, StaleStep, TypeCorrect, PTL DEF Spec, StaleDebugBounded
===============================================================================
