----------------------------- MODULE KeyAuthority -----------------------------
(***************************************************************************)
(* What API-key authentication promises, with no cache, no Redis and no    *)
(* interleaving inside a request: the rows of the api_keys table decide,   *)
(* except that a revoked key may still be accepted for a grace period.     *)
(* ApiKeyAuth implements this specification.                               *)
(***************************************************************************)
EXTENDS Naturals

CONSTANTS
  Keys,       \* API keys that can be created
  Requests,   \* requests in flight that present an API key
  Grace       \* how long after its revocation a key may still be accepted

VARIABLES
  status,      \* status[k]: the row of k is absent, active or revoked
  revokedFor,  \* revokedFor[k]: time since k was revoked, at most Grace + 1
  ask          \* ask[r]: what request r presents, and the answer it got

vars == <<status, revokedFor, ask>>

Statuses == {"absent", "active", "revoked"}
Phases   == {"idle", "asked", "accepted", "rejected"}

TypeOK ==
  /\ status \in [Keys -> Statuses]
  /\ revokedFor \in [Keys -> 0 .. Grace + 1]
  /\ ask \in [Requests -> [phase : Phases, key : Keys, good : BOOLEAN]]

Init ==
  /\ status = [k \in Keys |-> "absent"]
  /\ revokedFor = [k \in Keys |-> 0]
  /\ ask \in [Requests -> [phase : {"idle"}, key : Keys, good : {FALSE}]]

(* A client presents the token of k, or a token that only shares k's prefix. *)
Ask(r) ==
  /\ ask[r].phase = "idle"
  /\ \E k \in Keys, good \in BOOLEAN :
       ask' = [ask EXCEPT ![r] = [phase |-> "asked", key |-> k, good |-> good]]
  /\ UNCHANGED <<status, revokedFor>>

MayAccept(r) ==
  /\ ask[r].good
  /\ \/ status[ask[r].key] = "active"
     \/ status[ask[r].key] = "revoked" /\ revokedFor[ask[r].key] <= Grace

MayReject(r) == ~ (ask[r].good /\ status[ask[r].key] = "active")

Answer(r) ==
  /\ ask[r].phase = "asked"
  /\ \/ MayAccept(r) /\ ask' = [ask EXCEPT ![r].phase = "accepted"]
     \/ MayReject(r) /\ ask' = [ask EXCEPT ![r].phase = "rejected"]
  /\ UNCHANGED <<status, revokedFor>>

Done(r) ==
  /\ ask[r].phase \in {"accepted", "rejected"}
  /\ ask' = [ask EXCEPT ![r].phase = "idle", ![r].good = FALSE]
  /\ UNCHANGED <<status, revokedFor>>

Create(k) ==
  /\ status[k] = "absent"
  /\ status' = [status EXCEPT ![k] = "active"]
  /\ UNCHANGED <<revokedFor, ask>>

Revoke(k) ==
  /\ status[k] = "active"
  /\ status' = [status EXCEPT ![k] = "revoked"]
  /\ UNCHANGED <<revokedFor, ask>>

Rotate(old, new) ==
  /\ status[old] = "active"
  /\ status[new] = "absent"
  /\ status' = [status EXCEPT ![old] = "revoked", ![new] = "active"]
  /\ UNCHANGED <<revokedFor, ask>>

(* One unit of time: the age of a revocation grows until it no longer matters. *)
Age(k) ==
  IF status[k] = "revoked" /\ revokedFor[k] <= Grace
    THEN revokedFor[k] + 1
    ELSE revokedFor[k]

Tick ==
  /\ revokedFor' = [k \in Keys |-> Age(k)]
  /\ UNCHANGED <<status, ask>>

Next ==
  \/ Tick
  \/ \E r \in Requests : Ask(r) \/ Answer(r) \/ Done(r)
  \/ \E k \in Keys : Create(k) \/ Revoke(k) \/ \E n \in Keys : Rotate(k, n)

Spec == Init /\ [][Next]_vars
===============================================================================
