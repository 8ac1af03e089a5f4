------------------------------- MODULE KeyQuota -------------------------------
(***************************************************************************)
(* The limit on the number of active API keys of one organization, and the *)
(* names given to its keys: concurrent create_api_key, rotate_api_key and  *)
(* revoke_api_key transactions (gateway/services/api_key_service.py) on    *)
(* the rows of the api_keys table.                                         *)
(*                                                                         *)
(* PostgreSQL at READ COMMITTED: each SELECT sees the rows committed when  *)
(* it starts; FOR UPDATE waits for the rows it found that others hold,     *)
(* then keeps those that still match; a transaction's writes appear, and   *)
(* its locks go, when it commits.                                          *)
(***************************************************************************)
EXTENDS Naturals, FiniteSets

CONSTANTS
  Rows,      \* rows that can ever be inserted (bounds the model)
  Sessions,  \* concurrent management requests of the organization
  Existing,  \* rows that may be there, active, at the start
  Kinds,     \* what the sessions do: any of create, rotate, revoke
  MaxKeys,   \* MAX_KEYS_PER_ORG
  Given,     \* names a caller may give: the N of "Key N", 0 for any other text
  None

ASSUME ConstantsOK ==
  /\ IsFiniteSet(Rows) /\ IsFiniteSet(Sessions) /\ Sessions # {}
  /\ MaxKeys \in Nat \ {0} /\ Given \subseteq Nat
  /\ Existing \subseteq Rows /\ Cardinality(Existing) <= MaxKeys
  /\ Kinds \subseteq {"create", "rotate", "revoke"}
  /\ None \notin Sessions

VARIABLES
  row,   \* row[i]: absent, active or revoked
  name,  \* name[i]: the N of "Key N", 0 for any other name
  again, \* history: the caller gave row i a "Key N" that a row had already
  lock,  \* lock[i]: the session that holds row i FOR UPDATE
  ses,   \* ses[s]: control state and locals of a session
  pinned \* rows of the start that nobody rotates or revokes in this behaviour

vars == <<row, name, again, lock, ses, pinned>>

Active == {i \in Rows : row[i] = "active"}

(* The row an INSERT makes: one that is not there yet, no matter which. *)
Fresh == {i \in Rows : row[i] = "absent" /\ i = CHOOSE j \in Rows : row[j] = "absent"}

PCs == {"idle", "lock", "count", "name", "insert", "find", "commit"}

SesState == [pc : PCs, kind : {"create", "rotate", "revoke"}, want : SUBSET Rows,
             number : Nat, given : BOOLEAN]

IdleSes == [pc |-> "idle", kind |-> "create", want |-> {}, number |-> 0, given |-> FALSE]

(* The type of every variable. *)
TypeOK ==
  /\ row \in [Rows -> {"absent", "active", "revoked"}]
  /\ name \in [Rows -> Nat]
  /\ again \in [Rows -> BOOLEAN]
  /\ lock \in [Rows -> Sessions \cup {None}]
  /\ ses \in [Sessions -> SesState]
  /\ pinned \subseteq Existing

Init ==
  /\ \E there \in SUBSET Existing :
       /\ row = [i \in Rows |-> IF i \in there THEN "active" ELSE "absent"]
       /\ pinned \in SUBSET there
  /\ name = [i \in Rows |-> 0]
  /\ again = [i \in Rows |-> FALSE]
  /\ lock = [i \in Rows |-> None]
  /\ ses = [s \in Sessions |-> IdleSes]

Released(s) == [i \in Rows |-> IF lock[i] = s THEN None ELSE lock[i]]

(* The end of a session's transaction: its locks go. *)
End(s) ==
  /\ lock' = Released(s)
  /\ ses' = [ses EXCEPT ![s] = IdleSes]

-------------------------------------------------------------------------------
(* create_api_key *)

(* The SELECT ... FOR UPDATE of the organization's active rows begins: what it  *)
(* will lock is settled by what is committed now.                               *)
StartCreate(s) ==
  /\ ses[s].pc = "idle"
  /\ "create" \in Kinds
  /\ ses' = [ses EXCEPT ![s] = [IdleSes EXCEPT !.pc = "lock", !.want = Active]]
  /\ UNCHANGED <<row, name, again, lock, pinned>>

(* Mutant of LockRows: the rows are read without FOR UPDATE. *)
ReadRows(s) ==
  /\ ses[s].pc = "lock"
  /\ ses' = [ses EXCEPT ![s].pc = "count", ![s].want = {}]
  /\ UNCHANGED <<row, name, again, lock, pinned>>

(* It returns when nobody else holds those rows, with the ones still active    *)
(* locked.                                                                      *)
LockRows(s) ==
  /\ ses[s].pc = "lock"
  /\ \A i \in ses[s].want : lock[i] = None
  /\ lock' = [i \in Rows |-> IF i \in ses[s].want \cap Active THEN s ELSE lock[i]]
  /\ ses' = [ses EXCEPT ![s].pc = "count", ![s].want = {}]
  /\ UNCHANGED <<row, name, again, pinned>>

(* Mutant of CountRows: the limit itself is still let through. *)
CountRowsOffByOne(s) ==
  /\ ses[s].pc = "count"
  /\ IF Cardinality(Active) > MaxKeys
       THEN End(s)
       ELSE ses' = [ses EXCEPT ![s].pc = "name"] /\ UNCHANGED lock
  /\ UNCHANGED <<row, name, again, pinned>>

(* The active rows are counted by a SELECT of its own: 422 at the limit. *)
CountRows(s) ==
  /\ ses[s].pc = "count"
  /\ IF Cardinality(Active) >= MaxKeys
       THEN End(s)
       ELSE ses' = [ses EXCEPT ![s].pc = "name"] /\ UNCHANGED lock
  /\ UNCHANGED <<row, name, again, pinned>>

(* _next_key_name: one more than the highest number, of revoked rows too. *)
NextNumber == {n \in {1} \cup {name[i] + 1 : i \in Rows} : \A i \in Rows : name[i] < n}

(* The name the caller asks for, whatever it is and without a look at the others, *)
(* or without one an automatic name.                                             *)
PickName(s) ==
  /\ ses[s].pc = "name"
  /\ \/ \E n \in Given :
          ses' = [ses EXCEPT ![s].pc = "insert", ![s].number = n, ![s].given = TRUE]
     \/ \E n \in NextNumber :
          ses' = [ses EXCEPT ![s].pc = "insert", ![s].number = n]
  /\ UNCHANGED <<row, name, again, lock, pinned>>

(* INSERT and COMMIT. *)
Insert(s) ==
  /\ ses[s].pc = "insert"
  /\ \E i \in Fresh :
       /\ row' = [row EXCEPT ![i] = "active"]
       /\ name' = [name EXCEPT ![i] = ses[s].number]
       /\ again' = [again EXCEPT ![i] = /\ ses[s].given /\ ses[s].number > 0
                                         /\ \E j \in Rows : name[j] = ses[s].number]
  /\ End(s)
  /\ UNCHANGED pinned

-------------------------------------------------------------------------------
(* rotate_api_key and revoke_api_key *)

StartOther(s) ==
  /\ ses[s].pc = "idle"
  /\ \E kind \in Kinds \ {"create"}, i \in Rows \ pinned :
       ses' = [ses EXCEPT ![s] = [IdleSes EXCEPT !.pc = "find", !.kind = kind,
                                                 !.want = {i}]]
  /\ UNCHANGED <<row, name, again, lock, pinned>>

(* The SELECT of the active row, FOR UPDATE in a rotation only; 404 without it. *)
Find(s) ==
  /\ ses[s].pc = "find"
  /\ \E i \in ses[s].want :
       /\ ses[s].kind = "rotate" => lock[i] = None
       /\ IF row[i] = "active"
            THEN /\ ses' = [ses EXCEPT ![s].pc = "commit"]
                 /\ lock' = IF ses[s].kind = "rotate" THEN [lock EXCEPT ![i] = s]
                                                      ELSE lock
            ELSE End(s)
  /\ UNCHANGED <<row, name, again, pinned>>

(* The old row is revoked and a new one inserted under its name, in one commit. *)
Rotate(s) ==
  /\ ses[s].pc = "commit" /\ ses[s].kind = "rotate"
  /\ \E i \in ses[s].want, n \in Fresh :
       /\ row' = [row EXCEPT ![i] = "revoked", ![n] = "active"]
       /\ name' = [name EXCEPT ![n] = name[i]]
       /\ again' = [again EXCEPT ![n] = again[i]]
  /\ End(s)
  /\ UNCHANGED pinned

(* The UPDATE of a revocation waits for the row. *)
Revoke(s) ==
  /\ ses[s].pc = "commit" /\ ses[s].kind = "revoke"
  /\ \E i \in ses[s].want :
       /\ lock[i] = None
       /\ row' = [row EXCEPT ![i] = "revoked"]
  /\ End(s)
  /\ UNCHANGED <<name, again, pinned>>

(* The client goes away or the database raises: the transaction is rolled back. *)
Rollback(s) ==
  /\ ses[s].pc # "idle"
  /\ End(s)
  /\ UNCHANGED <<row, name, again, pinned>>

Step(s) ==
  \/ LockRows(s) \/ CountRows(s) \/ PickName(s) \/ Insert(s)
  \/ Find(s) \/ Rotate(s) \/ Revoke(s) \/ Rollback(s)

Next == \E s \in Sessions : StartCreate(s) \/ StartOther(s) \/ Step(s)

Spec == Init /\ [][Next]_vars

-------------------------------------------------------------------------------
(* Properties *)

(* An organization with a key that stays never has more active keys than the   *)
(* limit: creations queue on the lock of that row.  Without such a key FOR      *)
(* UPDATE may find nothing to lock; then concurrent creations pass the limit by *)
(* no more than their own number less one, and rotations never add a key.       *)
Excess == IF pinned # {} THEN 0 ELSE Cardinality(Sessions) - 1

LimitHolds == Cardinality(Active) <= MaxKeys + Excess

(* While such a key is there, an automatic "Key N" is new to the organization: *)
(* two active keys have one number only when a caller asked by name for one that *)
(* was taken, which nothing in the code refuses.  A rotated key keeps the name of *)
(* the key it replaces.                                                          *)
NamesUnique ==
  pinned # {} =>
    \A i, j \in Active : i # j /\ name[i] > 0 /\ name[i] = name[j] => again[i] \/ again[j]
===============================================================================
