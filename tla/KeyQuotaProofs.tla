----------------------------- MODULE KeyQuotaProofs ----------------------------
(***************************************************************************)
(* Proofs about KeyQuota for any number of keys, concurrent management     *)
(* requests and any limit.                                                 *)
(***************************************************************************)
EXTENDS KeyQuota, FiniteSetTheorems, TLAPS

(* A creation past its lock holds the rows that stay, which it found when it    *)
(* began; a rotation or revocation is after one row that does not stay; a       *)
(* rotation holds its row, which is active, until it commits.                  *)
LockInv ==
  /\ \A i \in pinned : row[i] = "active"
  /\ \A s \in Sessions : ses[s].pc = "lock" => pinned \subseteq ses[s].want
  /\ \A s \in Sessions : ses[s].pc \in {"count", "name", "insert"} =>
       \A i \in pinned : lock[i] = s
  /\ \A s \in Sessions : ses[s].pc \in {"find", "commit"} =>
       /\ ses[s].want \cap pinned = {} /\ ses[s].want \subseteq Rows
       /\ \A i, j \in ses[s].want : i = j
  /\ \A s \in Sessions : ses[s].pc = "commit" /\ ses[s].kind = "rotate" =>
       \A i \in ses[s].want : lock[i] = s /\ row[i] = "active"

(* Creations that have counted and will insert. *)
Passers == {s \in Sessions : ses[s].pc \in {"name", "insert"}}

(* Each of them has room for its key, but for those that counted the same keys. *)
LimitInv == Cardinality(Active) + Cardinality(Passers) <= MaxKeys + Excess

(* The automatic number a creation will insert is higher than every one there. *)
NameInv ==
  pinned # {} =>
    /\ NamesUnique
    /\ \A s \in Sessions : ses[s].pc = "insert" /\ ~ses[s].given =>
         \A i \in Rows : name[i] < ses[s].number

QuotaInv == TypeOK /\ LockInv /\ LimitInv /\ NameInv

LEMMA Finite ==
  /\ IsFiniteSet(Active) /\ Cardinality(Active) \in Nat
  /\ IsFiniteSet(Passers) /\ Cardinality(Passers) \in Nat
  /\ Cardinality(Passers) <= Cardinality(Sessions)
  /\ Cardinality(Sessions) \in Nat /\ Cardinality(Sessions) >= 1
  /\ MaxKeys \in Nat /\ Excess \in Nat /\ None \notin Sessions
<1>1. IsFiniteSet(Rows) /\ IsFiniteSet(Sessions) /\ Sessions # {} /\ MaxKeys \in Nat
      /\ None \notin Sessions
  BY ConstantsOK
<1>2. Active \in SUBSET Rows /\ Passers \in SUBSET Sessions
  BY DEF Active, Passers
<1>3. IsFiniteSet(Active) /\ IsFiniteSet(Passers)
      /\ Cardinality(Passers) <= Cardinality(Sessions)
  BY <1>1, <1>2, FS_Subset
<1>4. Cardinality(Active) \in Nat /\ Cardinality(Passers) \in Nat
      /\ Cardinality(Sessions) \in Nat
  BY <1>1, <1>3, FS_CardinalityType
<1>5. Cardinality(Sessions) # 0
  BY <1>1, FS_EmptySet
<1>6. Excess \in Nat
  BY <1>4, <1>5 DEF Excess
<1> QED
  BY <1>1, <1>3, <1>4, <1>5, <1>6

(* Fewer keys and fewer passers keep the limit. *)
LEMMA FewerKeep ==
  ASSUME LimitInv, Active' \subseteq Active, Passers' \subseteq Passers, pinned' = pinned
  PROVE  LimitInv'
<1>1. Cardinality(Active') <= Cardinality(Active) /\ Cardinality(Active') \in Nat
  BY Finite, FS_Subset, FS_CardinalityType
<1>2. Cardinality(Passers') <= Cardinality(Passers) /\ Cardinality(Passers') \in Nat
  BY Finite, FS_Subset, FS_CardinalityType
<1>3. Excess' = Excess
  BY DEF Excess
<1> QED
  BY <1>1, <1>2, <1>3, Finite DEF LimitInv

LEMMA InitQuota == Init => QuotaInv
<1> SUFFICES ASSUME Init PROVE QuotaInv
  OBVIOUS
<1>1. PICK there \in SUBSET Existing :
        /\ row = [i \in Rows |-> IF i \in there THEN "active" ELSE "absent"]
        /\ pinned \in SUBSET there
  BY DEF Init
<1>2. IdleSes \in SesState /\ Existing \subseteq Rows
  BY ConstantsOK DEF IdleSes, SesState, PCs
<1>3. TypeOK
  BY <1>1, <1>2 DEF Init, TypeOK
<1>4. LockInv
  BY <1>1, <1>2 DEF Init, LockInv, IdleSes
<1>5. LimitInv
  <2>1. Active = there /\ Passers = {}
    BY <1>1, <1>2 DEF Active, Passers, Init, IdleSes
  <2>2. IsFiniteSet(Existing) /\ Cardinality(Existing) <= MaxKeys
    BY <1>2, ConstantsOK, FS_Subset
  <2>3. Cardinality(Active) <= Cardinality(Existing) /\ Cardinality(Existing) \in Nat
    BY <2>1, <2>2, FS_Subset, FS_CardinalityType
  <2>4. Cardinality(Passers) = 0
    BY <2>1, FS_EmptySet
  <2> QED
    BY <2>2, <2>3, <2>4, Finite DEF LimitInv
<1>6. NameInv
  BY DEF Init, NameInv, NamesUnique, Active, IdleSes
<1> QED
  BY <1>3, <1>4, <1>5, <1>6 DEF QuotaInv

(* The end of a transaction gives back its own locks and nothing else. *)
LEMMA EndLeaves ==
  ASSUME TypeOK, NEW s \in Sessions, End(s)
  PROVE  /\ ses' \in [Sessions -> SesState] /\ ses'[s].pc = "idle"
         /\ \A t \in Sessions \ {s} : ses'[t] = ses[t]
         /\ lock' \in [Rows -> Sessions \cup {None}]
         /\ \A i \in Rows, t \in Sessions \ {s} : lock[i] = t => lock'[i] = t
<1>1. IdleSes \in SesState
  BY DEF IdleSes, SesState, PCs
<1>2. ses' = [ses EXCEPT ![s] = IdleSes] /\ lock' = [i \in Rows |-> IF lock[i] = s THEN None ELSE lock[i]]
  BY DEF End, Released
<1>3. ses'[s] = IdleSes /\ \A t \in Sessions \ {s} : ses'[t] = ses[t]
  BY <1>2 DEF TypeOK
<1>4. ses' \in [Sessions -> SesState]
  BY <1>1, <1>2 DEF TypeOK
<1>5. ses'[s].pc = "idle"
  BY <1>3 DEF IdleSes
<1> QED
  BY <1>2, <1>3, <1>4, <1>5 DEF TypeOK

LEMMA EndKeeps ==
  ASSUME QuotaInv, NEW s \in Sessions, End(s), UNCHANGED <<row, name, again, pinned>>
  PROVE  QuotaInv'
<1>1. /\ ses' \in [Sessions -> SesState] /\ ses'[s].pc = "idle"
      /\ \A t \in Sessions \ {s} : ses'[t] = ses[t]
      /\ lock' \in [Rows -> Sessions \cup {None}]
      /\ \A i \in Rows, t \in Sessions \ {s} : lock[i] = t => lock'[i] = t
  BY EndLeaves DEF QuotaInv
<1>2. TypeOK'
  BY <1>1 DEF QuotaInv, TypeOK
<1>3. pinned \subseteq Rows
  BY ConstantsOK DEF QuotaInv, TypeOK
<1>4. LockInv'
  BY <1>1, <1>3 DEF QuotaInv, LockInv
<1>5. LimitInv'
  <2>1. Active' = Active /\ Passers' \subseteq Passers
    BY <1>1 DEF Active, Passers
  <2> QED
    BY <2>1, FewerKeep DEF QuotaInv
<1>6. NameInv'
  BY <1>1 DEF QuotaInv, NameInv, NamesUnique, Active
<1> QED
  BY <1>2, <1>4, <1>5, <1>6 DEF QuotaInv

-------------------------------------------------------------------------------
(* create_api_key *)

LEMMA StartCreateKeeps ==
  ASSUME QuotaInv, NEW s \in Sessions, StartCreate(s)
  PROVE  QuotaInv'
<1> DEFINE new == [IdleSes EXCEPT !.pc = "lock", !.want = Active]
<1>1. ses' = [ses EXCEPT ![s] = new] /\ UNCHANGED <<row, name, again, lock, pinned>>
  BY DEF StartCreate
<1>i. IdleSes \in SesState
  BY DEF IdleSes, SesState, PCs
<1>2. new \in SesState /\ new.pc = "lock" /\ new.want = Active
  BY <1>i DEF Active, SesState, PCs
<1> HIDE DEF new
<1>3. ses'[s] = new /\ \A t \in Sessions \ {s} : ses'[t] = ses[t]
  BY <1>1 DEF QuotaInv, TypeOK
<1>4. TypeOK'
  BY <1>1, <1>2 DEF QuotaInv, TypeOK
<1>5. pinned \subseteq Active
  BY ConstantsOK DEF QuotaInv, TypeOK, LockInv, Active
<1>6. LockInv'
  BY <1>1, <1>2, <1>3, <1>5 DEF QuotaInv, LockInv
<1>7. LimitInv'
  <2>1. Active' = Active /\ Passers' \subseteq Passers
    BY <1>1, <1>2, <1>3 DEF Active, Passers
  <2> QED
    BY <1>1, <2>1, FewerKeep DEF QuotaInv
<1>8. NameInv'
  BY <1>1, <1>2, <1>3 DEF QuotaInv, NameInv, NamesUnique, Active
<1> QED
  BY <1>4, <1>6, <1>7, <1>8 DEF QuotaInv

LEMMA LockRowsKeeps ==
  ASSUME QuotaInv, NEW s \in Sessions, LockRows(s)
  PROVE  QuotaInv'
<1>1. /\ ses[s].pc = "lock" /\ \A i \in ses[s].want : lock[i] = None
      /\ lock' = [i \in Rows |-> IF i \in ses[s].want \cap Active THEN s ELSE lock[i]]
      /\ ses' = [ses EXCEPT ![s].pc = "count", ![s].want = {}]
      /\ UNCHANGED <<row, name, again, pinned>>
  BY DEF LockRows
<1>2. /\ ses'[s].pc = "count" /\ \A t \in Sessions \ {s} : ses'[t] = ses[t]
      /\ ses' \in [Sessions -> SesState] /\ lock' \in [Rows -> Sessions \cup {None}]
  <2> DEFINE new == [ses[s] EXCEPT !.pc = "count", !.want = {}]
  <2>1. ses \in [Sessions -> SesState] /\ ses[s] \in SesState
    BY DEF QuotaInv, TypeOK
  <2>2. new \in SesState /\ new.pc = "count"
    BY <2>1 DEF SesState, PCs
  <2>3. ses' = [ses EXCEPT ![s] = new]
    BY <1>1
  <2>4. lock' \in [Rows -> Sessions \cup {None}]
    BY <1>1 DEF QuotaInv, TypeOK
  <2> HIDE DEF new
  <2> QED
    BY <2>1, <2>2, <2>3, <2>4
<1>3. TypeOK'
  BY <1>1, <1>2 DEF QuotaInv, TypeOK
<1>4. pinned \subseteq Active \cap Rows
  BY ConstantsOK DEF QuotaInv, TypeOK, LockInv, Active
<1>5. \A i \in pinned : lock'[i] = s
  BY <1>1, <1>4 DEF QuotaInv, LockInv
<1>6. \A i \in Rows, t \in Sessions \ {s} : lock[i] = t => lock'[i] = t
  BY <1>1, Finite
<1>7. LockInv'
  BY <1>1, <1>2, <1>4, <1>5, <1>6 DEF QuotaInv, LockInv
<1>8. LimitInv'
  <2>1. Active' = Active /\ Passers' \subseteq Passers
    BY <1>1, <1>2 DEF Active, Passers
  <2> QED
    BY <1>1, <2>1, FewerKeep DEF QuotaInv
<1>9. NameInv'
  BY <1>1, <1>2 DEF QuotaInv, NameInv, NamesUnique, Active
<1> QED
  BY <1>3, <1>7, <1>8, <1>9 DEF QuotaInv

(* A session past its lock is alone there while a row stays. *)
LEMMA Alone ==
  ASSUME QuotaInv, pinned # {}, NEW s \in Sessions, NEW t \in Sessions,
         ses[s].pc \in {"count", "name", "insert"}, ses[t].pc \in {"count", "name", "insert"}
  PROVE  s = t
<1>1. PICK i \in pinned : TRUE
  OBVIOUS
<1> QED
  BY <1>1 DEF QuotaInv, LockInv

LEMMA CountRowsKeeps ==
  ASSUME QuotaInv, NEW s \in Sessions, CountRows(s)
  PROVE  QuotaInv'
<1>1. CASE Cardinality(Active) >= MaxKeys
  BY <1>1, EndKeeps DEF CountRows
<1>2. CASE ~ (Cardinality(Active) >= MaxKeys)
  <2>1. /\ ses[s].pc = "count" /\ ses' = [ses EXCEPT ![s].pc = "name"]
        /\ UNCHANGED <<row, name, again, lock, pinned>>
    BY <1>2 DEF CountRows
  <2>2. /\ ses'[s].pc = "name" /\ \A t \in Sessions \ {s} : ses'[t] = ses[t]
        /\ ses' \in [Sessions -> SesState]
    BY <2>1 DEF QuotaInv, TypeOK, SesState, PCs
  <2>3. TypeOK' /\ LockInv' /\ NameInv'
    BY <2>1, <2>2 DEF QuotaInv, TypeOK, LockInv, NameInv, NamesUnique, Active
  <2>4. Active' = Active /\ Excess' = Excess /\ Cardinality(Active) <= MaxKeys - 1
    BY <1>2, <2>1, Finite DEF Active, Excess
  <2>5. LimitInv'
    <3>1. CASE pinned = {}
      <4>1. Cardinality(Passers') <= Cardinality(Sessions) /\ Cardinality(Passers') \in Nat
        <5>1. Passers' \in SUBSET Sessions /\ IsFiniteSet(Sessions)
          BY ConstantsOK DEF Passers
        <5> QED
          BY <5>1, FS_Subset, FS_CardinalityType
      <4> QED
        BY <2>4, <3>1, <4>1, Finite DEF LimitInv, Excess
    <3>2. CASE pinned # {}
      <4>1. Passers' \subseteq {s}
        BY <2>1, <2>2, <3>2, Alone DEF Passers
      <4>2. Cardinality({s}) = 1 /\ IsFiniteSet({s})
        BY FS_Singleton
      <4>3. Cardinality(Passers') <= 1 /\ Cardinality(Passers') \in Nat
        BY <4>1, <4>2, FS_Subset, FS_CardinalityType
      <4> QED
        BY <2>4, <4>3, Finite DEF LimitInv
    <3> QED
      BY <3>1, <3>2
  <2> QED
    BY <2>3, <2>5 DEF QuotaInv
<1> QED
  BY <1>1, <1>2

LEMMA PickNameKeeps ==
  ASSUME QuotaInv, NEW s \in Sessions, PickName(s)
  PROVE  QuotaInv'
<1>1. PICK n \in Nat :
        /\ ses' = [ses EXCEPT ![s].pc = "insert", ![s].number = n, ![s].given = TRUE]
             \/ /\ ses' = [ses EXCEPT ![s].pc = "insert", ![s].number = n]
                /\ \A i \in Rows : name[i] < n
  <2>1. Given \subseteq Nat /\ NextNumber \subseteq Nat
    BY ConstantsOK DEF NextNumber, QuotaInv, TypeOK
  <2> QED
    BY <2>1 DEF PickName, NextNumber
<1>2. ses[s].pc = "name" /\ UNCHANGED <<row, name, again, lock, pinned>>
  BY DEF PickName
<1>3. /\ ses'[s].pc = "insert" /\ ses'[s].number = n
      /\ ses'[s].given \/ \A i \in Rows : name[i] < n
      /\ \A t \in Sessions \ {s} : ses'[t] = ses[t]
      /\ ses' \in [Sessions -> SesState]
  <2>1. ses \in [Sessions -> SesState] /\ ses[s] \in SesState
    BY DEF QuotaInv, TypeOK
  <2>2. PICK g \in BOOLEAN : /\ g \/ \A i \in Rows : name[i] < n
                             /\ ses' = [ses EXCEPT ![s] = [ses[s] EXCEPT !.pc = "insert",
                                                            !.number = n, !.given = g]]
    <3>1. CASE ses' = [ses EXCEPT ![s].pc = "insert", ![s].number = n, ![s].given = TRUE]
      BY <3>1
    <3>2. CASE /\ ses' = [ses EXCEPT ![s].pc = "insert", ![s].number = n]
               /\ \A i \in Rows : name[i] < n
      <4>1. ses[s].given \in BOOLEAN
        BY <2>1 DEF SesState
      <4>2. [ses[s] EXCEPT !.pc = "insert", !.number = n, !.given = ses[s].given]
              = [ses[s] EXCEPT !.pc = "insert", !.number = n]
        BY <2>1 DEF SesState
      <4> QED
        BY <3>2, <4>1, <4>2
    <3> QED
      BY <1>1, <3>1, <3>2
  <2> DEFINE new == [ses[s] EXCEPT !.pc = "insert", !.number = n, !.given = g]
  <2>3. /\ new \in SesState /\ new.pc = "insert" /\ new.number = n
        /\ new.given \/ \A i \in Rows : name[i] < n
    BY <2>1, <2>2 DEF SesState, PCs
  <2>4. ses' = [ses EXCEPT ![s] = new]
    BY <2>2
  <2> HIDE DEF new
  <2> QED
    BY <2>1, <2>3, <2>4
<1>4. TypeOK' /\ LockInv'
  BY <1>2, <1>3 DEF QuotaInv, TypeOK, LockInv
<1>5. LimitInv'
  <2>1. Active' = Active /\ Passers' \subseteq Passers
    BY <1>2, <1>3 DEF Active, Passers
  <2> QED
    BY <1>2, <2>1, FewerKeep DEF QuotaInv
<1>6. NameInv'
  BY <1>2, <1>3 DEF QuotaInv, NameInv, NamesUnique, Active
<1> QED
  BY <1>4, <1>5, <1>6 DEF QuotaInv

LEMMA InsertKeeps ==
  ASSUME QuotaInv, NEW s \in Sessions, Insert(s)
  PROVE  QuotaInv'
<1>1. PICK k \in Rows :
        /\ row[k] = "absent"
        /\ row' = [row EXCEPT ![k] = "active"]
        /\ name' = [name EXCEPT ![k] = ses[s].number]
        /\ again' = [again EXCEPT ![k] = /\ ses[s].given /\ ses[s].number > 0
                                         /\ \E j \in Rows : name[j] = ses[s].number]
  BY DEF Insert, Fresh
<1>2. /\ ses' \in [Sessions -> SesState] /\ ses'[s].pc = "idle"
      /\ \A t \in Sessions \ {s} : ses'[t] = ses[t]
      /\ lock' \in [Rows -> Sessions \cup {None}]
      /\ \A i \in Rows, t \in Sessions \ {s} : lock[i] = t => lock'[i] = t
      /\ ses[s].pc = "insert" /\ pinned' = pinned
  BY EndLeaves DEF QuotaInv, Insert
<1>3. ses[s].number \in Nat
  BY DEF QuotaInv, TypeOK, SesState
<1>4. TypeOK'
  BY <1>1, <1>2, <1>3 DEF QuotaInv, TypeOK
<1>5. pinned \subseteq Rows
  BY ConstantsOK DEF QuotaInv, TypeOK
<1>6. /\ row'[k] = "active" /\ name'[k] = ses[s].number
      /\ ses[s].given /\ ses[s].number > 0 /\ (\E j \in Rows : name[j] = ses[s].number)
           => again'[k]
      /\ \A i \in Rows \ {k} : row'[i] = row[i] /\ name'[i] = name[i] /\ again'[i] = again[i]
  BY <1>1 DEF QuotaInv, TypeOK
<1>7. LockInv'
  BY <1>2, <1>5, <1>6 DEF QuotaInv, LockInv
<1>8. LimitInv'
  <2>1. Active' = Active \cup {k} /\ k \notin Active
    BY <1>1, <1>6 DEF Active
  <2>2. Passers' = Passers \ {s} /\ s \in Passers
    BY <1>2 DEF Passers
  <2>3. Cardinality(Active') = Cardinality(Active) + 1
    BY <2>1, Finite, FS_AddElement
  <2>4. Cardinality(Passers') = Cardinality(Passers) - 1
    BY <2>2, Finite, FS_RemoveElement
  <2> QED
    BY <1>2, <2>3, <2>4, Finite DEF QuotaInv, LimitInv, Excess
<1>9. NameInv'
  <2> SUFFICES ASSUME pinned # {} PROVE NameInv'
    BY <1>2 DEF NameInv
  <2>1. (\A i \in Rows : name[i] < ses[s].number) \/ ses[s].given
    BY <1>2 DEF QuotaInv, NameInv
  <2>4. \A i \in Rows : name[i] \in Nat
    BY DEF QuotaInv, TypeOK
  <2>2. NamesUnique'
    <3>1. ASSUME NEW i \in Active', NEW j \in Active', i # j, name'[i] > 0,
                 name'[i] = name'[j]
          PROVE  again'[i] \/ again'[j]
      <4>1. i \in Rows /\ j \in Rows /\ (i # k => i \in Active) /\ (j # k => j \in Active)
        BY <1>6 DEF Active
      <4>2. \A m \in Active, n \in Active :
              m # n /\ name[m] > 0 /\ name[m] = name[n] => again[m] \/ again[n]
        BY DEF QuotaInv, NameInv, NamesUnique
      <4>3. CASE i = k
        <5>1. name[j] = ses[s].number /\ ses[s].number > 0
          BY <1>6, <3>1, <4>1, <4>3
        <5>2. ses[s].given
          BY <1>3, <2>1, <2>4, <4>1, <5>1
        <5> QED
          BY <1>6, <4>1, <4>3, <5>1, <5>2
      <4>4. CASE j = k
        <5>1. name[i] = ses[s].number /\ ses[s].number > 0
          BY <1>6, <3>1, <4>1, <4>4
        <5>2. ses[s].given
          BY <1>3, <2>1, <2>4, <4>1, <5>1
        <5> QED
          BY <1>6, <4>1, <4>4, <5>1, <5>2
      <4>5. CASE i # k /\ j # k
        BY <1>6, <3>1, <4>1, <4>2, <4>5
      <4> QED
        BY <4>3, <4>4, <4>5
    <3> QED
      BY <3>1 DEF NamesUnique
  <2>3. ASSUME NEW t \in Sessions PROVE ses'[t].pc # "insert"
    BY <1>2, Alone
  <2> QED
    BY <2>2, <2>3 DEF NameInv
<1> QED
  BY <1>4, <1>7, <1>8, <1>9 DEF QuotaInv

-------------------------------------------------------------------------------
(* rotate_api_key and revoke_api_key *)

LEMMA StartOtherKeeps ==
  ASSUME QuotaInv, NEW s \in Sessions, StartOther(s)
  PROVE  QuotaInv'
<1>1. PICK kind \in Kinds \ {"create"}, k \in Rows \ pinned :
        ses' = [ses EXCEPT ![s] = [IdleSes EXCEPT !.pc = "find", !.kind = kind,
                                                  !.want = {k}]]
  BY DEF StartOther
<1> DEFINE new == [IdleSes EXCEPT !.pc = "find", !.kind = kind, !.want = {k}]
<1>i. IdleSes \in SesState
  BY DEF IdleSes, SesState, PCs
<1>2. new \in SesState /\ new.pc = "find" /\ new.want = {k}
  BY <1>i, ConstantsOK DEF SesState, PCs
<1> HIDE DEF new
<1>3. /\ ses'[s] = new /\ \A t \in Sessions \ {s} : ses'[t] = ses[t]
      /\ ses' \in [Sessions -> SesState] /\ UNCHANGED <<row, name, again, lock, pinned>>
  <2>1. ses' = [ses EXCEPT ![s] = new]
    BY <1>1 DEF new
  <2>2. ses \in [Sessions -> SesState] /\ UNCHANGED <<row, name, again, lock, pinned>>
    BY DEF QuotaInv, TypeOK, StartOther
  <2> QED
    BY <1>2, <2>1, <2>2
<1>4. TypeOK' /\ LockInv'
  BY <1>2, <1>3 DEF QuotaInv, TypeOK, LockInv
<1>5. LimitInv'
  <2>1. Active' = Active /\ Passers' \subseteq Passers
    BY <1>2, <1>3 DEF Active, Passers
  <2> QED
    BY <1>3, <2>1, FewerKeep DEF QuotaInv
<1>6. NameInv'
  BY <1>2, <1>3 DEF QuotaInv, NameInv, NamesUnique, Active
<1> QED
  BY <1>4, <1>5, <1>6 DEF QuotaInv

LEMMA FindKeeps ==
  ASSUME QuotaInv, NEW s \in Sessions, Find(s)
  PROVE  QuotaInv'
<1>1. PICK k \in ses[s].want :
        /\ ses[s].kind = "rotate" => lock[k] = None
        /\ IF row[k] = "active"
             THEN /\ ses' = [ses EXCEPT ![s].pc = "commit"]
                  /\ lock' = IF ses[s].kind = "rotate" THEN [lock EXCEPT ![k] = s]
                                                       ELSE lock
             ELSE End(s)
  BY DEF Find
<1>2. ses[s].pc = "find" /\ UNCHANGED <<row, name, again, pinned>>
  BY DEF Find
<1>3. CASE row[k] # "active"
  BY <1>1, <1>2, <1>3, EndKeeps
<1>4. CASE row[k] = "active"
  <2>1. k \in Rows /\ k \notin pinned /\ pinned \subseteq Rows
        /\ \A i \in ses[s].want : i = k
    BY <1>2, ConstantsOK DEF QuotaInv, LockInv, TypeOK
  <2>2. /\ ses'[s].pc = "commit" /\ ses'[s].want = ses[s].want
        /\ ses'[s].kind = ses[s].kind
        /\ \A t \in Sessions \ {s} : ses'[t] = ses[t]
        /\ ses' \in [Sessions -> SesState]
    BY <1>1, <1>4 DEF QuotaInv, TypeOK, SesState, PCs
  <2>3. /\ lock' \in [Rows -> Sessions \cup {None}]
        /\ ses[s].kind = "rotate" => lock'[k] = s
        /\ \A i \in Rows \ {k} : lock'[i] = lock[i]
        /\ \A t \in Sessions : lock[k] = t => lock'[k] = t
    BY <1>1, <1>4, <2>1, Finite DEF QuotaInv, TypeOK
  <2>4. TypeOK'
    BY <1>2, <2>2, <2>3 DEF QuotaInv, TypeOK
  <2>5. LockInv'
    BY <1>2, <1>4, <2>1, <2>2, <2>3 DEF QuotaInv, LockInv
  <2>6. LimitInv'
    <3>1. Active' = Active /\ Passers' \subseteq Passers
      BY <1>2, <2>2 DEF Active, Passers
    <3> QED
      BY <1>2, <3>1, FewerKeep DEF QuotaInv
  <2>7. NameInv'
    BY <1>2, <2>2 DEF QuotaInv, NameInv, NamesUnique, Active
  <2> QED
    BY <2>4, <2>5, <2>6, <2>7 DEF QuotaInv
<1> QED
  BY <1>3, <1>4

LEMMA RotateKeeps ==
  ASSUME QuotaInv, NEW s \in Sessions, Rotate(s)
  PROVE  QuotaInv'
<1>1. PICK k \in ses[s].want, n \in Rows :
        /\ row[n] = "absent"
        /\ row' = [row EXCEPT ![k] = "revoked", ![n] = "active"]
        /\ name' = [name EXCEPT ![n] = name[k]]
        /\ again' = [again EXCEPT ![n] = again[k]]
  BY DEF Rotate, Fresh
<1>2. /\ ses' \in [Sessions -> SesState] /\ ses'[s].pc = "idle"
      /\ \A t \in Sessions \ {s} : ses'[t] = ses[t]
      /\ lock' \in [Rows -> Sessions \cup {None}]
      /\ \A i \in Rows, t \in Sessions \ {s} : lock[i] = t => lock'[i] = t
      /\ ses[s].pc = "commit" /\ ses[s].kind = "rotate" /\ pinned' = pinned
  BY EndLeaves DEF QuotaInv, Rotate
<1>3. k \in Rows /\ k \notin pinned /\ lock[k] = s /\ row[k] = "active" /\ k # n
  BY <1>1, <1>2 DEF QuotaInv, LockInv
<1>4. /\ row'[k] = "revoked" /\ row'[n] = "active" /\ name'[n] = name[k]
      /\ \A i \in Rows \ {k, n} : row'[i] = row[i]
      /\ \A i \in Rows \ {n} : name'[i] = name[i] /\ again'[i] = again[i]
      /\ again'[n] = again[k] /\ again' \in [Rows -> BOOLEAN]
      /\ row' \in [Rows -> {"absent", "active", "revoked"}] /\ name' \in [Rows -> Nat]
  BY <1>1, <1>3 DEF QuotaInv, TypeOK
<1>5. TypeOK'
  BY <1>2, <1>4 DEF QuotaInv, TypeOK
<1>6. LockInv'
  <2>1. pinned \subseteq Rows /\ n \notin pinned
    BY <1>1, ConstantsOK DEF QuotaInv, TypeOK, LockInv
  <2>2. ASSUME NEW t \in Sessions, ses'[t].pc = "commit", ses'[t].kind = "rotate",
               NEW i \in ses'[t].want
        PROVE  lock'[i] = t /\ row'[i] = "active"
    <3>1. t # s /\ ses'[t] = ses[t] /\ i \in Rows /\ lock[i] = t /\ row[i] = "active"
      BY <1>2, <2>2 DEF QuotaInv, LockInv
    <3>2. i # k /\ i # n
      BY <1>1, <1>3, <3>1
    <3> QED
      BY <1>2, <1>4, <3>1, <3>2
  <2> QED
    BY <1>2, <1>3, <1>4, <2>1, <2>2 DEF QuotaInv, LockInv
<1>7. Active' = (Active \ {k}) \cup {n} /\ k \in Active /\ n \notin Active
  BY <1>1, <1>3, <1>4 DEF Active
<1>8. LimitInv'
  <2>1. IsFiniteSet(Active \ {k}) /\ Cardinality(Active \ {k}) = Cardinality(Active) - 1
    BY <1>7, Finite, FS_RemoveElement
  <2>2. Cardinality(Active') = Cardinality(Active)
    <3>1. n \notin Active \ {k}
      BY <1>7
    <3>2. Cardinality((Active \ {k}) \cup {n}) = Cardinality(Active \ {k}) + 1
      BY <2>1, <3>1, FS_AddElement
    <3> QED
      BY <1>7, <2>1, <3>2, Finite
  <2>3. Passers' = Passers
    BY <1>2 DEF Passers
  <2> QED
    BY <1>2, <2>2, <2>3 DEF QuotaInv, LimitInv, Excess
<1>9. NameInv'
  <2> SUFFICES ASSUME pinned # {} PROVE NameInv'
    BY <1>2 DEF NameInv
  <2>1. NamesUnique'
    <3>1. ASSUME NEW i \in Active', NEW j \in Active', i # j, name'[i] > 0,
                 name'[i] = name'[j]
          PROVE  again'[i] \/ again'[j]
      <4>1. /\ i \in Rows /\ j \in Rows /\ i # k /\ j # k
            /\ (i # n => i \in Active) /\ (j # n => j \in Active)
        BY <1>3, <1>7 DEF Active
      <4>2. \A a \in Active, b \in Active :
              a # b /\ name[a] > 0 /\ name[a] = name[b] => again[a] \/ again[b]
        BY DEF QuotaInv, NameInv, NamesUnique
      <4> QED
        BY <1>4, <1>7, <3>1, <4>1, <4>2
    <3> QED
      BY <3>1 DEF NamesUnique
  <2>2. ASSUME NEW t \in Sessions, ses'[t].pc = "insert", ~ses'[t].given, NEW i \in Rows
        PROVE  name'[i] < ses'[t].number
    <3>1. ses'[t] = ses[t] /\ \A m \in Rows : name[m] < ses[t].number
      BY <1>2, <2>2 DEF QuotaInv, NameInv
    <3> QED
      BY <1>3, <1>4, <3>1
  <2> QED
    BY <2>1, <2>2 DEF NameInv
<1> QED
  BY <1>5, <1>6, <1>8, <1>9 DEF QuotaInv

LEMMA RevokeKeeps ==
  ASSUME QuotaInv, NEW s \in Sessions, Revoke(s)
  PROVE  QuotaInv'
<1>1. PICK k \in ses[s].want : lock[k] = None /\ row' = [row EXCEPT ![k] = "revoked"]
  BY DEF Revoke
<1>2. /\ ses' \in [Sessions -> SesState] /\ ses'[s].pc = "idle"
      /\ \A t \in Sessions \ {s} : ses'[t] = ses[t]
      /\ lock' \in [Rows -> Sessions \cup {None}]
      /\ \A i \in Rows, t \in Sessions \ {s} : lock[i] = t => lock'[i] = t
      /\ ses[s].pc = "commit" /\ UNCHANGED <<name, again, pinned>>
  BY EndLeaves DEF QuotaInv, Revoke
<1>3. k \in Rows /\ k \notin pinned /\ pinned \subseteq Rows
  BY <1>1, <1>2, ConstantsOK DEF QuotaInv, LockInv, TypeOK
<1>4. /\ row'[k] = "revoked" /\ \A i \in Rows \ {k} : row'[i] = row[i]
      /\ row' \in [Rows -> {"absent", "active", "revoked"}]
  BY <1>1, <1>3 DEF QuotaInv, TypeOK
<1>5. TypeOK'
  BY <1>2, <1>4 DEF QuotaInv, TypeOK
<1>6. LockInv'
  <2>1. ASSUME NEW t \in Sessions, ses'[t].pc = "commit", ses'[t].kind = "rotate",
               NEW i \in ses'[t].want
        PROVE  lock'[i] = t /\ row'[i] = "active"
    <3>1. t # s /\ ses'[t] = ses[t] /\ i \in Rows /\ lock[i] = t /\ row[i] = "active"
      BY <1>2, <2>1 DEF QuotaInv, LockInv
    <3>2. i # k
      BY <1>1, <3>1, Finite
    <3> QED
      BY <1>2, <1>4, <3>1, <3>2
  <2> QED
    BY <1>2, <1>3, <1>4, <2>1 DEF QuotaInv, LockInv
<1>7. Active' \subseteq Active
  BY <1>4 DEF Active
<1>8. LimitInv'
  <2>1. Passers' \subseteq Passers
    BY <1>2 DEF Passers
  <2> QED
    BY <1>2, <1>7, <2>1, FewerKeep DEF QuotaInv
<1>9. NameInv'
  BY <1>2, <1>7 DEF QuotaInv, NameInv, NamesUnique
<1> QED
  BY <1>5, <1>6, <1>8, <1>9 DEF QuotaInv

-------------------------------------------------------------------------------
LEMMA StepQuota == QuotaInv /\ [Next]_vars => QuotaInv'
<1> SUFFICES ASSUME QuotaInv, [Next]_vars PROVE QuotaInv'
  OBVIOUS
<1>1. CASE UNCHANGED vars
  <2>1. UNCHANGED <<row, name, again, lock, ses, pinned>>
    BY <1>1 DEF vars
  <2>2. Active' = Active /\ Passers' = Passers /\ Excess' = Excess
    BY <2>1 DEF Active, Passers, Excess
  <2> QED
    BY <2>1, <2>2 DEF QuotaInv, TypeOK, LockInv, LimitInv, NameInv, NamesUnique
<1>2. ASSUME NEW s \in Sessions, Rollback(s) PROVE QuotaInv'
  BY <1>2, EndKeeps DEF Rollback
<1> QED
  BY <1>1, <1>2, StartCreateKeeps, StartOtherKeeps, LockRowsKeeps, CountRowsKeeps,
     PickNameKeeps, InsertKeeps, FindKeeps, RotateKeeps, RevokeKeeps DEF Next, Step

(* The types of the variables. *)
THEOREM QuotaTypes == Spec => []TypeOK
<1>1. QuotaInv => TypeOK
  BY DEF QuotaInv
<1> QED
  BY <1>1, InitQuota, StepQuota, PTL DEF Spec

(* However many sessions create, rotate and revoke at once, an organization     *)
(* with a key that stays never passes its limit, and one without passes it by  *)
(* at most the number of its concurrent sessions less one.                     *)
THEOREM QuotaHolds == Spec => []LimitHolds
<1>1. QuotaInv => LimitHolds
  BY Finite DEF QuotaInv, LimitInv, LimitHolds
<1> QED
  BY <1>1, InitQuota, StepQuota, PTL DEF Spec

(* While a key stays, an automatic name is new: two active keys have one number *)
(* only if a caller asked by name for a number that was taken.                   *)
THEOREM NumbersUnique == Spec => []NamesUnique
<1>1. QuotaInv => NamesUnique
  BY DEF QuotaInv, NameInv, NamesUnique
<1> QED
  BY <1>1, InitQuota, StepQuota, PTL DEF Spec
===============================================================================
