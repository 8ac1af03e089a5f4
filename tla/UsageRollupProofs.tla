--------------------------- MODULE UsageRollupProofs ---------------------------
EXTENDS UsageRollup, Integers, FiniteSetTheorems, TLAPS

LEMMA DayBounds ==
  ASSUME NEW t \in Nat
  PROVE  /\ DayOf(t) \in Nat
         /\ DayOf(t) * Day <= t /\ t < DayOf(t) * Day + Day
  BY ConstantsOK DEF DayOf

LEMMA DayOrder ==
  ASSUME NEW s \in Nat, NEW t \in Nat, s <= t
  PROVE  DayOf(s) <= DayOf(t)
<1>1. /\ DayOf(s) \in Nat /\ DayOf(t) \in Nat /\ DayOf(s) * Day <= s /\ t < DayOf(t) * Day + Day
  BY DayBounds
<1>2. Day \in Nat \ {0}
  BY ConstantsOK
<1>3. SUFFICES ASSUME DayOf(t) + 1 <= DayOf(s) PROVE FALSE
  BY <1>1
<1>4. (DayOf(t) + 1) * Day <= DayOf(s) * Day
  BY <1>1, <1>2, <1>3
<1>5. (DayOf(t) + 1) * Day = DayOf(t) * Day + Day
  BY <1>1, <1>2
<1>6. DayOf(s) * Day \in Nat /\ DayOf(t) * Day \in Nat
  BY <1>1, <1>2
<1> HIDE DEF DayOf
<1> QED
  BY <1>1, <1>2, <1>4, <1>5, <1>6

(* What the retention keeps. *)
LEMMA DayKept ==
  ASSUME NEW t \in Nat, NEW s \in Nat, DayOf(t) + 1 = DayOf(s), Retention >= 2
  PROVE  t + Retention * Day >= s
<1>1. /\ DayOf(s) \in Nat /\ DayOf(t) \in Nat /\ DayOf(t) * Day <= t /\ s < DayOf(s) * Day + Day
  BY DayBounds
<1>2. Day \in Nat \ {0} /\ Retention \in Nat
  BY ConstantsOK
<1>3. DayOf(s) * Day = DayOf(t) * Day + Day
  BY <1>1, <1>2
<1>4. Retention * Day >= 2 * Day
  BY <1>2
<1>5. DayOf(s) * Day \in Nat /\ DayOf(t) * Day \in Nat /\ Retention * Day \in Nat
  BY <1>1, <1>2
<1> QED
  BY <1>1, <1>2, <1>3, <1>4, <1>5

-------------------------------------------------------------------------------
(* Types *)

LEMMA Times ==
  ASSUME now \in Time
  PROVE  /\ now \in Nat /\ MaxTime \in Nat /\ DayOf(MaxTime) \in Nat /\ Today \in Days
         /\ \A t \in Time : t \in Nat /\ DayOf(t) \in Days
         /\ Days \subseteq Nat /\ 0 \in Days
<1>1. MaxTime \in Nat /\ MaxTime <= MaxTime
  BY ConstantsOK
<1>2. DayOf(MaxTime) \in Nat
  BY <1>1, DayBounds
<1>3. ASSUME NEW t \in Time PROVE t \in Nat /\ DayOf(t) \in Days
  <2>1. t \in Nat /\ t <= MaxTime
    BY <1>1 DEF Time
  <2>2. DayOf(t) \in Nat /\ DayOf(t) <= DayOf(MaxTime)
    BY <1>1, <2>1, DayBounds, DayOrder
  <2> QED
    BY <1>2, <2>1, <2>2 DEF Days
<1> QED
  BY <1>1, <1>2, <1>3 DEF Days, Today

LEMMA NewTasks ==
  ASSUME TypeOK
  PROVE  /\ Asleep(now) \in Task /\ Down \in Task /\ Ended \in Task
         /\ \A f \in BOOLEAN : RunFor(f) \in Task
<1>1. now \in Time /\ 0 \in Time /\ now + Interval \in Nat
  BY ConstantsOK DEF TypeOK, Time
<1>2. 0 \in Days /\ Yesterday \in Days \cup {DayOf(MaxTime) + 1}
  <2>1. Today \in Nat /\ Today <= DayOf(MaxTime) /\ DayOf(MaxTime) \in Nat
    BY <1>1, Times DEF Days
  <2>2. Today # 0 => Today - 1 \in Days
    BY <2>1 DEF Days
  <2> QED
    BY <1>1, <2>2, Times DEF Yesterday
<1>3. {} \subseteq Time /\ FALSE \in BOOLEAN
  OBVIOUS
<1>4. Asleep(now) \in Task
  BY <1>1, <1>2, <1>3 DEF Asleep, Task
<1>5. Down \in Task
  BY <1>1, <1>2, <1>3 DEF Down, Task
<1>6. ASSUME NEW f \in BOOLEAN PROVE RunFor(f) \in Task
  BY <1>1, <1>2, <1>3 DEF RunFor, Task, Running
<1> QED
  BY <1>4, <1>5, <1>6 DEF Ended

LEMMA Finite ==
  ASSUME TypeOK
  PROVE  \A S \in SUBSET Time : IsFiniteSet(S) /\ Cardinality(S) \in Nat
<1>1. IsFiniteSet(Time)
  BY ConstantsOK, FS_Interval DEF Time
<1> QED
  BY <1>1, FS_Subset, FS_CardinalityType

LEMMA InitTypes == Init => TypeOK
<1> SUFFICES ASSUME Init PROVE TypeOK
  OBVIOUS
<1>1. now \in Time
  <2>1. MaxTime \in Nat /\ Day \in Nat /\ Day <= MaxTime
    BY ConstantsOK
  <2>2. now \in Nat /\ now <= Day - 1
    BY <2>1 DEF Init
  <2> QED
    BY <2>1, <2>2 DEF Time
<1>2. /\ Asleep(now) \in Task /\ 0 \in Days
  <2>1. 0 \in Days /\ now + Interval \in Nat
    BY <1>1, Times, ConstantsOK
  <2> QED
    BY <1>1, <2>1 DEF Asleep, Task
<1>3. task \in Task /\ reader \in Reader
  BY <1>2 DEF Init, Reader
<1>4. summary \in [Days -> SUBSET Time]
  BY DEF Init
<1> QED
  BY <1>1, <1>3, <1>4 DEF Init, TypeOK

(* What of the reader and the task changes. *)
LEMMA TypeKeeps == ASSUME TypeOK, Next PROVE TypeOK'
<1> USE DEF records_vars
<1>1. CASE Record
  BY <1>1 DEF TypeOK, Record
<1>2. ASSUME NEW t \in Time, Commit(t) \/ Drop(t) PROVE TypeOK'
  BY <1>2 DEF TypeOK, Commit, Drop
<1>3. CASE Wake \/ Stop
  <2>1. PICK f \in BOOLEAN : task' = RunFor(f)
    BY <1>3 DEF Wake, Stop
  <2>2. task' \in Task
    BY <2>1, NewTasks
  <2>3. UNCHANGED <<now, records_vars, summary, reader>>
    BY <1>3 DEF Wake, Stop
  <2> QED
    BY <2>2, <2>3 DEF TypeOK
<1>4. CASE Read
  <2>1. /\ task' = [task EXCEPT !.pc = "upsert", !.got = OfDay(records, task.target)]
        /\ late' = late \cup OfDay(inflight, task.target)
        /\ UNCHANGED <<now, inflight, records, written, summary, reader>>
    BY <1>4 DEF Read
  <2>2. OfDay(records, task.target) \subseteq Time /\ OfDay(inflight, task.target) \subseteq Time
    BY DEF OfDay, TypeOK
  <2>3. task' \in Task
    BY <2>1, <2>2 DEF TypeOK, Task, Running
  <2> QED
    BY <2>1, <2>2, <2>3 DEF TypeOK
<1>5. CASE Upsert
  <2>1. /\ task' = [task EXCEPT !.pc = "cleanup"]
        /\ UNCHANGED <<now, records_vars, reader>>
        /\ summary' = IF task.got = {} THEN summary
                      ELSE [summary EXCEPT ![task.target] = task.got]
    BY <1>5 DEF Upsert
  <2>2. task' \in Task /\ task.got \subseteq Time
    BY <2>1 DEF TypeOK, Task, Running
  <2>3. summary' \in [Days -> SUBSET Time]
    BY <2>1, <2>2 DEF TypeOK
  <2> QED
    BY <2>1, <2>2, <2>3 DEF TypeOK
<1>6. CASE Cleanup \/ RunFails \/ Crash \/ Start
  <2>1. task' \in Task
    BY <1>6, NewTasks DEF Cleanup, RunFails, Crash, Start
  <2>2. reader' \in Reader
    BY <1>6 DEF Cleanup, RunFails, Crash, Start, TypeOK, Reader
  <2>3. /\ records' \subseteq records /\ inflight' \subseteq inflight
        /\ UNCHANGED <<now, written, late, summary>>
    BY <1>6 DEF Cleanup, Kept, RunFails, Crash, Start
  <2> QED
    BY <2>1, <2>2, <2>3 DEF TypeOK
<1>7. CASE Answer \/ \E what \in Readers : Ask(what)
  <2>1. Today \in Days /\ Readers \subseteq {"usage", "quota"}
    BY Times, ConstantsOK DEF TypeOK
  <2>2. reader' \in Reader
    BY <1>7, <2>1 DEF Answer, Ask, TypeOK, Reader
  <2>3. UNCHANGED <<now, records_vars, summary, task>>
    BY <1>7 DEF Answer, Ask
  <2> QED
    BY <2>2, <2>3 DEF TypeOK
<1>8. CASE SumUp \/ AddToday
  <2>1. Cardinality(UNION {summary[d] : d \in Asked}) \in Nat
    <3>1. Asked \subseteq Days
      BY DEF Asked
    <3>2. UNION {summary[d] : d \in Asked} \in SUBSET Time
      BY <3>1 DEF TypeOK
    <3> QED
      BY <3>2, Finite
  <2>2. Cardinality(OfDay(records, reader.today)) \in Nat
    <3>1. OfDay(records, reader.today) \in SUBSET Time
      BY DEF OfDay, TypeOK
    <3> QED
      BY <3>1, Finite
  <2>3. reader' \in Reader
    <3>1. CASE SumUp
      <4> DEFINE c == Cardinality(UNION {summary[d] : d \in Asked})
      <4>1. reader \in Reader /\ c \in Nat /\ reader' = [reader EXCEPT !.pc = "live", !.used = c]
        BY <3>1, <2>1 DEF SumUp, TypeOK
      <4> HIDE DEF c
      <4> QED
        BY <4>1 DEF Reader
    <3>2. CASE AddToday
      <4> DEFINE c == Cardinality(OfDay(records, reader.today))
      <4>1. /\ reader \in Reader /\ c \in Nat
            /\ reader' = [reader EXCEPT !.pc = "answered", !.used = reader.used + c]
        BY <3>2, <2>2 DEF AddToday, TypeOK
      <4> HIDE DEF c
      <4>2. reader.used + c \in Nat
        BY <4>1 DEF Reader
      <4> QED
        BY <4>1, <4>2 DEF Reader
    <3> QED
      BY <1>8, <3>1, <3>2
  <2>4. UNCHANGED <<now, records_vars, summary, task>>
    BY <1>8 DEF SumUp, AddToday
  <2> QED
    BY <2>3, <2>4 DEF TypeOK
<1>9. CASE Tick
  <2>1. now' \in Time
    BY <1>9, Times DEF Tick, TypeOK, Time
  <2> QED
    BY <1>9, <2>1 DEF Tick, TypeOK
<1> QED
  BY <1>1, <1>2, <1>3, <1>4, <1>5, <1>6, <1>7, <1>8, <1>9 DEF Next

-------------------------------------------------------------------------------
(* A summary counts records of its day, and the answer under way no more than   *)
(* the records its summaries may count.                                        *)

CountedInv ==
  /\ task.pc = "upsert" => task.got \subseteq OfDay(written, task.target)
  /\ \A d \in Days : summary[d] \subseteq OfDay(written, d)

(* The records that the summaries asked for may count. *)
Countable == IF reader.of = "usage" THEN {t \in written : DayOf(t) < reader.today} ELSE written

ReaderInv ==
  /\ reader.pc = "live" => reader.used <= Cardinality(Countable)
  /\ NeverOver

CountInv == TypeOK /\ CountedInv /\ ReaderInv

LEMMA InitCount == Init => CountInv
<1> SUFFICES ASSUME Init PROVE CountInv
  OBVIOUS
<1>1. CountedInv
  BY DEF Init, CountedInv, Asleep
<1>2. ReaderInv
  BY DEF Init, ReaderInv, NeverOver
<1> QED
  BY <1>1, <1>2, InitTypes DEF CountInv

LEMMA CountedKept ==
  ASSUME TypeOK, CountedInv, summary' = summary, written \subseteq written',
         task'.pc = "upsert" => task' = task
  PROVE  CountedInv'
  BY DEF CountedInv, OfDay

LEMMA CountedKeeps == ASSUME TypeOK, CountedInv, Next PROVE CountedInv'
<1> USE DEF records_vars
<1>1. CASE Record \/ \E t \in Time : Commit(t) \/ Drop(t)
  BY <1>1, CountedKept DEF Record, Commit, Drop
<1>2. CASE Wake \/ Stop
  BY <1>2, CountedKept DEF Wake, Stop, RunFor
<1>3. CASE Read
  <2>1. /\ task' = [task EXCEPT !.pc = "upsert", !.got = OfDay(records, task.target)]
        /\ summary' = summary /\ written' = written /\ records \subseteq written
        /\ task \in Task
    BY <1>3 DEF Read, TypeOK
  <2>2. task'.target = task.target /\ task'.got = OfDay(records, task.target)
    BY <2>1 DEF Task
  <2> QED
    BY <2>1, <2>2 DEF CountedInv, OfDay
<1>4. CASE Upsert
  <2>1. /\ task.pc = "upsert" /\ task'.pc # "upsert" /\ written' = written
        /\ summary' = IF task.got = {} THEN summary
                      ELSE [summary EXCEPT ![task.target] = task.got]
    BY <1>4 DEF Upsert, TypeOK, Task
  <2> QED
    BY <2>1 DEF CountedInv, TypeOK
<1>5. CASE Cleanup \/ RunFails
  BY <1>5, CountedKept DEF Cleanup, RunFails, Ended, Asleep, Down
<1>6. CASE Crash \/ Start
  BY <1>6, CountedKept DEF Crash, Start, Asleep, Down
<1>7. CASE SumUp \/ AddToday \/ Answer \/ \E what \in Readers : Ask(what)
  BY <1>7, CountedKept DEF SumUp, AddToday, Answer, Ask
<1>8. CASE Tick
  BY <1>8, CountedKept DEF Tick
<1> QED
  BY <1>1, <1>2, <1>3, <1>4, <1>5, <1>6, <1>7, <1>8 DEF Next

LEMMA Smaller ==
  ASSUME TypeOK, NEW S, NEW T \in SUBSET Time, S \subseteq T
  PROVE  Cardinality(S) \in Nat /\ Cardinality(T) \in Nat /\ Cardinality(S) <= Cardinality(T)
<1>1. IsFiniteSet(T) /\ S \in SUBSET Time
  BY Finite
<1> QED
  BY <1>1, Finite, FS_Subset

(* Steps that leave the reader alone. *)
LEMMA ReaderKept ==
  ASSUME TypeOK, ReaderInv, TypeOK', reader' = reader, written \subseteq written'
  PROVE  ReaderInv'
<1> DEFINE d == reader.today
<1>1. reader.used \in Nat
  BY DEF TypeOK, Reader
<1>2. written \in SUBSET Time /\ written' \in SUBSET Time
  BY DEF TypeOK
<1>3. /\ Cardinality(written) \in Nat /\ Cardinality(written') \in Nat
      /\ Cardinality(written) <= Cardinality(written')
  BY <1>2, Smaller
<1>4. /\ Cardinality(OfDay(written, d)) \in Nat /\ Cardinality(OfDay(written', d)) \in Nat
      /\ Cardinality(OfDay(written, d)) <= Cardinality(OfDay(written', d))
  <2>1. OfDay(written, d) \subseteq OfDay(written', d) /\ OfDay(written', d) \in SUBSET Time
    BY <1>2 DEF OfDay
  <2> QED
    BY <2>1, Smaller
<1>5. /\ Cardinality(Countable) \in Nat /\ Cardinality(Countable') \in Nat
      /\ Cardinality(Countable) <= Cardinality(Countable')
  <2>1. Countable \subseteq Countable' /\ Countable' \in SUBSET Time
    BY <1>2 DEF Countable
  <2> QED
    BY <2>1, Smaller
<1>6. reader'.pc = "live" => reader'.used <= Cardinality(Countable')
  BY <1>1, <1>5 DEF ReaderInv
<1>7. NeverOver'
  <2>1. CASE reader.of = "usage"
    BY <1>1, <1>3, <2>1 DEF ReaderInv, NeverOver
  <2>2. CASE reader.of # "usage"
    BY <1>1, <1>3, <1>4, <2>2 DEF ReaderInv, NeverOver
  <2> QED
    BY <2>1, <2>2
<1> QED
  BY <1>6, <1>7 DEF ReaderInv

LEMMA SumUpCounts == ASSUME TypeOK, CountedInv, SumUp PROVE ReaderInv'
<1> DEFINE all == UNION {summary[d] : d \in Asked}
<1>1. /\ reader \in Reader /\ reader' = [reader EXCEPT !.pc = "live", !.used = Cardinality(all)]
      /\ written' = written
  BY DEF SumUp, TypeOK, records_vars
<1>2. all \subseteq Countable
  <2> SUFFICES ASSUME NEW t \in all PROVE t \in Countable
    OBVIOUS
  <2>1. PICK d \in Asked : t \in summary[d]
    OBVIOUS
  <2>2. d \in Days /\ t \in written /\ DayOf(t) = d
    BY <2>1 DEF Asked, CountedInv, OfDay
  <2> QED
    BY <2>1, <2>2 DEF Asked, Countable
<1>3. Countable \in SUBSET Time
  BY DEF Countable, TypeOK
<1>4. Cardinality(all) <= Cardinality(Countable)
  BY <1>2, <1>3, Smaller
<1> HIDE DEF all
<1>5. /\ reader'.pc = "live" /\ reader'.used = Cardinality(all)
      /\ reader'.of = reader.of /\ reader'.today = reader.today
  BY <1>1 DEF Reader
<1>6. Countable' = Countable
  BY <1>1, <1>5 DEF Countable
<1> QED
  BY <1>4, <1>5, <1>6 DEF ReaderInv, NeverOver

LEMMA AddTodayCounts == ASSUME TypeOK, ReaderInv, AddToday PROVE ReaderInv'
<1> DEFINE d == reader.today
           n == Cardinality(OfDay(records, d))
<1>1. /\ reader \in Reader /\ reader.pc = "live"
      /\ reader' = [reader EXCEPT !.pc = "answered", !.used = reader.used + n]
      /\ written' = written /\ records \subseteq written /\ written \in SUBSET Time
  BY DEF AddToday, TypeOK, records_vars
<1>2. /\ n \in Nat /\ Cardinality(OfDay(written, d)) \in Nat /\ n <= Cardinality(OfDay(written, d))
  <2>1. OfDay(records, d) \subseteq OfDay(written, d) /\ OfDay(written, d) \in SUBSET Time
    BY <1>1 DEF OfDay
  <2> QED
    BY <2>1, Smaller
<1>3. Countable \in SUBSET Time /\ Cardinality(Countable) \in Nat /\ Cardinality(written) \in Nat
  <2>1. Countable \in SUBSET Time
    BY <1>1 DEF Countable
  <2> QED
    BY <1>1, <2>1, Finite
<1>4. reader.used \in Nat /\ reader.used <= Cardinality(Countable)
  BY <1>1 DEF ReaderInv, Reader
<1>5. reader.of = "usage" =>
        Cardinality(Countable) + Cardinality(OfDay(written, d)) <= Cardinality(written)
  <2> SUFFICES ASSUME reader.of = "usage"
               PROVE  Cardinality(Countable) + Cardinality(OfDay(written, d)) <= Cardinality(written)
    OBVIOUS
  <2> DEFINE S == Countable
             T == OfDay(written, d)
  <2>1. S \in SUBSET Time /\ T \in SUBSET Time /\ S \cup T \subseteq written
    BY <1>1 DEF Countable, OfDay
  <2>2. S \cap T = {}
    <3>1. ASSUME NEW t \in S, t \in T PROVE FALSE
      <4>1. t \in Time /\ DayOf(t) < d /\ DayOf(t) = d
        BY <1>1, <3>1 DEF Countable, OfDay
      <4>2. DayOf(t) \in Nat
        BY <4>1, Times DEF TypeOK
      <4> QED
        BY <4>1, <4>2
    <3> QED
      BY <3>1
  <2>3. IsFiniteSet(S) /\ IsFiniteSet(T)
    BY <2>1, Finite
  <2> HIDE DEF S, T
  <2>4. Cardinality(S \cup T) = Cardinality(S) + Cardinality(T) - Cardinality(S \cap T)
    BY <2>3, FS_Union
  <2>5. Cardinality(S \cap T) = 0
    BY <2>2, FS_EmptySet
  <2>6. Cardinality(S) \in Nat /\ Cardinality(T) \in Nat
    BY <2>3, FS_CardinalityType
  <2>7. Cardinality(S \cup T) <= Cardinality(written)
    BY <1>1, <2>1, Smaller
  <2>8. Cardinality(S) + Cardinality(T) <= Cardinality(written)
    BY <2>4, <2>5, <2>6, <2>7
  <2> QED
    BY <2>8 DEF S, T
<1> HIDE DEF n
<1>6. /\ reader'.pc = "answered" /\ reader'.used = reader.used + n
      /\ reader'.of = reader.of /\ reader'.today = d
  BY <1>1 DEF Reader
<1>7. NeverOver'
  <2>1. CASE reader.of = "usage"
    BY <1>1, <1>2, <1>3, <1>4, <1>5, <1>6, <2>1 DEF NeverOver
  <2>2. CASE reader.of # "usage"
    <3>1. Countable = written
      BY <2>2 DEF Countable
    <3> QED
      BY <1>1, <1>2, <1>3, <1>4, <1>6, <2>2, <3>1 DEF NeverOver
  <2> QED
    BY <2>1, <2>2
<1> QED
  BY <1>6, <1>7 DEF ReaderInv

LEMMA ReaderKeeps == ASSUME TypeOK, CountedInv, ReaderInv, Next PROVE ReaderInv'
<1> USE DEF records_vars
<1>0. TypeOK' /\ reader \in Reader
  BY TypeKeeps DEF TypeOK
<1>1. CASE Record \/ \E t \in Time : Commit(t) \/ Drop(t)
  BY <1>0, <1>1, ReaderKept DEF Record, Commit, Drop
<1>2. CASE Wake \/ Stop \/ Read \/ Upsert \/ Cleanup \/ RunFails \/ Start \/ Tick
  BY <1>0, <1>2, ReaderKept DEF Wake, Stop, Read, Upsert, Cleanup, RunFails, Start, Tick
<1>3. CASE SumUp
  BY <1>3, SumUpCounts
<1>4. CASE AddToday
  BY <1>4, AddTodayCounts
<1>5. CASE Crash \/ Answer \/ \E what \in Readers : Ask(what)
  <2>1. reader'.pc \in {"idle", "summaries"}
    BY <1>0, <1>5 DEF Crash, Answer, Ask, Reader
  <2> QED
    BY <2>1 DEF ReaderInv, NeverOver
<1> QED
  BY <1>1, <1>2, <1>3, <1>4, <1>5 DEF Next

LEMMA StepCount == CountInv /\ [Next]_vars => CountInv'
<1> SUFFICES ASSUME CountInv, [Next]_vars PROVE CountInv'
  OBVIOUS
<1>1. CASE Next
  BY <1>1, TypeKeeps, CountedKeeps, ReaderKeeps DEF CountInv
<1>2. CASE UNCHANGED vars
  BY <1>2 DEF CountInv, TypeOK, CountedInv, ReaderInv, Countable, NeverOver, vars, records_vars,
              OfDay
<1> QED
  BY <1>1, <1>2

LEMMA CountInvariant == Spec => []CountInv
  BY InitCount, StepCount, PTL DEF Spec

(* Every variable keeps its type. *)
THEOREM RollupTypes == Spec => []TypeOK
<1>1. CountInv => TypeOK
  BY DEF CountInv
<1> QED
  BY <1>1, CountInvariant, PTL

(* Usage never shows a request twice, the quota at most the day it was asked   *)
(* on (get_usage_summaries, get_quota_status): whatever is committed, rolled   *)
(* up or deleted between the two statements of a query.                        *)
THEOREM NothingTwice == Spec => []NeverOver
<1>1. CountInv => NeverOver
  BY DEF CountInv, ReaderInv
<1> QED
  BY <1>1, CountInvariant, PTL

-------------------------------------------------------------------------------
(* What a summary has seen.  A run is for the day before it began, so with two  *)
(* days of retention no cleanup before it has taken records of that day, and   *)
(* none is dated to it any more.                                               *)

(* Records deleted. *)
Gone == written \ records

DatedInv ==
  /\ inflight \cup written \subseteq 0 .. now
  /\ \A t \in Gone : t + Retention * Day < now

RunInv ==
  task.pc \in Running =>
    /\ task.since <= now
    /\ task.target \in Days => task.target + 1 = DayOf(task.since)
    /\ task.pc # "cleanup" => \A t \in Gone : t + Retention * Day < task.since

(* No record of the day is missing but those seen in flight. *)
Covers(set, d) == OfDay(written \cup inflight, d) \subseteq set \cup late

ReadInv ==
  task.pc = "upsert" /\ task.target \in Days =>
    Covers(task.got, task.target) /\ summary[task.target] \subseteq task.got

ClosedInv == \A d \in Days : summary[d] # {} => d < Today /\ Covers(summary[d], d)

RollInv == TypeOK /\ CountedInv /\ DatedInv /\ RunInv /\ ReadInv /\ ClosedInv

LEMMA InitRoll == Init => RollInv
<1> SUFFICES ASSUME Init PROVE RollInv
  OBVIOUS
<1>1. DatedInv /\ RunInv /\ ReadInv /\ ClosedInv
  BY DEF Init, DatedInv, Gone, RunInv, ReadInv, ClosedInv, Asleep, Running
<1> QED
  BY <1>1, InitCount DEF CountInv, RollInv

(* What is dated, and deleted. *)
LEMMA DatedKeeps == ASSUME RollInv, Next PROVE DatedInv'
<1> USE DEF records_vars
<1>1. /\ TypeOK /\ now \in Nat /\ inflight \subseteq Nat /\ written \subseteq Nat
      /\ DatedInv /\ Retention * Day \in Nat /\ records \subseteq written
  <2>1. TypeOK /\ DatedInv /\ now \in Nat /\ Time \subseteq Nat
    BY Times DEF RollInv, TypeOK
  <2>2. Retention \in Nat /\ Day \in Nat
    BY ConstantsOK
  <2>3. Retention * Day \in Nat
    BY <2>2
  <2> QED
    BY <2>1, <2>3 DEF TypeOK
<1>2. CASE Record
  <2>1. now \in 0 .. now
    BY <1>1
  <2> QED
    BY <1>1, <1>2, <2>1 DEF Record, DatedInv, Gone
<1>3. CASE \E t \in Time : Commit(t) \/ Drop(t)
  BY <1>1, <1>3 DEF Commit, Drop, DatedInv, Gone
<1>4. CASE Cleanup
  <2>1. UNCHANGED <<now, inflight, written>> /\ records' = Kept
    BY <1>4 DEF Cleanup
  <2>2. ASSUME NEW t \in Gone' PROVE t + Retention * Day < now
    <3>1. t \in written /\ t \in Nat /\ t \notin Kept
      BY <1>1, <2>1, <2>2 DEF Gone
    <3>2. CASE t \in records
      <4>1. ~ (t + Retention * Day >= now)
        BY <3>1, <3>2 DEF Kept
      <4>2. t + Retention * Day \in Nat
        BY <1>1, <3>1
      <4> QED
        BY <1>1, <4>1, <4>2
    <3>3. CASE t \notin records
      BY <1>1, <3>1, <3>3 DEF DatedInv, Gone
    <3> QED
      BY <3>2, <3>3
  <2> QED
    BY <1>1, <2>1, <2>2 DEF DatedInv
<1>5. CASE Wake \/ Stop \/ Read \/ Upsert \/ RunFails \/ Crash \/ Start
  BY <1>1, <1>5 DEF Wake, Stop, Read, Upsert, RunFails, Crash, Start, DatedInv, Gone
<1>6. CASE SumUp \/ AddToday \/ Answer \/ \E what \in Readers : Ask(what)
  BY <1>1, <1>6 DEF SumUp, AddToday, Answer, Ask, DatedInv, Gone
<1>7. CASE Tick
  <2>1. now' = now + 1 /\ UNCHANGED <<inflight, written, records>>
    BY <1>7 DEF Tick
  <2>2. \A t \in 0 .. now : t \in 0 .. now + 1
    BY <1>1
  <2>3. ASSUME NEW t \in Gone PROVE t + Retention * Day < now + 1
    <3>1. t \in Nat /\ t + Retention * Day < now
      BY <1>1, <2>3 DEF DatedInv, Gone
    <3>2. t + Retention * Day \in Nat
      BY <1>1, <3>1
    <3> QED
      BY <1>1, <3>1, <3>2
  <2> QED
    BY <1>1, <2>1, <2>2, <2>3 DEF DatedInv, Gone
<1> QED
  BY <1>2, <1>3, <1>4, <1>5, <1>6, <1>7 DEF Next

(* A run that begins. *)
LEMMA RunBegins ==
  ASSUME RollInv, NEW f \in BOOLEAN, task' = RunFor(f), UNCHANGED <<now, records, written>>
  PROVE  RunInv'
<1>1. /\ task'.pc = "read" /\ task'.since = now /\ task'.target = Yesterday
  BY DEF RunFor
<1>2. Today \in Nat /\ now \in Nat /\ DayOf(MaxTime) \in Nat /\ now <= now
  BY Times DEF RollInv, TypeOK
<1>3. Yesterday \in Days => Yesterday + 1 = Today
  BY <1>2 DEF Yesterday, Days
<1>4. \A t \in Gone : t + Retention * Day < now
  BY DEF RollInv, DatedInv
<1> QED
  BY <1>1, <1>2, <1>3, <1>4 DEF RunInv, Gone, Today

LEMMA RunKept ==
  ASSUME TypeOK, RunInv, task' = task \/ task'.pc \notin Running,
         now' \in Nat, now' >= now, Gone' \subseteq Gone
  PROVE  RunInv'
<1>1. CASE task'.pc \notin Running
  BY <1>1 DEF RunInv
<1>2. CASE task' = task /\ task.pc \in Running
  <2>1. task.since \in Nat /\ now \in Nat
    BY Times DEF TypeOK, Task
  <2> QED
    BY <1>2, <2>1 DEF RunInv
<1> QED
  BY <1>1, <1>2

LEMMA RunKeeps == ASSUME RollInv, Next PROVE RunInv'
<1> USE DEF records_vars
<1>1. TypeOK /\ RunInv /\ now \in Nat /\ now >= now /\ records \subseteq written /\ task \in Task
  BY Times DEF RollInv, TypeOK
<1>2. CASE Record \/ \E t \in Time : Commit(t) \/ Drop(t)
  BY <1>1, <1>2, RunKept DEF Record, Commit, Drop, Gone
<1>3. CASE Wake \/ Stop
  BY <1>3, RunBegins DEF Wake, Stop
<1>4. CASE Read \/ Upsert
  <2>1. /\ task.pc \in Running /\ task'.pc \in Running /\ (task'.pc # "cleanup" => task.pc # "cleanup")
        /\ task'.since = task.since /\ task'.target = task.target
        /\ UNCHANGED <<now, records, written>>
    BY <1>1, <1>4 DEF Read, Upsert, Task, Running
  <2> QED
    BY <1>1, <2>1 DEF RunInv, Gone
<1>5. CASE Cleanup \/ RunFails \/ Crash \/ Start
  <2>1. task'.pc \notin Running
    BY <1>5 DEF Cleanup, RunFails, Crash, Start, Ended, Asleep, Down, Running
  <2> QED
    BY <2>1 DEF RunInv
<1>6. CASE SumUp \/ AddToday \/ Answer \/ \E what \in Readers : Ask(what)
  BY <1>1, <1>6, RunKept DEF SumUp, AddToday, Answer, Ask, Gone
<1>7. CASE Tick
  <2>1. now' = now + 1 /\ UNCHANGED <<task, written, records>>
    BY <1>7 DEF Tick
  <2>2. now' \in Nat /\ now' >= now
    BY <1>1, <2>1
  <2> QED
    BY <1>1, <2>1, <2>2, RunKept DEF Gone
<1> QED
  BY <1>2, <1>3, <1>4, <1>5, <1>6, <1>7 DEF Next

(* Days over are dated to no more. *)
LEMMA CoversKept ==
  ASSUME NEW S, NEW d, Covers(S, d), written' \cup inflight' \subseteq written \cup inflight,
         late \subseteq late'
  PROVE  Covers(S, d)'
  BY DEF Covers, OfDay

LEMMA CoversRecord ==
  ASSUME NEW S, NEW d, Covers(S, d), Record, d # Today
  PROVE  Covers(S, d)'
  BY DEF Covers, OfDay, Record, Today

(* The day of a run is over. *)
LEMMA TargetOver ==
  ASSUME TypeOK, RunInv, task.pc \in Running, task.target \in Days
  PROVE  task.target \in Nat /\ task.target < Today
<1>1. task.since \in Nat /\ now \in Nat /\ task.since <= now /\ task.target + 1 = DayOf(task.since)
  BY Times DEF TypeOK, Task, RunInv
<1>2. DayOf(task.since) <= Today
  BY <1>1, DayOrder DEF Today
<1>3. task.target \in Nat /\ Today \in Nat
  BY Times DEF TypeOK
<1> QED
  BY <1>1, <1>2, <1>3

(* No record of the day of a run was deleted before it read them. *)
LEMMA NoneGone ==
  ASSUME TypeOK, RunInv, Retention >= 2, task.pc = "read", task.target \in Days
  PROVE  OfDay(written, task.target) \subseteq OfDay(records, task.target)
<1> SUFFICES ASSUME NEW t \in OfDay(written, task.target), t \notin records PROVE FALSE
  BY DEF OfDay
<1>1. t \in Gone /\ t \in Nat /\ DayOf(t) = task.target /\ task.since \in Nat
  BY Times DEF Gone, OfDay, TypeOK, Task
<1>2. task.target + 1 = DayOf(task.since) /\ t + Retention * Day < task.since
  BY <1>1 DEF RunInv, Running
<1>3. t + Retention * Day >= task.since
  BY <1>1, <1>2, DayKept
<1>4. t + Retention * Day \in Nat
  <2>1. Retention \in Nat /\ Day \in Nat
    BY ConstantsOK
  <2>2. Retention * Day \in Nat
    BY <2>1
  <2> QED
    BY <1>1, <2>2
<1> QED
  BY <1>1, <1>2, <1>3, <1>4

LEMMA ReadKeeps == ASSUME RollInv, Retention >= 2, Next PROVE ReadInv'
<1> USE DEF records_vars
<1>1. TypeOK /\ RunInv /\ ReadInv /\ CountedInv /\ task \in Task
  BY DEF RollInv, TypeOK
<1>2. CASE Record
  <2> SUFFICES ASSUME task.pc = "upsert", task.target \in Days
               PROVE  Covers(task.got, task.target)' /\ summary'[task.target] \subseteq task.got
    BY <1>2 DEF Record, ReadInv
  <2>1. task.target # Today
    BY <1>1, TargetOver, Times DEF Running, TypeOK
  <2>2. /\ Covers(task.got, task.target) /\ summary[task.target] \subseteq task.got
        /\ task' = task /\ summary' = summary
    BY <1>1, <1>2 DEF ReadInv, Record
  <2> QED
    BY <1>2, <2>1, <2>2 DEF Covers, OfDay, Record, Today
<1>3. ASSUME NEW t \in Time, Commit(t) \/ Drop(t) PROVE ReadInv'
  <2>1. /\ written' \cup inflight' \subseteq written \cup inflight
        /\ UNCHANGED <<late, task, summary>>
    BY <1>3 DEF Commit, Drop
  <2> QED
    BY <1>1, <2>1 DEF ReadInv, Covers, OfDay
<1>4. CASE Read
  <2>1. /\ task' = [task EXCEPT !.pc = "upsert", !.got = OfDay(records, task.target)]
        /\ late' = late \cup OfDay(inflight, task.target)
        /\ UNCHANGED <<inflight, written, summary>> /\ task.pc = "read"
    BY <1>4 DEF Read
  <2>2. task'.target = task.target /\ task'.got = OfDay(records, task.target)
    BY <1>1, <2>1 DEF Task
  <2> SUFFICES ASSUME task.target \in Days
               PROVE  Covers(task.got, task.target)' /\ summary[task.target] \subseteq task'.got
    BY <2>1, <2>2 DEF ReadInv
  <2>3. OfDay(written, task.target) \subseteq OfDay(records, task.target)
    BY <1>1, <2>1, NoneGone
  <2>4. summary[task.target] \subseteq OfDay(written, task.target)
    BY <1>1 DEF CountedInv
  <2>5. Covers(task.got, task.target)'
    BY <2>1, <2>2, <2>3 DEF Covers, OfDay
  <2> QED
    BY <2>2, <2>3, <2>4, <2>5
<1>5. CASE Wake \/ Stop
  BY <1>5 DEF Wake, Stop, RunFor, ReadInv
<1>6. CASE Upsert \/ Cleanup \/ RunFails \/ Crash \/ Start
  <2>1. task'.pc # "upsert"
    BY <1>1, <1>6 DEF Upsert, Cleanup, RunFails, Crash, Start, Ended, Asleep, Down, Task
  <2> QED
    BY <2>1 DEF ReadInv
<1>7. CASE SumUp \/ AddToday \/ Answer \/ Tick \/ \E what \in Readers : Ask(what)
  BY <1>1, <1>7 DEF SumUp, AddToday, Answer, Tick, Ask, ReadInv, Covers
<1> QED
  BY <1>2, <1>3, <1>4, <1>5, <1>6, <1>7 DEF Next

LEMMA ClosedKeeps == ASSUME RollInv, Next PROVE ClosedInv'
<1> USE DEF records_vars
<1>1. /\ TypeOK /\ RunInv /\ ReadInv /\ ClosedInv /\ task \in Task /\ now \in Nat /\ Today \in Nat
      /\ Days \subseteq Nat
  BY Times DEF RollInv, TypeOK
<1>2. CASE Record
  <2> SUFFICES ASSUME NEW d \in Days, summary'[d] # {}
               PROVE  (d < Today)' /\ Covers(summary[d], d)'
    BY DEF ClosedInv
  <2>1. d < Today /\ Covers(summary[d], d) /\ summary' = summary /\ now' = now
    BY <1>1, <1>2 DEF ClosedInv, Record
  <2>2. d # Today
    BY <1>1, <2>1
  <2> QED
    BY <1>2, <2>1, <2>2 DEF Covers, OfDay, Record, Today
<1>3. ASSUME /\ written' \cup inflight' \subseteq written \cup inflight /\ late \subseteq late'
             /\ summary' = summary /\ now' = now
      PROVE ClosedInv'
  BY <1>1, <1>3 DEF ClosedInv, Covers, OfDay, Today
<1>6. CASE \E t \in Time : Commit(t) \/ Drop(t)
  BY <1>3, <1>6 DEF Commit, Drop
<1>7. CASE Wake \/ Stop \/ Read \/ Cleanup
  BY <1>3, <1>7 DEF Wake, Stop, Read, Cleanup
<1>8. CASE RunFails \/ Crash \/ Start
  BY <1>3, <1>8 DEF RunFails, Crash, Start
<1>9. CASE SumUp \/ AddToday \/ Answer \/ \E what \in Readers : Ask(what)
  BY <1>3, <1>9 DEF SumUp, AddToday, Answer, Ask
<1>4. CASE Upsert
  <2>1. /\ task.pc = "upsert" /\ UNCHANGED <<now, written, inflight, late>>
        /\ summary' = IF task.got = {} THEN summary
                      ELSE [summary EXCEPT ![task.target] = task.got]
    BY <1>4 DEF Upsert
  <2> SUFFICES ASSUME NEW d \in Days, summary'[d] # {}
               PROVE  d < Today /\ Covers(summary'[d], d)
    BY <2>1 DEF ClosedInv, Covers, Today
  <2>2. CASE summary'[d] = summary[d]
    BY <1>1, <2>2 DEF ClosedInv
  <2>3. CASE d = task.target /\ summary'[d] = task.got
    <3>1. d < Today
      BY <1>1, <2>1, <2>3, TargetOver DEF Running
    <3> QED
      BY <1>1, <2>1, <2>3, <3>1 DEF ReadInv
  <2> QED
    BY <1>1, <2>1, <2>2, <2>3 DEF TypeOK
<1>5. CASE Tick
  <2>1. now' = now + 1 /\ UNCHANGED <<written, inflight, late, summary>>
    BY <1>5 DEF Tick
  <2>2. now + 1 \in Nat /\ now <= now + 1
    BY <1>1
  <2>3. Today <= Today' /\ Today' \in Nat
    BY <1>1, <2>1, <2>2, DayOrder, DayBounds DEF Today
  <2> SUFFICES ASSUME NEW d \in Days, summary[d] # {} PROVE d < Today'
    BY <1>1, <2>1 DEF ClosedInv, Covers
  <2>4. d < Today /\ d \in Nat
    BY <1>1 DEF ClosedInv
  <2> QED
    BY <1>1, <2>3, <2>4
<1> QED
  BY <1>2, <1>4, <1>5, <1>6, <1>7, <1>8, <1>9 DEF Next

LEMMA StepRoll == Retention >= 2 /\ RollInv /\ [Next]_vars => RollInv'
<1> SUFFICES ASSUME Retention >= 2, RollInv, [Next]_vars PROVE RollInv'
  OBVIOUS
<1>1. CASE Next
  BY <1>1, TypeKeeps, CountedKeeps, DatedKeeps, RunKeeps, ReadKeeps, ClosedKeeps DEF RollInv
<1>2. CASE UNCHANGED vars
  BY <1>2 DEF RollInv, TypeOK, CountedInv, DatedInv, Gone, RunInv, ReadInv, ClosedInv, Covers,
              OfDay, Today, vars, records_vars
<1> QED
  BY <1>1, <1>2

LEMMA RollInvariant == ASSUME Retention >= 2 PROVE Spec => []RollInv
<1>1. RollInv /\ [Next]_vars => RollInv'
  BY StepRoll
<1> QED
  BY <1>1, InitRoll, PTL DEF Spec

(* With two days of retention a summary counts every record of its day but     *)
(* those still in flight when the day was read, whatever runs, fails, repeats  *)
(* or restarts (aggregate_day, record_usage, cleanup_old_records).             *)
THEOREM SummariesWhole == ASSUME Retention >= 2 PROVE Spec => []SummaryWhole
<1>1. ASSUME RollInv, NEW d \in Days, summary[d] # {}
      PROVE  OfDay(written, d) \subseteq summary[d] \cup late
  BY <1>1 DEF RollInv, ClosedInv, Covers, OfDay
<1>2. RollInv => SummaryWhole
  BY <1>1 DEF SummaryWhole
<1> QED
  BY <1>2, RollInvariant, PTL

(* With two days of retention a run repeated for a day replaces its summary by *)
(* none that counts less ("idempotent re-runs").                               *)
THEOREM SummariesKept == ASSUME Retention >= 2 PROVE Spec => SummaryKept
<1>1. ASSUME RollInv, [Next]_vars, NEW d \in Days PROVE summary[d] \subseteq summary'[d]
  <2>1. CASE summary' = summary
    BY <2>1
  <2>2. CASE Upsert
    BY <1>1, <2>2 DEF Upsert, RollInv, TypeOK, ReadInv
  <2>3. summary' = summary \/ Upsert
    BY <1>1 DEF Next, vars, Record, Commit, Drop, Wake, Read, Cleanup, RunFails, Stop, Crash, Start,
                Ask, SumUp, AddToday, Answer, Tick
  <2> QED
    BY <2>1, <2>2, <2>3
<1>2. RollInv /\ [Next]_vars => [\A d \in Days : summary[d] \subseteq summary'[d]]_vars
  BY <1>1
<1> QED
  BY <1>2, RollInvariant, PTL DEF Spec, SummaryKept
===============================================================================
