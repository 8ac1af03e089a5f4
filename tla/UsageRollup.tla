----------------------------- MODULE UsageRollup -----------------------------
(***************************************************************************)
(* Usage of one key on one subnet: records written behind the requests     *)
(* (middleware/usage.py), rolled up once a day into summaries              *)
(* (tasks/usage_aggregation.py), read back by get_usage_summaries and      *)
(* get_quota_status (services/usage_service.py).                           *)
(*                                                                         *)
(* Time is a number of ticks, Day of them a day; a record is the tick it   *)
(* was created in, a summary the set of records it counts.                 *)
(***************************************************************************)
EXTENDS Naturals, FiniteSets

CONSTANTS
  Day,          \* ticks in a day
  MaxTime,      \* bound: last tick
  Interval,     \* aggregation_interval
  Retention,    \* retention_days
  RunTime,      \* environment: ticks a run of the task may take
  Lag,          \* environment: ticks a record may take to be committed
  Readers,      \* what is asked for, of "usage" and "quota"
  Fails         \* statements fail, the process crashes and is stopped

ASSUME ConstantsOK ==
  /\ Day \in 1 .. MaxTime /\ Interval \in Nat \ {0} /\ Retention \in Nat \ {0}
  /\ Readers \subseteq {"usage", "quota"}
  /\ MaxTime \in Nat /\ RunTime \in Nat /\ Lag \in Nat /\ Fails \in BOOLEAN

Time == 0 .. MaxTime
DayOf(t) == t \div Day
Days == 0 .. DayOf(MaxTime)

VARIABLES
  now,
  inflight,   \* records of transactions not committed yet
  records,    \* table usage_records
  summary,    \* table daily_usage_summaries: summary[d], {} when there is no row
  task,       \* the aggregation task
  reader,     \* a request for usage or quota
  written,    \* records ever committed (history)
  late        \* records in flight when their day was read (history)

records_vars == <<inflight, records, written, late>>
vars == <<now, records_vars, summary, task, reader>>

Running == {"read", "upsert", "cleanup"}

Task == [pc : {"down", "sleep"} \cup Running, final : BOOLEAN, since : Time,
         wake : Nat, target : Days \cup {DayOf(MaxTime) + 1}, got : SUBSET Time]
Reader == [pc : {"idle", "summaries", "live", "answered"}, of : {"usage", "quota"},
           today : Days, used : Nat]

(* The type of every variable. *)
TypeOK ==
  /\ now \in Time /\ inflight \subseteq Time /\ records \subseteq Time
  /\ summary \in [Days -> SUBSET Time]
  /\ task \in Task /\ reader \in Reader
  /\ written \subseteq Time /\ late \subseteq Time /\ records \subseteq written

Asleep(t) == [pc |-> "sleep", final |-> FALSE, since |-> t, wake |-> t + Interval,
              target |-> 0, got |-> {}]

Down == [pc |-> "down", final |-> FALSE, since |-> 0, wake |-> 0, target |-> 0, got |-> {}]

(* The process starts at some time of the first day. *)
Init ==
  /\ now \in 0 .. Day - 1
  /\ inflight = {} /\ records = {} /\ written = {} /\ late = {}
  /\ summary = [d \in Days |-> {}]
  /\ task = Asleep(now)
  /\ reader = [pc |-> "idle", of |-> "usage", today |-> 0, used |-> 0]

Today == DayOf(now)
OfDay(set, d) == {t \in set : DayOf(t) = d}
Up == task.pc # "down"

-------------------------------------------------------------------------------
(* record_usage: created_at is the start of the transaction. *)

Record ==
  /\ Up /\ now \notin inflight \cup written
  /\ inflight' = inflight \cup {now}
  /\ UNCHANGED <<now, records, written, late, summary, task, reader>>

(* Mutant of Commit: the row is dated when it is committed. *)
CommitDated(t) ==
  /\ t \in inflight
  /\ inflight' = inflight \ {t}
  /\ records' = records \cup {now} /\ written' = written \cup {t}
  /\ UNCHANGED <<now, late, summary, task, reader>>

Commit(t) ==
  /\ t \in inflight
  /\ inflight' = inflight \ {t}
  /\ records' = records \cup {t} /\ written' = written \cup {t}
  /\ UNCHANGED <<now, late, summary, task, reader>>

(* A failed write is logged and forgotten. *)
Drop(t) ==
  /\ Fails /\ t \in inflight
  /\ inflight' = inflight \ {t}
  /\ UNCHANGED <<now, records, written, late, summary, task, reader>>

-------------------------------------------------------------------------------
(* run_once *)

(* Mutant of Yesterday: the day that is not over yet. *)
YesterdayIsToday == Today

(* The day a run is for; on the first there is none. *)
Yesterday == IF Today = 0 THEN DayOf(MaxTime) + 1 ELSE Today - 1

RunFor(final) ==
  [pc |-> "read", final |-> final, since |-> now, wake |-> 0, target |-> Yesterday, got |-> {}]

Wake ==
  /\ task.pc = "sleep" /\ now >= task.wake
  /\ task' = RunFor(FALSE)
  /\ UNCHANGED <<now, records_vars, summary, reader>>

(* The SELECT of aggregate_day sees what is committed. *)
Read ==
  /\ task.pc = "read"
  /\ task' = [task EXCEPT !.pc = "upsert", !.got = OfDay(records, task.target)]
  /\ late' = late \cup OfDay(inflight, task.target)
  /\ UNCHANGED <<now, inflight, records, written, summary, reader>>

(* The upserts replace what a summary counts; no record, no row. *)
Upsert ==
  /\ task.pc = "upsert"
  /\ summary' = IF task.got = {} THEN summary
                ELSE [summary EXCEPT ![task.target] = task.got]
  /\ task' = [task EXCEPT !.pc = "cleanup"]
  /\ UNCHANGED <<now, records_vars, reader>>

(* After a run the task sleeps, the last run ends it. *)
Ended == IF task.final THEN Down ELSE Asleep(now)

(* The records the retention keeps. *)
Kept == {t \in records : t + Retention * Day >= now}

Cleanup ==
  /\ task.pc = "cleanup"
  /\ records' = Kept
  /\ task' = Ended
  /\ UNCHANGED <<now, inflight, written, late, summary, reader>>

(* Mutant of RunFails: the upserts had begun by deleting the old summaries. *)
RunFailsEmptied ==
  /\ Fails /\ task.pc \in Running
  /\ task' = Ended
  /\ summary' = IF task.pc = "upsert" THEN [summary EXCEPT ![task.target] = {}] ELSE summary
  /\ UNCHANGED <<now, records_vars, reader>>

(* An exception ends the run; the loop sleeps for the whole interval again. *)
RunFails ==
  /\ Fails /\ task.pc \in Running
  /\ task' = Ended
  /\ UNCHANGED <<now, records_vars, summary, reader>>

(* The loop is cancelled, wherever it is, and a last run is made. *)
Stop ==
  /\ Fails /\ Up /\ ~ task.final
  /\ task' = RunFor(TRUE)
  /\ UNCHANGED <<now, records_vars, summary, reader>>

(* Open transactions are rolled back, answers not given. *)
Crash ==
  /\ Fails /\ Up
  /\ task' = Down
  /\ inflight' = {}
  /\ reader' = [reader EXCEPT !.pc = "idle"]
  /\ UNCHANGED <<now, records, written, late, summary>>

Start ==
  /\ ~ Up
  /\ task' = Asleep(now)
  /\ UNCHANGED <<now, records_vars, summary, reader>>

-------------------------------------------------------------------------------
(* get_usage_summaries and get_quota_status; the horizon is within one month.  *)

Ask(what) ==
  /\ Up /\ reader.pc = "idle"
  /\ reader' = [pc |-> "summaries", of |-> what, today |-> Today, used |-> 0]
  /\ UNCHANGED <<now, records_vars, summary, task>>

(* Mutant of Asked: the usage of an open range has no end either. *)
AskedUnbounded == Days

(* The days whose summaries are asked for: usage up to the day before, quota   *)
(* whatever this month has.                                                    *)
Asked == {d \in Days : reader.of = "usage" => d < reader.today}

SumUp ==
  /\ reader.pc = "summaries"
  /\ reader' = [reader EXCEPT !.pc = "live",
                              !.used = Cardinality(UNION {summary[d] : d \in Asked})]
  /\ UNCHANGED <<now, records_vars, summary, task>>

AddToday ==
  /\ reader.pc = "live"
  /\ reader' = [reader EXCEPT !.pc = "answered",
                              !.used = @ + Cardinality(OfDay(records, reader.today))]
  /\ UNCHANGED <<now, records_vars, summary, task>>

Answer ==
  /\ reader.pc = "answered"
  /\ reader' = [reader EXCEPT !.pc = "idle"]
  /\ UNCHANGED <<now, records_vars, summary, task>>

-------------------------------------------------------------------------------
(* A wake-up is not late, a run and a write take their time. *)
Tick ==
  /\ now < MaxTime
  /\ task.pc = "sleep" => now < task.wake
  /\ task.pc \in Running => now < task.since + RunTime
  /\ \A t \in inflight : now < t + Lag
  /\ now' = now + 1
  /\ UNCHANGED <<records_vars, summary, task, reader>>

Next ==
  \/ Record \/ \E t \in Time : Commit(t) \/ Drop(t)
  \/ Wake \/ Read \/ Upsert \/ Cleanup \/ RunFails \/ Stop \/ Crash \/ Start
  \/ \E what \in Readers : Ask(what)
  \/ SumUp \/ AddToday \/ Answer \/ Tick

Spec == Init /\ [][Next]_vars

-------------------------------------------------------------------------------
(* Properties *)

(* A summary counts every record of its day but those still in flight when the *)
(* day was read: nothing that runs, fails or restarts between makes it lose    *)
(* one (aggregate_day against record_usage and cleanup_old_records).           *)
SummaryWhole ==
  \A d \in Days : summary[d] # {} => OfDay(written, d) \subseteq summary[d] \cup late

(* A summary is never replaced by one that counts less: runs repeated at a     *)
(* shutdown are harmless ("idempotent re-runs", story 5.1).                    *)
SummaryKept == [][\A d \in Days : summary[d] \subseteq summary'[d]]_vars

(* Usage never shows a request twice, though summaries and today's records are *)
(* read one after the other while the day changes and the task runs.  The      *)
(* quota can: it asks for summaries without an end, and counts the day it was  *)
(* asked on once more when that day is summarised in between, but never more   *)
(* than that (get_usage_summaries, get_quota_status).                          *)
NeverOver ==
  reader.pc = "answered" =>
    reader.used <= Cardinality(written)
      + IF reader.of = "usage" THEN 0 ELSE Cardinality(OfDay(written, reader.today))
===============================================================================
