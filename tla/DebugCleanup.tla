----------------------------- MODULE DebugCleanup -----------------------------
(***************************************************************************)
(* Content of requests made in debug mode, kept in debug_logs, and the     *)
(* task that deletes it (gateway/tasks/debug_cleanup.py): a loop that      *)
(* sleeps first, one DELETE by age, and a last one when it is stopped.     *)
(*                                                                         *)
(* One row is followed, written again once it has been deleted.  A DELETE  *)
(* takes less than the unit of time.  The cutoff is computed before the    *)
(* session is opened; of a row it says whether it goes.  The cascade from  *)
(* usage_records, whose retention is longer, is left out.                  *)
(***************************************************************************)
EXTENDS Integers

CONSTANTS
  Interval,   \* cleanup_interval_seconds
  Retention,  \* retention_hours
  Lag,        \* longest time from the start of a writer's transaction to its commit
  MaxLate     \* bound: delays for which a row may outstay

(* What Lifespan assumes of them. *)
CleanupConstants ==
  /\ Interval \in Nat \ {0} /\ Retention \in Nat \ {0}
  /\ Lag \in 0 .. Retention /\ MaxLate \in Nat

VARIABLES
  log,   \* time since created_at of the row, -1 when there is none
  task,  \* [pc, left, old, final]: left to sleep; whether the row is before
         \* the cutoff; whether this is the run of stop
  late   \* delay of the row's deletion by failures, crashes and downtime (history)

vars == <<log, task, late>>

NoLog == -1
Oldest == Retention + Interval + MaxLate

Task(pc, left, old, final) == [pc |-> pc, left |-> left, old |-> old, final |-> final]

(* The type of every variable. *)
TypeOK ==
  /\ log \in NoLog .. Oldest
  /\ task \in [pc : {"sleep", "delete", "down"}, left : 0 .. Interval,
               old : BOOLEAN, final : BOOLEAN]
  /\ late \in 0 .. MaxLate

Sleeping == Task("sleep", Interval, FALSE, FALSE)
Down == Task("down", 0, FALSE, FALSE)

Init == log = NoLog /\ task = Sleeping /\ late = 0

(* record_usage commits: created_at is the time its transaction began. *)
Write ==
  /\ log = NoLog
  /\ log' \in 0 .. Lag
  /\ UNCHANGED <<task, late>>

-------------------------------------------------------------------------------
(* created_at < cutoff *)
Old == log > Retention

Wake ==
  /\ task.pc = "sleep" /\ task.left = 0
  /\ task' = Task("delete", 0, Old, FALSE)
  /\ UNCHANGED <<log, late>>

(* After a run the loop sleeps, the last one ends the task. *)
Ended == IF task.final THEN Down ELSE Sleeping

(* The DELETE: a delay is over with the row it delayed. *)
Delete ==
  /\ log' = IF task.old THEN NoLog ELSE log
  /\ late' = IF task.old \/ log = NoLog THEN 0 ELSE late

(* The row is not deleted, which holds it up by n. *)
HeldUp(n) ==
  /\ UNCHANGED log
  /\ late' = IF log = NoLog THEN 0 ELSE late + n
  /\ late' <= MaxLate

Done ==
  /\ task.pc = "delete"
  /\ Delete
  /\ task' = Ended

(* The statement or the commit raises, logged: nothing was deleted, or only the *)
(* reply to the commit was lost.                                               *)
Raises ==
  /\ task.pc = "delete"
  /\ HeldUp(Interval) \/ Delete
  /\ task' = Ended

(* Mutant of Stop: without the last run. *)
StopAtOnce ==
  /\ task.pc # "down" /\ ~ task.final
  /\ task' = Down
  /\ UNCHANGED <<log, late>>

(* stop: the loop is cancelled, in a run if it is in one, then a last run. *)
Stop ==
  /\ task.pc # "down" /\ ~ task.final
  /\ \/ UNCHANGED <<log, late>>
     \/ task.pc = "delete" /\ Delete
  /\ task' = Task("delete", 0, log' > Retention, TRUE)

(* The process dies, and what the loop has slept is lost with it. *)
Crash ==
  /\ task.pc # "down"
  /\ \/ HeldUp(Interval)
     \/ task.pc = "delete" /\ Delete
  /\ task' = Down

Start ==
  /\ task.pc = "down"
  /\ task' = Sleeping
  /\ UNCHANGED <<log, late>>

(* Timers are on time. *)
Tick ==
  /\ task.pc # "delete" /\ (task.pc = "sleep" => task.left > 0)
  /\ log < Oldest
  /\ log' = IF log = NoLog THEN NoLog ELSE log + 1
  /\ task' = IF task.pc = "sleep" THEN [task EXCEPT !.left = @ - 1] ELSE task
  /\ late' = IF task.pc = "down" /\ log # NoLog THEN late + 1 ELSE late
  /\ late' <= MaxLate

-------------------------------------------------------------------------------
(* Content is deleted at most one interval after its retention, restarts and   *)
(* deployments included, but for the delay by runs that failed, by crashes and *)
(* by the time no process was up (cleanup_once, stop).                         *)
OldContentGoes == log <= Retention + Interval + late
===============================================================================
