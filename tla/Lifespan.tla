------------------------------- MODULE Lifespan -------------------------------
(***************************************************************************)
(* The life of the process (lifespan in gateway/main.py): what it checks   *)
(* and starts one after the other, and the steps of its shutdown, each of  *)
(* which may raise without the next being left out.  The score flush of    *)
(* ScoreFlush and the debug-log cleanup of DebugCleanup run in between,    *)
(* each with a last run when it is stopped; their actions are joined to    *)
(* the steps that start and stop them, their clocks are their own.         *)
(*                                                                         *)
(* enable_bittensor is on.  What the usage aggregation does is in module   *)
(* UsageRollup, what the metagraph manager does in MetagraphSync.          *)
(***************************************************************************)
EXTENDS ScoreFlush, Integers

CONSTANTS
  LogInterval, LogRetention, LogLag, LogMaxLate, \* see DebugCleanup
  MaxRecords  \* bound: record_usage tasks at a time

VARIABLES
  at,            \* the step lifespan is at
  loops,         \* started and not yet stopped, of the manager and the usage task
  engine,        \* the engine is not disposed of
  records,       \* record_usage tasks that requests have created, not yet ended
  log, task, late  \* of DebugCleanup

Logs == INSTANCE DebugCleanup WITH
  Interval <- LogInterval, Retention <- LogRetention, Lag <- LogLag, MaxLate <- LogMaxLate

ASSUME LogConstantsOK == Logs!CleanupConstants /\ MaxRecords \in Nat

scores == <<state, flush, row, bounds, seen, hurt>>
logs == <<log, task, late>>
process == <<at, loops, engine, records>>
all == <<scores, logs, process>>

Starting == {"database", "redis", "bittensor", "sync", "check"}
Stopping == {"stop_debug", "stop_usage", "stop_scores", "stop_manager",
             "close_dendrite", "dispose_engine", "close_redis"}

(* The type of every variable. *)
LifespanTypeOK ==
  /\ TypeOK /\ Logs!TypeOK
  /\ at \in Starting \cup Stopping \cup {"down", "serving"}
  /\ loops \subseteq {"manager", "usage"}
  /\ engine \in BOOLEAN
  /\ records \in 0 .. MaxRecords

(* A process that has just come up. *)
LifespanInit ==
  /\ Init /\ Logs!Init
  /\ at = "serving" /\ loops = {"manager", "usage"} /\ engine = TRUE
  /\ records = 0

-------------------------------------------------------------------------------
(* Startup.  Every failure ends lifespan, and with it the process. *)

Boot ==
  /\ at = "down" /\ starts < Restarts /\ records = 0
  /\ at' = "database" /\ engine' = TRUE
  /\ UNCHANGED <<loops, records, scores, logs>>

(* SELECT 1, the ping of Redis, then the wallet and the clients of Bittensor. *)
Checks ==
  /\ \E step \in {<<"database", "redis">>, <<"redis", "bittensor">>, <<"bittensor", "sync">>} :
       at = step[1] /\ at' \in {step[2], "down"}
  /\ UNCHANGED <<loops, engine, records, scores, logs>>

(* The first sync is awaited, then the manager's loop is created. *)
StartManager ==
  /\ at = "sync"
  /\ at' = "check" /\ loops' = loops \cup {"manager"}
  /\ UNCHANGED <<engine, records, scores, logs>>

(* A subnet without a metagraph: the manager is stopped and startup fails. *)
MissingMetagraph ==
  /\ at = "check"
  /\ at' = "down" /\ loops' = loops \ {"manager"}
  /\ UNCHANGED <<engine, records, scores, logs>>

(* All have one: the tasks start with no await in between, and requests come. *)
Serve ==
  /\ at = "check"
  /\ at' = "serving" /\ loops' = loops \cup {"usage"}
  /\ Start /\ Logs!Start
  /\ UNCHANGED <<engine, records>>

-------------------------------------------------------------------------------
(* Shutdown.  stop of a task begins with cancelling its loop and ends when its  *)
(* last run has ended, with an exception or not.                               *)

StopDebug ==
  /\ at = "serving" /\ starts < Restarts
  /\ at' = "stop_debug"
  /\ Logs!Stop
  /\ UNCHANGED <<loops, engine, records, scores>>

(* Mutant of Guarded: an exception of a step ends the shutdown. *)
GuardedNot(step, next) == at = step /\ at' \in {next, "down"}

(* A step has returned or raised: the next one follows either way. *)
Guarded(step, next) == at = step /\ at' = next

StopUsage ==
  /\ task.pc = "down"
  /\ Guarded("stop_debug", "stop_usage")
  /\ UNCHANGED <<loops, engine, records, scores, logs>>

(* The last run of the aggregation ends; then the scores are flushed. *)
StopScores ==
  /\ Guarded("stop_usage", "stop_scores")
  /\ loops' = loops \ {"usage"}
  /\ Stop
  /\ UNCHANGED <<engine, records, logs>>

StopManager ==
  /\ ~ Up
  /\ Guarded("stop_scores", "stop_manager")
  /\ UNCHANGED <<loops, engine, records, scores, logs>>

CloseDendrite ==
  /\ Guarded("stop_manager", "close_dendrite")
  /\ loops' = loops \ {"manager"}
  /\ UNCHANGED <<engine, records, scores, logs>>

(* dendrite.aclose_session, engine.dispose and close_redis. *)
Close ==
  /\ \/ Guarded("close_dendrite", "dispose_engine") /\ UNCHANGED engine
     \/ Guarded("dispose_engine", "close_redis") /\ engine' = FALSE
     \/ Guarded("close_redis", "down") /\ UNCHANGED engine
  /\ UNCHANGED <<loops, records, scores, logs>>

(* The process ends: asyncio.run cancels what is still running, which no except *)
(* clause of record_usage catches.                                             *)
Exit ==
  /\ at = "down" /\ records > 0
  /\ records' = 0
  /\ UNCHANGED <<at, loops, engine, scores, logs>>

(* The process is killed. *)
Kill ==
  /\ at # "down" /\ starts < Restarts
  /\ at' = "down" /\ loops' = {} /\ records' = 0 /\ UNCHANGED engine
  /\ IF Up THEN Crash ELSE UNCHANGED scores
  /\ IF task.pc # "down" THEN Logs!Crash ELSE UNCHANGED logs

-------------------------------------------------------------------------------
(* Work of the tasks and of requests.                                          *)

Flushing == (Wake \/ Upsert \/ Commit \/ FlushFails) /\ UNCHANGED <<process, logs>>
Scoring == at = "serving" /\ (\E m \in Miners : Observe(m)) /\ UNCHANGED <<process, logs>>
Cleaning == (Logs!Wake \/ Logs!Done \/ Logs!Raises) /\ UNCHANGED <<process, scores>>

(* A request ends, at times while lifespan is past its yield, and leaves a task *)
(* that nothing waits for: it runs when it can, after the engine is disposed of *)
(* too, for which it opens connections anew; its row is committed, with the     *)
(* request's content or without, or the failure is logged.                      *)
Record ==
  /\ at \in Stopping \cup {"serving"} /\ records < MaxRecords
  /\ records' = records + 1
  /\ UNCHANGED <<at, loops, engine, scores, logs>>

Logging ==
  /\ records > 0
  /\ records' = records - 1
  /\ Logs!Write \/ UNCHANGED logs
  /\ UNCHANGED <<at, loops, engine, scores>>

Days == Tick /\ UNCHANGED <<process, logs>>
Hours == Logs!Tick /\ UNCHANGED <<process, scores>>

Lifecycle ==
  \/ Boot \/ Checks \/ StartManager \/ MissingMetagraph \/ Serve
  \/ StopDebug \/ StopUsage \/ StopScores \/ StopManager \/ CloseDendrite \/ Close

LifespanNext ==
  \/ Lifecycle \/ Kill \/ Exit
  \/ Flushing \/ Scoring \/ Cleaning \/ Record \/ Logging \/ Days \/ Hours

(* The loop runs, transactions end. *)
LifespanFairness ==
  /\ WF_all(Wake /\ UNCHANGED <<process, logs>>)
  /\ WF_all(Upsert /\ UNCHANGED <<process, logs>>)
  /\ SF_all(Commit /\ UNCHANGED <<process, logs>>)

LifespanSpec == LifespanInit /\ [][LifespanNext]_all /\ LifespanFairness

-------------------------------------------------------------------------------
(* Properties.  Persisted and AllCounted of ScoreFlush and OldContentGoes of    *)
(* DebugCleanup hold of the tasks as this lifecycle runs them.                  *)
LogsGo == Logs!OldContentGoes

(* Whatever step of a startup or a shutdown fails, no loop that lifespan manages *)
(* uses the database without the engine, its last run included, and none is left *)
(* when lifespan has ended.  The record_usage tasks that requests leave are      *)
(* managed by nothing: they may do both, but only between the disposal of the    *)
(* engine and the end of the process.                                            *)
Orderly ==
  /\ "usage" \in loops \/ Up \/ task.pc # "down" => engine
  /\ at = "down" => loops = {} /\ ~ Up /\ task.pc = "down"
  /\ records > 0 => at \in Stopping \cup {"serving", "down"}
  /\ records > 0 /\ ~ engine => at \in {"close_redis", "down"}
===============================================================================
