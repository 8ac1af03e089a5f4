------------------------------ MODULE ScoreFlush ------------------------------
(***************************************************************************)
(* Miner scores: kept in memory by MinerScorer (routing/scorer.py), taken  *)
(* and reset by ScoreFlushTask (tasks/score_flush.py), which upserts them  *)
(* into miner_scores and deletes rows not updated for the retention.       *)
(*                                                                         *)
(* A score is the number of the observation it was last updated with; a    *)
(* day is the retention's unit of time.                                    *)
(***************************************************************************)
EXTENDS Naturals, FiniteSets

CONSTANTS
  Miners,
  MaxSeen,      \* bound: observations of a miner
  MaxDays,      \* bound: days that pass
  Retention,    \* retention_days
  Fails,        \* transactions fail
  Restarts      \* bound: starts after a stop or a crash

ASSUME ConstantsOK ==
  /\ MaxSeen \in Nat /\ MaxDays \in Nat /\ Retention \in Nat \ {0}
  /\ Fails \in BOOLEAN /\ Restarts \in Nat

VARIABLES
  state,    \* _states: [score, total] of a miner; score 0: not there
  flush,    \* the task: [pc, final, batch]
  row,      \* miner_scores: [score, total, age]; score 0: no row
  day, starts,
  seen,     \* observations recorded (history)
  hurt      \* miners a failure, a crash or the retention took from (history)

bounds == <<day, starts>>
vars == <<state, flush, row, bounds, seen, hurt>>

NoState == [score |-> 0, total |-> 0]
NoRow == [score |-> 0, total |-> 0, age |-> 0]

(* The type of every variable; a process that is down has no scores. *)
TypeOK ==
  /\ state \in [Miners -> [score : 0 .. MaxSeen, total : 0 .. MaxSeen]]
  /\ flush \in [pc : {"sleep", "upsert", "commit", "down"}, final : BOOLEAN,
                batch : [Miners -> [score : 0 .. MaxSeen, total : 0 .. MaxSeen]]]
  /\ row \in [Miners -> [score : 0 .. MaxSeen, total : 0 .. MaxSeen, age : 0 .. Retention]]
  /\ day \in 0 .. MaxDays /\ starts \in 0 .. Restarts
  /\ seen \in [Miners -> 0 .. MaxSeen] /\ hurt \subseteq Miners
  /\ flush.pc = "down" => \A m \in Miners : state[m].score = 0

NoBatch == [m \in Miners |-> NoState]
Flush(pc, final, batch) == [pc |-> pc, final |-> final, batch |-> batch]

Init ==
  /\ state = NoBatch
  /\ flush = Flush("sleep", FALSE, NoBatch)
  /\ row = [m \in Miners |-> NoRow]
  /\ day = 0 /\ starts = 0
  /\ seen = [m \in Miners |-> 0] /\ hurt = {}

Up == flush.pc # "down"

(* record_observation, while requests are served: the score becomes the average with the new one. *)
Observe(m) ==
  /\ Up /\ ~ flush.final /\ seen[m] < MaxSeen
  /\ seen' = [seen EXCEPT ![m] = @ + 1]
  /\ state' = [state EXCEPT ![m] = [score |-> seen[m] + 1, total |-> @.total + 1]]
  /\ UNCHANGED <<flush, row, bounds, hurt>>

-------------------------------------------------------------------------------
(* flush_once *)

Reset == [m \in Miners |-> [state[m] EXCEPT !.total = 0]]

(* get_snapshot_and_reset: counters are reset, scores kept.  *)
Take(final) ==
  /\ flush' = Flush("upsert", final, state)
  /\ state' = Reset
  /\ UNCHANGED <<bounds, seen>>

Wake ==
  /\ flush.pc = "sleep"
  /\ Take(FALSE)
  /\ UNCHANGED <<row, hurt>>

Batch(m) == flush.batch[m]
Carried == {m \in Miners : Batch(m).total > 0}

(* Mutant of Upserted: a row that exists keeps its score. *)
UpsertedKeeping(m) ==
  [score |-> IF row[m].score > 0 THEN row[m].score ELSE Batch(m).score,
   total |-> row[m].total + Batch(m).total, age |-> 0]

(* The row of an observed miner. *)
Upserted(m) == [score |-> Batch(m).score, total |-> row[m].total + Batch(m).total, age |-> 0]

(* The table after the transaction: miners with no new observation are skipped, *)
(* rows not updated for the retention are deleted.                             *)
Flushed ==
  [m \in Miners |-> IF Batch(m).total > 0 THEN Upserted(m)
                    ELSE IF row[m].age >= Retention THEN NoRow ELSE row[m]]

Expired == {m \in Miners \ Carried : row[m].age >= Retention}

(* After a flush the loop sleeps, the last one ends the task. *)
Ended == Flush(IF flush.final THEN "down" ELSE "sleep", FALSE, NoBatch)

(* What the end of the process leaves in memory. *)
Memory == IF flush.final THEN NoBatch ELSE state

Upsert ==
  /\ flush.pc = "upsert"
  /\ flush' = [flush EXCEPT !.pc = "commit"]
  /\ UNCHANGED <<state, row, bounds, seen, hurt>>

Commit ==
  /\ flush.pc = "commit"
  /\ row' = Flushed
  /\ hurt' = hurt \cup Expired
  /\ flush' = Ended
  /\ state' = Memory
  /\ UNCHANGED <<bounds, seen>>

(* A transaction that did not end well: nothing was written, or everything. *)
CutOff ==
  \/ row' = row /\ hurt' = hurt \cup Carried
  \/ flush.pc = "commit" /\ row' = Flushed /\ hurt' = hurt \cup Expired

(* Mutant of FlushFails: the batch is put back, whatever became of the commit. *)
FlushFailsRestores ==
  /\ Fails /\ flush.pc \in {"upsert", "commit"} /\ ~ flush.final
  /\ row' \in {row} \cup (IF flush.pc = "commit" THEN {Flushed} ELSE {})
  /\ flush' = Ended
  /\ state' = [m \in Miners |-> [state[m] EXCEPT !.total = @ + Batch(m).total]]
  /\ UNCHANGED <<bounds, seen, hurt>>

(* A statement fails, or the reply to the commit is lost: the exception is      *)
(* logged and the batch is gone, written or not.                               *)
FlushFails ==
  /\ Fails /\ flush.pc \in {"upsert", "commit"}
  /\ CutOff
  /\ flush' = Ended
  /\ state' = Memory
  /\ UNCHANGED <<bounds, seen>>

(* stop: the loop is cancelled, with the flush it is in if it is in one, and a  *)
(* last flush is made.                                                         *)
Stop ==
  /\ starts < Restarts /\ Up /\ ~ flush.final
  /\ Take(TRUE)
  /\ CutOff

Unflushed == {m \in Miners : state[m].total > 0}

Crash ==
  /\ starts < Restarts /\ Up
  /\ \/ row' = row /\ hurt' = hurt \cup Carried \cup Unflushed
     \/ flush.pc = "commit" /\ row' = Flushed /\ hurt' = hurt \cup Expired \cup Unflushed
  /\ flush' = Flush("down", FALSE, NoBatch)
  /\ state' = NoBatch
  /\ UNCHANGED <<bounds, seen>>

(* A new process begins without scores: nothing reads the table back. *)
Start ==
  /\ ~ Up /\ starts < Restarts
  /\ starts' = starts + 1
  /\ flush' = Flush("sleep", FALSE, NoBatch)
  /\ UNCHANGED <<state, row, day, seen, hurt>>

(* A flush takes less than a day and comes once a minute. *)
Tick ==
  /\ day < MaxDays
  /\ flush.pc \in {"down", "sleep"} /\ \A m \in Miners : state[m].total = 0
  /\ day' = day + 1
  /\ row' = [m \in Miners |-> IF row[m].score = 0 \/ row[m].age = Retention THEN row[m]
                              ELSE [row[m] EXCEPT !.age = @ + 1]]
  /\ UNCHANGED <<state, flush, starts, seen, hurt>>

Next ==
  \/ \E m \in Miners : Observe(m)
  \/ Wake \/ Upsert \/ Commit \/ FlushFails \/ Stop \/ Crash \/ Start \/ Tick

(* The loop runs, transactions end. *)
Fairness == WF_vars(Wake) /\ WF_vars(Upsert) /\ SF_vars(Commit)

Spec == Init /\ [][Next]_vars /\ Fairness

-------------------------------------------------------------------------------
(* Properties *)

(* Observations on their way to the table. *)
Counted(m) == row[m].total + Batch(m).total + state[m].total

(* No observation is counted twice, though new ones arrive while a flush waits *)
(* for the database and a commit may be done and its reply lost (flush_once);  *)
(* and every one is counted but those of a batch that failed, was cancelled or *)
(* died with the process, or of a row past its retention.                      *)
AllCounted ==
  \A m \in Miners : /\ Counted(m) <= seen[m]
                    /\ m \notin hurt => Counted(m) = seen[m]

(* The newest score of a miner gets into the table, a shutdown included, unless *)
(* one of those failures hits it.                                              *)
Persisted ==
  \A m \in Miners : seen[m] > 0 ~> row[m].score = seen[m] \/ m \in hurt
===============================================================================
