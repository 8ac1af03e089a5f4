---------------------------- MODULE LifespanProofs -----------------------------
(***************************************************************************)
(* Proofs about ScoreFlush and Lifespan, for any miners, retention and     *)
(* bounds: the steps of the score flush, whoever schedules them, lose an   *)
(* observation only to a failure and count none twice; Lifespan runs those *)
(* steps and no others; the order in which it starts and stops the tasks;  *)
(* and that old content goes through every restart.                        *)
(***************************************************************************)
EXTENDS Lifespan, Integers, TLAPS

-------------------------------------------------------------------------------
(* ScoreFlush. *)

(* A batch is held only inside a flush; once the last flush has begun nothing   *)
(* is left to count in memory, and a process that is down has no memory.        *)
FlushInv ==
  /\ flush.pc \in {"sleep", "down"} => ~ flush.final /\ flush.batch = NoBatch
  /\ flush.final => \A m \in Miners : state[m].total = 0
  /\ flush.pc = "down" => state = NoBatch

ScoresInv == TypeOK /\ FlushInv /\ AllCounted

LEMMA ScoreNumbers ==
  /\ MaxSeen \in Nat /\ MaxDays \in Nat /\ Retention \in Nat /\ Restarts \in Nat
  /\ 0 \in 0 .. MaxSeen /\ 0 \in 0 .. MaxDays /\ 0 \in 0 .. Retention /\ 0 \in 0 .. Restarts
<1>1. MaxSeen \in Nat /\ MaxDays \in Nat /\ Retention \in Nat /\ Restarts \in Nat
  BY ConstantsOK
<1> QED
  BY <1>1

LEMMA NoBatchType == NoBatch \in [Miners -> [score : 0 .. MaxSeen, total : 0 .. MaxSeen]]
  BY ScoreNumbers DEF NoBatch, NoState

(* What is known of one miner. *)
LEMMA OfMiner ==
  ASSUME ScoresInv, NEW m \in Miners
  PROVE  /\ state[m] \in [score : 0 .. MaxSeen, total : 0 .. MaxSeen]
         /\ Batch(m) \in [score : 0 .. MaxSeen, total : 0 .. MaxSeen]
         /\ row[m] \in [score : 0 .. MaxSeen, total : 0 .. MaxSeen, age : 0 .. Retention]
         /\ seen[m] \in 0 .. MaxSeen
         /\ row[m].total + Batch(m).total + state[m].total <= seen[m]
         /\ m \notin hurt => row[m].total + Batch(m).total + state[m].total = seen[m]
  BY DEF ScoresInv, TypeOK, AllCounted, Counted, Batch

LEMMA InitScores == Init => ScoresInv
<1> SUFFICES ASSUME Init PROVE ScoresInv
  OBVIOUS
<1>1. TypeOK
  <2>1. flush \in [pc : {"sleep", "upsert", "commit", "down"}, final : BOOLEAN,
                   batch : [Miners -> [score : 0 .. MaxSeen, total : 0 .. MaxSeen]]]
    BY NoBatchType DEF Init, Flush
  <2>2. row \in [Miners -> [score : 0 .. MaxSeen, total : 0 .. MaxSeen, age : 0 .. Retention]]
    BY ScoreNumbers DEF Init, NoRow
  <2>3. /\ day \in 0 .. MaxDays /\ starts \in 0 .. Restarts
        /\ seen \in [Miners -> 0 .. MaxSeen] /\ hurt \subseteq Miners
    BY ScoreNumbers DEF Init
  <2> QED
    BY <2>1, <2>2, <2>3, NoBatchType DEF Init, TypeOK, Flush
<1>2. FlushInv
  BY DEF Init, FlushInv, Flush
<1>3. AllCounted
  BY DEF Init, AllCounted, Counted, Batch, Flush, NoBatch, NoState, NoRow
<1> QED
  BY <1>1, <1>2, <1>3 DEF ScoresInv

-------------------------------------------------------------------------------
(* The end of a transaction, whatever it wrote: the batch of a miner nothing   *)
(* hurt has been added to its row, and no more than the batch to any.          *)
RowType == [score : 0 .. MaxSeen, total : 0 .. MaxSeen, age : 0 .. Retention]

AddedTo(new, h) ==
  \A m \in Miners : /\ new[m].total <= row[m].total + Batch(m).total
                    /\ m \notin h => new[m].total = row[m].total + Batch(m).total

LEMMA FlushedAdds ==
  ASSUME ScoresInv, NEW h, Expired \subseteq h
  PROVE  Flushed \in [Miners -> RowType] /\ AddedTo(Flushed, h)
<1>1. ASSUME NEW m \in Miners
      PROVE  /\ Flushed[m] \in RowType
             /\ Flushed[m].total <= row[m].total + Batch(m).total
             /\ m \notin h => Flushed[m].total = row[m].total + Batch(m).total
  <2>1. CASE Batch(m).total > 0
    <3>1. Flushed[m] = [score |-> Batch(m).score, total |-> row[m].total + Batch(m).total,
                        age |-> 0]
      BY <2>1 DEF Flushed, Upserted
    <3>2. row[m].total + Batch(m).total \in 0 .. MaxSeen
      BY OfMiner, ScoreNumbers
    <3> QED
      BY <3>1, <3>2, OfMiner, ScoreNumbers DEF RowType
  <2>2. CASE Batch(m).total = 0 /\ row[m].age >= Retention
    <3>1. Flushed[m] = NoRow /\ m \in Expired
      BY <2>2 DEF Flushed, Expired, Carried
    <3> QED
      BY <2>2, <3>1, OfMiner, ScoreNumbers DEF NoRow, RowType
  <2>3. CASE Batch(m).total = 0 /\ ~ (row[m].age >= Retention)
    <3>1. Flushed[m] = row[m]
      BY <2>3 DEF Flushed
    <3> QED
      BY <2>3, <3>1, OfMiner DEF RowType
  <2> QED
    BY <2>1, <2>2, <2>3, OfMiner
<1>2. Flushed = [m \in Miners |-> Flushed[m]]
  BY DEF Flushed
<1> QED
  BY <1>1, <1>2 DEF AddedTo

LEMMA RowAdds ==
  ASSUME ScoresInv, NEW h, Carried \subseteq h
  PROVE  row \in [Miners -> RowType] /\ AddedTo(row, h)
<1>1. ASSUME NEW m \in Miners
      PROVE  /\ row[m].total <= row[m].total + Batch(m).total
             /\ m \notin h => row[m].total = row[m].total + Batch(m).total
  BY OfMiner DEF Carried
<1> QED
  BY <1>1 DEF AddedTo, ScoresInv, TypeOK, RowType

LEMMA CutOffAdds ==
  ASSUME ScoresInv, CutOff
  PROVE  /\ row' \in [Miners -> RowType] /\ AddedTo(row', hurt')
         /\ hurt \subseteq hurt' /\ hurt' \subseteq Miners
<1>1. Carried \subseteq Miners /\ Expired \subseteq Miners /\ hurt \subseteq Miners
  BY DEF Carried, Expired, ScoresInv, TypeOK
<1>2. CASE row' = row /\ hurt' = hurt \cup Carried
  BY <1>1, <1>2, RowAdds
<1>3. CASE row' = Flushed /\ hurt' = hurt \cup Expired
  BY <1>1, <1>3, FlushedAdds
<1> QED
  BY <1>2, <1>3 DEF CutOff

-------------------------------------------------------------------------------
(* The steps. *)

LEMMA ObserveKeeps ==
  ASSUME ScoresInv, NEW m \in Miners, Observe(m)
  PROVE  ScoresInv'
<1>1. /\ state' = [state EXCEPT ![m] = [score |-> seen[m] + 1, total |-> state[m].total + 1]]
      /\ seen' = [seen EXCEPT ![m] = seen[m] + 1] /\ seen[m] < MaxSeen
      /\ flush' = flush /\ row' = row /\ bounds' = bounds /\ hurt' = hurt
      /\ flush.pc # "down" /\ ~ flush.final
  BY DEF Observe, Up, ScoresInv, TypeOK
<1>2. seen[m] + 1 \in 0 .. MaxSeen /\ state[m].total + 1 \in 0 .. MaxSeen
  BY <1>1, OfMiner, ScoreNumbers
<1>3. TypeOK'
  BY <1>1, <1>2 DEF ScoresInv, TypeOK, bounds
<1>4. FlushInv'
  BY <1>1 DEF ScoresInv, FlushInv
<1>5. ASSUME NEW n \in Miners
      PROVE  /\ row'[n].total + flush'.batch[n].total + state'[n].total <= seen'[n]
             /\ n \notin hurt' =>
                  row'[n].total + flush'.batch[n].total + state'[n].total = seen'[n]
  <2>1. CASE n = m
    <3>1. state'[n].total = state[n].total + 1 /\ seen'[n] = seen[n] + 1
      BY <1>1, <2>1 DEF ScoresInv, TypeOK
    <3> QED
      BY <1>1, <3>1, OfMiner DEF Batch
  <2>2. CASE n # m
    <3>1. state'[n] = state[n] /\ seen'[n] = seen[n]
      BY <1>1, <2>2 DEF ScoresInv, TypeOK
    <3> QED
      BY <1>1, <3>1, OfMiner DEF Batch
  <2> QED
    BY <2>1, <2>2
<1>6. AllCounted'
  BY <1>5 DEF AllCounted, Counted, Batch
<1> QED
  BY <1>3, <1>4, <1>6 DEF ScoresInv

(* The snapshot moves what is to be counted from memory into the batch; what    *)
(* the batch before it held has been written or is hurt.                       *)
LEMMA TakeKeeps ==
  ASSUME ScoresInv, NEW final \in BOOLEAN, Take(final), Up,
         row' \in [Miners -> RowType], AddedTo(row', hurt'),
         hurt \subseteq hurt', hurt' \subseteq Miners
  PROVE  ScoresInv'
<1>1. /\ flush' = [pc |-> "upsert", final |-> final, batch |-> state]
      /\ state' = [m \in Miners |-> [state[m] EXCEPT !.total = 0]]
      /\ bounds' = bounds /\ seen' = seen
  BY DEF Take, Flush, Reset
<1>2. TypeOK'
  <2>1. state' \in [Miners -> [score : 0 .. MaxSeen, total : 0 .. MaxSeen]]
    BY <1>1, ScoreNumbers DEF ScoresInv, TypeOK
  <2> QED
    BY <1>1, <2>1 DEF ScoresInv, TypeOK, bounds, RowType
<1>3. \A m \in Miners : state'[m].total = 0
  BY <1>1 DEF ScoresInv, TypeOK
<1>4. FlushInv'
  BY <1>1, <1>3 DEF FlushInv
<1>5. ASSUME NEW m \in Miners
      PROVE  /\ row'[m].total + flush'.batch[m].total + state'[m].total <= seen'[m]
             /\ m \notin hurt' =>
                  row'[m].total + flush'.batch[m].total + state'[m].total = seen'[m]
  <2>1. /\ row'[m].total <= row[m].total + Batch(m).total
        /\ m \notin hurt' => row'[m].total = row[m].total + Batch(m).total
    BY DEF AddedTo
  <2>2. row'[m].total \in Int
    BY ScoreNumbers DEF RowType
  <2> QED
    BY <1>1, <1>3, <2>1, <2>2, OfMiner
<1>6. AllCounted'
  BY <1>5 DEF AllCounted, Counted, Batch
<1> QED
  BY <1>2, <1>4, <1>6 DEF ScoresInv

LEMMA WakeKeeps == ASSUME ScoresInv, Wake PROVE ScoresInv'
<1>1. Take(FALSE) /\ Up /\ row' = row /\ hurt' = hurt /\ flush.batch = NoBatch
  BY DEF Wake, Up, ScoresInv, FlushInv
<1>2. Carried = {}
  BY <1>1 DEF Carried, Batch, NoBatch, NoState
<1>3. row' \in [Miners -> RowType] /\ AddedTo(row', hurt')
  BY <1>1, <1>2, RowAdds
<1> QED
  BY <1>1, <1>3, TakeKeeps DEF ScoresInv, TypeOK

LEMMA StopKeeps == ASSUME ScoresInv, Stop PROVE ScoresInv'
  BY CutOffAdds, TakeKeeps DEF Stop

LEMMA UpsertKeeps == ASSUME ScoresInv, Upsert PROVE ScoresInv'
<1>1. /\ flush.pc = "upsert" /\ flush'.pc = "commit" /\ flush'.final = flush.final
      /\ flush'.batch = flush.batch
      /\ flush' \in [pc : {"sleep", "upsert", "commit", "down"}, final : BOOLEAN,
                     batch : [Miners -> [score : 0 .. MaxSeen, total : 0 .. MaxSeen]]]
  BY DEF Upsert, ScoresInv, TypeOK
<1>2. UNCHANGED <<state, row, bounds, seen, hurt>>
  BY DEF Upsert
<1>3. TypeOK'
  BY <1>1, <1>2 DEF ScoresInv, TypeOK, bounds
<1>4. FlushInv'
  BY <1>1, <1>2 DEF ScoresInv, FlushInv
<1>5. AllCounted'
  BY <1>1, <1>2 DEF ScoresInv, AllCounted, Counted, Batch
<1> QED
  BY <1>3, <1>4, <1>5 DEF ScoresInv

(* A flush that ends: the batch is dropped, in the last one the memory with it, *)
(* which then holds nothing that counts.                                       *)
LEMMA EndKeeps ==
  ASSUME ScoresInv, flush.pc \in {"upsert", "commit"}, flush' = Ended, state' = Memory,
         UNCHANGED <<bounds, seen>>,
         row' \in [Miners -> RowType], AddedTo(row', hurt'),
         hurt \subseteq hurt', hurt' \subseteq Miners
  PROVE  ScoresInv'
<1>1. /\ flush'.pc = IF flush.final THEN "down" ELSE "sleep"
      /\ flush'.final = FALSE /\ flush'.batch = NoBatch
      /\ flush' \in [pc : {"sleep", "upsert", "commit", "down"}, final : BOOLEAN,
                     batch : [Miners -> [score : 0 .. MaxSeen, total : 0 .. MaxSeen]]]
  BY NoBatchType DEF Ended, Flush
<1>2. state' = IF flush.final THEN NoBatch ELSE state
  BY DEF Memory
<1>3. state' \in [Miners -> [score : 0 .. MaxSeen, total : 0 .. MaxSeen]]
  BY <1>2, NoBatchType DEF ScoresInv, TypeOK
<1>4. \A m \in Miners : NoBatch[m].score = 0 /\ NoBatch[m].total = 0
  BY DEF NoBatch, NoState
<1>5. \A m \in Miners : state'[m].total = state[m].total
  BY <1>2, <1>4 DEF ScoresInv, FlushInv
<1>6. TypeOK'
  BY <1>1, <1>2, <1>3, <1>4 DEF ScoresInv, TypeOK, bounds, RowType
<1>7. FlushInv'
  BY <1>1, <1>2 DEF FlushInv
<1>8. ASSUME NEW m \in Miners
      PROVE  /\ row'[m].total + flush'.batch[m].total + state'[m].total <= seen'[m]
             /\ m \notin hurt' =>
                  row'[m].total + flush'.batch[m].total + state'[m].total = seen'[m]
  <2>1. /\ row'[m].total <= row[m].total + Batch(m).total
        /\ m \notin hurt' => row'[m].total = row[m].total + Batch(m).total
    BY DEF AddedTo
  <2>2. row'[m].total \in Int
    BY ScoreNumbers DEF RowType
  <2> QED
    BY <1>1, <1>4, <1>5, <2>1, <2>2, OfMiner
<1>9. AllCounted'
  BY <1>8 DEF AllCounted, Counted, Batch
<1> QED
  BY <1>6, <1>7, <1>9 DEF ScoresInv

LEMMA CommitKeeps == ASSUME ScoresInv, Commit PROVE ScoresInv'
<1>1. Expired \subseteq hurt' /\ hurt \subseteq hurt' /\ hurt' \subseteq Miners
  BY DEF Commit, Expired, ScoresInv, TypeOK
<1>2. row' \in [Miners -> RowType] /\ AddedTo(row', hurt')
  BY <1>1, FlushedAdds DEF Commit
<1> QED
  BY <1>1, <1>2, EndKeeps DEF Commit

LEMMA FlushFailsKeeps == ASSUME ScoresInv, FlushFails PROVE ScoresInv'
  BY CutOffAdds, EndKeeps DEF FlushFails

(* What is lost in memory is known by Unflushed. *)
LEMMA CrashKeeps == ASSUME ScoresInv, Crash PROVE ScoresInv'
<1>1. /\ flush' = [pc |-> "down", final |-> FALSE, batch |-> NoBatch]
      /\ state' = NoBatch /\ bounds' = bounds /\ seen' = seen
  BY DEF Crash, Flush
<1>2. Carried \subseteq Miners /\ Expired \subseteq Miners /\ Unflushed \subseteq Miners
      /\ hurt \subseteq Miners
  BY DEF Carried, Expired, Unflushed, ScoresInv, TypeOK
<1>3. /\ row' \in [Miners -> RowType] /\ AddedTo(row', hurt')
      /\ hurt \cup Unflushed \subseteq hurt' /\ hurt' \subseteq Miners
  <2>1. CASE row' = row /\ hurt' = hurt \cup Carried \cup Unflushed
    <3>1. Carried \subseteq hurt'
      BY <2>1
    <3> QED
      BY <1>2, <2>1, <3>1, RowAdds
  <2>2. CASE row' = Flushed /\ hurt' = hurt \cup Expired \cup Unflushed
    <3>1. Expired \subseteq hurt'
      BY <2>2
    <3> QED
      BY <1>2, <2>2, <3>1, FlushedAdds
  <2> QED
    BY <2>1, <2>2 DEF Crash
<1>4. \A m \in Miners : NoBatch[m].score = 0 /\ NoBatch[m].total = 0
  BY DEF NoBatch, NoState
<1>5. TypeOK'
  BY <1>1, <1>3, <1>4, NoBatchType DEF ScoresInv, TypeOK, bounds, RowType
<1>6. FlushInv'
  BY <1>1 DEF FlushInv
<1>7. ASSUME NEW m \in Miners
      PROVE  /\ row'[m].total + flush'.batch[m].total + state'[m].total <= seen'[m]
             /\ m \notin hurt' =>
                  row'[m].total + flush'.batch[m].total + state'[m].total = seen'[m]
  <2>1. /\ row'[m].total <= row[m].total + Batch(m).total
        /\ m \notin hurt' => row'[m].total = row[m].total + Batch(m).total
    BY <1>3 DEF AddedTo
  <2>2. row'[m].total \in Int
    BY <1>3, ScoreNumbers DEF RowType
  <2>3. m \notin hurt' => m \notin hurt /\ state[m].total = 0
    <3>1. m \notin Unflushed => state[m].total = 0
      BY OfMiner DEF Unflushed
    <3> QED
      BY <1>3, <3>1
  <2> QED
    BY <1>1, <1>4, <2>1, <2>2, <2>3, OfMiner
<1>8. AllCounted'
  BY <1>7 DEF AllCounted, Counted, Batch
<1> QED
  BY <1>5, <1>6, <1>8 DEF ScoresInv

LEMMA StartKeeps == ASSUME ScoresInv, Start PROVE ScoresInv'
<1>1. /\ flush.pc = "down" /\ flush.batch = NoBatch
      /\ flush' = [pc |-> "sleep", final |-> FALSE, batch |-> NoBatch]
      /\ starts < Restarts /\ starts' = starts + 1
      /\ UNCHANGED <<state, row, day, seen, hurt>>
  BY DEF Start, Up, Flush, ScoresInv, FlushInv
<1>2. starts' \in 0 .. Restarts
  BY <1>1, ScoreNumbers DEF ScoresInv, TypeOK
<1>3. TypeOK'
  BY <1>1, <1>2, NoBatchType DEF ScoresInv, TypeOK
<1>4. FlushInv'
  BY <1>1 DEF FlushInv
<1>5. AllCounted'
  BY <1>1 DEF ScoresInv, AllCounted, Counted, Batch
<1> QED
  BY <1>3, <1>4, <1>5 DEF ScoresInv

LEMMA TickKeeps == ASSUME ScoresInv, Tick PROVE ScoresInv'
<1>1. /\ day < MaxDays /\ day' = day + 1
      /\ UNCHANGED <<state, flush, starts, seen, hurt>>
  BY DEF Tick
<1>2. day' \in 0 .. MaxDays
  BY <1>1, ScoreNumbers DEF ScoresInv, TypeOK
<1>3. ASSUME NEW m \in Miners PROVE row'[m] \in RowType /\ row'[m].total = row[m].total
  <2>1. CASE row[m].score = 0 \/ row[m].age = Retention
    <3>1. row'[m] = row[m]
      BY <2>1 DEF Tick
    <3> QED
      BY <3>1, OfMiner DEF RowType
  <2>2. CASE ~ (row[m].score = 0 \/ row[m].age = Retention)
    <3>1. row'[m] = [row[m] EXCEPT !.age = row[m].age + 1]
      BY <2>2 DEF Tick
    <3>2. row[m].age + 1 \in 0 .. Retention
      BY <2>2, OfMiner, ScoreNumbers
    <3> QED
      BY <3>1, <3>2, OfMiner DEF RowType
  <2> QED
    BY <2>1, <2>2
<1>4. row' \in [Miners -> RowType]
  <2>1. row' = [m \in Miners |-> row'[m]]
    BY DEF Tick
  <2> QED
    BY <1>3, <2>1
<1>5. TypeOK'
  BY <1>1, <1>2, <1>4 DEF ScoresInv, TypeOK, RowType
<1>6. FlushInv' /\ AllCounted'
  BY <1>1, <1>3 DEF ScoresInv, FlushInv, AllCounted, Counted, Batch
<1> QED
  BY <1>5, <1>6 DEF ScoresInv

LEMMA StepScores == ScoresInv /\ [Next]_vars => ScoresInv'
<1> SUFFICES ASSUME ScoresInv, [Next]_vars PROVE ScoresInv'
  OBVIOUS
<1>1. CASE UNCHANGED vars
  BY <1>1 DEF vars, bounds, ScoresInv, TypeOK, FlushInv, AllCounted, Counted, Batch
<1> QED
  BY <1>1, ObserveKeeps, WakeKeeps, UpsertKeeps, CommitKeeps, FlushFailsKeeps, StopKeeps,
     CrashKeeps, StartKeeps, TickKeeps DEF Next

(* No observation of a miner is counted twice, and every one is counted unless  *)
(* a failed, cancelled or crashed flush or the retention took it, for any number *)
(* of miners, flushes, crashes and restarts.                                   *)
THEOREM EveryObservation == Spec => []AllCounted
<1>1. ScoresInv => AllCounted
  BY DEF ScoresInv
<1> QED
  BY <1>1, InitScores, StepScores, PTL DEF Spec
-------------------------------------------------------------------------------
(* Lifespan. *)

(* ScoreFlush without its fairness. *)
ScoreSteps == Init /\ [][Next]_vars

(* Whatever lifespan and its surroundings do, the score flush sees only steps   *)
(* of its own module, or none.                                                 *)
LEMMA ScoreStep == [LifespanNext]_all => [Next]_vars
<1> SUFFICES ASSUME [LifespanNext]_all PROVE [Next]_vars
  OBVIOUS
<1>1. CASE UNCHANGED all
  BY <1>1 DEF all, scores, vars
<1>2. CASE Serve \/ StopScores
  BY <1>2 DEF Serve, StopScores, Next
<1>3. CASE Kill
  BY <1>3 DEF Kill, Next, scores, vars
<1>4. CASE Flushing \/ Scoring \/ Days
  BY <1>4 DEF Flushing, Scoring, Days, Next
<1>5. CASE \/ Boot \/ Checks \/ StartManager \/ MissingMetagraph \/ StopDebug \/ StopUsage
           \/ StopManager \/ CloseDendrite \/ Close \/ Exit \/ Cleaning \/ Record
           \/ Logging \/ Hours
  BY <1>5 DEF Boot, Checks, StartManager, MissingMetagraph, StopDebug, StopUsage, StopManager,
     CloseDendrite, Close, Exit, Cleaning, Record, Logging, Hours, scores, vars
<1> QED
  BY <1>1, <1>2, <1>3, <1>4, <1>5 DEF LifespanNext, Lifecycle

(* A process with its startups, shutdowns and kills implements the flush task   *)
(* of ScoreFlush.                                                              *)
THEOREM RunsTheFlush == LifespanSpec => ScoreSteps
<1>1. LifespanInit => Init
  BY DEF LifespanInit
<1> QED
  BY <1>1, ScoreStep, PTL DEF LifespanSpec, ScoreSteps

(* Under every order of startup, shutdown and kill no observation is counted    *)
(* twice, and only failures, crashes and the retention lose one.                *)
THEOREM LifespanCounts == LifespanSpec => []AllCounted
<1>1. LifespanInit => ScoresInv
  BY InitScores DEF LifespanInit
<1>2. ScoresInv /\ [LifespanNext]_all => ScoresInv'
  BY ScoreStep, StepScores
<1>3. ScoresInv => AllCounted
  BY DEF ScoresInv
<1> QED
  BY <1>1, <1>2, <1>3, PTL DEF LifespanSpec

-------------------------------------------------------------------------------
(* The order.  Where each task may be alive, and the engine with them.          *)

EngineSteps == (Starting \cup Stopping \cup {"serving"}) \ {"close_redis"}

OrderInv ==
  /\ at \in EngineSteps => engine
  /\ Up => at \in {"serving", "stop_debug", "stop_usage", "stop_scores"}
  /\ task.pc # "down" => at \in {"serving", "stop_debug"}
  /\ "usage" \in loops => at \in {"serving", "stop_debug", "stop_usage"}
  /\ "manager" \in loops =>
       at \in {"check", "serving", "stop_debug", "stop_usage", "stop_scores", "stop_manager"}
  /\ loops \subseteq {"manager", "usage"}
  /\ records \in 0 .. MaxRecords
  /\ records > 0 => at \in Stopping \cup {"serving", "down"}

LEMMA OrderSuffices == OrderInv => Orderly
  BY DEF OrderInv, Orderly, EngineSteps, Starting, Stopping

LEMMA InitOrder == LifespanInit => OrderInv
  BY LogConstantsOK DEF LifespanInit, OrderInv, Init, Flush, Up, Logs!Init, Logs!Sleeping, Logs!Task

(* The steps of lifespan itself. *)
LEMMA StartupKeeps ==
  ASSUME OrderInv, Boot \/ Checks \/ StartManager \/ MissingMetagraph \/ Serve
  PROVE  OrderInv'
<1>1. CASE Boot
  BY <1>1 DEF OrderInv, EngineSteps, Starting, Stopping, Boot, Up, scores, logs
<1>2. CASE Checks
  BY <1>2 DEF OrderInv, EngineSteps, Starting, Stopping, Checks, Up, scores, logs
<1>3. CASE StartManager
  BY <1>3 DEF OrderInv, EngineSteps, Starting, Stopping, StartManager, Up, scores, logs
<1>4. CASE MissingMetagraph
  BY <1>4 DEF OrderInv, EngineSteps, Starting, Stopping, MissingMetagraph, Up, scores, logs
<1>5. CASE Serve
  BY <1>5 DEF OrderInv, EngineSteps, Starting, Stopping, Serve
<1> QED
  BY <1>1, <1>2, <1>3, <1>4, <1>5

LEMMA ShutdownKeeps ==
  ASSUME OrderInv,
         StopDebug \/ StopUsage \/ StopScores \/ StopManager \/ CloseDendrite \/ Close
  PROVE  OrderInv'
<1>1. CASE StopDebug
  BY <1>1 DEF OrderInv, EngineSteps, Starting, Stopping, StopDebug, Up, scores
<1>2. CASE StopUsage
  BY <1>2 DEF OrderInv, EngineSteps, Starting, Stopping, StopUsage, Guarded, Up, scores, logs
<1>3. CASE StopScores
  BY <1>3 DEF OrderInv, EngineSteps, Starting, Stopping, StopScores, Guarded, logs
<1>4. CASE StopManager
  BY <1>4 DEF OrderInv, EngineSteps, Starting, Stopping, StopManager, Guarded, Up, scores, logs
<1>5. CASE CloseDendrite
  BY <1>5 DEF OrderInv, EngineSteps, Starting, Stopping, CloseDendrite, Guarded, Up, scores, logs
<1>6. CASE Close
  BY <1>6 DEF OrderInv, EngineSteps, Starting, Stopping, Close, Guarded, Up, scores, logs
<1> QED
  BY <1>1, <1>2, <1>3, <1>4, <1>5, <1>6

LEMMA KillKeeps == ASSUME OrderInv, Kill PROVE OrderInv'
<1>1. ~ Up'
  BY DEF Kill, Crash, Flush, Up, scores
<1>2. task'.pc = "down"
  BY DEF Kill, Logs!Crash, Logs!Down, Logs!Task, logs
<1> QED
  BY <1>1, <1>2, LogConstantsOK DEF OrderInv, EngineSteps, Starting, Stopping, Kill

(* A task starts nothing by itself. *)
LEMMA WorkKeeps ==
  ASSUME OrderInv, Flushing \/ Scoring \/ Cleaning \/ Logging \/ Days \/ Hours
  PROVE  OrderInv'
<1>1. /\ UNCHANGED <<at, loops, engine>> /\ records' \in 0 .. MaxRecords
      /\ records' > 0 => records > 0
  <2>1. CASE Logging
    BY <2>1, LogConstantsOK DEF Logging, OrderInv
  <2>2. CASE Flushing \/ Scoring \/ Cleaning \/ Days \/ Hours
    BY <2>2 DEF Flushing, Scoring, Cleaning, Days, Hours, process, OrderInv
  <2> QED
    BY <2>1, <2>2
<1>2. Up' => Up
  <2>1. CASE Flushing
    BY <2>1 DEF Flushing, Wake, Upsert, Commit, FlushFails, Up
  <2>2. CASE Scoring \/ Days
    BY <2>2 DEF Scoring, Days, Observe, Tick, Up
  <2>3. CASE Cleaning \/ Logging \/ Hours
    BY <2>3 DEF Cleaning, Logging, Hours, scores, Up
  <2> QED
    BY <2>1, <2>2, <2>3
<1>3. task'.pc # "down" => task.pc # "down"
  <2>1. CASE Cleaning
    BY <2>1 DEF Cleaning, Logs!Wake, Logs!Done, Logs!Raises
  <2>2. CASE Logging
    BY <2>2 DEF Logging, Logs!Write, logs
  <2>3. CASE Hours
    BY <2>3 DEF Hours, Logs!Tick
  <2>4. CASE Flushing \/ Scoring \/ Days
    BY <2>4 DEF Flushing, Scoring, Days, logs
  <2> QED
    BY <2>1, <2>2, <2>3, <2>4
<1> QED
  BY <1>1, <1>2, <1>3 DEF OrderInv

(* Requests leave tasks at the steps where there are requests; the end of the    *)
(* process leaves none.                                                         *)
LEMMA RecordsKeep == ASSUME OrderInv, Record \/ Exit PROVE OrderInv'
<1>1. UNCHANGED <<at, loops, engine, scores, logs>> /\ records' \in 0 .. MaxRecords
  BY LogConstantsOK DEF Record, Exit, OrderInv
<1>2. (Up' <=> Up) /\ task' = task
  BY <1>1 DEF scores, logs, Up
<1>3. records' > 0 => at \in Stopping \cup {"serving", "down"}
  BY DEF Record, Exit
<1> QED
  BY <1>1, <1>2, <1>3 DEF OrderInv

LEMMA StepOrder == OrderInv /\ [LifespanNext]_all => OrderInv'
<1> SUFFICES ASSUME OrderInv, [LifespanNext]_all PROVE OrderInv'
  OBVIOUS
<1>1. CASE UNCHANGED all
  BY <1>1 DEF all, scores, logs, process, OrderInv, Up
<1> QED
  BY <1>1, StartupKeeps, ShutdownKeeps, KillKeeps, WorkKeeps, RecordsKeep DEF LifespanNext, Lifecycle

(* Whatever startup or shutdown step fails and whenever the process is killed,  *)
(* none of the loops that lifespan manages outlives the engine or the lifespan,  *)
(* and a record_usage task outlives the engine only in the last two steps.       *)
THEOREM OrderlyAlways == LifespanSpec => []Orderly
  BY InitOrder, StepOrder, OrderSuffices, PTL DEF LifespanSpec

-------------------------------------------------------------------------------
(* The debug logs.  While the loop sleeps, what it still sleeps is missing to   *)
(* the age a row may have; a run that leaves a row finds it young enough to     *)
(* last another interval; a process that is down leaves none past the retention *)
(* but for the delay that is counted.                                          *)

LogInv ==
  /\ Logs!TypeOK
  /\ task.pc = "sleep" => log <= LogRetention + (LogInterval - task.left) + late
  /\ task.pc = "delete" => /\ log <= LogRetention + LogInterval + late
                           /\ ~ task.old => log <= LogRetention
  /\ task.pc = "down" => log <= LogRetention + late

LEMMA LogNumbers ==
  /\ LogInterval \in Nat \ {0} /\ LogRetention \in Nat \ {0} /\ LogMaxLate \in Nat
  /\ LogLag \in 0 .. LogRetention
  /\ Logs!Oldest = LogRetention + LogInterval + LogMaxLate /\ Logs!NoLog = -1
  BY LogConstantsOK DEF Logs!CleanupConstants, Logs!Oldest, Logs!NoLog

TaskType == [pc : {"sleep", "delete", "down"}, left : 0 .. LogInterval,
             old : BOOLEAN, final : BOOLEAN]

LEMMA LogTypes ==
  ASSUME LogInv
  PROVE  /\ log \in Int /\ log >= -1 /\ log <= LogRetention + LogInterval + LogMaxLate
         /\ late \in Nat /\ late <= LogMaxLate
         /\ task \in TaskType /\ task.left \in Nat /\ task.left <= LogInterval
  BY LogNumbers DEF LogInv, Logs!TypeOK, TaskType

(* Sleeping starts anew, or the task is over. *)
LEMMA Rests ==
  /\ Logs!Sleeping \in TaskType /\ Logs!Sleeping.pc = "sleep"
  /\ Logs!Sleeping.left = LogInterval
  /\ Logs!Down \in TaskType /\ Logs!Down.pc = "down"
<1>1. LogInterval \in 0 .. LogInterval /\ 0 \in 0 .. LogInterval
  BY LogNumbers
<1> QED
  BY <1>1 DEF Logs!Sleeping, Logs!Down, Logs!Task, TaskType

LEMMA TypesMet ==
  ASSUME log' \in -1 .. Logs!Oldest, late' \in 0 .. LogMaxLate, task' \in TaskType
  PROVE  Logs!TypeOK'
  BY LogNumbers DEF Logs!TypeOK, TaskType

(* After a task's run, or with the process gone, no row is past the retention   *)
(* but for its delay.                                                          *)
LEMMA RestKeeps ==
  ASSUME log' \in -1 .. Logs!Oldest, late' \in 0 .. LogMaxLate,
         log' <= LogRetention + late',
         task' \in {Logs!Sleeping, Logs!Down}
  PROVE  LogInv'
<1>1. CASE task' = Logs!Sleeping
  <2>1. task' \in TaskType /\ task'.pc = "sleep" /\ task'.left = LogInterval
    BY <1>1, Rests
  <2>2. LogRetention + (LogInterval - LogInterval) + late' = LogRetention + late'
    BY LogNumbers
  <2> QED
    BY <2>1, <2>2, TypesMet DEF LogInv
<1>2. CASE task' = Logs!Down
  <2>1. task' \in TaskType /\ task'.pc = "down"
    BY <1>2, Rests
  <2> QED
    BY <2>1, TypesMet, LogNumbers DEF LogInv
<1> QED
  BY <1>1, <1>2

(* What a DELETE leaves, and what a row that is not deleted is held up by. *)
LEMMA DeleteLeaves ==
  ASSUME LogInv, task.pc = "delete", Logs!Delete
  PROVE  /\ log' \in -1 .. Logs!Oldest /\ late' \in 0 .. LogMaxLate
         /\ log' <= LogRetention
<1>1. ~ task.old => log <= LogRetention
  BY DEF LogInv
<1>2. log \in Int /\ late \in 0 .. LogMaxLate /\ 0 \in 0 .. LogMaxLate
      /\ -1 <= Logs!Oldest /\ -1 <= LogRetention /\ log \in -1 .. Logs!Oldest
  BY LogTypes, LogNumbers
<1>3. CASE task.old
  <2>1. log' = -1 /\ late' = 0
    BY <1>3, LogNumbers DEF Logs!Delete
  <2> QED
    BY <1>2, <2>1, LogNumbers
<1>4. CASE ~ task.old
  <2>1. log' = log /\ late' \in {0, late}
    BY <1>4 DEF Logs!Delete
  <2> QED
    BY <1>1, <1>2, <1>4, <2>1
<1> QED
  BY <1>3, <1>4

LEMMA HeldUpLeaves ==
  ASSUME LogInv, Logs!HeldUp(LogInterval)
  PROVE  /\ log' \in -1 .. Logs!Oldest /\ late' \in 0 .. LogMaxLate
         /\ log' <= LogRetention + late'
<1>1. log <= LogRetention + LogInterval + late
  BY LogTypes, LogNumbers DEF LogInv, TaskType
<1> QED
  BY <1>1, LogTypes, LogNumbers DEF Logs!HeldUp

LEMMA CleaningKeeps ==
  ASSUME LogInv, Logs!Wake \/ Logs!Done \/ Logs!Raises \/ Logs!Start \/ Logs!Crash
  PROVE  LogInv'
<1>1. CASE Logs!Wake
  <2>1. task' = [pc |-> "delete", left |-> 0, old |-> Logs!Old, final |-> FALSE]
        /\ log' = log /\ late' = late /\ task.pc = "sleep" /\ task.left = 0
    BY <1>1 DEF Logs!Wake, Logs!Task
  <2>2. task'.pc = "delete" /\ task'.left = 0 /\ task'.old = Logs!Old
    BY <2>1
  <2>3. Logs!Old \in BOOLEAN /\ 0 \in 0 .. LogInterval /\ (~ Logs!Old => log <= LogRetention)
    BY LogTypes, LogNumbers DEF Logs!Old
  <2>4. task' \in TaskType
    BY <2>1, <2>3 DEF TaskType
  <2>5. log <= LogRetention + LogInterval + late
    BY <2>1, LogTypes, LogNumbers DEF LogInv
  <2> QED
    BY <2>1, <2>2, <2>3, <2>4, <2>5, TypesMet, LogTypes, LogNumbers DEF LogInv
<1>2. CASE Logs!Done \/ Logs!Raises
  <2>1. task' \in {Logs!Sleeping, Logs!Down} /\ task.pc = "delete"
    BY <1>2 DEF Logs!Done, Logs!Raises, Logs!Ended
  <2> QED
    BY <1>2, <2>1, DeleteLeaves, HeldUpLeaves, RestKeeps, LogNumbers DEF Logs!Done, Logs!Raises
<1>3. CASE Logs!Crash
  BY <1>3, DeleteLeaves, HeldUpLeaves, RestKeeps, LogNumbers DEF Logs!Crash
<1>4. CASE Logs!Start
  <2>1. log' = log /\ late' = late /\ task' = Logs!Sleeping /\ log <= LogRetention + late
    BY <1>4 DEF Logs!Start, LogInv
  <2> QED
    BY <2>1, RestKeeps, LogTypes, LogNumbers
<1> QED
  BY <1>1, <1>2, <1>3, <1>4

LEMMA LogStopKeeps == ASSUME LogInv, Logs!Stop PROVE LogInv'
<1>1. PICK old \in BOOLEAN :
        /\ task' = [pc |-> "delete", left |-> 0, old |-> old, final |-> TRUE]
        /\ old <=> log' > LogRetention
        /\ UNCHANGED <<log, late>> \/ (task.pc = "delete" /\ Logs!Delete)
  <2> DEFINE over == log' > LogRetention
  <2>1. over \in BOOLEAN /\ (over <=> log' > LogRetention)
    OBVIOUS
  <2>2. task' = [pc |-> "delete", left |-> 0, old |-> over, final |-> TRUE]
    BY DEF Logs!Stop, Logs!Task
  <2>3. UNCHANGED <<log, late>> \/ (task.pc = "delete" /\ Logs!Delete)
    BY DEF Logs!Stop
  <2> HIDE DEF over
  <2> QED
    BY <2>1, <2>2, <2>3
<1>2. task'.pc = "delete" /\ task'.old = old
  BY <1>1
<1>3. task' \in TaskType
  <2>1. 0 \in 0 .. LogInterval
    BY LogNumbers
  <2> QED
    BY <1>1, <2>1 DEF TaskType
<1>4. /\ log' \in -1 .. Logs!Oldest /\ late' \in 0 .. LogMaxLate
      /\ log' <= LogRetention + LogInterval + late'
  <2>1. CASE UNCHANGED <<log, late>>
    <3>1. log <= LogRetention + LogInterval + late
      BY LogTypes, LogNumbers DEF LogInv, TaskType
    <3> QED
      BY <2>1, <3>1, LogTypes, LogNumbers
  <2>2. CASE task.pc = "delete" /\ Logs!Delete
    BY <2>2, DeleteLeaves, LogNumbers
  <2> QED
    BY <1>1, <2>1, <2>2
<1>5. ~ old => log' <= LogRetention
  BY <1>1, <1>4, LogNumbers
<1> QED
  BY <1>2, <1>3, <1>4, <1>5, TypesMet DEF LogInv

LEMMA LogClockKeeps == ASSUME LogInv, Logs!Write \/ Logs!Tick PROVE LogInv'
<1>1. CASE Logs!Write
  <2>1. log' \in 0 .. LogLag /\ task' = task /\ late' = late
    BY <1>1 DEF Logs!Write
  <2>2. log' \in -1 .. Logs!Oldest /\ log' <= LogRetention
    BY <2>1, LogNumbers
  <2> QED
    BY <2>1, <2>2, TypesMet, LogTypes, LogNumbers DEF LogInv
<1>2. CASE Logs!Tick
  <2>1. log' \in -1 .. Logs!Oldest /\ late' \in 0 .. LogMaxLate
    BY <1>2, LogTypes, LogNumbers DEF Logs!Tick
  <2>2. CASE task.pc = "sleep"
    <3>1. task' = [task EXCEPT !.left = task.left - 1] /\ task.left > 0 /\ late' = late
          /\ log' = IF log = -1 THEN -1 ELSE log + 1
      BY <1>2, <2>2, LogNumbers DEF Logs!Tick
    <3>2. task.left - 1 \in 0 .. LogInterval
      BY <3>1, LogTypes, LogNumbers
    <3>3. task' \in TaskType /\ task'.pc = "sleep" /\ task'.left = task.left - 1
      BY <2>2, <3>1, <3>2, LogTypes DEF TaskType
    <3> QED
      BY <2>1, <2>2, <3>1, <3>3, TypesMet, LogTypes, LogNumbers DEF LogInv
  <2>3. CASE task.pc = "down"
    <3>1. task' = task /\ late' = (IF log # -1 THEN late + 1 ELSE late)
          /\ log' = IF log = -1 THEN -1 ELSE log + 1
      BY <1>2, <2>3, LogNumbers DEF Logs!Tick
    <3> QED
      BY <2>1, <2>3, <3>1, TypesMet, LogTypes, LogNumbers DEF LogInv
  <2> QED
    BY <1>2, <2>2, <2>3, LogTypes DEF Logs!Tick, TaskType
<1> QED
  BY <1>1, <1>2

LEMMA InitLogs == LifespanInit => LogInv
<1> SUFFICES ASSUME LifespanInit PROVE LogInv
  OBVIOUS
<1>1. log = -1 /\ late = 0 /\ task = Logs!Sleeping
  BY LogNumbers DEF LifespanInit, Logs!Init
<1> QED
  BY <1>1, Rests, LogNumbers DEF LogInv, Logs!TypeOK, TaskType

LEMMA StepLogs == LogInv /\ [LifespanNext]_all => LogInv'
<1> SUFFICES ASSUME LogInv, [LifespanNext]_all PROVE LogInv'
  OBVIOUS
<1>1. CASE UNCHANGED logs
  BY <1>1 DEF logs, LogInv, Logs!TypeOK
<1>2. \/ UNCHANGED logs \/ Logs!Wake \/ Logs!Done \/ Logs!Raises \/ Logs!Start \/ Logs!Crash
      \/ Logs!Stop \/ Logs!Write \/ Logs!Tick
  <2>1. CASE UNCHANGED all \/ Flushing \/ Scoring \/ Days \/ Record \/ Exit
    BY <2>1 DEF all, Flushing, Scoring, Days, Record, Exit
  <2>2. CASE Cleaning \/ Logging \/ Hours \/ Kill
    BY <2>2 DEF Cleaning, Logging, Hours, Kill
  <2>3. CASE Lifecycle
    BY <2>3 DEF Lifecycle, Boot, Checks, StartManager, MissingMetagraph, Serve, StopDebug,
       StopUsage, StopScores, StopManager, CloseDendrite, Close
  <2> QED
    BY <2>1, <2>2, <2>3 DEF LifespanNext
<1> QED
  BY <1>1, <1>2, CleaningKeeps, LogStopKeeps, LogClockKeeps

(* Logged content goes at most one interval after its retention, whatever the   *)
(* interval and the retention, through shutdowns and restarts; failed runs,    *)
(* crashes and downtime delay it by what they take and no more.                *)
THEOREM ContentGoes == LifespanSpec => []LogsGo
<1>1. LogInv => LogsGo
  BY LogTypes, LogNumbers DEF LogInv, LogsGo, Logs!OldContentGoes, TaskType
<1> QED
  BY <1>1, InitLogs, StepLogs, PTL DEF LifespanSpec

-------------------------------------------------------------------------------
(* Where lifespan is. *)
Placed ==
  /\ at \in Starting \cup Stopping \cup {"down", "serving"}
  /\ engine \in BOOLEAN

LEMMA StepPlaced == Placed /\ [LifespanNext]_all => Placed'
<1> SUFFICES ASSUME Placed, [LifespanNext]_all PROVE Placed'
  OBVIOUS
<1>1. CASE UNCHANGED process
  BY <1>1 DEF Placed, process
<1>2. CASE Boot \/ Checks \/ StartManager \/ MissingMetagraph \/ Serve
  <2>1. CASE Checks
    BY <2>1 DEF Placed, Starting, Checks
  <2>2. CASE Boot \/ StartManager \/ MissingMetagraph
    BY <2>2 DEF Placed, Starting, Boot, StartManager, MissingMetagraph
  <2>3. CASE Serve
    BY <2>3 DEF Placed, Serve
  <2> QED
    BY <1>2, <2>1, <2>2, <2>3
<1>3. CASE StopDebug \/ StopUsage \/ StopScores \/ StopManager \/ CloseDendrite \/ Close
  BY <1>3 DEF Placed, Starting, Stopping, StopDebug, StopUsage, StopScores, StopManager,
     CloseDendrite, Close, Guarded
<1>4. CASE Kill
  BY <1>4 DEF Placed, Kill
<1>5. CASE UNCHANGED all \/ Flushing \/ Scoring \/ Cleaning \/ Logging \/ Days \/ Hours
           \/ Record \/ Exit
  BY <1>1, <1>5 DEF all, Flushing, Scoring, Cleaning, Logging, Days, Hours, Record, Exit,
     Placed, process
<1> QED
  BY <1>2, <1>3, <1>4, <1>5 DEF LifespanNext, Lifecycle

(* Every variable keeps its type, the bounds on the age of a log and on the     *)
(* totals of a row included.                                                   *)
THEOREM LifespanTypes == LifespanSpec => []LifespanTypeOK
<1> DEFINE Inv == ScoresInv /\ OrderInv /\ LogInv /\ Placed
<1>1. LifespanInit => Inv
  <2>1. LifespanInit => Placed
    BY DEF LifespanInit, Placed
  <2>2. LifespanInit => ScoresInv
    BY InitScores DEF LifespanInit
  <2> QED
    BY <2>1, <2>2, InitOrder, InitLogs
<1>2. Inv /\ [LifespanNext]_all => Inv'
  <2>1. ScoresInv /\ [LifespanNext]_all => ScoresInv'
    BY ScoreStep, StepScores
  <2> QED
    BY <2>1, StepOrder, StepLogs, StepPlaced
<1>3. Inv => LifespanTypeOK
  BY DEF ScoresInv, OrderInv, LogInv, Placed, LifespanTypeOK
<1> QED
  BY <1>1, <1>2, <1>3, PTL DEF LifespanSpec
================================================================================
