--------------------------- MODULE RequestLifecycle ---------------------------
(***************************************************************************)
(* An authenticated and admitted completion request, from the choice of a  *)
(* miner to its usage record: BaseAdapter.execute and the handler of JSON  *)
(* answers; execute_stream with its two nested generators, which Starlette *)
(* pulls item by item and closes when the client goes away; the quality    *)
(* observation it leaves with the scorer; the record_usage task it leaves  *)
(* behind.                                                                 *)
(***************************************************************************)
EXTENDS Naturals, SequencesExt

CONSTANTS
  Requests,
  MaxChunks   \* bound: chunks a miner streams before its call times out

ASSUME ConstantsOK == MaxChunks \in Nat

VARIABLES
  pc,       \* pc[r]: the await or yield at which r is suspended
  here,     \* here[r]: no disconnect of r's client has arrived
  answer,   \* answer[r]: HTTP status sent, 0 before
  out,      \* out[r]: SSE items its generator is about to yield
  got,      \* got[r]: what its client received
  chunks,   \* chunks[r]: chunks the miner streamed
  score,    \* score[r]: observations given to the scorer, in order
  usage,    \* usage[r]: statuses of the record_usage tasks created
  tasks,    \* tasks[r]: record_usage tasks not yet finished
  rows,     \* rows[r]: rows of r in usage_records
  lost,     \* lost[r]: a record_usage task of r failed, which was logged, or was dropped
  miner     \* miner[r]: its answer was read whole, it failed, or none yet (history)

vars == <<pc, here, answer, out, got, chunks, score, usage, tasks, rows, lost, miner>>

(* Suspended at a yield: the item being sent belongs to the error answer of a  *)
(* failed query ("early"), to a chunk, to the except clauses of the inner      *)
(* generator ("fault"), to its last lines ("tail"), or to the except clauses   *)
(* of the outer one ("crash").                                                 *)
Sending == {"early", "text", "fault", "tail", "crash"}

(* Suspended at an await of the inner generator. *)
Awaiting == {"forward", "next", "poll"}

PCs == {"idle", "query", "open", "end"} \cup Awaiting \cup Sending

(* What a client receives: a JSON body, or the items of an SSE stream. *)
Items == {"json", "ttft", "role", "text", "error", "stop", "done"}

Statuses == {200, 500, 502, 503, 504}

(* The type of every variable. *)
TypeOK ==
  /\ pc \in [Requests -> PCs]
  /\ here \in [Requests -> BOOLEAN]
  /\ miner \in [Requests -> {"none", "whole", "failed"}]
  /\ answer \in [Requests -> Statuses \cup {0}]
  /\ out \in [Requests -> Seq(Items)] /\ got \in [Requests -> Seq(Items)]
  /\ chunks \in [Requests -> 0 .. MaxChunks]
  /\ score \in [Requests -> Seq({"good", "bad"})]
  /\ usage \in [Requests -> Seq(Statuses)]
  /\ tasks \in [Requests -> Nat] /\ rows \in [Requests -> Nat]
  /\ lost \in [Requests -> {"no", "logged", "dropped"}]

Init ==
  /\ pc = [r \in Requests |-> "idle"]
  /\ here = [r \in Requests |-> TRUE] /\ miner = [r \in Requests |-> "none"]
  /\ answer = [r \in Requests |-> 0]
  /\ out = [r \in Requests |-> <<>>] /\ got = [r \in Requests |-> <<>>]
  /\ chunks = [r \in Requests |-> 0]
  /\ score = [r \in Requests |-> <<>>]
  /\ usage = [r \in Requests |-> <<>>]
  /\ tasks = [r \in Requests |-> 0] /\ rows = [r \in Requests |-> 0]
  /\ lost = [r \in Requests |-> "no"]

Goto(r, p) == pc' = [pc EXCEPT ![r] = p]

Observe(r, v) == score' = [score EXCEPT ![r] = Append(@, v)]

(* asyncio.create_task(record_usage(..., status_code=s)) *)
Record(r, s) ==
  /\ usage' = [usage EXCEPT ![r] = Append(@, s)]
  /\ tasks' = [tasks EXCEPT ![r] = @ + 1]

(* What the miner did, for the properties. *)
Judge(r, m) == miner' = [miner EXCEPT ![r] = m]

Respond(r, s) == answer' = [answer EXCEPT ![r] = s]

stream == <<out, got, chunks>>
billing == <<usage, tasks>>
ledger == <<rows, lost>>

-------------------------------------------------------------------------------
(* JSON answers: execute_subnet_request *)

(* No miner can be selected (SubnetUnavailableError). *)
Unavailable(r) ==
  /\ pc[r] = "idle"
  /\ Goto(r, "end") /\ Respond(r, 503) /\ Record(r, 503)
  /\ UNCHANGED <<here, stream, score, ledger, miner>>

Query(r) ==
  /\ pc[r] = "idle"
  /\ Goto(r, "query")
  /\ UNCHANGED <<here, answer, stream, score, billing, ledger, miner>>

(* The adapter cannot convert the request, or the response in a way it does    *)
(* not expect: any exception other than a GatewayError.                        *)
Crash(r) ==
  /\ pc[r] \in {"idle", "query"}
  /\ Goto(r, "end") /\ Respond(r, 500) /\ Record(r, 500)
  /\ UNCHANGED <<here, stream, score, ledger, miner>>

(* Timeout, communication error, no response, or one the adapter refuses. *)
MinerFails(r) ==
  /\ pc[r] = "query"
  /\ Goto(r, "end") /\ Observe(r, "bad") /\ Judge(r, "failed")
  /\ \E s \in {502, 504} : Respond(r, s) /\ Record(r, s)
  /\ UNCHANGED <<here, stream, ledger>>

(* The response is scored before its schema is validated; one that is not      *)
(* valid is answered 502 and leaves no usage record.                           *)
MinerAnswers(r) ==
  /\ pc[r] = "query"
  /\ Goto(r, "end") /\ Observe(r, "good")
  /\ Judge(r, "whole")
  /\ \/ /\ Respond(r, 200) /\ Record(r, 200)
        /\ got' = [got EXCEPT ![r] = IF here[r] THEN <<"json">> ELSE <<>>]
     \/ Respond(r, 502) /\ UNCHANGED <<got, billing>>
  /\ UNCHANGED <<here, out, chunks, ledger>>

-------------------------------------------------------------------------------
(* Streamed answers: _handle_stream, execute_stream, _stream_generator *)

(* execute_stream raises before any generator exists: no usage record. *)
StreamUnavailable(r) ==
  /\ pc[r] = "idle"
  /\ Goto(r, "end") /\ Respond(r, 503)
  /\ UNCHANGED <<here, stream, score, billing, ledger, miner>>

(* The headers go out; the generators are created but not started. *)
Open(r) ==
  /\ pc[r] = "idle"
  /\ Goto(r, "open") /\ Respond(r, 200)
  /\ UNCHANGED <<here, stream, score, billing, ledger, miner>>

(* to_streaming_synapse returns or raises. *)
Start(r) ==
  /\ pc[r] = "open"
  /\ \/ Goto(r, "forward") /\ UNCHANGED out
     \/ Goto(r, "crash") /\ out' = [out EXCEPT ![r] = <<"error", "done">>]
  /\ UNCHANGED <<here, answer, got, chunks, score, billing, ledger, miner>>

Forwarded(r) ==
  /\ pc[r] = "forward"
  /\ Goto(r, "next")
  /\ UNCHANGED <<here, answer, stream, score, billing, ledger, miner>>

(* Timeout, communication error or no response. *)
ForwardFails(r) ==
  /\ pc[r] = "forward"
  /\ Goto(r, "early") /\ Observe(r, "bad") /\ Judge(r, "failed")
  /\ out' = [out EXCEPT ![r] = <<"error", "done">>]
  /\ UNCHANGED <<here, answer, got, chunks, billing, ledger>>

(* A chunk arrives; is_disconnected is awaited before it is used. *)
Chunk(r) ==
  /\ pc[r] = "next" /\ chunks[r] < MaxChunks
  /\ Goto(r, "poll")
  /\ chunks' = [chunks EXCEPT ![r] = @ + 1]
  /\ UNCHANGED <<here, answer, out, got, score, billing, ledger, miner>>

FirstText(r) == "ttft" \notin ToSet(got[r])

(* An empty chunk is skipped; the first other one is preceded by the time to   *)
(* first token and carries the role.  (A client still here received all that   *)
(* was sent, so first_chunk need not be kept.)                                 *)
PollHere(r) ==
  /\ pc[r] = "poll" /\ here[r]
  /\ \/ Goto(r, "next") /\ UNCHANGED out
     \/ /\ Goto(r, "text")
        /\ out' = [out EXCEPT ![r] = IF FirstText(r) THEN <<"ttft", "role">>
                                                     ELSE <<"text">>]
  /\ UNCHANGED <<here, answer, got, chunks, score, billing, ledger, miner>>

(* Mutant of PollGone: the disconnect is scored like the end of the stream. *)
PollGoneScored(r) ==
  /\ pc[r] = "poll" /\ ~ here[r]
  /\ Goto(r, "end") /\ Record(r, 200) /\ Observe(r, "bad")
  /\ UNCHANGED <<here, answer, stream, ledger, miner>>

(* The client is gone: the inner generator returns without an observation, the *)
(* outer one takes it for the end of the stream.                               *)
PollGone(r) ==
  /\ pc[r] = "poll" /\ ~ here[r]
  /\ Goto(r, "end") /\ Record(r, 200)
  /\ UNCHANGED <<here, answer, stream, score, ledger, miner>>

(* Mutant of MidStreamError: the stop chunk is sent after the error. *)
MidStreamErrorStops(r) ==
  /\ pc[r] = "next"
  /\ Goto(r, "fault") /\ Judge(r, "failed")
  /\ out' = [out EXCEPT ![r] = <<"error", "stop">>]
  /\ UNCHANGED <<here, answer, got, chunks, score, billing, ledger>>

(* The miner times out or fails mid-stream. *)
MidStreamError(r) ==
  /\ pc[r] = "next"
  /\ Goto(r, "fault") /\ Judge(r, "failed")
  /\ out' = [out EXCEPT ![r] = <<"error">>]
  /\ UNCHANGED <<here, answer, got, chunks, score, billing, ledger>>

Exhausted(r) ==
  /\ pc[r] = "next"
  /\ Goto(r, "tail") /\ Observe(r, "good")
  /\ Judge(r, "whole")
  /\ out' = [out EXCEPT ![r] = <<"stop">>]
  /\ UNCHANGED <<here, answer, got, chunks, billing, ledger>>

-------------------------------------------------------------------------------
(* Sending *)

(* Mutant of Deliver: the send waits for a client that is gone. *)
DeliverToLive(r) == here[r] /\ got' = [got EXCEPT ![r] = Append(@, Head(out[r]))]

Deliver(r) ==
  got' = [got EXCEPT ![r] = IF here[r] THEN Append(@, Head(out[r])) ELSE @]

(* An item is sent and more are to follow before the generator goes on. *)
SendItem(r) ==
  /\ pc[r] \in Sending /\ Len(out[r]) > 1
  /\ Deliver(r)
  /\ out' = [out EXCEPT ![r] = Tail(@)]
  /\ UNCHANGED <<pc, here, answer, chunks, score, billing, ledger, miner>>

(* Mutant of RecordStream: the status of a stream that crashed is not set. *)
RecordStreamUnset(r) == Record(r, IF pc[r] = "crash" THEN 0 ELSE 200)

(* What the finally clause of the outer generator records: 502 only if an      *)
(* exception crossed the inner one.                                            *)
RecordStream(r) == Record(r, IF pc[r] = "crash" THEN 502 ELSE 200)

(* The last item: the next chunk is awaited; or the except clause ends and     *)
(* finally makes the observation; or both generators end, and finally creates  *)
(* the usage task.                                                             *)
SendLast(r) ==
  /\ pc[r] \in Sending /\ Len(out[r]) = 1
  /\ Deliver(r)
  /\ \/ /\ pc[r] = "text"
        /\ Goto(r, "next") /\ out' = [out EXCEPT ![r] = <<>>]
        /\ UNCHANGED <<score, billing>>
     \/ /\ pc[r] = "fault"
        /\ Goto(r, "tail") /\ out' = [out EXCEPT ![r] = <<"done">>]
        /\ Observe(r, "bad")
        /\ UNCHANGED billing
     \/ /\ pc[r] \in {"early", "tail", "crash"}
        /\ Goto(r, "end") /\ out' = [out EXCEPT ![r] = <<>>]
        /\ RecordStream(r)
        /\ UNCHANGED score
  /\ UNCHANGED <<here, answer, chunks, ledger, miner>>

-------------------------------------------------------------------------------
(* Disconnects and cancellation *)

Disconnect(r) ==
  /\ pc[r] # "end" /\ here[r]
  /\ here' = [here EXCEPT ![r] = FALSE]
  /\ UNCHANGED <<pc, answer, stream, score, billing, ledger, miner>>

(* What the finally clause of the inner generator records when it is closed in *)
(* the middle: client_disconnected is false, so an observation is made.        *)
ObserveClosed(r) ==
  IF pc[r] \in {"next", "poll", "text"} THEN Observe(r, "good")
  ELSE IF pc[r] = "fault" THEN Observe(r, "bad")
  ELSE UNCHANGED score

(* Starlette, told of the disconnect, or the server at shutdown closes the     *)
(* response: CancelledError at an await or GeneratorExit at a yield, which no  *)
(* except clause catches.  A generator not yet started runs no finally.        *)
Close(r) ==
  /\ pc[r] \in {"query", "open"} \cup Awaiting \cup Sending
  /\ Goto(r, "end")
  /\ here' = [here EXCEPT ![r] = FALSE]
  /\ out' = [out EXCEPT ![r] = <<>>]
  /\ ObserveClosed(r)
  /\ IF pc[r] \in {"query", "open"}
       THEN UNCHANGED billing
       ELSE RecordStream(r)
  /\ UNCHANGED <<answer, got, chunks, ledger, miner>>

-------------------------------------------------------------------------------
(* record_usage *)

(* Mutant of RecordUsage: a failed write is tried again, though the failure    *)
(* may have been that of the reply to the commit.                              *)
RecordUsageRetried(r) ==
  /\ tasks[r] > 0 /\ rows[r] < 2
  /\ \/ tasks' = [tasks EXCEPT ![r] = @ - 1]
     \/ UNCHANGED tasks
  /\ rows' = [rows EXCEPT ![r] = @ + 1]
  /\ UNCHANGED <<pc, here, answer, stream, score, usage, lost, miner>>

(* Mutant of RecordUsage: a write that fails is not logged. *)
RecordUsageSilent(r) ==
  /\ tasks[r] > 0
  /\ tasks' = [tasks EXCEPT ![r] = @ - 1]
  /\ rows' = [rows EXCEPT ![r] = @ + 1] \/ UNCHANGED rows
  /\ UNCHANGED <<pc, here, answer, stream, score, usage, lost, miner>>

(* The task ends: the row is committed; or the write raises, the reply to the  *)
(* commit at times, and that is logged and not tried again.                    *)
RecordUsage(r) ==
  /\ tasks[r] > 0
  /\ tasks' = [tasks EXCEPT ![r] = @ - 1]
  /\ \/ rows' = [rows EXCEPT ![r] = @ + 1] /\ UNCHANGED lost
     \/ /\ lost' = [lost EXCEPT ![r] = "logged"]
        /\ rows' = [rows EXCEPT ![r] = @ + 1] \/ UNCHANGED rows
  /\ UNCHANGED <<pc, here, answer, stream, score, usage, miner>>

(* Nothing holds the task but the event loop: it is collected, or cancelled     *)
(* with what else is running when the process ends, and leaves no trace.        *)
DropTask(r) ==
  /\ tasks[r] > 0
  /\ tasks' = [tasks EXCEPT ![r] = @ - 1]
  /\ lost' = [lost EXCEPT ![r] = "dropped"]
  /\ UNCHANGED <<pc, here, answer, stream, score, usage, rows, miner>>

Json(r) == Unavailable(r) \/ Query(r) \/ Crash(r) \/ MinerFails(r) \/ MinerAnswers(r)

Stream(r) ==
  \/ StreamUnavailable(r) \/ Open(r) \/ Start(r) \/ Forwarded(r) \/ ForwardFails(r)
  \/ Chunk(r) \/ PollHere(r) \/ PollGone(r) \/ MidStreamError(r) \/ Exhausted(r)
  \/ SendItem(r) \/ SendLast(r)

Step(r) ==
  Json(r) \/ Stream(r) \/ Disconnect(r) \/ Close(r) \/ RecordUsage(r) \/ DropTask(r)

Next == \E r \in Requests : Step(r)

(* Every await ends: Dendrite's calls by their timeout, sends and database     *)
(* calls by returning or raising.                                              *)
Fairness ==
  \A r \in Requests :
    /\ WF_vars(pc[r] # "idle" /\ (Json(r) \/ Stream(r)))
    /\ WF_vars(RecordUsage(r))

Spec == Init /\ [][Next]_vars /\ Fairness

-------------------------------------------------------------------------------
(* Properties *)

(* Whatever is interrupted where, a request is observed by the scorer at most  *)
(* once and leaves at most one usage row: none of the finally clauses repeats  *)
(* what an except clause or the normal end has done.                           *)
AtMostOnce ==
  \A r \in Requests :
    Len(score[r]) <= 1 /\ Len(usage[r]) <= 1 /\ tasks[r] + rows[r] <= Len(usage[r])

(* The items of k non-empty chunks. *)
Texts(k) ==
  IF k = 0 THEN <<>> ELSE <<"ttft", "role">> \o [i \in 1 .. k - 1 |-> "text"]

Answers ==
  {<<"json">>} \cup {Texts(k) \o <<"stop">> : k \in 0 .. MaxChunks}
               \cup {Texts(k) \o <<"error", "done">> : k \in 0 .. MaxChunks}

(* What a client received is at any time the beginning of a JSON body or of a  *)
(* well-formed stream: the chunks, the role in the first, then the stop chunk  *)
(* with [DONE], or one error and [DONE] without a stop chunk; and all of it    *)
(* when a request answered 200 has ended and the client is still there         *)
(* (format_stream_chunk, sse_error, SSE_DONE).                                 *)
WellFormedAnswer ==
  \A r \in Requests :
    IF pc[r] = "end" /\ answer[r] = 200 /\ here[r]
      THEN got[r] \in Answers
      ELSE \E a \in Answers : IsPrefix(got[r], a)

(* A client that was served, by a JSON body or by a stream to its stop chunk,  *)
(* has its miner's answer observed as good and one record_usage task with       *)
(* status 200 behind it, which leaves its row unless the write failed and was   *)
(* logged, or the task was dropped before it ended: the one loss that leaves no *)
(* trace (create_task in chat.py and _subnet_handler.py keeps no reference).    *)
ServedIsBilled ==
  \A r \in Requests :
    pc[r] = "end" /\ ToSet(got[r]) \cap {"json", "stop"} # {} =>
      /\ usage[r] = <<200>> /\ score[r] = <<"good">>
      /\ tasks[r] + rows[r] = 1 \/ lost[r] \in {"logged", "dropped"}

(* The scorer holds against a miner only what the miner did: a bad observation *)
(* means that it failed, never that the client left or the server stopped; and *)
(* a miner that failed is never observed as good.                              *)
ScoresFair ==
  \A r \in Requests :
    /\ "bad" \in ToSet(score[r]) => miner[r] = "failed"
    /\ "good" \in ToSet(score[r]) => miner[r] # "failed"

(* A request that was begun ends, and so does its usage task, whatever the     *)
(* miner does and whether or not the client stays.                             *)
Ends == \A r \in Requests : pc[r] # "idle" ~> pc[r] = "end" /\ tasks[r] = 0

(* What base.py:390 says: a disconnect is not counted as a success.            *)
GoodMeansWhole ==
  \A r \in Requests : "good" \in ToSet(score[r]) => miner[r] = "whole"
===============================================================================
