----------------------------- MODULE PyPipeline -----------------------------
(***************************************************************************)
(* The delivery core of the Python client: class Pipeline                  *)
(* (adapters/core/python/src/audr/_pipeline.py) behind class Client        *)
(* (client.py), on asyncio, with the sink and the callbacks as             *)
(* environment.                                                            *)
(*                                                                         *)
(* An action is the code a task runs between two awaits, cut further where *)
(* it calls on_failure or on_delivered: these run synchronously and may    *)
(* call record(), while flush() and shutdown() are coroutines, which run   *)
(* as tasks.  Besides the worker task there is the get_task of             *)
(* _next_within_linger: it takes a record off the queue in a step of its   *)
(* own, and until the worker has awaited it twice that record is neither   *)
(* queued nor in flight (state "held").                                    *)
(*                                                                         *)
(* A sink lets a cancellation through, as every sink of the repository     *)
(* does, possibly late.                                                    *)
(***************************************************************************)
EXTENDS Integers, Sequences, FiniteSets, Functions

CONSTANTS Records,        \* submissions, one per call of Client.record
          Flushes,        \* calls of Client.flush
          MaxQueueSize, BatchMaxSize, OwnsSink,   \* options of Client
          HasOnFailure, HasOnDelivered,           \* whether a callback is set
          Misanswers,     \* whether deliver() may return what is no BatchResult
          Inputs          \* what record() is called with

(* A record that passes validation; one that fails it; a mapping that is   *)
(* no record at all.                                                       *)
InputKinds == {"valid", "invalid", "unparsable"}

(* What the Client constructor accepts; _MAX_BATCH_MAX_SIZE is 500. *)
ValidOptions ==
  /\ MaxQueueSize \in Nat \ {0}
  /\ BatchMaxSize \in 1..500
  /\ {OwnsSink, HasOnFailure, HasOnDelivered, Misanswers} \subseteq BOOLEAN

ASSUME OptionsAssumption == ValidOptions

ASSUME FinitenessAssumption == IsFiniteSet(Records) /\ IsFiniteSet(Flushes)

ASSUME InputsAssumption == Inputs \subseteq InputKinds

VARIABLES
  state,       \* what became of each submission
  queue,       \* _queue
  unfinished,  \* the task count of the asyncio.Queue, which join() waits for
  inFlight,    \* _in_flight_records, the worker's batch
  worker,      \* where the worker task is
  cancelled,   \* whether the worker task has been cancelled
  work,        \* verdicts the current synchronous section has still to apply
  calling,     \* whether a callback is running
  counts,      \* _submitted, _sent, _dropped, _unknown, _batches
  draining,    \* the event _draining
  flush,       \* where each call of flush() is
  wanted,      \* history: what was outstanding when flush() was called
  stop,        \* how far stop() has come
  attempted,   \* history: submissions that were handed to the sink
  notified     \* history: submissions on_failure was called for

batchVars == <<queue, unfinished, inFlight>>

workerVars == <<worker, cancelled, work, attempted>>

callerVars == <<draining, flush, wanted, stop>>

callbackVars == <<calling, notified>>

vars == <<state, batchVars, workerVars, counts, callerVars, callbackVars>>

Outstanding == {"queued", "held", "in_flight"}

Terminal == {"sent", "dropped", "unknown"}

RecordStates == {"new", "refused"} \cup Outstanding \cup Terminal

Verdicts == [rec : Records, to : Terminal]

Sections == {"applying", "settling", "sweeping"}

WorkerStates == {"none", "idle", "lingering", "gathering", "delivering", "gone"} \cup Sections

StopStates == {"no", "draining", "drained", "expired", "cancelled", "reaping", "closing", "done"}

FlushStates == {"none", "waiting", "resolved", "expired", "true", "false", "skipped"}

CounterNames == {"submitted", "sent", "dropped", "unknown", "batches"}

(* Types of the variables; the queue's task count never goes below zero,   *)
(* which would make task_done() raise in the worker.                       *)
TypeOK ==
  /\ state \in [Records -> RecordStates]
  /\ queue \in Seq(Records)
  /\ unfinished \in Nat
  /\ inFlight \in Seq(Records)
  /\ worker \in WorkerStates
  /\ cancelled \in BOOLEAN
  /\ work \in Seq(Verdicts)
  /\ calling \in BOOLEAN
  /\ counts \in [CounterNames -> Nat]
  /\ draining \in BOOLEAN
  /\ flush \in [Flushes -> FlushStates]
  /\ wanted \in [Flushes -> SUBSET Records]
  /\ stop \in StopStates
  /\ attempted \in SUBSET Records
  /\ notified \in SUBSET Records

Init ==
  /\ state = [r \in Records |-> "new"]
  /\ queue = <<>> /\ unfinished = 0 /\ inFlight = <<>> /\ work = <<>>
  /\ worker = "none" /\ cancelled = FALSE /\ calling = FALSE
  /\ counts = [n \in CounterNames |-> 0]
  /\ draining = FALSE /\ stop = "no"
  /\ flush = [c \in Flushes |-> "none"]
  /\ wanted = [c \in Flushes |-> {}]
  /\ attempted = {} /\ notified = {}
-----------------------------------------------------------------------------
(* Who has control.                                                        *)

(* The event loop picks the next task. *)
AtLoop == ~calling /\ worker \notin Sections

(* record() may be called: from a task of the user, or from a callback. *)
UserInControl == calling \/ worker \notin Sections

(* _running *)
Running == worker # "none" /\ stop = "no"

(* Records that get_task has taken and the worker has not got yet. *)
Held == {r \in Records : state[r] = "held"}

(* A loop that sweeps the batch releases each record after its callback,   *)
(* the others only when it is over.                                        *)
Released ==
  IF worker = "sweeping" THEN Len(inFlight) - Len(work) - (IF calling THEN 1 ELSE 0) ELSE 0

(* _current_depth: a held record is in neither of the two. *)
Depth == Len(queue) + Len(inFlight) - Released
-----------------------------------------------------------------------------
(* Callbacks.                                                              *)

(* _notify_failure; a callback that submits may be called again inside. *)
NotifyFailure(r) ==
  /\ calling' = (calling \/ HasOnFailure)
  /\ notified' = IF HasOnFailure THEN notified \cup {r} ELSE notified

(* The outermost callback returns or raises. *)
CallbackReturns ==
  /\ calling
  /\ calling' = FALSE
  /\ UNCHANGED <<state, batchVars, workerVars, counts, callerVars, notified>>
-----------------------------------------------------------------------------
(* Client.record and Pipeline.submit.                                      *)

(* _ensure_started, and Pipeline.start when the worker does not run yet. *)
EnsureStarted ==
  /\ worker' = IF worker = "none" THEN "idle" ELSE worker
  /\ draining' = (draining /\ worker # "none")

(* record() goes on only while shutdown() has not begun. *)
Accepting == UserInControl /\ stop = "no"

Submit(r) ==
  IF Depth >= MaxQueueSize
    THEN /\ state' = [state EXCEPT ![r] = "dropped"]
         /\ counts' = [counts EXCEPT !["submitted"] = @ + 1, !["dropped"] = @ + 1]
         /\ NotifyFailure(r)
         /\ UNCHANGED <<queue, unfinished>>
    ELSE /\ state' = [state EXCEPT ![r] = "queued"]
         /\ counts' = [counts EXCEPT !["submitted"] = @ + 1]
         /\ queue' = Append(queue, r)
         /\ unfinished' = unfinished + 1
         /\ UNCHANGED callbackVars

RecordValid(r) ==
  /\ Accepting
  /\ "valid" \in Inputs
  /\ state[r] = "new"
  /\ EnsureStarted
  /\ Submit(r)
  /\ UNCHANGED <<inFlight, cancelled, work, attempted, flush, wanted, stop>>

(* record() with a record that fails validation, which is reported, or     *)
(* with a mapping that is no record, which cannot be.                      *)
RecordInvalid(r) ==
  /\ Accepting
  /\ state[r] = "new"
  /\ EnsureStarted
  /\ state' = [state EXCEPT ![r] = "refused"]
  /\ \/ "invalid" \in Inputs /\ NotifyFailure(r)
     \/ "unparsable" \in Inputs /\ UNCHANGED callbackVars
  /\ UNCHANGED <<batchVars, cancelled, work, attempted, counts, flush, wanted, stop>>

(* record() once shutdown() has begun. *)
RecordRefused(r) ==
  /\ UserInControl
  /\ stop # "no"
  /\ state[r] = "new"
  /\ state' = [state EXCEPT ![r] = "refused"]
  /\ UNCHANGED <<batchVars, workerVars, counts, callerVars, callbackVars>>

(* start(), or entering the client as a context manager. *)
Start ==
  /\ AtLoop
  /\ worker = "none"
  /\ stop = "no"
  /\ EnsureStarted
  /\ UNCHANGED <<state, batchVars, cancelled, work, attempted, counts, flush, wanted, stop,
                 callbackVars>>
-----------------------------------------------------------------------------
(* The worker: _collect_batch and _next_within_linger.                     *)

(* Faulty variant: the batch is filled before it is measured. *)
BatchRoomLate(b) == BatchMaxSize + 1 - Len(b)

BatchRoom(b) == BatchMaxSize - Len(b)

(* The loop of _collect_batch with batch b and queue q: while a drain is   *)
(* on, the rest of the batch is taken at once; else the worker lingers,    *)
(* unless the batch is full or the deadline has passed.                    *)
Collect(b, q) ==
  LET n == IF draining /\ Len(q) < BatchRoom(b) THEN Len(q)
           ELSE IF draining THEN BatchRoom(b) ELSE 0
      taken == b \o SubSeq(q, 1, n)
  IN  /\ queue' = SubSeq(q, n + 1, Len(q))
      /\ inFlight' = taken
      /\ state' = [r \in Records |-> IF \E i \in 1..Len(taken) : taken[i] = r
                                     THEN "in_flight" ELSE state[r]]
      /\ \/ worker' = "delivering" /\ attempted' = attempted \cup Range(taken)
         \/ /\ ~draining /\ BatchRoom(b) > 0
            /\ worker' = "lingering" /\ attempted' = attempted

(* queue.get() of the worker returns the first record of a batch. *)
WorkerGets ==
  /\ AtLoop
  /\ worker = "idle" /\ ~cancelled
  /\ queue # <<>>
  /\ Collect(<<Head(queue)>>, Tail(queue))
  /\ UNCHANGED <<unfinished, cancelled, work, counts, callerVars, callbackVars>>

(* get_task takes a record off the queue. *)
GetTaskTakes ==
  /\ AtLoop
  /\ worker = "lingering" /\ Held = {}
  /\ queue # <<>>
  /\ queue' = Tail(queue)
  /\ state' = [state EXCEPT ![Head(queue)] = "held"]
  /\ UNCHANGED <<unfinished, inFlight, workerVars, counts, callerVars, callbackVars>>

(* asyncio.wait returns, because of get_task, of a drain or of the         *)
(* deadline; a get_task that has taken nothing is cancelled.               *)
LingerEnds ==
  /\ AtLoop
  /\ worker = "lingering" /\ ~cancelled
  /\ worker' = "gathering"
  /\ UNCHANGED <<state, batchVars, cancelled, work, attempted, counts, callerVars, callbackVars>>

(* The finally block of _next_within_linger has awaited both tasks. *)
GatherEnds ==
  /\ AtLoop
  /\ worker = "gathering" /\ ~cancelled
  /\ IF Held = {}
       THEN /\ worker' = "delivering"
            /\ attempted' = attempted \cup Range(inFlight)
            /\ UNCHANGED <<state, queue, inFlight>>
       ELSE \E r \in Held : Collect(Append(inFlight, r), queue)
  /\ UNCHANGED <<unfinished, cancelled, work, counts, callerVars, callbackVars>>
-----------------------------------------------------------------------------
(* The worker: _deliver.                                                   *)

Judge(verdict) ==
  work' = [i \in 1..Len(inFlight) |-> [rec |-> inFlight[i], to |-> verdict[inFlight[i]]]]

CountBatch == counts' = [counts EXCEPT !["batches"] = @ + 1]

(* The sink's answer arrives, and the worker goes on in section s. *)
Answered(s) ==
  /\ AtLoop
  /\ worker = "delivering" /\ ~cancelled
  /\ worker' = s
  /\ UNCHANGED <<state, batchVars, cancelled, attempted, callerVars, callbackVars>>

SinkAccepts(rejected, unknown) ==
  /\ Answered("applying")
  /\ Judge([r \in Records |-> IF r \in rejected THEN "dropped"
                              ELSE IF r \in unknown THEN "unknown" ELSE "sent"])
  /\ CountBatch

(* A retryable or permanent failure, or a closed sink. *)
SinkFails ==
  /\ Answered("settling")
  /\ Judge([r \in Records |-> "dropped"])
  /\ CountBatch

(* deliver() raises. *)
SinkRaises ==
  /\ Answered("settling")
  /\ Judge([r \in Records |-> "unknown"])
  /\ UNCHANGED counts

(* deliver() returns what has no outcome: the worker fails with the batch  *)
(* swept to unknown.                                                       *)
SinkMisanswers ==
  /\ Misanswers
  /\ Answered("sweeping")
  /\ Judge([r \in Records |-> "unknown"])
  /\ CountBatch

(* The cancellation of the worker comes out of deliver(). *)
DeliveryCancelled ==
  /\ AtLoop
  /\ worker = "delivering" /\ cancelled
  /\ worker' = "settling"
  /\ Judge([r \in Records |-> "unknown"])
  /\ UNCHANGED <<state, batchVars, cancelled, attempted, counts, callerVars, callbackVars>>

(* Faulty variant: a verdict counts whatever was decided before. *)
AppliesToAnything(v) == state[v.rec] # "new"

(* _finalize *)
Applies(v) == state[v.rec] = "in_flight"

(* One pass of a loop over the batch: _mark_sent, _drop, _mark_unknown. *)
Settle ==
  /\ ~calling
  /\ work # <<>>
  /\ work' = Tail(work)
  /\ LET v == Head(work)
     IN  IF Applies(v)
           THEN /\ state' = [state EXCEPT ![v.rec] = v.to]
                /\ counts' = [counts EXCEPT ![v.to] = @ + 1]
                /\ IF v.to = "sent" THEN UNCHANGED callbackVars ELSE NotifyFailure(v.rec)
           ELSE UNCHANGED <<state, counts, callbackVars>>
  /\ UNCHANGED <<batchVars, worker, cancelled, attempted, callerVars>>

(* _notify_delivered *)
NotifyDelivered ==
  /\ ~calling
  /\ worker = "applying" /\ work = <<>>
  /\ worker' = "settling"
  /\ calling' = (HasOnDelivered /\ \E r \in Range(inFlight) : state[r] = "sent")
  /\ UNCHANGED <<state, batchVars, cancelled, work, attempted, counts, callerVars, notified>>

(* Faulty variant: join() returns once everything has been taken. *)
AllTaken(u, q) == q = <<>>

(* The queue's join() returns when every task is done. *)
AllDone(u, q) == u = 0

(* The joins that wait are resolved. *)
WakeFlushes ==
  flush' = [c \in Flushes |-> IF flush[c] = "waiting" THEN "resolved" ELSE flush[c]]

(* The worker loops, unless it is cancelled or failed in _deliver. *)
AfterDelivery == IF cancelled \/ worker = "sweeping" THEN "gone" ELSE "idle"

(* The finally blocks of _deliver and _worker: the batch is released and   *)
(* its tasks are done.                                                     *)
EndDeliver ==
  /\ ~calling
  /\ worker \in {"settling", "sweeping"} /\ work = <<>>
  /\ inFlight' = <<>>
  /\ unfinished' = unfinished - Len(inFlight)
  /\ worker' = AfterDelivery
  /\ IF AllDone(unfinished', queue)
       THEN /\ WakeFlushes
            /\ stop' = IF stop = "draining" THEN "drained" ELSE stop
       ELSE UNCHANGED <<flush, stop>>
  /\ UNCHANGED <<state, queue, cancelled, work, attempted, counts, draining, wanted, callbackVars>>

(* Faulty variant: only a worker that waits for its first record ends. *)
CancelPointsIdle == {"idle"}

(* The awaits of the worker outside deliver(). *)
CancelPoints == {"idle", "lingering", "gathering"}

(* The cancelled worker ends: its batch stays in _in_flight_records, and a *)
(* record that get_task held is gone with it.                              *)
WorkerEnds ==
  /\ AtLoop
  /\ cancelled /\ worker \in CancelPoints
  /\ worker' = "gone"
  /\ UNCHANGED <<state, batchVars, cancelled, work, attempted, counts, callerVars, callbackVars>>
-----------------------------------------------------------------------------
(* Client.flush and _drain.                                                *)

NoteWanted(c) ==
  wanted' = [wanted EXCEPT ![c] = {r \in Records : state[r] \in Outstanding}]

FlushDrains(c) ==
  /\ AtLoop
  /\ Running
  /\ flush[c] = "none"
  /\ draining' = TRUE
  /\ flush' = [flush EXCEPT ![c] = IF AllDone(unfinished, queue) THEN "resolved" ELSE "waiting"]
  /\ NoteWanted(c)
  /\ UNCHANGED <<state, batchVars, workerVars, counts, stop, callbackVars>>

(* flush() before start() and once stop() has begun answers true at once,  *)
(* here "skipped".                                                         *)
FlushNotRunning(c) ==
  /\ AtLoop
  /\ ~Running
  /\ flush[c] = "none"
  /\ flush' = [flush EXCEPT ![c] = "skipped"]
  /\ NoteWanted(c)
  /\ UNCHANGED <<state, batchVars, workerVars, counts, draining, stop, callbackVars>>

(* The timer of wait_for fires, or the caller cancels, whatever the sink   *)
(* does.                                                                   *)
BoundPasses == AtLoop

FlushExpires(c) ==
  /\ BoundPasses
  /\ flush[c] = "waiting"
  /\ flush' = [flush EXCEPT ![c] = "expired"]
  /\ UNCHANGED <<state, batchVars, workerVars, counts, draining, wanted, stop, callbackVars>>

(* The finally block of _drain clears the event for every flush. *)
FlushReturns(c) ==
  /\ AtLoop
  /\ flush[c] \in {"resolved", "expired"}
  /\ flush' = [flush EXCEPT ![c] = IF @ = "resolved" THEN "true" ELSE "false"]
  /\ draining' = (draining /\ stop # "no")
  /\ UNCHANGED <<state, batchVars, workerVars, counts, wanted, stop, callbackVars>>
-----------------------------------------------------------------------------
(* Client.shutdown, stop and _shutdown.  A second call returns at once and *)
(* changes nothing.                                                        *)

Shutdown ==
  /\ AtLoop
  /\ stop = "no"
  /\ draining' = TRUE
  /\ stop' = IF AllDone(unfinished, queue) THEN "drained" ELSE "draining"
  /\ UNCHANGED <<state, batchVars, workerVars, counts, flush, wanted, callbackVars>>

(* The bound of shutdown() passes. *)
StopExpires ==
  /\ BoundPasses
  /\ stop = "draining"
  /\ stop' = "expired"
  /\ UNCHANGED <<state, batchVars, workerVars, counts, draining, flush, wanted, callbackVars>>

(* The caller cancels shutdown() while it drains. *)
StopCancelled ==
  /\ AtLoop
  /\ stop = "draining"
  /\ stop' = "cancelled"
  /\ UNCHANGED <<state, batchVars, workerVars, counts, draining, flush, wanted, callbackVars>>

(* What _abandon_outstanding makes of a record: queued ones are dropped,   *)
(* those in flight become unknown, and a held one it does not find.        *)
Abandoned(r) ==
  IF state[r] = "queued" THEN "dropped"
  ELSE IF r \in Range(inFlight) /\ state[r] = "in_flight" THEN "unknown"
  ELSE state[r]

(* Faulty variant: the tasks of the batch are done here too. *)
AbandonedTasksAll == Len(queue) + Len(inFlight)

(* The calls of task_done(): the worker makes those for its batch. *)
AbandonedTasks == Len(queue)

(* _abandon_outstanding.  The callbacks it makes can do nothing: record()  *)
(* is refused by now.                                                      *)
AbandonOutstanding ==
  LET changed == {r \in Records : Abandoned(r) # state[r]}
  IN  /\ state' = [r \in Records |-> Abandoned(r)]
      /\ queue' = <<>>
      /\ unfinished' = unfinished - AbandonedTasks
      /\ IF queue # <<>> /\ AllDone(unfinished', queue') THEN WakeFlushes ELSE UNCHANGED flush
      /\ counts' = [n \in CounterNames |->
                      counts[n] + Cardinality({r \in changed : Abandoned(r) = n})]
      /\ notified' = IF HasOnFailure THEN notified \cup changed ELSE notified
      /\ UNCHANGED <<inFlight, calling>>

(* The drain of stop() is over: if its bound passed, what is outstanding   *)
(* is abandoned; then _shutdown cancels the worker.                        *)
StopReaps ==
  /\ AtLoop
  /\ stop \in {"drained", "expired", "cancelled"}
  /\ stop' = "reaping"
  /\ cancelled' = (worker \notin {"none", "gone"})
  /\ IF stop = "expired" THEN AbandonOutstanding
     ELSE UNCHANGED <<state, batchVars, counts, flush, callbackVars>>
  /\ UNCHANGED <<worker, work, attempted, draining, wanted>>

(* The worker has ended: the rest is abandoned and an owned sink closed. *)
StopCloses ==
  /\ AtLoop
  /\ stop = "reaping"
  /\ worker \in {"none", "gone"}
  /\ stop' = IF OwnsSink THEN "closing" ELSE "done"
  /\ AbandonOutstanding
  /\ UNCHANGED <<workerVars, draining, wanted>>

SinkClosed == OwnsSink /\ stop \in {"closing", "done"}

(* sink.close() returns or raises. *)
StopEnds ==
  /\ AtLoop
  /\ stop = "closing"
  /\ stop' = "done"
  /\ UNCHANGED <<state, batchVars, workerVars, counts, draining, flush, wanted, callbackVars>>
-----------------------------------------------------------------------------
SinkAnswers ==
  \/ \E rejected, unknown \in SUBSET Range(inFlight) : SinkAccepts(rejected, unknown)
  \/ SinkFails
  \/ SinkRaises
  \/ SinkMisanswers

(* What the event loop runs once it is due; the linger deadline included. *)
LoopStep ==
  \/ WorkerGets
  \/ LingerEnds
  \/ GatherEnds
  \/ Settle
  \/ NotifyDelivered
  \/ EndDeliver
  \/ WorkerEnds
  \/ \E c \in Flushes : FlushReturns(c)
  \/ StopReaps
  \/ StopCloses

UserCall ==
  \/ \E r \in Records : RecordValid(r)
  \/ \E r \in Records : RecordInvalid(r)
  \/ \E r \in Records : RecordRefused(r)
  \/ Start
  \/ \E c \in Flushes : FlushDrains(c)
  \/ \E c \in Flushes : FlushNotRunning(c)
  \/ Shutdown
  \/ StopCancelled

Next ==
  \/ UserCall
  \/ SinkAnswers
  \/ DeliveryCancelled
  \/ CallbackReturns
  \/ LoopStep
  \/ GetTaskTakes
  \/ \E c \in Flushes : FlushExpires(c)
  \/ StopExpires
  \/ StopEnds

Spec == Init /\ [][Next]_vars

(* The event loop runs what is due, callbacks return, a cancelled delivery *)
(* ends, and close() returns. *)
LoopFairness ==
  /\ WF_vars(LoopStep)
  /\ WF_vars(CallbackReturns)
  /\ WF_vars(DeliveryCancelled)
  /\ WF_vars(StopEnds)

(* What the liveness properties assume besides: either the bounds of       *)
(* flush() and shutdown() pass, while deliver() may hang until it is       *)
(* cancelled,                                                              *)
BoundsPass == SF_vars(StopExpires) /\ \A c \in Flushes : SF_vars(FlushExpires(c))

(* or the sink answers every batch, and no bound need pass. *)
SinkResponds == WF_vars(SinkAnswers)

FairSpec == Spec /\ LoopFairness
-----------------------------------------------------------------------------
(* Properties.                                                             *)

In(S) == {r \in Records : state[r] \in S}

(* The answers of flush() that are true. *)
AnsweredTrue(c) == flush[c] \in {"resolved", "true"}

(* stats counts every submission once: _sent, _dropped and _unknown are    *)
(* the records in those states, and what is missing from _submitted is     *)
(* outstanding, the record that get_task holds included, also when a sink  *)
(* answers for a batch that shutdown has given up.                         *)
Accounting ==
  /\ \A t \in Terminal : counts[t] = Cardinality(In({t}))
  /\ counts["submitted"] = Cardinality(In(Outstanding \cup Terminal))

(* The task count of the queue is exact: one for every record queued, held *)
(* by get_task, or in the worker's batch, however the batch ended.  One    *)
(* too few and flush() answers early, one too many and it never does.      *)
TasksExact == unfinished = Len(queue) + Len(inFlight) + Cardinality(Held)

(* max_queue_size bounds what the client holds, give or take the one       *)
(* record that get_task has taken off the queue and that _current_depth    *)
(* does not see.                                                           *)
DepthOverrunByOne == Len(queue) + Len(inFlight) + Cardinality(Held) - Released <= MaxQueueSize + 1

(* What _worker owes deliver(): a batch of at most batch_max_size records, *)
(* none handed over before, and none after close().                        *)
SinkContract ==
  [][worker # "delivering" /\ worker' = "delivering" =>
       /\ Len(inFlight') \in 1..BatchMaxSize
       /\ Cardinality(Range(inFlight')) = Len(inFlight')
       /\ Range(inFlight') \cap attempted = {}
       /\ ~SinkClosed']_vars

(* A flush() called while the client runs answers true only when all that  *)
(* was outstanding at the call is terminal, also when shutdown() abandons  *)
(* the rest meanwhile.                                                     *)
RunningFlushTruthful ==
  \A c \in Flushes : AnsweredTrue(c) => wanted[c] \subseteq In(Terminal)

(* When shutdown() goes on to close the sink nothing is queued or in       *)
(* flight any more: at most the one record held by get_task was missed.    *)
ShutdownMissesHeld ==
  stop \in {"closing", "done"} =>
    /\ In(Outstanding) \subseteq Held
    /\ Cardinality(Held) <= 1

(* on_failure hears of every record the client gives up, whether record(), *)
(* the worker, a callback or shutdown() gives it up.                       *)
FailuresReported == HasOnFailure => In({"dropped", "unknown"}) \subseteq notified

(* The queue's own books: the task count is exact, and the limit is overrun by no more than
   one record, however deliveries, cancellation and shutdown() interleave. *)
QueueSound == TypeOK /\ TasksExact /\ DepthOverrunByOne

(* What a caller is told of its records is true: by flush(), by shutdown() and by
   on_failure. *)
LossesKnown == RunningFlushTruthful /\ ShutdownMissesHeld /\ FailuresReported

(* Every flush() returns, even if deliver() hangs, or if shutdown()        *)
(* cancelled the worker with a batch whose task_done() never comes.        *)
FlushEnds ==
  BoundsPass => \A c \in Flushes : flush[c] # "none" ~> flush[c] \in {"true", "false", "skipped"}

(* shutdown() closes the sink and returns even if deliver() hangs until it *)
(* is cancelled.                                                           *)
ShutdownEnds == BoundsPass => (stop # "no" ~> stop = "done")

(* With a sink that answers every submission is settled, without a flush, *)
(* unless shutdown() gets there first, or a sink that answers something    *)
(* that is no BatchResult has ended the worker.                            *)
RecordsSettle ==
  SinkResponds =>
    \A r \in Records :
      state[r] \in Outstanding ~>
        state[r] \in Terminal \/ stop # "no" \/ (Misanswers /\ worker = "gone")

(* All three: no flush, no shutdown and no record waits for ever. *)
EverythingEnds == FlushEnds /\ ShutdownEnds /\ RecordsSettle

(* DeliveryStats: "Every record admitted through submission ends in        *)
(* exactly one of sent, dropped, or unknown", at the latest when           *)
(* shutdown() has returned.                                                *)
EveryRecordEnds == stop = "done" => In(Outstanding) = {}
=============================================================================
