------------------------------ MODULE Pipeline ------------------------------
(***************************************************************************)
(* The delivery core of the TypeScript client: class Pipeline              *)
(* (adapters/core/typescript/src/pipeline.ts) behind class Client          *)
(* (client.ts), with the sink and the two callbacks as environment.        *)
(*                                                                         *)
(* JavaScript runs one synchronous section at a time, so an action is the  *)
(* code between two awaits, cut further where a section calls user code:   *)
(* onFailure and onDelivered run synchronously in the middle of a section  *)
(* and may call record(), flush() and shutdown() themselves.  Timers fire  *)
(* only when no microtask is pending.                                      *)
(*                                                                         *)
(* A submission is one call of Client.record; a record the callback        *)
(* resubmits is a new submission.  The sink's deliver() is an async        *)
(* function, as every sink of the repository is: it answers, rejects or    *)
(* hangs, and never throws synchronously.                                  *)
(***************************************************************************)
EXTENDS Integers, Sequences, FiniteSets, Functions

CONSTANTS Records,        \* submissions, one per call of Client.record
          Flushes,        \* calls of Client.flush
          MaxQueueSize, BatchMaxSize, OwnsSink,   \* ClientOptions
          HasOnFailure, HasOnDelivered,           \* whether a callback is set
          AsyncCallbacks, \* whether a callback may return a promise
          Inputs          \* what record() is called with: a subset of InputKinds

(* A record that passes validation; an object that fails it; an object that *)
(* structuredClone cannot copy; a value that is no object.                  *)
InputKinds == {"valid", "invalid", "opaque", "value"}

(* What the Client constructor accepts; MAX_BATCH_SIZE is 500. *)
ValidOptions ==
  /\ MaxQueueSize \in Nat \ {0}
  /\ BatchMaxSize \in 1..500
  /\ {OwnsSink, HasOnFailure, HasOnDelivered, AsyncCallbacks} \subseteq BOOLEAN

ASSUME OptionsAssumption == ValidOptions

ASSUME FinitenessAssumption == IsFiniteSet(Records) /\ IsFiniteSet(Flushes)

ASSUME InputsAssumption == Inputs \subseteq InputKinds

VARIABLES
  state,       \* what became of each submission
  queue,       \* #queue
  inFlight,    \* #inFlight, in insertion order; one batch at a time
  run,         \* where #run is: "idle" iff #delivering is false
  linger,      \* whether #lingerTimer is armed
  work,        \* verdicts the current synchronous section has still to apply
  counts,      \* #submitted, #sent, #dropped, #unknown, #batches
  drainers,    \* #drainers
  flush,       \* where each call of flush() is
  wanted,      \* history: what was outstanding when flush() was called
  stop,        \* how far #stop has come; "no" iff #stopping is undefined
  notifying,   \* {r} while onFailure runs for r (#notifying), else {}
  delivered,   \* the records onDelivered is running for, else {}
  callbacks,   \* #callbacks: unsettled promises, named by their records
  awaited,     \* the promises #settleCallbacks waits for
  notified,    \* history: submissions onFailure was called for
  failedAtOnce \* history: submissions made inside onFailure and dropped by that very call

scheduleVars == <<state, queue, inFlight, run, linger>>

flushVars == <<drainers, flush, wanted>>

invokeVars == <<notifying, notified>>

promiseVars == <<delivered, callbacks, awaited>>

callbackVars == <<invokeVars, promiseVars, failedAtOnce>>

vars == <<scheduleVars, work, counts, flushVars, stop, callbackVars>>

Outstanding == {"queued", "in_flight"}

Terminal == {"sent", "dropped", "unknown"}

(* "refused": dropped_not_running, or not an object; "invalid": an object   *)
(* rejected as rejected_invalid.  Neither is ever counted as submitted.     *)
RecordStates == {"new", "refused", "invalid"} \cup Outstanding \cup Terminal

Verdicts == [rec : Records, to : Terminal]

RunStates == {"idle", "awaiting", "applying", "settling", "resuming"}

StopStates == {"no", "draining", "drained", "abandoning", "callbacks", "closing", "done"}

FlushStates == {"none", "waiting", "resolved", "expired", "joining", "true", "false"}

CounterNames == {"submitted", "sent", "dropped", "unknown", "batches"}

(* Types of the variables; in particular #drainers never goes below zero. *)
TypeOK ==
  /\ state \in [Records -> RecordStates]
  /\ queue \in Seq(Records)
  /\ inFlight \in Seq(Records)
  /\ run \in RunStates
  /\ linger \in BOOLEAN
  /\ work \in Seq(Verdicts)
  /\ counts \in [CounterNames -> Nat]
  /\ drainers \in Nat
  /\ flush \in [Flushes -> FlushStates]
  /\ wanted \in [Flushes -> SUBSET Records]
  /\ stop \in StopStates
  /\ notifying \in SUBSET Records
  /\ delivered \in SUBSET Records
  /\ callbacks \in SUBSET (SUBSET Records)
  /\ awaited \in SUBSET (SUBSET Records)
  /\ notified \in SUBSET Records
  /\ failedAtOnce \in SUBSET Records

Init ==
  /\ state = [r \in Records |-> "new"]
  /\ queue = <<>> /\ inFlight = <<>> /\ work = <<>>
  /\ run = "idle" /\ linger = FALSE /\ stop = "no"
  /\ counts = [n \in CounterNames |-> 0]
  /\ drainers = 0
  /\ flush = [c \in Flushes |-> "none"]
  /\ wanted = [c \in Flushes |-> {}]
  /\ notifying = {} /\ delivered = {} /\ callbacks = {} /\ awaited = {}
  /\ notified = {} /\ failedAtOnce = {}
-----------------------------------------------------------------------------
(* Who has control.                                                        *)

InCallback == notifying # {} \/ delivered # {}

(* A synchronous section of the pipeline itself is in progress. *)
InSection == run \in {"applying", "settling"} \/ stop = "abandoning"

(* User code may call the client: from its own tasks or from a callback. *)
UserInControl == InCallback \/ ~InSection

(* The event loop picks the next task or microtask. *)
AtLoop == ~InCallback /\ ~InSection

(* No microtask is pending, so a timer may fire. *)
TimersDue ==
  /\ AtLoop
  /\ run # "resuming"
  /\ stop # "drained"
  /\ \A c \in Flushes : /\ flush[c] \notin {"resolved", "expired"}
                         /\ ~(flush[c] = "joining" /\ stop = "done")

(* The timer of settlesWithin may fire, whatever the sink does. *)
BoundPasses == TimersDue
-----------------------------------------------------------------------------
(* Scheduling: #depth, #batchDue, #schedule and the synchronous start of   *)
(* #run.                                                                   *)

(* Faulty variant: records in flight do not count. *)
DepthOfQueue == Len(queue)

Depth == Len(queue) + Len(inFlight)

BatchDue(q, d, stopped) == Len(q) >= BatchMaxSize \/ d > 0 \/ stopped

(* #queue.splice(0, batchMaxSize) *)
BatchSize(q) == IF Len(q) < BatchMaxSize THEN Len(q) ELSE BatchMaxSize

(* #run up to its first await, entered with queue q and states st: the     *)
(* timer is cleared, the batch is spliced off and handed to the sink.      *)
StartRun(q, st) ==
  LET n == BatchSize(q)
  IN  /\ queue' = SubSeq(q, n + 1, Len(q))
      /\ inFlight' = SubSeq(q, 1, n)
      /\ state' = [r \in Records |->
                     IF \E i \in 1..n : q[i] = r THEN "in_flight" ELSE st[r]]
      /\ run' = "awaiting"
      /\ linger' = FALSE

(* Faulty variant: a run in progress is not looked at. *)
MayRunAlways(q) == q # <<>>

(* #schedule does nothing while a batch is being delivered. *)
MayRun(q) == run = "idle" /\ q # <<>>

(* Faulty variant: a partial batch waits for the next record. *)
ArmLingerNever(q) == linger' = linger

ArmLinger(q) == linger' = (linger \/ MayRun(q))

(* #schedule with #queue = q, #drainers = d and #stopped = stopped. *)
Schedule(q, st, d, stopped) ==
  IF MayRun(q) /\ BatchDue(q, d, stopped)
    THEN StartRun(q, st)
    ELSE /\ queue' = q /\ state' = st
         /\ ArmLinger(q)
         /\ UNCHANGED <<inFlight, run>>
-----------------------------------------------------------------------------
(* Callbacks.                                                              *)

(* Faulty variant: silent while any callback runs, onDelivered included. *)
NotifyFailureOutside(r) ==
  IF HasOnFailure /\ ~InCallback
    THEN notifying' = {r} /\ notified' = notified \cup {r}
    ELSE UNCHANGED invokeVars

(* #notifyFailure: onFailure is never re-entered. *)
NotifyFailure(r) ==
  IF HasOnFailure /\ notifying = {}
    THEN notifying' = {r} /\ notified' = notified \cup {r}
    ELSE UNCHANGED invokeVars

(* #invoke, when the callback returns, throws, or returns a promise: only   *)
(* a promise is remembered.  An onFailure called from within onDelivered   *)
(* returns first.                                                          *)
CallbackReturns ==
  /\ InCallback
  /\ notifying' = {}
  /\ delivered' = IF notifying = {} THEN {} ELSE delivered
  /\ LET p == IF notifying = {} THEN delivered ELSE notifying
     IN  \/ UNCHANGED callbacks
         \/ AsyncCallbacks /\ callbacks' = callbacks \cup {p}
  /\ UNCHANGED <<scheduleVars, work, counts, flushVars, stop, awaited, notified, failedAtOnce>>

(* A callback's promise settles, in its own time. *)
CallbackSettles ==
  /\ AtLoop
  /\ \E p \in callbacks :
       /\ callbacks' = callbacks \ {p}
       /\ awaited' = awaited \ {p}
  /\ UNCHANGED <<scheduleVars, work, counts, flushVars, stop, invokeVars, delivered, failedAtOnce>>
-----------------------------------------------------------------------------
(* Client.record and Pipeline.submit.                                      *)

(* Faulty variant: shutdown() does not stop record(). *)
AcceptingAlways == UserInControl

(* record() goes on only while shutdown() has not begun. *)
Accepting == UserInControl /\ stop = "no"

(* submit: queue the record, or drop it when the queue is full. *)
Submit(r) ==
  IF Depth >= MaxQueueSize
    THEN /\ state' = [state EXCEPT ![r] = "dropped"]
         /\ counts' = [counts EXCEPT !["submitted"] = @ + 1, !["dropped"] = @ + 1]
         /\ NotifyFailure(r)
         /\ UNCHANGED <<queue, inFlight, run, linger>>
    ELSE /\ Schedule(Append(queue, r), [state EXCEPT ![r] = "queued"], drainers, stop # "no")
         /\ counts' = [counts EXCEPT !["submitted"] = @ + 1]
         /\ UNCHANGED invokeVars

(* Whether submit() dropped r while onFailure was running. *)
NoteFailedAtOnce(r) ==
  failedAtOnce' = IF notifying # {} /\ state'[r] = "dropped"
                    THEN failedAtOnce \cup {r} ELSE failedAtOnce

(* record() with a record that passes validation. *)
RecordValid(r) ==
  /\ Accepting
  /\ "valid" \in Inputs
  /\ state[r] = "new"
  /\ Submit(r)
  /\ NoteFailedAtOnce(r)
  /\ UNCHANGED <<work, flushVars, stop, promiseVars>>

(* record() with an object the validator rejects: reportInvalid. *)
RecordInvalid(r) ==
  /\ Accepting
  /\ "invalid" \in Inputs
  /\ state[r] = "new"
  /\ state' = [state EXCEPT ![r] = "invalid"]
  /\ NotifyFailure(r)
  /\ UNCHANGED <<queue, inFlight, run, linger, work, counts, flushVars, stop, promiseVars,
                 failedAtOnce>>

(* record() with an object structuredClone cannot copy: rejected before    *)
(* validation, without a callback.                                         *)
RecordOpaque(r) ==
  /\ Accepting
  /\ "opaque" \in Inputs
  /\ state[r] = "new"
  /\ state' = [state EXCEPT ![r] = "invalid"]
  /\ UNCHANGED <<queue, inFlight, run, linger, work, counts, flushVars, stop, callbackVars>>

(* record() once shutdown() has begun, or with a value that is no object. *)
RecordRefused(r) ==
  /\ UserInControl
  /\ stop # "no" \/ "value" \in Inputs
  /\ state[r] = "new"
  /\ state' = [state EXCEPT ![r] = "refused"]
  /\ UNCHANGED <<queue, inFlight, run, linger, work, counts, flushVars, stop, callbackVars>>
-----------------------------------------------------------------------------
(* The sink's answer to the batch in flight, and #run after it.            *)

Unresolved == \E i \in DOMAIN inFlight : state[inFlight[i]] = "in_flight"

CountBatch == counts' = [counts EXCEPT !["batches"] = @ + 1]

(* The loop over the batch is about to give each record its verdict. *)
Judge(verdict) ==
  work' = [i \in 1..Len(inFlight) |-> [rec |-> inFlight[i], to |-> verdict[inFlight[i]]]]

(* deliver() resolves with an accepted result: rejected wins over unknown, *)
(* and a record in neither list is sent.                                   *)
SinkAccepts(rejected, unknown) ==
  /\ AtLoop
  /\ run = "awaiting"
  /\ \/ /\ Unresolved
        /\ Judge([r \in Records |-> IF r \in rejected THEN "dropped"
                                    ELSE IF r \in unknown THEN "unknown" ELSE "sent"])
        /\ CountBatch
        /\ run' = "applying"
     \/ /\ ~Unresolved
        /\ run' = "settling"
        /\ UNCHANGED <<work, counts>>
  /\ UNCHANGED <<state, queue, inFlight, linger, flushVars, stop, callbackVars>>

(* deliver() resolves with a failure or closed result: the batch is         *)
(* dropped.                                                                *)
SinkFails ==
  /\ AtLoop
  /\ run = "awaiting"
  /\ run' = "settling"
  /\ \/ Unresolved /\ Judge([r \in Records |-> "dropped"]) /\ CountBatch
     \/ ~Unresolved /\ UNCHANGED <<work, counts>>
  /\ UNCHANGED <<state, queue, inFlight, linger, flushVars, stop, callbackVars>>

(* deliver() rejects, or resolves with something that is no result: #deliver *)
(* sweeps the batch to unknown.  An object with an unexpected outcome still  *)
(* counts as an answered batch.                                              *)
SinkInconclusive ==
  /\ AtLoop
  /\ run = "awaiting"
  /\ run' = "settling"
  /\ Judge([r \in Records |-> "unknown"])
  /\ UNCHANGED counts \/ (Unresolved /\ CountBatch)
  /\ UNCHANGED <<state, queue, inFlight, linger, flushVars, stop, callbackVars>>

(* Faulty variant: a verdict counts whatever was decided before. *)
AppliesToAnything(v) == state[v.rec] # "new"

(* #fail and #markSent act only on an item that is still in flight; a       *)
(* record abandoned from the queue is still queued.                        *)
Applies(v) == state[v.rec] \in Outstanding

(* One pass of a loop over a batch or over the abandoned records: #fail,    *)
(* #markSent and the loop of #abandonOutstanding.                           *)
Settle ==
  /\ ~InCallback
  /\ work # <<>>
  /\ work' = Tail(work)
  /\ LET v == Head(work)
     IN  IF Applies(v)
           THEN /\ state' = [state EXCEPT ![v.rec] = v.to]
                /\ counts' = [counts EXCEPT ![v.to] = @ + 1]
                /\ IF v.to = "sent" THEN UNCHANGED invokeVars ELSE NotifyFailure(v.rec)
           ELSE UNCHANGED <<state, counts, invokeVars>>
  /\ UNCHANGED <<queue, inFlight, run, linger, flushVars, stop, promiseVars, failedAtOnce>>

(* #notifyDelivered, with the records of an accepted batch that are sent. *)
NotifyDelivered ==
  /\ ~InCallback
  /\ run = "applying"
  /\ work = <<>>
  /\ run' = "settling"
  /\ delivered' = {r \in Range(inFlight) : HasOnDelivered /\ state[r] = "sent"}
  /\ UNCHANGED <<state, queue, inFlight, linger, work, counts, flushVars, stop, invokeVars,
                 callbacks, awaited, failedAtOnce>>

(* The finally block of #deliver: the batch leaves #inFlight. *)
EndDeliver ==
  /\ ~InCallback
  /\ run = "settling"
  /\ work = <<>>
  /\ inFlight' = <<>>
  /\ run' = "resuming"
  /\ UNCHANGED <<state, queue, linger, work, counts, flushVars, stop, callbackVars>>

(* Faulty variant: only shutdown() is told. *)
ResolveStopOnly == stop' = (IF stop = "draining" THEN "drained" ELSE stop) /\ UNCHANGED flush

(* The idle waiters of #drain resolve: every waiting flush and stop. *)
ResolveIdle ==
  /\ stop' = IF stop = "draining" THEN "drained" ELSE stop
  /\ flush' = [c \in Flushes |-> IF flush[c] = "waiting" THEN "resolved" ELSE flush[c]]

(* #run after `await this.#deliver(batch)`: the next batch if one is due,   *)
(* else the finally block, which lingers or resolves the idle waiters.     *)
RunResumes ==
  /\ AtLoop
  /\ run = "resuming"
  /\ \/ /\ queue # <<>>
        /\ BatchDue(queue, drainers, stop # "no")
        /\ StartRun(queue, state)
        /\ UNCHANGED <<flush, stop>>
     \/ /\ queue # <<>>
        /\ ~BatchDue(queue, drainers, stop # "no")
        /\ run' = "idle"
        /\ linger' = TRUE
        /\ UNCHANGED <<state, queue, inFlight, flush, stop>>
     \/ /\ queue = <<>>
        /\ run' = "idle"
        /\ ResolveIdle
        /\ UNCHANGED <<state, queue, inFlight, linger>>
  /\ UNCHANGED <<work, counts, drainers, wanted, callbackVars>>

(* The linger timer fires. *)
LingerFires ==
  /\ TimersDue
  /\ linger
  /\ StartRun(queue, state)
  /\ UNCHANGED <<work, counts, flushVars, stop, callbackVars>>
-----------------------------------------------------------------------------
(* Client.flush and #drain.                                                *)

(* Faulty variant: a batch in flight does not count as work. *)
IdleQueueEmpty == queue = <<>>

(* #drain resolves at once when nothing is queued or being delivered. *)
Idle == run = "idle" /\ queue = <<>>

NoteWanted(c) ==
  wanted' = [wanted EXCEPT ![c] = {r \in Records : state[r] \in Outstanding}]

(* flush() while the client runs: #drain up to its await. *)
FlushDrains(c) ==
  /\ UserInControl
  /\ stop = "no"
  /\ flush[c] = "none"
  /\ drainers' = drainers + 1
  /\ Schedule(queue, state, drainers + 1, FALSE)
  /\ flush' = [flush EXCEPT ![c] = IF Idle THEN "resolved" ELSE "waiting"]
  /\ NoteWanted(c)
  /\ UNCHANGED <<work, counts, stop, callbackVars>>

(* flush() once stopping: it waits for the same promise as shutdown(). *)
FlushJoins(c) ==
  /\ UserInControl
  /\ stop # "no"
  /\ flush[c] = "none"
  /\ flush' = [flush EXCEPT ![c] = "joining"]
  /\ NoteWanted(c)
  /\ UNCHANGED <<scheduleVars, work, counts, drainers, stop, callbackVars>>

(* The bound of a flush passes first. *)
FlushExpires(c) ==
  /\ BoundPasses
  /\ flush[c] \in {"waiting", "joining"}
  /\ flush' = [flush EXCEPT ![c] = IF @ = "waiting" THEN "expired" ELSE "false"]
  /\ UNCHANGED <<scheduleVars, work, counts, drainers, wanted, stop, callbackVars>>

(* Faulty variant: a drain that ends stops every drain, as a flag would. *)
DrainEndsAll == drainers' = 0

(* The finally block of #drain. *)
DrainEnds == drainers' = drainers - 1

FlushReturns(c) ==
  /\ AtLoop
  /\ flush[c] \in {"resolved", "expired"}
  /\ flush' = [flush EXCEPT ![c] = IF @ = "resolved" THEN "true" ELSE "false"]
  /\ DrainEnds
  /\ UNCHANGED <<scheduleVars, work, counts, wanted, stop, callbackVars>>

(* A flush that joined shutdown() sees it finish. *)
FlushJoined(c) ==
  /\ AtLoop
  /\ flush[c] = "joining"
  /\ stop = "done"
  /\ flush' = [flush EXCEPT ![c] = "true"]
  /\ UNCHANGED <<scheduleVars, work, counts, drainers, wanted, stop, callbackVars>>
-----------------------------------------------------------------------------
(* Client.shutdown and #stop.  A second call returns the same promise and  *)
(* changes nothing.                                                        *)

Shutdown ==
  /\ UserInControl
  /\ stop = "no"
  /\ drainers' = drainers + 1
  /\ Schedule(queue, state, drainers + 1, TRUE)
  /\ stop' = IF Idle THEN "drained" ELSE "draining"
  /\ UNCHANGED <<work, counts, flush, wanted, callbackVars>>

(* The bound passes while #stop drains. *)
StopExpires ==
  /\ BoundPasses
  /\ stop = "draining"
  /\ stop' = "drained"
  /\ UNCHANGED <<scheduleVars, work, counts, flushVars, callbackVars>>

Abandoned(q, to) == [i \in 1..Len(q) |-> [rec |-> q[i], to |-> to]]

(* Faulty variant: only the queue is abandoned, not the hung batch. *)
AbandonQueueOnly == Abandoned(queue, "dropped")

(* #abandonOutstanding: queued records are dropped, then records in flight *)
(* become unknown.                                                         *)
AbandonOutstanding == Abandoned(queue, "dropped") \o Abandoned(inFlight, "unknown")

(* #stop after its drain: the sink's AbortSignal is raised and              *)
(* #abandonOutstanding begins.                                              *)
StopAbandons ==
  /\ AtLoop
  /\ stop = "drained"
  /\ stop' = "abandoning"
  /\ DrainEnds
  /\ linger' = FALSE
  /\ queue' = <<>>
  /\ work' = AbandonOutstanding
  /\ UNCHANGED <<state, inFlight, run, counts, flush, wanted, callbackVars>>

(* #settleCallbacks begins with the promises unsettled at this moment. *)
StopAwaitsCallbacks ==
  /\ ~InCallback
  /\ stop = "abandoning"
  /\ work = <<>>
  /\ stop' = "callbacks"
  /\ awaited' = callbacks
  /\ UNCHANGED <<scheduleVars, work, counts, flushVars, invokeVars, delivered, callbacks,
                 failedAtOnce>>

(* The callbacks have settled, or the bound passes first: an owned sink is *)
(* told to close.                                                          *)
StopCloses ==
  /\ stop = "callbacks"
  /\ IF awaited = {} THEN AtLoop ELSE BoundPasses
  /\ stop' = IF OwnsSink THEN "closing" ELSE "done"
  /\ awaited' = {}
  /\ UNCHANGED <<scheduleVars, work, counts, flushVars, invokeVars, delivered, callbacks,
                 failedAtOnce>>

SinkClosed == OwnsSink /\ stop \in {"closing", "done"}

(* sink.close() settles, or the bound passes first. *)
StopEnds ==
  /\ AtLoop
  /\ stop = "closing"
  /\ stop' = "done"
  /\ UNCHANGED <<scheduleVars, work, counts, flushVars, callbackVars>>
-----------------------------------------------------------------------------
SinkAnswers ==
  \/ \E rejected, unknown \in SUBSET Range(inFlight) : SinkAccepts(rejected, unknown)
  \/ SinkFails
  \/ SinkInconclusive

(* What the event loop runs once it is due, timers apart. *)
LoopStep ==
  \/ Settle
  \/ NotifyDelivered
  \/ EndDeliver
  \/ RunResumes
  \/ \E c \in Flushes : FlushReturns(c) \/ FlushJoined(c)
  \/ StopAbandons
  \/ StopAwaitsCallbacks

UserCall ==
  \/ \E r \in Records : RecordValid(r)
  \/ \E r \in Records : RecordInvalid(r)
  \/ \E r \in Records : RecordOpaque(r)
  \/ \E r \in Records : RecordRefused(r)
  \/ \E c \in Flushes : FlushDrains(c)
  \/ \E c \in Flushes : FlushJoins(c)
  \/ Shutdown

Next ==
  \/ UserCall
  \/ SinkAnswers
  \/ CallbackReturns
  \/ CallbackSettles
  \/ LoopStep
  \/ LingerFires
  \/ \E c \in Flushes : FlushExpires(c)
  \/ StopExpires
  \/ StopCloses
  \/ StopEnds

Spec == Init /\ [][Next]_vars
-----------------------------------------------------------------------------
(* Fairness.  The event loop runs what is due.  A timer is due again and   *)
(* again once it has been set, even when microtasks come in between.       *)

LoopFairness ==
  /\ WF_vars(LoopStep)
  /\ WF_vars(CallbackReturns)
  /\ SF_vars(LingerFires)

(* What the liveness properties assume besides: either the bounds of flush *)
(* and shutdown pass, while the sink and the callbacks' promises may hang, *)
BoundsPass ==
  /\ \A c \in Flushes : SF_vars(FlushExpires(c))
  /\ SF_vars(StopExpires)
  /\ SF_vars(StopCloses)
  /\ WF_vars(StopEnds)

(* or the sink answers every batch, and no bound need pass. *)
SinkResponds == WF_vars(SinkAnswers)

FairSpec == Spec /\ LoopFairness
-----------------------------------------------------------------------------
(* Properties.                                                             *)

In(S) == {r \in Records : state[r] \in S}

(* DeliveryStats: "Every submitted record ends in exactly one of sent,     *)
(* dropped or unknown": each counter is the number of submissions in that  *)
(* state, and the submitted ones are these and the outstanding ones.       *)
Accounting ==
  /\ counts["sent"] = Cardinality(In({"sent"}))
  /\ counts["dropped"] = Cardinality(In({"dropped"}))
  /\ counts["unknown"] = Cardinality(In({"unknown"}))
  /\ counts["submitted"] = counts["sent"] + counts["dropped"] + counts["unknown"]
                        + Cardinality(In(Outstanding))

InWork(r) == \E i \in DOMAIN work : work[i].rec = r

(* Where every outstanding record is: no record is in neither #queue nor   *)
(* #inFlight nor on its way to a verdict (#schedule, #run, #deliver,       *)
(* #abandonOutstanding), and the batch in flight is forgotten only when    *)
(* every record of it is terminal.                                         *)
Placement ==
  /\ \A i, j \in DOMAIN queue : queue[i] = queue[j] => i = j
  /\ \A i \in DOMAIN queue : state[queue[i]] = "queued"
  /\ \A r \in Records : state[r] = "queued" =>
       \/ \E i \in DOMAIN queue : queue[i] = r
       \/ stop = "abandoning" /\ InWork(r)
  /\ \A r \in Records : state[r] = "in_flight" =>
       /\ \E i \in DOMAIN inFlight : inFlight[i] = r
       /\ InSection => InWork(r)
  /\ \A i \in DOMAIN inFlight : state[inFlight[i]] \in {"in_flight"} \cup Terminal
  /\ stop # "abandoning" =>
       \A i \in DOMAIN work : state[work[i].rec] \in {"in_flight"} \cup Terminal
  /\ run \in {"idle", "resuming"} => inFlight = <<>>
  /\ work # <<>> => InSection
  /\ stop = "abandoning" => queue = <<>> /\ run \notin {"applying", "settling"}
  /\ linger => run = "idle" /\ queue # <<>> /\ stop = "no"

(* The flushes that count in #drainers. *)
Draining == {c \in Flushes : flush[c] \in {"waiting", "resolved", "expired"}}

(* #drainers is the number of drains not yet ended: the flushes that wait  *)
(* and the shutdown that drains, whichever of them expired in between.     *)
DrainersExact ==
  drainers = Cardinality(Draining) + (IF stop \in {"draining", "drained"} THEN 1 ELSE 0)

(* maxQueueSize bounds the records queued or in flight (#depth), whatever  *)
(* callbacks submit in the middle of a batch.                              *)
DepthBounded == Len(queue) + Len(inFlight) <= MaxQueueSize

(* The sink contract of sink.ts: a batch is never empty, holds at most     *)
(* batchMaxSize records, comes only when the one before it was answered,   *)
(* and never after close().                                                *)
SinkContract ==
  [][inFlight' # inFlight /\ inFlight' # <<>> =>
       /\ inFlight = <<>>
       /\ Len(inFlight') <= BatchMaxSize
       /\ ~SinkClosed]_vars

(* No queued record is forgotten: while the pipeline is idle with records  *)
(* queued, the linger timer is armed; and it never lingers while a flush   *)
(* or a shutdown drains (#schedule, #run's finally block, #drain).         *)
NeverStalled ==
  queue # <<>> /\ run = "idle" =>
    linger /\ stop = "no" /\ \A c \in Flushes : flush[c] # "waiting"

(* flush() "resolves true once every queued record has reached a terminal  *)
(* state": all that were outstanding at the call have, also when it joined *)
(* a shutdown.                                                             *)
FlushTruthful ==
  \A c \in Flushes : \A r \in wanted[c] :
    state[r] \in (IF flush[c] \in {"resolved", "true"} THEN Terminal
                  ELSE Terminal \cup Outstanding)

(* When shutdown() goes on to the callbacks and the sink, nothing is       *)
(* queued or outstanding, and a hung batch that answers later finds nothing *)
(* to do.                                                                  *)
ShutdownAccounts ==
  stop \in {"callbacks", "closing", "done"} => queue = <<>> /\ In(Outstanding) = {}

(* onFailure has been called for every submission that ended dropped or    *)
(* unknown, except one it made itself and the queue had no room for: that  *)
(* one it reads from the SubmitResult.  A submission it made that was      *)
(* queued and fails later is reported like any other.                      *)
FailuresReported ==
  HasOnFailure =>
    \A r \in Records : state[r] \in {"dropped", "unknown"} =>
      r \in notified \/ r \in failedAtOnce

(* With the sink hung, every flush() still returns. *)
FlushEnds ==
  BoundsPass => \A c \in Flushes :
    (flush[c] \in {"waiting", "resolved", "expired", "joining"})
      ~> (flush[c] \in {"true", "false"})

(* With the sink and the callbacks hung, shutdown() still ends, and with it *)
(* every submission has been accounted for.                                *)
ShutdownEnds == BoundsPass => ((stop # "no") ~> (stop = "done"))

(* When the sink answers, every queued record reaches a terminal state,    *)
(* without any flush: the linger timer or a full batch sends it.           *)
RecordsSettle ==
  SinkResponds => \A r \in Records : (state[r] \in Outstanding) ~> (state[r] \in Terminal)

(* When the sink answers, a flush without a bound (timeoutMs above          *)
(* MAX_TIMER_MS sets no timer) ends as well.                               *)
UnboundedFlushEnds ==
  SinkResponds => \A c \in Flushes : (flush[c] = "waiting") ~> (flush[c] # "waiting")

(* Every call the host waits for ends: a flush() with or without a bound, and shutdown(). *)
CallsEnd == FlushEnds /\ ShutdownEnds /\ UnboundedFlushEnds

(* What the caller is promised of a submission, and of a flush. *)
PromisedStatus ==
  [r \in Records |-> IF state[r] \in Outstanding THEN "pending"
                     ELSE IF state[r] = "invalid" THEN "refused" ELSE state[r]]

PromisedAnswer ==
  [c \in Flushes |-> IF flush[c] \in {"resolved", "expired", "joining"} THEN "waiting"
                     ELSE flush[c]]

(* The abstract promise, with the pipeline's state mapped onto it. *)
Contract == INSTANCE DeliveryContract WITH
  Submissions <- Records,
  status <- PromisedStatus,
  asked <- wanted,
  answer <- PromisedAnswer,
  closed <- SinkClosed

(* The pipeline implements DeliveryContract: no submission is relabelled   *)
(* by a late answer, no flush answers TRUE too early, and the sink is      *)
(* closed last.                                                            *)
ImplementsContract == Contract!Spec
=============================================================================
