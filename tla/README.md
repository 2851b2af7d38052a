# A TLA+ verification project for audr

audr is a metering client: an application hands it usage records (Agent Usage
Detail Records), the client validates them, queues them, delivers them in batches
to a billing destination (a *sink*), and accounts for every one of them. The
property everything else serves is stated in `adapters/core/README.md` and in the
documentation of `DeliveryStats`: every submitted record ends in exactly one of
*sent*, *dropped* or *unknown*.

## Inventory

| Part | State it keeps | Operations | What is hard | What makes it correct |
| --- | --- | --- | --- | --- |
| TypeScript core: `adapters/core/typescript/src/{pipeline,client}.ts` | queue, batch in flight, linger timer, count of drains, stop promise, idle waiters, callback promises, counters | `record`, `flush`, `shutdown`, the delivery loop, the callbacks | callbacks that call the client again in the middle of a synchronous section; bounds that pass while a sink hangs; late answers; overlapping flushes | every record settled once, no lost wake-up, truthful `flush` |
| Python core: `adapters/core/python/src/audr/{_pipeline,client}.py` | `asyncio.Queue`, batch in flight, draining event, worker task, running and stopped flags, counters | the same, on asyncio with a worker task | cancellation at every await; one event shared by all flushes; a record held by a task nobody awaits | the same, and an exact task count |
| Records: `validate.ts`, `codec.ts`, `record.ts`, the generated validator and types | none | create, validate, encode, decode, parse | two stages of issues that must not hide each other; values JSON cannot carry; clocks that differ | the verdict blames what is at fault, what is accepted survives the wire |
| File sinks: `file-sink.ts`, `sinks/file.py` | write chain or stream buffer, closed flag | `deliver`, `close` | close during a write; a write that fails half-way and leaves a torn line | what is answered is what the file holds |
| Lago sink: `sinks/lago/typescript/src` | closed flag, abort, per-batch tally | `deliver` in chunks, retries, salvage after 422, `close` | an answer lost after the destination stored the chunk; duplicates inside a batch; abort between attempts | what is answered is what Lago holds |
| Chargebee sinks: `sinks/chargebee/{typescript,python}` | closed flag | `deliver`, one request with retries, 207 partial answers, `close` | failures in a partial answer that cannot be matched; close during a retry delay; label keys that become one name | what is answered is what Chargebee holds; no field of an admitted record is overwritten |
| OpenRouter and Merge Gateway adapters | attribution scopes, metered stream, lookup budget | wrap a client, meter a call or a stream, look a generation up | a stream cancelled while a frame is inspected; two readers; a lookup that outlives its budget; scopes left meanwhile | one verdict per call, billed to where it began, never understated |
| Vercel AI adapter | calls, runs, open tool spans | telemetry hooks | nested calls that outlive their tool; two integrations; ids used again | a run is one account, parents resolve |
| Mastra adapter | open tool spans, delegating ones | span events, shutdown | late, dropped and interleaved span events | billable spans recorded once, tables empty again |
| LiteLLM and NeMo Relay adapters | pending count, waiters, loop bridge, two bounded tables of scopes | callbacks on foreign threads, `drain`, `close` | a loop that closes between scheduling and running; a count taken back without waking anyone; evicted scopes that are still open | `drain` waits for what was accepted and ends; the payer is the one the lineage names |
| `spec/`, `conformance/`, `tools/`, testing helpers | none | build tooling, data, test support | - | not modelled |

How they interact: an adapter calls `Client.record`; the client validates the record
and calls the sink's `deliver` with one batch at a time and its `close` at the end,
and the two user callbacks `onFailure` and `onDelivered` synchronously, from which
the user may call the client again. The sink answers with a `BatchResult`. Shutdown
raises an abort signal that the sink sees while it retries. Adapters for foreign
runtimes bring records from other threads onto the client's event loop.

## Modules

| Module | What it is |
| --- | --- |
| `DeliveryContract` | what the delivery core promises its caller, without saying how |
| `Pipeline` | the TypeScript pipeline behind the client, with the sink, the callbacks and the timers as environment |
| `PyPipeline` | the Python pipeline behind the client, with its worker task, cancellation, the sink and the callbacks |
| `RecordSchema`, `RecordTypes` | the generated validator's schema and the generated record types, as tables |
| `Records` | a record from the caller's object through the validator to the wire and back |
| `FileSink` | the file sinks of both languages over a file system that may fail half-way through a write |
| `SinkEncoding` | how the sinks flatten a record and make an event of it |
| `LagoSink`, `ChargebeeSink` | one delivery, with the destination and the network as environment; both extend `SinkEncoding` |
| `GatewayMeter` | one metered call of the OpenRouter or Merge Gateway adapter |
| `VercelTelemetry` | the Vercel AI adapter's call tracker, for several integrations |
| `MastraExporter` | the Mastra exporter over a forest of spans |
| `ScopeTracker`, `LiteLLMMapping` | what the two Python adapters make of an event |
| `LoopHandoff` | the threads, the event loop and the bridge between them; it extends both mappings |
| `MC...` | the instances for TLC; the `.cfg` files choose bounds and properties. `MCSinkDocs` holds the records both sink instances use; `MCMastraAndFiles` is one instance for `MastraExporter` and `FileSink`, which have nothing in common: its `part` says which of the two a behaviour runs |
| `PipelineProofs`, `PyPipelineProofs`, `ChargebeeSinkProofs`, `LagoSinkProofs`, `LoopHandoffProofs`, `GatewayMeterProofs`, `VercelTelemetryProofs` | the theorems about the module each is named after, with their proofs; `PipelineProofs` also has those about `FileSink`, and `ChargebeeSinkProofs` those about `SinkEncoding`, for both sinks; see Proofs |
| `RecordsProofs` | the theorems about `Records` and about `MastraExporter` |

Operators whose comment begins with "Faulty variant" are plausible bugs of the
definition that follows them. They are used by no specification; putting one in the
place of the definition must break the property it is listed with in
`PROJECT.json`.

The parts meet at two interfaces. At `record()`, an adapter module treats the client
as an observer that takes or refuses a record, and a pipeline module lets any number
of records come at any time. At `deliver()` and `close()`, a pipeline module lets the
sink answer in every way the `Sink` interface allows, and a sink module lets
`close()`, the abort signal or a cancellation come at any moment. So what is shown
of one part does not depend on the part at the other side.

### `Pipeline`: state and steps

JavaScript runs one synchronous section at a time. An action of `Pipeline` is the
code between two awaits, cut where the section calls user code, because
`onFailure` and `onDelivered` run synchronously and may call `record`, `flush` and
`shutdown` from inside. So `#deliver` is cut into the hand-over of the batch
(`StartRun`), the sink's answer (`SinkAccepts`, `SinkFails`, `SinkInconclusive`),
one `Settle` per record of the loops over the batch, `NotifyDelivered`, and the
`finally` block (`EndDeliver`); `work` holds the verdicts the section has still to
apply. `run` is where `#run` stands (`idle` is `#delivering = false`), `stop` is how
far `#stop` has come, `flush[c]` where each call of `flush` is.

`UserInControl` says when user code may call the client: from its own tasks, or
inside a callback. `TimersDue` says when a timer may fire: never while a microtask
is pending. `BoundPasses` is the timer of `settlesWithin`; when it passes is the
environment's choice, which covers every `timeoutMs`, the unbounded one included
(no fairness is then assumed of it).

A submission is one call of `Client.record`; a record submitted again is another
submission. Whether the validator accepts it is an input (`Inputs`), because the
pipeline's correctness does not depend on which records are valid. History
variables (`wanted`, `notified`, `failedAtOnce`) only record what the properties
speak of; no guard reads them. `failedAtOnce` holds the records that a running
`onFailure` submitted and that failed within that very call of `record`, which are the
only ones `pipeline.ts:321` keeps silent about; one that was queued and is lost later
has to be reported like any other.

### `PyPipeline`: state and steps

An action is what one asyncio task does between two awaits, cut again at the
callbacks. The worker's `_collect_batch` is `WorkerGets`, then `GetTaskTakes` (the
inner `get_task` takes a record off the queue in a step of its own), `LingerEnds`
and `GatherEnds`; `Held` is the record that `get_task` has and that no structure of
the pipeline shows. `tasks` is the unfinished count of `asyncio.Queue`, which
`join()` waits for. `CancelPoints` and `DeliveryCancelled` are where the
cancellation of shutdown reaches the worker; the sinks of the repository let it
through, and the model assumes that of any sink. Ready tasks run in any order,
which is more than asyncio's FIFO allows. A second cancellation, of `shutdown()`
while it is already abandoning, is left out.

### `Records`: state and steps

A behaviour takes a sound record of one of two shapes, lets a caller change
properties (`Edit`), and then judges it as `Client.record` or `parseRecord` does,
encodes it, and decodes it at a later time on another clock. The validator is the
compiled schema, `SchemaErrors` over the tables of `RecordSchema`, turned into
issues by the two stages of `validate.ts`. A text is known by the patterns it fits
and by its length, a number by whether it is whole, finite or negative; timestamps
are computed with, because the five minutes a clock may be ahead, offsets and leap
days decide verdicts. `AsJson` is the copy the validator checks: undefined
properties are absent and every object is plain. `TypesHonoured` compares the
generated types with the generated validator, which nothing else in the repository
does.

### `FileSink`: state and steps

`runtime` selects the language. In TypeScript concurrent calls of `deliver` chain
their writes, and one write is one step that may fail after any part of a line. In
Python a delivery writes record by record into a buffered stream within one step of
the loop; a failed flush leaves text in the buffer, which a later one writes. That text
is split between lines only: where Python's stream stops inside a line, the rest of the
line is the next text it writes, and the model leaves that state out. A line of the file
is the sequence of records whose text it holds.

### `LagoSink` and `ChargebeeSink`: state and steps

Each models one call of `deliver()` for a batch from a set of small batches, which
contain records of one id that are alike or differ, and records that cannot be
sent. What the destination holds before the call is arbitrary, so a behaviour
stands for any delivery of a sequence, replays included. An action is the code from
one answer to the next request. The destination handles a request in a step of its
own (`LagoHandles`, `ChargebeeHandles`), before, after or without its answer
reaching the sink, and a request that the sink gave up may still arrive
(`LagoHandlesLate`, `ChargebeeHandlesLate`).

`LagoSink` has the preflight of the batch, which judges one record in each step and
keeps its two results as sets of positions and ids, the chunks (positions by their
`Rank` among the events), the attempts, the resends of
the survivors after a 422 and the `Tally`. Lago ingests a request as a whole or not
at all; on a Postgres store a repeated event is refused, on ClickHouse it is not.
The `internal_error` path of `deliver` is unreachable from these inputs and not
modelled.

`ChargebeeSink` has one request with its attempts and the reading of a 207, keeps the
events as the set of positions they come from, and stands for both languages: `runtime`
selects how `close()` ends a request, and the cancellation that only Python has.
Chargebee judges every event on its own.

`SinkEncoding` makes the events. A record is the sequence of its leaves, and a key is
a sequence of words and punctuation with each underscore by itself, so that the
joining of paths and the rewriting of labels are what they are in the code and two
paths may really become one name. Only `labels` and the extensions (`x_...`) of
`usage.llm`, `usage.tool` and `cost.tool` have keys that the schema leaves open
(`OpenObjects`), and the instance has records whose keys there spell other paths
(`spelled`, `doubled`). Chargebee's two implementations agree on every
step of it. The separator is the default one. Of the record's own id only its shape
is in the record: which records of a batch share an id is the batch's `id`.

Credentials are not modelled. A retry delay is only its end, so every delay and
every `Retry-After` is covered.

### `GatewayMeter`: state and steps

One native call, because a `Meter` keeps nothing between calls. The host enters and
leaves `withAudr` scopes at any time; `scope` is what the current context holds,
computed scope by scope from the one around it as `withAudr` does, and `entered` only
remembers the way there; `began` is what `#begin` captured. An answer
comes at once or as a stream of frames, which the host reads, cancels, leaves or
opens a second time while a frame is still being inspected. The inspectors gather
what each frame tells; the lookup asks, backs off and asks again by a clock of ticks
on which every timer may fire `Late`, the one of a sleep and the one that aborts a
request (`AbortSignal.timeout`, `lookup.ts:101`; `RequestTakes`). `LookupBounded` is
still the budget and the lateness of one timer, because what remains is computed anew
from the deadline before each request and each sleep: a late sleep shortens the request
that follows, and past the deadline nothing is asked again. Bodies and facts may leave out any part of the cost
or the counters, and give nulls, so that what is reported can be compared with what
the call really cost (`Charge`, `Upstream`, `Prompt`, `CacheRead`).

### `VercelTelemetry` and `MastraExporter`: state and steps

Every hook and every exported event runs to its end without an await, so each is one
action; which comes when is up to the AI SDK and to Mastra. `VercelTelemetry` keeps
the calls, runs and tool spans of two integrations, and the async contexts in which
tools run, so that a call made inside a tool finds its parent; calls may outlive
the tool and the call they began in, and a tool call id may be used again. The SDK's
side of a call is `host[c]`. Each execution of a tool has a number of its own, in
`running` while it is under way, by which a record and the calls made inside the tool
are known to be of one execution.
`MastraExporter` takes forests of up to four spans; a start may be dropped, a child
may outlive its parent, and shutdown clears the tables at any moment.

### `ScopeTracker`, `LiteLLMMapping` and `LoopHandoff`: state and steps

The mappings are pure functions of the event and of the tracker's two bounded
tables. `LoopHandoff` cuts a thread where it takes or releases the bridge's lock or
reads what another thread may change, and the loop at its awaits: a record is
`counted` under the lock, `scheduled` on the loop, then `recorded`; in between the
loop may close, the plugin may be closed or registered again, and drains may wait,
share a future, or time out. `wanted` and `accepted` are history: what the bridge that a
`drain()` found had accepted when it was called, and what any bridge of the plugin had.
Both bridges are the same code, so one module stands
for both adapters and `adapter` selects the mapping.

## Runs

| Run | Question | Bounds |
| --- | --- | --- |
| `pipeline_safety` | Do overlapping flushes, a shutdown and callbacks that call back ever strand a record, lose a wake-up, miscount, answer too early, or break the contract? | 3 records, 2 flushes, queue 2, batch 2 |
| `pipeline_liveness` | Do flush and shutdown end although the sink and the callbacks hang (`CallsEnd`)? Is every record settled if the sink answers (`RecordsSettle`)? | 2 records of every kind, 1 flush |
| `py_pipeline` | The questions of both for Python, with raising and misanswering sinks and cancellation: exact counters (`Accounting`, `QueueSound`), truthful answers (`LossesKnown`), `SinkContract`, `EverythingEnds` | 3 records, 1 flush, queue 2, batch 2 |
| `py_held` | Does every admitted record end? No: see Findings | 2 records, 1 flush |
| `records` | Does the validator blame exactly what is at fault (`VerdictExact`), does what it accepts survive the wire (`RoundTrip`), is what compiles ever rejected for its shape (`TypesHonoured`)? | both shapes, every property changed once, those that decide the shape twice; clocks 0, 5 and 6 minutes ahead, 1 minute of delay |
| `lago_deliver` | Does preflight send exactly the sound records, whole (`PreflightExact`)? Does what the sink answers agree with what Lago holds (`OutcomesTrue`)? Does it end, and stay quiet after `close()` (`EndsQuietly`)? | batches of up to 3 records, and one of 4 that takes 2 requests; each of 29 records by itself; 2 attempts, 2 passes, requests of 3 |
| `chargebee_deliver` | The same for both Chargebee sinks, and: does the event of a record the schema admits hold every field of it (`EventsFaithful`)? | batches of up to 3 records, each of 29 records by itself; 2 attempts |
| `gateways` | Is a metered call reported once (`OneVerdict`), at all (`NoSilentLoss`), to the scopes it began in (`BilledToStarter`), with its whole cost or none (`RecordTruthful`), within the lookup's budget (`LookupBounded`)? | 2 frames, 2 nested scopes, budget 3 ticks, timers 1 tick late |
| `vercel` | Is nothing billed twice (`NothingTwice`), is a run one account (`RunCoherent`), is a parent the span its tool's record bears (`ParentsResolve`)? | 3 calls, 2 integrations, 2 tool call ids, 2 events, 2 executions |
| `mastra_and_files` | Are exactly the billable spans recorded (`RecordsExact`), and do the tables keep nothing (`NoResidue`)? Is what a file sink's `deliver()` answered what the file holds (`FileTruthful`)? | up to 4 spans, 1 shutdown; 4 batches, 6 records, 2 failures |
| `handoff` | Is the bridge's count exact and every waiter woken (`HandoffsExact`, `DrainsEnd`), and is a record billed to the payer its lineage names (`RecordsTrue`)? | 1 tracked scope, 2 pending handoffs, 2 drains, 2 activations |
| `drain_complete` | Does NeMo Relay's `drain()` wait for every accepted handoff? No: see Findings | as `handoff`, 1 drain |

The bounds let the interesting cases happen: a queue of two against three records
fills while a batch is in flight; a batch of two makes full, partial and lingering
batches differ; two flushes and a shutdown overlap in every order. Two attempts give
a lost answer followed by any other, two passes a second 422 after positions have
shifted, and a request of three (for `MAX_EVENTS_PER_REQUEST`, 100) a batch that
needs a second one. A budget of three ticks allows two retries of a lookup and a
late one; a table of one scope makes both of the tracker's tables overflow in a run
of three scopes; three calls give a call nested in a nested call; two failures of
the file system tear two lines. In `handoff` drains come only in the inputs with
several handoffs (`FocusedSpec`), which are enough for a drain to overlap with
every step of a handoff, and keep the other inputs small.

Deadlock is not checked because behaviours end: every submission and every flush of the
instance is used up, and `deliver()` returns. Symmetry over records and flushes is used
in `pipeline_safety`, and over tool call ids in `vercel`; the batches of the sink runs
are taken up to a renaming of ids, and in `PyPipeline` records are submitted in the
order of their numbers (`OrderedSpec`).

**Fairness.** `LoopFairness` of the pipelines says that the event loop runs what is
due and that user callbacks return: weak fairness of a pending microtask or ready
task, strong fairness of the linger timer, which is due again and again though other
work comes between. Nothing is assumed of the sink or of the promises callbacks
return. The properties that need more say so in their antecedent: flush and
shutdown end if their bounds pass (`BoundsPass`), records settle if the sink answers
(`SinkResponds`). The sinks assume that a request ends (each has a timeout) and that
a delay does. `LoopHandoff` assumes that a thread which has counted a record goes on
to schedule it and that the loop, while it is open, runs what is scheduled and
resumes a drain that was woken; it assumes nothing of timeouts. The other modules
state safety properties only: what an adapter does, it does within one call of its
host.

## Proofs

TLC checks the instances above; the theorems hold for every value of the constants
that meets the module's assumptions. Each is `Spec => []Property` with the property
a run checks, except the refinement, the action properties and `LagoEncodingExact`, and each rests on an
inductive invariant that is the conjunction of named parts. There is one lemma for
each kind of step, so that a part is looked at only where a step can disturb it.

| Theorem | Property | Rests on |
| --- | --- | --- |
| `PipelineProofs!TypeCorrect` | `TypeOK`, `DrainersExact` | each other |
| `RecordsPlaced`, `FlushesTrue`, `ShutdownComplete` | `Placement`, `FlushTruthful`, `ShutdownAccounts` | `PlaceInv` |
| `NoLostWakeup` | `NeverStalled` | `WakeInv` |
| `FileSinkTruthful` | `FileTruthful` | `FileInv` |
| `FailuresHeard` | `FailuresReported` | `TypeOK` |
| `ContractImplemented` | `ImplementsContract` | `PlaceInv` |
| `QueueBounded`, `SinkContractKept`, `CountersExact` | `DepthBounded`, `SinkContract`, `Accounting` | `TypeInv`, `PlaceInv` |
| `PyPipelineProofs!PyQueueSound`, `PySinkContract`, `PyLossesKnown`, `PyAccounting` | `QueueSound`, `SinkContract`, `LossesKnown`, `Accounting` | `Inv` |
| `ChargebeeSinkProofs!ChargebeeOutcomes`, `ChargebeeQuiet` | `OutcomesTrue`, `ClosedIsQuiet` | `SinkInv`, `QuietInv` |
| `ChargebeeEventsFaithful` | `EventsFaithful` | `SinkInv`, `EventIsFaithful` |
| `LagoEncodingExact` | `EncodingExact`, for records the schema admits | `FoldFills`, `PlacedAlike` |
| `LagoSinkProofs!LagoOutcomes`, `PreflightCorrect`, `LagoQuiet` | `OutcomesTrue`, `PreflightExact`, `ClosedIsQuiet` | `SinkInv`, `QuietInv` |
| `GatewayMeterProofs!StarterPays`, `RecordsTruthful`, `VerdictOnce`, `NothingLostSilently`, `LookupKeepsBudget` | `BilledToStarter`, `RecordTruthful`, `OneVerdict`, `NoSilentLoss`, `LookupBounded` | `MeterInv` |
| `LoopHandoffProofs!HandoffsCounted` | `HandoffsExact` | `HandoffInv` |
| `RecordsBilledTrue` | `RecordsTrue` | `HandoffInv`, `RecordInv` |
| `RecordsProofs!SpansRecorded`, `TablesEmptied` | `RecordsExact`, `NoResidue` | `MastraInv` |
| `RecordsSurviveTheWire` | `RoundTrip` | `RecordsInv` |
| `RecordTypesHonoured` | `TypesHonoured` | `RecordsInv`, `TypesMatch` |
| `RecordVerdictExact` | `VerdictExact` | `RecordsInv`, `InspectExact` |
| `VercelTelemetryProofs!NothingBilledTwice`, `RunsCoherent`, `ParentsFound` | `NothingTwice`, `RunCoherent`, `ParentsResolve` | `VercelInv` |

**`Pipeline`.** The drain counter needs the equality with the number of draining
flushes: without it `drainers - 1` cannot be shown to be a natural number. `Placement`,
`FlushTruthful` and `ShutdownAccounts` are inductive only together: a flush is truthful
when the idle waiters resolve because `Placement` says that an empty queue and no batch
leave nothing outstanding; it is truthful when it joins a shutdown because of
`ShutdownAccounts`; and that one follows from the part of `Placement` that says the
abandon loop has every outstanding record in `work`. `FailuresReported`
is inductive by itself, given the types.
The refinement has one lemma per step of the contract, the rest stutter. `CountMoved`
says how a count of records changes when one record moves; `CountersExact` follows for
all counters at once. Assumed are options that the constructor accepts and finite sets
of records and flushes (`OptionsAssumption`, `FinitenessAssumption`,
`InputsAssumption`).

**`PyPipeline`.** `Inv` says where each record is: queued in the queue, in flight in
the worker's batch, or held by `get_task`, which holds one at most and only for a worker
that lingers or was cancelled while it did. From that the unfinished count of
`asyncio.Queue` is exact, and it is never below zero when `task_done` is called. The
batch keeps records that already have a verdict, which is why `WorkInv` tells how far
the loop over it has come. `PyAccounting` follows as `CountersExact` does, and
the assumptions are the same.

**`FileSink`.** Its theorem is in `PipelineProofs`. `ChainInv` says that the chain holds
exactly the deliveries without an answer, in the order in which they were asked for, and
that none asked for after one of them has reached the file. `TextInv` says where the text
of a batch lies: an accepted batch is in `file`, whole and in its order, and behind those
that were asked for and accepted before; of a batch that waits, or was refused for good,
nothing is in `file` or `buffer`. A line is torn only by a failure, so there are no more
torn lines than failures. Assumed is that the batches are sequences without a common
record (`BatchShape`).

**The sinks.** In both, `stored`, `refusable` and the requests that may still arrive are
related to what `deliver` has concluded so far: Chargebee's `HeldInv` and `AnswerInv`
for one request, Lago's `HeldInv` for the chunk under way, those before it and the ids
in doubt (`unsure`). Lago needs `SendInv` too: what is confirmed lies in the chunks up to
the current one and is no longer in the request, else a survivor of a 422 might be sent
after it was confirmed. `LoopInv` is the loop invariant of preflight; that each id has a
first record is a part of it, because it would otherwise take induction over the batch.

What a sink makes of a record is a statement about an algorithm, proved for both sinks
by induction on the leaves of a record (`FoldFills`, with the loop's invariant
`Filling`: one property for each field so far, in its place, and no name twice). That
nothing is overwritten needs that two fields never get one name, of any record the schema
admits (`Admitted`). Where no key holds a separator (`Plain`), a joined path can be read
back key by key from its end (`LastKeyIs`), so unlike paths have unlike names
(`PlainNamesTell`). The keys of the open objects may hold separators and spell any path,
as label `b__json` does or the extension `x_a__b` beside `x_a`; but their fields lie
beneath two plain keys, no other object does, and they are never arrays, so a name is read
from its start (`FirstKeyIs`, `LongPathIs`) and the third key is all that remains
(`OpenNamesTell`). `NamesTellPaths` puts the two together. Paths that only
Chargebee's rewriting of labels makes alike are refused (`ApartAsPaths`, from
`LabelsCollide`); and the name of an array, which ends with `json`, is no other field's
name, because none of a record's leaves lies beneath another (`IsRecord`,
`JsonNameIs`). Assumed is that each document is such a record (`DocsAssumption`).

`PreflightCorrect` assumes `EncodingExact`: a record's event is faithful, and two
records have equal events just when they are alike. `LagoEncodingExact` proves that of
all records that the schema admits and whose values can be told apart (`SoundRecord`): a property tells the leaf it was made of (`PropertyTells`), and lists
that keep the order of the fields are equal when their elements are (`PlacedAlike`).
It is a theorem of its own because it needs the lemmas of `ChargebeeSinkProofs`, which
`LagoSinkProofs` cannot extend: both sinks call their variables and steps the same.
TLC evaluates `EncodingExact` on the records of the instance (`DocsAssumption` of
`MCLagoSink`), of which one, `overwritten`, the schema does not admit.

**`GatewayMeter`.** `SumsUp` relates the scope of the current context to the scopes
that were entered: each field comes from the innermost one that gives it, and the parent
from the run around. It stands in for an induction over the nesting. `VerdictInv` and
`ToldInv` say which of a record, a report of an incomplete stream and a diagnostic a
call has had, by whether its stream is open, was cut, or waits for the lookup;
`WorkInv` that the lookup keeps only what is true of the call; `BudgetInv` that a sleep
began with enough of the budget left. Assumed are true answers of the gateway that may
leave out anything (`Answers`) and scopes with the fields the adapter knows (`Scopes`).
`LookupOptions` allows any budget of a tick or more, and any delays.

**`LoopHandoff`.** `CountInv` says that a bridge counts what it owes, while its lock
is free or held. A drain that waits, waits for nothing but scheduled handoffs of its own
bridge (`WaitInv`), and one that was woken has nothing left to wait for (`WokenInv`):
between the waking and the return more events may come, which is why `wanted` is part
of it. What the events are mapped to does not matter for `HandoffsExact` beyond the kind
of the result (`EndKinds`, `CallbackKinds`).

`RecordsTrue` is about the mappings. The starts and ends of a trace, in the order in which
the mapping saw them, are a sequence (`History`), and the tables are related to it
(`Holds`): the tracked scopes are those that are open and were not evicted, in the order of
their starts; the evicted ones were the oldest that were open; the retired ones are the last
scopes to leave; and what is kept of a scope is what its start said. The payer that the
property names is a recursion over the lineage and what the tracker keeps is the result of
a merge at each start, so that they agree is shown from `PayerIs`, by induction on the moment of the start, and from
`PayerStays`: more events change no payer of the past. A scope
whose parent was evicted or forgotten is why the invariant speaks of the order of the
losses. For LiteLLM there is no lineage: a record is compared with the callback it came
from (`CallbackRecord`). Assumed are scopes, calls and options of the shape the adapters
give (`HandoffOptions`, `TrackerOptions`).

**`MastraExporter`.** The tables `open` and `delegating` are related to the history of
the trace's events (`TablesInv`), so that the spans that end are those whose starts were
seen; `EndsInv` and `BilledInv` relate the records to the ended spans, once each. The
assumptions are on the forest: parents are spans, usages are counters, and what a usage
gives of its prompt adds up to no more than it (`UsageTrue`).

**`VercelTelemetry`.** `VercelInv` says of every tracked call, active span and record
what run it is on the account of (`Coherent`), where its parent span is (`Placed`), that
a tool span is open exactly while its execution is under way (`CallOK`), that the spans
given away lie below the counters and are not open (`Issued`), and that an active span is
the one its execution has open or was recorded with (`ActiveOK`). All hooks but the
first and the last of a call are one kind of step, `HookStep`, for which the invariant is
shown once. Assumed are finitely many integrations and reports whose parts add up to no
more than the prompt (`SourceShape`, `UsageTrue`).

**What the attempts changed in the models.** Some were found too coarse, or wrong, or
beyond reasoning:

- `VercelTelemetry` knew a tool execution by the count of executions when it ran, which
  two tools that run at once share; `ParentsResolve` is false of that with two tool
  call ids. Executions are now numbered as they start, and the run has two ids.
- `PyPipeline` took a record that the loop over the batch settles for released while its
  callback still ran, so `Depth` was one too small then, and a `record()` from that
  callback could be admitted where the code drops it.
- `GatewayMeter` computed the scope of a call by a fold over those entered; it now keeps
  the scope, as the code does.
- `LagoSink` judged a batch in one step by folds, of which nothing can be proved;
  preflight is now the loop it is in the code, during which nothing else happens (hence
  the guards of `Close` and `Abort`).
- `MastraExporter` stated nothing of the usages and attributions a forest may have.
- `FileSink` and `SinkEncoding` did not say that batches share no record and that a
  document's leaves lie beside each other, which their properties need.
- `ScopeTracker` and `SinkEncoding` computed by filters and folds over sequences, of
  which little can be proved; they now do what the code's loops do, one element at a
  time, and TLC finds the same states.
- In `Records` the faults of a record were one long condition; `OwnFaults` and `Misfits` are
  now unions of named parts, with the same values, and the assumption on the clock covers the
  minutes that an event may be ahead of it.
- `Records` did not say what an object is; it summed the days of the months by a fold,
  where it now has the table of days before each month; an error named the property it
  is about by a name that could be empty, where it now has the path beneath its value; and
  `WellTyped` asked nothing of the class of the outermost object, whose other parts have to
  be plain objects too.

**`Records`.** `RecordsInv` says what a record is at each stage: a client holds plain JSON
that the validator finds nothing in at the present time, `parseRecord` a copy of which JSON
would be. That what was accepted is accepted again rests on four lemmas. The validator masks
errors, at a value of the wrong type and for the sinks' own property, and still no error of
an accepted record is among them (`NoError`). So each of its properties has a schema and
keeps to it, and each value is a text, a finite number or an object with a table of its own,
by induction on the length of its path through the tables (`TablesWithin`, `AllSorted`);
hence JSON has it all (`WireSame`). An object that is no plain one has no properties left in
the copy, and every table but that of the labels demands one, by its own keywords, by the
operation (`UsageHas`) or by the rules in prose (`EmptyIsLabels`); so labels are all that
`encodeRecord` can refuse (`RefusedLabels`). And what was no future then is none later
(`LaterSound`), for which the calendar is needed only so far as its moments are numbers.
Assumed are objects that are trees of values with an event time that is a text or a date
(`ObjectsAssumption`), and a clock that stays within an hour, as does one that is five
minutes ahead (`ClockAssumption`).

`TypesHonoured` compares two sets of tables, `RecordTypes` and `RecordSchema`. `TypesMatch`
says that an interface and the table of the same object agree, property by property: what
the one admits, the other does not find of the wrong type or outside its words
(`TableFits`), and it requires all that the other requires. The rest is how an object that
compiles comes to the validator: the copy has an object of the same type wherever the
original has one (`CopyShaped`), with the client's emitter or without (`StampedTyped`), and
every kind of error gives a code that is allowed (`IssueAllowed`).

`VerdictExact` compares what the validator reports with what is at fault, path by path.
The validator walks the schema and asks at each place for errors of every keyword; what it
should report is stated for the object as a whole, by tables and without the walk. That no
report is unfounded rests on `Tells`: an error of each keyword names a place that one table
governs (`OneSchema`) and a fault of that place. That no fault is passed over takes two steps:
every fault has an error (`FaultBlamed`), and it is not masked, because a value of the wrong
type has no error but that one (`TypeAlone`, `TypeOnce`). The conditions and the rules in
prose are only reached by an object none of whose parts is at fault (`Faultless`), whose
values are therefore of the kinds the tables ask for; what the conditions then report
(`BranchErrorsAre`, `ConditionalAre`) and what the prose does (`ProseAre`) are together what
does not go together (`Misfits`, `MisfitsAre`). The only arithmetic is that of the five
minutes: a moment is in the future when it is after what the clock shows five minutes on
(`ClockShows`, `FutureIs`).

**Induction over data.** The library's induction theorems take an operator as a
parameter, which the provers cannot instantiate. `SetInduction` (in `ChargebeeSinkProofs`,
`LoopHandoffProofs` and `RecordsProofs`) replaces them: a set of numbers that holds each number all of
whose predecessors it holds, holds all of them, from the well-foundedness of `<`. That a
recursive function is the function it describes follows from it (`RecursionIs`). It is
why the recursions that the proofs speak of are functions over an interval, and why the
tables of the tracker are cut by `Tail` and `RemoveFirstMatch` rather than by a filter.

**Only model-checked.** Liveness (`CallsEnd`, `RecordsSettle`, `EverythingEnds`,
`EndsQuietly`, `DrainsEnd`): the proof system treats neither fairness nor ENABLED here.
`EncodingExact`, the hypothesis of `PreflightCorrect`, is TLC's for a record the schema
does not admit; for the others it is `LagoEncodingExact`. Every invariant that a passing run checks is stated by a theorem.

## Findings

Two disagreements of the code with its documentation are runs that TLC must find
violated:

- `EveryRecordEnds` (`py_held`): a record that `get_task` has taken when shutdown
  cancels the worker ends in no terminal state and is not reported
  (`_pipeline.py:319`), against `results.py:76`. `ShutdownMissesHeld`, a part of
  `LossesKnown`, shows that at most this one record is missed.
- `DrainComplete` (`drain_complete`): after a second `register()` of the NeMo Relay plugin
  was refused, the plugin knows no bridge any more, and `drain()` returns at once
  (`_plugin.py:123`) though handoffs that the first bridge accepted are still scheduled,
  against `_plugin.py:117`. `HandoffsExact` is what does hold: a drain that returned has
  waited for all that the bridge it found had accepted.

Others met while modelling. The models follow the code, and the properties say what
does hold:

- `Client.record` rejects an object that `structuredClone` cannot copy without
  calling `onFailure` (`client.ts:134-140`), while the comment above it says that
  every invalid object is reported (`client.ts:127`).
- When one Python flush ends it clears the event another relies on
  (`_pipeline.py:313`), and the worker lingers, while `flush` promises to deliver
  "now" (`_pipeline.py:138`).
- A Python flush called while shutdown drains answers `True` with records
  outstanding (`_pipeline.py:144`), against `_pipeline.py:140`. No property covers that
  flush: `RunningFlushTruthful` is about those called while the pipeline runs.
- A permanent refusal after an attempt whose answer was lost reports as refused what
  Lago may hold (Lago `sink.ts:184`, against `docs/reference.md:248`).
- The local rejections of a Chargebee batch are lost when its request fails
  (`sink.ts:101`, `_sink.py:118-121`, against `docs/reference.md:79`).
- Property names are "reversible" (`sinks/chargebee/typescript/README.md:87`, Python's
  `:91`) and map back to one field for every record the schema admits (`Faithful`), also
  where a label or an extension spells a path. The sinks do not validate, though: an
  object with a key such as `x_a__b` beside an object `x_a`, in a place the schema closes,
  loses a field without a word (`overwritten`). `Client.record` lets none through.
- An instant before 1970 whose milliseconds take twelve digits and a sign passes
  the check for a "13-digit epoch-millisecond value" (`event.ts:47`,
  `_event_validation.py:62`).
- `parseRecord` accepts labels that are no plain object, which `encodeRecord` then
  refuses (`codec.ts`); `RoundTrip` excepts them.
- NeMo Relay's `docs/reference.md:40` says that a child of an evicted scope is never
  billed to the defaults; once `max_tracked_scopes` further scopes have been retired
  the parent is forgotten (`_mapping.py:281`) and it is. `RecordsTrue` says "and
  still knows it".
- Metadata with `{"audr": null}` counts as declaring an attribution, so such a scope
  does not inherit its parent's.
- The message of `drain()` says that `close()` discards handoffs, though the scheduled
  ones still run.

## Plan

1. (done) the TypeScript core, its contract, its proofs;
2. (done) the Python core, and where it and its documentation disagree;
3. (done) the sinks, with their encoding;
4. (done) the adapters;
5. (done) the records: validator, types, wire;
6. (done) proofs about the core in both languages, the file sinks, a record's verdict, types
   and wire, the Chargebee and Lago sinks and their encoding, the bridge and its mappings,
   the gateways, Mastra and Vercel.

## Not modelled, and why

- Python's record validation: the same rules over pydantic models; the repository
  checks it against the TypeScript package by shared conformance vectors.
- `scripts/gen-schema.ts`, `spec/`, `conformance/`, `tools/`: build tooling and data.
  The generator's output is modelled.
- HTTP transports beyond what ends a request: I/O, the sinks' environment.
- Credentials, configuration parsing, text of messages and logs, Chargebee's
  separator option.
- The testing helpers: they are for users' tests, not part of the running system.
- In Python, a second cancellation of `shutdown()` while it already abandons.
