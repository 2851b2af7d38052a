---------------------------- MODULE GatewayMeter ----------------------------
(* The gateway adapters: an instrumented OpenRouter or MergeGateway client     *)
(* meters one native call, from withAudr scopes through the metered stream and *)
(* the generation lookup to client.record().  A Meter keeps no state between   *)
(* calls, so one call shows everything; the host, the gateway and the clock    *)
(* act on it in any order.                                                     *)
EXTENDS Naturals, Sequences, FiniteSets, FiniteSetsExt

CONSTANTS
  None,          \* undefined
  Null,          \* JSON null, which Merge Gateway tells from undefined
  Contexts,      \* what the host passes to withAudr
  DefaultSets,   \* the attributionDefaults a host may configure
  Bodies,        \* response bodies and stream frames, as far as they are read
  FactSets,      \* answers of getGeneration
  MaxWait, InitialDelay, MaxDelay, \* the lookup options, in ticks
  Late,          \* how late a timer may fire, in ticks
  MaxFrames,     \* bound: frames of one stream
  MaxDepth,      \* bound: nested withAudr scopes
  Charge, Upstream, Prompt, CacheRead \* what the call really cost and read

ASSUME LookupOptions ==
  /\ MaxWait \in Nat \ {0} /\ {InitialDelay, MaxDelay} \subseteq Nat
  /\ {Late, MaxFrames, MaxDepth} \subseteq Nat

(* A run, as far as it is read: name is treated as parent_span_id is. *)
Named == {context \in Contexts : context.run # None}

Runs ==
  [id : {context.run.id : context \in Named},
   parent : {None} \cup {context.run.parent : context \in Named}]

ASSUME Scopes ==
  /\ \A context \in Contexts : context.readable \in BOOLEAN
  /\ \A context \in Named : context.run \in Runs
  /\ None \notin Runs

Flags == {None, "yes", "no"}

(* What an answer says of n: all of it, or nothing.  Merge Gateway reports a counter that it
   cannot count as null. *)
Says(n) == {n, None, Null}

(* The fields read from an answer, which is true of the call as far as it goes. *)
IsBody(b) ==
  /\ b.id \in {None, "gen", "gen_long", "resp"} /\ b.model \in {None, "m"}
  /\ b.usage \in BOOLEAN /\ b.isByok \in Flags
  /\ b.status \in {"completed", "failed", "incomplete"}
  /\ b.cost \in Says(Charge) /\ b.upstream \in Says(Upstream) /\ b.prompt \in Says(Prompt)
  /\ b.cacheRead \in Says(CacheRead) \cup {0}
  /\ \E written \in 0..(Prompt - CacheRead) : b.cacheWrite \in Says(written)
  /\ b.metadata # None => b.metadata.isByok \in Flags

(* What a lookup may supply. *)
IsFacts(f) == f.cacheHit \in BOOLEAN /\ f.isByok \in Flags /\ f.upstream \in {Upstream, None}

ASSUME Answers ==
  /\ {Charge, Upstream, Prompt} \subseteq Nat /\ CacheRead \in 0..Prompt
  /\ \A b \in Bodies : IsBody(b)
  /\ \A f \in FactSets : IsFacts(f)

VARIABLES
  setup,      \* how the facade was built: adapter, defaults, lookup budget
  truth,      \* the gateway: what really served the call
  scope,      \* the Scope that AsyncLocalStorage keeps for the host
  phase,      \* where measure() is
  call,       \* the Call that #begin resolved, or None
  open,       \* meterStream: the stream still awaits its record
  reader,     \* meterStream: the iterator that holds the native stream
  failure,    \* iterate: an error frame was seen
  router,     \* #inspectChat: metadata of an earlier chunk
  failed,     \* #inspectChat: an earlier chunk reported an error
  left,       \* frames the native stream may still bring
  work,       \* the record that waits for a lookup, or None
  log,        \* records the client queued
  diags,      \* diagnostics logged, without the next
  incomplete, \* reasons of the STREAM_INCOMPLETE diagnostics
  entered,    \* history: the contexts of the scopes the host runs in, outermost first
  began,      \* history: entered when the call started
  seen,       \* history: the host was handed the usage
  held,       \* history: ticks the lookup kept the result from the host
  interrupted \* history: cancel() or a second reader came during a lookup

streamVars == <<open, reader, failure, router, failed, left>>

outVars == <<log, diags, incomplete>>

host == <<scope, entered>>

vars == <<setup, truth, host, phase, call, streamVars, work, outVars, began, seen, held, interrupted>>
-----------------------------------------------------------------------------
(* withAudr scopes.                                                        *)

Or(value, otherwise) == IF value = None THEN otherwise ELSE value

(* Labels are fields too: they merge by key. *)
MergeAttribution(base, override) == [f \in DOMAIN base |-> Or(override[f], base[f])]

NestRun(outer, run) ==
  IF run = None THEN outer
  ELSE [run EXCEPT !.parent =
          Or(@, IF outer # None /\ outer.id = run.id THEN outer.parent ELSE None)]

(* A context that cannot be read leaves the outer scope in effect. *)
Nest(outer, context) ==
  IF ~context.readable THEN outer
  ELSE [attribution |-> MergeAttribution(outer.attribution, context.attribution),
        run |-> NestRun(outer.run, context.run)]

(* EMPTY, which is in effect outside of every withAudr. *)
NoScope == [attribution |-> [f \in DOMAIN setup.defaults |-> None], run |-> None]
-----------------------------------------------------------------------------
(* What is read from a result.                                             *)

Zero(n) == IF n \in {None, Null} THEN 0 ELSE n

Num(n) == IF n = Null THEN None ELSE n

Exclusive(total, part) ==
  IF total \in {None, Null} THEN None ELSE IF total > part THEN total - part ELSE 0

(* The first available endpoint that is selected and has a provider. *)
ReadRouter(metadata) ==
  IF metadata = None THEN None
  ELSE LET chosen == SelectSeq(metadata.available,
                               LAMBDA e : e.selected /\ e.provider # None)
       IN [provider |-> IF chosen = <<>> THEN None ELSE Head(chosen).provider,
           isByok |-> metadata.isByok]

Counters(body) ==
  [input |-> Exclusive(body.prompt, Zero(body.cacheRead) + Zero(body.cacheWrite)),
   cacheRead |-> Num(body.cacheRead), cacheWrite |-> Num(body.cacheWrite)]

Economics(body) == [charge |-> Num(body.cost), upstream |-> Num(body.upstream)]

Observation(body, found, usage, errorCode) ==
  [id |-> body.id, model |-> body.model,
   provider |-> IF found = None THEN None ELSE found.provider,
   isByok |-> Or(body.isByok, IF found = None THEN None ELSE found.isByok),
   charge |-> Economics(body).charge, upstream |-> Economics(body).upstream,
   usage |-> usage, errorCode |-> errorCode]

ChatObservation(body, fallback, errorCode) ==
  IF ~body.usage THEN None
  ELSE Observation(body, Or(ReadRouter(body.metadata), fallback), Counters(body), errorCode)

ResponsesObservation(body, errorCode) ==
  IF ~body.usage THEN None
  ELSE Observation(body, ReadRouter(body.metadata), Counters(body), errorCode)

(* Embeddings carry no router metadata and no cache counters. *)
EmbeddingsObservation(body) ==
  IF ~body.usage THEN None
  ELSE Observation(body, None,
         [input |-> Num(body.prompt), cacheRead |-> None, cacheWrite |-> None], None)

StatusErrorCode(status) ==
  IF status \in {"failed", "incomplete"} THEN status ELSE None

TerminalErrorCode(type) == IF type = "completed" THEN None ELSE type

IsTerminalType(type) == type \in {"completed", "failed", "incomplete"}

(* Merge Gateway: cache reads that are null cannot be taken out of the input. *)
ResponseUsage(body) ==
  IF body.cacheRead = Null THEN [Counters(body) EXCEPT !.input = None] ELSE Counters(body)

EmbeddingUsage(body) == [input |-> Num(body.prompt), cacheRead |-> None, cacheWrite |-> None]

ToCost(body) == Num(body.cost)

NeedsLookup(observed) ==
  \/ observed.provider = None
  \/ observed.isByok = None
  \/ observed.isByok = "yes" /\ observed.charge # None /\ observed.upstream = None

ServedProvider(observed, facts) ==
  IF facts # None /\ facts.cacheHit THEN "openrouter"
  ELSE Or(observed.provider, IF facts = None THEN None ELSE facts.provider)

(* Faulty variant: an unknown BYOK status counts as none. *)
ResolveCostAssuming(charge, isByok, upstream) ==
  IF isByok # "yes" THEN [cost |-> charge, incomplete |-> FALSE]
  ELSE IF charge = None \/ upstream = None THEN [cost |-> None, incomplete |-> TRUE]
  ELSE [cost |-> charge + upstream, incomplete |-> FALSE]

ResolveCost(charge, isByok, upstream) ==
  IF isByok = None THEN [cost |-> None, incomplete |-> TRUE]
  ELSE IF isByok = "no" THEN [cost |-> charge, incomplete |-> FALSE]
  ELSE IF charge = None \/ upstream = None THEN [cost |-> None, incomplete |-> TRUE]
  ELSE [cost |-> charge + upstream, incomplete |-> FALSE]

(* A vendor name without a letter or digit has no slug. *)
ProviderSlug(name) == IF name \in {None, "symbols"} THEN None ELSE name

(* Ids are told apart by what they fit: getGeneration, run_id, both or neither. *)
IsGenerationId(id) == id \in {"gen", "gen_long"}

FitsRunId(id) == id \in {"gen", "resp"}
-----------------------------------------------------------------------------
(* Submitting the record.                                                  *)

RunOf(id) ==
  IF call.run # None THEN call.run
  ELSE [id |-> IF FitsRunId(id) THEN id ELSE "fresh", parent |-> None]

(* Faulty variant: the scope is read when the record is made. *)
AuditRecordLate(provider, cost, usage, errorCode, id) ==
  [attribution |-> MergeAttribution(setup.defaults, scope.attribution),
   run |-> RunOf(id), provider |-> provider, cost |-> cost, usage |-> usage,
   errorCode |-> errorCode]

AuditRecord(provider, cost, usage, errorCode, id) ==
  [attribution |-> call.attribution, run |-> RunOf(id), provider |-> provider,
   cost |-> cost, usage |-> usage, errorCode |-> errorCode]

(* client.record() queues the record or says why not. *)
Hand(record, codes) ==
  \/ log' = Append(log, record) /\ diags' = diags \cup codes
  \/ log' = log /\ diags' = diags \cup codes \cup {"RECORD_NOT_QUEUED"}

(* The rest of #record once the lookup is over: mapResource may throw, map or keep. *)
Record(observed, facts, codes) ==
  \E mapped \in {"throws", "mapped", None} :
    LET served == ServedProvider(observed, facts)
        settled == ResolveCost(observed.charge,
                     Or(observed.isByok, IF facts = None THEN None ELSE facts.isByok),
                     Or(observed.upstream, IF facts = None THEN None ELSE facts.upstream))
        all == codes \cup {c \in {"PROVIDER_UNRESOLVED"} : mapped = None /\ ProviderSlug(served) = None}
                     \cup {c \in {"BYOK_COST_INCOMPLETE"} : settled.incomplete}
    IN IF mapped = "throws" THEN log' = log /\ diags' = diags \cup codes \cup {"HOOK_FAILED"}
       ELSE IF mapped = None /\ observed.model = None
         THEN log' = log /\ diags' = diags \cup codes \cup {"MODEL_UNREPORTED"}
       ELSE Hand(AuditRecord(Or(mapped, Or(ProviderSlug(served), "openrouter")), settled.cost,
                             observed.usage, observed.errorCode, observed.id), all)

(* Merge Gateway records at once, whatever usage the body has. *)
MergeRecord(body) ==
  \E mapped \in {"throws", "mapped", None} :
    LET usage == IF ~body.usage THEN [input |-> None, cacheRead |-> None, cacheWrite |-> None]
                 ELSE IF call.family = "responses" THEN ResponseUsage(body)
                 ELSE EmbeddingUsage(body)
    IN IF mapped = "throws" THEN log' = log /\ diags' = diags \cup {"HOOK_FAILED"}
       ELSE IF mapped = None /\ body.model = None
         THEN log' = log /\ diags' = diags \cup {"MODEL_UNREPORTED"}
       ELSE Hand(AuditRecord(Or(mapped, "merge-gateway"),
                             IF body.usage THEN ToCost(body) ELSE None, usage,
                             IF body.status = "failed" THEN "failed" ELSE None, body.id), {})
-----------------------------------------------------------------------------
(* The metered call.                                                       *)

NoWork == [observed |-> None, at |-> "none", elapsed |-> 0, delay |-> 0]

(* What instrumentOpenRouter builds: the lookup is off unless the host sets maxWaitMs, and
   the client may lack generations.getGeneration(). *)
OpenRouterFacades ==
  [adapter : {"openrouter"}, defaults : DefaultSets, maxWait : {0, MaxWait}, generations : BOOLEAN]

MergeFacades == [adapter : {"merge"}, defaults : DefaultSets]

Init ==
  /\ setup \in OpenRouterFacades \cup MergeFacades
  (* Cost and tokens are read apart from each other: two pairs stand for all four. *)
  /\ truth \in {[isByok |-> "yes", cacheRead |-> 0], [isByok |-> "no", cacheRead |-> CacheRead]}
  /\ scope = NoScope /\ entered = <<>> /\ phase = "idle" /\ call = None
  /\ open = TRUE /\ reader = "none" /\ failure = FALSE
  /\ router = None /\ failed = FALSE /\ left = MaxFrames
  /\ work = NoWork /\ log = <<>> /\ diags = {} /\ incomplete = <<>>
  /\ began = <<>> /\ seen = FALSE /\ held = 0 /\ interrupted = FALSE

(* The host enters a scope, or leaves one with the call still under way. *)
WithAudr ==
  /\ \/ /\ phase = "idle" /\ Len(entered) < MaxDepth
        /\ \E context \in Contexts :
             scope' = Nest(scope, context) /\ entered' = Append(entered, context)
     \/ /\ phase \notin {"idle", "over"} /\ entered # <<>>
        /\ scope' = NoScope /\ entered' = <<>>
  /\ UNCHANGED <<setup, truth, phase, call, streamVars, work, outVars, began, seen, held, interrupted>>

Families == IF setup.adapter = "merge" THEN {"responses", "embeddings"}
            ELSE {"chat", "responses", "embeddings"}

(* #begin: attribution and run are captured before the native call is made. *)
Begin ==
  LET attribution == MergeAttribution(setup.defaults, scope.attribution)
  IN /\ phase = "idle" /\ phase' = "sent"
     /\ began' = entered
     /\ \/ /\ attribution["environment"] # None
           /\ \E family \in Families :
                call' = [family |-> family, attribution |-> attribution, run |-> scope.run]
           /\ UNCHANGED diags
        \/ /\ attribution["environment"] = None
           /\ diags' = diags \cup {"ATTRIBUTION_UNRESOLVED"}
           /\ UNCHANGED call
     /\ UNCHANGED <<setup, truth, host, streamVars, work, log, incomplete, seen, held, interrupted>>

(* The native call fails, or is not metered: its outcome reaches the host as it is. *)
Unmetered ==
  /\ phase = "sent" /\ phase' = "over"
  /\ UNCHANGED <<setup, truth, host, call, streamVars, work, outVars, began, seen, held, interrupted>>

(* The gateway reports nothing that is not so, but may leave anything out. *)
Plausible(body) ==
  /\ body.isByok \in {None, truth.isByok}
  /\ body.metadata # None => body.metadata.isByok \in {None, truth.isByok}
  /\ body.cacheRead \in {None, Null, truth.cacheRead}
  /\ (setup.adapter = "merge" /\ body.cacheRead = None) => truth.cacheRead = 0

(* The result, or the frame, goes to the host once its record was tried. *)
Delivered ==
  /\ seen' = TRUE
  /\ IF phase = "streaming"
     THEN open' = FALSE /\ reader' = "yielded" /\ UNCHANGED phase
     ELSE phase' = "over" /\ UNCHANGED <<open, reader>>

(* #record up to the lookup: without one to make, the record is submitted at once. *)
Observed(observed) ==
  IF ~NeedsLookup(observed)
  THEN Record(observed, None, {}) /\ Delivered /\ work' = NoWork
  ELSE IF observed.id = None \/ ~IsGenerationId(observed.id) \/ setup.maxWait = 0
  THEN Record(observed, None, {"LOOKUP_FAILED"}) /\ Delivered /\ work' = NoWork
  ELSE IF ~setup.generations
  THEN /\ diags' = diags \cup {"HOOK_FAILED"}
       /\ Delivered /\ work' = NoWork /\ UNCHANGED log
  ELSE /\ work' = [observed |-> observed, at |-> "request", elapsed |-> 0,
                   delay |-> InitialDelay]
       /\ IF phase = "streaming" THEN reader' = "inspecting" /\ UNCHANGED phase
          ELSE phase' = "recording" /\ UNCHANGED reader
       /\ UNCHANGED <<open, log, diags, seen>>

(* #observe *)
Observe(body) ==
  IF call.family = "chat" THEN ChatObservation(body, None, None)
  ELSE IF call.family = "responses" THEN ResponsesObservation(body, StatusErrorCode(body.status))
  ELSE EmbeddingsObservation(body)

(* The native call answers with a result: measure() hands it on after recording. *)
Result(body) ==
  /\ phase = "sent" /\ call # None /\ Plausible(body)
  /\ setup.adapter = "openrouter"
  /\ IF Observe(body) # None THEN Observed(Observe(body))
     ELSE /\ diags' = diags \cup {"USAGE_UNREPORTED"} /\ phase' = "over"
          /\ UNCHANGED <<open, reader, work, log, seen>>
  /\ UNCHANGED <<setup, truth, host, call, failure, router, failed, left, incomplete,
                 began, held, interrupted>>

MergeResult(body) ==
  /\ phase = "sent" /\ call # None /\ Plausible(body)
  /\ setup.adapter = "merge"
  /\ MergeRecord(body) /\ Delivered /\ UNCHANGED work
  /\ UNCHANGED <<setup, truth, host, call, failure, router, failed, left, incomplete,
                 began, held, interrupted>>

(* The native call answers with a stream, which the host gets behind a proxy. *)
Stream ==
  /\ phase = "sent" /\ call # None
  /\ setup.adapter = "openrouter" => call.family # "embeddings"
  /\ phase' = "streaming"
  /\ UNCHANGED <<setup, truth, host, call, streamVars, work, outVars, began, seen, held, interrupted>>
-----------------------------------------------------------------------------
(* meterStream.                                                            *)

(* Faulty variant: the end of a stream is not reported. *)
EndSilent(reason) == open' = FALSE /\ UNCHANGED incomplete

(* Faulty variant: the stream stays open after its end was reported. *)
EndOpen(reason) ==
  /\ incomplete' = IF open THEN Append(incomplete, reason) ELSE incomplete
  /\ UNCHANGED open

End(reason) ==
  /\ incomplete' = IF open THEN Append(incomplete, reason) ELSE incomplete
  /\ open' = FALSE

(* The host asks for the next frame; the first time this locks the native stream. *)
Read ==
  /\ phase = "streaming" /\ reader \in {"none", "yielded"}
  /\ reader' = "waiting"
  /\ UNCHANGED <<setup, truth, host, phase, call, open, failure, router, failed, left, work,
                 outVars, began, seen, held, interrupted>>

Yield == reader' = "yielded" /\ UNCHANGED <<work, log, diags>>

FrameCommon ==
  /\ phase = "streaming" /\ reader = "waiting" /\ left > 0
  /\ left' = left - 1
  /\ UNCHANGED <<setup, truth, host, call, began, held, interrupted>>

(* #inspectChat: the chunk with usage is recorded, an error before it is remembered. *)
ChatFrame(body, error) ==
  /\ setup.adapter = "openrouter" /\ call # None /\ call.family = "chat"
  /\ FrameCommon /\ Plausible(body)
  /\ IF ~open THEN Yield /\ seen' = (seen \/ body.usage)
                   /\ UNCHANGED <<phase, open, failure, router, failed, incomplete>>
     ELSE /\ router' = Or(ReadRouter(body.metadata), router)
          /\ failed' = (failed \/ error)
          /\ IF body.usage
             THEN /\ Observed(ChatObservation(body, router', IF failed' THEN "failed" ELSE None))
                  /\ UNCHANGED <<failure, incomplete>>
             ELSE /\ Yield /\ failure' = (failure \/ error)
                  /\ UNCHANGED <<phase, open, incomplete, seen>>

(* #inspectResponses: a terminal event is recorded, or ends the metering without usage. *)
ResponsesFrame(type, body) ==
  /\ setup.adapter = "openrouter" /\ call # None /\ call.family = "responses"
  /\ FrameCommon /\ Plausible(body)
  /\ UNCHANGED <<router, failed>>
  /\ IF ~open \/ ~IsTerminalType(type)
     THEN /\ Yield /\ failure' = (failure \/ (open /\ type = "error"))
          /\ seen' = (seen \/ (IsTerminalType(type) /\ body.usage))
          /\ UNCHANGED <<phase, open, incomplete>>
     ELSE IF body.usage
     THEN /\ Observed(ResponsesObservation(body, TerminalErrorCode(type)))
          /\ UNCHANGED <<failure, incomplete>>
     ELSE Yield /\ End("no_usage") /\ UNCHANGED <<phase, failure, seen>>

(* Merge Gateway's observe: the stream is closed for metering before the record is made. *)
MergeFrame(object, body) ==
  /\ setup.adapter = "merge" /\ call # None
  /\ FrameCommon /\ Plausible(body)
  /\ UNCHANGED <<phase, failure, router, failed>>
  /\ IF open /\ object = "done"
     THEN MergeRecord(body) /\ Delivered /\ UNCHANGED <<work, incomplete>>
     ELSE IF open /\ object = "error"
     THEN Yield /\ End("error_frame") /\ UNCHANGED seen
     ELSE Yield /\ seen' = (seen \/ object = "done") /\ UNCHANGED <<open, incomplete>>

ReaderOver(reason) ==
  /\ reader' = "over"
  /\ End(reason)
  /\ UNCHANGED <<setup, truth, host, phase, call, failure, router, failed, left, work, log,
                 diags, began, seen, held, interrupted>>

(* The native stream is done, or fails under the reader. *)
StreamEnds ==
  /\ phase = "streaming" /\ reader = "waiting"
  /\ ReaderOver(IF failure THEN "error_frame" ELSE "ended") \/ ReaderOver("failed")

(* The host leaves its loop at a frame. *)
Abandon == phase = "streaming" /\ reader = "yielded" /\ ReaderOver("abandoned")

(* cancel() or close(): a locked native stream refuses it and goes on, another one is over.
   A second reader finds the stream locked. *)
Cut(reason) ==
  /\ phase = "streaming"
  /\ reason = "failed" => reader \in {"waiting", "inspecting", "yielded"}
  /\ End(reason)
  /\ left' = IF reader = "none" THEN 0 ELSE left
  /\ interrupted' = (interrupted \/ reader = "inspecting")
  /\ UNCHANGED <<setup, truth, host, phase, call, reader, failure, router, failed, work, log,
                 diags, began, seen, held>>

Cancel == Cut("closed")

SecondReader == Cut("failed")
-----------------------------------------------------------------------------
(* GenerationLookup.find.                                                  *)

LookupCommon ==
  UNCHANGED <<setup, truth, host, call, failure, router, failed, left, incomplete, began,
              interrupted>>

(* Each request is given what is left of the budget, counted from one deadline. *)
Remaining(elapsed) == MaxWait - elapsed

(* A request is over when its abort signal fires, which may be late like any timer. *)
RequestTakes(took) == work.at = "request" /\ took <= Remaining(work.elapsed) + Late

(* The generation is there: its facts complete the record. *)
LookupAnswers(facts, took) ==
  /\ RequestTakes(took)
  /\ facts.isByok \in {None, truth.isByok}
  /\ Record(work.observed, facts, {}) /\ Delivered /\ work' = NoWork
  /\ held' = work.elapsed + took
  /\ LookupCommon

LookupGivesUp == Record(work.observed, None, {"LOOKUP_FAILED"}) /\ Delivered /\ work' = NoWork

(* Faulty variant: the wait is not compared with what is left of the budget. *)
WouldOverrunNever(elapsed, wait) == FALSE

WouldOverrun(elapsed, wait) == Remaining(elapsed) <= wait

Wait(delay) == IF delay < MaxDelay THEN delay ELSE MaxDelay

(* How a request may fail: with a status, without one, or by its own timeout. *)
Failures == {"404", "429", "503", "401", "network", "timeout", "invalid"}

Retryable(reason) == reason \notin {"401", "invalid"}

(* The request fails or its timeout aborts it; only a retryable failure is waited for. *)
LookupFails(reason, took) ==
  /\ RequestTakes(took)
  /\ reason = "timeout" => took >= Remaining(work.elapsed)
  /\ IF ~Retryable(reason) \/ WouldOverrun(work.elapsed + took, Wait(work.delay))
     THEN LookupGivesUp
     ELSE /\ work' = [work EXCEPT !.at = "sleep", !.elapsed = @ + took]
          /\ UNCHANGED <<phase, open, reader, log, diags, seen>>
  /\ held' = work.elapsed + took
  /\ LookupCommon

(* The sleep is over, perhaps too late for another request. *)
LookupWakes(late) ==
  /\ work.at = "sleep"
  /\ LET now == work.elapsed + Wait(work.delay) + late
     IN IF Remaining(now) <= 0 THEN LookupGivesUp
        ELSE /\ work' = [work EXCEPT !.at = "request", !.elapsed = now, !.delay = 2 * @]
             /\ UNCHANGED <<phase, open, reader, log, diags, seen>>
  /\ held' = work.elapsed + Wait(work.delay) + late
  /\ LookupCommon
-----------------------------------------------------------------------------
Next ==
  \/ WithAudr \/ Begin \/ Unmetered \/ Stream \/ Read \/ StreamEnds \/ Abandon
  \/ Cancel \/ SecondReader
  \/ \E body \in Bodies : Result(body) \/ MergeResult(body)
  \/ \E body \in Bodies, error \in BOOLEAN : ChatFrame(body, error)
  \/ \E body \in Bodies, type \in {"delta", "error", "completed", "failed", "incomplete"} :
       ResponsesFrame(type, body)
  \/ \E body \in Bodies, object \in {"stream", "done", "error"} : MergeFrame(object, body)
  \/ \E facts \in FactSets, took \in 0..(MaxWait + Late) : LookupAnswers(facts, took)
  \/ \E reason \in Failures, took \in 0..(MaxWait + Late) : LookupFails(reason, took)
  \/ \E late \in 0..Late : LookupWakes(late)

Spec == Init /\ [][Next]_vars
-----------------------------------------------------------------------------
(* Properties.                                                             *)

(* The scopes of h, outermost first, that name field f, and those that name a run. *)
Naming(h, f) == {i \in DOMAIN h : h[i].readable /\ h[i].attribution[f] # None}

Running(h) == {i \in DOMAIN h : h[i].readable /\ h[i].run # None}

(* The scopes of the innermost run that name a parent span. *)
Parented(h) ==
  {i \in Running(h) : /\ h[i].run.parent # None
                      /\ \A j \in Running(h) : j >= i => h[j].run.id = h[Max(Running(h))].run.id}

(* The innermost run's id, and the parent span nearest to it among the scopes of that run. *)
StarterRun(h) ==
  [id |-> h[Max(Running(h))].run.id,
   parent |-> IF Parented(h) = {} THEN None ELSE h[Max(Parented(h))].run.parent]

(* A record is billed to the scopes its call was started in, however the host has moved
   between scopes since: each field to the innermost scope that sets it, the run to the
   innermost scope that names one (withAudr, #begin). *)
BilledToStarter ==
  \A i \in DOMAIN log :
    /\ \A f \in DOMAIN setup.defaults :
         log[i].attribution[f] =
           IF Naming(began, f) = {} THEN setup.defaults[f]
           ELSE began[Max(Naming(began, f))].attribution[f]
    /\ Running(began) # {} => log[i].run = StarterRun(began)

(* One call gives at most one record and at most one STREAM_INCOMPLETE, and both only when
   the host cancelled the stream, or opened it again, while the lookup of its record was
   under way (meterStream). *)
OneVerdict ==
  /\ Len(log) + Len(incomplete) <= 2
  /\ Len(log) <= 1 /\ Len(incomplete) <= 1
  /\ log # <<>> /\ incomplete # <<>> => interrupted

(* A host that was handed the usage of a metered call finds its record queued, or a
   diagnostic that says why there is none: measure and meterStream record first. *)
NoSilentLoss ==
  seen => \/ log # <<>> \/ incomplete # <<>>
          \/ diags \cap {"HOOK_FAILED", "MODEL_UNREPORTED", "RECORD_NOT_QUEUED"} # {}

(* A record's cost is the whole cost of the call or left out, and its counters add up to no
   more tokens than the prompt had; Merge Gateway's input never holds cache reads that were
   not counted (resolveCost, chatObservation, responseUsage). *)
RecordTruthful ==
  \A i \in DOMAIN log :
    LET r == log[i]
    IN /\ r.cost \in {None, IF setup.adapter = "openrouter" /\ truth.isByok = "yes"
                           THEN Charge + Upstream ELSE Charge}
       /\ Zero(r.usage.input) + Zero(r.usage.cacheRead) + Zero(r.usage.cacheWrite) <= Prompt
       /\ setup.adapter = "merge" /\ call.family = "responses" =>
            Zero(r.usage.input) <= Prompt - truth.cacheRead

(* The lookup holds the host's result no longer than its budget and the lateness of one
   timer, although the sleeps and the abort signals of all its requests may be late: each
   request and each wait is measured against the one deadline, so that lateness does not
   add up (GenerationLookup.find).  Math.ceil's part of a tick is left out. *)
LookupBounded == held <= MaxWait + Late
=============================================================================
