-------------------------- MODULE VercelTelemetry --------------------------
(* The Vercel AI adapter: every AudrTelemetry integration follows the AI SDK's *)
(* calls by their hooks and submits one record for each model call, embedding, *)
(* rerank and tool execution.  A call made inside a tool joins the run of the  *)
(* tool's call.  The AI SDK decides which hooks fire and when: calls overlap,  *)
(* outlive the tool they began in, and their hooks may come after the call's   *)
(* end.  A hook runs to its end without an await, so each is one step.         *)
EXTENDS Naturals, Sequences, FiniteSets, SequencesExt, FiniteSetsExt

CONSTANTS
  None, Garbled,  \* undefined, and a number that is none
  Integrations,  \* the telemetry integrations of the process
  Defaults,      \* the attributionDefaults of each integration
  MaxCalls,      \* bound: calls, numbered as they start; the AI SDK gives each a new id
  ToolCallIds,   \* the model's ids of tool calls, which it may use again
  Routes,        \* the integrations each call reports to
  Sources,       \* what each call brings: functionId and runtimeContext.audr
  Usages,        \* what the model calls of each call report
  Prompt,        \* the tokens their prompts had
  MaxEvents,     \* bound: model calls, embeddings and reranks of all calls
  MaxExecutions, \* bound: tool executions of all calls
  MaxDepth       \* bound: tool spans a call is nested in

Calls == 1..MaxCalls

Fields == {"environment", "account_id"}

Operations == {"generateText", "embed", "rerank", "generateObject"}

ASSUME SourceShape ==
  /\ IsFiniteSet(Integrations) /\ \A i \in Integrations : DOMAIN Defaults[i] = Fields
  /\ \A c \in Calls :
       /\ Sources[c].audr = None \/ DOMAIN Sources[c].audr = Fields
       /\ Routes[c] \subseteq Integrations
  /\ {MaxCalls, MaxEvents, MaxExecutions, MaxDepth, Prompt} \subseteq Nat

ASSUME NoneDistinct ==
  None \notin Operations \cup (Calls \X Nat) \cup ({"tool"} \X Calls \X Nat \X ToolCallIds)

VARIABLES
  host,     \* the AI SDK: each call's hooks so far; its op is None before it starts
  contexts, \* async contexts a call may start in, as stacks of active tool spans
  tracked,  \* CallTracker.#calls of each integration
  steps,    \* the step sequence of each run, by integration
  warned,   \* #warnedUnsupported of each integration
  log       \* records each integration submitted

vars == <<host, contexts, tracked, steps, warned, log>>
-----------------------------------------------------------------------------
(* Attribution.  A value that is not a string stands for what is dropped.  *)

ReadRuntimeAttribution(source) ==
  IF source.audr = None THEN [f \in Fields |-> None]
  ELSE [f \in Fields |-> IF source.audr[f] = "not_a_string" THEN None ELSE source.audr[f]]

MergeAttribution(defaults, perCall) ==
  [f \in Fields |-> IF perCall[f] # None THEN perCall[f] ELSE defaults[f]]

(* The attribution, or None without an environment. *)
ResolveAttribution(source, defaults) ==
  LET attribution == MergeAttribution(defaults, ReadRuntimeAttribution(source))
  IN IF attribution["environment"] = None THEN None ELSE attribution
-----------------------------------------------------------------------------
(* Mapping.                                                                *)

(* A counter the SDK reports wrongly, below zero or not a whole number, is left out. *)
Counter(n) == IF n = Garbled THEN None ELSE n

Subtract(total, part) ==
  IF total = None THEN None ELSE IF total > part THEN total - part ELSE 0

OrZero(n) == IF n = None THEN 0 ELSE n

(* A report is true: what it gives of a prompt adds up to no more than the prompt. *)
ASSUME UsageTrue ==
  \A c \in Calls :
    LET usage == Usages[c]
        noCache == Counter(usage.noCache)
        cached == OrZero(Counter(usage.cacheRead)) + OrZero(Counter(usage.cacheWrite))
    IN /\ {usage.input, usage.noCache, usage.cacheRead, usage.cacheWrite}
            \subseteq {None, Garbled} \cup (0..Prompt)
       /\ OrZero(noCache) + cached <= Prompt

(* Output and reasoning are treated as input and cache reads are. *)
ToLlmUsage(usage) ==
  LET noCache == Counter(usage.noCache)
      cached == OrZero(Counter(usage.cacheRead)) + OrZero(Counter(usage.cacheWrite))
  IN [input |-> IF noCache # None THEN noCache ELSE Subtract(Counter(usage.input), cached),
      cacheRead |-> Counter(usage.cacheRead), cacheWrite |-> Counter(usage.cacheWrite)]

IsSupportedOperation(op) == op # "generateObject"

RunTypeFor(op) == IF op = "generateText" THEN "agent_run" ELSE "single_call"

(* A provider id without a letter or digit before its first dot has no slug. *)
ProviderSlug(provider) == IF provider = "symbols" THEN None ELSE provider

ModelSpanId(c, index) == <<"model", c, index>>

(* Faulty variant: the id leaves the invocation out. *)
ToolSpanIdPlain(c, index, id) == <<"tool", c, 0, id>>

ToolSpanId(c, index, id) == <<"tool", c, index, id>>

EmbedSpanId(embedCallId) == <<"embed", embedCallId>>

RerankSpanId(c, index) == <<"rerank", c, index>>
-----------------------------------------------------------------------------
(* CallTracker.                                                            *)

NewCall(c, run, parent, attribution, runType, name) ==
  [id |-> c, run |-> run, parent |-> parent, attribution |-> attribution,
   runType |-> runType, name |-> name, modelCalls |-> 0, rerankCalls |-> 0, toolCalls |-> 0,
   openToolSpans |-> [t \in ToolCallIds |-> None], embeds |-> {}, rerank |-> FALSE]

StartRoot(c, op, attribution, name) ==
  NewCall(c, c, None, attribution, RunTypeFor(op), name)

StartChild(c, span) ==
  NewCall(c, span.call.run, span.spanId, span.call.attribution, span.call.runType, span.call.name)

(* Faulty variant: the innermost span of any integration. *)
CurrentToolSpanAny(i, context) == IF context = <<>> THEN None ELSE Last(context)

CurrentToolSpan(i, context) ==
  LET own == {d \in DOMAIN context : context[d].tracker = i}
  IN IF own = {} THEN None ELSE context[Max(own)]

OpenToolSpan(call, id) ==
  [call EXCEPT !.toolCalls = @ + 1,
               !.openToolSpans[id] = ToolSpanId(call.id, call.toolCalls, id)]

(* The open span, or one opened now because its start was not seen. *)
ToolSpanFor(call, id) == IF call.openToolSpans[id] # None THEN call ELSE OpenToolSpan(call, id)

CloseToolSpan(call, id) == [ToolSpanFor(call, id) EXCEPT !.openToolSpans[id] = None]
-----------------------------------------------------------------------------
(* Hooks.                                                                  *)

(* What a hook made of a tracked call: the call as it is now, and the record's parts. *)
Did(call, parts) == [call |-> call, parts |-> parts]

NoParts == [spanId |-> None]

Parts(spanId, measured, usage, execution) ==
  [spanId |-> spanId, measured |-> measured, usage |-> usage, execution |-> execution]

(* Faulty variant: each call counts its own steps. *)
StepOwnerCall(call) == call.id

StepOwner(call) == call.run

(* #record: the step comes from the sequence the whole run shares. *)
Record(i, call, parts) ==
  [run |-> call.run, spanId |-> parts.spanId, step |-> steps[i][StepOwner(call)],
   runType |-> call.runType, parent |-> call.parent, name |-> call.name,
   attribution |-> call.attribution, measured |-> parts.measured, usage |-> parts.usage,
   execution |-> parts.execution]

(* The integrations that an event of this call reaches and that track the call. *)
Met(c) == {i \in Routes[c] : tracked[i][c] # None}

(* What these integrations did with the event: each has a new state of the call, and may have
   submitted a record, which takes the next step of the run. *)
Submit(c, did) ==
  LET recorded == {i \in Met(c) : did[i].parts.spanId # None}
  IN /\ tracked' = [i \in Integrations |->
           IF i \in Met(c) THEN [tracked[i] EXCEPT ![c] = did[i].call] ELSE tracked[i]]
     /\ log' = [i \in Integrations |->
           IF i \in recorded THEN Append(log[i], Record(i, did[i].call, did[i].parts)) ELSE log[i]]
     /\ steps' = [i \in Integrations |->
           IF i \in recorded THEN [steps[i] EXCEPT ![StepOwner(did[i].call)] = @ + 1] ELSE steps[i]]

Hook(c, Body(_)) == Submit(c, [i \in Met(c) |-> Body(tracked[i][c])])

(* What all calls have used of the bounds. *)
EventsUsed == MapThenSumSet(LAMBDA c : host[c].events, Calls)

ExecutionsUsed == MapThenSumSet(LAMBDA c : host[c].executions, Calls)

(* What the AI SDK keeps of a call: its tool executions are numbered as they start. *)
HostCall(op, context) ==
  [op |-> op, context |-> context, events |-> 0, executions |-> 0,
   tools |-> [t \in ToolCallIds |-> "idle"], running |-> [t \in ToolCallIds |-> 0]]

Begun(c) == host[c].op # None

Init ==
  /\ host = [c \in Calls |-> HostCall(None, <<>>)]
  /\ contexts = {<<>>}
  /\ tracked = [i \in Integrations |-> [c \in Calls |-> None]]
  /\ steps = [i \in Integrations |-> [c \in Calls |-> 0]]
  /\ warned = [i \in Integrations |-> {}]
  /\ log = [i \in Integrations |-> <<>>]

(* What onStart makes the tracker keep for the call. *)
Started(i, c, op, context, source) ==
  LET span == CurrentToolSpan(i, context)
      attribution == ResolveAttribution(source, Defaults[i])
  IN IF ~IsSupportedOperation(op) THEN None
     ELSE IF span # None THEN StartChild(c, span)
     ELSE IF attribution = None THEN None
     ELSE StartRoot(c, op, attribution, source.functionId)

OnStart(c, op, context) ==
  /\ ~Begun(c) /\ \A d \in 1..(c - 1) : Begun(d)
  /\ host' = [host EXCEPT ![c] = HostCall(op, context)]
  /\ tracked' = [i \in Integrations |->
       IF i \in Routes[c] THEN [tracked[i] EXCEPT ![c] = Started(i, c, op, context, Sources[c])]
       ELSE tracked[i]]
  /\ warned' = [i \in Integrations |->
       IF i \in Routes[c] /\ ~IsSupportedOperation(op) THEN warned[i] \cup {op} ELSE warned[i]]
  /\ UNCHANGED <<contexts, steps, log>>

(* Once no integration follows a call its hooks fire without effect, and are not counted. *)
Followed(c) == \E i \in Integrations : tracked[i][c] # None

(* A model call, embedding or rerank of a call that runs, or comes late. *)
Event(c, op) ==
  /\ host[c].op = op /\ EventsUsed < MaxEvents
  /\ host' = IF Followed(c) THEN [host EXCEPT ![c].events = @ + 1] ELSE host
  /\ UNCHANGED <<contexts, warned>>

(* None when mapResource throws or the provider it leads to is no slug. *)
ModelResource(mapped, provider) ==
  IF mapped = "throws" THEN None
  ELSE IF mapped = None THEN ProviderSlug(provider) ELSE ProviderSlug(mapped)

OnLanguageModelCallEnd(c, resource) ==
  /\ Event(c, "generateText")
  /\ Hook(c, LAMBDA call :
       IF resource = None THEN Did(call, NoParts)
       ELSE Did([call EXCEPT !.modelCalls = @ + 1],
                Parts(ModelSpanId(c, call.modelCalls), TRUE, ToLlmUsage(Usages[c]), None)))

(* Embeddings run in parallel; each has an id of its own. *)
OnEmbedStart(c) ==
  /\ Event(c, "embed")
  /\ Hook(c, LAMBDA call :
       Did([call EXCEPT !.embeds = @ \cup {<<c, host[c].events>>}], NoParts))

OnEmbedEnd(c, n, resource) ==
  /\ host[c].op = "embed" /\ n < host[c].events
  /\ \A i \in Integrations : \A k \in DOMAIN log[i] : log[i][k].spanId # EmbedSpanId(<<c, n>>)
  /\ Hook(c, LAMBDA call :
       LET rest == [call EXCEPT !.embeds = @ \ {<<c, n>>}]
       IN IF resource = None THEN Did(rest, NoParts)
          ELSE Did(rest, Parts(EmbedSpanId(<<c, n>>), <<c, n>> \in call.embeds, None, None)))
  /\ UNCHANGED <<host, contexts, warned>>

OnRerankStart(c) ==
  /\ host[c].op = "rerank"
  /\ Hook(c, LAMBDA call : Did([call EXCEPT !.rerank = TRUE], NoParts))
  /\ UNCHANGED <<host, contexts, warned>>

OnRerankEnd(c, resource) ==
  /\ Event(c, "rerank")
  /\ Hook(c, LAMBDA call :
       IF resource = None THEN Did([call EXCEPT !.rerank = FALSE], NoParts)
       ELSE Did([call EXCEPT !.rerank = FALSE, !.rerankCalls = @ + 1],
                Parts(RerankSpanId(c, call.rerankCalls), call.rerank, None, None)))

(* A tool call id is used again only when its last execution has ended. *)
Tool(c, id, from, to) ==
  /\ host[c].op = "generateText" /\ host[c].tools[id] \in from
  /\ host[c].tools[id] = "idle" => ExecutionsUsed < MaxExecutions
  /\ LET begins == host[c].tools[id] = "idle"
         number == host[c].executions + 1
     IN host' = IF ~Followed(c) THEN host
                ELSE [host EXCEPT ![c].tools[id] = to,
                                  ![c].running[id] = IF begins THEN number ELSE @,
                                  ![c].executions = IF begins THEN number ELSE @]
  /\ UNCHANGED warned

OnToolExecutionStart(c, id) ==
  /\ Tool(c, id, {"idle"}, "started")
  /\ Hook(c, LAMBDA call : Did(OpenToolSpan(call, id), NoParts))
  /\ UNCHANGED contexts

(* The tool runs inside its span: calls may start in that context from now on. *)
ExecuteTool(c, id) ==
  LET met == SetToSeq(Met(c))
      spans == [k \in DOMAIN met |->
                  LET call == ToolSpanFor(tracked[met[k]][c], id)
                  IN [tracker |-> met[k], spanId |-> call.openToolSpans[id],
                      call |-> [run |-> call.run, attribution |-> call.attribution,
                                runType |-> call.runType, name |-> call.name],
                      execution |-> <<c, host'[c].running[id]>>]]
  IN /\ Tool(c, id, {"idle", "started"}, "running")
     /\ Len(host[c].context \o spans) <= MaxDepth
     /\ contexts' = contexts \cup {host[c].context \o spans}
     /\ Hook(c, LAMBDA call : Did(ToolSpanFor(call, id), NoParts))

OnToolExecutionEnd(c, id) ==
  /\ Tool(c, id, {"started", "running"}, "idle")
  /\ Hook(c, LAMBDA call :
       Did(CloseToolSpan(call, id),
           Parts(ToolSpanFor(call, id).openToolSpans[id], TRUE, None,
                 <<c, host[c].running[id]>>)))
  /\ UNCHANGED contexts

(* onEnd, onAbort and onError: the call is forgotten. *)
OnEnd(c) ==
  /\ Followed(c)
  /\ host' = [host EXCEPT ![c].tools = [t \in ToolCallIds |-> "idle"]]
  /\ tracked' = [i \in Integrations |->
       IF i \in Routes[c] THEN [tracked[i] EXCEPT ![c] = None] ELSE tracked[i]]
  /\ UNCHANGED <<contexts, steps, warned, log>>

Resources == {ModelResource(m, p) : m \in {"throws", None, "vendor", "symbols"}, p \in {"vendor", "symbols"}}

Next ==
  \/ \E c \in Calls, op \in Operations, context \in contexts : OnStart(c, op, context)
  \/ \E c \in Calls, resource \in Resources : OnLanguageModelCallEnd(c, resource)
  \/ \E c \in Calls : OnEmbedStart(c) \/ OnRerankStart(c) \/ OnEnd(c)
  \/ \E c \in Calls, n \in 0..MaxEvents, resource \in Resources : OnEmbedEnd(c, n, resource)
  \/ \E c \in Calls, resource \in Resources : OnRerankEnd(c, resource)
  \/ \E c \in Calls, id \in ToolCallIds :
       OnToolExecutionStart(c, id) \/ ExecuteTool(c, id) \/ OnToolExecutionEnd(c, id)

Spec == Init /\ [][Next]_vars
-----------------------------------------------------------------------------
(* Properties.                                                             *)

(* No two records of an integration have the same span, though the model uses a tool call
   id again and calls are nested. *)
SpansUnique ==
  \A i \in Integrations : \A j, k \in DOMAIN log[i] : log[i][j].spanId = log[i][k].spanId => j = k

(* Tokens read from or written to the cache are not counted as input again. *)
TokensOnce ==
  \A i \in Integrations : \A k \in DOMAIN log[i] :
    LET usage == log[i][k].usage
    IN usage # None =>
         OrZero(usage.input) + OrZero(usage.cacheRead) + OrZero(usage.cacheWrite) <= Prompt

(* Nothing is billed twice: a span is recorded once and a token is counted once (openToolSpan,
   toLlmUsage). *)
NothingTwice == SpansUnique /\ TokensOnce

(* A run is one account: whoever's hook submits a record of it, nested calls and calls that
   outlive the root included, the record carries what the root call was started with and
   the next step of the run (startChild, #record). *)
RunCoherent ==
  \A i \in Integrations : \A k \in DOMAIN log[i] :
    LET r == log[i][k]
        root == host[r.run]
    IN /\ i \in Routes[r.run]
       /\ r.attribution = ResolveAttribution(Sources[r.run], Defaults[i])
       /\ r.name = Sources[r.run].functionId /\ r.runType = RunTypeFor(root.op)
       /\ r.step = Cardinality({j \in 1..(k - 1) : log[i][j].run = r.run})

(* The parent span of a nested call's records is a tool span of the same integration and
   run, and the record of that tool execution, once there is one, bears the same span
   (currentToolSpan, toolSpanFor, closeToolSpan). *)
ParentsResolve ==
  \A i \in Integrations : \A k \in DOMAIN log[i] :
    LET r == log[i][k]
    IN r.parent # None =>
         \E context \in contexts : \E d \in DOMAIN context :
           LET active == context[d]
           IN /\ active.tracker = i /\ active.call.run = r.run /\ active.spanId = r.parent
              /\ \A j \in DOMAIN log[i] :
                   log[i][j].execution = active.execution => log[i][j].spanId = r.parent
=============================================================================
