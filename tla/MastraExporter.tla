--------------------------- MODULE MastraExporter ---------------------------
(* The Mastra adapter: AudrExporter turns the end of a metered span into a     *)
(* record, and leaves out a tool call that only delegates to an agent or a     *)
(* workflow, whose own spans are recorded.  Mastra exports the events of a     *)
(* forest of spans: spans overlap, a child may outlive its parent, a start may *)
(* be dropped by the host's configuration, and shutdown() may come at any      *)
(* time.  An export runs to its end without an await, so each is one step.     *)
EXTENDS Naturals, Sequences, FiniteSets, SequencesExt

CONSTANTS
  None, Garbled, \* undefined, and a value that is not of its type
  Forests,       \* the spans of a trace: each gives its spans by id
  Defaults,      \* attributionDefaults
  Prompt,        \* the tokens a model call's prompt had
  MaxShutdowns   \* bound: calls of shutdown()

SpanTypes == {"model_inference", "rag_embedding", "tool_call", "mcp_tool_call", "agent_run",
              "workflow_run", "generic"}

Fields == {"environment", "account_id"}

(* A counter may be missing, or be no whole number; so may a date. *)
Counts == {None, Garbled} \cup (0..Prompt)

Times == {None, Garbled} \cup Nat

ASSUME ForestShape ==
  /\ DOMAIN Defaults = Fields /\ {MaxShutdowns, Prompt} \subseteq Nat
  /\ \A forest \in Forests : \A s \in DOMAIN forest :
       /\ forest[s].type \in SpanTypes /\ {forest[s].readable, forest[s].failed} \subseteq BOOLEAN
       /\ forest[s].parent \in DOMAIN forest \cup {None}
       /\ forest[s].audr = None \/ DOMAIN forest[s].audr = Fields
       /\ forest[s].usage \in [input : Counts, cacheRead : Counts, cacheWrite : Counts]
       /\ {forest[s].startTime, forest[s].endTime} \subseteq Times

VARIABLES
  spans,      \* the spans of the trace, by id
  open,       \* #openToolSpans
  delegating, \* #delegationToolSpans
  log,        \* records submitted, by span
  trace       \* history: the events exported and the shutdowns, in order

vars == <<spans, open, delegating, log, trace>>
-----------------------------------------------------------------------------
(* Reading a span.                                                         *)

ReadMetadataAttribution(audr) ==
  IF audr = None THEN [f \in Fields |-> None]
  ELSE [f \in Fields |-> IF audr[f] = Garbled THEN None ELSE audr[f]]

MergeAttribution(defaults, perSpan) ==
  [f \in Fields |-> IF perSpan[f] # None THEN perSpan[f] ELSE defaults[f]]

ResolveAttribution(audr, defaults) ==
  LET attribution == MergeAttribution(defaults, ReadMetadataAttribution(audr))
  IN IF attribution["environment"] = None THEN None ELSE attribution

Counter(n) == IF n = Garbled THEN None ELSE n

OrZero(n) == IF n = None THEN 0 ELSE n

Subtract(total, part) ==
  IF total = None THEN None ELSE IF total > part THEN total - part ELSE 0

(* Output and reasoning are treated as input and cache reads are. *)
ToLlmUsage(usage) ==
  LET read == Counter(usage.cacheRead)
      written == Counter(usage.cacheWrite)
  IN [input |-> Subtract(Counter(usage.input), OrZero(read) + OrZero(written)),
      cacheRead |-> read, cacheWrite |-> written]

(* A provider that is no string, or holds no letter or digit, has no slug. *)
ProviderSlug(provider) == IF provider \in {None, Garbled} THEN None ELSE provider

(* Garbled stands for a date that does not parse. *)
ToDate(time) == IF time = Garbled THEN None ELSE time

SpanTiming(startTime, endTime) ==
  LET start == ToDate(startTime)
      end == ToDate(endTime)
      valid == IF start = None \/ end = None THEN FALSE ELSE end >= start
  IN [eventTime |-> IF end # None THEN end ELSE IF start # None THEN start ELSE "now",
      durationMs |-> IF valid THEN end - start ELSE None]
-----------------------------------------------------------------------------
(* Records.                                                                *)

IsMeteredSpanType(type) == type \in {"model_inference", "rag_embedding", "tool_call", "mcp_tool_call"}

IsDelegation(type) == type \in {"agent_run", "workflow_run"}

Metered(kind, usage) == [kind |-> kind, usage |-> usage]

(* A model_inference span, whose model is the one that answered or else the one asked. *)
Model(span) ==
  IF ProviderSlug(span.provider) = None \/ (span.responseModel = None /\ span.name = None) THEN None
  ELSE Metered("generation", ToLlmUsage(span.usage))

Embedding(span) ==
  IF ProviderSlug(span.provider) = None \/ span.name = None THEN None
  ELSE Metered("embedding", ToLlmUsage(span.usage))

Tool(span, s) ==
  IF span.name = None \/ (span.type = "tool_call" /\ s \in delegating) THEN None
  ELSE Metered("tool_execution", None)

(* #meter: None without a resource, or for a tool call that delegates. *)
Meter(span, s) ==
  IF span.type = "model_inference" THEN Model(span)
  ELSE IF span.type = "rag_embedding" THEN Embedding(span)
  ELSE Tool(span, s)

(* The record client.record() is given; None when there is none to give. *)
Record(s) ==
  LET span == spans[s]
      metered == Meter(span, s)
      attribution == ResolveAttribution(span.audr, Defaults)
  IN IF ~span.readable \/ ~IsMeteredSpanType(span.type) \/ metered = None \/ attribution = None
     THEN None
     ELSE [metered |-> metered, attribution |-> attribution, parent |-> span.parent,
           timing |-> SpanTiming(span.startTime, span.endTime), failed |-> span.failed]
(* What these give: an attribution, what a span is metered as, and a record. *)
Values ==
  LET given == (UNION {{forest[s].audr : s \in DOMAIN forest} : forest \in Forests}) \ {None}
  IN {None} \cup UNION {{audr[f] : f \in Fields} : audr \in given \cup {Defaults}}

Meterings ==
  [kind : {"generation", "embedding", "tool_execution"},
   usage : {None} \cup [input : Nat \cup {None}, cacheRead : Nat \cup {None},
                       cacheWrite : Nat \cup {None}]]

Records ==
  [metered : Meterings, attribution : [Fields -> Values],
   parent : {None} \cup UNION {DOMAIN forest : forest \in Forests},
   timing : [eventTime : Nat \cup {"now"}, durationMs : Nat \cup {None}], failed : BOOLEAN]

ASSUME NoneDistinct == None \notin [Fields -> Values] \cup Meterings \cup Records

(* The cache counters of a report add up to no more tokens than the prompt had. *)
ASSUME UsageTrue ==
  \A forest \in Forests : \A s \in DOMAIN forest :
    OrZero(Counter(forest[s].usage.cacheRead)) + OrZero(Counter(forest[s].usage.cacheWrite)) <= Prompt
-----------------------------------------------------------------------------
(* Events.                                                                 *)

Exported(s, kind) == \E k \in DOMAIN trace : trace[k] = <<kind, s>>

Init ==
  /\ spans \in Forests
  /\ open = {} /\ delegating = {}
  /\ log = [s \in DOMAIN spans |-> None]
  /\ trace = <<>>

(* Faulty variant: the parent need not be open. *)
TrackDelegationChildAny(s) ==
  IF IsDelegation(spans[s].type) /\ spans[s].parent # None
  THEN delegating \cup {spans[s].parent} ELSE delegating

TrackDelegationChild(s) ==
  IF IsDelegation(spans[s].type) /\ spans[s].parent \in open
  THEN delegating \cup {spans[s].parent} ELSE delegating

(* #trackStarted.  Spans of different branches, and of one, come in any order. *)
SpanStarted(s) ==
  /\ ~Exported(s, "started") /\ ~Exported(s, "ended")
  /\ open' = IF spans[s].type = "tool_call" THEN open \cup {s} ELSE open
  /\ delegating' = TrackDelegationChild(s)
  /\ trace' = Append(trace, <<"started", s>>)
  /\ UNCHANGED <<spans, log>>

(* Faulty variant: a span that cannot be read leaves its entries in the tables. *)
FinishToolUnless(s, table) == IF spans[s].readable THEN table \ {s} ELSE table

(* The finally block: whatever #record did, the tables forget the tool call. *)
FinishTool(s, table) == IF spans[s].type = "tool_call" THEN table \ {s} ELSE table

(* The end of a span, which may be its first event when its start was dropped. *)
SpanEnded(s) ==
  /\ ~Exported(s, "ended")
  /\ log' = [log EXCEPT ![s] = Record(s)]
  /\ open' = FinishTool(s, open)
  /\ delegating' = FinishTool(s, TrackDelegationChild(s))
  /\ trace' = Append(trace, <<"ended", s>>)
  /\ UNCHANGED spans

(* shutdown(): spans that are open now are forgotten; their ends may still be exported. *)
Shutdown ==
  /\ Cardinality({k \in DOMAIN trace : trace[k] = <<"shutdown">>}) < MaxShutdowns
  /\ open' = {} /\ delegating' = {}
  /\ trace' = Append(trace, <<"shutdown">>)
  /\ UNCHANGED <<spans, log>>

Next == Shutdown \/ \E s \in DOMAIN spans : SpanStarted(s) \/ SpanEnded(s)

Spec == Init /\ [][Next]_vars
-----------------------------------------------------------------------------
(* Properties.                                                             *)

(* The exporter could know that s delegates: after the start of s and before position k a
   child agent or workflow had an event, and nothing was shut down since the start. *)
DelegatedBefore(s, k) ==
  \E i, j \in 1..(k - 1) :
    /\ i < j /\ trace[i] = <<"started", s>>
    /\ \A n \in i..(k - 1) : trace[n] # <<"shutdown">>
    /\ \E child \in DOMAIN spans :
         /\ spans[child].parent = s /\ IsDelegation(spans[child].type)
         /\ trace[j] \in {<<"started", child>>, <<"ended", child>>}

(* What there is to bill a span for, delegation apart. *)
Billable(s) ==
  /\ spans[s].readable /\ ResolveAttribution(spans[s].audr, Defaults) # None
  /\ \/ spans[s].type \in {"tool_call", "mcp_tool_call"} /\ spans[s].name # None
     \/ /\ ProviderSlug(spans[s].provider) # None
        /\ \/ spans[s].type = "model_inference" /\ {spans[s].name, spans[s].responseModel} # {None}
           \/ spans[s].type = "rag_embedding" /\ spans[s].name # None

(* Every billable span that has ended is recorded, but for a tool call that is known to
   delegate when it ends, however its events and shutdown interleave with its children's
   (exportTracingEvent, #tool). *)
SpansBilled ==
  \A k \in DOMAIN trace : trace[k][1] = "ended" =>
    LET s == trace[k][2]
    IN log[s] # None <=>
         Billable(s) /\ ~(spans[s].type = "tool_call" /\ DelegatedBefore(s, k))

(* A record counts each token once and gives no negative duration. *)
CountsTruthful ==
  \A s \in DOMAIN spans : log[s] # None =>
    /\ log[s].timing.durationMs # None => log[s].timing.durationMs >= 0
    /\ log[s].metered.usage # None =>
         LET usage == log[s].metered.usage
         IN OrZero(usage.input) + OrZero(usage.cacheRead) + OrZero(usage.cacheWrite) <= Prompt

RecordsExact == SpansBilled /\ CountsTruthful

(* The tables hold only tool calls that have started and not ended, so they do not grow with
   the spans a process has seen (#finishTool, #trackDelegationChild). *)
NoResidue ==
  /\ delegating \subseteq open
  /\ \A s \in open : Exported(s, "started") /\ ~Exported(s, "ended") /\ spans[s].type = "tool_call"
=============================================================================
