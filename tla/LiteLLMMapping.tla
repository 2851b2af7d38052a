--------------------------- MODULE LiteLLMMapping ---------------------------
(* The LiteLLM adapter's mapping: map_callback turns what LiteLLM passes to a   *)
(* logging callback into a record, or says why there is none.  A callback is a  *)
(* record of the fields that are read; a candidate list is a sequence.          *)
EXTENDS ScopeTracker

Outcome(kind, path) == [kind |-> kind, path |-> path, record |-> None]

GenerationCalls == {"completion", "responses"}

EmbeddingCalls == {"embedding"}

RerankCalls == {"rerank"}

OperationFrom(callType) ==
  IF callType \in GenerationCalls THEN "generation"
  ELSE IF callType \in EmbeddingCalls THEN "embedding"
  ELSE IF callType \in RerankCalls THEN "reranking"
  ELSE None

(* The first candidate that is a non-empty string; of providers, one with a letter or digit. *)
FirstOf(candidates) ==
  LET usable == SelectSeq(candidates, LAMBDA c : c \notin {None, Garbled, ""})
  IN IF usable = <<>> THEN None ELSE Head(usable)

ProviderFrom(cb) == FirstOf(cb.providers)

ModelFrom(cb) == FirstOf(cb.models)

(* Explicit nulls override a default, but not its labels. *)
Attributed(defaults, overrides) ==
  IF overrides = None THEN defaults ELSE Merge(defaults, overrides)

Exclusive(total, read, written) ==
  IF total = None THEN None
  ELSE IF total > OrZero(read) + OrZero(written) THEN total - OrZero(read) - OrZero(written)
  ELSE 0

(* _compact drops nulls before the aliases are tried, so a counter is its first alias that
   is not null; a usage without any counter is none.  Output and reasoning tokens are treated
   as input and cached ones are. *)
StandardUsage(usage) ==
  IF Garbled \in Range(usage) THEN Garbled
  ELSE IF Range(usage) = {None} THEN None
  ELSE [input |-> Exclusive(usage.prompt, usage.read, usage.written),
        read |-> usage.read, written |-> usage.written, units |-> None]

RerankUsage(meta, provider) ==
  IF meta = None THEN None
  ELSE IF Garbled \in Range(meta) THEN Garbled
  ELSE IF Range(meta) = {None} THEN None
  ELSE [input |-> IF meta.input = None /\ meta.billed # None
                  THEN Exclusive(meta.billed, meta.output, None) ELSE meta.input,
        read |-> None, written |-> None,
        units |-> IF provider = None THEN None ELSE meta.units]

UsageFrom(cb, operation) ==
  IF cb.usage # None THEN StandardUsage(cb.usage)
  ELSE IF operation = "reranking" THEN RerankUsage(cb.rerank, ProviderFrom(cb))
  ELSE None

CostFrom(cb) == IF cb.cost # None THEN cb.cost ELSE cb.hiddenCost

(* LiteLLM reports a cost of zero for every failure. *)
CostIsEvidence(cost, failed) == cost # None /\ (cost > 0 \/ ~failed)

TimingFrom(cb) ==
  IF None \in {cb.started, cb.ended} THEN None ELSE ElapsedMs(cb.started, cb.ended)

(* The call's own ids, unless the request gave a run; "fresh" is a new uuid. *)
RunFrom(cb) ==
  [run |-> FirstOf(<<cb.run, cb.trace, cb.id, "fresh">>),
   span |-> FirstOf(<<cb.id, "fresh">>),
   error |-> IF cb.failed THEN "error" ELSE None]

(* cb.invalid is what the Resource, the Run or the finished record fails validation on. *)
MapCallback(cb) ==
  LET attribution == Attributed(Defaults, cb.attribution)
      operation == OperationFrom(cb.callType)
      usage == UsageFrom(cb, operation)
      cost == CostFrom(cb)
  IN IF cb.kwargs = Garbled THEN Outcome("malformed", "/")
     ELSE IF cb.cacheHit THEN Outcome("skipped", "/cache_hit")
     ELSE IF cb.metadata = Garbled THEN Outcome("malformed", "/litellm_params/metadata/audr")
     ELSE IF ~Billable(attribution) THEN Outcome("skipped", "/attribution")
     ELSE IF operation = None THEN Outcome("skipped", "/call_type")
     ELSE IF usage = Garbled THEN Outcome("malformed", "/usage")
     ELSE IF cost = Garbled THEN Outcome("malformed", "/response_cost")
     ELSE IF usage = None /\ ~CostIsEvidence(cost, cb.failed) THEN Outcome("skipped", "/usage")
     ELSE IF ProviderFrom(cb) = None THEN Outcome("skipped", "/custom_llm_provider")
     ELSE IF ModelFrom(cb) = None THEN Outcome("skipped", "/model")
     ELSE IF TimingFrom(cb) = None THEN Outcome("malformed", "/timing")
     ELSE IF cb.invalid # None THEN Outcome("malformed", cb.invalid)
     ELSE [kind |-> "ready", path |-> None,
           record |-> [run |-> RunFrom(cb), operation |-> operation,
                       provider |-> ProviderFrom(cb), name |-> ModelFrom(cb),
                       duration |-> TimingFrom(cb), attribution |-> attribution,
                       usage |-> usage, cost |-> cost]]
=============================================================================
