---------------------------- MODULE RecordSchema ----------------------------
(* The schema of a record as the generated validator checks it, one table for   *)
(* each object: keywords and their values.  A pattern is known by a name;        *)
(* "extensions" is patternProperties for ^x_[a-z0-9_]+$, and "otherProperties"   *)
(* the schema of a property without one of its own.                             *)

NonEmpty == [type |-> "string", minLength |-> 1]
AnyText == [type |-> "string"]
Identifier == [type |-> "string", minLength |-> 8, maxLength |-> 64]
DateTime == [type |-> "string", pattern |-> "date-time"]
Count == [type |-> "integer", minimum |-> 0]
Amount == [type |-> "number", minimum |-> 0]
Enum(words) == [enum |-> words]

Version == [type |-> "string", pattern |-> "version"]

EmitterSchema ==
  [type |-> "object", additionalProperties |-> FALSE,
   required |-> {"component", "name", "version"},
   properties |-> [component |-> Enum({"harness", "router", "provider"}),
                   name |-> NonEmpty, version |-> NonEmpty]]

TimingTexts == [event_time |-> DateTime, received_time |-> DateTime]

TimingSchema ==
  [type |-> "object", additionalProperties |-> FALSE, required |-> {"event_time"},
   properties |-> [f \in DOMAIN TimingTexts \cup {"duration_ms"} |->
                     IF f = "duration_ms" THEN Count ELSE TimingTexts[f]]]

ResourceNames ==
  [provider |-> [type |-> "string", pattern |-> "slug"], type |-> Enum({"model", "tool"}),
   name |-> NonEmpty, namespace |-> NonEmpty]

ModelOperations == {"generation", "embedding", "reranking"}
ToolOperations == {"tool_execution", "retrieval"}

ResourceDetails ==
  [operation |-> Enum(ModelOperations \cup ToolOperations),
   modality |-> Enum({"text", "image", "audio", "multimodal"}),
   key_name |-> AnyText, region |-> AnyText, deployment |-> NonEmpty]

(* Two tables of properties put together. *)
Merge(a, b) == [f \in DOMAIN a \cup DOMAIN b |-> IF f \in DOMAIN a THEN a[f] ELSE b[f]]

ResourceSchema ==
  [type |-> "object", additionalProperties |-> FALSE,
   required |-> {"provider", "type", "name", "operation"},
   properties |-> Merge(ResourceNames, ResourceDetails)]

RunSpans ==
  [run_id |-> Identifier, name |-> NonEmpty, span_id |-> NonEmpty, parent_span_id |-> NonEmpty]

RunProgress ==
  [step |-> Count, trace_id |-> AnyText,
   run_type |-> Enum({"agent_run", "workflow", "single_call"})]

(* Faulty variant: compiled from an older list of outcomes. *)
RunEndStale ==
  [error_code |-> NonEmpty, error_reason |-> [type |-> "string", maxLength |-> 32],
   outcome |-> Enum({"resolved", "escalated", "failed"})]

RunEnd ==
  [error_code |-> NonEmpty, error_reason |-> [type |-> "string", maxLength |-> 32],
   outcome |-> Enum({"resolved", "escalated", "abandoned", "failed"})]

RunSchema ==
  [type |-> "object", additionalProperties |-> FALSE, required |-> {"run_id", "span_id"},
   properties |-> Merge(RunSpans, Merge(RunProgress, RunEnd))]

AttributionIds ==
  [environment |-> Enum({"production", "staging", "development", "test", "evaluation"}),
   user_id |-> AnyText, account_id |-> NonEmpty]

AttributionPlan == [subscription_id |-> AnyText, feature_id |-> NonEmpty]

LabelNames == [maxLength |-> 64, pattern |-> "label"]
LabelValues == [type |-> "string", maxLength |-> 256]

LabelsSchema ==
  [type |-> "object", maxProperties |-> 20, propertyNames |-> LabelNames,
   properties |-> <<>>, otherProperties |-> LabelValues]

AttributionSchema ==
  [type |-> "object", additionalProperties |-> FALSE, required |-> {},
   properties |-> Merge([labels |-> LabelsSchema], Merge(AttributionIds, AttributionPlan))]

LlmTokens ==
  [f \in {"input_tokens", "output_tokens", "cache_read_tokens"} |-> Count]

LlmMoreTokens ==
  [f \in {"cache_write_tokens", "reasoning_tokens", "requests"} |-> Count]

LlmMedia ==
  [images_processed |-> Count, audio_input_seconds |-> Amount, audio_output_seconds |-> Amount]

LlmUsageSchema ==
  [type |-> "object", additionalProperties |-> FALSE, required |-> {}, minProperties |-> 1,
   properties |-> Merge(LlmTokens, Merge(LlmMoreTokens, LlmMedia)), extensions |-> Amount]

ToolUsages == [type |-> NonEmpty, call_count |-> Count, sandbox_time |-> Amount]

ToolUsageSchema ==
  [type |-> "object", additionalProperties |-> FALSE, required |-> {}, minProperties |-> 1,
   properties |-> ToolUsages, extensions |-> Amount]

UsageSchema ==
  [type |-> "object", additionalProperties |-> FALSE, required |-> {},
   properties |-> [llm |-> LlmUsageSchema, tool |-> ToolUsageSchema]]

LlmInOutCosts ==
  [f \in {"total_token_cost", "input_token_cost", "output_token_cost"} |-> Amount]

LlmOtherCosts ==
  [f \in {"cache_read_cost", "cache_write_cost", "reasoning_cost"} |-> Amount]

LlmCostSchema ==
  [type |-> "object", additionalProperties |-> FALSE, required |-> {"total_token_cost"},
   properties |-> Merge(LlmInOutCosts, LlmOtherCosts)]

ToolCosts == [type |-> NonEmpty, call_cost |-> Amount, sandbox_cost |-> Amount]

ToolCostSchema ==
  [type |-> "object", additionalProperties |-> FALSE, required |-> {}, minProperties |-> 1,
   properties |-> ToolCosts, extensions |-> Amount]

CostTotals ==
  [total_cost |-> Amount, currency |-> [type |-> "string", pattern |-> "currency"]]

Discounts ==
  [original_cost |-> Amount, discount_amount |-> Amount,
   discount_percent |-> [type |-> "number", minimum |-> 0, maximum |-> 100]]

CostSchema ==
  [type |-> "object", additionalProperties |-> FALSE, required |-> {"total_cost", "currency"},
   properties |-> Merge(CostTotals, Merge(Discounts, [llm |-> LlmCostSchema, tool |-> ToolCostSchema]))]

RootSchema ==
  [type |-> "object", additionalProperties |-> FALSE,
   required |-> {"spec_version", "record_id", "emitter", "timing", "resource", "usage", "run",
                 "attribution"},
   properties |-> [spec_version |-> Version, record_id |-> Identifier, corrects |-> Identifier,
                   emitter |-> EmitterSchema, timing |-> TimingSchema,
                   resource |-> ResourceSchema, run |-> RunSchema,
                   attribution |-> AttributionSchema, usage |-> UsageSchema,
                   cost |-> CostSchema]]
=============================================================================
