---------------------------- MODULE RecordTypes ----------------------------
(* The record types that callers compile against: what each interface requires  *)
(* and the type of each property.  An optional property also admits undefined.  *)

TString == [type |-> "string"]
TNumber == [type |-> "number"]
TWords(words) == [words |-> words]

Interface(required, properties) ==
  [type |-> "object", required |-> required, properties |-> properties]

Environment == TWords({"production", "staging", "development", "test", "evaluation"})

TAttribution ==
  Interface({}, [account_id |-> TString, environment |-> Environment, feature_id |-> TString,
                 labels |-> [type |-> "object", required |-> {}, properties |-> <<>>,
                             others |-> TString],
                 subscription_id |-> TString, user_id |-> TString])

TLlmCost ==
  Interface({"total_token_cost"},
    [f \in {"cache_read_cost", "cache_write_cost", "input_token_cost", "output_token_cost",
            "reasoning_cost", "total_token_cost"} |-> TNumber])

TToolCost ==
  [type |-> "object", required |-> {}, extension |-> TNumber,
   properties |-> [call_cost |-> TNumber, sandbox_cost |-> TNumber, type |-> TString]]

TCost ==
  Interface({"currency", "total_cost"},
    [currency |-> TString, discount_amount |-> TNumber, discount_percent |-> TNumber,
     llm |-> TLlmCost, original_cost |-> TNumber, tool |-> TToolCost, total_cost |-> TNumber])

EmitterComponent == TWords({"harness", "router", "provider"})

TEmitter ==
  Interface({"component", "name", "version"},
    [component |-> EmitterComponent, name |-> TString, version |-> TString])

Modality == TWords({"text", "image", "audio", "multimodal"})
Operation == TWords({"generation", "embedding", "reranking", "tool_execution", "retrieval"})
ResourceType == TWords({"model", "tool"})

TResource ==
  Interface({"name", "operation", "provider", "type"},
    [deployment |-> TString, key_name |-> TString, modality |-> Modality, name |-> TString,
     namespace |-> TString, operation |-> Operation, provider |-> TString, region |-> TString,
     type |-> ResourceType])

RunOutcome == TWords({"resolved", "escalated", "abandoned", "failed"})
RunType == TWords({"agent_run", "workflow", "single_call"})

TRun ==
  Interface({"run_id", "span_id"},
    [error_code |-> TString, error_reason |-> TString, name |-> TString, outcome |-> RunOutcome,
     parent_span_id |-> TString, run_id |-> TString, run_type |-> RunType, span_id |-> TString,
     step |-> TNumber, trace_id |-> TString])

TTiming ==
  Interface({"event_time"},
    [duration_ms |-> TNumber, event_time |-> TString, received_time |-> TString])

TLlmUsage ==
  [type |-> "object", required |-> {}, extension |-> TNumber,
   properties |->
     [f \in {"audio_input_seconds", "audio_output_seconds", "cache_read_tokens",
             "cache_write_tokens", "images_processed", "input_tokens", "output_tokens",
             "reasoning_tokens", "requests"} |-> TNumber]]

TToolUsage ==
  [type |-> "object", required |-> {}, extension |-> TNumber,
   properties |-> [call_count |-> TNumber, sandbox_time |-> TNumber, type |-> TString]]

TUsage == Interface({}, [llm |-> TLlmUsage, tool |-> TToolUsage])

(* AudrRecord: the generated shape, but for the emitter, which a client may stamp. *)
TRecord ==
  Interface({"attribution", "record_id", "resource", "run", "spec_version", "timing", "usage"},
    [attribution |-> TAttribution, corrects |-> TString, cost |-> TCost, emitter |-> TEmitter,
     record_id |-> TString, resource |-> TResource, run |-> TRun, spec_version |-> TString,
     timing |-> TTiming, usage |-> TUsage])
=============================================================================
