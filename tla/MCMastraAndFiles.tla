-------------------------- MODULE MCMastraAndFiles --------------------------
(* Two components that share nothing, each by itself: the Mastra adapter, with *)
(* small traces (a tool that delegates, one that does not, nested delegation,  *)
(* and spans that report badly), and the file sinks, with four batches of      *)
(* one and two records, the third of which is refused between two that are    *)
(* written, for a record that cannot be encoded.                              *)
EXTENDS MastraExporter, FileSink

CONSTANTS r1, r2, r3, r4, r5, r6

VARIABLE part \* the component that runs; the other stays as it began

MCBatches == <<<<r1, r2>>, <<r3>>, <<r4, r5>>, <<r6>>>>

MCUnencodable == {r5}

Attribution(environment, account) ==
  [f \in Fields |-> IF f = "environment" THEN environment ELSE account]

MCDefaults == Attribution(None, "a0")

Usage(input, cacheRead, cacheWrite) ==
  [input |-> input, cacheRead |-> cacheRead, cacheWrite |-> cacheWrite]

Span(type, parent) ==
  [type |-> type, parent |-> parent, readable |-> TRUE, name |-> "n", responseModel |-> None,
   provider |-> "vendor", usage |-> Usage(4, 2, 1), audr |-> Attribution("test", Garbled),
   startTime |-> 1, endTime |-> 3, failed |-> FALSE]

MCForests ==
  { <<Span("tool_call", None), Span("agent_run", 1), Span("model_inference", 2),
      [Span("mcp_tool_call", None) EXCEPT !.failed = TRUE]>>,
    <<Span("agent_run", None), Span("tool_call", 1), Span("workflow_run", 2),
      [Span("rag_embedding", 3) EXCEPT !.usage = Usage(2, 3, Garbled), !.endTime = 0]>>,
    <<Span("tool_call", None), Span("workflow_run", 1), Span("tool_call", 2),
      Span("agent_run", 3)>>,
    <<[Span("tool_call", None) EXCEPT !.readable = FALSE], Span("agent_run", 1),
      [Span("model_inference", None) EXCEPT !.provider = Garbled, !.startTime = Garbled],
      [Span("rag_embedding", 2) EXCEPT !.name = None]>>,
    <<Span("mcp_tool_call", None), Span("agent_run", 1),
      [Span("tool_call", 2) EXCEPT !.audr = None],
      [Span("model_inference", 2) EXCEPT !.name = None, !.responseModel = "r",
                                         !.usage = Usage(Garbled, 2, None)]>> }

PartsInit ==
  \/ part = "mastra" /\ Init /\ FileInit /\ runtime = "ts"
  \/ part = "files" /\ FileInit /\ Init /\ spans = CHOOSE forest \in Forests : TRUE

PartsNext ==
  /\ \/ part = "mastra" /\ Next /\ UNCHANGED fileVars
     \/ part = "files" /\ FileNext /\ UNCHANGED vars
  /\ UNCHANGED part

PartsSpec == PartsInit /\ [][PartsNext]_<<vars, fileVars, part>>
=============================================================================
