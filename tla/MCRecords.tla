----------------------------- MODULE MCRecords -----------------------------
(* Two sound inputs, a model call and a tool call, and for every property of    *)
(* the schema a handful of values at and beyond its limits.                   *)
EXTENDS Records, TLC

Word(w) == Text(w, 8, {})

Id == Text("uuid", 36, {"id"})

MCClockParts ==
  [y |-> 2026, mo |-> 3, d |-> 1, h |-> 0, mi |-> 0, s |-> 0, ms |-> 0, finer |-> FALSE,
   sign |-> 1, oh |-> 0, om |-> 0]

Common ==
  <<>> :> Plain @@ <<"emitter">> :> Plain @@ <<"emitter", "component">> :> Word("harness") @@
  <<"emitter", "name">> :> Word("n") @@ <<"emitter", "version">> :> Word("v") @@
  <<"resource">> :> Plain @@ <<"resource", "provider">> :> Text("p", 8, {"slug"}) @@
  <<"resource", "name">> :> Word("n") @@
  <<"run">> :> Plain @@ <<"run", "run_id">> :> Id @@ <<"run", "span_id">> :> Word("s") @@
  <<"attribution">> :> Plain @@ <<"attribution", "environment">> :> Word("production") @@
  <<"attribution", "account_id">> :> Word("a") @@
  <<"attribution", "labels">> :> Plain @@ <<"attribution", "labels", "team">> :> Word("t") @@
  <<"usage">> :> Plain @@ <<"cost">> :> Plain @@
  <<"cost", "total_cost">> :> Number(1, FALSE) @@ <<"cost", "currency">> :> Text("USD", 3, {"currency"})

ToolCall ==
  Common @@ <<"resource", "type">> :> Word("tool") @@ <<"resource", "operation">> :> Word("retrieval") @@
  <<"usage", "tool">> :> Plain @@ <<"usage", "tool", "call_count">> :> Number(1, TRUE) @@
  <<"timing">> :> Plain

MCInputs ==
  {Common @@ <<"resource", "type">> :> Word("model") @@ <<"resource", "operation">> :> Word("generation") @@
     <<"resource", "modality">> :> Word("text") @@ <<"usage", "llm">> :> Plain @@
     <<"usage", "llm", "input_tokens">> :> Number(5, TRUE),
   ToolCall @@ <<"timing", "event_time">> :> [type |-> "date", valid |-> TRUE, minutes |-> 5],
   ToolCall @@ <<"timing", "event_time">> :> [type |-> "date", valid |-> FALSE]}

(* Values at and beyond the limits of a schema; t is the type that callers see. *)
Samples(schema, t) ==
  IF "enum" \in DOMAIN schema THEN {Word(w) : w \in t.words} \cup {Word("other"), Number(1, TRUE)}
  ELSE IF schema.type = "object" THEN {Plain, [type |-> "array"], Object("date", 0)}
  ELSE IF schema.type = "string"
  THEN {Text("", 0, {}), Word("w"), Text("long", 300, {}), NotFinite,
        Text("fit", 8, {"version", "slug", "currency", "id", "trace"})}
  ELSE {Number(0, TRUE), Number(-1, TRUE), Number(101, FALSE), NotFinite, Word("w")}

Times ==
  {Stamp(MCClockParts)} \cup
  {Stamp([MCClockParts EXCEPT !.mo = 2, !.d = 29]), Stamp([MCClockParts EXCEPT !.y = 2024, !.mo = 2, !.d = 29]),
   Stamp([MCClockParts EXCEPT !.h = 24]), Stamp([MCClockParts EXCEPT !.mi = 5, !.ms = 1]),
   Stamp([MCClockParts EXCEPT !.finer = TRUE]), Stamp([MCClockParts EXCEPT !.mo = 13]),
   Stamp([MCClockParts EXCEPT !.mo = 2, !.d = 28, !.h = 19, !.mi = 6, !.sign = -1, !.oh = 5]),
   Stamp([MCClockParts EXCEPT !.h = 5, !.mi = 35, !.oh = 5, !.om = 30])}

PropertyEdits(p, schema) ==
  LET t == (CHOOSE entry \in TypedObjects : entry[1] = p)[2]
  IN UNION {{<<Append(p, f), v>> :
               v \in Samples(schema.properties[f], t.properties[f]) \cup {Absent, Undefined}} :
            f \in DOMAIN schema.properties}

SchemaEdits == UNION {PropertyEdits(entry[1], entry[2]) : entry \in ObjectSchemas}

OtherEdits ==
  {<<<<"timing", "event_time">>, t>> : t \in Times} \cup
  {<<<<>>, [type |-> "array"]>>, <<<<>>, Null>>, <<<<"extra">>, Word("w")>>, <<<<"extra">>, Function>>,
   <<<<"emitter", "extra">>, Word("w")>>,
   <<<<"attribution", "user_id">>, Text("mail", 8, {"at"})>>,
   <<<<"attribution", "labels">>, Object("plain", 21)>>, <<<<"attribution", "labels">>, Object("plain", 20)>>,
   <<<<"attribution", "labels">>, Object("weak", 0)>>, <<<<"attribution", "labels">>, Object("trap", 0)>>,
   <<<<"attribution", "labels", "team">>, Undefined>>, <<<<"attribution", "labels", "team">>, Function>>,
   <<<<"attribution", "labels", "team">>, Text("long", 300, {})>>,
   <<<<"attribution", "labels", "a b">>, Word("w")>>, <<<<"attribution", "labels", "a b">>, Null>>,
   <<<<"attribution", "labels", "longest">>, Word("w")>>} \cup
  {<<<<u, k, x>>, v>> : u \in {"usage", "cost"}, k \in {"llm", "tool"}, x \in {"x_ok", "x_Bad"},
                      v \in {Number(1, FALSE), Number(-1, TRUE), Word("w")}}

MCEdits == SchemaEdits \cup OtherEdits

(* The second edit: what decides the shape of a record, and labels. *)
MCPivots ==
  {e \in MCEdits :
     \/ e[1] = <<"resource", "operation">> /\ e[2] \in {Word("embedding"), Word("tool_execution"), Absent}
     \/ e[1] \in {<<"usage">>, <<"usage", "llm">>, <<"usage", "tool">>} /\ e[2] \in {Plain, Absent}
     \/ e[1] \in {<<"usage", "llm", "requests">>, <<"usage", "tool", "type">>, <<"cost", "tool", "x_ok">>}
          /\ e[2] \in {Number(0, TRUE), Word("w"), Number(1, FALSE)}
     \/ e[1] = <<"attribution", "environment">> /\ e[2] \in {Absent, Word("test")}
     \/ e[1] \in {<<"attribution", "account_id">>, <<"resource">>} /\ e[2] = Absent
     \/ e[1] = <<"attribution", "labels", "a b">> /\ e[2] = Null
     \/ e = <<<<"resource">>, [type |-> "array"]>>}
=============================================================================
