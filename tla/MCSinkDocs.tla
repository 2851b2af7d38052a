----------------------------- MODULE MCSinkDocs -----------------------------
(* Records for the instances of the two sinks, by name: one that encodes, and *)
(* others that differ from it in a field that matters to a sink.  The schema   *)
(* admits no fields next to usage.llm such as those of overwritten, of which   *)
(* one loses its place, but the sinks do not check what they are handed.       *)
EXTENDS SinkEncoding

Text(is, length) ==
  [kind |-> "string", is |-> is, length |-> length, blank |-> length = 0, padded |-> FALSE]

Blank == [Text("spaces", 3) EXCEPT !.blank = TRUE, !.padded = TRUE]

Instant(is, digits, negative) ==
  [kind |-> "string", is |-> is, length |-> 24, blank |-> FALSE, padded |-> FALSE,
   digits |-> digits, negative |-> negative]

Number(is, sound) == [kind |-> "number", is |-> is, sound |-> sound]

Items(is, sound) == [kind |-> "array", is |-> is, sound |-> sound]

Leaf(path, value) == [path |-> path, value |-> value]

Tokens == <<<<"usage">>, <<"llm">>, <<"input", "_", "tokens">>>>

Label(key) == <<<<"attribution">>, Labels, key>>

Count(key) == <<<<"usage">>, <<"llm">>, key>>

Extra(key) == <<<<"usage">>, key>>

Base ==
  <<Leaf(RecordId, Text("id", 36)), Leaf(SubscriptionId, Text("sub", 50)),
    Leaf(FeatureId, Text("search", 6)), Leaf(Label(<<"team">>), Text("core", 4)),
    Leaf(EventTime, Instant("2026", 13, FALSE)), Leaf(Tokens, Number("12", TRUE))>>

(* The base with another value at this path, or with a new leaf. *)
With(path, value) ==
  IF \E k \in DOMAIN Base : Base[k].path = path
  THEN [k \in DOMAIN Base |-> IF Base[k].path = path THEN Leaf(path, value) ELSE Base[k]]
  ELSE Append(Base, Leaf(path, value))

Twice(a, b) == Base \o <<Leaf(a, Text("one", 3)), Leaf(b, Text("two", 3))>>

MCDocs ==
  [plain        |-> Base,
   changed      |-> With(Tokens, Number("13", TRUE)),
   unroutable   |-> With(SubscriptionId, Undefined),
   nameless     |-> With(SubscriptionId, Text("", 0)),
   blank        |-> With(SubscriptionId, Blank),
   long         |-> With(SubscriptionId, Text("long", 51)),
   longId       |-> With(RecordId, Text("long", 37)),
   noFeature    |-> With(FeatureId, Undefined),
   padded       |-> With(FeatureId, [Text("search ", 7) EXCEPT !.padded = TRUE]),
   leapSecond   |-> With(EventTime, Instant("2016", None, FALSE)),
   year2000     |-> With(EventTime, Instant("2000", 12, FALSE)),
   year1966     |-> With(EventTime, Instant("1966", 13, TRUE)),
   correction   |-> With(Corrects, Text("earlier", 36)),
   absent       |-> With(Extra(<<"x", "_", "none">>), Undefined),
   null         |-> With(Extra(<<"x", "_", "null">>), [kind |-> "null"]),
   flag         |-> With(Extra(<<"x", "_", "flag">>), [kind |-> "boolean", is |-> "true"]),
   symbol       |-> With(Extra(<<"x", "_", "symbol">>), [kind |-> "other"]),
   notANumber   |-> With(Tokens, Number("NaN", FALSE)),
   list         |-> With(Extra(<<"x", "_", "list">>), Items("[1]", TRUE)),
   brokenList   |-> With(Extra(<<"x", "_", "list">>), Items("[NaN]", FALSE)),
   foreign      |-> With(Extra(<<"x", "_", "%">>), Text("one", 3)),
   reserved     |-> With(<<<<"event", "_", "meta">>>>, Text("one", 3)),
   dotted       |-> Twice(Label(<<"a", ".", "b">>), Label(<<"a", "-", "c">>)),
   collide      |-> Twice(Label(<<"a", ".", "b">>), Label(<<"a", "-", "b">>)),
   collideAbsent |-> Append(With(Label(<<"a", ".", "b">>), Undefined),
                            Leaf(Label(<<"a", "_", "b">>), Text("one", 3))),
   doubled      |-> Twice(Label(<<"a", ".", ".", "b">>), Label(<<"a">>)),
   spelled      |-> Twice(Label(<<"b">>), Label(<<"b", "_", "_", "json">>))
                    \o <<Leaf(Count(<<"x", "_", "a">>), Number("1", TRUE)),
                         Leaf(Count(<<"x", "_", "a", "_", "_", "b">>), Number("2", TRUE))>>,
   overwritten  |-> Twice(<<<<"usage">>, <<"x", "_", "a">>, <<"b">>>>,
                          Extra(<<"x", "_", "a", "_", "_", "b">>)),
   reordered    |-> SubSeq(Base, 1, 4) \o <<Base[6], Base[5]>>]
=============================================================================
