---------------------------- MODULE MCLoopHandoff ----------------------------
(* Small instances of LoopHandoff for TLC.                                 *)
EXTENDS LoopHandoff

MCDefaults ==
  [f \in Fields |-> IF f = "environment" THEN "test" ELSE IF f = "team" THEN "core" ELSE "host"]

Paid(account) == [f \in Fields |-> IF f = "account_id" THEN account ELSE Unset]

Meta(kind) == [kind |-> kind, audr |-> Paid(Unset)]

Names(overrides) == [kind |-> "given", audr |-> overrides]

Usage(prompt, read, written) == [prompt |-> prompt, read |-> read, written |-> written]

(* An LLM scope under no parent that was seen; three fresh tokens, two of the cache. *)
Llm ==
  [parent |-> "ambient", metadata |-> Meta("none"), started |-> 1, ended |-> 3, category |-> "llm",
   startShape |-> "ok", endShape |-> "ok", profile |-> None, usage |-> Usage(5, 2, None),
   model |-> "m", api |-> "openai", name |-> "p", cost |-> 1, failed |-> FALSE, fresh |-> 3,
   sound |-> TRUE]

Agent == [Llm EXCEPT !.category = "agent"]

Tool(failed) == [Llm EXCEPT !.category = "tool", !.failed = failed]

Root == [Agent EXCEPT !.metadata = Names(Paid("one"))]

(* A root that names its payer, a child that ends or stays open, and a late child of the root:
   what is lost, forgotten or still tracked decides who pays. *)
Lineage ==
  [s1 |-> [Root EXCEPT !.endShape = "never"], s2 |-> [Agent EXCEPT !.parent = "s1"],
   s3 |-> [Tool(TRUE) EXCEPT !.parent = "s1"]]

(* Starts that say something odd, a root and its child, and ends that do. *)
OddStarts ==
  <<<<[Root EXCEPT !.startShape = "malformed"], Meta("none")>>,
    <<Root, Meta("null")>>, <<Root, Names(Paid(Garbled))>>,
    <<[Agent EXCEPT !.metadata = Meta("scalar")], Names([Paid("two") EXCEPT !["team"] = "sales"])>>,
    <<[Agent EXCEPT !.metadata = Names([Paid("one") EXCEPT !["environment"] = None])],
      Meta("scalar")>>,
    <<[Agent EXCEPT !.metadata = Names([Paid(None) EXCEPT !["environment"] = "production"])],
      Meta("garbled")>>>>

OddEnds ==
  <<[Llm EXCEPT !.api = "anthropic_messages", !.usage = Usage(3, 2, None)],
    [Llm EXCEPT !.usage = Usage(None, 2, 1), !.ended = 0],
    [Llm EXCEPT !.usage = Usage(3, None, None), !.cost = Garbled],
    [Llm EXCEPT !.usage = Usage(1, 2, None), !.fresh = 0],
    [Llm EXCEPT !.usage = Usage(5, Garbled, None), !.sound = FALSE],
    [Llm EXCEPT !.usage = None, !.sound = FALSE],
    [Llm EXCEPT !.profile = Garbled, !.sound = FALSE],
    [Llm EXCEPT !.model = None, !.sound = FALSE],
    [Llm EXCEPT !.name = None, !.sound = FALSE],
    [Tool(FALSE) EXCEPT !.name = None, !.sound = FALSE],
    [Llm EXCEPT !.endShape = "malformed"], [Llm EXCEPT !.endShape = "rejected"],
    [Llm EXCEPT !.endShape = "ignored"]>>

(* Two operations, each with a payer of its own. *)
Pair ==
  [s1 |-> Llm, s2 |-> [Tool(FALSE) EXCEPT !.parent = "s1", !.metadata = Names(Paid("two"))]]

MCTraces == Range(
  <<Lineage, Pair>>
  \o [k \in DOMAIN OddStarts |->
        [s1 |-> OddStarts[k][1],
         s2 |-> [Llm EXCEPT !.parent = "s1", !.metadata = OddStarts[k][2]]]]
  \o [k \in DOMAIN OddEnds |-> [s1 |-> OddEnds[k]]])

Call ==
  [kwargs |-> None, cacheHit |-> FALSE, metadata |-> None, attribution |-> None,
   callType |-> "completion", usage |-> Usage(5, 2, None), rerank |-> None,
   providers |-> <<None, "p">>, models |-> <<None, "m">>, cost |-> 1, hiddenCost |-> None,
   started |-> 1, ended |-> 3, run |-> None, trace |-> "t", id |-> "c", failed |-> FALSE,
   invalid |-> None, fresh |-> 3, charged |-> TRUE, account |-> "host"]

Rerank ==
  [Call EXCEPT !.callType = "rerank", !.usage = None, !.cost = None,
     !.rerank = [input |-> None, output |-> None, billed |-> 4, units |-> 1]]

OddCalls ==
  <<[Call EXCEPT !.attribution = Paid("two"), !.account = "two"],
    [Call EXCEPT !.attribution = Paid(None), !.account = None],
    [Call EXCEPT !.attribution = Paid(Garbled), !.account = Garbled],
    [Call EXCEPT !.attribution = [Paid(None) EXCEPT !["environment"] = "production"],
                !.account = None],
    [Call EXCEPT !.cacheHit = TRUE, !.charged = FALSE],
    [Call EXCEPT !.failed = TRUE, !.cost = 0, !.usage = None, !.charged = FALSE],
    [Call EXCEPT !.failed = TRUE, !.cost = 0],
    [Call EXCEPT !.failed = TRUE, !.usage = None],
    [Call EXCEPT !.usage = None, !.cost = None, !.hiddenCost = 1],
    [Call EXCEPT !.usage = Usage(None, None, None), !.cost = None, !.charged = FALSE],
    [Call EXCEPT !.usage = Usage(Garbled, None, None)], [Call EXCEPT !.cost = Garbled],
    [Call EXCEPT !.callType = "moderation", !.charged = FALSE],
    [Call EXCEPT !.callType = "embedding", !.usage = Usage(3, None, None)],
    [Call EXCEPT !.providers = <<None, Garbled, "">>], [Call EXCEPT !.models = <<None>>],
    [Call EXCEPT !.ended = None], [Call EXCEPT !.metadata = Garbled],
    [Call EXCEPT !.kwargs = Garbled], [Call EXCEPT !.invalid = "/run"],
    [Call EXCEPT !.run = "r", !.id = None], Rerank,
    [Rerank EXCEPT !.rerank = [input |-> 3, output |-> 1, billed |-> 4, units |-> None]],
    [Rerank EXCEPT !.rerank = [input |-> Garbled, output |-> 1, billed |-> 4, units |-> None]],
    [Rerank EXCEPT !.rerank = [input |-> None, output |-> None, billed |-> None, units |-> None],
                  !.charged = FALSE],
    [Rerank EXCEPT !.rerank = None, !.charged = FALSE]>>

(* Three calls at once, and every odd one. *)
ThreeCalls == [c1 |-> Call, c2 |-> Call, c3 |-> Call]

MCCalls == Range(
  <<ThreeCalls>> \o [k \in DOMAIN OddCalls |-> [c1 |-> OddCalls[k]]])

(* drain() is called in the runs that have several handoffs under way at once. *)
Focused == input \in {Pair, ThreeCalls} \/ UNCHANGED drain

FocusedSpec == Init /\ [][Next /\ Focused]_vars /\ Fairness
=============================================================================
