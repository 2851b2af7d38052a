--------------------------- MODULE MCGatewayMeter ---------------------------
(* Small scopes, bodies and lookup answers for GatewayMeter.                  *)
EXTENDS GatewayMeter

Attribution(environment, account) == [environment |-> environment, account_id |-> account]

MCDefaultSets == {Attribution(None, "a0")}

MCContexts ==
  {[readable |-> TRUE, attribution |-> Attribution("test", "a1"),
    run |-> [id |-> "r1", parent |-> "s1"]],
   [readable |-> TRUE, attribution |-> Attribution(None, "a2"),
    run |-> [id |-> "r1", parent |-> None]],
   [readable |-> FALSE, attribution |-> Attribution("test", "a3"),
    run |-> [id |-> "r2", parent |-> None]]}

Metadata(selected, isByok) ==
  [available |-> <<[selected |-> FALSE, provider |-> "other"],
                   [selected |-> selected, provider |-> "vendor"]>>,
   isByok |-> isByok]

Metadatas == {None, Metadata(FALSE, None), Metadata(TRUE, "yes"), Metadata(TRUE, "no")}

Full ==
  [id |-> "gen", model |-> "m", metadata |-> None, isByok |-> None, usage |-> TRUE,
   cost |-> Charge, upstream |-> None, prompt |-> Prompt, cacheRead |-> None,
   cacheWrite |-> None, status |-> "completed"]

(* What a body says of the cost, of the tokens and of itself varies in turn. *)
MCBodies ==
  {[Full EXCEPT !.metadata = m, !.isByok = b, !.upstream = u] :
     m \in Metadatas, b \in {None}, u \in {None, Upstream}}
  \cup {[Full EXCEPT !.isByok = b] : b \in {"yes", "no"}}
  \cup {[Full EXCEPT !.cost = Null, !.isByok = "yes"]}
  \cup {[Full EXCEPT !.cacheRead = r, !.cacheWrite = 1] : r \in {Null, 0, CacheRead}}
  \cup {[Full EXCEPT !.prompt = Null, !.cacheRead = CacheRead]}
  \cup {[Full EXCEPT !.id = i] : i \in {"gen_long", "resp", None}}
  \cup {[Full EXCEPT !.model = None], [Full EXCEPT !.status = "failed"]}
  \cup {[Full EXCEPT !.usage = FALSE, !.metadata = m] : m \in {None, Metadata(TRUE, "yes")}}

MCFactSets ==
  [provider : {"vendor"}, cacheHit : {FALSE}, isByok : {None, "yes"},
   upstream : {None, Upstream}]
  \cup [provider : {"symbols"}, cacheHit : BOOLEAN, isByok : {"no"}, upstream : {None}]
=============================================================================
