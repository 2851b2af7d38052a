---------------------------- MODULE ScopeTracker ----------------------------
(* The NeMo Relay adapter's mapping: ScopeTracker follows the scopes of an      *)
(* agent run and completes a metered one into a record.  It is called under its *)
(* lock, so each event is one step on                                           *)
(*   scopes   the open scopes, the longest tracked first, and                   *)
(*   retired  the ids of scopes that ended or were evicted, oldest first;       *)
(* both are bounded, and the oldest entries go.                                 *)
EXTENDS Naturals, Sequences, SequencesExt

CONSTANTS
  None, Unset,  \* null, and a key that is absent
  Garbled,      \* a value that is not of its type, or that cannot be billed on
  Defaults,     \* attribution_defaults
  MaxScopes     \* max_tracked_scopes

Fields == {"environment", "account_id", "team"}   \* team stands for a label

ASSUME TrackerOptions ==
  /\ DOMAIN Defaults = Fields /\ Garbled \notin Range(Defaults)
  /\ MaxScopes \in Nat \ {0}

(* What the metadata of a scope may hold: nothing, no mapping, the audr namespace with null,
   with no mapping, or with values for some fields. *)
IsMetadata(m) == m.kind \in {"none", "scalar", "null", "garbled", "given"} /\ DOMAIN m.audr = Fields
-----------------------------------------------------------------------------
(* _attribution.py.                                                        *)

Unresolved(path) == [attribution |-> None, issue |-> path]

Merge(defaults, overrides) ==
  [f \in Fields |->
     IF f = "team" THEN IF overrides[f] \in {Unset, None} THEN defaults[f] ELSE overrides[f]
     ELSE IF overrides[f] = Unset THEN defaults[f] ELSE overrides[f]]

(* Attribution.validate(). *)
Billable(attribution) ==
  /\ Garbled \notin Range(attribution)
  /\ attribution["environment"] # None
  /\ attribution["environment"] = "production" => attribution["account_id"] # None

ResolveAttribution(defaults, metadata) ==
  LET overrides == IF metadata.kind = "given" THEN metadata.audr ELSE [f \in Fields |-> Unset]
  IN IF metadata.kind \in {"scalar", "garbled"} THEN Unresolved("/metadata")
     ELSE IF Garbled \in Range(overrides) THEN Unresolved("/metadata/audr")
     ELSE LET merged == Merge(defaults, overrides)
          IN IF Billable(merged) THEN [attribution |-> merged, issue |-> None]
             ELSE Unresolved("/attribution")
-----------------------------------------------------------------------------
(* Starts.                                                                 *)

NoScopes == [scopes |-> <<>>, retired |-> <<>>]

Tracked(t, id) == \E k \in DOMAIN t.scopes : t.scopes[k].id = id

StateOf(t, id) == CHOOSE s \in Range(t.scopes) : s.id = id

(* pop() of an OrderedDict. *)
Without(scopes, id) == RemoveFirstMatch(scopes, LAMBDA s : s.id = id)

DeclaresAttribution(metadata) == metadata.kind \notin {"none", "scalar"}

StartState(t, id, scope) ==
  LET own == DeclaresAttribution(scope.metadata)
      state(root, found) ==
        [id |-> id, parent |-> scope.parent, root |-> root, started |-> scope.started,
         attribution |-> found.attribution, issue |-> found.issue]
  IN IF ~own /\ Tracked(t, scope.parent)
       THEN LET parent == StateOf(t, scope.parent) IN state(parent.root, parent)
     ELSE IF ~own /\ scope.parent \in Range(t.retired)
       THEN state(id, Unresolved("/scope/parent_uuid"))
     ELSE state(id, ResolveAttribution(Defaults, scope.metadata))

Retire(retired, id) ==
  LET kept == Append(RemoveFirst(retired, id), id)
  IN IF Len(kept) <= MaxScopes THEN kept ELSE Tail(kept)

(* Both tables were within their bound before, so one entry goes at most. *)
EvictOverflow(t) ==
  IF Len(t.scopes) <= MaxScopes THEN t
  ELSE [scopes |-> Tail(t.scopes), retired |-> Retire(t.retired, Head(t.scopes).id)]

TrackStart(t, id, scope) ==
  EvictOverflow([scopes |-> Append(Without(t.scopes, id), StartState(t, id, scope)),
                 retired |-> t.retired])
-----------------------------------------------------------------------------
(* Ends.                                                                   *)

Result(kind, path) == [kind |-> kind, path |-> path, record |-> None]

OrZero(n) == IF n = None THEN 0 ELSE n

ExclusiveCount(total, read, written) ==
  IF total = None \/ (read = None /\ written = None) THEN total
  ELSE IF total > OrZero(read) + OrZero(written) THEN total - OrZero(read) - OrZero(written)
  ELSE 0

(* Only a cost the provider reported counts. *)
ProviderReportedCost(cost) == IF cost = Garbled THEN None ELSE cost

ElapsedMs(started, ended) == IF ended > started THEN ended - started ELSE 0

(* The completion tokens are read as the others are.  A mapping that is missing where Relay's
   codecs leave it out is skipped, any other is malformed. *)
NormalizeLlm(scope, shared) ==
  LET usage == scope.usage
      input == IF scope.api = "anthropic_messages" THEN usage.prompt
               ELSE ExclusiveCount(usage.prompt, usage.read, usage.written)
  IN IF scope.profile = Garbled THEN Result("malformed", "/category_profile")
     ELSE IF scope.usage = None THEN Result("skipped", "/usage")
     ELSE IF scope.model = None THEN Result("skipped", "/model")
     ELSE IF Garbled \in Range(usage) THEN Result("malformed", "/usage")
     ELSE IF scope.name = None THEN Result("malformed", "/name")
     ELSE [kind |-> "ready", path |-> None,
           record |-> [span |-> shared.span, run |-> shared.run, parent |-> shared.parent,
                       duration |-> shared.duration, attribution |-> shared.attribution,
                       type |-> "model", provider |-> scope.name, input |-> input,
                       read |-> usage.read, written |-> usage.written, error |-> None,
                       cost |-> ProviderReportedCost(scope.cost)]]

NormalizeTool(scope, shared) ==
  IF scope.name = None THEN Result("malformed", "/name")
  ELSE [kind |-> "ready", path |-> None,
        record |-> [span |-> shared.span, run |-> shared.run, parent |-> shared.parent,
                    duration |-> shared.duration, attribution |-> shared.attribution,
                    type |-> "tool", provider |-> "self-hosted",
                    error |-> IF scope.failed THEN "tool_error" ELSE None]]

(* Faulty variant: only an evicted scope is remembered. *)
ForgetEnded(t, id) == [t EXCEPT !.scopes = Without(@, id)]

(* _scopes.pop() and _retire(). *)
Pop(t, id) ==
  [scopes |-> Without(t.scopes, id), retired |-> Retire(t.retired, id)]

EndTracker(t, id) == IF Tracked(t, id) THEN Pop(t, id) ELSE t

(* _complete with the state that was popped, and encode_audr.  scope.ended is the end's
   timestamp. *)
EndResult(t, id, scope) ==
  IF scope.category \notin {"llm", "tool"} THEN Result("ignored", None)
  ELSE IF ~Tracked(t, id) THEN Result("skipped", "/scope/start")
  ELSE LET state == StateOf(t, id)
           shared == [span |-> id, run |-> state.root,
                      parent |-> IF state.root = id THEN None ELSE state.parent,
                      duration |-> ElapsedMs(state.started, scope.ended),
                      attribution |-> state.attribution]
       IN IF state.attribution = None THEN Result("skipped", state.issue)
          ELSE IF scope.category = "llm" THEN NormalizeLlm(scope, shared)
          ELSE NormalizeTool(scope, shared)
=============================================================================
