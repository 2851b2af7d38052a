----------------------------- MODULE LoopHandoff -----------------------------
(* The Python adapters whose events come on foreign threads: NeMoRelayPlugin    *)
(* and LiteLLMAudrCallback map an event on the thread that brings it, and their *)
(* EventLoopBridge hands the record to the event loop that owns the client.     *)
(* Both bridges are the same code.  A thread runs until it takes or releases a  *)
(* lock, or reads what another thread may change; the loop runs one callback,   *)
(* or one coroutine up to its next await, at a time.                            *)
EXTENDS FiniteSets, LiteLLMMapping

CONSTANTS
  Traces,         \* Relay runs: each gives its scopes by id
  Calls,          \* LiteLLM processes: each gives its callbacks by id
  Drains,         \* calls of drain()
  MaxPending,     \* max_pending_handoffs
  MaxActivations  \* bound: activations of one plugin

Counters == Nat \cup {None, Garbled}

Usages == [prompt : Counters, read : Counters, written : Counters]

Rerankings == [input : Counters, output : Counters, billed : Counters, units : Counters]

(* What LiteLLM's mapping makes of a call's type and of its usage. *)
Operations == {"generation", "embedding", "reranking"}

MappedUsages == [input : Counters, read : Counters, written : Counters, units : Counters]

(* What Relay may bring: an event that cannot be read, that does not parse, that is no scope
   event, or none at all. *)
Shapes == {"ok", "malformed", "rejected", "ignored", "never"}

Categories == {"agent", "llm", "tool"}

(* A prompt counts the tokens of the cache, but for Anthropic's; fresh is how many there were
   besides, and a prompt of fewer tokens than the cache's leaves none. *)
PromptTrue(i, whole) ==
  LET cached == OrZero(i.usage.read) + OrZero(i.usage.written)
  IN i.usage \in Usages /\
     (Garbled \notin Range(i.usage) /\ i.usage.prompt # None =>
        IF whole THEN i.usage.prompt = i.fresh
        ELSE i.usage.prompt = i.fresh + cached \/ (i.fresh = 0 /\ i.usage.prompt < cached))

(* What Relay knows of a scope; a sound one lacks nothing that a record of it needs. *)
IsScope(scope) ==
  /\ IsMetadata(scope.metadata)
  /\ {scope.startShape, scope.endShape} \subseteq Shapes
  /\ scope.category \in Categories
  /\ scope.usage # None => scope.fresh \in Nat /\ PromptTrue(scope, scope.api = "anthropic_messages")
  /\ scope.sound /\ scope.category # "agent" => scope.name # None
  /\ scope.sound /\ scope.category = "llm" =>
       /\ scope.profile # Garbled /\ scope.model # None
       /\ scope.usage # None /\ Garbled \notin Range(scope.usage)

(* A call is charged when it did something that costs and was not answered from a cache:
   it left a counter, or a cost, which LiteLLM gives as zero for a failure. *)
LeftTraces(cb) ==
  LET cost == IF cb.cost # None THEN cb.cost ELSE cb.hiddenCost
  IN \/ cb.usage # None /\ Range(cb.usage) # {None}
     \/ cb.usage = None /\ cb.callType = "rerank" /\ cb.rerank # None /\ Range(cb.rerank) # {None}
     \/ cost = Garbled
     \/ cost # None /\ (cost > 0 \/ ~cb.failed)

IsCall(cb) ==
  /\ cb.usage # None => cb.fresh \in Nat /\ PromptTrue(cb, FALSE)
  /\ cb.rerank # None => cb.rerank \in Rerankings
  /\ cb.charged <=>
       /\ ~cb.cacheHit /\ cb.callType \in {"completion", "responses", "embedding", "rerank"}
       /\ LeftTraces(cb)
  /\ cb.account = IF cb.attribution = None THEN Defaults["account_id"]
                  ELSE IF cb.attribution["account_id"] = Unset THEN Defaults["account_id"]
                  ELSE cb.attribution["account_id"]

ASSUME HandoffOptions ==
  /\ MaxPending \in Nat \ {0} /\ MaxActivations \in Nat \ {0}
  /\ {None, Garbled} \cap (Operations \cup MappedUsages) = {}
  /\ \A trace \in Traces : \A s \in DOMAIN trace : IsScope(trace[s])
  /\ \A calls \in Calls : \A c \in DOMAIN calls : IsCall(calls[c])

Activations == 1..MaxActivations

VARIABLES
  adapter,    \* "relay" or "litellm"
  input,      \* the scopes, or the callbacks, of this run
  active,     \* the activation whose _tracker and _bridge the plugin holds; 0 is None
  registered, \* _registered
  activations, \* activations so far
  closed,     \* _closed
  trackers,   \* the ScopeTracker of each activation
  at,         \* how far each event has come, or what was logged of it
  of,         \* the activation whose tracker or bridge the event's thread holds
  result,     \* what the event was mapped to
  pending,    \* _pending of the bridge of each activation
  drained,    \* _drained: the calls of drain() that share the bridge's future
  ready,      \* the event loop's callbacks, in order
  loop,       \* the event loop: "running" or "closed"
  drain,      \* how far each drain() has come
  wanted,     \* history: what the bridge that drain() found had accepted when it was called
  accepted,   \* history: what every bridge of the plugin had accepted when drain() was called
  consumed    \* history: the starts and ends each tracker took since it was last cleared

pluginVars == <<active, registered, activations, closed>>

eventVars == <<trackers, at, of, result, consumed>>

bridgeVars == <<pending, drained, ready, loop>>

historyVars == <<wanted, accepted>>

drainVars == <<drain, historyVars>>

vars == <<adapter, input, pluginVars, eventVars, bridgeVars, drainVars>>

(* The events of a scope; a LiteLLM callback is one event. *)
Events == ({"start", "end"} \X (UNION {DOMAIN trace : trace \in Traces})) \cup
          ({"callback"} \X (UNION {DOMAIN calls : calls \in Calls}))

(* Both adapters from the moment they are in use: a plugin whose first register() has succeeded,
   a callback that was constructed on its loop. *)
Init ==
  /\ \/ adapter = "relay" /\ input \in Traces /\ registered = TRUE
     \/ adapter = "litellm" /\ input \in Calls /\ registered = FALSE
  /\ active = 1 /\ activations = 1 /\ closed = FALSE
  /\ trackers = [a \in Activations |-> NoScopes]
  /\ at = [e \in Events |-> "new"]
  /\ of = [e \in Events |-> 0]
  /\ result = [e \in Events |-> None]
  /\ pending = [a \in Activations |-> 0]
  /\ drained = [a \in Activations |-> {}]
  /\ ready = <<>> /\ loop = "running"
  /\ drain = [d \in Drains |-> "new"]
  /\ wanted = [d \in Drains |-> {}] /\ accepted = [d \in Drains |-> {}]
  /\ consumed = [a \in Activations |-> <<>>]
-----------------------------------------------------------------------------
(* The plugin's life.                                                      *)

(* register() again: refused when it is registered, when the loop does not run or when Relay, its
   version or the configuration fail; a refusal forgets an earlier activation as well. *)
Register ==
  /\ adapter = "relay"
  /\ \/ /\ ~registered /\ loop = "running" /\ activations < MaxActivations
        /\ activations' = activations + 1 /\ active' = activations' /\ registered' = TRUE
     \/ active' = 0 /\ registered' = FALSE /\ UNCHANGED activations
  /\ UNCHANGED <<adapter, input, closed, eventVars, bridgeVars, drainVars>>

(* close(): Relay's tracker is cleared and, with the bridge, let go. *)
Close ==
  /\ ~closed \/ (adapter = "relay" /\ active # 0)
  /\ closed' = TRUE
  /\ IF adapter = "relay"
     THEN /\ active' = 0
          /\ trackers' = IF active = 0 THEN trackers ELSE [trackers EXCEPT ![active] = NoScopes]
          /\ consumed' = IF active = 0 THEN consumed ELSE [consumed EXCEPT ![active] = <<>>]
     ELSE UNCHANGED <<active, trackers, consumed>>
  /\ UNCHANGED <<adapter, input, registered, activations, at, of, result, bridgeVars,
                 drainVars>>

(* The host's loop ends: what was scheduled is never run, what awaited is cancelled. *)
LoopCloses ==
  /\ loop = "running" /\ loop' = "closed" /\ ready' = <<>>
  /\ at' = [e \in Events |-> IF at[e] = "scheduled" THEN "lost" ELSE at[e]]
  /\ drain' = [d \in Drains |-> IF drain[d] \in {"waiting", "resolved"} THEN "cancelled"
                                ELSE drain[d]]
  /\ UNCHANGED <<adapter, input, pluginVars, trackers, of, result, consumed, pending, drained,
                 historyVars>>
-----------------------------------------------------------------------------
(* A thread that brings an event.                                          *)

Goes(e, place) == at' = [at EXCEPT ![e] = place]

(* Relay starts a scope after its parent and ends it once, after its start, or never. *)
Due(e) ==
  LET scope == input[e[2]]
  IN IF e[1] = "start" THEN scope.parent \in DOMAIN input => at[<<"start", scope.parent>>] # "new"
     ELSE e[1] = "end" => scope.endShape # "never" /\ at[<<"start", e[2]>>] # "new"

Comes(e) == at[e] = "new" /\ e[2] \in DOMAIN input /\ Due(e)

(* _on_event and _handle up to the look at _tracker or _closed. *)
Arrives(e) ==
  /\ e[1] = (IF adapter = "relay" THEN "end" ELSE "callback") /\ Comes(e)
  /\ IF (IF adapter = "relay" THEN active = 0 ELSE closed)
     THEN Goes(e, "inactive") /\ UNCHANGED of
     ELSE Goes(e, "read") /\ of' = [of EXCEPT ![e] = active]
  /\ UNCHANGED <<adapter, input, pluginVars, trackers, result, consumed, bridgeVars, drainVars>>

(* consume() of the tracker of activation a, under its lock: an event that cannot be read, that
   is no scope event or that does not parse leaves the tracker alone. *)
Takes(e, a, shape, tracker, found) ==
  IF shape # "ok" THEN Goes(e, shape) /\ UNCHANGED <<trackers, result, consumed>>
  ELSE /\ trackers' = [trackers EXCEPT ![a] = tracker]
       /\ consumed' = [consumed EXCEPT ![a] = Append(@, e)]
       /\ result' = [result EXCEPT ![e] = found]
       /\ Goes(e, IF found.kind = "ready" THEN "mapped" ELSE found.kind)

ConsumeEnd(e) ==
  /\ e[1] = "end" /\ at[e] = "read"
  /\ LET scope == input[e[2]]
         t == trackers[of[e]]
     IN Takes(e, of[e], scope.endShape, EndTracker(t, e[2]), EndResult(t, e[2], scope))
  /\ UNCHANGED <<adapter, input, pluginVars, of, bridgeVars, drainVars>>

(* A start is consumed as it arrives: no event that comes later uses a tracker that is let go in
   between, and an end that came earlier looks at its own scope only. *)
ConsumeStart(e) ==
  /\ adapter = "relay" /\ e[1] = "start" /\ Comes(e)
  /\ IF active = 0 THEN Goes(e, "inactive") /\ UNCHANGED <<trackers, result, consumed>>
     ELSE LET scope == input[e[2]]
          IN Takes(e, active, scope.startShape, TrackStart(trackers[active], e[2], scope),
                   Result("ignored", None))
  /\ UNCHANGED <<adapter, input, pluginVars, of, bridgeVars, drainVars>>

Map(e) ==
  /\ at[e] = "read" /\ adapter = "litellm"
  /\ LET found == MapCallback(input[e[2]])
     IN /\ result' = [result EXCEPT ![e] = found]
        /\ Goes(e, IF found.kind = "ready" THEN "bound" ELSE found.kind)
  /\ UNCHANGED <<adapter, input, pluginVars, trackers, of, consumed, bridgeVars, drainVars>>

(* Relay's _submit looks at the bridge again. *)
Binds(e) ==
  /\ at[e] = "mapped"
  /\ IF active = 0 THEN Goes(e, "inactive") /\ UNCHANGED of
     ELSE Goes(e, "bound") /\ of' = [of EXCEPT ![e] = active]
  /\ UNCHANGED <<adapter, input, pluginVars, trackers, result, consumed, bridgeVars, drainVars>>

(* EventLoopBridge.submit under the lock, *)
Claim(e) ==
  /\ at[e] = "bound"
  /\ IF pending[of[e]] >= MaxPending THEN Goes(e, "full") /\ UNCHANGED pending
     ELSE Goes(e, "counted") /\ pending' = [pending EXCEPT ![of[e]] = @ + 1]
  /\ UNCHANGED <<adapter, input, pluginVars, trackers, of, result, consumed, drained, ready,
                 loop, drainVars>>

(* and call_soon_threadsafe, which raises once the loop is closed. *)
Schedule(e) ==
  /\ at[e] = "counted"
  /\ IF loop = "closed"
     THEN /\ Goes(e, "unavailable") /\ pending' = [pending EXCEPT ![of[e]] = @ - 1]
          /\ UNCHANGED ready
     ELSE Goes(e, "scheduled") /\ ready' = Append(ready, e) /\ UNCHANGED pending
  /\ UNCHANGED <<adapter, input, pluginVars, trackers, of, result, consumed, drained, loop,
                 drainVars>>
-----------------------------------------------------------------------------
(* The event loop.                                                         *)

(* Faulty variant: the last but one handoff wakes drain(). *)
WakesEarly(left) == left <= 1

Wakes(left) == left = 0

(* _submit_to_client and _release_pending; whether the client queues the record, refuses it or
   raises makes a difference to the adapter's log only. *)
RunHandoff ==
  /\ loop = "running" /\ ready # <<>>
  /\ ready' = Tail(ready)
  /\ LET e == Head(ready)
         left == pending[of[e]] - 1
     IN /\ pending' = [pending EXCEPT ![of[e]] = left]
        /\ Goes(e, "recorded")
        /\ IF Wakes(left)
           THEN /\ drained' = [drained EXCEPT ![of[e]] = {}]
                /\ drain' = [d \in Drains |-> IF d \in drained[of[e]] THEN "resolved" ELSE drain[d]]
           ELSE UNCHANGED <<drained, drain>>
  /\ UNCHANGED <<adapter, input, pluginVars, trackers, of, result, consumed, loop, historyVars>>

(* What the bridge of an activation has accepted and not handed over. *)
Accepted(a) == {e \in Events : of[e] = a /\ at[e] = "scheduled"}

(* History: a call of drain() that finds the bridge of activation a, or none at 0. *)
NoteAccepted(d, a) ==
  /\ wanted' = [wanted EXCEPT ![d] = IF a = 0 THEN {} ELSE Accepted(a)]
  /\ accepted' = [accepted EXCEPT ![d] = UNION {Accepted(b) : b \in Activations}]

(* Faulty variant: every drain() awaits a future of its own, and one is kept. *)
JoinAlone(waiters, d) == {d}

Join(waiters, d) == waiters \cup {d}

DrainEnds(d, place) ==
  drain' = [drain EXCEPT ![d] = place] /\ UNCHANGED <<historyVars, drained>>

(* drain() up to its await.  LiteLLM's bridge refuses to be drained on another loop. *)
Drain(d) ==
  /\ loop = "running" /\ drain[d] = "new"
  /\ \/ closed /\ DrainEnds(d, "raised")
     \/ ~closed /\ adapter = "litellm" /\ DrainEnds(d, "raised")
     \/ /\ ~closed /\ (IF active = 0 THEN TRUE ELSE pending[active] = 0)
        /\ drain' = [drain EXCEPT ![d] = "returned"] /\ UNCHANGED drained
        /\ NoteAccepted(d, active)
     \/ /\ ~closed /\ (IF active = 0 THEN FALSE ELSE pending[active] > 0)
        /\ drain' = [drain EXCEPT ![d] = "waiting"]
        /\ drained' = [drained EXCEPT ![active] = Join(@, d)]
        /\ NoteAccepted(d, active)
  /\ UNCHANGED <<adapter, input, pluginVars, eventVars, pending, ready, loop>>

(* The timeout passes, or the caller is cancelled: the shielded future stays. *)
DrainTimesOut(d) ==
  /\ drain[d] = "waiting"
  /\ drain' = [drain EXCEPT ![d] = "timeout"]
  /\ drained' = [a \in Activations |-> drained[a] \ {d}]
  /\ UNCHANGED <<adapter, input, pluginVars, eventVars, pending, ready, loop, historyVars>>

DrainResumes(d) ==
  /\ drain[d] = "resolved"
  /\ drain' = [drain EXCEPT ![d] = "returned"]
  /\ UNCHANGED <<adapter, input, pluginVars, eventVars, bridgeVars, historyVars>>

ThreadStep(e) ==
  Arrives(e) \/ ConsumeStart(e) \/ ConsumeEnd(e) \/ Map(e) \/ Binds(e) \/ Claim(e) \/ Schedule(e)

Next ==
  \/ Register
  \/ Close
  \/ LoopCloses
  \/ \E e \in Events : ThreadStep(e)
  \/ RunHandoff
  \/ \E d \in Drains : Drain(d) \/ DrainTimesOut(d) \/ DrainResumes(d)

Spec == Init /\ [][Next]_vars

(* The loop runs what is ready, and a thread that has counted its record goes on; nothing is
   assumed of events, timeouts or the host. *)
Fairness ==
  /\ WF_vars(RunHandoff)
  /\ \A e \in Events : WF_vars(Schedule(e))
  /\ \A d \in Drains : WF_vars(DrainResumes(d))

FairSpec == Spec /\ Fairness
-----------------------------------------------------------------------------
(* Properties.                                                             *)

Unfinished == {"counted", "scheduled", "lost"}

(* A bridge counts exactly the handoffs it has not seen through, within its limit; a drain()
   that waits is one that a handoff still to come will wake, although submit() takes its count
   back without waking anybody; and a drain() that returns has waited for every handoff that
   the bridge it found had accepted when it was called, whatever the threads, other drains,
   timeouts, close() and register() do meanwhile.  A bridge that an earlier register() let go
   of drain() does not find: what it had accepted is not waited for (DrainComplete). *)
HandoffsExact ==
  /\ \A a \in Activations :
       /\ pending[a] = Cardinality({e \in Events : of[e] = a /\ at[e] \in Unfinished})
       /\ pending[a] <= MaxPending
       /\ loop = "running" /\ drained[a] # {} => pending[a] > 0
  /\ \A d \in Drains :
       drain[d] = "returned" => \A e \in wanted[d] : at[e] = "recorded"

(* NeMoRelayPlugin.drain: "Wait for accepted subscriber handoffs to reach the client": one that
   returns has waited for all that had been accepted when it was called. *)
DrainComplete ==
  \A d \in Drains : drain[d] = "returned" => \A e \in accepted[d] : at[e] = "recorded"

(* Every drain() ends, without a timeout, once the threads that have counted a record and the
   loop go on. *)
DrainsEnd ==
  \A d \in Drains : drain[d] \in {"waiting", "resolved"} ~> drain[d] \notin {"waiting", "resolved"}

(* The history of a tracker: when a scope started, ended, and was lost to the tracker because
   it ended or because MaxScopes younger ones were open. *)
When(h, e) == {k \in DOMAIN h : h[k] = e}

Moment(h, e) == CHOOSE k \in When(h, e) : TRUE

Happened(h, e, k) == \E j \in When(h, e) : j <= k

OpenAfter(h, s, k) == Happened(h, <<"start", s>>, k) /\ ~Happened(h, <<"end", s>>, k)

Seen(h) == {e[2] : e \in Range(h)}

Younger(h, s, k) ==
  {x \in Seen(h) :
     OpenAfter(h, x, k) /\ \E j \in When(h, <<"start", x>>) : Happened(h, <<"start", s>>, j - 1)}

EvictedBy(h, s, k) ==
  \E j \in 1..k : OpenAfter(h, s, j) /\ Cardinality(Younger(h, s, j)) >= MaxScopes

LostBy(h, s, k) ==
  EvictedBy(h, s, k) \/ (Happened(h, <<"start", s>>, k) /\ Happened(h, <<"end", s>>, k))

(* MaxScopes others were lost after it. *)
ForgottenBy(h, s, k) ==
  \E j \in 1..k :
    /\ LostBy(h, s, j)
    /\ Cardinality({x \in Seen(h) : LostBy(h, x, k) /\ ~LostBy(h, x, j)}) >= MaxScopes

(* Who pays for a scope: the one its own start names, else whoever pays for its parent; the
   defaults only where nobody was ever seen above it, or where that has been forgotten. *)
PaysFor(trace, h, payer, s) ==
  LET before == Moment(h, <<"start", s>>) - 1
      parent == trace[s].parent
      itself == [root |-> s, bill |-> ResolveAttribution(Defaults, trace[s].metadata)]
  IN IF When(h, <<"start", s>>) = {} THEN None
     ELSE IF DeclaresAttribution(trace[s].metadata) THEN itself
     ELSE IF ~Happened(h, <<"start", parent>>, before) THEN itself
     ELSE IF ForgottenBy(h, parent, before) THEN itself
     ELSE IF LostBy(h, parent, before)
          THEN [root |-> s, bill |-> Unresolved("/scope/parent_uuid")]
     ELSE payer[parent]

Payer(trace, h) ==
  LET payer[s \in DOMAIN trace] == PaysFor(trace, h, payer, s) IN payer

Fresh(i) == IF i.usage.prompt = None THEN None ELSE i.fresh

RelayRecordTrue(trace, h, s, made) ==
  LET scope == trace[s]
      payer == Payer(trace, h)[s]
      known == When(h, <<"start", s>>) # {} /\ ~EvictedBy(h, s, Moment(h, <<"end", s>>) - 1)
  IN /\ made.kind = "ready" => known
     /\ known /\ payer.bill.attribution = None => made.kind \in {"ignored", "skipped"}
     /\ made.kind = "ready" =>
          /\ made.record.attribution = payer.bill.attribution
          /\ made.record.run = payer.root
          /\ made.record.parent = IF payer.root = s THEN None ELSE scope.parent
          /\ scope.category = "llm" => made.record.input = Fresh(scope)
     /\ known /\ payer.bill.attribution # None /\ scope.sound /\ scope.category # "agent" =>
          made.kind = "ready"

LiteLLMRecordTrue(made, cb) ==
  /\ made.kind = "ready" =>
       /\ cb.charged
       /\ made.record.usage # None /\ cb.usage # None => made.record.usage.input = Fresh(cb)
       /\ made.record.attribution["account_id"] = cb.account
  /\ made.kind = "skipped" /\ made.path \in {"/usage", "/call_type", "/cache_hit"} => ~cb.charged

(* A Relay record is billed to whoever pays for the nearest scope above it that names a payer,
   in the run of that scope, and to nobody when the tracker has lost that scope and still
   knows it; an operation whose scope is tracked and complete is never left out.  A LiteLLM
   record is of a call that was charged, to the account its request named, and no charged
   call is left out without a word.  Neither bills a cached token twice. *)
RecordsTrue ==
  /\ \A a \in Activations : \A e \in Range(consumed[a]) :
       e[1] = "end" => RelayRecordTrue(input, consumed[a], e[2], result[e])
  /\ \A e \in Events :
       e[1] = "callback" /\ result[e] # None => LiteLLMRecordTrue(result[e], input[e[2]])
=============================================================================
