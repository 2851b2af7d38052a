-------------------------- MODULE LoopHandoffProofs --------------------------
(* The bridge to the event loop, proved for every number of events, drains and *)
(* activations, every limit and whatever the events are mapped to; and what a   *)
(* tracker makes of the starts and ends it takes, for every run and limit.      *)
EXTENDS LoopHandoff, FiniteSetTheorems, WellFoundedInduction, TLAPS

(* What the bridge of activation a still owes the client. *)
Owed(a) == {e \in Events : of[e] = a /\ at[e] \in Unfinished}

UnderWay == {"read", "bound", "counted", "scheduled", "lost", "recorded"}

TypeInv ==
  /\ active \in 0..MaxActivations /\ activations \in 1..MaxActivations
  /\ DOMAIN at = Events /\ at = [e \in Events |-> at[e]]
  /\ DOMAIN of = Events /\ of = [e \in Events |-> of[e]]
  /\ pending \in [Activations -> Nat]
  /\ drained \in [Activations -> SUBSET Drains]
  /\ ready \in Seq(Events)
  /\ DOMAIN drain = Drains /\ drain = [d \in Drains |-> drain[d]]
  /\ wanted \in [Drains -> SUBSET Events]

(* Whoever hands over holds a bridge, and only Relay brings ends. *)
HolderInv ==
  /\ adapter = "relay" => input \in Traces
  /\ adapter # "relay" => active = 1
  /\ \A e \in Events :
       /\ at[e] \in UnderWay => of[e] \in Activations
       /\ at[e] = "read" /\ e[1] = "end" => adapter = "relay" /\ e[2] \in DOMAIN input

(* A bridge counts what it owes. *)
CountInv ==
  \A a \in Activations :
    /\ IsFiniteSet(Owed(a)) /\ pending[a] = Cardinality(Owed(a))
    /\ pending[a] <= MaxPending
    /\ loop = "running" /\ drained[a] # {} => pending[a] > 0

(* The callbacks of the loop are the handoffs that are scheduled, once each. *)
ReadyInv ==
  /\ \A i, j \in 1..Len(ready) : ready[i] = ready[j] => i = j
  /\ \A i \in 1..Len(ready) : at[ready[i]] = "scheduled"

(* A drain() that waits shares the future of one bridge, and waits for no      *)
(* handoff but those of that bridge that have yet to run.                       *)
WaitInv ==
  loop = "running" =>
    \A a \in Activations : \A d \in drained[a] :
      /\ drain[d] = "waiting"
      /\ \A b \in Activations : d \in drained[b] => a = b
      /\ \A e \in wanted[d] : of[e] = a /\ at[e] \in {"scheduled", "recorded"}

(* A drain() that was woken has nothing left to wait for. *)
WokenInv ==
  \A d \in Drains :
    drain[d] \in {"resolved", "returned"} => \A e \in wanted[d] : at[e] = "recorded"

HandoffInv == TypeInv /\ HolderInv /\ CountInv /\ ReadyInv /\ WaitInv /\ WokenInv
-----------------------------------------------------------------------------
(* What an event is mapped to is one of four kinds, whatever the tracker holds. *)

Kinds == {"ready", "ignored", "skipped", "malformed"}

LEMMA EndKinds ==
  ASSUME NEW t, NEW id, NEW scope
  PROVE EndResult(t, id, scope).kind \in Kinds
<1>1. ASSUME NEW shared
      PROVE NormalizeLlm(scope, shared).kind \in Kinds
  BY DEF NormalizeLlm, Result, Kinds
<1>2. ASSUME NEW shared
      PROVE NormalizeTool(scope, shared).kind \in Kinds
  BY DEF NormalizeTool, Result, Kinds
<1>3. ASSUME NEW path
      PROVE /\ Result("ignored", path).kind \in Kinds
            /\ Result("skipped", path).kind \in Kinds
  BY DEF Result, Kinds
<1> QED BY <1>1, <1>2, <1>3 DEF EndResult

LEMMA CallbackKinds ==
  ASSUME NEW cb
  PROVE MapCallback(cb).kind \in Kinds
<1>1. ASSUME NEW path
      PROVE /\ Outcome("malformed", path).kind \in Kinds
            /\ Outcome("skipped", path).kind \in Kinds
  BY DEF Outcome, Kinds
<1>2. ASSUME NEW record
      PROVE [kind |-> "ready", path |-> None, record |-> record].kind \in Kinds
  BY DEF Kinds
<1> QED BY <1>1, <1>2 DEF MapCallback
-----------------------------------------------------------------------------
(* Steps that leave the bridges and the drains alone. *)

Still == UNCHANGED <<adapter, input, bridgeVars, drainVars>>

(* The plugin changes hands: nobody under way notices. *)
LEMMA PluginStep ==
  ASSUME HandoffInv, Still, UNCHANGED <<at, of>>,
         active' \in 0..MaxActivations, activations' \in 1..MaxActivations,
         adapter # "relay" => active' = active
  PROVE HandoffInv'
<1>1. TypeInv'
  BY DEF HandoffInv, TypeInv, Still, bridgeVars, drainVars, historyVars
<1>2. HolderInv'
  BY DEF HandoffInv, HolderInv, Still, Activations
<1>3. CountInv'
  BY DEF HandoffInv, CountInv, Owed, Still, bridgeVars
<1>4. ReadyInv' /\ WaitInv' /\ WokenInv'
  BY DEF HandoffInv, ReadyInv, WaitInv, WokenInv, Still, bridgeVars, drainVars, historyVars
<1> QED BY <1>1, <1>2, <1>3, <1>4 DEF HandoffInv

(* An event that no bridge has counted moves to where none has. *)
LEMMA EventStep ==
  ASSUME HandoffInv, Still, UNCHANGED <<active, activations>>,
         NEW e \in Events, NEW p, Goes(e, p),
         at[e] \notin Unfinished \cup {"recorded"}, p \notin Unfinished \cup {"recorded"},
         of' = of \/ of' = [of EXCEPT ![e] = active],
         p \in {"read", "bound"} => of'[e] \in Activations,
         p = "read" /\ e[1] = "end" => adapter = "relay" /\ e[2] \in DOMAIN input
  PROVE HandoffInv'
<1>t. /\ DOMAIN at = Events /\ DOMAIN of = Events
      /\ at' = [at EXCEPT ![e] = p]
  BY DEF HandoffInv, TypeInv, Goes
<1>u. UNCHANGED <<adapter, input, pending, drained, ready, loop, drain, wanted>>
  BY DEF Still, bridgeVars, drainVars, historyVars
<1>a. /\ at'[e] = p
      /\ \A x \in Events : x # e => at'[x] = at[x] /\ of'[x] = of[x]
  BY <1>t
<1>1. TypeInv'
  <2>1. DOMAIN at' = Events /\ at' = [x \in Events |-> at'[x]]
    BY <1>t DEF HandoffInv, TypeInv
  <2>2. DOMAIN of' = Events /\ of' = [x \in Events |-> of'[x]]
    BY <1>t DEF HandoffInv, TypeInv
  <2> QED BY <2>1, <2>2, <1>u DEF HandoffInv, TypeInv
<1>2. HolderInv'
  <2>1. ASSUME NEW x \in Events
        PROVE /\ at'[x] \in UnderWay => of'[x] \in Activations
              /\ at'[x] = "read" /\ x[1] = "end" => adapter = "relay" /\ x[2] \in DOMAIN input
    <3>1. CASE x = e
      BY <3>1, <1>a DEF UnderWay, Unfinished
    <3>2. CASE x # e
      BY <3>2, <1>a DEF HandoffInv, HolderInv
    <3> QED BY <3>1, <3>2
  <2> QED BY <2>1, <1>u DEF HandoffInv, HolderInv, Activations
<1>3. CountInv'
  <2>1. ASSUME NEW a \in Activations
        PROVE Owed(a)' = Owed(a)
    <3>1. e \notin Owed(a)
      BY DEF Owed
    <3>2. \A x \in Events : x # e => (of'[x] = a /\ at'[x] \in Unfinished
                                      <=> of[x] = a /\ at[x] \in Unfinished)
      BY <1>a
    <3>3. at'[e] \notin Unfinished
      BY <1>a
    <3> QED BY <3>1, <3>2, <3>3 DEF Owed
  <2> QED BY <2>1, <1>u DEF HandoffInv, CountInv, Activations
<1>4. \A x \in Events : at[x] \in Unfinished \cup {"recorded"} => x # e
  OBVIOUS
<1>5. ReadyInv'
  BY <1>a, <1>u, <1>4 DEF HandoffInv, ReadyInv, TypeInv, Unfinished
<1>6. \A d \in Drains : wanted[d] \subseteq Events
  BY DEF HandoffInv, TypeInv
<1>7. WaitInv'
  <2>1. ASSUME loop = "running", NEW a \in Activations, NEW d \in drained[a]
        PROVE /\ drain[d] = "waiting"
              /\ \A b \in Activations : d \in drained[b] => a = b
              /\ \A x \in wanted[d] : of'[x] = a /\ at'[x] \in {"scheduled", "recorded"}
    <3>1. d \in Drains
      BY DEF HandoffInv, TypeInv
    <3>2. \A x \in wanted[d] : x \in Events /\ of[x] = a /\ at[x] \in {"scheduled", "recorded"}
      BY <2>1, <3>1, <1>6 DEF HandoffInv, WaitInv
    <3>3. \A x \in wanted[d] : x # e
      BY <3>2, <1>4 DEF Unfinished
    <3> QED BY <2>1, <3>2, <3>3, <1>a DEF HandoffInv, WaitInv
  <2> QED BY <2>1, <1>u DEF WaitInv, Activations
<1>8. WokenInv'
  <2>1. ASSUME NEW d \in Drains, drain[d] \in {"resolved", "returned"}, NEW x \in wanted[d]
        PROVE at'[x] = "recorded"
    <3>1. x \in Events /\ at[x] = "recorded"
      BY <2>1, <1>6 DEF HandoffInv, WokenInv
    <3> QED BY <3>1, <1>4, <1>a
  <2> QED BY <2>1, <1>u DEF WokenInv
<1> QED BY <1>1, <1>2, <1>3, <1>5, <1>7, <1>8 DEF HandoffInv
-----------------------------------------------------------------------------
(* The steps of a thread up to its record. *)

(* Where consume() leaves an event. *)
LEMMA TakenPlace ==
  ASSUME NEW e, NEW a, NEW shape \in Shapes, NEW tracker, NEW found,
         found.kind \in Kinds, Takes(e, a, shape, tracker, found)
  PROVE \E p : /\ Goes(e, p)
               /\ p \notin UnderWay
<1>1. CASE shape # "ok"
  <2>1. shape \notin UnderWay
    BY <1>1 DEF Shapes, UnderWay
  <2>2. Goes(e, shape)
    BY <1>1 DEF Takes
  <2> QED BY <2>1, <2>2
<1>2. CASE shape = "ok"
  <2> DEFINE p == IF found.kind = "ready" THEN "mapped" ELSE found.kind
  <2>1. p \notin UnderWay
    BY DEF Kinds, UnderWay
  <2>2. Goes(e, p)
    BY <1>2 DEF Takes
  <2> QED BY <2>1, <2>2
<1> QED BY <1>1, <1>2

LEMMA ArrivesStep ==
  ASSUME HandoffInv, NEW e \in Events, Arrives(e)
  PROVE HandoffInv'
<1>u. Still /\ UNCHANGED <<active, activations>>
  BY DEF Arrives, Still, pluginVars
<1>1. at[e] = "new" /\ e[2] \in DOMAIN input
  BY DEF Arrives, Comes
<1>2. at[e] \notin Unfinished \cup {"recorded"}
  BY <1>1 DEF Unfinished
<1>3. CASE Goes(e, "inactive") /\ UNCHANGED of
  BY <1>3, <1>u, <1>2, EventStep DEF Unfinished
<1>4. CASE /\ ~(IF adapter = "relay" THEN active = 0 ELSE closed)
           /\ Goes(e, "read") /\ of' = [of EXCEPT ![e] = active]
  <2>1. active \in Activations
    <3>1. CASE adapter = "relay"
      BY <3>1, <1>4, HandoffOptions DEF HandoffInv, TypeInv, Activations
    <3>2. CASE adapter # "relay"
      BY <3>2, HandoffOptions DEF HandoffInv, HolderInv, Activations
    <3> QED BY <3>1, <3>2
  <2>2. of'[e] \in Activations
    BY <2>1, <1>4 DEF HandoffInv, TypeInv
  <2>3. e[1] = "end" => adapter = "relay"
    BY DEF Arrives
  <2> QED BY <1>4, <1>u, <1>1, <1>2, <2>2, <2>3, EventStep DEF Unfinished
<1> QED BY <1>3, <1>4 DEF Arrives

LEMMA ConsumeEndStep ==
  ASSUME HandoffInv, NEW e \in Events, ConsumeEnd(e)
  PROVE HandoffInv'
<1>u. Still /\ UNCHANGED <<active, activations, of>>
  BY DEF ConsumeEnd, Still, pluginVars
<1>1. at[e] = "read" /\ e[1] = "end"
  BY DEF ConsumeEnd
<1>2. input[e[2]].endShape \in Shapes
  BY <1>1, HandoffOptions DEF HandoffInv, HolderInv, IsScope
<1>3. PICK t : Takes(e, of[e], input[e[2]].endShape, EndTracker(t, e[2]),
                     EndResult(t, e[2], input[e[2]]))
  BY DEF ConsumeEnd
<1>4. EndResult(t, e[2], input[e[2]]).kind \in Kinds
  BY EndKinds
<1>5. PICK p : Goes(e, p) /\ p \notin UnderWay
  BY <1>2, <1>3, <1>4, TakenPlace
<1> QED BY <1>u, <1>1, <1>5, EventStep DEF UnderWay, Unfinished

LEMMA ConsumeStartStep ==
  ASSUME HandoffInv, NEW e \in Events, ConsumeStart(e)
  PROVE HandoffInv'
<1>u. Still /\ UNCHANGED <<active, activations, of>>
  BY DEF ConsumeStart, Still, pluginVars
<1>1. at[e] = "new" /\ e[2] \in DOMAIN input /\ adapter = "relay"
  BY DEF ConsumeStart, Comes
<1>2. input[e[2]].startShape \in Shapes
  BY <1>1, HandoffOptions DEF HandoffInv, HolderInv, IsScope
<1>3. CASE Goes(e, "inactive")
  BY <1>3, <1>u, <1>1, EventStep DEF Unfinished
<1>4. CASE active # 0
  <2>1. Takes(e, active, input[e[2]].startShape,
              TrackStart(trackers[active], e[2], input[e[2]]), Result("ignored", None))
    BY <1>4 DEF ConsumeStart
  <2>2. Result("ignored", None).kind \in Kinds
    BY DEF Result, Kinds
  <2>3. PICK p : Goes(e, p) /\ p \notin UnderWay
    BY <1>2, <2>1, <2>2, TakenPlace
  <2> QED BY <1>u, <1>1, <2>3, EventStep DEF UnderWay, Unfinished
<1> QED BY <1>3, <1>4 DEF ConsumeStart

LEMMA MapStep ==
  ASSUME HandoffInv, NEW e \in Events, Map(e)
  PROVE HandoffInv'
<1>u. Still /\ UNCHANGED <<active, activations, of>>
  BY DEF Map, Still, pluginVars
<1>1. at[e] = "read"
  BY DEF Map
<1>2. of[e] \in Activations
  BY <1>1 DEF HandoffInv, HolderInv, UnderWay
<1> DEFINE kind == MapCallback(input[e[2]]).kind
           p == IF kind = "ready" THEN "bound" ELSE kind
<1>3. kind \in Kinds
  BY CallbackKinds
<1>4. Goes(e, p)
  BY DEF Map
<1>5. p \notin Unfinished \cup {"recorded"} /\ p # "read"
  BY <1>3 DEF Kinds, Unfinished
<1> HIDE DEF p
<1> QED BY <1>u, <1>1, <1>2, <1>4, <1>5, EventStep DEF Unfinished

LEMMA BindsStep ==
  ASSUME HandoffInv, NEW e \in Events, Binds(e)
  PROVE HandoffInv'
<1>u. Still /\ UNCHANGED <<active, activations>>
  BY DEF Binds, Still, pluginVars
<1>1. at[e] = "mapped"
  BY DEF Binds
<1>2. CASE Goes(e, "inactive") /\ UNCHANGED of
  BY <1>2, <1>u, <1>1, EventStep DEF Unfinished
<1>3. CASE active # 0 /\ Goes(e, "bound") /\ of' = [of EXCEPT ![e] = active]
  <2>1. of'[e] \in Activations
    BY <1>3, HandoffOptions DEF HandoffInv, TypeInv, Activations
  <2> QED BY <1>3, <1>u, <1>1, <2>1, EventStep DEF Unfinished
<1> QED BY <1>2, <1>3 DEF Binds
-----------------------------------------------------------------------------
(* The steps that change what a bridge owes. *)

(* Counting an event, or seeing one through, changes one bridge by one. *)
LEMMA OwesMore ==
  ASSUME HandoffInv, NEW e \in Events, at[e] \notin Unfinished,
         of' = of, NEW p \in Unfinished, Goes(e, p), NEW a \in Activations
  PROVE IF of[e] = a
        THEN IsFiniteSet(Owed(a)') /\ Cardinality(Owed(a)') = pending[a] + 1
        ELSE Owed(a)' = Owed(a)
<1>1. at' = [at EXCEPT ![e] = p] /\ DOMAIN at = Events
  BY DEF HandoffInv, TypeInv, Goes
<1>2. Owed(a)' = IF of[e] = a THEN Owed(a) \cup {e} ELSE Owed(a)
  BY <1>1 DEF Owed
<1>3. e \notin Owed(a)
  BY DEF Owed
<1>4. IsFiniteSet(Owed(a)) /\ pending[a] = Cardinality(Owed(a))
  BY DEF HandoffInv, CountInv
<1>5. /\ IsFiniteSet(Owed(a) \cup {e})
      /\ Cardinality(Owed(a) \cup {e}) = pending[a] + 1
  BY <1>3, <1>4, FS_AddElement
<1> QED BY <1>2, <1>5

LEMMA OwesLess ==
  ASSUME HandoffInv, NEW e \in Events, at[e] \in Unfinished,
         of' = of, NEW p, p \notin Unfinished, Goes(e, p), NEW a \in Activations
  PROVE IF of[e] = a
        THEN IsFiniteSet(Owed(a)') /\ pending[a] > 0 /\ Cardinality(Owed(a)') = pending[a] - 1
        ELSE Owed(a)' = Owed(a)
<1>1. at' = [at EXCEPT ![e] = p] /\ DOMAIN at = Events
  BY DEF HandoffInv, TypeInv, Goes
<1>2. Owed(a)' = IF of[e] = a THEN Owed(a) \ {e} ELSE Owed(a)
  BY <1>1 DEF Owed
<1>3. of[e] = a => e \in Owed(a)
  BY DEF Owed
<1>4. IsFiniteSet(Owed(a)) /\ pending[a] = Cardinality(Owed(a)) /\ pending[a] \in Nat
  BY DEF HandoffInv, CountInv, TypeInv
<1>5. ASSUME of[e] = a
      PROVE /\ IsFiniteSet(Owed(a) \ {e})
            /\ Cardinality(Owed(a) \ {e}) = pending[a] - 1
  BY <1>3, <1>4, <1>5, FS_RemoveElement
<1>6. ASSUME of[e] = a
      PROVE pending[a] # 0
  BY <1>3, <1>4, <1>6, FS_EmptySet
<1> QED BY <1>2, <1>4, <1>5, <1>6

(* No drain() waits, or has waited, for a handoff that is not on the loop yet. *)
LEMMA Waiters ==
  ASSUME HandoffInv, NEW e \in Events, NEW p, Goes(e, p), of' = of,
         UNCHANGED <<drained, drain, wanted, loop>>,
         at[e] \notin {"scheduled", "recorded"}
  PROVE WaitInv' /\ WokenInv'
<1>t. /\ at' = [at EXCEPT ![e] = p] /\ DOMAIN at = Events
      /\ \A d \in Drains : wanted[d] \subseteq Events
  BY DEF HandoffInv, TypeInv, Goes
<1>1. ASSUME NEW x \in Events
      PROVE /\ at[x] = "recorded" => at'[x] = "recorded"
            /\ at[x] \in {"scheduled", "recorded"} => at'[x] \in {"scheduled", "recorded"}
  BY <1>t
<1>2. WaitInv'
  <2>1. ASSUME loop = "running", NEW a \in Activations, NEW d \in drained[a]
        PROVE /\ drain[d] = "waiting"
              /\ \A b \in Activations : d \in drained[b] => a = b
              /\ \A x \in wanted[d] : of[x] = a /\ at'[x] \in {"scheduled", "recorded"}
    <3>1. d \in Drains
      BY DEF HandoffInv, TypeInv
    <3> QED BY <2>1, <3>1, <1>1, <1>t DEF HandoffInv, WaitInv
  <2> QED BY <2>1 DEF WaitInv, Activations
<1>3. WokenInv'
  BY <1>1, <1>t DEF HandoffInv, WokenInv
<1> QED BY <1>2, <1>3

LEMMA HolderKept ==
  ASSUME HandoffInv, UNCHANGED <<adapter, input, active, of>>, NEW e \in Events, NEW p,
         Goes(e, p), at[e] \in UnderWay, p # "read"
  PROVE HolderInv'
<1>1. at' = [at EXCEPT ![e] = p] /\ DOMAIN at = Events
  BY DEF HandoffInv, TypeInv, Goes
<1>2. ASSUME NEW x \in Events
      PROVE /\ at'[x] \in UnderWay => at[x] \in UnderWay
            /\ at'[x] = "read" => at[x] = "read"
  BY <1>1
<1> QED BY <1>2 DEF HandoffInv, HolderInv, Activations

LEMMA ClaimStep ==
  ASSUME HandoffInv, NEW e \in Events, Claim(e)
  PROVE HandoffInv'
<1>u. /\ UNCHANGED <<adapter, input, active, activations, of, drained, ready, loop, drain,
                     wanted, accepted>>
      /\ at[e] = "bound"
  BY DEF Claim, pluginVars, drainVars, historyVars
<1>1. CASE pending[of[e]] >= MaxPending /\ Goes(e, "full") /\ UNCHANGED pending
  BY <1>1, <1>u, EventStep DEF Still, bridgeVars, drainVars, historyVars, Unfinished
<1>2. CASE /\ ~(pending[of[e]] >= MaxPending)
           /\ Goes(e, "counted") /\ pending' = [pending EXCEPT ![of[e]] = @ + 1]
  <2>t. /\ of[e] \in Activations
        /\ at' = [at EXCEPT ![e] = "counted"] /\ DOMAIN at = Events
        /\ pending \in [Activations -> Nat]
    BY <1>u, <1>2 DEF HandoffInv, HolderInv, TypeInv, UnderWay, Goes
  <2>1. TypeInv'
    <3>1. DOMAIN at' = Events /\ at' = [x \in Events |-> at'[x]]
      BY <2>t DEF HandoffInv, TypeInv
    <3>2. pending' \in [Activations -> Nat]
      BY <2>t, <1>2
    <3> QED BY <3>1, <3>2, <1>u DEF HandoffInv, TypeInv, Activations
  <2>2. HolderInv'
    BY <1>u, <1>2, HolderKept DEF UnderWay
  <2>3. CountInv'
    <3>1. ASSUME NEW a \in Activations
          PROVE /\ IsFiniteSet(Owed(a)') /\ pending'[a] = Cardinality(Owed(a)')
                /\ pending'[a] <= MaxPending
                /\ loop = "running" /\ drained[a] # {} => pending'[a] > 0
      <4>1. IF of[e] = a
            THEN IsFiniteSet(Owed(a)') /\ Cardinality(Owed(a)') = pending[a] + 1
            ELSE Owed(a)' = Owed(a)
        BY <1>u, <1>2, OwesMore DEF Unfinished
      <4>2. CASE of[e] = a
        BY <4>1, <4>2, <1>2, <2>t, HandoffOptions
      <4>3. CASE of[e] # a
        BY <4>1, <4>3, <1>2, <2>t DEF HandoffInv, CountInv
      <4> QED BY <4>2, <4>3
    <3> QED BY <3>1, <1>u DEF CountInv, Activations
  <2>4. ReadyInv'
    BY <1>u, <2>t DEF HandoffInv, ReadyInv, TypeInv
  <2>5. WaitInv' /\ WokenInv'
    BY <1>u, <1>2, Waiters
  <2> QED BY <2>1, <2>2, <2>3, <2>4, <2>5 DEF HandoffInv
<1> QED BY <1>1, <1>2 DEF Claim

LEMMA ScheduleStep ==
  ASSUME HandoffInv, NEW e \in Events, Schedule(e)
  PROVE HandoffInv'
<1>u. /\ UNCHANGED <<adapter, input, active, activations, of, drained, loop, drain, wanted>>
      /\ at[e] = "counted"
  BY DEF Schedule, pluginVars, drainVars, historyVars
<1>t. /\ of[e] \in Activations
      /\ pending \in [Activations -> Nat] /\ ready \in Seq(Events)
      /\ DOMAIN at = Events
  BY <1>u DEF HandoffInv, HolderInv, TypeInv, UnderWay
<1>1. CASE /\ loop = "closed"
           /\ Goes(e, "unavailable") /\ pending' = [pending EXCEPT ![of[e]] = @ - 1]
           /\ UNCHANGED ready
  <2>a. at' = [at EXCEPT ![e] = "unavailable"]
    BY <1>1 DEF Goes
  <2>0. ASSUME NEW a \in Activations
        PROVE /\ IsFiniteSet(Owed(a)') /\ pending'[a] = Cardinality(Owed(a)')
              /\ pending'[a] <= MaxPending /\ pending'[a] \in Nat
    <3>1. IF of[e] = a
          THEN IsFiniteSet(Owed(a)') /\ pending[a] > 0 /\ Cardinality(Owed(a)') = pending[a] - 1
          ELSE Owed(a)' = Owed(a)
      BY <1>u, <1>1, OwesLess DEF Unfinished
    <3>2. pending[a] \in Nat /\ pending[a] <= MaxPending /\ MaxPending \in Nat
      BY HandoffOptions DEF HandoffInv, CountInv, TypeInv
    <3>3. CASE of[e] = a
      BY <3>1, <3>2, <3>3, <1>1, <1>t
    <3>4. CASE of[e] # a
      BY <3>1, <3>2, <3>4, <1>1, <1>t DEF HandoffInv, CountInv
    <3> QED BY <3>3, <3>4
  <2>1. TypeInv'
    <3>1. DOMAIN at' = Events /\ at' = [x \in Events |-> at'[x]]
      BY <2>a, <1>t DEF HandoffInv, TypeInv
    <3>2. pending' \in [Activations -> Nat]
      BY <2>0, <1>t, <1>1
    <3> QED BY <3>1, <3>2, <1>1, <1>u DEF HandoffInv, TypeInv, Activations
  <2>2. HolderInv'
    BY <1>u, <1>1, HolderKept DEF UnderWay
  <2>3. CountInv'
    BY <2>0, <1>u, <1>1 DEF CountInv, Activations
  <2>4. ReadyInv'
    BY <1>u, <1>t, <1>1, <2>a DEF HandoffInv, ReadyInv
  <2>5. WaitInv' /\ WokenInv'
    BY <1>u, <1>1, Waiters
  <2> QED BY <2>1, <2>2, <2>3, <2>4, <2>5 DEF HandoffInv
<1>2. CASE /\ loop # "closed"
           /\ Goes(e, "scheduled") /\ ready' = Append(ready, e) /\ UNCHANGED pending
  <2>a. at' = [at EXCEPT ![e] = "scheduled"]
    BY <1>2 DEF Goes
  <2>1. TypeInv'
    <3>1. DOMAIN at' = Events /\ at' = [x \in Events |-> at'[x]]
      BY <2>a, <1>t DEF HandoffInv, TypeInv
    <3>2. ready' \in Seq(Events)
      BY <1>2, <1>t
    <3> QED BY <3>1, <3>2, <1>2, <1>u DEF HandoffInv, TypeInv, Activations
  <2>2. HolderInv'
    BY <1>u, <1>2, HolderKept DEF UnderWay
  <2>3. CountInv'
    <3>1. ASSUME NEW a \in Activations
          PROVE Owed(a)' = Owed(a)
      BY <1>u, <1>t, <2>a DEF Owed, Unfinished
    <3> QED BY <3>1, <1>2, <1>u DEF HandoffInv, CountInv, Activations
  <2>4. ReadyInv'
    BY <1>u, <1>t, <1>2, <2>a DEF HandoffInv, ReadyInv
  <2>5. WaitInv' /\ WokenInv'
    BY <1>u, <1>2, Waiters
  <2> QED BY <2>1, <2>2, <2>3, <2>4, <2>5 DEF HandoffInv
<1> QED BY <1>1, <1>2 DEF Schedule

LEMMA RunHandoffStep ==
  ASSUME HandoffInv, RunHandoff
  PROVE HandoffInv'
<1>t. /\ DOMAIN at = Events /\ ready \in Seq(Events) /\ pending \in [Activations -> Nat]
      /\ drained \in [Activations -> SUBSET Drains] /\ DOMAIN drain = Drains
      /\ \A d \in Drains : wanted[d] \subseteq Events
  BY DEF HandoffInv, TypeInv
<1>u. UNCHANGED <<adapter, input, active, activations, of, loop, wanted>> /\ loop = "running"
  BY DEF RunHandoff, pluginVars, historyVars
<1>h. ready # <<>>
  BY DEF RunHandoff
<1>1. PICK e \in Events : e = Head(ready)
  BY <1>t, <1>h
<1>s. at[e] = "scheduled" /\ ready[1] = e
  <2>1. 1 \in 1..Len(ready) /\ ready[1] = e
    BY <1>t, <1>h, <1>1
  <2>2. at[ready[1]] = "scheduled"
    BY <2>1 DEF HandoffInv, ReadyInv
  <2> QED BY <2>1, <2>2
<1>2. PICK a0 \in Activations : a0 = of[e]
  BY <1>s DEF HandoffInv, HolderInv, UnderWay
<1>3. /\ ready # <<>> /\ ready' = Tail(ready) /\ ready[1] = e
      /\ at[e] = "scheduled" /\ Goes(e, "recorded") /\ at' = [at EXCEPT ![e] = "recorded"]
      /\ pending' = [pending EXCEPT ![a0] = pending[a0] - 1]
  BY <1>h, <1>s, <1>1, <1>2 DEF RunHandoff, Goes
<1>4. \/ /\ pending[a0] - 1 = 0
         /\ drained' = [drained EXCEPT ![a0] = {}]
         /\ drain' = [d \in Drains |-> IF d \in drained[a0] THEN "resolved" ELSE drain[d]]
      \/ pending[a0] - 1 # 0 /\ UNCHANGED <<drained, drain>>
  BY <1>1, <1>2 DEF RunHandoff, Wakes
<1>5. ASSUME NEW a \in Activations
      PROVE /\ IsFiniteSet(Owed(a)') /\ pending'[a] = Cardinality(Owed(a)')
            /\ pending'[a] <= MaxPending /\ pending'[a] \in Nat
            /\ drained'[a] # {} => pending'[a] > 0
  <2>1. IF of[e] = a
        THEN IsFiniteSet(Owed(a)') /\ pending[a] > 0 /\ Cardinality(Owed(a)') = pending[a] - 1
        ELSE Owed(a)' = Owed(a)
    BY <1>3, <1>u, OwesLess DEF Unfinished
  <2>2. /\ pending[a] \in Nat /\ pending[a] <= MaxPending /\ MaxPending \in Nat
        /\ IsFiniteSet(Owed(a)) /\ pending[a] = Cardinality(Owed(a))
        /\ drained[a] # {} => pending[a] > 0
    BY <1>u, HandoffOptions DEF HandoffInv, CountInv, TypeInv
  <2>3. CASE a0 = a
    <3>1. pending'[a] = pending[a] - 1
      BY <2>3, <1>3, <1>t
    <3>2. pending[a] - 1 = 0 => drained'[a] = {}
      BY <2>3, <1>4, <1>t
    <3> QED BY <2>1, <2>2, <2>3, <1>2, <3>1, <3>2
  <2>4. CASE a0 # a
    <3>1. pending'[a] = pending[a] /\ drained'[a] = drained[a]
      BY <2>4, <1>3, <1>4, <1>t
    <3> QED BY <2>1, <2>2, <2>4, <1>2, <3>1
  <2> QED BY <2>3, <2>4
<1>6. TypeInv'
  <2>1. DOMAIN at' = Events /\ at' = [x \in Events |-> at'[x]]
    BY <1>3, <1>t DEF HandoffInv, TypeInv
  <2>2. pending' \in [Activations -> Nat]
    BY <1>5, <1>3, <1>t
  <2>3. ready' \in Seq(Events)
    BY <1>3, <1>t
  <2>4. drained' \in [Activations -> SUBSET Drains]
    BY <1>4, <1>t
  <2>5. DOMAIN drain' = Drains /\ drain' = [d \in Drains |-> drain'[d]]
    BY <1>4, <1>t DEF HandoffInv, TypeInv
  <2> QED BY <2>1, <2>2, <2>3, <2>4, <2>5, <1>u DEF HandoffInv, TypeInv, Activations
<1>7. HolderInv'
  BY <1>3, <1>u, HolderKept DEF UnderWay
<1>8. CountInv'
  BY <1>5 DEF CountInv, Activations
<1>9. ReadyInv'
  <2>1. ASSUME NEW i \in 1..Len(ready')
        PROVE ready'[i] = ready[i + 1] /\ i + 1 \in 1..Len(ready)
    BY <1>3, <1>t
  <2>2. ASSUME NEW i \in 1..Len(ready')
        PROVE at'[ready'[i]] = "scheduled"
    <3>1. i + 1 \in 1..Len(ready) /\ 1 \in 1..Len(ready) /\ ready'[i] = ready[i + 1]
      BY <2>1
    <3>2. ready[i + 1] # e /\ at[ready[i + 1]] = "scheduled" /\ ready[i + 1] \in Events
      BY <3>1, <1>3, <1>t DEF HandoffInv, ReadyInv
    <3> QED BY <3>1, <3>2, <1>3, <1>t
  <2>3. ASSUME NEW i \in 1..Len(ready'), NEW j \in 1..Len(ready'), ready'[i] = ready'[j]
        PROVE i = j
    <3>1. ready[i + 1] = ready[j + 1] /\ i + 1 \in 1..Len(ready) /\ j + 1 \in 1..Len(ready)
      BY <2>1, <2>3
    <3>2. i + 1 = j + 1
      BY <3>1 DEF HandoffInv, ReadyInv
    <3> QED BY <3>2
  <2> QED BY <2>2, <2>3 DEF ReadyInv
<1>10. \A x \in Events : /\ at[x] = "recorded" => at'[x] = "recorded"
                         /\ at[x] \in {"scheduled", "recorded"} =>
                              at'[x] \in {"scheduled", "recorded"}
  BY <1>3, <1>t
<1>11. WaitInv'
  <2>1. ASSUME NEW a \in Activations, NEW d \in drained'[a]
        PROVE /\ drain'[d] = "waiting"
              /\ \A b \in Activations : d \in drained'[b] => a = b
              /\ \A x \in wanted[d] : of[x] = a /\ at'[x] \in {"scheduled", "recorded"}
    <3>1. d \in drained[a] /\ d \in Drains /\ \A b \in Activations : d \in drained'[b] => d \in drained[b]
      BY <1>4, <1>t
    <3>2. /\ drain[d] = "waiting"
          /\ \A b \in Activations : d \in drained[b] => a = b
          /\ \A x \in wanted[d] : of[x] = a /\ at[x] \in {"scheduled", "recorded"}
      BY <3>1, <1>u DEF HandoffInv, WaitInv
    <3>3. drain'[d] = drain[d]
      <4>1. CASE pending[a0] - 1 = 0
        <5>1. a # a0
          BY <1>4, <1>t, <4>1
        <5>2. d \notin drained[a0]
          BY <3>2, <5>1
        <5> QED BY <1>4, <4>1, <5>2, <3>1
      <4>2. CASE pending[a0] - 1 # 0
        BY <1>4, <4>2
      <4> QED BY <4>1, <4>2
    <3> QED BY <3>1, <3>2, <3>3, <1>10, <1>t
  <2> QED BY <2>1, <1>u DEF WaitInv, Activations
<1>12. WokenInv'
  <2>1. ASSUME NEW d \in Drains, drain'[d] \in {"resolved", "returned"}, NEW x \in wanted[d]
        PROVE at'[x] = "recorded"
    <3>x. x \in Events
      BY <1>t
    <3>1. CASE drain[d] \in {"resolved", "returned"}
      BY <3>1, <3>x, <1>10 DEF HandoffInv, WokenInv
    <3>2. CASE drain[d] \notin {"resolved", "returned"}
      <4>1. pending[a0] - 1 = 0 /\ d \in drained[a0]
        BY <1>4, <3>2, <2>1
      <4>2. of[x] = a0 /\ at[x] \in {"scheduled", "recorded"}
        BY <4>1, <1>u DEF HandoffInv, WaitInv
      <4>3. Owed(a0)' = {}
        <5>1. pending'[a0] = 0
          BY <4>1, <1>3, <1>t
        <5> QED BY <5>1, <1>5, FS_EmptySet
      <4>4. at'[x] \notin Unfinished
        BY <4>2, <4>3, <3>x, <1>u DEF Owed
      <4>5. at'[x] \in {"scheduled", "recorded"}
        BY <4>2, <3>x, <1>10
      <4> QED BY <4>4, <4>5 DEF Unfinished
    <3> QED BY <3>1, <3>2
  <2> QED BY <2>1, <1>u DEF WokenInv
<1> QED BY <1>6, <1>7, <1>8, <1>9, <1>11, <1>12 DEF HandoffInv

(* What was scheduled is owed still, and never runs. *)
LEMMA LoopClosesStep ==
  ASSUME HandoffInv, LoopCloses
  PROVE HandoffInv'
<1>u. /\ UNCHANGED <<adapter, input, active, activations, of, pending, drained, wanted>>
      /\ loop' = "closed" /\ ready' = <<>>
  BY DEF LoopCloses, pluginVars, historyVars
<1>1. \A x \in Events : at'[x] = IF at[x] = "scheduled" THEN "lost" ELSE at[x]
  BY DEF LoopCloses
<1>2. \A d \in Drains : drain'[d] = IF drain[d] \in {"waiting", "resolved"} THEN "cancelled"
                                    ELSE drain[d]
  BY DEF LoopCloses
<1>3. TypeInv'
  <2>1. DOMAIN at' = Events /\ at' = [x \in Events |-> at'[x]]
    BY DEF LoopCloses
  <2>2. DOMAIN drain' = Drains /\ drain' = [d \in Drains |-> drain'[d]]
    BY DEF LoopCloses
  <2>3. ready' \in Seq(Events)
    BY <1>u
  <2> QED BY <2>1, <2>2, <2>3, <1>u DEF HandoffInv, TypeInv, Activations
<1>4. HolderInv'
  <2>1. ASSUME NEW x \in Events
        PROVE /\ at'[x] \in UnderWay => at[x] \in UnderWay
              /\ at'[x] = "read" => at[x] = "read"
    BY <1>1 DEF UnderWay
  <2> QED BY <2>1, <1>u DEF HandoffInv, HolderInv, Activations
<1>5. CountInv'
  <2>1. ASSUME NEW a \in Activations
        PROVE Owed(a)' = Owed(a)
    BY <1>1, <1>u DEF Owed, Unfinished
  <2> QED BY <2>1, <1>u DEF HandoffInv, CountInv, Activations
<1>6. ReadyInv' /\ WaitInv'
  BY <1>u DEF ReadyInv, WaitInv
<1>7. WokenInv'
  <2>1. ASSUME NEW d \in Drains, drain'[d] \in {"resolved", "returned"}, NEW x \in wanted[d]
        PROVE at'[x] = "recorded"
    <3>1. drain[d] = "returned"
      BY <2>1, <1>2
    <3>2. x \in Events /\ at[x] = "recorded"
      BY <3>1 DEF HandoffInv, WokenInv, TypeInv
    <3> QED BY <3>2, <1>1
  <2> QED BY <2>1, <1>u DEF WokenInv
<1> QED BY <1>3, <1>4, <1>5, <1>6, <1>7 DEF HandoffInv
-----------------------------------------------------------------------------
(* The steps of drain(). *)

(* A drain() moves, and shares no future more, and no bridge's future that has *)
(* nothing to wake it.                                                         *)
LEMMA DrainMoves ==
  ASSUME HandoffInv, UNCHANGED <<adapter, input, active, activations, at, of, pending, ready, loop>>,
         TypeInv', WaitInv', WokenInv',
         loop = "running" => \A a \in Activations : drained'[a] # {} => pending[a] > 0
  PROVE HandoffInv'
<1>1. HolderInv'
  BY DEF HandoffInv, HolderInv, Activations
<1>2. CountInv'
  <2>1. ASSUME NEW a \in Activations
        PROVE Owed(a)' = Owed(a)
    BY DEF Owed
  <2> QED BY <2>1 DEF HandoffInv, CountInv, Activations
<1>3. ReadyInv'
  BY DEF HandoffInv, ReadyInv
<1> QED BY <1>1, <1>2, <1>3 DEF HandoffInv

LEMMA DrainStep ==
  ASSUME HandoffInv, NEW d \in Drains, Drain(d)
  PROVE HandoffInv'
<1>u. /\ UNCHANGED <<adapter, input, active, activations, at, of, pending, ready, loop>>
      /\ loop = "running" /\ drain[d] = "new"
  BY DEF Drain, pluginVars, eventVars
<1>t. /\ DOMAIN drain = Drains /\ drained \in [Activations -> SUBSET Drains]
      /\ wanted \in [Drains -> SUBSET Events] /\ pending \in [Activations -> Nat]
  BY DEF HandoffInv, TypeInv
<1>n. \A a \in Activations : d \notin drained[a]
  BY <1>u DEF HandoffInv, WaitInv
<1>p. \A a \in Activations : drained[a] # {} => pending[a] > 0
  BY <1>u DEF HandoffInv, CountInv
<1>1. ASSUME NEW place \in {"raised", "returned"}, NEW w \in SUBSET Events,
             drain' = [drain EXCEPT ![d] = place], UNCHANGED drained,
             wanted' = [wanted EXCEPT ![d] = w] \/ (wanted' = wanted /\ place = "raised"),
             place = "returned" => \A x \in w : at[x] = "recorded"
      PROVE HandoffInv'
  <2>1. TypeInv'
    <3>1. DOMAIN drain' = Drains /\ drain' = [x \in Drains |-> drain'[x]]
      BY <1>1, <1>t DEF HandoffInv, TypeInv
    <3>2. wanted' \in [Drains -> SUBSET Events]
      BY <1>1, <1>t
    <3> QED BY <3>1, <3>2, <1>1, <1>u DEF HandoffInv, TypeInv, Activations
  <2>2. WaitInv'
    <3>1. ASSUME NEW a \in Activations, NEW c \in drained[a]
          PROVE c # d /\ c \in Drains /\ drain'[c] = drain[c] /\ wanted'[c] = wanted[c]
      BY <1>1, <1>n, <1>t
    <3> QED BY <3>1, <1>1, <1>u DEF HandoffInv, WaitInv, Activations
  <2>3. WokenInv'
    <3>1. ASSUME NEW c \in Drains, c # d
          PROVE drain'[c] = drain[c] /\ wanted'[c] = wanted[c]
      BY <1>1, <3>1, <1>t
    <3>2. drain'[d] = place /\ (place = "returned" => wanted'[d] = w)
      BY <1>1, <1>t
    <3> QED BY <3>1, <3>2, <1>1, <1>u DEF HandoffInv, WokenInv
  <2> QED BY <2>1, <2>2, <2>3, <1>1, <1>u, <1>p, DrainMoves
<1>2. CASE DrainEnds(d, "raised")
  BY <1>2, <1>1 DEF DrainEnds, historyVars
<1>3. CASE /\ (IF active = 0 THEN TRUE ELSE pending[active] = 0)
           /\ drain' = [drain EXCEPT ![d] = "returned"] /\ UNCHANGED drained
           /\ wanted' = [wanted EXCEPT ![d] = IF active = 0 THEN {} ELSE Accepted(active)]
  <2> DEFINE w == IF active = 0 THEN {} ELSE Accepted(active)
  <2>1. w = {}
    <3>1. CASE active = 0
      BY <3>1
    <3>2. CASE active # 0
      <4>1. active \in Activations
        BY <3>2, HandoffOptions DEF HandoffInv, TypeInv, Activations
      <4>2. IsFiniteSet(Owed(active)) /\ Cardinality(Owed(active)) = 0
        BY <4>1, <3>2, <1>3 DEF HandoffInv, CountInv
      <4>3. Owed(active) = {}
        BY <4>2, FS_EmptySet
      <4> QED BY <3>2, <4>3 DEF Owed, Accepted, Unfinished
    <3> QED BY <3>1, <3>2
  <2> QED BY <2>1, <1>1, <1>3
<1>4. CASE /\ (IF active = 0 THEN FALSE ELSE pending[active] > 0)
           /\ drain' = [drain EXCEPT ![d] = "waiting"]
           /\ drained' = [drained EXCEPT ![active] = Join(@, d)]
           /\ wanted' = [wanted EXCEPT ![d] = IF active = 0 THEN {} ELSE Accepted(active)]
  <2>0. active \in Activations /\ pending[active] > 0
    BY <1>4, HandoffOptions DEF HandoffInv, TypeInv, Activations
  <2>1. /\ \A a \in Activations : drained'[a] = IF a = active THEN drained[a] \cup {d}
                                                 ELSE drained[a]
        /\ \A c \in Drains : c # d => drain'[c] = drain[c] /\ wanted'[c] = wanted[c]
        /\ drain'[d] = "waiting" /\ wanted'[d] = Accepted(active)
    BY <1>4, <2>0, <1>t DEF Join
  <2>2. TypeInv'
    <3>1. DOMAIN drain' = Drains /\ drain' = [x \in Drains |-> drain'[x]]
      BY <1>4, <1>t DEF HandoffInv, TypeInv
    <3>2. wanted' \in [Drains -> SUBSET Events]
      BY <1>4, <1>t DEF Accepted
    <3>3. drained' \in [Activations -> SUBSET Drains]
      BY <1>4, <1>t, <2>0 DEF Join
    <3> QED BY <3>1, <3>2, <3>3, <1>u DEF HandoffInv, TypeInv, Activations
  <2>3. WaitInv'
    <3>1. ASSUME NEW a \in Activations, NEW c \in drained'[a]
          PROVE /\ drain'[c] = "waiting"
                /\ \A b \in Activations : c \in drained'[b] => a = b
                /\ \A x \in wanted'[c] : of[x] = a /\ at[x] \in {"scheduled", "recorded"}
      <4>1. CASE c = d
        <5>1. a = active
          BY <4>1, <2>1, <1>n, <3>1
        <5> QED BY <4>1, <5>1, <2>1, <1>n DEF Accepted
      <4>2. CASE c # d
        <5>1. c \in drained[a]
          BY <4>2, <2>1, <3>1
        <5>d. c \in Drains
          BY <5>1, <1>t
        <5>2. \A b \in Activations : c \in drained'[b] => c \in drained[b]
          BY <4>2, <2>1
        <5> QED BY <4>2, <5>1, <5>d, <5>2, <2>1, <1>u DEF HandoffInv, WaitInv
      <4> QED BY <4>1, <4>2
    <3> QED BY <3>1, <1>u DEF WaitInv, Activations
  <2>4. WokenInv'
    BY <2>1, <1>u DEF HandoffInv, WokenInv
  <2>5. \A a \in Activations : drained'[a] # {} => pending[a] > 0
    BY <2>0, <2>1, <1>p
  <2> QED BY <2>2, <2>3, <2>4, <2>5, <1>u, DrainMoves
<1> QED BY <1>2, <1>3, <1>4 DEF Drain, NoteAccepted

LEMMA DrainTimesOutStep ==
  ASSUME HandoffInv, NEW d \in Drains, DrainTimesOut(d)
  PROVE HandoffInv'
<1>u. UNCHANGED <<adapter, input, active, activations, at, of, pending, ready, loop, wanted>>
  BY DEF DrainTimesOut, pluginVars, eventVars, historyVars
<1>1. /\ drain' = [drain EXCEPT ![d] = "timeout"]
      /\ drained' = [a \in Activations |-> drained[a] \ {d}]
  BY DEF DrainTimesOut
<1>t. /\ DOMAIN drain = Drains /\ drained \in [Activations -> SUBSET Drains]
      /\ wanted \in [Drains -> SUBSET Events]
  BY DEF HandoffInv, TypeInv
<1>2. TypeInv'
  <2>1. DOMAIN drain' = Drains /\ drain' = [x \in Drains |-> drain'[x]]
    BY <1>1, <1>t DEF HandoffInv, TypeInv
  <2>2. drained' \in [Activations -> SUBSET Drains]
    BY <1>1, <1>t
  <2> QED BY <2>1, <2>2, <1>u DEF HandoffInv, TypeInv, Activations
<1>3. WaitInv'
  <2>1. ASSUME NEW a \in Activations, NEW c \in drained'[a]
        PROVE c # d /\ c \in drained[a] /\ c \in Drains /\ drain'[c] = drain[c]
    BY <1>1, <1>t
  <2>2. \A b \in Activations : drained'[b] \subseteq drained[b]
    BY <1>1
  <2> QED BY <2>1, <2>2, <1>u DEF HandoffInv, WaitInv, Activations
<1>4. WokenInv'
  BY <1>1, <1>t, <1>u DEF HandoffInv, WokenInv
<1>5. loop = "running" => \A a \in Activations : drained'[a] # {} => pending[a] > 0
  BY <1>1, <1>t DEF HandoffInv, CountInv
<1> QED BY <1>2, <1>3, <1>4, <1>5, <1>u, DrainMoves

LEMMA DrainResumesStep ==
  ASSUME HandoffInv, NEW d \in Drains, DrainResumes(d)
  PROVE HandoffInv'
<1>u. /\ UNCHANGED <<adapter, input, active, activations, at, of, pending, drained, ready, loop,
                     wanted>>
      /\ drain[d] = "resolved" /\ drain' = [drain EXCEPT ![d] = "returned"]
  BY DEF DrainResumes, pluginVars, eventVars, bridgeVars, historyVars
<1>t. DOMAIN drain = Drains /\ drained \in [Activations -> SUBSET Drains]
  BY DEF HandoffInv, TypeInv
<1>2. TypeInv'
  <2>1. DOMAIN drain' = Drains /\ drain' = [x \in Drains |-> drain'[x]]
    BY <1>u, <1>t DEF HandoffInv, TypeInv
  <2> QED BY <2>1, <1>u DEF HandoffInv, TypeInv, Activations
<1>3. WaitInv'
  <2>1. ASSUME loop = "running", NEW a \in Activations, NEW c \in drained[a]
        PROVE drain'[c] = "waiting"
    <3>1. drain[c] = "waiting" /\ c \in Drains
      BY <2>1, <1>t DEF HandoffInv, WaitInv
    <3> QED BY <3>1, <1>u, <1>t
  <2> QED BY <2>1, <1>u DEF HandoffInv, WaitInv, Activations
<1>4. WokenInv'
  BY <1>t, <1>u DEF HandoffInv, WokenInv
<1>5. loop = "running" => \A a \in Activations : drained'[a] # {} => pending[a] > 0
  BY <1>u DEF HandoffInv, CountInv
<1> QED BY <1>2, <1>3, <1>4, <1>5, <1>u, DrainMoves
-----------------------------------------------------------------------------
LEMMA HandoffInit == Init => HandoffInv
<1> SUFFICES ASSUME Init PROVE HandoffInv
  OBVIOUS
<1>1. TypeInv
  BY HandoffOptions DEF Init, TypeInv, Activations
<1>2. HolderInv
  BY DEF Init, HolderInv, UnderWay
<1>3. CountInv
  <2>1. ASSUME NEW a \in Activations
        PROVE Owed(a) = {} /\ pending[a] = 0 /\ drained[a] = {}
    BY DEF Init, Owed, Unfinished
  <2> QED BY <2>1, FS_EmptySet, HandoffOptions DEF CountInv
<1>4. ReadyInv /\ WaitInv /\ WokenInv
  BY DEF Init, ReadyInv, WaitInv, WokenInv
<1> QED BY <1>1, <1>2, <1>3, <1>4 DEF HandoffInv

LEMMA HandoffStep == HandoffInv /\ [Next]_vars => HandoffInv'
<1> SUFFICES ASSUME HandoffInv, [Next]_vars PROVE HandoffInv'
  OBVIOUS
<1>1. CASE Register
  <2>1. Still /\ UNCHANGED <<at, of>> /\ adapter = "relay"
    BY <1>1 DEF Register, Still, eventVars
  <2>2. active' \in 0..MaxActivations /\ activations' \in 1..MaxActivations
    BY <1>1, HandoffOptions DEF Register, HandoffInv, TypeInv
  <2> QED BY <2>1, <2>2, PluginStep
<1>2. CASE Close
  <2>1. Still /\ UNCHANGED <<at, of, activations>>
    BY <1>2 DEF Close, Still
  <2>2. active' \in 0..MaxActivations /\ activations' \in 1..MaxActivations
    BY <1>2, <2>1, HandoffOptions DEF Close, HandoffInv, TypeInv
  <2>3. adapter # "relay" => active' = active
    BY <1>2 DEF Close
  <2> QED BY <2>1, <2>2, <2>3, PluginStep
<1>3. CASE LoopCloses
  BY <1>3, LoopClosesStep
<1>4. CASE \E e \in Events : ThreadStep(e)
  <2>1. PICK e \in Events : ThreadStep(e)
    BY <1>4
  <2> QED BY <2>1, ArrivesStep, ConsumeStartStep, ConsumeEndStep, MapStep, BindsStep, ClaimStep,
             ScheduleStep DEF ThreadStep
<1>5. CASE RunHandoff
  BY <1>5, RunHandoffStep
<1>6. CASE \E d \in Drains : Drain(d) \/ DrainTimesOut(d) \/ DrainResumes(d)
  BY <1>6, DrainStep, DrainTimesOutStep, DrainResumesStep
<1>7. CASE UNCHANGED vars
  <2>1. Still /\ UNCHANGED <<at, of, active, activations>>
    BY <1>7 DEF vars, pluginVars, eventVars, Still
  <2>2. active' \in 0..MaxActivations /\ activations' \in 1..MaxActivations
    BY <2>1 DEF HandoffInv, TypeInv
  <2> QED BY <2>1, <2>2, PluginStep
<1> QED BY <1>1, <1>2, <1>3, <1>4, <1>5, <1>6, <1>7 DEF Next

(* The inductive invariant of the bridge. *)
THEOREM HandoffInvariant == Spec => []HandoffInv
  BY HandoffInit, HandoffStep, PTL DEF Spec

(* EventLoopBridge counts exactly the handoffs it has not seen through, within *)
(* max_pending_handoffs; whoever waits in drain() is waiting for a handoff that *)
(* will wake it, and whoever drain() lets go has what it asked for handed over: *)
(* for every number of threads, events, drains and activations.                *)
THEOREM HandoffsCounted == Spec => []HandoffsExact
<1>1. HandoffInv => HandoffsExact
  <2> SUFFICES ASSUME HandoffInv PROVE HandoffsExact
    OBVIOUS
  <2>1. ASSUME NEW a \in Activations
        PROVE /\ pending[a] = Cardinality({e \in Events : of[e] = a /\ at[e] \in Unfinished})
              /\ pending[a] <= MaxPending
              /\ loop = "running" /\ drained[a] # {} => pending[a] > 0
    BY DEF HandoffInv, CountInv, Owed
  <2>2. \A d \in Drains : drain[d] = "returned" => \A e \in wanted[d] : at[e] = "recorded"
    BY DEF HandoffInv, WokenInv
  <2> QED BY <2>1, <2>2 DEF HandoffsExact
<1> QED BY <1>1, HandoffInvariant, PTL
-----------------------------------------------------------------------------
(* A set of numbers has a least one, so what holds of 0 and is passed on by a *)
(* number to the next holds of all of them.                                   *)
LEMMA LeastNumber ==
  ASSUME NEW S \in SUBSET Nat, S # {}
  PROVE  \E n \in S : \A m \in S : n <= m
<1>1. PICK n \in S : \A m \in S : <<m, n>> \notin OpToRel(<, Nat)
  BY NatLessThanWellFounded, WFMin
<1>2. ASSUME NEW m \in S PROVE n <= m
  <2>1. <<m, n>> \notin {ss \in Nat \X Nat : ss[1] < ss[2]}
    BY <1>1 DEF OpToRel
  <2>2. n \in Nat /\ m \in Nat
    OBVIOUS
  <2> QED
    BY <2>1, <2>2
<1> QED
  BY <1>2

LEMMA SetInduction ==
  ASSUME NEW S, 0 \in S, \A n \in Nat : n \in S => n + 1 \in S
  PROVE  Nat \subseteq S
<1> SUFFICES ASSUME Nat \ S # {} PROVE FALSE
  OBVIOUS
<1>1. PICK n \in Nat \ S : \A m \in Nat \ S : n <= m
  BY LeastNumber
<1>2. n # 0 /\ n - 1 \in Nat
  BY <1>1
<1>3. n - 1 \in S
  BY <1>1, <1>2
<1> QED
  BY <1>2, <1>3
-----------------------------------------------------------------------------
(* A tracker takes each event once, and no end before its start. *)
History(trace, h) ==
  /\ h \in Seq({"start", "end"} \X DOMAIN trace)
  /\ \A i, j \in 1..Len(h) : h[i] = h[j] => i = j
  /\ \A i, j \in 1..Len(h) : h[i][1] = "end" /\ h[j] = <<"start", h[i][2]>> => j < i

(* Every event of a history is a start or an end of a scope of the run. *)
LEMMA HistoryIs ==
  ASSUME NEW trace, NEW h, History(trace, h)
  PROVE  /\ Len(h) \in Nat /\ DOMAIN h = 1..Len(h)
         /\ \A j \in 1..Len(h) : /\ h[j] = <<h[j][1], h[j][2]>> /\ h[j][2] \in DOMAIN trace
                                 /\ h[j][1] \in {"start", "end"}
<1> DEFINE E == {"start", "end"} \X DOMAIN trace
<1>1. h \in Seq(E)
  BY DEF History
<1>2. \A f \in E : f = <<f[1], f[2]>> /\ f[2] \in DOMAIN trace /\ f[1] \in {"start", "end"}
  OBVIOUS
<1> HIDE DEF E
<1>3. Len(h) \in Nat /\ DOMAIN h = 1..Len(h) /\ \A j \in 1..Len(h) : h[j] \in E
  BY <1>1
<1> QED
  BY <1>2, <1>3

(* One history goes on from another, by one event. *)
GoesOn(trace, h, h2) ==
  /\ History(trace, h) /\ History(trace, h2)
  /\ Len(h2) = Len(h) + 1
  /\ \A j \in 1..Len(h) : h2[j] = h[j]

LEMMA HappenedIs ==
  ASSUME NEW trace, NEW h, History(trace, h), NEW e, NEW k
  PROVE  Happened(h, e, k) <=> \E j \in 1..Len(h) : h[j] = e /\ j <= k
  BY DEF Happened, When, History

LEMMA MomentIs ==
  ASSUME NEW trace, NEW h, History(trace, h), NEW k \in 1..Len(h)
  PROVE  When(h, h[k]) = {k} /\ Moment(h, h[k]) = k
<1>1. When(h, h[k]) = {k}
  BY DEF History, When
<1> QED
  BY <1>1 DEF Moment

(* Only scopes of the run are seen, and finitely many. *)
LEMMA SeenIs ==
  ASSUME NEW trace, NEW h, History(trace, h)
  PROVE  /\ Seen(h) = {h[j][2] : j \in 1..Len(h)}
         /\ Seen(h) \subseteq DOMAIN trace
         /\ IsFiniteSet(Seen(h))
<1>1. Seen(h) = {h[j][2] : j \in 1..Len(h)}
  BY DEF Seen, History, Range
<1>2. IsFiniteSet(1..Len(h)) /\ 1..Len(h) = DOMAIN [j \in 1..Len(h) |-> h[j][2]]
  BY FS_Interval DEF History
<1>3. IsFiniteSet({[j \in 1..Len(h) |-> h[j][2]][i] : i \in 1..Len(h)})
  <2> DEFINE f == [j \in 1..Len(h) |-> h[j][2]]
             T == {f[i] : i \in 1..Len(h)}
  <2>1. f \in Surjection(1..Len(h), T)
    BY DEF Surjection
  <2> QED
    BY <1>2, <2>1, FS_Surjection
<1>4. {[j \in 1..Len(h) |-> h[j][2]][i] : i \in 1..Len(h)} = {h[j][2] : j \in 1..Len(h)}
  OBVIOUS
<1>5. Seen(h) \subseteq DOMAIN trace
  BY <1>1, HistoryIs
<1> QED
  BY <1>1, <1>3, <1>4, <1>5

(* What a history says of a moment does not change as it goes on. *)
LEMMA PrefixOpen ==
  ASSUME NEW trace, NEW h, NEW h2, GoesOn(trace, h, h2), NEW k \in Int, k <= Len(h)
  PROVE  /\ \A f : Happened(h2, f, k) <=> Happened(h, f, k)
         /\ \A s : OpenAfter(h2, s, k) <=> OpenAfter(h, s, k)
<1>1. /\ History(trace, h) /\ History(trace, h2) /\ Len(h) \in Nat /\ Len(h2) = Len(h) + 1
      /\ \A j \in 1..Len(h) : h2[j] = h[j]
  BY HistoryIs DEF GoesOn
<1>2. ASSUME NEW f PROVE Happened(h2, f, k) <=> Happened(h, f, k)
  BY <1>1, HappenedIs
<1> QED
  BY <1>2 DEF OpenAfter

(* What was so up to a moment does not depend on what came after it. *)
LEMMA PrefixYounger ==
  ASSUME NEW trace, NEW h, NEW h2, GoesOn(trace, h, h2), NEW k \in Int, k <= Len(h), NEW s
  PROVE  Younger(h2, s, k) = Younger(h, s, k)
<1>1. /\ History(trace, h) /\ History(trace, h2) /\ Len(h) \in Nat /\ Len(h2) = Len(h) + 1
      /\ \A j \in 1..Len(h) : h2[j] = h[j]
  BY HistoryIs DEF GoesOn
<1>2. ASSUME NEW x, OpenAfter(h, x, k)
      PROVE  /\ x \in Seen(h) /\ x \in Seen(h2)
             /\ When(h2, <<"start", x>>) = When(h, <<"start", x>>)
             /\ \A j \in When(h, <<"start", x>>) : j - 1 \in Int /\ j - 1 <= Len(h)
  <2>1. PICK j \in 1..Len(h) : h[j] = <<"start", x>> /\ j <= k
    BY <1>1, <1>2, HappenedIs DEF OpenAfter
  <2>2. h2[j] = <<"start", x>>
    BY <1>1, <2>1
  <2>3. When(h, h[j]) = {j}
    BY <1>1, MomentIs
  <2>6. j \in 1..Len(h2)
    BY <1>1
  <2>7. When(h2, h2[j]) = {j}
    BY <1>1, <2>6, MomentIs
  <2>4. h[j][2] = x /\ h2[j][2] = x
    BY <2>1, <2>2
  <2>5. x \in Seen(h) /\ x \in Seen(h2)
    <3>1. Seen(h) = {h[i][2] : i \in 1..Len(h)}
      BY <1>1, SeenIs
    <3>2. Seen(h2) = {h2[i][2] : i \in 1..Len(h2)}
      BY <1>1, SeenIs
    <3> QED
      BY <2>4, <2>6, <3>1, <3>2
  <2>8. When(h, <<"start", x>>) = {j} /\ When(h2, <<"start", x>>) = {j}
    BY <2>1, <2>2, <2>3, <2>7
  <2>9. j - 1 \in Int /\ j - 1 <= Len(h)
    BY <1>1
  <2> QED
    BY <2>5, <2>8, <2>9
<1>3. \A x : OpenAfter(h2, x, k) <=> OpenAfter(h, x, k)
  BY PrefixOpen
<1>4. \A f, i : i \in Int /\ i <= Len(h) => (Happened(h2, f, i) <=> Happened(h, f, i))
  BY PrefixOpen
<1>5. ASSUME NEW x PROVE x \in Younger(h2, s, k) <=> x \in Younger(h, s, k)
  BY <1>2, <1>3, <1>4 DEF Younger
<1> QED
  BY <1>5

LEMMA PrefixLost ==
  ASSUME NEW trace, NEW h, NEW h2, GoesOn(trace, h, h2), NEW k \in Int, k <= Len(h), NEW s
  PROVE  /\ EvictedBy(h2, s, k) <=> EvictedBy(h, s, k)
         /\ LostBy(h2, s, k) <=> LostBy(h, s, k)
<1>1. \A j \in 1..k : /\ OpenAfter(h2, s, j) <=> OpenAfter(h, s, j)
                      /\ Younger(h2, s, j) = Younger(h, s, j)
  BY HistoryIs, PrefixOpen, PrefixYounger DEF GoesOn
<1>2. EvictedBy(h2, s, k) <=> EvictedBy(h, s, k)
  BY <1>1 DEF EvictedBy
<1> QED
  BY <1>2, PrefixOpen DEF LostBy

LEMMA LostIsSeen ==
  ASSUME NEW trace, NEW h, History(trace, h), NEW s, NEW k \in Int, LostBy(h, s, k)
  PROVE  s \in Seen(h)
<1>1. \E j \in Int : Happened(h, <<"start", s>>, j)
  BY DEF LostBy, EvictedBy, OpenAfter
<1> QED
  BY <1>1, HappenedIs, SeenIs

LEMMA PrefixForgotten ==
  ASSUME NEW trace, NEW h, NEW h2, GoesOn(trace, h, h2), NEW k \in Int, k <= Len(h), NEW s
  PROVE  ForgottenBy(h2, s, k) <=> ForgottenBy(h, s, k)
<1>1. \A x : \A j \in Int : j <= k => (LostBy(h2, x, j) <=> LostBy(h, x, j))
  BY PrefixLost, HistoryIs DEF GoesOn
<1>2. \A x : LostBy(h, x, k) => x \in Seen(h)
  BY LostIsSeen DEF GoesOn
<1>3. \A x : LostBy(h, x, k) => x \in Seen(h2)
  BY <1>1, LostIsSeen DEF GoesOn
<1>4. ASSUME NEW j \in 1..k
      PROVE  {x \in Seen(h2) : LostBy(h2, x, k) /\ ~LostBy(h2, x, j)}
               = {x \in Seen(h) : LostBy(h, x, k) /\ ~LostBy(h, x, j)}
  BY <1>1, <1>2, <1>3
<1>5. \A j \in 1..k : LostBy(h2, s, j) <=> LostBy(h, s, j)
  BY <1>1
<1> QED
  BY <1>4, <1>5 DEF ForgottenBy

LEMMA LostStays ==
  ASSUME NEW h, NEW s, NEW j \in Int, NEW k \in Int, j <= k
  PROVE  /\ EvictedBy(h, s, j) => EvictedBy(h, s, k)
         /\ \A e : DOMAIN h \subseteq Int /\ Happened(h, e, j) => Happened(h, e, k)
         /\ DOMAIN h \subseteq Int /\ LostBy(h, s, j) => LostBy(h, s, k)
<1>1. EvictedBy(h, s, j) => EvictedBy(h, s, k)
  BY DEF EvictedBy
<1>2. \A e : DOMAIN h \subseteq Int /\ Happened(h, e, j) => Happened(h, e, k)
  BY DEF Happened, When
<1> QED
  BY <1>1, <1>2 DEF LostBy
-----------------------------------------------------------------------------
(* The scopes a tracker has open, by the moments they started. *)

Rank(h, x) == Moment(h, <<"start", x>>)

(* A scope that has started did so once. *)
LEMMA StartedIs ==
  ASSUME NEW trace, NEW h, History(trace, h), NEW x, NEW k, Happened(h, <<"start", x>>, k)
  PROVE  /\ Rank(h, x) \in 1..Len(h) /\ Rank(h, x) <= k
         /\ h[Rank(h, x)] = <<"start", x>> /\ When(h, <<"start", x>>) = {Rank(h, x)}
         /\ x \in Seen(h) /\ x \in DOMAIN trace
         /\ \A m : Happened(h, <<"start", x>>, m) <=> Rank(h, x) <= m
<1>1. PICK j \in 1..Len(h) : h[j] = <<"start", x>> /\ j <= k
  BY HappenedIs
<1>2. When(h, h[j]) = {j} /\ Moment(h, h[j]) = j
  BY MomentIs
<1>3. When(h, <<"start", x>>) = {j} /\ Rank(h, x) = j
  BY <1>1, <1>2 DEF Rank
<1>4. x = h[j][2]
  BY <1>1
<1>5. x \in Seen(h) /\ x \in DOMAIN trace
  <2>1. Seen(h) = {h[i][2] : i \in 1..Len(h)}
    BY SeenIs
  <2> QED
    BY <2>1, <1>4, HistoryIs
<1>6. \A m : Happened(h, <<"start", x>>, m) <=> j <= m
  BY <1>3 DEF Happened
<1> QED
  BY <1>1, <1>3, <1>5, <1>6

(* The tracked ones, in order; whoever started after one of them and is open is one too. *)
OpenOK(trace, h, ids) ==
  /\ ids \in Seq(DOMAIN trace)
  /\ \A i, j \in 1..Len(ids) : i < j => Rank(h, ids[i]) < Rank(h, ids[j])
  /\ \A i \in 1..Len(ids) : OpenAfter(h, ids[i], Len(h))
  /\ \A i \in 1..Len(ids) : \A x :
       OpenAfter(h, x, Len(h)) /\ Rank(h, ids[i]) < Rank(h, x) => \E j \in 1..Len(ids) : ids[j] = x

(* The scopes younger than a tracked one are those tracked after it. *)
LEMMA YoungerIs ==
  ASSUME NEW trace, NEW h, History(trace, h), NEW ids, OpenOK(trace, h, ids), NEW i \in 1..Len(ids)
  PROVE  /\ IsFiniteSet(Younger(h, ids[i], Len(h)))
         /\ Cardinality(Younger(h, ids[i], Len(h))) = Len(ids) - i
<1> DEFINE n == Len(h)
           Y == Younger(h, ids[i], n)
<1>1. Len(h) \in Nat /\ Len(ids) \in Nat
  BY HistoryIs DEF OpenOK
<1>2. \A j \in 1..Len(ids) : OpenAfter(h, ids[j], n) /\ Rank(h, ids[j]) \in 1..Len(h)
  BY StartedIs DEF OpenOK, OpenAfter
<1>3. ASSUME NEW x, OpenAfter(h, x, n)
      PROVE  /\ x \in Seen(h)
             /\ x \in Y <=> Rank(h, ids[i]) < Rank(h, x)
  <2>1. /\ Rank(h, x) \in 1..Len(h) /\ When(h, <<"start", x>>) = {Rank(h, x)} /\ x \in Seen(h)
    BY <1>3, StartedIs DEF OpenAfter
  <2>2. Happened(h, <<"start", ids[i]>>, Rank(h, x) - 1) <=> Rank(h, ids[i]) <= Rank(h, x) - 1
    BY <1>2, StartedIs DEF OpenAfter
  <2>3. x \in Y <=> Happened(h, <<"start", ids[i]>>, Rank(h, x) - 1)
    BY <1>3, <2>1 DEF Younger
  <2> QED
    BY <1>1, <1>2, <2>1, <2>2, <2>3
<1>4. Y = {ids[j] : j \in (i + 1)..Len(ids)}
  <2>1. ASSUME NEW x \in Y PROVE x \in {ids[j] : j \in (i + 1)..Len(ids)}
    <3>1. OpenAfter(h, x, n)
      BY DEF Younger
    <3>2. Rank(h, ids[i]) < Rank(h, x)
      BY <1>3, <3>1
    <3>3. PICK j \in 1..Len(ids) : ids[j] = x
      BY <3>1, <3>2 DEF OpenOK
    <3>4. ~(j < i) /\ j # i
      BY <1>2, <3>2, <3>3 DEF OpenOK
    <3> QED
      BY <1>1, <3>3, <3>4
  <2>2. ASSUME NEW j \in (i + 1)..Len(ids) PROVE ids[j] \in Y
    <3>1. j \in 1..Len(ids) /\ i < j
      BY <1>1
    <3>2. Rank(h, ids[i]) < Rank(h, ids[j])
      BY <3>1 DEF OpenOK
    <3> QED
      BY <1>2, <1>3, <3>1, <3>2
  <2> QED
    BY <2>1, <2>2
<1>5. \A j, k \in (i + 1)..Len(ids) : j # k => ids[j] # ids[k]
  <2>1. \A j, k \in 1..Len(ids) : j < k => ids[j] # ids[k]
    BY <1>2 DEF OpenOK
  <2>2. \A j, k \in (i + 1)..Len(ids) : j \in 1..Len(ids) /\ k \in 1..Len(ids) /\ (j # k => j < k \/ k < j)
    BY <1>1
  <2> QED
    BY <2>1, <2>2
<1>6. /\ IsFiniteSet((i + 1)..Len(ids)) /\ Cardinality((i + 1)..Len(ids)) = Len(ids) - i
  BY <1>1, FS_Interval
<1> HIDE DEF Y
<1> DEFINE f == [j \in (i + 1)..Len(ids) |-> ids[j]]
<1>7. f \in Injection((i + 1)..Len(ids), Y) /\ f \in Surjection((i + 1)..Len(ids), Y)
  <2>1. f \in Injection((i + 1)..Len(ids), Y)
    BY <1>4, <1>5 DEF Injection, IsInjective
  <2>2. f \in Surjection((i + 1)..Len(ids), Y)
    BY <1>4 DEF Surjection
  <2> QED
    BY <2>1, <2>2
<1>8. IsFiniteSet(Y) /\ Cardinality(Y) = Len(ids) - i
  BY <1>6, <1>7, FS_Surjection
<1> QED
  BY <1>8 DEF Y
-----------------------------------------------------------------------------
(* One event more. *)

LEMMA NextHappened ==
  ASSUME NEW trace, NEW h, NEW h2, GoesOn(trace, h, h2)
  PROVE  /\ \A f, k : Happened(h2, f, k) <=>
                        Happened(h, f, k) \/ (h2[Len(h2)] = f /\ Len(h2) <= k)
         /\ \A f : ~(h2[Len(h2)] = f /\ \E k : Happened(h, f, k))
         /\ \A x, k : Happened(h, <<"start", x>>, k) => Rank(h2, x) = Rank(h, x)
         /\ \A x : h2[Len(h2)] = <<"start", x>> =>
              /\ Rank(h2, x) = Len(h2)
              /\ \A k : ~Happened(h2, <<"end", x>>, k)
<1>1. /\ History(trace, h) /\ History(trace, h2) /\ Len(h) \in Nat /\ Len(h2) = Len(h) + 1
      /\ \A j \in 1..Len(h) : h2[j] = h[j]
  BY HistoryIs DEF GoesOn
<1>2. /\ \A j \in 1..Len(h2) : j = Len(h2) \/ j \in 1..Len(h)
      /\ \A j \in 1..Len(h) : j \in 1..Len(h2) /\ j # Len(h2)
      /\ Len(h2) \in 1..Len(h2)
  BY <1>1
<1>3. ASSUME NEW f, NEW k
      PROVE  Happened(h2, f, k) <=> Happened(h, f, k) \/ (h2[Len(h2)] = f /\ Len(h2) <= k)
  <2>1. Happened(h2, f, k) <=> \E j \in 1..Len(h2) : h2[j] = f /\ j <= k
    BY <1>1, HappenedIs
  <2>2. Happened(h, f, k) <=> \E j \in 1..Len(h) : h[j] = f /\ j <= k
    BY <1>1, HappenedIs
  <2> QED
    BY <1>1, <1>2, <2>1, <2>2
<1>4. ASSUME NEW f, h2[Len(h2)] = f, NEW k, Happened(h, f, k)
      PROVE  FALSE
  <2>1. PICK j \in 1..Len(h) : h[j] = f
    BY <1>1, <1>4, HappenedIs
  <2>2. h2[j] = h2[Len(h2)]
    BY <1>1, <1>4, <2>1
  <2> QED
    BY <1>1, <1>2, <2>2 DEF History
<1>5. ASSUME NEW x, NEW k, Happened(h, <<"start", x>>, k)
      PROVE  Rank(h2, x) = Rank(h, x)
  <2>1. Rank(h, x) \in 1..Len(h) /\ h[Rank(h, x)] = <<"start", x>>
    BY <1>1, <1>5, StartedIs
  <2>2. Rank(h, x) \in 1..Len(h2) /\ h2[Rank(h, x)] = <<"start", x>>
    BY <1>1, <1>2, <2>1
  <2>3. Moment(h2, h2[Rank(h, x)]) = Rank(h, x)
    BY <1>1, <2>2, MomentIs
  <2> QED
    BY <2>2, <2>3 DEF Rank
<1>6. ASSUME NEW x, h2[Len(h2)] = <<"start", x>>
      PROVE  /\ Rank(h2, x) = Len(h2)
             /\ \A k : ~Happened(h2, <<"end", x>>, k)
  <2>1. Moment(h2, h2[Len(h2)]) = Len(h2)
    BY <1>1, <1>2, MomentIs
  <2>2. ASSUME NEW k, Happened(h2, <<"end", x>>, k)
        PROVE  FALSE
    <3>1. PICK j \in 1..Len(h2) : h2[j] = <<"end", x>>
      BY <1>1, <2>2, HappenedIs
    <3>2. h2[j][1] = "end" /\ h2[j][2] = x
      BY <3>1
    <3>3. h2[Len(h2)] = <<"start", h2[j][2]>>
      BY <1>6, <3>2
    <3>4. Len(h2) < j
      BY <1>1, <1>2, <3>2, <3>3 DEF History
    <3> QED
      BY <1>1, <3>4
  <2> QED
    BY <1>6, <2>1, <2>2 DEF Rank
<1> QED
  BY <1>3, <1>4, <1>5, <1>6

(* What is open, and what is lost, after it. *)
LEMMA NextOpen ==
  ASSUME NEW trace, NEW h, NEW h2, GoesOn(trace, h, h2), NEW s
  PROVE  /\ h2[Len(h2)] = <<"start", s>> =>
              /\ \A x : OpenAfter(h2, x, Len(h2)) <=> x = s \/ OpenAfter(h, x, Len(h))
              /\ \A k : ~OpenAfter(h, s, k)
         /\ h2[Len(h2)] = <<"end", s>> =>
              \A x : OpenAfter(h2, x, Len(h2)) <=> x # s /\ OpenAfter(h, x, Len(h))
<1>1. /\ History(trace, h) /\ History(trace, h2) /\ Len(h) \in Nat /\ Len(h2) = Len(h) + 1
  BY HistoryIs DEF GoesOn
<1>2. \A f, k : Happened(h2, f, k) <=> Happened(h, f, k) \/ (h2[Len(h2)] = f /\ Len(h2) <= k)
  BY NextHappened
<1>3. \A f : Happened(h, f, Len(h2)) <=> Happened(h, f, Len(h))
  BY <1>1, HappenedIs
<1>4. \A f : Happened(h2, f, Len(h2)) <=> Happened(h, f, Len(h)) \/ h2[Len(h2)] = f
  BY <1>1, <1>2, <1>3
<1>5. ASSUME h2[Len(h2)] = <<"start", s>>
      PROVE  /\ \A x : OpenAfter(h2, x, Len(h2)) <=> x = s \/ OpenAfter(h, x, Len(h))
             /\ \A k : ~OpenAfter(h, s, k)
  <2>1. ~Happened(h2, <<"end", s>>, Len(h2))
    BY <1>5, NextHappened
  <2>2. \A k : ~Happened(h, <<"start", s>>, k)
    BY <1>5, NextHappened
  <2>3. \A x : <<"start", s>> # <<"end", x>> /\ (<<"start", s>> = <<"start", x>> <=> x = s)
    OBVIOUS
  <2> QED
    BY <1>4, <1>5, <2>1, <2>2, <2>3 DEF OpenAfter
<1>6. ASSUME h2[Len(h2)] = <<"end", s>>
      PROVE  \A x : OpenAfter(h2, x, Len(h2)) <=> x # s /\ OpenAfter(h, x, Len(h))
  <2>3. \A x : <<"end", s>> # <<"start", x>> /\ (<<"end", s>> = <<"end", x>> <=> x = s)
    OBVIOUS
  <2> QED
    BY <1>4, <1>6, <2>3 DEF OpenAfter
<1> QED
  BY <1>5, <1>6

LEMMA NextEvicted ==
  ASSUME NEW trace, NEW h, NEW h2, GoesOn(trace, h, h2), NEW x
  PROVE  EvictedBy(h2, x, Len(h2)) <=>
           \/ EvictedBy(h, x, Len(h))
           \/ /\ OpenAfter(h2, x, Len(h2))
              /\ Cardinality(Younger(h2, x, Len(h2))) >= MaxScopes
<1>1. Len(h) \in Nat /\ Len(h2) = Len(h) + 1
  BY HistoryIs DEF GoesOn
<1>2. EvictedBy(h2, x, Len(h)) <=> EvictedBy(h, x, Len(h))
  BY <1>1, PrefixLost
<1>3. \A j : j \in 1..Len(h2) <=> j \in 1..Len(h) \/ j = Len(h2)
  BY <1>1
<1> QED
  BY <1>2, <1>3 DEF EvictedBy
-----------------------------------------------------------------------------
(* Sequences that are shortened and extended, as both tables are. *)
LEMMA Joined ==
  ASSUME NEW S, NEW a \in Seq(S), NEW b \in Seq(S)
  PROVE  a \o b \in Seq(S) /\ Len(a \o b) = Len(a) + Len(b)
OBVIOUS

LEMMA RemoveAtIs ==
  ASSUME NEW S, NEW q \in Seq(S), NEW k \in 1..Len(q)
  PROVE  /\ RemoveAt(q, k) \in Seq(S) /\ Len(RemoveAt(q, k)) = Len(q) - 1
         /\ \A i \in 1..(Len(q) - 1) : RemoveAt(q, k)[i] = IF i < k THEN q[i] ELSE q[i + 1]
<1> DEFINE a == SubSeq(q, 1, k - 1)
           b == SubSeq(q, k + 1, Len(q))
<1>1. a \in Seq(S) /\ Len(a) = k - 1 /\ \A i \in 1..(k - 1) : a[i] = q[i]
  OBVIOUS
<1>2. b \in Seq(S) /\ Len(b) = Len(q) - k /\ \A i \in 1..(Len(q) - k) : b[i] = q[k + i]
  OBVIOUS
<1>3. RemoveAt(q, k) = a \o b
  BY DEF RemoveAt
<1>0. Len(q) \in Nat
  OBVIOUS
<1> HIDE DEF a, b
<1>4. Len(a) + Len(b) = Len(q) - 1
  BY <1>0, <1>1, <1>2
<1>5. a \o b \in Seq(S) /\ Len(a \o b) = Len(a) + Len(b)
  BY <1>1, <1>2, Joined
<1>6. ASSUME NEW i \in 1..(Len(q) - 1)
      PROVE  (a \o b)[i] = IF i < k THEN q[i] ELSE q[i + 1]
  <2>1. CASE i < k
    BY <1>1, <1>2, <2>1
  <2>2. CASE ~(i < k)
    <3>1. (a \o b)[i] = b[i - (k - 1)]
      BY <1>1, <1>2, <2>2
    <3>2. i - (k - 1) \in 1..(Len(q) - k) /\ k + (i - (k - 1)) = i + 1
      BY <2>2
    <3> QED
      BY <3>1, <3>2, <1>2, <2>2
  <2> QED
    BY <2>1, <2>2
<1> QED
  BY <1>3, <1>4, <1>5, <1>6

(* A start puts its scope behind the open ones; an end takes its own out. *)
LEMMA OpenStarts ==
  ASSUME NEW trace, NEW h, NEW h2, GoesOn(trace, h, h2), NEW s \in DOMAIN trace,
         h2[Len(h2)] = <<"start", s>>, NEW ids, OpenOK(trace, h, ids)
  PROVE  OpenOK(trace, h2, Append(ids, s))
<1> DEFINE ids2 == Append(ids, s)
           n == Len(ids)
<1>1. /\ History(trace, h) /\ History(trace, h2) /\ Len(h) \in Nat /\ Len(h2) = Len(h) + 1
  BY HistoryIs DEF GoesOn
<1>2. /\ ids2 \in Seq(DOMAIN trace) /\ n \in Nat /\ Len(ids2) = n + 1 /\ ids2[n + 1] = s
      /\ \A i \in 1..n : ids2[i] = ids[i]
  BY DEF OpenOK
<1> HIDE DEF ids2
<1>3. \A x : OpenAfter(h, x, Len(h)) => /\ Rank(h2, x) = Rank(h, x)
                                         /\ Rank(h, x) \in 1..Len(h)
  BY <1>1, NextHappened, StartedIs DEF OpenAfter
<1>4. Rank(h2, s) = Len(h2)
  BY NextHappened
<1>5. \A x : OpenAfter(h2, x, Len(h2)) <=> x = s \/ OpenAfter(h, x, Len(h))
  BY NextOpen
<1>6. \A i \in 1..n : OpenAfter(h, ids[i], Len(h))
  BY DEF OpenOK
<1>7. \A i \in 1..Len(ids2) : i \in 1..n \/ i = n + 1
  BY <1>2
<1>8. ASSUME NEW i \in 1..Len(ids2), NEW j \in 1..Len(ids2), i < j
      PROVE  Rank(h2, ids2[i]) < Rank(h2, ids2[j])
  <2>1. i \in 1..n
    BY <1>2, <1>8
  <2>2. CASE j \in 1..n
    <3>1. Rank(h, ids[i]) < Rank(h, ids[j])
      BY <1>8, <2>1, <2>2 DEF OpenOK
    <3> QED
      BY <1>2, <1>3, <1>6, <2>1, <2>2, <3>1
  <2>3. CASE j = n + 1
    BY <1>1, <1>2, <1>3, <1>4, <1>6, <2>1, <2>3
  <2> QED
    BY <1>7, <2>2, <2>3
<1>9. \A i \in 1..Len(ids2) : OpenAfter(h2, ids2[i], Len(h2))
  BY <1>2, <1>5, <1>6, <1>7
<1>10. ASSUME NEW i \in 1..Len(ids2), NEW x, OpenAfter(h2, x, Len(h2)),
              Rank(h2, ids2[i]) < Rank(h2, x)
       PROVE  \E j \in 1..Len(ids2) : ids2[j] = x
  <2>1. CASE x = s
    BY <1>2, <2>1
  <2>2. CASE x # s
    <3>1. OpenAfter(h, x, Len(h))
      BY <1>5, <1>10, <2>2
    <3>2. i \in 1..n
      <4>1. Rank(h2, x) < Len(h2)
        BY <1>1, <1>3, <3>1
      <4>2. i # n + 1
        BY <1>1, <1>2, <1>3, <1>4, <1>10, <3>1, <4>1
      <4> QED
        BY <1>7, <4>2
    <3>3. Rank(h, ids[i]) < Rank(h, x)
      BY <1>2, <1>3, <1>6, <1>10, <3>1, <3>2
    <3>4. PICK j \in 1..n : ids[j] = x
      BY <3>1, <3>2, <3>3 DEF OpenOK
    <3>5. j \in 1..Len(ids2) /\ ids2[j] = x
      BY <1>2, <3>4
    <3> QED
      BY <3>5
  <2> QED
    BY <2>1, <2>2
<1>11. OpenOK(trace, h2, ids2)
  BY <1>2, <1>8, <1>9, <1>10 DEF OpenOK
<1> QED
  BY <1>11 DEF ids2

(* Dropping the first, or one that has ended. *)
LEMMA OpenTail ==
  ASSUME NEW trace, NEW h, History(trace, h), NEW ids, OpenOK(trace, h, ids), ids # <<>>
  PROVE  OpenOK(trace, h, Tail(ids))
<1> DEFINE ids2 == Tail(ids)
           n == Len(ids)
<1>1. /\ ids2 \in Seq(DOMAIN trace) /\ n \in Nat \ {0} /\ Len(ids2) = n - 1
      /\ \A i \in 1..(n - 1) : ids2[i] = ids[i + 1]
  BY DEF OpenOK
<1> HIDE DEF ids2
<1>2. \A i \in 1..Len(ids2) : i + 1 \in 1..n /\ ids2[i] = ids[i + 1]
  BY <1>1
<1>3. \A i, j \in 1..Len(ids2) : i < j => Rank(h, ids2[i]) < Rank(h, ids2[j])
  <2> TAKE i, j \in 1..Len(ids2)
  <2> HAVE i < j
  <2>1. i + 1 \in 1..n /\ j + 1 \in 1..n /\ i + 1 < j + 1
    BY <1>1, <1>2
  <2>2. Rank(h, ids[i + 1]) < Rank(h, ids[j + 1])
    BY <2>1 DEF OpenOK
  <2> QED
    BY <1>2, <2>2
<1>4. \A i \in 1..Len(ids2) : OpenAfter(h, ids2[i], Len(h))
  BY <1>2 DEF OpenOK
<1>5. ASSUME NEW i \in 1..Len(ids2), NEW x, OpenAfter(h, x, Len(h)), Rank(h, ids2[i]) < Rank(h, x)
      PROVE  \E j \in 1..Len(ids2) : ids2[j] = x
  <2>1. PICK j \in 1..n : ids[j] = x
    BY <1>2, <1>5 DEF OpenOK
  <2>2. j # 1
    <3>1. Rank(h, ids[1]) < Rank(h, ids[i + 1])
      <4>1. 1 \in 1..n /\ i + 1 \in 1..n /\ 1 < i + 1
        BY <1>1, <1>2
      <4> QED
        BY <4>1 DEF OpenOK
    <3>2. OpenAfter(h, ids[1], Len(h)) /\ OpenAfter(h, ids[i + 1], Len(h))
      BY <1>1, <1>2 DEF OpenOK
    <3>3. Rank(h, ids[1]) \in Nat /\ Rank(h, ids[i + 1]) \in Nat
      BY <3>2, StartedIs, HistoryIs DEF OpenAfter
    <3> QED
      BY <1>2, <1>5, <2>1, <3>1, <3>3
  <2>3. j - 1 \in 1..Len(ids2) /\ (j - 1) + 1 = j
    BY <1>1, <2>1, <2>2
  <2> QED
    BY <1>2, <2>1, <2>3
<1>6. OpenOK(trace, h, ids2)
  BY <1>1, <1>3, <1>4, <1>5 DEF OpenOK
<1> QED
  BY <1>6 DEF ids2

LEMMA OpenEnds ==
  ASSUME NEW trace, NEW h, NEW h2, GoesOn(trace, h, h2), NEW s,
         h2[Len(h2)] = <<"end", s>>, NEW ids, OpenOK(trace, h, ids)
  PROVE  /\ (\A i \in 1..Len(ids) : ids[i] # s) => OpenOK(trace, h2, ids)
         /\ \A k \in 1..Len(ids) : ids[k] = s => OpenOK(trace, h2, RemoveAt(ids, k))
<1>1. /\ History(trace, h) /\ History(trace, h2) /\ Len(h) \in Nat /\ Len(h2) = Len(h) + 1
  BY HistoryIs DEF GoesOn
<1>2. \A x : OpenAfter(h2, x, Len(h2)) <=> x # s /\ OpenAfter(h, x, Len(h))
  BY NextOpen
<1>3. \A x : OpenAfter(h, x, Len(h)) => Rank(h2, x) = Rank(h, x) /\ Rank(h, x) \in Nat
  BY <1>1, NextHappened, StartedIs DEF OpenAfter
<1>4. /\ ids \in Seq(DOMAIN trace) /\ Len(ids) \in Nat
      /\ \A i, j \in 1..Len(ids) : i < j => Rank(h, ids[i]) < Rank(h, ids[j])
      /\ \A i \in 1..Len(ids) : OpenAfter(h, ids[i], Len(h))
      /\ \A i \in 1..Len(ids) : \A x : OpenAfter(h, x, Len(h)) /\ Rank(h, ids[i]) < Rank(h, x)
                                         => \E j \in 1..Len(ids) : ids[j] = x
  BY DEF OpenOK
<1>5. \A i, j \in 1..Len(ids) : i < j => Rank(h2, ids[i]) < Rank(h2, ids[j])
  BY <1>3, <1>4
<1>6. ASSUME NEW i \in 1..Len(ids), NEW x, OpenAfter(h2, x, Len(h2)), Rank(h2, ids[i]) < Rank(h2, x)
      PROVE  x # s /\ \E j \in 1..Len(ids) : ids[j] = x
  BY <1>2, <1>3, <1>4, <1>6
<1>7. ASSUME \A i \in 1..Len(ids) : ids[i] # s
      PROVE  OpenOK(trace, h2, ids)
  <2>1. \A i \in 1..Len(ids) : OpenAfter(h2, ids[i], Len(h2))
    BY <1>2, <1>4, <1>7
  <2> QED
    BY <1>4, <1>5, <1>6, <2>1 DEF OpenOK
<1>8. ASSUME NEW k \in 1..Len(ids), ids[k] = s
      PROVE  OpenOK(trace, h2, RemoveAt(ids, k))
  <2> DEFINE ids2 == RemoveAt(ids, k)
             from(i) == IF i < k THEN i ELSE i + 1
  <2>1. /\ ids2 \in Seq(DOMAIN trace) /\ Len(ids2) = Len(ids) - 1
        /\ \A i \in 1..(Len(ids) - 1) : ids2[i] = IF i < k THEN ids[i] ELSE ids[i + 1]
    BY <1>4, RemoveAtIs
  <2> HIDE DEF ids2
  <2>2. \A i \in 1..Len(ids2) : from(i) \in 1..Len(ids) /\ from(i) # k /\ ids2[i] = ids[from(i)]
    BY <1>4, <2>1
  <2>3. \A i, j \in 1..Len(ids2) : i < j => from(i) < from(j)
    BY <1>4, <2>1
  <2>4. \A j \in 1..Len(ids) : j # k => \E i \in 1..Len(ids2) : from(i) = j
    <3> TAKE j \in 1..Len(ids)
    <3> HAVE j # k
    <3>1. CASE j < k
      <4>1. j \in 1..Len(ids2) /\ from(j) = j
        BY <1>4, <2>1, <3>1
      <4> HIDE DEF from
      <4> QED
        BY <4>1
    <3>2. CASE j > k
      <4>1. j - 1 \in 1..Len(ids2) /\ from(j - 1) = j
        BY <1>4, <2>1, <3>2
      <4> HIDE DEF from
      <4> QED
        BY <4>1
    <3> HIDE DEF from
    <3> QED
      BY <1>4, <3>1, <3>2
  <2> HIDE DEF from
  <2>5. \A j \in 1..Len(ids) : j # k => ids[j] # s
    BY <1>3, <1>4, <1>8
  <2>6. \A i, j \in 1..Len(ids2) : i < j => Rank(h2, ids2[i]) < Rank(h2, ids2[j])
    BY <1>5, <2>2, <2>3
  <2>7. \A i \in 1..Len(ids2) : OpenAfter(h2, ids2[i], Len(h2))
    BY <1>2, <1>4, <2>2, <2>5
  <2>8. ASSUME NEW i \in 1..Len(ids2), NEW x, OpenAfter(h2, x, Len(h2)),
               Rank(h2, ids2[i]) < Rank(h2, x)
        PROVE  \E j \in 1..Len(ids2) : ids2[j] = x
    <3>1. PICK j \in 1..Len(ids) : ids[j] = x /\ x # s
      BY <1>6, <2>2, <2>8
    <3>2. j # k
      BY <1>8, <3>1
    <3>3. PICK l \in 1..Len(ids2) : from(l) = j
      BY <2>4, <3>2
    <3> QED
      BY <2>2, <3>1, <3>3
  <2>9. OpenOK(trace, h2, ids2)
    BY <2>1, <2>6, <2>7, <2>8 DEF OpenOK
  <2> QED
    BY <2>9 DEF ids2
<1> QED
  BY <1>7, <1>8
-----------------------------------------------------------------------------
(* The tracked scopes are those that are open and were not evicted. *)
TrackOK(trace, h, ids) ==
  /\ OpenOK(trace, h, ids)
  /\ Len(ids) <= MaxScopes
  /\ \A x : (\E i \in 1..Len(ids) : ids[i] = x) <=>
              OpenAfter(h, x, Len(h)) /\ ~EvictedBy(h, x, Len(h))

(* A scope is lost by one more event if that ends it or makes it one too many. *)
LEMMA NextLost ==
  ASSUME NEW trace, NEW h, NEW h2, GoesOn(trace, h, h2), NEW ids2, OpenOK(trace, h2, ids2)
  PROVE  /\ \A i \in 1..Len(ids2) :
              EvictedBy(h2, ids2[i], Len(h2)) <=>
                EvictedBy(h, ids2[i], Len(h)) \/ Len(ids2) - i >= MaxScopes
         /\ \A x : ~OpenAfter(h2, x, Len(h2)) =>
              (EvictedBy(h2, x, Len(h2)) <=> EvictedBy(h, x, Len(h)))
         /\ \A x : EvictedBy(h, x, Len(h)) => EvictedBy(h2, x, Len(h2))
         /\ \A x : LostBy(h, x, Len(h)) <=>
              EvictedBy(h, x, Len(h)) \/ (Happened(h, <<"start", x>>, Len(h)) /\ ~OpenAfter(h, x, Len(h)))
         /\ \A x : LostBy(h2, x, Len(h2)) <=>
              \/ EvictedBy(h2, x, Len(h2))
              \/ Happened(h2, <<"start", x>>, Len(h2)) /\ ~OpenAfter(h2, x, Len(h2))
<1>1. \A i \in 1..Len(ids2) :
        /\ OpenAfter(h2, ids2[i], Len(h2))
        /\ Cardinality(Younger(h2, ids2[i], Len(h2))) = Len(ids2) - i
  BY YoungerIs DEF GoesOn, OpenOK
<1>2. \A x : EvictedBy(h2, x, Len(h2)) <=>
               \/ EvictedBy(h, x, Len(h))
               \/ /\ OpenAfter(h2, x, Len(h2))
                  /\ Cardinality(Younger(h2, x, Len(h2))) >= MaxScopes
  BY NextEvicted
<1>3. /\ \A x : LostBy(h, x, Len(h)) <=>
              EvictedBy(h, x, Len(h)) \/ (Happened(h, <<"start", x>>, Len(h)) /\ ~OpenAfter(h, x, Len(h)))
      /\ \A x : LostBy(h2, x, Len(h2)) <=>
              \/ EvictedBy(h2, x, Len(h2))
              \/ Happened(h2, <<"start", x>>, Len(h2)) /\ ~OpenAfter(h2, x, Len(h2))
  BY DEF LostBy, OpenAfter
<1> QED
  BY <1>1, <1>2, <1>3

LEMMA NextStarted ==
  ASSUME NEW trace, NEW h, NEW h2, GoesOn(trace, h, h2)
  PROVE  \A x : Happened(h2, <<"start", x>>, Len(h2)) <=>
                  Happened(h, <<"start", x>>, Len(h)) \/ h2[Len(h2)] = <<"start", x>>
<1>1. /\ History(trace, h) /\ Len(h) \in Nat /\ Len(h2) = Len(h) + 1
  BY HistoryIs DEF GoesOn
<1>2. \A g, k : Happened(h2, g, k) <=> Happened(h, g, k) \/ (h2[Len(h2)] = g /\ Len(h2) <= k)
  BY NextHappened
<1>3. \A g : Happened(h, g, Len(h2)) <=> Happened(h, g, Len(h))
  BY <1>1, HappenedIs
<1> QED
  BY <1>1, <1>2, <1>3

(* A start pushes out one scope at most, and loses no other. *)
LEMMA TrackStarts ==
  ASSUME NEW trace, NEW h, NEW h2, GoesOn(trace, h, h2), NEW s \in DOMAIN trace,
         h2[Len(h2)] = <<"start", s>>, NEW ids, TrackOK(trace, h, ids),
         NEW ids2 \in Seq(DOMAIN trace), OpenOK(trace, h2, ids2), Len(ids2) = Len(ids) + 1,
         ids2[Len(ids2)] = s, \A i \in 1..Len(ids) : ids2[i] = ids[i]
  PROVE  /\ Len(ids2) <= MaxScopes =>
              /\ TrackOK(trace, h2, ids2)
              /\ \A x : LostBy(h2, x, Len(h2)) <=> LostBy(h, x, Len(h))
         /\ Len(ids2) > MaxScopes =>
              /\ TrackOK(trace, h2, Tail(ids2))
              /\ Len(ids2) = MaxScopes + 1
              /\ ids2[1] \in DOMAIN trace /\ ~LostBy(h, ids2[1], Len(h))
              /\ \A x : LostBy(h2, x, Len(h2)) <=> LostBy(h, x, Len(h)) \/ x = ids2[1]
<1>0. Len(ids) \in Nat
  BY DEF TrackOK, OpenOK
<1>1. /\ ids2 \in Seq(DOMAIN trace) /\ Len(ids) \in Nat /\ Len(ids2) = Len(ids) + 1
      /\ ids2[Len(ids2)] = s /\ \A i \in 1..Len(ids) : i \in 1..Len(ids2) /\ ids2[i] = ids[i]
      /\ \A i \in 1..Len(ids2) : i = Len(ids2) \/ i \in 1..Len(ids)
  BY <1>0
<1>m. MaxScopes \in Nat \ {0} /\ Len(ids) <= MaxScopes
  BY TrackerOptions DEF TrackOK
<1>2. OpenOK(trace, h2, ids2)
  OBVIOUS
<1>3. \A x : (\E i \in 1..Len(ids) : ids[i] = x) <=>
               OpenAfter(h, x, Len(h)) /\ ~EvictedBy(h, x, Len(h))
  BY DEF TrackOK
<1>4. /\ \A x : OpenAfter(h2, x, Len(h2)) <=> x = s \/ OpenAfter(h, x, Len(h))
      /\ \A k : ~OpenAfter(h, s, k)
  BY NextOpen
<1>5. \A x : Happened(h2, <<"start", x>>, Len(h2)) <=> Happened(h, <<"start", x>>, Len(h)) \/ x = s
  <2>1. \A x : <<"start", s>> = <<"start", x>> <=> x = s
    OBVIOUS
  <2>2. \A x : Happened(h2, <<"start", x>>, Len(h2)) <=>
                 Happened(h, <<"start", x>>, Len(h)) \/ h2[Len(h2)] = <<"start", x>>
    BY NextStarted
  <2> QED
    BY <2>1, <2>2
<1>6. ~EvictedBy(h, s, Len(h))
  BY <1>4 DEF EvictedBy
<1>7. \A i \in 1..Len(ids2) : ~EvictedBy(h, ids2[i], Len(h))
  BY <1>1, <1>3, <1>6
<1>8. \A i \in 1..Len(ids2) : OpenAfter(h2, ids2[i], Len(h2))
  BY <1>2 DEF OpenOK
<1>9. \A x : OpenAfter(h2, x, Len(h2)) /\ (\A i \in 1..Len(ids2) : ids2[i] # x) =>
               EvictedBy(h, x, Len(h))
  <2>1. Len(ids2) \in 1..Len(ids2)
    BY <1>1
  <2> QED
    BY <1>1, <1>3, <1>4, <2>1
<1>10. \A i \in 1..Len(ids2) : EvictedBy(h2, ids2[i], Len(h2)) <=> Len(ids2) - i >= MaxScopes
  BY <1>2, <1>7, NextLost
<1>11. \A x : EvictedBy(h2, x, Len(h2)) <=>
                \/ EvictedBy(h, x, Len(h))
                \/ \E i \in 1..Len(ids2) : ids2[i] = x /\ Len(ids2) - i >= MaxScopes
  <2> TAKE x
  <2>1. CASE ~OpenAfter(h2, x, Len(h2))
    BY <1>2, <1>8, <2>1, NextLost
  <2>2. CASE OpenAfter(h2, x, Len(h2)) /\ \A i \in 1..Len(ids2) : ids2[i] # x
    BY <1>2, <1>9, <2>2, NextLost
  <2>3. ASSUME NEW i \in 1..Len(ids2), ids2[i] = x
        PROVE  EvictedBy(h2, x, Len(h2)) <=>
                \/ EvictedBy(h, x, Len(h))
                \/ \E j \in 1..Len(ids2) : ids2[j] = x /\ Len(ids2) - j >= MaxScopes
    BY <1>7, <1>10, <2>3
  <2> QED
    BY <2>1, <2>2, <2>3
<1>12. \A x : LostBy(h2, x, Len(h2)) <=>
                \/ LostBy(h, x, Len(h))
                \/ \E i \in 1..Len(ids2) : ids2[i] = x /\ Len(ids2) - i >= MaxScopes
  <2>1. \A x : LostBy(h, x, Len(h)) <=>
              EvictedBy(h, x, Len(h)) \/ (Happened(h, <<"start", x>>, Len(h)) /\ ~OpenAfter(h, x, Len(h)))
    BY <1>2, NextLost
  <2>2. \A x : LostBy(h2, x, Len(h2)) <=>
              \/ EvictedBy(h2, x, Len(h2))
              \/ Happened(h2, <<"start", x>>, Len(h2)) /\ ~OpenAfter(h2, x, Len(h2))
    BY <1>2, NextLost
  <2>3. ~Happened(h, <<"start", s>>, Len(h))
    BY NextHappened
  <2> TAKE x
  <2> QED
    BY <1>4, <1>5, <1>6, <1>11, <2>1, <2>2, <2>3
<1>13. ASSUME Len(ids2) <= MaxScopes
       PROVE  /\ TrackOK(trace, h2, ids2)
              /\ \A x : LostBy(h2, x, Len(h2)) <=> LostBy(h, x, Len(h))
  <2>1. \A i \in 1..Len(ids2) : ~(Len(ids2) - i >= MaxScopes)
    BY <1>1, <1>m, <1>13
  <2>2. \A x : (\E i \in 1..Len(ids2) : ids2[i] = x) <=>
                 OpenAfter(h2, x, Len(h2)) /\ ~EvictedBy(h2, x, Len(h2))
    <3> TAKE x
    <3>1. EvictedBy(h2, x, Len(h2)) <=> EvictedBy(h, x, Len(h))
      BY <1>11, <2>1
    <3> QED
      BY <1>7, <1>8, <1>9, <3>1
  <2> QED
    BY <1>2, <1>12, <1>13, <2>1, <2>2 DEF TrackOK
<1>14. ASSUME Len(ids2) > MaxScopes
       PROVE  /\ TrackOK(trace, h2, Tail(ids2))
              /\ Len(ids2) = MaxScopes + 1
              /\ ids2[1] \in DOMAIN trace /\ ~LostBy(h, ids2[1], Len(h))
              /\ \A x : LostBy(h2, x, Len(h2)) <=> LostBy(h, x, Len(h)) \/ x = ids2[1]
  <2>1. Len(ids2) = MaxScopes + 1 /\ 1 \in 1..Len(ids) /\ 1 \in 1..Len(ids2)
    BY <1>1, <1>m, <1>14
  <2>2. \A i \in 1..Len(ids2) : Len(ids2) - i >= MaxScopes <=> i = 1
    BY <1>1, <1>m, <2>1
  <2>3. \A x : LostBy(h2, x, Len(h2)) <=> LostBy(h, x, Len(h)) \/ x = ids2[1]
    BY <1>12, <2>1, <2>2
  <2>4. ids2[1] \in DOMAIN trace
    BY <1>1, <2>1
  <2>5. ~LostBy(h, ids2[1], Len(h))
    BY <1>1, <1>3, <2>1 DEF LostBy, OpenAfter
  <2>6. OpenOK(trace, h2, Tail(ids2))
    BY <1>1, <1>2, <2>1, OpenTail DEF GoesOn
  <2> DEFINE ids3 == Tail(ids2)
  <2>7. Len(ids3) = MaxScopes /\ \A i \in 1..Len(ids3) : ids3[i] = ids2[i + 1] /\ i + 1 \in 1..Len(ids2)
    BY <1>1, <1>m, <2>1
  <2>8. \A i \in 1..Len(ids2) : i # 1 => i - 1 \in 1..Len(ids3) /\ ids3[i - 1] = ids2[i]
    BY <1>1, <1>m, <2>1, <2>7
  <2>10. \A i \in 1..Len(ids2) : i # 1 => ids2[i] # ids2[1]
    <3>1. \A i \in 1..Len(ids2) : Rank(h2, ids2[i]) \in Nat
      <4>1. History(trace, h2) /\ Len(h2) \in Nat
        BY HistoryIs DEF GoesOn
      <4>2. \A i \in 1..Len(ids2) : Happened(h2, <<"start", ids2[i]>>, Len(h2))
        BY <1>8 DEF OpenAfter
      <4>3. \A i \in 1..Len(ids2) : Rank(h2, ids2[i]) \in 1..Len(h2)
        BY <4>1, <4>2, StartedIs
      <4> QED
        BY <4>1, <4>3
    <3>2. \A i \in 1..Len(ids2) : i # 1 => 1 < i
      BY <1>1
    <3> QED
      BY <1>2, <2>1, <3>1, <3>2 DEF OpenOK
  <2> HIDE DEF ids3
  <2>9. \A x : (\E i \in 1..Len(ids3) : ids3[i] = x) <=>
                 OpenAfter(h2, x, Len(h2)) /\ ~EvictedBy(h2, x, Len(h2))
    <3> TAKE x
    <3>1. ASSUME NEW i \in 1..Len(ids3), ids3[i] = x
          PROVE  OpenAfter(h2, x, Len(h2)) /\ ~EvictedBy(h2, x, Len(h2))
      <4>1. i + 1 \in 1..Len(ids2) /\ ids2[i + 1] = x /\ i + 1 # 1
        BY <2>7, <3>1
      <4> QED
        BY <1>7, <1>8, <1>11, <2>2, <2>10, <4>1
    <3>2. ASSUME OpenAfter(h2, x, Len(h2)), ~EvictedBy(h2, x, Len(h2))
          PROVE  \E i \in 1..Len(ids3) : ids3[i] = x
      <4>1. PICK i \in 1..Len(ids2) : ids2[i] = x
        BY <1>9, <1>11, <3>2
      <4>2. i # 1
        BY <1>11, <2>2, <3>2, <4>1
      <4> QED
        BY <2>8, <4>1, <4>2
    <3> QED
      BY <3>1, <3>2
  <2>11. TrackOK(trace, h2, ids3)
    BY <2>6, <2>7, <2>9, <1>m DEF TrackOK, ids3
  <2> QED
    BY <2>1, <2>3, <2>4, <2>5, <2>11 DEF ids3
<1> QED
  BY <1>13, <1>14

(* An end loses the scope that ends, if it was tracked. *)
LEMMA TrackEnds ==
  ASSUME NEW trace, NEW h, NEW h2, GoesOn(trace, h, h2), NEW s,
         h2[Len(h2)] = <<"end", s>>, NEW ids, TrackOK(trace, h, ids)
  PROVE  /\ (\A i \in 1..Len(ids) : ids[i] # s) =>
              /\ TrackOK(trace, h2, ids)
              /\ \A x : LostBy(h2, x, Len(h2)) <=> LostBy(h, x, Len(h))
         /\ \A k \in 1..Len(ids) : ids[k] = s =>
              /\ TrackOK(trace, h2, RemoveAt(ids, k))
              /\ ~LostBy(h, s, Len(h))
              /\ \A x : LostBy(h2, x, Len(h2)) <=> LostBy(h, x, Len(h)) \/ x = s
<1>m. MaxScopes \in Nat \ {0} /\ Len(ids) <= MaxScopes /\ Len(ids) \in Nat /\ ids \in Seq(DOMAIN trace)
  BY TrackerOptions DEF TrackOK, OpenOK
<1>3. \A x : (\E i \in 1..Len(ids) : ids[i] = x) <=>
               OpenAfter(h, x, Len(h)) /\ ~EvictedBy(h, x, Len(h))
  BY DEF TrackOK
<1>4. \A x : OpenAfter(h2, x, Len(h2)) <=> x # s /\ OpenAfter(h, x, Len(h))
  BY NextOpen
<1>5. \A x : Happened(h2, <<"start", x>>, Len(h2)) <=> Happened(h, <<"start", x>>, Len(h))
  <2>1. \A x : <<"end", s>> # <<"start", x>>
    OBVIOUS
  <2> QED
    BY <2>1, NextStarted
<1>6. ~Happened(h, <<"end", s>>, Len(h))
  BY NextHappened
<1>7. OpenOK(trace, h, ids)
  BY DEF TrackOK
<1>8. ASSUME NEW ids2, OpenOK(trace, h2, ids2), Len(ids2) <= Len(ids),
             \A x : (\E i \in 1..Len(ids2) : ids2[i] = x) <=> x # s /\ \E i \in 1..Len(ids) : ids[i] = x
      PROVE  /\ TrackOK(trace, h2, ids2)
             /\ \A x : EvictedBy(h2, x, Len(h2)) <=> EvictedBy(h, x, Len(h))
  <2>1. Len(ids2) \in Nat
    BY <1>8 DEF OpenOK
  <2>2. \A i \in 1..Len(ids2) : ~(Len(ids2) - i >= MaxScopes)
    BY <1>m, <1>8, <2>1
  <2>3. ASSUME NEW x
        PROVE  EvictedBy(h2, x, Len(h2)) <=> EvictedBy(h, x, Len(h))
    <3>1. CASE ~OpenAfter(h2, x, Len(h2))
      BY <1>8, <3>1, NextLost
    <3>2. CASE OpenAfter(h2, x, Len(h2)) /\ \A i \in 1..Len(ids2) : ids2[i] # x
      BY <1>3, <1>4, <1>8, <3>2, NextLost
    <3>3. ASSUME NEW i \in 1..Len(ids2), ids2[i] = x
          PROVE  EvictedBy(h2, x, Len(h2)) <=> EvictedBy(h, x, Len(h))
      BY <1>8, <2>2, <3>3, NextLost
    <3> QED
      BY <3>1, <3>2, <3>3
  <2>4. \A x : (\E i \in 1..Len(ids2) : ids2[i] = x) <=>
                 OpenAfter(h2, x, Len(h2)) /\ ~EvictedBy(h2, x, Len(h2))
    BY <1>3, <1>4, <1>8, <2>3
  <2> QED
    BY <1>m, <1>8, <2>1, <2>3, <2>4 DEF TrackOK
<1>9. ASSUME \A x : EvictedBy(h2, x, Len(h2)) <=> EvictedBy(h, x, Len(h))
      PROVE  \A x : LostBy(h2, x, Len(h2)) <=>
               LostBy(h, x, Len(h)) \/ (x = s /\ Happened(h, <<"start", s>>, Len(h)))
  <2>1. \A x : LostBy(h, x, Len(h)) <=>
              EvictedBy(h, x, Len(h)) \/ (Happened(h, <<"start", x>>, Len(h)) /\ ~OpenAfter(h, x, Len(h)))
    BY DEF LostBy, OpenAfter
  <2>2. \A x : LostBy(h2, x, Len(h2)) <=>
              \/ EvictedBy(h2, x, Len(h2))
              \/ Happened(h2, <<"start", x>>, Len(h2)) /\ ~OpenAfter(h2, x, Len(h2))
    BY DEF LostBy, OpenAfter
  <2> QED
    BY <1>4, <1>5, <1>9, <2>1, <2>2
<1>10. Happened(h, <<"start", s>>, Len(h)) <=> OpenAfter(h, s, Len(h))
  BY <1>6 DEF OpenAfter
<1>11. ASSUME \A i \in 1..Len(ids) : ids[i] # s
       PROVE  /\ TrackOK(trace, h2, ids)
              /\ \A x : LostBy(h2, x, Len(h2)) <=> LostBy(h, x, Len(h))
  <2>1. OpenOK(trace, h2, ids)
    BY <1>7, <1>11, OpenEnds
  <2>2. /\ TrackOK(trace, h2, ids)
        /\ \A x : EvictedBy(h2, x, Len(h2)) <=> EvictedBy(h, x, Len(h))
    BY <1>m, <1>8, <1>11, <2>1
  <2>3. Happened(h, <<"start", s>>, Len(h)) => LostBy(h, s, Len(h))
    BY <1>3, <1>10, <1>11 DEF LostBy
  <2> QED
    BY <1>9, <2>2, <2>3
<1>12. ASSUME NEW k \in 1..Len(ids), ids[k] = s
       PROVE  /\ TrackOK(trace, h2, RemoveAt(ids, k))
              /\ ~LostBy(h, s, Len(h))
              /\ \A x : LostBy(h2, x, Len(h2)) <=> LostBy(h, x, Len(h)) \/ x = s
  <2> DEFINE ids2 == RemoveAt(ids, k)
  <2>1. OpenOK(trace, h2, ids2)
    BY <1>7, <1>12, OpenEnds
  <2>2. /\ Len(ids2) = Len(ids) - 1
        /\ \A i \in 1..(Len(ids) - 1) : ids2[i] = IF i < k THEN ids[i] ELSE ids[i + 1]
    BY <1>m, RemoveAtIs
  <2> HIDE DEF ids2
  <2>3. \A i, j \in 1..Len(ids) : i # j => ids[i] # ids[j]
    <3>1. \A i \in 1..Len(ids) : Rank(h, ids[i]) \in Nat
      <4>1. History(trace, h) /\ Len(h) \in Nat
        BY HistoryIs DEF GoesOn
      <4>2. \A i \in 1..Len(ids) : Happened(h, <<"start", ids[i]>>, Len(h))
        BY <1>7 DEF OpenOK, OpenAfter
      <4>3. \A i \in 1..Len(ids) : Rank(h, ids[i]) \in 1..Len(h)
        BY <4>1, <4>2, StartedIs
      <4> QED
        BY <4>1, <4>3
    <3>2. \A i, j \in 1..Len(ids) : i # j => i < j \/ j < i
      BY <1>m
    <3> QED
      BY <1>7, <3>1, <3>2 DEF OpenOK
  <2>4. ASSUME NEW x
        PROVE  (\E i \in 1..Len(ids2) : ids2[i] = x) <=> x # s /\ \E i \in 1..Len(ids) : ids[i] = x
    <3>1. ASSUME NEW i \in 1..Len(ids2), ids2[i] = x
          PROVE  x # s /\ \E j \in 1..Len(ids) : ids[j] = x
      <4>1. CASE i < k
        BY <1>m, <1>12, <2>2, <2>3, <3>1, <4>1
      <4>2. CASE ~(i < k)
        <5>1. i + 1 \in 1..Len(ids) /\ i + 1 # k /\ ids[i + 1] = x
          BY <1>m, <2>2, <3>1, <4>2
        <5> QED
          BY <1>12, <2>3, <5>1
      <4> QED
        BY <4>1, <4>2
    <3>2. ASSUME NEW j \in 1..Len(ids), ids[j] = x, x # s
          PROVE  \E i \in 1..Len(ids2) : ids2[i] = x
      <4>1. CASE j < k
        BY <1>m, <2>2, <3>2, <4>1
      <4>2. CASE j > k
        <5>1. j - 1 \in 1..Len(ids2) /\ ids2[j - 1] = ids[j]
          BY <1>m, <2>2, <4>2
        <5> QED
          BY <3>2, <5>1
      <4> QED
        BY <1>m, <1>12, <3>2, <4>1, <4>2
    <3> QED
      BY <3>1, <3>2
  <2>5. Len(ids2) <= Len(ids)
    BY <1>m, <2>2
  <2>6. /\ TrackOK(trace, h2, ids2)
        /\ \A x : EvictedBy(h2, x, Len(h2)) <=> EvictedBy(h, x, Len(h))
    BY <1>8, <2>1, <2>4, <2>5
  <2>7. OpenAfter(h, s, Len(h)) /\ ~EvictedBy(h, s, Len(h))
    BY <1>3, <1>12
  <2>8. ~LostBy(h, s, Len(h))
    BY <1>6, <2>7 DEF LostBy
  <2>9. \A x : LostBy(h2, x, Len(h2)) <=> LostBy(h, x, Len(h)) \/ x = s
    BY <1>9, <1>10, <2>6, <2>7
  <2> QED
    BY <2>6, <2>8, <2>9 DEF ids2
<1> QED
  BY <1>11, <1>12
-----------------------------------------------------------------------------
(* Everything a tracker ever lost, in the order it lost it: all[i] at m[i]. *)
LostOK(trace, h, all, m) ==
  /\ all \in Seq(DOMAIN trace) /\ m \in Seq(Nat) /\ Len(m) = Len(all)
  /\ \A i \in 1..Len(all) : m[i] \in 1..Len(h)
  /\ \A i, j \in 1..Len(all) : i < j => m[i] < m[j] /\ all[i] # all[j]
  /\ \A k \in 0..Len(h) : \A x :
       LostBy(h, x, k) <=> \E i \in 1..Len(all) : all[i] = x /\ m[i] <= k

(* The retired ones are the last of them. *)
RetiredOK(trace, retired, all) ==
  /\ retired \in Seq(DOMAIN trace)
  /\ Len(retired) = IF Len(all) <= MaxScopes THEN Len(all) ELSE MaxScopes
  /\ \A k \in 1..Len(retired) : retired[k] = all[Len(all) - Len(retired) + k]

(* One more event loses no scope, or one, which goes behind those lost before. *)
LEMMA LosesNone ==
  ASSUME NEW trace, NEW h, NEW h2, GoesOn(trace, h, h2), NEW all, NEW m, LostOK(trace, h, all, m),
         \A x : LostBy(h2, x, Len(h2)) <=> LostBy(h, x, Len(h))
  PROVE  LostOK(trace, h2, all, m)
<1>1. Len(h) \in Nat /\ Len(h2) = Len(h) + 1
  BY HistoryIs DEF GoesOn
<1>2. /\ all \in Seq(DOMAIN trace) /\ m \in Seq(Nat) /\ Len(m) = Len(all)
      /\ \A i \in 1..Len(all) : m[i] \in 1..Len(h)
      /\ \A i, j \in 1..Len(all) : i < j => m[i] < m[j] /\ all[i] # all[j]
  BY DEF LostOK
<1>3. \A i \in 1..Len(all) : m[i] \in 1..Len(h2)
  BY <1>1, <1>2
<1>4. \A k \in 0..Len(h) : \A x :
        LostBy(h2, x, k) <=> \E i \in 1..Len(all) : all[i] = x /\ m[i] <= k
  <2> TAKE k \in 0..Len(h)
  <2> TAKE x
  <2>1. k \in Int /\ k <= Len(h)
    BY <1>1
  <2>2. LostBy(h2, x, k) <=> LostBy(h, x, k)
    BY <2>1, PrefixLost
  <2> QED
    BY <2>2 DEF LostOK
<1>5. \A x : LostBy(h2, x, Len(h2)) <=> \E i \in 1..Len(all) : all[i] = x /\ m[i] <= Len(h2)
  <2> TAKE x
  <2>1. Len(h) \in 0..Len(h)
    BY <1>1
  <2>2. LostBy(h, x, Len(h)) <=> \E i \in 1..Len(all) : all[i] = x /\ m[i] <= Len(h)
    BY <2>1 DEF LostOK
  <2>3. \A i \in 1..Len(all) : m[i] <= Len(h) /\ m[i] <= Len(h2)
    BY <1>1, <1>2
  <2> QED
    BY <2>2, <2>3
<1>6. \A k \in 0..Len(h2) : k \in 0..Len(h) \/ k = Len(h2)
  BY <1>1
<1>7. \A k \in 0..Len(h2) : \A x :
        LostBy(h2, x, k) <=> \E i \in 1..Len(all) : all[i] = x /\ m[i] <= k
  <2> TAKE k \in 0..Len(h2)
  <2> TAKE x
  <2>1. CASE k \in 0..Len(h)
    BY <1>4, <2>1
  <2>2. CASE k = Len(h2)
    BY <1>5, <2>2
  <2> QED
    BY <1>6, <2>1, <2>2
<1> QED
  BY <1>2, <1>3, <1>7 DEF LostOK

LEMMA LosesOne ==
  ASSUME NEW trace, NEW h, NEW h2, GoesOn(trace, h, h2), NEW all, NEW m, LostOK(trace, h, all, m),
         NEW y \in DOMAIN trace, ~LostBy(h, y, Len(h)),
         \A x : LostBy(h2, x, Len(h2)) <=> LostBy(h, x, Len(h)) \/ x = y
  PROVE  LostOK(trace, h2, Append(all, y), Append(m, Len(h2)))
<1> DEFINE all2 == Append(all, y)
           m2 == Append(m, Len(h2))
           n == Len(all)
<1>1. Len(h) \in Nat /\ Len(h2) = Len(h) + 1
  BY HistoryIs DEF GoesOn
<1>2. /\ all \in Seq(DOMAIN trace) /\ m \in Seq(Nat) /\ Len(m) = n
      /\ \A i \in 1..n : m[i] \in 1..Len(h)
      /\ \A i, j \in 1..n : i < j => m[i] < m[j] /\ all[i] # all[j]
  BY DEF LostOK
<1>3. /\ all2 \in Seq(DOMAIN trace) /\ Len(all2) = n + 1 /\ n \in Nat /\ all2[n + 1] = y
      /\ \A i \in 1..n : all2[i] = all[i]
  BY <1>2
<1>4. /\ m2 \in Seq(Nat) /\ Len(m2) = n + 1 /\ m2[n + 1] = Len(h2)
      /\ \A i \in 1..n : m2[i] = m[i]
  BY <1>1, <1>2
<1> HIDE DEF all2, m2
<1>5. \A i \in 1..Len(all2) : i \in 1..n \/ i = n + 1
  BY <1>3
<1>0. n + 1 \in 1..Len(all2) /\ \A i \in 1..n : i \in 1..Len(all2)
  BY <1>3
<1>6. \A i \in 1..Len(all2) : m2[i] \in 1..Len(h2)
  <2>1. \A i \in 1..n : m2[i] \in 1..Len(h2)
    BY <1>1, <1>2, <1>4
  <2>2. m2[n + 1] \in 1..Len(h2)
    BY <1>1, <1>4
  <2> QED
    BY <1>5, <2>1, <2>2
<1>7. \A x : LostBy(h, x, Len(h)) <=> \E i \in 1..n : all[i] = x
  <2>1. Len(h) \in 0..Len(h) /\ \A i \in 1..n : m[i] <= Len(h)
    BY <1>1, <1>2
  <2> QED
    BY <2>1 DEF LostOK
<1>8. \A i, j \in 1..Len(all2) : i < j => m2[i] < m2[j] /\ all2[i] # all2[j]
  <2> TAKE i, j \in 1..Len(all2)
  <2> HAVE i < j
  <2>1. i \in 1..n
    BY <1>3, <1>5
  <2>2. CASE j \in 1..n
    BY <1>2, <1>3, <1>4, <2>1, <2>2
  <2>3. CASE j = n + 1
    <3>1. m2[i] < m2[j]
      BY <1>1, <1>2, <1>4, <2>1, <2>3
    <3>2. all2[i] # all2[j]
      BY <1>3, <1>7, <2>1, <2>3
    <3> QED
      BY <3>1, <3>2
  <2> QED
    BY <1>5, <2>2, <2>3
<1>9. \A k \in 0..Len(h) : \A x :
        LostBy(h2, x, k) <=> \E i \in 1..Len(all2) : all2[i] = x /\ m2[i] <= k
  <2> TAKE k \in 0..Len(h)
  <2> TAKE x
  <2>1. k \in Int /\ k <= Len(h)
    BY <1>1
  <2>2. LostBy(h2, x, k) <=> LostBy(h, x, k)
    BY <2>1, PrefixLost
  <2>3. LostBy(h, x, k) <=> \E i \in 1..n : all[i] = x /\ m[i] <= k
    BY DEF LostOK
  <2>4. ~(m2[n + 1] <= k)
    BY <1>1, <1>4, <2>1
  <2> QED
    BY <1>0, <1>3, <1>4, <1>5, <2>2, <2>3, <2>4
<1>10. \A x : LostBy(h2, x, Len(h2)) <=> \E i \in 1..Len(all2) : all2[i] = x /\ m2[i] <= Len(h2)
  <2>1. \A i \in 1..Len(all2) : m2[i] <= Len(h2)
    BY <1>1, <1>6
  <2> QED
    BY <1>0, <1>3, <1>5, <1>7, <2>1
<1>11. \A k \in 0..Len(h2) : k \in 0..Len(h) \/ k = Len(h2)
  BY <1>1
<1>13. \A k \in 0..Len(h2) : \A x :
         LostBy(h2, x, k) <=> \E i \in 1..Len(all2) : all2[i] = x /\ m2[i] <= k
  <2> TAKE k \in 0..Len(h2)
  <2> TAKE x
  <2>1. CASE k \in 0..Len(h)
    BY <1>9, <2>1
  <2>2. CASE k = Len(h2)
    BY <1>10, <2>2
  <2> QED
    BY <1>11, <2>1, <2>2
<1>12. LostOK(trace, h2, all2, m2)
  BY <1>3, <1>4, <1>6, <1>8, <1>13 DEF LostOK
<1> QED
  BY <1>12 DEF all2, m2

LEMMA RetiresOne ==
  ASSUME NEW trace, NEW all \in Seq(DOMAIN trace), NEW y \in DOMAIN trace,
         \A i \in 1..Len(all) : all[i] # y, NEW retired, RetiredOK(trace, retired, all)
  PROVE  RetiredOK(trace, Retire(retired, y), Append(all, y))
<1> DEFINE all2 == Append(all, y)
           kept == Append(retired, y)
           n == Len(all)
           r == Len(retired)
<1>1. /\ all2 \in Seq(DOMAIN trace) /\ Len(all2) = n + 1 /\ n \in Nat /\ all2[n + 1] = y
      /\ \A i \in 1..n : all2[i] = all[i]
  OBVIOUS
<1>2. /\ retired \in Seq(DOMAIN trace) /\ r \in Nat /\ kept \in Seq(DOMAIN trace)
      /\ Len(kept) = r + 1 /\ kept[r + 1] = y /\ \A i \in 1..r : kept[i] = retired[i]
  BY DEF RetiredOK
<1>3. MaxScopes \in Nat \ {0} /\ r = IF n <= MaxScopes THEN n ELSE MaxScopes
  BY TrackerOptions DEF RetiredOK
<1>4. \A k \in 1..r : retired[k] = all[n - r + k]
  BY DEF RetiredOK
<1>5. ~\E i \in 1..r : retired[i] = y
  <2>1. \A k \in 1..r : n - r + k \in 1..n
    BY <1>1, <1>2, <1>3
  <2> QED
    BY <1>4, <2>1
<1>6. RemoveFirst(retired, y) = retired
  BY <1>5 DEF RemoveFirst
<1>7. Retire(retired, y) = IF r + 1 <= MaxScopes THEN kept ELSE Tail(kept)
  BY <1>2, <1>6 DEF Retire
<1> HIDE DEF all2, kept
<1>8. \A k \in 1..(r + 1) : kept[k] = all2[n - r + k]
  <2> TAKE k \in 1..(r + 1)
  <2>1. CASE k \in 1..r
    <3>1. n - r + k \in 1..n
      BY <1>1, <1>2, <1>3, <2>1
    <3> QED
      BY <1>1, <1>2, <1>4, <2>1, <3>1
  <2>2. CASE k = r + 1
    <3>1. n - r + k = n + 1
      BY <1>1, <1>2, <2>2
    <3> QED
      BY <1>1, <1>2, <2>2, <3>1
  <2> QED
    BY <1>2, <2>1, <2>2
<1>9. CASE r + 1 <= MaxScopes
  <2>1. r = n /\ Len(kept) = Len(all2) /\ Len(all2) <= MaxScopes
    BY <1>1, <1>2, <1>3, <1>9
  <2>2. \A k \in 1..Len(kept) : kept[k] = all2[Len(all2) - Len(kept) + k]
    <3> TAKE k \in 1..Len(kept)
    <3>1. Len(all2) - Len(kept) + k = n - r + k
      BY <1>1, <1>2
    <3> QED
      BY <1>2, <1>8, <3>1
  <2>3. RetiredOK(trace, kept, all2)
    BY <1>2, <2>1, <2>2 DEF RetiredOK
  <2> QED
    BY <1>7, <1>9, <2>3 DEF all2
<1>10. CASE ~(r + 1 <= MaxScopes)
  <2> DEFINE last == Tail(kept)
  <2>1. /\ last \in Seq(DOMAIN trace) /\ Len(last) = r
        /\ \A k \in 1..r : last[k] = kept[k + 1]
    BY <1>2
  <2> HIDE DEF last
  <2>2. Len(last) = MaxScopes /\ ~(Len(all2) <= MaxScopes)
    BY <1>1, <1>2, <1>3, <1>10, <2>1
  <2>3. \A k \in 1..Len(last) : last[k] = all2[Len(all2) - Len(last) + k]
    <3> TAKE k \in 1..Len(last)
    <3>1. k + 1 \in 1..(r + 1) /\ Len(all2) - Len(last) + k = n - r + (k + 1)
      BY <1>1, <1>2, <2>1
    <3> QED
      BY <1>8, <2>1, <3>1
  <2>4. RetiredOK(trace, last, all2)
    BY <2>1, <2>2, <2>3 DEF RetiredOK
  <2> QED
    BY <1>7, <1>10, <2>4 DEF all2, last
<1> QED
  BY <1>9, <1>10

(* What a tracker remembers to have lost is what was lost and is not forgotten. *)
LEMMA RetiredIs ==
  ASSUME NEW trace, NEW h, History(trace, h), NEW all, NEW m, LostOK(trace, h, all, m),
         NEW retired, RetiredOK(trace, retired, all), NEW x
  PROVE  x \in Range(retired) <=> LostBy(h, x, Len(h)) /\ ~ForgottenBy(h, x, Len(h))
<1> DEFINE n == Len(all)
           r == Len(retired)
           late(k) == {y \in Seen(h) : LostBy(h, y, Len(h)) /\ ~LostBy(h, y, k)}
<1>1. /\ Len(h) \in Nat /\ all \in Seq(DOMAIN trace) /\ n \in Nat
      /\ \A i \in 1..n : m[i] \in 1..Len(h)
      /\ \A i, j \in 1..n : i < j => m[i] < m[j] /\ all[i] # all[j]
      /\ \A k \in 0..Len(h) : \A y : LostBy(h, y, k) <=> \E i \in 1..n : all[i] = y /\ m[i] <= k
  BY HistoryIs DEF LostOK
<1>2. /\ retired \in Seq(DOMAIN trace) /\ r \in Nat
      /\ MaxScopes \in Nat \ {0} /\ r = IF n <= MaxScopes THEN n ELSE MaxScopes
      /\ \A k \in 1..r : retired[k] = all[n - r + k]
  <2>1. retired \in Seq(DOMAIN trace)
    BY DEF RetiredOK
  <2>2. r \in Nat
    BY <2>1
  <2> QED
    BY <2>1, <2>2, TrackerOptions DEF RetiredOK
<1>3. x \in Range(retired) <=> \E k \in 1..r : all[n - r + k] = x
  <2>1. DOMAIN retired = 1..r
    BY <1>2
  <2> QED
    BY <1>2, <2>1 DEF Range
<1>4. \A y : LostBy(h, y, Len(h)) <=> \E i \in 1..n : all[i] = y
  <2>1. Len(h) \in 0..Len(h) /\ \A i \in 1..n : m[i] <= Len(h)
    BY <1>1
  <2> QED
    BY <1>1, <2>1
<1>5. \A i, j \in 1..n : i # j => all[i] # all[j]
  <2>1. \A i, j \in 1..n : i # j => i < j \/ j < i
    BY <1>1
  <2> QED
    BY <1>1, <2>1
<1>6. CASE ~LostBy(h, x, Len(h))
  <2>1. \A k \in 1..r : n - r + k \in 1..n
    BY <1>1, <1>2
  <2> QED
    BY <1>3, <1>4, <1>6, <2>1
<1>7. CASE LostBy(h, x, Len(h))
  <2>1. PICK i \in 1..n : all[i] = x
    BY <1>4, <1>7
  <2>2. \A k \in 0..Len(h) : LostBy(h, x, k) <=> m[i] <= k
    BY <1>1, <1>5, <2>1
  <2> DEFINE After == {all[j] : j \in (i + 1)..n}
  <2>3. IsFiniteSet(After) /\ Cardinality(After) = n - i
    <3> DEFINE f == [j \in (i + 1)..n |-> all[j]]
    <3>1. /\ IsFiniteSet((i + 1)..n) /\ Cardinality((i + 1)..n) = n - i
      BY <1>1, FS_Interval
    <3>2. \A j \in (i + 1)..n : j \in 1..n
      BY <1>1
    <3>3. f \in Injection((i + 1)..n, After) /\ f \in Surjection((i + 1)..n, After)
      BY <1>5, <3>2 DEF Injection, IsInjective, Surjection
    <3> QED
      BY <3>1, <3>3, FS_Surjection
  <2> HIDE DEF After
  <2>4. ASSUME NEW k \in 0..Len(h), m[i] <= k
        PROVE  late(k) \subseteq After
    <3> SUFFICES ASSUME NEW y \in late(k)
                 PROVE  y \in After
      OBVIOUS
    <3>1. PICK j \in 1..n : all[j] = y
      BY <1>4
    <3>2. ~(m[j] <= k)
      BY <1>1, <3>1
    <3>3. ~(j < i) /\ j # i
      BY <1>1, <2>4, <3>2
    <3>4. j \in (i + 1)..n
      BY <1>1, <3>3
    <3> QED
      BY <3>1, <3>4 DEF After
  <2>5. m[i] \in 1..Len(h) /\ m[i] \in 0..Len(h) /\ LostBy(h, x, m[i])
    BY <1>1, <2>2
  <2>6. After \subseteq late(m[i])
    <3> SUFFICES ASSUME NEW j \in (i + 1)..n
                 PROVE  all[j] \in late(m[i])
      BY DEF After
    <3>1. j \in 1..n /\ i < j
      BY <1>1
    <3>2. LostBy(h, all[j], Len(h)) /\ Len(h) \in Int
      BY <1>1, <1>4, <3>1
    <3>3. all[j] \in Seen(h)
      BY <3>2, LostIsSeen
    <3>4. ASSUME NEW l \in 1..n, all[l] = all[j], m[l] <= m[i]
          PROVE  FALSE
      <4>1. l = j
        BY <1>5, <3>1, <3>4
      <4> QED
        BY <1>1, <3>1, <3>4, <4>1
    <3>5. ~LostBy(h, all[j], m[i])
      BY <1>1, <2>5, <3>4
    <3> QED
      BY <3>2, <3>3, <3>5
  <2>7. ForgottenBy(h, x, Len(h)) <=> n - i >= MaxScopes
    <3>1. ASSUME n - i >= MaxScopes
          PROVE  ForgottenBy(h, x, Len(h))
      <4>1. late(m[i]) = After
        BY <2>4, <2>5, <2>6, <1>1
      <4> QED
        BY <2>3, <2>5, <3>1, <4>1 DEF ForgottenBy
    <3>2. ASSUME ForgottenBy(h, x, Len(h))
          PROVE  n - i >= MaxScopes
      <4>1. PICK k \in 1..Len(h) : LostBy(h, x, k) /\ Cardinality(late(k)) >= MaxScopes
        BY <3>2 DEF ForgottenBy
      <4>2. k \in 0..Len(h) /\ m[i] <= k
        BY <1>1, <2>2, <4>1
      <4>3. late(k) \subseteq After
        BY <2>4, <4>2
      <4> HIDE DEF late
      <4>4. IsFiniteSet(late(k)) /\ Cardinality(late(k)) <= Cardinality(After)
        BY <2>3, <4>3, FS_Subset
      <4>5. Cardinality(late(k)) \in Nat
        BY <4>4, FS_CardinalityType
      <4> QED
        BY <1>1, <1>2, <2>3, <4>1, <4>4, <4>5
    <3> QED
      BY <3>1, <3>2
  <2>8. x \in Range(retired) <=> i > n - r
    <3>1. ASSUME NEW k \in 1..r, all[n - r + k] = x
          PROVE  i > n - r
      <4>1. n - r + k \in 1..n
        BY <1>1, <1>2
      <4>2. n - r + k = i
        BY <1>5, <2>1, <3>1, <4>1
      <4> QED
        BY <1>1, <1>2, <4>2
    <3>2. ASSUME i > n - r
          PROVE  \E k \in 1..r : all[n - r + k] = x
      <4>0. i \in Nat /\ i <= n /\ r \in Nat /\ n \in Nat /\ r <= n
        BY <1>1, <1>2
      <4> HIDE DEF n, r
      <4>1. i - (n - r) \in 1..r /\ n - r + (i - (n - r)) = i
        BY <3>2, <4>0
      <4> QED
        BY <2>1, <4>1
    <3> QED
      BY <1>3, <3>1, <3>2
  <2> QED
    BY <1>1, <1>2, <1>7, <2>7, <2>8
<1> QED
  BY <1>6, <1>7
-----------------------------------------------------------------------------
(* Who pays is well defined: a scope looks at its parent only if that started before it. *)

LEMMA PaysForLocal ==
  ASSUME NEW trace, NEW h, History(trace, h), NEW s, NEW f, NEW g,
         \A x \in DOMAIN trace : Happened(h, <<"start", x>>, Rank(h, s) - 1) => f[x] = g[x]
  PROVE  PaysFor(trace, h, f, s) = PaysFor(trace, h, g, s)
<1> DEFINE parent == trace[s].parent
<1>1. Happened(h, <<"start", parent>>, Rank(h, s) - 1) => parent \in DOMAIN trace
  BY StartedIs
<1>2. Happened(h, <<"start", parent>>, Rank(h, s) - 1) => f[parent] = g[parent]
  BY <1>1
<1> QED
  BY <1>2 DEF PaysFor, Rank

LEMMA StartedOnce ==
  ASSUME NEW trace, NEW h, History(trace, h), NEW s
  PROVE  When(h, <<"start", s>>) # {} <=> Happened(h, <<"start", s>>, Len(h))
<1>1. ASSUME When(h, <<"start", s>>) # {}
      PROVE  Happened(h, <<"start", s>>, Len(h))
  <2>1. PICK j \in 1..Len(h) : h[j] = <<"start", s>>
    BY <1>1, HistoryIs DEF When
  <2>2. j <= Len(h)
    BY HistoryIs
  <2> QED
    BY <2>1, <2>2, HappenedIs
<1> QED
  BY <1>1 DEF Happened

LEMMA PayerIs ==
  ASSUME NEW trace, NEW h, History(trace, h)
  PROVE  Payer(trace, h) = [s \in DOMAIN trace |-> PaysFor(trace, h, Payer(trace, h), s)]
<1> DEFINE Upto(n, g) ==
             /\ DOMAIN g = DOMAIN trace
             /\ \A s \in DOMAIN trace :
                  When(h, <<"start", s>>) = {} \/ Rank(h, s) <= n =>
                    g[s] = PaysFor(trace, h, g, s)
           Reached == {n \in Nat : \E g : Upto(n, g)}
<1>1. Len(h) \in Nat
  BY HistoryIs
<1>2. \A s : When(h, <<"start", s>>) # {} => Rank(h, s) \in 1..Len(h)
  BY StartedOnce, StartedIs
<1>3. 0 \in Reached
  <2> DEFINE g == [s \in DOMAIN trace |-> None]
  <2>1. ASSUME NEW s \in DOMAIN trace, When(h, <<"start", s>>) = {} \/ Rank(h, s) <= 0
        PROVE  g[s] = PaysFor(trace, h, g, s)
    <3>1. When(h, <<"start", s>>) = {}
      BY <1>1, <1>2, <2>1
    <3> QED
      BY <3>1 DEF PaysFor
  <2>2. Upto(0, g)
    BY <2>1
  <2> HIDE DEF g, Upto
  <2> QED
    BY <2>2
<1>4. ASSUME NEW n \in Nat, n \in Reached
      PROVE  n + 1 \in Reached
  <2>1. PICK f : Upto(n, f)
    BY <1>4
  <2> DEFINE Settled(s) == When(h, <<"start", s>>) = {} \/ Rank(h, s) <= n
             g == [s \in DOMAIN trace |-> IF Settled(s) THEN f[s] ELSE PaysFor(trace, h, f, s)]
  <2>2. ASSUME NEW s \in DOMAIN trace, When(h, <<"start", s>>) = {} \/ Rank(h, s) <= n + 1
        PROVE  g[s] = PaysFor(trace, h, g, s)
    <3>1. CASE When(h, <<"start", s>>) = {}
      <4>1. f[s] = PaysFor(trace, h, f, s)
        BY <2>1, <3>1
      <4>2. PaysFor(trace, h, f, s) = None /\ PaysFor(trace, h, g, s) = None
        BY <3>1 DEF PaysFor
      <4> QED
        BY <3>1, <4>1, <4>2
    <3>2. CASE When(h, <<"start", s>>) # {}
      <4>1. ASSUME NEW x \in DOMAIN trace, Happened(h, <<"start", x>>, Rank(h, s) - 1)
            PROVE  g[x] = f[x]
        <5>1. Rank(h, x) \in 1..Len(h) /\ Rank(h, x) <= Rank(h, s) - 1
          BY <4>1, StartedIs
        <5>2. Rank(h, s) \in 1..Len(h) /\ Rank(h, s) <= n + 1
          BY <1>2, <2>2, <3>2
        <5>3. Rank(h, x) <= n
          BY <1>1, <5>1, <5>2
        <5> QED
          BY <5>3
      <4> HIDE DEF g
      <4>2. PaysFor(trace, h, g, s) = PaysFor(trace, h, f, s)
        BY <4>1, PaysForLocal
      <4>3. Rank(h, s) <= n => f[s] = PaysFor(trace, h, f, s)
        BY <2>1
      <4>4. g[s] = IF Settled(s) THEN f[s] ELSE PaysFor(trace, h, f, s)
        BY DEF g
      <4> QED
        BY <3>2, <4>2, <4>3, <4>4
    <3> QED
      BY <3>1, <3>2
  <2>3. DOMAIN g = DOMAIN trace
    OBVIOUS
  <2>4. Upto(n + 1, g)
    BY <2>2, <2>3
  <2> HIDE DEF g, Upto
  <2> QED
    BY <2>4
<1>5. PICK g : Upto(Len(h), g)
  <2>1. Nat \subseteq Reached
    <3> HIDE DEF Reached
    <3> QED
      BY <1>3, <1>4, SetInduction
  <2> QED
    BY <1>1, <2>1
<1>6. \A s \in DOMAIN trace : When(h, <<"start", s>>) = {} \/ Rank(h, s) <= Len(h)
  BY <1>1, <1>2
<1>7. \A s \in DOMAIN trace : g[s] = PaysFor(trace, h, g, s)
  BY <1>5, <1>6
<1>8. \E p : p = [s \in DOMAIN trace |-> PaysFor(trace, h, p, s)]
  <2> DEFINE p == [s \in DOMAIN trace |-> g[s]]
  <2>1. \A s : PaysFor(trace, h, p, s) = PaysFor(trace, h, g, s)
    <3>1. \A x \in DOMAIN trace : p[x] = g[x]
      OBVIOUS
    <3> HIDE DEF p
    <3> QED
      BY <3>1, PaysForLocal
  <2>2. p = [s \in DOMAIN trace |-> PaysFor(trace, h, p, s)]
    BY <1>7, <2>1
  <2> HIDE DEF p
  <2> QED
    BY <2>2
<1>9. Payer(trace, h) = CHOOSE p : p = [s \in DOMAIN trace |-> PaysFor(trace, h, p, s)]
  BY DEF Payer, PaysFor
<1> QED
  BY <1>8, <1>9

(* Who pays for a scope that has started does not change. *)
LEMMA PayerStays ==
  ASSUME NEW trace, NEW h, NEW h2, GoesOn(trace, h, h2), NEW s \in DOMAIN trace,
         When(h, <<"start", s>>) # {}
  PROVE  Payer(trace, h2)[s] = Payer(trace, h)[s]
<1> DEFINE Old == {x \in DOMAIN trace : When(h, <<"start", x>>) # {}}
           Changed == {x \in Old : Payer(trace, h2)[x] # Payer(trace, h)[x]}
           Moments == {Rank(h, x) : x \in Changed}
<1>1. /\ History(trace, h) /\ History(trace, h2) /\ Len(h) \in Nat /\ Len(h2) = Len(h) + 1
  BY HistoryIs DEF GoesOn
<1>2. \A x \in Old : /\ Rank(h, x) \in 1..Len(h) /\ When(h2, <<"start", x>>) # {}
                     /\ Rank(h2, x) = Rank(h, x)
  <2> TAKE x \in Old
  <2>1. Happened(h, <<"start", x>>, Len(h))
    BY <1>1, StartedOnce
  <2>2. Rank(h, x) \in 1..Len(h) /\ Rank(h2, x) = Rank(h, x)
    BY <1>1, <2>1, StartedIs, NextHappened
  <2>3. Happened(h2, <<"start", x>>, Len(h))
    BY <2>1, NextHappened
  <2> QED
    BY <2>2, <2>3 DEF Happened
<1> SUFFICES ASSUME Changed # {} PROVE FALSE
  OBVIOUS
<1>3. Moments \subseteq Nat /\ Moments # {}
  <2>1. \A x \in Changed : Rank(h, x) \in 1..Len(h)
    BY <1>2
  <2> HIDE DEF Changed
  <2>2. \A x \in Changed : Rank(h, x) \in Nat
    BY <1>1, <2>1
  <2> QED
    BY <2>2
<1>4. PICK n \in Moments : \A k \in Moments : n <= k
  <2> HIDE DEF Moments
  <2> QED
    BY <1>3, LeastNumber
<1>5. PICK x \in Changed : n = Rank(h, x)
  OBVIOUS
<1>6. n \in 1..Len(h) /\ n - 1 \in Int /\ n - 1 <= Len(h)
  BY <1>1, <1>2, <1>5
<1>7. /\ Payer(trace, h)[x] = PaysFor(trace, h, Payer(trace, h), x)
      /\ Payer(trace, h2)[x] = PaysFor(trace, h2, Payer(trace, h2), x)
  <2>1. x \in DOMAIN trace
    OBVIOUS
  <2>2. \A p, q : p = [y \in DOMAIN trace |-> PaysFor(trace, q, p, y)] => p[x] = PaysFor(trace, q, p, x)
    BY <2>1
  <2> QED
    BY <1>1, <2>2, PayerIs
<1>8. PaysFor(trace, h2, Payer(trace, h2), x) = PaysFor(trace, h, Payer(trace, h2), x)
  <2> DEFINE parent == trace[x].parent
  <2>1. /\ Happened(h2, <<"start", parent>>, n - 1) <=> Happened(h, <<"start", parent>>, n - 1)
        /\ ForgottenBy(h2, parent, n - 1) <=> ForgottenBy(h, parent, n - 1)
        /\ LostBy(h2, parent, n - 1) <=> LostBy(h, parent, n - 1)
    BY <1>6, PrefixOpen, PrefixForgotten, PrefixLost
  <2>2. When(h, <<"start", x>>) # {} /\ When(h2, <<"start", x>>) # {}
    BY <1>2, <1>5
  <2>3. Moment(h, <<"start", x>>) = n /\ Moment(h2, <<"start", x>>) = n
    BY <1>2, <1>5 DEF Rank
  <2> QED
    BY <2>1, <2>2, <2>3 DEF PaysFor
<1>9. PaysFor(trace, h, Payer(trace, h2), x) = PaysFor(trace, h, Payer(trace, h), x)
  <2>1. ASSUME NEW y \in DOMAIN trace, Happened(h, <<"start", y>>, Rank(h, x) - 1)
        PROVE  Payer(trace, h2)[y] = Payer(trace, h)[y]
    <3>1. y \in Old
      BY <2>1 DEF Happened
    <3>2. Rank(h, y) \in 1..Len(h) /\ Rank(h, y) <= n - 1
      BY <1>1, <1>5, <2>1, StartedIs
    <3>3. y \notin Changed
      <4>1. ~(n <= Rank(h, y))
        BY <1>1, <1>6, <3>2
      <4>2. Rank(h, y) \notin Moments
        BY <1>4, <4>1
      <4> HIDE DEF Changed
      <4> QED
        BY <4>2
    <3> QED
      BY <3>1, <3>3
  <2> QED
    BY <1>1, <2>1, PaysForLocal
<1> QED
  BY <1>5, <1>7, <1>8, <1>9
-----------------------------------------------------------------------------
(* The tracker against its history. *)

(* What a tracker should hold of a scope. *)
StateFor(trace, h, s) ==
  [id |-> s, parent |-> trace[s].parent, root |-> Payer(trace, h)[s].root,
   started |-> trace[s].started, attribution |-> Payer(trace, h)[s].bill.attribution,
   issue |-> Payer(trace, h)[s].bill.issue]

StatesOf(trace, h) == {StateFor(trace, h, x) : x \in DOMAIN trace}

Stated(trace, h, ids) == [k \in 1..Len(ids) |-> StateFor(trace, h, ids[k])]

Holds(trace, h, t, ids, all, m) ==
  /\ TrackOK(trace, h, ids) /\ LostOK(trace, h, all, m)
  /\ t = [scopes |-> Stated(trace, h, ids), retired |-> t.retired]
  /\ RetiredOK(trace, t.retired, all)

TrackerOK(trace, h, t) == \E ids, all, m : Holds(trace, h, t, ids, all, m)

LEMMA SameSeq ==
  ASSUME NEW S, NEW a \in Seq(S), NEW b \in Seq(S), Len(a) = Len(b),
         \A i \in 1..Len(a) : a[i] = b[i]
  PROVE  a = b
OBVIOUS

(* The table of scopes is what the open ones are known by. *)
LEMMA StatedIs ==
  ASSUME NEW trace, NEW h, NEW ids \in Seq(DOMAIN trace)
  PROVE  /\ Stated(trace, h, ids) \in Seq(StatesOf(trace, h))
         /\ Len(Stated(trace, h, ids)) = Len(ids) /\ DOMAIN Stated(trace, h, ids) = 1..Len(ids)
         /\ \A k \in 1..Len(ids) : Stated(trace, h, ids)[k] = StateFor(trace, h, ids[k])
<1>1. \A k \in 1..Len(ids) : ids[k] \in DOMAIN trace
  OBVIOUS
<1>2. \A k \in 1..Len(ids) : StateFor(trace, h, ids[k]) \in StatesOf(trace, h)
  BY <1>1 DEF StatesOf
<1>3. Stated(trace, h, ids) \in Seq(StatesOf(trace, h))
  BY <1>2 DEF Stated
<1>4. DOMAIN Stated(trace, h, ids) = 1..Len(ids) /\ Len(ids) \in Nat
  BY DEF Stated
<1>5. Len(Stated(trace, h, ids)) = Len(ids)
  BY <1>4 DEF Stated
<1> QED
  BY <1>3, <1>4, <1>5 DEF Stated

LEMMA TrackedIs ==
  ASSUME NEW trace, NEW h, NEW t, NEW ids, NEW all, NEW m, Holds(trace, h, t, ids, all, m), NEW x
  PROVE  /\ Tracked(t, x) <=> OpenAfter(h, x, Len(h)) /\ ~EvictedBy(h, x, Len(h))
         /\ Tracked(t, x) <=> \E i \in 1..Len(ids) : ids[i] = x
         /\ Tracked(t, x) => StateOf(t, x) = StateFor(trace, h, x) /\ x \in DOMAIN trace
<1>1. /\ ids \in Seq(DOMAIN trace) /\ t.scopes = Stated(trace, h, ids)
      /\ (\E i \in 1..Len(ids) : ids[i] = x) <=>
            OpenAfter(h, x, Len(h)) /\ ~EvictedBy(h, x, Len(h))
  BY DEF Holds, TrackOK, OpenOK
<1>2. /\ DOMAIN t.scopes = 1..Len(ids)
      /\ \A k \in 1..Len(ids) : t.scopes[k] = StateFor(trace, h, ids[k])
  <2>1. /\ DOMAIN Stated(trace, h, ids) = 1..Len(ids)
        /\ \A k \in 1..Len(ids) : Stated(trace, h, ids)[k] = StateFor(trace, h, ids[k])
    BY <1>1, StatedIs
  <2> QED
    BY <1>1, <2>1
<1>3. \A y : StateFor(trace, h, y).id = y
  BY DEF StateFor
<1>4. Tracked(t, x) <=> \E i \in 1..Len(ids) : ids[i] = x
  BY <1>2, <1>3 DEF Tracked
<1>5. ASSUME NEW i \in 1..Len(ids), ids[i] = x
      PROVE  StateOf(t, x) = StateFor(trace, h, x) /\ x \in DOMAIN trace
  <2>1. Range(t.scopes) = {StateFor(trace, h, ids[k]) : k \in 1..Len(ids)}
    BY <1>2 DEF Range
  <2>2. StateFor(trace, h, x) \in Range(t.scopes)
    BY <1>5, <2>1
  <2>3. \A y \in Range(t.scopes) : y.id = x => y = StateFor(trace, h, x)
    BY <1>3, <2>1
  <2> QED
    BY <1>1, <1>3, <1>5, <2>2, <2>3 DEF StateOf
<1> QED
  BY <1>1, <1>4, <1>5

LEMMA WithoutIs ==
  ASSUME NEW trace, NEW h, NEW ids \in Seq(DOMAIN trace), NEW x
  PROVE  /\ (\A i \in 1..Len(ids) : ids[i] # x) =>
              Without(Stated(trace, h, ids), x) = Stated(trace, h, ids)
         /\ \A k \in 1..Len(ids) :
              ids[k] = x /\ (\A i \in 1..Len(ids) : ids[i] = x => i = k) =>
                Without(Stated(trace, h, ids), x) = Stated(trace, h, RemoveAt(ids, k))
<1> DEFINE q == Stated(trace, h, ids)
           States == StatesOf(trace, h)
<1>1. /\ q \in Seq(States) /\ Len(q) = Len(ids)
      /\ \A k \in 1..Len(ids) : q[k] = StateFor(trace, h, ids[k])
  BY StatedIs
<1> HIDE DEF q
<1>2. \A k \in 1..Len(q) : q[k].id = ids[k]
  <2>1. \A y : StateFor(trace, h, y).id = y
    BY DEF StateFor
  <2> QED
    BY <1>1, <2>1
<1> HIDE DEF States
<1>3. (\A i \in 1..Len(ids) : ids[i] # x) => Without(q, x) = q
  BY <1>1, <1>2 DEF Without, RemoveFirstMatch
<1>4. ASSUME NEW k \in 1..Len(ids), ids[k] = x, \A i \in 1..Len(ids) : ids[i] = x => i = k
      PROVE  Without(q, x) = Stated(trace, h, RemoveAt(ids, k))
  <2>1. {i \in 1..Len(q) : q[i].id = x} = {k}
    BY <1>1, <1>2, <1>4
  <2>2. Min({k}) = k
    BY DEF Min
  <2>3. SelectInSeq(q, LAMBDA y : y.id = x) = k
    BY <2>1, <2>2 DEF SelectInSeq
  <2>4. Without(q, x) = RemoveAt(q, k)
    BY <1>1, <1>2, <1>4, <2>3 DEF Without, RemoveFirstMatch
  <2> DEFINE ids2 == RemoveAt(ids, k)
  <2>5. /\ ids2 \in Seq(DOMAIN trace) /\ Len(ids2) = Len(ids) - 1
        /\ \A i \in 1..(Len(ids) - 1) : ids2[i] = IF i < k THEN ids[i] ELSE ids[i + 1]
    BY RemoveAtIs
  <2>6. /\ RemoveAt(q, k) \in Seq(States) /\ Len(RemoveAt(q, k)) = Len(ids) - 1
        /\ \A i \in 1..(Len(ids) - 1) : RemoveAt(q, k)[i] = IF i < k THEN q[i] ELSE q[i + 1]
    <3>1. k \in 1..Len(q)
      BY <1>1
    <3> QED
      BY <1>1, <3>1, RemoveAtIs
  <2> HIDE DEF ids2
  <2>7. /\ Stated(trace, h, ids2) \in Seq(States) /\ Len(Stated(trace, h, ids2)) = Len(ids2)
        /\ \A i \in 1..Len(ids2) : Stated(trace, h, ids2)[i] = StateFor(trace, h, ids2[i])
    BY <2>5, StatedIs DEF States
  <2>8. \A i \in 1..(Len(ids) - 1) : RemoveAt(q, k)[i] = Stated(trace, h, ids2)[i]
    <3> TAKE i \in 1..(Len(ids) - 1)
    <3>1. i \in 1..Len(ids) /\ i + 1 \in 1..Len(ids) /\ i \in 1..Len(ids2)
      BY <2>5
    <3> QED
      BY <1>1, <2>5, <2>6, <2>7, <3>1
  <2>9. RemoveAt(q, k) = Stated(trace, h, ids2)
    BY <2>5, <2>6, <2>7, <2>8, SameSeq
  <2> QED
    BY <2>4, <2>9 DEF ids2
<1> QED
  BY <1>3, <1>4 DEF q

(* What was known of the scopes that started stays as it was. *)
LEMMA StatedStays ==
  ASSUME NEW trace, NEW h, NEW h2, GoesOn(trace, h, h2), NEW ids \in Seq(DOMAIN trace),
         \A i \in 1..Len(ids) : OpenAfter(h, ids[i], Len(h))
  PROVE  Stated(trace, h2, ids) = Stated(trace, h, ids)
<1>1. ASSUME NEW i \in 1..Len(ids)
      PROVE  StateFor(trace, h2, ids[i]) = StateFor(trace, h, ids[i])
  <2>3. Happened(h, <<"start", ids[i]>>, Len(h))
    BY DEF OpenAfter
  <2>4. When(h, <<"start", ids[i]>>) # {}
    BY <2>3 DEF Happened
  <2>5. ids[i] \in DOMAIN trace
    OBVIOUS
  <2>2. Payer(trace, h2)[ids[i]] = Payer(trace, h)[ids[i]]
    BY <2>4, <2>5, PayerStays
  <2> QED
    BY <2>2 DEF StateFor
<1> QED
  BY <1>1 DEF Stated

(* A start reads what the tracker holds as the history has it. *)
LEMMA StartStateIs ==
  ASSUME NEW trace, NEW h, NEW h2, GoesOn(trace, h, h2), NEW s \in DOMAIN trace,
         h2[Len(h2)] = <<"start", s>>,
         NEW t, NEW ids, NEW all, NEW m, Holds(trace, h, t, ids, all, m)
  PROVE  StartState(t, s, trace[s]) = StateFor(trace, h2, s)
<1> DEFINE parent == trace[s].parent
           own == DeclaresAttribution(trace[s].metadata)
           P == Payer(trace, h2)
           itself == [root |-> s, bill |-> ResolveAttribution(Defaults, trace[s].metadata)]
<1>1. /\ History(trace, h) /\ History(trace, h2) /\ Len(h) \in Nat /\ Len(h2) = Len(h) + 1
  BY HistoryIs DEF GoesOn
<1>2. Len(h) \in Int /\ Len(h) <= Len(h) /\ Rank(h2, s) - 1 = Len(h)
  <2>1. Rank(h2, s) = Len(h2)
    BY NextHappened
  <2> QED
    BY <1>1, <2>1
<1>3. When(h2, <<"start", s>>) # {}
  <2>1. Len(h2) \in 1..Len(h2)
    BY <1>1
  <2> QED
    BY <1>1, <2>1, HistoryIs DEF When
<1>4. /\ Happened(h2, <<"start", parent>>, Len(h)) <=> Happened(h, <<"start", parent>>, Len(h))
      /\ ForgottenBy(h2, parent, Len(h)) <=> ForgottenBy(h, parent, Len(h))
      /\ LostBy(h2, parent, Len(h)) <=> LostBy(h, parent, Len(h))
  BY <1>2, PrefixOpen, PrefixForgotten, PrefixLost
<1>5. P[s] = PaysFor(trace, h2, P, s)
  <2>1. \A p : p = [y \in DOMAIN trace |-> PaysFor(trace, h2, p, y)] => p[s] = PaysFor(trace, h2, p, s)
    OBVIOUS
  <2> QED
    BY <1>1, <2>1, PayerIs
<1>6. P[s] = IF own \/ ~Happened(h, <<"start", parent>>, Len(h)) \/ ForgottenBy(h, parent, Len(h))
             THEN itself
             ELSE IF LostBy(h, parent, Len(h))
                  THEN [root |-> s, bill |-> Unresolved("/scope/parent_uuid")]
             ELSE P[parent]
  BY <1>2, <1>3, <1>4, <1>5 DEF PaysFor, Rank
<1>7. parent \in Range(t.retired) <=> LostBy(h, parent, Len(h)) /\ ~ForgottenBy(h, parent, Len(h))
  BY <1>1, RetiredIs DEF Holds
<1>8. /\ Tracked(t, parent) <=> OpenAfter(h, parent, Len(h)) /\ ~EvictedBy(h, parent, Len(h))
      /\ Tracked(t, parent) => StateOf(t, parent) = StateFor(trace, h, parent) /\ parent \in DOMAIN trace
  BY TrackedIs
<1>9. /\ ForgottenBy(h, parent, Len(h)) => LostBy(h, parent, Len(h))
      /\ Tracked(t, parent) => ~LostBy(h, parent, Len(h)) /\ Happened(h, <<"start", parent>>, Len(h))
      /\ LostBy(h, parent, Len(h)) => Happened(h, <<"start", parent>>, Len(h))
      /\ Happened(h, <<"start", parent>>, Len(h)) /\ ~LostBy(h, parent, Len(h)) => Tracked(t, parent)
  <2>1. ForgottenBy(h, parent, Len(h)) => LostBy(h, parent, Len(h))
    <3>1. \A j \in 1..Len(h) : j \in Int /\ j <= Len(h)
      BY <1>1
    <3>2. DOMAIN h \subseteq Int
      BY <1>1, HistoryIs
    <3> QED
      BY <1>2, <3>1, <3>2, LostStays DEF ForgottenBy
  <2>2. Tracked(t, parent) => ~LostBy(h, parent, Len(h)) /\ Happened(h, <<"start", parent>>, Len(h))
    BY <1>8 DEF LostBy, OpenAfter
  <2>3. LostBy(h, parent, Len(h)) => Happened(h, <<"start", parent>>, Len(h))
    <3>1. ASSUME NEW j \in 1..Len(h), OpenAfter(h, parent, j)
          PROVE  Happened(h, <<"start", parent>>, Len(h))
      <4>1. \E i \in 1..Len(h) : h[i] = <<"start", parent>>
        BY <1>1, <3>1, HappenedIs DEF OpenAfter
      <4> QED
        BY <1>1, <4>1, HappenedIs
    <3> QED
      BY <3>1 DEF LostBy, EvictedBy
  <2>4. Happened(h, <<"start", parent>>, Len(h)) /\ ~LostBy(h, parent, Len(h)) => Tracked(t, parent)
    BY <1>8 DEF LostBy, OpenAfter
  <2> QED
    BY <2>1, <2>2, <2>3, <2>4
<1>10. /\ itself.root = s /\ itself.bill = ResolveAttribution(Defaults, trace[s].metadata)
       /\ [root |-> s, bill |-> Unresolved("/scope/parent_uuid")].root = s
       /\ [root |-> s, bill |-> Unresolved("/scope/parent_uuid")].bill = Unresolved("/scope/parent_uuid")
  OBVIOUS
<1>11. CASE own
  <2>1. P[s] = itself
    BY <1>6, <1>11
  <2> QED
    BY <1>10, <1>11, <2>1 DEF StartState, StateFor
<1>12. CASE ~own /\ Tracked(t, parent)
  <2>1. P[s] = P[parent]
    BY <1>6, <1>9, <1>12
  <2>2. parent \in DOMAIN trace /\ When(h, <<"start", parent>>) # {}
    BY <1>8, <1>9, <1>12 DEF Happened
  <2>3. P[s] = Payer(trace, h)[parent]
    BY <2>1, <2>2, PayerStays
  <2>4. /\ StateOf(t, parent).root = P[s].root
        /\ StateOf(t, parent).attribution = P[s].bill.attribution
        /\ StateOf(t, parent).issue = P[s].bill.issue
    BY <1>8, <1>12, <2>3 DEF StateFor
  <2> QED
    BY <1>12, <2>4 DEF StartState, StateFor
<1>13. CASE ~own /\ ~Tracked(t, parent) /\ parent \in Range(t.retired)
  <2>1. P[s] = [root |-> s, bill |-> Unresolved("/scope/parent_uuid")]
    BY <1>6, <1>7, <1>9, <1>13
  <2> QED
    BY <1>10, <1>13, <2>1 DEF StartState, StateFor
<1>14. CASE ~own /\ ~Tracked(t, parent) /\ parent \notin Range(t.retired)
  <2>1. P[s] = itself
    BY <1>6, <1>7, <1>9, <1>14
  <2> QED
    BY <1>10, <1>14, <2>1 DEF StartState, StateFor
<1> QED
  BY <1>11, <1>12, <1>13, <1>14

(* consume() of a start. *)
LEMMA StartKeeps ==
  ASSUME NEW trace, NEW h, NEW h2, GoesOn(trace, h, h2), NEW s \in DOMAIN trace,
         h2[Len(h2)] = <<"start", s>>, NEW t, TrackerOK(trace, h, t)
  PROVE  TrackerOK(trace, h2, TrackStart(t, s, trace[s]))
<1>1. PICK ids, all, m : Holds(trace, h, t, ids, all, m)
  BY DEF TrackerOK
<1>2. /\ TrackOK(trace, h, ids) /\ LostOK(trace, h, all, m)
      /\ t.scopes = Stated(trace, h, ids) /\ RetiredOK(trace, t.retired, all)
      /\ ids \in Seq(DOMAIN trace) /\ Len(ids) \in Nat
      /\ \A i \in 1..Len(ids) : OpenAfter(h, ids[i], Len(h))
  BY <1>1 DEF Holds, TrackOK, OpenOK
<1>3. \A i \in 1..Len(ids) : ids[i] # s
  BY <1>2, NextOpen
<1>4. Without(t.scopes, s) = Stated(trace, h2, ids)
  BY <1>2, <1>3, WithoutIs, StatedStays
<1>5. StartState(t, s, trace[s]) = StateFor(trace, h2, s)
  BY <1>1, StartStateIs
<1> DEFINE ids2 == Append(ids, s)
           q == Append(Stated(trace, h2, ids), StateFor(trace, h2, s))
<1>6. /\ ids2 \in Seq(DOMAIN trace) /\ Len(ids2) = Len(ids) + 1 /\ ids2[Len(ids) + 1] = s
      /\ \A i \in 1..Len(ids) : ids2[i] = ids[i]
  BY <1>2
<1>7. q = Stated(trace, h2, ids2)
  <2>1. StateFor(trace, h2, s) \in StatesOf(trace, h2)
    BY DEF StatesOf
  <2>2. /\ Stated(trace, h2, ids) \in Seq(StatesOf(trace, h2))
        /\ Len(Stated(trace, h2, ids)) = Len(ids)
        /\ \A k \in 1..Len(ids) : Stated(trace, h2, ids)[k] = StateFor(trace, h2, ids[k])
    BY <1>2, StatedIs
  <2>3. /\ q \in Seq(StatesOf(trace, h2)) /\ Len(q) = Len(ids) + 1
        /\ q[Len(ids) + 1] = StateFor(trace, h2, s)
        /\ \A k \in 1..Len(ids) : q[k] = StateFor(trace, h2, ids[k])
    BY <2>1, <2>2
  <2> HIDE DEF ids2, q
  <2>4. /\ Stated(trace, h2, ids2) \in Seq(StatesOf(trace, h2))
        /\ Len(Stated(trace, h2, ids2)) = Len(ids2)
        /\ \A k \in 1..Len(ids2) : Stated(trace, h2, ids2)[k] = StateFor(trace, h2, ids2[k])
    BY <1>6, StatedIs
  <2>5. \A k \in 1..Len(q) : q[k] = Stated(trace, h2, ids2)[k]
    <3> TAKE k \in 1..Len(q)
    <3>1. k \in 1..Len(ids2) /\ (k \in 1..Len(ids) \/ k = Len(ids) + 1)
      BY <1>2, <1>6, <2>3
    <3> QED
      BY <1>6, <2>3, <2>4, <3>1
  <2> QED
    BY <1>6, <2>3, <2>4, <2>5, SameSeq
<1>8. TrackStart(t, s, trace[s]) = EvictOverflow([scopes |-> Stated(trace, h2, ids2), retired |-> t.retired])
  BY <1>4, <1>5, <1>7 DEF TrackStart
<1>9. Len(Stated(trace, h2, ids2)) = Len(ids2)
  BY <1>6, StatedIs
<1>10. /\ Len(ids2) <= MaxScopes =>
              /\ TrackOK(trace, h2, ids2)
              /\ \A x : LostBy(h2, x, Len(h2)) <=> LostBy(h, x, Len(h))
       /\ Len(ids2) > MaxScopes =>
              /\ TrackOK(trace, h2, Tail(ids2))
              /\ Len(ids2) = MaxScopes + 1
              /\ ids2[1] \in DOMAIN trace /\ ~LostBy(h, ids2[1], Len(h))
              /\ \A x : LostBy(h2, x, Len(h2)) <=> LostBy(h, x, Len(h)) \/ x = ids2[1]
  <2>1. OpenOK(trace, h2, ids2)
    BY <1>2, OpenStarts DEF TrackOK
  <2> HIDE DEF ids2, q
  <2>2. ids2[Len(ids2)] = s
    BY <1>6
  <2> QED
    BY <1>2, <1>6, <2>1, <2>2, TrackStarts
<1> HIDE DEF ids2, q
<1>11. CASE Len(ids2) <= MaxScopes
  <2> DEFINE t2 == [scopes |-> Stated(trace, h2, ids2), retired |-> t.retired]
  <2>1. TrackStart(t, s, trace[s]) = t2
    BY <1>8, <1>9, <1>11 DEF EvictOverflow
  <2>2. LostOK(trace, h2, all, m)
    BY <1>2, <1>10, <1>11, LosesNone
  <2>3. Holds(trace, h2, t2, ids2, all, m)
    BY <1>2, <1>10, <1>11, <2>2 DEF Holds
  <2> QED
    BY <2>1, <2>3 DEF TrackerOK
<1>12. CASE ~(Len(ids2) <= MaxScopes)
  <2>0. MaxScopes \in Nat \ {0} /\ Len(ids2) > MaxScopes /\ 1 \in 1..Len(ids2)
    BY <1>2, <1>6, <1>12, TrackerOptions
  <2>1. /\ TrackOK(trace, h2, Tail(ids2))
        /\ ids2[1] \in DOMAIN trace /\ ~LostBy(h, ids2[1], Len(h))
        /\ \A x : LostBy(h2, x, Len(h2)) <=> LostBy(h, x, Len(h)) \/ x = ids2[1]
    BY <1>10, <2>0
  <2>2. /\ Stated(trace, h2, ids2) \in Seq(StatesOf(trace, h2))
        /\ \A k \in 1..Len(ids2) : Stated(trace, h2, ids2)[k] = StateFor(trace, h2, ids2[k])
    BY <1>6, StatedIs
  <2>3. Head(Stated(trace, h2, ids2)).id = ids2[1]
    <3>1. Head(Stated(trace, h2, ids2)) = Stated(trace, h2, ids2)[1]
      BY <1>9, <2>0, <2>2
    <3>2. Stated(trace, h2, ids2)[1] = StateFor(trace, h2, ids2[1])
      BY <2>0, <2>2
    <3> QED
      BY <3>1, <3>2 DEF StateFor
  <2>4. Tail(Stated(trace, h2, ids2)) = Stated(trace, h2, Tail(ids2))
    <3> DEFINE a == Tail(Stated(trace, h2, ids2))
               ids3 == Tail(ids2)
    <3>1. ids3 \in Seq(DOMAIN trace) /\ Len(ids3) = Len(ids2) - 1 /\ \A k \in 1..(Len(ids2) - 1) : ids3[k] = ids2[k + 1]
      BY <1>6, <2>0
    <3>2. /\ a \in Seq(StatesOf(trace, h2)) /\ Len(a) = Len(ids2) - 1
          /\ \A k \in 1..(Len(ids2) - 1) : a[k] = Stated(trace, h2, ids2)[k + 1]
      BY <1>9, <2>0, <2>2
    <3> HIDE DEF a, ids3
    <3>3. /\ Stated(trace, h2, ids3) \in Seq(StatesOf(trace, h2))
          /\ Len(Stated(trace, h2, ids3)) = Len(ids3)
          /\ \A k \in 1..Len(ids3) : Stated(trace, h2, ids3)[k] = StateFor(trace, h2, ids3[k])
      BY <3>1, StatedIs
    <3>4. \A k \in 1..Len(a) : a[k] = Stated(trace, h2, ids3)[k]
      <4> TAKE k \in 1..Len(a)
      <4>1. k \in 1..(Len(ids2) - 1) /\ k \in 1..Len(ids3) /\ k + 1 \in 1..Len(ids2)
        BY <1>2, <1>6, <3>1, <3>2
      <4> QED
        BY <2>2, <3>1, <3>2, <3>3, <4>1
    <3>5. a = Stated(trace, h2, ids3)
      BY <3>1, <3>2, <3>3, <3>4, SameSeq
    <3> QED
      BY <3>5 DEF a, ids3
  <2> DEFINE t2 == [scopes |-> Stated(trace, h2, Tail(ids2)), retired |-> Retire(t.retired, ids2[1])]
  <2>5. TrackStart(t, s, trace[s]) = t2
    BY <1>8, <1>9, <1>12, <2>3, <2>4 DEF EvictOverflow
  <2>6. LostOK(trace, h2, Append(all, ids2[1]), Append(m, Len(h2)))
    BY <1>2, <2>1, LosesOne
  <2>7. RetiredOK(trace, Retire(t.retired, ids2[1]), Append(all, ids2[1]))
    <3>1. \A i \in 1..Len(all) : all[i] # ids2[1]
      <4>1. /\ Len(h) \in 0..Len(h) /\ Len(h) \in Nat
            /\ \A i \in 1..Len(all) : m[i] \in 1..Len(h)
        BY <1>2, HistoryIs DEF LostOK, GoesOn
      <4>2. \A i \in 1..Len(all) : m[i] <= Len(h)
        BY <4>1
      <4> QED
        BY <1>2, <2>1, <4>1, <4>2 DEF LostOK
    <3>2. all \in Seq(DOMAIN trace)
      BY <1>2 DEF LostOK
    <3> QED
      BY <1>2, <2>1, <3>1, <3>2, RetiresOne
  <2>8. Holds(trace, h2, t2, Tail(ids2), Append(all, ids2[1]), Append(m, Len(h2)))
    BY <2>1, <2>6, <2>7 DEF Holds
  <2> QED
    BY <2>5, <2>8 DEF TrackerOK
<1> QED
  BY <1>11, <1>12

(* consume() of an end. *)
LEMMA EndKeeps ==
  ASSUME NEW trace, NEW h, NEW h2, GoesOn(trace, h, h2), NEW s,
         h2[Len(h2)] = <<"end", s>>, NEW t, TrackerOK(trace, h, t)
  PROVE  TrackerOK(trace, h2, EndTracker(t, s))
<1>1. PICK ids, all, m : Holds(trace, h, t, ids, all, m)
  BY DEF TrackerOK
<1>2. /\ TrackOK(trace, h, ids) /\ LostOK(trace, h, all, m)
      /\ t = [scopes |-> t.scopes, retired |-> t.retired]
      /\ t.scopes = Stated(trace, h, ids) /\ RetiredOK(trace, t.retired, all)
      /\ ids \in Seq(DOMAIN trace) /\ Len(ids) \in Nat
      /\ \A i \in 1..Len(ids) : OpenAfter(h, ids[i], Len(h))
      /\ \A i, j \in 1..Len(ids) : i < j => Rank(h, ids[i]) < Rank(h, ids[j])
  BY <1>1 DEF Holds, TrackOK, OpenOK
<1>3. Tracked(t, s) <=> \E i \in 1..Len(ids) : ids[i] = s
  BY <1>1, TrackedIs
<1>4. Stated(trace, h2, ids) = Stated(trace, h, ids)
  BY <1>2, StatedStays
<1>5. CASE ~Tracked(t, s)
  <2>1. /\ TrackOK(trace, h2, ids)
        /\ \A x : LostBy(h2, x, Len(h2)) <=> LostBy(h, x, Len(h))
    BY <1>2, <1>3, <1>5, TrackEnds
  <2>2. LostOK(trace, h2, all, m)
    BY <1>2, <2>1, LosesNone
  <2>3. Holds(trace, h2, t, ids, all, m)
    BY <1>2, <1>4, <2>1, <2>2 DEF Holds
  <2>4. EndTracker(t, s) = t
    BY <1>5 DEF EndTracker
  <2> QED
    BY <2>3, <2>4 DEF TrackerOK
<1>6. CASE Tracked(t, s)
  <2>1. PICK k \in 1..Len(ids) : ids[k] = s
    BY <1>3, <1>6
  <2>2. \A i \in 1..Len(ids) : ids[i] = s => i = k
    <3>1. Rank(h, s) \in Nat
      <4>1. History(trace, h) /\ Len(h) \in Nat /\ Happened(h, <<"start", s>>, Len(h))
        BY <1>2, <2>1, HistoryIs DEF OpenAfter, GoesOn
      <4>2. Rank(h, s) \in 1..Len(h)
        BY <4>1, StartedIs
      <4> QED
        BY <4>1, <4>2
    <3>2. \A i \in 1..Len(ids) : i # k => i < k \/ k < i
      BY <1>2
    <3> QED
      BY <1>2, <2>1, <3>1, <3>2
  <2> DEFINE ids2 == RemoveAt(ids, k)
  <2>3. /\ TrackOK(trace, h2, ids2) /\ ~LostBy(h, s, Len(h))
        /\ \A x : LostBy(h2, x, Len(h2)) <=> LostBy(h, x, Len(h)) \/ x = s
    BY <1>2, <2>1, TrackEnds
  <2>4. Without(t.scopes, s) = Stated(trace, h, ids2)
    BY <1>2, <2>1, <2>2, WithoutIs
  <2>5. Stated(trace, h2, ids2) = Stated(trace, h, ids2)
    <3>1. /\ ids2 \in Seq(DOMAIN trace) /\ Len(ids2) = Len(ids) - 1
          /\ \A i \in 1..(Len(ids) - 1) : ids2[i] = IF i < k THEN ids[i] ELSE ids[i + 1]
      BY <1>2, RemoveAtIs
    <3>2. \A i \in 1..Len(ids2) : \E j \in 1..Len(ids) : ids2[i] = ids[j]
      <4> HIDE DEF ids2
      <4> TAKE i \in 1..Len(ids2)
      <4>1. i \in 1..(Len(ids) - 1) /\ i \in 1..Len(ids) /\ i + 1 \in 1..Len(ids)
        BY <1>2, <3>1
      <4> QED
        BY <3>1, <4>1
    <3>3. \A i \in 1..Len(ids2) : OpenAfter(h, ids2[i], Len(h))
      BY <1>2, <3>2
    <3> HIDE DEF ids2
    <3> QED
      BY <3>1, <3>3, StatedStays
  <2> HIDE DEF ids2
  <2>6. s \in DOMAIN trace
    <3>1. ids[k] \in DOMAIN trace
      BY <1>2
    <3> QED
      BY <2>1, <3>1
  <2>7. LostOK(trace, h2, Append(all, s), Append(m, Len(h2)))
    BY <1>2, <2>3, <2>6, LosesOne
  <2>8. RetiredOK(trace, Retire(t.retired, s), Append(all, s))
    <3>1. \A i \in 1..Len(all) : all[i] # s
      <4>1. /\ Len(h) \in 0..Len(h) /\ Len(h) \in Nat
            /\ \A i \in 1..Len(all) : m[i] \in 1..Len(h)
        BY <1>2, HistoryIs DEF LostOK, GoesOn
      <4>2. \A i \in 1..Len(all) : m[i] <= Len(h)
        BY <4>1
      <4> QED
        BY <1>2, <2>3, <4>1, <4>2 DEF LostOK
    <3>2. all \in Seq(DOMAIN trace)
      BY <1>2 DEF LostOK
    <3> QED
      BY <1>2, <2>6, <3>1, <3>2, RetiresOne
  <2> DEFINE t2 == [scopes |-> Stated(trace, h2, ids2), retired |-> Retire(t.retired, s)]
  <2>9. EndTracker(t, s) = t2
    BY <1>6, <2>4, <2>5 DEF EndTracker, Pop
  <2>10. Holds(trace, h2, t2, ids2, Append(all, s), Append(m, Len(h2)))
    BY <2>3, <2>7, <2>8 DEF Holds
  <2> QED
    BY <2>9, <2>10 DEF TrackerOK
<1> QED
  BY <1>5, <1>6
-----------------------------------------------------------------------------
(* The records. *)

(* Cached tokens are taken off a prompt that counts them, once. *)
LEMMA FreshIs ==
  ASSUME NEW i, PromptTrue(i, FALSE), i.fresh \in Nat, Garbled \notin Range(i.usage)
  PROVE  /\ i.usage.prompt = None \/ i.usage.prompt \in Nat
         /\ ExclusiveCount(i.usage.prompt, i.usage.read, i.usage.written) = Fresh(i)
         /\ Exclusive(i.usage.prompt, i.usage.read, i.usage.written) = Fresh(i)
<1>1. /\ i.usage.prompt \in Counters /\ i.usage.read \in Counters /\ i.usage.written \in Counters
      /\ i.usage.prompt # Garbled /\ i.usage.read # Garbled /\ i.usage.written # Garbled
  <2>1. i.usage \in Usages
    BY DEF PromptTrue
  <2>2. \A f \in {"prompt", "read", "written"} : f \in DOMAIN i.usage /\ i.usage[f] \in Counters
    BY <2>1 DEF Usages
  <2> QED
    BY <2>2 DEF Range
<1> DEFINE cached == OrZero(i.usage.read) + OrZero(i.usage.written)
<1>2. /\ i.usage.prompt = None \/ i.usage.prompt \in Nat
      /\ OrZero(i.usage.read) \in Nat /\ OrZero(i.usage.written) \in Nat
  BY <1>1 DEF Counters, OrZero
<1>3. i.usage.prompt # None =>
        i.usage.prompt = i.fresh + cached \/ (i.fresh = 0 /\ i.usage.prompt < cached)
  BY DEF PromptTrue
<1>4. i.usage.read = None /\ i.usage.written = None => cached = 0
  BY DEF OrZero
<1> QED
  BY <1>2, <1>3, <1>4 DEF ExclusiveCount, Exclusive, Fresh

(* What a scope's end is mapped to. *)
LEMMA EndResultIs ==
  ASSUME NEW t, NEW s, NEW scope, IsScope(scope)
  PROVE  LET made == EndResult(t, s, scope)
             state == StateOf(t, s)
         IN /\ made.kind = "ready" => Tracked(t, s)
            /\ Tracked(t, s) /\ state.attribution = None => made.kind \in {"ignored", "skipped"}
            /\ made.kind = "ready" =>
                 /\ made.record.attribution = state.attribution
                 /\ made.record.run = state.root
                 /\ made.record.parent = IF state.root = s THEN None ELSE state.parent
                 /\ scope.category = "llm" => made.record.input = Fresh(scope)
            /\ Tracked(t, s) /\ state.attribution # None /\ scope.sound /\ scope.category # "agent" =>
                 made.kind = "ready"
<1> DEFINE made == EndResult(t, s, scope)
           state == StateOf(t, s)
           shared == [span |-> s, run |-> state.root,
                      parent |-> IF state.root = s THEN None ELSE state.parent,
                      duration |-> ElapsedMs(state.started, scope.ended),
                      attribution |-> state.attribution]
<1>1. scope.category \in {"agent", "llm", "tool"}
  BY DEF IsScope, Categories
<1>2. \A k, p : Result(k, p).kind = k
  BY DEF Result
<1>3. /\ shared.run = state.root /\ shared.attribution = state.attribution
      /\ shared.parent = IF state.root = s THEN None ELSE state.parent
  OBVIOUS
<1> HIDE DEF state
<1>4. made = IF scope.category \notin {"llm", "tool"} THEN Result("ignored", None)
             ELSE IF ~Tracked(t, s) THEN Result("skipped", "/scope/start")
             ELSE IF state.attribution = None THEN Result("skipped", state.issue)
             ELSE IF scope.category = "llm" THEN NormalizeLlm(scope, shared)
             ELSE NormalizeTool(scope, shared)
  BY DEF EndResult, state
<1> HIDE DEF made, shared
<1>5. /\ NormalizeTool(scope, shared).kind = "ready" =>
           /\ NormalizeTool(scope, shared).record.attribution = shared.attribution
           /\ NormalizeTool(scope, shared).record.run = shared.run
           /\ NormalizeTool(scope, shared).record.parent = shared.parent
      /\ scope.name # None => NormalizeTool(scope, shared).kind = "ready"
  BY <1>2 DEF NormalizeTool
<1>6. /\ NormalizeLlm(scope, shared).kind = "ready" =>
           /\ NormalizeLlm(scope, shared).record.attribution = shared.attribution
           /\ NormalizeLlm(scope, shared).record.run = shared.run
           /\ NormalizeLlm(scope, shared).record.parent = shared.parent
           /\ scope.usage # None /\ Garbled \notin Range(scope.usage)
           /\ NormalizeLlm(scope, shared).record.input =
                IF scope.api = "anthropic_messages" THEN scope.usage.prompt
                ELSE ExclusiveCount(scope.usage.prompt, scope.usage.read, scope.usage.written)
      /\ scope.profile # Garbled /\ scope.usage # None /\ scope.model # None
         /\ Garbled \notin Range(scope.usage) /\ scope.name # None =>
           NormalizeLlm(scope, shared).kind = "ready"
  BY <1>2 DEF NormalizeLlm
<1>7. ASSUME scope.usage # None, Garbled \notin Range(scope.usage)
      PROVE  Fresh(scope) = IF scope.api = "anthropic_messages" THEN scope.usage.prompt
                ELSE ExclusiveCount(scope.usage.prompt, scope.usage.read, scope.usage.written)
  <2>1. scope.fresh \in Nat /\ PromptTrue(scope, scope.api = "anthropic_messages")
    BY <1>7 DEF IsScope
  <2>2. CASE scope.api = "anthropic_messages"
    BY <1>7, <2>1, <2>2 DEF PromptTrue, Fresh
  <2>3. CASE scope.api # "anthropic_messages"
    <3>1. PromptTrue(scope, FALSE)
      BY <2>1, <2>3 DEF PromptTrue
    <3> QED
      BY <1>7, <2>1, <2>3, <3>1, FreshIs
  <2> QED
    BY <2>2, <2>3
<1>8. scope.sound /\ scope.category # "agent" => scope.name # None
  BY DEF IsScope
<1>9. scope.sound /\ scope.category = "llm" =>
        /\ scope.profile # Garbled /\ scope.model # None
        /\ scope.usage # None /\ Garbled \notin Range(scope.usage)
  BY DEF IsScope
<1>10. made.kind = "ready" => Tracked(t, s) /\ state.attribution # None /\ scope.category \in {"llm", "tool"}
  BY <1>2, <1>4
<1>11. Tracked(t, s) /\ state.attribution = None => made.kind \in {"ignored", "skipped"}
  BY <1>2, <1>4
<1>12. CASE made.kind = "ready" /\ scope.category = "llm"
  <2>1. made = NormalizeLlm(scope, shared)
    BY <1>4, <1>10, <1>12
  <2> QED
    BY <1>3, <1>6, <1>7, <1>10, <1>12, <2>1 DEF made, state
<1>13. CASE made.kind = "ready" /\ scope.category # "llm"
  <2>1. made = NormalizeTool(scope, shared)
    BY <1>4, <1>10, <1>13
  <2> QED
    BY <1>3, <1>5, <1>10, <1>13, <2>1 DEF made, state
<1>14. CASE made.kind # "ready"
  <2>1. ASSUME Tracked(t, s), state.attribution # None, scope.sound, scope.category # "agent"
        PROVE  made.kind = "ready"
    BY <1>1, <1>4, <1>5, <1>6, <1>8, <1>9, <2>1
  <2> QED
    BY <1>11, <1>14, <2>1 DEF made, state
<1> QED
  BY <1>12, <1>13, <1>14

LEMMA EndMoment ==
  ASSUME NEW trace, NEW h, NEW h2, GoesOn(trace, h, h2), NEW s, NEW k \in 1..Len(h),
         h[k] = <<"end", s>>
  PROVE  /\ Moment(h, <<"end", s>>) = k /\ Moment(h2, <<"end", s>>) = k
         /\ k - 1 \in Int /\ k - 1 <= Len(h)
         /\ When(h2, <<"start", s>>) # {} <=> When(h, <<"start", s>>) # {}
<1>1. /\ History(trace, h) /\ History(trace, h2) /\ Len(h) \in Nat /\ Len(h2) = Len(h) + 1
      /\ h2[k] = h[k] /\ k \in 1..Len(h2)
  BY HistoryIs DEF GoesOn
<1>2. Moment(h, h[k]) = k /\ Moment(h2, h2[k]) = k
  BY <1>1, MomentIs
<1>3. h2[Len(h2)] # <<"start", s>>
  <2>1. Happened(h2, <<"end", s>>, k)
    <3>1. h2[k] = <<"end", s>> /\ k <= k
      BY <1>1
    <3> QED
      BY <1>1, <3>1, HappenedIs
  <2> QED
    BY <2>1, NextHappened
<1>4. Happened(h2, <<"start", s>>, Len(h2)) <=> Happened(h, <<"start", s>>, Len(h))
  BY <1>3, NextStarted
<1>5. When(h2, <<"start", s>>) # {} <=> When(h, <<"start", s>>) # {}
  <2>1. When(h2, <<"start", s>>) # {} <=> Happened(h2, <<"start", s>>, Len(h2))
    BY <1>1, StartedOnce
  <2>2. When(h, <<"start", s>>) # {} <=> Happened(h, <<"start", s>>, Len(h))
    BY <1>1, StartedOnce
  <2> QED
    BY <1>4, <2>1, <2>2
<1> QED
  BY <1>1, <1>2, <1>5

(* A record that was true stays true, ... *)
LEMMA RecordStays ==
  ASSUME NEW trace, NEW h, NEW h2, GoesOn(trace, h, h2), NEW s \in DOMAIN trace,
         NEW k \in 1..Len(h), h[k] = <<"end", s>>, NEW made, RelayRecordTrue(trace, h, s, made)
  PROVE  RelayRecordTrue(trace, h2, s, made)
<1>1. /\ Moment(h, <<"end", s>>) = k /\ Moment(h2, <<"end", s>>) = k
      /\ k - 1 \in Int /\ k - 1 <= Len(h)
      /\ When(h2, <<"start", s>>) # {} <=> When(h, <<"start", s>>) # {}
  BY EndMoment
<1>2. EvictedBy(h2, s, k - 1) <=> EvictedBy(h, s, k - 1)
  BY <1>1, PrefixLost
<1>3. When(h, <<"start", s>>) # {} => Payer(trace, h2)[s] = Payer(trace, h)[s]
  BY PayerStays
<1> QED
  BY <1>1, <1>2, <1>3 DEF RelayRecordTrue

(* and the record of an end is true when it is made. *)
LEMMA RecordMade ==
  ASSUME NEW trace, NEW h, NEW h2, GoesOn(trace, h, h2), NEW s \in DOMAIN trace, IsScope(trace[s]),
         h2[Len(h2)] = <<"end", s>>, NEW t, TrackerOK(trace, h, t)
  PROVE  RelayRecordTrue(trace, h2, s, EndResult(t, s, trace[s]))
<1>1. PICK ids, all, m : Holds(trace, h, t, ids, all, m)
  BY DEF TrackerOK
<1>2. /\ History(trace, h) /\ History(trace, h2) /\ Len(h) \in Nat /\ Len(h2) = Len(h) + 1
      /\ Len(h2) \in 1..Len(h2)
  BY HistoryIs DEF GoesOn
<1>3. Moment(h2, <<"end", s>>) - 1 = Len(h)
  <2>1. Moment(h2, h2[Len(h2)]) = Len(h2)
    BY <1>2, MomentIs
  <2> QED
    BY <1>2, <2>1
<1>4. EvictedBy(h2, s, Len(h)) <=> EvictedBy(h, s, Len(h))
  BY <1>2, PrefixLost
<1>5. /\ Tracked(t, s) <=> OpenAfter(h, s, Len(h)) /\ ~EvictedBy(h, s, Len(h))
      /\ Tracked(t, s) => StateOf(t, s) = StateFor(trace, h, s)
  BY <1>1, TrackedIs
<1>6. When(h2, <<"start", s>>) # {} <=> Happened(h, <<"start", s>>, Len(h))
  <2>1. When(h2, <<"start", s>>) # {} <=> Happened(h2, <<"start", s>>, Len(h2))
    BY <1>2, StartedOnce
  <2>2. Happened(h2, <<"start", s>>, Len(h2)) <=>
          Happened(h, <<"start", s>>, Len(h)) \/ h2[Len(h2)] = <<"start", s>>
    BY NextStarted
  <2> QED
    BY <2>1, <2>2
<1>7. ~Happened(h, <<"end", s>>, Len(h))
  BY NextHappened
<1>8. Tracked(t, s) <=> When(h2, <<"start", s>>) # {} /\ ~EvictedBy(h2, s, Moment(h2, <<"end", s>>) - 1)
  BY <1>3, <1>4, <1>5, <1>6, <1>7 DEF OpenAfter
<1>9. Tracked(t, s) =>
        /\ StateOf(t, s).attribution = Payer(trace, h2)[s].bill.attribution
        /\ StateOf(t, s).root = Payer(trace, h2)[s].root
        /\ StateOf(t, s).parent = trace[s].parent
  <2> HAVE Tracked(t, s)
  <2>1. When(h, <<"start", s>>) # {}
    BY <1>5 DEF OpenAfter, Happened
  <2>2. Payer(trace, h2)[s] = Payer(trace, h)[s]
    BY <2>1, PayerStays
  <2>3. StateOf(t, s) = StateFor(trace, h, s)
    BY <1>5
  <2> QED
    BY <2>2, <2>3 DEF StateFor
<1> DEFINE made == EndResult(t, s, trace[s])
<1>10. /\ made.kind = "ready" => Tracked(t, s)
       /\ Tracked(t, s) /\ StateOf(t, s).attribution = None => made.kind \in {"ignored", "skipped"}
       /\ made.kind = "ready" =>
            /\ made.record.attribution = StateOf(t, s).attribution
            /\ made.record.run = StateOf(t, s).root
            /\ made.record.parent = IF StateOf(t, s).root = s THEN None ELSE StateOf(t, s).parent
            /\ trace[s].category = "llm" => made.record.input = Fresh(trace[s])
       /\ Tracked(t, s) /\ StateOf(t, s).attribution # None /\ trace[s].sound
          /\ trace[s].category # "agent" => made.kind = "ready"
  BY EndResultIs
<1> HIDE DEF made
<1>11. RelayRecordTrue(trace, h2, s, made)
  BY <1>8, <1>9, <1>10 DEF RelayRecordTrue
<1> QED
  BY <1>11 DEF made
-----------------------------------------------------------------------------
(* What LiteLLM's mapping makes of a call. *)
LEMMA CallbackRecord ==
  ASSUME NEW cb, IsCall(cb)
  PROVE  LiteLLMRecordTrue(MapCallback(cb), cb)
<1> DEFINE made == MapCallback(cb)
           attribution == Attributed(Defaults, cb.attribution)
           operation == OperationFrom(cb.callType)
           usage == UsageFrom(cb, operation)
           cost == CostFrom(cb)
<1>1. None \notin Operations /\ None \notin MappedUsages /\ Garbled \notin MappedUsages
  BY HandoffOptions
<1>2. /\ cb.charged <=>
           /\ ~cb.cacheHit /\ cb.callType \in {"completion", "responses", "embedding", "rerank"}
           /\ LeftTraces(cb)
      /\ cb.account = IF cb.attribution = None THEN Defaults["account_id"]
                      ELSE IF cb.attribution["account_id"] = Unset THEN Defaults["account_id"]
                      ELSE cb.attribution["account_id"]
  BY DEF IsCall
<1>3. \A k, p : Outcome(k, p).kind = k /\ Outcome(k, p).path = p
  BY DEF Outcome
<1>4. /\ operation # None <=> cb.callType \in {"completion", "responses", "embedding", "rerank"}
      /\ operation = "reranking" <=> cb.callType = "rerank"
  <2>1. None # "generation" /\ None # "embedding" /\ None # "reranking"
    BY <1>1 DEF Operations
  <2> QED
    BY <2>1 DEF OperationFrom, GenerationCalls, EmbeddingCalls, RerankCalls
<1>5. ASSUME cb.usage # None, usage # Garbled
      PROVE  /\ Garbled \notin Range(cb.usage)
             /\ usage = None <=> Range(cb.usage) = {None}
             /\ usage # None => usage.input = Fresh(cb)
  <2>1. cb.fresh \in Nat /\ PromptTrue(cb, FALSE) /\ cb.usage \in Usages
    BY <1>5 DEF IsCall, PromptTrue
  <2>2. usage = StandardUsage(cb.usage)
    BY <1>5 DEF UsageFrom
  <2>3. Garbled \notin Range(cb.usage)
    BY <1>5, <2>2 DEF StandardUsage
  <2>4. Exclusive(cb.usage.prompt, cb.usage.read, cb.usage.written) = Fresh(cb)
    BY <2>1, <2>3, FreshIs
  <2>5. Fresh(cb) \in Counters /\ cb.usage.read \in Counters /\ cb.usage.written \in Counters
        /\ None \in Counters
    BY <2>1 DEF Fresh, Counters, Usages
  <2> DEFINE filled == [input |-> Fresh(cb), read |-> cb.usage.read, written |-> cb.usage.written,
                        units |-> None]
  <2>6. filled \in MappedUsages
    BY <2>5 DEF MappedUsages
  <2>7. filled.input = Fresh(cb)
    OBVIOUS
  <2>8. usage = IF Range(cb.usage) = {None} THEN None ELSE filled
    BY <2>2, <2>3, <2>4 DEF StandardUsage
  <2> HIDE DEF filled, usage
  <2> QED
    BY <1>1, <2>3, <2>6, <2>7, <2>8
<1>6. ASSUME cb.usage = None, usage # Garbled
      PROVE  usage # None <=> cb.callType = "rerank" /\ cb.rerank # None /\ Range(cb.rerank) # {None}
  <2>1. CASE cb.callType # "rerank"
    BY <1>4, <1>6, <2>1 DEF UsageFrom
  <2>2. CASE cb.callType = "rerank"
    <3>1. usage = RerankUsage(cb.rerank, ProviderFrom(cb))
      BY <1>4, <1>6, <2>2 DEF UsageFrom
    <3>2. CASE cb.rerank = None \/ Range(cb.rerank) = {None}
      BY <1>6, <2>2, <3>1, <3>2 DEF RerankUsage
    <3>3. CASE cb.rerank # None /\ Range(cb.rerank) # {None}
      <4>1. cb.rerank \in Rerankings
        BY <3>3 DEF IsCall
      <4>2. Garbled \notin Range(cb.rerank)
        BY <1>6, <3>1, <3>3 DEF RerankUsage
      <4>3. \A f \in {"input", "output", "billed", "units"} :
              cb.rerank[f] \in Counters /\ cb.rerank[f] # Garbled
        <5>1. \A f \in {"input", "output", "billed", "units"} :
                f \in DOMAIN cb.rerank /\ cb.rerank[f] \in Counters
          BY <4>1 DEF Rerankings
        <5> QED
          BY <4>2, <5>1 DEF Range
      <4>4. /\ cb.rerank.input \in Nat \cup {None} /\ cb.rerank.billed \in Nat \cup {None}
            /\ cb.rerank.output \in Nat \cup {None} /\ cb.rerank.units \in Counters /\ None \in Counters
        BY <4>3 DEF Counters
      <4>5. Exclusive(cb.rerank.billed, cb.rerank.output, None) \in Nat \cup {None}
        BY <4>4 DEF Exclusive, OrZero
      <4> DEFINE fresh == IF cb.rerank.input = None /\ cb.rerank.billed # None
                          THEN Exclusive(cb.rerank.billed, cb.rerank.output, None) ELSE cb.rerank.input
                 units == IF ProviderFrom(cb) = None THEN None ELSE cb.rerank.units
                 filled == [input |-> fresh, read |-> None, written |-> None, units |-> units]
      <4>6. fresh \in Counters /\ units \in Counters /\ None \in Counters
        BY <4>4, <4>5 DEF Counters
      <4>7. usage = filled
        BY <3>1, <3>3, <4>2 DEF RerankUsage
      <4> HIDE DEF fresh, units
      <4>8. filled \in MappedUsages
        BY <4>6 DEF MappedUsages
      <4> HIDE DEF filled, usage
      <4> QED
        BY <1>1, <2>2, <3>3, <4>7, <4>8
    <3> QED
      BY <3>2, <3>3
  <2> QED
    BY <2>1, <2>2
<1>7. ASSUME usage # Garbled, cost # Garbled
      PROVE  LeftTraces(cb) <=> usage # None \/ CostIsEvidence(cost, cb.failed)
  <2> HIDE DEF usage
  <2>1. CASE cb.usage = None
    BY <1>6, <1>7, <2>1 DEF LeftTraces, CostFrom, CostIsEvidence
  <2>2. CASE cb.usage # None
    BY <1>5, <1>7, <2>2 DEF LeftTraces, CostFrom, CostIsEvidence
  <2> QED
    BY <2>1, <2>2
<1>8. attribution["account_id"] = cb.account
  <2>1. "account_id" \in Fields /\ "account_id" # "team"
    BY DEF Fields
  <2> QED
    BY <1>2, <2>1 DEF Attributed, Merge
<1> DEFINE record == [run |-> RunFrom(cb), operation |-> operation,
                      provider |-> ProviderFrom(cb), name |-> ModelFrom(cb),
                      duration |-> TimingFrom(cb), attribution |-> attribution,
                      usage |-> usage, cost |-> cost]
<1>9. record.attribution = attribution /\ record.usage = usage
  OBVIOUS
<1> HIDE DEF attribution, operation, usage, cost
<1>10. made = IF cb.kwargs = Garbled THEN Outcome("malformed", "/")
     ELSE IF cb.cacheHit THEN Outcome("skipped", "/cache_hit")
     ELSE IF cb.metadata = Garbled THEN Outcome("malformed", "/litellm_params/metadata/audr")
     ELSE IF ~Billable(attribution) THEN Outcome("skipped", "/attribution")
     ELSE IF operation = None THEN Outcome("skipped", "/call_type")
     ELSE IF usage = Garbled THEN Outcome("malformed", "/usage")
     ELSE IF cost = Garbled THEN Outcome("malformed", "/response_cost")
     ELSE IF usage = None /\ ~CostIsEvidence(cost, cb.failed) THEN Outcome("skipped", "/usage")
     ELSE IF ProviderFrom(cb) = None THEN Outcome("skipped", "/custom_llm_provider")
     ELSE IF ModelFrom(cb) = None THEN Outcome("skipped", "/model")
     ELSE IF TimingFrom(cb) = None THEN Outcome("malformed", "/timing")
     ELSE IF cb.invalid # None THEN Outcome("malformed", cb.invalid)
     ELSE [kind |-> "ready", path |-> None, record |-> record]
  BY DEF MapCallback, attribution, operation, usage, cost
<1> HIDE DEF made, record
<1>11. ASSUME made.kind = "ready"
       PROVE  /\ made.record = record /\ ~cb.cacheHit /\ operation # None
              /\ usage # Garbled /\ cost # Garbled
              /\ usage # None \/ CostIsEvidence(cost, cb.failed)
  BY <1>3, <1>10, <1>11
<1>12. ASSUME made.kind = "skipped", made.path \in {"/usage", "/call_type", "/cache_hit"}
       PROVE  \/ cb.cacheHit
              \/ operation = None
              \/ /\ usage # Garbled /\ cost # Garbled
                 /\ usage = None /\ ~CostIsEvidence(cost, cb.failed)
  BY <1>3, <1>10, <1>12
<1>13. ASSUME made.kind = "ready"
       PROVE  /\ cb.charged
              /\ made.record.usage # None /\ cb.usage # None => made.record.usage.input = Fresh(cb)
              /\ made.record.attribution["account_id"] = cb.account
  BY <1>2, <1>4, <1>5, <1>7, <1>8, <1>9, <1>11, <1>13
<1>14. ASSUME made.kind = "skipped", made.path \in {"/usage", "/call_type", "/cache_hit"}
       PROVE  ~cb.charged
  BY <1>2, <1>4, <1>7, <1>12, <1>14
<1> QED
  BY <1>13, <1>14 DEF LiteLLMRecordTrue, made
-----------------------------------------------------------------------------
(* What an activation's tracker took, and what it made of it. *)
TakenInv(a) ==
  /\ History(input, consumed[a])
  /\ TrackerOK(input, consumed[a], trackers[a])
  /\ \A j \in 1..Len(consumed[a]) :
       LET e == consumed[a][j]
       IN /\ e \in Events /\ at[e] \notin {"new", "read"}
          /\ e[1] = "end" => /\ at[<<"start", e[2]>>] # "new"
                             /\ RelayRecordTrue(input, consumed[a], e[2], result[e])

RecordInv ==
  /\ adapter \in {"relay", "litellm"}
  /\ DOMAIN trackers = Activations /\ DOMAIN consumed = Activations /\ DOMAIN result = Events
  /\ adapter = "litellm" => input \in Calls /\ \A a \in Activations : consumed[a] = <<>>
  /\ adapter = "relay" => \A a \in Activations : TakenInv(a)
  /\ \A e \in Events :
       /\ e[1] = "end" /\ at[e] = "read" => at[<<"start", e[2]>>] # "new"
       /\ e[1] = "callback" /\ at[e] = "read" => adapter = "litellm" /\ e[2] \in DOMAIN input
       /\ e[1] = "callback" /\ result[e] # None =>
            adapter = "litellm" /\ e[2] \in DOMAIN input /\ result[e] = MapCallback(input[e[2]])

(* An event is one of a scope, or a callback. *)
LEMMA EventIs ==
  ASSUME NEW e \in Events
  PROVE  /\ e = <<e[1], e[2]>>
         /\ e[1] = "end" => <<"start", e[2]>> \in Events /\ <<"start", e[2]>> # e
         /\ e[1] \in {"start", "end", "callback"}
<1> DEFINE S == UNION {DOMAIN trace : trace \in Traces}
           C == UNION {DOMAIN calls : calls \in Calls}
<1>1. e \in {"start", "end"} \X S \/ e \in {"callback"} \X C
  BY Zenon DEF Events
<1>2. \A x \in {"start", "end"} \X S : x \in Events
  BY Zenon DEF Events
<1> HIDE DEF S, C
<1>3. CASE e \in {"start", "end"} \X S
  <2>1. e = <<e[1], e[2]>> /\ e[1] \in {"start", "end"} /\ e[2] \in S
    BY <1>3
  <2>2. <<"start", e[2]>> \in {"start", "end"} \X S
    BY <2>1
  <2> QED
    BY <1>2, <2>1, <2>2
<1>4. CASE e \in {"callback"} \X C
  BY <1>4
<1> QED
  BY <1>1, <1>3, <1>4

(* Steps that map nothing: whoever has left the start has left it. *)
LEMMA QuietStep ==
  ASSUME RecordInv, UNCHANGED <<adapter, input, trackers, result, consumed>>,
         \A x \in Events : at'[x] \in {"new", "read"} => at'[x] = at[x]
  PROVE  RecordInv'
<1>1. ASSUME adapter = "relay", NEW a \in Activations
      PROVE  TakenInv(a)'
  <2>1. TakenInv(a)
    BY <1>1 DEF RecordInv
  <2>2. \A j \in 1..Len(consumed[a]) :
          LET e == consumed[a][j]
          IN /\ e \in Events /\ at'[e] \notin {"new", "read"}
             /\ e[1] = "end" => /\ at'[<<"start", e[2]>>] # "new"
                                /\ RelayRecordTrue(input, consumed[a], e[2], result[e])
    <3> TAKE j \in 1..Len(consumed[a])
    <3> DEFINE e == consumed[a][j]
    <3>1. /\ e \in Events /\ at[e] \notin {"new", "read"}
          /\ e[1] = "end" => /\ at[<<"start", e[2]>>] # "new"
                             /\ RelayRecordTrue(input, consumed[a], e[2], result[e])
      BY <2>1 DEF TakenInv
    <3>2. e[1] = "end" => <<"start", e[2]>> \in Events
      BY <3>1, EventIs
    <3> QED
      BY <3>1, <3>2
  <2> QED
    BY <2>1, <2>2 DEF TakenInv
<1>2. ASSUME NEW e \in Events
      PROVE  /\ e[1] = "end" /\ at'[e] = "read" => at'[<<"start", e[2]>>] # "new"
             /\ e[1] = "callback" /\ at'[e] = "read" => adapter = "litellm" /\ e[2] \in DOMAIN input
             /\ e[1] = "callback" /\ result[e] # None =>
                  adapter = "litellm" /\ e[2] \in DOMAIN input /\ result[e] = MapCallback(input[e[2]])
  <2>1. e[1] = "end" => <<"start", e[2]>> \in Events
    BY EventIs
  <2> QED
    BY <2>1 DEF RecordInv
<1> QED
  BY <1>1, <1>2 DEF RecordInv, Activations

LEMMA ArrivesQuiet ==
  ASSUME HandoffInv, RecordInv, NEW e \in Events, Arrives(e)
  PROVE  RecordInv'
<1>1. /\ UNCHANGED <<adapter, input, trackers, result, consumed>>
      /\ at[e] = "new" /\ e[2] \in DOMAIN input /\ Due(e)
      /\ e[1] = (IF adapter = "relay" THEN "end" ELSE "callback")
      /\ DOMAIN at = Events
  BY DEF Arrives, Comes, HandoffInv, TypeInv
<1>2. PICK p : p \in {"read", "inactive"} /\ at' = [at EXCEPT ![e] = p]
  BY DEF Arrives, Goes
<1>3. /\ at'[e] = p /\ \A x \in Events : x # e => at'[x] = at[x]
  BY <1>1, <1>2
<1>4. e[1] = "end" => /\ at[<<"start", e[2]>>] # "new"
                      /\ <<"start", e[2]>> \in Events /\ <<"start", e[2]>> # e
  BY <1>1, EventIs DEF Due
<1>5. ASSUME adapter = "relay", NEW a \in Activations
      PROVE  TakenInv(a)'
  <2>1. TakenInv(a)
    BY <1>5 DEF RecordInv
  <2>2. \A j \in 1..Len(consumed[a]) :
          LET x == consumed[a][j]
          IN /\ x \in Events /\ at'[x] \notin {"new", "read"}
             /\ x[1] = "end" => /\ at'[<<"start", x[2]>>] # "new"
                                /\ RelayRecordTrue(input, consumed[a], x[2], result[x])
    <3> TAKE j \in 1..Len(consumed[a])
    <3> DEFINE x == consumed[a][j]
    <3>1. /\ x \in Events /\ at[x] \notin {"new", "read"}
          /\ x[1] = "end" => /\ at[<<"start", x[2]>>] # "new"
                             /\ RelayRecordTrue(input, consumed[a], x[2], result[x])
      BY <2>1 DEF TakenInv
    <3>2. x[1] = "end" => <<"start", x[2]>> \in Events
      BY <3>1, EventIs
    <3>3. x # e
      BY <1>1, <3>1
    <3> QED
      BY <1>2, <1>3, <3>1, <3>2, <3>3
  <2> QED
    BY <1>1, <2>1, <2>2 DEF TakenInv
<1>6. ASSUME NEW x \in Events
      PROVE  /\ x[1] = "end" /\ at'[x] = "read" => at'[<<"start", x[2]>>] # "new"
             /\ x[1] = "callback" /\ at'[x] = "read" => adapter = "litellm" /\ x[2] \in DOMAIN input
             /\ x[1] = "callback" /\ result[x] # None =>
                  adapter = "litellm" /\ x[2] \in DOMAIN input /\ result[x] = MapCallback(input[x[2]])
  <2>1. /\ x[1] = "end" /\ at[x] = "read" => at[<<"start", x[2]>>] # "new"
        /\ x[1] = "callback" /\ at[x] = "read" => adapter = "litellm" /\ x[2] \in DOMAIN input
        /\ x[1] = "callback" /\ result[x] # None =>
                  adapter = "litellm" /\ x[2] \in DOMAIN input /\ result[x] = MapCallback(input[x[2]])
        /\ adapter \in {"relay", "litellm"}
    BY DEF RecordInv
  <2>2. x[1] = "end" => <<"start", x[2]>> \in Events
    BY EventIs
  <2>3. CASE x = e
    BY <1>1, <1>3, <1>4, <2>1, <2>3
  <2>4. CASE x # e
    <3>1. at'[x] = at[x]
      BY <1>3, <2>4
    <3>2. x[1] = "end" => at'[<<"start", x[2]>>] # "new" \/ at[<<"start", x[2]>>] = "new"
      BY <1>2, <1>3, <2>2
    <3> QED
      BY <2>1, <3>1, <3>2
  <2> QED
    BY <2>3, <2>4
<1> QED
  BY <1>1, <1>5, <1>6 DEF RecordInv, Activations

LEMMA AppendGoesOn ==
  ASSUME NEW trace, NEW h, History(trace, h), NEW e \in {"start", "end"} \X DOMAIN trace,
         \A j \in 1..Len(h) : h[j] # e,
         \A j \in 1..Len(h) : ~(h[j][1] = "end" /\ e = <<"start", h[j][2]>>)
  PROVE  /\ GoesOn(trace, h, Append(h, e))
         /\ Append(h, e)[Len(Append(h, e))] = e
<1> DEFINE E == {"start", "end"} \X DOMAIN trace
           h2 == Append(h, e)
<1>1. /\ h \in Seq(E) /\ e \in E
      /\ \A i, j \in 1..Len(h) : h[i] = h[j] => i = j
      /\ \A i, j \in 1..Len(h) : h[i][1] = "end" /\ h[j] = <<"start", h[i][2]>> => j < i
  BY DEF History
<1> HIDE DEF E
<1>2. /\ h2 \in Seq(E) /\ Len(h) \in Nat /\ Len(h2) = Len(h) + 1 /\ h2[Len(h2)] = e
      /\ \A j \in 1..Len(h) : h2[j] = h[j]
  BY <1>1
<1> HIDE DEF h2
<1>3. \A j \in 1..Len(h2) : j \in 1..Len(h) \/ j = Len(h2)
  BY <1>2
<1>4. \A i, j \in 1..Len(h2) : h2[i] = h2[j] => i = j
  BY <1>1, <1>2, <1>3
<1>5. \A i, j \in 1..Len(h2) : h2[i][1] = "end" /\ h2[j] = <<"start", h2[i][2]>> => j < i
  <2> TAKE i, j \in 1..Len(h2)
  <2> HAVE h2[i][1] = "end" /\ h2[j] = <<"start", h2[i][2]>>
  <2>1. i # j
    <3>1. h2[j][1] = "start"
      OBVIOUS
    <3> QED
      BY <3>1
  <2>2. CASE i \in 1..Len(h) /\ j \in 1..Len(h)
    BY <1>1, <1>2, <2>2
  <2>3. CASE i \in 1..Len(h) /\ j = Len(h2)
    BY <1>2, <2>3
  <2>4. CASE i = Len(h2)
    BY <1>2, <2>1, <2>4
  <2> QED
    BY <1>3, <2>2, <2>3, <2>4
<1>6. GoesOn(trace, h, h2)
  BY <1>2, <1>4, <1>5 DEF GoesOn, History, E
<1> QED
  BY <1>2, <1>6 DEF h2

(* consume() keeps the invariant of the activation it works for, and of the others. *)
LEMMA TakesKeeps ==
  ASSUME HandoffInv, RecordInv, adapter = "relay", UNCHANGED <<adapter, input>>,
         NEW e \in Events, e \in {"start", "end"} \X DOMAIN input,
         NEW a \in Activations, at[e] \in {"new", "read"},
         e[1] = "start" => at[e] = "new",
         e[1] = "end" => at[<<"start", e[2]>>] # "new",
         NEW shape \in Shapes, NEW tracker, NEW found, found.kind \in Kinds,
         GoesOn(input, consumed[a], Append(consumed[a], e)) =>
           /\ TrackerOK(input, Append(consumed[a], e), tracker)
           /\ e[1] = "end" => RelayRecordTrue(input, Append(consumed[a], e), e[2], found),
         Takes(e, a, shape, tracker, found)
  PROVE  RecordInv'
<1> DEFINE h == consumed[a]
           h2 == Append(h, e)
<1>1. DOMAIN at = Events /\ DOMAIN trackers = Activations /\ DOMAIN consumed = Activations
      /\ DOMAIN result = Events
  BY DEF HandoffInv, TypeInv, RecordInv
<1>2. PICK p : Goes(e, p) /\ p \notin UnderWay \cup {"new"}
  <2>1. CASE shape # "ok"
    BY <2>1 DEF Takes, Shapes, UnderWay
  <2>2. CASE shape = "ok"
    <3> DEFINE p == IF found.kind = "ready" THEN "mapped" ELSE found.kind
    <3>1. p \notin UnderWay \cup {"new"}
      BY DEF Kinds, UnderWay
    <3>2. Goes(e, p)
      BY <2>2 DEF Takes
    <3> QED
      BY <3>1, <3>2
  <2> QED
    BY <2>1, <2>2
<1>3. /\ at'[e] \notin {"new", "read"}
      /\ \A x \in Events : x # e => at'[x] = at[x]
  BY <1>1, <1>2 DEF Goes, UnderWay
<1>4. CASE shape # "ok"
  <2>1. UNCHANGED <<trackers, result, consumed>>
    BY <1>4 DEF Takes
  <2>2. \A x \in Events : at'[x] \in {"new", "read"} => at'[x] = at[x]
    BY <1>3
  <2> QED
    BY <2>1, <2>2, QuietStep
<1>5. CASE shape = "ok"
  <2>1. /\ trackers' = [trackers EXCEPT ![a] = tracker]
        /\ consumed' = [consumed EXCEPT ![a] = h2]
        /\ result' = [result EXCEPT ![e] = found]
    BY <1>5 DEF Takes
  <2>2. /\ consumed'[a] = h2 /\ trackers'[a] = tracker /\ result'[e] = found
        /\ \A b \in Activations : b # a => consumed'[b] = consumed[b] /\ trackers'[b] = trackers[b]
        /\ \A x \in Events : x # e => result'[x] = result[x]
        /\ DOMAIN consumed' = Activations /\ DOMAIN trackers' = Activations /\ DOMAIN result' = Events
    BY <1>1, <2>1
  <2>3. \A b \in Activations : TakenInv(b)
    BY DEF RecordInv
  <2>4. \A b \in Activations : \A j \in 1..Len(consumed[b]) :
          LET x == consumed[b][j]
          IN /\ x \in Events /\ at[x] \notin {"new", "read"} /\ x # e /\ at'[x] \notin {"new", "read"}
             /\ x[1] = "end" => /\ at[<<"start", x[2]>>] # "new" /\ at'[<<"start", x[2]>>] # "new"
                                /\ RelayRecordTrue(input, consumed[b], x[2], result'[x])
    <3> TAKE b \in Activations
    <3> TAKE j \in 1..Len(consumed[b])
    <3> DEFINE x == consumed[b][j]
    <3>1. /\ x \in Events /\ at[x] \notin {"new", "read"}
          /\ x[1] = "end" => /\ at[<<"start", x[2]>>] # "new"
                             /\ RelayRecordTrue(input, consumed[b], x[2], result[x])
      BY <2>3 DEF TakenInv
    <3>2. x # e /\ at'[x] \notin {"new", "read"} /\ result'[x] = result[x]
      BY <1>3, <2>2, <3>1
    <3>3. x[1] = "end" => <<"start", x[2]>> \in Events
      BY <3>1, EventIs
    <3> HIDE DEF x
    <3>4. x[1] = "end" => at'[<<"start", x[2]>>] # "new"
      BY <1>3, <3>1, <3>3
    <3> QED
      BY <3>1, <3>2, <3>4 DEF x
  <2>5. GoesOn(input, h, h2) /\ h2[Len(h2)] = e
    <3>1. History(input, h) /\ \A j \in 1..Len(h) : h[j] # e
      BY <2>3, <2>4 DEF TakenInv
    <3>2. \A j \in 1..Len(h) : ~(h[j][1] = "end" /\ e = <<"start", h[j][2]>>)
      BY <2>4
    <3> HIDE DEF h
    <3> QED
      BY <3>1, <3>2, AppendGoesOn
  <2>6. TakenInv(a)'
    <3>1. History(input, h2) /\ TrackerOK(input, h2, tracker)
      BY <2>5 DEF GoesOn
    <3>2. \A j \in 1..Len(h2) :
            LET x == h2[j]
            IN /\ x \in Events /\ at'[x] \notin {"new", "read"}
               /\ x[1] = "end" => /\ at'[<<"start", x[2]>>] # "new"
                                  /\ RelayRecordTrue(input, h2, x[2], result'[x])
      <4> TAKE j \in 1..Len(h2)
      <4>1. CASE j \in 1..Len(h)
        <5>1. h2[j] = h[j]
          BY <2>5, <4>1 DEF GoesOn
        <5> DEFINE x == h[j]
        <5>2. /\ x \in Events /\ at'[x] \notin {"new", "read"}
              /\ x[1] = "end" => /\ at'[<<"start", x[2]>>] # "new"
                                 /\ RelayRecordTrue(input, h, x[2], result'[x])
          BY <2>4, <4>1
        <5>3. History(input, h)
          BY <2>3 DEF TakenInv
        <5>4. x = <<x[1], x[2]>> /\ x[2] \in DOMAIN input
          BY <4>1, <5>3, HistoryIs
        <5>5. x[1] = "end" => RelayRecordTrue(input, h2, x[2], result'[x])
          <6> HAVE x[1] = "end"
          <6>1. x = <<"end", x[2]>>
            BY <5>4
          <6> HIDE DEF h2
          <6> QED
            BY <2>5, <4>1, <5>2, <5>4, <6>1, RecordStays
        <5> HIDE DEF h, h2
        <5> QED
          BY <5>1, <5>2, <5>5
      <4>2. CASE j = Len(h2)
        <5>1. e[1] = "end" => at'[<<"start", e[2]>>] # "new"
          <6> HAVE e[1] = "end"
          <6>1. <<"start", e[2]>> \in Events /\ <<"start", e[2]>> # e
            BY EventIs
          <6> QED
            BY <1>3, <6>1
        <5>2. e[1] = "end" => RelayRecordTrue(input, h2, e[2], found)
          BY <2>5
        <5> HIDE DEF h2
        <5> QED
          BY <1>3, <2>2, <2>5, <4>2, <5>1, <5>2
      <4>3. j \in 1..Len(h) \/ j = Len(h2)
        <5>1. Len(h) \in Nat /\ Len(h2) = Len(h) + 1
          BY <2>3, <2>5, HistoryIs DEF TakenInv, GoesOn
        <5> QED
          BY <5>1
      <4> QED
        BY <4>1, <4>2, <4>3
    <3> HIDE DEF h2
    <3> QED
      BY <2>2, <3>1, <3>2 DEF TakenInv
  <2>7. \A b \in Activations : TakenInv(b)'
    <3> SUFFICES ASSUME NEW b \in Activations, b # a PROVE TakenInv(b)'
      BY <2>6
    <3>1. consumed'[b] = consumed[b] /\ trackers'[b] = trackers[b] /\ input' = input
      BY <2>2
    <3> QED
      BY <2>3, <2>4, <3>1 DEF TakenInv
  <2>8. ASSUME NEW x \in Events
        PROVE  /\ x[1] = "end" /\ at'[x] = "read" => at'[<<"start", x[2]>>] # "new"
               /\ x[1] = "callback" /\ at'[x] = "read" => adapter = "litellm" /\ x[2] \in DOMAIN input
               /\ x[1] = "callback" /\ result'[x] # None =>
                    adapter = "litellm" /\ x[2] \in DOMAIN input /\ result'[x] = MapCallback(input[x[2]])
    <3>1. x[1] = "end" => <<"start", x[2]>> \in Events
      BY EventIs
    <3>2. e[1] # "callback"
      OBVIOUS
    <3>3. CASE x = e
      BY <1>3, <3>2, <3>3
    <3>4. CASE x # e
      <4>1. at'[x] = at[x] /\ result'[x] = result[x]
        BY <1>3, <2>2, <3>4
      <4>2. x[1] = "end" /\ at[x] = "read" => at'[<<"start", x[2]>>] # "new"
        BY <1>3, <3>1 DEF RecordInv
      <4> QED
        BY <4>1, <4>2 DEF RecordInv
    <3> QED
      BY <3>3, <3>4
  <2>9. adapter' = "relay" /\ input' = input
    OBVIOUS
  <2> QED
    BY <2>2, <2>7, <2>8, <2>9 DEF RecordInv, Activations
<1> QED
  BY <1>4, <1>5

LEMMA ConsumeStartKeeps ==
  ASSUME HandoffInv, RecordInv, NEW e \in Events, ConsumeStart(e)
  PROVE  RecordInv'
<1>1. /\ adapter = "relay" /\ e[1] = "start" /\ at[e] = "new" /\ e[2] \in DOMAIN input
      /\ UNCHANGED <<adapter, input>> /\ DOMAIN at = Events
  BY DEF ConsumeStart, Comes, HandoffInv, TypeInv
<1>2. CASE active = 0
  <2>1. at' = [at EXCEPT ![e] = "inactive"] /\ UNCHANGED <<trackers, result, consumed>>
    BY <1>2 DEF ConsumeStart, Goes
  <2>2. \A x \in Events : at'[x] \in {"new", "read"} => at'[x] = at[x]
    BY <1>1, <2>1
  <2> QED
    BY <1>1, <2>1, <2>2, QuietStep
<1>3. CASE active # 0
  <2> DEFINE s == e[2]
             h2 == Append(consumed[active], e)
             tracker == TrackStart(trackers[active], s, input[s])
             found == Result("ignored", None)
  <2>1. Takes(e, active, input[s].startShape, tracker, found)
    BY <1>3 DEF ConsumeStart
  <2>2. active \in Activations
    BY <1>3, HandoffOptions DEF HandoffInv, TypeInv, Activations
  <2>3. input[s].startShape \in Shapes
    BY <1>1, HandoffOptions DEF HandoffInv, HolderInv, IsScope
  <2>4. found.kind \in Kinds
    BY DEF Result, Kinds
  <2>5. e = <<"start", s>> /\ e \in {"start", "end"} \X DOMAIN input
    <3>1. e = <<e[1], e[2]>>
      BY EventIs
    <3>2. e = <<"start", s>>
      BY <1>1, <3>1
    <3> QED
      BY <1>1, <3>2
  <2>6. ASSUME GoesOn(input, consumed[active], h2)
        PROVE  TrackerOK(input, h2, tracker)
    <3>1. TrackerOK(input, consumed[active], trackers[active])
      BY <1>1, <2>2 DEF RecordInv, TakenInv
    <3>2. h2[Len(h2)] = e
      <4>1. consumed[active] \in Seq({"start", "end"} \X DOMAIN input)
        BY <1>1, <2>2 DEF RecordInv, TakenInv, History
      <4> QED
        BY <2>5, <4>1
    <3> HIDE DEF h2
    <3> QED
      BY <1>1, <2>5, <2>6, <3>1, <3>2, StartKeeps
  <2> HIDE DEF tracker, found
  <2> QED
    BY <1>1, <2>1, <2>2, <2>3, <2>4, <2>5, <2>6, TakesKeeps
<1> QED
  BY <1>2, <1>3

LEMMA ConsumeEndKeeps ==
  ASSUME HandoffInv, RecordInv, NEW e \in Events, ConsumeEnd(e)
  PROVE  RecordInv'
<1> DEFINE s == e[2]
           a == of[e]
           h2 == Append(consumed[a], e)
           tracker == EndTracker(trackers[a], s)
           found == EndResult(trackers[a], s, input[s])
<1>1. /\ e[1] = "end" /\ at[e] = "read" /\ adapter = "relay" /\ s \in DOMAIN input
      /\ UNCHANGED <<adapter, input>> /\ a \in Activations
  BY DEF ConsumeEnd, HandoffInv, HolderInv, UnderWay
<1>2. Takes(e, a, input[s].endShape, tracker, found)
  BY DEF ConsumeEnd
<1>3. IsScope(input[s]) /\ input[s].endShape \in Shapes
  BY <1>1, HandoffOptions DEF HandoffInv, HolderInv, IsScope
<1>4. found.kind \in Kinds
  BY EndKinds
<1>5. e = <<"end", s>> /\ e \in {"start", "end"} \X DOMAIN input
  <2>1. e = <<e[1], e[2]>>
    BY EventIs
  <2>2. e = <<"end", s>>
    BY <1>1, <2>1
  <2> QED
    BY <1>1, <2>2
<1>6. at[<<"start", s>>] # "new"
  BY <1>1 DEF RecordInv
<1>7. ASSUME GoesOn(input, consumed[a], h2)
      PROVE  TrackerOK(input, h2, tracker) /\ RelayRecordTrue(input, h2, s, found)
  <2>1. TrackerOK(input, consumed[a], trackers[a])
    BY <1>1 DEF RecordInv, TakenInv
  <2>2. h2[Len(h2)] = e
    <3>1. consumed[a] \in Seq({"start", "end"} \X DOMAIN input)
      BY <1>1 DEF RecordInv, TakenInv, History
    <3> QED
      BY <1>5, <3>1
  <2> HIDE DEF h2
  <2> QED
    BY <1>1, <1>3, <1>5, <1>7, <2>1, <2>2, EndKeeps, RecordMade
<1> HIDE DEF tracker, found, a
<1> QED
  BY <1>1, <1>2, <1>3, <1>4, <1>5, <1>6, <1>7, TakesKeeps

(* A tracker that was cleared has taken nothing. *)
LEMMA EmptyHistory ==
  ASSUME NEW trace
  PROVE  History(trace, <<>>) /\ TrackerOK(trace, <<>>, NoScopes)
<1> DEFINE E == {"start", "end"} \X DOMAIN trace
<1>1. /\ Len(<<>>) = 0 /\ <<>> \in Seq(DOMAIN trace) /\ <<>> \in Seq(Nat)
      /\ <<>> \in Seq(E) /\ 1..0 = {} /\ 0..0 = {0} /\ DOMAIN <<>> = {}
  OBVIOUS
<1> HIDE DEF E
<1>2. History(trace, <<>>)
  BY <1>1 DEF History, E
<1>3. /\ \A x, k : ~Happened(<<>>, x, k)
      /\ \A x, k : ~OpenAfter(<<>>, x, k)
  BY <1>1 DEF Happened, OpenAfter, When
<1>4. \A x : ~EvictedBy(<<>>, x, 0) /\ ~LostBy(<<>>, x, 0)
  BY <1>1, <1>3 DEF EvictedBy, LostBy
<1>5. TrackOK(trace, <<>>, <<>>)
  BY <1>1, <1>3, <1>4, TrackerOptions DEF TrackOK, OpenOK
<1>6. LostOK(trace, <<>>, <<>>, <<>>)
  BY <1>1, <1>4 DEF LostOK
<1>7. RetiredOK(trace, <<>>, <<>>)
  BY <1>1, TrackerOptions DEF RetiredOK
<1>8. Stated(trace, <<>>, <<>>) = <<>>
  BY <1>1 DEF Stated
<1>9. NoScopes.retired = <<>> /\ NoScopes = [scopes |-> <<>>, retired |-> <<>>]
  BY DEF NoScopes
<1>10. Holds(trace, <<>>, NoScopes, <<>>, <<>>, <<>>)
  BY <1>5, <1>6, <1>7, <1>8, <1>9 DEF Holds
<1> QED
  BY <1>2, <1>10 DEF TrackerOK

(* map_callback, and the plugin's close(). *)
LEMMA MapKeeps ==
  ASSUME HandoffInv, RecordInv, NEW e \in Events, Map(e)
  PROVE  RecordInv'
<1> DEFINE found == MapCallback(input[e[2]])
<1>1. /\ at[e] = "read" /\ adapter = "litellm" /\ DOMAIN at = Events /\ DOMAIN result = Events
      /\ UNCHANGED <<adapter, input, trackers, consumed>>
      /\ result' = [result EXCEPT ![e] = found]
  BY DEF Map, HandoffInv, TypeInv, RecordInv
<1>2. PICK p : Goes(e, p) /\ p \notin {"new", "read"}
  <2>1. found.kind \in Kinds
    BY CallbackKinds
  <2> DEFINE p == IF found.kind = "ready" THEN "bound" ELSE found.kind
  <2>2. Goes(e, p)
    BY DEF Map
  <2>3. p \notin {"new", "read"}
    BY <2>1 DEF Kinds
  <2> QED
    BY <2>2, <2>3
<1>3. /\ at'[e] = p /\ result'[e] = found
      /\ \A x \in Events : x # e => at'[x] = at[x] /\ result'[x] = result[x]
      /\ DOMAIN result' = Events
  BY <1>1, <1>2 DEF Goes
<1>4. e[1] = "callback" => e[2] \in DOMAIN input
  BY <1>1 DEF RecordInv
<1> HIDE DEF found
<1>5. ASSUME NEW x \in Events
      PROVE  /\ x[1] = "end" /\ at'[x] = "read" => at'[<<"start", x[2]>>] # "new"
             /\ x[1] = "callback" /\ at'[x] = "read" => x[2] \in DOMAIN input
             /\ x[1] = "callback" /\ result'[x] # None =>
                  x[2] \in DOMAIN input /\ result'[x] = MapCallback(input[x[2]])
  <2>1. x[1] = "end" => <<"start", x[2]>> \in Events
    BY EventIs
  <2>2. CASE x = e
    BY <1>2, <1>3, <1>4, <2>2 DEF found
  <2>3. CASE x # e
    <3>1. at'[x] = at[x] /\ result'[x] = result[x]
      BY <1>3, <2>3
    <3>2. x[1] = "end" /\ at[x] = "read" => at'[<<"start", x[2]>>] # "new"
      BY <1>2, <1>3, <2>1 DEF RecordInv
    <3> QED
      BY <3>1, <3>2 DEF RecordInv
  <2> QED
    BY <2>2, <2>3
<1> QED
  BY <1>1, <1>3, <1>5 DEF RecordInv, Activations

LEMMA CloseKeeps ==
  ASSUME HandoffInv, RecordInv, Close
  PROVE  RecordInv'
<1>1. UNCHANGED <<adapter, input, at, of, result>>
  BY DEF Close
<1>2. CASE UNCHANGED <<trackers, consumed>>
  <2>1. \A x \in Events : at'[x] \in {"new", "read"} => at'[x] = at[x]
    BY <1>1
  <2> QED
    BY <1>1, <1>2, <2>1, QuietStep
<1>3. CASE adapter = "relay" /\ active # 0
  <2>1. /\ trackers' = [trackers EXCEPT ![active] = NoScopes]
        /\ consumed' = [consumed EXCEPT ![active] = <<>>]
    BY <1>3 DEF Close
  <2>2. /\ DOMAIN trackers = Activations /\ DOMAIN consumed = Activations
        /\ \A b \in Activations : TakenInv(b)
    BY <1>3 DEF RecordInv
  <2>3. \A b \in Activations : TakenInv(b)'
    <3> TAKE b \in Activations
    <3>1. CASE b = active
      <4>1. trackers'[b] = NoScopes /\ consumed'[b] = <<>>
        BY <2>1, <2>2, <3>1
      <4>2. History(input, consumed'[b]) /\ TrackerOK(input, consumed'[b], trackers'[b])
        BY <4>1, EmptyHistory
      <4>3. 1..Len(consumed'[b]) = {}
        BY <4>1
      <4> QED
        BY <1>1, <4>2, <4>3 DEF TakenInv
    <3>2. CASE b # active
      <4>1. trackers'[b] = trackers[b] /\ consumed'[b] = consumed[b]
        BY <2>1, <2>2, <3>2
      <4> QED
        BY <1>1, <2>2, <4>1 DEF TakenInv
    <3> QED
      BY <3>1, <3>2
  <2>4. DOMAIN trackers' = Activations /\ DOMAIN consumed' = Activations
    BY <2>1, <2>2
  <2> QED
    BY <1>1, <1>3, <2>3, <2>4 DEF RecordInv, Activations
<1> QED
  BY <1>2, <1>3 DEF Close

LEMMA RecordInit == Init => RecordInv
<1> SUFFICES ASSUME Init PROVE RecordInv
  OBVIOUS
<1>1. \A a \in Activations : consumed[a] = <<>> /\ trackers[a] = NoScopes
  BY DEF Init
<1>2. \A a \in Activations : TakenInv(a)
  <2> TAKE a \in Activations
  <2>1. History(input, consumed[a]) /\ TrackerOK(input, consumed[a], trackers[a])
    BY <1>1, EmptyHistory
  <2>2. 1..Len(consumed[a]) = {}
    BY <1>1
  <2> QED
    BY <2>1, <2>2 DEF TakenInv
<1>3. \A e \in Events : at[e] = "new" /\ result[e] = None
  BY DEF Init
<1>4. /\ adapter \in {"relay", "litellm"} /\ (adapter = "litellm" => input \in Calls)
      /\ DOMAIN trackers = Activations /\ DOMAIN consumed = Activations /\ DOMAIN result = Events
  BY DEF Init
<1> QED
  BY <1>1, <1>2, <1>3, <1>4 DEF RecordInv

(* The steps that hand over what was mapped. *)
LEMMA BridgeQuiet ==
  ASSUME HandoffInv, RecordInv, NEW e \in Events, Binds(e) \/ Claim(e) \/ Schedule(e)
  PROVE  RecordInv'
<1>1. UNCHANGED <<adapter, input, trackers, result, consumed>> /\ DOMAIN at = Events
  BY DEF Binds, Claim, Schedule, HandoffInv, TypeInv
<1>2. \E p : Goes(e, p) /\ p \notin {"new", "read"}
  <2>1. CASE Binds(e)
    BY <2>1 DEF Binds
  <2>2. CASE Claim(e)
    BY <2>2 DEF Claim
  <2>3. CASE Schedule(e)
    BY <2>3 DEF Schedule
  <2> QED
    BY <2>1, <2>2, <2>3
<1>3. \A x \in Events : at'[x] \in {"new", "read"} => at'[x] = at[x]
  BY <1>1, <1>2 DEF Goes
<1> QED
  BY <1>1, <1>3, QuietStep

LEMMA LoopQuiet ==
  ASSUME HandoffInv, RecordInv, LoopCloses \/ RunHandoff
  PROVE  RecordInv'
<1>1. UNCHANGED <<adapter, input, trackers, result, consumed>> /\ DOMAIN at = Events
  BY DEF LoopCloses, RunHandoff, pluginVars, HandoffInv, TypeInv
<1>2. \A x \in Events : at'[x] \in {"new", "read"} => at'[x] = at[x]
  <2>1. CASE LoopCloses
    BY <2>1 DEF LoopCloses
  <2>2. CASE RunHandoff
    <3>1. at' = [at EXCEPT ![Head(ready)] = "recorded"]
      BY <2>2 DEF RunHandoff, Goes
    <3> QED
      BY <1>1, <3>1
  <2> QED
    BY <2>1, <2>2
<1> QED
  BY <1>1, <1>2, QuietStep

LEMMA StillQuiet ==
  ASSUME HandoffInv, RecordInv,
         UNCHANGED vars \/ Register \/ \E d \in Drains : Drain(d) \/ DrainTimesOut(d) \/ DrainResumes(d)
  PROVE  RecordInv'
<1>1. UNCHANGED <<adapter, input, trackers, result, consumed, at>>
  BY DEF vars, Register, Drain, DrainTimesOut, DrainResumes, eventVars
<1>2. \A x \in Events : at'[x] \in {"new", "read"} => at'[x] = at[x]
  BY <1>1
<1> QED
  BY <1>1, <1>2, QuietStep

LEMMA RecordStep == HandoffInv /\ RecordInv /\ [Next]_vars => RecordInv'
<1> SUFFICES ASSUME HandoffInv, RecordInv, [Next]_vars PROVE RecordInv'
  OBVIOUS
<1>1. CASE \E e \in Events : ThreadStep(e)
  <2>1. PICK e \in Events : ThreadStep(e)
    BY <1>1
  <2> QED
    BY <2>1, ArrivesQuiet, ConsumeStartKeeps, ConsumeEndKeeps, MapKeeps, BridgeQuiet DEF ThreadStep
<1>2. CASE Close
  BY <1>2, CloseKeeps
<1>3. CASE LoopCloses \/ RunHandoff
  BY <1>3, LoopQuiet
<1>4. CASE UNCHANGED vars \/ Register \/ \E d \in Drains : Drain(d) \/ DrainTimesOut(d) \/ DrainResumes(d)
  BY <1>4, StillQuiet
<1> QED
  BY <1>1, <1>2, <1>3, <1>4 DEF Next

(* ScopeTracker and map_callback bill nobody wrongly and leave nothing out in *)
(* silence: a record of a Relay scope is for whoever pays for the nearest     *)
(* scope above it that names a payer, in the run of that scope, unless the    *)
(* tracker has lost that scope; a record of a LiteLLM call is for the account *)
(* its request named and of a call that was charged; and cached tokens are    *)
(* billed once.  So for every agent run that sends events Relay may send,     *)
(* every order of them on the threads, every limit of the tracker and every   *)
(* close() and register() in between.                                         *)
THEOREM RecordsBilledTrue == Spec => []RecordsTrue
<1>1. HandoffInv /\ RecordInv => RecordsTrue
  <2> SUFFICES ASSUME HandoffInv, RecordInv PROVE RecordsTrue
    OBVIOUS
  <2>1. ASSUME NEW a \in Activations, NEW e \in Range(consumed[a]), e[1] = "end"
        PROVE  RelayRecordTrue(input, consumed[a], e[2], result[e])
    <3>1. PICK j \in DOMAIN consumed[a] : consumed[a][j] = e
      BY DEF Range
    <3>2. adapter = "relay"
      <4>1. adapter = "litellm" => DOMAIN consumed[a] = {}
        BY DEF RecordInv
      <4> QED
        BY <3>1, <4>1 DEF RecordInv
    <3>3. TakenInv(a)
      BY <3>2 DEF RecordInv
    <3>4. j \in 1..Len(consumed[a])
      BY <3>3, HistoryIs DEF TakenInv
    <3> QED
      BY <2>1, <3>1, <3>3, <3>4 DEF TakenInv
  <2>2. ASSUME NEW e \in Events, e[1] = "callback", result[e] # None
        PROVE  LiteLLMRecordTrue(result[e], input[e[2]])
    <3>1. adapter = "litellm" /\ e[2] \in DOMAIN input /\ result[e] = MapCallback(input[e[2]])
          /\ input \in Calls
      BY <2>2 DEF RecordInv
    <3>2. IsCall(input[e[2]])
      BY <3>1, HandoffOptions
    <3> QED
      BY <3>1, <3>2, CallbackRecord
  <2> QED
    BY <2>1, <2>2 DEF RecordsTrue
<1>2. Spec => []RecordInv
  BY RecordInit, RecordStep, HandoffInvariant, PTL DEF Spec
<1> QED
  BY <1>1, <1>2, HandoffInvariant, PTL
=============================================================================
