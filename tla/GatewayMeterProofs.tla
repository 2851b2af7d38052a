-------------------------- MODULE GatewayMeterProofs --------------------------
(* The metered call, proved for every nesting of withAudr scopes, every budget  *)
(* of the lookup, every length of a stream and every answer of the gateway.     *)
EXTENDS GatewayMeter, FiniteSetTheorems, TLAPS

(* m is the greatest element of S. *)
Top(S, m) == m \in S /\ \A x \in S : x <= m

(* The parent span of the innermost run of h, whose last scope is h[m]. *)
ParentKept(h, m, parent) ==
  \/ Parented(h) = {} /\ parent = None
  \/ \E p \in Parented(h) : Top(Parented(h), p) /\ parent = h[p].run.parent

(* s is what the scopes of h come to: each field from the innermost scope that *)
(* sets it, the run from the innermost one that names a run.                   *)
FieldsKept(h, s) ==
  /\ DOMAIN s.attribution = DOMAIN setup.defaults
  /\ \A f \in DOMAIN setup.defaults :
       \/ Naming(h, f) = {} /\ s.attribution[f] = None
       \/ \E m \in Naming(h, f) : Top(Naming(h, f), m) /\ s.attribution[f] = h[m].attribution[f]

RunKept(h, run) ==
  \/ Running(h) = {} /\ run = None
  \/ /\ run \in Runs
     /\ \E m \in Running(h) : /\ Top(Running(h), m) /\ run.id = h[m].run.id
                              /\ ParentKept(h, m, run.parent)

SumsUp(h, s) == FieldsKept(h, s) /\ RunKept(h, s.run)
-----------------------------------------------------------------------------
LEMMA MaxIsTop ==
  ASSUME NEW S \in SUBSET Nat, NEW m, Top(S, m)
  PROVE Max(S) = m
<1>1. m \in S /\ \A x \in S : m >= x
  BY DEF Top
<1>2. Max(S) \in S /\ \A x \in S : Max(S) >= x
  BY <1>1 DEF Max
<1>3. Max(S) >= m /\ m >= Max(S) /\ m \in Nat /\ Max(S) \in Nat
  BY <1>1, <1>2
<1> QED BY <1>3

LEMMA ScopesNat ==
  ASSUME NEW h \in Seq(Contexts)
  PROVE /\ \A f : Naming(h, f) \in SUBSET Nat
        /\ Running(h) \in SUBSET Nat /\ Parented(h) \in SUBSET Nat
BY DEF Naming, Running, Parented

(* The innermost scope of h is c. *)
LEMMA FieldsNest ==
  ASSUME NEW h \in Seq(Contexts), NEW c \in Contexts, NEW s, FieldsKept(h, s)
  PROVE FieldsKept(Append(h, c), Nest(s, c))
<1> DEFINE n == Len(h) + 1
           g == Append(h, c)
<1>1. /\ DOMAIN g = DOMAIN h \cup {n} /\ g[n] = c /\ n \in Nat /\ n \notin DOMAIN h
      /\ \A i \in DOMAIN h : g[i] = h[i] /\ i < n /\ i \in Nat
  OBVIOUS
<1>d. DOMAIN s.attribution = DOMAIN setup.defaults
  BY DEF FieldsKept
<1>2. CASE ~c.readable
  <2>1. Nest(s, c) = s
    BY <1>2 DEF Nest
  <2>2. ASSUME NEW f \in DOMAIN setup.defaults
        PROVE Naming(g, f) = Naming(h, f)
    BY <1>2, <1>1 DEF Naming
  <2>3. ASSUME NEW f \in DOMAIN setup.defaults, NEW m \in Naming(h, f)
        PROVE g[m] = h[m]
    BY <1>1 DEF Naming
  <2>4. FieldsKept(g, s)
    <3> HIDE DEF g
    <3> QED BY <2>2, <2>3 DEF FieldsKept
  <2> QED BY <2>1, <2>4
<1>3. CASE c.readable
  <2>1. Nest(s, c).attribution = MergeAttribution(s.attribution, c.attribution)
    BY <1>3 DEF Nest
  <2>2. ASSUME NEW f \in DOMAIN setup.defaults
        PROVE \/ Naming(g, f) = {} /\ Nest(s, c).attribution[f] = None
              \/ \E m \in Naming(g, f) :
                   Top(Naming(g, f), m) /\ Nest(s, c).attribution[f] = g[m].attribution[f]
    <3>0. Nest(s, c).attribution[f] = IF c.attribution[f] = None THEN s.attribution[f]
                                      ELSE c.attribution[f]
      BY <2>1, <1>d DEF MergeAttribution, Or
    <3>1. CASE c.attribution[f] # None
      <4>1. n \in Naming(g, f)
        BY <1>3, <3>1, <1>1 DEF Naming
      <4>2. Top(Naming(g, f), n)
        BY <4>1, <1>1 DEF Naming, Top
      <4> QED BY <3>0, <3>1, <4>1, <4>2, <1>1
    <3>2. CASE c.attribution[f] = None
      <4>1. Naming(g, f) = Naming(h, f)
        BY <3>2, <1>1 DEF Naming
      <4>3. \A m \in Naming(h, f) : g[m] = h[m]
        BY <1>1 DEF Naming
      <4> HIDE DEF g
      <4> QED BY <3>0, <3>2, <4>1, <4>3 DEF FieldsKept
    <3> QED BY <3>1, <3>2
  <2>3. DOMAIN Nest(s, c).attribution = DOMAIN setup.defaults
    BY <2>1, <1>d DEF MergeAttribution
  <2> QED BY <2>2, <2>3 DEF FieldsKept
<1> QED BY <1>2, <1>3

(* A scope that names no run, or cannot be read, leaves the run as it is. *)
LEMMA RunStays ==
  ASSUME NEW h \in Seq(Contexts), NEW c \in Contexts, ~c.readable \/ c.run = None,
         NEW run, RunKept(h, run)
  PROVE RunKept(Append(h, c), run)
<1> DEFINE n == Len(h) + 1
           g == Append(h, c)
<1>1. /\ DOMAIN g = DOMAIN h \cup {n} /\ g[n] = c /\ n \notin DOMAIN h
      /\ \A i \in DOMAIN h : g[i] = h[i]
  OBVIOUS
<1>2. Running(g) = Running(h)
  BY <1>1 DEF Running
<1>3. \A i \in Running(h) : g[i] = h[i]
  BY <1>1 DEF Running
<1> HIDE DEF g
<1>4. ASSUME NEW m \in Running(h), Top(Running(h), m)
      PROVE Parented(g) = Parented(h)
  <2>1. Max(Running(h)) = m
    BY <1>4, ScopesNat, MaxIsTop
  <2>2. Parented(h) = {i \in Running(h) : /\ h[i].run.parent # None
                                          /\ \A j \in Running(h) :
                                               j >= i => h[j].run.id = h[m].run.id}
    BY <2>1 DEF Parented
  <2>3. Parented(g) = {i \in Running(h) : /\ g[i].run.parent # None
                                          /\ \A j \in Running(h) :
                                               j >= i => g[j].run.id = g[m].run.id}
    BY <2>1, <1>2 DEF Parented
  <2> QED BY <2>2, <2>3, <1>3
<1>5. ASSUME Running(h) = {}, run = None
      PROVE RunKept(g, run)
  BY <1>5, <1>2 DEF RunKept
<1>6. ASSUME run \in Runs, NEW m \in Running(h), Top(Running(h), m), run.id = h[m].run.id,
             ParentKept(h, m, run.parent)
      PROVE RunKept(g, run)
  <2>1. Parented(g) = Parented(h)
    BY <1>4, <1>6
  <2>2. \A p \in Parented(h) : g[p] = h[p]
    BY <1>3 DEF Parented
  <2>3. ParentKept(g, m, run.parent)
    BY <2>1, <2>2, <1>6 DEF ParentKept
  <2> QED BY <2>3, <1>2, <1>3, <1>6 DEF RunKept
<1>k. \/ Running(h) = {} /\ run = None
      \/ /\ run \in Runs
         /\ \E m \in Running(h) : /\ Top(Running(h), m) /\ run.id = h[m].run.id
                                  /\ ParentKept(h, m, run.parent)
  BY DEF RunKept
<1>7. RunKept(g, run)
  BY <1>5, <1>6, <1>k
<1> QED BY <1>7 DEF g

LEMMA RunNests ==
  ASSUME NEW h \in Seq(Contexts), NEW c \in Contexts, c.readable, c.run # None,
         NEW run, RunKept(h, run)
  PROVE RunKept(Append(h, c), NestRun(run, c.run))
<1> DEFINE n == Len(h) + 1
           g == Append(h, c)
           nested == NestRun(run, c.run)
<1>1. /\ DOMAIN g = DOMAIN h \cup {n} /\ g[n] = c /\ n \in Nat /\ n \notin DOMAIN h
      /\ \A i \in DOMAIN h : g[i] = h[i] /\ i < n /\ i \in Nat
  OBVIOUS
<1>2. Running(g) = Running(h) \cup {n}
  BY <1>1 DEF Running
<1>3. /\ \A i \in Running(h) : g[i] = h[i] /\ i < n /\ i \in Nat
      /\ n \notin Running(h)
  BY <1>1 DEF Running
<1>g. g \in Seq(Contexts)
  OBVIOUS
<1>n. n \in Nat /\ g[n] = c
  BY <1>1
<1> HIDE DEF g, n
<1>4. Top(Running(g), n)
  BY <1>2, <1>3, <1>n DEF Top
<1>5. Max(Running(g)) = n
  BY <1>4, <1>g, ScopesNat, MaxIsTop
<1>6. c.run \in Runs /\ c \in Named
  BY Scopes DEF Named
<1>7. Parented(g) = {i \in Running(g) : /\ g[i].run.parent # None
                                        /\ \A j \in Running(g) : j >= i => g[j].run.id = c.run.id}
  BY <1>5, <1>n DEF Parented
<1>8. nested = [c.run EXCEPT !.parent =
                  IF c.run.parent # None THEN c.run.parent
                  ELSE IF run # None /\ run.id = c.run.id THEN run.parent ELSE None]
  BY DEF NestRun, Or
<1>9. run # None => run \in Runs
  BY DEF RunKept
<1>10. nested \in Runs /\ nested.id = c.run.id
  BY <1>6, <1>8, <1>9 DEF Runs
<1>11. nested.parent = IF c.run.parent # None THEN c.run.parent
                       ELSE IF run # None /\ run.id = c.run.id THEN run.parent ELSE None
  BY <1>6, <1>8 DEF Runs
<1> HIDE DEF nested
<1>12. ParentKept(g, n, nested.parent)
  <2>1. CASE c.run.parent # None
    <3>1. n \in Parented(g)
      <4>1. n \in Running(g)
        BY <1>2
      <4>2. \A j \in Running(g) : j >= n => j = n
        BY <1>2, <1>3, <1>n
      <4> QED BY <4>1, <4>2, <1>7, <1>n, <2>1
    <3>2. Top(Parented(g), n)
      BY <3>1, <1>4, <1>7 DEF Top
    <3> QED BY <3>1, <3>2, <1>11, <1>n, <2>1 DEF ParentKept
  <2>2. CASE c.run.parent = None /\ ~(run # None /\ run.id = c.run.id)
    <3>1. Parented(g) = {}
      <4> SUFFICES ASSUME NEW i \in Parented(g) PROVE FALSE
        OBVIOUS
      <4>1. /\ i \in Running(g) /\ g[i].run.parent # None
            /\ \A j \in Running(g) : j >= i => g[j].run.id = c.run.id
        BY <1>7
      <4>2. i \in Running(h)
        BY <4>1, <1>2, <1>n, <2>2
      <4>3. PICK m \in Running(h) : Top(Running(h), m) /\ run.id = h[m].run.id /\ run # None
        BY <4>2, Scopes DEF RunKept
      <4>4. m \in Running(g) /\ m >= i /\ g[m] = h[m]
        BY <4>2, <4>3, <1>2, <1>3 DEF Top
      <4> QED BY <4>1, <4>3, <4>4, <2>2
    <3> QED BY <3>1, <1>11, <2>2 DEF ParentKept
  <2>3. CASE c.run.parent = None /\ run # None /\ run.id = c.run.id
    <3>1. PICK m \in Running(h) : /\ Top(Running(h), m) /\ run.id = h[m].run.id
                                  /\ ParentKept(h, m, run.parent)
      BY <2>3 DEF RunKept
    <3>2. Max(Running(h)) = m
      BY <3>1, ScopesNat, MaxIsTop
    <3>3. Parented(h) = {i \in Running(h) : /\ h[i].run.parent # None
                                            /\ \A j \in Running(h) : j >= i => h[j].run.id = c.run.id}
      BY <3>1, <3>2, <2>3 DEF Parented
    <3>4. Parented(g) = Parented(h)
      <4>1. ASSUME NEW i \in Parented(g)
            PROVE i \in Parented(h)
        <5>1. i # n
          BY <4>1, <1>7, <1>n, <2>3
        <5>2. i \in Running(h)
          BY <4>1, <1>7, <1>2, <5>1
        <5>3. \A j \in Running(h) : j >= i => h[j].run.id = c.run.id
          BY <4>1, <1>7, <1>2, <1>3
        <5>4. h[i].run.parent # None
          BY <4>1, <1>7, <5>2, <1>3
        <5> QED BY <5>2, <5>3, <5>4, <3>3
      <4>2. ASSUME NEW i \in Parented(h)
            PROVE i \in Parented(g)
        <5>1. i \in Running(h) /\ i \in Running(g) /\ g[i] = h[i]
          BY <3>3, <1>2, <1>3
        <5>2. \A j \in Running(g) : j >= i => g[j].run.id = c.run.id
          BY <3>3, <1>2, <1>3, <1>n
        <5> QED BY <5>1, <5>2, <3>3, <1>7
      <4> QED BY <4>1, <4>2
    <3>5. \A p \in Parented(h) : g[p] = h[p]
      BY <3>3, <1>3
    <3> QED BY <3>1, <3>4, <3>5, <1>11, <2>3 DEF ParentKept
  <2> QED BY <2>1, <2>2, <2>3
<1>13. RunKept(g, nested)
  <2>1. nested.id = g[n].run.id /\ n \in Running(g)
    BY <1>10, <1>n, <1>2
  <2> QED BY <2>1, <1>4, <1>10, <1>12 DEF RunKept
<1> QED BY <1>13 DEF g, nested

(* Nesting one more scope keeps the sum right. *)
LEMMA NestSumsUp ==
  ASSUME NEW h \in Seq(Contexts), NEW c \in Contexts, NEW s, SumsUp(h, s)
  PROVE SumsUp(Append(h, c), Nest(s, c))
<1>1. FieldsKept(Append(h, c), Nest(s, c))
  BY FieldsNest DEF SumsUp
<1>2. CASE ~c.readable
  <2>1. Nest(s, c).run = s.run
    BY <1>2 DEF Nest
  <2> QED BY <1>1, <1>2, <2>1, RunStays DEF SumsUp
<1>3. CASE c.readable
  <2>1. Nest(s, c).run = NestRun(s.run, c.run)
    BY <1>3 DEF Nest
  <2>2. CASE c.run = None
    <3>1. NestRun(s.run, c.run) = s.run
      BY <2>2 DEF NestRun
    <3> QED BY <1>1, <2>1, <2>2, <3>1, RunStays DEF SumsUp
  <2>3. CASE c.run # None
    BY <1>1, <1>3, <2>1, <2>3, RunNests DEF SumsUp
  <2> QED BY <2>2, <2>3
<1> QED BY <1>2, <1>3

(* The run of a sum is the run that the scopes give their calls. *)
LEMMA RunOfSum ==
  ASSUME NEW h \in Seq(Contexts), NEW run, RunKept(h, run), Running(h) # {}
  PROVE run # None /\ run = StarterRun(h)
<1>1. PICK m \in Running(h) : /\ Top(Running(h), m) /\ run.id = h[m].run.id
                              /\ ParentKept(h, m, run.parent)
  BY DEF RunKept
<1>2. run \in Runs
  BY DEF RunKept
<1>3. run # None /\ run = [id |-> run.id, parent |-> run.parent]
  BY <1>2, Scopes DEF Runs
<1>4. Max(Running(h)) = m
  BY <1>1, ScopesNat, MaxIsTop
<1>5. run.parent = IF Parented(h) = {} THEN None ELSE h[Max(Parented(h))].run.parent
  <2>1. CASE Parented(h) = {}
    BY <1>1, <2>1 DEF ParentKept
  <2>2. CASE Parented(h) # {}
    <3>1. PICK p \in Parented(h) : Top(Parented(h), p) /\ run.parent = h[p].run.parent
      BY <1>1, <2>2 DEF ParentKept
    <3>2. Max(Parented(h)) = p
      BY <3>1, ScopesNat, MaxIsTop
    <3> QED BY <3>1, <3>2, <2>2
  <2> QED BY <2>1, <2>2
<1> QED BY <1>1, <1>3, <1>4, <1>5 DEF StarterRun

(* A field of a sum is the innermost one that is set. *)
LEMMA FieldOfSum ==
  ASSUME NEW h \in Seq(Contexts), NEW s, FieldsKept(h, s), NEW f \in DOMAIN setup.defaults
  PROVE MergeAttribution(setup.defaults, s.attribution)[f] =
          IF Naming(h, f) = {} THEN setup.defaults[f] ELSE h[Max(Naming(h, f))].attribution[f]
<1>0. MergeAttribution(setup.defaults, s.attribution)[f] =
        IF s.attribution[f] = None THEN setup.defaults[f] ELSE s.attribution[f]
  BY DEF MergeAttribution, Or
<1>1. CASE Naming(h, f) = {}
  BY <1>0, <1>1 DEF FieldsKept
<1>2. CASE Naming(h, f) # {}
  <2>1. PICK m \in Naming(h, f) : Top(Naming(h, f), m) /\ s.attribution[f] = h[m].attribution[f]
    BY <1>2 DEF FieldsKept
  <2>2. Max(Naming(h, f)) = m
    BY <2>1, ScopesNat, MaxIsTop
  <2>3. h[m].attribution[f] # None
    BY <2>1 DEF Naming
  <2> QED BY <1>0, <1>2, <2>1, <2>2, <2>3
<1> QED BY <1>1, <1>2
-----------------------------------------------------------------------------
(* What a record says. *)

(* The payer and the run of a record are those of the scopes its call began in. *)
Bills(attribution, run) ==
  /\ \A f \in DOMAIN setup.defaults :
       attribution[f] = IF Naming(began, f) = {} THEN setup.defaults[f]
                        ELSE began[Max(Naming(began, f))].attribution[f]
  /\ Running(began) # {} => run = StarterRun(began)

(* Its cost is the whole cost or left out, its counters are no more than the prompt. *)
FullCost ==
  IF setup.adapter = "openrouter" /\ truth.isByok = "yes" THEN Charge + Upstream ELSE Charge

Counted(usage) ==
  Zero(usage.input) + Zero(usage.cacheRead) + Zero(usage.cacheWrite) <= Prompt

Fresh(usage) == Zero(usage.input) <= Prompt - truth.cacheRead

Sound(r) ==
  /\ Bills(r.attribution, r.run)
  /\ r.cost \in {None, FullCost} /\ Counted(r.usage)
  /\ setup.adapter = "merge" /\ call.family = "responses" => Fresh(r.usage)

(* What is observed of a call that OpenRouter served is so. *)
TrueOf(o) ==
  /\ o.charge \in {None, Charge} /\ o.upstream \in {None, Upstream}
  /\ o.isByok \in {None, truth.isByok} /\ Counted(o.usage)

TruthInv ==
  /\ setup.adapter \in {"openrouter", "merge"}
  /\ truth.isByok \in {"yes", "no"} /\ truth.cacheRead \in {0, CacheRead}

CallInv ==
  call # None =>
    /\ Bills(call.attribution, call.run)
    /\ Running(began) # {} => call.run # None

(* What follows when a record was tried. *)
Excuses == {"HOOK_FAILED", "MODEL_UNREPORTED", "RECORD_NOT_QUEUED"}

Tried ==
  /\ diags \subseteq diags'
  /\ \/ log' = log /\ diags' \cap Excuses # {}
     \/ \E r : log' = Append(log, r) /\ Sound(r)

LEMMA Numbers ==
  /\ Charge \in Nat /\ Upstream \in Nat /\ Prompt \in Nat /\ CacheRead \in Nat
  /\ CacheRead <= Prompt
BY Answers

LEMMA BodyFacts ==
  ASSUME NEW b \in Bodies
  PROVE /\ b.cost \in Says(Charge) /\ b.upstream \in Says(Upstream) /\ b.prompt \in Says(Prompt)
        /\ \E written \in 0..(Prompt - CacheRead) : b.cacheWrite \in Says(written)
BY Answers DEF IsBody

LEMMA HandTries ==
  ASSUME NEW r, NEW codes, Sound(r), Hand(r, codes)
  PROVE Tried
BY DEF Hand, Tried, Excuses

LEMMA AuditSound ==
  ASSUME CallInv, call # None, NEW provider, NEW cost \in {None, FullCost}, NEW usage, Counted(usage),
         NEW errorCode, NEW id,
         setup.adapter = "merge" /\ call.family = "responses" => Fresh(usage)
  PROVE Sound(AuditRecord(provider, cost, usage, errorCode, id))
<1> DEFINE r == AuditRecord(provider, cost, usage, errorCode, id)
<1>1. /\ r.attribution = call.attribution /\ r.run = RunOf(id) /\ r.cost = cost /\ r.usage = usage
  BY DEF AuditRecord
<1>2. Running(began) # {} => RunOf(id) = call.run
  BY DEF CallInv, RunOf
<1>3. Bills(r.attribution, r.run)
  BY <1>1, <1>2 DEF CallInv, Bills
<1> HIDE DEF r
<1>4. Sound(r)
  BY <1>1, <1>3 DEF Sound
<1> QED BY <1>4 DEF r

(* The cost of a record is the whole cost, whoever supplied its parts. *)
LEMMA SettledCost ==
  ASSUME TruthInv, setup.adapter = "openrouter",
         NEW charge \in {None, Charge}, NEW byok \in {None, truth.isByok},
         NEW upstream \in {None, Upstream}
  PROVE ResolveCost(charge, byok, upstream).cost \in {None, FullCost}
BY DEF TruthInv, ResolveCost, FullCost

LEMMA RecordTries ==
  ASSUME TruthInv, CallInv, call # None, setup.adapter = "openrouter",
         NEW o, TrueOf(o), NEW facts, NEW codes,
         facts # None => facts \in FactSets /\ facts.isByok \in {None, truth.isByok},
         Record(o, facts, codes)
  PROVE Tried
<1> DEFINE byok == Or(o.isByok, IF facts = None THEN None ELSE facts.isByok)
           upstream == Or(o.upstream, IF facts = None THEN None ELSE facts.upstream)
           settled == ResolveCost(o.charge, byok, upstream)
<1>1. byok \in {None, truth.isByok}
  BY DEF TrueOf, Or
<1>2. upstream \in {None, Upstream}
  BY Answers DEF TrueOf, Or, IsFacts
<1>3. settled.cost \in {None, FullCost}
  BY <1>1, <1>2, SettledCost DEF TrueOf
<1>4. "merge" # "openrouter"
  OBVIOUS
<1> HIDE DEF settled
<1>5. \/ log' = log /\ diags' = diags \cup codes \cup {"HOOK_FAILED"}
      \/ log' = log /\ diags' = diags \cup codes \cup {"MODEL_UNREPORTED"}
      \/ \E provider, all :
           Hand(AuditRecord(provider, settled.cost, o.usage, o.errorCode, o.id), codes \cup all)
  BY DEF Record, settled
<1>6. ASSUME NEW provider, NEW all,
             Hand(AuditRecord(provider, settled.cost, o.usage, o.errorCode, o.id), all)
      PROVE Tried
  <2>1. Sound(AuditRecord(provider, settled.cost, o.usage, o.errorCode, o.id))
    BY <1>3, <1>4, AuditSound DEF TrueOf
  <2> QED BY <1>6, <2>1, HandTries
<1> QED BY <1>5, <1>6 DEF Tried, Excuses
-----------------------------------------------------------------------------
(* What is read of a result is so. *)

(* Cached tokens leave the input, and nothing is counted twice. *)
LEMMA CountersCounted ==
  ASSUME TruthInv, NEW b \in Bodies, b.cacheRead \in {None, Null, truth.cacheRead}
  PROVE Counted(Counters(b))
<1>1. PICK written \in 0..(Prompt - CacheRead) : b.cacheWrite \in Says(written)
  BY BodyFacts
<1> DEFINE read == Zero(b.cacheRead)
           wrote == Zero(b.cacheWrite)
           input == Exclusive(b.prompt, read + wrote)
<1>2. written \in Nat /\ written <= Prompt - CacheRead
  BY <1>1, Numbers
<1>3. read \in Nat /\ read <= CacheRead
  BY Numbers DEF Zero, TruthInv
<1>4. wrote \in Nat /\ wrote <= Prompt - CacheRead
  BY <1>1, <1>2, Numbers DEF Zero, Says
<1>5. /\ Counters(b).input = input
      /\ Zero(Counters(b).cacheRead) = read /\ Zero(Counters(b).cacheWrite) = wrote
  BY DEF Counters, Num, Zero
<1>6. b.prompt \notin {None, Null} => b.prompt = Prompt
  BY BodyFacts DEF Says
<1> HIDE DEF read, wrote
<1>7. Zero(input) + read + wrote <= Prompt
  <2>1. CASE b.prompt \in {None, Null}
    <3>1. Zero(input) = 0
      BY <2>1 DEF Exclusive, Zero
    <3> QED BY <3>1, <1>3, <1>4, Numbers
  <2>2. CASE b.prompt \notin {None, Null}
    <3>1. input = IF Prompt > read + wrote THEN Prompt - (read + wrote) ELSE 0
      BY <2>2, <1>6 DEF Exclusive
    <3>2. Zero(input) \in {0, input}
      BY DEF Zero
    <3> HIDE DEF input
    <3>3. CASE Prompt > read + wrote
      BY <3>1, <3>2, <3>3, <1>3, <1>4, Numbers
    <3>4. CASE ~(Prompt > read + wrote)
      BY <3>1, <3>2, <3>4, <1>3, <1>4, Numbers
    <3> QED BY <3>3, <3>4
  <2> QED BY <2>1, <2>2
<1> QED BY <1>5, <1>7 DEF Counted

LEMMA EmbeddingsCounted ==
  ASSUME NEW b \in Bodies
  PROVE Counted([input |-> Num(b.prompt), cacheRead |-> None, cacheWrite |-> None])
<1>1. Zero(Num(b.prompt)) \in {0, Prompt} /\ Zero(None) = 0
  BY BodyFacts DEF Says, Zero, Num
<1> QED BY <1>1, Numbers DEF Counted

(* An unread usage counts nothing. *)
LEMMA NothingCounted ==
  Counted([input |-> None, cacheRead |-> None, cacheWrite |-> None])
<1>1. Zero(None) = 0
  BY DEF Zero
<1> QED BY <1>1, Numbers DEF Counted

(* Merge Gateway's input never holds cache reads that were not counted. *)
LEMMA ResponseCounted ==
  ASSUME TruthInv, NEW b \in Bodies, b.cacheRead \in {None, Null, truth.cacheRead},
         b.cacheRead = None => truth.cacheRead = 0
  PROVE Counted(ResponseUsage(b)) /\ Fresh(ResponseUsage(b))
<1>1. Counted(Counters(b))
  BY CountersCounted
<1>2. PICK written \in 0..(Prompt - CacheRead) : b.cacheWrite \in Says(written)
  BY BodyFacts
<1>w. written \in Nat /\ written <= Prompt - CacheRead
  BY <1>2, Numbers
<1>3. Zero(b.cacheWrite) \in Nat
  BY <1>2, <1>w DEF Zero, Says
<1>4. truth.cacheRead \in Nat /\ truth.cacheRead <= Prompt
  BY Numbers DEF TruthInv
<1>5. CASE b.cacheRead = Null
  <2>1. ResponseUsage(b) = [Counters(b) EXCEPT !.input = None]
    BY <1>5 DEF ResponseUsage
  <2>2. /\ ResponseUsage(b).input = None
        /\ ResponseUsage(b).cacheRead = Counters(b).cacheRead
        /\ ResponseUsage(b).cacheWrite = Counters(b).cacheWrite
    BY <2>1 DEF Counters
  <2>3. Zero(None) = 0
    BY DEF Zero
  <2>4. Zero(Counters(b).cacheRead) = 0
    BY <1>5 DEF Counters, Num, Zero
  <2>5. Zero(Counters(b).cacheWrite) \in Nat /\ Zero(Counters(b).cacheWrite) <= Prompt
    BY <1>2, <1>w, Numbers DEF Counters, Num, Zero, Says
  <2> QED BY <2>2, <2>3, <2>4, <2>5, <1>4, Numbers DEF Counted, Fresh
<1>6. CASE b.cacheRead # Null
  <2>1. ResponseUsage(b) = Counters(b)
    BY <1>6 DEF ResponseUsage
  <2> DEFINE read == Zero(b.cacheRead)
             wrote == Zero(b.cacheWrite)
             input == Exclusive(b.prompt, read + wrote)
  <2>2. read = truth.cacheRead
    BY <1>6 DEF Zero
  <2>3. Counters(b).input = input
    BY DEF Counters
  <2>4. b.prompt \notin {None, Null} => b.prompt = Prompt
    BY BodyFacts DEF Says
  <2>5. wrote \in Nat
    BY <1>3
  <2> HIDE DEF read, wrote
  <2>6. Zero(input) <= Prompt - truth.cacheRead
    <3>1. CASE b.prompt \in {None, Null}
      <4>1. Zero(input) = 0
        BY <3>1 DEF Exclusive, Zero
      <4> QED BY <4>1, <1>4, Numbers
    <3>2. CASE b.prompt \notin {None, Null}
      <4>1. input = IF Prompt > read + wrote THEN Prompt - (read + wrote) ELSE 0
        BY <3>2, <2>4 DEF Exclusive
      <4>2. Zero(input) \in {0, input}
        BY DEF Zero
      <4> HIDE DEF input
      <4>3. CASE Prompt > read + wrote
        BY <4>1, <4>2, <4>3, <2>2, <2>5, <1>4, Numbers
      <4>4. CASE ~(Prompt > read + wrote)
        BY <4>1, <4>2, <4>4, <1>4, Numbers
      <4> QED BY <4>3, <4>4
    <3> QED BY <3>1, <3>2
  <2> QED BY <1>1, <2>1, <2>3, <2>6 DEF Fresh
<1> QED BY <1>5, <1>6

(* What a router says of the key is so, and is kept for the chunks that follow. *)
RouterTrue(found) == found # None => found.isByok \in {None, truth.isByok}

LEMMA RouterRead ==
  ASSUME NEW b \in Bodies, b.metadata # None => b.metadata.isByok \in {None, truth.isByok},
         NEW fallback, RouterTrue(fallback)
  PROVE RouterTrue(ReadRouter(b.metadata)) /\ RouterTrue(Or(ReadRouter(b.metadata), fallback))
<1>1. RouterTrue(ReadRouter(b.metadata))
  <2>1. CASE b.metadata = None
    BY <2>1 DEF ReadRouter, RouterTrue
  <2>2. CASE b.metadata # None
    <3>1. ReadRouter(b.metadata).isByok = b.metadata.isByok
      BY <2>2 DEF ReadRouter
    <3> QED BY <3>1, <2>2 DEF RouterTrue
  <2> QED BY <2>1, <2>2
<1> QED BY <1>1 DEF Or, RouterTrue

LEMMA ObservationTrue ==
  ASSUME NEW b \in Bodies, b.isByok \in {None, truth.isByok}, NEW found, RouterTrue(found),
         NEW usage, Counted(usage), NEW errorCode
  PROVE TrueOf(Observation(b, found, usage, errorCode))
<1> DEFINE o == Observation(b, found, usage, errorCode)
<1>1. /\ o.charge = Num(b.cost) /\ o.upstream = Num(b.upstream) /\ o.usage = usage
      /\ o.isByok = Or(b.isByok, IF found = None THEN None ELSE found.isByok)
  BY DEF Observation, Economics
<1>2. Num(b.cost) \in {None, Charge} /\ Num(b.upstream) \in {None, Upstream}
  BY BodyFacts DEF Num, Says
<1>3. Or(b.isByok, IF found = None THEN None ELSE found.isByok) \in {None, truth.isByok}
  BY DEF Or, RouterTrue
<1> HIDE DEF o
<1>4. TrueOf(o)
  BY <1>1, <1>2, <1>3 DEF TrueOf
<1> QED BY <1>4 DEF o

LEMMA ObserveTrue ==
  ASSUME TruthInv, NEW b \in Bodies, Plausible(b), NEW fallback, RouterTrue(fallback), NEW errorCode
  PROVE /\ b.usage => TrueOf(ChatObservation(b, fallback, errorCode))
        /\ b.usage => TrueOf(ResponsesObservation(b, errorCode))
        /\ b.usage => TrueOf(EmbeddingsObservation(b))
<1>1. /\ b.isByok \in {None, truth.isByok} /\ b.cacheRead \in {None, Null, truth.cacheRead}
      /\ b.metadata # None => b.metadata.isByok \in {None, truth.isByok}
  BY DEF Plausible
<1>2. Counted(Counters(b))
  BY <1>1, CountersCounted
<1>3. RouterTrue(ReadRouter(b.metadata)) /\ RouterTrue(Or(ReadRouter(b.metadata), fallback))
  BY <1>1, RouterRead
<1>4. RouterTrue(None)
  BY DEF RouterTrue
<1>5. Counted([input |-> Num(b.prompt), cacheRead |-> None, cacheWrite |-> None])
  BY EmbeddingsCounted
<1>6. b.usage => TrueOf(ChatObservation(b, fallback, errorCode))
  BY <1>1, <1>2, <1>3, ObservationTrue DEF ChatObservation
<1>7. b.usage => TrueOf(ResponsesObservation(b, errorCode))
  BY <1>1, <1>2, <1>3, ObservationTrue DEF ResponsesObservation
<1>8. b.usage => TrueOf(EmbeddingsObservation(b))
  BY <1>1, <1>4, <1>5, ObservationTrue DEF EmbeddingsObservation
<1> QED BY <1>6, <1>7, <1>8

(* Merge Gateway's record. *)
LEMMA MergeTries ==
  ASSUME TruthInv, CallInv, call # None, setup.adapter = "merge", NEW b \in Bodies, Plausible(b),
         MergeRecord(b)
  PROVE Tried
<1> DEFINE usage == IF ~b.usage THEN [input |-> None, cacheRead |-> None, cacheWrite |-> None]
                    ELSE IF call.family = "responses" THEN ResponseUsage(b)
                    ELSE EmbeddingUsage(b)
           cost == IF b.usage THEN ToCost(b) ELSE None
<1>1. cost \in {None, FullCost}
  BY BodyFacts DEF ToCost, Num, Says, FullCost
<1>2. Counted(usage)
  BY ResponseCounted, EmbeddingsCounted, NothingCounted DEF EmbeddingUsage, Plausible
<1>3. call.family = "responses" => Fresh(usage)
  <2>1. Fresh([input |-> None, cacheRead |-> None, cacheWrite |-> None])
    BY Numbers DEF Fresh, Zero, TruthInv
  <2> QED BY <2>1, ResponseCounted DEF Plausible
<1> HIDE DEF usage, cost
<1>4. \/ log' = log /\ diags' = diags \cup {"HOOK_FAILED"}
      \/ log' = log /\ diags' = diags \cup {"MODEL_UNREPORTED"}
      \/ \E provider, errorCode : Hand(AuditRecord(provider, cost, usage, errorCode, b.id), {})
  BY DEF MergeRecord, usage, cost
<1>5. ASSUME NEW provider, NEW errorCode,
             Hand(AuditRecord(provider, cost, usage, errorCode, b.id), {})
      PROVE Tried
  <2>1. Sound(AuditRecord(provider, cost, usage, errorCode, b.id))
    BY <1>1, <1>2, <1>3, AuditSound
  <2> QED BY <1>5, <2>1, HandTries
<1> QED BY <1>4, <1>5 DEF Tried, Excuses
-----------------------------------------------------------------------------
(* The inductive invariant. *)

Told == log # <<>> \/ incomplete # <<>> \/ diags \cap Excuses # {}

HostInv == entered \in Seq(Contexts) /\ SumsUp(entered, scope)

PhaseInv ==
  /\ phase \in {"idle", "sent", "streaming", "recording", "over"}
  /\ open \in BOOLEAN /\ interrupted \in BOOLEAN
  /\ phase = "idle" => call = None
  /\ phase \in {"idle", "sent"} => log = <<>>
  /\ phase # "streaming" => incomplete = <<>> /\ open

(* A stream that is open has no verdict, and gets its second one only when it was cut *)
(* while its record waited for the lookup.                                            *)
VerdictInv ==
  /\ log = <<>> \/ log = <<log[1]>>
  /\ incomplete = <<>> \/ incomplete = <<incomplete[1]>>
  /\ phase = "streaming" /\ open => log = <<>> /\ incomplete = <<>>
  /\ log # <<>> /\ incomplete # <<>> => interrupted

WorkInv ==
  /\ work = [observed |-> work.observed, at |-> work.at, elapsed |-> work.elapsed,
             delay |-> work.delay]
  /\ work.at \in {"none", "request", "sleep"}
  /\ work.at # "none" =>
       /\ call # None /\ setup.adapter = "openrouter"
       /\ log = <<>> /\ TrueOf(work.observed)
       /\ \/ phase = "recording"
          \/ phase = "streaming" /\ reader = "inspecting" /\ (open \/ interrupted)

(* A sleep ends within the budget, if its timer is on time. *)
BudgetInv ==
  /\ work.at # "none" => work.elapsed \in Nat /\ work.delay \in Nat
  /\ work.at = "sleep" => MaxWait - work.elapsed > Wait(work.delay)
  /\ held \in Nat /\ LookupBounded

Logged == {log[i] : i \in DOMAIN log}

SoundInv == \A r \in Logged : Sound(r)

ToldInv == (~open => Told) /\ (seen => Told)

MeterInv ==
  /\ TruthInv /\ HostInv /\ CallInv /\ PhaseInv /\ VerdictInv /\ WorkInv /\ BudgetInv
  /\ SoundInv /\ ToldInv /\ RouterTrue(router)
-----------------------------------------------------------------------------
(* Kinds of steps. *)

(* What no step changes once the call is under way. *)
Given == UNCHANGED <<setup, truth, scope, entered, call, began>>

LEMMA GivenKept ==
  ASSUME MeterInv, Given
  PROVE /\ TruthInv' /\ HostInv' /\ CallInv'
        /\ \A r : Sound(r)' = Sound(r)
        /\ \A o : TrueOf(o)' = TrueOf(o)
<1>u. UNCHANGED <<setup, truth, scope, entered, call, began>>
  BY DEF Given
<1>1. TruthInv'
  BY <1>u DEF MeterInv, TruthInv
<1>2. HostInv'
  BY <1>u DEF MeterInv, HostInv, SumsUp, FieldsKept, RunKept, ParentKept
<1>3. CallInv'
  BY <1>u DEF MeterInv, CallInv, Bills
<1>4. \A r : Sound(r)' = Sound(r)
  BY <1>u DEF Sound, Bills, FullCost, Fresh, Counted
<1>5. \A o : TrueOf(o)' = TrueOf(o)
  BY <1>u DEF TrueOf, Counted
<1> QED BY <1>1, <1>2, <1>3, <1>4, <1>5

(* The reader moves, the host sees a frame, nothing is decided. *)
LEMMA QuietStep ==
  ASSUME MeterInv, Given,
         UNCHANGED <<phase, open, work, log, incomplete, held, interrupted>>,
         diags \subseteq diags', seen' => seen \/ ~open,
         work.at # "none" => reader' = reader, RouterTrue(router)'
  PROVE MeterInv'
<1>g. /\ TruthInv' /\ HostInv' /\ CallInv'
      /\ \A r : Sound(r)' = Sound(r)
      /\ \A o : TrueOf(o)' = TrueOf(o)
  BY GivenKept
<1>u. UNCHANGED <<setup, call>>
  BY DEF Given
<1>1. PhaseInv' /\ VerdictInv'
  BY <1>u DEF MeterInv, PhaseInv, VerdictInv
<1>2. WorkInv'
  BY <1>u, <1>g DEF MeterInv, WorkInv
<1>3. BudgetInv'
  BY DEF MeterInv, BudgetInv, LookupBounded
<1>4. SoundInv'
  BY <1>g DEF MeterInv, SoundInv, Logged
<1>5. ToldInv'
  BY DEF MeterInv, ToldInv, Told
<1> QED BY <1>g, <1>1, <1>2, <1>3, <1>4, <1>5 DEF MeterInv

(* Metering ends without a record. *)
LEMMA EndStep ==
  ASSUME MeterInv, Given, NEW reason, End(reason), phase = "streaming",
         UNCHANGED <<phase, work, log, diags, held, router>>,
         interrupted' \in BOOLEAN, interrupted => interrupted',
         work.at # "none" => reader' = reader /\ interrupted',
         seen' => seen \/ ~open
  PROVE MeterInv'
<1>g. /\ TruthInv' /\ HostInv' /\ CallInv'
      /\ \A r : Sound(r)' = Sound(r)
      /\ \A o : TrueOf(o)' = TrueOf(o)
  BY GivenKept
<1>u. UNCHANGED <<setup, truth, call>>
  BY DEF Given
<1>e. /\ open' = FALSE
      /\ incomplete' = IF open THEN Append(incomplete, reason) ELSE incomplete
  BY DEF End
<1>1. ASSUME open
      PROVE PhaseInv' /\ VerdictInv' /\ ToldInv'
  <2>1. log = <<>> /\ incomplete = <<>>
    BY <1>1 DEF MeterInv, VerdictInv
  <2>2. incomplete' = <<reason>>
    BY <2>1, <1>1, <1>e
  <2>3. incomplete' = <<incomplete'[1]>> /\ incomplete' # <<>>
    BY <2>2
  <2>4. PhaseInv' /\ VerdictInv'
    BY <2>1, <2>3, <1>e, <1>u DEF MeterInv, PhaseInv, VerdictInv
  <2>5. ToldInv'
    BY <2>3 DEF ToldInv, Told
  <2> QED BY <2>4, <2>5
<1>2. ASSUME ~open
      PROVE PhaseInv' /\ VerdictInv' /\ ToldInv'
  <2>1. incomplete' = incomplete
    BY <1>2, <1>e
  <2>2. PhaseInv' /\ VerdictInv'
    BY <2>1, <1>2, <1>e, <1>u DEF MeterInv, PhaseInv, VerdictInv
  <2>3. ToldInv'
    BY <2>1, <1>2 DEF MeterInv, ToldInv, Told
  <2> QED BY <2>2, <2>3
<1>3. WorkInv'
  BY <1>u, <1>g DEF MeterInv, WorkInv
<1>4. BudgetInv'
  BY DEF MeterInv, BudgetInv, LookupBounded
<1>5. SoundInv'
  BY <1>g DEF MeterInv, SoundInv, Logged
<1>6. RouterTrue(router)'
  BY <1>u DEF MeterInv, RouterTrue
<1> QED BY <1>g, <1>1, <1>2, <1>3, <1>4, <1>5, <1>6 DEF MeterInv

(* A record was tried, and the host gets its result. *)
LEMMA DeliverStep ==
  ASSUME MeterInv, Given, Tried, Delivered, log = <<>>,
         phase = "streaming" => open \/ interrupted,
         work' = NoWork \/ (work' = work /\ work.at = "none"),
         UNCHANGED <<incomplete, interrupted>>, RouterTrue(router)',
         held' \in Nat, LookupBounded'
  PROVE MeterInv'
<1>g. /\ TruthInv' /\ HostInv' /\ CallInv'
      /\ \A r : Sound(r)' = Sound(r)
      /\ \A o : TrueOf(o)' = TrueOf(o)
  BY GivenKept
<1>1. \/ log' = <<>> /\ diags' \cap Excuses # {}
      \/ \E r : log' = <<r>> /\ Sound(r)
  BY DEF Tried
<1>2. /\ log' = <<>> \/ log' = <<log'[1]>>
      /\ Told'
  <2>1. ASSUME NEW r, log' = <<r>>
        PROVE log' = <<log'[1]>> /\ log' # <<>>
    BY <2>1
  <2> QED BY <1>1, <2>1 DEF Told
<1>3. SoundInv'
  <2>1. ASSUME NEW r, log' = <<r>>
        PROVE Logged' = {r}
    BY <2>1 DEF Logged
  <2>2. log' = <<>> => Logged' = {}
    BY DEF Logged
  <2> QED BY <1>1, <2>1, <2>2, <1>g DEF SoundInv
<1>4. \/ phase = "streaming" /\ open' = FALSE /\ phase' = phase
      \/ phase # "streaming" /\ phase' = "over" /\ open' = open
  BY DEF Delivered
<1>5. PhaseInv'
  BY <1>4 DEF MeterInv, PhaseInv
<1>6. VerdictInv'
  <2>1. incomplete = <<>> \/ interrupted
    BY <1>4 DEF MeterInv, PhaseInv, VerdictInv
  <2> QED BY <1>2, <1>4, <2>1 DEF MeterInv, VerdictInv
<1>7. WorkInv' /\ BudgetInv'
  <2>1. work'.at = "none" /\ work' = [observed |-> work'.observed, at |-> work'.at,
                                      elapsed |-> work'.elapsed, delay |-> work'.delay]
    BY DEF NoWork, MeterInv, WorkInv
  <2> QED BY <2>1 DEF WorkInv, BudgetInv
<1>8. ToldInv'
  BY <1>2 DEF ToldInv
<1> QED BY <1>g, <1>3, <1>5, <1>6, <1>7, <1>8 DEF MeterInv

(* A call that was observed is recorded at once, or waits for the lookup. *)
LEMMA ObservedStep ==
  ASSUME MeterInv, Given, NEW o, TrueOf(o), Observed(o),
         call # None, setup.adapter = "openrouter", work.at = "none",
         phase = "sent" \/ (phase = "streaming" /\ open),
         UNCHANGED <<incomplete, interrupted, held>>, RouterTrue(router)'
  PROVE MeterInv'
<1>g. /\ TruthInv' /\ HostInv' /\ CallInv'
      /\ \A r : Sound(r)' = Sound(r)
      /\ \A x : TrueOf(x)' = TrueOf(x)
  BY GivenKept
<1>u. UNCHANGED <<setup, truth, call>>
  BY DEF Given
<1>0. log = <<>> /\ incomplete = <<>>
  BY DEF MeterInv, PhaseInv, VerdictInv
<1>h. held' \in Nat /\ LookupBounded'
  BY DEF MeterInv, BudgetInv, LookupBounded
<1>1. ASSUME NEW codes, Record(o, None, codes), Delivered, work' = NoWork
      PROVE MeterInv'
  <2>1. Tried
    BY <1>1, RecordTries DEF MeterInv
  <2> QED BY <1>1, <2>1, <1>0, <1>h, DeliverStep
<1>2. CASE diags' = diags \cup {"HOOK_FAILED"} /\ Delivered /\ work' = NoWork /\ UNCHANGED log
  <2>1. Tried
    BY <1>2 DEF Tried, Excuses
  <2> QED BY <1>2, <2>1, <1>0, <1>h, DeliverStep
<1>3. CASE /\ work' = [observed |-> o, at |-> "request", elapsed |-> 0, delay |-> InitialDelay]
           /\ IF phase = "streaming" THEN reader' = "inspecting" /\ UNCHANGED phase
              ELSE phase' = "recording" /\ UNCHANGED reader
           /\ UNCHANGED <<open, log, diags, seen>>
  <2>0. /\ work'.at = "request" /\ work'.elapsed = 0 /\ work'.delay = InitialDelay
        /\ work'.observed = o
        /\ work' = [observed |-> work'.observed, at |-> work'.at, elapsed |-> work'.elapsed,
                    delay |-> work'.delay]
    BY <1>3
  <2>1. PhaseInv' /\ VerdictInv'
    BY <1>3, <1>0, <1>u DEF MeterInv, PhaseInv, VerdictInv
  <2>2. WorkInv'
    <3>1. TrueOf(work'.observed) /\ TrueOf(o)'
      BY <2>0, <1>g
    <3>2. \/ phase' = "recording"
          \/ phase' = "streaming" /\ reader' = "inspecting" /\ open'
      BY <1>3
    <3>3. TrueOf(work.observed)'
      BY <2>0, <3>1, <1>u DEF TrueOf, Counted
    <3> QED BY <2>0, <3>2, <3>3, <1>3, <1>0, <1>u DEF WorkInv
  <2>3. BudgetInv'
    BY <2>0, <1>h, LookupOptions DEF BudgetInv
  <2>4. SoundInv' /\ ToldInv'
    BY <1>3, <1>0, <1>g DEF MeterInv, SoundInv, Logged, ToldInv, Told
  <2> QED BY <1>g, <2>1, <2>2, <2>3, <2>4 DEF MeterInv
<1>4. \/ \E codes : Record(o, None, codes) /\ Delivered /\ work' = NoWork
      \/ diags' = diags \cup {"HOOK_FAILED"} /\ Delivered /\ work' = NoWork /\ UNCHANGED log
      \/ /\ work' = [observed |-> o, at |-> "request", elapsed |-> 0, delay |-> InitialDelay]
         /\ IF phase = "streaming" THEN reader' = "inspecting" /\ UNCHANGED phase
            ELSE phase' = "recording" /\ UNCHANGED reader
         /\ UNCHANGED <<open, log, diags, seen>>
  BY DEF Observed
<1> QED BY <1>1, <1>2, <1>3, <1>4
-----------------------------------------------------------------------------
(* Outside of the stream. *)

LEMMA MeterInit == Init => MeterInv
<1> SUFFICES ASSUME Init PROVE MeterInv
  OBVIOUS
<1>1. TruthInv
  BY DEF Init, TruthInv, OpenRouterFacades, MergeFacades
<1>2. HostInv
  <2>1. Running(<<>>) = {} /\ \A f : Naming(<<>>, f) = {}
    BY DEF Running, Naming
  <2>2. FieldsKept(<<>>, NoScope)
    BY <2>1 DEF FieldsKept, NoScope
  <2>3. RunKept(<<>>, NoScope.run)
    BY <2>1 DEF RunKept, NoScope
  <2> QED BY <2>2, <2>3 DEF Init, HostInv, SumsUp
<1>3. CallInv /\ PhaseInv /\ VerdictInv /\ ToldInv /\ RouterTrue(router)
  BY DEF Init, CallInv, PhaseInv, VerdictInv, ToldInv, RouterTrue
<1>4. WorkInv /\ BudgetInv
  BY LookupOptions DEF Init, NoWork, WorkInv, BudgetInv, LookupBounded
<1>5. SoundInv
  BY DEF Init, SoundInv, Logged
<1> QED BY <1>1, <1>2, <1>3, <1>4, <1>5 DEF MeterInv

LEMMA WithAudrStep ==
  ASSUME MeterInv, WithAudr
  PROVE MeterInv'
<1>u. UNCHANGED <<setup, truth, phase, call, open, reader, failure, router, failed, left, work, log,
                  diags, incomplete, began, seen, held, interrupted>>
  BY DEF WithAudr, streamVars, outVars
<1>1. HostInv'
  <2>1. ASSUME NEW context \in Contexts, scope' = Nest(scope, context),
               entered' = Append(entered, context)
        PROVE HostInv'
    <3>1. SumsUp(Append(entered, context), Nest(scope, context))
      BY NestSumsUp DEF MeterInv, HostInv
    <3>2. SumsUp(entered, scope)'
      BY <3>1, <2>1, <1>u DEF SumsUp, FieldsKept, RunKept, ParentKept
    <3> QED BY <2>1, <3>2 DEF MeterInv, HostInv
  <2>2. ASSUME scope' = NoScope, entered' = <<>>
        PROVE HostInv'
    <3>1. Running(<<>>) = {} /\ \A f : Naming(<<>>, f) = {}
      BY DEF Running, Naming
    <3>2. SumsUp(<<>>, NoScope)
      BY <3>1 DEF SumsUp, FieldsKept, RunKept, NoScope
    <3>3. SumsUp(entered, scope)'
      BY <3>2, <2>2, <1>u DEF SumsUp, FieldsKept, RunKept, ParentKept
    <3> QED BY <2>2, <3>3 DEF HostInv
  <2> QED BY <2>1, <2>2 DEF WithAudr
<1>2. TruthInv' /\ CallInv'
  BY <1>u DEF MeterInv, TruthInv, CallInv, Bills
<1>3. PhaseInv' /\ VerdictInv' /\ ToldInv'
  BY <1>u DEF MeterInv, PhaseInv, VerdictInv, ToldInv, Told
<1>4. WorkInv' /\ BudgetInv'
  BY <1>u DEF MeterInv, WorkInv, BudgetInv, LookupBounded, TrueOf, Counted
<1>5. SoundInv' /\ RouterTrue(router)'
  BY <1>u DEF MeterInv, SoundInv, Logged, Sound, Bills, FullCost, Fresh, Counted, RouterTrue
<1> QED BY <1>1, <1>2, <1>3, <1>4, <1>5 DEF MeterInv

LEMMA BeginStep ==
  ASSUME MeterInv, Begin
  PROVE MeterInv'
<1>u. /\ UNCHANGED <<setup, truth, scope, entered, open, reader, failure, router, failed, left, work,
                     log, incomplete, seen, held, interrupted>>
      /\ phase = "idle" /\ phase' = "sent" /\ began' = entered
      /\ call = None /\ log = <<>>
  BY DEF Begin, streamVars, host, MeterInv, PhaseInv
<1>1. CallInv'
  <2> DEFINE attribution == MergeAttribution(setup.defaults, scope.attribution)
  <2>1. call' = None \/ \E family : call' = [family |-> family, attribution |-> attribution,
                                             run |-> scope.run]
    BY <1>u DEF Begin
  <2>2. \A f \in DOMAIN setup.defaults :
          attribution[f] = IF Naming(entered, f) = {} THEN setup.defaults[f]
                           ELSE entered[Max(Naming(entered, f))].attribution[f]
    BY FieldOfSum DEF MeterInv, HostInv, SumsUp
  <2>3. Running(entered) # {} => scope.run # None /\ scope.run = StarterRun(entered)
    BY RunOfSum DEF MeterInv, HostInv, SumsUp
  <2> HIDE DEF attribution
  <2>4. ASSUME NEW family, call' = [family |-> family, attribution |-> attribution,
                                    run |-> scope.run]
        PROVE CallInv'
    <3>1. call'.attribution = attribution /\ call'.run = scope.run
      BY <2>4
    <3>2. Bills(call.attribution, call.run)'
      BY <3>1, <2>2, <2>3, <1>u DEF Bills
    <3> QED BY <3>1, <3>2, <2>3, <1>u DEF CallInv
  <2>5. ASSUME call' = None
        PROVE CallInv'
    BY <2>5 DEF CallInv
  <2> QED BY <2>1, <2>4, <2>5
<1>2. TruthInv' /\ HostInv'
  BY <1>u DEF MeterInv, TruthInv, HostInv, SumsUp, FieldsKept, RunKept, ParentKept
<1>3. PhaseInv' /\ VerdictInv'
  BY <1>u DEF MeterInv, PhaseInv, VerdictInv
<1>4. WorkInv' /\ BudgetInv'
  BY <1>u DEF MeterInv, WorkInv, BudgetInv, LookupBounded, TrueOf, Counted
<1>5. SoundInv'
  BY <1>u DEF SoundInv, Logged
<1>6. ToldInv' /\ RouterTrue(router)'
  <2>1. diags \subseteq diags'
    BY DEF Begin
  <2> QED BY <1>u, <2>1 DEF MeterInv, ToldInv, Told, RouterTrue
<1> QED BY <1>1, <1>2, <1>3, <1>4, <1>5, <1>6 DEF MeterInv

(* The call goes on past measure(): it fails, or gives a stream. *)
LEMMA PassStep ==
  ASSUME MeterInv, Unmetered \/ Stream
  PROVE MeterInv'
<1>u. /\ UNCHANGED <<setup, truth, scope, entered, call, open, reader, failure, router, failed, left,
                     work, log, diags, incomplete, began, seen, held, interrupted>>
      /\ phase = "sent" /\ phase' \in {"over", "streaming"} /\ log = <<>> /\ incomplete = <<>>
      /\ open
  BY DEF Unmetered, Stream, streamVars, outVars, host, MeterInv, PhaseInv
<1>g. /\ TruthInv' /\ HostInv' /\ CallInv'
  BY <1>u, GivenKept DEF Given
<1>3. PhaseInv' /\ VerdictInv'
  BY <1>u DEF MeterInv, PhaseInv, VerdictInv
<1>4. WorkInv' /\ BudgetInv'
  BY <1>u DEF MeterInv, WorkInv, BudgetInv, LookupBounded, TrueOf, Counted
<1>5. SoundInv'
  BY <1>u DEF SoundInv, Logged
<1>6. ToldInv' /\ RouterTrue(router)'
  BY <1>u DEF MeterInv, ToldInv, Told, RouterTrue
<1> QED BY <1>g, <1>3, <1>4, <1>5, <1>6 DEF MeterInv

LEMMA ResultStep ==
  ASSUME MeterInv, NEW body \in Bodies, Result(body)
  PROVE MeterInv'
<1>u. /\ UNCHANGED <<setup, truth, scope, entered, call, failure, router, failed, left, incomplete,
                     began, held, interrupted>>
      /\ phase = "sent" /\ call # None /\ Plausible(body) /\ setup.adapter = "openrouter"
  BY DEF Result, host
<1>0. Given /\ RouterTrue(router) /\ RouterTrue(router)' /\ RouterTrue(None) /\ TruthInv
  BY <1>u DEF Given, MeterInv, RouterTrue
<1>n. work.at = "none"
  BY <1>u DEF MeterInv, WorkInv
<1>1. CASE Observe(body) # None
  <2>1. TrueOf(Observe(body))
    <3>1. body.usage
      BY <1>1 DEF Observe, ChatObservation, ResponsesObservation, EmbeddingsObservation
    <3>2. /\ TrueOf(ChatObservation(body, None, None))
          /\ TrueOf(ResponsesObservation(body, StatusErrorCode(body.status)))
          /\ TrueOf(EmbeddingsObservation(body))
      BY <1>u, <1>0, <3>1, ObserveTrue
    <3> QED BY <3>2 DEF Observe
  <2>2. Observed(Observe(body))
    BY <1>1 DEF Result
  <2> QED BY <1>u, <1>0, <1>n, <2>1, <2>2, ObservedStep
<1>2. CASE /\ diags' = diags \cup {"USAGE_UNREPORTED"} /\ phase' = "over"
           /\ UNCHANGED <<open, reader, work, log, seen>>
  <2>g. /\ TruthInv' /\ HostInv' /\ CallInv'
    BY <1>0, GivenKept
  <2>1. log = <<>> /\ incomplete = <<>> /\ open
    BY <1>u DEF MeterInv, PhaseInv
  <2>3. PhaseInv' /\ VerdictInv'
    BY <1>u, <1>2, <2>1 DEF MeterInv, PhaseInv, VerdictInv
  <2>4. WorkInv' /\ BudgetInv'
    BY <1>u, <1>2, <1>n DEF MeterInv, WorkInv, BudgetInv, LookupBounded, TrueOf, Counted
  <2>5. SoundInv' /\ ToldInv'
    BY <1>u, <1>2, <2>1 DEF MeterInv, SoundInv, Logged, ToldInv, Told
  <2> QED BY <1>0, <2>g, <2>3, <2>4, <2>5 DEF MeterInv
<1> QED BY <1>1, <1>2 DEF Result

LEMMA MergeResultStep ==
  ASSUME MeterInv, NEW body \in Bodies, MergeResult(body)
  PROVE MeterInv'
<1>u. /\ UNCHANGED <<setup, truth, scope, entered, call, failure, router, failed, left, incomplete,
                     began, held, interrupted, work>>
      /\ phase = "sent" /\ call # None /\ Plausible(body) /\ setup.adapter = "merge"
      /\ MergeRecord(body) /\ Delivered
  BY DEF MergeResult, host
<1>0. Given /\ RouterTrue(router)'
  BY <1>u DEF Given, MeterInv, RouterTrue
<1>1. work.at = "none" /\ log = <<>>
  BY <1>u DEF MeterInv, WorkInv, PhaseInv
<1>2. Tried
  BY <1>u, MergeTries DEF MeterInv
<1>3. held' \in Nat /\ LookupBounded'
  BY <1>u DEF MeterInv, BudgetInv, LookupBounded
<1> QED BY <1>u, <1>0, <1>1, <1>2, <1>3, DeliverStep
-----------------------------------------------------------------------------
(* The stream. *)

LEMMA ReadStep ==
  ASSUME MeterInv, Read
  PROVE MeterInv'
<1>u. /\ UNCHANGED <<setup, truth, scope, entered, call, phase, open, failure, router, failed, left,
                     work, log, diags, incomplete, began, seen, held, interrupted>>
      /\ phase = "streaming" /\ reader \in {"none", "yielded"}
  BY DEF Read, host, outVars
<1>0. Given /\ RouterTrue(router)'
  BY <1>u DEF Given, MeterInv, RouterTrue
<1>1. work.at = "none"
  BY <1>u DEF MeterInv, WorkInv
<1> QED BY <1>u, <1>0, <1>1, QuietStep

(* What every frame finds. *)
LEMMA FrameFinds ==
  ASSUME MeterInv, FrameCommon, UNCHANGED router
  PROVE /\ Given /\ UNCHANGED <<held, interrupted>> /\ RouterTrue(router)'
        /\ phase = "streaming" /\ work.at = "none"
<1>1. /\ phase = "streaming" /\ reader = "waiting"
      /\ UNCHANGED <<setup, truth, scope, entered, call, began, held, interrupted>>
  BY DEF FrameCommon, host
<1>2. work.at = "none"
  BY <1>1 DEF MeterInv, WorkInv
<1>3. RouterTrue(router)'
  BY <1>1 DEF MeterInv, RouterTrue
<1> QED BY <1>1, <1>2, <1>3 DEF Given

LEMMA ChatFrameStep ==
  ASSUME MeterInv, NEW body \in Bodies, NEW error \in BOOLEAN, ChatFrame(body, error)
  PROVE MeterInv'
<1>u. /\ UNCHANGED <<setup, truth, scope, entered, call, began, held, interrupted>>
      /\ phase = "streaming" /\ reader = "waiting" /\ call # None /\ setup.adapter = "openrouter"
      /\ Plausible(body)
  BY DEF ChatFrame, FrameCommon, host
<1>g. Given
  BY <1>u DEF Given
<1>n. work.at = "none"
  BY <1>u DEF MeterInv, WorkInv
<1>t. TruthInv /\ RouterTrue(router) /\ (RouterTrue(router)' <=> RouterTrue(router'))
  BY <1>u DEF MeterInv, RouterTrue
<1>1. CASE ~open
  <2>1. /\ reader' = "yielded" /\ UNCHANGED <<phase, open, router, work, log, diags, incomplete>>
    BY <1>1 DEF ChatFrame, Yield
  <2>2. RouterTrue(router)'
    BY <2>1, <1>t
  <2> QED BY <1>u, <1>g, <1>n, <1>1, <2>1, <2>2, QuietStep
<1>2. CASE open
  <2>1. router' = Or(ReadRouter(body.metadata), router)
    BY <1>2 DEF ChatFrame
  <2>2. RouterTrue(router)'
    <3>1. body.metadata # None => body.metadata.isByok \in {None, truth.isByok}
      BY <1>u DEF Plausible
    <3> QED BY <3>1, <2>1, <1>t, RouterRead
  <2>3. CASE body.usage
    <3>1. PICK code : Observed(ChatObservation(body, router', code)) /\ UNCHANGED incomplete
      BY <1>2, <2>3 DEF ChatFrame
    <3>2. TrueOf(ChatObservation(body, router', code))
      BY <1>u, <1>t, <2>2, <2>3, ObserveTrue
    <3> QED BY <1>u, <1>g, <1>n, <1>2, <2>2, <3>1, <3>2, ObservedStep
  <2>4. CASE ~body.usage
    <3>1. /\ reader' = "yielded" /\ UNCHANGED <<phase, open, work, log, diags, incomplete, seen>>
      BY <1>2, <2>4 DEF ChatFrame, Yield
    <3> QED BY <1>u, <1>g, <1>n, <2>2, <3>1, QuietStep
  <2> QED BY <2>3, <2>4
<1> QED BY <1>1, <1>2

LEMMA ResponsesFrameStep ==
  ASSUME MeterInv, NEW body \in Bodies, NEW type, ResponsesFrame(type, body)
  PROVE MeterInv'
<1>u. /\ UNCHANGED <<setup, truth, scope, entered, call, began, held, interrupted, router>>
      /\ phase = "streaming" /\ reader = "waiting" /\ call # None /\ setup.adapter = "openrouter"
      /\ Plausible(body)
  BY DEF ResponsesFrame, FrameCommon, host
<1>f. Given /\ RouterTrue(router)' /\ work.at = "none" /\ interrupted \in BOOLEAN
  BY <1>u, FrameFinds DEF ResponsesFrame, MeterInv, PhaseInv
<1>1. CASE ~open \/ ~IsTerminalType(type)
  <2>1. /\ reader' = "yielded" /\ UNCHANGED <<phase, open, work, log, diags, incomplete>>
        /\ seen' = (seen \/ (IsTerminalType(type) /\ body.usage))
    BY <1>1 DEF ResponsesFrame, Yield
  <2> QED BY <1>u, <1>f, <1>1, <2>1, QuietStep
<1>2. CASE open /\ IsTerminalType(type) /\ body.usage
  <2>1. Observed(ResponsesObservation(body, TerminalErrorCode(type))) /\ UNCHANGED incomplete
    BY <1>2 DEF ResponsesFrame
  <2>2. TrueOf(ResponsesObservation(body, TerminalErrorCode(type)))
    <3>1. TruthInv /\ RouterTrue(router)
      BY DEF MeterInv
    <3> QED BY <3>1, <1>u, <1>2, ObserveTrue
  <2> QED BY <1>u, <1>f, <1>2, <2>1, <2>2, ObservedStep
<1>3. CASE open /\ IsTerminalType(type) /\ ~body.usage
  <2>1. /\ reader' = "yielded" /\ UNCHANGED <<phase, work, log, diags, seen>>
        /\ End("no_usage")
    BY <1>3 DEF ResponsesFrame, Yield
  <2> QED BY <1>u, <1>f, <2>1, EndStep
<1> QED BY <1>1, <1>2, <1>3

LEMMA MergeFrameStep ==
  ASSUME MeterInv, NEW body \in Bodies, NEW object, MergeFrame(object, body)
  PROVE MeterInv'
<1>u. /\ UNCHANGED <<setup, truth, scope, entered, call, began, held, interrupted, router, phase>>
      /\ phase = "streaming" /\ reader = "waiting" /\ call # None /\ setup.adapter = "merge"
      /\ Plausible(body)
  BY DEF MergeFrame, FrameCommon, host
<1>f. Given /\ RouterTrue(router)' /\ work.at = "none" /\ interrupted \in BOOLEAN
  BY <1>u, FrameFinds DEF MergeFrame, MeterInv, PhaseInv
<1>1. CASE open /\ object = "done"
  <2>1. MergeRecord(body) /\ Delivered /\ UNCHANGED <<work, incomplete>>
    BY <1>1 DEF MergeFrame
  <2>2. Tried
    BY <1>u, <2>1, MergeTries DEF MeterInv
  <2>3. log = <<>>
    BY <1>u, <1>1 DEF MeterInv, VerdictInv
  <2>4. held' \in Nat /\ LookupBounded'
    BY <1>u DEF MeterInv, BudgetInv, LookupBounded
  <2> QED BY <1>u, <1>f, <1>1, <2>1, <2>2, <2>3, <2>4, DeliverStep
<1>2. CASE open /\ object = "error"
  <2>0. object # "done"
    BY <1>2
  <2>1. reader' = "yielded" /\ UNCHANGED <<work, log, diags, seen>> /\ End("error_frame")
    BY <1>2, <2>0 DEF MergeFrame, Yield
  <2> QED BY <1>u, <1>f, <2>1, EndStep
<1>3. CASE ~open \/ (object # "done" /\ object # "error")
  <2>1. /\ reader' = "yielded" /\ UNCHANGED <<work, log, diags, open, incomplete>>
        /\ seen' = (seen \/ object = "done")
    BY <1>3 DEF MergeFrame, Yield
  <2>2. seen' => seen \/ ~open
    BY <1>3, <2>1
  <2> QED BY <1>u, <1>f, <2>1, <2>2, QuietStep
<1> QED BY <1>1, <1>2, <1>3

LEMMA ReaderOverStep ==
  ASSUME MeterInv, NEW reason, ReaderOver(reason), phase = "streaming",
         reader \in {"waiting", "yielded"}
  PROVE MeterInv'
<1>u. /\ UNCHANGED <<setup, truth, scope, entered, call, began, phase, failure, router, failed, left,
                     work, log, diags, seen, held, interrupted>>
      /\ reader' = "over" /\ End(reason)
  BY DEF ReaderOver, host
<1>1. Given /\ work.at = "none" /\ interrupted \in BOOLEAN
  BY <1>u DEF Given, MeterInv, WorkInv, PhaseInv
<1> QED BY <1>u, <1>1, EndStep

LEMMA CutStep ==
  ASSUME MeterInv, NEW reason, Cut(reason)
  PROVE MeterInv'
<1>u. /\ UNCHANGED <<setup, truth, scope, entered, call, began, phase, reader, failure, router,
                     failed, work, log, diags, seen, held>>
      /\ phase = "streaming" /\ End(reason)
      /\ interrupted' = (interrupted \/ reader = "inspecting")
  BY DEF Cut, host
<1>1. Given /\ interrupted \in BOOLEAN /\ (work.at # "none" => reader = "inspecting")
  BY <1>u DEF Given, MeterInv, WorkInv, PhaseInv
<1> QED BY <1>u, <1>1, EndStep
-----------------------------------------------------------------------------
(* The lookup. *)

(* The record that waited is tried at last. *)
LEMMA SettleStep ==
  ASSUME MeterInv, Given, work.at # "none", NEW facts, NEW codes,
         facts # None => facts \in FactSets /\ facts.isByok \in {None, truth.isByok},
         Record(work.observed, facts, codes), Delivered, work' = NoWork,
         UNCHANGED <<router, incomplete, interrupted>>, held' \in Nat, LookupBounded'
  PROVE MeterInv'
<1>1. /\ call # None /\ setup.adapter = "openrouter" /\ log = <<>> /\ TrueOf(work.observed)
      /\ phase = "streaming" => open \/ interrupted
  BY DEF MeterInv, WorkInv
<1>2. Tried
  BY <1>1, RecordTries DEF MeterInv
<1>3. RouterTrue(router)'
  BY DEF Given, MeterInv, RouterTrue
<1> QED BY <1>1, <1>2, <1>3, DeliverStep

(* The lookup goes on. *)
LEMMA LookupGoesOn ==
  ASSUME MeterInv, Given, work.at # "none", NEW next \in {"request", "sleep"},
         NEW elapsed \in Nat, NEW delay \in Nat,
         work' = [work EXCEPT !.at = next, !.elapsed = elapsed, !.delay = delay],
         next = "sleep" => MaxWait - elapsed > Wait(delay),
         UNCHANGED <<phase, open, reader, log, diags, seen, router, incomplete, interrupted>>,
         held' \in Nat, LookupBounded'
  PROVE MeterInv'
<1>g. /\ TruthInv' /\ HostInv' /\ CallInv'
      /\ \A r : Sound(r)' = Sound(r)
  BY GivenKept
<1>u. UNCHANGED <<setup, truth, call>>
  BY DEF Given
<1>0. /\ work'.observed = work.observed /\ work'.at = next /\ work'.elapsed = elapsed
      /\ work'.delay = delay
      /\ work' = [observed |-> work'.observed, at |-> work'.at, elapsed |-> work'.elapsed,
                  delay |-> work'.delay]
  BY DEF MeterInv, WorkInv
<1>1. PhaseInv' /\ VerdictInv'
  BY <1>u DEF MeterInv, PhaseInv, VerdictInv
<1>2. WorkInv'
  <2>1. TrueOf(work.observed)'
    BY <1>0, <1>u DEF MeterInv, WorkInv, TrueOf, Counted
  <2> QED BY <1>0, <1>u, <2>1 DEF MeterInv, WorkInv
<1>3. BudgetInv'
  BY <1>0 DEF BudgetInv, Wait
<1>4. SoundInv' /\ ToldInv'
  BY <1>g DEF MeterInv, SoundInv, Logged, ToldInv, Told
<1>5. RouterTrue(router)'
  BY <1>u DEF MeterInv, RouterTrue
<1> QED BY <1>g, <1>1, <1>2, <1>3, <1>4, <1>5 DEF MeterInv

(* What the lookup finds. *)
LEMMA LookupFinds ==
  ASSUME MeterInv, LookupCommon, work.at # "none"
  PROVE /\ Given /\ UNCHANGED <<router, incomplete, interrupted>>
        /\ work.elapsed \in Nat /\ work.delay \in Nat
BY DEF LookupCommon, host, Given, MeterInv, BudgetInv

LEMMA LookupAnswersStep ==
  ASSUME MeterInv, NEW facts \in FactSets, NEW took \in 0..(MaxWait + Late), LookupAnswers(facts, took)
  PROVE MeterInv'
<1>1. /\ work.at = "request" /\ took <= Remaining(work.elapsed) + Late
      /\ facts.isByok \in {None, truth.isByok}
      /\ Record(work.observed, facts, {}) /\ Delivered /\ work' = NoWork
      /\ held' = work.elapsed + took /\ LookupCommon
  BY DEF LookupAnswers, RequestTakes
<1>2. /\ Given /\ UNCHANGED <<router, incomplete, interrupted>>
      /\ work.elapsed \in Nat
  BY <1>1, LookupFinds
<1>3. held' \in Nat /\ LookupBounded'
  BY <1>1, <1>2, LookupOptions DEF LookupBounded, Remaining
<1> QED BY <1>1, <1>2, <1>3, SettleStep

LEMMA LookupFailsStep ==
  ASSUME MeterInv, NEW reason, NEW took \in 0..(MaxWait + Late), LookupFails(reason, took)
  PROVE MeterInv'
<1>1. /\ work.at = "request" /\ took <= Remaining(work.elapsed) + Late
      /\ held' = work.elapsed + took /\ LookupCommon
  BY DEF LookupFails, RequestTakes
<1>2. /\ Given /\ UNCHANGED <<router, incomplete, interrupted>>
      /\ work.elapsed \in Nat /\ work.delay \in Nat
  BY <1>1, LookupFinds
<1>3. held' \in Nat /\ LookupBounded'
  BY <1>1, <1>2, LookupOptions DEF LookupBounded, Remaining
<1>4. CASE LookupGivesUp
  BY <1>1, <1>2, <1>3, <1>4, SettleStep DEF LookupGivesUp
<1>5. CASE /\ ~WouldOverrun(work.elapsed + took, Wait(work.delay))
           /\ work' = [work EXCEPT !.at = "sleep", !.elapsed = @ + took]
           /\ UNCHANGED <<phase, open, reader, log, diags, seen>>
  <2> DEFINE elapsed == work.elapsed + took
  <2>1. elapsed \in Nat /\ MaxWait \in Nat /\ Wait(work.delay) \in Nat
    BY <1>2, LookupOptions DEF Wait
  <2>2. MaxWait - elapsed > Wait(work.delay)
    BY <1>5, <2>1 DEF WouldOverrun, Remaining
  <2>3. work' = [work EXCEPT !.at = "sleep", !.elapsed = elapsed, !.delay = work.delay]
    BY <1>5 DEF MeterInv, WorkInv
  <2> HIDE DEF elapsed
  <2> QED BY <1>1, <1>2, <1>3, <1>5, <2>1, <2>2, <2>3, LookupGoesOn
<1> QED BY <1>4, <1>5 DEF LookupFails

LEMMA LookupWakesStep ==
  ASSUME MeterInv, NEW late \in 0..Late, LookupWakes(late)
  PROVE MeterInv'
<1> DEFINE now == work.elapsed + Wait(work.delay) + late
<1>1. work.at = "sleep" /\ held' = now /\ LookupCommon
  BY DEF LookupWakes
<1>2. /\ Given /\ UNCHANGED <<router, incomplete, interrupted>>
      /\ work.elapsed \in Nat /\ work.delay \in Nat
  BY <1>1, LookupFinds
<1>3. /\ MaxWait \in Nat /\ Late \in Nat /\ Wait(work.delay) \in Nat /\ late \in Nat /\ late <= Late
  BY <1>2, LookupOptions DEF Wait
<1>4. MaxWait - work.elapsed > Wait(work.delay)
  BY <1>1 DEF MeterInv, BudgetInv
<1>5. now \in Nat /\ now < MaxWait + Late
  BY <1>2, <1>3, <1>4
<1>6. held' \in Nat /\ LookupBounded'
  BY <1>1, <1>3, <1>5 DEF LookupBounded
<1>7. CASE LookupGivesUp
  BY <1>1, <1>2, <1>6, <1>7, SettleStep DEF LookupGivesUp
<1>8. CASE /\ work' = [work EXCEPT !.at = "request", !.elapsed = now, !.delay = 2 * @]
           /\ UNCHANGED <<phase, open, reader, log, diags, seen>>
  <2> DEFINE delay == 2 * work.delay
  <2>1. delay \in Nat
    BY <1>2
  <2>2. work' = [work EXCEPT !.at = "request", !.elapsed = now, !.delay = delay]
    BY <1>8
  <2> HIDE DEF now, delay
  <2> QED BY <1>1, <1>2, <1>5, <1>6, <1>8, <2>1, <2>2, LookupGoesOn
<1> QED BY <1>7, <1>8 DEF LookupWakes
-----------------------------------------------------------------------------
LEMMA MeterStep == MeterInv /\ [Next]_vars => MeterInv'
<1> SUFFICES ASSUME MeterInv, [Next]_vars PROVE MeterInv'
  OBVIOUS
<1>1. CASE WithAudr \/ Begin \/ Unmetered \/ Stream \/ Read
  BY <1>1, WithAudrStep, BeginStep, PassStep, ReadStep
<1>2. CASE StreamEnds \/ Abandon
  BY <1>2, ReaderOverStep DEF StreamEnds, Abandon
<1>3. CASE Cancel \/ SecondReader
  BY <1>3, CutStep DEF Cancel, SecondReader
<1>4. CASE \E body \in Bodies : Result(body) \/ MergeResult(body)
  BY <1>4, ResultStep, MergeResultStep
<1>5. CASE \E body \in Bodies, error \in BOOLEAN : ChatFrame(body, error)
  BY <1>5, ChatFrameStep
<1>6. CASE \E body \in Bodies, type \in {"delta", "error", "completed", "failed", "incomplete"} :
             ResponsesFrame(type, body)
  BY <1>6, ResponsesFrameStep
<1>7. CASE \E body \in Bodies, object \in {"stream", "done", "error"} : MergeFrame(object, body)
  BY <1>7, MergeFrameStep
<1>8. CASE \E facts \in FactSets, took \in 0..(MaxWait + Late) : LookupAnswers(facts, took)
  BY <1>8, LookupAnswersStep
<1>9. CASE \E reason \in Failures, took \in 0..(MaxWait + Late) : LookupFails(reason, took)
  BY <1>9, LookupFailsStep
<1>10. CASE \E late \in 0..Late : LookupWakes(late)
  BY <1>10, LookupWakesStep
<1>11. CASE UNCHANGED vars
  <2>1. /\ Given /\ RouterTrue(router)'
        /\ UNCHANGED <<phase, open, reader, work, log, incomplete, held, interrupted, diags, seen>>
    BY <1>11 DEF vars, host, streamVars, outVars, Given, MeterInv, RouterTrue
  <2> QED BY <2>1, QuietStep
<1> QED BY <1>1, <1>2, <1>3, <1>4, <1>5, <1>6, <1>7, <1>8, <1>9, <1>10, <1>11 DEF Next

(* The inductive invariant of the metered call. *)
THEOREM MeterInvariant == Spec => []MeterInv
  BY MeterInit, MeterStep, PTL DEF Spec

(* Whoever the host's scopes bill when the call is begun pays for it, however *)
(* the host moves between scopes while the call is under way.                 *)
THEOREM StarterPays == Spec => []BilledToStarter
<1>1. MeterInv => BilledToStarter
  <2>1. ASSUME MeterInv, NEW i \in DOMAIN log
        PROVE Bills(log[i].attribution, log[i].run)
    BY <2>1 DEF MeterInv, SoundInv, Logged, Sound
  <2> QED BY <2>1 DEF BilledToStarter, Bills
<1> QED BY <1>1, MeterInvariant, PTL

(* A record never claims more than the call cost or read, whatever the gateway *)
(* leaves out of its answers and whatever the lookup supplies.                 *)
THEOREM RecordsTruthful == Spec => []RecordTruthful
<1>1. MeterInv => RecordTruthful
  <2>1. ASSUME MeterInv, NEW i \in DOMAIN log
        PROVE Sound(log[i])
    BY <2>1 DEF MeterInv, SoundInv, Logged
  <2> QED BY <2>1 DEF RecordTruthful, Sound, FullCost, Counted, Fresh
<1> QED BY <1>1, MeterInvariant, PTL

(* Streams of any length, cancelled or read twice at any time, give one verdict; *)
(* two only when they were cut while the lookup was under way.                   *)
THEOREM VerdictOnce == Spec => []OneVerdict
<1>1. MeterInv => OneVerdict
  <2> SUFFICES ASSUME MeterInv PROVE OneVerdict
    OBVIOUS
  <2>1. ASSUME NEW q, q = <<>> \/ q = <<q[1]>>
        PROVE Len(q) = 0 \/ Len(q) = 1
    <3>1. Len(<<q[1]>>) = 1 /\ Len(<<>>) = 0
      OBVIOUS
    <3> QED BY <2>1, <3>1
  <2>2. (Len(log) = 0 \/ Len(log) = 1) /\ (Len(incomplete) = 0 \/ Len(incomplete) = 1)
    BY <2>1 DEF MeterInv, VerdictInv
  <2>3. ASSUME NEW a, NEW b, a = 0 \/ a = 1, b = 0 \/ b = 1
        PROVE a + b <= 2 /\ a <= 1 /\ b <= 1
    BY <2>3
  <2>4. Len(log) + Len(incomplete) <= 2 /\ Len(log) <= 1 /\ Len(incomplete) <= 1
    BY ONLY <2>2, <2>3
  <2>5. log # <<>> /\ incomplete # <<>> => interrupted
    BY DEF MeterInv, VerdictInv
  <2> QED BY ONLY <2>4, <2>5 DEF OneVerdict
<1> QED BY <1>1, MeterInvariant, PTL

(* Who was handed the usage of a call finds its record, or is told why not. *)
THEOREM NothingLostSilently == Spec => []NoSilentLoss
<1>1. MeterInv => NoSilentLoss
  BY DEF MeterInv, ToldInv, Told, Excuses, NoSilentLoss
<1> QED BY <1>1, MeterInvariant, PTL

(* The lookup keeps its budget, whatever the delays and however requests fail. *)
THEOREM LookupKeepsBudget == Spec => []LookupBounded
<1>1. MeterInv => LookupBounded
  BY DEF MeterInv, BudgetInv
<1> QED BY <1>1, MeterInvariant, PTL
=============================================================================
