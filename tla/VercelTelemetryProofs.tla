----------------------- MODULE VercelTelemetryProofs -----------------------
(* The Vercel AI adapter, proved for any number of integrations, calls, tools  *)
(* and model calls, however deep calls are nested and in whatever order their  *)
(* hooks fire.                                                                *)
EXTENDS VercelTelemetry, FiniteSetTheorems, WellFoundedInduction, TLAPS

(* What a tracker keeps of a call. *)
IsCall(call) ==
  /\ call = [id |-> call.id, run |-> call.run, parent |-> call.parent,
             attribution |-> call.attribution, runType |-> call.runType, name |-> call.name,
             modelCalls |-> call.modelCalls, rerankCalls |-> call.rerankCalls,
             toolCalls |-> call.toolCalls, openToolSpans |-> call.openToolSpans,
             embeds |-> call.embeds, rerank |-> call.rerank]
  /\ call.modelCalls \in Nat /\ call.rerankCalls \in Nat /\ call.toolCalls \in Nat
  /\ call.openToolSpans = [t \in ToolCallIds |-> call.openToolSpans[t]]

IsHost(h) ==
  /\ h = [op |-> h.op, context |-> h.context, events |-> h.events,
          executions |-> h.executions, tools |-> h.tools, running |-> h.running]
  /\ h.op \in Operations \cup {None} /\ h.executions \in Nat
  /\ h.tools \in [ToolCallIds -> {"idle", "started", "running"}]
  /\ h.running \in [ToolCallIds -> Nat]
  /\ \A t \in ToolCallIds : h.running[t] <= h.executions
  /\ \A t, u \in ToolCallIds :
       h.tools[t] # "idle" /\ h.tools[u] # "idle" /\ h.running[t] = h.running[u] => t = u

(* A call, a record or an active span of integration i is on the account of its run. *)
Coherent(i, x) ==
  /\ x.run \in Calls /\ Begun(x.run) /\ i \in Routes[x.run]
  /\ x.attribution = ResolveAttribution(Sources[x.run], Defaults[i])
  /\ x.name = Sources[x.run].functionId /\ x.runType = RunTypeFor(host[x.run].op)

(* The parent span of x is an active span of the same integration and run. *)
Placed(i, x) ==
  x.parent # None =>
    \E context \in contexts : \E d \in DOMAIN context :
      /\ context[d].tracker = i /\ context[d].call.run = x.run /\ context[d].spanId = x.parent

Tracked(i, c) == {tracked[i][c]} \ {None}

Logged(i) == {log[i][k] : k \in DOMAIN log[i]}

(* A tool span is open exactly while its tool's execution is under way. *)
CallOK(i, c, call) ==
  /\ IsCall(call) /\ call.id = c /\ i \in Routes[c] /\ Begun(c)
  /\ Coherent(i, call) /\ Placed(i, call)
  /\ \A t \in ToolCallIds :
       LET o == call.openToolSpans[t]
       IN /\ o # None => o = <<"tool", c, o[3], t>> /\ o[3] \in Nat /\ o[3] < call.toolCalls
          /\ host[c].tools[t] = "idle" <=> o = None

(* Execution number x of call c has started, and is over. *)
IsExecution(x) == x = <<x[1], x[2]>> /\ x[1] \in Calls /\ x[2] \in Nat

Known(x) == IsExecution(x) /\ Begun(x[1]) /\ x[2] <= host[x[1]].executions

Over(x) ==
  \A t \in ToolCallIds : host[x[1]].tools[t] # "idle" => host[x[1]].running[t] # x[2]

(* The spans a call has given away lie below its counters, and are not open. *)
Issued(i, s) ==
  \/ /\ s = <<"model", s[2], s[3]>> /\ s[2] \in Calls /\ s[3] \in Nat /\ Begun(s[2])
     /\ \A call \in Tracked(i, s[2]) : s[3] < call.modelCalls
  \/ /\ s = <<"rerank", s[2], s[3]>> /\ s[2] \in Calls /\ s[3] \in Nat /\ Begun(s[2])
     /\ \A call \in Tracked(i, s[2]) : s[3] < call.rerankCalls
  \/ s = <<"embed", s[2]>>
  \/ /\ s = <<"tool", s[2], s[3], s[4]>> /\ s[2] \in Calls /\ s[3] \in Nat /\ Begun(s[2])
     /\ s[4] \in ToolCallIds
     /\ \A call \in Tracked(i, s[2]) :
          /\ s[3] < call.toolCalls
          /\ \A t \in ToolCallIds : call.openToolSpans[t] # s

Bounded(usage) ==
  usage # None => OrZero(usage.input) + OrZero(usage.cacheRead) + OrZero(usage.cacheWrite) <= Prompt

RecordOK(i, r) ==
  /\ Coherent(i, r) /\ Placed(i, r) /\ Bounded(r.usage) /\ Issued(i, r.spanId)
  /\ r.execution # None => Known(r.execution) /\ Over(r.execution)

(* An active span is the one its execution has open, or had recorded. *)
ActiveOK(active) ==
  LET i == active.tracker
      x == active.execution
  IN /\ i \in Integrations /\ Coherent(i, active.call) /\ Known(x)
     /\ \A t \in ToolCallIds : \A call \in Tracked(i, x[1]) :
          host[x[1]].tools[t] # "idle" /\ host[x[1]].running[t] = x[2]
            => call.openToolSpans[t] = active.spanId
     /\ \A r \in Logged(i) : r.execution = x => r.spanId = active.spanId

HostInv ==
  /\ DOMAIN host = Calls
  /\ \A c \in Calls : IsHost(host[c]) /\ host[c].context \in contexts

TrackedInv ==
  /\ DOMAIN tracked = Integrations
  /\ \A i \in Integrations : DOMAIN tracked[i] = Calls
  /\ \A i \in Integrations, c \in Calls : \A call \in Tracked(i, c) : CallOK(i, c, call)

ContextOK(context) ==
  /\ context \in Seq({context[d] : d \in DOMAIN context})
  /\ \A d \in DOMAIN context : ActiveOK(context[d])

ContextsInv == \A context \in contexts : ContextOK(context)

LogInv ==
  /\ DOMAIN log = Integrations
  /\ \A i \in Integrations : log[i] \in Seq(Logged(i)) /\ \A r \in Logged(i) : RecordOK(i, r)

(* A run's records are numbered from 0 in each integration. *)
StepsInv ==
  /\ DOMAIN steps = Integrations
  /\ \A i \in Integrations :
       /\ DOMAIN steps[i] = Calls
       /\ \A c \in Calls : steps[i][c] = Cardinality({j \in DOMAIN log[i] : log[i][j].run = c})
       /\ \A k \in DOMAIN log[i] :
            log[i][k].step = Cardinality({j \in 1..(k - 1) : log[i][j].run = log[i][k].run})

VercelInv == HostInv /\ TrackedInv /\ ContextsInv /\ LogInv /\ StepsInv /\ SpansUnique
-----------------------------------------------------------------------------
(* Operators.                                                              *)

(* However a report garbles its counters, no token is counted twice. *)
LEMMA UsageIn ==
  ASSUME NEW c \in Calls
  PROVE Bounded(ToLlmUsage(Usages[c]))
<1> DEFINE usage == Usages[c]
           noCache == Counter(usage.noCache)
           input == Counter(usage.input)
           read == Counter(usage.cacheRead)
           written == Counter(usage.cacheWrite)
           cached == OrZero(read) + OrZero(written)
           rest == IF noCache # None THEN noCache ELSE Subtract(input, cached)
<1>p. Prompt \in Nat
  BY SourceShape
<1>1. ASSUME NEW n \in {None, Garbled} \cup (0..Prompt) PROVE Counter(n) = None \/ Counter(n) \in 0..Prompt
  BY <1>1 DEF Counter
<1>u. /\ usage.input \in {None, Garbled} \cup (0..Prompt)
      /\ usage.noCache \in {None, Garbled} \cup (0..Prompt)
      /\ usage.cacheRead \in {None, Garbled} \cup (0..Prompt)
      /\ usage.cacheWrite \in {None, Garbled} \cup (0..Prompt)
      /\ OrZero(noCache) + cached <= Prompt
  BY UsageTrue
<1>2. /\ noCache = None \/ noCache \in 0..Prompt
      /\ input = None \/ input \in 0..Prompt
      /\ read = None \/ read \in 0..Prompt
      /\ written = None \/ written \in 0..Prompt
  BY <1>1, <1>u
<1>3. ToLlmUsage(usage) = [input |-> rest, cacheRead |-> read, cacheWrite |-> written]
  BY DEF ToLlmUsage
<1> HIDE DEF usage, noCache, input, read, written
<1>4. OrZero(read) \in Nat /\ OrZero(written) \in Nat /\ OrZero(noCache) \in Nat
  BY <1>2, <1>p DEF OrZero
<1>5. cached \in Nat /\ cached <= Prompt
  BY <1>4, <1>u, <1>p
<1> HIDE DEF cached
<1>6. OrZero(rest) \in Nat /\ OrZero(rest) + cached <= Prompt
  <2>1. CASE noCache # None
    BY <2>1, <1>u, <1>4 DEF OrZero
  <2>2. CASE noCache = None /\ input = None
    BY <2>2, <1>5, <1>p DEF Subtract, OrZero
  <2>3. CASE noCache = None /\ input # None /\ input > cached
    <3>1. input \in 0..Prompt /\ rest = input - cached /\ rest \in Nat
      BY <2>3, <1>2, <1>5, <1>p DEF Subtract
    <3>2. OrZero(rest) = rest \/ OrZero(rest) = 0
      BY DEF OrZero
    <3> HIDE DEF rest
    <3> QED BY <3>1, <3>2, <1>5, <1>p
  <2>4. CASE noCache = None /\ input # None /\ ~(input > cached)
    BY <2>4, <1>2, <1>5, <1>p DEF Subtract, OrZero
  <2> QED BY <2>1, <2>2, <2>3, <2>4
<1> HIDE DEF rest
<1>7. OrZero(rest) + OrZero(read) + OrZero(written) <= Prompt
  BY <1>4, <1>6 DEF cached
<1> QED BY <1>3, <1>7 DEF Bounded, usage

(* The innermost active span of a tracker is one of the context. *)
LEMMA MaxIn ==
  ASSUME NEW n \in Nat, NEW S \in SUBSET (1..n), S # {}
  PROVE Max(S) \in S
<1> DEFINE T == {y \in Nat : \E x \in S : y = n - x}
<1>1. T \subseteq Nat /\ \A x \in S : x \in Nat /\ n - x \in T
  OBVIOUS
<1> HIDE DEF T
<1>2. PICK m \in T : \A y \in T : <<y, m>> \notin OpToRel(<, Nat)
  <2>1. T # {}
    BY <1>1
  <2> QED BY <1>1, <2>1, NatLessThanWellFounded, WFMin, Zenon
<1>3. \A y \in T : ~(y < m)
  BY <1>1, <1>2, Zenon DEF OpToRel
<1>4. PICK x \in S : m = n - x
  BY <1>2 DEF T
<1>5. \A y \in S : x >= y
  <2> TAKE y \in S
  <2>1. n - y \in T
    BY <1>1
  <2>2. ~(n - y < n - x)
    BY <2>1, <1>3, <1>4
  <2>3. x \in Nat /\ y \in Nat
    OBVIOUS
  <2> QED BY ONLY <2>2, <2>3, n \in Nat
<1> QED BY <1>5 DEF Max

LEMMA CurrentIn ==
  ASSUME NEW context, NEW S, context \in Seq(S), NEW i, CurrentToolSpan(i, context) # None
  PROVE \E d \in DOMAIN context : /\ context[d].tracker = i
                                  /\ CurrentToolSpan(i, context) = context[d]
<1> DEFINE own == {d \in DOMAIN context : context[d].tracker = i}
<1>1. own # {} /\ CurrentToolSpan(i, context) = context[Max(own)]
  BY DEF CurrentToolSpan
<1>2. Len(context) \in Nat /\ own \in SUBSET (1..Len(context))
  OBVIOUS
<1>3. Max(own) \in own
  BY <1>1, <1>2, MaxIn
<1> QED BY <1>1, <1>3

(* SetToSeq lists elements of a finite set. *)
LEMMA Listed ==
  ASSUME NEW S, IsFiniteSet(S)
  PROVE /\ SetToSeq(S) \in [1..Cardinality(S) -> S]
        /\ Cardinality(S) \in Nat
<1>1. Cardinality(S) \in Nat /\ ExistsBijection(1..Cardinality(S), S)
  BY FS_CardinalityType
<1>2. PICK f : f \in Bijection(1..Cardinality(S), S)
  BY <1>1 DEF ExistsBijection
<1>3. f \in [1..Cardinality(S) -> S] /\ \A a, b \in 1..Cardinality(S) : f[a] = f[b] => a = b
  BY <1>2 DEF Bijection, Injection, IsInjective
<1>4. DOMAIN f = 1..Cardinality(S)
  BY <1>3
<1>5. \E g \in [1..Cardinality(S) -> S] : IsInjective(g)
  BY <1>3, <1>4 DEF IsInjective
<1> QED BY <1>1, <1>5 DEF SetToSeq

LEMMA AppendParts ==
  ASSUME NEW q, NEW S, q \in Seq(S), NEW e
  PROVE /\ Len(q) \in Nat /\ DOMAIN q = 1..Len(q)
        /\ Append(q, e) \in Seq(S \cup {e}) /\ Len(Append(q, e)) = Len(q) + 1
        /\ DOMAIN Append(q, e) = DOMAIN q \cup {Len(q) + 1} /\ Len(q) + 1 \notin DOMAIN q
        /\ Append(q, e)[Len(q) + 1] = e /\ \A k \in DOMAIN q : Append(q, e)[k] = q[k]
<1>1. q \in Seq(S \cup {e})
  OBVIOUS
<1> QED BY <1>1

LEMMA SeqSelf ==
  ASSUME NEW q, NEW S, q \in Seq(S)
  PROVE q \in Seq({q[k] : k \in DOMAIN q})
<1>1. Len(q) \in Nat /\ q \in [1..Len(q) -> S] /\ DOMAIN q = 1..Len(q)
  OBVIOUS
<1>2. q \in [1..Len(q) -> {q[k] : k \in DOMAIN q}]
  BY <1>1
<1> QED BY <1>1, <1>2

LEMMA ConcatParts ==
  ASSUME NEW S, NEW T, NEW p \in Seq(S), NEW q \in Seq(T)
  PROVE /\ p \o q \in Seq(S \cup T)
        /\ \A d \in DOMAIN (p \o q) : \/ \E k \in DOMAIN p : (p \o q)[d] = p[k]
                                      \/ \E k \in DOMAIN q : (p \o q)[d] = q[k]
<1>1. p \in Seq(S \cup T) /\ q \in Seq(S \cup T)
  OBVIOUS
<1>2. /\ Len(p) \in Nat /\ Len(q) \in Nat /\ DOMAIN p = 1..Len(p) /\ DOMAIN q = 1..Len(q)
      /\ p \o q \in Seq(S \cup T) /\ DOMAIN (p \o q) = 1..(Len(p) + Len(q))
      /\ \A d \in 1..(Len(p) + Len(q)) :
           (p \o q)[d] = IF d <= Len(p) THEN p[d] ELSE q[d - Len(p)]
  BY <1>1
<1>3. ASSUME NEW d \in DOMAIN (p \o q)
      PROVE \/ \E k \in DOMAIN p : (p \o q)[d] = p[k]
            \/ \E k \in DOMAIN q : (p \o q)[d] = q[k]
  <2>1. CASE d <= Len(p)
    BY <2>1, <1>2
  <2>2. CASE ~(d <= Len(p))
    <3>1. d - Len(p) \in DOMAIN q
      BY <2>2, <1>2
    <3> QED BY <3>1, <2>2, <1>2
  <2> QED BY <2>1, <2>2
<1> QED BY <1>2, <1>3
-----------------------------------------------------------------------------
(* A hook of call c, as far as the invariant is concerned.                 *)

Kin(old, new) ==
  /\ new.id = old.id /\ new.run = old.run /\ new.parent = old.parent
  /\ new.attribution = old.attribution /\ new.runType = old.runType /\ new.name = old.name

(* The host goes on with c alone, and numbers executions upwards. *)
HostStep(c) ==
  /\ HostInv'
  /\ \A d \in Calls : host'[d].op = host[d].op /\ host'[d].executions >= host[d].executions
  /\ \A d \in Calls \ {c} : host'[d] = host[d]
  /\ \A t \in ToolCallIds :
       host'[c].tools[t] # "idle" =>
         \/ host[c].tools[t] # "idle" /\ host'[c].running[t] = host[c].running[t]
         \/ host'[c].running[t] > host[c].executions

(* A tool span stays as it is, is closed, or is opened with a new number. *)
CallStep(c, old, new) ==
  /\ Kin(old, new) /\ IsCall(new)
  /\ new.modelCalls >= old.modelCalls /\ new.rerankCalls >= old.rerankCalls
  /\ new.toolCalls >= old.toolCalls
  /\ \A t \in ToolCallIds :
       LET o == new.openToolSpans[t]
       IN /\ \/ o \in {old.openToolSpans[t], None}
             \/ /\ old.openToolSpans[t] = None /\ o = <<"tool", c, o[3], t>> /\ o[3] \in Nat
                /\ old.toolCalls <= o[3] /\ o[3] < new.toolCalls
          /\ host'[c].tools[t] = "idle" <=> o = None

(* A span that is recorded now has not been given away, and will not be again. *)
NewSpan(i, c, old, new, s) ==
  \/ s = <<"model", c, old.modelCalls>> /\ old.modelCalls < new.modelCalls
  \/ s = <<"rerank", c, old.rerankCalls>> /\ old.rerankCalls < new.rerankCalls
  \/ s = <<"embed", s[2]>> /\ \A r \in Logged(i) : r.spanId # s
  \/ /\ s = <<"tool", c, s[3], s[4]>> /\ s[4] \in ToolCallIds /\ s[3] \in Nat /\ s[3] < new.toolCalls
     /\ \/ old.toolCalls <= s[3]
        \/ s = old.openToolSpans[s[4]]
     /\ \A t \in ToolCallIds : new.openToolSpans[t] # s

(* The execution that ends bore the span its record bears. *)
Ends(c, old, parts) ==
  \E t \in ToolCallIds :
    /\ host[c].tools[t] # "idle" /\ host'[c].tools[t] = "idle"
    /\ parts.execution = <<c, host[c].running[t]>> /\ parts.spanId = old.openToolSpans[t]
    /\ \A u \in ToolCallIds \ {t} : host'[c].tools[u] = host[c].tools[u]
    /\ host'[c].running = host[c].running

PartsStep(i, c, old, new, parts) ==
  parts.spanId # None =>
    /\ NewSpan(i, c, old, new, parts.spanId) /\ Bounded(parts.usage)
    /\ parts.execution # None => Ends(c, old, parts)

HookStep(c, did) ==
  /\ Begun(c) /\ contexts \subseteq contexts' /\ HostStep(c) /\ Submit(c, did)
  /\ \A i \in Met(c) : /\ CallStep(c, tracked[i][c], did[i].call)
                       /\ PartsStep(i, c, tracked[i][c], did[i].call, did[i].parts)
-----------------------------------------------------------------------------
LEMMA CoherentKept ==
  ASSUME NEW CONSTANT i, NEW CONSTANT x, NEW CONSTANT y, Coherent(i, x),
         y.run = x.run, y.attribution = x.attribution, y.name = x.name, y.runType = x.runType,
         \A d \in Calls : Begun(d) => host'[d].op = host[d].op
  PROVE Coherent(i, y)'
<1>1. host'[x.run].op = host[x.run].op /\ Begun(x.run) /\ x.run \in Calls
  BY DEF Coherent
<1> QED BY <1>1 DEF Coherent, Begun

LEMMA PlacedKept ==
  ASSUME NEW CONSTANT i, NEW CONSTANT x, NEW CONSTANT y, Placed(i, x),
         y.run = x.run, y.parent = x.parent, contexts \subseteq contexts'
  PROVE Placed(i, y)'
BY DEF Placed

(* What the trackers keep of each call after a hook of c. *)
LEMMA TrackedAfter ==
  ASSUME VercelInv, NEW c \in Calls, NEW did, HookStep(c, did)
  PROVE /\ DOMAIN tracked' = Integrations
        /\ \A i \in Integrations : DOMAIN tracked'[i] = Calls
        /\ \A i \in Integrations, d \in Calls :
             IF d = c /\ i \in Met(c) THEN tracked'[i][d] = did[i].call
             ELSE tracked'[i][d] = tracked[i][d]
<1>1. tracked' = [i \in Integrations |->
           IF i \in Met(c) THEN [tracked[i] EXCEPT ![c] = did[i].call] ELSE tracked[i]]
  BY DEF HookStep, Submit
<1>2. \A i \in Integrations : DOMAIN tracked[i] = Calls
  BY DEF VercelInv, TrackedInv
<1> QED BY <1>1, <1>2

LEMMA MetAll ==
  ASSUME TrackedInv, NEW c \in Calls
  PROVE /\ Met(c) = {i \in Integrations : tracked[i][c] # None}
        /\ \A i \in Met(c) : i \in Integrations /\ CallOK(i, c, tracked[i][c])
<1>1. Routes[c] \subseteq Integrations
  BY SourceShape
<1>2. ASSUME NEW i \in Integrations, tracked[i][c] # None PROVE CallOK(i, c, tracked[i][c])
  BY <1>2 DEF TrackedInv, Tracked
<1>3. \A i : CallOK(i, c, tracked[i][c]) => i \in Routes[c]
  BY DEF CallOK
<1> QED BY <1>1, <1>2, <1>3 DEF Met

LEMMA TrackedStep ==
  ASSUME VercelInv, NEW c \in Calls, NEW did, HookStep(c, did)
  PROVE TrackedInv'
<1>t. TrackedInv /\ HostInv
  BY DEF VercelInv
<1>a. /\ DOMAIN tracked' = Integrations
      /\ \A i \in Integrations : DOMAIN tracked'[i] = Calls
      /\ \A i \in Integrations, d \in Calls :
           IF d = c /\ i \in Met(c) THEN tracked'[i][d] = did[i].call
           ELSE tracked'[i][d] = tracked[i][d]
  BY TrackedAfter
<1>h. /\ contexts \subseteq contexts' /\ \A d \in Calls : host'[d].op = host[d].op
      /\ \A d \in Calls \ {c} : host'[d] = host[d]
  BY DEF HookStep, HostStep
<1>m. /\ Met(c) = {i \in Integrations : tracked[i][c] # None}
      /\ \A i \in Met(c) : i \in Integrations /\ CallOK(i, c, tracked[i][c])
  BY <1>t, MetAll
<1>1. ASSUME NEW CONSTANT i \in Integrations, NEW CONSTANT d \in Calls,
             NEW CONSTANT call \in Tracked(i, d)'
      PROVE CallOK(i, d, call)'
  <2>1. tracked'[i][d] = call /\ call # None
    BY DEF Tracked
  <2>2. CASE d = c /\ i \in Met(c)
    <3>1. PICK old : old = tracked[i][c]
      OBVIOUS
    <3>2. CallOK(i, c, old) /\ CallStep(c, old, call)
      BY <1>a, <1>m, <2>1, <2>2, <3>1 DEF HookStep
    <3>3. Kin(old, call) /\ IsCall(call)
      BY <3>2 DEF CallStep
    <3>4. Coherent(i, call)'
      BY <3>2, <3>3, <1>h, CoherentKept DEF CallOK, Kin
    <3>5. Placed(i, call)'
      BY <3>2, <3>3, <1>h, PlacedKept DEF CallOK, Kin
    <3>6. call.id = c /\ i \in Routes[c] /\ Begun(c)'
      BY <3>2, <3>3, <1>h DEF CallOK, Kin, Begun
    <3>7. old.toolCalls \in Nat /\ call.toolCalls \in Nat /\ old.toolCalls <= call.toolCalls
      BY <3>2 DEF CallOK, CallStep, IsCall
    <3>8. ASSUME NEW t \in ToolCallIds
          PROVE LET o == call.openToolSpans[t]
                IN /\ o # None => o = <<"tool", c, o[3], t>> /\ o[3] \in Nat /\ o[3] < call.toolCalls
                   /\ host'[c].tools[t] = "idle" <=> o = None
      <4> DEFINE o == call.openToolSpans[t]
                 p == old.openToolSpans[t]
      <4>1. p # None => p = <<"tool", c, p[3], t>> /\ p[3] \in Nat /\ p[3] < old.toolCalls
        BY <3>2 DEF CallOK
      <4>2. /\ \/ o \in {p, None}
               \/ o = <<"tool", c, o[3], t>> /\ o[3] \in Nat /\ o[3] < call.toolCalls
            /\ host'[c].tools[t] = "idle" <=> o = None
        BY <3>2 DEF CallStep
      <4> HIDE DEF o, p
      <4>3. o # None => o = <<"tool", c, o[3], t>> /\ o[3] \in Nat /\ o[3] < call.toolCalls
        BY <4>1, <4>2, <3>7
      <4> QED BY <4>2, <4>3 DEF o
    <3> QED BY <2>2, <3>3, <3>4, <3>5, <3>6, <3>8 DEF CallOK
  <2>3. CASE ~(d = c /\ i \in Met(c))
    <3>1. call \in Tracked(i, d) /\ tracked[i][d] = call
      BY <1>a, <2>1, <2>3 DEF Tracked
    <3>2. d # c
      BY <1>m, <2>1, <2>3, <3>1
    <3>3. CallOK(i, d, call)
      BY <3>1, <1>t DEF TrackedInv
    <3>4. Coherent(i, call)' /\ Placed(i, call)'
      BY <3>3, <1>h, CoherentKept, PlacedKept DEF CallOK
    <3>5. host'[d] = host[d]
      BY <3>2, <1>h
    <3> QED BY <3>3, <3>4, <3>5 DEF CallOK, Begun
  <2> QED BY <2>2, <2>3
<1> QED BY <1>1, <1>a DEF TrackedInv

(* Executions are numbered upwards: one that is over stays so. *)
LEMMA OverKept ==
  ASSUME NEW c \in Calls, HostInv, HostStep(c), NEW CONSTANT x, Known(x)
  PROVE Known(x)' /\ (Over(x) => Over(x)')
<1>1. /\ \A d \in Calls : host'[d].op = host[d].op /\ host'[d].executions >= host[d].executions
      /\ \A d \in Calls \ {c} : host'[d] = host[d]
      /\ \A t \in ToolCallIds :
           host'[c].tools[t] # "idle" =>
             \/ host[c].tools[t] # "idle" /\ host'[c].running[t] = host[c].running[t]
             \/ host'[c].running[t] > host[c].executions
  BY DEF HostStep
<1>2. x[1] \in Calls /\ x[2] \in Nat /\ Begun(x[1]) /\ x[2] <= host[x[1]].executions
  BY DEF Known, IsExecution
<1>3. \A d \in Calls : host[d].executions \in Nat /\ host'[d].executions \in Nat
  BY DEF HostInv, HostStep, IsHost
<1>4. Known(x)'
  BY <1>1, <1>2, <1>3 DEF Known, IsExecution, Begun
<1>5. ASSUME Over(x), NEW t \in ToolCallIds, host'[x[1]].tools[t] # "idle"
      PROVE host'[x[1]].running[t] # x[2]
  <2>1. CASE x[1] # c
    BY <2>1, <1>1, <1>2, <1>5 DEF Over
  <2>2. CASE x[1] = c
    <3>1. CASE host[c].tools[t] # "idle" /\ host'[c].running[t] = host[c].running[t]
      BY <3>1, <2>2, <1>5 DEF Over
    <3>2. CASE host'[c].running[t] > host[c].executions
      <4>1. host'[c].running[t] \in Nat
        BY DEF HostStep, HostInv, IsHost
      <4> QED BY <3>2, <4>1, <2>2, <1>2, <1>3
    <3> QED BY <3>1, <3>2, <2>2, <1>1, <1>5
  <2> QED BY <2>1, <2>2
<1> QED BY <1>4, <1>5 DEF Over

(* A hook's own call, before and after, at an integration that it met. *)
LEMMA MetCall ==
  ASSUME VercelInv, NEW c \in Calls, NEW did, HookStep(c, did), NEW i \in Met(c)
  PROVE /\ i \in Integrations /\ CallOK(i, c, tracked[i][c]) /\ tracked[i][c] \in Tracked(i, c)
        /\ CallStep(c, tracked[i][c], did[i].call)
        /\ PartsStep(i, c, tracked[i][c], did[i].call, did[i].parts)
        /\ Tracked(i, c)' = {did[i].call} \ {None}
<1>1. TrackedInv
  BY DEF VercelInv
<1>2. i \in Integrations /\ tracked[i][c] # None /\ CallOK(i, c, tracked[i][c])
  BY <1>1, MetAll
<1>3. tracked'[i][c] = did[i].call
  BY <1>2, TrackedAfter
<1> QED BY <1>2, <1>3 DEF HookStep, Tracked

LEMMA IssuedKept ==
  ASSUME VercelInv, NEW c \in Calls, NEW did, HookStep(c, did),
         NEW CONSTANT i \in Integrations, NEW CONSTANT s, Issued(i, s)
  PROVE Issued(i, s)'
<1>b. \A d \in Calls : Begun(d) => Begun(d)'
  BY DEF HookStep, HostStep, Begun
<1>1. ASSUME NEW d \in Calls, NEW new \in Tracked(i, d)'
      PROVE \E old \in Tracked(i, d) :
              \/ new = old
              \/ d = c /\ CallStep(c, old, new) /\ CallOK(i, c, old)
  <2>1. CASE d = c /\ i \in Met(c)
    BY <2>1, MetCall
  <2>2. CASE ~(d = c /\ i \in Met(c))
    <3>1. tracked'[i][d] = tracked[i][d]
      BY <2>2, TrackedAfter
    <3> QED BY <3>1 DEF Tracked
  <2> QED BY <2>1, <2>2
<1>2. \A old, new : CallStep(c, old, new) /\ CallOK(i, c, old) =>
        /\ old.modelCalls \in Nat /\ new.modelCalls \in Nat /\ new.modelCalls >= old.modelCalls
        /\ old.rerankCalls \in Nat /\ new.rerankCalls \in Nat /\ new.rerankCalls >= old.rerankCalls
        /\ old.toolCalls \in Nat /\ new.toolCalls \in Nat /\ new.toolCalls >= old.toolCalls
  BY DEF CallStep, CallOK, IsCall
<1>3. CASE /\ s = <<"model", s[2], s[3]>> /\ s[2] \in Calls /\ s[3] \in Nat /\ Begun(s[2])
           /\ \A call \in Tracked(i, s[2]) : s[3] < call.modelCalls
  <2>1. \A call \in Tracked(i, s[2])' : s[3] < call.modelCalls
    BY <1>3, <1>1, <1>2
  <2> QED BY <2>1, <1>3, <1>b DEF Issued
<1>4. CASE /\ s = <<"rerank", s[2], s[3]>> /\ s[2] \in Calls /\ s[3] \in Nat /\ Begun(s[2])
           /\ \A call \in Tracked(i, s[2]) : s[3] < call.rerankCalls
  <2>1. \A call \in Tracked(i, s[2])' : s[3] < call.rerankCalls
    BY <1>4, <1>1, <1>2
  <2> QED BY <2>1, <1>4, <1>b DEF Issued
<1>5. CASE s = <<"embed", s[2]>>
  BY <1>5 DEF Issued
<1>6. CASE /\ s = <<"tool", s[2], s[3], s[4]>> /\ s[2] \in Calls /\ s[3] \in Nat /\ Begun(s[2])
           /\ s[4] \in ToolCallIds
           /\ \A call \in Tracked(i, s[2]) :
                /\ s[3] < call.toolCalls
                /\ \A t \in ToolCallIds : call.openToolSpans[t] # s
  <2>n. s # None
    <3>1. s \in {"tool"} \X Calls \X Nat \X ToolCallIds
      BY <1>6
    <3> QED BY <3>1, NoneDistinct
  <2>1. ASSUME NEW new \in Tracked(i, s[2])'
        PROVE s[3] < new.toolCalls /\ \A t \in ToolCallIds : new.openToolSpans[t] # s
    <3>1. PICK old \in Tracked(i, s[2]) :
            \/ new = old
            \/ s[2] = c /\ CallStep(c, old, new) /\ CallOK(i, c, old)
      BY <1>1, <1>6
    <3>2. s[3] < old.toolCalls /\ \A t \in ToolCallIds : old.openToolSpans[t] # s
      BY <1>6
    <3>3. CASE new = old
      BY <3>3, <3>2
    <3>4. CASE s[2] = c /\ CallStep(c, old, new) /\ CallOK(i, c, old)
      <4>1. s[3] < new.toolCalls
        BY <3>4, <3>2, <1>2, <1>6
      <4>2. ASSUME NEW t \in ToolCallIds, new.openToolSpans[t] = s PROVE FALSE
        <5> DEFINE o == new.openToolSpans[t]
        <5>1. \/ o \in {old.openToolSpans[t], None}
              \/ o[3] \in Nat /\ old.toolCalls <= o[3]
          BY <3>4 DEF CallStep
        <5>2. old.toolCalls \in Nat /\ o = s
          BY <3>4, <1>2, <4>2
        <5> HIDE DEF o
        <5> QED BY <5>1, <5>2, <3>2, <2>n, <1>6
      <4> QED BY <4>1, <4>2
    <3> QED BY <3>1, <3>3, <3>4
  <2> QED BY <2>1, <1>6, <1>b DEF Issued
<1> QED BY <1>3, <1>4, <1>5, <1>6 DEF Issued

(* A span recorded now differs from every span given away before. *)
LEMMA FreshSpan ==
  ASSUME VercelInv, NEW c \in Calls, NEW i \in Integrations, NEW old \in Tracked(i, c), NEW new,
         NEW s, CallOK(i, c, old), NewSpan(i, c, old, new, s), NEW r \in Logged(i)
  PROVE r.spanId # s
<1> DEFINE z == r.spanId
<1>1. Issued(i, z)
  BY DEF VercelInv, LogInv, RecordOK
<1>2. old.modelCalls \in Nat /\ old.rerankCalls \in Nat /\ old.toolCalls \in Nat
  BY DEF CallOK, IsCall
<1> SUFFICES z # s
  OBVIOUS
<1>3. CASE s = <<"embed", s[2]>> /\ \A q \in Logged(i) : q.spanId # s
  BY <1>3
<1> HIDE DEF z
<1>4. CASE s = <<"model", c, old.modelCalls>>
  BY <1>4, <1>1, <1>2 DEF Issued
<1>5. CASE s = <<"rerank", c, old.rerankCalls>>
  BY <1>5, <1>1, <1>2 DEF Issued
<1>6. CASE /\ s = <<"tool", c, s[3], s[4]>> /\ s[4] \in ToolCallIds /\ s[3] \in Nat
           /\ \/ old.toolCalls <= s[3]
              \/ s = old.openToolSpans[s[4]]
  BY <1>6, <1>1, <1>2 DEF Issued
<1> QED BY <1>3, <1>4, <1>5, <1>6 DEF NewSpan

(* The record a hook submits is as the invariant wants it. *)
LEMMA NewRecord ==
  ASSUME VercelInv, NEW c \in Calls, NEW did, HookStep(c, did), NEW CONSTANT i \in Met(c),
         did[i].parts.spanId # None,
         NEW CONSTANT r, r = Record(i, did[i].call, did[i].parts)
  PROVE RecordOK(i, r)'
<1> DEFINE old == tracked[i][c]
           new == did[i].call
           parts == did[i].parts
<1>1. /\ i \in Integrations /\ CallOK(i, c, old) /\ old \in Tracked(i, c)
      /\ CallStep(c, old, new) /\ PartsStep(i, c, old, new, parts)
      /\ Tracked(i, c)' = {new} \ {None}
  BY MetCall
<1>2. /\ r.run = new.run /\ r.parent = new.parent /\ r.name = new.name
      /\ r.runType = new.runType /\ r.attribution = new.attribution
      /\ r.spanId = parts.spanId /\ r.usage = parts.usage /\ r.execution = parts.execution
  BY DEF Record
<1>3. PICK o : o = old
  OBVIOUS
<1>4. /\ r.run = o.run /\ r.parent = o.parent /\ r.name = o.name
      /\ r.runType = o.runType /\ r.attribution = o.attribution
  BY <1>1, <1>2, <1>3 DEF CallStep, Kin
<1>5. Coherent(i, o) /\ Placed(i, o)
  BY <1>1, <1>3 DEF CallOK
<1>h. /\ \A d \in Calls : host'[d].op = host[d].op
      /\ contexts \subseteq contexts' /\ Begun(c) /\ HostStep(c)
  BY DEF HookStep, HostStep
<1>6. Coherent(i, r)' /\ Placed(i, r)'
  BY <1>4, <1>5, <1>h, CoherentKept, PlacedKept
<1>7. /\ NewSpan(i, c, old, new, parts.spanId) /\ Bounded(parts.usage)
      /\ parts.execution # None => Ends(c, old, parts)
  BY <1>1 DEF PartsStep
<1>8. Issued(i, r.spanId)'
  <2>1. \A call \in Tracked(i, c)' : call = new
    BY <1>1
  <2>2. Begun(c)'
    BY <1>h DEF Begun
  <2>3. old.modelCalls \in Nat /\ old.rerankCalls \in Nat
    BY <1>1 DEF CallOK, IsCall
  <2>4. PICK s : s = r.spanId
    OBVIOUS
  <2>5. NewSpan(i, c, old, new, s)
    BY <2>4, <1>7, <1>2
  <2> SUFFICES Issued(i, s)'
    BY <2>4
  <2> HIDE DEF old, new
  <2>6. CASE s = <<"model", c, old.modelCalls>> /\ old.modelCalls < new.modelCalls
    BY <2>6, <2>1, <2>2, <2>3 DEF Issued
  <2>7. CASE s = <<"rerank", c, old.rerankCalls>> /\ old.rerankCalls < new.rerankCalls
    BY <2>7, <2>1, <2>2, <2>3 DEF Issued
  <2>8. CASE s = <<"embed", s[2]>>
    BY <2>8 DEF Issued
  <2>9. CASE /\ s = <<"tool", c, s[3], s[4]>> /\ s[4] \in ToolCallIds /\ s[3] \in Nat
             /\ s[3] < new.toolCalls /\ \A t \in ToolCallIds : new.openToolSpans[t] # s
    BY <2>9, <2>1, <2>2 DEF Issued
  <2> QED BY <2>5, <2>6, <2>7, <2>8, <2>9 DEF NewSpan
<1>9. ASSUME r.execution # None PROVE Known(r.execution)' /\ Over(r.execution)'
  <2>1. PICK t \in ToolCallIds :
          /\ host[c].tools[t] # "idle" /\ host'[c].tools[t] = "idle"
          /\ r.execution = <<c, host[c].running[t]>>
          /\ \A u \in ToolCallIds \ {t} : host'[c].tools[u] = host[c].tools[u]
          /\ host'[c].running = host[c].running
    BY <1>9, <1>7, <1>2 DEF Ends
  <2>2. PICK x : x = r.execution
    OBVIOUS
  <2>3. IsHost(host[c]) /\ HostInv /\ HostInv'
    BY <1>h DEF VercelInv, HostInv, HostStep
  <2>4. host[c].running[t] \in Nat /\ host[c].running[t] <= host[c].executions
    BY <2>3 DEF IsHost
  <2>5. Known(x)
    BY <2>1, <2>2, <2>4, <1>h DEF Known, IsExecution
  <2>6. Known(x)'
    BY <2>3, <2>5, <1>h, OverKept
  <2>7. ASSUME NEW u \in ToolCallIds, host'[c].tools[u] # "idle" PROVE host'[c].running[u] # x[2]
    <3>1. u # t /\ host[c].tools[u] # "idle" /\ host'[c].running[u] = host[c].running[u]
      BY <2>1, <2>7
    <3>2. host[c].running[u] # host[c].running[t]
      BY <3>1, <2>1, <2>3 DEF IsHost
    <3> QED BY <3>1, <3>2, <2>1, <2>2
  <2>8. Over(x)'
    BY <2>1, <2>2, <2>7 DEF Over
  <2> QED BY <2>2, <2>6, <2>8
<1> QED BY <1>6, <1>7, <1>2, <1>8, <1>9 DEF RecordOK, Bounded

(* What each integration has logged after a hook of c. *)
LEMMA LogAfter ==
  ASSUME VercelInv, NEW c \in Calls, NEW did, HookStep(c, did)
  PROVE /\ DOMAIN log' = Integrations /\ DOMAIN steps' = Integrations
        /\ \A i \in Integrations :
             \/ log'[i] = log[i] /\ steps'[i] = steps[i]
             \/ /\ i \in Met(c) /\ did[i].parts.spanId # None
                /\ log'[i] = Append(log[i], Record(i, did[i].call, did[i].parts))
                /\ steps'[i] = [steps[i] EXCEPT ![did[i].call.run] = @ + 1]
<1> DEFINE recorded == {i \in Met(c) : did[i].parts.spanId # None}
<1>1. /\ log' = [i \in Integrations |->
           IF i \in recorded THEN Append(log[i], Record(i, did[i].call, did[i].parts)) ELSE log[i]]
      /\ steps' = [i \in Integrations |->
           IF i \in recorded THEN [steps[i] EXCEPT ![StepOwner(did[i].call)] = @ + 1] ELSE steps[i]]
  BY DEF HookStep, Submit
<1>2. \A i : StepOwner(did[i].call) = did[i].call.run
  BY DEF StepOwner
<1> HIDE DEF recorded
<1>3. /\ DOMAIN log' = Integrations /\ DOMAIN steps' = Integrations
      /\ \A i \in Integrations :
           \/ log'[i] = log[i] /\ steps'[i] = steps[i]
           \/ /\ i \in recorded
              /\ log'[i] = Append(log[i], Record(i, did[i].call, did[i].parts))
              /\ steps'[i] = [steps[i] EXCEPT ![did[i].call.run] = @ + 1]
  BY <1>1, <1>2
<1> QED BY <1>3 DEF recorded

LEMMA LogStep ==
  ASSUME VercelInv, NEW c \in Calls, NEW did, HookStep(c, did)
  PROVE LogInv' /\ SpansUnique'
<1>l. LogInv /\ SpansUnique /\ HostInv
  BY DEF VercelInv
<1>b. /\ DOMAIN log' = Integrations /\ DOMAIN steps' = Integrations
      /\ \A i \in Integrations :
           \/ log'[i] = log[i] /\ steps'[i] = steps[i]
           \/ /\ i \in Met(c) /\ did[i].parts.spanId # None
              /\ log'[i] = Append(log[i], Record(i, did[i].call, did[i].parts))
              /\ steps'[i] = [steps[i] EXCEPT ![did[i].call.run] = @ + 1]
  BY LogAfter
<1>a. /\ DOMAIN log' = Integrations
      /\ \A i \in Integrations :
           \/ log'[i] = log[i]
           \/ /\ i \in Met(c) /\ did[i].parts.spanId # None
              /\ log'[i] = Append(log[i], Record(i, did[i].call, did[i].parts))
  BY <1>b
<1>h. /\ \A d \in Calls : host'[d].op = host[d].op
      /\ contexts \subseteq contexts' /\ HostStep(c)
  BY DEF HookStep, HostStep
<1>1. ASSUME NEW CONSTANT i \in Integrations, NEW CONSTANT r \in Logged(i)
      PROVE RecordOK(i, r)'
  <2>1. RecordOK(i, r)
    BY <1>l DEF LogInv
  <2>2. PICK s : s = r.spanId
    OBVIOUS
  <2>3. Issued(i, s)'
    BY <2>1, <2>2, IssuedKept DEF RecordOK
  <2>4. PICK x : x = r.execution
    OBVIOUS
  <2>5. x # None => Known(x)' /\ Over(x)'
    BY <2>1, <2>4, <1>l, <1>h, OverKept DEF RecordOK
  <2>6. Coherent(i, r)' /\ Placed(i, r)'
    BY <2>1, <1>h, CoherentKept, PlacedKept DEF RecordOK
  <2> QED BY <2>1, <2>2, <2>3, <2>4, <2>5, <2>6 DEF RecordOK
<1>2. ASSUME NEW CONSTANT i \in Integrations
      PROVE /\ log'[i] \in Seq(Logged(i)') /\ \A r \in Logged(i)' : RecordOK(i, r)'
            /\ \A j, k \in DOMAIN log'[i] : log'[i][j].spanId = log'[i][k].spanId => j = k
  <2>1. CASE log'[i] = log[i]
    <3>1. Logged(i)' = Logged(i)
      BY <2>1 DEF Logged
    <3>2. log[i] \in Seq(Logged(i))
      BY <1>l DEF LogInv
    <3> QED BY <2>1, <3>1, <3>2, <1>1, <1>l DEF SpansUnique
  <2>2. CASE /\ i \in Met(c) /\ did[i].parts.spanId # None
             /\ log'[i] = Append(log[i], Record(i, did[i].call, did[i].parts))
    <3>1. PICK r : r = Record(i, did[i].call, did[i].parts)
      OBVIOUS
    <3>2. RecordOK(i, r)'
      BY <2>2, <3>1, NewRecord
    <3>3. log[i] \in Seq(Logged(i))
      BY <1>l DEF LogInv
    <3> DEFINE n == Len(log[i]) + 1
    <3>4. /\ Len(log[i]) \in Nat /\ DOMAIN log[i] = 1..Len(log[i])
          /\ log'[i] \in Seq(Logged(i) \cup {r})
          /\ DOMAIN log'[i] = DOMAIN log[i] \cup {n} /\ n \notin DOMAIN log[i]
          /\ log'[i][n] = r /\ \A k \in DOMAIN log[i] : log'[i][k] = log[i][k]
      BY <2>2, <3>1, <3>3, AppendParts
    <3> HIDE DEF n
    <3>5. Logged(i)' = Logged(i) \cup {r}
      BY <3>4 DEF Logged
    <3>6. r.spanId = did[i].parts.spanId
      BY <3>1 DEF Record
    <3>7. \A q \in Logged(i) : q.spanId # r.spanId
      BY <3>6, <2>2, MetCall, FreshSpan DEF PartsStep
    <3>8. \A k \in DOMAIN log[i] : log[i][k].spanId # r.spanId
      BY <3>7 DEF Logged
    <3>9. \A j, k \in DOMAIN log'[i] : log'[i][j].spanId = log'[i][k].spanId => j = k
      BY <3>4, <3>8, <1>l DEF SpansUnique
    <3>10. \A q \in Logged(i)' : RecordOK(i, q)'
      BY <3>5, <3>2, <1>1
    <3> QED BY <3>4, <3>5, <3>9, <3>10
  <2> QED BY <2>1, <2>2, <1>a
<1> QED BY <1>2, <1>a DEF LogInv, SpansUnique

(* The records of a run are numbered in the order they are submitted. *)
LEMMA StepsStep ==
  ASSUME VercelInv, NEW c \in Calls, NEW did, HookStep(c, did)
  PROVE StepsInv'
<1>l. LogInv /\ StepsInv
  BY DEF VercelInv
<1>a. /\ DOMAIN log' = Integrations /\ DOMAIN steps' = Integrations
      /\ \A i \in Integrations :
           \/ log'[i] = log[i] /\ steps'[i] = steps[i]
           \/ /\ i \in Met(c) /\ did[i].parts.spanId # None
              /\ log'[i] = Append(log[i], Record(i, did[i].call, did[i].parts))
              /\ steps'[i] = [steps[i] EXCEPT ![did[i].call.run] = @ + 1]
  BY LogAfter
<1>1. ASSUME NEW i \in Integrations
      PROVE /\ DOMAIN steps'[i] = Calls
            /\ \A d \in Calls :
                 steps'[i][d] = Cardinality({j \in DOMAIN log'[i] : log'[i][j].run = d})
            /\ \A k \in DOMAIN log'[i] :
                 log'[i][k].step = Cardinality({j \in 1..(k - 1) : log'[i][j].run = log'[i][k].run})
  <2>1. CASE log'[i] = log[i] /\ steps'[i] = steps[i]
    BY <2>1, <1>l DEF StepsInv
  <2>2. CASE /\ i \in Met(c) /\ did[i].parts.spanId # None
             /\ log'[i] = Append(log[i], Record(i, did[i].call, did[i].parts))
             /\ steps'[i] = [steps[i] EXCEPT ![did[i].call.run] = @ + 1]
    <3>1. PICK r : r = Record(i, did[i].call, did[i].parts)
      OBVIOUS
    <3>2. /\ did[i].call.run = tracked[i][c].run /\ tracked[i][c].run \in Calls
          /\ r.run = did[i].call.run
      <4>1. CallOK(i, c, tracked[i][c]) /\ CallStep(c, tracked[i][c], did[i].call)
        BY <2>2, MetCall
      <4>2. Kin(tracked[i][c], did[i].call) /\ Coherent(i, tracked[i][c])
        BY <4>1 DEF CallStep, CallOK
      <4>3. r.run = did[i].call.run
        BY <3>1 DEF Record
      <4> QED BY <4>2, <4>3 DEF Kin, Coherent
    <3>3. r.step = steps[i][r.run]
      BY <3>1, <3>2 DEF Record, StepOwner
    <3>4. log[i] \in Seq(Logged(i))
      BY <1>l DEF LogInv
    <3> DEFINE n == Len(log[i]) + 1
               Of(d) == {j \in DOMAIN log[i] : log[i][j].run = d}
    <3>5. /\ Len(log[i]) \in Nat /\ DOMAIN log[i] = 1..Len(log[i])
          /\ DOMAIN log'[i] = DOMAIN log[i] \cup {n} /\ n \notin DOMAIN log[i]
          /\ log'[i][n] = r /\ \A k \in DOMAIN log[i] : log'[i][k] = log[i][k]
      BY <2>2, <3>1, <3>4, AppendParts
    <3>6. /\ DOMAIN steps[i] = Calls
          /\ \A d \in Calls : steps[i][d] = Cardinality(Of(d))
          /\ \A k \in DOMAIN log[i] :
               log[i][k].step = Cardinality({j \in 1..(k - 1) : log[i][j].run = log[i][k].run})
      BY <1>l DEF StepsInv
    <3>7. ASSUME NEW d \in Calls
          PROVE steps'[i][d] = Cardinality({j \in DOMAIN log'[i] : log'[i][j].run = d})
      <4> DEFINE Now == {j \in DOMAIN log'[i] : log'[i][j].run = d}
      <4>1. IsFiniteSet(Of(d))
        <5>1. IsFiniteSet(1..Len(log[i]))
          BY <3>5, FS_Interval
        <5> QED BY <5>1, <3>5, FS_Subset
      <4>2. CASE d = r.run
        <5>1. Now = Of(d) \cup {n}
          BY <4>2, <3>5
        <5>2. n \notin Of(d)
          BY <3>5
        <5>3. Cardinality(Now) = Cardinality(Of(d)) + 1
          BY <5>1, <5>2, <4>1, FS_AddElement
        <5> QED BY <5>3, <4>2, <2>2, <3>2, <3>6
      <4>3. CASE d # r.run
        <5>1. Now = Of(d)
          BY <4>3, <3>5
        <5> QED BY <5>1, <4>3, <2>2, <3>2, <3>6
      <4> QED BY <4>2, <4>3
    <3>8. ASSUME NEW k \in DOMAIN log'[i]
          PROVE log'[i][k].step
                  = Cardinality({j \in 1..(k - 1) : log'[i][j].run = log'[i][k].run})
      <4>1. CASE k = n
        <5>1. 1..(k - 1) = DOMAIN log[i]
          BY <4>1, <3>5
        <5>2. {j \in 1..(k - 1) : log'[i][j].run = log'[i][k].run} = Of(r.run)
          BY <5>1, <4>1, <3>5
        <5> QED BY <5>2, <4>1, <3>2, <3>3, <3>5, <3>6
      <4>2. CASE k # n
        <5>1. k \in DOMAIN log[i] /\ \A j \in 1..(k - 1) : j \in DOMAIN log[i]
          BY <4>2, <3>5
        <5>2. {j \in 1..(k - 1) : log'[i][j].run = log'[i][k].run}
                = {j \in 1..(k - 1) : log[i][j].run = log[i][k].run}
          BY <5>1, <3>5
        <5> QED BY <5>1, <5>2, <3>5, <3>6
      <4> QED BY <4>1, <4>2
    <3>9. DOMAIN steps'[i] = Calls
      BY <2>2, <3>6
    <3> QED BY <3>7, <3>8, <3>9
  <2> QED BY <2>1, <2>2, <1>a
<1> QED BY <1>1, <1>a DEF StepsInv

(* A span that is active stays the span of its execution. *)
LEMMA ActiveKept ==
  ASSUME VercelInv, NEW c \in Calls, NEW did, HookStep(c, did),
         NEW CONSTANT active, ActiveOK(active)
  PROVE ActiveOK(active)'
<1>h. /\ \A d \in Calls : host'[d].op = host[d].op
      /\ HostStep(c) /\ HostInv /\ HostInv'
      /\ \A d \in Calls \ {c} : host'[d] = host[d]
      /\ \A t \in ToolCallIds :
           host'[c].tools[t] # "idle" =>
             \/ host[c].tools[t] # "idle" /\ host'[c].running[t] = host[c].running[t]
             \/ host'[c].running[t] > host[c].executions
  BY DEF HookStep, HostStep, VercelInv
<1>i. PICK i : i = active.tracker
  OBVIOUS
<1>x. PICK x : x = active.execution
  OBVIOUS
<1>1. /\ i \in Integrations /\ Coherent(i, active.call) /\ Known(x)
      /\ \A t \in ToolCallIds : \A call \in Tracked(i, x[1]) :
           host[x[1]].tools[t] # "idle" /\ host[x[1]].running[t] = x[2]
             => call.openToolSpans[t] = active.spanId
      /\ \A r \in Logged(i) : r.execution = x => r.spanId = active.spanId
  BY <1>i, <1>x DEF ActiveOK
<1>2. Known(x)'
  BY <1>1, <1>h, OverKept
<1>3. Coherent(i, active.call)'
  <2>1. PICK y : y = active.call
    OBVIOUS
  <2> QED BY <2>1, <1>1, <1>h, CoherentKept
<1>k. x[1] \in Calls /\ x[2] \in Nat /\ x[2] <= host[x[1]].executions
  BY <1>1 DEF Known, IsExecution
<1>4. ASSUME NEW t \in ToolCallIds, NEW call \in Tracked(i, x[1])',
             host'[x[1]].tools[t] # "idle", host'[x[1]].running[t] = x[2]
      PROVE call.openToolSpans[t] = active.spanId
  <2>1. CASE x[1] # c
    <3>1. tracked'[i][x[1]] = tracked[i][x[1]]
      BY <2>1, <1>1, <1>k, TrackedAfter
    <3>2. call \in Tracked(i, x[1])
      BY <3>1 DEF Tracked
    <3> QED BY <3>2, <2>1, <1>4, <1>1, <1>h, <1>k
  <2>2. CASE x[1] = c
    <3>1. host[c].executions \in Nat
      BY <1>h DEF HostInv, IsHost
    <3>2. host[c].tools[t] # "idle" /\ host[c].running[t] = x[2]
      BY <3>1, <2>2, <1>h, <1>k, <1>4
    <3>3. CASE i \in Met(c)
      <4> DEFINE old == tracked[i][c]
      <4>1. /\ CallOK(i, c, old) /\ old \in Tracked(i, c) /\ CallStep(c, old, call)
        BY <3>3, <2>2, MetCall
      <4>2. old.openToolSpans[t] = active.spanId /\ old.openToolSpans[t] # None
        BY <4>1, <3>2, <2>2, <1>1 DEF CallOK
      <4>3. call.openToolSpans[t] # None
        BY <4>1, <1>4, <2>2 DEF CallStep
      <4>4. \/ call.openToolSpans[t] \in {old.openToolSpans[t], None}
            \/ old.openToolSpans[t] = None
        BY <4>1 DEF CallStep
      <4> QED BY <4>2, <4>3, <4>4
    <3>4. CASE i \notin Met(c)
      <4>1. tracked'[i][c] = tracked[i][c]
        BY <3>4, <1>1, TrackedAfter
      <4>2. call \in Tracked(i, x[1])
        BY <4>1, <2>2 DEF Tracked
      <4> QED BY <4>2, <3>2, <2>2, <1>1
    <3> QED BY <3>3, <3>4
  <2> QED BY <2>1, <2>2
<1>5. ASSUME NEW r \in Logged(i)', r.execution = x PROVE r.spanId = active.spanId
  <2>1. /\ DOMAIN log' = Integrations /\ DOMAIN steps' = Integrations
        /\ \A j \in Integrations :
             \/ log'[j] = log[j] /\ steps'[j] = steps[j]
             \/ /\ j \in Met(c) /\ did[j].parts.spanId # None
                /\ log'[j] = Append(log[j], Record(j, did[j].call, did[j].parts))
                /\ steps'[j] = [steps[j] EXCEPT ![did[j].call.run] = @ + 1]
    BY LogAfter
  <2>2. CASE r \in Logged(i)
    BY <2>2, <1>1, <1>5
  <2>3. CASE r \notin Logged(i)
    <3>1. log'[i] # log[i]
      BY <2>3 DEF Logged
    <3>2. /\ i \in Met(c) /\ did[i].parts.spanId # None
          /\ log'[i] = Append(log[i], Record(i, did[i].call, did[i].parts))
      BY <3>1, <2>1, <1>1
    <3>3. log[i] \in Seq(Logged(i))
      BY <1>1 DEF VercelInv, LogInv
    <3>4. PICK q : q = Record(i, did[i].call, did[i].parts)
      OBVIOUS
    <3>5. /\ DOMAIN log'[i] = DOMAIN log[i] \cup {Len(log[i]) + 1}
          /\ log'[i][Len(log[i]) + 1] = q /\ \A k \in DOMAIN log[i] : log'[i][k] = log[i][k]
      BY <3>2, <3>3, <3>4, AppendParts
    <3>6. r = q
      BY <3>5, <2>3 DEF Logged
    <3>7. r.spanId = did[i].parts.spanId /\ did[i].parts.execution = x
      BY <3>4, <3>6, <1>5 DEF Record
    <3>8. x # None
      BY <1>k, <1>1, NoneDistinct DEF Known, IsExecution
    <3>9. /\ tracked[i][c] \in Tracked(i, c)
          /\ Ends(c, tracked[i][c], did[i].parts)
      BY <3>2, <3>7, <3>8, MetCall DEF PartsStep
    <3>10. PICK t \in ToolCallIds :
             /\ host[c].tools[t] # "idle" /\ x = <<c, host[c].running[t]>>
             /\ r.spanId = tracked[i][c].openToolSpans[t]
      BY <3>9, <3>7 DEF Ends
    <3> QED BY <3>9, <3>10, <1>1
  <2> QED BY <2>2, <2>3
<1> QED BY <1>i, <1>x, <1>1, <1>2, <1>3, <1>4, <1>5 DEF ActiveOK

(* A hook keeps the invariant, if the contexts it makes are sound. *)
LEMMA HookKeeps ==
  ASSUME VercelInv, NEW c \in Calls, NEW did, HookStep(c, did),
         \A context \in contexts' \ contexts : ContextOK(context)'
  PROVE VercelInv'
<1>1. ASSUME NEW CONSTANT context \in contexts PROVE ContextOK(context)'
  <2>1. ContextOK(context)
    BY DEF VercelInv, ContextsInv
  <2>2. ASSUME NEW CONSTANT d \in DOMAIN context PROVE ActiveOK(context[d])'
    <3>1. PICK active : active = context[d]
      OBVIOUS
    <3>2. ActiveOK(active)
      BY <2>1, <3>1 DEF ContextOK
    <3> QED BY <3>1, <3>2, ActiveKept
  <2> QED BY <2>1, <2>2 DEF ContextOK
<1>2. ContextsInv'
  BY <1>1 DEF ContextsInv
<1>3. HostInv'
  BY DEF HookStep, HostStep
<1> QED BY <1>2, <1>3, TrackedStep, LogStep, StepsStep DEF VercelInv
-----------------------------------------------------------------------------
(* Hooks.                                                                  *)

(* An event other than a tool's leaves the executions alone. *)
LEMMA EventHost ==
  ASSUME HostInv, NEW c \in Calls, NEW op \in Operations, Event(c, op)
  PROVE /\ HostStep(c) /\ Begun(c) /\ host[c].op = op /\ contexts' = contexts
        /\ host'[c].tools = host[c].tools
<1>1. host[c].op = op /\ contexts' = contexts /\ Begun(c)
  BY NoneDistinct DEF Event, Begun
<1>2. host' = host \/ host' = [host EXCEPT ![c].events = @ + 1]
  BY DEF Event
<1>3. DOMAIN host = Calls /\ \A d \in Calls : IsHost(host[d]) /\ host[d].context \in contexts
  BY DEF HostInv
<1>4. /\ DOMAIN host' = Calls /\ \A d \in Calls \ {c} : host'[d] = host[d]
      /\ host'[c] = host[c] \/ host'[c] = [host[c] EXCEPT !.events = @ + 1]
  BY <1>2, <1>3
<1>5. IsHost(host[c])
  BY <1>3
<1>6. /\ host'[c].op = host[c].op /\ host'[c].context = host[c].context
      /\ host'[c].executions = host[c].executions
      /\ host'[c].tools = host[c].tools /\ host'[c].running = host[c].running
      /\ host'[c] = [op |-> host'[c].op, context |-> host'[c].context, events |-> host'[c].events,
                     executions |-> host'[c].executions, tools |-> host'[c].tools,
                     running |-> host'[c].running]
  BY <1>4, <1>5 DEF IsHost
<1>7. IsHost(host'[c])
  BY <1>5, <1>6 DEF IsHost
<1>8. HostInv'
  BY <1>1, <1>3, <1>4, <1>6, <1>7 DEF HostInv
<1>9. \A d \in Calls : host[d].executions \in Nat
  BY <1>3 DEF IsHost
<1> QED BY <1>1, <1>4, <1>6, <1>8, <1>9 DEF HostStep

LEMMA HostStays ==
  ASSUME HostInv, NEW c \in Calls, UNCHANGED <<host, contexts>>
  PROVE HostStep(c)
<1>1. HostInv'
  BY DEF HostInv
<1>2. \A d \in Calls : host[d].executions \in Nat
  BY DEF HostInv, IsHost
<1> QED BY <1>1, <1>2 DEF HostStep

(* A hook that leaves the tool spans of its call alone. *)
LEMMA PlainCall ==
  ASSUME NEW i, NEW c, NEW old, NEW new, CallOK(i, c, old), IsCall(new), Kin(old, new),
         new.modelCalls >= old.modelCalls, new.rerankCalls >= old.rerankCalls,
         new.toolCalls = old.toolCalls, new.openToolSpans = old.openToolSpans,
         host'[c].tools = host[c].tools
  PROVE CallStep(c, old, new)
<1>1. old.toolCalls \in Nat
  BY DEF CallOK, IsCall
<1> QED BY <1>1 DEF CallStep, CallOK

LEMMA ModelCallKeeps ==
  ASSUME VercelInv, NEW c \in Calls, NEW resource, OnLanguageModelCallEnd(c, resource)
  PROVE VercelInv'
<1> DEFINE Body(call) ==
       IF resource = None THEN Did(call, NoParts)
       ELSE Did([call EXCEPT !.modelCalls = @ + 1],
                Parts(ModelSpanId(c, call.modelCalls), TRUE, ToLlmUsage(Usages[c]), None))
           did == [i \in Met(c) |-> Body(tracked[i][c])]
<1>1. Submit(c, did) /\ Event(c, "generateText")
  BY DEF OnLanguageModelCallEnd, Hook
<1>2. /\ HostStep(c) /\ Begun(c) /\ contexts' = contexts /\ host'[c].tools = host[c].tools
  BY <1>1, EventHost DEF VercelInv, Operations
<1>3. ASSUME NEW i \in Met(c)
      PROVE /\ CallStep(c, tracked[i][c], did[i].call)
            /\ PartsStep(i, c, tracked[i][c], did[i].call, did[i].parts)
  <2> DEFINE old == tracked[i][c]
             more == [old EXCEPT !.modelCalls = @ + 1]
  <2>1. CallOK(i, c, old)
    BY MetAll DEF VercelInv
  <2>2. IsCall(old)
    BY <2>1 DEF CallOK
  <2>3. did[i] = Body(old)
    OBVIOUS
  <2> HIDE DEF old, did
  <2>4. CASE resource = None
    <3>1. did[i].call = old /\ did[i].parts.spanId = None
      BY <2>3, <2>4 DEF Did, NoParts
    <3>2. old.modelCalls \in Nat /\ old.rerankCalls \in Nat /\ Kin(old, old)
      BY <2>2 DEF IsCall, Kin
    <3> QED BY <3>1, <3>2, <2>1, <2>2, <1>2, PlainCall DEF PartsStep, old
  <2>5. CASE resource # None
    <3>1. /\ did[i].call = more /\ did[i].parts.spanId = <<"model", c, old.modelCalls>>
          /\ did[i].parts.usage = ToLlmUsage(Usages[c]) /\ did[i].parts.execution = None
      BY <2>3, <2>5 DEF Did, Parts, ModelSpanId
    <3>2. /\ IsCall(more) /\ Kin(old, more) /\ more.modelCalls = old.modelCalls + 1
          /\ more.rerankCalls = old.rerankCalls /\ more.toolCalls = old.toolCalls
          /\ more.openToolSpans = old.openToolSpans
      BY <2>2 DEF IsCall, Kin
    <3> HIDE DEF more
    <3>3. old.modelCalls \in Nat /\ old.rerankCalls \in Nat
      BY <2>2 DEF IsCall
    <3>4. CallStep(c, old, more)
      BY <3>2, <3>3, <2>1, <1>2, PlainCall
    <3>5. NewSpan(i, c, old, more, <<"model", c, old.modelCalls>>)
      BY <3>2, <3>3 DEF NewSpan
    <3>6. PartsStep(i, c, old, more, did[i].parts)
      BY <3>1, <3>5, UsageIn DEF PartsStep
    <3> QED BY <3>1, <3>4, <3>6 DEF old
  <2> QED BY <2>4, <2>5
<1> HIDE DEF did
<1>4. HookStep(c, did)
  BY <1>1, <1>2, <1>3 DEF HookStep
<1> QED BY <1>2, <1>4, HookKeeps

LEMMA FieldStep ==
  ASSUME NEW i, NEW c, NEW old, CallOK(i, c, old), host'[c].tools = host[c].tools, NEW e
  PROVE /\ CallStep(c, old, [old EXCEPT !.embeds = e]) /\ CallStep(c, old, [old EXCEPT !.rerank = e])
        /\ LET new == [old EXCEPT !.rerank = e, !.rerankCalls = @ + 1]
           IN CallStep(c, old, new) /\ old.rerankCalls < new.rerankCalls
<1>1. IsCall(old)
  BY DEF CallOK
<1>2. old.modelCalls \in Nat /\ old.rerankCalls \in Nat /\ old.toolCalls \in Nat
  BY <1>1 DEF IsCall
<1>3. PICK new : new = [old EXCEPT !.embeds = e]
  OBVIOUS
<1>4. /\ IsCall(new) /\ Kin(old, new) /\ new.modelCalls = old.modelCalls
      /\ new.rerankCalls = old.rerankCalls /\ new.toolCalls = old.toolCalls
      /\ new.openToolSpans = old.openToolSpans
  BY <1>1, <1>3 DEF IsCall, Kin
<1>5. PICK other : other = [old EXCEPT !.rerank = e]
  OBVIOUS
<1>6. /\ IsCall(other) /\ Kin(old, other) /\ other.modelCalls = old.modelCalls
      /\ other.rerankCalls = old.rerankCalls /\ other.toolCalls = old.toolCalls
      /\ other.openToolSpans = old.openToolSpans
  BY <1>1, <1>5 DEF IsCall, Kin
<1>7. PICK more : more = [other EXCEPT !.rerankCalls = @ + 1]
  OBVIOUS
<1>8. /\ IsCall(more) /\ Kin(old, more) /\ more.modelCalls = old.modelCalls
      /\ more.rerankCalls = old.rerankCalls + 1 /\ more.toolCalls = old.toolCalls
      /\ more.openToolSpans = old.openToolSpans
  BY <1>6, <1>7 DEF IsCall, Kin
<1>9. more = [old EXCEPT !.rerank = e, !.rerankCalls = @ + 1]
  BY <1>1, <1>5, <1>7 DEF IsCall
<1>10. CallStep(c, old, new) /\ CallStep(c, old, other) /\ CallStep(c, old, more)
  BY <1>2, <1>4, <1>6, <1>8, PlainCall
<1>11. old.rerankCalls < more.rerankCalls
  BY <1>2, <1>8
<1> QED BY <1>3, <1>5, <1>9, <1>10, <1>11

LEMMA EmbedStartKeeps ==
  ASSUME VercelInv, NEW c \in Calls, OnEmbedStart(c)
  PROVE VercelInv'
<1> DEFINE Body(call) ==
       Did([call EXCEPT !.embeds = @ \cup {<<c, host[c].events>>}], NoParts)
           did == [i \in Met(c) |-> Body(tracked[i][c])]
<1>1. Submit(c, did) /\ Event(c, "embed")
  BY DEF OnEmbedStart, Hook
<1>2. /\ HostStep(c) /\ Begun(c) /\ contexts' = contexts /\ host'[c].tools = host[c].tools
  BY <1>1, EventHost DEF VercelInv, Operations
<1>3. ASSUME NEW i \in Met(c)
      PROVE /\ CallStep(c, tracked[i][c], did[i].call)
            /\ PartsStep(i, c, tracked[i][c], did[i].call, did[i].parts)
  <2> DEFINE old == tracked[i][c]
             new == [old EXCEPT !.embeds = @ \cup {<<c, host[c].events>>}]
  <2>1. CallOK(i, c, old)
    BY MetAll DEF VercelInv
  <2>3. did[i].call = new /\ did[i].parts.spanId = None
    BY DEF Did, NoParts
  <2> HIDE DEF old, did
  <2>5. CallStep(c, old, new)
    BY <2>1, <1>2, FieldStep
  <2> HIDE DEF new
  <2> QED BY <2>3, <2>5 DEF PartsStep, old
<1> HIDE DEF did
<1>4. HookStep(c, did)
  BY <1>1, <1>2, <1>3 DEF HookStep
<1> QED BY <1>2, <1>4, HookKeeps

(* An embedding's span is its own: no other record has it. *)
LEMMA EmbedEndKeeps ==
  ASSUME VercelInv, NEW c \in Calls, NEW n, NEW resource, OnEmbedEnd(c, n, resource)
  PROVE VercelInv'
<1> DEFINE Rest(call) == [call EXCEPT !.embeds = @ \ {<<c, n>>}]
           Body(call) ==
       IF resource = None THEN Did(Rest(call), NoParts)
       ELSE Did(Rest(call), Parts(EmbedSpanId(<<c, n>>), <<c, n>> \in call.embeds, None, None))
           did == [i \in Met(c) |-> Body(tracked[i][c])]
<1>1. Submit(c, did) /\ UNCHANGED <<host, contexts>>
  BY DEF OnEmbedEnd, Hook
<1>2. HostStep(c) /\ Begun(c) /\ contexts' = contexts /\ host'[c].tools = host[c].tools
  <2>1. host[c].op = "embed"
    BY DEF OnEmbedEnd
  <2>2. Begun(c)
    BY <2>1, NoneDistinct DEF Begun, Operations
  <2> QED BY <1>1, <2>2, HostStays DEF VercelInv
<1>3. ASSUME NEW i \in Met(c)
      PROVE /\ CallStep(c, tracked[i][c], did[i].call)
            /\ PartsStep(i, c, tracked[i][c], did[i].call, did[i].parts)
  <2> DEFINE old == tracked[i][c]
             new == Rest(old)
  <2>1. CallOK(i, c, old) /\ i \in Integrations
    BY MetAll DEF VercelInv
  <2>3. /\ did[i].call = new
        /\ \/ did[i].parts.spanId = None
           \/ /\ did[i].parts.spanId = <<"embed", <<c, n>>>>
              /\ did[i].parts.usage = None /\ did[i].parts.execution = None
    <3>1. did[i] = Body(old)
      OBVIOUS
    <3> HIDE DEF did, old
    <3> QED BY <3>1 DEF Did, NoParts, Parts, EmbedSpanId
  <2> HIDE DEF old, did
  <2>5. CallStep(c, old, new)
    BY <2>1, <1>2, FieldStep
  <2> HIDE DEF new
  <2>6. \A r \in Logged(i) : r.spanId # <<"embed", <<c, n>>>>
    BY <2>1 DEF OnEmbedEnd, EmbedSpanId, Logged
  <2>7. NewSpan(i, c, old, new, <<"embed", <<c, n>>>>)
    BY <2>6 DEF NewSpan
  <2>8. PartsStep(i, c, old, new, did[i].parts)
    BY <2>3, <2>7 DEF PartsStep, Bounded
  <2> QED BY <2>3, <2>5, <2>8 DEF old
<1> HIDE DEF did
<1>4. HookStep(c, did)
  BY <1>1, <1>2, <1>3 DEF HookStep
<1> QED BY <1>2, <1>4, HookKeeps

LEMMA RerankStartKeeps ==
  ASSUME VercelInv, NEW c \in Calls, OnRerankStart(c)
  PROVE VercelInv'
<1> DEFINE Body(call) == Did([call EXCEPT !.rerank = TRUE], NoParts)
           did == [i \in Met(c) |-> Body(tracked[i][c])]
<1>1. Submit(c, did) /\ UNCHANGED <<host, contexts>>
  BY DEF OnRerankStart, Hook
<1>2. HostStep(c) /\ Begun(c) /\ contexts' = contexts /\ host'[c].tools = host[c].tools
  <2>1. host[c].op = "rerank"
    BY DEF OnRerankStart
  <2>2. Begun(c)
    BY <2>1, NoneDistinct DEF Begun, Operations
  <2> QED BY <1>1, <2>2, HostStays DEF VercelInv
<1>3. ASSUME NEW i \in Met(c)
      PROVE /\ CallStep(c, tracked[i][c], did[i].call)
            /\ PartsStep(i, c, tracked[i][c], did[i].call, did[i].parts)
  <2> DEFINE old == tracked[i][c]
             new == [old EXCEPT !.rerank = TRUE]
  <2>1. CallOK(i, c, old)
    BY MetAll DEF VercelInv
  <2>3. did[i].call = new /\ did[i].parts.spanId = None
    BY DEF Did, NoParts
  <2> HIDE DEF old, did
  <2>5. CallStep(c, old, new)
    BY <2>1, <1>2, FieldStep
  <2> HIDE DEF new
  <2> QED BY <2>3, <2>5 DEF PartsStep, old
<1> HIDE DEF did
<1>4. HookStep(c, did)
  BY <1>1, <1>2, <1>3 DEF HookStep
<1> QED BY <1>2, <1>4, HookKeeps

LEMMA RerankEndKeeps ==
  ASSUME VercelInv, NEW c \in Calls, NEW resource, OnRerankEnd(c, resource)
  PROVE VercelInv'
<1> DEFINE Body(call) ==
       IF resource = None THEN Did([call EXCEPT !.rerank = FALSE], NoParts)
       ELSE Did([call EXCEPT !.rerank = FALSE, !.rerankCalls = @ + 1],
                Parts(RerankSpanId(c, call.rerankCalls), call.rerank, None, None))
           did == [i \in Met(c) |-> Body(tracked[i][c])]
<1>1. Submit(c, did) /\ Event(c, "rerank")
  BY DEF OnRerankEnd, Hook
<1>2. /\ HostStep(c) /\ Begun(c) /\ contexts' = contexts /\ host'[c].tools = host[c].tools
  BY <1>1, EventHost DEF VercelInv, Operations
<1>3. ASSUME NEW i \in Met(c)
      PROVE /\ CallStep(c, tracked[i][c], did[i].call)
            /\ PartsStep(i, c, tracked[i][c], did[i].call, did[i].parts)
  <2> DEFINE old == tracked[i][c]
             new == did[i].call
             parts == did[i].parts
  <2>1. CallOK(i, c, old)
    BY MetAll DEF VercelInv
  <2>3. did[i] = Body(old)
    OBVIOUS
  <2>4. \/ new = [old EXCEPT !.rerank = FALSE] /\ parts.spanId = None
        \/ /\ new = [old EXCEPT !.rerank = FALSE, !.rerankCalls = @ + 1]
           /\ parts.spanId = <<"rerank", c, old.rerankCalls>>
           /\ parts.usage = None /\ parts.execution = None
    <3> HIDE DEF did, old
    <3> QED BY <2>3 DEF Did, NoParts, Parts, RerankSpanId
  <2> HIDE DEF old, new, parts, did
  <2>5. CallStep(c, old, new) /\ (parts.spanId = None \/ old.rerankCalls < new.rerankCalls)
    <3> DEFINE more == [old EXCEPT !.rerank = FALSE, !.rerankCalls = @ + 1]
    <3>1. /\ CallStep(c, old, [old EXCEPT !.rerank = FALSE])
          /\ CallStep(c, old, more) /\ old.rerankCalls < more.rerankCalls
      BY <2>1, <1>2, FieldStep
    <3>2. \/ new = [old EXCEPT !.rerank = FALSE] /\ parts.spanId = None
          \/ new = more
      BY <2>4
    <3> HIDE DEF more
    <3> QED BY <3>1, <3>2
  <2>6. PartsStep(i, c, old, new, parts)
    BY <2>4, <2>5 DEF PartsStep, NewSpan, Bounded
  <2> QED BY <2>5, <2>6 DEF old, new, parts
<1> HIDE DEF did
<1>4. HookStep(c, did)
  BY <1>1, <1>2, <1>3 DEF HookStep
<1> QED BY <1>2, <1>4, HookKeeps

(* What a tool hook does to the host's call: only the execution it is about moves. *)
LEMMA ToolHost ==
  ASSUME HostInv, NEW c \in Calls, NEW id \in ToolCallIds, NEW from,
         NEW to \in {"idle", "started", "running"},
         Tool(c, id, from, to), contexts \subseteq contexts'
  PROVE /\ HostStep(c) /\ Begun(c)
        /\ Followed(c) =>
             /\ host'[c].tools = [host[c].tools EXCEPT ![id] = to]
             /\ host[c].tools[id] # "idle" => host'[c].running = host[c].running
<1> DEFINE h == host[c]
           begins == h.tools[id] = "idle"
           number == h.executions + 1
           g == [h EXCEPT !.tools[id] = to, !.running[id] = IF begins THEN number ELSE @,
                          !.executions = IF begins THEN number ELSE @]
<1>1. DOMAIN host = Calls /\ \A d \in Calls : IsHost(host[d]) /\ host[d].context \in contexts
  BY DEF HostInv
<1>2. Begun(c)
  BY NoneDistinct DEF Tool, Begun, Operations
<1>3. \A d \in Calls : host[d].executions \in Nat
  BY <1>1 DEF IsHost
<1>4. CASE ~Followed(c)
  <2>1. host' = host
    BY <1>4 DEF Tool
  <2>2. HostInv'
    BY <2>1, <1>1 DEF HostInv
  <2> QED BY <2>1, <2>2, <1>2, <1>3, <1>4 DEF HostStep
<1>5. CASE Followed(c)
  <2>1. host' = [host EXCEPT ![c].tools[id] = to,
                             ![c].running[id] = IF begins THEN number ELSE @,
                             ![c].executions = IF begins THEN number ELSE @]
    BY <1>5 DEF Tool
  <2>2. DOMAIN host' = Calls /\ \A d \in Calls \ {c} : host'[d] = host[d]
    BY <2>1, <1>1
  <2>3. host'[c] = g
    BY <2>1, <1>1
  <2>4. IsHost(h)
    BY <1>1
  <2> HIDE DEF h
  <2>5. PICK e : e = IF begins THEN number ELSE h.executions
    OBVIOUS
  <2>6. PICK x : x = IF begins THEN number ELSE h.running[id]
    OBVIOUS
  <2>7. PICK k : k = g
    OBVIOUS
  <2>8. /\ k = [op |-> k.op, context |-> k.context, events |-> k.events,
                executions |-> k.executions, tools |-> k.tools, running |-> k.running]
        /\ k.op = h.op /\ k.context = h.context /\ k.executions = e
        /\ k.tools = [h.tools EXCEPT ![id] = to] /\ k.running = [h.running EXCEPT ![id] = x]
    <3>1. PICK p : p = [h EXCEPT !.tools[id] = to]
      OBVIOUS
    <3>2. /\ p = [op |-> h.op, context |-> h.context, events |-> h.events,
                  executions |-> h.executions, tools |-> [h.tools EXCEPT ![id] = to],
                  running |-> h.running]
      BY <2>4, <3>1 DEF IsHost
    <3>3. PICK q : q = [p EXCEPT !.running[id] = x]
      OBVIOUS
    <3>4. /\ q = [op |-> h.op, context |-> h.context, events |-> h.events,
                  executions |-> h.executions, tools |-> [h.tools EXCEPT ![id] = to],
                  running |-> [h.running EXCEPT ![id] = x]]
      BY <3>2, <3>3
    <3>5. k = [q EXCEPT !.executions = e]
      <4>1. p.running[id] = h.running[id] /\ q.executions = h.executions
        BY <3>2, <3>4
      <4>2. CASE begins
        <5>1. k = [[[h EXCEPT !.tools[id] = to] EXCEPT !.running[id] = number]
                     EXCEPT !.executions = number]
          BY <4>2, <2>7
        <5> QED BY <5>1, <4>2, <2>5, <2>6, <3>1, <3>3
      <4>3. CASE ~begins
        <5>1. k = [[[h EXCEPT !.tools[id] = to] EXCEPT !.running[id] = @] EXCEPT !.executions = @]
          BY <4>3, <2>7
        <5>2. k = [[p EXCEPT !.running[id] = p.running[id]] EXCEPT !.executions = @]
          BY <5>1, <3>1
        <5>3. k = [q EXCEPT !.executions = @]
          BY <5>2, <4>1, <4>3, <2>6, <3>3
        <5> QED BY <5>3, <4>1, <4>3, <2>5
      <4> QED BY <4>2, <4>3
    <3> QED BY <3>4, <3>5
  <2>9. /\ h.executions \in Nat /\ h.running \in [ToolCallIds -> Nat]
        /\ h.tools \in [ToolCallIds -> {"idle", "started", "running"}]
        /\ \A t \in ToolCallIds : h.running[t] <= h.executions
        /\ \A t, u \in ToolCallIds :
             h.tools[t] # "idle" /\ h.tools[u] # "idle" /\ h.running[t] = h.running[u] => t = u
        /\ h.op \in Operations \cup {None}
    BY <2>4 DEF IsHost
  <2>10. /\ e \in Nat /\ e >= h.executions /\ x \in Nat /\ x <= e
         /\ begins => x > h.executions
         /\ ~begins => x = h.running[id]
    BY <2>5, <2>6, <2>9
  <2>11. /\ k.running \in [ToolCallIds -> Nat]
         /\ k.tools \in [ToolCallIds -> {"idle", "started", "running"}]
         /\ \A t \in ToolCallIds : k.running[t] = IF t = id THEN x ELSE h.running[t]
         /\ \A t \in ToolCallIds : k.tools[t] = IF t = id THEN to ELSE h.tools[t]
    BY <2>8, <2>9, <2>10
  <2>12. \A t \in ToolCallIds : k.running[t] <= k.executions
    BY <2>8, <2>9, <2>10, <2>11
  <2>13. ASSUME NEW t \in ToolCallIds, NEW u \in ToolCallIds, k.tools[t] # "idle",
                k.tools[u] # "idle", k.running[t] = k.running[u]
         PROVE t = u
    <3>1. CASE begins
      <4>1. \A v \in ToolCallIds : v # id => k.running[v] < x
        BY <3>1, <2>9, <2>10, <2>11
      <4>2. k.running[id] = x /\ ~(x < x)
        BY <2>10, <2>11
      <4> QED BY <4>1, <4>2, <2>13, <2>9, <2>10, <2>11
    <3>2. CASE ~begins
      <4>1. \A v \in ToolCallIds : k.running[v] = h.running[v] /\ (k.tools[v] # "idle" => h.tools[v] # "idle")
        BY <3>2, <2>10, <2>11
      <4> QED BY <4>1, <2>13, <2>9
    <3> QED BY <3>1, <3>2
  <2>14. IsHost(k)
    BY <2>8, <2>9, <2>10, <2>11, <2>12, <2>13 DEF IsHost
  <2>15. \A t \in ToolCallIds :
           k.tools[t] # "idle" =>
             \/ h.tools[t] # "idle" /\ k.running[t] = h.running[t]
             \/ k.running[t] > h.executions
    BY <2>9, <2>10, <2>11
  <2>16. ~begins => k.running = h.running
    BY <2>8, <2>9, <2>10
  <2> HIDE DEF g
  <2>17. host'[c] = k /\ host[c] = h
    BY <2>3, <2>7 DEF h
  <2>18. HostInv'
    BY <2>2, <2>8, <2>14, <2>17, <1>1 DEF HostInv
  <2>19. HostStep(c)
    <3>1. host'[c].op = host[c].op /\ host'[c].executions >= host[c].executions
      BY <2>8, <2>10, <2>17
    <3>2. \A d \in Calls : host'[d].op = host[d].op /\ host'[d].executions >= host[d].executions
      BY <3>1, <2>2, <1>3
    <3> QED BY <3>2, <2>2, <2>15, <2>17, <2>18 DEF HostStep
  <2> QED BY <2>8, <2>16, <2>17, <2>19, <1>2 DEF h
<1> QED BY <1>4, <1>5

(* Opening the span of a tool whose start was not seen, and closing it. *)
LEMMA Opened ==
  ASSUME NEW c \in Calls, NEW id \in ToolCallIds, NEW old, IsCall(old), old.id = c,
         NEW new, new = OpenToolSpan(old, id)
  PROVE /\ IsCall(new) /\ Kin(old, new) /\ old.toolCalls \in Nat
        /\ new.modelCalls = old.modelCalls /\ new.rerankCalls = old.rerankCalls
        /\ old.modelCalls \in Nat /\ old.rerankCalls \in Nat
        /\ new.toolCalls = old.toolCalls + 1
        /\ new.openToolSpans[id] = <<"tool", c, old.toolCalls, id>> /\ new.openToolSpans[id] # None
        /\ \A t \in ToolCallIds \ {id} : new.openToolSpans[t] = old.openToolSpans[t]
<1>1. IsCall(old) /\ old.id = c
  OBVIOUS
<1>2. PICK s : s = ToolSpanId(old.id, old.toolCalls, id)
  OBVIOUS
<1>3. PICK mid : mid = [old EXCEPT !.toolCalls = @ + 1]
  OBVIOUS
<1>4. /\ IsCall(mid) /\ Kin(old, mid) /\ old.toolCalls \in Nat
      /\ old.modelCalls \in Nat /\ old.rerankCalls \in Nat
      /\ mid.toolCalls = old.toolCalls + 1 /\ mid.openToolSpans = old.openToolSpans
      /\ mid.modelCalls = old.modelCalls /\ mid.rerankCalls = old.rerankCalls
  BY <1>1, <1>3 DEF IsCall, Kin
<1>5. new = [mid EXCEPT !.openToolSpans[id] = s]
  BY <1>1, <1>2, <1>3 DEF OpenToolSpan, IsCall
<1>6. /\ IsCall(new) /\ Kin(mid, new) /\ new.toolCalls = mid.toolCalls
      /\ new.modelCalls = mid.modelCalls /\ new.rerankCalls = mid.rerankCalls
      /\ new.openToolSpans = [mid.openToolSpans EXCEPT ![id] = s]
  BY <1>4, <1>5 DEF IsCall, Kin
<1>7. /\ new.openToolSpans[id] = s
      /\ \A t \in ToolCallIds \ {id} : new.openToolSpans[t] = old.openToolSpans[t]
  BY <1>4, <1>6 DEF IsCall
<1>8. s = <<"tool", c, old.toolCalls, id>> /\ s # None
  <2>1. s = <<"tool", c, old.toolCalls, id>>
    BY <1>1, <1>2 DEF ToolSpanId
  <2>2. s \in {"tool"} \X Calls \X Nat \X ToolCallIds
    BY <2>1, <1>4
  <2> QED BY <2>1, <2>2, NoneDistinct
<1>9. Kin(old, new)
  BY <1>4, <1>6 DEF Kin
<1> QED BY <1>4, <1>6, <1>7, <1>8, <1>9

LEMMA ClosedSpan ==
  ASSUME NEW id \in ToolCallIds, NEW old, IsCall(old), NEW new,
         old.openToolSpans[id] # None, new = CloseToolSpan(old, id)
  PROVE /\ IsCall(new) /\ Kin(old, new) /\ new.modelCalls = old.modelCalls
        /\ new.rerankCalls = old.rerankCalls /\ new.toolCalls = old.toolCalls
        /\ new.openToolSpans[id] = None
        /\ \A t \in ToolCallIds \ {id} : new.openToolSpans[t] = old.openToolSpans[t]
<1>1. /\ IsCall(new) /\ Kin(old, new) /\ new.modelCalls = old.modelCalls
      /\ new.rerankCalls = old.rerankCalls /\ new.toolCalls = old.toolCalls
      /\ new.openToolSpans = [old.openToolSpans EXCEPT ![id] = None]
  BY DEF IsCall, Kin, CloseToolSpan, ToolSpanFor
<1> QED BY <1>1 DEF IsCall

(* While a tool execution is under way its span is open. *)
LEMMA OpenStep ==
  ASSUME NEW i, NEW c \in Calls, NEW id \in ToolCallIds, NEW old, CallOK(i, c, old), IsHost(host[c]),
         NEW to, to # "idle", host'[c].tools = [host[c].tools EXCEPT ![id] = to],
         NEW new, new = ToolSpanFor(old, id)
  PROVE CallStep(c, old, new) /\ IsCall(new) /\ Kin(old, new)
<1>1. \A t \in ToolCallIds : host[c].tools[t] = "idle" <=> old.openToolSpans[t] = None
  BY DEF CallOK
<1>2. \A t \in ToolCallIds : host'[c].tools[t] = IF t = id THEN to ELSE host[c].tools[t]
  BY DEF IsHost
<1>3. CASE old.openToolSpans[id] # None
  <2>1. new = old /\ IsCall(old) /\ Kin(old, old)
    BY <1>3 DEF ToolSpanFor, CallOK, Kin
  <2>2. old.modelCalls \in Nat /\ old.rerankCalls \in Nat /\ old.toolCalls \in Nat
    BY <2>1 DEF IsCall
  <2> QED BY <2>1, <2>2, <1>1, <1>2, <1>3 DEF CallStep
<1>4. CASE old.openToolSpans[id] = None
  <2>1. new = OpenToolSpan(old, id)
    BY <1>4 DEF ToolSpanFor
  <2>2. /\ IsCall(new) /\ Kin(old, new) /\ old.toolCalls \in Nat
        /\ new.modelCalls = old.modelCalls /\ new.rerankCalls = old.rerankCalls
        /\ old.modelCalls \in Nat /\ old.rerankCalls \in Nat
        /\ new.toolCalls = old.toolCalls + 1
        /\ new.openToolSpans[id] = <<"tool", c, old.toolCalls, id>> /\ new.openToolSpans[id] # None
        /\ \A t \in ToolCallIds \ {id} : new.openToolSpans[t] = old.openToolSpans[t]
    <3>1. IsCall(old) /\ old.id = c
      BY DEF CallOK
    <3> QED BY <2>1, <3>1, Opened
  <2>3. ASSUME NEW t \in ToolCallIds
        PROVE LET o == new.openToolSpans[t]
              IN /\ \/ o \in {old.openToolSpans[t], None}
                    \/ /\ old.openToolSpans[t] = None /\ o = <<"tool", c, o[3], t>> /\ o[3] \in Nat
                       /\ old.toolCalls <= o[3] /\ o[3] < new.toolCalls
                 /\ host'[c].tools[t] = "idle" <=> o = None
    <3>1. CASE t = id
      BY <3>1, <2>2, <1>2, <1>4
    <3>2. CASE t # id
      BY <3>2, <2>2, <1>1, <1>2
    <3> QED BY <3>1, <3>2
  <2> QED BY <2>2, <2>3 DEF CallStep
<1> QED BY <1>3, <1>4

LEMMA FollowedMet ==
  ASSUME TrackedInv, NEW c \in Calls, NEW i \in Met(c)
  PROVE Followed(c)
BY MetAll DEF Followed

LEMMA ToolStartKeeps ==
  ASSUME VercelInv, NEW c \in Calls, NEW id \in ToolCallIds, OnToolExecutionStart(c, id)
  PROVE VercelInv'
<1> DEFINE did == [i \in Met(c) |-> Did(OpenToolSpan(tracked[i][c], id), NoParts)]
<1>1. Submit(c, did) /\ Tool(c, id, {"idle"}, "started") /\ contexts' = contexts
  BY DEF OnToolExecutionStart, Hook
<1>2. /\ HostStep(c) /\ Begun(c)
      /\ Followed(c) => host'[c].tools = [host[c].tools EXCEPT ![id] = "started"]
  BY <1>1, ToolHost DEF VercelInv
<1>3. ASSUME NEW i \in Met(c)
      PROVE /\ CallStep(c, tracked[i][c], did[i].call)
            /\ PartsStep(i, c, tracked[i][c], did[i].call, did[i].parts)
  <2> DEFINE old == tracked[i][c]
  <2>1. CallOK(i, c, old) /\ Followed(c) /\ IsHost(host[c])
    BY MetAll, FollowedMet DEF VercelInv, HostInv
  <2>2. did[i].call = OpenToolSpan(old, id) /\ did[i].parts.spanId = None
    BY DEF Did, NoParts
  <2> HIDE DEF did, old
  <2>3. old.openToolSpans[id] = None
    BY <2>1, <1>1 DEF Tool, CallOK
  <2>4. did[i].call = ToolSpanFor(old, id)
    BY <2>2, <2>3 DEF ToolSpanFor
  <2>5. CallStep(c, old, did[i].call)
    BY <2>1, <2>4, <1>2, OpenStep
  <2> QED BY <2>2, <2>5 DEF PartsStep, old
<1> HIDE DEF did
<1>4. HookStep(c, did)
  BY <1>1, <1>2, <1>3 DEF HookStep
<1> QED BY <1>1, <1>4, HookKeeps

(* The span that is recorded is the one the execution had open. *)
LEMMA ToolEndKeeps ==
  ASSUME VercelInv, NEW c \in Calls, NEW id \in ToolCallIds, OnToolExecutionEnd(c, id)
  PROVE VercelInv'
<1> DEFINE Body(call) ==
       Did(CloseToolSpan(call, id),
           Parts(ToolSpanFor(call, id).openToolSpans[id], TRUE, None,
                 <<c, host[c].running[id]>>))
           did == [i \in Met(c) |-> Body(tracked[i][c])]
<1>1. Submit(c, did) /\ Tool(c, id, {"started", "running"}, "idle") /\ contexts' = contexts
  BY DEF OnToolExecutionEnd, Hook
<1>2. /\ HostStep(c) /\ Begun(c)
      /\ Followed(c) =>
           /\ host'[c].tools = [host[c].tools EXCEPT ![id] = "idle"]
           /\ host[c].tools[id] # "idle" => host'[c].running = host[c].running
  BY <1>1, ToolHost DEF VercelInv
<1>n. host[c].tools[id] # "idle"
  BY <1>1 DEF Tool
<1>3. ASSUME NEW i \in Met(c)
      PROVE /\ CallStep(c, tracked[i][c], did[i].call)
            /\ PartsStep(i, c, tracked[i][c], did[i].call, did[i].parts)
  <2> DEFINE old == tracked[i][c]
             new == CloseToolSpan(old, id)
             s == old.openToolSpans[id]
             parts == did[i].parts
  <2>1. CallOK(i, c, old) /\ Followed(c) /\ IsHost(host[c])
    BY MetAll, FollowedMet DEF VercelInv, HostInv
  <2>2. \A t \in ToolCallIds : host'[c].tools[t] = IF t = id THEN "idle" ELSE host[c].tools[t]
    BY <2>1, <1>2 DEF IsHost
  <2>3. did[i] = Body(old)
    OBVIOUS
  <2> HIDE DEF old, did
  <2>4. s # None
    BY <2>1, <1>n DEF CallOK
  <2>5. ToolSpanFor(old, id) = old
    BY <2>4 DEF ToolSpanFor
  <2>6. /\ did[i].call = new /\ parts.spanId = s /\ parts.usage = None
        /\ parts.execution = <<c, host[c].running[id]>>
    BY <2>3, <2>5 DEF Did, Parts
  <2> HIDE DEF parts
  <2>7. IsCall(old)
    BY <2>1 DEF CallOK
  <2>8. PICK q : q = new
    OBVIOUS
  <2> HIDE DEF new
  <2>9. /\ IsCall(q) /\ Kin(old, q) /\ q.modelCalls = old.modelCalls
        /\ q.rerankCalls = old.rerankCalls /\ q.toolCalls = old.toolCalls
        /\ q.openToolSpans[id] = None
        /\ \A t \in ToolCallIds \ {id} : q.openToolSpans[t] = old.openToolSpans[t]
    BY <2>4, <2>7, <2>8, ClosedSpan DEF new
  <2>10. old.modelCalls \in Nat /\ old.rerankCalls \in Nat /\ old.toolCalls \in Nat
    BY <2>7 DEF IsCall
  <2>11. \A t \in ToolCallIds :
           LET o == old.openToolSpans[t]
           IN /\ o # None => o = <<"tool", c, o[3], t>> /\ o[3] \in Nat /\ o[3] < old.toolCalls
              /\ host[c].tools[t] = "idle" <=> o = None
    BY <2>1 DEF CallOK
  <2>12. CallStep(c, old, q)
    <3>1. ASSUME NEW t \in ToolCallIds
          PROVE /\ q.openToolSpans[t] \in {old.openToolSpans[t], None}
                /\ host'[c].tools[t] = "idle" <=> q.openToolSpans[t] = None
      BY <2>2, <2>9, <2>11
    <3> QED BY <3>1, <2>9, <2>10 DEF CallStep
  <2>13. /\ s = <<"tool", c, s[3], id>> /\ s[3] \in Nat /\ s[3] < old.toolCalls
    BY <2>11, <2>4
  <2>14. \A t \in ToolCallIds : q.openToolSpans[t] # s
    <3>1. ASSUME NEW t \in ToolCallIds, t # id PROVE old.openToolSpans[t] # s
      <4>1. CASE old.openToolSpans[t] = None
        BY <4>1, <2>4
      <4>2. CASE old.openToolSpans[t] # None
        <5>1. old.openToolSpans[t][4] = t
          BY <4>2, <2>11
        <5> QED BY <5>1, <3>1, <2>13
      <4> QED BY <4>1, <4>2
    <3> QED BY <3>1, <2>4, <2>9
  <2>15. s[4] = id
    BY <2>13
  <2>16. NewSpan(i, c, old, q, s)
    BY <2>9, <2>13, <2>14, <2>15 DEF NewSpan
  <2>17. Ends(c, old, parts)
    <3>1. \A u \in ToolCallIds \ {id} : host'[c].tools[u] = host[c].tools[u]
      BY <2>2
    <3> QED BY <3>1, <2>1, <2>2, <2>6, <1>2, <1>n DEF Ends
  <2>18. PartsStep(i, c, old, q, parts)
    BY <2>6, <2>16, <2>17 DEF PartsStep, Bounded
  <2> QED BY <2>6, <2>8, <2>12, <2>18 DEF old, parts
<1> HIDE DEF did
<1>4. HookStep(c, did)
  BY <1>1, <1>2, <1>3 DEF HookStep
<1> QED BY <1>1, <1>4, HookKeeps

(* The new context's spans are those the execution has open, and no record is of it yet. *)
LEMMA ExecuteKeeps ==
  ASSUME VercelInv, NEW c \in Calls, NEW id \in ToolCallIds, ExecuteTool(c, id)
  PROVE VercelInv'
<1> DEFINE did == [i \in Met(c) |-> Did(ToolSpanFor(tracked[i][c], id), NoParts)]
           met == SetToSeq(Met(c))
           Span(k) == LET call == ToolSpanFor(tracked[met[k]][c], id)
                      IN [tracker |-> met[k], spanId |-> call.openToolSpans[id],
                          call |-> [run |-> call.run, attribution |-> call.attribution,
                                    runType |-> call.runType, name |-> call.name],
                          execution |-> <<c, host'[c].running[id]>>]
           spans == [k \in DOMAIN met |-> Span(k)]
<1>1. /\ Submit(c, did) /\ Tool(c, id, {"idle", "started"}, "running")
      /\ contexts' = contexts \cup {host[c].context \o spans}
  BY DEF ExecuteTool, Hook
<1>2. /\ HostStep(c) /\ Begun(c)
      /\ Followed(c) => host'[c].tools = [host[c].tools EXCEPT ![id] = "running"]
  BY <1>1, ToolHost DEF VercelInv
<1>m. ASSUME NEW i \in Met(c)
      PROVE LET old == tracked[i][c]
                new == ToolSpanFor(old, id)
            IN /\ i \in Integrations /\ CallOK(i, c, old) /\ Followed(c)
               /\ CallStep(c, old, new) /\ IsCall(new) /\ Kin(old, new)
               /\ did[i].call = new /\ did[i].parts.spanId = None
  <2> DEFINE old == tracked[i][c]
             new == ToolSpanFor(old, id)
  <2>1. i \in Integrations /\ CallOK(i, c, old) /\ Followed(c) /\ IsHost(host[c])
    BY MetAll, FollowedMet DEF VercelInv, HostInv
  <2>2. did[i].call = new /\ did[i].parts.spanId = None
    BY DEF Did, NoParts
  <2> HIDE DEF did, old
  <2>3. PICK q : q = new
    OBVIOUS
  <2> HIDE DEF new
  <2>4. CallStep(c, old, q) /\ IsCall(q) /\ Kin(old, q)
    BY <2>1, <2>3, <1>2, OpenStep DEF new
  <2> QED BY <2>1, <2>2, <2>3, <2>4 DEF old, new
<1>3. ASSUME NEW i \in Met(c)
      PROVE /\ CallStep(c, tracked[i][c], did[i].call)
            /\ PartsStep(i, c, tracked[i][c], did[i].call, did[i].parts)
  BY <1>m DEF PartsStep
<1> HIDE DEF did
<1>4. HookStep(c, did)
  BY <1>1, <1>2, <1>3 DEF HookStep
<1>5. Cardinality(Met(c)) \in Nat /\ met \in [1..Cardinality(Met(c)) -> Met(c)]
  <2>1. Met(c) \subseteq Integrations
    BY MetAll DEF VercelInv
  <2>2. IsFiniteSet(Met(c))
    BY <2>1, SourceShape, FS_Subset
  <2> QED BY <2>2, Listed
<1> HIDE DEF met, Span
<1>6. spans \in Seq({Span(k) : k \in DOMAIN met}) /\ DOMAIN spans = DOMAIN met
      /\ \A k \in DOMAIN met : spans[k] = Span(k) /\ met[k] \in Met(c)
  BY <1>5
<1> HIDE DEF spans
<1>7. ASSUME NEW k \in DOMAIN met, NEW CONSTANT active, active = Span(k) PROVE ActiveOK(active)'
  <2>1. PICK i : i = met[k]
    OBVIOUS
  <2>2. PICK old : old = tracked[i][c]
    OBVIOUS
  <2>3. PICK new : new = ToolSpanFor(old, id)
    OBVIOUS
  <2>4. /\ i \in Met(c) /\ i \in Integrations /\ CallOK(i, c, old) /\ Followed(c)
        /\ CallStep(c, old, new) /\ IsCall(new) /\ Kin(old, new) /\ did[i].call = new
    BY <2>1, <2>2, <2>3, <1>6, <1>m
  <2>5. /\ active.tracker = i /\ active.spanId = new.openToolSpans[id]
        /\ active.call.run = new.run /\ active.call.attribution = new.attribution
        /\ active.call.runType = new.runType /\ active.call.name = new.name
        /\ active.execution = <<c, host'[c].running[id]>>
    BY <1>7, <2>1, <2>2, <2>3 DEF Span
  <2>h. /\ \A d \in Calls : host'[d].op = host[d].op
        /\ HostInv' /\ IsHost(host[c]) /\ IsHost(host'[c])
    BY <1>2 DEF HostStep, VercelInv, HostInv
  <2>6. Coherent(i, active.call)'
    <3>1. PICK y : y = active.call
      OBVIOUS
    <3>2. /\ y.run = old.run /\ y.attribution = old.attribution
          /\ y.name = old.name /\ y.runType = old.runType
      BY <3>1, <2>4, <2>5 DEF Kin
    <3>3. Coherent(i, old)
      BY <2>4 DEF CallOK
    <3> QED BY <3>1, <3>2, <3>3, <2>h, CoherentKept
  <2>7. PICK x : x = active.execution
    OBVIOUS
  <2>8. Known(x)'
    <3>1. Begun(c)'
      BY <1>2, <2>h DEF Begun
    <3>2. host'[c].running[id] \in Nat /\ host'[c].running[id] <= host'[c].executions
      BY <2>h DEF IsHost
    <3> QED BY <3>1, <3>2, <2>5, <2>7 DEF Known, IsExecution
  <2>9. host'[c].tools[id] = "running"
    BY <1>2, <2>4, <2>h DEF IsHost
  <2>10. ASSUME NEW t \in ToolCallIds, NEW call \in Tracked(i, c)', host'[c].tools[t] # "idle",
                host'[c].running[t] = x[2]
         PROVE call.openToolSpans[t] = active.spanId
    <3>1. t = id
      BY <2>5, <2>7, <2>9, <2>10, <2>h DEF IsHost
    <3>2. call = new
      BY <2>4, <1>4, MetCall
    <3> QED BY <3>1, <3>2, <2>5
  <2>11. ASSUME NEW r \in Logged(i)', r.execution = x PROVE FALSE
    <3>1. RecordOK(i, r)'
      BY <1>4, <2>4, LogStep DEF LogInv
    <3>2. x # None
      <4>1. x \in Calls \X Nat
        BY <2>8 DEF Known, IsExecution
      <4> QED BY <4>1, NoneDistinct
    <3>3. Over(x)'
      BY <3>1, <3>2, <2>11 DEF RecordOK
    <3> QED BY <3>3, <2>5, <2>7, <2>9 DEF Over
  <2>12. x[1] = c
    BY <2>5, <2>7
  <2> QED BY <2>4, <2>5, <2>6, <2>7, <2>8, <2>10, <2>11, <2>12 DEF ActiveOK
<1>8. ASSUME NEW CONSTANT context, context = host[c].context \o spans PROVE ContextOK(context)'
  <2>1. PICK before : before = host[c].context
    OBVIOUS
  <2>2. before \in contexts /\ ContextOK(before)
    BY <2>1 DEF VercelInv, HostInv, ContextsInv
  <2>3. /\ before \in Seq({before[d] : d \in DOMAIN before})
        /\ \A d \in DOMAIN before : ActiveOK(before[d])
    BY <2>2 DEF ContextOK
  <2>4. \E S : /\ context \in Seq(S)
               /\ \A d \in DOMAIN context : \/ \E k \in DOMAIN before : context[d] = before[k]
                                            \/ \E k \in DOMAIN spans : context[d] = spans[k]
    <3>1. PICK S : S = {before[d] : d \in DOMAIN before}
      OBVIOUS
    <3>2. PICK T : T = {Span(k) : k \in DOMAIN met}
      OBVIOUS
    <3>3. PICK after : after = spans
      OBVIOUS
    <3>4. before \in Seq(S) /\ after \in Seq(T)
      BY <3>1, <3>2, <3>3, <2>3, <1>6
    <3>5. /\ before \o after \in Seq(S \cup T)
          /\ \A d \in DOMAIN (before \o after) :
               \/ \E k \in DOMAIN before : (before \o after)[d] = before[k]
               \/ \E k \in DOMAIN after : (before \o after)[d] = after[k]
      BY <3>4, ConcatParts
    <3>6. context = before \o after
      BY <3>3, <2>1, <1>8
    <3> QED BY <3>3, <3>5, <3>6
  <2>5. ASSUME NEW CONSTANT d \in DOMAIN context PROVE ActiveOK(context[d])'
    <3>1. PICK active : active = context[d]
      OBVIOUS
    <3>2. CASE \E k \in DOMAIN before : context[d] = before[k]
      <4>1. ActiveOK(active)
        BY <3>1, <3>2, <2>3
      <4> QED BY <4>1, <3>1, <1>4, ActiveKept
    <3>3. CASE \E k \in DOMAIN spans : context[d] = spans[k]
      <4>1. PICK k \in DOMAIN met : active = Span(k)
        BY <3>1, <3>3, <1>6
      <4>2. ActiveOK(active)'
        BY <4>1, <1>7
      <4> QED BY <4>2, <3>1
    <3> QED BY <3>2, <3>3, <2>4
  <2>6. context \in Seq({context[d] : d \in DOMAIN context})
    BY <2>4, SeqSelf
  <2> QED BY <2>5, <2>6 DEF ContextOK
<1>9. \A context \in contexts' \ contexts : ContextOK(context)'
  BY <1>1, <1>8
<1> QED BY <1>4, <1>9, HookKeeps
-----------------------------------------------------------------------------
(* Calls that start and end.                                               *)

(* Nothing moves for the calls that have begun, but that they may be forgotten. *)
Quiet ==
  /\ contexts' = contexts /\ log' = log /\ steps' = steps
  /\ \A d \in Calls : Begun(d) =>
       /\ host'[d].op = host[d].op /\ host'[d].executions = host[d].executions
       /\ \A t \in ToolCallIds : host'[d].tools[t] # "idle" =>
            host[d].tools[t] # "idle" /\ host'[d].running[t] = host[d].running[t]
       /\ \A i \in Integrations : Tracked(i, d)' \subseteq Tracked(i, d)

LEMMA QuietKeeps ==
  ASSUME VercelInv, Quiet
  PROVE ContextsInv' /\ LogInv' /\ StepsInv' /\ SpansUnique'
<1>q. /\ contexts' = contexts /\ log' = log /\ steps' = steps
      /\ \A d \in Calls : Begun(d) => Begun(d)' /\ host'[d].op = host[d].op
      /\ \A d \in Calls : Begun(d) =>
           /\ host'[d].executions = host[d].executions
           /\ \A t \in ToolCallIds : host'[d].tools[t] # "idle" =>
                host[d].tools[t] # "idle" /\ host'[d].running[t] = host[d].running[t]
           /\ \A i \in Integrations : Tracked(i, d)' \subseteq Tracked(i, d)
  BY DEF Quiet, Begun
<1>l. \A i : Logged(i)' = Logged(i)
  BY <1>q DEF Logged
<1>1. ASSUME NEW CONSTANT x, Known(x) PROVE Known(x)' /\ (Over(x) => Over(x)')
  BY <1>1, <1>q DEF Known, IsExecution, Over
<1>2. ASSUME NEW CONSTANT context \in contexts, NEW CONSTANT d \in DOMAIN context
      PROVE ActiveOK(context[d])'
  <2>1. PICK active : active = context[d]
    OBVIOUS
  <2>i. PICK i : i = active.tracker
    OBVIOUS
  <2>x. PICK x : x = active.execution
    OBVIOUS
  <2>2. ActiveOK(active)
    BY <2>1 DEF VercelInv, ContextsInv, ContextOK
  <2>3. /\ i \in Integrations /\ Coherent(i, active.call) /\ Known(x)
        /\ \A t \in ToolCallIds : \A call \in Tracked(i, x[1]) :
             host[x[1]].tools[t] # "idle" /\ host[x[1]].running[t] = x[2]
               => call.openToolSpans[t] = active.spanId
        /\ \A r \in Logged(i) : r.execution = x => r.spanId = active.spanId
    BY <2>2, <2>i, <2>x DEF ActiveOK
  <2>4. Coherent(i, active.call)'
    <3>1. PICK y : y = active.call
      OBVIOUS
    <3> QED BY <3>1, <2>3, <1>q, CoherentKept
  <2>5. Known(x)'
    BY <2>3, <1>1
  <2>6. x[1] \in Calls /\ Begun(x[1])
    BY <2>3 DEF Known, IsExecution
  <2>7. \A t \in ToolCallIds : \A call \in Tracked(i, x[1])' :
          host'[x[1]].tools[t] # "idle" /\ host'[x[1]].running[t] = x[2]
            => call.openToolSpans[t] = active.spanId
    BY <2>3, <2>6, <1>q
  <2>8. ActiveOK(active)'
    BY <2>3, <2>4, <2>5, <2>7, <2>i, <2>x, <1>l DEF ActiveOK
  <2> QED BY <2>1, <2>8
<1>3. ASSUME NEW CONSTANT i \in Integrations, NEW CONSTANT r \in Logged(i) PROVE RecordOK(i, r)'
  <2>1. RecordOK(i, r)
    BY DEF VercelInv, LogInv
  <2>2. Coherent(i, r)' /\ Placed(i, r)'
    BY <2>1, <1>q, CoherentKept, PlacedKept DEF RecordOK
  <2>3. PICK x : x = r.execution
    OBVIOUS
  <2>4. x # None => Known(x)' /\ Over(x)'
    BY <2>1, <2>3, <1>1 DEF RecordOK
  <2>5. PICK s : s = r.spanId
    OBVIOUS
  <2>6. Issued(i, s)
    BY <2>1, <2>5 DEF RecordOK
  <2>7. Issued(i, s)'
    <3>1. ASSUME s[2] \in Calls, Begun(s[2])
          PROVE Begun(s[2])' /\ Tracked(i, s[2])' \subseteq Tracked(i, s[2])
      BY <3>1, <1>q
    <3> QED BY <2>6, <3>1 DEF Issued
  <2> QED BY <2>1, <2>2, <2>3, <2>4, <2>5, <2>7 DEF RecordOK
<1>4. ContextsInv'
  <2>1. ASSUME NEW CONSTANT context \in contexts PROVE ContextOK(context)'
    BY <1>2 DEF ContextOK, VercelInv, ContextsInv
  <2> QED BY <2>1, <1>q DEF ContextsInv
<1>5. LogInv'
  BY <1>q, <1>l, <1>3 DEF VercelInv, LogInv
<1>6. StepsInv' /\ SpansUnique'
  BY <1>q DEF VercelInv, StepsInv, SpansUnique
<1> QED BY <1>4, <1>5, <1>6

LEMMA CallKept ==
  ASSUME NEW CONSTANT i, NEW CONSTANT d \in Calls, NEW CONSTANT call, CallOK(i, d, call), Quiet,
         host'[d].tools = host[d].tools
  PROVE CallOK(i, d, call)'
<1>1. contexts' = contexts /\ \A e \in Calls : Begun(e) => Begun(e)' /\ host'[e].op = host[e].op
  BY DEF Quiet, Begun
<1>2. Coherent(i, call)' /\ Placed(i, call)' /\ Begun(d)'
  BY <1>1, CoherentKept, PlacedKept DEF CallOK
<1> QED BY <1>2 DEF CallOK

LEMMA EndKeeps ==
  ASSUME VercelInv, NEW c \in Calls, OnEnd(c)
  PROVE VercelInv'
<1> DEFINE idle == [t \in ToolCallIds |-> "idle"]
<1>t. TrackedInv /\ HostInv
  BY DEF VercelInv
<1>1. /\ host' = [host EXCEPT ![c].tools = idle] /\ contexts' = contexts
      /\ steps' = steps /\ log' = log
      /\ tracked' = [i \in Integrations |->
           IF i \in Routes[c] THEN [tracked[i] EXCEPT ![c] = None] ELSE tracked[i]]
  BY DEF OnEnd
<1>2. /\ DOMAIN host = Calls /\ \A d \in Calls : IsHost(host[d]) /\ host[d].context \in contexts
  BY <1>t DEF HostInv
<1>3. /\ DOMAIN host' = Calls /\ \A d \in Calls \ {c} : host'[d] = host[d]
      /\ host'[c] = [host[c] EXCEPT !.tools = idle]
  BY <1>1, <1>2
<1>4. /\ host'[c].op = host[c].op /\ host'[c].executions = host[c].executions
      /\ host'[c].context = host[c].context /\ host'[c].running = host[c].running
      /\ host'[c].tools = idle /\ IsHost(host'[c])
  <2>1. IsHost(host[c])
    BY <1>2
  <2> QED BY <1>3, <2>1 DEF IsHost
<1>5. HostInv'
  BY <1>1, <1>2, <1>3, <1>4 DEF HostInv
<1>6. /\ DOMAIN tracked' = Integrations
      /\ \A i \in Integrations : DOMAIN tracked'[i] = Calls
      /\ \A i \in Integrations, d \in Calls \ {c} : tracked'[i][d] = tracked[i][d]
  BY <1>1, <1>t DEF TrackedInv
<1>7. \A i \in Integrations : Tracked(i, c)' = {}
  <2>1. ASSUME NEW i \in Integrations PROVE tracked'[i][c] = None
    <3>1. CASE i \in Routes[c]
      BY <3>1, <1>1, <1>t DEF TrackedInv
    <3>2. CASE i \notin Routes[c]
      <4>1. tracked[i][c] = None
        BY <3>2, <1>t DEF TrackedInv, Tracked, CallOK
      <4> QED BY <4>1, <3>2, <1>1
    <3> QED BY <3>1, <3>2
  <2> QED BY <2>1 DEF Tracked
<1>8. \A i \in Integrations, d \in Calls \ {c} : Tracked(i, d)' = Tracked(i, d)
  BY <1>6 DEF Tracked
<1>9. Quiet
  BY <1>1, <1>3, <1>4, <1>7, <1>8 DEF Quiet
<1>10. TrackedInv'
  <2>1. ASSUME NEW CONSTANT i \in Integrations, NEW CONSTANT d \in Calls,
               NEW CONSTANT call \in Tracked(i, d)'
        PROVE CallOK(i, d, call)'
    <3>1. d # c
      BY <1>7
    <3>2. CallOK(i, d, call)
      BY <3>1, <1>8, <1>t DEF TrackedInv
    <3> QED BY <3>1, <3>2, <1>3, <1>9, CallKept
  <2> QED BY <2>1, <1>6 DEF TrackedInv
<1> QED BY <1>5, <1>9, <1>10, QuietKeeps DEF VercelInv

(* A new call is on the account of the tool it starts in, or on one of its own. *)
LEMMA StartedOK ==
  ASSUME VercelInv, NEW c \in Calls, NEW op \in Operations, NEW context \in contexts,
         NEW CONSTANT i \in Routes[c], HostInv', contexts' = contexts, Begun(c)',
         \A d \in Calls : Begun(d) => host'[d].op = host[d].op,
         host'[c] = HostCall(op, context), ~Begun(c),
         NEW CONSTANT call, call # None, call = Started(i, c, op, context, Sources[c])
  PROVE CallOK(i, c, call)'
<1> DEFINE span == CurrentToolSpan(i, context)
           attribution == ResolveAttribution(Sources[c], Defaults[i])
<1>1. call = IF span # None THEN StartChild(c, span)
             ELSE StartRoot(c, op, attribution, Sources[c].functionId)
  BY DEF Started
<1>2. \A run, parent, a, runType, name :
        LET new == NewCall(c, run, parent, a, runType, name)
        IN /\ IsCall(new) /\ new.id = c /\ new.run = run /\ new.parent = parent
           /\ new.attribution = a /\ new.runType = runType /\ new.name = name
           /\ \A t \in ToolCallIds : new.openToolSpans[t] = None
  BY DEF NewCall, IsCall
<1>3. \A t \in ToolCallIds : host'[c].tools[t] = "idle"
  BY DEF HostCall
<1>4. host'[c].op = op
  BY DEF HostCall
<1>5. IsCall(call) /\ call.id = c /\ \A t \in ToolCallIds : call.openToolSpans[t] = None
  BY <1>1, <1>2 DEF StartChild, StartRoot
<1>6. Coherent(i, call)' /\ Placed(i, call)'
  <2>1. CASE span # None
    <3>1. ContextOK(context)
      BY DEF VercelInv, ContextsInv
    <3>2. PICK d \in DOMAIN context : context[d].tracker = i /\ span = context[d]
      <4>1. PICK S : context \in Seq(S)
        BY <3>1 DEF ContextOK
      <4> QED BY <2>1, <4>1, CurrentIn
    <3>3. PICK x : x = span.call
      OBVIOUS
    <3>4. Coherent(i, x)
      BY <3>1, <3>2, <3>3 DEF ContextOK, ActiveOK
    <3>5. /\ call.run = x.run /\ call.parent = span.spanId /\ call.attribution = x.attribution
          /\ call.runType = x.runType /\ call.name = x.name
      BY <1>1, <1>2, <2>1, <3>3 DEF StartChild
    <3>6. Coherent(i, call)'
      BY <3>4, <3>5, CoherentKept
    <3>7. context[d].call.run = call.run /\ context[d].spanId = call.parent
      BY <3>2, <3>3, <3>5
    <3>8. Placed(i, call)'
      BY <3>2, <3>7 DEF Placed
    <3> QED BY <3>6, <3>8
  <2>2. CASE span = None
    <3>1. /\ call.run = c /\ call.parent = None /\ call.attribution = attribution
          /\ call.runType = RunTypeFor(op) /\ call.name = Sources[c].functionId
      BY <1>1, <1>2, <2>2 DEF StartRoot
    <3>2. Coherent(i, call)'
      BY <3>1, <1>4 DEF Coherent
    <3> QED BY <3>1, <3>2 DEF Placed
  <2> QED BY <2>1, <2>2
<1>7. CallOK(i, c, call)'
  BY <1>3, <1>5, <1>6 DEF CallOK
<1> QED BY <1>7

LEMMA StartKeeps ==
  ASSUME VercelInv, NEW c \in Calls, NEW op \in Operations, NEW context \in contexts,
         OnStart(c, op, context)
  PROVE VercelInv'
<1>t. TrackedInv /\ HostInv
  BY DEF VercelInv
<1>1. /\ ~Begun(c) /\ host' = [host EXCEPT ![c] = HostCall(op, context)]
      /\ contexts' = contexts /\ steps' = steps /\ log' = log
      /\ tracked' = [i \in Integrations |->
           IF i \in Routes[c] THEN [tracked[i] EXCEPT ![c] = Started(i, c, op, context, Sources[c])]
           ELSE tracked[i]]
  BY DEF OnStart
<1>2. /\ DOMAIN host = Calls /\ \A d \in Calls : IsHost(host[d]) /\ host[d].context \in contexts
  BY <1>t DEF HostInv
<1>3. /\ DOMAIN host' = Calls /\ \A d \in Calls \ {c} : host'[d] = host[d]
      /\ host'[c] = HostCall(op, context)
  BY <1>1, <1>2
<1>4. /\ IsHost(HostCall(op, context)) /\ HostCall(op, context).context = context
      /\ HostCall(op, context).op = op
  BY DEF IsHost, HostCall
<1>5. HostInv'
  BY <1>1, <1>2, <1>3, <1>4 DEF HostInv
<1>6. /\ DOMAIN tracked' = Integrations
      /\ \A i \in Integrations : DOMAIN tracked'[i] = Calls
      /\ \A i \in Integrations, d \in Calls \ {c} : tracked'[i][d] = tracked[i][d]
      /\ \A i \in Integrations :
           tracked'[i][c] = IF i \in Routes[c] THEN Started(i, c, op, context, Sources[c])
                            ELSE tracked[i][c]
  BY <1>1, <1>t DEF TrackedInv
<1>7. \A i \in Integrations, d \in Calls \ {c} : Tracked(i, d)' = Tracked(i, d)
  BY <1>6 DEF Tracked
<1>8. Quiet
  <2>1. ASSUME NEW d \in Calls, Begun(d) PROVE d # c /\ host'[d] = host[d]
    BY <2>1, <1>1, <1>3
  <2> QED BY <2>1, <1>1, <1>7 DEF Quiet
<1>9. Begun(c)' /\ \A d \in Calls : Begun(d) => host'[d].op = host[d].op
  <2>1. op # None
    BY NoneDistinct
  <2> QED BY <2>1, <1>3, <1>4, <1>8 DEF Begun, Quiet
<1>10. TrackedInv'
  <2>1. ASSUME NEW CONSTANT i \in Integrations, NEW CONSTANT d \in Calls,
               NEW CONSTANT call \in Tracked(i, d)'
        PROVE CallOK(i, d, call)'
    <3>1. CASE d # c
      <4>1. CallOK(i, d, call)
        BY <3>1, <1>7, <1>t DEF TrackedInv
      <4> QED BY <3>1, <4>1, <1>3, <1>8, CallKept
    <3>2. CASE d = c /\ i \in Routes[c]
      <4>1. call # None /\ call = Started(i, c, op, context, Sources[c])
        BY <3>2, <1>6 DEF Tracked
      <4> QED BY <3>2, <4>1, <1>1, <1>3, <1>5, <1>9, StartedOK
    <3>3. CASE d = c /\ i \notin Routes[c]
      <4>1. call \in Tracked(i, c)
        BY <3>3, <1>6 DEF Tracked
      <4> QED BY <3>3, <4>1, <1>t DEF TrackedInv, CallOK
    <3> QED BY <3>1, <3>2, <3>3
  <2> QED BY <2>1, <1>6 DEF TrackedInv
<1> QED BY <1>5, <1>8, <1>10, QuietKeeps DEF VercelInv

LEMMA InitHolds ==
  ASSUME Init
  PROVE VercelInv
<1>1. HostInv
  BY DEF Init, HostInv, IsHost, HostCall
<1>2. TrackedInv
  BY DEF Init, TrackedInv, Tracked
<1>3. ContextsInv
  <2>1. contexts = {<<>>} /\ \A S : <<>> \in Seq(S)
    BY DEF Init
  <2>2. DOMAIN <<>> = {}
    OBVIOUS
  <2> QED BY <2>1, <2>2 DEF ContextsInv, ContextOK
<1>4. \A i \in Integrations : log[i] = <<>> /\ DOMAIN log[i] = {}
  BY DEF Init
<1>5. DOMAIN log = Integrations
  BY DEF Init
<1>6. LogInv /\ SpansUnique
  <2>1. \A i \in Integrations : Logged(i) = {}
    BY <1>4 DEF Logged
  <2>2. \A i \in Integrations : log[i] \in Seq(Logged(i))
    <3>1. \A S : <<>> \in Seq(S)
      OBVIOUS
    <3> QED BY <3>1, <1>4
  <2>3. LogInv
    BY <2>1, <2>2, <1>5 DEF LogInv
  <2> QED BY <2>3, <1>4 DEF SpansUnique
<1>7. StepsInv
  <2>1. ASSUME NEW i \in Integrations, NEW c \in Calls
        PROVE steps[i][c] = Cardinality({j \in DOMAIN log[i] : log[i][j].run = c})
    <3>1. {j \in DOMAIN log[i] : log[i][j].run = c} = {}
      BY <1>4
    <3> QED BY <3>1, FS_EmptySet DEF Init
  <2> QED BY <2>1, <1>4 DEF Init, StepsInv
<1> QED BY <1>1, <1>2, <1>3, <1>6, <1>7 DEF VercelInv

LEMMA StutterKeeps ==
  ASSUME VercelInv, UNCHANGED vars
  PROVE VercelInv'
<1>1. /\ host' = host /\ contexts' = contexts /\ tracked' = tracked
      /\ steps' = steps /\ log' = log
  BY DEF vars
<1>2. \A i, d : Tracked(i, d)' = Tracked(i, d)
  BY <1>1 DEF Tracked
<1>3. Quiet
  BY <1>1, <1>2 DEF Quiet
<1>4. HostInv'
  BY <1>1 DEF VercelInv, HostInv
<1>5. ASSUME NEW CONSTANT i \in Integrations, NEW CONSTANT d \in Calls,
             NEW CONSTANT call \in Tracked(i, d)'
      PROVE CallOK(i, d, call)'
  <2>1. CallOK(i, d, call)
    BY <1>2 DEF VercelInv, TrackedInv
  <2> QED BY <2>1, <1>1, <1>3, CallKept
<1>6. TrackedInv'
  BY <1>1, <1>5 DEF VercelInv, TrackedInv
<1> QED BY <1>3, <1>4, <1>6, QuietKeeps DEF VercelInv
-----------------------------------------------------------------------------
(* What the adapter keeps true of its calls, its runs and its records in every state. *)
THEOREM VercelInvariant == Spec => []VercelInv
<1>1. Init => VercelInv
  BY InitHolds
<1>2. VercelInv /\ [Next]_vars => VercelInv'
  <2> SUFFICES ASSUME VercelInv, [Next]_vars
               PROVE VercelInv'
    OBVIOUS
  <2>1. ASSUME NEW c \in Calls, NEW op \in Operations, NEW context \in contexts,
               OnStart(c, op, context)
        PROVE VercelInv'
    BY <2>1, StartKeeps
  <2>2. ASSUME NEW c \in Calls, NEW resource \in Resources, OnLanguageModelCallEnd(c, resource)
        PROVE VercelInv'
    BY <2>2, ModelCallKeeps
  <2>3. ASSUME NEW c \in Calls, OnEmbedStart(c) \/ OnRerankStart(c) \/ OnEnd(c)
        PROVE VercelInv'
    BY <2>3, EmbedStartKeeps, RerankStartKeeps, EndKeeps
  <2>4. ASSUME NEW c \in Calls, NEW n \in 0..MaxEvents, NEW resource \in Resources,
               OnEmbedEnd(c, n, resource)
        PROVE VercelInv'
    BY <2>4, EmbedEndKeeps
  <2>5. ASSUME NEW c \in Calls, NEW resource \in Resources, OnRerankEnd(c, resource)
        PROVE VercelInv'
    BY <2>5, RerankEndKeeps
  <2>6. ASSUME NEW c \in Calls, NEW id \in ToolCallIds, OnToolExecutionStart(c, id)
        PROVE VercelInv'
    BY <2>6, ToolStartKeeps
  <2>7. ASSUME NEW c \in Calls, NEW id \in ToolCallIds, ExecuteTool(c, id)
        PROVE VercelInv'
    BY <2>7, ExecuteKeeps
  <2>8. ASSUME NEW c \in Calls, NEW id \in ToolCallIds, OnToolExecutionEnd(c, id)
        PROVE VercelInv'
    BY <2>8, ToolEndKeeps
  <2>9. CASE UNCHANGED vars
    BY <2>9, StutterKeeps
  <2> QED BY <2>1, <2>2, <2>3, <2>4, <2>5, <2>6, <2>7, <2>8, <2>9 DEF Next
<1> QED BY <1>1, <1>2, PTL DEF Spec

(* Nothing is billed twice: no span is recorded twice, though the model uses the id of a tool
   call again, and no token is counted twice, however a report garbles its counters. *)
THEOREM NothingBilledTwice == Spec => []NothingTwice
<1>1. VercelInv => NothingTwice
  <2> SUFFICES ASSUME VercelInv
               PROVE NothingTwice
    OBVIOUS
  <2>1. ASSUME NEW i \in Integrations, NEW k \in DOMAIN log[i] PROVE Bounded(log[i][k].usage)
    BY DEF VercelInv, LogInv, Logged, RecordOK
  <2>2. TokensOnce
    BY <2>1 DEF TokensOnce, Bounded
  <2> QED BY <2>2 DEF NothingTwice, VercelInv
<1> QED BY <1>1, VercelInvariant, PTL

(* Every record of a run, nested and late ones included, bears the attribution, name and type
   of its root call and the next step of the run. *)
THEOREM RunsCoherent == Spec => []RunCoherent
<1>1. VercelInv => RunCoherent
  <2> SUFFICES ASSUME VercelInv
               PROVE RunCoherent
    OBVIOUS
  <2>1. ASSUME NEW i \in Integrations, NEW k \in DOMAIN log[i] PROVE Coherent(i, log[i][k])
    BY DEF VercelInv, LogInv, Logged, RecordOK
  <2>2. ASSUME NEW i \in Integrations, NEW k \in DOMAIN log[i]
        PROVE log[i][k].step = Cardinality({j \in 1..(k - 1) : log[i][j].run = log[i][k].run})
    BY DEF VercelInv, StepsInv
  <2> QED BY <2>1, <2>2 DEF RunCoherent, Coherent
<1> QED BY <1>1, VercelInvariant, PTL

(* The parent of a nested record is the tool span it was made in, in the same integration and
   run, and the span under which that execution is recorded. *)
THEOREM ParentsFound == Spec => []ParentsResolve
<1>1. VercelInv => ParentsResolve
  <2> SUFFICES ASSUME VercelInv, NEW i \in Integrations, NEW k \in DOMAIN log[i],
                      log[i][k].parent # None
               PROVE \E context \in contexts : \E d \in DOMAIN context :
                       LET active == context[d]
                       IN /\ active.tracker = i /\ active.call.run = log[i][k].run
                          /\ active.spanId = log[i][k].parent
                          /\ \A j \in DOMAIN log[i] :
                               log[i][j].execution = active.execution
                                 => log[i][j].spanId = log[i][k].parent
    BY DEF ParentsResolve
  <2>1. Placed(i, log[i][k])
    BY DEF VercelInv, LogInv, Logged, RecordOK
  <2>2. PICK context \in contexts :
          \E d \in DOMAIN context :
            /\ context[d].tracker = i /\ context[d].call.run = log[i][k].run
            /\ context[d].spanId = log[i][k].parent
    BY <2>1 DEF Placed
  <2>d. PICK d \in DOMAIN context :
          /\ context[d].tracker = i /\ context[d].call.run = log[i][k].run
          /\ context[d].spanId = log[i][k].parent
    BY <2>2
  <2>3. \A r \in Logged(i) : r.execution = context[d].execution => r.spanId = context[d].spanId
    BY <2>d DEF VercelInv, ContextsInv, ContextOK, ActiveOK
  <2>4. \A j \in DOMAIN log[i] :
          log[i][j].execution = context[d].execution => log[i][j].spanId = log[i][k].parent
    BY <2>d, <2>3 DEF Logged
  <2> QED BY <2>d, <2>4
<1> QED BY <1>1, VercelInvariant, PTL
=============================================================================
