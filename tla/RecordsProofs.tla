---------------------------- MODULE RecordsProofs ----------------------------
(***************************************************************************)
(* What TLAPS proves of records.  Of MastraExporter, which makes them: for *)
(* every forest of spans, however many, every order of their events and    *)
(* any number of shutdowns.  Of Records: for every input and every         *)
(* sequence of edits, that what was accepted survives the wire, that the   *)
(* generated types keep their promise, and that the validator blames       *)
(* exactly what is at fault.                                               *)
(***************************************************************************)
EXTENDS MastraExporter, Records, FiniteSetTheorems, SequenceTheorems,
        WellFoundedInduction, TLAPS

(* What a span of the trace is. *)
IsSpan(span) ==
  /\ span.type \in SpanTypes /\ span.readable \in BOOLEAN /\ span.failed \in BOOLEAN
  /\ span.parent \in {None} \cup UNION {DOMAIN forest : forest \in Forests}
  /\ span.usage \in [input : Counts, cacheRead : Counts, cacheWrite : Counts]
  /\ span.startTime \in Times /\ span.endTime \in Times
  /\ span.audr = None \/ DOMAIN span.audr = Fields
  /\ span.audr # None => \A f \in Fields : span.audr[f] \in Values
  /\ OrZero(Counter(span.usage.cacheRead)) + OrZero(Counter(span.usage.cacheWrite)) <= Prompt

Events == {<<kind, s>> : kind \in {"started", "ended"}, s \in DOMAIN spans} \cup {<<"shutdown">>}

TypeInv ==
  /\ \A s \in DOMAIN spans : IsSpan(spans[s])
  /\ DOMAIN log = DOMAIN spans
  /\ open \subseteq DOMAIN spans /\ delegating \subseteq DOMAIN spans
  /\ trace \in Seq(Events)

(* The start of s, at i, is one that the exporter still remembers after k events. *)
StartKept(s, i, k) ==
  i \in 1..k /\ trace[i] = <<"started", s>> /\ \A n \in i..k : trace[n] # <<"shutdown">>

(* The tables against the history: a tool call that has not ended is in one iff  *)
(* its start is remembered, and in the other iff a child's event came after it.  *)
TablesInv ==
  \A s \in DOMAIN spans :
    /\ s \in open <=> /\ spans[s].type = "tool_call" /\ ~Exported(s, "ended")
                      /\ \E i \in DOMAIN trace : StartKept(s, i, Len(trace))
    /\ s \in delegating <=> /\ spans[s].type = "tool_call" /\ ~Exported(s, "ended")
                            /\ DelegatedBefore(s, Len(trace) + 1)

(* A span ends once, and has no record before. *)
EndsInv ==
  /\ \A j, k \in DOMAIN trace : trace[j] = trace[k] /\ trace[j][1] = "ended" => j = k
  /\ \A s \in DOMAIN spans : ~Exported(s, "ended") => log[s] = None

(* SpansBilled, span by span. *)
BilledInv ==
  \A s \in DOMAIN spans : \A k \in DOMAIN trace : trace[k] = <<"ended", s>> =>
    (log[s] # None <=>
       Billable(s) /\ ~(spans[s].type = "tool_call" /\ DelegatedBefore(s, k)))

MastraInv == TypeInv /\ TablesInv /\ EndsInv /\ BilledInv /\ CountsTruthful
-----------------------------------------------------------------------------
(* Records.                                                                *)

LEMMA SpanIn ==
  ASSUME NEW forest \in Forests, NEW s \in DOMAIN forest
  PROVE IsSpan(forest[s])
<1> DEFINE given == (UNION {{f[t].audr : t \in DOMAIN f} : f \in Forests}) \ {None}
           audr == forest[s].audr
<1>1. audr # None => audr \in given
  OBVIOUS
<1>2. audr # None => \A f \in Fields : audr[f] \in Values
  <2> SUFFICES ASSUME audr # None, NEW f \in Fields PROVE audr[f] \in Values
    OBVIOUS
  <2>1. audr[f] \in {audr[g] : g \in Fields}
    OBVIOUS
  <2> HIDE DEF audr
  <2> QED BY <1>1, <2>1 DEF Values
<1>3. forest[s].parent \in {None} \cup UNION {DOMAIN f : f \in Forests}
  BY ForestShape
<1> QED BY <1>2, <1>3, ForestShape, UsageTrue DEF IsSpan

(* Without an environment there is no attribution; else it is one. *)
LEMMA AttributionIn ==
  ASSUME NEW span, IsSpan(span), ResolveAttribution(span.audr, Defaults) # None
  PROVE ResolveAttribution(span.audr, Defaults) \in [Fields -> Values]
<1>1. \A f \in Fields : Defaults[f] \in Values
  BY ForestShape DEF Values
<1>2. None \in Values
  BY DEF Values
<1>3. ReadMetadataAttribution(span.audr) \in [Fields -> Values]
  BY <1>2 DEF IsSpan, ReadMetadataAttribution
<1>4. MergeAttribution(Defaults, ReadMetadataAttribution(span.audr)) \in [Fields -> Values]
  BY <1>1, <1>3 DEF MergeAttribution
<1> QED BY <1>4 DEF ResolveAttribution

(* However a report garbles its counters, no token is counted twice. *)
LEMMA UsageIn ==
  ASSUME NEW usage \in [input : Counts, cacheRead : Counts, cacheWrite : Counts],
         OrZero(Counter(usage.cacheRead)) + OrZero(Counter(usage.cacheWrite)) <= Prompt
  PROVE LET u == ToLlmUsage(usage)
        IN /\ u \in [input : Nat \cup {None}, cacheRead : Nat \cup {None}, cacheWrite : Nat \cup {None}]
           /\ OrZero(u.input) + OrZero(u.cacheRead) + OrZero(u.cacheWrite) <= Prompt
<1>p. Prompt \in Nat
  BY ForestShape
<1>1. ASSUME NEW n \in Counts PROVE Counter(n) = None \/ Counter(n) \in 0..Prompt
  BY <1>1 DEF Counts, Counter
<1> DEFINE input == Counter(usage.input)
           read == Counter(usage.cacheRead)
           written == Counter(usage.cacheWrite)
<1>2. (input = None \/ input \in 0..Prompt) /\ (read = None \/ read \in 0..Prompt)
      /\ (written = None \/ written \in 0..Prompt)
  BY <1>1
<1>3. OrZero(read) + OrZero(written) <= Prompt
  OBVIOUS
<1> HIDE DEF input, read, written
<1>4. OrZero(read) \in Nat /\ OrZero(written) \in Nat
  BY <1>2, <1>p DEF OrZero
<1> DEFINE part == OrZero(read) + OrZero(written)
           rest == Subtract(input, part)
<1>5. part \in Nat /\ part <= Prompt
  BY <1>3, <1>4
<1>6. (rest = None \/ rest \in Nat) /\ OrZero(rest) + part <= Prompt
  <2> HIDE DEF part
  <2>1. CASE input = None
    BY <2>1, <1>5, <1>p DEF Subtract, OrZero
  <2>2. CASE input # None /\ input > part
    <3>1. input \in 0..Prompt /\ rest = input - part /\ rest \in Nat
      BY <2>2, <1>2, <1>5, <1>p DEF Subtract
    <3>2. OrZero(rest) = rest \/ OrZero(rest) = 0
      BY DEF OrZero
    <3> QED BY <3>1, <3>2, <1>5, <1>p
  <2>3. CASE input # None /\ ~(input > part)
    BY <2>3, <1>2, <1>5, <1>p DEF Subtract, OrZero
  <2> QED BY <2>1, <2>2, <2>3
<1>7. OrZero(rest) \in Nat
  BY <1>6 DEF OrZero
<1>8. OrZero(rest) + OrZero(read) + OrZero(written) <= Prompt
  BY <1>4, <1>6, <1>7
<1>9. ToLlmUsage(usage) = [input |-> rest, cacheRead |-> read, cacheWrite |-> written]
  BY DEF ToLlmUsage, input, read, written
<1>10. read \in Nat \cup {None} /\ written \in Nat \cup {None} /\ rest \in Nat \cup {None}
  BY <1>2, <1>6, <1>p
<1> HIDE DEF rest, part
<1> QED BY <1>8, <1>9, <1>10

LEMMA TimingIn ==
  ASSUME NEW span, IsSpan(span)
  PROVE SpanTiming(span.startTime, span.endTime)
          \in [eventTime : Nat \cup {"now"}, durationMs : Nat \cup {None}]
<1> DEFINE start == ToDate(span.startTime)
           end == ToDate(span.endTime)
<1>1. (start = None \/ start \in Nat) /\ (end = None \/ end \in Nat)
  BY DEF IsSpan, ToDate, Times
<1> DEFINE valid == IF start = None \/ end = None THEN FALSE ELSE end >= start
           at == IF end # None THEN end ELSE IF start # None THEN start ELSE "now"
           lasted == IF valid THEN end - start ELSE None
<1>2. SpanTiming(span.startTime, span.endTime) = [eventTime |-> at, durationMs |-> lasted]
  BY DEF SpanTiming
<1> HIDE DEF start, end
<1>3. at \in Nat \cup {"now"}
  BY <1>1
<1>4. lasted \in Nat \cup {None}
  BY <1>1
<1> HIDE DEF at, lasted
<1> QED BY <1>2, <1>3, <1>4

LEMMA MeterIn ==
  ASSUME NEW span, IsSpan(span), NEW s, IsMeteredSpanType(span.type), Meter(span, s) # None
  PROVE /\ Meter(span, s) \in Meterings
        /\ Meter(span, s).usage # None =>
             LET u == Meter(span, s).usage
             IN OrZero(u.input) + OrZero(u.cacheRead) + OrZero(u.cacheWrite) <= Prompt
<1> DEFINE u == ToLlmUsage(span.usage)
<1>1. /\ u \in [input : Nat \cup {None}, cacheRead : Nat \cup {None}, cacheWrite : Nat \cup {None}]
      /\ OrZero(u.input) + OrZero(u.cacheRead) + OrZero(u.cacheWrite) <= Prompt
  BY UsageIn DEF IsSpan
<1>2. \/ Meter(span, s) = [kind |-> "generation", usage |-> u]
      \/ Meter(span, s) = [kind |-> "embedding", usage |-> u]
      \/ Meter(span, s) = [kind |-> "tool_execution", usage |-> None]
  BY DEF Meter, Model, Embedding, Tool, Metered
<1> HIDE DEF u
<1> QED BY <1>1, <1>2 DEF Meterings

(* A span is metered iff it names its resource, unless it is known to delegate. *)
LEMMA MeterSome ==
  ASSUME NEW span, IsSpan(span), NEW s, IsMeteredSpanType(span.type)
  PROVE Meter(span, s) # None <=>
          /\ ~(span.type = "tool_call" /\ s \in delegating)
          /\ \/ span.type \in {"tool_call", "mcp_tool_call"} /\ span.name # None
             \/ /\ ProviderSlug(span.provider) # None
                /\ \/ span.type = "model_inference" /\ {span.name, span.responseModel} # {None}
                   \/ span.type = "rag_embedding" /\ span.name # None
<1> DEFINE u == ToLlmUsage(span.usage)
<1>1. u \in [input : Nat \cup {None}, cacheRead : Nat \cup {None}, cacheWrite : Nat \cup {None}]
  BY UsageIn DEF IsSpan
<1>2. /\ [kind |-> "generation", usage |-> u] # None
      /\ [kind |-> "embedding", usage |-> u] # None
      /\ [kind |-> "tool_execution", usage |-> None] # None
  <2> HIDE DEF u
  <2>1. /\ [kind |-> "generation", usage |-> u] \in Meterings
        /\ [kind |-> "embedding", usage |-> u] \in Meterings
        /\ [kind |-> "tool_execution", usage |-> None] \in Meterings
    BY <1>1 DEF Meterings
  <2> QED BY <2>1, NoneDistinct
<1>3. (span.responseModel = None /\ span.name = None) <=> {span.name, span.responseModel} = {None}
  OBVIOUS
<1>4. Model(span) = None <=>
        ProviderSlug(span.provider) = None \/ {span.name, span.responseModel} = {None}
  BY <1>2, <1>3 DEF Model, Metered
<1>5. Embedding(span) = None <=> ProviderSlug(span.provider) = None \/ span.name = None
  BY <1>2 DEF Embedding, Metered
<1>6. Tool(span, s) = None <=> span.name = None \/ (span.type = "tool_call" /\ s \in delegating)
  BY <1>2 DEF Tool, Metered
<1>7. span.type \in {"model_inference", "rag_embedding", "tool_call", "mcp_tool_call"}
  BY DEF IsMeteredSpanType
<1> HIDE DEF u
<1> QED BY <1>4, <1>5, <1>6, <1>7 DEF Meter

(* Record gives a record iff there is something to bill, and a true one. *)
LEMMA RecordMade ==
  ASSUME NEW s \in DOMAIN spans, IsSpan(spans[s])
  PROVE Record(s) # None <=>
          Billable(s) /\ ~(spans[s].type = "tool_call" /\ s \in delegating)
<1> DEFINE span == spans[s]
           metered == Meter(span, s)
           attribution == ResolveAttribution(span.audr, Defaults)
           gone == ~span.readable \/ ~IsMeteredSpanType(span.type) \/ metered = None \/ attribution = None
           made == [metered |-> metered, attribution |-> attribution, parent |-> span.parent,
                    timing |-> SpanTiming(span.startTime, span.endTime), failed |-> span.failed]
<1>1. Record(s) = IF gone THEN None ELSE made
  BY DEF Record
<1>2. ~gone => made # None
  <2> SUFFICES ASSUME ~gone PROVE made \in Records
    BY NoneDistinct
  <2>1. metered \in Meterings /\ attribution \in [Fields -> Values]
    BY MeterIn, AttributionIn
  <2>2. span.parent \in {None} \cup UNION {DOMAIN forest : forest \in Forests} /\ span.failed \in BOOLEAN
    BY DEF IsSpan
  <2>3. SpanTiming(span.startTime, span.endTime)
          \in [eventTime : Nat \cup {"now"}, durationMs : Nat \cup {None}]
    BY TimingIn
  <2> HIDE DEF span, metered, attribution, gone
  <2> QED BY <2>1, <2>2, <2>3 DEF Records
<1>3. ~gone <=> Billable(s) /\ ~(spans[s].type = "tool_call" /\ s \in delegating)
  <2>1. CASE IsMeteredSpanType(span.type)
    BY <2>1, MeterSome DEF Billable
  <2>2. CASE ~IsMeteredSpanType(span.type)
    BY <2>2 DEF Billable, IsMeteredSpanType
  <2> QED BY <2>1, <2>2
<1> HIDE DEF gone, made
<1> QED BY <1>1, <1>2, <1>3

(* A record counts each token once and gives no negative duration. *)
Truthful(record) ==
  /\ record.timing.durationMs # None => record.timing.durationMs >= 0
  /\ record.metered.usage # None =>
       LET usage == record.metered.usage
       IN OrZero(usage.input) + OrZero(usage.cacheRead) + OrZero(usage.cacheWrite) <= Prompt

LEMMA RecordTrue ==
  ASSUME NEW s \in DOMAIN spans, IsSpan(spans[s]), Record(s) # None
  PROVE Truthful(Record(s))
<1> DEFINE span == spans[s]
           metered == Meter(span, s)
           timing == SpanTiming(span.startTime, span.endTime)
<1>1. /\ IsMeteredSpanType(span.type) /\ metered # None
      /\ Record(s).metered = metered /\ Record(s).timing = timing
  BY DEF Record
<1>2. timing.durationMs # None => timing.durationMs >= 0
  <2>1. timing \in [eventTime : Nat \cup {"now"}, durationMs : Nat \cup {None}]
    BY TimingIn
  <2> HIDE DEF timing
  <2> QED BY <2>1
<1>3. metered.usage # None =>
        LET u == metered.usage
        IN OrZero(u.input) + OrZero(u.cacheRead) + OrZero(u.cacheWrite) <= Prompt
  BY <1>1, MeterIn
<1> HIDE DEF span, metered, timing
<1> QED BY <1>1, <1>2, <1>3 DEF Truthful
-----------------------------------------------------------------------------
(* The history, as an event is added to it.                                *)

(* An event e of a child that s delegates to. *)
Marks(e, s) ==
  \E child \in DOMAIN spans :
    /\ spans[child].parent = s /\ IsDelegation(spans[child].type)
    /\ e \in {<<"started", child>>, <<"ended", child>>}

Kept(s) == \E i \in DOMAIN trace : StartKept(s, i, Len(trace))

LEMMA MarksOf ==
  ASSUME NEW t \in DOMAIN spans, NEW s, NEW kind \in {"started", "ended"}
  PROVE Marks(<<kind, t>>, s) <=> IsDelegation(spans[t].type) /\ spans[t].parent = s
BY DEF Marks

LEMMA Delegated ==
  ASSUME NEW s, NEW k
  PROVE DelegatedBefore(s, k) <=>
          \E i, j \in 1..(k - 1) :
            /\ i < j /\ trace[i] = <<"started", s>>
            /\ \A n \in i..(k - 1) : trace[n] # <<"shutdown">>
            /\ Marks(trace[j], s)
BY DEF DelegatedBefore, Marks

LEMMA DelegatedKept ==
  ASSUME NEW s, NEW k, DelegatedBefore(s, k)
  PROVE \E i \in 1..(k - 1) :
          trace[i] = <<"started", s>> /\ \A n \in i..(k - 1) : trace[n] # <<"shutdown">>
BY DEF DelegatedBefore

LEMMA DelegatedNext ==
  ASSUME NEW s, NEW k, spans' = spans
  PROVE DelegatedBefore(s, k)' <=>
          \E i, j \in 1..(k' - 1) :
            /\ i < j /\ trace'[i] = <<"started", s'>>
            /\ \A n \in i..(k' - 1) : trace'[n] # <<"shutdown">>
            /\ Marks(trace'[j], s')
BY DEF DelegatedBefore, Marks

LEMMA ExportedNext ==
  ASSUME TypeInv, NEW e \in Events, trace' = Append(trace, e), NEW CONSTANT s, NEW CONSTANT kind
  PROVE Exported(s, kind)' <=> Exported(s, kind) \/ e = <<kind, s>>
<1>1. /\ Len(trace) \in Nat /\ DOMAIN trace' = DOMAIN trace \cup {Len(trace) + 1}
      /\ trace'[Len(trace) + 1] = e /\ \A k \in DOMAIN trace : trace'[k] = trace[k]
  BY DEF TypeInv
<1> QED BY <1>1 DEF Exported

(* What was known before a position stays what was known. *)
LEMMA PastKept ==
  ASSUME TypeInv, NEW e \in Events, trace' = Append(trace, e), spans' = spans,
         NEW CONSTANT s, NEW CONSTANT k \in 1..(Len(trace) + 1)
  PROVE DelegatedBefore(s, k)' <=> DelegatedBefore(s, k)
<1>1. /\ Len(trace) \in Nat
      /\ \A n \in 1..Len(trace) : trace'[n] = trace[n]
  BY DEF TypeInv
<1>2. \A n \in 1..(k - 1) : trace'[n] = trace[n]
  BY <1>1
<1>3. \A i \in 1..(k - 1) : \A n \in i..(k - 1) : n \in 1..(k - 1)
  BY <1>1
<1>4. DelegatedBefore(s, k)' <=>
        \E i, j \in 1..(k - 1) :
          /\ i < j /\ trace'[i] = <<"started", s>>
          /\ \A n \in i..(k - 1) : trace'[n] # <<"shutdown">>
          /\ Marks(trace'[j], s)
  BY DelegatedNext
<1>5. DelegatedBefore(s, k) <=>
        \E i, j \in 1..(k - 1) :
          /\ i < j /\ trace[i] = <<"started", s>>
          /\ \A n \in i..(k - 1) : trace[n] # <<"shutdown">>
          /\ Marks(trace[j], s)
  BY Delegated
<1> QED BY ONLY <1>2, <1>3, <1>4, <1>5

LEMMA KeptNext ==
  ASSUME TypeInv, NEW e \in Events, trace' = Append(trace, e), NEW CONSTANT s
  PROVE Kept(s)' <=> e # <<"shutdown">> /\ (Kept(s) \/ e = <<"started", s>>)
<1> DEFINE n == Len(trace)
<1>1. /\ n \in Nat /\ DOMAIN trace = 1..n /\ DOMAIN trace' = 1..(n + 1) /\ Len(trace') = n + 1
      /\ trace'[n + 1] = e /\ \A k \in 1..n : trace'[k] = trace[k]
  BY DEF TypeInv
<1>2. Kept(s) <=> \E i \in 1..n : trace[i] = <<"started", s>> /\ \A m \in i..n : trace[m] # <<"shutdown">>
  BY <1>1 DEF Kept, StartKept
<1>3. Kept(s)' <=> \E i \in 1..(n + 1) : /\ trace'[i] = <<"started", s>>
                                        /\ \A m \in i..(n + 1) : trace'[m] # <<"shutdown">>
  BY <1>1 DEF Kept, StartKept
<1> HIDE DEF n
<1>4. ASSUME NEW i \in 1..(n + 1), trace'[i] = <<"started", s>>,
             \A m \in i..(n + 1) : trace'[m] # <<"shutdown">>
      PROVE e # <<"shutdown">> /\ (Kept(s) \/ e = <<"started", s>>)
  <2>1. n + 1 \in i..(n + 1)
    BY <1>1
  <2>2. e # <<"shutdown">>
    BY <1>1, <1>4, <2>1
  <2>3. CASE i = n + 1
    BY <2>2, <2>3, <1>1, <1>4
  <2>4. CASE i # n + 1
    <3>1. i \in 1..n /\ \A m \in i..n : m \in i..(n + 1) /\ m \in 1..n
      BY <2>4, <1>1
    <3> QED BY <3>1, <2>2, <1>1, <1>2, <1>4
  <2> QED BY <2>3, <2>4
<1>5. ASSUME e # <<"shutdown">>, e = <<"started", s>> PROVE Kept(s)'
  <2>1. n + 1 \in 1..(n + 1) /\ \A m \in (n + 1)..(n + 1) : m = n + 1
    BY <1>1
  <2> QED BY <2>1, <1>1, <1>3, <1>5
<1>6. ASSUME e # <<"shutdown">>, Kept(s) PROVE Kept(s)'
  <2>1. PICK i \in 1..n : trace[i] = <<"started", s>> /\ \A m \in i..n : trace[m] # <<"shutdown">>
    BY <1>2, <1>6
  <2>2. i \in 1..(n + 1) /\ \A m \in i..(n + 1) : m = n + 1 \/ (m \in i..n /\ m \in 1..n)
    BY <1>1
  <2> QED BY <2>1, <2>2, <1>1, <1>3, <1>6
<1> QED BY <1>3, <1>4, <1>5, <1>6

LEMMA DelegatedLast ==
  ASSUME TypeInv, NEW e \in Events, trace' = Append(trace, e), spans' = spans, NEW CONSTANT s
  PROVE DelegatedBefore(s, Len(trace) + 1)' <=>
          /\ e # <<"shutdown">>
          /\ DelegatedBefore(s, Len(trace) + 1) \/ (Kept(s) /\ Marks(e, s))
<1> DEFINE n == Len(trace)
<1>1. /\ n \in Nat /\ DOMAIN trace = 1..n /\ Len(trace') = n + 1
      /\ trace'[n + 1] = e /\ \A k \in 1..n : trace'[k] = trace[k]
  BY DEF TypeInv
<1>2. Kept(s) <=> \E i \in 1..n : trace[i] = <<"started", s>> /\ \A m \in i..n : trace[m] # <<"shutdown">>
  BY <1>1 DEF Kept, StartKept
<1>3. DelegatedBefore(s, n + 1) <=>
        \E i, j \in 1..n : /\ i < j /\ trace[i] = <<"started", s>>
                           /\ \A m \in i..n : trace[m] # <<"shutdown">>
                           /\ Marks(trace[j], s)
  <2>1. DelegatedBefore(s, Len(trace) + 1) <=>
          \E i, j \in 1..((Len(trace) + 1) - 1) :
            /\ i < j /\ trace[i] = <<"started", s>>
            /\ \A m \in i..((Len(trace) + 1) - 1) : trace[m] # <<"shutdown">>
            /\ Marks(trace[j], s)
    BY DEF DelegatedBefore, Marks
  <2>2. (Len(trace) + 1) - 1 = n
    BY <1>1
  <2> QED BY <2>1, <2>2
<1>4. DelegatedBefore(s, Len(trace) + 1)' <=>
        \E i, j \in 1..(n + 1) : /\ i < j /\ trace'[i] = <<"started", s>>
                                 /\ \A m \in i..(n + 1) : trace'[m] # <<"shutdown">>
                                 /\ Marks(trace'[j], s)
  <2>1. DelegatedBefore(s, Len(trace) + 1)' <=>
          \E i, j \in 1..((Len(trace) + 1)' - 1) :
            /\ i < j /\ trace'[i] = <<"started", s>>
            /\ \A m \in i..((Len(trace) + 1)' - 1) : trace'[m] # <<"shutdown">>
            /\ Marks(trace'[j], s)
    BY DelegatedNext
  <2>2. (Len(trace) + 1)' - 1 = n + 1
    BY <1>1
  <2> QED BY <2>1, <2>2
<1> HIDE DEF n
<1>5. ASSUME NEW i \in 1..(n + 1), NEW j \in 1..(n + 1), i < j, trace'[i] = <<"started", s>>,
             \A m \in i..(n + 1) : trace'[m] # <<"shutdown">>, Marks(trace'[j], s)
      PROVE /\ e # <<"shutdown">>
            /\ DelegatedBefore(s, n + 1) \/ (Kept(s) /\ Marks(e, s))
  <2>1. n + 1 \in i..(n + 1)
    BY <1>1
  <2>2. e # <<"shutdown">>
    BY <1>1, <1>5, <2>1
  <2>3. i \in 1..n /\ \A m \in i..n : m \in i..(n + 1) /\ m \in 1..n
    BY <1>1, <1>5
  <2>4. trace[i] = <<"started", s>> /\ \A m \in i..n : trace[m] # <<"shutdown">>
    BY <2>3, <1>1, <1>5
  <2>5. CASE j = n + 1
    BY <2>2, <2>3, <2>4, <2>5, <1>1, <1>2, <1>5
  <2>6. CASE j # n + 1
    <3>1. j \in 1..n
      BY <2>6, <1>1
    <3> QED BY <3>1, <2>2, <2>3, <2>4, <1>1, <1>3, <1>5
  <2> QED BY <2>5, <2>6
<1>6. ASSUME e # <<"shutdown">>, NEW i \in 1..n, trace[i] = <<"started", s>>,
             \A m \in i..n : trace[m] # <<"shutdown">>,
             NEW j \in 1..(n + 1), i < j, Marks(trace'[j], s)
      PROVE DelegatedBefore(s, Len(trace) + 1)'
  <2>1. i \in 1..(n + 1) /\ \A m \in i..(n + 1) : m = n + 1 \/ (m \in i..n /\ m \in 1..n)
    BY <1>1
  <2>2. trace'[i] = <<"started", s>> /\ \A m \in i..(n + 1) : trace'[m] # <<"shutdown">>
    BY <2>1, <1>1, <1>6
  <2> QED BY <2>1, <2>2, <1>4, <1>6
<1>7. ASSUME e # <<"shutdown">>, DelegatedBefore(s, n + 1)
      PROVE DelegatedBefore(s, Len(trace) + 1)'
  <2>1. PICK i \in 1..n, j \in 1..n : /\ i < j /\ trace[i] = <<"started", s>>
                                      /\ \A m \in i..n : trace[m] # <<"shutdown">>
                                      /\ Marks(trace[j], s)
    BY <1>3, <1>7
  <2>2. j \in 1..(n + 1) /\ trace'[j] = trace[j]
    BY <1>1
  <2> QED BY <2>1, <2>2, <1>6, <1>7
<1>8. ASSUME e # <<"shutdown">>, Kept(s), Marks(e, s)
      PROVE DelegatedBefore(s, Len(trace) + 1)'
  <2>1. PICK i \in 1..n : trace[i] = <<"started", s>> /\ \A m \in i..n : trace[m] # <<"shutdown">>
    BY <1>2, <1>8
  <2>2. n + 1 \in 1..(n + 1) /\ trace'[n + 1] = e /\ i < n + 1
    BY <1>1
  <2> QED BY <2>1, <2>2, <1>6, <1>8
<1>9. DelegatedBefore(s, Len(trace) + 1)' =>
        /\ e # <<"shutdown">>
        /\ DelegatedBefore(s, n + 1) \/ (Kept(s) /\ Marks(e, s))
  BY <1>4, <1>5
<1> QED BY <1>7, <1>8, <1>9 DEF n
-----------------------------------------------------------------------------
(* Steps.                                                                  *)

LEMMA TablesStep ==
  ASSUME TypeInv, TablesInv, NEW e \in Events, trace' = Append(trace, e), spans' = spans,
         \A s \in DOMAIN spans : e = <<"started", s>> => ~Exported(s, "ended"),
         \A s \in DOMAIN spans :
           s \in open' <=> /\ e # <<"shutdown">> /\ e # <<"ended", s>>
                           /\ s \in open \/ (spans[s].type = "tool_call" /\ e = <<"started", s>>),
         \A s \in DOMAIN spans :
           s \in delegating' <=> /\ e # <<"shutdown">> /\ e # <<"ended", s>>
                                 /\ s \in delegating \/ (s \in open /\ Marks(e, s))
  PROVE TablesInv'
<1> SUFFICES ASSUME NEW CONSTANT s \in DOMAIN spans
             PROVE /\ s \in open' <=> /\ spans[s].type = "tool_call" /\ ~Exported(s, "ended")'
                                      /\ Kept(s)'
                   /\ s \in delegating' <=> /\ spans[s].type = "tool_call" /\ ~Exported(s, "ended")'
                                            /\ DelegatedBefore(s, Len(trace) + 1)'
  BY DEF TablesInv, Kept
<1>1. Exported(s, "ended")' <=> Exported(s, "ended") \/ e = <<"ended", s>>
  BY ExportedNext
<1>2. Kept(s)' <=> e # <<"shutdown">> /\ (Kept(s) \/ e = <<"started", s>>)
  BY KeptNext
<1>3. DelegatedBefore(s, Len(trace) + 1)' <=>
          /\ e # <<"shutdown">>
          /\ DelegatedBefore(s, Len(trace) + 1) \/ (Kept(s) /\ Marks(e, s))
  BY DelegatedLast
<1>4. s \in open <=> spans[s].type = "tool_call" /\ ~Exported(s, "ended") /\ Kept(s)
  BY DEF TablesInv, Kept
<1>5. s \in delegating <=> /\ spans[s].type = "tool_call" /\ ~Exported(s, "ended")
                           /\ DelegatedBefore(s, Len(trace) + 1)
  BY DEF TablesInv
<1>6. e = <<"started", s>> => e # <<"ended", s>>
  OBVIOUS
<1> QED BY <1>1, <1>2, <1>3, <1>4, <1>5, <1>6

(* The end of t is its only one, and gives t its record. *)
LEMMA LogStep ==
  ASSUME MastraInv, NEW e \in Events, trace' = Append(trace, e), spans' = spans,
         \/ log' = log /\ e[1] # "ended"
         \/ \E t \in DOMAIN spans : /\ e = <<"ended", t>> /\ ~Exported(t, "ended")
                                    /\ log' = [log EXCEPT ![t] = Record(t)]
  PROVE EndsInv' /\ BilledInv' /\ CountsTruthful'
<1> DEFINE n == Len(trace)
<1>1. /\ n \in Nat /\ DOMAIN trace = 1..n /\ DOMAIN trace' = DOMAIN trace \cup {n + 1}
      /\ n + 1 \notin DOMAIN trace /\ n + 1 \in 1..(Len(trace) + 1)
      /\ \A k \in DOMAIN trace : k \in 1..(Len(trace) + 1)
      /\ trace'[n + 1] = e /\ \A k \in DOMAIN trace : trace'[k] = trace[k]
  BY DEF MastraInv, TypeInv
<1> HIDE DEF n
<1>t. TypeInv /\ DOMAIN log = DOMAIN spans /\ \A k \in DOMAIN trace : trace[k] \in Events
  BY DEF MastraInv, TypeInv
<1>e. /\ \A k \in DOMAIN trace : trace[k][1] = "ended" =>
           trace[k][2] \in DOMAIN spans /\ trace[k] = <<"ended", trace[k][2]>>
      /\ e[1] = "ended" => e[2] \in DOMAIN spans /\ e = <<"ended", e[2]>>
  BY <1>t DEF Events
<1>2. \A s \in DOMAIN spans :
        \/ log'[s] = log[s] /\ e # <<"ended", s>>
        \/ log'[s] = Record(s) /\ e = <<"ended", s>> /\ ~Exported(s, "ended")
  BY <1>t
<1>3. \A s : Exported(s, "ended") <=> \E k \in DOMAIN trace : trace[k] = <<"ended", s>>
  BY DEF Exported
<1>4. EndsInv'
  <2>1. ASSUME NEW j \in DOMAIN trace', NEW k \in DOMAIN trace',
               trace'[j] = trace'[k], trace'[j][1] = "ended"
        PROVE j = k
    <3>1. e[1] = "ended" => \A i \in DOMAIN trace : trace[i] # e
      BY <1>2, <1>3, <1>e
    <3> QED BY <2>1, <3>1, <1>1 DEF MastraInv, EndsInv
  <2>2. ASSUME NEW CONSTANT s \in DOMAIN spans, ~Exported(s, "ended")'
        PROVE log'[s] = None
    <3>1. ~Exported(s, "ended") /\ e # <<"ended", s>>
      BY <2>2, <1>t, ExportedNext
    <3> QED BY <3>1, <1>2 DEF MastraInv, EndsInv
  <2> QED BY <2>1, <2>2 DEF EndsInv
<1>5. ASSUME NEW CONSTANT s \in DOMAIN spans, NEW CONSTANT k \in DOMAIN trace',
             trace'[k] = <<"ended", s>>
      PROVE log'[s] # None <=>
              Billable(s)' /\ ~(spans[s].type = "tool_call" /\ DelegatedBefore(s, k)')
  <2>1. IsSpan(spans[s])
    BY <1>t DEF TypeInv
  <2>2. Billable(s)' <=> Billable(s)
    BY DEF Billable
  <2>4. DelegatedBefore(s, k)' <=> DelegatedBefore(s, k)
    BY <1>1, <1>t, PastKept
  <2>5. CASE k = n + 1
    <3>1. log'[s] = Record(s) /\ ~Exported(s, "ended")
      BY <2>5, <1>1, <1>2, <1>5
    <3>2. s \in delegating /\ spans[s].type = "tool_call"
            <=> spans[s].type = "tool_call" /\ DelegatedBefore(s, k)
      BY <2>5, <3>1 DEF MastraInv, TablesInv, n
    <3>3. log'[s] # None <=> Billable(s) /\ ~(spans[s].type = "tool_call" /\ DelegatedBefore(s, k))
      BY <2>1, <3>1, <3>2, RecordMade
    <3> QED BY <3>3, <2>2, <2>4
  <2>6. CASE k # n + 1
    <3>1. k \in DOMAIN trace /\ trace[k] = <<"ended", s>>
      BY <2>6, <1>1, <1>5
    <3>2. log'[s] = log[s]
      BY <3>1, <1>2, <1>3
    <3>3. log[s] # None <=> Billable(s) /\ ~(spans[s].type = "tool_call" /\ DelegatedBefore(s, k))
      BY <3>1 DEF MastraInv, BilledInv
    <3> QED BY <3>2, <3>3, <2>2, <2>4
  <2> QED BY <2>5, <2>6
<1>6. BilledInv'
  BY <1>5 DEF BilledInv
<1>7. ASSUME NEW s \in DOMAIN spans, log'[s] # None
      PROVE Truthful(log'[s])
  <2>1. CASE log'[s] = log[s]
    BY <1>7, <2>1 DEF MastraInv, CountsTruthful, Truthful
  <2>2. CASE log'[s] = Record(s)
    BY <1>7, <2>2, <1>t, RecordTrue DEF TypeInv
  <2> QED BY <2>1, <2>2, <1>2
<1>8. CountsTruthful'
  BY <1>7 DEF CountsTruthful, Truthful
<1> QED BY <1>4, <1>6, <1>8

(* The start of t adds it to what is open, its end takes it out. *)
LEMMA StartedStep ==
  ASSUME MastraInv, NEW t \in DOMAIN spans, SpanStarted(t)
  PROVE MastraInv'
<1> DEFINE e == <<"started", t>>
<1>1. /\ e \in Events /\ trace' = Append(trace, e) /\ spans' = spans /\ log' = log
      /\ e # <<"shutdown">> /\ e[1] # "ended"
      /\ \A s : (e = <<"started", s>> <=> s = t) /\ e # <<"ended", s>>
  BY DEF SpanStarted, Events
<1>2. \A s : Marks(e, s) <=> IsDelegation(spans[t].type) /\ spans[t].parent = s
  BY MarksOf
<1>3. \A s \in DOMAIN spans : s \in open' <=> s \in open \/ (spans[s].type = "tool_call" /\ s = t)
  BY DEF SpanStarted
<1>4. \A s : s \in delegating' <=> s \in delegating \/ (s \in open /\ Marks(e, s))
  BY <1>2 DEF SpanStarted, TrackDelegationChild
<1>5. TypeInv'
  <2>1. open' \subseteq DOMAIN spans /\ delegating' \subseteq DOMAIN spans
    BY <1>4 DEF SpanStarted, MastraInv, TypeInv
  <2>2. trace' \in Seq(Events) /\ Events' = Events
    BY <1>1 DEF MastraInv, TypeInv, Events
  <2> HIDE DEF e
  <2> QED BY <2>1, <2>2, <1>1 DEF MastraInv, TypeInv
<1>6. ~Exported(t, "ended")
  BY DEF SpanStarted
<1> HIDE DEF e
<1>7. TablesInv'
  BY <1>1, <1>3, <1>4, <1>6, TablesStep DEF MastraInv
<1>8. EndsInv' /\ BilledInv' /\ CountsTruthful'
  BY <1>1, LogStep
<1> QED BY <1>5, <1>7, <1>8 DEF MastraInv

LEMMA EndedStep ==
  ASSUME MastraInv, NEW t \in DOMAIN spans, SpanEnded(t)
  PROVE MastraInv'
<1> DEFINE e == <<"ended", t>>
<1>1. /\ e \in Events /\ trace' = Append(trace, e) /\ spans' = spans
      /\ log' = [log EXCEPT ![t] = Record(t)] /\ ~Exported(t, "ended")
      /\ e # <<"shutdown">>
      /\ \A s : (e = <<"ended", s>> <=> s = t) /\ e # <<"started", s>>
  BY DEF SpanEnded, Events
<1>2. \A s : Marks(e, s) <=> IsDelegation(spans[t].type) /\ spans[t].parent = s
  BY MarksOf
<1>3. \A s \in DOMAIN spans :
        (s \in open \/ s \in delegating) => spans[s].type = "tool_call"
  BY DEF MastraInv, TablesInv
<1>o. open \subseteq DOMAIN spans /\ delegating \subseteq DOMAIN spans
  BY DEF MastraInv, TypeInv
<1>4. \A s : s \in open' <=> s \in open /\ s # t
  BY <1>3, <1>o DEF SpanEnded, FinishTool
<1>5. \A s : s \in TrackDelegationChild(t) <=> s \in delegating \/ (s \in open /\ Marks(e, s))
  BY <1>2 DEF TrackDelegationChild
<1>6. \A s \in TrackDelegationChild(t) : s \in DOMAIN spans /\ spans[s].type = "tool_call"
  BY <1>3, <1>5, <1>o
<1>7. \A s : s \in delegating' <=> s # t /\ (s \in delegating \/ (s \in open /\ Marks(e, s)))
  BY <1>5, <1>6 DEF SpanEnded, FinishTool
<1>8. TypeInv'
  <2>1. open' \subseteq DOMAIN spans /\ delegating' \subseteq DOMAIN spans
    BY <1>4, <1>7, <1>o
  <2>2. trace' \in Seq(Events) /\ Events' = Events
    BY <1>1 DEF MastraInv, TypeInv, Events
  <2>3. DOMAIN log' = DOMAIN log
    BY <1>1
  <2> HIDE DEF e
  <2> QED BY <2>1, <2>2, <2>3, <1>1 DEF MastraInv, TypeInv
<1> HIDE DEF e
<1>9. TablesInv'
  BY <1>1, <1>4, <1>7, TablesStep DEF MastraInv
<1>10. EndsInv' /\ BilledInv' /\ CountsTruthful'
  <2>1. \E s \in DOMAIN spans : /\ e = <<"ended", s>> /\ ~Exported(s, "ended")
                                /\ log' = [log EXCEPT ![s] = Record(s)]
    BY <1>1 DEF e
  <2> QED BY <1>1, <2>1, LogStep
<1> QED BY <1>8, <1>9, <1>10 DEF MastraInv

LEMMA ShutdownStep ==
  ASSUME MastraInv, Shutdown
  PROVE MastraInv'
<1> DEFINE e == <<"shutdown">>
<1>1. /\ e \in Events /\ trace' = Append(trace, e) /\ spans' = spans /\ log' = log
      /\ open' = {} /\ delegating' = {} /\ e[1] # "ended"
      /\ \A s : e # <<"started", s>>
  BY DEF Shutdown, Events
<1>2. TypeInv'
  <2>1. trace' \in Seq(Events) /\ Events' = Events
    BY <1>1 DEF MastraInv, TypeInv, Events
  <2> HIDE DEF e
  <2> QED BY <2>1, <1>1 DEF MastraInv, TypeInv
<1>3. e = <<"shutdown">>
  OBVIOUS
<1> HIDE DEF e
<1>4. TablesInv'
  BY <1>1, <1>3, TablesStep DEF MastraInv
<1>5. EndsInv' /\ BilledInv' /\ CountsTruthful'
  BY <1>1, LogStep
<1> QED BY <1>2, <1>4, <1>5 DEF MastraInv

LEMMA MastraStutter == MastraInv /\ UNCHANGED vars => MastraInv'
<1> SUFFICES ASSUME MastraInv, UNCHANGED vars PROVE MastraInv'
  OBVIOUS
<1>u. spans' = spans /\ open' = open /\ delegating' = delegating /\ log' = log /\ trace' = trace
  BY DEF vars
<1>1. TypeInv'
  BY <1>u DEF MastraInv, TypeInv, Events
<1>2. TablesInv'
  <2>1. \A s, k : (Exported(s, k)' <=> Exported(s, k)) /\ (DelegatedBefore(s, k)' <=> DelegatedBefore(s, k))
    BY <1>u DEF Exported, DelegatedBefore
  <2>2. \A s, i, k : StartKept(s, i, k)' <=> StartKept(s, i, k)
    BY <1>u DEF StartKept
  <2>3. PICK n : n = Len(trace) /\ n + 1 = Len(trace) + 1
    OBVIOUS
  <2>4. \A s \in DOMAIN spans :
          /\ s \in open <=> /\ spans[s].type = "tool_call" /\ ~Exported(s, "ended")
                            /\ \E i \in DOMAIN trace : StartKept(s, i, n)
          /\ s \in delegating <=> /\ spans[s].type = "tool_call" /\ ~Exported(s, "ended")
                                  /\ DelegatedBefore(s, n + 1)
    BY <2>3 DEF MastraInv, TablesInv
  <2> QED BY <1>u, <2>1, <2>2, <2>3, <2>4 DEF TablesInv
<1>3. EndsInv'
  <2>1. \A s : Exported(s, "ended")' <=> Exported(s, "ended")
    BY <1>u DEF Exported
  <2> QED BY <1>u, <2>1 DEF MastraInv, EndsInv
<1>4. CountsTruthful'
  BY <1>u DEF MastraInv, CountsTruthful
<1>5. BilledInv'
  <2>1. \A s, k : (Billable(s)' <=> Billable(s)) /\ (DelegatedBefore(s, k)' <=> DelegatedBefore(s, k))
    BY <1>u DEF Billable, DelegatedBefore
  <2> QED BY <1>u, <2>1 DEF MastraInv, BilledInv
<1> QED BY <1>1, <1>2, <1>3, <1>4, <1>5 DEF MastraInv

LEMMA MastraInit == Init => MastraInv
<1> SUFFICES ASSUME Init PROVE MastraInv
  OBVIOUS
<1>1. \A s \in DOMAIN spans : IsSpan(spans[s])
  BY SpanIn DEF Init
<1>2. trace = <<>> /\ DOMAIN trace = {} /\ Len(trace) = 0 /\ trace \in Seq(Events)
  BY DEF Init
<1>3. TypeInv
  BY <1>1, <1>2 DEF Init, TypeInv
<1>4. TablesInv
  BY <1>2 DEF Init, TablesInv, DelegatedBefore
<1>5. EndsInv /\ BilledInv /\ CountsTruthful
  BY <1>2 DEF Init, EndsInv, BilledInv, CountsTruthful
<1> QED BY <1>3, <1>4, <1>5 DEF MastraInv
-----------------------------------------------------------------------------
(* Theorems.                                                               *)

(* The inductive invariant: the tables are what the history makes of them. *)
THEOREM MastraInvariant == Spec => []MastraInv
<1>1. MastraInv /\ [Next]_vars => MastraInv'
  BY StartedStep, EndedStep, ShutdownStep, MastraStutter DEF Next
<1> QED BY <1>1, MastraInit, PTL DEF Spec

(* Whatever the order of a trace's events and of shutdown(), each span that can be *)
(* billed is billed when it ends, unless it is known to delegate, and its record   *)
(* counts no token twice.                                                          *)
THEOREM SpansRecorded == Spec => []RecordsExact
<1>1. MastraInv => RecordsExact
  <2> SUFFICES ASSUME MastraInv PROVE SpansBilled /\ CountsTruthful
    BY DEF RecordsExact
  <2>1. ASSUME NEW k \in DOMAIN trace, trace[k][1] = "ended"
        PROVE trace[k][2] \in DOMAIN spans /\ trace[k] = <<"ended", trace[k][2]>>
    BY <2>1 DEF MastraInv, TypeInv, Events
  <2>2. SpansBilled
    BY <2>1 DEF MastraInv, BilledInv, SpansBilled
  <2> QED BY <2>2 DEF MastraInv
<1> QED BY <1>1, MastraInvariant, PTL

(* The tables hold tool calls under way and nothing else, in a process of any age. *)
THEOREM TablesEmptied == Spec => []NoResidue
<1>1. MastraInv => NoResidue
  <2> SUFFICES ASSUME MastraInv PROVE NoResidue
    OBVIOUS
  <2>1. ASSUME NEW s \in DOMAIN spans, Kept(s) PROVE Exported(s, "started")
    BY <2>1 DEF Kept, StartKept, Exported
  <2>2. ASSUME NEW s \in DOMAIN spans, DelegatedBefore(s, Len(trace) + 1) PROVE Kept(s)
    <3>1. Len(trace) \in Nat /\ DOMAIN trace = 1..Len(trace) /\ (Len(trace) + 1) - 1 = Len(trace)
      BY DEF MastraInv, TypeInv
    <3>2. PICK i \in 1..((Len(trace) + 1) - 1) :
            trace[i] = <<"started", s>> /\ \A n \in i..((Len(trace) + 1) - 1) : trace[n] # <<"shutdown">>
      BY <2>2, DelegatedKept
    <3> QED BY <3>1, <3>2 DEF Kept, StartKept
  <2>3. open \subseteq DOMAIN spans /\ delegating \subseteq DOMAIN spans
    BY DEF MastraInv, TypeInv
  <2>4. \A s \in DOMAIN spans :
          /\ s \in open <=> spans[s].type = "tool_call" /\ ~Exported(s, "ended") /\ Kept(s)
          /\ s \in delegating => /\ spans[s].type = "tool_call" /\ ~Exported(s, "ended")
                                 /\ DelegatedBefore(s, Len(trace) + 1)
    BY DEF MastraInv, TablesInv, Kept
  <2> QED BY <2>1, <2>2, <2>3, <2>4 DEF NoResidue
<1> QED BY <1>1, MastraInvariant, PTL
-----------------------------------------------------------------------------
(* A value that keeps to a schema for a text or a number is one. *)
LeafSchema(schema) ==
  \A v : Breaks(v, schema) = {} => v.type \in {"string", "number"} /\ v # NotFinite

LeafTable(table) == \A f \in DOMAIN table : LeafSchema(table[f])

(* The type keyword makes a leaf. *)
LEMMA TypedIsLeaf ==
  ASSUME NEW schema, "type" \in DOMAIN schema, schema.type \in {"string", "number", "integer"}
  PROVE  LeafSchema(schema)
<1> SUFFICES ASSUME NEW v, Breaks(v, schema) = {}
             PROVE  v.type \in {"string", "number"} /\ v # NotFinite
  BY DEF LeafSchema
<1>1. HasType(v, schema.type)
  BY DEF Breaks
<1> QED
  BY <1>1 DEF HasType, NotFinite

(* So do the words of an enum. *)
LEMMA EnumIsLeaf ==
  ASSUME NEW words PROVE LeafSchema(Enum(words))
<1> SUFFICES ASSUME NEW v, Breaks(v, Enum(words)) = {}
             PROVE  v.type \in {"string", "number"} /\ v # NotFinite
  BY DEF LeafSchema
<1>1. "type" \notin DOMAIN Enum(words) /\ "enum" \in DOMAIN Enum(words)
  BY DEF Enum
<1>2. {k \in {"enum"} : "enum" \in DOMAIN Enum(words) /\ ~(v.type = "string" /\ v.text \in Enum(words).enum)} = {}
  BY <1>1 DEF Breaks
<1>3. v.type = "string"
  BY <1>1, <1>2
<1> QED
  BY <1>3 DEF NotFinite

(* Two tables of leaves put together are one. *)
LEMMA MergedLeaves ==
  ASSUME NEW a, NEW b, LeafTable(a), LeafTable(b)
  PROVE  LeafTable(Merge(a, b))
  BY DEF LeafTable, Merge

(* The schemas that several tables use are leaves. *)
LEMMA CommonLeaves ==
  /\ LeafSchema(NonEmpty) /\ LeafSchema(AnyText) /\ LeafSchema(Identifier) /\ LeafSchema(DateTime)
  /\ LeafSchema(Count) /\ LeafSchema(Amount) /\ LeafSchema(Version) /\ LeafSchema(LabelValues)
<1>1. LeafSchema(NonEmpty)
  BY TypedIsLeaf DEF NonEmpty
<1>2. LeafSchema(AnyText)
  BY TypedIsLeaf DEF AnyText
<1>3. LeafSchema(Identifier)
  BY TypedIsLeaf DEF Identifier
<1>4. LeafSchema(DateTime)
  BY TypedIsLeaf DEF DateTime
<1>5. LeafSchema(Count)
  BY TypedIsLeaf DEF Count
<1>6. LeafSchema(Amount)
  BY TypedIsLeaf DEF Amount
<1>7. LeafSchema(Version)
  BY TypedIsLeaf DEF Version
<1>8. LeafSchema(LabelValues)
  BY TypedIsLeaf DEF LabelValues
<1> QED
  BY <1>1, <1>2, <1>3, <1>4, <1>5, <1>6, <1>7, <1>8

(* Whatever has no table of its own is a leaf, in every table of the schema. *)
LEMMA LeafTables ==
  /\ LeafTable(EmitterSchema.properties) /\ LeafTable(TimingSchema.properties)
  /\ LeafTable(ResourceSchema.properties) /\ LeafTable(RunSchema.properties)
  /\ LeafTable(Merge(AttributionIds, AttributionPlan))
  /\ LeafTable(LlmUsageSchema.properties) /\ LeafTable(ToolUsageSchema.properties)
  /\ LeafTable(LlmCostSchema.properties) /\ LeafTable(ToolCostSchema.properties)
  /\ LeafTable(CostTotals) /\ LeafTable(Discounts)
<1>1. LeafTable(EmitterSchema.properties)
  BY CommonLeaves, EnumIsLeaf DEF EmitterSchema, LeafTable
<1>2. LeafTable(TimingSchema.properties)
  BY CommonLeaves DEF TimingSchema, TimingTexts, LeafTable
<1>3. LeafTable(ResourceSchema.properties)
  <2>1. LeafTable(ResourceNames)
    <3>1. LeafSchema([type |-> "string", pattern |-> "slug"])
      BY TypedIsLeaf
    <3> QED
      BY <3>1, CommonLeaves, EnumIsLeaf DEF ResourceNames, LeafTable
  <2>2. LeafTable(ResourceDetails)
    BY CommonLeaves, EnumIsLeaf DEF ResourceDetails, LeafTable
  <2> QED
    BY <2>1, <2>2, MergedLeaves DEF ResourceSchema
<1>4. LeafTable(RunSchema.properties)
  <2>1. LeafTable(RunSpans)
    BY CommonLeaves DEF RunSpans, LeafTable
  <2>2. LeafTable(RunProgress)
    BY CommonLeaves, EnumIsLeaf DEF RunProgress, LeafTable
  <2>3. LeafTable(RunEnd)
    <3>1. LeafSchema([type |-> "string", maxLength |-> 32])
      BY TypedIsLeaf
    <3> QED
      BY <3>1, CommonLeaves, EnumIsLeaf DEF RunEnd, LeafTable
  <2> QED
    BY <2>1, <2>2, <2>3, MergedLeaves DEF RunSchema
<1>5. LeafTable(Merge(AttributionIds, AttributionPlan))
  <2>1. LeafTable(AttributionIds)
    BY CommonLeaves, EnumIsLeaf DEF AttributionIds, LeafTable
  <2>2. LeafTable(AttributionPlan)
    BY CommonLeaves DEF AttributionPlan, LeafTable
  <2> QED
    BY <2>1, <2>2, MergedLeaves
<1>6. LeafTable(LlmUsageSchema.properties)
  <2>1. LeafTable(LlmTokens)
    BY CommonLeaves DEF LlmTokens, LeafTable
  <2>2. LeafTable(LlmMoreTokens)
    BY CommonLeaves DEF LlmMoreTokens, LeafTable
  <2>3. LeafTable(LlmMedia)
    BY CommonLeaves DEF LlmMedia, LeafTable
  <2> QED
    BY <2>1, <2>2, <2>3, MergedLeaves DEF LlmUsageSchema
<1>7. LeafTable(ToolUsageSchema.properties)
  BY CommonLeaves DEF ToolUsageSchema, ToolUsages, LeafTable
<1>8. LeafTable(LlmCostSchema.properties)
  <2>1. LeafTable(LlmInOutCosts) /\ LeafTable(LlmOtherCosts)
    BY CommonLeaves DEF LlmInOutCosts, LlmOtherCosts, LeafTable
  <2> QED
    BY <2>1, MergedLeaves DEF LlmCostSchema
<1>9. LeafTable(ToolCostSchema.properties)
  BY CommonLeaves DEF ToolCostSchema, ToolCosts, LeafTable
<1>10. LeafTable(CostTotals)
  <2>1. LeafSchema([type |-> "string", pattern |-> "currency"])
    BY TypedIsLeaf
  <2> QED
    BY <2>1, CommonLeaves DEF CostTotals, LeafTable
<1>11. LeafTable(Discounts)
  <2>1. LeafSchema([type |-> "number", minimum |-> 0, maximum |-> 100])
    BY TypedIsLeaf
  <2> QED
    BY <2>1, CommonLeaves DEF Discounts, LeafTable
<1> QED
  BY <1>1, <1>2, <1>3, <1>4, <1>5, <1>6, <1>7, <1>8, <1>9, <1>10, <1>11
-----------------------------------------------------------------------------
(* The tables, one for each object. *)
LEMMA ObjectSchemasAre ==
  ObjectSchemas =
    {<<<<>>, RootSchema>>, <<<<"emitter">>, EmitterSchema>>, <<<<"timing">>, TimingSchema>>,
     <<<<"resource">>, ResourceSchema>>, <<<<"run">>, RunSchema>>,
     <<<<"attribution">>, AttributionSchema>>, <<<<"usage">>, UsageSchema>>,
     <<<<"cost">>, CostSchema>>, <<<<"attribution", "labels">>, LabelsSchema>>,
     <<<<"usage", "llm">>, LlmUsageSchema>>, <<<<"usage", "tool">>, ToolUsageSchema>>,
     <<<<"cost", "llm">>, LlmCostSchema>>, <<<<"cost", "tool">>, ToolCostSchema>>}
<1> DEFINE root == RootSchema.properties
<1>1. /\ root["emitter"] = EmitterSchema /\ root["timing"] = TimingSchema
      /\ root["resource"] = ResourceSchema /\ root["run"] = RunSchema
      /\ root["attribution"] = AttributionSchema /\ root["usage"] = UsageSchema
      /\ root["cost"] = CostSchema
  BY DEF RootSchema
<1>2. UsageSchema.properties["llm"] = LlmUsageSchema /\ UsageSchema.properties["tool"] = ToolUsageSchema
  BY DEF UsageSchema
<1>3. CostSchema.properties["llm"] = LlmCostSchema /\ CostSchema.properties["tool"] = ToolCostSchema
  BY DEF CostSchema, Merge, CostTotals, Discounts
<1> HIDE DEF root
<1>4. {<<<<f>>, root[f]>> : f \in {"emitter", "timing", "resource", "run", "attribution", "usage", "cost"}} =
        {<<<<"emitter">>, EmitterSchema>>, <<<<"timing">>, TimingSchema>>,
         <<<<"resource">>, ResourceSchema>>, <<<<"run">>, RunSchema>>,
         <<<<"attribution">>, AttributionSchema>>, <<<<"usage">>, UsageSchema>>, <<<<"cost">>, CostSchema>>}
  BY <1>1
<1>5. {<<<<"usage", f>>, UsageSchema.properties[f]>> : f \in {"llm", "tool"}} =
        {<<<<"usage", "llm">>, LlmUsageSchema>>, <<<<"usage", "tool">>, ToolUsageSchema>>}
  BY <1>2
<1>6. {<<<<"cost", f>>, CostSchema.properties[f]>> : f \in {"llm", "tool"}} =
        {<<<<"cost", "llm">>, LlmCostSchema>>, <<<<"cost", "tool">>, ToolCostSchema>>}
  BY <1>3
<1> QED
  BY <1>4, <1>5, <1>6 DEF ObjectSchemas, root

(* A property of an object is a text, a number, or an object with a table of its own. *)
Within(p, schema) ==
  \A name : Known(schema, name) =>
    LET child == Child(schema, name)
    IN \/ LeafSchema(child)
       \/ /\ <<Append(p, name), child>> \in ObjectSchemas
          /\ "type" \in DOMAIN child /\ child.type = "object"

(* A table of leaves needs no other. *)
LEMMA TableWithin ==
  ASSUME NEW p, NEW schema, LeafTable(schema.properties),
         "otherProperties" \in DOMAIN schema => LeafSchema(schema.otherProperties),
         "extensions" \in DOMAIN schema => LeafSchema(schema.extensions)
  PROVE  Within(p, schema)
  BY DEF Within, Known, Child, LeafTable

(* Paths of one name and of two. *)
LEMMA Appended ==
  ASSUME NEW a, NEW b
  PROVE  Append(<<>>, b) = <<b>> /\ Append(<<a>>, b) = <<a, b>>
<1> DEFINE T == {a, b}
<1>1. /\ a \in T /\ b \in T /\ <<>> \in Seq(T) /\ <<a>> \in Seq(T) /\ <<b>> \in Seq(T)
      /\ <<a, b>> \in Seq(T)
  OBVIOUS
<1>2. Len(<<>>) = 0 /\ Len(<<a>>) = 1 /\ Len(<<b>>) = 1 /\ Len(<<a, b>>) = 2
  OBVIOUS
<1> HIDE DEF T
<1>3. Append(<<>>, b) = <<b>>
  <2>1. Append(<<>>, b) \in Seq(T) /\ Len(Append(<<>>, b)) = 1 /\ Append(<<>>, b)[1] = b
    BY <1>1, <1>2, AppendProperties
  <2> QED
    BY <1>1, <1>2, <2>1, SeqEqual
<1>4. Append(<<a>>, b) = <<a, b>>
  <2> DEFINE s == Append(<<a>>, b)
  <2>1. s \in Seq(T) /\ Len(s) = 2 /\ s[1] = a /\ s[2] = b
    <3>1. Len(<<a>>) + 1 = 2 /\ 1 \in 1..Len(<<a>>) /\ <<a>>[1] = a
      BY <1>2
    <3> QED
      BY <1>1, <3>1, AppendProperties
  <2> HIDE DEF s
  <2>2. \A i \in 1..Len(s) : s[i] = <<a, b>>[i]
    BY <2>1
  <2> QED
    BY <1>1, <1>2, <2>1, <2>2, SeqEqual DEF s
<1> QED
  BY <1>3, <1>4

(* The record: three texts, and seven objects. *)
LEMMA RootWithin == Within(<<>>, RootSchema)
<1> SUFFICES ASSUME NEW name, Known(RootSchema, name)
             PROVE  LET child == Child(RootSchema, name)
                    IN \/ LeafSchema(child)
                       \/ /\ <<Append(<<>>, name), child>> \in ObjectSchemas
                          /\ "type" \in DOMAIN child /\ child.type = "object"
  BY DEF Within
<1>1. name \in DOMAIN RootSchema.properties /\ Child(RootSchema, name) = RootSchema.properties[name]
  BY DEF Known, Child, RootSchema
<1>2. name \in {"spec_version", "record_id", "corrects"} => LeafSchema(RootSchema.properties[name])
  BY CommonLeaves DEF RootSchema
<1>3. name \notin {"spec_version", "record_id", "corrects"} =>
        name \in {"emitter", "timing", "resource", "run", "attribution", "usage", "cost"}
  BY <1>1 DEF RootSchema
<1>4. name \in {"emitter", "timing", "resource", "run", "attribution", "usage", "cost"} =>
        <<<<name>>, RootSchema.properties[name]>> \in ObjectSchemas
  BY DEF ObjectSchemas
<1>5. name \in {"emitter", "timing", "resource", "run", "attribution", "usage", "cost"} =>
        LET child == RootSchema.properties[name]
        IN "type" \in DOMAIN child /\ child.type = "object"
  BY DEF RootSchema, EmitterSchema, TimingSchema, ResourceSchema, RunSchema, AttributionSchema,
         UsageSchema, CostSchema
<1>6. Append(<<>>, name) = <<name>>
  BY Appended
<1> QED
  BY <1>1, <1>2, <1>3, <1>4, <1>5, <1>6

(* Usage: two objects, of a model or a tool. *)
LEMMA UsageWithin == Within(<<"usage">>, UsageSchema)
<1> SUFFICES ASSUME NEW name, Known(UsageSchema, name)
             PROVE  LET child == Child(UsageSchema, name)
                    IN /\ <<Append(<<"usage">>, name), child>> \in ObjectSchemas
                       /\ "type" \in DOMAIN child /\ child.type = "object"
  BY DEF Within
<1>1. name \in {"llm", "tool"} /\ Child(UsageSchema, name) = UsageSchema.properties[name]
  BY DEF Known, Child, UsageSchema
<1>2. UsageSchema.properties["llm"] = LlmUsageSchema /\ UsageSchema.properties["tool"] = ToolUsageSchema
  BY DEF UsageSchema
<1>3. Append(<<"usage">>, name) = <<"usage", name>>
  BY Appended
<1>4. <<<<"usage", "llm">>, LlmUsageSchema>> \in ObjectSchemas /\ <<<<"usage", "tool">>, ToolUsageSchema>> \in ObjectSchemas
  BY ObjectSchemasAre
<1>5. /\ "type" \in DOMAIN LlmUsageSchema /\ LlmUsageSchema.type = "object"
      /\ "type" \in DOMAIN ToolUsageSchema /\ ToolUsageSchema.type = "object"
  BY DEF LlmUsageSchema, ToolUsageSchema
<1> QED
  BY <1>1, <1>2, <1>3, <1>4, <1>5

(* Cost: sums, and the same two objects. *)
LEMMA CostWithin == Within(<<"cost">>, CostSchema)
<1> SUFFICES ASSUME NEW name, Known(CostSchema, name)
             PROVE  LET child == Child(CostSchema, name)
                    IN \/ LeafSchema(child)
                       \/ /\ <<Append(<<"cost">>, name), child>> \in ObjectSchemas
                          /\ "type" \in DOMAIN child /\ child.type = "object"
  BY DEF Within
<1> DEFINE objects == [llm |-> LlmCostSchema, tool |-> ToolCostSchema]
           table == Merge(CostTotals, Merge(Discounts, objects))
<1>1. name \in DOMAIN table /\ Child(CostSchema, name) = table[name]
  BY DEF Known, Child, CostSchema
<1>2. \/ name \in DOMAIN CostTotals /\ table[name] = CostTotals[name]
      \/ name \in DOMAIN Discounts /\ table[name] = Discounts[name]
      \/ name \in DOMAIN objects /\ table[name] = objects[name]
  BY <1>1 DEF Merge
<1>3. CASE name \in DOMAIN CostTotals /\ table[name] = CostTotals[name]
  BY <1>1, <1>3, LeafTables DEF LeafTable
<1>4. CASE name \in DOMAIN Discounts /\ table[name] = Discounts[name]
  BY <1>1, <1>4, LeafTables DEF LeafTable
<1>5. CASE name \in DOMAIN objects /\ table[name] = objects[name]
  <2>1. name \in {"llm", "tool"} /\ Child(CostSchema, name) = objects[name]
    BY <1>1, <1>5
  <2>2. Append(<<"cost">>, name) = <<"cost", name>>
    BY Appended
  <2>3. <<<<"cost", "llm">>, LlmCostSchema>> \in ObjectSchemas /\ <<<<"cost", "tool">>, ToolCostSchema>> \in ObjectSchemas
    BY ObjectSchemasAre
  <2>4. /\ "type" \in DOMAIN LlmCostSchema /\ LlmCostSchema.type = "object"
        /\ "type" \in DOMAIN ToolCostSchema /\ ToolCostSchema.type = "object"
    BY DEF LlmCostSchema, ToolCostSchema
  <2> QED
    BY <2>1, <2>2, <2>3, <2>4
<1> QED
  BY <1>2, <1>3, <1>4, <1>5

(* Attribution: texts, and the labels. *)
LEMMA AttributionWithin == Within(<<"attribution">>, AttributionSchema)
<1> SUFFICES ASSUME NEW name, Known(AttributionSchema, name)
             PROVE  LET child == Child(AttributionSchema, name)
                    IN \/ LeafSchema(child)
                       \/ /\ <<Append(<<"attribution">>, name), child>> \in ObjectSchemas
                          /\ "type" \in DOMAIN child /\ child.type = "object"
  BY DEF Within
<1> DEFINE texts == Merge(AttributionIds, AttributionPlan)
           labels == [labels |-> LabelsSchema]
<1>1. name \in DOMAIN Merge(labels, texts) /\ Child(AttributionSchema, name) = Merge(labels, texts)[name]
  BY DEF Known, Child, AttributionSchema
<1> HIDE DEF texts
<1>2. \/ name = "labels" /\ Merge(labels, texts)[name] = LabelsSchema
      \/ name \in DOMAIN texts /\ Merge(labels, texts)[name] = texts[name]
  BY <1>1 DEF Merge
<1>3. CASE name \in DOMAIN texts /\ Merge(labels, texts)[name] = texts[name]
  BY <1>1, <1>3, LeafTables DEF LeafTable, texts
<1>4. CASE name = "labels" /\ Merge(labels, texts)[name] = LabelsSchema
  <2>1. <<<<"attribution", "labels">>, LabelsSchema>> \in ObjectSchemas
    BY ObjectSchemasAre
  <2>2. "type" \in DOMAIN LabelsSchema /\ LabelsSchema.type = "object"
    BY DEF LabelsSchema
  <2>3. Append(<<"attribution">>, name) = <<"attribution", name>>
    BY Appended
  <2> QED
    BY <1>1, <1>4, <2>1, <2>2, <2>3
<1> QED
  BY <1>2, <1>3, <1>4

(* No property of any table is an object without a table. *)
LEMMA TablesWithin ==
  ASSUME NEW p, NEW schema, <<p, schema>> \in ObjectSchemas
  PROVE  Within(p, schema)
<1>1. Within(<<"emitter">>, EmitterSchema)
  <2>1. {"otherProperties", "extensions"} \cap DOMAIN EmitterSchema = {}
    BY DEF EmitterSchema
  <2> QED
    BY <2>1, LeafTables, TableWithin
<1>2. Within(<<"timing">>, TimingSchema)
  <2>1. {"otherProperties", "extensions"} \cap DOMAIN TimingSchema = {}
    BY DEF TimingSchema
  <2> QED
    BY <2>1, LeafTables, TableWithin
<1>3. Within(<<"resource">>, ResourceSchema)
  <2>1. {"otherProperties", "extensions"} \cap DOMAIN ResourceSchema = {}
    BY DEF ResourceSchema
  <2> QED
    BY <2>1, LeafTables, TableWithin
<1>4. Within(<<"run">>, RunSchema)
  <2>1. {"otherProperties", "extensions"} \cap DOMAIN RunSchema = {}
    BY DEF RunSchema
  <2> QED
    BY <2>1, LeafTables, TableWithin
<1>5. Within(<<"attribution", "labels">>, LabelsSchema)
  <2>1. /\ LabelsSchema.properties = <<>> /\ "extensions" \notin DOMAIN LabelsSchema
        /\ LabelsSchema.otherProperties = LabelValues
    BY DEF LabelsSchema
  <2>2. LeafTable(LabelsSchema.properties)
    BY <2>1 DEF LeafTable
  <2> QED
    BY <2>1, <2>2, CommonLeaves, TableWithin
<1>6. Within(<<"usage", "llm">>, LlmUsageSchema)
  <2>1. "otherProperties" \notin DOMAIN LlmUsageSchema /\ LlmUsageSchema.extensions = Amount
    BY DEF LlmUsageSchema
  <2> QED
    BY <2>1, LeafTables, CommonLeaves, TableWithin
<1>7. Within(<<"usage", "tool">>, ToolUsageSchema)
  <2>1. "otherProperties" \notin DOMAIN ToolUsageSchema /\ ToolUsageSchema.extensions = Amount
    BY DEF ToolUsageSchema
  <2> QED
    BY <2>1, LeafTables, CommonLeaves, TableWithin
<1>8. Within(<<"cost", "llm">>, LlmCostSchema)
  <2>1. {"otherProperties", "extensions"} \cap DOMAIN LlmCostSchema = {}
    BY DEF LlmCostSchema
  <2> QED
    BY <2>1, LeafTables, TableWithin
<1>9. Within(<<"cost", "tool">>, ToolCostSchema)
  <2>1. "otherProperties" \notin DOMAIN ToolCostSchema /\ ToolCostSchema.extensions = Amount
    BY DEF ToolCostSchema
  <2> QED
    BY <2>1, LeafTables, CommonLeaves, TableWithin
<1> QED
  BY <1>1, <1>2, <1>3, <1>4, <1>5, <1>6, <1>7, <1>8, <1>9, RootWithin, UsageWithin, CostWithin,
     AttributionWithin, ObjectSchemasAre

(* What each object must have, but for three that may be empty. *)
LEMMA DemandsAre ==
  ASSUME NEW p, NEW schema, <<p, schema>> \in ObjectSchemas,
         p \notin {<<"attribution">>, <<"usage">>, <<"attribution", "labels">>}
  PROVE  \/ "required" \in DOMAIN schema /\ \E f \in schema.required : f # "received_time"
         \/ "minProperties" \in DOMAIN schema /\ schema.minProperties = 1
<1> DEFINE Asks(s) ==
             \/ "required" \in DOMAIN s /\ \E f \in s.required : f # "received_time"
             \/ "minProperties" \in DOMAIN s /\ s.minProperties = 1
<1>1. Asks(RootSchema)
  BY DEF RootSchema
<1>2. Asks(EmitterSchema)
  BY DEF EmitterSchema
<1>3. Asks(TimingSchema)
  BY DEF TimingSchema
<1>4. Asks(ResourceSchema)
  BY DEF ResourceSchema
<1>5. Asks(RunSchema)
  BY DEF RunSchema
<1>6. Asks(CostSchema)
  BY DEF CostSchema
<1>7. Asks(LlmUsageSchema) /\ Asks(ToolUsageSchema) /\ Asks(ToolCostSchema)
  BY DEF LlmUsageSchema, ToolUsageSchema, ToolCostSchema
<1>8. Asks(LlmCostSchema)
  BY DEF LlmCostSchema
<1> HIDE DEF Asks
<1>9. Asks(schema)
  BY <1>1, <1>2, <1>3, <1>4, <1>5, <1>6, <1>7, <1>8, ObjectSchemasAre
<1> QED
  BY <1>9 DEF Asks
-----------------------------------------------------------------------------
(* Objects as trees of values. *)
Names ==
  STRING \cup {"llm", "tool", "timing", "event_time", "spec_version", "record_id", "emitter",
               "component", "name", "version"}

Tree(d) ==
  /\ d = [p \in DOMAIN d |-> d[p]] /\ <<>> \in DOMAIN d
  /\ \A p \in DOMAIN d : /\ p \in Seq(Names) /\ IsValue(d[p])
                         /\ p # <<>> => Front(p) \in DOMAIN d /\ IsObject(d[Front(p)])

(* A path is its front and its last name. *)
LEMMA FrontIs ==
  ASSUME NEW S, NEW p \in Seq(S), p # <<>>
  PROVE  /\ Front(p) \in Seq(S) /\ Last(p) \in S /\ Len(p) \in Nat \ {0} /\ Len(Front(p)) = Len(p) - 1
         /\ Append(Front(p), Last(p)) = p /\ IsPrefix(Front(p), p)
         /\ Front(p) = SubSeq(p, 1, Len(p) - 1)
<1>1. Len(p) \in Nat \ {0} /\ Last(p) \in S
  BY EmptySeq, ElementOfSeq DEF Last
<1>2. \A i \in 1..(Len(p) - 1) : p[i] \in S
  BY <1>1, ElementOfSeq
<1>3. /\ Front(p) \in Seq(S) /\ Len(Front(p)) = Len(p) - 1
      /\ \A i \in 1..(Len(p) - 1) : Front(p)[i] = p[i]
  <2>1. 1 \in Int /\ Len(p) - 1 \in Int
    BY <1>1
  <2>2. SubSeq(p, 1, Len(p) - 1) \in Seq(S)
    BY <1>2, <2>1, SubSeqProperties
  <2>3. Len(SubSeq(p, 1, Len(p) - 1)) = IF 1 <= Len(p) - 1 THEN Len(p) - 1 - 1 + 1 ELSE 0
    BY <1>2, <2>1, SubSeqProperties
  <2>4. \A i \in 1..((Len(p) - 1) - 1 + 1) : SubSeq(p, 1, Len(p) - 1)[i] = p[1 + i - 1]
    BY <1>2, <2>1, SubSeqProperties
  <2>5. Len(SubSeq(p, 1, Len(p) - 1)) = Len(p) - 1
    <3>1. \A n \in Nat \ {0} : (IF 1 <= n - 1 THEN n - 1 - 1 + 1 ELSE 0) = n - 1
      OBVIOUS
    <3> QED
      BY <1>1, <2>3, <3>1
  <2>6. \A i \in 1..(Len(p) - 1) : SubSeq(p, 1, Len(p) - 1)[i] = p[i]
    <3> TAKE i \in 1..(Len(p) - 1)
    <3>1. i \in 1..((Len(p) - 1) - 1 + 1) /\ 1 + i - 1 = i
      BY <1>1
    <3> QED
      BY <2>4, <3>1
  <2> QED
    BY <2>2, <2>5, <2>6 DEF Front
<1> DEFINE f == Front(p)
           a == Append(f, Last(p))
<1> HIDE DEF f
<1>4. a = p
  <2>1. f \in Seq(S) /\ Len(f) = Len(p) - 1 /\ \A i \in 1..(Len(p) - 1) : f[i] = p[i]
    BY <1>3 DEF f
  <2>2. a \in Seq(S) /\ Len(a) = Len(f) + 1 /\ (\A i \in 1..Len(f) : a[i] = f[i]) /\ a[Len(f) + 1] = Last(p)
    BY <1>1, <2>1, AppendProperties
  <2>3. Len(a) = Len(p)
    BY <1>1, <2>1, <2>2
  <2>4. \A i \in 1..Len(a) : a[i] = p[i]
    BY <1>1, <2>1, <2>2 DEF Last
  <2> HIDE DEF a
  <2> QED
    BY <2>2, <2>3, <2>4, SeqEqual
<1>5. IsPrefix(f, p)
  <2>1. SubSeq(f, 1, Len(f)) = f /\ f = SubSeq(p, 1, Len(f)) /\ Len(f) <= Len(p)
    BY <1>1, <1>3, SubSeqFull DEF f, Front
  <2> QED
    BY <2>1 DEF IsPrefix
<1> QED
  BY <1>1, <1>3, <1>4, <1>5 DEF f, Front

(* A value is a property of the object at its front. *)
LEMMA ChildBelow ==
  ASSUME NEW d, Tree(d), NEW p \in DOMAIN d, p # <<>>
  PROVE  p \in Below(d, Front(p))
<1>1. p \in Seq(Names)
  BY DEF Tree
<1>2. Len(p) = Len(Front(p)) + 1 /\ IsPrefix(Front(p), p)
  BY <1>1, FrontIs
<1> QED
  BY <1>2 DEF Below
-----------------------------------------------------------------------------
(* What it means that the validator finds nothing in an object. *)
Clean(d) ==
  FormatIssues(d) = {} /\ SchemaIssues(d).structural = {} /\ SchemaIssues(d).conditional = {}

(* An error of type is of the property it is at, and does not depend on others. *)
LEMMA TypeErrors ==
  ASSUME NEW d, NEW e \in SchemaErrors(d), e.keyword = "type"
  PROVE  e.beneath = <<>> /\ e.conditional = FALSE
<1>1. CASE ~IsObject(d[<<>>])
  <2>1. SchemaErrors(d) = {Error("type", <<>>, <<>>, "other", FALSE)}
    BY <1>1 DEF SchemaErrors
  <2>2. e = Error("type", <<>>, <<>>, "other", FALSE)
    BY <2>1
  <2>3. e.beneath = <<>>
    BY <2>2 DEF Error
  <2>4. e.conditional = FALSE
    BY <2>2 DEF Error
  <2> QED
    BY <2>3, <2>4
<1>2. CASE IsObject(d[<<>>])
  <2>1. ASSUME e \in ModelBranch(d) \cup ToolBranch(d) \cup ProductionBranch(d)
        PROVE  FALSE
    <3>1. e.keyword \in {"not", "required", "const"}
      <4>1. CASE e \in ModelBranch(d)
        BY <4>1 DEF ModelBranch, Forbids, Needs, TypeIs, Error
      <4>2. CASE e \in ToolBranch(d)
        BY <4>2 DEF ToolBranch, Forbids, Needs, TypeIs, Error
      <4>3. CASE e \in ProductionBranch(d)
        BY <4>3 DEF ProductionBranch, Needs, Error
      <4> QED
        BY <2>1, <4>1, <4>2, <4>3
    <3> QED
      BY <3>1
  <2>2. ASSUME NEW p, NEW schema, e \in ObjectErrors(d, p, schema)
        PROVE  FALSE
    <3>1. e.keyword \in {"required", "additionalProperties", "minProperties", "maxProperties",
                         "maxLength", "pattern", "propertyNames"}
      <4> DEFINE err(k, beneath) == Error(k, p, beneath, "other", FALSE)
                 names == {Last(q) : q \in Below(d, p)}
                 has(k) == k \in DOMAIN schema
      <4>1. ASSUME e \in {err("required", <<f>>) : f \in (IF has("required") THEN schema.required ELSE {}) \ names}
            PROVE  e.keyword = "required"
        BY <4>1 DEF Error
      <4>2. ASSUME e \in {err("additionalProperties", <<f>>) : f \in {g \in names : ~Known(schema, g)}}
            PROVE  e.keyword = "additionalProperties"
        BY <4>2 DEF Error
      <4>3. ASSUME NEW K, NEW T, K \subseteq {"minProperties", "maxProperties"}, e \in {err(k, <<>>) : k \in K}
            PROVE  e.keyword \in {"minProperties", "maxProperties"}
        BY <4>3 DEF Error
      <4>4. ASSUME NEW f, NEW k, e = [err(k, <<f>>) EXCEPT !.inName = TRUE]
            PROVE  e.keyword = k
        BY <4>4 DEF Error
      <4>5. ASSUME e \in {err("propertyNames", <<f>>) : f \in names \cap (LongNames \cup (names \ LabelFits))}
            PROVE  e.keyword = "propertyNames"
        BY <4>5 DEF Error
      <4>6. \/ e \in {err("required", <<f>>) : f \in (IF has("required") THEN schema.required ELSE {}) \ names}
            \/ e \in {err("additionalProperties", <<f>>) : f \in {g \in names : ~Known(schema, g)}}
            \/ e \in {err(k, <<>>) : k \in {x \in {"minProperties"} : has(x) /\ Size(d, p) < schema.minProperties}}
            \/ e \in {err(k, <<>>) : k \in {x \in {"maxProperties"} : has(x) /\ Size(d, p) > schema.maxProperties}}
            \/ e \in {[err("maxLength", <<f>>) EXCEPT !.inName = TRUE] : f \in names \cap LongNames}
            \/ e \in {[err("pattern", <<f>>) EXCEPT !.inName = TRUE] : f \in names \ LabelFits}
            \/ e \in {err("propertyNames", <<f>>) : f \in names \cap (LongNames \cup (names \ LabelFits))}
        BY <2>2, Zenon DEF ObjectErrors
      <4> HIDE DEF err, names, has
      <4> QED
        BY <4>1, <4>2, <4>3, <4>4, <4>5, <4>6
    <3> QED
      BY <3>1
  <2>3. ASSUME NEW p, NEW schema, e \in PropertyErrors(d, p, schema)
        PROVE  e.beneath = <<>> /\ e.conditional = FALSE
    BY <2>3 DEF PropertyErrors, Error
  <2>4. \/ e \in ModelBranch(d) \cup ToolBranch(d) \cup ProductionBranch(d)
        \/ \E entry \in ObjectSchemas : e \in ObjectErrors(d, entry[1], entry[2]) \cup PropertyErrors(d, entry[1], entry[2])
    BY <1>2 DEF SchemaErrors
  <2> QED
    BY <2>1, <2>2, <2>3, <2>4
<1> QED
  BY <1>1, <1>2

(* Hiding the names of labels makes no path the one the sinks own. *)
LEMMA PointerApart ==
  ASSUME NEW S, NEW q \in Seq(S), q # SinkOwned
  PROVE  Pointer(q) # SinkOwned
<1> SUFFICES ASSUME Pointer(q) = SinkOwned PROVE FALSE
  OBVIOUS
<1>1. DOMAIN q = 1..Len(q) /\ Len(q) \in Nat
  BY LenProperties
<1>2. DOMAIN Pointer(q) = DOMAIN q /\ DOMAIN SinkOwned = 1..2
  BY DEF Pointer, SinkOwned
<1>3. Len(q) = 2
  <2>1. 1..Len(q) = 1..2
    BY <1>1, <1>2
  <2>2. 2 \in 1..Len(q) /\ 3 \notin 1..Len(q)
    BY <2>1
  <2> QED
    BY <1>1, <2>2
<1>4. Pointer(q)[1] = q[1] /\ SinkOwned[1] = "timing" /\ SinkOwned[2] = "received_time"
  BY <1>1, <1>3 DEF Pointer, SinkOwned
<1>5. q[1] = "timing" /\ q[2] = "received_time"
  BY <1>1, <1>3, <1>4 DEF Pointer
<1>6. q = <<q[1], q[2]>>
  BY <1>3
<1> QED
  BY <1>5, <1>6 DEF SinkOwned

(* A clean object has no error: none is masked by another, or left to the sinks. *)
LEMMA NoError ==
  ASSUME NEW S, NEW d, Clean(d), NEW e \in SchemaErrors(d), e.at \in Seq(S), e.at # SinkOwned,
         e.beneath \in Seq(S), e.at \o e.beneath # SinkOwned, e.conditional \in BOOLEAN
  PROVE  FALSE
<1> DEFINE errors == SchemaErrors(d)
           mistyped == {x.at : x \in {y \in errors : y.keyword = "type"}}
           kept == {x \in errors : /\ x.keyword = "type" \/ x.at \notin mistyped
                                   /\ ToIssue(x, d).path # SinkOwned}
<1>1. /\ {ToIssue(x, d) : x \in {y \in kept : y.conditional = FALSE}} = {}
      /\ {ToIssue(x, d) : x \in {y \in kept : y.conditional = TRUE}} = {}
  BY DEF Clean, SchemaIssues
<1>2. \A x \in kept : x.conditional \notin BOOLEAN
  BY <1>1
<1>4. e.at \o e.beneath \in Seq(S) /\ e.at \o <<>> = e.at
  BY ConcatProperties, ConcatEmptySeq
<1>5. Pointer(e.at) # SinkOwned /\ Pointer(e.at \o e.beneath) # SinkOwned
  BY <1>4, PointerApart
<1>6. \A x : x.at = e.at /\ (x.beneath = <<>> \/ x.beneath = e.beneath) => ToIssue(x, d).path # SinkOwned
  BY <1>4, <1>5 DEF ToIssue, Issue
<1>7. CASE e.keyword = "type" \/ e.at \notin mistyped
  BY <1>2, <1>6, <1>7
<1>8. CASE e.at \in mistyped
  <2>1. PICK x \in errors : x.keyword = "type" /\ x.at = e.at
    BY <1>8
  <2>2. x.beneath = <<>> /\ x.conditional = FALSE
    BY <2>1, TypeErrors
  <2>3. x \in kept
    BY <1>6, <2>1, <2>2
  <2> QED
    BY <1>2, <2>2, <2>3
<1> QED
  BY <1>7, <1>8

(* A clean record is an object. *)
LEMMA RootIsObject ==
  ASSUME NEW d, Tree(d), Clean(d)
  PROVE  IsObject(d[<<>>])
<1> SUFFICES ASSUME ~IsObject(d[<<>>]) PROVE FALSE
  OBVIOUS
<1> DEFINE e == Error("type", <<>>, <<>>, "other", FALSE)
<1>1. e \in SchemaErrors(d)
  BY DEF SchemaErrors
<1>2. e.at = <<>> /\ e.beneath = <<>>
  BY DEF Error
<1>3. e.conditional \in BOOLEAN
  BY DEF Error
<1>4. <<>> \in Seq(Names) /\ <<>> \in DOMAIN d
  BY DEF Tree
<1>5. <<>> # SinkOwned /\ <<>> \o <<>> # SinkOwned
  <2>1. <<>> \o <<>> = <<>>
    BY <1>4, ConcatEmptySeq
  <2> QED
    BY <2>1 DEF SinkOwned
<1> HIDE DEF e
<1> QED
  BY <1>1, <1>2, <1>3, <1>4, <1>5, NoError

(* A clean record has no received_time, so no error in it is left to the sinks. *)
LEMMA NotSinkOwned ==
  ASSUME NEW d, Tree(d), Clean(d), NEW p \in DOMAIN d
  PROVE  p # SinkOwned
<1>1. IsObject(d[<<>>])
  BY RootIsObject
<1>2. {SinkOwned} \cap DOMAIN d = {}
  <2>1. {Issue("FORBIDDEN", q) : q \in {SinkOwned} \cap DOMAIN d} \subseteq FormatIssues(d)
    BY <1>1, Zenon DEF FormatIssues
  <2> QED
    BY <2>1 DEF Clean
<1> QED
  BY <1>2

(* What is wrong with an object is wrong with the record. *)
LEMMA ErrorsOfObject ==
  ASSUME NEW d, IsObject(d[<<>>]), NEW p \in DOMAIN d, NEW schema, <<p, schema>> \in ObjectSchemas,
         IsObject(d[p])
  PROVE  ObjectErrors(d, p, schema) \subseteq SchemaErrors(d) /\ PropertyErrors(d, p, schema) \subseteq SchemaErrors(d)
<1> DEFINE Of(entry) == IF entry[1] \in DOMAIN d /\ IsObject(d[entry[1]])
                        THEN ObjectErrors(d, entry[1], entry[2]) \cup PropertyErrors(d, entry[1], entry[2])
                        ELSE {}
<1>1. Of(<<p, schema>>) \in {Of(entry) : entry \in ObjectSchemas}
  OBVIOUS
<1>2. Of(<<p, schema>>) = ObjectErrors(d, p, schema) \cup PropertyErrors(d, p, schema)
  OBVIOUS
<1>3. SchemaErrors(d) = ModelBranch(d) \cup ToolBranch(d) \cup ProductionBranch(d) \cup
                          UNION {Of(entry) : entry \in ObjectSchemas}
  BY DEF SchemaErrors
<1> HIDE DEF Of
<1> QED
  BY <1>1, <1>2, <1>3

(* In a clean object, each property has a schema and keeps to it. *)
LEMMA PropertyFits ==
  ASSUME NEW d, Tree(d), Clean(d), NEW p \in DOMAIN d, p # <<>>,
         NEW schema, <<Front(p), schema>> \in ObjectSchemas
  PROVE  Known(schema, Last(p)) /\ Breaks(d[p], Child(schema, Last(p))) = {}
<1> DEFINE q == Front(p)
<1>1. /\ p \in Seq(Names) /\ q \in Seq(Names) /\ q \in DOMAIN d /\ IsObject(d[q]) /\ Last(p) \in Names
      /\ Append(q, Last(p)) = p
  BY FrontIs DEF Tree
<1>2. p # SinkOwned /\ q # SinkOwned
  <2>1. q \in DOMAIN d
    BY <1>1
  <2> QED
    BY <2>1, NotSinkOwned
<1>3. p \in Below(d, q)
  BY ChildBelow
<1>4. ObjectErrors(d, q, schema) \subseteq SchemaErrors(d) /\ PropertyErrors(d, q, schema) \subseteq SchemaErrors(d)
  BY <1>1, RootIsObject, ErrorsOfObject
<1>5. ASSUME ~Known(schema, Last(p)) PROVE FALSE
  <2> DEFINE e == Error("additionalProperties", q, <<Last(p)>>, "other", FALSE)
  <2>1. e \in ObjectErrors(d, q, schema)
    BY <1>3, <1>5 DEF ObjectErrors
  <2>2. e.at = q /\ e.beneath = <<Last(p)>>
    BY DEF Error
  <2>3. e.conditional \in BOOLEAN
    BY DEF Error
  <2>4. <<Last(p)>> \in Seq(Names) /\ q \o <<Last(p)>> = p
    <3>1. q \o <<Last(p)>> = Append(q, Last(p))
      BY <1>1, AppendIsConcat
    <3>2. \A S : \A x \in S : <<x>> \in Seq(S)
      OBVIOUS
    <3> QED
      BY <1>1, <3>1, <3>2
  <2> HIDE DEF e, q
  <2>5. e \in SchemaErrors(d)
    BY <1>4, <2>1
  <2> QED
    BY <1>1, <1>2, <2>2, <2>3, <2>4, <2>5, NoError
<1>6. ASSUME Known(schema, Last(p)), NEW k \in Breaks(d[p], Child(schema, Last(p))) PROVE FALSE
  <2> DEFINE e == Error(k, p, <<>>, Kind(Child(schema, Last(p))), FALSE)
  <2>1. e \in PropertyErrors(d, q, schema)
    <3> DEFINE Of(x) == {Error(j, x, <<>>, Kind(Child(schema, Last(x))), FALSE) :
                           j \in Breaks(d[x], Child(schema, Last(x)))}
               known == {x \in Below(d, q) : Known(schema, Last(x))}
    <3>1. e \in Of(p)
      BY <1>6
    <3>2. p \in known
      BY <1>3, <1>6
    <3>3. PropertyErrors(d, q, schema) = UNION {Of(x) : x \in known}
      BY DEF PropertyErrors
    <3> HIDE DEF Of, known
    <3> QED
      BY <3>1, <3>2, <3>3
  <2>2. e.at = p /\ e.beneath = <<>>
    BY DEF Error
  <2>3. e.conditional \in BOOLEAN
    BY DEF Error
  <2>4. <<>> \in Seq(Names) /\ p \o <<>> = p
    BY <1>1, ConcatEmptySeq
  <2> HIDE DEF e, q
  <2>5. e \in SchemaErrors(d)
    BY <1>4, <2>1
  <2> QED
    BY <1>1, <1>2, <2>2, <2>3, <2>4, <2>5, NoError
<1> QED
  BY <1>5, <1>6

(* Every value of a clean object is a text, a number or an object that has a table. *)
Sorted(d, p) ==
  /\ d[p].type \in {"string", "number", "object"} /\ d[p] # NotFinite
  /\ IsObject(d[p]) => \E schema : <<p, schema>> \in ObjectSchemas

(* Induction over the numbers, for a set. *)
LEMMA SetInduction ==
  ASSUME NEW S, 0 \in S, \A n \in Nat : n \in S => n + 1 \in S
  PROVE  Nat \subseteq S
<1> SUFFICES ASSUME Nat \ S # {} PROVE FALSE
  OBVIOUS
<1>1. PICK n \in Nat \ S : \A m \in Nat \ S : <<m, n>> \notin OpToRel(<, Nat)
  BY NatLessThanWellFounded, WFMin
<1>2. n # 0 /\ n - 1 \in Nat /\ n - 1 + 1 = n
  OBVIOUS
<1>3. n - 1 \notin S
  BY <1>2
<1>4. <<n - 1, n>> \in {ss \in Nat \X Nat : ss[1] < ss[2]}
  BY <1>2
<1> QED
  BY <1>1, <1>2, <1>3, <1>4 DEF OpToRel

(* What is so of an object is so of its properties, *)
LEMMA PropertySorted ==
  ASSUME NEW d, Tree(d), Clean(d), NEW p \in DOMAIN d, p # <<>>, Sorted(d, Front(p))
  PROVE  Sorted(d, p)
<1>1. IsObject(d[Front(p)]) /\ Append(Front(p), Last(p)) = p
  BY FrontIs DEF Tree
<1>2. PICK schema : <<Front(p), schema>> \in ObjectSchemas
  BY <1>1 DEF Sorted
<1> DEFINE child == Child(schema, Last(p))
<1>3. Known(schema, Last(p)) /\ Breaks(d[p], child) = {}
  BY <1>2, PropertyFits
<1>4. Within(Front(p), schema)
  BY <1>2, TablesWithin
<1>5. \/ LeafSchema(child)
      \/ <<Append(Front(p), Last(p)), child>> \in ObjectSchemas /\ "type" \in DOMAIN child /\ child.type = "object"
  BY <1>3, <1>4 DEF Within
<1> HIDE DEF child
<1>6. CASE LeafSchema(child)
  <2>1. d[p].type \in {"string", "number"} /\ d[p] # NotFinite
    BY <1>3, <1>6 DEF LeafSchema
  <2>2. ~IsObject(d[p])
    BY <2>1 DEF IsObject
  <2> QED
    BY <2>1, <2>2 DEF Sorted
<1>7. CASE <<Append(Front(p), Last(p)), child>> \in ObjectSchemas /\ "type" \in DOMAIN child /\ child.type = "object"
  <2>1. d[p].type = "object"
    <3>1. HasType(d[p], "object")
      BY <1>3, <1>7 DEF Breaks
    <3> QED
      BY <3>1 DEF HasType
  <2>2. d[p] # NotFinite
    BY <2>1 DEF NotFinite
  <2>3. <<p, child>> \in ObjectSchemas
    BY <1>1, <1>7
  <2> QED
    BY <2>1, <2>2, <2>3 DEF Sorted
<1> QED
  BY <1>5, <1>6, <1>7

(* hence of every value, by the length of its path. *)
LEMMA AllSorted ==
  ASSUME NEW d, Tree(d), Clean(d)
  PROVE  \A p \in DOMAIN d : Sorted(d, p)
<1> DEFINE Upto(n) == \A p \in DOMAIN d : Len(p) = n => Sorted(d, p)
           Done == {n \in Nat : Upto(n)}
<1>1. 0 \in Done
  <2> SUFFICES ASSUME NEW p \in DOMAIN d, Len(p) = 0 PROVE Sorted(d, p)
    OBVIOUS
  <2>1. p = <<>>
    BY EmptySeq DEF Tree
  <2>2. d[p].type = "object"
    BY <2>1, RootIsObject DEF IsObject
  <2>3. d[p] # NotFinite
    BY <2>2 DEF NotFinite
  <2>4. <<p, RootSchema>> \in ObjectSchemas
    BY <2>1, ObjectSchemasAre
  <2> QED
    BY <2>2, <2>3, <2>4 DEF Sorted
<1>2. ASSUME NEW n \in Nat, n \in Done PROVE n + 1 \in Done
  <2> SUFFICES ASSUME NEW p \in DOMAIN d, Len(p) = n + 1 PROVE Sorted(d, p)
    OBVIOUS
  <2>1. p \in Seq(Names) /\ Len(p) # 0
    BY DEF Tree
  <2>2. p # <<>>
    BY <2>1, EmptySeq
  <2>3. Front(p) \in DOMAIN d /\ Len(Front(p)) = n
    <3>1. Len(p) \in Nat /\ Len(Front(p)) = Len(p) - 1
      BY <2>1, <2>2, FrontIs
    <3>2. Front(p) \in DOMAIN d
      BY <2>2 DEF Tree
    <3> QED
      BY <3>1, <3>2
  <2>4. Sorted(d, Front(p))
    BY <1>2, <2>3
  <2> QED
    BY <2>2, <2>4, PropertySorted
<1>3. Nat \subseteq Done
  <2> HIDE DEF Done
  <2> QED
    BY <1>1, <1>2, SetInduction
<1> SUFFICES ASSUME NEW p \in DOMAIN d PROVE Sorted(d, p)
  OBVIOUS
<1>4. Len(p) \in Nat
  BY LenProperties DEF Tree
<1> QED
  BY <1>3, <1>4
-----------------------------------------------------------------------------
(* What a clean object has. *)
LEMMA BelowIs ==
  ASSUME NEW d, Tree(d), NEW p \in DOMAIN d, NEW q \in Below(d, p)
  PROVE  q \in DOMAIN d /\ q # <<>> /\ Front(q) = p /\ q = Append(p, Last(q))
<1>1. p \in Seq(Names) /\ q \in Seq(Names) /\ q \in DOMAIN d
  BY DEF Tree, Below
<1>2. Len(q) = Len(p) + 1 /\ SubSeq(p, 1, Len(p)) = SubSeq(q, 1, Len(p)) /\ Len(p) \in Nat
  BY <1>1, LenProperties DEF Below, IsPrefix
<1>3. q # <<>>
  BY <1>2, EmptySeq
<1>4. Front(q) = p
  <2>1. Len(q) - 1 = Len(p)
    BY <1>2
  <2>2. SubSeq(p, 1, Len(p)) = p
    BY <1>1, SubSeqFull
  <2> QED
    BY <1>2, <2>1, <2>2 DEF Front
<1> QED
  BY <1>1, <1>3, <1>4, FrontIs

(* The path of a property, unless it is received_time, is not the one the sinks own. *)
LEMMA AppendedApart ==
  ASSUME NEW S, NEW p \in Seq(S), NEW f \in S, f # "received_time"
  PROVE  <<f>> \in Seq(S) /\ p \o <<f>> = Append(p, f) /\ p \o <<f>> # SinkOwned
<1>1. p \o <<f>> = Append(p, f)
  BY AppendIsConcat
<1>2. Len(Append(p, f)) = Len(p) + 1 /\ Append(p, f)[Len(p) + 1] = f /\ Len(p) \in Nat
  BY AppendProperties, LenProperties
<1>3. SinkOwned[2] = "received_time" /\ Len(SinkOwned) = 2
  BY DEF SinkOwned
<1>4. <<f>> \in Seq(S)
  OBVIOUS
<1> QED
  BY <1>1, <1>2, <1>3, <1>4

(* An object has what its table requires. *)
LEMMA RequiredThere ==
  ASSUME NEW d, Tree(d), Clean(d), NEW p \in DOMAIN d, IsObject(d[p]),
         NEW schema, <<p, schema>> \in ObjectSchemas, "required" \in DOMAIN schema,
         NEW f \in schema.required, f # "received_time"
  PROVE  \E q \in Below(d, p) : Last(q) = f /\ q = Append(p, f)
<1> SUFFICES ASSUME f \notin {Last(q) : q \in Below(d, p)} PROVE FALSE
  BY BelowIs
<1> DEFINE S == Names \cup {f}
           e == Error("required", p, <<f>>, "other", FALSE)
<1>1. p \in Seq(S) /\ f \in S /\ p # SinkOwned
  <2>1. p \in Seq(Names)
    BY DEF Tree
  <2> QED
    BY <2>1, SeqMonotonic, NotSinkOwned
<1> HIDE DEF S
<1>2. <<f>> \in Seq(S) /\ p \o <<f>> # SinkOwned
  BY <1>1, AppendedApart
<1>3. e \in ObjectErrors(d, p, schema)
  BY DEF ObjectErrors
<1>4. e.at = p /\ e.beneath = <<f>>
  BY DEF Error
<1>5. e.conditional \in BOOLEAN
  BY DEF Error
<1> HIDE DEF e
<1>6. e \in SchemaErrors(d)
  BY <1>3, RootIsObject, ErrorsOfObject
<1> QED
  BY <1>1, <1>2, <1>4, <1>5, <1>6, NoError

(* A property keeps to its schema. *)
LEMMA ChildFits ==
  ASSUME NEW d, Tree(d), Clean(d), NEW p \in DOMAIN d, NEW schema, <<p, schema>> \in ObjectSchemas,
         NEW q \in Below(d, p)
  PROVE  Known(schema, Last(q)) /\ Breaks(d[q], Child(schema, Last(q))) = {}
<1>1. q \in DOMAIN d /\ q # <<>> /\ Front(q) = p
  BY BelowIs
<1> QED
  BY <1>1, PropertyFits

(* The record has what every record must have, *)
LEMMA RootRequired ==
  ASSUME NEW d, Tree(d), Clean(d), NEW f \in RootSchema.required, f # "received_time"
  PROVE  \E q \in Below(d, <<>>) : Last(q) = f /\ q = Append(<<>>, f)
<1>1. PICK p : p = <<>>
  OBVIOUS
<1>2. p \in DOMAIN d /\ IsObject(d[p])
  BY <1>1, RootIsObject DEF Tree
<1>3. <<p, RootSchema>> \in ObjectSchemas
  BY <1>1, ObjectSchemasAre
<1>4. "required" \in DOMAIN RootSchema
  BY DEF RootSchema
<1>5. \E q \in Below(d, p) : Last(q) = f /\ q = Append(p, f)
  BY <1>2, <1>3, <1>4, RequiredThere
<1> QED
  BY <1>1, <1>5

(* a version of this release, *)
LEMMA VersionThere ==
  ASSUME NEW d, Tree(d), Clean(d)
  PROVE  LET v == <<"spec_version">>
         IN v \in DOMAIN d /\ d[v].type = "string" /\ "version" \in d[v].fits
<1>1. IsObject(d[<<>>]) /\ <<>> \in DOMAIN d
  BY RootIsObject DEF Tree
<1>2. "required" \in DOMAIN RootSchema /\ "spec_version" \in RootSchema.required /\ "spec_version" # "received_time"
  BY DEF RootSchema
<1>3. <<<<>>, RootSchema>> \in ObjectSchemas
  BY ObjectSchemasAre
<1>4. PICK q \in Below(d, <<>>) : Last(q) = "spec_version" /\ q = Append(<<>>, "spec_version")
  BY <1>2, RootRequired
<1>5. q = <<"spec_version">> /\ q \in DOMAIN d
  BY <1>1, <1>4, Appended, BelowIs
<1>6. Breaks(d[q], Child(RootSchema, "spec_version")) = {}
  BY <1>1, <1>3, <1>4, ChildFits
<1>7. Child(RootSchema, "spec_version") = Version
  BY DEF Child, RootSchema
<1>8. HasType(d[q], "string")
  BY <1>6, <1>7 DEF Breaks, Version
<1>9. Version.pattern \in d[q].fits
  <2>1. "type" \in DOMAIN Version /\ Version.type = "string" /\ "pattern" \in DOMAIN Version
    BY DEF Version
  <2>2. {k \in {"pattern"} : "pattern" \in DOMAIN Version /\ Version.pattern \notin d[q].fits} = {}
    BY <1>6, <1>7, <1>8, <2>1 DEF Breaks
  <2> QED
    BY <2>1, <2>2
<1> QED
  BY <1>5, <1>8, <1>9 DEF HasType, Version

LEMMA ObjectThere ==
  ASSUME NEW d, Tree(d), Clean(d), NEW f \in {"timing", "resource"}
  PROVE  /\ <<f>> \in DOMAIN d /\ IsObject(d[<<f>>])
         /\ <<<<f>>, RootSchema.properties[f]>> \in ObjectSchemas
<1>1. IsObject(d[<<>>]) /\ <<>> \in DOMAIN d
  BY RootIsObject DEF Tree
<1>2. "required" \in DOMAIN RootSchema /\ f \in RootSchema.required /\ f # "received_time"
  BY DEF RootSchema
<1>3. <<<<>>, RootSchema>> \in ObjectSchemas
  BY ObjectSchemasAre
<1>4. PICK q \in Below(d, <<>>) : Last(q) = f /\ q = Append(<<>>, f)
  BY <1>2, RootRequired
<1>5. q = <<f>> /\ q \in DOMAIN d
  BY <1>1, <1>4, Appended, BelowIs
<1>6. Breaks(d[q], Child(RootSchema, f)) = {}
  BY <1>1, <1>3, <1>4, ChildFits
<1>7. Child(RootSchema, f) = RootSchema.properties[f]
  BY DEF Child, RootSchema
<1>8. LET s == RootSchema.properties[f] IN "type" \in DOMAIN s /\ s.type = "object"
  BY DEF RootSchema, TimingSchema, ResourceSchema
<1>9. HasType(d[q], "object")
  BY <1>6, <1>7, <1>8 DEF Breaks
<1>10. IsObject(d[q])
  BY <1>9 DEF HasType, IsObject
<1>11. <<<<f>>, RootSchema.properties[f]>> \in ObjectSchemas
  BY DEF ObjectSchemas
<1> QED
  BY <1>5, <1>10, <1>11

(* and a time that exists. *)
LEMMA TimeThere ==
  ASSUME NEW d, Tree(d), Clean(d)
  PROVE  LET t == <<"timing", "event_time">>
         IN t \in DOMAIN d /\ ParseTimestamp(d[t]) # Nil
<1>1. /\ <<"timing">> \in DOMAIN d /\ IsObject(d[<<"timing">>])
      /\ <<<<"timing">>, TimingSchema>> \in ObjectSchemas
  BY ObjectThere, ObjectSchemasAre
<1>2. "required" \in DOMAIN TimingSchema /\ "event_time" \in TimingSchema.required
  BY DEF TimingSchema
<1>3. PICK q \in Below(d, <<"timing">>) : Last(q) = "event_time" /\ q = Append(<<"timing">>, "event_time")
  BY <1>1, <1>2, RequiredThere
<1>4. q = <<"timing", "event_time">> /\ q \in DOMAIN d
  BY <1>1, <1>3, Appended, BelowIs
<1>5. Breaks(d[q], Child(TimingSchema, "event_time")) = {}
  BY <1>1, <1>3, ChildFits
<1>6. Child(TimingSchema, "event_time") = DateTime
  BY DEF Child, TimingSchema, TimingTexts
<1>7. HasType(d[q], "string")
  BY <1>5, <1>6 DEF Breaks, DateTime
<1>8. Has(d, q, "string")
  BY <1>4, <1>7 DEF Has, HasType
<1>9. ASSUME ParseTimestamp(d[q]) = Nil PROVE FALSE
  <2>1. Issue("INVALID_DATETIME", q) \in
          {Issue("INVALID_DATETIME", p) :
             p \in {x \in {<<"timing", "event_time">>} : Has(d, x, "string") /\ ParseTimestamp(d[x]) = Nil}}
    BY <1>4, <1>8, <1>9
  <2>2. Issue("INVALID_DATETIME", q) \in FormatIssues(d)
    BY <2>1, RootIsObject, Zenon DEF FormatIssues
  <2> QED
    BY <2>2 DEF Clean
<1> QED
  BY <1>4, <1>9
-----------------------------------------------------------------------------
(* A clean object whose objects are plain is its own JSON, its own copy, and itself. *)
Plainly(d) == \A p \in DOMAIN d : IsObject(d[p]) => d[p].class = "plain"

(* With a value, all objects above it are there. *)
LEMMA PrefixThere ==
  ASSUME NEW d, Tree(d)
  PROVE  \A q \in DOMAIN d : \A k \in 0..Len(q) : SubSeq(q, 1, k) \in DOMAIN d
<1> DEFINE Upto(n) == \A q \in DOMAIN d : Len(q) = n => \A k \in 0..n : SubSeq(q, 1, k) \in DOMAIN d
           Done == {n \in Nat : Upto(n)}
<1>1. \A q \in DOMAIN d : q \in Seq(Names) /\ Len(q) \in Nat /\ SubSeq(q, 1, Len(q)) = q
  BY LenProperties, SubSeqFull DEF Tree
<1>2. 0 \in Done
  <2> SUFFICES ASSUME NEW q \in DOMAIN d, Len(q) = 0, NEW k \in 0..0 PROVE SubSeq(q, 1, k) \in DOMAIN d
    OBVIOUS
  <2>1. k = Len(q)
    OBVIOUS
  <2> QED
    BY <1>1, <2>1
<1>3. ASSUME NEW n \in Nat, n \in Done PROVE n + 1 \in Done
  <2> SUFFICES ASSUME NEW q \in DOMAIN d, Len(q) = n + 1, NEW k \in 0..(n + 1)
               PROVE  SubSeq(q, 1, k) \in DOMAIN d
    OBVIOUS
  <2>1. CASE k = n + 1
    BY <1>1, <2>1
  <2>2. CASE k \in 0..n
    <3>1. q \in Seq(Names) /\ q # <<>>
      BY <1>1, EmptySeq
    <3>2. Front(q) \in DOMAIN d /\ Front(q) \in Seq(Names)
      BY <3>1, FrontIs DEF Tree
    <3>3. Len(Front(q)) = Len(q) - 1 /\ Len(q) \in Nat
      BY <3>1, FrontIs
    <3>4. Len(Front(q)) = n
      BY <3>3
    <3>5. SubSeq(Front(q), 1, k) \in DOMAIN d
      BY <1>3, <2>2, <3>2, <3>4
    <3>6. SubSeq(Front(q), 1, k) = SubSeq(q, 1, k)
      <4>1. CASE k = 0
        BY <4>1, SubSeqEmpty
      <4>2. CASE k # 0
        <5>1. 1 \in 1..Len(q) /\ n \in 1..Len(q) /\ 1 \in 1..(n - 1 + 1) /\ k \in 1..(n - 1 + 1)
          BY <2>2, <4>2
        <5>2. SubSeq(SubSeq(q, 1, n), 1, k) = SubSeq(q, 1 + 1 - 1, 1 + k - 1)
          BY <3>1, <5>1, SubSeqOfSubSeq
        <5>3. Front(q) = SubSeq(q, 1, n) /\ 1 + 1 - 1 = 1 /\ 1 + k - 1 = k
          BY <2>2 DEF Front
        <5> QED
          BY <5>2, <5>3
      <4> QED
        BY <4>1, <4>2
    <3> QED
      BY <3>5, <3>6
  <2> QED
    BY <2>1, <2>2
<1>4. Nat \subseteq Done
  <2> HIDE DEF Done
  <2> QED
    BY <1>2, <1>3, SetInduction
<1> QED
  BY <1>1, <1>4

(* structuredClone() of plain objects leaves nothing out. *)
LEMMA PlainCopy ==
  ASSUME NEW d, Tree(d), Plainly(d)
  PROVE  Clone(d) = d
<1>1. {q \in DOMAIN d : \A k \in 0..(Len(q) - 1) :
          IsObject(d[SubSeq(q, 1, k)]) => d[SubSeq(q, 1, k)].class = "plain"} = DOMAIN d
  <2>1. \A q \in DOMAIN d : \A k \in 0..(Len(q) - 1) : k \in 0..Len(q)
    <3>1. \A q \in DOMAIN d : Len(q) \in Nat
      BY LenProperties DEF Tree
    <3> QED
      BY <3>1
  <2>2. \A q \in DOMAIN d : \A k \in 0..(Len(q) - 1) : SubSeq(q, 1, k) \in DOMAIN d
    BY <2>1, PrefixThere
  <2> QED
    BY <2>2 DEF Plainly
<1> QED
  BY <1>1 DEF Clone, Tree

(* What is clean and plain is encoded, copied and compared as it is. *)
LEMMA WireSame ==
  ASSUME NEW d, Tree(d), Clean(d), Plainly(d)
  PROVE  /\ Encodes(d) /\ Clones(d) /\ ~Throws(d)
         /\ Json(d) = d /\ AsJson(d) = d /\ Clone(d) = d
<1>1. \A p \in DOMAIN d : d[p].type \in {"string", "number", "object"} /\ d[p] # NotFinite
  BY AllSorted DEF Sorted
<1>2. \A p \in DOMAIN d : d[p] # Undefined /\ d[p] # Function /\ d[p].type # "array"
  BY <1>1 DEF Undefined, Function
<1>3. \A p \in DOMAIN d : IsObject(d[p]) => d[p] = Object("plain", d[p].more)
  BY DEF Tree, IsValue, Plainly
<1>4. Encodes(d)
  BY <1>1, <1>2 DEF Encodes, Plainly
<1>5. Clones(d)
  BY <1>2 DEF Clones, Plainly
<1>6. ~Throws(d)
  <2>1. \A p \in DOMAIN d : d[p] = Object("trap", 0) => d[p].type = "object" /\ d[p].class = "trap"
    BY DEF Object
  <2> QED
    BY <2>1 DEF Throws, Plainly, IsObject
<1>7. Json(d) = d
  <2>1. {q \in DOMAIN d : d[q] \notin {Undefined, Function}} = DOMAIN d
    BY <1>2
  <2> QED
    BY <2>1 DEF Json, Tree
<1>8. AsJson(d) = d
  <2>1. {p \in DOMAIN d : p = <<>> \/ d[p] # Undefined \/ (Len(p) > 1 /\ p[Len(p) - 1] = "labels")} = DOMAIN d
    BY <1>2
  <2>2. [p \in DOMAIN d |-> IF IsObject(d[p]) THEN Object("plain", d[p].more) ELSE d[p]]
          = [p \in DOMAIN d |-> d[p]]
    BY <1>3
  <2> QED
    BY <2>1, <2>2 DEF AsJson, Tree
<1> QED
  BY <1>4, <1>5, <1>6, <1>7, <1>8, PlainCopy

(* What an inspection that finds nothing says of the copy it looks at. *)
Sound(d, now) == Clean(d) /\ ProseIssues(d, now) = {}

(* It finds nothing exactly in what can be read and is sound as JSON sees it. *)
LEMMA InspectSound ==
  ASSUME NEW d, NEW now
  PROVE  Inspect(d, now) = {} <=> ~Throws(d) /\ Sound(AsJson(d), now)
<1> DEFINE data == AsJson(d)
           structural == FormatIssues(data) \cup SchemaIssues(data).structural
<1>1. Inspect(d, now) = IF Throws(d) THEN {Issue("INVALID_TYPE", <<>>)}
                        ELSE IF structural # {} THEN structural
                        ELSE SchemaIssues(data).conditional \cup ProseIssues(data, now)
  BY DEF Inspect
<1> HIDE DEF data
<1> QED
  BY <1>1 DEF Sound, Clean, data

(* What is sound and plain, parseRecord() accepts. *)
LEMMA ParseAccepts ==
  ASSUME NEW d, NEW now, Tree(d), Plainly(d), Sound(d, now)
  PROVE  ParseIssues(d, now) = {}
<1>1. Clones(d) /\ ~Throws(d) /\ AsJson(d) = d /\ Clone(d) = d
  BY WireSame DEF Sound
<1>2. LET v == <<"spec_version">>
      IN v \in DOMAIN d /\ d[v].type = "string" /\ "version" \in d[v].fits
  BY VersionThere DEF Sound
<1>3. ~Missing(d, <<"spec_version">>)
  BY <1>2 DEF Missing, Undefined
<1>4. Inspect(d, now) = {}
  BY <1>1, InspectSound
<1> QED
  BY <1>1, <1>2, <1>3, <1>4 DEF ParseIssues
-----------------------------------------------------------------------------
(* Time passes. *)
LEMMA LastDayIs ==
  ASSUME NEW y \in Nat, NEW mo \in Nat PROVE LastDay(y, mo) \in Nat
  BY DEF LastDay

(* The days before a date, *)
LEMMA DaysInt ==
  ASSUME NEW y \in Nat, NEW mo \in 1..12, NEW day \in Nat
  PROVE  Days(y, mo, day) \in Int
<1>1. Cardinality({x \in 2000..(y - 1) : LastDay(x, 2) = 29}) \in Nat
  <2>1. IsFiniteSet(2000..(y - 1))
    BY FS_Interval
  <2>2. IsFiniteSet({x \in 2000..(y - 1) : LastDay(x, 2) = 29})
    BY <2>1, FS_Subset
  <2> QED
    BY <2>2, FS_CardinalityType
<1>2. DaysBefore[mo] \in Nat
  BY DEF DaysBefore
<1> DEFINE leap == IF mo > 2 /\ LastDay(y, 2) = 29 THEN 1 ELSE 0
<1>3. leap \in Nat
  OBVIOUS
<1>4. \A c, b, l \in Nat : 365 * (y - 2000) + c + b + l + day - 1 \in Int
  OBVIOUS
<1> HIDE DEF leap
<1>5. Days(y, mo, day) = 365 * (y - 2000) + Cardinality({x \in 2000..(y - 1) : LastDay(x, 2) = 29})
                           + DaysBefore[mo] + leap + day - 1
  BY DEF Days, leap
<1> QED
  BY <1>1, <1>2, <1>3, <1>4, <1>5

(* The moment of a timestamp that has one. *)
Real(t) ==
  ~(\/ t.mo \notin 1..12 \/ t.d < 1 \/ t.d > LastDay(t.y, t.mo)
    \/ t.h > 23 \/ t.mi > 59 \/ t.s > 59 \/ t.oh > 23 \/ t.om > 59)

Seconds(t) ==
  Days(t.y, t.mo, t.d) * 86400 + t.h * 3600 + t.mi * 60 + t.s - t.sign * (t.oh * 3600 + t.om * 60)

(* the moment of a timestamp, *)
LEMMA MomentIs ==
  ASSUME NEW v, "parts" \in DOMAIN v
  PROVE  ParseTimestamp(v) = IF Real(v.parts)
                             THEN [seconds |-> Seconds(v.parts), ms |-> v.parts.ms, finer |-> v.parts.finer]
                             ELSE Nil
  BY DEF ParseTimestamp, Real, Seconds

(* and its seconds are whole numbers. *)
LEMMA SecondsInt ==
  ASSUME NEW t \in Parts, Real(t)
  PROVE  Seconds(t) \in Int
<1>1. t.y \in Nat /\ t.mo \in 1..12 /\ t.d \in Nat /\ t.h \in Nat /\ t.mi \in Nat /\ t.s \in Nat
      /\ t.sign \in {-1, 1} /\ t.oh \in Nat /\ t.om \in Nat
  BY DEF Parts, Real
<1>2. Days(t.y, t.mo, t.d) \in Int
  BY <1>1, DaysInt
<1>3. \A n, h, m, s, oh, om \in Int :
        n * 86400 + h * 3600 + m * 60 + s - 1 * (oh * 3600 + om * 60) \in Int
        /\ n * 86400 + h * 3600 + m * 60 + s - (-1) * (oh * 3600 + om * 60) \in Int
  OBVIOUS
<1> QED
  BY <1>1, <1>2, <1>3 DEF Seconds

(* What the clock shows: the minutes count on. *)
LEMMA ClockShows ==
  ASSUME NEW n \in 0..(MaxClock + 5)
  PROVE  LET moment == ParseTimestamp(At(n))
         IN moment.seconds \in Int /\ moment.seconds = Seconds(ClockParts) + n * 60
<1> DEFINE now == [ClockParts EXCEPT !.mi = @ + n]
<1>1. ClockParts \in Parts /\ Real(ClockParts) /\ MaxClock \in Nat /\ ClockParts.mi + MaxClock + 5 <= 59
  <2>1. At(0).parts = [ClockParts EXCEPT !.mi = @ + 0] /\ "parts" \in DOMAIN At(0)
    BY DEF At, Stamp
  <2>2. [ClockParts EXCEPT !.mi = @ + 0] = ClockParts
    BY ClockAssumption DEF Parts
  <2>3. Real(ClockParts)
    BY <2>1, <2>2, MomentIs, ClockAssumption
  <2> QED
    BY <2>3, ClockAssumption, Bounds
<1>2. /\ now \in Parts /\ now.y = ClockParts.y /\ now.mo = ClockParts.mo /\ now.d = ClockParts.d
      /\ now.h = ClockParts.h /\ now.mi = ClockParts.mi + n /\ now.s = ClockParts.s
      /\ now.sign = ClockParts.sign /\ now.oh = ClockParts.oh /\ now.om = ClockParts.om
  BY <1>1 DEF Parts
<1> HIDE DEF now
<1>3. now.mi <= 59 /\ ClockParts.mi \in Nat
  BY <1>1, <1>2 DEF Parts
<1>4. Real(now)
  BY <1>1, <1>2, <1>3 DEF Real
<1>5. At(n).parts = now /\ "parts" \in DOMAIN At(n)
  BY DEF At, Stamp, now
<1>6. ParseTimestamp(At(n)).seconds = Seconds(now)
  BY <1>4, <1>5, MomentIs
<1>7. Seconds(now) = Seconds(ClockParts) + n * 60
  <2>1. ClockParts.y \in Nat /\ ClockParts.mo \in 1..12 /\ ClockParts.d \in Nat /\ ClockParts.h \in Nat
        /\ ClockParts.mi \in Nat /\ ClockParts.s \in Nat /\ ClockParts.sign \in {-1, 1}
        /\ ClockParts.oh \in Nat /\ ClockParts.om \in Nat
    BY <1>1 DEF Parts, Real
  <2>2. Days(ClockParts.y, ClockParts.mo, ClockParts.d) \in Int
    BY <2>1, DaysInt
  <2>3. \A days, h, mi, s, oh, om \in Int :
          /\ days * 86400 + h * 3600 + (mi + n) * 60 + s - 1 * (oh * 3600 + om * 60)
               = days * 86400 + h * 3600 + mi * 60 + s - 1 * (oh * 3600 + om * 60) + n * 60
          /\ days * 86400 + h * 3600 + (mi + n) * 60 + s - (-1) * (oh * 3600 + om * 60)
               = days * 86400 + h * 3600 + mi * 60 + s - (-1) * (oh * 3600 + om * 60) + n * 60
    OBVIOUS
  <2> QED
    BY <1>2, <2>1, <2>2, <2>3 DEF Seconds
<1>8. Seconds(ClockParts) \in Int
  BY <1>1, SecondsInt
<1> QED
  BY <1>6, <1>7, <1>8

(* What was no future then is none later. *)
LEMMA LaterSound ==
  ASSUME NEW d, Tree(d), NEW n \in 0..MaxClock, NEW m \in 0..MaxClock, n <= m, Sound(d, n)
  PROVE  Sound(d, m)
<1> DEFINE time == <<"timing", "event_time">>
           moment == ParseTimestamp(d[time])
           issue == Issue("FUTURE_EVENT_TIME", time)
<1>1. time \in DOMAIN d /\ moment # Nil
  BY TimeThere DEF Sound
<1>2. moment.seconds \in Int
  <2>1. "parts" \in DOMAIN d[time]
    BY <1>1 DEF ParseTimestamp
  <2>2. d[time].parts \in Parts
    BY <1>1, <2>1 DEF Tree, IsValue
  <2>3. Real(d[time].parts) /\ moment.seconds = Seconds(d[time].parts)
    BY <1>1, <2>1, MomentIs
  <2> QED
    BY <2>2, <2>3, SecondsInt
<1> HIDE DEF moment
<1>3. ~IsFuture(moment, n)
  <2>1. ProseIssues(d, n) = {}
    BY DEF Sound
  <2>2. (IF moment # Nil /\ IsFuture(moment, n) THEN {issue} ELSE {}) \subseteq ProseIssues(d, n)
    BY Zenon DEF ProseIssues, moment
  <2> QED
    BY <1>1, <2>1, <2>2
<1>4. ~IsFuture(moment, m)
  <2> DEFINE one == ParseTimestamp(At(n)).seconds
             two == ParseTimestamp(At(m)).seconds
  <2>1. one \in Int /\ two \in Int /\ one <= two
    <3> n \in 0..(MaxClock + 5) /\ m \in 0..(MaxClock + 5) /\ 0 \in 0..(MaxClock + 5)
      BY Bounds
    <3>1. one \in Int /\ one = Seconds(ClockParts) + n * 60
      BY ClockShows
    <3>2. two \in Int /\ two = Seconds(ClockParts) + m * 60
      BY ClockShows
    <3>3. Seconds(ClockParts) \in Int /\ n \in Int /\ m \in Int
      <4>1. ClockParts \in Parts /\ 0 \in 0..MaxClock
        BY Bounds, ClockAssumption
      <4>2. ParseTimestamp(At(0)).seconds \in Int /\ ParseTimestamp(At(0)).seconds = Seconds(ClockParts) + 0 * 60
        BY <4>1, ClockShows
      <4>3. Real(ClockParts)
        <5>1. At(0).parts = [ClockParts EXCEPT !.mi = @ + 0] /\ "parts" \in DOMAIN At(0)
          BY DEF At, Stamp
        <5>2. [ClockParts EXCEPT !.mi = @ + 0] = ClockParts
          BY ClockAssumption DEF Parts
        <5> QED
          BY <5>1, <5>2, MomentIs, ClockAssumption
      <4>4. Seconds(ClockParts) \in Int
        BY <4>1, <4>3, SecondsInt
      <4> QED
        BY <4>4, Bounds
    <3> QED
      BY <3>1, <3>2, <3>3
  <2> HIDE DEF one, two
  <2>2. ~(moment.seconds > one + FutureSkew \/ (moment.seconds = one + FutureSkew /\ moment.ms > 0))
    BY <1>3 DEF IsFuture, one
  <2>3. FutureSkew \in Int
    BY DEF FutureSkew
  <2>4. ~(moment.seconds > two + FutureSkew \/ (moment.seconds = two + FutureSkew /\ moment.ms > 0))
    BY <1>2, <2>1, <2>2, <2>3
  <2> QED
    BY <2>4 DEF IsFuture, two
<1>5. ProseIssues(d, m) = {}
  <2>1. ProseIssues(d, n) = {}
    BY DEF Sound
  <2> QED
    BY <1>3, <1>4, <2>1 DEF ProseIssues, moment
<1> QED
  BY <1>5 DEF Sound
-----------------------------------------------------------------------------

(* The front of a path of two names. *)
LEMMA FrontOfTwo ==
  ASSUME NEW a, NEW b
  PROVE  <<a, b>> # <<>> /\ Front(<<a, b>>) = <<a>>
<1> DEFINE T == {a, b}
<1>1. <<a>> \in Seq(T) /\ <<a, b>> \in Seq(T) /\ a \in T
  OBVIOUS
<1>2. Len(<<a, b>>) = 2 /\ Len(<<a>>) = 1 /\ <<a>>[1] = a /\ <<a, b>>[1] = a /\ <<a, b>> # <<>>
  OBVIOUS
<1> HIDE DEF T
<1>3. PICK p : p = <<a, b>>
  OBVIOUS
<1> DEFINE f == Front(p)
<1>4. f \in Seq(T) /\ Len(f) = Len(p) - 1 /\ Append(f, Last(p)) = p /\ Last(p) \in T
  BY <1>1, <1>2, <1>3, FrontIs
<1> HIDE DEF f
<1>5. Len(f) = 1
  BY <1>2, <1>3, <1>4
<1>6. f[1] = a
  <2>1. Append(f, Last(p))[1] = f[1]
    BY <1>4, <1>5, AppendProperties
  <2> QED
    BY <1>2, <1>3, <1>4, <2>1
<1>7. f = <<a>>
  BY <1>1, <1>2, <1>4, <1>5, <1>6, SeqEqual
<1> QED
  BY <1>2, <1>3, <1>7 DEF f

(* An empty object that the validator accepts is the labels. *)
LEMMA UsageHas ==
  ASSUME NEW d, Tree(d), Clean(d), <<"usage">> \in DOMAIN d, IsObject(d[<<"usage">>])
  PROVE  <<"usage", "llm">> \in DOMAIN d \/ <<"usage", "tool">> \in DOMAIN d
<1> SUFFICES ASSUME <<"usage", "llm">> \notin DOMAIN d, <<"usage", "tool">> \notin DOMAIN d PROVE FALSE
  OBVIOUS
<1> DEFINE r == <<"resource">>
           op == <<"resource", "operation">>
           u == <<"usage">>
<1>1. r \in DOMAIN d /\ IsObject(d[r]) /\ <<r, ResourceSchema>> \in ObjectSchemas
  BY ObjectThere, ObjectSchemasAre
<1>2. "required" \in DOMAIN ResourceSchema /\ "operation" \in ResourceSchema.required
  BY DEF ResourceSchema
<1>3. PICK q \in Below(d, r) : Last(q) = "operation" /\ q = Append(r, "operation")
  <2> HIDE DEF r
  <2> QED
    BY <1>1, <1>2, RequiredThere
<1>4. q = op /\ op \in DOMAIN d
  BY <1>1, <1>3, Appended, BelowIs
<1>5. Breaks(d[op], Child(ResourceSchema, "operation")) = {}
  BY <1>1, <1>3, <1>4, ChildFits
<1>6. Child(ResourceSchema, "operation") = Enum(ModelOperations \cup ToolOperations)
  BY DEF Child, ResourceSchema, Merge, ResourceNames, ResourceDetails
<1>7. d[op].type = "string" /\ d[op].text \in ModelOperations \cup ToolOperations
  <2> DEFINE words == ModelOperations \cup ToolOperations
  <2> HIDE DEF words
  <2>1. "type" \notin DOMAIN Enum(words) /\ "enum" \in DOMAIN Enum(words) /\ Enum(words).enum = words
    BY DEF Enum
  <2>2. {k \in {"enum"} : "enum" \in DOMAIN Enum(words) /\ ~(d[op].type = "string" /\ d[op].text \in Enum(words).enum)} = {}
    BY <1>5, <1>6, <2>1 DEF Breaks, words
  <2>3. d[op].type = "string" /\ d[op].text \in words
    BY <2>1, <2>2
  <2> QED
    BY <2>3 DEF words
<1>8. ASSUME NEW words, d[op].text \in words PROVE OperationIn(d, words)
  <2>1. Breaks(d[op], Enum(words)) = {}
    BY <1>7, <1>8 DEF Breaks, Enum
  <2> QED
    BY <1>1, <1>4, <2>1 DEF OperationIn
<1>9. ASSUME NEW f \in {"llm", "tool"}, Needs(d, u, f) \subseteq SchemaErrors(d) PROVE FALSE
  <2> DEFINE e == Error("required", u, <<f>>, "other", TRUE)
  <2>1. Append(u, f) = <<"usage", f>>
    BY Appended
  <2>2. e \in Needs(d, u, f)
    <3>1. u \in {x \in {u} \cap DOMAIN d : IsObject(d[x]) /\ Append(x, f) \notin DOMAIN d}
      BY <2>1
    <3> QED
      BY <3>1 DEF Needs
  <2>3. e.at = u /\ e.beneath = <<f>>
    BY DEF Error
  <2>4. e.conditional \in BOOLEAN
    BY DEF Error
  <2>5. u \in Seq(Names) /\ f \in Names /\ f # "received_time" /\ u # SinkOwned
    BY DEF Tree, Names, SinkOwned
  <2>6. <<f>> \in Seq(Names) /\ u \o <<f>> # SinkOwned
    <3> HIDE DEF u
    <3> QED
      BY <2>5, AppendedApart
  <2> HIDE DEF e, u
  <2> QED
    BY <1>9, <2>2, <2>3, <2>4, <2>5, <2>6, NoError
<1>10. IsObject(d[<<>>])
  BY RootIsObject
<1>11. CASE d[op].text \in ModelOperations
  <2>1. OperationIn(d, ModelOperations)
    BY <1>8, <1>11
  <2>2. Needs(d, u, "llm") \subseteq ModelBranch(d)
    BY <2>1, Zenon DEF ModelBranch
  <2>3. ModelBranch(d) \subseteq SchemaErrors(d)
    BY <1>10, Zenon DEF SchemaErrors
  <2> QED
    BY <1>9, <2>2, <2>3
<1>12. CASE d[op].text \in ToolOperations
  <2>1. OperationIn(d, ToolOperations)
    BY <1>8, <1>12
  <2>2. Needs(d, u, "tool") \subseteq ToolBranch(d)
    BY <2>1, Zenon DEF ToolBranch
  <2>3. ToolBranch(d) \subseteq SchemaErrors(d)
    BY <1>10, Zenon DEF SchemaErrors
  <2> QED
    BY <1>9, <2>2, <2>3
<1> QED
  BY <1>7, <1>11, <1>12

(* Every other object has a property it must have, or must not be empty. *)
LEMMA EmptyIsLabels ==
  ASSUME NEW d, NEW now, Tree(d), Sound(d, now), NEW p \in DOMAIN d, IsObject(d[p]),
         Below(d, p) = {}, d[p].more = 0
  PROVE  p = <<"attribution", "labels">>
<1> SUFFICES ASSUME p # <<"attribution", "labels">> PROVE FALSE
  OBVIOUS
<1>1. Clean(d)
  BY DEF Sound
<1>2. PICK schema : <<p, schema>> \in ObjectSchemas
  BY <1>1, AllSorted DEF Sorted
<1>3. \A q \in DOMAIN d : q # <<>> => Front(q) # p
  BY ChildBelow
<1>4. CASE p = <<"attribution">>
  <2> DEFINE env == <<"attribution", "environment">>
  <2>1. env \notin DOMAIN d
    <3> SUFFICES ASSUME env \in DOMAIN d PROVE FALSE
      OBVIOUS
    <3>1. env # <<>> /\ Front(env) = <<"attribution">>
      BY FrontOfTwo
    <3> QED
      BY <1>3, <1>4, <3>1
  <2>2. (IF env \notin DOMAIN d THEN {Issue("REQUIRED", env)} ELSE {}) \subseteq ProseIssues(d, now)
    BY Zenon DEF ProseIssues
  <2>3. ProseIssues(d, now) = {}
    BY DEF Sound
  <2> QED
    BY <2>1, <2>2, <2>3
<1>5. CASE p = <<"usage">>
  <2>1. PICK q \in DOMAIN d : q = <<"usage", "llm">> \/ q = <<"usage", "tool">>
    BY <1>1, <1>5, UsageHas
  <2>2. q # <<>> /\ Front(q) = <<"usage">>
    BY <2>1, FrontOfTwo
  <2> QED
    BY <1>3, <1>5, <2>2
<1>6. CASE p \notin {<<"attribution">>, <<"usage">>}
  <2>1. CASE "required" \in DOMAIN schema /\ \E f \in schema.required : f # "received_time"
    BY <1>1, <1>2, <2>1, RequiredThere
  <2>2. CASE "minProperties" \in DOMAIN schema /\ schema.minProperties = 1
    <3> DEFINE e == Error("minProperties", p, <<>>, "other", FALSE)
    <3>1. Size(d, p) = 0
      BY FS_EmptySet DEF Size
    <3>2. e \in ObjectErrors(d, p, schema)
      <4>1. "minProperties" \in {x \in {"minProperties"} : x \in DOMAIN schema /\ Size(d, p) < schema.minProperties}
        BY <2>2, <3>1
      <4> QED
        BY <4>1 DEF ObjectErrors
    <3>3. e.at = p /\ e.beneath = <<>>
      BY DEF Error
    <3>4. e.conditional \in BOOLEAN
      BY DEF Error
    <3>5. p \in Seq(Names) /\ <<>> \in Seq(Names) /\ p \o <<>> = p /\ p # SinkOwned
      BY <1>1, NotSinkOwned, ConcatEmptySeq DEF Tree
    <3> HIDE DEF e
    <3>6. e \in SchemaErrors(d)
      BY <1>1, <1>2, <3>2, RootIsObject, ErrorsOfObject
    <3> QED
      BY <1>1, <3>3, <3>4, <3>5, <3>6, NoError
  <2> QED
    BY <1>2, <1>6, <2>1, <2>2, DemandsAre
<1> QED
  BY <1>4, <1>5, <1>6
-----------------------------------------------------------------------------
(* The copy that is checked is a tree of plain objects. *)
LEMMA CheckedTree ==
  ASSUME NEW d, Tree(d)
  PROVE  /\ Tree(AsJson(d)) /\ Plainly(AsJson(d)) /\ DOMAIN AsJson(d) \subseteq DOMAIN d
         /\ \A p \in DOMAIN d : d[p] # Undefined => p \in DOMAIN AsJson(d)
         /\ \A p \in DOMAIN AsJson(d) :
              AsJson(d)[p] = IF IsObject(d[p]) THEN Object("plain", d[p].more) ELSE d[p]
<1> DEFINE D == {p \in DOMAIN d : p = <<>> \/ d[p] # Undefined \/ (Len(p) > 1 /\ p[Len(p) - 1] = "labels")}
           a == AsJson(d)
<1>1. a = [p \in D |-> IF IsObject(d[p]) THEN Object("plain", d[p].more) ELSE d[p]]
  BY DEF AsJson
<1> HIDE DEF a
<1>2. DOMAIN a = D /\ a = [p \in DOMAIN a |-> a[p]] /\ <<>> \in D
  BY <1>1 DEF Tree
<1>3. \A p \in D : p \in DOMAIN d /\ a[p] = IF IsObject(d[p]) THEN Object("plain", d[p].more) ELSE d[p]
  BY <1>1
<1>4. \A p \in DOMAIN d : d[p] # Undefined => p \in D
  OBVIOUS
<1> HIDE DEF D
<1>5. \A p \in DOMAIN d : IsObject(d[p]) => p \in D
  BY <1>4 DEF IsObject, Undefined
<1>6. ASSUME NEW p \in D, IsObject(d[p])
      PROVE  IsObject(a[p]) /\ a[p].class = "plain" /\ IsValue(a[p])
  <2>1. a[p] = Object("plain", d[p].more) /\ d[p].more \in Nat
    BY <1>3, <1>6 DEF Tree, IsValue
  <2>2. a[p].type = "object" /\ a[p].class = "plain" /\ a[p].more = d[p].more
    BY <2>1 DEF Object
  <2>3. "parts" \notin DOMAIN a[p]
    BY <2>1 DEF Object
  <2> QED
    BY <2>1, <2>2, <2>3 DEF IsObject, IsValue
<1>7. ASSUME NEW p \in D, ~IsObject(d[p])
      PROVE  ~IsObject(a[p]) /\ IsValue(a[p])
  BY <1>3, <1>7 DEF Tree
<1>8. ASSUME NEW p \in D
      PROVE  /\ p \in Seq(Names) /\ IsValue(a[p])
             /\ p # <<>> => Front(p) \in D /\ IsObject(a[Front(p)])
  <2>1. p \in DOMAIN d
    BY <1>3
  <2>2. p \in Seq(Names) /\ (p # <<>> => Front(p) \in DOMAIN d /\ IsObject(d[Front(p)]))
    BY <2>1 DEF Tree
  <2>3. p # <<>> => Front(p) \in D /\ IsObject(a[Front(p)])
    BY <1>5, <1>6, <2>2
  <2>4. IsValue(a[p])
    BY <1>6, <1>7
  <2> QED
    BY <2>2, <2>3, <2>4
<1>9. Tree(a)
  BY <1>2, <1>8 DEF Tree
<1>10. Plainly(a)
  BY <1>2, <1>6, <1>7 DEF Plainly
<1> QED
  BY <1>2, <1>3, <1>4, <1>9, <1>10 DEF a

(* The JSON of a record that was checked is what was checked, if it has one. *)
LEMMA JsonIsChecked ==
  ASSUME NEW d, Tree(d), Clean(AsJson(d)), Encodes(d)
  PROVE  Json(d) = AsJson(d)
<1> DEFINE a == AsJson(d)
<1>1. /\ Tree(a) /\ DOMAIN a \subseteq DOMAIN d /\ \A p \in DOMAIN d : d[p] # Undefined => p \in DOMAIN a
      /\ \A p \in DOMAIN a : a[p] = IF IsObject(d[p]) THEN Object("plain", d[p].more) ELSE d[p]
  BY CheckedTree
<1>2. \A p \in DOMAIN a : a[p].type \in {"string", "number", "object"}
  BY <1>1, AllSorted DEF Sorted
<1> HIDE DEF a
<1>3. \A p \in DOMAIN a : d[p] # Undefined /\ d[p] # Function
  <2> TAKE p \in DOMAIN a
  <2>1. CASE IsObject(d[p])
    BY <2>1 DEF IsObject, Undefined, Function
  <2>2. CASE ~IsObject(d[p])
    BY <1>1, <1>2, <2>2 DEF Undefined, Function
  <2> QED
    BY <2>1, <2>2
<1>4. {q \in DOMAIN d : d[q] \notin {Undefined, Function}} = DOMAIN a
  BY <1>1, <1>3
<1>5. \A p \in DOMAIN a : a[p] = d[p]
  <2> TAKE p \in DOMAIN a
  <2>1. CASE IsObject(d[p])
    <3>1. d[p].class = "plain" /\ d[p] = Object(d[p].class, d[p].more)
      BY <1>1, <2>1 DEF Encodes, Tree, IsValue
    <3> QED
      BY <1>1, <2>1, <3>1
  <2>2. CASE ~IsObject(d[p])
    BY <1>1, <2>2
  <2> QED
    BY <2>1, <2>2
<1>6. Json(d) = [p \in DOMAIN a |-> a[p]]
  BY <1>4, <1>5 DEF Json
<1> QED
  BY <1>1, <1>6 DEF Tree, a

(* In a copy, only a plain object has properties. *)
Copied(d) == \A q \in DOMAIN d : q # <<>> => d[Front(q)].class = "plain"

(* What was checked and has no JSON has labels that are no plain object. *)
LEMMA RefusedLabels ==
  ASSUME NEW d, NEW now, Tree(d), Copied(d), Sound(AsJson(d), now), ~Encodes(d)
  PROVE  {p \in DOMAIN d : IsObject(d[p]) /\ d[p].class # "plain"} = {<<"attribution", "labels">>}
<1> DEFINE a == AsJson(d)
           odd == {p \in DOMAIN d : IsObject(d[p]) /\ d[p].class # "plain"}
<1>1. /\ Tree(a) /\ DOMAIN a \subseteq DOMAIN d /\ \A p \in DOMAIN d : d[p] # Undefined => p \in DOMAIN a
      /\ \A p \in DOMAIN a : a[p] = IF IsObject(d[p]) THEN Object("plain", d[p].more) ELSE d[p]
  BY CheckedTree
<1>2. Clean(a) /\ Sound(a, now)
  BY DEF Sound
<1>3. \A p \in DOMAIN a : a[p].type \in {"string", "number", "object"} /\ a[p] # NotFinite
  BY <1>1, <1>2, AllSorted DEF Sorted
<1> HIDE DEF a
<1>4. odd # {}
  <2>1. PICK p \in DOMAIN d : d[p] = NotFinite \/ d[p].type = "array" \/ (IsObject(d[p]) /\ d[p].class # "plain")
    BY DEF Encodes
  <2>2. ~IsObject(d[p]) => d[p].type \in {"number", "array"}
    BY <2>1 DEF NotFinite
  <2>3. CASE ~IsObject(d[p])
    <3>1. p \in DOMAIN a
      BY <1>1, <2>2, <2>3 DEF Undefined
    <3>2. a[p] = d[p]
      BY <1>1, <2>3, <3>1
    <3> QED
      BY <1>3, <2>1, <2>3, <3>1, <3>2
  <2>4. CASE IsObject(d[p])
    <3>1. d[p] # NotFinite /\ d[p].type # "array"
      BY <2>4 DEF IsObject, NotFinite
    <3> QED
      BY <2>1, <2>4, <3>1
  <2> QED
    BY <2>3, <2>4
<1>5. ASSUME NEW p \in odd PROVE p = <<"attribution", "labels">>
  <2>1. p \in DOMAIN a
    BY <1>1 DEF IsObject, Undefined
  <2>2. a[p] = Object("plain", 0)
    BY <1>1, <2>1 DEF Tree, IsValue
  <2>3. IsObject(a[p]) /\ a[p].more = 0
    BY <2>2 DEF IsObject, Object
  <2>4. Below(a, p) = {}
    <3> SUFFICES ASSUME NEW q \in Below(a, p) PROVE FALSE
      OBVIOUS
    <3>1. q \in DOMAIN a /\ q # <<>> /\ Front(q) = p
      BY <1>1, <2>1, BelowIs
    <3>2. d[p].class = "plain"
      BY <1>1, <3>1 DEF Copied
    <3> QED
      BY <3>2
  <2> QED
    BY <1>1, <1>2, <2>1, <2>3, <2>4, EmptyIsLabels
<1> QED
  BY <1>4, <1>5
-----------------------------------------------------------------------------
(* What the program does to an object leaves a tree of values. *)
LEMMA PrefixOfFront ==
  ASSUME NEW S, NEW q \in Seq(S), q # <<>>
  PROVE  /\ \A k \in 0..(Len(q) - 1) : SubSeq(Front(q), 1, k) = SubSeq(q, 1, k)
         /\ \A p \in Seq(S) : IsPrefix(p, Front(q)) => IsPrefix(p, q)
         /\ IsPrefix(q, q) /\ ~IsPrefix(q, Front(q))
<1>1. /\ Len(q) \in Nat \ {0} /\ Front(q) = SubSeq(q, 1, Len(q) - 1) /\ Front(q) \in Seq(S)
      /\ Len(Front(q)) = Len(q) - 1
  BY FrontIs
<1>2. ASSUME NEW k \in 0..(Len(q) - 1) PROVE SubSeq(Front(q), 1, k) = SubSeq(q, 1, k)
  <2>1. CASE k = 0
    BY <1>1, <2>1, SubSeqEmpty
  <2>2. CASE k # 0
    <3> DEFINE n == Len(q) - 1
    <3>1. 1 \in 1..Len(q) /\ n \in 1..Len(q) /\ 1 \in 1..(n - 1 + 1) /\ k \in 1..(n - 1 + 1)
      BY <1>1, <2>2
    <3> HIDE DEF n
    <3>2. SubSeq(SubSeq(q, 1, n), 1, k) = SubSeq(q, 1 + 1 - 1, 1 + k - 1)
      BY <3>1, SubSeqOfSubSeq
    <3>3. 1 + 1 - 1 = 1 /\ 1 + k - 1 = k
      BY <1>1
    <3> QED
      BY <1>1, <3>2, <3>3 DEF n
  <2> QED
    BY <2>1, <2>2
<1>3. ASSUME NEW p \in Seq(S), IsPrefix(p, Front(q)) PROVE IsPrefix(p, q)
  <2>1. Len(p) \in Nat /\ Len(p) <= Len(q) - 1 /\ SubSeq(p, 1, Len(p)) = SubSeq(Front(q), 1, Len(p))
    BY <1>1, <1>3, LenProperties DEF IsPrefix
  <2>2. Len(p) \in 0..(Len(q) - 1) /\ Len(p) <= Len(q)
    BY <1>1, <2>1
  <2> QED
    BY <1>2, <2>1, <2>2 DEF IsPrefix
<1>4. IsPrefix(q, q) /\ ~IsPrefix(q, Front(q))
  BY <1>1 DEF IsPrefix
<1> QED
  BY <1>2, <1>3, <1>4

(* The root is beneath nothing. *)
LEMMA NotBeneathRoot ==
  ASSUME NEW S, NEW p \in Seq(S), p # <<>>
  PROVE  ~IsPrefix(p, <<>>)
<1>1. Len(p) \in Nat \ {0} /\ Len(<<>>) = 0
  BY FrontIs
<1> QED
  BY <1>1 DEF IsPrefix

(* Removing a property, with all beneath it, leaves a tree. *)
LEMMA WithoutTree ==
  ASSUME NEW d, Tree(d), NEW p \in Seq(Names), p # <<>>
  PROVE  /\ Tree(Without(d, p)) /\ Without(d, p)[<<>>] = d[<<>>]
         /\ \A q \in DOMAIN Without(d, p) : q \in DOMAIN d /\ ~IsPrefix(p, q) /\ Without(d, p)[q] = d[q]
<1> DEFINE w == Without(d, p)
           D == {x \in DOMAIN d : ~IsPrefix(p, x)}
<1>1. w = [q \in D |-> d[q]]
  BY DEF Without
<1>2. <<>> \in D
  BY NotBeneathRoot DEF Tree
<1>3. ASSUME NEW q \in D
      PROVE  /\ q \in Seq(Names) /\ IsValue(d[q])
             /\ q # <<>> => Front(q) \in D /\ IsObject(d[Front(q)])
  <2>1. q \in Seq(Names) /\ IsValue(d[q]) /\ (q # <<>> => Front(q) \in DOMAIN d /\ IsObject(d[Front(q)]))
    BY DEF Tree
  <2>2. q # <<>> => ~IsPrefix(p, Front(q))
    BY <2>1, PrefixOfFront
  <2> QED
    BY <2>1, <2>2
<1> HIDE DEF w
<1>4. DOMAIN w = D /\ (\A q \in D : q \in DOMAIN d /\ ~IsPrefix(p, q) /\ w[q] = d[q])
  BY <1>1
<1> HIDE DEF D
<1>5. Tree(w)
  BY <1>1, <1>2, <1>3, <1>4 DEF Tree
<1> QED
  BY <1>2, <1>4, <1>5 DEF w

(* So does setting one, in place of what was there. *)
LEMMA WithTree ==
  ASSUME NEW d, Tree(d), NEW p \in Seq(Names), NEW v, IsValue(v),
         p # <<>> => Front(p) \in DOMAIN d /\ IsObject(d[Front(p)])
  PROVE  /\ Tree(With(d, p, v))
         /\ p # <<>> => With(d, p, v)[<<>>] = d[<<>>]
         /\ DOMAIN With(d, p, v) \subseteq DOMAIN d \cup {p}
<1> DEFINE w == With(d, p, v)
           o == Without(d, p)
<1>1. CASE p = <<>>
  <2>1. \A x \in DOMAIN d : IsPrefix(<<>>, x)
    <3> TAKE x \in DOMAIN d
    <3>1. x \in Seq(Names) /\ <<>> \in Seq(Names) /\ Len(x) \in Nat /\ Len(<<>>) = 0
      BY LenProperties DEF Tree
    <3>2. SubSeq(<<>>, 1, 0) = <<>> /\ SubSeq(x, 1, 0) = <<>>
      BY <3>1, SubSeqEmpty
    <3> QED
      BY <3>1, <3>2 DEF IsPrefix
  <2>2. DOMAIN o = {}
    BY <1>1, <2>1 DEF Without
  <2>3. w = [q \in {<<>>} |-> v]
    BY <1>1, <2>2 DEF With
  <2>4. <<>> \in Seq(Names)
    BY <1>1
  <2> HIDE DEF w
  <2>5. DOMAIN w = {<<>>} /\ w[<<>>] = v /\ w = [q \in DOMAIN w |-> w[q]]
    BY <2>3
  <2>6. Tree(w)
    BY <2>4, <2>5 DEF Tree
  <2>7. DOMAIN w \subseteq DOMAIN d \cup {p}
    BY <1>1, <2>5
  <2> QED
    BY <1>1, <2>6, <2>7 DEF w
<1>2. CASE p # <<>>
  <2>1. /\ Tree(o) /\ o[<<>>] = d[<<>>]
        /\ \A q \in DOMAIN o : q \in DOMAIN d /\ ~IsPrefix(p, q) /\ o[q] = d[q]
    BY <1>2, WithoutTree
  <2>2. DOMAIN o = {x \in DOMAIN d : ~IsPrefix(p, x)}
    BY DEF Without
  <2>3. w = [q \in {p} \cup DOMAIN o |-> IF q = p THEN v ELSE d[q]]
    BY DEF With
  <2> HIDE DEF o, w
  <2>4. IsPrefix(p, p) /\ ~IsPrefix(p, Front(p))
    BY <1>2, PrefixOfFront
  <2>5. p \notin DOMAIN o /\ Front(p) \in DOMAIN o /\ IsObject(o[Front(p)])
    BY <1>2, <2>1, <2>2, <2>4
  <2>6. /\ DOMAIN w = {p} \cup DOMAIN o /\ w[p] = v /\ (\A q \in DOMAIN o : w[q] = o[q])
        /\ w = [q \in DOMAIN w |-> w[q]]
    BY <2>1, <2>3, <2>5
  <2>7. <<>> \in DOMAIN o
    BY <2>1 DEF Tree
  <2>8. ASSUME NEW q \in DOMAIN w
        PROVE  /\ q \in Seq(Names) /\ IsValue(w[q])
               /\ q # <<>> => Front(q) \in DOMAIN w /\ IsObject(w[Front(q)])
    <3>1. CASE q = p
      BY <1>2, <2>5, <2>6, <3>1
    <3>2. CASE q \in DOMAIN o
      <4>1. q \in Seq(Names) /\ IsValue(o[q]) /\ (q # <<>> => Front(q) \in DOMAIN o /\ IsObject(o[Front(q)]))
        BY <2>1, <3>2 DEF Tree
      <4> QED
        BY <2>6, <3>2, <4>1
    <3> QED
      BY <2>6, <3>1, <3>2
  <2>9. Tree(w)
    BY <2>6, <2>7, <2>8 DEF Tree
  <2>10. w[<<>>] = d[<<>>] /\ DOMAIN w \subseteq DOMAIN d \cup {p}
    BY <2>1, <2>6, <2>7
  <2> QED
    BY <2>9, <2>10 DEF w
<1> QED
  BY <1>1, <1>2

(* structuredClone() makes a tree in which only plain objects have properties. *)
LEMMA CloneTree ==
  ASSUME NEW d, Tree(d)
  PROVE  Tree(Clone(d)) /\ Copied(Clone(d))
<1> DEFINE c == Clone(d)
           Reached(q) == \A k \in 0..(Len(q) - 1) :
                           IsObject(d[SubSeq(q, 1, k)]) => d[SubSeq(q, 1, k)].class = "plain"
           D == {q \in DOMAIN d : Reached(q)}
<1>1. c = [p \in D |-> d[p]]
  BY DEF Clone
<1>2. <<>> \in D
  <2>1. Len(<<>>) = 0
    OBVIOUS
  <2> QED
    BY <2>1 DEF Tree
<1>3. ASSUME NEW q \in D
      PROVE  /\ q \in Seq(Names) /\ IsValue(d[q])
             /\ q # <<>> => Front(q) \in D /\ IsObject(d[Front(q)]) /\ d[Front(q)].class = "plain"
  <2>1. q \in Seq(Names) /\ IsValue(d[q]) /\ (q # <<>> => Front(q) \in DOMAIN d /\ IsObject(d[Front(q)]))
    BY DEF Tree
  <2>2. ASSUME q # <<>> PROVE Reached(Front(q)) /\ d[Front(q)].class = "plain"
    <3>1. Len(q) \in Nat \ {0} /\ Len(Front(q)) = Len(q) - 1 /\ Front(q) = SubSeq(q, 1, Len(q) - 1)
      BY <2>1, <2>2, FrontIs
    <3>2. \A k \in 0..(Len(Front(q)) - 1) : k \in 0..(Len(q) - 1) /\ SubSeq(Front(q), 1, k) = SubSeq(q, 1, k)
      <4> TAKE k \in 0..(Len(Front(q)) - 1)
      <4>1. k \in 0..(Len(q) - 1)
        BY <3>1
      <4> QED
        BY <2>1, <2>2, <4>1, PrefixOfFront
    <3>3. Reached(Front(q))
      BY <3>2
    <3>4. Len(q) - 1 \in 0..(Len(q) - 1)
      BY <3>1
    <3>5. d[Front(q)].class = "plain"
      BY <2>1, <2>2, <3>1, <3>4
    <3> QED
      BY <3>3, <3>5
  <2> QED
    BY <2>1, <2>2
<1> HIDE DEF c, D
<1>4. DOMAIN c = D /\ c = [q \in DOMAIN c |-> c[q]] /\ \A q \in D : c[q] = d[q]
  BY <1>1
<1> QED
  BY <1>2, <1>3, <1>4 DEF Tree, Copied, c
-----------------------------------------------------------------------------
(* Objects, texts and timestamps that the program makes are values, *)
LEMMA PlainValues ==
  /\ IsObject(Plain) /\ Plain.class = "plain" /\ IsValue(Plain)
  /\ \A word, len, fits : IsValue(Text(word, len, fits)) /\ ~IsObject(Text(word, len, fits))
  /\ \A parts \in Parts : IsValue(Stamp(parts)) /\ ~IsObject(Stamp(parts))
<1>1. IsObject(Plain) /\ Plain.class = "plain" /\ Plain.more = 0
  BY DEF IsObject, Plain, Object
<1>2. "parts" \notin DOMAIN Plain /\ Plain.type # "date" /\ Plain = Object("plain", 0)
  BY DEF Plain, Object
<1>3. IsValue(Plain)
  BY <1>1, <1>2 DEF IsValue
<1>4. ASSUME NEW word, NEW len, NEW fits
      PROVE  IsValue(Text(word, len, fits)) /\ ~IsObject(Text(word, len, fits))
  <2> DEFINE v == Text(word, len, fits)
  <2>1. v.type = "string" /\ "parts" \notin DOMAIN v
    BY DEF Text
  <2> HIDE DEF v
  <2> QED
    BY <2>1 DEF IsValue, IsObject, v
<1>5. ASSUME NEW parts \in Parts
      PROVE  IsValue(Stamp(parts)) /\ ~IsObject(Stamp(parts))
  <2> DEFINE v == Stamp(parts)
  <2>1. v.type = "string" /\ v.parts \in Parts
    BY DEF Stamp
  <2> HIDE DEF v
  <2> QED
    BY <2>1 DEF IsValue, IsObject, v
<1> QED
  BY <1>1, <1>3, <1>4, <1>5

(* a reading of the clock too, *)
LEMMA AtValue ==
  ASSUME NEW n \in Nat PROVE IsValue(At(n)) /\ ~IsObject(At(n))
<1>1. [ClockParts EXCEPT !.mi = @ + n] \in Parts
  BY ClockAssumption DEF Parts
<1> QED
  BY <1>1, PlainValues DEF At

(* and what callers give. *)
LEMMA InputTree ==
  ASSUME NEW d, IsTree(d) PROVE Tree(d)
<1>1. Seq(STRING) \subseteq Seq(Names)
  BY SeqMonotonic DEF Names
<1> QED
  BY <1>1 DEF IsTree, Tree

(* What createRecord() returns is a tree of values. *)
LEMMA CreatedTree ==
  ASSUME NEW input \in RecordInputs, NEW now \in Nat
  PROVE  Tree(CreateRecord(input, now))
<1> DEFINE T == <<"timing", "event_time">>
           V == <<"spec_version">>
           I == <<"record_id">>
           M == <<"timing">>
           today == [type |-> "date", valid |-> TRUE, minutes |-> now]
           time == OrElse(input, T, today)
           stamped == IF time.type = "string" THEN time ELSE ToTimestamp(time)
           version == OrElse(input, V, Text("1.1.0", 5, {"version"}))
           id == OrElse(input, I, Text("uuid", 36, {"id"}))
           bare == Without(input, T)
           one == With(bare, V, version)
           timed == With(one, I, id)
           r == CreateRecord(input, now)
<1>1. Tree(input) /\ IsObject(input[<<>>])
  BY InputTree, ObjectsAssumption
<1>2. T \in Seq(Names) /\ V \in Seq(Names) /\ I \in Seq(Names) /\ M \in Seq(Names)
  BY DEF Names
<1>3. Front(T) = M /\ T # <<>> /\ M # <<>> /\ V # <<>> /\ I # <<>> /\ M # T /\ V # T /\ I # T
  BY FrontOfTwo
<1>4. Front(V) = <<>> /\ Front(I) = <<>> /\ Front(M) = <<>>
  <2>1. \A p \in Seq(Names) : p # <<>> /\ Len(p) = 1 => Front(p) = <<>>
    <3> TAKE p \in Seq(Names)
    <3> HAVE p # <<>> /\ Len(p) = 1
    <3>1. Front(p) \in Seq(Names) /\ Len(Front(p)) = Len(p) - 1
      BY FrontIs
    <3>2. Len(Front(p)) = 0
      BY <3>1
    <3> QED
      BY <3>1, <3>2, EmptySeq
  <2> QED
    BY <1>2, <1>3, <2>1
<1>5. IsValue(stamped) /\ ~IsObject(stamped)
  <2>1. IsValue(today) /\ today.type = "date" /\ today.valid
    BY DEF IsValue, IsObject
  <2>2. IsValue(time) /\ time.type \in {"string", "date"}
    <3>1. CASE Missing(input, T) \/ input[T] = Null
      <4>1. time = today
        BY <3>1 DEF OrElse
      <4> QED
        BY <2>1, <4>1
    <3>2. CASE ~(Missing(input, T) \/ input[T] = Null)
      <4>1. time = input[T] /\ T \in DOMAIN input /\ input[T] # Undefined /\ input[T] # Null
        BY <3>2 DEF OrElse, Missing
      <4>2. IsValue(input[T])
        BY <1>1, <4>1 DEF Tree
      <4>3. input[T].type \in {"string", "date"}
        BY <4>1, ObjectsAssumption
      <4> QED
        BY <4>1, <4>2, <4>3
    <3> QED
      BY <3>1, <3>2
  <2> HIDE DEF time
  <2>3. CASE time.type = "string"
    BY <2>2, <2>3 DEF IsObject
  <2>4. CASE time.type # "string"
    <3>1. stamped = ToTimestamp(time) /\ time.type = "date"
      BY <2>2, <2>4
    <3>2. CASE time.valid
      <4>1. time.minutes \in Nat /\ stamped = At(time.minutes)
        BY <2>2, <3>1, <3>2 DEF IsValue, ToTimestamp
      <4> QED
        BY <4>1, AtValue
    <3>3. CASE ~time.valid
      <4>1. stamped = Text("Invalid Date", 12, {})
        BY <3>1, <3>3 DEF ToTimestamp
      <4> HIDE DEF stamped
      <4> QED
        BY <4>1, PlainValues
    <3> QED
      BY <3>2, <3>3
  <2> QED
    BY <2>3, <2>4
<1>6. IsValue(version) /\ IsValue(id)
  <2>1. ASSUME NEW p, NEW v, IsValue(v) PROVE IsValue(OrElse(input, p, v))
    <3>1. \/ OrElse(input, p, v) = v
          \/ p \in DOMAIN input /\ OrElse(input, p, v) = input[p]
      BY DEF OrElse, Missing
    <3> QED
      BY <1>1, <2>1, <3>1 DEF Tree
  <2> QED
    BY <2>1, PlainValues
<1> HIDE DEF stamped, version, id
<1>7. /\ Tree(bare) /\ IsObject(bare[<<>>]) /\ <<>> \in DOMAIN bare
      /\ \A q \in DOMAIN bare : q \in Seq(Names) /\ ~IsPrefix(T, q)
  <2> HIDE DEF T
  <2>1. /\ Tree(bare) /\ bare[<<>>] = input[<<>>]
        /\ \A q \in DOMAIN bare : q \in DOMAIN input /\ ~IsPrefix(T, q) /\ bare[q] = input[q]
    BY <1>1, <1>2, <1>3, WithoutTree
  <2> QED
    BY <1>1, <2>1 DEF Tree
<1> HIDE DEF bare
<1>8. Tree(one) /\ IsObject(one[<<>>]) /\ <<>> \in DOMAIN one /\ DOMAIN one \subseteq DOMAIN bare \cup {V}
  <2> HIDE DEF V
  <2>0. V \in Seq(Names) /\ V # <<>> /\ Front(V) \in DOMAIN bare /\ IsObject(bare[Front(V)])
    BY <1>2, <1>3, <1>4, <1>7
  <2>1. Tree(one) /\ one[<<>>] = bare[<<>>] /\ DOMAIN one \subseteq DOMAIN bare \cup {V}
    BY <1>6, <1>7, <2>0, WithTree
  <2> QED
    BY <1>7, <2>1 DEF Tree
<1> HIDE DEF one
<1>9. Tree(timed) /\ IsObject(timed[<<>>]) /\ <<>> \in DOMAIN timed /\ DOMAIN timed \subseteq DOMAIN one \cup {I}
  <2> HIDE DEF I
  <2>0. I \in Seq(Names) /\ I # <<>> /\ Front(I) \in DOMAIN one /\ IsObject(one[Front(I)])
    BY <1>2, <1>3, <1>4, <1>8
  <2>1. Tree(timed) /\ timed[<<>>] = one[<<>>] /\ DOMAIN timed \subseteq DOMAIN one \cup {I}
    BY <1>6, <1>8, <2>0, WithTree
  <2> QED
    BY <1>8, <2>1 DEF Tree
<1>10. r = [p \in DOMAIN timed \cup {M, T} |-> IF p = T THEN stamped ELSE IF p = M THEN Plain ELSE timed[p]]
  BY DEF CreateRecord, timed, one, bare, version, id, stamped
<1> HIDE DEF timed, r
<1>11. /\ DOMAIN r = DOMAIN timed \cup {M, T} /\ r = [p \in DOMAIN r |-> r[p]]
       /\ r[T] = stamped /\ r[M] = Plain
       /\ \A q \in DOMAIN timed : q # T /\ q # M => r[q] = timed[q]
  BY <1>3, <1>10
<1>12. \A q \in DOMAIN timed : q # <<>> => Front(q) # T
  <2> TAKE q \in DOMAIN timed
  <2> HAVE q # <<>>
  <2>1. CASE q \in DOMAIN bare
    <3>1. IsPrefix(Front(q), q)
      BY <1>7, <2>1, FrontIs
    <3> QED
      BY <1>7, <2>1, <3>1
  <2>2. CASE q = V \/ q = I
    BY <1>3, <1>4, <2>2
  <2> QED
    BY <1>8, <1>9, <2>1, <2>2
<1>13. ASSUME NEW q \in DOMAIN r
       PROVE  /\ q \in Seq(Names) /\ IsValue(r[q])
              /\ q # <<>> => Front(q) \in DOMAIN r /\ IsObject(r[Front(q)])
  <2>1. IsObject(r[<<>>]) /\ IsObject(r[M]) /\ <<>> \in DOMAIN r /\ M \in DOMAIN r
    <3>1. IsObject(r[<<>>])
      <4>1. r[<<>>] = timed[<<>>]
        BY <1>3, <1>9, <1>11
      <4> QED
        BY <1>9, <4>1
    <3> QED
      BY <1>9, <1>11, <3>1, PlainValues
  <2>2. CASE q = T
    BY <1>2, <1>3, <1>5, <1>11, <2>1, <2>2
  <2>3. CASE q = M
    <3> HIDE DEF M, T
    <3> QED
      BY <1>2, <1>4, <1>11, <2>1, <2>3, PlainValues
  <2>4. CASE q \in DOMAIN timed /\ q # T /\ q # M
    <3>1. q \in Seq(Names) /\ IsValue(timed[q]) /\ (q # <<>> => Front(q) \in DOMAIN timed /\ IsObject(timed[Front(q)]))
      BY <1>9, <2>4 DEF Tree
    <3>2. q # <<>> => Front(q) # T
      BY <1>12, <2>4
    <3> HIDE DEF M, T
    <3>3. q # <<>> => Front(q) \in DOMAIN r /\ IsObject(r[Front(q)])
      BY <1>11, <2>1, <3>1, <3>2
    <3> QED
      BY <1>11, <2>4, <3>1, <3>3
  <2> QED
    BY <1>11, <2>2, <2>3, <2>4
<1>14. Tree(r)
  BY <1>9, <1>11, <1>13 DEF Tree
<1> QED
  BY <1>14 DEF r

(* A path with one name more. *)
LEMMA AppendedFront ==
  ASSUME NEW S, NEW p \in Seq(S), NEW f \in S
  PROVE  LET q == Append(p, f)
         IN q \in Seq(S) /\ q # <<>> /\ q # p /\ Front(q) = p /\ Last(q) = f /\ IsPrefix(p, q)
<1> DEFINE q == Append(p, f)
<1>1. q \in Seq(S) /\ Len(q) = Len(p) + 1 /\ Len(p) \in Nat /\ q[Len(p) + 1] = f
      /\ \A i \in 1..Len(p) : q[i] = p[i]
  BY AppendProperties, LenProperties
<1> HIDE DEF q
<1>2. Len(q) # 0 /\ q # p /\ Last(q) = f
  BY <1>1 DEF Last
<1>3. q # <<>>
  BY <1>1, <1>2, EmptySeq
<1>4. /\ Front(q) \in Seq(S) /\ Len(Front(q)) = Len(q) - 1 /\ Last(q) \in S
      /\ Append(Front(q), Last(q)) = q /\ IsPrefix(Front(q), q)
  BY <1>1, <1>3, FrontIs
<1>5. Len(Front(q)) = Len(p)
  BY <1>1, <1>4
<1>6. \A i \in 1..Len(p) : Front(q)[i] = p[i]
  <2>1. \A i \in 1..Len(Front(q)) : Append(Front(q), Last(q))[i] = Front(q)[i]
    BY <1>4, AppendProperties
  <2> QED
    BY <1>1, <1>4, <1>5, <2>1
<1>7. Front(q) = p
  BY <1>1, <1>4, <1>5, <1>6, SeqEqual
<1> QED
  BY <1>1, <1>2, <1>3, <1>4, <1>7 DEF q

(* What has something beneath it has a property. *)
LEMMA BeneathHasProperty ==
  ASSUME NEW d, Tree(d), NEW p \in Seq(Names), NEW q \in DOMAIN d, IsPrefix(p, q), q # p
  PROVE  \E x \in DOMAIN d : x # <<>> /\ Front(x) = p
<1> DEFINE n == Len(p)
           x == SubSeq(q, 1, n + 1)
<1>1. q \in Seq(Names) /\ Len(q) \in Nat /\ n \in Nat /\ n <= Len(q) /\ SubSeq(p, 1, n) = SubSeq(q, 1, n)
  BY LenProperties DEF Tree, IsPrefix
<1>2. SubSeq(q, 1, n) = p /\ SubSeq(q, 1, Len(q)) = q
  BY <1>1, SubSeqFull
<1> HIDE DEF n
<1>3. n + 1 \in 0..Len(q)
  <2>1. n # Len(q)
    BY <1>2
  <2> QED
    BY <1>1, <2>1
<1>4. x \in DOMAIN d
  BY <1>3, PrefixThere
<1>5. x \in Seq(Names) /\ Len(x) = n + 1
  <2>1. \A i \in 1..(n + 1) : i \in 1..Len(q)
    BY <1>1, <1>3
  <2>2. \A i \in 1..(n + 1) : q[i] \in Names
    BY <1>1, <2>1, ElementOfSeq
  <2>3. 1 \in Int /\ n + 1 \in Int
    BY <1>1
  <2>4. Len(SubSeq(q, 1, n + 1)) = IF 1 <= n + 1 THEN (n + 1) - 1 + 1 ELSE 0
    BY <2>2, <2>3, SubSeqProperties
  <2>5. (IF 1 <= n + 1 THEN (n + 1) - 1 + 1 ELSE 0) = n + 1
    BY <1>1
  <2>6. SubSeq(q, 1, n + 1) \in Seq(Names)
    BY <2>2, <2>3, SubSeqProperties
  <2> QED
    BY <2>4, <2>5, <2>6
<1>6. SubSeq(x, 1, n) = SubSeq(q, 1, n)
  <2>1. CASE n = 0
    BY <2>1, SubSeqEmpty
  <2>2. CASE n # 0
    <3> DEFINE m == n + 1
    <3>1. 1 \in 1..Len(q) /\ m \in 1..Len(q) /\ 1 \in 1..(m - 1 + 1) /\ n \in 1..(m - 1 + 1)
      BY <1>1, <1>3, <2>2
    <3> HIDE DEF m
    <3>2. SubSeq(SubSeq(q, 1, m), 1, n) = SubSeq(q, 1 + 1 - 1, 1 + n - 1)
      BY <1>1, <3>1, SubSeqOfSubSeq
    <3>3. 1 + 1 - 1 = 1 /\ 1 + n - 1 = n
      BY <1>1
    <3> QED
      BY <3>2, <3>3 DEF m
  <2> QED
    BY <2>1, <2>2
<1> HIDE DEF x
<1>7. Len(x) - 1 = n /\ Len(x) # 0
  BY <1>1, <1>5
<1>8. x # <<>> /\ Front(x) = p
  <2>1. x # <<>>
    BY <1>5, <1>7, EmptySeq
  <2>2. Front(x) = SubSeq(x, 1, n)
    BY <1>7 DEF Front
  <2> QED
    BY <1>2, <1>6, <2>1, <2>2
<1> QED
  BY <1>4, <1>8

(* What the client stamps on a record without an emitter, and what that adds to it. *)
ClientEmitter ==
  [component |-> Text("harness", 7, {}), name |-> Text("client", 6, {}), version |-> Text("1", 1, {})]

EmitterFields == {Append(<<"emitter">>, f) : f \in DOMAIN ClientEmitter}

(* The paths of that emitter. *)
LEMMA EmitterPaths ==
  LET p == <<"emitter">>
  IN /\ p \in Seq(Names) /\ p # <<>> /\ Front(p) = <<>>
     /\ DOMAIN ClientEmitter = {"component", "name", "version"} /\ DOMAIN ClientEmitter \subseteq Names
     /\ \A f \in DOMAIN ClientEmitter :
          LET q == Append(p, f)
          IN q \in Seq(Names) /\ q # <<>> /\ q # p /\ Front(q) = p /\ Last(q) = f /\ IsPrefix(p, q)
<1> DEFINE p == <<"emitter">>
<1>1. DOMAIN ClientEmitter = {"component", "name", "version"}
  BY DEF ClientEmitter
<1>2. p \in Seq(Names) /\ p # <<>> /\ DOMAIN ClientEmitter \subseteq Names /\ Len(p) = 1
  BY <1>1 DEF Names
<1> HIDE DEF p
<1>3. Front(p) = <<>>
  <2>1. Front(p) \in Seq(Names) /\ Len(Front(p)) = 0
    BY <1>2, FrontIs
  <2> QED
    BY <2>1, EmptySeq
<1>4. \A f \in DOMAIN ClientEmitter :
        LET q == Append(p, f)
        IN q \in Seq(Names) /\ q # <<>> /\ q # p /\ Front(q) = p /\ Last(q) = f /\ IsPrefix(p, q)
  BY <1>2, AppendedFront
<1> QED
  BY <1>1, <1>2, <1>3, <1>4 DEF p

(* The record is left alone, or has that emitter besides what it had. *)
LEMMA StampedIs ==
  ASSUME NEW d, Tree(d), NEW configured \in BOOLEAN
  PROVE  LET p == <<"emitter">>
             r == StampEmitter(d, configured)
         IN \/ r = d
            \/ /\ IsObject(d[<<>>]) /\ \A q \in DOMAIN d : q # <<>> => Front(q) # p
               /\ DOMAIN r = DOMAIN d \cup {p} \cup EmitterFields /\ r = [q \in DOMAIN r |-> r[q]]
               /\ r[p] = Plain
               /\ \A q \in DOMAIN d : q # p => r[q] = d[q]
               /\ \A f \in DOMAIN ClientEmitter : r[Append(p, f)] = ClientEmitter[f]
<1> DEFINE p == <<"emitter">>
           r == StampEmitter(d, configured)
<1>1. CASE ~configured \/ ~IsObject(d[<<>>]) \/ ~Missing(d, p)
  BY <1>1 DEF StampEmitter
<1>2. CASE configured /\ IsObject(d[<<>>]) /\ Missing(d, p)
  <2>1. r = [q \in DOMAIN d \cup {p} \cup EmitterFields |->
               IF q = p THEN Plain ELSE IF IsPrefix(p, q) THEN ClientEmitter[Last(q)] ELSE d[q]]
    BY <1>2, Zenon DEF StampEmitter, ClientEmitter, EmitterFields
  <2>2. \A q \in DOMAIN d : q # <<>> => Front(q) # p
    BY <1>2 DEF Missing, Tree, IsObject, Undefined
  <2> HIDE DEF p
  <2>3. /\ p \in Seq(Names)
        /\ \A f \in DOMAIN ClientEmitter :
             LET q == Append(p, f) IN q # p /\ Last(q) = f /\ IsPrefix(p, q)
    BY EmitterPaths DEF p
  <2>4. EmitterFields = {Append(p, f) : f \in DOMAIN ClientEmitter}
    BY DEF EmitterFields, p
  <2>5. \A q \in DOMAIN d : IsPrefix(p, q) => q = p
    BY <2>2, <2>3, BeneathHasProperty
  <2> HIDE DEF r
  <2>6. DOMAIN r = DOMAIN d \cup {p} \cup EmitterFields /\ r = [q \in DOMAIN r |-> r[q]] /\ r[p] = Plain
    BY <2>1
  <2>7. \A q \in DOMAIN d : q # p => r[q] = d[q]
    BY <2>1, <2>5
  <2>8. \A f \in DOMAIN ClientEmitter : r[Append(p, f)] = ClientEmitter[f]
    BY <2>1, <2>3, <2>4
  <2> QED
    BY <1>2, <2>2, <2>6, <2>7, <2>8 DEF p, r
<1> QED
  BY <1>1, <1>2

(* A record that the client stamps is a tree of values. *)
LEMMA StampedTree ==
  ASSUME NEW d, Tree(d), NEW configured \in BOOLEAN
  PROVE  Tree(StampEmitter(d, configured))
<1> DEFINE p == <<"emitter">>
           r == StampEmitter(d, configured)
<1> SUFFICES ASSUME r # d PROVE Tree(r)
  OBVIOUS
<1>1. /\ \A q \in DOMAIN d : q # <<>> => Front(q) # p
      /\ DOMAIN r = DOMAIN d \cup {p} \cup EmitterFields /\ r = [q \in DOMAIN r |-> r[q]] /\ r[p] = Plain
      /\ \A q \in DOMAIN d : q # p => r[q] = d[q]
      /\ \A f \in DOMAIN ClientEmitter : r[Append(p, f)] = ClientEmitter[f]
  BY StampedIs
<1>2. IsObject(d[<<>>])
  BY StampedIs
<1>3. \A f \in DOMAIN ClientEmitter : IsValue(ClientEmitter[f])
  BY PlainValues DEF ClientEmitter
<1>4. /\ p \in Seq(Names) /\ p # <<>> /\ Front(p) = <<>>
      /\ \A f \in DOMAIN ClientEmitter :
           LET q == Append(p, f) IN q \in Seq(Names) /\ q # <<>> /\ Front(q) = p
  BY EmitterPaths
<1>5. EmitterFields = {Append(p, f) : f \in DOMAIN ClientEmitter}
  BY DEF EmitterFields
<1> HIDE DEF p, r
<1>6. <<>> \in DOMAIN r /\ r[<<>>] = d[<<>>]
  BY <1>1, <1>4 DEF Tree
<1>7. ASSUME NEW q \in DOMAIN r
      PROVE  /\ q \in Seq(Names) /\ IsValue(r[q])
             /\ q # <<>> => Front(q) \in DOMAIN r /\ IsObject(r[Front(q)])
  <2>1. CASE q = p
    BY <1>1, <1>2, <1>4, <1>6, <2>1, PlainValues
  <2>2. CASE q \in DOMAIN d /\ q # p
    <3>1. q \in Seq(Names) /\ IsValue(d[q]) /\ (q # <<>> => Front(q) \in DOMAIN d /\ IsObject(d[Front(q)]))
      BY <2>2 DEF Tree
    <3>2. q # <<>> => Front(q) # p
      BY <1>1, <2>2
    <3> QED
      BY <1>1, <2>2, <3>1, <3>2
  <2>3. CASE q \in EmitterFields
    <3>1. PICK f \in DOMAIN ClientEmitter : q = Append(p, f)
      BY <1>5, <2>3
    <3> QED
      BY <1>1, <1>3, <1>4, <3>1, PlainValues
  <2> QED
    BY <1>1, <2>1, <2>2, <2>3
<1> QED
  BY <1>1, <1>6, <1>7 DEF Tree
-----------------------------------------------------------------------------
(* What a record is at each stage: a client holds what was checked and its JSON is that; a
   parsed record is one whose copy was checked. *)
Checked ==
  \/ by = "client" /\ Tree(held) /\ Plainly(held) /\ Sound(held, clock)
  \/ by = "parse" /\ Tree(held) /\ Copied(held) /\ Sound(AsJson(held), clock)

RecordsInv ==
  /\ Tree(doc) /\ clock \in 0..MaxClock
  /\ stage \in {"draft", "judged", "encoded", "refused", "decoded"}
  /\ stage = "judged" /\ held # Nil => Checked
  /\ stage = "encoded" => Tree(wire) /\ Plainly(wire) /\ Sound(wire, clock)
  /\ RoundTrip

(* It holds of what createRecord() returns, *)
LEMMA RecordsInit == RecordInit => RecordsInv
<1> SUFFICES ASSUME RecordInit PROVE RecordsInv
  OBVIOUS
<1>1. Tree(doc)
  BY CreatedTree, Bounds DEF RecordInit
<1>2. clock \in 0..MaxClock /\ stage = "draft"
  BY Bounds DEF RecordInit
<1> QED
  BY <1>1, <1>2 DEF RecordsInv, RoundTrip

(* whatever the caller changes, *)
LEMMA RecordsEdit ==
  ASSUME RecordsInv, NEW e \in Edits, Edit(e)
  PROVE  RecordsInv'
<1>1. /\ e[1] \in Seq(Names)
      /\ e[2] = Absent => e[1] # <<>>
      /\ e[2] # Absent => IsValue(e[2])
  <2>1. Seq(STRING) \subseteq Seq(Names)
    BY SeqMonotonic DEF Names
  <2> QED
    BY <2>1, ObjectsAssumption
<1>2. Tree(doc) /\ (e[1] # <<>> => Front(e[1]) \in DOMAIN doc /\ IsObject(doc[Front(e[1])]))
  BY DEF RecordsInv, Edit
<1>3. CASE e[2] = Absent
  <2>1. doc' = Without(doc, e[1])
    BY <1>3 DEF Edit
  <2>2. Tree(Without(doc, e[1]))
    BY <1>1, <1>2, <1>3, WithoutTree
  <2>3. (Tree(doc))'
    BY <2>1, <2>2
  <2> QED
    BY <2>3 DEF RecordsInv, Edit, RoundTrip
<1>4. CASE e[2] # Absent
  <2>1. doc' = With(doc, e[1], e[2])
    BY <1>4 DEF Edit
  <2>2. Tree(With(doc, e[1], e[2]))
    BY <1>1, <1>2, <1>4, WithTree
  <2>3. (Tree(doc))'
    BY <2>1, <2>2
  <2> QED
    BY <2>3 DEF RecordsInv, Edit, RoundTrip
<1> QED
  BY <1>3, <1>4

(* when a verdict is recorded that is true of what is held, *)
LEMMA RecordsJudged ==
  ASSUME RecordsInv, NEW who, NEW found, NEW data, Judged(who, found, data),
         found = {} =>
           \/ who = "client" /\ Tree(data) /\ Plainly(data) /\ Sound(data, clock)
           \/ who = "parse" /\ Tree(data) /\ Copied(data) /\ Sound(AsJson(data), clock)
  PROVE  RecordsInv'
<1>1. stage' = "judged" /\ by' = who /\ UNCHANGED <<doc, clock>> /\ held' = (IF found = {} THEN data ELSE Nil)
  BY DEF Judged
<1>2. held' # Nil => found = {} /\ held' = data
  BY <1>1
<1>3. held' # Nil => Checked'
  BY <1>1, <1>2 DEF Checked
<1> QED
  BY <1>1, <1>3 DEF RecordsInv, RoundTrip

(* as Client.record()'s is, *)
LEMMA RecordsClient ==
  ASSUME RecordsInv, NEW configured \in BOOLEAN, ClientRecord(configured)
  PROVE  RecordsInv'
<1> DEFINE copy == StampEmitter(doc, configured)
           c == Clone(copy)
           found == Inspect(c, clock)
<1>1. Tree(c)
  BY StampedTree, CloneTree DEF RecordsInv
<1>2. IF Clones(copy) THEN Judged("client", found, AsJson(c))
      ELSE Judged("client", {Issue("INVALID_TYPE", <<>>)}, Nil)
  BY DEF ClientRecord, Queued
<1> HIDE DEF copy, c
<1>3. CASE Clones(copy)
  <2>1. found = {} => Tree(AsJson(c)) /\ Plainly(AsJson(c)) /\ Sound(AsJson(c), clock)
    BY <1>1, CheckedTree, InspectSound
  <2> HIDE DEF found
  <2> QED
    BY <1>2, <1>3, <2>1, RecordsJudged
<1>4. CASE ~Clones(copy)
  BY <1>2, <1>4, RecordsJudged
<1> QED
  BY <1>3, <1>4

(* and parseRecord()'s, *)
LEMMA RecordsParse ==
  ASSUME RecordsInv, ParseRecord
  PROVE  RecordsInv'
<1> DEFINE c == Clone(doc)
           found == ParseIssues(doc, clock)
<1>1. Tree(c) /\ Copied(c)
  BY CloneTree DEF RecordsInv
<1>2. found = {} => Inspect(c, clock) = {}
  BY DEF ParseIssues
<1>3. found = {} => Sound(AsJson(c), clock)
  BY <1>2, InspectSound
<1>4. Judged("parse", found, c)
  BY DEF ParseRecord
<1> HIDE DEF c, found
<1> QED
  BY <1>1, <1>3, <1>4, RecordsJudged

(* when what is held is encoded or refused, *)
LEMMA RecordsEncode ==
  ASSUME RecordsInv, EncodeRecord
  PROVE  RecordsInv'
<1>1. Checked /\ UNCHANGED <<doc, clock, by, held>>
  BY DEF RecordsInv, EncodeRecord
<1>2. Tree(doc)' /\ clock' \in 0..MaxClock
  BY <1>1 DEF RecordsInv
<1>3. CASE by = "client" /\ Tree(held) /\ Plainly(held) /\ Sound(held, clock)
  <2>1. Encodes(held) /\ Json(held) = held
    BY <1>3, WireSame DEF Sound
  <2>2. stage' = "encoded" /\ wire' = held
    BY <2>1 DEF EncodeRecord
  <2>3. (Tree(wire) /\ Plainly(wire) /\ Sound(wire, clock))'
    BY <1>1, <1>3, <2>2
  <2> QED
    BY <1>1, <1>2, <2>2, <2>3 DEF RecordsInv, RoundTrip
<1>4. CASE by = "parse" /\ Tree(held) /\ Copied(held) /\ Sound(AsJson(held), clock)
  <2>1. CASE Encodes(held)
    <3>1. Tree(AsJson(held)) /\ Plainly(AsJson(held)) /\ Json(held) = AsJson(held)
      BY <1>4, <2>1, CheckedTree, JsonIsChecked DEF Sound
    <3>2. stage' = "encoded" /\ wire' = AsJson(held)
      BY <2>1, <3>1 DEF EncodeRecord
    <3>3. (Tree(wire) /\ Plainly(wire) /\ Sound(wire, clock))'
      BY <1>1, <1>4, <3>1, <3>2
    <3> QED
      BY <1>1, <1>2, <1>4, <3>2, <3>3 DEF RecordsInv, RoundTrip
  <2>2. CASE ~Encodes(held)
    <3>1. {p \in DOMAIN held : IsObject(held[p]) /\ held[p].class # "plain"} = {<<"attribution", "labels">>}
      BY <1>4, <2>2, RefusedLabels
    <3>2. stage' = "refused"
      BY <2>2 DEF EncodeRecord
    <3>3. {p \in DOMAIN held' : IsObject(held'[p]) /\ held'[p].class # "plain"} = {<<"attribution", "labels">>}
      BY <1>1, <3>1
    <3> QED
      BY <1>1, <1>2, <1>4, <3>2, <3>3 DEF RecordsInv, RoundTrip
  <2> QED
    BY <2>1, <2>2
<1> QED
  BY <1>1, <1>3, <1>4 DEF Checked

(* when it is decoded, *)
LEMMA RecordsDecode ==
  ASSUME RecordsInv, DecodeRecord
  PROVE  RecordsInv'
<1>1. Tree(wire) /\ Plainly(wire) /\ Sound(wire, clock)
  BY DEF RecordsInv, DecodeRecord
<1>2. ParseIssues(wire, clock) = {} /\ AsJson(wire) = wire
  BY <1>1, ParseAccepts, WireSame DEF Sound
<1>3. stage' = "decoded" /\ issues' = {} /\ held' = wire /\ UNCHANGED <<doc, clock, wire>>
  BY <1>2 DEF DecodeRecord
<1>4. held' = AsJson(wire')
  BY <1>2, <1>3
<1> QED
  BY <1>3, <1>4 DEF RecordsInv, RoundTrip

(* and when time passes in between. *)
LEMMA RecordsTick ==
  ASSUME RecordsInv, Tick
  PROVE  RecordsInv'
<1>1. /\ clock' \in 0..MaxClock /\ clock <= clock' /\ stage \in {"draft", "encoded"}
      /\ UNCHANGED <<doc, stage, by, issues, held, wire>>
  BY Bounds DEF RecordsInv, Tick
<1>2. stage = "encoded" => Sound(wire, clock')
  BY <1>1, LaterSound DEF RecordsInv
<1>3. stage' = "encoded" => (Tree(wire) /\ Plainly(wire) /\ Sound(wire, clock))'
  BY <1>1, <1>2 DEF RecordsInv
<1> QED
  BY <1>1, <1>3 DEF RecordsInv, RoundTrip

(* Every step of the specification preserves it. *)
LEMMA RecordsStep == RecordsInv /\ [RecordNext]_recordVars => RecordsInv'
<1> SUFFICES ASSUME RecordsInv, [RecordNext]_recordVars PROVE RecordsInv'
  OBVIOUS
<1>1. ASSUME NEW e \in (IF edits = 0 THEN Edits ELSE Pivots), Edit(e) PROVE RecordsInv'
  BY <1>1, Bounds, RecordsEdit
<1>2. ASSUME NEW configured \in BOOLEAN, ClientRecord(configured) PROVE RecordsInv'
  BY <1>2, RecordsClient
<1>3. CASE UNCHANGED recordVars
  BY <1>3 DEF RecordsInv, recordVars, RoundTrip, Checked
<1> QED
  BY <1>1, <1>2, <1>3, RecordsParse, RecordsEncode, RecordsDecode, RecordsTick DEF RecordNext

(* What a client queues has a JSON, which decodeRecord() accepts unchanged however much later;
   a parsed record has one too, unless its labels are no plain object. *)
THEOREM RecordsSurviveTheWire == RecordSpec => []RoundTrip
<1>1. RecordsInv => RoundTrip
  BY DEF RecordsInv
<1> QED
  BY <1>1, RecordsInit, RecordsStep, PTL DEF RecordSpec
-----------------------------------------------------------------------------
(* The generated types against the generated validator.  A value that a type admits keeps to
   the schema of the same property, but for what a type cannot say: bounds and patterns, and
   whether a number is whole and finite. *)
Keeps(t, schema) ==
  \A v : Admits(t, v) =>
    \A k \in Breaks(v, schema) : k # "enum" /\ (k = "type" => v.type = "number")

(* Texts, numbers, words and objects do. *)
LEMMA TextFits ==
  ASSUME NEW schema, "type" \in DOMAIN schema, schema.type = "string", "enum" \notin DOMAIN schema
  PROVE  Keeps(TString, schema)
<1> SUFFICES ASSUME NEW v, Admits(TString, v), NEW k \in Breaks(v, schema)
             PROVE  k # "enum" /\ (k = "type" => v.type = "number")
  BY DEF Keeps
<1>1. v.type = "string"
  BY DEF Admits, TString
<1>2. HasType(v, schema.type)
  BY <1>1 DEF HasType
<1> QED
  BY <1>2 DEF Breaks

(* A number keeps to a schema for a number, but for its bounds. *)
LEMMA NumberFits ==
  ASSUME NEW schema, "type" \in DOMAIN schema, "enum" \notin DOMAIN schema
  PROVE  Keeps(TNumber, schema)
<1> SUFFICES ASSUME NEW v, Admits(TNumber, v), NEW k \in Breaks(v, schema)
             PROVE  k # "enum" /\ (k = "type" => v.type = "number")
  BY DEF Keeps
<1>1. v.type = "number"
  BY DEF Admits, TNumber
<1>2. k # "enum"
  BY DEF Breaks
<1> QED
  BY <1>1, <1>2

(* A word keeps to an enum that has all the words of its type. *)
LEMMA WordsFit ==
  ASSUME NEW words, NEW more, words \subseteq more
  PROVE  Keeps(TWords(words), Enum(more))
<1> SUFFICES ASSUME NEW v, Admits(TWords(words), v), NEW k \in Breaks(v, Enum(more))
             PROVE  FALSE
  BY DEF Keeps
<1>1. v.type = "string" /\ v.text \in more
  BY DEF Admits, TWords
<1> QED
  BY <1>1 DEF Breaks, Enum

(* An object keeps to a schema for an object. *)
LEMMA ObjectFits ==
  ASSUME NEW t, "words" \notin DOMAIN t, t.type = "object",
         NEW schema, "type" \in DOMAIN schema, schema.type = "object", "enum" \notin DOMAIN schema
  PROVE  Keeps(t, schema)
<1> SUFFICES ASSUME NEW v, Admits(t, v), NEW k \in Breaks(v, schema)
             PROVE  k # "enum" /\ (k = "type" => v.type = "number")
  BY DEF Keeps
<1>1. v.type = "object"
  BY DEF Admits
<1>2. HasType(v, schema.type)
  BY <1>1 DEF HasType
<1> QED
  BY <1>2 DEF Breaks

(* So do the texts and numbers that several tables use. *)
LEMMA CommonFits ==
  /\ Keeps(TString, NonEmpty) /\ Keeps(TString, AnyText) /\ Keeps(TString, Identifier)
  /\ Keeps(TString, DateTime) /\ Keeps(TString, Version) /\ Keeps(TString, LabelValues)
  /\ Keeps(TNumber, Count) /\ Keeps(TNumber, Amount)
<1>1. Keeps(TString, NonEmpty)
  BY TextFits DEF NonEmpty
<1>2. Keeps(TString, AnyText)
  BY TextFits DEF AnyText
<1>3. Keeps(TString, Identifier)
  BY TextFits DEF Identifier
<1>4. Keeps(TString, DateTime)
  BY TextFits DEF DateTime
<1>5. Keeps(TString, Version)
  BY TextFits DEF Version
<1>6. Keeps(TString, LabelValues)
  BY TextFits DEF LabelValues
<1>7. Keeps(TNumber, Count)
  BY NumberFits DEF Count
<1>8. Keeps(TNumber, Amount)
  BY NumberFits DEF Amount
<1> QED
  BY <1>1, <1>2, <1>3, <1>4, <1>5, <1>6, <1>7, <1>8

(* A table of types fits a table of schemas that has the same properties. *)
TableFits(types, table) ==
  DOMAIN types = DOMAIN table /\ \A f \in DOMAIN types : Keeps(types[f], table[f])

(* The types of the emitter. *)
LEMMA EmitterFits == TableFits(TEmitter.properties, EmitterSchema.properties)
<1> DEFINE t == TEmitter.properties
           s == EmitterSchema.properties
<1>1. DOMAIN t = DOMAIN s /\ DOMAIN t = {"component", "name", "version"}
  BY DEF TEmitter, Interface, EmitterSchema
<1>2. /\ t["component"] = EmitterComponent /\ t["name"] = TString /\ t["version"] = TString
      /\ s["component"] = Enum({"harness", "router", "provider"}) /\ s["name"] = NonEmpty /\ s["version"] = NonEmpty
  BY DEF TEmitter, Interface, EmitterSchema
<1>3. Keeps(EmitterComponent, Enum({"harness", "router", "provider"}))
  BY WordsFit DEF EmitterComponent
<1> HIDE DEF t, s
<1> QED
  BY <1>1, <1>2, <1>3, CommonFits DEF TableFits, t, s

(* The types of the timing. *)
LEMMA TimingFits == TableFits(TTiming.properties, TimingSchema.properties)
<1> DEFINE t == TTiming.properties
           s == TimingSchema.properties
<1>1. DOMAIN t = DOMAIN s /\ DOMAIN t = {"duration_ms", "event_time", "received_time"}
  BY DEF TTiming, Interface, TimingSchema, TimingTexts
<1>2. /\ t["duration_ms"] = TNumber /\ t["event_time"] = TString /\ t["received_time"] = TString
      /\ s["duration_ms"] = Count /\ s["event_time"] = DateTime /\ s["received_time"] = DateTime
  BY DEF TTiming, Interface, TimingSchema, TimingTexts
<1> HIDE DEF t, s
<1> QED
  BY <1>1, <1>2, CommonFits DEF TableFits, t, s

(* The types of the resource. *)
LEMMA ResourceFits == TableFits(TResource.properties, ResourceSchema.properties)
<1> DEFINE t == TResource.properties
           s == Merge(ResourceNames, ResourceDetails)
<1>1. /\ DOMAIN ResourceNames = {"provider", "type", "name", "namespace"}
      /\ DOMAIN ResourceDetails = {"operation", "modality", "key_name", "region", "deployment"}
      /\ DOMAIN t = {"deployment", "key_name", "modality", "name", "namespace", "operation",
                     "provider", "region", "type"}
  BY DEF TResource, Interface, ResourceNames, ResourceDetails
<1>2. DOMAIN t = DOMAIN s
  BY <1>1 DEF Merge
<1>3. /\ s["provider"] = ResourceNames["provider"] /\ s["type"] = ResourceNames["type"]
      /\ s["name"] = ResourceNames["name"] /\ s["namespace"] = ResourceNames["namespace"]
      /\ s["operation"] = ResourceDetails["operation"] /\ s["modality"] = ResourceDetails["modality"]
      /\ s["key_name"] = ResourceDetails["key_name"] /\ s["region"] = ResourceDetails["region"]
      /\ s["deployment"] = ResourceDetails["deployment"]
  BY <1>1 DEF Merge
<1>4. /\ ResourceNames["provider"] = [type |-> "string", pattern |-> "slug"]
      /\ ResourceNames["type"] = Enum({"model", "tool"})
      /\ ResourceNames["name"] = NonEmpty /\ ResourceNames["namespace"] = NonEmpty
  BY DEF ResourceNames
<1>5. /\ ResourceDetails["operation"] = Enum(ModelOperations \cup ToolOperations)
      /\ ResourceDetails["modality"] = Enum({"text", "image", "audio", "multimodal"})
      /\ ResourceDetails["key_name"] = AnyText /\ ResourceDetails["region"] = AnyText
      /\ ResourceDetails["deployment"] = NonEmpty
  BY DEF ResourceDetails
<1>6. /\ t["deployment"] = TString /\ t["key_name"] = TString /\ t["modality"] = Modality
      /\ t["name"] = TString /\ t["namespace"] = TString /\ t["operation"] = Operation
      /\ t["provider"] = TString /\ t["region"] = TString /\ t["type"] = ResourceType
  BY DEF TResource, Interface
<1>7. Keeps(TString, [type |-> "string", pattern |-> "slug"])
  BY TextFits
<1>8. Keeps(Modality, Enum({"text", "image", "audio", "multimodal"}))
  BY WordsFit DEF Modality
<1>9. Keeps(Operation, Enum(ModelOperations \cup ToolOperations))
  <2>1. {"generation", "embedding", "reranking", "tool_execution", "retrieval"}
          \subseteq ModelOperations \cup ToolOperations
    BY DEF ModelOperations, ToolOperations
  <2> QED
    BY <2>1, WordsFit DEF Operation
<1>10. Keeps(ResourceType, Enum({"model", "tool"}))
  BY WordsFit DEF ResourceType
<1> HIDE DEF t, s
<1>11. \A f \in DOMAIN t : Keeps(t[f], s[f])
  BY <1>1, <1>3, <1>4, <1>5, <1>6, <1>7, <1>8, <1>9, <1>10, CommonFits
<1>12. TResource.properties = t /\ ResourceSchema.properties = s
  BY DEF t, s, ResourceSchema
<1> QED
  BY <1>2, <1>11, <1>12 DEF TableFits

(* The parts of a table fit one by one. *)
PartFits(types, table) == \A f \in DOMAIN table : Keeps(types[f], table[f])

(* Two parts that fit, fit when they are put together. *)
LEMMA MergedFits ==
  ASSUME NEW types, NEW a, NEW b, PartFits(types, a), PartFits(types, b)
  PROVE  PartFits(types, Merge(a, b))
  BY DEF PartFits, Merge

(* A table of which every part fits, fits. *)
LEMMA PartsFit ==
  ASSUME NEW types, NEW table, DOMAIN types = DOMAIN table, PartFits(types, table)
  PROVE  TableFits(types, table)
  BY DEF PartFits, TableFits

(* The types of the run. *)
LEMMA RunFits == TableFits(TRun.properties, RunSchema.properties)
<1> DEFINE t == TRun.properties
           ids == {"run_id", "name", "span_id", "parent_span_id"}
           progress == {"step", "trace_id", "run_type"}
           end == {"error_code", "error_reason", "outcome"}
<1>1. /\ t["error_code"] = TString /\ t["error_reason"] = TString /\ t["name"] = TString
      /\ t["outcome"] = RunOutcome /\ t["parent_span_id"] = TString /\ t["run_id"] = TString
      /\ t["run_type"] = RunType /\ t["span_id"] = TString /\ t["step"] = TNumber
      /\ t["trace_id"] = TString
  BY DEF TRun, Interface
<1>2. DOMAIN t = ids \cup progress \cup end
  BY DEF TRun, Interface
<1>3. DOMAIN RunSpans = ids /\ DOMAIN RunProgress = progress /\ DOMAIN RunEnd = end
  BY DEF RunSpans, RunProgress, RunEnd
<1> HIDE DEF t
<1>4. PartFits(t, RunSpans)
  <2>1. /\ RunSpans["run_id"] = Identifier /\ RunSpans["name"] = NonEmpty
        /\ RunSpans["span_id"] = NonEmpty /\ RunSpans["parent_span_id"] = NonEmpty
    BY DEF RunSpans
  <2> QED
    BY <1>1, <1>3, <2>1, CommonFits DEF PartFits
<1>5. PartFits(t, RunProgress)
  <2>1. /\ RunProgress["step"] = Count /\ RunProgress["trace_id"] = AnyText
        /\ RunProgress["run_type"] = Enum({"agent_run", "workflow", "single_call"})
    BY DEF RunProgress
  <2>2. Keeps(RunType, Enum({"agent_run", "workflow", "single_call"}))
    BY WordsFit DEF RunType
  <2> QED
    BY <1>1, <1>3, <2>1, <2>2, CommonFits DEF PartFits
<1>6. PartFits(t, RunEnd)
  <2>1. /\ RunEnd["error_code"] = NonEmpty /\ RunEnd["error_reason"] = [type |-> "string", maxLength |-> 32]
        /\ RunEnd["outcome"] = Enum({"resolved", "escalated", "abandoned", "failed"})
    BY DEF RunEnd
  <2>2. Keeps(RunOutcome, Enum({"resolved", "escalated", "abandoned", "failed"}))
    BY WordsFit DEF RunOutcome
  <2>3. Keeps(TString, [type |-> "string", maxLength |-> 32])
    BY TextFits
  <2> QED
    BY <1>1, <1>3, <2>1, <2>2, <2>3, CommonFits DEF PartFits
<1>7. DOMAIN Merge(RunSpans, Merge(RunProgress, RunEnd)) = DOMAIN t
  BY <1>2, <1>3 DEF Merge
<1>8. PartFits(t, Merge(RunSpans, Merge(RunProgress, RunEnd)))
  BY <1>4, <1>5, <1>6, MergedFits
<1>9. RunSchema.properties = Merge(RunSpans, Merge(RunProgress, RunEnd))
  BY DEF RunSchema
<1> QED
  BY <1>7, <1>8, <1>9, PartsFit DEF t

(* The types of the attribution. *)
LEMMA AttributionFits == TableFits(TAttribution.properties, AttributionSchema.properties)
<1> DEFINE t == TAttribution.properties
           labels == [labels |-> LabelsSchema]
<1>1. /\ t["account_id"] = TString /\ t["environment"] = Environment /\ t["feature_id"] = TString
      /\ t["subscription_id"] = TString /\ t["user_id"] = TString
      /\ t["labels"] = [type |-> "object", required |-> {}, properties |-> <<>>, others |-> TString]
  BY DEF TAttribution, Interface
<1>2. DOMAIN t = {"account_id", "environment", "feature_id", "labels", "subscription_id", "user_id"}
  BY DEF TAttribution, Interface
<1>3. /\ DOMAIN AttributionIds = {"environment", "user_id", "account_id"}
      /\ DOMAIN AttributionPlan = {"subscription_id", "feature_id"} /\ DOMAIN labels = {"labels"}
  BY DEF AttributionIds, AttributionPlan
<1> HIDE DEF t
<1>4. PartFits(t, AttributionIds)
  <2>1. /\ AttributionIds["user_id"] = AnyText /\ AttributionIds["account_id"] = NonEmpty
        /\ AttributionIds["environment"] = Enum({"production", "staging", "development", "test", "evaluation"})
    BY DEF AttributionIds
  <2>2. Keeps(Environment, Enum({"production", "staging", "development", "test", "evaluation"}))
    BY WordsFit DEF Environment
  <2> QED
    BY <1>1, <1>3, <2>1, <2>2, CommonFits DEF PartFits
<1>5. PartFits(t, AttributionPlan)
  <2>1. AttributionPlan["subscription_id"] = AnyText /\ AttributionPlan["feature_id"] = NonEmpty
    BY DEF AttributionPlan
  <2> QED
    BY <1>1, <1>3, <2>1, CommonFits DEF PartFits
<1>6. PartFits(t, labels)
  <2>1. Keeps(t["labels"], LabelsSchema)
    BY <1>1, ObjectFits DEF LabelsSchema
  <2>2. \A f \in DOMAIN labels : f = "labels" /\ labels[f] = LabelsSchema
    OBVIOUS
  <2> QED
    BY <2>1, <2>2 DEF PartFits
<1>7. DOMAIN Merge(labels, Merge(AttributionIds, AttributionPlan)) = DOMAIN t
  BY <1>2, <1>3 DEF Merge
<1>8. PartFits(t, Merge(labels, Merge(AttributionIds, AttributionPlan)))
  BY <1>4, <1>5, <1>6, MergedFits
<1>9. AttributionSchema.properties = Merge(labels, Merge(AttributionIds, AttributionPlan))
  BY DEF AttributionSchema
<1> QED
  BY <1>7, <1>8, <1>9, PartsFit DEF t

(* The types of the usage of a model. *)
LEMMA LlmUsageFits == TableFits(TLlmUsage.properties, LlmUsageSchema.properties)
<1> DEFINE t == TLlmUsage.properties
           tokens == {"input_tokens", "output_tokens", "cache_read_tokens"}
           more == {"cache_write_tokens", "reasoning_tokens", "requests"}
           media == {"images_processed", "audio_input_seconds", "audio_output_seconds"}
<1>1. DOMAIN t = tokens \cup more \cup media /\ \A f \in DOMAIN t : t[f] = TNumber
  BY DEF TLlmUsage
<1>2. DOMAIN LlmTokens = tokens /\ DOMAIN LlmMoreTokens = more /\ DOMAIN LlmMedia = media
  BY DEF LlmTokens, LlmMoreTokens, LlmMedia
<1>3. /\ \A f \in tokens : LlmTokens[f] = Count
      /\ \A f \in more : LlmMoreTokens[f] = Count
      /\ \A f \in media : LlmMedia[f] \in {Count, Amount}
  BY DEF LlmTokens, LlmMoreTokens, LlmMedia
<1> HIDE DEF t, tokens, more, media
<1>4. PartFits(t, LlmTokens) /\ PartFits(t, LlmMoreTokens) /\ PartFits(t, LlmMedia)
  BY <1>1, <1>2, <1>3, CommonFits DEF PartFits
<1>5. DOMAIN Merge(LlmTokens, Merge(LlmMoreTokens, LlmMedia)) = DOMAIN t
  BY <1>1, <1>2 DEF Merge
<1>6. PartFits(t, Merge(LlmTokens, Merge(LlmMoreTokens, LlmMedia)))
  BY <1>4, MergedFits
<1>7. LlmUsageSchema.properties = Merge(LlmTokens, Merge(LlmMoreTokens, LlmMedia))
  BY DEF LlmUsageSchema
<1> QED
  BY <1>5, <1>6, <1>7, PartsFit DEF t

(* The types of the cost of a model. *)
LEMMA LlmCostFits == TableFits(TLlmCost.properties, LlmCostSchema.properties)
<1> DEFINE t == TLlmCost.properties
           main == {"total_token_cost", "input_token_cost", "output_token_cost"}
           other == {"cache_read_cost", "cache_write_cost", "reasoning_cost"}
<1>1. DOMAIN t = main \cup other /\ \A f \in DOMAIN t : t[f] = TNumber
  BY DEF TLlmCost, Interface
<1>2. DOMAIN LlmInOutCosts = main /\ DOMAIN LlmOtherCosts = other
  BY DEF LlmInOutCosts, LlmOtherCosts
<1>3. (\A f \in main : LlmInOutCosts[f] = Amount) /\ \A f \in other : LlmOtherCosts[f] = Amount
  BY DEF LlmInOutCosts, LlmOtherCosts
<1> HIDE DEF t, main, other
<1>4. PartFits(t, LlmInOutCosts) /\ PartFits(t, LlmOtherCosts)
  BY <1>1, <1>2, <1>3, CommonFits DEF PartFits
<1>5. DOMAIN Merge(LlmInOutCosts, LlmOtherCosts) = DOMAIN t
  BY <1>1, <1>2 DEF Merge
<1>6. PartFits(t, Merge(LlmInOutCosts, LlmOtherCosts))
  BY <1>4, MergedFits
<1>7. LlmCostSchema.properties = Merge(LlmInOutCosts, LlmOtherCosts)
  BY DEF LlmCostSchema
<1> QED
  BY <1>5, <1>6, <1>7, PartsFit DEF t

(* The types of the usage and the cost of a tool. *)
LEMMA ToolFits ==
  /\ TableFits(TToolUsage.properties, ToolUsageSchema.properties)
  /\ TableFits(TToolCost.properties, ToolCostSchema.properties)
<1>1. TableFits(TToolUsage.properties, ToolUsageSchema.properties)
  <2> DEFINE t == TToolUsage.properties
             s == ToolUsageSchema.properties
  <2>1. DOMAIN t = {"call_count", "sandbox_time", "type"} /\ DOMAIN s = DOMAIN t
    BY DEF TToolUsage, ToolUsageSchema, ToolUsages
  <2>2. /\ t["call_count"] = TNumber /\ t["sandbox_time"] = TNumber /\ t["type"] = TString
        /\ s["call_count"] = Count /\ s["sandbox_time"] = Amount /\ s["type"] = NonEmpty
    BY DEF TToolUsage, ToolUsageSchema, ToolUsages
  <2> HIDE DEF t, s
  <2> QED
    BY <2>1, <2>2, CommonFits DEF TableFits, t, s
<1>2. TableFits(TToolCost.properties, ToolCostSchema.properties)
  <2> DEFINE t == TToolCost.properties
             s == ToolCostSchema.properties
  <2>1. DOMAIN t = {"call_cost", "sandbox_cost", "type"} /\ DOMAIN s = DOMAIN t
    BY DEF TToolCost, ToolCostSchema, ToolCosts
  <2>2. /\ t["call_cost"] = TNumber /\ t["sandbox_cost"] = TNumber /\ t["type"] = TString
        /\ s["call_cost"] = Amount /\ s["sandbox_cost"] = Amount /\ s["type"] = NonEmpty
    BY DEF TToolCost, ToolCostSchema, ToolCosts
  <2> HIDE DEF t, s
  <2> QED
    BY <2>1, <2>2, CommonFits DEF TableFits, t, s
<1> QED
  BY <1>1, <1>2

(* The types of the usage. *)
LEMMA UsageFits == TableFits(TUsage.properties, UsageSchema.properties)
<1> DEFINE t == TUsage.properties
           s == UsageSchema.properties
<1>1. DOMAIN t = {"llm", "tool"} /\ DOMAIN s = DOMAIN t
  BY DEF TUsage, Interface, UsageSchema
<1>2. /\ t["llm"] = TLlmUsage /\ t["tool"] = TToolUsage
      /\ s["llm"] = LlmUsageSchema /\ s["tool"] = ToolUsageSchema
  BY DEF TUsage, Interface, UsageSchema
<1>3. Keeps(TLlmUsage, LlmUsageSchema)
  BY ObjectFits DEF TLlmUsage, LlmUsageSchema
<1>4. Keeps(TToolUsage, ToolUsageSchema)
  BY ObjectFits DEF TToolUsage, ToolUsageSchema
<1> HIDE DEF t, s
<1> QED
  BY <1>1, <1>2, <1>3, <1>4 DEF TableFits, t, s

(* The types of the cost. *)
LEMMA CostFits == TableFits(TCost.properties, CostSchema.properties)
<1> DEFINE t == TCost.properties
           objects == [llm |-> LlmCostSchema, tool |-> ToolCostSchema]
<1>1. /\ t["currency"] = TString /\ t["discount_amount"] = TNumber /\ t["discount_percent"] = TNumber
      /\ t["llm"] = TLlmCost /\ t["original_cost"] = TNumber /\ t["tool"] = TToolCost
      /\ t["total_cost"] = TNumber
  BY DEF TCost, Interface
<1>2. DOMAIN t = {"currency", "discount_amount", "discount_percent", "llm", "original_cost", "tool", "total_cost"}
  BY DEF TCost, Interface
<1>3. /\ DOMAIN CostTotals = {"total_cost", "currency"} /\ DOMAIN objects = {"llm", "tool"}
      /\ DOMAIN Discounts = {"original_cost", "discount_amount", "discount_percent"}
  BY DEF CostTotals, Discounts
<1> HIDE DEF t
<1>4. PartFits(t, CostTotals)
  <2>1. CostTotals["total_cost"] = Amount /\ CostTotals["currency"] = [type |-> "string", pattern |-> "currency"]
    BY DEF CostTotals
  <2>2. Keeps(TString, [type |-> "string", pattern |-> "currency"])
    BY TextFits
  <2> QED
    BY <1>1, <1>3, <2>1, <2>2, CommonFits DEF PartFits
<1>5. PartFits(t, Discounts)
  <2>1. /\ Discounts["original_cost"] = Amount /\ Discounts["discount_amount"] = Amount
        /\ Discounts["discount_percent"] = [type |-> "number", minimum |-> 0, maximum |-> 100]
    BY DEF Discounts
  <2>2. Keeps(TNumber, [type |-> "number", minimum |-> 0, maximum |-> 100])
    BY NumberFits
  <2> QED
    BY <1>1, <1>3, <2>1, <2>2, CommonFits DEF PartFits
<1>6. PartFits(t, objects)
  <2>1. Keeps(TLlmCost, LlmCostSchema)
    BY ObjectFits DEF TLlmCost, Interface, LlmCostSchema
  <2>2. Keeps(TToolCost, ToolCostSchema)
    BY ObjectFits DEF TToolCost, ToolCostSchema
  <2>3. objects["llm"] = LlmCostSchema /\ objects["tool"] = ToolCostSchema
    OBVIOUS
  <2> HIDE DEF objects
  <2> QED
    BY <1>1, <1>3, <2>1, <2>2, <2>3 DEF PartFits
<1> HIDE DEF objects
<1>7. DOMAIN Merge(CostTotals, Merge(Discounts, objects)) = DOMAIN t
  BY <1>2, <1>3 DEF Merge
<1>8. PartFits(t, Merge(CostTotals, Merge(Discounts, objects)))
  BY <1>4, <1>5, <1>6, MergedFits
<1>9. CostSchema.properties = Merge(CostTotals, Merge(Discounts, objects))
  BY DEF CostSchema, objects
<1> QED
  BY <1>7, <1>8, <1>9, PartsFit DEF t

(* The types of the record. *)
LEMMA RootFits == TableFits(TRecord.properties, RootSchema.properties)
<1> DEFINE t == TRecord.properties
           s == RootSchema.properties
<1>1. /\ DOMAIN t = {"attribution", "corrects", "cost", "emitter", "record_id", "resource", "run",
                     "spec_version", "timing", "usage"}
      /\ DOMAIN s = DOMAIN t
  BY DEF TRecord, Interface, RootSchema
<1>2. /\ t["attribution"] = TAttribution /\ t["corrects"] = TString /\ t["cost"] = TCost
      /\ t["emitter"] = TEmitter /\ t["record_id"] = TString /\ t["resource"] = TResource
      /\ t["run"] = TRun /\ t["spec_version"] = TString /\ t["timing"] = TTiming
      /\ t["usage"] = TUsage
  BY DEF TRecord, Interface
<1>3. /\ s["attribution"] = AttributionSchema /\ s["corrects"] = Identifier /\ s["cost"] = CostSchema
      /\ s["emitter"] = EmitterSchema /\ s["record_id"] = Identifier /\ s["resource"] = ResourceSchema
      /\ s["run"] = RunSchema /\ s["spec_version"] = Version /\ s["timing"] = TimingSchema
      /\ s["usage"] = UsageSchema
  BY DEF RootSchema
<1>4. Keeps(TAttribution, AttributionSchema)
  BY ObjectFits DEF TAttribution, Interface, AttributionSchema
<1>5. Keeps(TCost, CostSchema)
  BY ObjectFits DEF TCost, Interface, CostSchema
<1>6. Keeps(TEmitter, EmitterSchema)
  BY ObjectFits DEF TEmitter, Interface, EmitterSchema
<1>7. Keeps(TResource, ResourceSchema)
  BY ObjectFits DEF TResource, Interface, ResourceSchema
<1>8. Keeps(TRun, RunSchema)
  BY ObjectFits DEF TRun, Interface, RunSchema
<1>9. Keeps(TTiming, TimingSchema)
  BY ObjectFits DEF TTiming, Interface, TimingSchema
<1>10. Keeps(TUsage, UsageSchema)
  BY ObjectFits DEF TUsage, Interface, UsageSchema
<1> HIDE DEF t, s
<1> QED
  BY <1>1, <1>2, <1>3, <1>4, <1>5, <1>6, <1>7, <1>8, <1>9, <1>10, CommonFits DEF TableFits, t, s

-----------------------------------------------------------------------------
(* The types, one for each object. *)
LabelsType == [type |-> "object", required |-> {}, properties |-> <<>>, others |-> TString]

(* Every object that has a type, one by one. *)
LEMMA TypedObjectsAre ==
  TypedObjects =
    {<<<<>>, TRecord>>, <<<<"emitter">>, TEmitter>>, <<<<"timing">>, TTiming>>,
     <<<<"resource">>, TResource>>, <<<<"run">>, TRun>>, <<<<"attribution">>, TAttribution>>,
     <<<<"usage">>, TUsage>>, <<<<"cost">>, TCost>>, <<<<"attribution", "labels">>, LabelsType>>,
     <<<<"usage", "llm">>, TLlmUsage>>, <<<<"usage", "tool">>, TToolUsage>>,
     <<<<"cost", "llm">>, TLlmCost>>, <<<<"cost", "tool">>, TToolCost>>}
<1> DEFINE root == TRecord.properties
<1>1. /\ root["emitter"] = TEmitter /\ root["timing"] = TTiming /\ root["resource"] = TResource
      /\ root["run"] = TRun /\ root["attribution"] = TAttribution /\ root["usage"] = TUsage
      /\ root["cost"] = TCost
  BY DEF TRecord, Interface
<1>2. TUsage.properties["llm"] = TLlmUsage /\ TUsage.properties["tool"] = TToolUsage
  BY DEF TUsage, Interface
<1>3. TCost.properties["llm"] = TLlmCost /\ TCost.properties["tool"] = TToolCost
  BY DEF TCost, Interface
<1>4. TAttribution.properties.labels = LabelsType
  BY DEF TAttribution, Interface, LabelsType
<1> HIDE DEF root
<1>5. {<<<<f>>, root[f]>> : f \in {"emitter", "timing", "resource", "run", "attribution", "usage", "cost"}} =
        {<<<<"emitter">>, TEmitter>>, <<<<"timing">>, TTiming>>, <<<<"resource">>, TResource>>,
         <<<<"run">>, TRun>>, <<<<"attribution">>, TAttribution>>, <<<<"usage">>, TUsage>>,
         <<<<"cost">>, TCost>>}
  BY <1>1
<1>6. {<<<<"usage", f>>, TUsage.properties[f]>> : f \in {"llm", "tool"}} =
        {<<<<"usage", "llm">>, TLlmUsage>>, <<<<"usage", "tool">>, TToolUsage>>}
  BY <1>2
<1>7. {<<<<"cost", f>>, TCost.properties[f]>> : f \in {"llm", "tool"}} =
        {<<<<"cost", "llm">>, TLlmCost>>, <<<<"cost", "tool">>, TToolCost>>}
  BY <1>3
<1> QED
  BY <1>4, <1>5, <1>6, <1>7 DEF TypedObjects, root

(* A type goes with the schema of the same object: the same properties, the same allowance
   for others, and nothing required that the type does not require, but for the emitter. *)
Matches(p, t, schema) ==
  /\ TableFits(t.properties, schema.properties)
  /\ ("others" \in DOMAIN t) <=> ("otherProperties" \in DOMAIN schema)
  /\ "others" \in DOMAIN t => t.others = TString /\ Keeps(t.others, schema.otherProperties)
  /\ ("extension" \in DOMAIN t) <=> ("extensions" \in DOMAIN schema)
  /\ "extension" \in DOMAIN t => Keeps(t.extension, schema.extensions)
  /\ "required" \in DOMAIN schema =>
       \A f \in schema.required : f \in t.required \/ (p = <<>> /\ f = "emitter")

(* Labels is the one object whose property names are the caller's. *)
Unlabelled(p) == \A k \in DOMAIN p : p[k] # "labels"

(* An interface without an index signature. *)
LEMMA InterfaceMatches ==
  ASSUME NEW p, NEW t, NEW schema, TableFits(t.properties, schema.properties),
         {"others", "extension"} \cap DOMAIN t = {},
         {"otherProperties", "extensions"} \cap DOMAIN schema = {},
         schema.required \subseteq t.required
  PROVE  Matches(p, t, schema)
  BY DEF Matches

(* An interface that allows extensions. *)
LEMMA ExtensibleMatches ==
  ASSUME NEW p, NEW t, NEW schema, TableFits(t.properties, schema.properties),
         "others" \notin DOMAIN t, "otherProperties" \notin DOMAIN schema,
         "extension" \in DOMAIN t, t.extension = TNumber,
         "extensions" \in DOMAIN schema, schema.extensions = Amount, schema.required = {}
  PROVE  Matches(p, t, schema)
  BY CommonFits DEF Matches

(* Every type goes with its schema. *)
LEMMA TypesMatch ==
  /\ Matches(<<>>, TRecord, RootSchema)
  /\ Matches(<<"emitter">>, TEmitter, EmitterSchema)
  /\ Matches(<<"timing">>, TTiming, TimingSchema)
  /\ Matches(<<"resource">>, TResource, ResourceSchema)
  /\ Matches(<<"run">>, TRun, RunSchema)
  /\ Matches(<<"attribution">>, TAttribution, AttributionSchema)
  /\ Matches(<<"usage">>, TUsage, UsageSchema)
  /\ Matches(<<"cost">>, TCost, CostSchema)
  /\ Matches(<<"attribution", "labels">>, LabelsType, LabelsSchema)
  /\ Matches(<<"usage", "llm">>, TLlmUsage, LlmUsageSchema)
  /\ Matches(<<"usage", "tool">>, TToolUsage, ToolUsageSchema)
  /\ Matches(<<"cost", "llm">>, TLlmCost, LlmCostSchema)
  /\ Matches(<<"cost", "tool">>, TToolCost, ToolCostSchema)
<1>1. Matches(<<>>, TRecord, RootSchema)
  <2>1. DOMAIN TRecord = {"type", "required", "properties"}
    BY DEF TRecord, Interface
  <2>2. DOMAIN RootSchema = {"type", "additionalProperties", "required", "properties"}
    BY DEF RootSchema
  <2>3. RootSchema.required \ {"emitter"} \subseteq TRecord.required
    BY DEF RootSchema, TRecord, Interface
  <2> QED
    BY <2>1, <2>2, <2>3, RootFits DEF Matches
<1>2. Matches(<<"emitter">>, TEmitter, EmitterSchema)
  <2>1. {"others", "extension"} \cap DOMAIN TEmitter = {}
    BY DEF TEmitter, Interface
  <2>2. {"otherProperties", "extensions"} \cap DOMAIN EmitterSchema = {}
    BY DEF EmitterSchema
  <2>3. EmitterSchema.required \subseteq TEmitter.required
    BY DEF EmitterSchema, TEmitter, Interface
  <2> QED
    BY <2>1, <2>2, <2>3, EmitterFits, InterfaceMatches
<1>3. Matches(<<"timing">>, TTiming, TimingSchema)
  <2>1. {"others", "extension"} \cap DOMAIN TTiming = {}
    BY DEF TTiming, Interface
  <2>2. {"otherProperties", "extensions"} \cap DOMAIN TimingSchema = {}
    BY DEF TimingSchema
  <2>3. TimingSchema.required \subseteq TTiming.required
    BY DEF TimingSchema, TTiming, Interface
  <2> QED
    BY <2>1, <2>2, <2>3, TimingFits, InterfaceMatches
<1>4. Matches(<<"resource">>, TResource, ResourceSchema)
  <2>1. {"others", "extension"} \cap DOMAIN TResource = {}
    BY DEF TResource, Interface
  <2>2. {"otherProperties", "extensions"} \cap DOMAIN ResourceSchema = {}
    BY DEF ResourceSchema
  <2>3. ResourceSchema.required \subseteq TResource.required
    BY DEF ResourceSchema, TResource, Interface
  <2> QED
    BY <2>1, <2>2, <2>3, ResourceFits, InterfaceMatches
<1>5. Matches(<<"run">>, TRun, RunSchema)
  <2>1. {"others", "extension"} \cap DOMAIN TRun = {}
    BY DEF TRun, Interface
  <2>2. {"otherProperties", "extensions"} \cap DOMAIN RunSchema = {}
    BY DEF RunSchema
  <2>3. RunSchema.required \subseteq TRun.required
    BY DEF RunSchema, TRun, Interface
  <2> QED
    BY <2>1, <2>2, <2>3, RunFits, InterfaceMatches
<1>6. Matches(<<"attribution">>, TAttribution, AttributionSchema)
  <2>1. {"others", "extension"} \cap DOMAIN TAttribution = {}
    BY DEF TAttribution, Interface
  <2>2. {"otherProperties", "extensions"} \cap DOMAIN AttributionSchema = {}
    BY DEF AttributionSchema
  <2>3. AttributionSchema.required \subseteq TAttribution.required
    BY DEF AttributionSchema
  <2> QED
    BY <2>1, <2>2, <2>3, AttributionFits, InterfaceMatches
<1>7. Matches(<<"usage">>, TUsage, UsageSchema)
  <2>1. {"others", "extension"} \cap DOMAIN TUsage = {}
    BY DEF TUsage, Interface
  <2>2. {"otherProperties", "extensions"} \cap DOMAIN UsageSchema = {}
    BY DEF UsageSchema
  <2>3. UsageSchema.required \subseteq TUsage.required
    BY DEF UsageSchema
  <2> QED
    BY <2>1, <2>2, <2>3, UsageFits, InterfaceMatches
<1>8. Matches(<<"cost">>, TCost, CostSchema)
  <2>1. {"others", "extension"} \cap DOMAIN TCost = {}
    BY DEF TCost, Interface
  <2>2. {"otherProperties", "extensions"} \cap DOMAIN CostSchema = {}
    BY DEF CostSchema
  <2>3. CostSchema.required \subseteq TCost.required
    BY DEF CostSchema, TCost, Interface
  <2> QED
    BY <2>1, <2>2, <2>3, CostFits, InterfaceMatches
<1>9. Matches(<<"attribution", "labels">>, LabelsType, LabelsSchema)
  <2>1. /\ "others" \in DOMAIN LabelsType /\ LabelsType.others = TString
        /\ "extension" \notin DOMAIN LabelsType /\ LabelsType.properties = <<>>
    BY DEF LabelsType
  <2>2. /\ "otherProperties" \in DOMAIN LabelsSchema /\ LabelsSchema.otherProperties = LabelValues
        /\ {"extensions", "required"} \cap DOMAIN LabelsSchema = {} /\ LabelsSchema.properties = <<>>
    BY DEF LabelsSchema
  <2>3. TableFits(LabelsType.properties, LabelsSchema.properties)
    BY <2>1, <2>2 DEF TableFits
  <2> QED
    BY <2>1, <2>2, <2>3, CommonFits DEF Matches
<1>10. Matches(<<"usage", "llm">>, TLlmUsage, LlmUsageSchema)
  <2>1. "others" \notin DOMAIN TLlmUsage /\ "extension" \in DOMAIN TLlmUsage /\ TLlmUsage.extension = TNumber
    BY DEF TLlmUsage
  <2>2. /\ "otherProperties" \notin DOMAIN LlmUsageSchema /\ "extensions" \in DOMAIN LlmUsageSchema
        /\ LlmUsageSchema.extensions = Amount /\ LlmUsageSchema.required = {}
    BY DEF LlmUsageSchema
  <2> QED
    BY <2>1, <2>2, LlmUsageFits, ExtensibleMatches
<1>11. Matches(<<"usage", "tool">>, TToolUsage, ToolUsageSchema)
  <2>1. "others" \notin DOMAIN TToolUsage /\ "extension" \in DOMAIN TToolUsage /\ TToolUsage.extension = TNumber
    BY DEF TToolUsage
  <2>2. /\ "otherProperties" \notin DOMAIN ToolUsageSchema /\ "extensions" \in DOMAIN ToolUsageSchema
        /\ ToolUsageSchema.extensions = Amount /\ ToolUsageSchema.required = {}
    BY DEF ToolUsageSchema
  <2> QED
    BY <2>1, <2>2, ToolFits, ExtensibleMatches
<1>12. Matches(<<"cost", "llm">>, TLlmCost, LlmCostSchema)
  <2>1. {"others", "extension"} \cap DOMAIN TLlmCost = {}
    BY DEF TLlmCost, Interface
  <2>2. {"otherProperties", "extensions"} \cap DOMAIN LlmCostSchema = {}
    BY DEF LlmCostSchema
  <2>3. LlmCostSchema.required \subseteq TLlmCost.required
    BY DEF LlmCostSchema, TLlmCost, Interface
  <2> QED
    BY <2>1, <2>2, <2>3, LlmCostFits, InterfaceMatches
<1>13. Matches(<<"cost", "tool">>, TToolCost, ToolCostSchema)
  <2>1. "others" \notin DOMAIN TToolCost /\ "extension" \in DOMAIN TToolCost /\ TToolCost.extension = TNumber
    BY DEF TToolCost
  <2>2. /\ "otherProperties" \notin DOMAIN ToolCostSchema /\ "extensions" \in DOMAIN ToolCostSchema
        /\ ToolCostSchema.extensions = Amount /\ ToolCostSchema.required = {}
    BY DEF ToolCostSchema
  <2> QED
    BY <2>1, <2>2, ToolFits, ExtensibleMatches
<1> QED
  BY <1>1, <1>2, <1>3, <1>4, <1>5, <1>6, <1>7, <1>8, <1>9, <1>10, <1>11, <1>12, <1>13

(* Every object that has a schema has a type that goes with it. *)
LEMMA TypeOfObject ==
  ASSUME NEW p, NEW schema, <<p, schema>> \in ObjectSchemas
  PROVE  \E t : /\ <<p, t>> \in TypedObjects /\ Matches(p, t, schema)
                /\ (t = LabelsType \/ Unlabelled(p))
<1>1. \/ <<p, schema>> = <<<<>>, RootSchema>> \/ <<p, schema>> = <<<<"emitter">>, EmitterSchema>>
      \/ <<p, schema>> = <<<<"timing">>, TimingSchema>> \/ <<p, schema>> = <<<<"resource">>, ResourceSchema>>
      \/ <<p, schema>> = <<<<"run">>, RunSchema>> \/ <<p, schema>> = <<<<"attribution">>, AttributionSchema>>
      \/ <<p, schema>> = <<<<"usage">>, UsageSchema>> \/ <<p, schema>> = <<<<"cost">>, CostSchema>>
      \/ <<p, schema>> = <<<<"attribution", "labels">>, LabelsSchema>>
      \/ <<p, schema>> = <<<<"usage", "llm">>, LlmUsageSchema>>
      \/ <<p, schema>> = <<<<"usage", "tool">>, ToolUsageSchema>>
      \/ <<p, schema>> = <<<<"cost", "llm">>, LlmCostSchema>>
      \/ <<p, schema>> = <<<<"cost", "tool">>, ToolCostSchema>>
  BY ObjectSchemasAre
<1>2. /\ Unlabelled(<<>>) /\ Unlabelled(<<"emitter">>) /\ Unlabelled(<<"timing">>)
      /\ Unlabelled(<<"resource">>) /\ Unlabelled(<<"run">>) /\ Unlabelled(<<"attribution">>)
      /\ Unlabelled(<<"usage">>) /\ Unlabelled(<<"cost">>) /\ Unlabelled(<<"usage", "llm">>)
      /\ Unlabelled(<<"usage", "tool">>) /\ Unlabelled(<<"cost", "llm">>)
      /\ Unlabelled(<<"cost", "tool">>)
  BY DEF Unlabelled
<1> QED
  BY <1>1, <1>2, TypedObjectsAre, TypesMatch

-----------------------------------------------------------------------------
(* What a type admits is a text, a number, or an object that has a type of its own. *)
Flat(t) == \A v : Admits(t, v) => v.type \in {"string", "number"}

FlatTable(types) == \A f \in DOMAIN types : Flat(types[f])

(* Texts, numbers and words are flat. *)
LEMMA FlatTypes == Flat(TString) /\ Flat(TNumber) /\ \A words : Flat(TWords(words))
<1>1. Flat(TString)
  BY DEF Flat, Admits, TString
<1>2. Flat(TNumber)
  BY DEF Flat, Admits, TNumber
<1>3. \A words : Flat(TWords(words))
  BY DEF Flat, Admits, TWords
<1> QED
  BY <1>1, <1>2, <1>3

Leads(p, t) ==
  \A name : Declared(t, name) =>
    LET child == TypeBelow(t, name)
    IN \/ Flat(child)
       \/ /\ "words" \notin DOMAIN child /\ child.type = "object"
          /\ \E u : <<Append(p, name), u>> \in TypedObjects

(* A table of flat types leads to no object. *)
LEMMA FlatLeads ==
  ASSUME NEW p, NEW t, FlatTable(t.properties), "others" \in DOMAIN t => t.others = TString,
         "extension" \in DOMAIN t => t.extension = TNumber
  PROVE  Leads(p, t)
  BY FlatTypes DEF Leads, Declared, TypeBelow, FlatTable

(* The tables without an object. *)
LEMMA FlatTables ==
  /\ FlatTable(TEmitter.properties) /\ FlatTable(TTiming.properties)
  /\ FlatTable(TResource.properties) /\ FlatTable(TRun.properties)
  /\ FlatTable(TLlmUsage.properties) /\ FlatTable(TToolUsage.properties)
  /\ FlatTable(TLlmCost.properties) /\ FlatTable(TToolCost.properties)
<1>1. FlatTable(TEmitter.properties)
  BY FlatTypes DEF FlatTable, TEmitter, Interface, EmitterComponent
<1>2. FlatTable(TTiming.properties)
  BY FlatTypes DEF FlatTable, TTiming, Interface
<1>3. FlatTable(TResource.properties)
  BY FlatTypes DEF FlatTable, TResource, Interface, Modality, Operation, ResourceType
<1>4. FlatTable(TRun.properties)
  BY FlatTypes DEF FlatTable, TRun, Interface, RunOutcome, RunType
<1>5. FlatTable(TLlmUsage.properties)
  BY FlatTypes DEF FlatTable, TLlmUsage
<1>6. FlatTable(TToolUsage.properties)
  BY FlatTypes DEF FlatTable, TToolUsage
<1>7. FlatTable(TLlmCost.properties)
  BY FlatTypes DEF FlatTable, TLlmCost, Interface
<1>8. FlatTable(TToolCost.properties)
  BY FlatTypes DEF FlatTable, TToolCost
<1> QED
  BY <1>1, <1>2, <1>3, <1>4, <1>5, <1>6, <1>7, <1>8

(* An object that is no leaf of the record. *)
HoldsTyped(p, t, f) ==
  /\ "words" \notin DOMAIN t.properties[f] /\ t.properties[f].type = "object"
  /\ \E u : <<Append(p, f), u>> \in TypedObjects

(* A table of which each property is flat or an object with a type. *)
LEMMA InterfaceLeads ==
  ASSUME NEW p, NEW t, {"others", "extension"} \cap DOMAIN t = {},
         \A f \in DOMAIN t.properties : Flat(t.properties[f]) \/ HoldsTyped(p, t, f)
  PROVE  Leads(p, t)
<1> SUFFICES ASSUME NEW name, Declared(t, name)
             PROVE  LET child == TypeBelow(t, name)
                    IN \/ Flat(child)
                       \/ /\ "words" \notin DOMAIN child /\ child.type = "object"
                          /\ \E u : <<Append(p, name), u>> \in TypedObjects
  BY DEF Leads
<1>1. name \in DOMAIN t.properties /\ TypeBelow(t, name) = t.properties[name]
  BY DEF Declared, TypeBelow
<1> QED
  BY <1>1 DEF HoldsTyped

(* Every property of every type is flat, or an object that has a type. *)
LEMMA TypesLead ==
  ASSUME NEW p, NEW t, <<p, t>> \in TypedObjects
  PROVE  Leads(p, t)
<1>1. Leads(<<>>, TRecord)
  <2> DEFINE s == TRecord.properties
             objects == {"emitter", "timing", "resource", "run", "attribution", "usage", "cost"}
  <2>1. {"others", "extension"} \cap DOMAIN TRecord = {}
    BY DEF TRecord, Interface
  <2>2. DOMAIN s = objects \cup {"corrects", "record_id", "spec_version"}
    BY DEF TRecord, Interface
  <2>3. s["corrects"] = TString /\ s["record_id"] = TString /\ s["spec_version"] = TString
    BY DEF TRecord, Interface
  <2>4. \A f \in objects : "words" \notin DOMAIN s[f] /\ s[f].type = "object"
    <3>1. /\ s["emitter"] = TEmitter /\ s["timing"] = TTiming /\ s["resource"] = TResource
          /\ s["run"] = TRun /\ s["attribution"] = TAttribution /\ s["usage"] = TUsage
          /\ s["cost"] = TCost
      BY DEF TRecord, Interface
    <3>2. \A a, b : "words" \notin DOMAIN Interface(a, b) /\ Interface(a, b).type = "object"
      BY DEF Interface
    <3> HIDE DEF s
    <3> QED
      BY <3>1, <3>2 DEF TEmitter, TTiming, TResource, TRun, TAttribution, TUsage, TCost
  <2>5. \A f \in objects : \E u : <<Append(<<>>, f), u>> \in TypedObjects
    <3>1. \A f \in objects : \E u : <<<<f>>, u>> \in TypedObjects
      BY TypedObjectsAre
    <3> QED
      BY <3>1, Appended
  <2>6. \A f \in objects : HoldsTyped(<<>>, TRecord, f)
    BY <2>4, <2>5 DEF HoldsTyped
  <2> HIDE DEF objects
  <2>7. \A f \in DOMAIN s : Flat(s[f]) \/ HoldsTyped(<<>>, TRecord, f)
    BY <2>2, <2>3, <2>6, FlatTypes
  <2> QED
    BY <2>1, <2>7, InterfaceLeads
<1>2. Leads(<<"usage">>, TUsage)
  <2>1. {"others", "extension"} \cap DOMAIN TUsage = {} /\ DOMAIN TUsage.properties = {"llm", "tool"}
    BY DEF TUsage, Interface
  <2>2. \A f \in {"llm", "tool"} : "words" \notin DOMAIN TUsage.properties[f] /\ TUsage.properties[f].type = "object"
    BY DEF TUsage, Interface, TLlmUsage, TToolUsage
  <2>3. \A f \in {"llm", "tool"} : \E u : <<Append(<<"usage">>, f), u>> \in TypedObjects
    <3>1. \A f \in {"llm", "tool"} : \E u : <<<<"usage", f>>, u>> \in TypedObjects
      BY TypedObjectsAre
    <3> QED
      BY <3>1, Appended
  <2>4. \A f \in DOMAIN TUsage.properties : HoldsTyped(<<"usage">>, TUsage, f)
    BY <2>1, <2>2, <2>3 DEF HoldsTyped
  <2> QED
    BY <2>1, <2>4, InterfaceLeads
<1>3. Leads(<<"cost">>, TCost)
  <2> DEFINE s == TCost.properties
  <2>1. /\ {"others", "extension"} \cap DOMAIN TCost = {}
        /\ DOMAIN s = {"currency", "discount_amount", "discount_percent", "llm", "original_cost", "tool",
                       "total_cost"}
    BY DEF TCost, Interface
  <2>2. /\ s["currency"] = TString /\ s["discount_amount"] = TNumber /\ s["discount_percent"] = TNumber
        /\ s["original_cost"] = TNumber /\ s["total_cost"] = TNumber
        /\ s["llm"] = TLlmCost /\ s["tool"] = TToolCost
    BY DEF TCost, Interface
  <2>3. \A f \in {"llm", "tool"} : "words" \notin DOMAIN s[f] /\ s[f].type = "object"
    BY DEF TCost, Interface, TLlmCost, TToolCost
  <2>4. \A f \in {"llm", "tool"} : \E u : <<Append(<<"cost">>, f), u>> \in TypedObjects
    <3>1. \A f \in {"llm", "tool"} : \E u : <<<<"cost", f>>, u>> \in TypedObjects
      BY TypedObjectsAre
    <3> QED
      BY <3>1, Appended
  <2>5. \A f \in {"llm", "tool"} : HoldsTyped(<<"cost">>, TCost, f)
    BY <2>3, <2>4 DEF HoldsTyped
  <2>6. \A f \in DOMAIN s : Flat(s[f]) \/ HoldsTyped(<<"cost">>, TCost, f)
    BY <2>1, <2>2, <2>5, FlatTypes
  <2> QED
    BY <2>1, <2>6, InterfaceLeads
<1>4. Leads(<<"attribution">>, TAttribution)
  <2> DEFINE s == TAttribution.properties
  <2>1. /\ {"others", "extension"} \cap DOMAIN TAttribution = {}
        /\ DOMAIN s = {"account_id", "environment", "feature_id", "labels", "subscription_id", "user_id"}
    BY DEF TAttribution, Interface
  <2>2. /\ s["account_id"] = TString /\ s["environment"] = Environment /\ s["feature_id"] = TString
        /\ s["subscription_id"] = TString /\ s["user_id"] = TString /\ s["labels"] = LabelsType
    BY DEF TAttribution, Interface, LabelsType
  <2>3. "words" \notin DOMAIN LabelsType /\ LabelsType.type = "object"
    BY DEF LabelsType
  <2>4. \E u : <<Append(<<"attribution">>, "labels"), u>> \in TypedObjects
    BY TypedObjectsAre, Appended
  <2>5. HoldsTyped(<<"attribution">>, TAttribution, "labels")
    BY <2>2, <2>3, <2>4 DEF HoldsTyped
  <2>6. Flat(Environment)
    BY FlatTypes DEF Environment
  <2> HIDE DEF s
  <2>7. \A f \in DOMAIN s : Flat(s[f]) \/ HoldsTyped(<<"attribution">>, TAttribution, f)
    BY <2>1, <2>2, <2>5, <2>6, FlatTypes
  <2> QED
    BY <2>1, <2>7, InterfaceLeads DEF s
<1>5. /\ Leads(<<"emitter">>, TEmitter) /\ Leads(<<"timing">>, TTiming)
      /\ Leads(<<"resource">>, TResource) /\ Leads(<<"run">>, TRun)
      /\ Leads(<<"cost", "llm">>, TLlmCost)
  <2>1. \A a, b : {"others", "extension"} \cap DOMAIN Interface(a, b) = {}
    BY DEF Interface
  <2>2. /\ {"others", "extension"} \cap DOMAIN TEmitter = {} /\ {"others", "extension"} \cap DOMAIN TTiming = {}
        /\ {"others", "extension"} \cap DOMAIN TResource = {} /\ {"others", "extension"} \cap DOMAIN TRun = {}
        /\ {"others", "extension"} \cap DOMAIN TLlmCost = {}
    BY <2>1 DEF TEmitter, TTiming, TResource, TRun, TLlmCost
  <2> QED
    BY <2>2, FlatTables, FlatLeads
<1>6. /\ Leads(<<"usage", "llm">>, TLlmUsage) /\ Leads(<<"usage", "tool">>, TToolUsage)
      /\ Leads(<<"cost", "tool">>, TToolCost)
  <2>1. /\ "others" \notin DOMAIN TLlmUsage /\ TLlmUsage.extension = TNumber
        /\ "others" \notin DOMAIN TToolUsage /\ TToolUsage.extension = TNumber
        /\ "others" \notin DOMAIN TToolCost /\ TToolCost.extension = TNumber
    BY DEF TLlmUsage, TToolUsage, TToolCost
  <2> QED
    BY <2>1, FlatTables, FlatLeads
<1>7. Leads(<<"attribution", "labels">>, LabelsType)
  <2>1. LabelsType.properties = <<>> /\ LabelsType.others = TString /\ "extension" \notin DOMAIN LabelsType
    BY DEF LabelsType
  <2>2. FlatTable(LabelsType.properties)
    BY <2>1 DEF FlatTable
  <2> QED
    BY <2>1, <2>2, FlatLeads
<1> QED
  BY <1>1, <1>2, <1>3, <1>4, <1>5, <1>6, <1>7, TypedObjectsAre

-----------------------------------------------------------------------------
(* An object that compiles: its objects are plain, and each has a type; its other values are
   texts, numbers or undefined. *)
Typed(d, p) ==
  /\ d[p] = Undefined \/ d[p].type \in {"string", "number", "object"}
  /\ IsObject(d[p]) => d[p].class = "plain" /\ \E t : <<p, t>> \in TypedObjects

(* What compiling says of one object. *)
LEMMA WellTypedAt ==
  ASSUME NEW d, WellTyped(d), NEW p, NEW t, <<p, t>> \in TypedObjects, p \in DOMAIN d, d[p] # Undefined
  PROVE  /\ IsObject(d[p])
         /\ \A f \in t.required : ~Missing(d, Append(p, f))
         /\ \A q \in Below(d, p) :
              /\ Declared(t, Last(q))
              /\ \/ Admits(TypeBelow(t, Last(q)), d[q])
                 \/ d[q] = Undefined /\ Last(q) \notin t.required /\ "others" \notin DOMAIN t
<1> DEFINE entry == <<p, t>>
<1>1. entry[1] = p /\ entry[2] = t /\ entry \in TypedObjects
  OBVIOUS
<1> HIDE DEF entry
<1> QED
  BY <1>1 DEF WellTyped

(* What is so of an object is so of its properties, *)
LEMMA PropertyTyped ==
  ASSUME NEW d, Tree(d), WellTyped(d), NEW p \in DOMAIN d, p # <<>>, Typed(d, Front(p))
  PROVE  Typed(d, p)
<1> DEFINE q == Front(p)
<1>1. q \in DOMAIN d /\ IsObject(d[q]) /\ Append(q, Last(p)) = p
  BY FrontIs DEF Tree
<1>2. d[q] # Undefined
  BY <1>1 DEF IsObject, Undefined
<1>3. PICK t : <<q, t>> \in TypedObjects
  BY <1>1 DEF Typed
<1>4. p \in Below(d, q)
  BY ChildBelow
<1> HIDE DEF q
<1> DEFINE child == TypeBelow(t, Last(p))
<1>5. Declared(t, Last(p)) /\ (Admits(child, d[p]) \/ d[p] = Undefined)
  BY <1>1, <1>2, <1>3, <1>4, WellTypedAt
<1>6. \/ Flat(child)
      \/ "words" \notin DOMAIN child /\ child.type = "object" /\ \E u : <<Append(q, Last(p)), u>> \in TypedObjects
  BY <1>3, <1>5, TypesLead DEF Leads
<1> HIDE DEF child
<1>7. CASE d[p] = Undefined
  BY <1>7 DEF Typed, IsObject, Undefined
<1>8. CASE Admits(child, d[p]) /\ Flat(child)
  BY <1>8 DEF Flat, Typed, IsObject
<1>9. CASE /\ Admits(child, d[p]) /\ "words" \notin DOMAIN child /\ child.type = "object"
           /\ \E u : <<Append(q, Last(p)), u>> \in TypedObjects
  BY <1>1, <1>9 DEF Admits, Typed, IsObject
<1> QED
  BY <1>5, <1>6, <1>7, <1>8, <1>9

(* and therefore of every value. *)
LEMMA AllTyped ==
  ASSUME NEW d, Tree(d), WellTyped(d)
  PROVE  \A p \in DOMAIN d : Typed(d, p)
<1> DEFINE Upto(n) == \A p \in DOMAIN d : Len(p) = n => Typed(d, p)
           Done == {n \in Nat : Upto(n)}
<1>1. 0 \in Done
  <2> SUFFICES ASSUME NEW p \in DOMAIN d, Len(p) = 0 PROVE Typed(d, p)
    OBVIOUS
  <2>1. p = <<>>
    BY EmptySeq DEF Tree
  <2>2. d[p].type = "object" /\ d[p].class = "plain"
    BY <2>1 DEF WellTyped, IsObject
  <2>3. <<p, TRecord>> \in TypedObjects
    BY <2>1, TypedObjectsAre
  <2> QED
    BY <2>2, <2>3 DEF Typed
<1>2. ASSUME NEW n \in Nat, n \in Done PROVE n + 1 \in Done
  <2> SUFFICES ASSUME NEW p \in DOMAIN d, Len(p) = n + 1 PROVE Typed(d, p)
    OBVIOUS
  <2>1. p \in Seq(Names) /\ Len(p) # 0
    BY DEF Tree
  <2>2. p # <<>>
    BY <2>1, EmptySeq
  <2>3. Front(p) \in DOMAIN d /\ Len(Front(p)) = n
    <3>1. Len(p) \in Nat /\ Len(Front(p)) = Len(p) - 1
      BY <2>1, <2>2, FrontIs
    <3>2. Front(p) \in DOMAIN d
      BY <2>2 DEF Tree
    <3> QED
      BY <3>1, <3>2
  <2>4. Typed(d, Front(p))
    BY <1>2, <2>3
  <2> QED
    BY <2>2, <2>4, PropertyTyped
<1>3. Nat \subseteq Done
  <2> HIDE DEF Done
  <2> QED
    BY <1>1, <1>2, SetInduction
<1> SUFFICES ASSUME NEW p \in DOMAIN d PROVE Typed(d, p)
  OBVIOUS
<1>4. Len(p) \in Nat
  BY LenProperties DEF Tree
<1> QED
  BY <1>3, <1>4

(* Such an object can be copied and read, and its copy is itself. *)
LEMMA TypedCopies ==
  ASSUME NEW d, Tree(d), WellTyped(d)
  PROVE  Plainly(d) /\ Clone(d) = d /\ Clones(d) /\ ~Throws(d)
<1>1. Plainly(d)
  BY AllTyped DEF Typed, Plainly
<1>2. \A p \in DOMAIN d : d[p] # Function
  BY AllTyped DEF Typed, Undefined, Function
<1>3. Clones(d)
  BY <1>1, <1>2 DEF Clones, Plainly
<1>4. ~Throws(d)
  <2>1. \A p \in DOMAIN d : d[p] = Object("trap", 0) => d[p].type = "object" /\ d[p].class = "trap"
    BY DEF Object
  <2> QED
    BY <1>1, <2>1 DEF Throws, Plainly, IsObject
<1> QED
  BY <1>1, <1>3, <1>4, PlainCopy

-----------------------------------------------------------------------------
(* What is checked of it: every property is declared and has its type, and nothing that the
   types require is absent. *)
Shaped(c) ==
  /\ Tree(c) /\ IsObject(c[<<>>])
  /\ \A p, t : <<p, t>> \in TypedObjects /\ p \in DOMAIN c =>
       /\ \A f \in t.required : Append(p, f) \in DOMAIN c
       /\ \A q \in Below(c, p) : Declared(t, Last(q)) /\ Admits(TypeBelow(t, Last(q)), c[q])

(* Where the objects that have a type are: only labels have names of the caller. *)
LEMMA TypedPaths ==
  ASSUME NEW p, NEW t, <<p, t>> \in TypedObjects
  PROVE  /\ t = LabelsType \/ Unlabelled(p)
         /\ Len(p) > 1 => p[Len(p) - 1] # "labels"
<1>1. \/ <<p, t>> = <<<<>>, TRecord>> \/ <<p, t>> = <<<<"emitter">>, TEmitter>>
      \/ <<p, t>> = <<<<"timing">>, TTiming>> \/ <<p, t>> = <<<<"resource">>, TResource>>
      \/ <<p, t>> = <<<<"run">>, TRun>> \/ <<p, t>> = <<<<"attribution">>, TAttribution>>
      \/ <<p, t>> = <<<<"usage">>, TUsage>> \/ <<p, t>> = <<<<"cost">>, TCost>>
      \/ <<p, t>> = <<<<"attribution", "labels">>, LabelsType>>
      \/ <<p, t>> = <<<<"usage", "llm">>, TLlmUsage>>
      \/ <<p, t>> = <<<<"usage", "tool">>, TToolUsage>>
      \/ <<p, t>> = <<<<"cost", "llm">>, TLlmCost>>
      \/ <<p, t>> = <<<<"cost", "tool">>, TToolCost>>
  BY TypedObjectsAre
<1>2. /\ Unlabelled(<<>>) /\ Unlabelled(<<"emitter">>) /\ Unlabelled(<<"timing">>)
      /\ Unlabelled(<<"resource">>) /\ Unlabelled(<<"run">>) /\ Unlabelled(<<"attribution">>)
      /\ Unlabelled(<<"usage">>) /\ Unlabelled(<<"cost">>) /\ Unlabelled(<<"usage", "llm">>)
      /\ Unlabelled(<<"usage", "tool">>) /\ Unlabelled(<<"cost", "llm">>)
      /\ Unlabelled(<<"cost", "tool">>)
  BY DEF Unlabelled
<1>3. t = LabelsType \/ Unlabelled(p)
  BY <1>1, <1>2
<1>4. Len(p) > 1 => p[Len(p) - 1] # "labels"
  <2>1. Len(p) > 1 => p \in {<<"attribution", "labels">>, <<"usage", "llm">>, <<"usage", "tool">>,
                             <<"cost", "llm">>, <<"cost", "tool">>}
    BY <1>1
  <2>2. \A a, b : Len(<<a, b>>) - 1 = 1 /\ <<a, b>>[1] = a
    OBVIOUS
  <2>3. \A a \in {"attribution", "usage", "cost"} : a # "labels"
    OBVIOUS
  <2>4. \A b : \A a \in {"attribution", "usage", "cost"} : <<a, b>>[Len(<<a, b>>) - 1] # "labels"
    BY <2>2, <2>3
  <2> QED
    BY <2>1, <2>4
<1> QED
  BY <1>3, <1>4

(* The copy that is checked has what compiling promises. *)
LEMMA CopyShaped ==
  ASSUME NEW d, Tree(d), WellTyped(d)
  PROVE  /\ Shaped(AsJson(d))
         /\ \A p \in DOMAIN AsJson(d) : p \in DOMAIN d /\ AsJson(d)[p] = d[p]
<1> DEFINE c == AsJson(d)
<1>1. /\ Tree(c) /\ DOMAIN c \subseteq DOMAIN d
      /\ \A p \in DOMAIN d : d[p] # Undefined => p \in DOMAIN c
      /\ \A p \in DOMAIN c : c[p] = IF IsObject(d[p]) THEN Object("plain", d[p].more) ELSE d[p]
  BY CheckedTree
<1>2. \A p \in DOMAIN c : p = <<>> \/ d[p] # Undefined \/ (Len(p) > 1 /\ p[Len(p) - 1] = "labels")
  BY DEF AsJson
<1> HIDE DEF c
<1>3. \A p \in DOMAIN c : c[p] = d[p]
  <2>1. \A p \in DOMAIN d : IsObject(d[p]) => d[p] = Object("plain", d[p].more)
    BY TypedCopies DEF Tree, IsValue, Plainly
  <2> QED
    BY <1>1, <2>1
<1>4. IsObject(c[<<>>])
  <2>1. <<>> \in DOMAIN c
    BY <1>1 DEF Tree
  <2> QED
    BY <1>3, <2>1 DEF WellTyped
<1>5. ASSUME NEW p, NEW t, <<p, t>> \in TypedObjects, p \in DOMAIN c
      PROVE  /\ \A f \in t.required : Append(p, f) \in DOMAIN c
             /\ \A q \in Below(c, p) : Declared(t, Last(q)) /\ Admits(TypeBelow(t, Last(q)), c[q])
  <2>1. p \in DOMAIN d /\ d[p] # Undefined
    <3>1. CASE p = <<>>
      BY <1>1, <1>5, <3>1 DEF WellTyped, IsObject, Undefined
    <3>2. CASE p # <<>>
      BY <1>1, <1>2, <1>5, <3>2, TypedPaths
    <3> QED
      BY <3>1, <3>2
  <2>2. \A f \in t.required : Append(p, f) \in DOMAIN c
    BY <1>1, <1>5, <2>1, WellTypedAt DEF Missing
  <2>3. ASSUME NEW q \in Below(c, p)
        PROVE  Declared(t, Last(q)) /\ Admits(TypeBelow(t, Last(q)), c[q])
    <3>1. q \in Below(d, p) /\ q \in DOMAIN c
      BY <1>1 DEF Below
    <3>2. /\ Declared(t, Last(q))
          /\ Admits(TypeBelow(t, Last(q)), d[q]) \/ (d[q] = Undefined /\ "others" \notin DOMAIN t)
      BY <1>5, <2>1, <3>1, WellTypedAt
    <3>3. ASSUME d[q] = Undefined, "others" \notin DOMAIN t PROVE FALSE
      <4>1. q # <<>> /\ q = Append(p, Last(q)) /\ p \in Seq(Names) /\ q \in Seq(Names)
        BY <2>1, <3>1, BelowIs DEF Tree
      <4>2. Len(q) > 1 /\ q[Len(q) - 1] = "labels"
        BY <1>2, <3>1, <3>3, <4>1
      <4>3. Last(q) \in Names
        BY <4>1, FrontIs
      <4>4. Len(q) = Len(p) + 1 /\ Len(p) \in Nat /\ \A i \in 1..Len(p) : q[i] = p[i]
        <5> DEFINE l == Last(q)
        <5>1. l \in Names /\ q = Append(p, l)
          BY <4>1, <4>3
        <5> HIDE DEF l
        <5> QED
          BY <4>1, <5>1, AppendProperties, LenProperties
      <4>5. Len(p) \in 1..Len(p) /\ Len(q) - 1 = Len(p)
        BY <4>2, <4>4
      <4>6. p[Len(p)] = "labels" /\ Len(p) \in DOMAIN p
        BY <4>1, <4>2, <4>4, <4>5
      <4>7. t = LabelsType
        BY <1>5, <4>6, TypedPaths DEF Unlabelled
      <4> QED
        BY <3>3, <4>7 DEF LabelsType
    <3> QED
      BY <1>3, <3>1, <3>2, <3>3
  <2> QED
    BY <2>2, <2>3
<1>6. Shaped(c)
  BY <1>1, <1>4, <1>5 DEF Shaped
<1> QED
  BY <1>1, <1>3, <1>6 DEF c

-----------------------------------------------------------------------------
(* What the validator may still find in it. *)
Typeless == {"minLength", "maxLength", "pattern", "minimum", "maximum", "const", "not",
             "minProperties", "maxProperties", "propertyNames"}

Whole == {<<"emitter">>, <<"resource", "modality">>, <<"attribution", "environment">>,
          <<"attribution", "account_id">>}

Excused(c, e) ==
  \/ e.inName
  \/ e.keyword \in Typeless
  \/ /\ e.keyword = "type"
     /\ LET path == Pointer(e.at \o e.beneath) IN path \in DOMAIN c /\ c[path].type = "number"
  \/ e.keyword = "additionalProperties" /\ Last(Pointer(e.at \o e.beneath)) \in ExtensionKeys
  \/ e.keyword = "required" /\ (e.at = <<"usage">> \/ Pointer(e.at \o e.beneath) \in Whole)

(* What may be reported of it. *)
Allowed(c, i) ==
  /\ i.code = "INVALID_TYPE" => i.path \in DOMAIN c /\ Has(c, i.path, "number")
  /\ i.code # "INVALID_ENUM"
  /\ i.code = "UNKNOWN_PROPERTY" => Last(i.path) \in ExtensionKeys
  /\ i.code = "REQUIRED" => i.path \in Whole

(* The type of a property fits its schema. *)
LEMMA FitsBelow ==
  ASSUME NEW p, NEW t, NEW schema, Matches(p, t, schema), NEW name, Declared(t, name), Known(schema, name)
  PROVE  Keeps(TypeBelow(t, name), Child(schema, name))
<1>1. CASE name \in DOMAIN t.properties
  BY <1>1 DEF Matches, TableFits, TypeBelow, Child
<1>2. CASE name \notin DOMAIN t.properties /\ "others" \in DOMAIN t
  BY <1>2 DEF Matches, TableFits, TypeBelow, Child
<1>3. CASE name \notin DOMAIN t.properties /\ "others" \notin DOMAIN t
  BY <1>3 DEF Matches, TableFits, TypeBelow, Child, Declared
<1> QED
  BY <1>1, <1>2, <1>3

(* Only the names of labels are hidden. *)
LEMMA PointerSame ==
  ASSUME NEW S, NEW p \in Seq(S), Unlabelled(p), NEW f \in S
  PROVE  Pointer(Append(p, f)) = Append(p, f)
<1> DEFINE q == Append(p, f)
<1>1. q \in Seq(S) /\ Len(q) = Len(p) + 1 /\ Len(p) \in Nat /\ \A i \in 1..Len(p) : q[i] = p[i]
  BY AppendProperties, LenProperties
<1> HIDE DEF q
<1>2. DOMAIN q = 1..Len(q) /\ DOMAIN p = 1..Len(p) /\ q = [k \in DOMAIN q |-> q[k]]
  BY <1>1, LenProperties
<1>3. \A k \in DOMAIN q : k > 1 => q[k - 1] # "labels"
  <2> SUFFICES ASSUME NEW k \in DOMAIN q, k > 1 PROVE q[k - 1] # "labels"
    OBVIOUS
  <2>1. k - 1 \in 1..Len(p)
    BY <1>1, <1>2
  <2> QED
    BY <1>1, <1>2, <2>1 DEF Unlabelled
<1>4. Pointer(q) = [k \in DOMAIN q |-> q[k]]
  BY <1>3 DEF Pointer
<1> QED
  BY <1>2, <1>4 DEF q

(* Paths of one name and of two, as they are reported. *)
LEMMA PathsAre ==
  /\ \A f : <<f>> \in Seq({f}) /\ <<>> \o <<f>> = <<f>> /\ Pointer(<<f>>) = <<f>>
  /\ \A a, f : a # "labels" => <<a>> \o <<f>> = <<a, f>> /\ Pointer(<<a, f>>) = <<a, f>>
<1>1. ASSUME NEW f
      PROVE  <<f>> \in Seq({f}) /\ <<>> \o <<f>> = <<f>> /\ Pointer(<<f>>) = <<f>>
  <2>1. <<>> \in Seq({f}) /\ <<f>> \in Seq({f}) /\ Unlabelled(<<>>)
    BY DEF Unlabelled
  <2>2. <<>> \o <<f>> = Append(<<>>, f)
    BY <2>1, AppendIsConcat
  <2>3. Pointer(Append(<<>>, f)) = Append(<<>>, f)
    BY <2>1, PointerSame
  <2> QED
    BY <2>1, <2>2, <2>3, Appended
<1>2. ASSUME NEW a, NEW f, a # "labels"
      PROVE  <<a>> \o <<f>> = <<a, f>> /\ Pointer(<<a, f>>) = <<a, f>>
  <2>1. <<a>> \in Seq({a, f}) /\ Unlabelled(<<a>>) /\ f \in {a, f}
    BY <1>2 DEF Unlabelled
  <2>2. <<a>> \o <<f>> = Append(<<a>>, f)
    BY <2>1, AppendIsConcat
  <2>3. Pointer(Append(<<a>>, f)) = Append(<<a>>, f)
    BY <2>1, PointerSame
  <2> QED
    BY <2>2, <2>3, Appended
<1> QED
  BY <1>1, <1>2

(* A property of it breaks a bound or a pattern, or is a number that is not whole or finite. *)
LEMMA PropertyExcused ==
  ASSUME NEW c, Shaped(c), NEW p, NEW schema, <<p, schema>> \in ObjectSchemas, p \in DOMAIN c,
         NEW e \in PropertyErrors(c, p, schema)
  PROVE  Excused(c, e)
<1>1. PICK t : <<p, t>> \in TypedObjects /\ Matches(p, t, schema) /\ (t = LabelsType \/ Unlabelled(p))
  BY TypeOfObject
<1>2. PICK q \in Below(c, p) : /\ Known(schema, Last(q))
                               /\ \E k \in Breaks(c[q], Child(schema, Last(q))) :
                                    e = Error(k, q, <<>>, Kind(Child(schema, Last(q))), FALSE)
  BY DEF PropertyErrors
<1>3. PICK k \in Breaks(c[q], Child(schema, Last(q))) :
        e = Error(k, q, <<>>, Kind(Child(schema, Last(q))), FALSE)
  BY <1>2
<1>4. e.keyword = k /\ e.at = q /\ e.beneath = <<>>
  BY <1>3 DEF Error
<1>5. Declared(t, Last(q)) /\ Admits(TypeBelow(t, Last(q)), c[q])
  BY <1>1 DEF Shaped
<1>6. k # "enum" /\ (k = "type" => c[q].type = "number")
  <2>1. Keeps(TypeBelow(t, Last(q)), Child(schema, Last(q)))
    BY <1>1, <1>2, <1>5, FitsBelow
  <2> QED
    BY <1>5, <2>1 DEF Keeps
<1>7. k \in {"type", "enum", "minLength", "maxLength", "pattern", "minimum", "maximum"}
  BY DEF Breaks
<1>8. CASE k # "type"
  BY <1>4, <1>6, <1>7, <1>8 DEF Excused, Typeless
<1>9. CASE k = "type"
  <2>1. Tree(c) /\ q \in DOMAIN c /\ p \in Seq(Names) /\ q \in Seq(Names) /\ q # <<>> /\ q = Append(p, Last(q))
    BY BelowIs DEF Shaped, Tree
  <2>2. Last(q) \in Names
    BY <2>1, FrontIs
  <2>3. t # LabelsType
    <3> SUFFICES ASSUME t = LabelsType PROVE FALSE
      OBVIOUS
    <3>1. LabelsType.properties = <<>> /\ "others" \in DOMAIN LabelsType /\ LabelsType.others = TString
      BY DEF LabelsType
    <3>2. DOMAIN LabelsType.properties = {}
      BY <3>1
    <3>3. TypeBelow(t, Last(q)) = TString
      BY <3>1, <3>2 DEF TypeBelow
    <3>4. c[q].type = "string"
      BY <1>5, <3>3 DEF Admits, TString
    <3> QED
      BY <1>6, <1>9, <3>4
  <2>4. Pointer(q) = q
    <3> DEFINE l == Last(q)
    <3>1. l \in Names /\ q = Append(p, l) /\ Unlabelled(p)
      BY <1>1, <2>1, <2>2, <2>3
    <3> HIDE DEF l
    <3> QED
      BY <2>1, <3>1, PointerSame
  <2>5. e.at \o e.beneath = q
    BY <1>4, <2>1, ConcatEmptySeq
  <2> QED
    BY <1>4, <1>6, <1>9, <2>1, <2>4, <2>5 DEF Excused
<1> QED
  BY <1>8, <1>9

(* What it breaks as a whole: how many properties it has, the names of labels, the pattern of
   an extension's name, or it has no emitter. *)
LEMMA ObjectExcused ==
  ASSUME NEW c, Shaped(c), NEW p, NEW schema, <<p, schema>> \in ObjectSchemas, p \in DOMAIN c,
         NEW e \in ObjectErrors(c, p, schema)
  PROVE  Excused(c, e)
<1> DEFINE names == {Last(q) : q \in Below(c, p)}
           required == IF "required" \in DOMAIN schema THEN schema.required ELSE {}
<1>1. PICK t : <<p, t>> \in TypedObjects /\ Matches(p, t, schema) /\ (t = LabelsType \/ Unlabelled(p))
  BY TypeOfObject
<1>2. \/ \E f \in required \ names : e = Error("required", p, <<f>>, "other", FALSE)
      \/ \E f \in names : ~Known(schema, f) /\ e = Error("additionalProperties", p, <<f>>, "other", FALSE)
      \/ \E k \in Typeless : \E b : e = Error(k, p, b, "other", FALSE)
      \/ \E k, b : e = [Error(k, p, b, "other", FALSE) EXCEPT !.inName = TRUE]
  BY DEF ObjectErrors, Typeless
<1>3. ASSUME NEW f \in required \ names, e = Error("required", p, <<f>>, "other", FALSE)
      PROVE  Excused(c, e)
  <2>1. f \in t.required \/ (p = <<>> /\ f = "emitter")
    BY <1>1, <1>3 DEF Matches
  <2>2. f \notin t.required
    <3> SUFFICES ASSUME f \in t.required PROVE FALSE
      OBVIOUS
    <3> DEFINE S == Names \cup {f}
    <3>1. p \in Seq(S) /\ f \in S
      <4>1. p \in Seq(Names)
        BY DEF Shaped, Tree
      <4> QED
        BY <4>1, SeqMonotonic
    <3> HIDE DEF S
    <3>2. Append(p, f) \in DOMAIN c
      BY <1>1 DEF Shaped
    <3>3. Append(p, f) # <<>> /\ Front(Append(p, f)) = p /\ Last(Append(p, f)) = f
      BY <3>1, AppendedFront
    <3>4. Append(p, f) \in Below(c, p)
      BY <3>2, <3>3, ChildBelow DEF Shaped
    <3> QED
      BY <1>3, <3>3, <3>4
  <2>3. e.keyword = "required" /\ e.at = <<>> /\ e.beneath = <<"emitter">>
    BY <1>3, <2>1, <2>2 DEF Error
  <2>4. Pointer(e.at \o e.beneath) = <<"emitter">>
    BY <2>3, PathsAre
  <2> QED
    BY <2>3, <2>4 DEF Excused, Whole
<1>4. ASSUME NEW f \in names, ~Known(schema, f), e = Error("additionalProperties", p, <<f>>, "other", FALSE)
      PROVE  Excused(c, e)
  <2>1. PICK q \in Below(c, p) : f = Last(q)
    BY <1>4
  <2>2. Declared(t, f)
    BY <1>1, <2>1 DEF Shaped
  <2>3. f \in ExtensionKeys /\ "others" \notin DOMAIN t
    BY <1>1, <1>4, <2>2 DEF Declared, Known, Matches, TableFits
  <2>4. Unlabelled(p)
    BY <1>1, <2>3 DEF LabelsType
  <2>5. /\ p \in Seq(Names) /\ q \in Seq(Names) /\ q # <<>> /\ q = Append(p, f)
    BY <2>1, BelowIs DEF Shaped, Tree
  <2>6. f \in Names
    BY <2>1, <2>5, FrontIs
  <2>7. Pointer(q) = q /\ p \o <<f>> = q
    BY <2>4, <2>5, <2>6, PointerSame, AppendIsConcat
  <2>8. e.keyword = "additionalProperties" /\ e.at = p /\ e.beneath = <<f>>
    BY <1>4 DEF Error
  <2> QED
    BY <2>1, <2>3, <2>7, <2>8 DEF Excused
<1>5. ASSUME NEW k \in Typeless, NEW b, e = Error(k, p, b, "other", FALSE)
      PROVE  Excused(c, e)
  BY <1>5 DEF Excused, Error
<1>6. ASSUME NEW k, NEW b, e = [Error(k, p, b, "other", FALSE) EXCEPT !.inName = TRUE]
      PROVE  Excused(c, e)
  BY <1>6 DEF Excused, Error
<1> QED
  BY <1>2, <1>3, <1>4, <1>5, <1>6

(* What an operation, or production, requires. *)
LEMMA BranchExcused ==
  ASSUME NEW c, NEW e \in ModelBranch(c) \cup ToolBranch(c) \cup ProductionBranch(c)
  PROVE  Excused(c, e)
<1>1. ASSUME NEW p, NEW name, e \in Forbids(c, p, name) PROVE Excused(c, e)
  BY <1>1 DEF Forbids, Error, Excused, Typeless
<1>2. ASSUME NEW word, e \in TypeIs(c, word) PROVE Excused(c, e)
  BY <1>2 DEF TypeIs, Error, Excused, Typeless
<1>3. ASSUME NEW p, NEW name, e \in Needs(c, p, name)
      PROVE  e.keyword = "required" /\ e.at = p /\ e.beneath = <<name>>
  BY <1>3 DEF Needs, Error
<1>4. ASSUME NEW name, e \in Needs(c, <<"usage">>, name) PROVE Excused(c, e)
  BY <1>3, <1>4 DEF Excused
<1>5. ASSUME e \in Needs(c, <<"resource">>, "modality") PROVE Excused(c, e)
  <2>1. e.keyword = "required" /\ Pointer(e.at \o e.beneath) = <<"resource", "modality">>
    BY <1>3, <1>5, PathsAre
  <2> QED
    BY <2>1 DEF Excused, Whole
<1>6. ASSUME e \in Needs(c, <<"attribution">>, "account_id") PROVE Excused(c, e)
  <2>1. e.keyword = "required" /\ Pointer(e.at \o e.beneath) = <<"attribution", "account_id">>
    BY <1>3, <1>6, PathsAre
  <2> QED
    BY <2>1 DEF Excused, Whole
<1>7. CASE e \in ModelBranch(c)
  <2>1. e \in Forbids(c, <<"resource">>, "namespace") \cup Needs(c, <<"resource">>, "modality") \cup
             TypeIs(c, "model") \cup Forbids(c, <<"usage">>, "tool") \cup
             Needs(c, <<"usage">>, "llm") \cup Forbids(c, <<"cost">>, "tool")
    BY <1>7, Zenon DEF ModelBranch
  <2> QED
    BY <1>1, <1>2, <1>4, <1>5, <2>1
<1>8. CASE e \in ToolBranch(c)
  <2>1. e \in TypeIs(c, "tool") \cup Forbids(c, <<"usage">>, "llm") \cup
             Needs(c, <<"usage">>, "tool") \cup Forbids(c, <<"cost">>, "llm")
    BY <1>8, Zenon DEF ToolBranch
  <2> QED
    BY <1>1, <1>2, <1>4, <2>1
<1>9. CASE e \in ProductionBranch(c)
  <2>1. e \in Needs(c, <<"attribution">>, "account_id")
    BY <1>9, Zenon DEF ProductionBranch
  <2> QED
    BY <1>6, <2>1
<1> QED
  BY <1>7, <1>8, <1>9

(* An excused error is reported as one that the types cannot prevent. *)
LEMMA IssueAllowed ==
  ASSUME NEW c, NEW e, Excused(c, e)
  PROVE  Allowed(c, ToIssue(e, c))
<1> DEFINE field == {f \in FieldCodes : f[1] = e.at /\ f[2] = e.keyword}
           path == Pointer(e.at \o e.beneath)
           code == CodeFor(e, c)
           mild == {"INVALID_TYPE", "INVALID_ENUM", "UNKNOWN_PROPERTY", "REQUIRED"}
<1>1. CASE field # {}
  <2>1. PICK f \in field : ToIssue(e, c) = Issue(f[3], e.at)
    <3>1. ToIssue(e, c) = Issue((CHOOSE f \in field : TRUE)[3], e.at)
      BY <1>1 DEF ToIssue
    <3>2. (CHOOSE f \in field : TRUE) \in field
      BY <1>1
    <3> QED
      BY <3>1, <3>2
  <2>2. f[3] \notin mild
    BY DEF FieldCodes
  <2> QED
    BY <2>1, <2>2 DEF Allowed, Issue
<1>2. CASE field = {}
  <2>1. ToIssue(e, c).code = code /\ ToIssue(e, c).path = path
    BY <1>2 DEF ToIssue, Issue
  <2>2. e.keyword = "required" => e.at # <<"usage">>
    <3>1. <<<<"usage">>, "required", "INVALID_STRUCTURE">> \in FieldCodes
      BY DEF FieldCodes
    <3> QED
      BY <1>2, <3>1
  <2> HIDE DEF field, path, code
  <2>3. CASE e.inName
    <3>1. code = "INVALID_PROPERTY_NAME"
      BY <2>3 DEF CodeFor, code
    <3> QED
      BY <2>1, <3>1 DEF Allowed
  <2>4. CASE ~e.inName /\ e.keyword \in Typeless
    <3>1. code \notin mild
      BY <2>4 DEF CodeFor, KeywordCodes, Typeless, code
    <3> QED
      BY <2>1, <3>1 DEF Allowed
  <2>5. CASE ~e.inName /\ e.keyword = "type"
    <3>1. code \in {"INVALID_COST", "INVALID_COUNTER", "INVALID_TYPE"}
      BY <2>5 DEF CodeFor, code
    <3>2. path \in DOMAIN c /\ c[path].type = "number"
      BY <2>5 DEF Excused, Typeless, path
    <3> QED
      BY <2>1, <3>1, <3>2 DEF Allowed, Has
  <2>6. CASE ~e.inName /\ e.keyword = "additionalProperties"
    <3>1. code = "UNKNOWN_PROPERTY"
      BY <2>6 DEF CodeFor, KeywordCodes, code
    <3>2. Last(path) \in ExtensionKeys
      BY <2>6 DEF Excused, Typeless, path
    <3> QED
      BY <2>1, <3>1, <3>2 DEF Allowed
  <2>7. CASE ~e.inName /\ e.keyword = "required"
    <3>1. code = "REQUIRED"
      BY <2>7 DEF CodeFor, KeywordCodes, code
    <3>2. path \in Whole
      BY <2>2, <2>7 DEF Excused, Typeless, path
    <3> QED
      BY <2>1, <3>1, <3>2 DEF Allowed
  <2> QED
    BY <2>3, <2>4, <2>5, <2>6, <2>7 DEF Excused
<1> QED
  BY <1>1, <1>2

(* What the schema reports of it. *)
LEMMA SchemaAllowed ==
  ASSUME NEW c, Shaped(c), NEW i \in SchemaIssues(c).structural \cup SchemaIssues(c).conditional
  PROVE  Allowed(c, i)
<1>1. PICK e \in SchemaErrors(c) : i = ToIssue(e, c)
  BY DEF SchemaIssues
<1> DEFINE Of(entry) == IF entry[1] \in DOMAIN c /\ IsObject(c[entry[1]])
                        THEN ObjectErrors(c, entry[1], entry[2]) \cup PropertyErrors(c, entry[1], entry[2])
                        ELSE {}
<1>2. SchemaErrors(c) = ModelBranch(c) \cup ToolBranch(c) \cup ProductionBranch(c) \cup
                          UNION {Of(entry) : entry \in ObjectSchemas}
  BY DEF SchemaErrors, Shaped
<1>3. CASE e \in ModelBranch(c) \cup ToolBranch(c) \cup ProductionBranch(c)
  BY <1>1, <1>3, BranchExcused, IssueAllowed
<1>4. CASE \E entry \in ObjectSchemas : e \in Of(entry)
  <2>1. PICK entry \in ObjectSchemas : e \in Of(entry)
    BY <1>4
  <2>2. entry[1] \in DOMAIN c /\ e \in ObjectErrors(c, entry[1], entry[2]) \cup PropertyErrors(c, entry[1], entry[2])
    BY <2>1
  <2>3. <<entry[1], entry[2]>> \in ObjectSchemas
    BY ObjectSchemasAre
  <2>4. Excused(c, e)
    BY <2>2, <2>3, ObjectExcused, PropertyExcused
  <2> QED
    BY <1>1, <2>4, IssueAllowed
<1> HIDE DEF Of
<1> QED
  BY <1>2, <1>3, <1>4

(* What the formats report of it. *)
LEMMA FormatAllowed ==
  ASSUME NEW c, NEW i \in FormatIssues(c)
  PROVE  Allowed(c, i)
<1>1. \A path : Allowed(c, Issue("INVALID_IDENTIFIER", path)) /\ Allowed(c, Issue("INVALID_DATETIME", path))
                /\ Allowed(c, Issue("FORBIDDEN", path))
  BY DEF Allowed, Issue
<1>2. \E path : i \in {Issue("INVALID_IDENTIFIER", path), Issue("INVALID_DATETIME", path), Issue("FORBIDDEN", path)}
  <2> DEFINE a == {q \in {<<"record_id">>, <<"corrects">>} : Has(c, q, "string") /\ "id" \notin c[q].fits}
             b == {q \in {<<"timing", "event_time">>} : Has(c, q, "string") /\ ParseTimestamp(c[q]) = Nil}
             x == {SinkOwned} \cap DOMAIN c
             y == {q \in {<<"run", "trace_id">>} : Has(c, q, "string") /\ "trace" \notin c[q].fits}
  <2>1. i \in {Issue("INVALID_IDENTIFIER", p) : p \in a} \cup {Issue("INVALID_DATETIME", p) : p \in b} \cup
              {Issue("FORBIDDEN", p) : p \in x} \cup {Issue("INVALID_IDENTIFIER", p) : p \in y}
    BY Zenon DEF FormatIssues
  <2> HIDE DEF a, b, x, y
  <2> QED
    BY <2>1
<1> QED
  BY <1>1, <1>2

(* What the rules the schema cannot state report of it. *)
LEMMA ProseAllowed ==
  ASSUME NEW c, NEW now, NEW i \in ProseIssues(c, now)
  PROVE  Allowed(c, i)
<1> DEFINE time == <<"timing", "event_time">>
           env == <<"attribution", "environment">>
<1>1. \A path : /\ Allowed(c, Issue("MILLISECOND_PRECISION", path)) /\ Allowed(c, Issue("FUTURE_EVENT_TIME", path))
                /\ Allowed(c, Issue("NON_PSEUDONYMOUS_ID", path))
  BY DEF Allowed, Issue
<1>2. Allowed(c, Issue("REQUIRED", env))
  <2>1. Pointer(env) = env
    BY PathsAre
  <2> QED
    BY <2>1 DEF Allowed, Issue, Whole
<1>3. \E path : i \in {Issue("MILLISECOND_PRECISION", path), Issue("FUTURE_EVENT_TIME", path),
                       Issue("NON_PSEUDONYMOUS_ID", path), Issue("REQUIRED", env)}
  <2> DEFINE m == ParseTimestamp(c[time])
             users == {q \in {<<"attribution", "user_id">>} \cap DOMAIN c : "at" \in c[q].fits}
             fine == m # Nil /\ m.finer
             future == m # Nil /\ IsFuture(m, now)
             absent == env \notin DOMAIN c
  <2>1. i \in (IF fine THEN {Issue("MILLISECOND_PRECISION", time)} ELSE {}) \cup
              (IF future THEN {Issue("FUTURE_EVENT_TIME", time)} ELSE {}) \cup
              (IF absent THEN {Issue("REQUIRED", env)} ELSE {}) \cup
              {Issue("NON_PSEUDONYMOUS_ID", p) : p \in users}
    BY Zenon DEF ProseIssues
  <2> HIDE DEF m, users, fine, future, absent, time, env
  <2> QED
    BY <2>1
<1> HIDE DEF time, env
<1> QED
  BY <1>1, <1>2, <1>3

(* Whatever is reported of an object that compiles, by the client or by parseRecord(), is not
   about the shape the types describe. *)
LEMMA InspectAllowed ==
  ASSUME NEW d, Tree(d), WellTyped(d), NEW now, NEW i \in Inspect(d, now)
  PROVE  Allowed(d, i)
<1> DEFINE c == AsJson(d)
<1>1. Shaped(c) /\ \A p \in DOMAIN c : p \in DOMAIN d /\ c[p] = d[p]
  BY CopyShaped
<1>2. i \in FormatIssues(c) \cup SchemaIssues(c).structural \cup SchemaIssues(c).conditional \cup ProseIssues(c, now)
  BY TypedCopies, Zenon DEF Inspect
<1> HIDE DEF c
<1>3. Allowed(c, i)
  BY <1>1, <1>2, FormatAllowed, SchemaAllowed, ProseAllowed
<1> QED
  BY <1>1, <1>3 DEF Allowed, Has

(* The same when it is parsed. *)
LEMMA ParseAllowed ==
  ASSUME NEW d, Tree(d), WellTyped(d), NEW now, NEW i \in ParseIssues(d, now)
  PROVE  Allowed(d, i)
<1> DEFINE version == <<"spec_version">>
<1>1. Clones(d) /\ Clone(d) = d
  BY TypedCopies
<1>2. ~Missing(d, version)
  <2>1. <<>> \in DOMAIN d /\ d[<<>>] # Undefined /\ <<<<>>, TRecord>> \in TypedObjects
    BY TypedObjectsAre DEF Tree, WellTyped, IsObject, Undefined
  <2>2. "spec_version" \in TRecord.required
    BY DEF TRecord, Interface
  <2>3. ~Missing(d, Append(<<>>, "spec_version"))
    <3>1. PICK p : p = <<>>
      OBVIOUS
    <3>2. ~Missing(d, Append(p, "spec_version"))
      BY <2>1, <2>2, <3>1, WellTypedAt
    <3> QED
      BY <3>1, <3>2
  <2> QED
    BY <2>3, Appended
<1>3. i \in Inspect(d, now) \/ i = Issue("UNSUPPORTED_VERSION", version)
  BY <1>1, <1>2, Zenon DEF ParseIssues
<1>4. Allowed(d, Issue("UNSUPPORTED_VERSION", version))
  BY DEF Allowed, Issue
<1> QED
  BY <1>3, <1>4, InspectAllowed

-----------------------------------------------------------------------------
(* Stamping keeps to the types, and adds no number. *)
LEMMA EmitterTyped ==
  /\ \A f \in DOMAIN ClientEmitter :
       /\ Declared(TEmitter, f) /\ Admits(TypeBelow(TEmitter, f), ClientEmitter[f])
       /\ ClientEmitter[f].type = "string"
  /\ TEmitter.required \subseteq DOMAIN ClientEmitter
  /\ Declared(TRecord, "emitter") /\ Admits(TypeBelow(TRecord, "emitter"), Plain)
<1>1. /\ DOMAIN ClientEmitter = {"component", "name", "version"}
      /\ DOMAIN TEmitter.properties = {"component", "name", "version"}
      /\ TEmitter.required = {"component", "name", "version"}
  BY DEF ClientEmitter, TEmitter, Interface
<1>2. /\ TEmitter.properties["component"] = EmitterComponent
      /\ TEmitter.properties["name"] = TString /\ TEmitter.properties["version"] = TString
  BY DEF TEmitter, Interface
<1>3. /\ ClientEmitter["component"] = Text("harness", 7, {})
      /\ ClientEmitter["name"] = Text("client", 6, {}) /\ ClientEmitter["version"] = Text("1", 1, {})
  BY DEF ClientEmitter
<1>4. \A word, len, fits : Text(word, len, fits).type = "string" /\ Text(word, len, fits).text = word
  BY DEF Text
<1>5. /\ Admits(EmitterComponent, ClientEmitter["component"])
      /\ Admits(TString, ClientEmitter["name"]) /\ Admits(TString, ClientEmitter["version"])
  <2>1. Admits(EmitterComponent, Text("harness", 7, {}))
    BY <1>4 DEF Admits, EmitterComponent, TWords
  <2>2. \A word, len, fits : Admits(TString, Text(word, len, fits))
    BY <1>4 DEF Admits, TString, IsObject
  <2> QED
    BY <1>3, <2>1, <2>2
<1>6. \A f \in DOMAIN ClientEmitter :
        /\ Declared(TEmitter, f) /\ Admits(TypeBelow(TEmitter, f), ClientEmitter[f])
        /\ ClientEmitter[f].type = "string"
  BY <1>1, <1>2, <1>3, <1>4, <1>5 DEF Declared, TypeBelow
<1>7. Declared(TRecord, "emitter") /\ TypeBelow(TRecord, "emitter") = TEmitter
  <2>1. "emitter" \in DOMAIN TRecord.properties /\ TRecord.properties["emitter"] = TEmitter
    BY DEF TRecord, Interface
  <2> QED
    BY <2>1 DEF Declared, TypeBelow
<1>8. Admits(TEmitter, Plain)
  <2>1. "words" \notin DOMAIN TEmitter /\ TEmitter.type = "object"
    BY DEF TEmitter, Interface
  <2> QED
    BY <2>1, PlainValues DEF Admits, IsObject
<1> QED
  BY <1>1, <1>6, <1>7, <1>8

(* The properties of an emitter are no objects. *)
LEMMA TypedApart ==
  ASSUME NEW p, NEW t, <<p, t>> \in TypedObjects
  PROVE  /\ p \notin EmitterFields
         /\ p = <<>> => t = TRecord
         /\ p = <<"emitter">> => t = TEmitter
<1>1. \/ <<p, t>> = <<<<>>, TRecord>> \/ <<p, t>> = <<<<"emitter">>, TEmitter>>
      \/ <<p, t>> = <<<<"timing">>, TTiming>> \/ <<p, t>> = <<<<"resource">>, TResource>>
      \/ <<p, t>> = <<<<"run">>, TRun>> \/ <<p, t>> = <<<<"attribution">>, TAttribution>>
      \/ <<p, t>> = <<<<"usage">>, TUsage>> \/ <<p, t>> = <<<<"cost">>, TCost>>
      \/ <<p, t>> = <<<<"attribution", "labels">>, LabelsType>>
      \/ <<p, t>> = <<<<"usage", "llm">>, TLlmUsage>>
      \/ <<p, t>> = <<<<"usage", "tool">>, TToolUsage>>
      \/ <<p, t>> = <<<<"cost", "llm">>, TLlmCost>>
      \/ <<p, t>> = <<<<"cost", "tool">>, TToolCost>>
  BY TypedObjectsAre
<1>2. \A q \in EmitterFields : \E f : q = <<"emitter", f>>
  BY Appended DEF EmitterFields
<1> QED
  BY <1>1, <1>2

(* A record that compiles still compiles when the client has stamped it. *)
LEMMA StampedTyped ==
  ASSUME NEW d, Tree(d), WellTyped(d), NEW configured \in BOOLEAN
  PROVE  LET r == StampEmitter(d, configured)
         IN /\ Tree(r) /\ WellTyped(r)
            /\ \A q \in DOMAIN r : r[q].type = "number" => q \in DOMAIN d /\ d[q].type = "number"
<1> DEFINE e == <<"emitter">>
           r == StampEmitter(d, configured)
<1>1. CASE r = d
  BY <1>1
<1>2. CASE r # d
  <2>1. /\ \A q \in DOMAIN d : q # <<>> => Front(q) # e
        /\ DOMAIN r = DOMAIN d \cup {e} \cup EmitterFields /\ r[e] = Plain
        /\ \A q \in DOMAIN d : q # e => r[q] = d[q]
        /\ \A f \in DOMAIN ClientEmitter : r[Append(e, f)] = ClientEmitter[f]
    BY <1>2, StampedIs
  <2>2. /\ e # <<>> /\ Front(e) = <<>>
        /\ \A f \in DOMAIN ClientEmitter :
             LET q == Append(e, f) IN q # <<>> /\ Front(q) = e /\ Last(q) = f
    BY EmitterPaths
  <2>3. EmitterFields = {Append(e, f) : f \in DOMAIN ClientEmitter} /\ Last(e) = "emitter"
    BY DEF EmitterFields, Last
  <2>4. Tree(r)
    BY StampedTree
  <2>5. \A p, t : <<p, t>> \in TypedObjects =>
          /\ p \notin EmitterFields
          /\ p = <<>> => t = TRecord
          /\ p = e => t = TEmitter
    BY TypedApart
  <2> HIDE DEF e, r
  <2>6. \A q \in DOMAIN r : r[q].type = "number" => q \in DOMAIN d /\ d[q].type = "number"
    <3> SUFFICES ASSUME NEW q \in DOMAIN r, r[q].type = "number" PROVE q \in DOMAIN d /\ d[q].type = "number"
      OBVIOUS
    <3>1. q # e
      BY <2>1, PlainValues DEF IsObject
    <3>2. q \notin EmitterFields
      BY <2>1, <2>3, EmitterTyped
    <3> QED
      BY <2>1, <3>1, <3>2
  <2>7. IsObject(r[<<>>]) /\ r[<<>>].class = "plain"
    BY <2>1, <2>2 DEF WellTyped, Tree
  <2>8. ASSUME NEW p, NEW t, <<p, t>> \in TypedObjects, p \in DOMAIN r, r[p] # Undefined
        PROVE  /\ IsObject(r[p])
               /\ \A f \in t.required : ~Missing(r, Append(p, f))
               /\ \A q \in Below(r, p) :
                    /\ Declared(t, Last(q))
                    /\ \/ Admits(TypeBelow(t, Last(q)), r[q])
                       \/ d[q] = Undefined /\ r[q] = Undefined /\ Last(q) \notin t.required /\ "others" \notin DOMAIN t
    <3>1. CASE p = e
      <4>1. t = TEmitter
        BY <2>5, <2>8, <3>1
      <4>2. \A f \in t.required : ~Missing(r, Append(p, f))
        <5> SUFFICES ASSUME NEW f \in TEmitter.required PROVE ~Missing(r, Append(e, f))
          BY <3>1, <4>1
        <5>1. f \in DOMAIN ClientEmitter /\ r[Append(e, f)].type = "string" /\ Append(e, f) \in DOMAIN r
          BY <2>1, <2>3, EmitterTyped
        <5> QED
          BY <5>1 DEF Missing, Undefined
      <4>3. ASSUME NEW q \in Below(r, p)
            PROVE  Declared(t, Last(q)) /\ Admits(TypeBelow(t, Last(q)), r[q])
        <5>1. q \in DOMAIN r /\ q # <<>> /\ Front(q) = p
          BY <2>4, <2>8, BelowIs
        <5>2. q \in EmitterFields
          BY <2>1, <2>2, <3>1, <5>1
        <5>3. PICK f \in DOMAIN ClientEmitter : q = Append(e, f)
          BY <2>3, <5>2
        <5> QED
          BY <2>1, <2>2, <4>1, <5>3, EmitterTyped
      <4> QED
        BY <2>1, <3>1, <4>2, <4>3, PlainValues
    <3>2. CASE p # e
      <4>1. p \in DOMAIN d /\ r[p] = d[p]
        BY <2>1, <2>5, <2>8, <3>2
      <4>2. IsObject(r[p]) /\ \A f \in t.required : ~Missing(d, Append(p, f))
        BY <2>8, <4>1, WellTypedAt
      <4>3. \A f \in t.required : ~Missing(r, Append(p, f))
        BY <2>1, <4>2, PlainValues DEF Missing, Undefined, IsObject
      <4>4. ASSUME NEW q \in Below(r, p)
            PROVE  /\ Declared(t, Last(q))
                   /\ \/ Admits(TypeBelow(t, Last(q)), r[q])
                      \/ d[q] = Undefined /\ r[q] = Undefined /\ Last(q) \notin t.required /\ "others" \notin DOMAIN t
        <5>1. q \in DOMAIN r /\ q # <<>> /\ Front(q) = p
          BY <2>4, <2>8, BelowIs
        <5>2. q \notin EmitterFields
          BY <2>2, <2>3, <3>2, <5>1
        <5>3. CASE q = e
          BY <2>1, <2>2, <2>3, <2>5, <2>8, <5>1, <5>3, EmitterTyped
        <5>4. CASE q # e
          <6>1. q \in DOMAIN d /\ r[q] = d[q] /\ q \in Below(d, p)
            BY <2>1, <5>1, <5>2, <5>4 DEF Below
          <6> QED
            BY <2>8, <4>1, <6>1, WellTypedAt
        <5> QED
          BY <5>3, <5>4
      <4> QED
        BY <4>2, <4>3, <4>4
    <3> QED
      BY <3>1, <3>2
  <2>9. WellTyped(r)
    <3> SUFFICES ASSUME NEW entry \in TypedObjects, entry[1] \in DOMAIN r, r[entry[1]] # Undefined
                 PROVE  /\ IsObject(r[entry[1]])
                        /\ \A f \in entry[2].required : ~Missing(r, Append(entry[1], f))
                        /\ \A q \in Below(r, entry[1]) :
                             /\ Declared(entry[2], Last(q))
                             /\ \/ Admits(TypeBelow(entry[2], Last(q)), r[q])
                                \/ r[q] = Undefined /\ Last(q) \notin entry[2].required /\ "others" \notin DOMAIN entry[2]
      BY <2>7 DEF WellTyped
    <3>1. <<entry[1], entry[2]>> \in TypedObjects
      BY TypedObjectsAre
    <3> QED
      BY <2>8, <3>1
  <2> QED
    BY <2>4, <2>6, <2>9 DEF r
<1> QED
  BY <1>1, <1>2
-----------------------------------------------------------------------------
(* Only the judging of a record can report something of it. *)
LEMMA TypesJudged ==
  ASSUME NEW who, NEW found, NEW data, Judged(who, found, data),
         WellTyped(doc) => \A i \in found : Allowed(doc, i)
  PROVE  TypesHonoured'
<1>1. doc' = doc /\ issues' = found
  BY DEF Judged
<1>2. WellTyped(doc)' => \A i \in issues' : Allowed(doc', i)
  BY <1>1
<1> QED
  BY <1>2 DEF TypesHonoured, Allowed, Whole

(* No step breaks the promise of the types. *)
LEMMA TypesStep == RecordsInv /\ TypesHonoured /\ [RecordNext]_recordVars => TypesHonoured'
<1> SUFFICES ASSUME RecordsInv, TypesHonoured, [RecordNext]_recordVars PROVE TypesHonoured'
  OBVIOUS
<1>1. ASSUME NEW configured \in BOOLEAN, ClientRecord(configured) PROVE TypesHonoured'
  <2> DEFINE copy == StampEmitter(doc, configured)
             found == Inspect(Clone(copy), clock)
  <2>1. WellTyped(doc) =>
          /\ Tree(copy) /\ WellTyped(copy)
          /\ \A q \in DOMAIN copy : copy[q].type = "number" => q \in DOMAIN doc /\ doc[q].type = "number"
    BY StampedTyped DEF RecordsInv
  <2>2. IF Clones(copy) THEN Judged("client", found, Queued(Clone(copy)))
        ELSE Judged("client", {Issue("INVALID_TYPE", <<>>)}, Nil)
    BY <1>1, Zenon DEF ClientRecord
  <2> HIDE DEF copy
  <2>3. WellTyped(doc) => Clones(copy) /\ \A i \in found : Allowed(doc, i)
    <3> SUFFICES ASSUME WellTyped(doc) PROVE Clones(copy) /\ \A i \in found : Allowed(doc, i)
      OBVIOUS
    <3>1. Clones(copy) /\ Clone(copy) = copy
      BY <2>1, TypedCopies
    <3>2. \A i \in found : Allowed(copy, i)
      BY <2>1, <3>1, InspectAllowed
    <3> QED
      BY <2>1, <3>1, <3>2 DEF Allowed, Has
  <2> HIDE DEF found
  <2>4. CASE Clones(copy)
    BY <2>2, <2>3, <2>4, TypesJudged
  <2>5. CASE ~Clones(copy)
    BY <2>2, <2>3, <2>5, TypesJudged
  <2> QED
    BY <2>4, <2>5
<1>2. ASSUME ParseRecord PROVE TypesHonoured'
  <2>1. WellTyped(doc) => \A i \in ParseIssues(doc, clock) : Allowed(doc, i)
    BY ParseAllowed DEF RecordsInv
  <2>2. Judged("parse", ParseIssues(doc, clock), Clone(doc))
    BY <1>2 DEF ParseRecord
  <2> QED
    BY <2>1, <2>2, TypesJudged
<1>3. ASSUME stage' # "judged" PROVE TypesHonoured'
  BY <1>3 DEF TypesHonoured
<1>4. ASSUME NEW e, Edit(e) PROVE stage' # "judged"
  BY <1>4 DEF Edit
<1>5. EncodeRecord => stage' # "judged"
  BY DEF EncodeRecord
<1>6. DecodeRecord => stage' # "judged"
  BY DEF DecodeRecord
<1>7. Tick => stage' # "judged"
  BY DEF Tick
<1>8. CASE UNCHANGED recordVars
  BY <1>8 DEF TypesHonoured, recordVars
<1> QED
  BY <1>1, <1>2, <1>3, <1>4, <1>5, <1>6, <1>7, <1>8 DEF RecordNext

(* The generated types keep their promise: whatever a caller who compiled against them builds
   is never rejected, by record() or by parseRecord(), for a value of the wrong type, a word
   that is not in an enumeration, an undeclared property or a required one that is absent,
   but for what no type can say. *)
THEOREM RecordTypesHonoured == RecordSpec => []TypesHonoured
<1>1. RecordInit => TypesHonoured
  BY DEF RecordInit, TypesHonoured
<1> QED
  BY <1>1, RecordsInit, RecordsStep, TypesStep, PTL DEF RecordSpec

(* An object has one table. *)
LEMMA OneSchema ==
  ASSUME NEW p, NEW s, NEW t, <<p, s>> \in ObjectSchemas, <<p, t>> \in ObjectSchemas
  PROVE  s = t
<1> DEFINE Singles ==
             {<<"emitter", EmitterSchema>>, <<"timing", TimingSchema>>, <<"resource", ResourceSchema>>,
              <<"run", RunSchema>>, <<"attribution", AttributionSchema>>, <<"usage", UsageSchema>>,
                   <<"cost", CostSchema>>}
           Doubles == {<<"attribution", "labels", LabelsSchema>>, <<"usage", "llm", LlmUsageSchema>>,
                   <<"usage", "tool", ToolUsageSchema>>, <<"cost", "llm", LlmCostSchema>>,
                   <<"cost", "tool", ToolCostSchema>>}
<1>1. ASSUME NEW x, <<p, x>> \in ObjectSchemas
      PROVE  \/ p = <<>> /\ x = RootSchema
             \/ \E o \in Singles : p = <<o[1]>> /\ x = o[2]
             \/ \E o \in Doubles : p = <<o[1], o[2]>> /\ x = o[3]
  BY <1>1, ObjectSchemasAre
<1>2. \A a, b, c, f : <<a>> # <<>> /\ <<a, b>> # <<>> /\ <<a>> # <<b, c>> /\ (<<a>> = <<b>> => a = b)
                      /\ (<<a, b>> = <<c, f>> => a = c /\ b = f)
  OBVIOUS
<1>3. \A o, r \in Singles : o[1] = r[1] => o[2] = r[2]
  OBVIOUS
<1>4. \A o, r \in Doubles : o[1] = r[1] /\ o[2] = r[2] => o[3] = r[3]
  OBVIOUS
<1> HIDE DEF Singles, Doubles
<1> QED
  BY <1>1, <1>2, <1>3, <1>4

(* A path of one name is below the record itself. *)
LEMMA FrontOfOne ==
  ASSUME NEW f
  PROVE  Front(<<f>>) = <<>> /\ Last(<<f>>) = f
<1>1. <<f>> \in Seq({f}) /\ <<f>> # <<>> /\ Len(<<f>>) = 1 /\ <<f>>[1] = f
  OBVIOUS
<1>2. PICK x : x = <<f>>
  OBVIOUS
<1>3. Front(x) \in Seq({f}) /\ Len(Front(x)) = Len(x) - 1
  BY <1>1, <1>2, FrontIs
<1>4. Front(x) = <<>>
  <2> DEFINE y == Front(x)
  <2>1. y \in Seq({f}) /\ Len(y) = 0
    BY <1>1, <1>2, <1>3
  <2> HIDE DEF y
  <2>2. y = <<>>
    BY <2>1, EmptySeq
  <2> QED
    BY <2>2 DEF y
<1>5. Last(x) = f
  BY <1>1, <1>2 DEF Last
<1> QED
  BY <1>2, <1>4, <1>5

(* The schema of a property that has a table of its own wants an object. *)
LEMMA ChildObject ==
  ASSUME NEW p, p # <<>>, NEW s, <<p, s>> \in ObjectSchemas,
         NEW t, <<Front(p), t>> \in ObjectSchemas
  PROVE  LET child == Child(t, Last(p)) IN "type" \in DOMAIN child /\ child.type = "object"
<1> DEFINE Wants(schema, f) == LET child == Child(schema, f) IN "type" \in DOMAIN child /\ child.type = "object"
<1>1. \A f \in {"emitter", "timing", "resource", "run", "attribution", "usage", "cost"} : Wants(RootSchema, f)
  BY DEF Child, RootSchema, EmitterSchema, TimingSchema, ResourceSchema, RunSchema, AttributionSchema,
         UsageSchema, CostSchema
<1>2. Wants(AttributionSchema, "labels")
  BY DEF Child, AttributionSchema, Merge, LabelsSchema
<1>3. \A f \in {"llm", "tool"} : Wants(UsageSchema, f)
  BY DEF Child, UsageSchema, LlmUsageSchema, ToolUsageSchema
<1>4. \A f \in {"llm", "tool"} : Wants(CostSchema, f)
  BY DEF Child, CostSchema, Merge, CostTotals, Discounts, LlmCostSchema, ToolCostSchema
<1> HIDE DEF Wants
<1>5. \A f : Front(<<f>>) = <<>> /\ Last(<<f>>) = f
  BY FrontOfOne
<1>6. \A a, b : Front(<<a, b>>) = <<a>> /\ Last(<<a, b>>) = b
  BY FrontOfTwo DEF Last
<1>7. \/ \E f \in {"emitter", "timing", "resource", "run", "attribution", "usage", "cost"} : p = <<f>>
      \/ p = <<"attribution", "labels">>
      \/ \E a \in {"usage", "cost"} : \E f \in {"llm", "tool"} : p = <<a, f>>
  BY ObjectSchemasAre
<1>8. /\ <<<<>>, RootSchema>> \in ObjectSchemas /\ <<<<"attribution">>, AttributionSchema>> \in ObjectSchemas
      /\ <<<<"usage">>, UsageSchema>> \in ObjectSchemas /\ <<<<"cost">>, CostSchema>> \in ObjectSchemas
  BY ObjectSchemasAre
<1>9. ASSUME NEW f \in {"emitter", "timing", "resource", "run", "attribution", "usage", "cost"}, p = <<f>>
      PROVE  Wants(t, Last(p))
  <2>1. Front(p) = <<>> /\ Last(p) = f
    BY <1>5, <1>9
  <2>2. t = RootSchema
    BY <1>8, <2>1, OneSchema
  <2> QED
    BY <1>1, <2>1, <2>2
<1>10. CASE p = <<"attribution", "labels">>
  <2>1. Front(p) = <<"attribution">> /\ Last(p) = "labels"
    BY <1>6, <1>10
  <2>2. t = AttributionSchema
    BY <1>8, <2>1, OneSchema
  <2> QED
    BY <1>2, <2>1, <2>2 DEF Wants
<1>11. ASSUME NEW a \in {"usage", "cost"}, NEW f \in {"llm", "tool"}, p = <<a, f>> PROVE Wants(t, Last(p))
  <2>1. Front(p) = <<a>> /\ Last(p) = f
    BY <1>6, <1>11
  <2>2. t = IF a = "usage" THEN UsageSchema ELSE CostSchema
    <3>1. CASE a = "usage"
      BY <1>8, <2>1, <3>1, OneSchema
    <3>2. CASE a = "cost"
      BY <1>8, <2>1, <3>2, OneSchema
    <3> QED
      BY <3>1, <3>2
  <2> QED
    BY <1>3, <1>4, <2>1, <2>2
<1> QED
  BY <1>7, <1>9, <1>10, <1>11 DEF Wants

(* What each table asks of an object as a whole. *)
Asks(p, schema) ==
  /\ "maxProperties" \notin DOMAIN schema /\ "propertyNames" \notin DOMAIN schema
  /\ "required" \in DOMAIN schema /\ "*" \notin schema.required /\ "received_time" \notin schema.required
  /\ p = <<"usage">> => schema.required = {}
  /\ IF p \in MayNotBeEmpty THEN "minProperties" \in DOMAIN schema /\ schema.minProperties = 1
     ELSE "minProperties" \notin DOMAIN schema

(* The labels have a limit and rules for their names; every other object has properties of its
   own, and three have to have one. *)
LEMMA TablesAsk ==
  ASSUME NEW p, NEW schema, <<p, schema>> \in ObjectSchemas
  PROVE  IF p = Labels
         THEN /\ "required" \notin DOMAIN schema /\ "minProperties" \notin DOMAIN schema
              /\ "maxProperties" \in DOMAIN schema /\ schema.maxProperties = 20
              /\ "propertyNames" \in DOMAIN schema /\ \A name : Known(schema, name)
         ELSE Asks(p, schema)
<1>1. /\ "required" \notin DOMAIN LabelsSchema /\ "minProperties" \notin DOMAIN LabelsSchema
      /\ "maxProperties" \in DOMAIN LabelsSchema /\ LabelsSchema.maxProperties = 20
      /\ "propertyNames" \in DOMAIN LabelsSchema /\ "otherProperties" \in DOMAIN LabelsSchema
  BY DEF LabelsSchema
<1>2. Asks(<<>>, RootSchema)
  BY DEF Asks, MayNotBeEmpty, RootSchema
<1>3. Asks(<<"emitter">>, EmitterSchema)
  BY DEF Asks, MayNotBeEmpty, EmitterSchema
<1>4. Asks(<<"timing">>, TimingSchema)
  BY DEF Asks, MayNotBeEmpty, TimingSchema
<1>5. Asks(<<"resource">>, ResourceSchema)
  BY DEF Asks, MayNotBeEmpty, ResourceSchema
<1>6. Asks(<<"run">>, RunSchema)
  BY DEF Asks, MayNotBeEmpty, RunSchema
<1>7. Asks(<<"attribution">>, AttributionSchema)
  BY DEF Asks, MayNotBeEmpty, AttributionSchema
<1>8. Asks(<<"usage">>, UsageSchema)
  BY DEF Asks, MayNotBeEmpty, UsageSchema
<1>9. Asks(<<"cost">>, CostSchema)
  BY DEF Asks, MayNotBeEmpty, CostSchema
<1>10. Asks(<<"usage", "llm">>, LlmUsageSchema) /\ Asks(<<"usage", "tool">>, ToolUsageSchema)
  BY DEF Asks, MayNotBeEmpty, LlmUsageSchema, ToolUsageSchema
<1>11. Asks(<<"cost", "llm">>, LlmCostSchema) /\ Asks(<<"cost", "tool">>, ToolCostSchema)
  BY DEF Asks, MayNotBeEmpty, LlmCostSchema, ToolCostSchema
<1>12. <<p, schema>> = <<Labels, LabelsSchema>> \/ (p # Labels /\ Asks(p, schema))
  BY <1>2, <1>3, <1>4, <1>5, <1>6, <1>7, <1>8, <1>9, <1>10, <1>11, ObjectSchemasAre DEF Labels
<1> QED
  BY <1>1, <1>12 DEF Known

(* A path is reported as it is, or with the name of a label hidden. *)
LEMMA PointerShows ==
  ASSUME NEW S, NEW q \in Seq(S)
  PROVE  /\ Pointer(q) = q \/ "*" \in Range(Pointer(q))
         /\ \A k \in DOMAIN Pointer(q) : k > 1 /\ Pointer(q)[k - 1] = "labels" => Pointer(q)[k] = "*"
<1>1. Len(q) \in Nat /\ DOMAIN q = 1..Len(q) /\ q = [k \in DOMAIN q |-> q[k]] /\ DOMAIN Pointer(q) = DOMAIN q
  BY LenProperties DEF Pointer
<1>2. \A k \in DOMAIN q : Pointer(q)[k] = IF k > 1 /\ q[k - 1] = "labels" THEN "*" ELSE q[k]
  BY DEF Pointer
<1>3. ASSUME \E k \in DOMAIN q : k > 1 /\ q[k - 1] = "labels"
      PROVE  "*" \in Range(Pointer(q))
  <2>1. PICK k \in DOMAIN q : k > 1 /\ q[k - 1] = "labels"
    BY <1>3
  <2>2. Pointer(q)[k] = "*"
    BY <1>2, <2>1
  <2>3. k \in DOMAIN Pointer(q)
    BY <1>1, <2>1
  <2> QED
    BY <2>2, <2>3 DEF Range
<1>4. ASSUME \A k \in DOMAIN q : ~(k > 1 /\ q[k - 1] = "labels")
      PROVE  Pointer(q) = q
  <2>1. Pointer(q) = [k \in DOMAIN q |-> q[k]]
    BY <1>4 DEF Pointer
  <2> QED
    BY <1>1, <2>1
<1>5. ASSUME NEW k \in DOMAIN Pointer(q), k > 1, Pointer(q)[k - 1] = "labels"
      PROVE  Pointer(q)[k] = "*"
  <2>1. k - 1 \in DOMAIN q /\ k \in DOMAIN q
    BY <1>1, <1>5
  <2>2. q[k - 1] = "labels"
    BY <1>2, <1>5, <2>1
  <2> QED
    BY <1>2, <1>5, <2>1, <2>2
<1> QED
  BY <1>3, <1>4, <1>5

(* Where the tables are: only the labels have names of the caller. *)
LEMMA SchemaPaths ==
  ASSUME NEW p, NEW schema, <<p, schema>> \in ObjectSchemas, p # Labels
  PROVE  Unlabelled(p) /\ \A k \in DOMAIN p : p[k] # "*"
<1> DEFINE Named(x) == \A k \in DOMAIN x : x[k] \notin {"labels", "*"}
<1>1. \A a \in {"emitter", "timing", "resource", "run", "attribution", "usage", "cost"} : Named(<<a>>)
  OBVIOUS
<1>2. \A a \in {"usage", "cost"} : \A b \in {"llm", "tool"} : Named(<<a, b>>)
  OBVIOUS
<1>3. Named(<<>>)
  OBVIOUS
<1> HIDE DEF Named
<1>4. Named(p)
  BY <1>1, <1>2, <1>3, ObjectSchemasAre DEF Labels
<1> QED
  BY <1>4 DEF Named, Unlabelled
-----------------------------------------------------------------------------
(* What the tables find in one object. *)
ErrorsAt(d, p, schema) == ObjectErrors(d, p, schema) \cup PropertyErrors(d, p, schema)

Plainest(keyword, p, beneath) == Error(keyword, p, beneath, "other", FALSE)
OfName(keyword, p, beneath) == [Plainest(keyword, p, beneath) EXCEPT !.inName = TRUE]

(* The errors of an object as a whole, by what they are about. *)
ErrorIs(d, p, schema, e) ==
  \/ /\ p # Labels
     /\ \E f \in schema.required : /\ f \notin {Last(q) : q \in Below(d, p)}
                                   /\ e = Plainest("required", p, <<f>>)
  \/ /\ p # Labels
     /\ \E q \in Below(d, p) : ~Known(schema, Last(q)) /\ e = Plainest("additionalProperties", p, <<Last(q)>>)
  \/ p \in MayNotBeEmpty /\ Size(d, p) < 1 /\ e = Plainest("minProperties", p, <<>>)
  \/ p = Labels /\ Size(d, p) > 20 /\ e = Plainest("maxProperties", p, <<>>)
  \/ /\ p = Labels
     /\ \E q \in Below(d, p) : Last(q) \in LongNames /\ e = OfName("maxLength", p, <<Last(q)>>)
  \/ /\ p = Labels
     /\ \E q \in Below(d, p) : Last(q) \notin LabelFits /\ e = OfName("pattern", p, <<Last(q)>>)
  \/ /\ p = Labels
     /\ \E q \in Below(d, p) : /\ Last(q) \in LongNames \/ Last(q) \notin LabelFits
                               /\ e = Plainest("propertyNames", p, <<Last(q)>>)

(* They are these. *)
LEMMA ObjectErrorsAre ==
  ASSUME NEW d, NEW p, NEW schema, <<p, schema>> \in ObjectSchemas, NEW e
  PROVE  e \in ObjectErrors(d, p, schema) <=> ErrorIs(d, p, schema, e)
<1> DEFINE names == {Last(q) : q \in Below(d, p)}
           required == {Plainest("required", p, <<f>>) :
                          f \in (IF "required" \in DOMAIN schema THEN schema.required ELSE {}) \ names}
           unknown == {Plainest("additionalProperties", p, <<f>>) : f \in {g \in names : ~Known(schema, g)}}
           few == {Plainest(k, p, <<>>) : k \in {x \in {"minProperties"} : x \in DOMAIN schema /\ Size(d, p) < schema.minProperties}}
           many == {Plainest(k, p, <<>>) : k \in {x \in {"maxProperties"} : x \in DOMAIN schema /\ Size(d, p) > schema.maxProperties}}
           long == {OfName("maxLength", p, <<f>>) : f \in names \cap LongNames}
           unfit == {OfName("pattern", p, <<f>>) : f \in names \ LabelFits}
           misnamed == {Plainest("propertyNames", p, <<f>>) : f \in names \cap (LongNames \cup (names \ LabelFits))}
<1>1. ObjectErrors(d, p, schema) =
        required \cup unknown \cup few \cup many \cup
        (IF "propertyNames" \notin DOMAIN schema THEN {} ELSE long \cup unfit \cup misnamed)
  BY Zenon DEF ObjectErrors, Plainest, OfName
<1>2. /\ e \in long <=> \E q \in Below(d, p) : Last(q) \in LongNames /\ e = OfName("maxLength", p, <<Last(q)>>)
      /\ e \in unfit <=> \E q \in Below(d, p) : Last(q) \notin LabelFits /\ e = OfName("pattern", p, <<Last(q)>>)
  OBVIOUS
<1>3. e \in misnamed <=> \E q \in Below(d, p) : /\ Last(q) \in LongNames \/ Last(q) \notin LabelFits
                                                /\ e = Plainest("propertyNames", p, <<Last(q)>>)
  OBVIOUS
<1>4. e \in unknown <=> \E q \in Below(d, p) : ~Known(schema, Last(q)) /\ e = Plainest("additionalProperties", p, <<Last(q)>>)
  OBVIOUS
<1>5. /\ e \in few <=> "minProperties" \in DOMAIN schema /\ Size(d, p) < schema.minProperties
                       /\ e = Plainest("minProperties", p, <<>>)
      /\ e \in many <=> "maxProperties" \in DOMAIN schema /\ Size(d, p) > schema.maxProperties
                        /\ e = Plainest("maxProperties", p, <<>>)
  OBVIOUS
<1>6. e \in required <=> \E f \in (IF "required" \in DOMAIN schema THEN schema.required ELSE {}) :
                           f \notin names /\ e = Plainest("required", p, <<f>>)
  OBVIOUS
<1> HIDE DEF names, required, unknown, few, many, long, unfit, misnamed
<1>7. Labels \notin MayNotBeEmpty
  BY DEF Labels, MayNotBeEmpty
<1>8. CASE p = Labels
  BY <1>1, <1>2, <1>3, <1>4, <1>5, <1>6, <1>7, <1>8, TablesAsk DEF ErrorIs
<1>9. CASE p # Labels
  BY <1>1, <1>4, <1>5, <1>6, <1>9, TablesAsk DEF ErrorIs, names, Asks
<1> QED
  BY <1>8, <1>9

(* What an error of the tables tells: it is about a property that is there, unless it says
   that one is required. *)
AllKeywords ==
  {"type", "enum", "minLength", "maxLength", "pattern", "minimum", "maximum", "required",
   "additionalProperties", "minProperties", "maxProperties", "propertyNames"}

Blamed(e) == e.at \o e.beneath

Tells(d, e) ==
  LET q == Blamed(e)
  IN /\ \E S : e.at \in Seq(S) /\ q \in Seq(S)
     /\ e.conditional = FALSE /\ e.keyword \in AllKeywords
     /\ e.inName => e.keyword \in {"maxLength", "pattern"}
     /\ e.keyword # "required" => q \in DOMAIN d
     /\ e.keyword = "required" => /\ q \notin DOMAIN d /\ Pointer(q) = q /\ q # SinkOwned
                                  /\ \A k \in DOMAIN q : q[k] # "*"
     /\ \A f \in FieldCodes : f[1] = e.at /\ f[2] = e.keyword => e.beneath = <<>> /\ e.keyword # "required"

(* The fields with codes of their own: none of these says that a property is absent or has the
   wrong type. *)
LEMMA FieldsAre ==
  \A f \in FieldCodes : /\ f[2] \in {"pattern", "minLength", "maxLength", "required", "not"}
                        /\ f[2] = "required" => f[1] = <<"usage">>
                        /\ f[1] # Labels
                        /\ f[3] \notin {"REQUIRED", "INVALID_TYPE"}
<1>1. \A a : <<a>> # Labels
  BY DEF Labels
<1>2. <<"cost", "currency">> # Labels
  BY DEF Labels
<1> QED
  BY <1>1, <1>2 DEF FieldCodes

(* An error about a property that is there. *)
LEMMA BelowTells ==
  ASSUME NEW d, Tree(d), NEW p \in DOMAIN d, NEW q \in Below(d, p), NEW e,
         NEW k, \/ k \in {"additionalProperties", "propertyNames"} /\ e = Plainest(k, p, <<Last(q)>>)
                \/ k \in {"maxLength", "pattern"} /\ p = Labels /\ e = OfName(k, p, <<Last(q)>>)
  PROVE  Tells(d, e) /\ Blamed(e) = q /\ e.keyword \notin {"required", "type"}
<1>0. /\ e.at = p /\ e.beneath = <<Last(q)>> /\ e.keyword = k
      /\ e.conditional = FALSE
      /\ e.inName => k \in {"maxLength", "pattern"}
  <2>1. CASE k \in {"additionalProperties", "propertyNames"} /\ e = Plainest(k, p, <<Last(q)>>)
    BY <2>1 DEF Plainest, Error
  <2>2. CASE k \in {"maxLength", "pattern"} /\ p = Labels /\ e = OfName(k, p, <<Last(q)>>)
    BY <2>2 DEF OfName, Plainest, Error
  <2> QED
    BY <2>1, <2>2
<1>1. p \in Seq(Names) /\ q \in Seq(Names) /\ q \in DOMAIN d /\ q # <<>> /\ q = Append(p, Last(q))
  BY BelowIs DEF Tree
<1>2. Blamed(e) = q
  <2>1. Last(q) \in Names
    BY <1>1, FrontIs
  <2>2. p \o <<Last(q)>> = Append(p, Last(q))
    BY <1>1, <2>1, AppendIsConcat
  <2> QED
    BY <1>0, <1>1, <2>2 DEF Blamed
<1>3. e.keyword \in AllKeywords \ {"required", "type"}
  BY <1>0 DEF AllKeywords
<1>4. \A f \in FieldCodes : ~(f[1] = e.at /\ f[2] = e.keyword)
  BY <1>0, FieldsAre
<1> QED
  BY <1>0, <1>1, <1>2, <1>3, <1>4 DEF Tells

(* An error about a property that is absent. *)
LEMMA RequiredTells ==
  ASSUME NEW d, Tree(d), NEW p \in DOMAIN d, NEW schema, <<p, schema>> \in ObjectSchemas, p # Labels,
         NEW f \in schema.required, f \notin {Last(q) : q \in Below(d, p)}, NEW e,
         e = Plainest("required", p, <<f>>)
  PROVE  Tells(d, e) /\ Blamed(e) = Append(p, f)
<1> DEFINE S == Names \cup {f}
           q == Append(p, f)
<1>1. p \in Seq(S) /\ f \in S
  <2>1. p \in Seq(Names)
    BY DEF Tree
  <2> QED
    BY <2>1, SeqMonotonic
<1> HIDE DEF S
<1>2. e.at = p /\ e.beneath = <<f>> /\ e.keyword = "required" /\ e.conditional = FALSE /\ e.inName = FALSE
  BY DEF Plainest, Error
<1>3. f # "received_time" /\ f # "*" /\ p # <<"usage">>
  BY TablesAsk DEF Asks
<1>4. <<f>> \in Seq(S) /\ p \o <<f>> = q /\ q # SinkOwned
  BY <1>1, <1>3, AppendedApart
<1>5. q \in Seq(S) /\ q # <<>> /\ Front(q) = p /\ Last(q) = f
  BY <1>1, AppendedFront
<1>6. q \notin DOMAIN d
  <2> SUFFICES ASSUME q \in DOMAIN d PROVE FALSE
    OBVIOUS
  <2>1. q \in Below(d, p)
    BY <1>5, ChildBelow
  <2> QED
    BY <1>5, <2>1
<1>7. Pointer(q) = q
  BY <1>1, SchemaPaths, PointerSame
<1>8. \A k \in DOMAIN q : q[k] # "*"
  <2> SUFFICES ASSUME NEW k \in DOMAIN q PROVE q[k] # "*"
    OBVIOUS
  <2>1. Len(q) = Len(p) + 1 /\ Len(p) \in Nat /\ q[Len(p) + 1] = f /\ \A i \in 1..Len(p) : q[i] = p[i]
    BY <1>1, AppendProperties, LenProperties
  <2> HIDE DEF q
  <2>2. DOMAIN q = 1..Len(q) /\ DOMAIN p = 1..Len(p)
    BY <1>1, <1>5, LenProperties
  <2>3. k \in DOMAIN p \/ k = Len(p) + 1
    BY <2>1, <2>2
  <2>4. \A i \in DOMAIN p : p[i] # "*"
    BY SchemaPaths
  <2> QED
    BY <1>3, <2>1, <2>2, <2>3, <2>4
<1>9. \A x \in FieldCodes : ~(x[1] = e.at /\ x[2] = e.keyword)
  BY <1>2, <1>3, FieldsAre
<1> HIDE DEF q
<1>10. Blamed(e) = q
  BY <1>2, <1>4 DEF Blamed
<1>11. Tells(d, e)
  <2>1. \E T : e.at \in Seq(T) /\ Blamed(e) \in Seq(T)
    BY <1>1, <1>2, <1>5, <1>10
  <2>2. e.keyword \in AllKeywords
    BY <1>2 DEF AllKeywords
  <2> QED
    BY <1>2, <1>4, <1>6, <1>7, <1>8, <1>9, <1>10, <2>1, <2>2 DEF Tells
<1> QED
  BY <1>10, <1>11 DEF q

(* An error about the number of properties. *)
LEMMA SizeTells ==
  ASSUME NEW d, Tree(d), NEW p \in DOMAIN d, NEW k \in {"minProperties", "maxProperties"}, NEW e,
         e = Plainest(k, p, <<>>)
  PROVE  Tells(d, e) /\ Blamed(e) = p /\ e.keyword \notin {"required", "type"}
<1>1. p \in Seq(Names)
  BY DEF Tree
<1>2. e.at = p /\ e.beneath = <<>> /\ e.keyword = k /\ e.conditional = FALSE /\ e.inName = FALSE
  BY DEF Plainest, Error
<1>3. Blamed(e) = p
  BY <1>1, <1>2, ConcatEmptySeq DEF Blamed
<1>4. \A x \in FieldCodes : ~(x[1] = e.at /\ x[2] = e.keyword)
  BY <1>2, FieldsAre
<1> QED
  BY <1>1, <1>2, <1>3, <1>4 DEF Tells, AllKeywords

(* Every error of an object as a whole is about a fault in it. *)
LEMMA ObjectTells ==
  ASSUME NEW d, Tree(d), NEW p \in DOMAIN d, NEW schema, <<p, schema>> \in ObjectSchemas,
         NEW e \in ObjectErrors(d, p, schema)
  PROVE  /\ Tells(d, e) /\ Blamed(e) \in FaultsAt(d, p, schema)
         /\ e.keyword # "type" /\ e.at = p
<1>1. ErrorIs(d, p, schema, e)
  BY ObjectErrorsAre
<1>3. ASSUME p # Labels, NEW f \in schema.required, f \notin {Last(x) : x \in Below(d, p)},
             e = Plainest("required", p, <<f>>)
      PROVE  Tells(d, e) /\ Blamed(e) \in FaultsAt(d, p, schema)
  <2>1. Tells(d, e) /\ Blamed(e) = Append(p, f)
    BY <1>3, RequiredTells
  <2> QED
    BY <1>3, <2>1 DEF FaultsAt
<1>4. ASSUME p # Labels, NEW x \in Below(d, p), ~Known(schema, Last(x)),
             e = Plainest("additionalProperties", p, <<Last(x)>>)
      PROVE  Tells(d, e) /\ Blamed(e) \in FaultsAt(d, p, schema)
  <2>0. PICK k : k = "additionalProperties"
    OBVIOUS
  <2>1. Tells(d, e) /\ Blamed(e) = x
    <3>1. k \in {"additionalProperties", "propertyNames"} /\ e = Plainest(k, p, <<Last(x)>>)
      BY <1>4, <2>0
    <3> QED
      BY <3>1, BelowTells
  <2> QED
    BY <1>4, <2>1 DEF FaultsAt
<1>5. ASSUME NEW k \in {"minProperties", "maxProperties"}, e = Plainest(k, p, <<>>),
             (p = Labels /\ Size(d, p) > 20) \/ (p \in MayNotBeEmpty /\ Size(d, p) < 1)
      PROVE  Tells(d, e) /\ Blamed(e) \in FaultsAt(d, p, schema)
  <2>1. Tells(d, e) /\ Blamed(e) = p
    BY <1>5, SizeTells
  <2> QED
    BY <1>5, <2>1 DEF FaultsAt
<1>6. ASSUME p = Labels, NEW x \in Below(d, p), Last(x) \in LongNames \/ Last(x) \notin LabelFits,
             \/ e \in {OfName("maxLength", p, <<Last(x)>>), OfName("pattern", p, <<Last(x)>>)}
             \/ e = Plainest("propertyNames", p, <<Last(x)>>)
      PROVE  Tells(d, e) /\ Blamed(e) \in FaultsAt(d, p, schema)
  <2>0. PICK k : \/ k = "propertyNames" /\ e = Plainest(k, p, <<Last(x)>>)
                 \/ k \in {"maxLength", "pattern"} /\ e = OfName(k, p, <<Last(x)>>)
    BY <1>6
  <2>1. Tells(d, e) /\ Blamed(e) = x
    <3>1. CASE k \in {"additionalProperties", "propertyNames"} /\ e = Plainest(k, p, <<Last(x)>>)
      BY <3>1, BelowTells
    <3>2. CASE k \in {"maxLength", "pattern"} /\ p = Labels /\ e = OfName(k, p, <<Last(x)>>)
      BY <3>2, BelowTells
    <3> QED
      BY <1>6, <2>0, <3>1, <3>2
  <2> QED
    BY <1>6, <2>1 DEF FaultsAt
<1>7. Tells(d, e) /\ Blamed(e) \in FaultsAt(d, p, schema)
  <2> QED
    BY <1>1, <1>3, <1>4, <1>5, <1>6 DEF ErrorIs
<1>8. e.keyword # "type" /\ e.at = p
  <2>1. PICK k, b : k # "type" /\ (e = Plainest(k, p, b) \/ e = OfName(k, p, b))
    BY <1>1 DEF ErrorIs
  <2>2. CASE e = Plainest(k, p, b)
    BY <2>1, <2>2 DEF Plainest, Error
  <2>3. CASE e = OfName(k, p, b)
    BY <2>1, <2>3 DEF OfName, Plainest, Error
  <2> QED
    BY <2>1, <2>2, <2>3
<1> QED
  BY <1>7, <1>8

(* The errors about the values of an object's properties. *)
OfValue(schema, k, q) == Error(k, q, <<>>, Kind(Child(schema, Last(q))), FALSE)

(* They are these: *)
LEMMA PropertyErrorsAre ==
  ASSUME NEW d, NEW p, NEW schema, NEW e
  PROVE  e \in PropertyErrors(d, p, schema) <=>
           \E q \in Below(d, p) : Known(schema, Last(q)) /\ \E k \in Breaks(d[q], Child(schema, Last(q))) :
             e = OfValue(schema, k, q)
<1> DEFINE Of(q) == {OfValue(schema, k, q) :
                       k \in Breaks(d[q], Child(schema, Last(q)))}
           known == {q \in Below(d, p) : Known(schema, Last(q))}
<1>1. PropertyErrors(d, p, schema) = UNION {Of(q) : q \in known}
  BY DEF PropertyErrors, OfValue
<1>2. \A q : e \in Of(q) <=> \E k \in Breaks(d[q], Child(schema, Last(q))) :
                                e = OfValue(schema, k, q)
  OBVIOUS
<1>3. \A q : q \in known <=> q \in Below(d, p) /\ Known(schema, Last(q))
  OBVIOUS
<1> HIDE DEF Of, known
<1>4. e \in PropertyErrors(d, p, schema) <=> \E q \in known : e \in Of(q)
  BY <1>1
<1> QED
  BY <1>2, <1>3, <1>4

(* each says what it is about. *)
LEMMA PropertySays ==
  ASSUME NEW d, NEW p, NEW schema, NEW e \in PropertyErrors(d, p, schema)
  PROVE  /\ e.at \in Below(d, p) /\ Known(schema, Last(e.at))
         /\ e.keyword \in Breaks(d[e.at], Child(schema, Last(e.at)))
         /\ e = OfValue(schema, e.keyword, e.at)
<1>1. PICK q \in Below(d, p) : Known(schema, Last(q)) /\ \E k \in Breaks(d[q], Child(schema, Last(q))) :
             e = OfValue(schema, k, q)
  BY PropertyErrorsAre
<1>2. PICK k \in Breaks(d[q], Child(schema, Last(q))) : e = OfValue(schema, k, q)
  BY <1>1
<1>3. e.at = q /\ e.keyword = k
  BY <1>2 DEF OfValue, Error
<1> QED
  BY <1>1, <1>2, <1>3

(* Each is about a fault in its object. *)
LEMMA PropertyTells ==
  ASSUME NEW d, Tree(d), NEW p \in DOMAIN d, NEW schema, NEW e \in PropertyErrors(d, p, schema)
  PROVE  /\ Tells(d, e) /\ Blamed(e) \in FaultsAt(d, p, schema)
         /\ Blamed(e) = e.at /\ e.keyword # "required"
<1>1. /\ e.at \in Below(d, p) /\ Known(schema, Last(e.at))
      /\ e.keyword \in Breaks(d[e.at], Child(schema, Last(e.at)))
      /\ e = OfValue(schema, e.keyword, e.at)
  BY PropertySays
<1>3. e.beneath = <<>> /\ e.conditional = FALSE /\ e.inName = FALSE
  BY <1>1 DEF OfValue, Error
<1>4. e.at \in Seq(Names) /\ e.at \in DOMAIN d
  BY <1>1, BelowIs DEF Tree
<1>5. Blamed(e) = e.at
  BY <1>3, <1>4, ConcatEmptySeq DEF Blamed
<1>6. e.keyword \in AllKeywords \ {"required"}
  BY <1>1 DEF Breaks, AllKeywords
<1>7. Tells(d, e)
  BY <1>3, <1>4, <1>5, <1>6 DEF Tells
<1>8. e.at \in FaultsAt(d, p, schema)
  BY <1>1 DEF FaultsAt
<1> QED
  BY <1>5, <1>6, <1>7, <1>8

(* An object that its table is applied to. *)
HasTable(d, p, schema) == <<p, schema>> \in ObjectSchemas /\ p \in DOMAIN d /\ IsObject(d[p])

(* Every fault of an object is blamed. *)
LEMMA FaultBlamed ==
  ASSUME NEW d, Tree(d), NEW p, NEW schema, HasTable(d, p, schema), NEW q \in FaultsAt(d, p, schema)
  PROVE  \E e \in ErrorsAt(d, p, schema) : Blamed(e) = q
<1> p \in DOMAIN d /\ <<p, schema>> \in ObjectSchemas
  BY DEF HasTable
<1>1. ASSUME p # Labels, NEW f \in schema.required, f \notin {Last(x) : x \in Below(d, p)}, q = Append(p, f)
      PROVE  \E e \in ErrorsAt(d, p, schema) : Blamed(e) = q
  <2>1. PICK e : e = Plainest("required", p, <<f>>)
    OBVIOUS
  <2>2. e \in ObjectErrors(d, p, schema)
    BY <1>1, <2>1, ObjectErrorsAre DEF ErrorIs
  <2>3. Blamed(e) = q
    BY <1>1, <2>1, RequiredTells
  <2> QED
    BY <2>2, <2>3 DEF ErrorsAt
<1>2. ASSUME q \in Below(d, p), ~Known(schema, Last(q))
      PROVE  \E e \in ErrorsAt(d, p, schema) : Blamed(e) = q
  <2>1. p # Labels
    BY <1>2, TablesAsk
  <2>2. PICK k, e : k = "additionalProperties" /\ e = Plainest(k, p, <<Last(q)>>)
    OBVIOUS
  <2>3. e \in ObjectErrors(d, p, schema)
    BY <1>2, <2>1, <2>2, ObjectErrorsAre DEF ErrorIs
  <2>4. k \in {"additionalProperties", "propertyNames"} /\ e = Plainest(k, p, <<Last(q)>>)
    BY <2>2
  <2>5. Blamed(e) = q
    BY <1>2, <2>4, BelowTells
  <2> QED
    BY <2>3, <2>5 DEF ErrorsAt
<1>3. ASSUME q \in Below(d, p), Known(schema, Last(q)), Breaks(d[q], Child(schema, Last(q))) # {}
      PROVE  \E e \in ErrorsAt(d, p, schema) : Blamed(e) = q
  <2>1. PICK k \in Breaks(d[q], Child(schema, Last(q))) : TRUE
    BY <1>3
  <2>2. PICK e : e = OfValue(schema, k, q)
    OBVIOUS
  <2>3. e \in PropertyErrors(d, p, schema)
    BY <1>3, <2>1, <2>2, PropertyErrorsAre
  <2>4. e.at = q
    BY <2>2 DEF OfValue, Error
  <2>5. Blamed(e) = q
    BY <2>3, <2>4, PropertyTells
  <2> QED
    BY <2>3, <2>5 DEF ErrorsAt
<1>4. ASSUME q \in Below(d, p), p = Labels, Last(q) \in LongNames \/ Last(q) \notin LabelFits
      PROVE  \E e \in ErrorsAt(d, p, schema) : Blamed(e) = q
  <2>2. PICK k, e : k = "propertyNames" /\ e = Plainest(k, p, <<Last(q)>>)
    OBVIOUS
  <2>3. e \in ObjectErrors(d, p, schema)
    BY <1>4, <2>2, ObjectErrorsAre DEF ErrorIs
  <2>4. k \in {"additionalProperties", "propertyNames"} /\ e = Plainest(k, p, <<Last(q)>>)
    BY <2>2
  <2>5. Blamed(e) = q
    BY <1>4, <2>4, BelowTells
  <2> QED
    BY <2>3, <2>5 DEF ErrorsAt
<1>5. ASSUME q = p, NEW k, \/ k = "maxProperties" /\ p = Labels /\ Size(d, p) > 20
                           \/ k = "minProperties" /\ p \in MayNotBeEmpty /\ Size(d, p) < 1
      PROVE  \E e \in ErrorsAt(d, p, schema) : Blamed(e) = q
  <2>1. PICK e : e = Plainest(k, p, <<>>)
    OBVIOUS
  <2>2. e \in ObjectErrors(d, p, schema)
    BY <1>5, <2>1, ObjectErrorsAre DEF ErrorIs
  <2>3. Blamed(e) = q
    BY <1>5, <2>1, SizeTells
  <2> QED
    BY <2>2, <2>3 DEF ErrorsAt
<1>6. \/ /\ p # Labels
         /\ \E f \in schema.required : f \notin {Last(x) : x \in Below(d, p)} /\ q = Append(p, f)
      \/ q \in Below(d, p) /\ ~Known(schema, Last(q))
      \/ q \in Below(d, p) /\ Known(schema, Last(q)) /\ Breaks(d[q], Child(schema, Last(q))) # {}
      \/ q \in Below(d, p) /\ p = Labels /\ (Last(q) \in LongNames \/ Last(q) \notin LabelFits)
      \/ q = p /\ p = Labels /\ Size(d, p) > 20
      \/ q = p /\ p \in MayNotBeEmpty /\ Size(d, p) < 1
  BY DEF FaultsAt
<1> QED
  BY <1>1, <1>2, <1>3, <1>4, <1>5, <1>6

(* A value of the wrong type has no other error: there is no more to say of it, and it has no
   properties that are looked at. *)
LEMMA TypeAlone ==
  ASSUME NEW d, Tree(d),
         NEW p, NEW s, HasTable(d, p, s), NEW e \in ErrorsAt(d, p, s),
         NEW r, NEW t, HasTable(d, r, t), NEW x \in ErrorsAt(d, r, t),
         x.keyword = "type", e.at = x.at
  PROVE  e = x
<1> DEFINE q == x.at
           child == Child(t, Last(q))
<1>0. /\ <<p, s>> \in ObjectSchemas /\ p \in DOMAIN d /\ IsObject(d[p])
      /\ <<r, t>> \in ObjectSchemas /\ r \in DOMAIN d
  BY DEF HasTable
<1>1. x \in PropertyErrors(d, r, t)
  BY <1>0, ObjectTells DEF ErrorsAt
<1>2. /\ q \in Below(d, r) /\ "type" \in Breaks(d[q], child)
      /\ x = OfValue(t, "type", q)
  <2>1. /\ x.at \in Below(d, r) /\ x.keyword \in Breaks(d[x.at], Child(t, Last(x.at)))
        /\ x = OfValue(t, x.keyword, x.at)
    <3> HIDE DEF q
    <3> QED
      BY <1>1, PropertySays
  <2> QED
    BY <2>1
<1>3. q # <<>> /\ Front(q) = r
  BY <1>0, <1>2, BelowIs
<1>4. "type" \in DOMAIN child /\ ~HasType(d[q], child.type) /\ Breaks(d[q], child) = {"type"}
  BY <1>2 DEF Breaks
<1>5. ASSUME e \in ObjectErrors(d, p, s) PROVE FALSE
  <2>1. p = q
    BY <1>0, <1>5, ObjectTells
  <2>2. child.type = "object"
    BY <1>0, <1>3, <2>1, ChildObject
  <2> QED
    BY <1>0, <1>4, <2>1, <2>2 DEF HasType, IsObject
<1>6. CASE e \in PropertyErrors(d, p, s)
  <2>1. /\ q \in Below(d, p) /\ e.keyword \in Breaks(d[q], Child(s, Last(q)))
        /\ e = OfValue(s, e.keyword, q)
    <3>1. /\ e.at \in Below(d, p) /\ e.keyword \in Breaks(d[e.at], Child(s, Last(e.at)))
          /\ e = OfValue(s, e.keyword, e.at)
      <4> HIDE DEF q
      <4> QED
        BY <1>6, PropertySays
    <3> QED
      BY <3>1
  <2>2. p = r
    BY <1>0, <1>3, <2>1, BelowIs
  <2>3. s = t
    BY <1>0, <2>2, OneSchema
  <2>4. e.keyword = "type"
    BY <1>4, <2>1, <2>3
  <2> QED
    BY <1>2, <2>1, <2>3, <2>4
<1> QED
  BY <1>5, <1>6 DEF ErrorsAt
-----------------------------------------------------------------------------
(* What is said of an issue by itself: REQUIRED is about what is absent, and the name of a label
   is not shown. *)
Proper(d, i) ==
  /\ i.code = "REQUIRED" <=> i.path \notin DOMAIN d /\ "*" \notin Range(i.path)
  /\ \A k \in DOMAIN i.path : k > 1 /\ i.path[k - 1] = "labels" => i.path[k] = "*"

(* An issue about what is there. *)
LEMMA ThereProper ==
  ASSUME NEW d, NEW S, NEW q \in Seq(S), q \in DOMAIN d, NEW i, i.path = Pointer(q), i.code # "REQUIRED"
  PROVE  Proper(d, i)
<1>1. i.path \in DOMAIN d \/ "*" \in Range(i.path)
  BY PointerShows
<1>2. \A k \in DOMAIN i.path : k > 1 /\ i.path[k - 1] = "labels" => i.path[k] = "*"
  BY PointerShows
<1> QED
  BY <1>1, <1>2 DEF Proper

(* How an error of the tables is reported. *)
LEMMA CodeTells ==
  ASSUME NEW d, NEW e, Tells(d, e)
  PROVE  LET i == ToIssue(e, d)
         IN /\ i.path = Pointer(Blamed(e))
            /\ i.code = "REQUIRED" <=> e.keyword = "required"
            /\ i.code = "INVALID_TYPE" => e.keyword = "type"
<1> DEFINE field == {f \in FieldCodes : f[1] = e.at /\ f[2] = e.keyword}
           i == ToIssue(e, d)
           code == CodeFor(e, d)
<1>1. CASE field # {}
  <2>1. PICK f \in field : i = Issue(f[3], e.at)
    <3>1. i = Issue((CHOOSE f \in field : TRUE)[3], e.at)
      BY <1>1 DEF ToIssue
    <3>2. (CHOOSE f \in field : TRUE) \in field
      BY <1>1
    <3> QED
      BY <3>1, <3>2
  <2>2. f[3] \notin {"REQUIRED", "INVALID_TYPE"} /\ e.beneath = <<>> /\ e.keyword # "required"
    BY FieldsAre DEF Tells
  <2>3. Blamed(e) = e.at
    BY <2>2, ConcatEmptySeq DEF Tells, Blamed
  <2>4. i.path = Pointer(e.at) /\ i.code = f[3]
    BY <2>1 DEF Issue
  <2> QED
    BY <2>2, <2>3, <2>4
<1>2. CASE field = {}
  <2>1. i = Issue(code, Blamed(e))
    BY <1>2 DEF ToIssue, Blamed
  <2>2. i.code = code /\ i.path = Pointer(Blamed(e))
    BY <2>1 DEF Issue
  <2> HIDE DEF field, i, code
  <2>3. CASE e.inName
    <3>1. code = "INVALID_PROPERTY_NAME" /\ e.keyword # "required"
      BY <2>3 DEF CodeFor, code, Tells
    <3> QED
      BY <2>2, <3>1 DEF i
  <2>4. CASE ~e.inName
    <3>1. code = "REQUIRED" <=> e.keyword = "required"
      BY <2>4 DEF CodeFor, KeywordCodes, code, Tells, AllKeywords
    <3>2. code = "INVALID_TYPE" => e.keyword = "type"
      BY <2>4 DEF CodeFor, KeywordCodes, code, Tells, AllKeywords
    <3> QED
      BY <2>2, <3>1, <3>2 DEF i
  <2> QED
    BY <2>3, <2>4
<1> QED
  BY <1>1, <1>2

(* What is reported of the tables is proper. *)
LEMMA IssueProper ==
  ASSUME NEW d, NEW e, Tells(d, e)
  PROVE  Proper(d, ToIssue(e, d))
<1> DEFINE i == ToIssue(e, d)
           q == Blamed(e)
<1>1. /\ i.path = Pointer(q) /\ (i.code = "REQUIRED" <=> e.keyword = "required")
  BY CodeTells
<1>2. PICK S : q \in Seq(S)
  BY DEF Tells
<1>3. e.keyword # "required" => q \in DOMAIN d
  BY DEF Tells
<1>4. e.keyword = "required" => /\ q \notin DOMAIN d /\ Pointer(q) = q /\ \A k \in DOMAIN q : q[k] # "*"
  BY DEF Tells
<1> HIDE DEF i, q
<1>5. CASE e.keyword # "required"
  BY <1>1, <1>2, <1>3, <1>5, ThereProper DEF i
<1>6. CASE e.keyword = "required"
  <2>1. i.code = "REQUIRED" /\ i.path \notin DOMAIN d
    BY <1>1, <1>4, <1>6
  <2>2. "*" \notin Range(i.path)
    BY <1>1, <1>4, <1>6 DEF Range
  <2>3. \A k \in DOMAIN i.path : k > 1 /\ i.path[k - 1] = "labels" => i.path[k] = "*"
    BY <1>1, <1>2, PointerShows
  <2>4. Proper(d, i)
    BY <2>1, <2>2, <2>3 DEF Proper
  <2> QED
    BY <2>4 DEF i
<1> QED
  BY <1>5, <1>6

(* The errors of the tables, and those of the conditions. *)
Found(d, e) ==
  \E p, schema : HasTable(d, p, schema) /\ e \in ErrorsAt(d, p, schema)

BranchErrors(d) == ModelBranch(d) \cup ToolBranch(d) \cup ProductionBranch(d)

(* An error is of a table or of a condition. *)
LEMMA SchemaErrorsAre ==
  ASSUME NEW d, IsObject(d[<<>>]), NEW e
  PROVE  e \in SchemaErrors(d) <=> e \in BranchErrors(d) \/ Found(d, e)
<1> DEFINE Of(entry) == IF entry[1] \in DOMAIN d /\ IsObject(d[entry[1]])
                        THEN ObjectErrors(d, entry[1], entry[2]) \cup PropertyErrors(d, entry[1], entry[2])
                        ELSE {}
<1>1. SchemaErrors(d) = BranchErrors(d) \cup UNION {Of(entry) : entry \in ObjectSchemas}
  BY DEF SchemaErrors, BranchErrors
<1>2. \A p, schema : e \in Of(<<p, schema>>) <=>
        p \in DOMAIN d /\ IsObject(d[p]) /\ e \in ErrorsAt(d, p, schema)
  BY DEF ErrorsAt
<1>3. \A entry \in ObjectSchemas : entry = <<entry[1], entry[2]>>
  BY ObjectSchemasAre
<1> HIDE DEF Of
<1>4. (\E entry \in ObjectSchemas : e \in Of(entry)) <=> Found(d, e)
  <2>1. ASSUME NEW entry \in ObjectSchemas, e \in Of(entry) PROVE Found(d, e)
    <3>1. PICK p, schema : entry = <<p, schema>>
      BY <1>3
    <3>2. p \in DOMAIN d /\ IsObject(d[p]) /\ e \in ErrorsAt(d, p, schema)
      BY <1>2, <2>1, <3>1
    <3> QED
      BY <3>1, <3>2 DEF Found, HasTable
  <2>2. ASSUME Found(d, e) PROVE \E entry \in ObjectSchemas : e \in Of(entry)
    BY <1>2, <2>2 DEF Found, HasTable
  <2> QED
    BY <2>1, <2>2
<1> QED
  BY <1>1, <1>4

(* An error of a condition. *)
LEMMA BranchTells ==
  ASSUME NEW d, NEW e \in BranchErrors(d)
  PROVE  e.conditional = TRUE /\ e.keyword # "type"
<1>1. ASSUME NEW p, NEW name, e \in Forbids(d, p, name) PROVE e.conditional = TRUE /\ e.keyword # "type"
  BY <1>1 DEF Forbids, Error
<1>2. ASSUME NEW word, e \in TypeIs(d, word) PROVE e.conditional = TRUE /\ e.keyword # "type"
  BY <1>2 DEF TypeIs, Error
<1>3. ASSUME NEW p, NEW name, e \in Needs(d, p, name) PROVE e.conditional = TRUE /\ e.keyword # "type"
  BY <1>3 DEF Needs, Error
<1>4. \/ \E p, name : e \in Forbids(d, p, name) \cup Needs(d, p, name)
      \/ \E word : e \in TypeIs(d, word)
  BY DEF BranchErrors, ModelBranch, ToolBranch, ProductionBranch
<1> QED
  BY <1>1, <1>2, <1>3, <1>4

(* What the tables find tells what it is about, *)
LEMMA FoundTells ==
  ASSUME NEW d, Tree(d), NEW e, Found(d, e)
  PROVE  Tells(d, e)
  BY ObjectTells, PropertyTells DEF Found, ErrorsAt, HasTable

(* and a value of the wrong type has no other error. *)
LEMMA FoundAlone ==
  ASSUME NEW d, Tree(d), NEW e, Found(d, e), NEW x, Found(d, x), x.keyword = "type", e.at = x.at
  PROVE  e = x
<1>1. PICK p, s : HasTable(d, p, s) /\ e \in ErrorsAt(d, p, s)
  BY DEF Found
<1>2. PICK q, t : HasTable(d, q, t) /\ x \in ErrorsAt(d, q, t)
  BY DEF Found
<1> QED
  BY <1>1, <1>2, TypeAlone

(* No error of the tables is masked by one of type: only the sinks' property is left out. *)
LEMMA StructuralAre ==
  ASSUME NEW d, Tree(d), IsObject(d[<<>>]), NEW i
  PROVE  i \in SchemaIssues(d).structural <=>
           \E e : Found(d, e) /\ i = ToIssue(e, d) /\ ToIssue(e, d).path # SinkOwned
<1> DEFINE errors == SchemaErrors(d)
           mistyped == {x.at : x \in {y \in errors : y.keyword = "type"}}
           kept == {x \in errors : /\ x.keyword = "type" \/ x.at \notin mistyped
                                   /\ ToIssue(x, d).path # SinkOwned}
<1>1. SchemaIssues(d).structural = {ToIssue(x, d) : x \in {y \in kept : y.conditional = FALSE}}
  BY DEF SchemaIssues
<1>2. \A e \in errors : e.conditional = FALSE <=> Found(d, e)
  BY SchemaErrorsAre, BranchTells, FoundTells DEF Tells
<1>3. \A e : Found(d, e) => e \in errors
  BY SchemaErrorsAre
<1>4. ASSUME NEW e, Found(d, e), e.at \in mistyped PROVE e.keyword = "type"
  <2>1. PICK x \in errors : x.keyword = "type" /\ x.at = e.at
    BY <1>4
  <2>2. Found(d, x)
    BY <2>1, SchemaErrorsAre, BranchTells
  <2>3. e = x
    BY <1>4, <2>1, <2>2, FoundAlone
  <2> QED
    BY <2>1, <2>3
<1> HIDE DEF errors, mistyped
<1>5. \A e : e \in kept /\ e.conditional = FALSE <=> Found(d, e) /\ ToIssue(e, d).path # SinkOwned
  BY <1>2, <1>3, <1>4
<1> HIDE DEF kept
<1> QED
  BY <1>1, <1>5

(* What the formats find. *)
FormatCodes == {"INVALID_IDENTIFIER", "INVALID_DATETIME", "FORBIDDEN"}

(* They report the paths at fault, each with a code of theirs. *)
LEMMA FormatIssuesAre ==
  ASSUME NEW d, IsObject(d[<<>>])
  PROVE  /\ \A i \in FormatIssues(d) : \E q \in FormatFaults(d) : i.path = Pointer(q) /\ i.code \in FormatCodes
         /\ \A q \in FormatFaults(d) : \E i \in FormatIssues(d) : i.path = Pointer(q)
<1> DEFINE a == {q \in {<<"record_id">>, <<"corrects">>} : Has(d, q, "string") /\ "id" \notin d[q].fits}
           b == {q \in {<<"timing", "event_time">>} : Has(d, q, "string") /\ ParseTimestamp(d[q]) = Nil}
           x == {SinkOwned} \cap DOMAIN d
           y == {q \in {<<"run", "trace_id">>} : Has(d, q, "string") /\ "trace" \notin d[q].fits}
<1>1. FormatIssues(d) = {Issue("INVALID_IDENTIFIER", p) : p \in a} \cup {Issue("INVALID_DATETIME", p) : p \in b} \cup
                        {Issue("FORBIDDEN", p) : p \in x} \cup {Issue("INVALID_IDENTIFIER", p) : p \in y}
  BY Zenon DEF FormatIssues
<1>2. FormatFaults(d) = a \cup y \cup b \cup x
  BY DEF FormatFaults
<1>3. \A code, p : Issue(code, p).path = Pointer(p) /\ Issue(code, p).code = code
  BY DEF Issue
<1> HIDE DEF a, b, x, y
<1>4. ASSUME NEW i \in FormatIssues(d)
      PROVE  \E q \in FormatFaults(d) : i.path = Pointer(q) /\ i.code \in FormatCodes
  <2>1. PICK code \in FormatCodes : \E q \in FormatFaults(d) : i = Issue(code, q)
    BY <1>1, <1>2 DEF FormatCodes
  <2> QED
    BY <1>3, <2>1
<1>5. ASSUME NEW q \in FormatFaults(d)
      PROVE  \E i \in FormatIssues(d) : i.path = Pointer(q)
  <2>1. \E code : Issue(code, q) \in FormatIssues(d)
    BY <1>1, <1>2
  <2> QED
    BY <1>3, <2>1
<1> QED
  BY <1>4, <1>5

(* A part is at fault by its table or by its format. *)
LEMMA OwnFaultsAre ==
  ASSUME NEW d, NEW q
  PROVE  q \in OwnFaults(d) <=> \/ \E p, schema : HasTable(d, p, schema) /\ q \in FaultsAt(d, p, schema)
                                \/ q \in FormatFaults(d)
<1> DEFINE Of(entry) == IF entry[1] \in DOMAIN d /\ IsObject(d[entry[1]])
                        THEN FaultsAt(d, entry[1], entry[2]) ELSE {}
           own == UNION {Of(entry) : entry \in ObjectSchemas}
<1>1. OwnFaults(d) = FormatFaults(d) \cup own
  BY DEF OwnFaults
<1>2. \A p, schema : <<p, schema>> \in ObjectSchemas =>
        (q \in Of(<<p, schema>>) <=> HasTable(d, p, schema) /\ q \in FaultsAt(d, p, schema))
  BY DEF HasTable
<1>3. \A entry \in ObjectSchemas : entry = <<entry[1], entry[2]>>
  BY ObjectSchemasAre
<1> HIDE DEF Of
<1>4. ASSUME NEW entry \in ObjectSchemas, q \in Of(entry)
      PROVE  \E p, schema : HasTable(d, p, schema) /\ q \in FaultsAt(d, p, schema)
  <2>1. PICK p, schema : entry = <<p, schema>>
    BY <1>3
  <2> QED
    BY <1>2, <1>4, <2>1
<1>5. ASSUME NEW p, NEW schema, HasTable(d, p, schema), q \in FaultsAt(d, p, schema)
      PROVE  q \in own
  BY <1>2, <1>5 DEF HasTable
<1> QED
  BY <1>1, <1>4, <1>5

(* What is at fault is a path. *)
LEMMA FaultsArePaths ==
  ASSUME NEW d, Tree(d), NEW q \in OwnFaults(d)
  PROVE  \E S : q \in Seq(S)
<1>1. CASE q \in FormatFaults(d)
  <2>1. q \in DOMAIN d
    BY <1>1 DEF FormatFaults, Has
  <2> QED
    BY <2>1 DEF Tree
<1>2. ASSUME NEW p, NEW schema, HasTable(d, p, schema), q \in FaultsAt(d, p, schema)
      PROVE  \E S : q \in Seq(S)
  <2>1. PICK e \in ErrorsAt(d, p, schema) : Blamed(e) = q
    BY <1>2, FaultBlamed
  <2>2. Tells(d, e)
    BY <1>2, <2>1, FoundTells DEF Found
  <2> QED
    BY <2>1, <2>2 DEF Tells
<1> QED
  BY <1>1, <1>2, OwnFaultsAre

(* The first stage of the validator reports the faults of the parts, and each properly. *)
Structural(d) == FormatIssues(d) \cup SchemaIssues(d).structural

(* Whatever it reports is at fault, *)
LEMMA StructuralBlames ==
  ASSUME NEW d, Tree(d), IsObject(d[<<>>]), NEW i \in Structural(d)
  PROVE  Proper(d, i) /\ \E q \in OwnFaults(d) : i.path = Pointer(q)
<1>1. CASE i \in FormatIssues(d)
  <2>1. PICK q \in FormatFaults(d) : i.path = Pointer(q) /\ i.code \in FormatCodes
    BY <1>1, FormatIssuesAre
  <2>2. q \in DOMAIN d
    BY DEF FormatFaults, Has
  <2>3. q \in Seq(Names)
    BY <2>2 DEF Tree
  <2>4. i.code # "REQUIRED"
    BY <2>1 DEF FormatCodes
  <2>5. Proper(d, i)
    BY <2>1, <2>2, <2>3, <2>4, ThereProper
  <2> QED
    BY <2>1, <2>5, OwnFaultsAre
<1>2. CASE i \in SchemaIssues(d).structural
  <2>1. PICK e : Found(d, e) /\ i = ToIssue(e, d)
    BY <1>2, StructuralAre
  <2>2. PICK p, schema : HasTable(d, p, schema) /\ e \in ErrorsAt(d, p, schema)
    BY <2>1 DEF Found
  <2>3. Tells(d, e)
    BY <2>1, FoundTells
  <2>4. Blamed(e) \in FaultsAt(d, p, schema)
    BY <2>2, ObjectTells, PropertyTells DEF ErrorsAt, HasTable
  <2>5. i.path = Pointer(Blamed(e)) /\ Proper(d, i)
    BY <2>1, <2>3, CodeTells, IssueProper
  <2> QED
    BY <2>2, <2>4, <2>5, OwnFaultsAre
<1> QED
  BY <1>1, <1>2 DEF Structural

(* and whatever is at fault is reported. *)
LEMMA FaultsReported ==
  ASSUME NEW d, Tree(d), IsObject(d[<<>>]), NEW q \in OwnFaults(d)
  PROVE  \E i \in Structural(d) : i.path = Pointer(q)
<1>1. CASE q \in FormatFaults(d)
  BY <1>1, FormatIssuesAre DEF Structural
<1>2. ASSUME NEW p, NEW schema, HasTable(d, p, schema), q \in FaultsAt(d, p, schema)
      PROVE  \E i \in Structural(d) : i.path = Pointer(q)
  <2>1. PICK e \in ErrorsAt(d, p, schema) : Blamed(e) = q
    BY <1>2, FaultBlamed
  <2>2. Found(d, e)
    BY <1>2, <2>1 DEF Found
  <2>3. Tells(d, e)
    BY <2>2, FoundTells
  <2>4. ToIssue(e, d).path = Pointer(q)
    BY <2>1, <2>3, CodeTells
  <2>5. CASE Pointer(q) # SinkOwned
    <3>1. ToIssue(e, d) \in SchemaIssues(d).structural
      BY <2>2, <2>4, <2>5, StructuralAre
    <3> QED
      BY <2>4, <3>1 DEF Structural
  <2>6. CASE Pointer(q) = SinkOwned
    <3>1. q = SinkOwned
      BY <2>1, <2>3, <2>6, PointerApart DEF Tells
    <3>2. q \in DOMAIN d
      BY <2>1, <2>3, <3>1 DEF Tells
    <3>3. q \in FormatFaults(d)
      BY <3>1, <3>2 DEF FormatFaults
    <3> QED
      BY <3>3, FormatIssuesAre DEF Structural
  <2> QED
    BY <2>5, <2>6
<1> QED
  BY <1>1, <1>2, OwnFaultsAre

(* A name that is added leaves the others. *)
LEMMA AppendKeeps ==
  ASSUME NEW S, NEW p \in Seq(S), NEW f \in S
  PROVE  Len(Append(p, f)) = Len(p) + 1 /\ \A i \in 1..Len(p) : Append(p, f)[i] = p[i]
BY AppendProperties, LenProperties

(* The name of a label is hidden. *)
LEMMA LabelHidden ==
  ASSUME NEW S, NEW q \in Seq(S), NEW f, q = Append(Labels, f)
  PROVE  "*" \in Range(Pointer(q))
<1>1. Len(q) = 3 /\ q[2] = "labels"
  <2>1. PICK p : p = Labels
    OBVIOUS
  <2>2. p = <<"attribution", "labels">>
    BY <2>1 DEF Labels
  <2>3. PICK T : p \in Seq(T) /\ f \in T
    <3>1. p \in Seq({"attribution", "labels", f})
      BY <2>2
    <3> QED
      BY <3>1
  <2>6. Len(p) = 2 /\ p[2] = "labels"
    BY <2>2
  <2>4. q = Append(p, f)
    BY <2>1
  <2>5. Len(q) = 3 /\ q[2] = p[2]
    <3>1. PICK n : n = Len(p)
      OBVIOUS
    <3>2. Len(q) = n + 1 /\ \A i \in 1..n : q[i] = p[i]
      BY <2>3, <2>4, <3>1, AppendKeeps
    <3>3. n = 2
      BY <2>6, <3>1
    <3> QED
      BY ONLY <3>2, <3>3
  <2> QED
    BY <2>5, <2>6
<1>2. DOMAIN q = 1..3 /\ DOMAIN Pointer(q) = DOMAIN q
  BY <1>1, LenProperties DEF Pointer
<1>3. Pointer(q)[3] = "*"
  BY <1>1, <1>2 DEF Pointer
<1>4. 3 \in DOMAIN Pointer(q)
  BY <1>2
<1> QED
  BY <1>3, <1>4 DEF Range

(* What has a format is a text. *)
LEMMA FormatsAreTexts ==
  ASSUME NEW y \in {<<"record_id">>, <<"corrects">>, <<"run", "trace_id">>, <<"timing", "event_time">>},
         NEW t, <<Front(y), t>> \in ObjectSchemas
  PROVE  LET child == Child(t, Last(y)) IN "type" \in DOMAIN child /\ child.type = "string"
<1> DEFINE Wants(schema, f) == LET child == Child(schema, f) IN "type" \in DOMAIN child /\ child.type = "string"
<1>1. \A f \in {"record_id", "corrects"} : Wants(RootSchema, f)
  BY DEF Child, RootSchema, Identifier
<1>2. Wants(RunSchema, "trace_id")
  BY DEF Child, RunSchema, Merge, RunSpans, RunProgress, AnyText
<1>3. Wants(TimingSchema, "event_time")
  BY DEF Child, TimingSchema, TimingTexts, DateTime
<1>4. /\ <<<<>>, RootSchema>> \in ObjectSchemas /\ <<<<"run">>, RunSchema>> \in ObjectSchemas
      /\ <<<<"timing">>, TimingSchema>> \in ObjectSchemas
  BY ObjectSchemasAre
<1> HIDE DEF Wants
<1>5. ASSUME NEW f \in {"record_id", "corrects"}, y = <<f>> PROVE Wants(t, Last(y))
  <2>1. Front(y) = <<>> /\ Last(y) = f
    BY <1>5, FrontOfOne
  <2> QED
    BY <1>1, <1>4, <2>1, OneSchema
<1>6. ASSUME y = <<"run", "trace_id">> PROVE Wants(t, Last(y))
  <2>1. Front(y) = <<"run">> /\ Last(y) = "trace_id"
    BY <1>6, FrontOfTwo DEF Last
  <2> QED
    BY <1>2, <1>4, <2>1, OneSchema
<1>7. ASSUME y = <<"timing", "event_time">> PROVE Wants(t, Last(y))
  <2>1. Front(y) = <<"timing">> /\ Last(y) = "event_time"
    BY <1>7, FrontOfTwo DEF Last
  <2> QED
    BY <1>3, <1>4, <2>1, OneSchema
<1>8. Wants(t, Last(y))
  BY <1>5, <1>6, <1>7
<1> QED
  BY <1>8 DEF Wants

(* What an error of an object as a whole is about: the object, what it has not, or a property
   that is a label or has no schema. *)
LEMMA ObjectBlames ==
  ASSUME NEW d, Tree(d), NEW p, NEW schema, HasTable(d, p, schema), NEW e \in ObjectErrors(d, p, schema)
  PROVE  \/ Blamed(e) \notin DOMAIN d
         \/ Blamed(e) = e.at
         \/ Blamed(e) \in Below(d, p) /\ (p = Labels \/ ~Known(schema, Last(Blamed(e))))
<1>0. p \in DOMAIN d /\ <<p, schema>> \in ObjectSchemas
  BY DEF HasTable
<1>1. ErrorIs(d, p, schema, e) /\ Tells(d, e) /\ e.at = p
  BY <1>0, ObjectErrorsAre, ObjectTells
<1>2. ASSUME NEW f, e = Plainest("required", p, <<f>>) PROVE Blamed(e) \notin DOMAIN d
  <2>1. e.keyword = "required"
    BY <1>2 DEF Plainest, Error
  <2> QED
    BY <1>1, <2>1 DEF Tells
<1>3. ASSUME NEW k \in {"minProperties", "maxProperties"}, e = Plainest(k, p, <<>>) PROVE Blamed(e) = e.at
  BY <1>0, <1>1, <1>3, SizeTells
<1>4. ASSUME NEW x \in Below(d, p), NEW k,
             \/ k \in {"additionalProperties", "propertyNames"} /\ e = Plainest(k, p, <<Last(x)>>)
             \/ k \in {"maxLength", "pattern"} /\ p = Labels /\ e = OfName(k, p, <<Last(x)>>)
      PROVE  Blamed(e) = x
  <2>1. CASE k \in {"additionalProperties", "propertyNames"} /\ e = Plainest(k, p, <<Last(x)>>)
    BY <1>0, <2>1, BelowTells
  <2>2. CASE k \in {"maxLength", "pattern"} /\ p = Labels /\ e = OfName(k, p, <<Last(x)>>)
    BY <1>0, <2>2, BelowTells
  <2> QED
    BY <1>4, <2>1, <2>2
<1> QED
  BY <1>1, <1>2, <1>3, <1>4 DEF ErrorIs

(* A value of the wrong type, other than a label, is blamed once. *)
LEMMA BlamedAlone ==
  ASSUME NEW d, Tree(d), NEW e, Found(d, e), NEW x, Found(d, x), x.keyword = "type",
         Blamed(e) = x.at, Front(x.at) # Labels
  PROVE  e = x
<1>1. PICK p, s : HasTable(d, p, s) /\ e \in ErrorsAt(d, p, s)
  BY DEF Found
<1>2. PICK r, t : HasTable(d, r, t) /\ x \in ErrorsAt(d, r, t)
  BY DEF Found
<1>3. /\ p \in DOMAIN d /\ <<p, s>> \in ObjectSchemas
      /\ r \in DOMAIN d /\ <<r, t>> \in ObjectSchemas
  BY <1>1, <1>2 DEF HasTable
<1>4. x \in PropertyErrors(d, r, t)
  BY <1>2, <1>3, ObjectTells DEF ErrorsAt
<1>5. x.at \in Below(d, r) /\ Known(t, Last(x.at))
  BY <1>4, PropertySays
<1>6. x.at \in DOMAIN d /\ Front(x.at) = r
  BY <1>3, <1>5, BelowIs
<1>7. CASE e.at = x.at
  BY <1>7, FoundAlone
<1>8. CASE e \in PropertyErrors(d, p, s)
  <2>1. Blamed(e) = e.at
    BY <1>3, <1>8, PropertyTells
  <2> QED
    BY <1>7, <2>1
<1>9. ASSUME e \in ObjectErrors(d, p, s), e.at # x.at PROVE FALSE
  <2>1. Blamed(e) \in Below(d, p) /\ (p = Labels \/ ~Known(s, Last(Blamed(e))))
    BY <1>1, <1>6, <1>9, ObjectBlames
  <2>2. p = r
    BY <1>3, <1>6, <2>1, BelowIs
  <2>3. s = t
    BY <1>3, <2>2, OneSchema
  <2> QED
    BY <1>5, <1>6, <2>1, <2>2, <2>3
<1> QED
  BY <1>1, <1>7, <1>8, <1>9 DEF ErrorsAt

(* A value of the wrong type, other than a label, is reported once. *)
LEMMA TypeOnce ==
  ASSUME NEW d, Tree(d), IsObject(d[<<>>]),
         NEW i \in Structural(d), i.code = "INVALID_TYPE", "*" \notin Range(i.path),
         NEW j \in Structural(d), j.path = i.path
  PROVE  j = i
<1>1. i \notin FormatIssues(d)
  BY FormatIssuesAre DEF FormatCodes
<1>2. PICK x : Found(d, x) /\ i = ToIssue(x, d) /\ ToIssue(x, d).path # SinkOwned
  BY <1>1, StructuralAre DEF Structural
<1>3. Tells(d, x)
  BY <1>2, FoundTells
<1>4. x.keyword = "type" /\ i.path = Pointer(Blamed(x))
  BY <1>2, <1>3, CodeTells
<1>5. PICK r, t : HasTable(d, r, t) /\ x \in ErrorsAt(d, r, t)
  BY <1>2 DEF Found
<1>6. r \in DOMAIN d /\ <<r, t>> \in ObjectSchemas
  BY <1>5 DEF HasTable
<1>7. x \in PropertyErrors(d, r, t)
  BY <1>4, <1>5, <1>6, ObjectTells DEF ErrorsAt
<1>8. /\ Blamed(x) = x.at /\ x.at \in Below(d, r) /\ Known(t, Last(x.at))
      /\ x.keyword \in Breaks(d[x.at], Child(t, Last(x.at)))
  BY <1>6, <1>7, PropertyTells, PropertySays
<1>9. x.at \in DOMAIN d /\ Front(x.at) = r /\ x.at = Append(r, Last(x.at))
  BY <1>6, <1>8, BelowIs
<1>10. x.at \in Seq(Names)
  BY <1>9 DEF Tree
<1>11. Pointer(x.at) = x.at /\ i.path = x.at
  BY <1>4, <1>8, <1>10, PointerShows
<1>12. r # Labels
  BY <1>4, <1>8, <1>9, <1>10, LabelHidden
<1>13. CASE j \in FormatIssues(d)
  <2>1. PICK y \in FormatFaults(d) : j.path = Pointer(y)
    BY <1>13, FormatIssuesAre
  <2>2. y \in OwnFaults(d)
    BY <2>1, OwnFaultsAre
  <2>3. PICK S : y \in Seq(S)
    BY <2>2, FaultsArePaths
  <2>4. Pointer(y) = y
    BY <2>1, <2>3, PointerShows
  <2>5. y = x.at
    BY <1>11, <2>1, <2>4
  <2>6. y # SinkOwned
    BY <1>2, <1>11, <2>5
  <2>7. y \in {<<"record_id">>, <<"corrects">>, <<"run", "trace_id">>, <<"timing", "event_time">>}
        /\ d[y].type = "string"
    BY <2>1, <2>6 DEF FormatFaults, Has
  <2>8. LET child == Child(t, Last(x.at)) IN "type" \in DOMAIN child /\ child.type = "string"
    BY <1>6, <1>9, <2>5, <2>7, FormatsAreTexts
  <2>9. HasType(d[x.at], "string")
    BY <2>5, <2>7 DEF HasType
  <2>10. "type" \notin Breaks(d[x.at], Child(t, Last(x.at)))
    BY <2>8, <2>9 DEF Breaks
  <2> QED
    BY <1>4, <1>8, <2>10
<1>14. CASE j \notin FormatIssues(d)
  <2>1. PICK e : Found(d, e) /\ j = ToIssue(e, d)
    BY <1>14, StructuralAre DEF Structural
  <2>2. Tells(d, e)
    BY <2>1, FoundTells
  <2>3. Pointer(Blamed(e)) = x.at
    BY <1>11, <2>1, <2>2, CodeTells
  <2>4. PICK S : Blamed(e) \in Seq(S)
    BY <2>2 DEF Tells
  <2>5. Blamed(e) = x.at
    BY <1>11, <2>3, <2>4, PointerShows
  <2>6. e = x
    BY <1>2, <1>4, <1>9, <1>12, <2>1, <2>5, BlamedAlone
  <2> QED
    BY <1>2, <2>1, <2>6
<1> QED
  BY <1>13, <1>14

(* An object of which each part keeps to its own rules. *)
Faultless(d) == Tree(d) /\ IsObject(d[<<>>]) /\ OwnFaults(d) = {}

(* The tables find nothing in it. *)
LEMMA NothingFound ==
  ASSUME NEW d, Faultless(d), NEW e
  PROVE  ~Found(d, e)
<1> SUFFICES ASSUME Found(d, e) PROVE FALSE
  OBVIOUS
<1>1. PICK p, schema : HasTable(d, p, schema) /\ e \in ErrorsAt(d, p, schema)
  BY DEF Found
<1>2. Blamed(e) \in FaultsAt(d, p, schema)
  BY <1>1, ObjectTells, PropertyTells DEF ErrorsAt, HasTable, Faultless
<1> QED
  BY <1>1, <1>2, OwnFaultsAre DEF Faultless

(* Each of its properties keeps to its schema, *)
LEMMA FaultlessFits ==
  ASSUME NEW d, Faultless(d), NEW p, NEW schema, HasTable(d, p, schema), NEW q \in Below(d, p)
  PROVE  Known(schema, Last(q)) /\ Breaks(d[q], Child(schema, Last(q))) = {}
<1>1. q \notin FaultsAt(d, p, schema)
  BY OwnFaultsAre DEF Faultless
<1> QED
  BY <1>1 DEF FaultsAt

(* and no required one is absent. *)
LEMMA FaultlessHas ==
  ASSUME NEW d, Faultless(d), NEW p, NEW schema, HasTable(d, p, schema), p # Labels, NEW f \in schema.required
  PROVE  Append(p, f) \in Below(d, p)
<1>1. Append(p, f) \notin FaultsAt(d, p, schema)
  BY OwnFaultsAre DEF Faultless
<1>2. f \in {Last(q) : q \in Below(d, p)}
  BY <1>1 DEF FaultsAt
<1>3. PICK q \in Below(d, p) : Last(q) = f
  BY <1>2
<1>4. q = Append(p, f)
  BY <1>3, BelowIs DEF HasTable, Faultless
<1> QED
  BY <1>3, <1>4

(* A word of an enumeration. *)
LEMMA EnumBreaks ==
  ASSUME NEW v, NEW words
  PROVE  Breaks(v, Enum(words)) = {} <=> v.type = "string" /\ v.text \in words
BY DEF Breaks, Enum

(* Its objects. *)
LEMMA FaultlessRoot ==
  ASSUME NEW d, Faultless(d)
  PROVE  /\ HasTable(d, <<>>, RootSchema) /\ <<>> # Labels
         /\ \A f \in {"timing", "resource", "usage", "attribution"} : <<f>> \in DOMAIN d
<1>1. HasTable(d, <<>>, RootSchema) /\ <<>> # Labels
  BY ObjectSchemasAre DEF HasTable, Faultless, Tree, Labels
<1>2. ASSUME NEW f \in {"timing", "resource", "usage", "attribution"} PROVE <<f>> \in DOMAIN d
  <2>1. f \in RootSchema.required
    BY DEF RootSchema
  <2>2. Append(<<>>, f) \in Below(d, <<>>)
    BY <1>1, <2>1, FaultlessHas
  <2> QED
    BY <2>2, Appended DEF Below
<1> QED
  BY <1>1, <1>2

(* They are objects. *)
LEMMA FaultlessObject ==
  ASSUME NEW d, Faultless(d), NEW f \in {"timing", "resource", "usage", "attribution", "cost"},
         <<f>> \in DOMAIN d
  PROVE  IsObject(d[<<f>>])
<1>1. <<f>> # <<>> /\ Front(<<f>>) = <<>> /\ Last(<<f>>) = f
  BY FrontOfOne
<1>2. <<f>> \in Below(d, <<>>)
  BY <1>1, ChildBelow DEF Faultless
<1>3. Breaks(d[<<f>>], Child(RootSchema, f)) = {}
  BY <1>1, <1>2, FaultlessRoot, FaultlessFits
<1>4. Child(RootSchema, f) = RootSchema.properties[f]
  BY DEF Child, RootSchema
<1>5. LET s == RootSchema.properties[f] IN "type" \in DOMAIN s /\ s.type = "object"
  BY DEF RootSchema, TimingSchema, ResourceSchema, UsageSchema, AttributionSchema, CostSchema
<1>6. HasType(d[<<f>>], "object")
  BY <1>3, <1>4, <1>5 DEF Breaks
<1> QED
  BY <1>6 DEF HasType, IsObject

(* The words of its enumerations that its conditions look at. *)
On(d, a, f) == <<a, f>> \in DOMAIN d

(* What is on an object is below it. *)
LEMMA OnBelow ==
  ASSUME NEW d, Tree(d), NEW a, NEW f, On(d, a, f)
  PROVE  <<a, f>> \in Below(d, <<a>>) /\ Last(<<a, f>>) = f /\ <<a>> \in DOMAIN d
<1>1. <<a, f>> # <<>> /\ Front(<<a, f>>) = <<a>> /\ Last(<<a, f>>) = f
  BY FrontOfTwo DEF Last
<1>2. <<a, f>> \in Below(d, <<a>>)
  BY <1>1, ChildBelow DEF On
<1> QED
  BY <1>1, <1>2 DEF On, Tree

(* A property with an enumeration is one of its words. *)
LEMMA FaultlessWord ==
  ASSUME NEW d, Faultless(d), NEW a, NEW schema, HasTable(d, <<a>>, schema), NEW f, On(d, a, f),
         NEW words, Child(schema, f) = Enum(words)
  PROVE  d[<<a, f>>].type = "string" /\ d[<<a, f>>].text \in words
<1>1. <<a, f>> \in Below(d, <<a>>) /\ Last(<<a, f>>) = f
  BY OnBelow DEF Faultless
<1>2. Breaks(d[<<a, f>>], Child(schema, f)) = {}
  BY <1>1, FaultlessFits
<1> QED
  BY <1>2, EnumBreaks

(* What its conditions look at is there. *)
LEMMA FaultlessTable ==
  ASSUME NEW d, Faultless(d)
  PROVE  /\ HasTable(d, <<"resource">>, ResourceSchema) /\ HasTable(d, <<"timing">>, TimingSchema)
         /\ HasTable(d, <<"attribution">>, AttributionSchema)
         /\ <<"resource">> # Labels /\ <<"timing">> # Labels
<1>1. /\ <<<<"resource">>, ResourceSchema>> \in ObjectSchemas /\ <<<<"timing">>, TimingSchema>> \in ObjectSchemas
      /\ <<<<"attribution">>, AttributionSchema>> \in ObjectSchemas
  BY ObjectSchemasAre
<1>2. \A f \in {"timing", "resource", "attribution"} : <<f>> \in DOMAIN d /\ IsObject(d[<<f>>])
  BY FaultlessRoot, FaultlessObject
<1>3. \A f : <<f>> # Labels
  BY DEF Labels
<1> QED
  BY <1>1, <1>2, <1>3 DEF HasTable

(* A required property of such an object is there. *)
LEMMA FaultlessRequired ==
  ASSUME NEW d, Faultless(d), NEW a, NEW schema, HasTable(d, <<a>>, schema), <<a>> # Labels,
         NEW f \in schema.required
  PROVE  On(d, a, f)
<1>1. Append(<<a>>, f) \in Below(d, <<a>>)
  BY FaultlessHas
<1> QED
  BY <1>1, Appended DEF Below, On

(* Operations are those of models and those of tools. *)
OfModel(d) == d[<<"resource", "operation">>].text \in ModelOperations

(* The operation is of one kind or the other, and so is the type. *)
LEMMA FaultlessWords ==
  ASSUME NEW d, Faultless(d)
  PROVE  /\ On(d, "resource", "operation") /\ On(d, "resource", "type")
         /\ LET o == d[<<"resource", "operation">>]
            IN o.type = "string" /\ (o.text \in ToolOperations <=> ~OfModel(d))
         /\ LET t == d[<<"resource", "type">>]
            IN t.type = "string" /\ (t.text = "tool" <=> t.text # "model")
         /\ On(d, "attribution", "environment") => d[<<"attribution", "environment">>].type = "string"
<1>1. {"operation", "type"} \subseteq ResourceSchema.required
  BY DEF ResourceSchema
<1>2. On(d, "resource", "operation") /\ On(d, "resource", "type")
  BY <1>1, FaultlessTable, FaultlessRequired
<1>3. PICK operations : operations = ModelOperations \cup ToolOperations
  OBVIOUS
<1>4. PICK types : types = {"model", "tool"}
  OBVIOUS
<1>5. PICK environments : environments = {"production", "staging", "development", "test", "evaluation"}
  OBVIOUS
<1>6. Child(ResourceSchema, "operation") = Enum(operations) /\ Child(ResourceSchema, "type") = Enum(types)
  BY <1>3, <1>4 DEF Child, ResourceSchema, Merge, ResourceNames, ResourceDetails
<1>7. Child(AttributionSchema, "environment") = Enum(environments)
  BY <1>5 DEF Child, AttributionSchema, Merge, AttributionIds
<1>8. d[<<"resource", "operation">>].type = "string" /\ d[<<"resource", "operation">>].text \in operations
  BY <1>2, <1>6, FaultlessTable, FaultlessWord
<1>9. d[<<"resource", "type">>].type = "string" /\ d[<<"resource", "type">>].text \in types
  BY <1>2, <1>6, FaultlessTable, FaultlessWord
<1>10. On(d, "attribution", "environment") => d[<<"attribution", "environment">>].type = "string"
  BY <1>7, FaultlessTable, FaultlessWord
<1>11. ModelOperations \cap ToolOperations = {}
  BY DEF ModelOperations, ToolOperations
<1>12. d[<<"resource", "operation">>].text \in ToolOperations <=> ~OfModel(d)
  BY <1>3, <1>8, <1>11 DEF OfModel
<1> QED
  BY <1>2, <1>4, <1>8, <1>9, <1>10, <1>12

(* The time of the event is a moment. *)
LEMMA FaultlessTime ==
  ASSUME NEW d, Faultless(d)
  PROVE  LET time == <<"timing", "event_time">> IN time \in DOMAIN d /\ ParseTimestamp(d[time]) # Nil
<1> DEFINE time == <<"timing", "event_time">>
<1>1. "event_time" \in TimingSchema.required
  BY DEF TimingSchema
<1>2. On(d, "timing", "event_time")
  BY <1>1, FaultlessTable, FaultlessRequired
<1>3. time \in Below(d, <<"timing">>) /\ Last(time) = "event_time"
  BY <1>2, OnBelow DEF Faultless
<1>4. Breaks(d[time], Child(TimingSchema, "event_time")) = {}
  BY <1>3, FaultlessTable, FaultlessFits
<1>5. Child(TimingSchema, "event_time") = DateTime
  BY DEF Child, TimingSchema, TimingTexts
<1>6. HasType(d[time], "string")
  BY <1>4, <1>5 DEF Breaks, DateTime
<1>7. Has(d, time, "string")
  BY <1>2, <1>6 DEF HasType, Has, On
<1>8. time \notin FormatFaults(d)
  BY OwnFaultsAre DEF Faultless
<1>9. ParseTimestamp(d[time]) # Nil
  BY <1>7, <1>8 DEF FormatFaults
<1> QED
  BY <1>2, <1>9 DEF On

(* The errors of its conditions. *)
Unmet(keyword, at, beneath) == Error(keyword, at, beneath, "other", TRUE)

(* What a branch forbids, *)
LEMMA ForbidsAt ==
  ASSUME NEW d, Faultless(d), NEW a \in {"resource", "usage", "cost"}, NEW f, NEW e
  PROVE  e \in Forbids(d, <<a>>, f) <=> On(d, a, f) /\ e = Unmet("not", <<a>>, <<f>>)
<1> DEFINE here == {x \in {<<a>>} \cap DOMAIN d : IsObject(d[x]) => Append(x, f) \in DOMAIN d}
<1>1. e \in Forbids(d, <<a>>, f) <=> \E q \in here : e = Unmet("not", q, <<f>>)
  BY DEF Forbids, Unmet
<1>2. <<a>> \in DOMAIN d => IsObject(d[<<a>>])
  BY FaultlessObject
<1>3. Append(<<a>>, f) = <<a, f>>
  BY Appended
<1>4. On(d, a, f) => <<a>> \in DOMAIN d
  BY OnBelow DEF Faultless
<1>5. here = {x \in {<<a>>} : On(d, a, f)}
  BY <1>2, <1>3, <1>4 DEF On
<1> HIDE DEF here
<1> QED
  BY <1>1, <1>5

(* what it needs, *)
LEMMA NeedsAt ==
  ASSUME NEW d, Faultless(d), NEW a \in {"resource", "usage", "attribution"}, NEW f, NEW e
  PROVE  e \in Needs(d, <<a>>, f) <=> ~On(d, a, f) /\ e = Unmet("required", <<a>>, <<f>>)
<1> DEFINE here == {x \in {<<a>>} \cap DOMAIN d : IsObject(d[x]) /\ Append(x, f) \notin DOMAIN d}
<1>1. e \in Needs(d, <<a>>, f) <=> \E q \in here : e = Unmet("required", q, <<f>>)
  BY DEF Needs, Unmet
<1>2. <<a>> \in DOMAIN d /\ IsObject(d[<<a>>])
  BY FaultlessRoot, FaultlessObject
<1>3. Append(<<a>>, f) = <<a, f>>
  BY Appended
<1>4. here = {x \in {<<a>>} : ~On(d, a, f)}
  BY <1>2, <1>3 DEF On
<1> HIDE DEF here
<1> QED
  BY <1>1, <1>4

TypePath == <<"resource", "type">>

(* and the type it wants. *)
LEMMA TypeAt ==
  ASSUME NEW d, Faultless(d), NEW word, NEW e
  PROVE  e \in TypeIs(d, word) <=> d[TypePath].text # word /\ e = Unmet("const", TypePath, <<>>)
<1> DEFINE here == {x \in {TypePath} \cap DOMAIN d : Breaks(d[x], Enum({word})) # {}}
<1>1. e \in TypeIs(d, word) <=> \E q \in here : e = Unmet("const", q, <<>>)
  BY DEF TypeIs, Unmet, TypePath
<1>2. TypePath \in DOMAIN d /\ d[TypePath].type = "string"
  BY FaultlessWords DEF On, TypePath
<1>3. Breaks(d[TypePath], Enum({word})) # {} <=> d[TypePath].text # word
  <2>1. PICK words : words = {word}
    OBVIOUS
  <2>2. Breaks(d[TypePath], Enum(words)) = {} <=> d[TypePath].text \in words
    BY <1>2, EnumBreaks
  <2> QED
    BY <2>1, <2>2
<1>4. here = {x \in {TypePath} : d[TypePath].text # word}
  BY <1>2, <1>3
<1> HIDE DEF here
<1> QED
  BY <1>1, <1>4

(* The two branches for operations exclude each other, and one of them applies. *)
LEMMA OperationAt ==
  ASSUME NEW d, Faultless(d)
  PROVE  (OperationIn(d, ModelOperations) <=> OfModel(d)) /\ (OperationIn(d, ToolOperations) <=> ~OfModel(d))
<1> DEFINE o == <<"resource", "operation">>
<1>1. <<"resource">> \in DOMAIN d /\ IsObject(d[<<"resource">>])
  BY FaultlessRoot, FaultlessObject
<1>2. o \in DOMAIN d /\ d[o].type = "string" /\ (d[o].text \in ToolOperations <=> ~OfModel(d))
  BY FaultlessWords DEF On
<1>3. \A words : OperationIn(d, words) <=> d[o].text \in words
  BY <1>1, <1>2, EnumBreaks DEF OperationIn
<1> QED
  BY <1>2, <1>3 DEF OfModel

(* Production has an account. *)
Production(d) == On(d, "attribution", "environment") /\ d[<<"attribution", "environment">>].text = "production"

(* The branch for production. *)
LEMMA ProductionAt ==
  ASSUME NEW d, Faultless(d), NEW e
  PROVE  e \in ProductionBranch(d) <=>
           /\ Production(d) /\ ~On(d, "attribution", "account_id")
           /\ e = Unmet("required", <<"attribution">>, <<"account_id">>)
<1> DEFINE v == <<"attribution", "environment">>
<1>1. <<"attribution">> \in DOMAIN d /\ IsObject(d[<<"attribution">>])
  BY FaultlessRoot, FaultlessObject
<1>2. On(d, "attribution", "environment") => d[v].type = "string"
  BY FaultlessWords
<1>3. PICK words : words = {"production"}
  OBVIOUS
<1>4. v \in DOMAIN d => (Breaks(d[v], Enum(words)) = {} <=> d[v].text \in words)
  BY <1>2, EnumBreaks DEF On
<1>5. v \in DOMAIN d /\ Breaks(d[v], Enum({"production"})) = {} <=> Production(d)
  BY <1>3, <1>4 DEF Production, On
<1>6. ProductionBranch(d) = IF Production(d) THEN Needs(d, <<"attribution">>, "account_id") ELSE {}
  BY <1>1, <1>5 DEF ProductionBranch
<1> QED
  BY <1>6, NeedsAt

BranchIs(d, e) ==
  \/ /\ OfModel(d)
     /\ \/ On(d, "resource", "namespace") /\ e = Unmet("not", <<"resource">>, <<"namespace">>)
        \/ ~On(d, "resource", "modality") /\ e = Unmet("required", <<"resource">>, <<"modality">>)
        \/ d[TypePath].text # "model" /\ e = Unmet("const", TypePath, <<>>)
        \/ On(d, "usage", "tool") /\ e = Unmet("not", <<"usage">>, <<"tool">>)
        \/ ~On(d, "usage", "llm") /\ e = Unmet("required", <<"usage">>, <<"llm">>)
        \/ On(d, "cost", "tool") /\ e = Unmet("not", <<"cost">>, <<"tool">>)
  \/ /\ ~OfModel(d)
     /\ \/ d[TypePath].text = "model" /\ e = Unmet("const", TypePath, <<>>)
        \/ On(d, "usage", "llm") /\ e = Unmet("not", <<"usage">>, <<"llm">>)
        \/ ~On(d, "usage", "tool") /\ e = Unmet("required", <<"usage">>, <<"tool">>)
        \/ On(d, "cost", "llm") /\ e = Unmet("not", <<"cost">>, <<"llm">>)
  \/ /\ Production(d) /\ ~On(d, "attribution", "account_id")
     /\ e = Unmet("required", <<"attribution">>, <<"account_id">>)

(* The errors of the three branches, one by one. *)
LEMMA BranchErrorsAre ==
  ASSUME NEW d, Faultless(d), NEW e
  PROVE  e \in BranchErrors(d) <=> BranchIs(d, e)
<1>1. e \in ModelBranch(d) <=>
        /\ OfModel(d)
        /\ e \in Forbids(d, <<"resource">>, "namespace") \cup Needs(d, <<"resource">>, "modality") \cup
                 TypeIs(d, "model") \cup Forbids(d, <<"usage">>, "tool") \cup
                 Needs(d, <<"usage">>, "llm") \cup Forbids(d, <<"cost">>, "tool")
  BY OperationAt DEF ModelBranch
<1>2. e \in ToolBranch(d) <=>
        /\ ~OfModel(d)
        /\ e \in TypeIs(d, "tool") \cup Forbids(d, <<"usage">>, "llm") \cup
                 Needs(d, <<"usage">>, "tool") \cup Forbids(d, <<"cost">>, "llm")
  BY OperationAt DEF ToolBranch
<1>3. d[TypePath].text = "tool" <=> d[TypePath].text # "model"
  BY FaultlessWords DEF TypePath
<1>4. /\ e \in Forbids(d, <<"resource">>, "namespace") <=>
           On(d, "resource", "namespace") /\ e = Unmet("not", <<"resource">>, <<"namespace">>)
      /\ e \in Forbids(d, <<"usage">>, "tool") <=>
           On(d, "usage", "tool") /\ e = Unmet("not", <<"usage">>, <<"tool">>)
      /\ e \in Forbids(d, <<"usage">>, "llm") <=>
           On(d, "usage", "llm") /\ e = Unmet("not", <<"usage">>, <<"llm">>)
      /\ e \in Forbids(d, <<"cost">>, "tool") <=>
           On(d, "cost", "tool") /\ e = Unmet("not", <<"cost">>, <<"tool">>)
      /\ e \in Forbids(d, <<"cost">>, "llm") <=>
           On(d, "cost", "llm") /\ e = Unmet("not", <<"cost">>, <<"llm">>)
  BY ForbidsAt
<1>5. /\ e \in Needs(d, <<"resource">>, "modality") <=>
           ~On(d, "resource", "modality") /\ e = Unmet("required", <<"resource">>, <<"modality">>)
      /\ e \in Needs(d, <<"usage">>, "llm") <=>
           ~On(d, "usage", "llm") /\ e = Unmet("required", <<"usage">>, <<"llm">>)
      /\ e \in Needs(d, <<"usage">>, "tool") <=>
           ~On(d, "usage", "tool") /\ e = Unmet("required", <<"usage">>, <<"tool">>)
  BY NeedsAt
<1>6. /\ e \in TypeIs(d, "model") <=> d[TypePath].text # "model" /\ e = Unmet("const", TypePath, <<>>)
      /\ e \in TypeIs(d, "tool") <=> d[TypePath].text # "tool" /\ e = Unmet("const", TypePath, <<>>)
  BY TypeAt
<1> QED
  BY <1>1, <1>2, <1>3, <1>4, <1>5, <1>6, ProductionAt DEF BranchErrors, BranchIs

(* How they are reported. *)
Told(d, i, p) == i.path = p /\ Pointer(p) = p /\ Proper(d, i) /\ i.code # "INVALID_TYPE"

(* An issue about a property of an object other than the labels. *)
LEMMA ToldAt ==
  ASSUME NEW d, NEW a, NEW f, a \notin {"labels", "*"}, f # "*", NEW i, i.path = <<a, f>>,
         i.code = "REQUIRED" <=> ~On(d, a, f), i.code # "INVALID_TYPE"
  PROVE  Told(d, i, <<a, f>>)
<1>1. PICK q : q = <<a, f>>
  OBVIOUS
<1>2. DOMAIN q = 1..2 /\ q[1] = a /\ q[2] = f
  BY <1>1
<1>3. "*" \notin Range(q)
  BY <1>2 DEF Range
<1>4. \A k \in DOMAIN q : k > 1 /\ q[k - 1] = "labels" => q[k] = "*"
  BY <1>2
<1>5. Pointer(q) = q
  BY <1>1, PathsAre
<1>6. q \notin DOMAIN d <=> ~On(d, a, f)
  BY <1>1 DEF On
<1> QED
  BY <1>1, <1>3, <1>4, <1>5, <1>6 DEF Told, Proper

(* An issue has its code, and its path with the names of labels hidden. *)
LEMMA IssueIs ==
  \A code, path : Issue(code, path).code = code /\ Issue(code, path).path = Pointer(path)
BY DEF Issue

(* The codes of the conditions. *)
LEMMA UnmetCodes ==
  ASSUME NEW d, NEW e, e.inName = FALSE
  PROVE  /\ e.keyword = "not" => CodeFor(e, d) = "FORBIDDEN"
         /\ e.keyword = "required" => CodeFor(e, d) = "REQUIRED"
         /\ e.keyword = "const" => CodeFor(e, d) = "INVALID_STRUCTURE"
<1>1. CASE e.keyword = "not"
  BY <1>1 DEF CodeFor, KeywordCodes
<1>2. CASE e.keyword = "required"
  BY <1>2 DEF CodeFor, KeywordCodes
<1>3. CASE e.keyword = "const"
  BY <1>3 DEF CodeFor, KeywordCodes
<1> QED
  BY <1>1, <1>2, <1>3

(* A condition about a property of the resource, the cost or the attribution. *)
LEMMA UnmetTold ==
  ASSUME NEW d, NEW a \in {"resource", "cost", "attribution"}, NEW f, f # "*",
         NEW k \in {"not", "required"}, k = "required" <=> ~On(d, a, f), NEW e, e = Unmet(k, <<a>>, <<f>>)
  PROVE  Told(d, ToIssue(e, d), <<a, f>>)
<1>1. e.at = <<a>> /\ e.beneath = <<f>> /\ e.keyword = k /\ e.inName = FALSE
  BY DEF Unmet, Error
<1>2. \A x \in FieldCodes : x[2] \in {"not", "required"} => x[1] = <<"usage">>
  BY DEF FieldCodes
<1>3. <<a>> # <<"usage">>
  OBVIOUS
<1>4. ToIssue(e, d) = Issue(CodeFor(e, d), e.at \o e.beneath)
  BY <1>1, <1>2, <1>3 DEF ToIssue
<1>5. CodeFor(e, d) = IF k = "not" THEN "FORBIDDEN" ELSE "REQUIRED"
  BY <1>1, UnmetCodes
<1>6. a # "labels" /\ e.at \o e.beneath = <<a, f>> /\ Pointer(<<a, f>>) = <<a, f>>
  BY <1>1, PathsAre
<1>7. ToIssue(e, d).path = <<a, f>> /\ ToIssue(e, d).code = CodeFor(e, d)
  <2>1. Issue(CodeFor(e, d), e.at \o e.beneath).path = Pointer(e.at \o e.beneath)
        /\ Issue(CodeFor(e, d), e.at \o e.beneath).code = CodeFor(e, d)
    BY IssueIs, Zenon
  <2>2. Pointer(e.at \o e.beneath) = <<a, f>>
    BY <1>6, Zenon
  <2> QED
    BY <1>4, <2>1, <2>2, Zenon
<1> QED
  BY <1>5, <1>6, <1>7, ToldAt

(* One about the usage is reported at the usage. *)
LEMMA UnmetUsage ==
  ASSUME NEW d, Faultless(d), NEW f, NEW k \in {"not", "required"}, NEW e, e = Unmet(k, <<"usage">>, <<f>>)
  PROVE  Told(d, ToIssue(e, d), <<"usage">>)
<1>1. PICK p : p = <<"usage">>
  OBVIOUS
<1>2. e.at = p /\ e.keyword = k
  BY <1>1 DEF Unmet, Error
<1> DEFINE field == {x \in FieldCodes : x[1] = e.at /\ x[2] = e.keyword}
<1>3. <<p, k, "INVALID_STRUCTURE">> \in FieldCodes
  BY <1>1 DEF FieldCodes
<1>4. \A x \in FieldCodes : x[2] \in {"not", "required"} => x[3] = "INVALID_STRUCTURE"
  BY DEF FieldCodes
<1>5. field # {} /\ \A x \in field : x[3] = "INVALID_STRUCTURE"
  BY <1>2, <1>3, <1>4
<1>6. ToIssue(e, d) = Issue("INVALID_STRUCTURE", p)
  <2>1. ToIssue(e, d) = Issue((CHOOSE x \in field : TRUE)[3], e.at)
    BY <1>5 DEF ToIssue
  <2>2. (CHOOSE x \in field : TRUE) \in field
    BY <1>5
  <2> HIDE DEF field
  <2> QED
    BY <1>2, <1>5, <2>1, <2>2
<1>7. Pointer(p) = p
  BY <1>1, PathsAre
<1>8. ToIssue(e, d).path = p /\ ToIssue(e, d).code = "INVALID_STRUCTURE"
  BY <1>6, <1>7 DEF Issue
<1>9. p \in DOMAIN d
  BY <1>1, FaultlessRoot
<1>10. p \in Seq({"usage"})
  BY <1>1
<1>11. Proper(d, ToIssue(e, d))
  BY <1>7, <1>8, <1>9, <1>10, ThereProper
<1> QED
  BY <1>1, <1>7, <1>8, <1>11 DEF Told

(* One about the type is reported at the resource's type. *)
LEMMA UnmetType ==
  ASSUME NEW d, Faultless(d), NEW e, e = Unmet("const", TypePath, <<>>)
  PROVE  Told(d, ToIssue(e, d), TypePath)
<1>1. PICK p : p = TypePath
  OBVIOUS
<1>2. e.at = p /\ e.keyword = "const" /\ e.inName = FALSE /\ e.beneath = <<>>
  BY <1>1 DEF Unmet, Error
<1>3. \A x \in FieldCodes : x[2] # "const"
  BY DEF FieldCodes
<1>4. ToIssue(e, d) = Issue(CodeFor(e, d), e.at \o e.beneath)
  BY <1>2, <1>3 DEF ToIssue
<1>5. CodeFor(e, d) = "INVALID_STRUCTURE"
  BY <1>2, UnmetCodes
<1>6. p \in Seq({"resource", "type"}) /\ Pointer(p) = p
  <2>1. p = <<"resource", "type">>
    BY <1>1 DEF TypePath
  <2>2. \A f : Pointer(<<"resource", f>>) = <<"resource", f>>
    BY PathsAre
  <2>3. p \in Seq({"resource", "type"})
    BY <2>1
  <2>4. Pointer(p) = p
    BY <2>1, <2>2, Zenon
  <2> QED
    BY <2>3, <2>4
<1>7. e.at \o e.beneath = p
  BY <1>2, <1>6, ConcatEmptySeq
<1>8. ToIssue(e, d).path = p /\ ToIssue(e, d).code = "INVALID_STRUCTURE"
  <2>1. Issue(CodeFor(e, d), e.at \o e.beneath).path = Pointer(e.at \o e.beneath)
        /\ Issue(CodeFor(e, d), e.at \o e.beneath).code = CodeFor(e, d)
    BY IssueIs, Zenon
  <2> QED
    BY <1>4, <1>5, <1>6, <1>7, <2>1, Zenon
<1>9. On(d, "resource", "type") /\ p = <<"resource", "type">>
  BY <1>1, FaultlessWords DEF TypePath
<1>10. Told(d, ToIssue(e, d), <<"resource", "type">>)
  BY <1>8, <1>9, ToldAt
<1> QED
  BY <1>1, <1>9, <1>10

(* What does not go together, path by path. *)
TimePath == <<"timing", "event_time">>
UserPath == <<"attribution", "user_id">>
EnvironmentPath == <<"attribution", "environment">>

Ahead(moment, now) ==
  LET late == ParseTimestamp(At(now + 5))
  IN moment.seconds > late.seconds \/ (moment.seconds = late.seconds /\ moment.ms > 0)

Mistimed(d, now) ==
  LET moment == ParseTimestamp(d[TimePath]) IN moment.finer \/ Ahead(moment, now)

Named(d) == On(d, "attribution", "user_id") /\ "at" \in d[UserPath].fits

BranchMisfit(d, p) ==
  \/ p = <<"resource", "namespace">> /\ OfModel(d) /\ On(d, "resource", "namespace")
  \/ p = <<"resource", "modality">> /\ OfModel(d) /\ ~On(d, "resource", "modality")
  \/ p = TypePath /\ ~(d[TypePath].text = "model" <=> OfModel(d))
  \/ p = <<"usage">> /\ (~(On(d, "usage", "llm") <=> OfModel(d)) \/ (On(d, "usage", "tool") <=> OfModel(d)))
  \/ p = <<"cost", "tool">> /\ OfModel(d) /\ On(d, "cost", "tool")
  \/ p = <<"cost", "llm">> /\ ~OfModel(d) /\ On(d, "cost", "llm")
  \/ p = <<"attribution", "account_id">> /\ Production(d) /\ ~On(d, "attribution", "account_id")

ProseMisfit(d, now, p) ==
  \/ p = EnvironmentPath /\ ~On(d, "attribution", "environment")
  \/ p = UserPath /\ Named(d)
  \/ p = TimePath /\ Mistimed(d, now)

(* These are the paths at which the parts do not go together. *)
LEMMA MisfitsAre ==
  ASSUME NEW d, NEW now, NEW p
  PROVE  p \in Misfits(d, now) <=> BranchMisfit(d, p) \/ ProseMisfit(d, now, p)
<1> DEFINE at(x, bad) == {q \in {x} : bad}
<1>1. Misfits(d, now) =
        at(<<"resource", "namespace">>, OfModel(d) /\ On(d, "resource", "namespace")) \cup
        at(<<"resource", "modality">>, OfModel(d) /\ ~On(d, "resource", "modality")) \cup
        at(TypePath, (d[TypePath].text = "model") # OfModel(d)) \cup
        at(<<"usage">>, On(d, "usage", "llm") # OfModel(d) \/ On(d, "usage", "tool") = OfModel(d)) \cup
        at(<<"cost", "tool">>, OfModel(d) /\ On(d, "cost", "tool")) \cup
        at(<<"cost", "llm">>, ~OfModel(d) /\ On(d, "cost", "llm")) \cup
        at(EnvironmentPath, ~On(d, "attribution", "environment")) \cup
        at(<<"attribution", "account_id">>,
           /\ On(d, "attribution", "environment") /\ ~On(d, "attribution", "account_id")
           /\ d[EnvironmentPath].text = "production") \cup
        at(UserPath, On(d, "attribution", "user_id") /\ "at" \in d[UserPath].fits) \cup
        at(TimePath, ParseTimestamp(d[TimePath]).finer \/
             ParseTimestamp(d[TimePath]).seconds > ParseTimestamp(At(now + 5)).seconds \/
             (ParseTimestamp(d[TimePath]).seconds = ParseTimestamp(At(now + 5)).seconds
                /\ ParseTimestamp(d[TimePath]).ms > 0))
  BY Zenon DEF Misfits, OfModel, On, TypePath, EnvironmentPath, UserPath, TimePath
<1>2. /\ (d[TypePath].text = "model") # OfModel(d) <=> ~(d[TypePath].text = "model" <=> OfModel(d))
      /\ On(d, "usage", "llm") # OfModel(d) <=> ~(On(d, "usage", "llm") <=> OfModel(d))
      /\ On(d, "usage", "tool") = OfModel(d) <=> (On(d, "usage", "tool") <=> OfModel(d))
  BY DEF On, OfModel
<1>3. Production(d) /\ ~On(d, "attribution", "account_id") <=>
        /\ On(d, "attribution", "environment") /\ ~On(d, "attribution", "account_id")
        /\ d[EnvironmentPath].text = "production"
  BY DEF Production, EnvironmentPath
<1>4. Mistimed(d, now) <=>
        \/ ParseTimestamp(d[TimePath]).finer
        \/ ParseTimestamp(d[TimePath]).seconds > ParseTimestamp(At(now + 5)).seconds
        \/ (ParseTimestamp(d[TimePath]).seconds = ParseTimestamp(At(now + 5)).seconds
             /\ ParseTimestamp(d[TimePath]).ms > 0)
  BY Zenon DEF Mistimed, Ahead
<1>5. p \in Misfits(d, now) <=>
        \/ p = <<"resource", "namespace">> /\ OfModel(d) /\ On(d, "resource", "namespace")
        \/ p = <<"resource", "modality">> /\ OfModel(d) /\ ~On(d, "resource", "modality")
        \/ p = TypePath /\ (d[TypePath].text = "model") # OfModel(d)
        \/ p = <<"usage">> /\ (On(d, "usage", "llm") # OfModel(d) \/ On(d, "usage", "tool") = OfModel(d))
        \/ p = <<"cost", "tool">> /\ OfModel(d) /\ On(d, "cost", "tool")
        \/ p = <<"cost", "llm">> /\ ~OfModel(d) /\ On(d, "cost", "llm")
        \/ p = EnvironmentPath /\ ~On(d, "attribution", "environment")
        \/ /\ p = <<"attribution", "account_id">>
           /\ On(d, "attribution", "environment") /\ ~On(d, "attribution", "account_id")
           /\ d[EnvironmentPath].text = "production"
        \/ p = UserPath /\ On(d, "attribution", "user_id") /\ "at" \in d[UserPath].fits
        \/ /\ p = TimePath
           /\ \/ ParseTimestamp(d[TimePath]).finer
              \/ ParseTimestamp(d[TimePath]).seconds > ParseTimestamp(At(now + 5)).seconds
              \/ (ParseTimestamp(d[TimePath]).seconds = ParseTimestamp(At(now + 5)).seconds
                   /\ ParseTimestamp(d[TimePath]).ms > 0)
  BY <1>1
<1> QED
  BY <1>2, <1>3, <1>4, <1>5, Zenon DEF BranchMisfit, ProseMisfit, Named

(* What the conditions report is what they are about, *)
LEMMA BranchTold ==
  ASSUME NEW d, Faultless(d), NEW e, BranchIs(d, e)
  PROVE  \E p : BranchMisfit(d, p) /\ Told(d, ToIssue(e, d), p)
<1> DEFINE Says(p) == BranchMisfit(d, p) /\ Told(d, ToIssue(e, d), p)
<1>1. ASSUME OfModel(d), On(d, "resource", "namespace"), e = Unmet("not", <<"resource">>, <<"namespace">>)
      PROVE  Says(<<"resource", "namespace">>)
  BY <1>1, UnmetTold DEF BranchMisfit
<1>2. ASSUME OfModel(d), ~On(d, "resource", "modality"), e = Unmet("required", <<"resource">>, <<"modality">>)
      PROVE  Says(<<"resource", "modality">>)
  BY <1>2, UnmetTold DEF BranchMisfit
<1>3. ASSUME ~(d[TypePath].text = "model" <=> OfModel(d)), e = Unmet("const", TypePath, <<>>)
      PROVE  Says(TypePath)
  BY <1>3, UnmetType DEF BranchMisfit
<1>4. ASSUME ~(On(d, "usage", "llm") <=> OfModel(d)) \/ (On(d, "usage", "tool") <=> OfModel(d)),
             NEW k \in {"not", "required"}, NEW f, e = Unmet(k, <<"usage">>, <<f>>)
      PROVE  Says(<<"usage">>)
  BY <1>4, UnmetUsage DEF BranchMisfit
<1>5. ASSUME OfModel(d), On(d, "cost", "tool"), e = Unmet("not", <<"cost">>, <<"tool">>)
      PROVE  Says(<<"cost", "tool">>)
  BY <1>5, UnmetTold DEF BranchMisfit
<1>6. ASSUME ~OfModel(d), On(d, "cost", "llm"), e = Unmet("not", <<"cost">>, <<"llm">>)
      PROVE  Says(<<"cost", "llm">>)
  BY <1>6, UnmetTold DEF BranchMisfit
<1>7. ASSUME Production(d), ~On(d, "attribution", "account_id"),
             e = Unmet("required", <<"attribution">>, <<"account_id">>)
      PROVE  Says(<<"attribution", "account_id">>)
  BY <1>7, UnmetTold DEF BranchMisfit
<1> HIDE DEF Says
<1>8. \E p : Says(p)
  BY <1>1, <1>2, <1>3, <1>4, <1>5, <1>6, <1>7 DEF BranchIs
<1> QED
  BY <1>8 DEF Says

(* and everything they are about is reported. *)
LEMMA BranchReported ==
  ASSUME NEW d, Faultless(d), NEW p, BranchMisfit(d, p)
  PROVE  \E e : BranchIs(d, e) /\ Told(d, ToIssue(e, d), p)
<1> DEFINE Says(e, q) == BranchIs(d, e) /\ Told(d, ToIssue(e, d), q)
<1>1. ASSUME OfModel(d), On(d, "resource", "namespace")
      PROVE  Says(Unmet("not", <<"resource">>, <<"namespace">>), <<"resource", "namespace">>)
  BY <1>1, UnmetTold DEF BranchIs
<1>2. ASSUME OfModel(d), ~On(d, "resource", "modality")
      PROVE  Says(Unmet("required", <<"resource">>, <<"modality">>), <<"resource", "modality">>)
  BY <1>2, UnmetTold DEF BranchIs
<1>3. ASSUME ~(d[TypePath].text = "model" <=> OfModel(d))
      PROVE  Says(Unmet("const", TypePath, <<>>), TypePath)
  BY <1>3, UnmetType DEF BranchIs
<1>4. ASSUME NEW k \in {"not", "required"}, NEW f, BranchIs(d, Unmet(k, <<"usage">>, <<f>>))
      PROVE  Says(Unmet(k, <<"usage">>, <<f>>), <<"usage">>)
  BY <1>4, UnmetUsage
<1>5. ASSUME OfModel(d), On(d, "cost", "tool")
      PROVE  Says(Unmet("not", <<"cost">>, <<"tool">>), <<"cost", "tool">>)
  BY <1>5, UnmetTold DEF BranchIs
<1>6. ASSUME ~OfModel(d), On(d, "cost", "llm")
      PROVE  Says(Unmet("not", <<"cost">>, <<"llm">>), <<"cost", "llm">>)
  BY <1>6, UnmetTold DEF BranchIs
<1>7. ASSUME Production(d), ~On(d, "attribution", "account_id")
      PROVE  Says(Unmet("required", <<"attribution">>, <<"account_id">>), <<"attribution", "account_id">>)
  BY <1>7, UnmetTold DEF BranchIs
<1>8. ASSUME ~(On(d, "usage", "llm") <=> OfModel(d)) \/ (On(d, "usage", "tool") <=> OfModel(d))
      PROVE  \E e : Says(e, <<"usage">>)
  <2>1. \E k \in {"not", "required"} : \E f : BranchIs(d, Unmet(k, <<"usage">>, <<f>>))
    BY <1>8 DEF BranchIs
  <2> HIDE DEF Says
  <2> QED
    BY <1>4, <2>1
<1> HIDE DEF Says
<1>9. \E e : Says(e, p)
  BY <1>1, <1>2, <1>3, <1>5, <1>6, <1>7, <1>8 DEF BranchMisfit
<1> QED
  BY <1>9 DEF Says

(* The second stage reports the conditions, and nothing of them is masked. *)
LEMMA ConditionalAre ==
  ASSUME NEW d, Faultless(d), NEW i
  PROVE  i \in SchemaIssues(d).conditional <=> \E e : BranchIs(d, e) /\ i = ToIssue(e, d)
<1> DEFINE errors == SchemaErrors(d)
           mistyped == {x.at : x \in {y \in errors : y.keyword = "type"}}
           kept == {x \in errors : /\ x.keyword = "type" \/ x.at \notin mistyped
                                   /\ ToIssue(x, d).path # SinkOwned}
<1>1. SchemaIssues(d).conditional = {ToIssue(x, d) : x \in {y \in kept : y.conditional = TRUE}}
  BY DEF SchemaIssues
<1>2. \A e : e \in errors <=> BranchIs(d, e)
  BY SchemaErrorsAre, NothingFound, BranchErrorsAre DEF Faultless
<1>3. \A e \in errors : e.conditional = TRUE /\ e.keyword # "type"
  BY SchemaErrorsAre, NothingFound, BranchTells DEF Faultless
<1>4. mistyped = {}
  BY <1>3
<1>5. ASSUME NEW e, BranchIs(d, e) PROVE ToIssue(e, d).path # SinkOwned
  <2>1. PICK p : BranchMisfit(d, p) /\ ToIssue(e, d).path = p
    BY <1>5, BranchTold DEF Told
  <2>2. p # SinkOwned
    BY <2>1 DEF BranchMisfit, SinkOwned, TypePath
  <2> QED
    BY <2>1, <2>2
<1> HIDE DEF errors, mistyped
<1>6. \A e : e \in kept /\ e.conditional = TRUE <=> BranchIs(d, e)
  BY <1>2, <1>3, <1>4, <1>5
<1> HIDE DEF kept
<1> QED
  BY <1>1, <1>6

(* The clock five minutes on is the limit of what is no future. *)
LEMMA FutureIs ==
  ASSUME NEW now \in 0..MaxClock, NEW moment
  PROVE  IsFuture(moment, now) <=> Ahead(moment, now)
<1> DEFINE limit == ParseTimestamp(At(now)).seconds + FutureSkew
           late == ParseTimestamp(At(now + 5)).seconds
<1>1. now \in 0..(MaxClock + 5) /\ now + 5 \in 0..(MaxClock + 5) /\ now \in Int
  BY Bounds
<1>2. ParseTimestamp(At(now)).seconds \in Int /\ ParseTimestamp(At(now)).seconds = Seconds(ClockParts) + now * 60
  BY <1>1, ClockShows
<1>3. late \in Int /\ late = Seconds(ClockParts) + (now + 5) * 60
  BY <1>1, ClockShows
<1>4. Seconds(ClockParts) \in Int
  <2>1. ParseTimestamp(At(0)).seconds \in Int /\ ParseTimestamp(At(0)).seconds = Seconds(ClockParts) + 0 * 60
    <3>1. 0 \in 0..(MaxClock + 5)
      BY Bounds
    <3> QED
      BY <3>1, ClockShows
  <2>2. Real(ClockParts)
    <3>1. At(0).parts = [ClockParts EXCEPT !.mi = @ + 0] /\ "parts" \in DOMAIN At(0)
      BY DEF At, Stamp
    <3>2. [ClockParts EXCEPT !.mi = @ + 0] = ClockParts
      BY ClockAssumption DEF Parts
    <3> QED
      BY <3>1, <3>2, MomentIs, ClockAssumption
  <2> QED
    BY <2>2, SecondsInt, ClockAssumption
<1>5. limit = late
  BY <1>1, <1>2, <1>3, <1>4 DEF FutureSkew
<1> HIDE DEF limit, late
<1>6. IsFuture(moment, now) <=> moment.seconds > limit \/ (moment.seconds = limit /\ moment.ms > 0)
  BY DEF IsFuture, limit
<1>7. Ahead(moment, now) <=> moment.seconds > late \/ (moment.seconds = late /\ moment.ms > 0)
  BY DEF Ahead, late
<1> QED
  BY <1>5, <1>6, <1>7

(* What the rules that no schema can state report. *)
LEMMA ProseAre ==
  ASSUME NEW d, Faultless(d), NEW now \in 0..MaxClock, NEW i
  PROVE  i \in ProseIssues(d, now) <=>
           \/ ParseTimestamp(d[TimePath]).finer /\ i = Issue("MILLISECOND_PRECISION", TimePath)
           \/ Ahead(ParseTimestamp(d[TimePath]), now) /\ i = Issue("FUTURE_EVENT_TIME", TimePath)
           \/ ~On(d, "attribution", "environment") /\ i = Issue("REQUIRED", EnvironmentPath)
           \/ Named(d) /\ i = Issue("NON_PSEUDONYMOUS_ID", UserPath)
<1>1. PICK moment : moment = ParseTimestamp(d[TimePath])
  OBVIOUS
<1>2. moment # Nil
  BY <1>1, FaultlessTime DEF TimePath
<1> DEFINE finer == IF moment # Nil /\ moment.finer THEN {Issue("MILLISECOND_PRECISION", TimePath)} ELSE {}
           future == IF moment # Nil /\ IsFuture(moment, now) THEN {Issue("FUTURE_EVENT_TIME", TimePath)} ELSE {}
           env == IF EnvironmentPath \notin DOMAIN d THEN {Issue("REQUIRED", EnvironmentPath)} ELSE {}
           user == {Issue("NON_PSEUDONYMOUS_ID", p) : p \in {q \in {UserPath} \cap DOMAIN d : "at" \in d[q].fits}}
<1>3. ProseIssues(d, now) = finer \cup future \cup env \cup user
  BY <1>1 DEF ProseIssues, TimePath, EnvironmentPath, UserPath
<1>4. i \in finer <=> moment.finer /\ i = Issue("MILLISECOND_PRECISION", TimePath)
  BY <1>2
<1>5. i \in future <=> Ahead(moment, now) /\ i = Issue("FUTURE_EVENT_TIME", TimePath)
  BY <1>2, FutureIs
<1>6. i \in env <=> ~On(d, "attribution", "environment") /\ i = Issue("REQUIRED", EnvironmentPath)
  BY DEF On, EnvironmentPath
<1>7. i \in user <=> Named(d) /\ i = Issue("NON_PSEUDONYMOUS_ID", UserPath)
  BY DEF Named, On, UserPath
<1> HIDE DEF finer, future, env, user
<1> QED
  BY <1>1, <1>3, <1>4, <1>5, <1>6, <1>7

(* An issue about the time or the attribution. *)
LEMMA ProseTold ==
  ASSUME NEW d, Faultless(d), NEW code, NEW a \in {"timing", "attribution"}, NEW f, f # "*",
         code = "REQUIRED" <=> ~On(d, a, f), code # "INVALID_TYPE"
  PROVE  Told(d, Issue(code, <<a, f>>), <<a, f>>)
<1>1. a # "labels" /\ a # "*"
  OBVIOUS
<1>2. Pointer(<<a, f>>) = <<a, f>>
  BY <1>1, PathsAre
<1>3. Issue(code, <<a, f>>).code = code /\ Issue(code, <<a, f>>).path = <<a, f>>
  BY <1>2, IssueIs
<1> QED
  BY <1>1, <1>3, ToldAt

(* Each of them is about what it says. *)
LEMMA ProseIssuesTold ==
  ASSUME NEW d, Faultless(d)
  PROVE  /\ \A code \in {"MILLISECOND_PRECISION", "FUTURE_EVENT_TIME"} : Told(d, Issue(code, TimePath), TimePath)
         /\ ~On(d, "attribution", "environment") => Told(d, Issue("REQUIRED", EnvironmentPath), EnvironmentPath)
         /\ Named(d) => Told(d, Issue("NON_PSEUDONYMOUS_ID", UserPath), UserPath)
<1>1. On(d, "timing", "event_time")
  BY FaultlessTime DEF On
<1>2. \A code \in {"MILLISECOND_PRECISION", "FUTURE_EVENT_TIME"} :
        Told(d, Issue(code, <<"timing", "event_time">>), <<"timing", "event_time">>)
  BY <1>1, ProseTold
<1>3. ~On(d, "attribution", "environment") =>
        Told(d, Issue("REQUIRED", <<"attribution", "environment">>), <<"attribution", "environment">>)
  BY ProseTold
<1>4. Named(d) => Told(d, Issue("NON_PSEUDONYMOUS_ID", <<"attribution", "user_id">>), <<"attribution", "user_id">>)
  BY ProseTold DEF Named
<1> QED
  BY <1>2, <1>3, <1>4, Zenon DEF TimePath, EnvironmentPath, UserPath

(* What they report does not go together, *)
LEMMA ProseBlames ==
  ASSUME NEW d, Faultless(d), NEW now \in 0..MaxClock, NEW i \in ProseIssues(d, now)
  PROVE  \E p : ProseMisfit(d, now, p) /\ Told(d, i, p)
<1>1. CASE ParseTimestamp(d[TimePath]).finer /\ i = Issue("MILLISECOND_PRECISION", TimePath)
  <2>1. ProseMisfit(d, now, TimePath)
    BY <1>1 DEF ProseMisfit, Mistimed
  <2> QED
    BY <1>1, <2>1, ProseIssuesTold
<1>2. CASE Ahead(ParseTimestamp(d[TimePath]), now) /\ i = Issue("FUTURE_EVENT_TIME", TimePath)
  <2>1. ProseMisfit(d, now, TimePath)
    BY <1>2 DEF ProseMisfit, Mistimed
  <2> QED
    BY <1>2, <2>1, ProseIssuesTold
<1>3. CASE ~On(d, "attribution", "environment") /\ i = Issue("REQUIRED", EnvironmentPath)
  BY <1>3, ProseIssuesTold DEF ProseMisfit
<1>4. CASE Named(d) /\ i = Issue("NON_PSEUDONYMOUS_ID", UserPath)
  BY <1>4, ProseIssuesTold DEF ProseMisfit
<1> QED
  BY <1>1, <1>2, <1>3, <1>4, ProseAre

(* and all that they are about is reported. *)
LEMMA ProseReported ==
  ASSUME NEW d, Faultless(d), NEW now \in 0..MaxClock, NEW p, ProseMisfit(d, now, p)
  PROVE  \E i \in ProseIssues(d, now) : Told(d, i, p)
<1>1. CASE p = EnvironmentPath /\ ~On(d, "attribution", "environment")
  BY <1>1, ProseIssuesTold, ProseAre
<1>2. CASE p = UserPath /\ Named(d)
  BY <1>2, ProseIssuesTold, ProseAre
<1>3. CASE p = TimePath /\ ParseTimestamp(d[TimePath]).finer
  BY <1>3, ProseIssuesTold, ProseAre
<1>4. CASE p = TimePath /\ Ahead(ParseTimestamp(d[TimePath]), now)
  BY <1>4, ProseIssuesTold, ProseAre
<1> QED
  BY <1>1, <1>2, <1>3, <1>4 DEF ProseMisfit, Mistimed

(* A verdict that blames what is at fault. *)
Faults(d, now) == IF OwnFaults(d) # {} THEN OwnFaults(d) ELSE Misfits(d, now)

Exact(d, now, found) ==
  LET reported == {i.path : i \in found}
  IN /\ reported = {Pointer(p) : p \in Faults(d, now)}
     /\ \A i \in found : /\ i.code = "REQUIRED" <=> i.path \in reported \ DOMAIN d /\ "*" \notin Range(i.path)
                         /\ \A k \in DOMAIN i.path : k > 1 /\ i.path[k - 1] = "labels" => i.path[k] = "*"
     /\ \A i \in found : i.code = "INVALID_TYPE" /\ "*" \notin Range(i.path) =>
                           Cardinality({j \in found : j.path = i.path}) = 1

(* It is enough that every issue is about a fault, every fault has an issue, and no other issue is
   at the path of a value of the wrong type. *)
LEMMA ExactIs ==
  ASSUME NEW d, NEW now, NEW found,
         \A i \in found : Proper(d, i) /\ \E p \in Faults(d, now) : i.path = Pointer(p),
         \A p \in Faults(d, now) : \E i \in found : i.path = Pointer(p),
         \A i, j \in found : i.code = "INVALID_TYPE" /\ "*" \notin Range(i.path) /\ j.path = i.path => j = i
  PROVE  Exact(d, now, found)
<1> DEFINE reported == {i.path : i \in found}
<1>1. reported = {Pointer(p) : p \in Faults(d, now)}
  OBVIOUS
<1>2. ASSUME NEW i \in found
      PROVE  /\ i.code = "REQUIRED" <=> i.path \in reported \ DOMAIN d /\ "*" \notin Range(i.path)
             /\ \A k \in DOMAIN i.path : k > 1 /\ i.path[k - 1] = "labels" => i.path[k] = "*"
  <2>1. i.path \in reported
    OBVIOUS
  <2>2. Proper(d, i)
    OBVIOUS
  <2> HIDE DEF reported
  <2> QED
    BY <2>1, <2>2 DEF Proper
<1>3. ASSUME NEW i \in found, i.code = "INVALID_TYPE", "*" \notin Range(i.path)
      PROVE  Cardinality({j \in found : j.path = i.path}) = 1
  <2>1. {j \in found : j.path = i.path} = {i}
    BY <1>3
  <2> QED
    BY <2>1, FS_Singleton
<1> QED
  BY <1>1, <1>2, <1>3 DEF Exact

(* The verdict on an object whose parts keep to their own rules, *)
LEMMA ConditionalExact ==
  ASSUME NEW d, Faultless(d), NEW now \in 0..MaxClock
  PROVE  Exact(d, now, SchemaIssues(d).conditional \cup ProseIssues(d, now))
<1> DEFINE found == SchemaIssues(d).conditional \cup ProseIssues(d, now)
<1>1. Faults(d, now) = Misfits(d, now)
  BY DEF Faults, Faultless
<1>2. ASSUME NEW i \in found PROVE \E p \in Faults(d, now) : Told(d, i, p)
  <2>1. CASE i \in ProseIssues(d, now)
    BY <1>1, <2>1, ProseBlames, MisfitsAre
  <2>2. CASE i \in SchemaIssues(d).conditional
    BY <1>1, <2>2, ConditionalAre, BranchTold, MisfitsAre
  <2> QED
    BY <2>1, <2>2
<1>3. ASSUME NEW p \in Faults(d, now) PROVE \E i \in found : Told(d, i, p)
  <2>1. CASE ProseMisfit(d, now, p)
    BY <2>1, ProseReported
  <2>2. CASE BranchMisfit(d, p)
    BY <2>2, ConditionalAre, BranchReported
  <2> QED
    BY <1>1, <2>1, <2>2, MisfitsAre
<1> HIDE DEF found
<1>4. \A i \in found : Proper(d, i) /\ \E p \in Faults(d, now) : i.path = Pointer(p)
  BY <1>2 DEF Told
<1>5. \A p \in Faults(d, now) : \E i \in found : i.path = Pointer(p)
  BY <1>3 DEF Told
<1>6. \A i \in found : i.code # "INVALID_TYPE"
  BY <1>2 DEF Told
<1>7. Exact(d, now, found)
  BY <1>4, <1>5, <1>6, ExactIs
<1> QED
  BY <1>7 DEF found

(* and on one of which a part does not. *)
LEMMA StructuralExact ==
  ASSUME NEW d, Tree(d), IsObject(d[<<>>]), OwnFaults(d) # {}, NEW now
  PROVE  Exact(d, now, Structural(d))
<1>1. Faults(d, now) = OwnFaults(d)
  BY DEF Faults
<1>2. \A i \in Structural(d) : Proper(d, i) /\ \E p \in Faults(d, now) : i.path = Pointer(p)
  BY <1>1, StructuralBlames
<1>3. \A p \in Faults(d, now) : \E i \in Structural(d) : i.path = Pointer(p)
  BY <1>1, FaultsReported
<1>4. \A i, j \in Structural(d) : i.code = "INVALID_TYPE" /\ "*" \notin Range(i.path) /\ j.path = i.path => j = i
  BY TypeOnce
<1> QED
  BY <1>2, <1>3, <1>4, ExactIs

(* What is inspected is judged exactly. *)
LEMMA InspectExact ==
  ASSUME NEW x, ~Throws(x), NEW d, d = AsJson(x), Tree(d), IsObject(d[<<>>]), NEW now \in 0..MaxClock
  PROVE  Exact(d, now, Inspect(x, now))
<1>1. Inspect(x, now) = IF Structural(d) # {} THEN Structural(d)
                        ELSE SchemaIssues(d).conditional \cup ProseIssues(d, now)
  BY Zenon DEF Inspect, Structural
<1>2. CASE OwnFaults(d) # {}
  <2>1. Structural(d) # {}
    BY <1>2, FaultsReported
  <2> QED
    BY <1>1, <1>2, <2>1, StructuralExact
<1>3. CASE OwnFaults(d) = {}
  <2>1. Structural(d) = {}
    BY <1>3, StructuralBlames
  <2>2. Faultless(d)
    BY <1>3 DEF Faultless
  <2> QED
    BY <1>1, <2>1, <2>2, ConditionalExact
<1> QED
  BY <1>2, <1>3

(* The record that parseRecord() is given, if it is an object of a release it knows. *)
Judgeable(x) ==
  /\ Clones(x) /\ IsObject(x[<<>>])
  /\ Has(x, <<"spec_version">>, "string") /\ "version" \in x[<<"spec_version">>].fits

(* Its verdict is exact. *)
LEMMA ParseExact ==
  ASSUME NEW x, Tree(x), Judgeable(x), NEW now \in 0..MaxClock
  PROVE  Exact(AsJson(Clone(x)), now, ParseIssues(x, now))
<1>1. ~Missing(x, <<"spec_version">>)
  BY DEF Judgeable, Has, Missing, Undefined
<1>2. ParseIssues(x, now) = Inspect(Clone(x), now)
  BY <1>1, Zenon DEF ParseIssues, Judgeable
<1>3. Tree(Clone(x)) /\ <<>> \in DOMAIN Clone(x)
  BY CloneTree DEF Tree
<1>4. \A p \in DOMAIN Clone(x) : p \in DOMAIN x /\ Clone(x)[p] = x[p]
  BY DEF Clone
<1>5. ~Throws(Clone(x))
  <2> SUFFICES ASSUME NEW p \in DOMAIN x, x[p] = Object("trap", 0) PROVE FALSE
    BY <1>4 DEF Throws
  <2>1. IsObject(x[p]) /\ x[p].class = "trap"
    BY DEF Object, IsObject
  <2> QED
    BY <2>1 DEF Judgeable, Clones
<1>6. Tree(AsJson(Clone(x))) /\ <<>> \in DOMAIN AsJson(Clone(x))
  BY <1>3, CheckedTree DEF Tree
<1>7. IsObject(AsJson(Clone(x))[<<>>])
  <2>1. IsObject(Clone(x)[<<>>])
    BY <1>3, <1>4 DEF Judgeable
  <2>2. AsJson(Clone(x))[<<>>] = Object("plain", Clone(x)[<<>>].more)
    BY <1>3, <1>6, <2>1, CheckedTree
  <2> QED
    BY <2>2 DEF Object, IsObject
<1>8. Exact(AsJson(Clone(x)), now, Inspect(Clone(x), now))
  BY <1>5, <1>6, <1>7, InspectExact
<1> QED
  BY <1>2, <1>8

(* The property says this of every verdict of parseRecord(). *)
LEMMA VerdictIs ==
  VerdictExact <=> (stage = "judged" /\ by = "parse" /\ Judgeable(doc) => Exact(Subject, clock, issues))
BY Zenon DEF VerdictExact, Judgeable, Exact, Faults, Reported

(* Every verdict is exact when it is given, and nothing changes it. *)
LEMMA VerdictStep == RecordsInv /\ VerdictExact /\ [RecordNext]_recordVars => VerdictExact'
<1> SUFFICES ASSUME RecordsInv, VerdictExact, [RecordNext]_recordVars PROVE VerdictExact'
  OBVIOUS
<1>1. ASSUME ParseRecord PROVE VerdictExact'
  <2>1. doc' = doc /\ clock' = clock /\ issues' = ParseIssues(doc, clock)
    BY <1>1 DEF ParseRecord, Judged
  <2>2. Judgeable(doc) => Exact(AsJson(Clone(doc)), clock, ParseIssues(doc, clock))
    BY ParseExact DEF RecordsInv
  <2>3. Judgeable(doc)' <=> Judgeable(doc)
    BY <2>1
  <2>4. Exact(Subject, clock, issues)' <=> Exact(AsJson(Clone(doc)), clock, ParseIssues(doc, clock))
    BY <2>1 DEF Subject
  <2> QED
    BY <2>2, <2>3, <2>4, VerdictIs, PTL
<1>2. ASSUME stage' # "judged" \/ by' # "parse" PROVE VerdictExact'
  BY <1>2 DEF VerdictExact
<1>3. ASSUME NEW configured \in BOOLEAN, ClientRecord(configured) PROVE by' # "parse"
  BY <1>3 DEF ClientRecord, Judged
<1>4. ASSUME NEW e, Edit(e) PROVE stage' # "judged"
  BY <1>4 DEF Edit
<1>5. EncodeRecord => stage' # "judged"
  BY DEF EncodeRecord
<1>6. DecodeRecord => stage' # "judged"
  BY DEF DecodeRecord
<1>7. Tick => stage' # "judged"
  BY DEF Tick
<1>8. CASE UNCHANGED recordVars
  <2>1. doc' = doc /\ clock' = clock /\ issues' = issues /\ stage' = stage /\ by' = by
    BY <1>8 DEF recordVars
  <2>2. Judgeable(doc)' <=> Judgeable(doc)
    BY <2>1
  <2>3. Exact(Subject, clock, issues)' <=> Exact(Subject, clock, issues)
    BY <2>1 DEF Subject
  <2>4. (stage = "judged")' <=> stage = "judged"
    BY <2>1
  <2>5. (by = "parse")' <=> by = "parse"
    BY <2>1
  <2> QED
    BY <2>2, <2>3, <2>4, <2>5, VerdictIs, PTL
<1> QED
  BY <1>1, <1>2, <1>3, <1>4, <1>5, <1>6, <1>7, <1>8 DEF RecordNext

(* parseRecord() blames exactly what is at fault in a record of a release it knows: the parts
   that break their own rules or, when there are none, those that do not go together; REQUIRED
   says that a property is absent, a value of the wrong type is reported once, and the name of a
   label is never shown. *)
THEOREM RecordVerdictExact == RecordSpec => []VerdictExact
<1>1. RecordInit => VerdictExact
  BY DEF RecordInit, VerdictExact
<1> QED
  BY <1>1, RecordsInit, RecordsStep, VerdictStep, PTL DEF RecordSpec
=============================================================================
