------------------------------ MODULE Records ------------------------------
(* An AUDR record from the caller's object to the wire and back: createRecord, *)
(* the client's copy and check, encodeRecord, decodeRecord and parseRecord.    *)
(* The validator is the compiled schema (errors by keyword and path), turned   *)
(* into issues in two stages; the record types are those the schema generates. *)
EXTENDS Integers, Sequences, FiniteSets, SequencesExt, RecordSchema, RecordTypes

CONSTANTS
  RecordInputs, \* what callers give createRecord()
  Edits,       \* <<path, value>>: a caller sets a property, or removes it (Absent)
  Pivots,      \* the edits that may follow another edit
  ClockParts,  \* the date and time of clock reading 0
  Drifts,      \* how many minutes an emitter's clock may be ahead
  MaxClock,    \* bound: minutes that pass
  MaxEdits,    \* bound: edits of one record
  ExtensionNames, ExtensionKeys, \* names that fit ^x_[a-z0-9_]+$; names that begin with x_
  LabelFits, LongNames, \* names that fit a label's pattern; names over 64 long
  Absent, Nil \* model values: no property; nothing yet

ASSUME Bounds == MaxClock \in Nat /\ MaxEdits \in Nat /\ Drifts \subseteq Nat /\ Pivots \subseteq Edits

VARIABLES
  doc,     \* the caller's object: the value at every path it has
  edits,   \* how often it was edited
  clock,   \* minutes that have passed
  drift,   \* the emitter's clock is so far ahead
  stage,   \* "draft", "judged", "encoded", "refused" or "decoded"
  by,      \* who judged it: "client" or "parse"
  issues,  \* what was found
  held,    \* the record the program holds, or Nil
  wire     \* its JSON, or Nil

recordVars == <<doc, edits, clock, drift, stage, by, issues, held, wire>>
-----------------------------------------------------------------------------
(* Values.  A text has the patterns it fits; a timestamp its parts; an object   *)
(* its class and how many more, unremarkable properties it has.                *)

Text(word, len, fits) == [type |-> "string", text |-> word, len |-> len, fits |-> fits]
Stamp(parts) == [type |-> "string", text |-> "timestamp", len |-> 20, fits |-> {"date-time"}, parts |-> parts]
Number(n, integral) == [type |-> "number", finite |-> TRUE, n |-> n, integral |-> integral]
NotFinite == [type |-> "number", finite |-> FALSE]
Object(class, more) == [type |-> "object", class |-> class, more |-> more]
Plain == Object("plain", 0)
Undefined == [type |-> "undefined"]
Null == [type |-> "null"]
Function == [type |-> "function"]

IsObject(v) == v.type = "object"

(* The properties directly beneath p. *)
Below(d, p) == {q \in DOMAIN d : Len(q) = Len(p) + 1 /\ IsPrefix(p, q)}

Without(d, p) == [q \in {x \in DOMAIN d : ~IsPrefix(p, x)} |-> d[q]]

With(d, p, v) == [q \in {p} \cup DOMAIN Without(d, p) |-> IF q = p THEN v ELSE d[q]]

(* What a timestamp consists of, a value, and an object: whatever it has lies beneath an
   object it has. *)
Parts ==
  [y : Nat, mo : Nat, d : Nat, h : Nat, mi : Nat, s : Nat, ms : Nat, finer : BOOLEAN,
   sign : {-1, 1}, oh : Nat, om : Nat]

IsValue(v) ==
  /\ IsObject(v) => /\ v = Object(v.class, v.more) /\ v.more \in Nat
                    /\ v.class # "plain" => v.more = 0
  /\ "parts" \in DOMAIN v => v.parts \in Parts
  /\ v.type = "date" /\ v.valid => v.minutes \in Nat

IsTree(d) ==
  /\ d = [p \in DOMAIN d |-> d[p]] /\ <<>> \in DOMAIN d
  /\ \A p \in DOMAIN d : /\ p \in Seq(STRING) /\ IsValue(d[p])
                         /\ p # <<>> => Front(p) \in DOMAIN d /\ IsObject(d[Front(p)])

ASSUME ObjectsAssumption ==
  /\ \A i \in RecordInputs :
       /\ IsTree(i) /\ IsObject(i[<<>>])
       /\ \A p \in {<<"timing", "event_time">>} \cap DOMAIN i :
            i[p] \in {Undefined, Null} \/ i[p].type \in {"string", "date"}
  /\ \A e \in Edits : /\ e[1] \in Seq(STRING)
                      /\ IF e[2] = Absent THEN e[1] # <<>> ELSE IsValue(e[2])
-----------------------------------------------------------------------------
(* The generated validator.                                                *)

HasType(v, type) ==
  IF type = "integer" THEN v.type = "number" /\ v.finite /\ v.integral
  ELSE IF type = "number" THEN v.type = "number" /\ v.finite
  ELSE v.type = type

(* Beneath an object with this schema: the schema of its property, if it has one. *)
Known(schema, name) ==
  \/ name \in DOMAIN schema.properties
  \/ "extensions" \in DOMAIN schema /\ name \in ExtensionNames
  \/ "otherProperties" \in DOMAIN schema

Child(schema, name) ==
  IF name \in DOMAIN schema.properties THEN schema.properties[name]
  ELSE IF "otherProperties" \in DOMAIN schema THEN schema.otherProperties
  ELSE schema.extensions

(* Every object of a record, with its schema. *)
ObjectSchemas ==
  {<<<<>>, RootSchema>>} \cup
  {<<<<f>>, RootSchema.properties[f]>> :
     f \in {"emitter", "timing", "resource", "run", "attribution", "usage", "cost"}} \cup
  {<<<<"attribution", "labels">>, LabelsSchema>>} \cup
  {<<<<"usage", f>>, UsageSchema.properties[f]>> : f \in {"llm", "tool"}} \cup
  {<<<<"cost", f>>, CostSchema.properties[f]>> : f \in {"llm", "tool"}}

(* What else an issue depends on: the schema wants a number, or a date. *)
Kind(schema) ==
  IF "pattern" \in DOMAIN schema /\ schema.pattern = "date-time" THEN "date-time"
  ELSE IF "type" \in DOMAIN schema /\ schema.type \in {"number", "integer"} THEN "numeric"
  ELSE "other"

(* An error is at a value, and may be about one property beneath it. *)
Error(keyword, at, beneath, kind, conditional) ==
  [keyword |-> keyword, at |-> at, beneath |-> beneath, inName |-> FALSE, kind |-> kind,
   conditional |-> conditional]

(* The keywords of a schema that a value breaks; one for another type does not apply. *)
Breaks(v, schema) ==
  LET has(k) == k \in DOMAIN schema
  IN IF has("type") /\ ~HasType(v, schema.type) THEN {"type"}
     ELSE {k \in {"enum"} : has(k) /\ ~(v.type = "string" /\ v.text \in schema.enum)} \cup
          {k \in {"minLength"} : has(k) /\ v.len < schema.minLength} \cup
          {k \in {"maxLength"} : has(k) /\ v.len > schema.maxLength} \cup
          {k \in {"pattern"} : has(k) /\ schema.pattern \notin v.fits} \cup
          {k \in {"minimum"} : has(k) /\ v.n < schema.minimum} \cup
          {k \in {"maximum"} : has(k) /\ v.n > schema.maximum}

Size(d, p) == Cardinality(Below(d, p)) + d[p].more

(* What an object breaks as a whole. *)
ObjectErrors(d, p, schema) ==
  LET names == {Last(q) : q \in Below(d, p)}
      has(k) == k \in DOMAIN schema
      err(k, beneath) == Error(k, p, beneath, "other", FALSE)
  IN {err("required", <<f>>) : f \in (IF has("required") THEN schema.required ELSE {}) \ names} \cup
     {err("additionalProperties", <<f>>) : f \in {g \in names : ~Known(schema, g)}} \cup
     {err(k, <<>>) : k \in {x \in {"minProperties"} : has(x) /\ Size(d, p) < schema.minProperties}} \cup
     {err(k, <<>>) : k \in {x \in {"maxProperties"} : has(x) /\ Size(d, p) > schema.maxProperties}} \cup
     (IF ~has("propertyNames") THEN {}
      ELSE {[err("maxLength", <<f>>) EXCEPT !.inName = TRUE] : f \in names \cap LongNames} \cup
           {[err("pattern", <<f>>) EXCEPT !.inName = TRUE] : f \in names \ LabelFits} \cup
           {err("propertyNames", <<f>>) : f \in names \cap (LongNames \cup (names \ LabelFits))})

(* Where the schema of an object applies to the properties beneath it. *)
PropertyErrors(d, p, schema) ==
  UNION {{Error(k, q, <<>>, Kind(Child(schema, Last(q))), FALSE) : k \in Breaks(d[q], Child(schema, Last(q)))} :
           q \in {x \in Below(d, p) : Known(schema, Last(x))}}

(* An allOf branch applies to a record of these operations; like every condition of the
   schema it holds of a value that is no object. *)
OperationIn(d, operations) ==
  /\ <<"resource">> \in DOMAIN d
  /\ IsObject(d[<<"resource">>]) =>
       /\ <<"resource", "operation">> \in DOMAIN d
       /\ Breaks(d[<<"resource", "operation">>], Enum(operations)) = {}

(* The keyword not: { required: [name] } at property p. *)
Forbids(d, p, name) ==
  {Error("not", q, <<name>>, "other", TRUE) : q \in {x \in {p} \cap DOMAIN d :
                                              IsObject(d[x]) => Append(x, name) \in DOMAIN d}}

Needs(d, p, name) ==
  {Error("required", q, <<name>>, "other", TRUE) : q \in {x \in {p} \cap DOMAIN d :
                                              IsObject(d[x]) /\ Append(x, name) \notin DOMAIN d}}

TypeIs(d, word) ==
  {Error("const", q, <<>>, "other", TRUE) : q \in {x \in {<<"resource", "type">>} \cap DOMAIN d :
                                              Breaks(d[x], Enum({word})) # {}}}

ModelBranch(d) ==
  IF ~OperationIn(d, ModelOperations) THEN {}
  ELSE Forbids(d, <<"resource">>, "namespace") \cup Needs(d, <<"resource">>, "modality") \cup
       TypeIs(d, "model") \cup Forbids(d, <<"usage">>, "tool") \cup
       Needs(d, <<"usage">>, "llm") \cup Forbids(d, <<"cost">>, "tool")

ToolBranch(d) ==
  IF ~OperationIn(d, ToolOperations) THEN {}
  ELSE TypeIs(d, "tool") \cup Forbids(d, <<"usage">>, "llm") \cup
       Needs(d, <<"usage">>, "tool") \cup Forbids(d, <<"cost">>, "llm")

ProductionBranch(d) ==
  LET a == <<"attribution">>
      e == <<"attribution", "environment">>
  IN IF /\ a \in DOMAIN d
        /\ IsObject(d[a]) => e \in DOMAIN d /\ Breaks(d[e], Enum({"production"})) = {}
     THEN Needs(d, a, "account_id") ELSE {}

SchemaErrors(d) ==
  IF ~IsObject(d[<<>>]) THEN {Error("type", <<>>, <<>>, "other", FALSE)}
  ELSE ModelBranch(d) \cup ToolBranch(d) \cup ProductionBranch(d) \cup
       UNION {LET p == entry[1]
                  schema == entry[2]
              IN IF p \in DOMAIN d /\ IsObject(d[p])
                 THEN ObjectErrors(d, p, schema) \cup PropertyErrors(d, p, schema) ELSE {} :
              entry \in ObjectSchemas}
-----------------------------------------------------------------------------
(* Issues.                                                                 *)

(* Faulty variant: the name of a label is shown. *)
PointerPlain(path) == path

Pointer(path) ==
  [k \in DOMAIN path |-> IF k > 1 /\ path[k - 1] = "labels" THEN "*" ELSE path[k]]

Issue(code, path) == [code |-> code, path |-> Pointer(path)]

KeywordCodes ==
  [enum |-> "INVALID_ENUM", const |-> "INVALID_STRUCTURE", minLength |-> "INVALID_STRING",
   maxLength |-> "STRING_TOO_LONG", required |-> "REQUIRED",
   additionalProperties |-> "UNKNOWN_PROPERTY", maxProperties |-> "TOO_MANY_PROPERTIES",
   propertyNames |-> "INVALID_PROPERTY_NAME", not |-> "FORBIDDEN"]

FieldCodes ==
  {<<<<"spec_version">>, "pattern", "UNSUPPORTED_VERSION">>,
   <<<<"record_id">>, "minLength", "INVALID_IDENTIFIER">>,
   <<<<"record_id">>, "maxLength", "INVALID_IDENTIFIER">>,
   <<<<"corrects">>, "minLength", "INVALID_IDENTIFIER">>,
   <<<<"corrects">>, "maxLength", "INVALID_IDENTIFIER">>,
   <<<<"cost", "currency">>, "pattern", "INVALID_CURRENCY">>,
   <<<<"usage">>, "required", "INVALID_STRUCTURE">>,
   <<<<"usage">>, "not", "INVALID_STRUCTURE">>}

CodeFor(e, d) ==
  LET bound == IF e.at # <<>> /\ e.at[1] = "cost" /\ Len(e.at) > 1 THEN "INVALID_COST"
               ELSE "INVALID_COUNTER"
  IN IF e.inName THEN "INVALID_PROPERTY_NAME"
     ELSE IF e.keyword = "type"
     THEN IF d[e.at] = NotFinite /\ e.kind = "numeric" THEN bound
          ELSE "INVALID_TYPE"
     ELSE IF e.keyword = "pattern"
     THEN IF e.kind = "date-time" THEN "INVALID_DATETIME" ELSE "INVALID_STRING"
     ELSE IF e.keyword \in {"minimum", "maximum"} THEN bound
     ELSE IF e.keyword = "minProperties"
     THEN IF e.at[1] = "usage" THEN "EMPTY_USAGE" ELSE "INVALID_STRUCTURE"
     ELSE KeywordCodes[e.keyword]

ToIssue(e, d) ==
  LET field == {f \in FieldCodes : f[1] = e.at /\ f[2] = e.keyword}
  IN IF field # {} THEN Issue((CHOOSE f \in field : TRUE)[3], e.at)
     ELSE Issue(CodeFor(e, d), e.at \o e.beneath)

SinkOwned == <<"timing", "received_time">>

SchemaIssues(d) ==
  LET errors == SchemaErrors(d)
      mistyped == {e.at : e \in {x \in errors : x.keyword = "type"}}
      kept == {e \in errors : /\ e.keyword = "type" \/ e.at \notin mistyped
                              /\ ToIssue(e, d).path # SinkOwned}
      of(when) == {ToIssue(e, d) : e \in {x \in kept : x.conditional = when}}
  IN [structural |-> of(FALSE), conditional |-> of(TRUE)]

(* parseTimestamp(): the days of the year's months, and the moment in seconds from the year
   2000 with its milliseconds; Nil for a date or a time that does not exist. *)
LastDay(y, mo) ==
  IF mo = 2 THEN IF (y % 4 = 0 /\ y % 100 # 0) \/ y % 400 = 0 THEN 29 ELSE 28
  ELSE IF mo \in {4, 6, 9, 11} THEN 30 ELSE 31

DaysBefore == <<0, 31, 59, 90, 120, 151, 181, 212, 243, 273, 304, 334>>

Days(y, mo, d) ==
  365 * (y - 2000) + Cardinality({x \in 2000..(y - 1) : LastDay(x, 2) = 29})
    + DaysBefore[mo] + (IF mo > 2 /\ LastDay(y, 2) = 29 THEN 1 ELSE 0) + d - 1

ParseTimestamp(v) ==
  IF "parts" \notin DOMAIN v THEN Nil
  ELSE LET t == v.parts
       IN IF \/ t.mo \notin 1..12 \/ t.d < 1 \/ t.d > LastDay(t.y, t.mo)
             \/ t.h > 23 \/ t.mi > 59 \/ t.s > 59 \/ t.oh > 23 \/ t.om > 59
          THEN Nil
          ELSE [seconds |-> Days(t.y, t.mo, t.d) * 86400 + t.h * 3600 + t.mi * 60 + t.s
                              - t.sign * (t.oh * 3600 + t.om * 60),
                ms |-> t.ms, finer |-> t.finer]

(* A clock reading as a timestamp (toISOString), and as a moment. *)
At(minutes) == Stamp([ClockParts EXCEPT !.mi = @ + minutes])

(* The clock shows a time, and stays within the hour, as does a clock five minutes ahead. *)
ASSUME ClockAssumption ==
  ClockParts \in Parts /\ ParseTimestamp(At(0)) # Nil /\ ClockParts.mi + MaxClock + 5 <= 59

Has(d, p, type) == p \in DOMAIN d /\ d[p].type = type

FormatIssues(d) ==
  IF ~IsObject(d[<<>>]) THEN {}
  ELSE {Issue("INVALID_IDENTIFIER", p) :
          p \in {q \in {<<"record_id">>, <<"corrects">>} : Has(d, q, "string") /\ "id" \notin d[q].fits}} \cup
       {Issue("INVALID_DATETIME", p) :
          p \in {q \in {<<"timing", "event_time">>} : Has(d, q, "string") /\ ParseTimestamp(d[q]) = Nil}} \cup
       {Issue("FORBIDDEN", p) : p \in {SinkOwned} \cap DOMAIN d} \cup
       {Issue("INVALID_IDENTIFIER", p) :
          p \in {q \in {<<"run", "trace_id">>} : Has(d, q, "string") /\ "trace" \notin d[q].fits}}

FutureSkew == 5 * 60

IsFuture(moment, now) ==
  LET limit == ParseTimestamp(At(now)).seconds + FutureSkew
  IN moment.seconds > limit \/ (moment.seconds = limit /\ moment.ms > 0)

ProseIssues(d, now) ==
  LET time == <<"timing", "event_time">>
      moment == ParseTimestamp(d[time])
      user == <<"attribution", "user_id">>
      env == <<"attribution", "environment">>
  IN (IF moment # Nil /\ moment.finer THEN {Issue("MILLISECOND_PRECISION", time)} ELSE {}) \cup
     (IF moment # Nil /\ IsFuture(moment, now) THEN {Issue("FUTURE_EVENT_TIME", time)} ELSE {}) \cup
     (IF env \notin DOMAIN d THEN {Issue("REQUIRED", env)} ELSE {}) \cup
     {Issue("NON_PSEUDONYMOUS_ID", p) : p \in {q \in {user} \cap DOMAIN d : "at" \in d[q].fits}}

(* The copy of a value that is checked: undefined properties are absent, except labels, and
   every object is plain. *)
AsJson(d) ==
  LET kept == {p \in DOMAIN d : p = <<>> \/ d[p] # Undefined \/ (Len(p) > 1 /\ p[Len(p) - 1] = "labels")}
  IN [p \in kept |-> IF IsObject(d[p]) THEN Object("plain", d[p].more) ELSE d[p]]

Throws(d) == \E p \in DOMAIN d : d[p] = Object("trap", 0)

Inspect(d, now) ==
  IF Throws(d) THEN {Issue("INVALID_TYPE", <<>>)}
  ELSE LET data == AsJson(d)
           schema == SchemaIssues(data)
           structural == FormatIssues(data) \cup schema.structural
       IN IF structural # {} THEN structural
          ELSE schema.conditional \cup ProseIssues(data, now)
-----------------------------------------------------------------------------
(* Building, encoding and decoding.                                          *)

Missing(d, p) == p \notin DOMAIN d \/ d[p] = Undefined

(* The operator ??. *)
OrElse(d, p, v) == IF Missing(d, p) \/ d[p] = Null THEN v ELSE d[p]

ToTimestamp(v) == IF v.valid THEN At(v.minutes) ELSE Text("Invalid Date", 12, {})

CreateRecord(input, now) ==
  LET time == OrElse(input, <<"timing", "event_time">>, [type |-> "date", valid |-> TRUE, minutes |-> now])
      timed == With(With(Without(input, <<"timing", "event_time">>), <<"spec_version">>,
                         OrElse(input, <<"spec_version">>, Text("1.1.0", 5, {"version"}))),
                    <<"record_id">>, OrElse(input, <<"record_id">>, Text("uuid", 36, {"id"})))
  IN [p \in DOMAIN timed \cup {<<"timing">>, <<"timing", "event_time">>} |->
        IF p = <<"timing", "event_time">> THEN IF time.type = "string" THEN time ELSE ToTimestamp(time)
        ELSE IF p = <<"timing">> THEN Plain ELSE timed[p]]

(* structuredClone() refuses functions, weak collections, and what throws when read. *)
Clones(d) == \A p \in DOMAIN d : d[p] # Function /\ ~(IsObject(d[p]) /\ d[p].class \in {"weak", "trap"})

(* Its copy of a Date or a Map has none of the properties a caller added to it. *)
Clone(d) ==
  [p \in {q \in DOMAIN d : \A k \in 0..(Len(q) - 1) :
            IsObject(d[SubSeq(q, 1, k)]) => d[SubSeq(q, 1, k)].class = "plain"} |-> d[p]]

StampEmitter(d, configured) ==
  LET p == <<"emitter">>
      e == [component |-> Text("harness", 7, {}), name |-> Text("client", 6, {}), version |-> Text("1", 1, {})]
  IN IF ~configured \/ ~IsObject(d[<<>>]) \/ ~Missing(d, p) THEN d
     ELSE [q \in DOMAIN d \cup {p} \cup {Append(p, f) : f \in DOMAIN e} |->
             IF q = p THEN Plain ELSE IF IsPrefix(p, q) THEN e[Last(q)] ELSE d[q]]

(* encodeRecord(): what JSON cannot hold is refused; JSON.stringify drops functions. *)
Encodes(d) ==
  \A p \in DOMAIN d : /\ d[p] # NotFinite /\ d[p].type # "array"
                      /\ IsObject(d[p]) => d[p].class = "plain"

Json(d) == [p \in {q \in DOMAIN d : d[q] \notin {Undefined, Function}} |-> d[p]]

(* parseRecord(): the version first, so that another release is not a cascade of errors. *)
ParseIssues(d, now) ==
  LET version == <<"spec_version">>
  IN IF ~Clones(d)
     THEN IF Inspect(d, now) # {} THEN Inspect(d, now) ELSE {Issue("INVALID_TYPE", <<>>)}
     ELSE IF IsObject(d[<<>>]) /\ Missing(d, version) THEN {Issue("REQUIRED", version)}
     ELSE IF IsObject(d[<<>>]) /\ Has(d, version, "string") /\ "version" \notin d[version].fits
     THEN {Issue("UNSUPPORTED_VERSION", version)}
     ELSE Inspect(Clone(d), now)
-----------------------------------------------------------------------------
RecordInit ==
  /\ clock = 0 /\ drift \in Drifts
  /\ \E i \in RecordInputs : doc = CreateRecord(i, drift)
  /\ edits = 0 /\ stage = "draft" /\ by = Nil /\ issues = {} /\ held = Nil /\ wire = Nil

(* The caller changes the object; a second change (bound) is one of Pivots. *)
Edit(e) ==
  /\ stage = "draft" /\ edits < MaxEdits /\ (edits > 0 => drift = 0)
  /\ e[1] # <<>> => Front(e[1]) \in DOMAIN doc /\ IsObject(doc[Front(e[1])])
  /\ doc' = (IF e[2] = Absent THEN Without(doc, e[1]) ELSE With(doc, e[1], e[2]))
  /\ doc' # doc
  /\ edits' = edits + 1
  /\ UNCHANGED <<clock, drift, stage, by, issues, held, wire>>

Judged(who, found, data) ==
  /\ stage = "draft" /\ stage' = "judged" /\ by' = who /\ issues' = found
  /\ held' = (IF found = {} THEN data ELSE Nil)
  /\ UNCHANGED <<doc, edits, clock, drift, wire>>

(* Faulty variant: the copy is queued as the caller wrote it. *)
QueuedAsWritten(copy) == copy

(* What was checked is what is queued. *)
Queued(copy) == AsJson(copy)

(* Client.record(): a copy, stamped. *)
ClientRecord(configured) ==
  LET copy == StampEmitter(doc, configured)
  IN IF Clones(copy) THEN Judged("client", Inspect(Clone(copy), clock), Queued(Clone(copy)))
     ELSE Judged("client", {Issue("INVALID_TYPE", <<>>)}, Nil)

ParseRecord == Judged("parse", ParseIssues(doc, clock), Clone(doc))

EncodeRecord ==
  /\ stage = "judged" /\ held # Nil
  /\ IF Encodes(held) THEN wire' = Json(held) /\ stage' = "encoded"
     ELSE wire' = Nil /\ stage' = "refused"
  /\ UNCHANGED <<doc, edits, clock, drift, by, issues, held>>

DecodeRecord ==
  /\ stage = "encoded"
  /\ stage' = "decoded" /\ issues' = ParseIssues(wire, clock)
  /\ held' = (IF issues' = {} THEN wire ELSE Nil)
  /\ UNCHANGED <<doc, edits, clock, drift, by, wire>>

(* Time passes before the record is judged or decoded. *)
Tick ==
  /\ stage \in {"draft", "encoded"} /\ edits = 0 /\ clock < MaxClock
  /\ clock' = clock + 1
  /\ UNCHANGED <<doc, edits, drift, stage, by, issues, held, wire>>

RecordNext ==
  \/ \E e \in (IF edits = 0 THEN Edits ELSE Pivots) : Edit(e)
  \/ \E configured \in BOOLEAN : ClientRecord(configured)
  \/ ParseRecord \/ EncodeRecord \/ DecodeRecord \/ Tick

RecordSpec == RecordInit /\ [][RecordNext]_recordVars
-----------------------------------------------------------------------------
(* Properties.                                                             *)

(* The paths at which the object's parts, each taken by itself, are at fault: of an object that
   has a table, and of the texts that have a format. *)
Labels == <<"attribution", "labels">>
MayNotBeEmpty == {<<"usage", "llm">>, <<"usage", "tool">>, <<"cost", "tool">>}

FaultsAt(d, p, schema) ==
  LET names == {Last(q) : q \in Below(d, p)}
      labels == p = Labels
  IN {Append(p, f) : f \in (IF labels THEN {} ELSE schema.required) \ names} \cup
     {q \in Below(d, p) : IF Known(schema, Last(q))
                          THEN Breaks(d[q], Child(schema, Last(q))) # {} ELSE TRUE} \cup
     {q \in Below(d, p) : labels /\ (Last(q) \in LongNames \/ Last(q) \notin LabelFits)} \cup
     {q \in {p} : labels /\ Size(d, p) > 20} \cup
     {q \in {p} : p \in MayNotBeEmpty /\ Size(d, p) < 1}

FormatFaults(d) ==
  {p \in {<<"record_id">>, <<"corrects">>} : Has(d, p, "string") /\ "id" \notin d[p].fits} \cup
  {p \in {<<"run", "trace_id">>} : Has(d, p, "string") /\ "trace" \notin d[p].fits} \cup
  {p \in {<<"timing", "event_time">>} : Has(d, p, "string") /\ ParseTimestamp(d[p]) = Nil} \cup
  ({SinkOwned} \cap DOMAIN d)

OwnFaults(d) ==
  FormatFaults(d) \cup
  UNION {LET p == entry[1]
         IN IF p \in DOMAIN d /\ IsObject(d[p]) THEN FaultsAt(d, p, entry[2]) ELSE {} :
         entry \in ObjectSchemas}

(* The paths at which the parts of a record do not go together. *)
Misfits(d, now) ==
  LET op == d[<<"resource", "operation">>].text
      model == op \in ModelOperations
      has(a, b) == <<a, b>> \in DOMAIN d
      moment == ParseTimestamp(d[<<"timing", "event_time">>])
      late == ParseTimestamp(At(now + 5))
      at(p, bad) == {q \in {p} : bad}
  IN at(<<"resource", "namespace">>, model /\ has("resource", "namespace")) \cup
     at(<<"resource", "modality">>, model /\ ~has("resource", "modality")) \cup
     at(<<"resource", "type">>, (d[<<"resource", "type">>].text = "model") # model) \cup
     at(<<"usage">>, has("usage", "llm") # model \/ has("usage", "tool") = model) \cup
     at(<<"cost", "tool">>, model /\ has("cost", "tool")) \cup
     at(<<"cost", "llm">>, ~model /\ has("cost", "llm")) \cup
     at(<<"attribution", "environment">>, ~has("attribution", "environment")) \cup
     at(<<"attribution", "account_id">>,
        /\ has("attribution", "environment") /\ ~has("attribution", "account_id")
        /\ d[<<"attribution", "environment">>].text = "production") \cup
     at(<<"attribution", "user_id">>,
        has("attribution", "user_id") /\ "at" \in d[<<"attribution", "user_id">>].fits) \cup
     at(<<"timing", "event_time">>,
        moment.finer \/ moment.seconds > late.seconds \/ (moment.seconds = late.seconds /\ moment.ms > 0))

Reported == {i.path : i \in issues}

(* The object that issues are about, as JSON sees it. *)
Subject == AsJson(Clone(doc))

(* The validator blames exactly what is at fault: the parts that break their own rules, or,
   when there are none, the parts that do not go together.  REQUIRED says a property is
   absent and every other code that it is there, a value of the wrong type is reported once,
   and the name of a label is never shown. *)
VerdictExact ==
  stage = "judged" /\ by = "parse" /\ Clones(doc) /\ IsObject(doc[<<>>])
      /\ Has(doc, <<"spec_version">>, "string") /\ "version" \in doc[<<"spec_version">>].fits =>
    LET own == OwnFaults(Subject)
        faults == IF own # {} THEN own ELSE Misfits(Subject, clock)
    IN /\ Reported = {Pointer(p) : p \in faults}
       /\ \A i \in issues : /\ i.code = "REQUIRED" <=> i.path \in Reported \ DOMAIN Subject /\ "*" \notin Range(i.path)
                            /\ \A k \in DOMAIN i.path : k > 1 /\ i.path[k - 1] = "labels" => i.path[k] = "*"
       /\ \A i \in issues : i.code = "INVALID_TYPE" /\ "*" \notin Range(i.path) =>
                             Cardinality({j \in issues : j.path = i.path}) = 1

(* What a client queues can be encoded, and its JSON is accepted again, unchanged, however
   much later it is decoded.  What parseRecord() returns can be encoded too, except for
   labels that are no plain object. *)
RoundTrip ==
  /\ stage = "refused" =>
       by = "parse" /\ {p \in DOMAIN held : IsObject(held[p]) /\ held[p].class # "plain"}
                          = {<<"attribution", "labels">>}
  /\ stage = "decoded" => issues = {} /\ held = AsJson(wire)
  /\ stage = "encoded" /\ by = "client" => wire = held

(* A property's type, and whether a value has it. *)
TypeBelow(t, name) ==
  IF name \in DOMAIN t.properties THEN t.properties[name]
  ELSE IF "others" \in DOMAIN t THEN t.others
  ELSE t.extension

Declared(t, name) ==
  \/ name \in DOMAIN t.properties
  \/ "others" \in DOMAIN t
  \/ "extension" \in DOMAIN t /\ name \in ExtensionKeys

Admits(t, v) ==
  IF "words" \in DOMAIN t THEN v.type = "string" /\ v.text \in t.words
  ELSE v.type = t.type /\ (IsObject(v) => v.class = "plain")

TypedObjects ==
  {<<<<>>, TRecord>>} \cup {<<<<f>>, TRecord.properties[f]>> :
     f \in {"emitter", "timing", "resource", "run", "attribution", "usage", "cost"}} \cup
  {<<<<"attribution", "labels">>, TAttribution.properties.labels>>} \cup
  {<<<<"usage", f>>, TUsage.properties[f]>> : f \in {"llm", "tool"}} \cup
  {<<<<"cost", f>>, TCost.properties[f]>> : f \in {"llm", "tool"}}

(* The object compiles as an AudrRecord. *)
WellTyped(d) ==
  /\ IsObject(d[<<>>]) /\ d[<<>>].class = "plain"
  /\ \A entry \in TypedObjects :
       LET p == entry[1]
           t == entry[2]
       IN p \in DOMAIN d /\ d[p] # Undefined =>
            /\ IsObject(d[p])
            /\ \A f \in t.required : ~Missing(d, Append(p, f))
            /\ \A q \in Below(d, p) :
                 /\ Declared(t, Last(q))
                 /\ \/ Admits(TypeBelow(t, Last(q)), d[q])
                    \/ d[q] = Undefined /\ Last(q) \notin t.required /\ "others" \notin DOMAIN t

(* The types keep their promise: an object that compiles is never rejected for the shape the
   types describe.  What they cannot say: counters are whole, an extension's name has a
   pattern, who stamps the emitter, and what an operation requires. *)
TypesHonoured ==
  stage = "judged" /\ WellTyped(doc) =>
    \A i \in issues :
      /\ i.code = "INVALID_TYPE" => i.path \in DOMAIN doc /\ Has(doc, i.path, "number")
      /\ i.code # "INVALID_ENUM"
      /\ i.code = "UNKNOWN_PROPERTY" => Last(i.path) \in ExtensionKeys
      /\ i.code = "REQUIRED" => i.path \in {<<"emitter">>, <<"resource", "modality">>,
           <<"attribution", "environment">>, <<"attribution", "account_id">>}
=============================================================================
