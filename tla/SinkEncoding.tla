---------------------------- MODULE SinkEncoding ----------------------------
(* How the sinks make an event of a record.  A record is the sequence of its  *)
(* leaves, in the order in which they are visited: the path, a sequence of     *)
(* keys, and the value.  A key is a sequence of words and punctuation, each    *)
(* underscore by itself: input_tokens is <<"input", "_", "tokens">>.          *)
(* Properties are a sequence of names and values, in the order of insertion.   *)
EXTENDS Naturals, Sequences, FiniteSets, SequencesExt

CONSTANT None  \* no issue, no instant

Issues ==
  {"labels_collide", "unencodable_field", "missing_subscription_id", "subscription_id",
   "deduplication_id", "usage_timestamp", "properties", "invalid_field", "missing_metric_code",
   "invalid_metric_code", "invalid_timestamp", "unsupported_correction"}

ASSUME NoneAssumption == None \notin Issues

Underscore == "_"

Separator == <<Underscore, Underscore>>   \* the default of Chargebee's option

Labels == <<"labels">>

SubscriptionId == <<<<"attribution">>, <<"subscription", "_", "id">>>>

FeatureId == <<<<"attribution">>, <<"feature", "_", "id">>>>

RecordId == <<<<"record", "_", "id">>>>

EventTime == <<<<"timing">>, <<"event", "_", "time">>>>

Corrects == <<<<"corrects">>>>

Scalars == {"string", "number", "boolean", "null"}

Undefined == [kind |-> "undefined"]

(* The leaves of an object: each has a path of its own, and none is beneath another. *)
IsRecord(doc) ==
  /\ doc \in Seq(Range(doc))
  /\ \A k \in DOMAIN doc : doc[k].path \in Seq(Seq(STRING)) /\ doc[k].path # <<>>
  /\ \A j, k \in DOMAIN doc : IsPrefix(doc[j].path, doc[k].path) => j = k

(* The value at this path of a record. *)
At(doc, path) ==
  LET here == SelectSeq(doc, LAMBDA leaf : leaf.path = path)
  IN IF here = <<>> THEN Undefined ELSE here[1].value
-----------------------------------------------------------------------------
(* Flattening.                                                             *)

JoinPath(path) ==
  LET join[n \in 0..Len(path)] ==
        IF n = 0 THEN <<>> ELSE IF n = 1 THEN path[1] ELSE join[n - 1] \o Separator \o path[n]
  IN join[Len(path)]

Rewritten(key) == [k \in DOMAIN key |-> IF key[k] \in {".", "-"} THEN Underscore ELSE key[k]]

(* The path with the label keys of Chargebee's properties. *)
RewriteLabels(path) ==
  [k \in DOMAIN path |-> IF k > 1 /\ path[k - 1] = Labels THEN Rewritten(path[k]) ELSE path[k]]

(* Faulty variant: of two labels with one name the later wins. *)
LabelsCollideNever(doc, path) == FALSE

(* Labels next to this leaf differ, and not once they are rewritten. *)
LabelsCollide(doc, path) ==
  \E k \in 2..Len(path) : path[k - 1] = Labels /\
    LET beside == {doc[j].path[k] : j \in {i \in DOMAIN doc :
                     Len(doc[i].path) >= k /\ SubSeq(doc[i].path, 1, k - 1) = SubSeq(path, 1, k - 1)}}
    IN \E a, b \in beside : a # b /\ Rewritten(a) = Rewritten(b)

(* Assignment to an object: a name that is there keeps its place. *)
Put(properties, name, value) ==
  LET entry == [name |-> name, value |-> value]
  IN IF \E k \in DOMAIN properties : properties[k].name = name
     THEN [k \in DOMAIN properties |-> IF properties[k].name = name THEN entry ELSE properties[k]]
     ELSE Append(properties, entry)

(* JSON with sorted keys; value.is names an array up to the order of its keys. *)
CanonicalJson(value) == [kind |-> "string", json |-> value.is]

JsonName(name) == name \o Separator \o <<"json">>

(* flattenInto for one leaf; takes is what the sink accepts as a scalar. *)
FlattenLeaf(acc, leaf, name, takes) ==
  IF acc.issue # None \/ leaf.value.kind = "undefined" THEN acc
  ELSE IF leaf.value.kind = "array" /\ leaf.value.sound
    THEN [acc EXCEPT !.properties = Put(@, JsonName(name), CanonicalJson(leaf.value))]
  ELSE IF takes THEN [acc EXCEPT !.properties = Put(@, name, leaf.value)]
  ELSE [acc EXCEPT !.issue = "unencodable_field"]

Start == [properties |-> <<>>, issue |-> None]

ChargebeeLeaf(acc, doc, leaf) ==
  IF acc.issue = None /\ LabelsCollide(doc, leaf.path) THEN [acc EXCEPT !.issue = "labels_collide"]
  ELSE FlattenLeaf(acc, leaf, JoinPath(RewriteLabels(leaf.path)), leaf.value.kind \in Scalars)

ChargebeeFlatten(doc) ==
  LET flat[n \in 0..Len(doc)] ==
        IF n = 0 THEN Start ELSE ChargebeeLeaf(flat[n - 1], doc, doc[n])
  IN flat[Len(doc)]

(* The path of Lago's properties. *)
Unrenamed(path) == path

LagoTakes(value) == value.kind = "string" \/ (value.kind = "number" /\ value.sound)

LagoFlatten(doc) ==
  LET flat[n \in 0..Len(doc)] ==
        IF n = 0 THEN Start
        ELSE FlattenLeaf(flat[n - 1], doc[n], JoinPath(doc[n].path), LagoTakes(doc[n].value))
  IN flat[Len(doc)]
-----------------------------------------------------------------------------
(* Events.  An event is what is sent, or the issue that keeps it from being.  *)

Refusal(issue) == [properties |-> <<>>, issue |-> issue]

Reserved ==
  {<<"deduplication", "_", "id">>, <<"error", "_", "codes">>, <<"event", "_", "meta">>,
   <<"ingestion", "_", "timestamp">>, <<"properties">>, <<"subscription", "_", "id">>,
   <<"usage", "_", "timestamp">>}

(* A word that stands for other characters than letters, digits and underscores. *)
Foreign == {".", "-", "%"}

PropertyName(name) == Range(name) \cap Foreign = {} /\ Head(name) # "_" /\ name \notin Reserved

FiniteValue(value) == value.kind = "number" => value.sound

SoundIdentifier(value, maxLength) ==
  value.kind = "string" /\ ~value.blank /\ value.length <= maxLength

(* value.digits is how many characters the milliseconds of an instant take, a sign too; None
   for no instant. *)
ValidateEvent(doc, flat) ==
  IF ~SoundIdentifier(At(doc, SubscriptionId), 50) THEN Refusal("subscription_id")
  ELSE IF ~SoundIdentifier(At(doc, RecordId), 36) THEN Refusal("deduplication_id")
  ELSE IF At(doc, EventTime).digits # 13 THEN Refusal("usage_timestamp")
  ELSE IF \E p \in Range(flat.properties) : ~PropertyName(p.name) \/ ~FiniteValue(p.value)
    THEN Refusal("properties")
  ELSE flat

ChargebeeEvent(doc) ==
  LET subscription == At(doc, SubscriptionId)
      flat == ChargebeeFlatten(doc)
  IN IF subscription.kind = "undefined" \/ subscription.length = 0
       THEN Refusal("missing_subscription_id")
     ELSE IF flat.issue # None THEN Refusal(flat.issue)
     ELSE ValidateEvent(doc, flat)

Present(value) == value.kind = "string" /\ ~value.blank

IsMetricCode(value) == value.kind = "string" /\ value.length > 0 /\ ~value.padded

(* formatTimestamp: an instant not before 1970. *)
Timestamp(value) == value.kind = "string" /\ value.digits # None /\ ~value.negative

(* validateProperties finds nothing that flatten has let through. *)
CreateEvent(doc, flat) ==
  IF ~Present(At(doc, SubscriptionId)) THEN Refusal("missing_subscription_id")
  ELSE IF ~Present(At(doc, RecordId)) THEN Refusal("invalid_field")
  ELSE IF At(doc, FeatureId).kind = "undefined" THEN Refusal("missing_metric_code")
  ELSE IF ~IsMetricCode(At(doc, FeatureId)) THEN Refusal("invalid_metric_code")
  ELSE IF ~Timestamp(At(doc, EventTime)) THEN Refusal("invalid_timestamp")
  ELSE flat

LagoEvent(doc) ==
  LET flat == LagoFlatten(doc)
  IN IF At(doc, Corrects).kind # "undefined" THEN Refusal("unsupported_correction")
     ELSE IF flat.issue # None THEN Refusal(flat.issue)
     ELSE CreateEvent(doc, flat)
-----------------------------------------------------------------------------
(* What a sink owes the record it makes an event of.                       *)

(* The leaves that have a value, in their order. *)
Defined(doc) ==
  LET having[n \in 0..Len(doc)] ==
        IF n = 0 THEN <<>>
        ELSE IF doc[n].value.kind = "undefined" THEN having[n - 1]
        ELSE Append(having[n - 1], doc[n])
  IN having[Len(doc)]

(* A key that cannot be taken for a path, nor for a part of one. *)
Plain(key) ==
  /\ key # <<>> => Head(key) # Underscore /\ Last(key) # Underscore
  /\ \A k \in 2..Len(key) : ~(key[k - 1] = Underscore /\ key[k] = Underscore)

(* The objects whose keys audr.schema.json leaves open: labels, and the counts that extensions add. *)
OpenObjects ==
  {<<<<"attribution">>, Labels>>, <<<<"usage">>, <<"llm">>>>, <<<<"usage">>, <<"tool">>>>,
   <<<<"cost">>, <<"tool">>>>}

(* What the schema admits in a record, and more: no key that can be taken for a path but in the
   open objects, whose fields are strings and numbers, whatever their keys spell. *)
Admissible(leaf, path) ==
  IF \E object \in OpenObjects : IsPrefix(object, path)
  THEN Len(path) = 3 /\ leaf.value.kind # "array"
  ELSE \A key \in Range(path) : Plain(key)

Admitted(doc, Rename(_)) == \A k \in DOMAIN doc : Admissible(doc[k], Rename(doc[k].path))

(* Of whatever object: no name is there twice, and every property is a field of it.  Of whatever
   the schema admits: every field is there with its value and in its place, so no name
   is that of two fields, and nothing is overwritten.  What no validator has seen may hold keys
   such as x_a__b next to an object x_a, in an object that the schema closes, and lose a field. *)
Faithful(doc, Rename(_), properties) ==
  LET Holds(p, leaf) ==
        \/ p.value = leaf.value
        \/ leaf.value.kind = "array" /\ p.value = CanonicalJson(leaf.value)
      Fields(n) == {k \in 1..n : doc[k].value.kind # "undefined"}
  IN /\ \A j, k \in DOMAIN properties : properties[j].name = properties[k].name => j = k
     /\ \A p \in Range(properties) : \E k \in Fields(Len(doc)) : Holds(p, doc[k])
     /\ Admitted(doc, Rename) =>
          /\ Len(properties) = Cardinality(Fields(Len(doc)))
          /\ \A k \in Fields(Len(doc)) : Holds(properties[Cardinality(Fields(k))], doc[k])
=============================================================================
