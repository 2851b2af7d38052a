----------------------------- MODULE MCLagoSink -----------------------------
(* Small instances of LagoSink for TLC. *)
EXTENDS LagoSink, MCSinkDocs

(* Batches of up to three records, up to a renaming of the ids and of the  *)
(* two bodies: an id is used after the smaller ones, and its first record  *)
(* does not have the changed body.                                         *)
ShortBatches ==
  {b \in UNION {[1..n -> [id : Ids, body : {"plain", "changed", "noFeature"}]] : n \in 0..3} :
     \A i \in DOMAIN b :
       LET before == {b[j].id : j \in 1..i-1}
       IN  /\ b[i].id <= Cardinality(before) + 1
           /\ b[i].id \notin before => b[i].body # "changed"}

(* Every other record by itself, and with one that it may be taken for. *)
OddBatches ==
  {<<[id |-> 1, body |-> d]>> : d \in DOMAIN MCDocs}
  \cup {<<[id |-> 1, body |-> "plain"], [id |-> 1, body |-> d]>> : d \in {"absent", "reordered"}}

(* And one that takes two requests. *)
MCBatches == ShortBatches \cup OddBatches \cup {[i \in 1..4 |-> [id |-> i, body |-> "plain"]]}

(* What the proof about preflight supposes of the records is true of these. *)
ASSUME DocsAssumption == EncodingExact

(* A Postgres instance, and a ClickHouse one that takes smaller requests. *)
MCInstances ==
  {[limit |-> 3, postgres |-> TRUE], [limit |-> 2, postgres |-> FALSE]}
=============================================================================
