-------------------------- MODULE MCChargebeeSink --------------------------
(* Small instances of ChargebeeSink for TLC. *)
EXTENDS ChargebeeSink, MCSinkDocs

(* Batches of up to three records, up to a renaming of the ids: records of *)
(* one id may be alike or differ.  And every other record by itself.       *)
MCBatches ==
  {b \in UNION {[1..n -> [id : Ids, body : {"plain", "collide", "unroutable"}]] : n \in 1..3} :
     \A i \in DOMAIN b : b[i].id <= Cardinality({b[j].id : j \in 1..i-1}) + 1}
  \cup {<<[id |-> 1, body |-> d]>> : d \in DOMAIN MCDocs}
=============================================================================
