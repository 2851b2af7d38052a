----------------------------- MODULE MCPipeline -----------------------------
(* Small instances of Pipeline for TLC. *)
EXTENDS Pipeline, TLC

Symmetry == Permutations(Records) \cup Permutations(Flushes)
=============================================================================
