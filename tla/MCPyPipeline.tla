---------------------------- MODULE MCPyPipeline ----------------------------
(* Small instances of PyPipeline for TLC.  Records are numbered, and record() *)
(* is called with them in that order: they differ in nothing but their names, *)
(* so no behaviour is lost up to renaming, and the calls are under no         *)
(* fairness.  (SYMMETRY is not sound for liveness.)                           *)
EXTENDS PyPipeline

InOrder ==
  \A r \in Records :
    state[r] = "new" /\ state'[r] # "new" => \A q \in Records : q < r => state[q] # "new"

OrderedSpec == Init /\ [][Next /\ InOrder]_vars /\ LoopFairness
=============================================================================
