------------------------- MODULE MCVercelTelemetry -------------------------
(* Two integrations that share calls, and calls nested in tools, two of which  *)
(* may run at once.                                                           *)
EXTENDS VercelTelemetry, TLC

CONSTANTS i1, i2, t1, t2

MCIntegrations == {i1, i2}

MCToolCallIds == {t1, t2}

MCSymmetry == Permutations(MCToolCallIds)

MCRoutes == <<{i1}, {i1, i2}, {i2}>>

Attribution(environment, account) ==
  [f \in Fields |-> IF f = "environment" THEN environment ELSE account]

MCDefaults == i1 :> Attribution("prod", None) @@ i2 :> Attribution(None, "a0")

MCSources ==
  <<[functionId |-> "f1", audr |-> Attribution("test", "a1")],
    [functionId |-> "f2", audr |-> Attribution("not_a_string", "a2")],
    [functionId |-> None, audr |-> None]>>

Usage(input, noCache, cacheRead) ==
  [input |-> input, noCache |-> noCache, cacheRead |-> cacheRead, cacheWrite |-> 1]

MCUsages == <<Usage(4, None, 2), Usage(Garbled, 1, 2), Usage(2, None, 3)>>
=============================================================================
