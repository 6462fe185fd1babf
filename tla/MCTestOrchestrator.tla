------------------------- MODULE MCTestOrchestrator -------------------------
(* Model values for TestOrchestrator: three test files, two workers.       *)
EXTENDS TestOrchestrator

\* The last file is the heaviest by its static hint, so a cold run starts it
\* first and history can overturn that order.
MCCostHint == [t \in 1..NumTests |-> IF t = NumTests THEN 1 ELSE 0]
=============================================================================
