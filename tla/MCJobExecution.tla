--------------------------- MODULE MCJobExecution ---------------------------
(* Module JobExecution on small instances.  The code treats nonces and      *)
(* outputs as opaque, so they may be permuted.                              *)
EXTENDS JobExecution, TLC

FaultModel(crashes, powerLosses, syncFails) ==
  [crashes |-> crashes, powerLosses |-> powerLosses, syncFails |-> syncFails]

NoFaults == {FaultModel(0, 0, FALSE)}
CrashOrPowerLoss == {FaultModel(1, 0, TRUE), FaultModel(0, 1, FALSE)}
PowerLossAndSyncFails == {FaultModel(0, 1, TRUE)}

Symmetry == Permutations(Nonces) \cup Permutations(Outputs)
=============================================================================
