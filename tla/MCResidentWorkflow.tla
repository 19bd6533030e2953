-------------------------- MODULE MCResidentWorkflow --------------------------
(***************************************************************************)
(* ResidentWorkflow for TLC: a stage that is measured and one that is not, *)
(* on hosts with room for all of a plan, for the configured batches only,  *)
(* and for less than those; and a plan that measurement cuts down.         *)
(***************************************************************************)
EXTENDS ResidentWorkflow

TwoStages == {"forward", "calibration"}
ForwardOnly == {"forward"}

Batch(forward, calibration) == [forward |-> forward, calibration |-> calibration]

AdmittedBatches == Batch(2, 1)
LargeBatches == Batch(4, 1)
ConfiguredBatches == Batch(1, 1)
OneHost == {Batch(1, 1)}
Hosts == {Batch(2, 2), Batch(1, 1), Batch(1, 0), Batch(0, 1)}
=============================================================================
