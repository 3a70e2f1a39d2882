-------------------------- MODULE FunctionWorkload_MC --------------------------
(* Instances of FunctionWorkload for TLC.                                  *)
EXTENDS FunctionWorkload

AllKinds == {"light-deployment", "heavy-deployment", "heavy-job"}
=============================================================================
