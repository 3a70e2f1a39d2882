---------------------- MODULE FunctionOperatorProgress_MC ----------------------
(* Instances of FunctionOperatorProgress for TLC.                          *)
EXTENDS FunctionOperatorProgress, TLC

(* The valid specs are interchangeable, and symmetry reduction is unsound  *)
(* for liveness: the first generation has the spec First.                  *)
CONSTANT First
FirstSpecIs(c) == c.gen = 1 => c.spec = First
MCSpec == /\ ProgressInit
          /\ [][ProgressNext /\ FirstSpecIs(cr')]_progressVars
          /\ Fairness
=============================================================================
