-------------------------- MODULE FunctionOperator_MC --------------------------
(* Instances of FunctionOperator for TLC.                                  *)
EXTENDS FunctionOperator, TLC

(* The valid specs are interchangeable.                                    *)
SpecSymmetry == Permutations(Specs \ (InvalidSpecs \cup UnbuildableSpecs))
=============================================================================
