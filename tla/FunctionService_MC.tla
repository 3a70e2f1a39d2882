--------------------------- MODULE FunctionService_MC ---------------------------
(* Instances of FunctionService for TLC.                                   *)
EXTENDS FunctionService, TLC

MCSpecs == [Fields -> Values]
=============================================================================
