--------------------------- MODULE MCFunctionNames ---------------------------
(* Instances of FunctionNames for the model checker.                       *)
EXTENDS FunctionNames
=============================================================================
