---------------------------- MODULE MCStackItems ----------------------------
(* Instances of StackItems for the model checker.                          *)
EXTENDS StackItems
=============================================================================
