------------------------- MODULE MCBacktraceObjects -------------------------
(* Instances of BacktraceObjects for the model checker.                    *)
EXTENDS BacktraceObjects
=============================================================================
