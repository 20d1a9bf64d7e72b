--------------------------- MODULE MCDwarfCollect ---------------------------
(* Instances of DwarfCollect for the model checker.                        *)
EXTENDS DwarfCollect
=============================================================================
