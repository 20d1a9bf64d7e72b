---------------------------- MODULE MCDwarfCache ----------------------------
(* Instances of DwarfCache for the model checker.                          *)
EXTENDS DwarfCache, TLC

(* Threads and binaries are interchangeable in every safety run.           *)
Symmetry == Permutations(Threads) \cup Permutations(Modules)
=============================================================================
