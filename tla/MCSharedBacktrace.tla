------------------------- MODULE MCSharedBacktrace -------------------------
(* Instances of SharedBacktrace for the model checker.                     *)
EXTENDS SharedBacktrace, TLC

(* An empty stack and one that is deeper than the room for frames:         *)
(* skipping some of its frames leaves every depth.                         *)
StackSet == {<<>>, <<1, 2, 3, 6>>}

(* The parameter for the frames to skip is an int.                         *)
OneBack == -1

Symmetry == Permutations(Threads) \cup Permutations(Backtraces)
=============================================================================
