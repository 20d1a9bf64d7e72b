-------------------------- MODULE MCWindowsBackend --------------------------
(* Instances of WindowsBackend for the model checker.                      *)
EXTENDS WindowsBackend
=============================================================================
