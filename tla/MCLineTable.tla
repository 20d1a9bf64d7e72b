----------------------------- MODULE MCLineTable -----------------------------
(* Instances of LineTable for the model checker.                           *)
EXTENDS LineTable

CONSTANT MaxAddress   \* bound: the largest address

AddressRange == 0..MaxAddress
=============================================================================
