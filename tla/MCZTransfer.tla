---------------------------- MODULE MCZTransfer ----------------------------
(* Small instances of ZTransfer for TLC. *)
EXTENDS ZTransfer
TwoFiles == <<2, 1>>
ThreeFiles == <<2, 1, 3>>
OldLens == [f \in Files |-> 1]
=============================================================================
