----------------------------- MODULE MCTransport -----------------------------
(* The instance of Transport that TLC checks. *)
EXTENDS Transport

=============================================================================
