----------------------------- MODULE MCLszOpen -----------------------------
(* A small instance of LszOpen for TLC: a batch of two files, one that      *)
(* cannot be opened and a directory.                                        *)
EXTENDS LszOpen
Batch == <<3, 0, 0, 1>>
=============================================================================
