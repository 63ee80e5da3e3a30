----------------------------- MODULE MCLrzOpen -----------------------------
(* Small instances of LrzOpen for TLC: a file of four bytes of which two    *)
(* can be resumed, and one lrz cannot create; a batch of which lrz has      *)
(* file 1 and cannot close file 3, long enough for a saved block of file 2  *)
(* to outlive it.                                                           *)
EXTENDS LrzOpen
Resumed == <<4, 0>>
OldResumed == <<3, 0>>
Batch == <<0, 2, 2>>
OldBatch == <<1, 0, 0>>
=============================================================================
