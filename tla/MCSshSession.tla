---------------------------- MODULE MCSshSession ----------------------------
(* The instance of SshSession that TLC checks. *)
EXTENDS SshSession

=============================================================================
