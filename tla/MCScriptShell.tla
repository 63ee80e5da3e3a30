-------------------------- MODULE MCScriptShell --------------------------
(* ScriptShell for TLC: every call, two hosts. *)
EXTENDS ScriptShell

AllOps == {"login", "exec", "su", "upload", "download"}
=============================================================================
