----------------------------- MODULE MCConsole -----------------------------
(* A form, a page and an instance for TLC. *)
EXTENDS Console
=============================================================================
