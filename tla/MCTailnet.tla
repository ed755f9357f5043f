----------------------------- MODULE MCTailnet -----------------------------
(* Small tailnets for TLC. *)
EXTENDS Tailnet
=============================================================================
