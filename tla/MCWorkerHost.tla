---------------------------- MODULE MCWorkerHost ----------------------------
(* A host and a few commits for TLC. *)
EXTENDS WorkerHost
=============================================================================
