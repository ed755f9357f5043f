------------------------------ MODULE MCGuests ------------------------------
(* Small clusters for TLC. *)
EXTENDS Guests
=============================================================================
