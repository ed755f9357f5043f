--------------------------- MODULE MCMembership ---------------------------
(* Two people, their organizations and their devices for TLC. *)
EXTENDS MemberDevices
=============================================================================
