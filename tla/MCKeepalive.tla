---------------------------- MODULE MCKeepalive ----------------------------
(* Instances of Keepalive for TLC: the configurations give every constant. *)
EXTENDS Keepalive
=============================================================================
