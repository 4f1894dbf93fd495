------------------------------ MODULE MCUptime ------------------------------
(* Instances of Uptime for TLC. *)
EXTENDS Uptime
=============================================================================
