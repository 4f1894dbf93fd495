----------------------------- MODULE MCOrderLoop -----------------------------
(* Instances of OrderLoop for TLC. *)
EXTENDS OrderLoop
=============================================================================
