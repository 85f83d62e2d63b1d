------------------------------ MODULE MCExpiry ------------------------------
(* Two entries, or one, whose TTLs the configurations choose. *)
EXTENDS Expiry
=============================================================================
