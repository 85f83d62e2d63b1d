----------------------------- MODULE MCSessions -----------------------------
(* An admin and a user, two sessions, two requests at a time. *)
EXTENDS Sessions, TLC

CONSTANTS adm, usr

MCUsers == {adm, usr}
MCAdmins == {adm}
Symmetry == Permutations(Sessions) \cup Permutations(Handlers)
=============================================================================
