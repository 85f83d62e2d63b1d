------------------------------ MODULE MCDoors ------------------------------
(* An admin and a user, two projects of one name, three tokens. *)
EXTENDS Doors, TLC

CONSTANTS adm, usr, t1, t2, t3

MCUsers == {adm, usr}
MCAdmins == {adm}
MCTokens == {t1, t2, t3}
Symmetry == Permutations(MCTokens)
============================================================================
