----------------------------- MODULE MCTeardown -----------------------------
(* Two accounts, a project, a memory, two calls at a time. *)
EXTENDS Teardown, TLC

CONSTANTS c1, c2

Symmetry == Permutations(Callers)
=============================================================================
