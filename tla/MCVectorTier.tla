---------------------------- MODULE MCVectorTier ----------------------------
(* Model values and symmetry for the runs of VectorTier. *)
EXTENDS VectorTier, TLC

Symmetry == Permutations(Callers) \cup Permutations(Reconcilers) \cup Permutations(Reapers)
=============================================================================
