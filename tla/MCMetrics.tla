----------------------------- MODULE MCMetrics -----------------------------
(* Bounds: a few requests, one sweep. *)
EXTENDS Metrics, TLC

QueriesAndRuns(q, d) == [n \in Counters |-> IF n = "queries_total" THEN q ELSE d]
TwoAndOne == QueriesAndRuns(2, 1)
ThreeAndOne == QueriesAndRuns(3, 1)

Symmetry == Permutations(Replicas)
=============================================================================
