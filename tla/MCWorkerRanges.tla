--------------------------- MODULE MCWorkerRanges ---------------------------
(* Two datasets, one with two table handles: requests of one table, of its *)
(* sibling and of another dataset compete for the permits.                 *)
EXTENDS WorkerRanges, TLC

CONSTANTS t1, t2, t3, d1, d2

MCTables == {t1, t2, t3}
MCDatasets == {d1, d2}
MCDatasetOf == t1 :> d1 @@ t2 :> d1 @@ t3 :> d2
Symmetry == Permutations(Requests) \cup Permutations({t1, t2})

(* The requests do not all read one table: TLC leaves that case to the     *)
(* theorems.                                                               *)
MCInit == RangesInit /\ Cardinality({tableOf[r] : r \in Requests}) > 1
MCSpec == MCInit /\ [][RangesNext]_vars
=============================================================================
