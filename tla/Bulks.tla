-------------------------------- MODULE Bulks --------------------------------
(* Deletion in bounded batches, as the Resets of all services use it:      *)
(* common.Trash repeats a transaction that deletes at most Limit of the    *)
(* rows that match, until one deletes none.                                *)
EXTENDS Naturals, FiniteSets

CONSTANT Limit

ASSUME LimitAssumption == Limit \in Nat \ {0}

\* The rows one transaction takes: any Limit of those that match, or all.
Batches(M) == {D \in SUBSET M : Cardinality(D) = Limit \/ (D = M /\ Cardinality(M) <= Limit)}

=============================================================================
