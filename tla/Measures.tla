------------------------------ MODULE Measures ------------------------------
(* Measures of what is left to do: tuples of naturals, the first one that  *)
(* differs decides.                                                        *)
EXTENDS Naturals

Below(m, n) == \E k \in DOMAIN n : m[k] < n[k] /\ \A j \in 1..k - 1 : m[j] = n[j]

=============================================================================
