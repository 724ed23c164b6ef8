------------------------------- MODULE MC_PHT -------------------------------
(* Model-checking instance of PHT: two keys that collide in one bucket, so *)
(* every operation works on the same chain.                                *)
EXTENDS PHT, TLC

MCKeys == {1, 2}
MCHash == [k \in MCKeys |-> CHOOSE b \in Buckets : TRUE]

\* Threads are interchangeable, and so are values: no property names one.
MCSymmetry == Permutations(Threads) \cup Permutations(Vals)
=============================================================================
