---------------------------- MODULE MC_PHTDurable ----------------------------
(* Model-checking instance of PHTDurable: two keys that collide in one     *)
(* bucket, so every operation and every flush works on the same chain.    *)
EXTENDS PHTDurable, TLC

MCKeys == {1, 2}

\* One key: every operation contends on the same node.
MCOneKey  == {1}
MCOneHash == [k \in MCOneKey |-> CHOOSE b \in Buckets : TRUE]
MCHash == [k \in MCKeys |-> CHOOSE b \in Buckets : TRUE]

\* Threads are interchangeable, and so are values: no property names one.
MCSymmetry == Permutations(Threads) \cup Permutations(Vals)
=============================================================================
