--------------------------- MODULE MCShardManager ---------------------------
(* Instances of ShardManager for TLC. *)
EXTENDS EvictionRace, TLC

CONSTANTS t1, t2, e1, e2, e3, e4, m1, m2, i1, i2, i3

\* Three events over two months, and one dated in the future.
MCMonthOf == [e \in Events |-> IF e \in {e1, e2} THEN m1 ELSE m2]

\* e1 and e2 fall in one month and neither is dated in the future.
Symmetry == Permutations(Threads) \cup Permutations(Insts) \cup Permutations({e1, e2})
=============================================================================
