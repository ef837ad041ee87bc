--------------------------- MODULE MCArchiveIngest --------------------------
(* Instances of ArchiveIngest for TLC. *)
EXTENDS ArchiveIngest, TLC

CONSTANTS r1, r2, c1, c2, a, b, jan, feb

\* Event a is in two dumps; c1 spans both months.
MCBatch == [k \in Chunks |-> IF k = c1 THEN <<a, b>> ELSE <<a>>]

MCMonthOf == [e \in Events |-> IF e = b THEN feb ELSE jan]

Symmetry == Permutations(Readers)
=============================================================================
