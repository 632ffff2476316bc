-------------------------- MODULE MCForeignWriters --------------------------
EXTENDS ForeignWriters, TLC

CONSTANTS i1, i2, k1, k2

\* Both identities have one kind, so that an index can miss one of them.
MCKindOf == i1 :> k1 @@ i2 :> k1

Symmetry == Permutations(TxIds) \cup Permutations(Contents)
=============================================================================
