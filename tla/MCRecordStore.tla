--------------------------- MODULE MCRecordStore ----------------------------
EXTENDS RecordStore, TLC

CONSTANTS i1, i2, k1, k2

\* Two identities of different kinds, so that reads by kind differ.
MCKindOf == i1 :> k1 @@ i2 :> k2

MCKindOfOne == i1 :> k1

Symmetry == Permutations(Procs) \cup Permutations(TxIds) \cup Permutations(Contents)
=============================================================================
