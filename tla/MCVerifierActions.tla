------------------------- MODULE MCVerifierActions --------------------------
EXTENDS VerifierActions, TLC

Symmetry == Permutations(Procs) \cup Permutations(Actions)
=============================================================================
