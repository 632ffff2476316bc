----------------------------- MODULE MCCompiler -----------------------------
EXTENDS Compiler, TLC

Symmetry == Permutations(Procs) \cup Permutations(Artifacts)
=============================================================================
