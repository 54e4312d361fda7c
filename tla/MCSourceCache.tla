---------------------------- MODULE MCSourceCache ----------------------------
EXTENDS SourceCache, TLC

Symmetry == Permutations(Proc)
=============================================================================
