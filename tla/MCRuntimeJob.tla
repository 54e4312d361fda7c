---------------------------- MODULE MCRuntimeJob ----------------------------
EXTENDS RuntimeJob, TLC

Symmetry == Permutations(Job)
=============================================================================
