--------------------------- MODULE MCTextInstall ---------------------------
EXTENDS TextInstall, TLC

\* Any of the texts may be the longer one.
MCMixed(t, c) == IF c \in {t, Nil, Empty} THEN {} ELSE Torn

Symmetry == Permutations(Proc) \cup Permutations(Text)
=============================================================================
