-------------------------- MODULE MCSpawnRegistry --------------------------
EXTENDS SpawnRegistry, TLC

\* Two families of two fingerprints each.
TwoFamilies == [x \in Fp |-> IF x \in {3, 4} THEN "mdn" ELSE "vicreg"]
OneFamily == [x \in Fp |-> "vicreg"]

\* Every fingerprint has candidates of its own.
DistinctCandidates == [x \in Fp |-> <<<<x, "abc">>, <<x, "abd">>>>]

\* Fingerprints 1 and 2 propose the same first id; 3 and 4 propose it as well, in
\* another family, and have no second one.
CollidingCandidates ==
    [x \in Fp |-> IF x = 2 THEN <<"abc", "abd">> ELSE <<"abc">>]

\* 2 is the second copy of 1, for which no id is left.
TornCandidates == [x \in Fp |-> IF x = 3 THEN <<"abc", "abd">> ELSE <<"abc">>]

Symmetry == Permutations(Proc)
=============================================================================
