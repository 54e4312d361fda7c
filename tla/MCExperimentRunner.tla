------------------------- MODULE MCExperimentRunner -------------------------
EXTENDS ExperimentRunner

CONSTANTS i1, i2, Jobs

\* No bundle, one, several, one that is refused, one of another run at the end.
BundleLists == {<<>>, <<i1>>, <<i1, i1>>, <<i1, i1, i1>>, <<i1, Invalid>>,
                <<i1, i1, i2>>}

\* One policy, two, and two where the id of one begins with that of the other.
IdLists == {<<<<"a">>>>, <<<<"a">>, <<"b">>>>, <<<<"a">>, <<"a", "b">>>>}

Calls ==
    UNION {[form : {"vector", "source"}, jobs : Jobs, keepGoing : BOOLEAN,
            bundles : {bs}, ids : {ps},
            ok : [0 .. Len(bs) * Len(ps) - 1 -> BOOLEAN]] :
              bs \in BundleLists, ps \in IdLists}
=============================================================================
