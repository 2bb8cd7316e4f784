--------------------------- MODULE MCAlexDataNode ---------------------------
EXTENDS AlexDataNode

\* an empty node, a few distinct keys, and a node of several words with
\* duplicates, the only way to fill one with few keys
LoadSeqs == {<<>>,
             <<<<2, "a">>, <<3, "b">>>>,
             <<<<1, "a">>, <<2, "b">>, <<4, "a">>>>,
             <<<<1, "a">>, <<1, "b">>, <<2, "a">>, <<2, "b">>, <<2, "a">>, <<3, "b">>, <<3, "a">>, <<4, "a">>, <<4, "b">>>>}

\* one that spreads the keys, one too far left, one too far right
ModelSet == {<<4, -5>>, <<1, -9>>, <<0, 40>>}

\* constant formulas, evaluated once
ASSUME SamplingEnds
=============================================================================
