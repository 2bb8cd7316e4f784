----------------------------- MODULE MCAlexTree -----------------------------
EXTENDS AlexTree

\* keys below, in and above the domain of the loads, whose widths are 8 and 16
MCKeys == {96, 100, 104, 112, 120, 128}
MCLoads == {{104, 112}, {104, 112, 120}}

\* a domain whose expansion to the left is cut off at 0
ClipKeys == {0, 4, 8, 24, 52, 60}
ClipLoads == {{8, 24}}
=============================================================================
