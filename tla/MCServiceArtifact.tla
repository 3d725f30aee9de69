------------------------- MODULE MCServiceArtifact -------------------------
\* ServiceArtifact for TLC: an object with two callers, and another object, of
\* another process or of another clone of the registry, with one.
EXTENDS ServiceArtifact

CONSTANTS o1, o2, c1, c2, c3

TwoObjects == {o1, o2}
ThreeCallers == {c1, c2, c3}
Homes == [c \in ThreeCallers |-> IF c = c3 THEN o2 ELSE o1]
=============================================================================
