------------------------- MODULE MCCommandExecution -------------------------
\* Three requests, or one command line, for TLC.
EXTENDS CommandExecution, TLC

CONSTANTS e1, e2, e3

Requests == {e1, e2, e3}
Symmetry == Permutations(Requests)
=============================================================================
