--------------------------- MODULE MCWrapperServer ---------------------------
EXTENDS WrapperServer, TLC

Symmetry == Permutations(Handlers)
=============================================================================
