------------------------------ MODULE MCClient ------------------------------
\* Client with interchangeable calls, for runs that check safety only.
EXTENDS Client, TLC

CallSymmetry == Permutations(Calls)
=============================================================================
