---------------------------- MODULE MCTokenCache ----------------------------
EXTENDS TokenCache, TLC

Symmetry == Permutations(Workers)
=============================================================================
