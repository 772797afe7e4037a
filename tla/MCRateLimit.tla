----------------------------- MODULE MCRateLimit -----------------------------
EXTENDS RateLimit, TLC
Symmetric == Permutations(Requests)
=============================================================================
