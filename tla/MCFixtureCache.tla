--------------------------- MODULE MCFixtureCache ---------------------------
EXTENDS FixtureCache, TLC

CONSTANTS p1, p2, p3, h1, h2, impl

Sym == Permutations(Processes) \union Permutations(Hashes) \union Permutations(Files)
=============================================================================
