--------------------------- MODULE MC_SelectRelay ---------------------------
\* The relay server with a few clients.
EXTENDS SelectRelay, TLC

Sym == Permutations(Client)
=============================================================================
