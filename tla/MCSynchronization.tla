------------------------- MODULE MCSynchronization -------------------------
EXTENDS Synchronization, TLC

Symmetry == Permutations(Endpoints) \union Permutations(Listings) \union Permutations(Keys)
=============================================================================
