------------------------- MODULE MCTokenLifecycle -------------------------
EXTENDS TokenLifecycleInvariant, TLC

Symmetry ==
  Permutations(Issuable) \union Permutations(Labels) \union Permutations(Imported)
=============================================================================
