--------------------------- MODULE MCProfileCalls ---------------------------
EXTENDS ProfileCalls, TLC

(* Two profiles that were there before are ones of the same account. *)
Init == CallInit /\ \A m, n \in Known : catalog[m] = catalog[n]
Spec == Init /\ [][CallNext]_callVars

Symmetry ==
  Permutations(Callers) \union Permutations(Servers) \union Permutations(Users)
    \union Permutations(Endpoints) \union Permutations(Keys)
=============================================================================
