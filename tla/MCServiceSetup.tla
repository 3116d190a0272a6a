--------------------------- MODULE MCServiceSetup ---------------------------
EXTENDS ServiceSetup, TLC

(* Two profiles that left traces, and the kinds of machines they are on *)
const_Machines ==
  {[login |-> "none", link |-> "missing", command |-> FALSE],
   [login |-> "own", link |-> "managed", command |-> FALSE],
   [login |-> "stale", link |-> "missing", command |-> TRUE],
   [login |-> "foreign", link |-> "conflict", command |-> FALSE]}
const_Traces ==
  {<<"nothing", "nothing">>, <<"pasted", "pending">>, <<"managed", "pasted">>}
Symmetry == Permutations(Callers)
=============================================================================
