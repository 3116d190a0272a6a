----------------------------- MODULE Workstation -----------------------------
(***************************************************************************)
(* What the models of the programs on a workstation share: who calls, and  *)
(* the profiles they call about.                                           *)
(***************************************************************************)
CONSTANTS
  Callers,     \* commands and requests of the companion in flight
  Profiles,    \* profile names, as numbers in their order
  None,
  MaxCalls,    \* bound of the calls
  MaxFailures  \* bound of the effects that fail or are cut off
=============================================================================
