----------------------- MODULE MCSynchronizationLive -----------------------
EXTENDS Synchronization

(* unsure is history: profiles whose pins and catalog no synchronization   *)
(* brings together by itself.  The server moved between the two questions  *)
(* of one synchronization, or while pins and catalog named different       *)
(* endpoints; or the user's own change was cut off between the two files.  *)
(* Saving the profile again mends it.                                      *)
VARIABLE unsure

Apart(p) ==
  catalog.entries[p] # None /\ pins[p] # None
    /\ pins[p].endpoint # catalog.entries[p].endpoint

Moved(p)  == server'[p].endpoint # server[p].endpoint
Saving(p) == edit.task = "save" /\ edit.name = p /\ edit.pc = "catalog"
CutOff(p) == Saving(p) /\ edit'.pc = "idle" /\ catalog' = catalog

Unsure ==
  unsure' = {p \in Profiles :
               \/ p \in unsure /\ ~(Saving(p) /\ catalog' # catalog)
               \/ Moved(p) /\ (lock = "sync" \/ Apart(p))
               \/ CutOff(p) /\ Apart(p)}

HistoryVars == <<vars, unsure>>
LiveSpec ==
  /\ Init /\ unsure = {}
  /\ [][Next /\ Unsure]_HistoryVars
  /\ Fairness

(* Pins are rewritten for a server that has moved before the other         *)
(* profiles have answered.  Whatever fails or dies after that, in the long *)
(* run every published alias connects to an endpoint its pins name, unless *)
(* the profile is unsure or one needs its user.                            *)
PinsFollow == <>[](Blocked \/ \A p \in Known(catalog) \ unsure : Usable(p))
=============================================================================
