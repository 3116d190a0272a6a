----------------------------- MODULE Operators -----------------------------
(***************************************************************************)
(* The algorithms of the product that are functions of their input: one    *)
(* evaluation of one of them on one of the inputs that are checked, and    *)
(* what is true of every evaluation, stated without the algorithm.         *)
(***************************************************************************)
EXTENDS Aliases, CommandLine, HostFiles, ManualHosts, Diagnostics, Schedule

-----------------------------------------------------------------------------
Init == work = Idle
Next == RenderAliases \/ Connect \/ EditInclude \/ EditShell \/ FindHosts
          \/ RecordAndExport \/ Delay
Spec == Init /\ [][Next]_work

-----------------------------------------------------------------------------
(* A host line answers for the target it stands for, whatever the names of *)
(* the targets of the other profiles are.                                  *)
AliasesUnambiguous ==
  work.task = "aliases" =>
    \A a, b \in work.output :
      a.profile # b.profile => a.patterns \intersect b.patterns = {}

=============================================================================
