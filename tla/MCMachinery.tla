---------------------------- MODULE MCMachinery ----------------------------
(***************************************************************************)
(* The variables of the interpreter, the Capacitor and one call site of    *)
(* the Meter for TLC.  They share no state: a behaviour exercises one of   *)
(* them, chosen at the start.                                              *)
(***************************************************************************)
EXTENDS Variables, Machinery, TLC

CONSTANTS n1, n2, n3

VARIABLE subject

\* n1 and n2 collide in every table, n3 with them in small ones.
MCHash == (n1 :> 3) @@ (n2 :> 3) @@ (n3 :> 0)

Init ==
  /\ subject \in {"variables", "capacitor", "site"}
  /\ VarInit /\ MachineryInit

VariablesStep == subject = "variables" /\ VarNext /\ UNCHANGED <<capacitorVars, siteVars, subject>>

\* total_allocated_ drifts with each registration of a known base; it is bounded.
CapacitorStep ==
  /\ subject = "capacitor" /\ CapacitorNext
  /\ total' <= 2 * MaxUse
  /\ UNCHANGED <<varVars, siteVars, subject>>

SiteStep == subject = "site" /\ SiteNext /\ UNCHANGED <<varVars, capacitorVars, subject>>

Next == VariablesStep \/ CapacitorStep \/ SiteStep

Spec == Init /\ [][Next]_<<varVars, capacitorVars, siteVars, subject>>

=============================================================================
