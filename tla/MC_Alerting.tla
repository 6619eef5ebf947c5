----------------------------- MODULE MC_Alerting ------------------------------
(* Instances of Alerting for TLC: two processes of the control plane.        *)
EXTENDS Alerting

Loop(p, s) == [proc |-> p, svc |-> s]

AllLoops ==
  {Loop("control", s) : s \in Services}
  \cup {Loop("control-b", "connectivity")}

\* Loops that meet on the same rows of the alert table.
Meeting ==
  {{Loop("control", "connectivity"), Loop("control-b", "connectivity")},
   {Loop("control", "connectivity"), Loop("control", "reconciliation")},
   {Loop("control", "reconciliation"), Loop("control", "canary")},
   {Loop("control", "risk")}}
=============================================================================
