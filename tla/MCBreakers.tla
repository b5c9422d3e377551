----------------------------- MODULE MCBreakers -----------------------------
(* Three domains: d1 cascades to d2, d2 to d3, and d3 back to d1.  Domain  *)
(* d1 has the larger thresholds and periods, as its criticality preset     *)
(* would.                                                                  *)
EXTENDS DomainBreakers, TLC

CONSTANTS d1, d2, d3

MCDomains == {d1, d2, d3}
MCFailureThreshold == (d1 :> 2) @@ (d2 :> 1) @@ (d3 :> 1)
MCSuccessThreshold == (d1 :> 2) @@ (d2 :> 1) @@ (d3 :> 1)
MCResetTimeout == (d1 :> 2) @@ (d2 :> 1) @@ (d3 :> 1)
MCFailureWindow == (d1 :> 2) @@ (d2 :> 1) @@ (d3 :> 1)
MCCascadeTargets == (d1 :> {d2}) @@ (d2 :> {d3}) @@ (d3 :> {d1})
=============================================================================
