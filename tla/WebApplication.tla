--------------------------- MODULE WebApplication ---------------------------
(***************************************************************************)
(* The web application from its image to its pages, put together: a        *)
(* process and the page in front of it (BrowserPage), the start of its     *)
(* containers (WebStartup) and the gate of a release (ProductionRun).      *)
(*                                                                         *)
(* They share no state that the other modules do not abstract from, so     *)
(* `use` names the one that is looked at, and the others stand still.      *)
(***************************************************************************)
EXTENDS BrowserPage, WebStartup, ProductionRun

allVars == <<vars, pageVars, startVars, gateVars>>

ApplicationInit ==
  /\ PageInit /\ StartInit /\ GateInit
  /\ (use = "start") = (setup.up # {})
  /\ (use = "gate") = (gate.up # {})

ApplicationNext ==
  \/ PageNext /\ UNCHANGED <<startVars, gateVars>>
  \/ use = "start" /\ StartNext /\ UNCHANGED <<vars, pageVars, gateVars>>
  \/ use = "gate" /\ GateNext /\ UNCHANGED <<vars, pageVars, startVars>>

ApplicationSpec == ApplicationInit /\ [][ApplicationNext]_allVars /\ Fairness /\ StartFairness
=============================================================================
