----------------------------- MODULE MCEndpoints -----------------------------
(***************************************************************************)
(* Instances of Triage and Monitoring for TLC.  The two serve the same     *)
(* process but share no variable, so that their interleavings show nothing *)
(* that each does not show alone: one rests while the other works.         *)
(***************************************************************************)
EXTENDS Triage, Monitoring, TLC

vars == <<triageVars, monitoringVars>>

Init == TriageInit /\ MonitoringInit

TriageRests == \A c \in Calls : calls[c].at = "idle"
MonitoringRests ==
  /\ clients = Deps /\ healthy = [d \in Deps |-> TRUE] /\ changes = 0
  /\ \A p \in Probes : probes[p].at = "idle"

Next ==
  \/ MonitoringRests /\ TriageNext /\ UNCHANGED monitoringVars
  \/ TriageRests /\ MonitoringNext /\ UNCHANGED triageVars

Spec == Init /\ [][Next]_vars

EndpointsTypeOK == TriageTypeOK /\ MonitoringTypeOK

Symmetry == Permutations(Calls) \cup Permutations(Probes) \cup Permutations(Books)
==============================================================================
