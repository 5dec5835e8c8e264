---------------------------- MODULE IncidentStore ----------------------------
(***************************************************************************)
(* Table `incidents` of incidents.py: one row per alert fingerprint,       *)
(* reserved with case_id NULL and completed with a TheHive case id.        *)
(***************************************************************************)
CONSTANTS Fingerprints, CaseIds, NoCase

ASSUME NoCaseAssumption == NoCase \notin CaseIds

VARIABLE incidents

NoIncident == [present |-> FALSE, case |-> NoCase]

IncidentInit == incidents = [f \in Fingerprints |-> NoIncident]

\* reserve on a fresh fingerprint; otherwise it only reads case_id.
Reserve(f) ==
  /\ ~incidents[f].present
  /\ incidents' = [incidents EXCEPT ![f].present = TRUE]

\* Slip: the case id is not stored.
CompleteNothing(f, c) == UNCHANGED incidents

CompleteIncident(f, c) ==
  incidents' = [incidents EXCEPT ![f].case = IF incidents[f].present THEN c ELSE @]

\* Slip: a failed reservation is kept.
ReleaseNothing(f) == UNCHANGED incidents

\* release deletes the row only while it has no case.
Release(f) ==
  incidents' = [incidents EXCEPT ![f] = IF @.case = NoCase THEN NoIncident ELSE @]
==============================================================================
