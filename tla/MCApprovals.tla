----------------------------- MODULE MCApprovals -----------------------------
(***************************************************************************)
(* Instances of Approvals for TLC: enough identifiers for two proposals of *)
(* one trace or two requests, two requests in progress at once.            *)
(***************************************************************************)
EXTENDS Approvals, TLC

Symmetry == Permutations(ApprovalIds) \cup Permutations(Clients)
            \cup Permutations(Incidents)
==============================================================================
