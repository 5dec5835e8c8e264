---------------------------- MODULE MCAlertGateway ----------------------------
(***************************************************************************)
(* Instances of AlertGateway for TLC.  The alerts stand for the cases the  *)
(* code tells apart: "account" and "account2" are account activity of one  *)
(* fingerprint (two deliveries that share an incident); "file" has its own *)
(* fingerprint, a webhook and no proposal; "plain" is an alert without     *)
(* indicator whose scenario has no webhook.                                *)
(***************************************************************************)
EXTENDS AlertGateway, TLC

MCWebhooked == Alerts \ {"plain"}
MCAccountActivity == Alerts \cap {"account", "account2"}
MCWithIndicators == Alerts \ {"plain"}
MCFingerprintOf == [a \in Alerts |-> IF a = "account2" THEN "account" ELSE a]
MCFingerprints == {MCFingerprintOf[a] : a \in Alerts}

Symmetry == Permutations(Keys) \cup Permutations(CaseIds)
==============================================================================
