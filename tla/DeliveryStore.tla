---------------------------- MODULE DeliveryStore ----------------------------
(***************************************************************************)
(* The durable alert inbox: table `deliveries` of deliveries.py.  Each     *)
(* operator below is one SQLite transaction on that table; the gateway     *)
(* decides when it runs.  A row is a record:                               *)
(*   alert      the stored payload (and its hash: equal payloads only)     *)
(*   attempts   claims since the row was queued                            *)
(*   due        next_attempt_at is NULL or not in the future               *)
(*   lastError  "none" is NULL; a restart is told apart from a failure     *)
(*   older      the keys whose created_at precedes this row's              *)
(* A key with no row has status "absent".                                  *)
(***************************************************************************)
EXTENDS Naturals

CONSTANTS Keys,         \* idempotency keys
          Alerts,       \* payloads
          NoAlert,
          NoResult,     \* result_json IS NULL
          MaxAttempts   \* config.worker_max_attempts

ASSUME MaxAttemptsAssumption == MaxAttempts \in Nat \ {0}
ASSUME NoAlertAssumption == NoAlert \notin Alerts

VARIABLE deliveries

Statuses == {"absent", "queued", "processing", "retrying", "completed", "failed"}
Errors == {"none", "failure", "worker_restart"}

Vacant == [status |-> "absent", alert |-> NoAlert, attempts |-> 0, due |-> FALSE,
           lastError |-> "none", result |-> NoResult, older |-> {}]

StoreInit == deliveries = [k \in Keys |-> Vacant]

Known(k) == deliveries[k].status # "absent"

\* INSERT, or UPDATE ... WHERE key = k.
Write(k, row) == deliveries' = [deliveries EXCEPT ![k] = row]

\* enqueue on a fresh key: the row is committed before the caller answers.
Enqueue(k, a) ==
  /\ ~Known(k)
  /\ Write(k, [Vacant EXCEPT !.status = "queued", !.alert = a, !.due = TRUE,
                              !.older = {j \in Keys : Known(j)}])

\* Slip: the stored payload hash is not compared.
KeyAlone(k, a) == Known(k)

\* enqueue on a known key: FALSE for the same payload, a conflict otherwise.
SamePayload(k, a) == Known(k) /\ deliveries[k].alert = a

Claimable(k) == deliveries[k].status \in {"queued", "retrying"} /\ deliveries[k].due

\* claim_due takes the oldest claimable row and counts the attempt.
ClaimDue(k) ==
  /\ Claimable(k)
  /\ \A j \in Keys : Claimable(j) => j \notin deliveries[k].older
  /\ Write(k, [deliveries[k] EXCEPT !.status = "processing", !.attempts = @ + 1])

Complete(k, r) ==
  Write(k, [deliveries[k] EXCEPT !.status = "completed", !.result = r,
                                 !.lastError = "none", !.due = TRUE])

\* Slip: one attempt too many.
ExhaustedLate(k) == deliveries[k].attempts > MaxAttempts

Exhausted(k) == deliveries[k].attempts >= MaxAttempts

\* fail: terminal once the attempts are spent, otherwise due after a delay.
Fail(k) ==
  Write(k, [deliveries[k] EXCEPT !.status = IF Exhausted(k) THEN "failed" ELSE "retrying",
                                 !.due = Exhausted(k), !.lastError = "failure"])

\* Slip: rows whose attempts are spent are not recovered.
RecoverWithinBudget ==
  deliveries' = [k \in Keys |->
    IF deliveries[k].status = "processing" /\ deliveries[k].attempts < MaxAttempts
    THEN [deliveries[k] EXCEPT !.status = "retrying", !.due = TRUE,
                               !.lastError = "worker_restart"]
    ELSE deliveries[k]]

\* Rows a stopped worker left behind, whatever their attempts.
RecoverProcessing ==
  deliveries' = [k \in Keys |->
    IF deliveries[k].status = "processing"
    THEN [deliveries[k] EXCEPT !.status = "retrying", !.due = TRUE,
                               !.lastError = "worker_restart"]
    ELSE deliveries[k]]

\* Slip: the UPDATE lacks its condition on the status.
RequeueAny(k) ==
  Write(k, [deliveries[k] EXCEPT !.status = "queued", !.attempts = 0, !.due = TRUE,
                                 !.lastError = "none"])

\* requeue touches terminal failures only and grants a fresh budget.
Requeue(k) ==
  /\ deliveries[k].status = "failed"
  /\ Write(k, [deliveries[k] EXCEPT !.status = "queued", !.attempts = 0, !.due = TRUE,
                                    !.lastError = "none"])

\* The clock reaches next_attempt_at.
BackoffElapses(k) ==
  /\ deliveries[k].status = "retrying"
  /\ ~deliveries[k].due
  /\ Write(k, [deliveries[k] EXCEPT !.due = TRUE])
==============================================================================
