---------------------------- MODULE HandoffLedger ----------------------------
(***************************************************************************)
(* The second table of deliveries.py, `shuffle_handoffs`: a row per trace, *)
(* reserved before Shuffle is called and completed with the execution id   *)
(* it answers.  A trace id is a hash of the key and the alert id, both     *)
(* fixed once a key is stored, so traces are named by their keys.  The     *)
(* execution id is the ordinal of the run Shuffle started for the trace;   *)
(* 0 is NULL.                                                              *)
(***************************************************************************)
EXTENDS DeliveryStore

VARIABLE handoffs

NoRow == [status |-> "absent", execution |-> 0]

LedgerInit == handoffs = [t \in Keys |-> NoRow]

Reserved(t) == handoffs[t].status # "absent"

\* reserve_handoff on a trace without a row; otherwise it only reads the row.
ReserveHandoff(t) ==
  /\ ~Reserved(t)
  /\ handoffs' = [handoffs EXCEPT ![t] = [status |-> "pending", execution |-> 0]]

CompleteHandoff(t, e) ==
  handoffs' = [handoffs EXCEPT ![t] =
    IF Reserved(t) THEN [status |-> "completed", execution |-> e] ELSE @]

\* Deletes a pending row; a completed one stays.
ReleaseHandoff(t) ==
  handoffs' = [handoffs EXCEPT ![t] = IF @.status = "pending" THEN NoRow ELSE @]

\* Slip: the DELETE lacks its condition on the status.
ReconcileRetryAny(t) == Reserved(t) /\ handoffs' = [handoffs EXCEPT ![t] = NoRow]

\* The outcomes reconcile_handoff takes; any other is refused.
ReconcileRetry(t) == handoffs[t].status = "pending" /\ ReleaseHandoff(t)

ReconcileCompleted(t, e) ==
  /\ e # 0
  /\ \/ handoffs[t].status = "pending" /\ CompleteHandoff(t, e)
     \/ handoffs[t] = [status |-> "completed", execution |-> e] /\ UNCHANGED handoffs
==============================================================================
