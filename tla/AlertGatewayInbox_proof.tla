----------------------- MODULE AlertGatewayInbox_proof -----------------------
(***************************************************************************)
(* What happens to a delivery, for every value of the constants: who works *)
(* on it, what becomes of its row and its handoff, and that AlertGateway   *)
(* implements DurableInbox.                                                *)
(***************************************************************************)
EXTENDS AlertGateway_proof

LEMMA StateOf ==
  /\ InboxState["absent"] = "absent"
  /\ InboxState["queued"] = "waiting" /\ InboxState["retrying"] = "waiting"
  /\ InboxState["processing"] = "working" /\ InboxState["completed"] = "done"
  /\ InboxState["failed"] = "given_up"
  BY DEF InboxState

\* What a transaction does to the status and the payload of a row, and to its budget.
Sets(k, status, alert) ==
  /\ deliveries'[k].status = status /\ deliveries'[k].alert = alert
  /\ \A j \in Keys \ {k} : deliveries'[j] = deliveries[j]
Counts(k, attempts, error) ==
  deliveries'[k].attempts = attempts /\ deliveries'[k].lastError = error

LEMMA EnqueueSets ==
  ASSUME DeliveriesOK, NEW k \in Keys, NEW a \in Alerts, Enqueue(k, a)
  PROVE  deliveries[k].status = "absent" /\ Sets(k, "queued", a) /\ Counts(k, 0, "none")
  BY DEF DeliveriesOK, Enqueue, Write, Known, Vacant, Sets, Counts

LEMMA ClaimSets ==
  ASSUME DeliveriesOK, NEW k \in Keys, ClaimDue(k)
  PROVE  /\ deliveries[k].status \in {"queued", "retrying"}
         /\ Sets(k, "processing", deliveries[k].alert)
         /\ Counts(k, deliveries[k].attempts + 1, deliveries[k].lastError)
  <1> DEFINE d == deliveries[k]
  <1> DEFINE n == d.attempts + 1
  <1> DEFINE row == [d EXCEPT !.status = "processing", !.attempts = n]
  <1>1. d.status \in {"queued", "retrying"} /\ Write(k, row)
    BY DEF ClaimDue, Claimable
  <1>2. d \in DeliveryRow
    BY DEF DeliveriesOK
  <1> HIDE DEF n
  <1> HIDE DEF d
  <1>3. row.status = "processing" /\ row.alert = d.alert
        /\ row.attempts = n /\ row.lastError = d.lastError
    BY <1>2 DEF DeliveryRow
  <1> USE DEF d, n
  <1> HIDE DEF row
  <1> QED BY <1>1, <1>3 DEF DeliveriesOK, Write, Sets, Counts

LEMMA CompleteSets ==
  ASSUME DeliveriesOK, NEW k \in Keys, NEW r, Complete(k, r)
  PROVE  Sets(k, "completed", deliveries[k].alert) /\ Counts(k, deliveries[k].attempts, "none")
  <1> DEFINE d == deliveries[k]
  <1> DEFINE row == [d EXCEPT !.status = "completed", !.result = r,
                              !.lastError = "none", !.due = TRUE]
  <1>1. Write(k, row)
    BY DEF Complete
  <1>2. d \in DeliveryRow
    BY DEF DeliveriesOK
  <1> HIDE DEF d
  <1>3. row.status = "completed" /\ row.alert = d.alert
        /\ row.attempts = d.attempts /\ row.lastError = "none"
    BY <1>2 DEF DeliveryRow
  <1> USE DEF d
  <1> HIDE DEF row
  <1> QED BY <1>1, <1>3 DEF DeliveriesOK, Write, Sets, Counts

LEMMA FailSets ==
  ASSUME DeliveriesOK, NEW k \in Keys, Fail(k)
  PROVE  \E status \in {"failed", "retrying"} :
           /\ Sets(k, status, deliveries[k].alert)
           /\ Counts(k, deliveries[k].attempts, "failure")
           /\ status = "failed" <=> Exhausted(k)
  <1> DEFINE d == deliveries[k]
  <1> DEFINE due == Exhausted(k)
  <1> DEFINE status == IF due THEN "failed" ELSE "retrying"
  <1> DEFINE row == [d EXCEPT !.status = status, !.due = due, !.lastError = "failure"]
  <1>1. Write(k, row)
    BY DEF Fail
  <1>2. d \in DeliveryRow
    BY DEF DeliveriesOK
  <1>3. status \in {"failed", "retrying"} /\ (status = "failed" <=> Exhausted(k))
    OBVIOUS
  <1> HIDE DEF due, status
  <1> HIDE DEF d
  <1>4. row.status = status /\ row.alert = d.alert
        /\ row.attempts = d.attempts /\ row.lastError = "failure"
    BY <1>2 DEF DeliveryRow
  <1> USE DEF d
  <1> HIDE DEF row
  <1> QED BY <1>1, <1>3, <1>4 DEF DeliveriesOK, Write, Sets, Counts

LEMMA RequeueSets ==
  ASSUME DeliveriesOK, NEW k \in Keys, Requeue(k)
  PROVE  deliveries[k].status = "failed" /\ Sets(k, "queued", deliveries[k].alert)
         /\ Counts(k, 0, "none")
  <1> DEFINE d == deliveries[k]
  <1> DEFINE row == [d EXCEPT !.status = "queued", !.attempts = 0, !.due = TRUE,
                              !.lastError = "none"]
  <1>1. d.status = "failed" /\ Write(k, row)
    BY DEF Requeue
  <1>2. d \in DeliveryRow
    BY DEF DeliveriesOK
  <1> HIDE DEF d
  <1>3. row.status = "queued" /\ row.alert = d.alert
        /\ row.attempts = 0 /\ row.lastError = "none"
    BY <1>2 DEF DeliveryRow
  <1> USE DEF d
  <1> HIDE DEF row
  <1> QED BY <1>1, <1>3 DEF DeliveriesOK, Write, Sets, Counts

LEMMA BackoffSets ==
  ASSUME DeliveriesOK, NEW k \in Keys, BackoffElapses(k)
  PROVE  deliveries[k].status = "retrying" /\ Sets(k, "retrying", deliveries[k].alert)
         /\ Counts(k, deliveries[k].attempts, deliveries[k].lastError)
  <1> DEFINE d == deliveries[k]
  <1> DEFINE row == [d EXCEPT !.due = TRUE]
  <1>1. d.status = "retrying" /\ Write(k, row)
    BY DEF BackoffElapses
  <1>2. d \in DeliveryRow
    BY DEF DeliveriesOK
  <1> HIDE DEF d
  <1>3. row.status = d.status /\ row.alert = d.alert
        /\ row.attempts = d.attempts /\ row.lastError = d.lastError
    BY <1>2 DEF DeliveryRow
  <1> USE DEF d
  <1> HIDE DEF row
  <1> QED BY <1>1, <1>3 DEF DeliveriesOK, Write, Sets, Counts

LEMMA RecoverSets ==
  ASSUME DeliveriesOK, RecoverProcessing, NEW k \in Keys
  PROVE  IF deliveries[k].status = "processing"
         THEN deliveries'[k].status = "retrying" /\ deliveries'[k].alert = deliveries[k].alert
              /\ Counts(k, deliveries[k].attempts, "worker_restart")
         ELSE deliveries'[k] = deliveries[k]
  <1> DEFINE row(d) == [d EXCEPT !.status = "retrying", !.due = TRUE,
                                 !.lastError = "worker_restart"]
  <1>1. \A d \in DeliveryRow : /\ row(d).status = "retrying" /\ row(d).alert = d.alert
                               /\ row(d).attempts = d.attempts
                               /\ row(d).lastError = "worker_restart"
    BY DEF DeliveryRow
  <1>2. deliveries'[k] = IF deliveries[k].status = "processing"
                         THEN row(deliveries[k]) ELSE deliveries[k]
    BY DEF RecoverProcessing
  <1> HIDE DEF row
  <1> QED BY <1>1, <1>2 DEF DeliveriesOK, Counts

------------------------------------------------------------------------------
(* Who works on a delivery.  ProcessingIsOwned is not inductive: it does not *)
(* say where the worker stands when its own row has left "processing".       *)

Working(k) == deliveries[k].status = "processing"

\* The stages at which process_once has not settled its delivery.
Carrying == Stages \ {"auditing", "failing", "auditing_failure"}

WorkerHolds ==
  /\ worker.pc \in Carrying => Working(Key)
  /\ At("auditing") => deliveries[Key].status = "completed"
  /\ At("failing") =>
       Working(Key) \/ (deliveries[Key].status = "completed" /\ "audit" \in Faults)
  /\ At("auditing_failure") => ~Working(Key)

OneWorking == \A j, k \in Keys : Working(j) /\ Working(k) => j = k

OwnerInv == ProcessingIsOwned /\ WorkerHolds /\ OneWorking

LEMMA InitOwner == Init => OwnerInv
  BY DEF Init, StoreInit, Vacant, Resting, OwnerInv, ProcessingIsOwned, WorkerHolds,
         OneWorking, Working, Carrying, Stages, At

\* How the worker's record changes in a step that leaves the deliveries alone.
Carries == /\ worker.pc \in Carrying /\ worker'.pc \in Carrying \cup {"failing"}
           /\ worker'.key = worker.key
Leaves == \/ At("auditing") /\ worker'.pc = "idle"
          \/ At("auditing_failure") /\ worker'.pc \in {"idle", "dead"}
          \/ /\ At("auditing") /\ worker'.pc = "failing" /\ "audit" \in Faults
             /\ worker'.key = worker.key
Stops == worker'.pc = "down"

Steady == UNCHANGED deliveries /\ (UNCHANGED worker \/ Carries \/ Leaves)
Quiet == Steady \/ (UNCHANGED deliveries /\ Stops)

LEMMA QuietOwner == ASSUME TypeInv, OwnerInv, Quiet PROVE OwnerInv'
  <1> USE DEF OwnerInv, ProcessingIsOwned, WorkerHolds, OneWorking, Working, Carrying, Stages,
              At, Key, Quiet, Steady
  <1>1. CASE UNCHANGED worker
    BY <1>1
  <1>2. CASE Carries
    BY <1>2 DEF Carries
  <1>3. CASE Leaves
    BY <1>3 DEF Leaves
  <1>4. CASE Stops
    BY <1>4 DEF Stops
  <1> QED BY <1>1, <1>2, <1>3, <1>4

\* Every other step of the worker leaves the rows alone.
LEMMA RaiseSteady ==
  ASSUME TypeInv, worker.pc \in Carrying, Raise, UNCHANGED deliveries
  PROVE  Steady
  BY RaiseFields DEF TypeInv, TypeOK, Steady, Carries

LEMMA GoToSteady ==
  ASSUME TypeInv, worker.pc \in Carrying, NEW stage \in Carrying, GoTo(stage),
         UNCHANGED deliveries
  PROVE  Steady
  BY GoToFields DEF TypeInv, TypeOK, Steady, Carries, Carrying

LEMMA PipelineSteady == ASSUME TypeInv, PipelineStep PROVE Steady
  <1> USE DEF At, Carrying, Stages
  <1>1. UNCHANGED deliveries
    BY DEF PipelineStep, EnrichmentFails, ReserveIncident, JoinIncident, FindNoCase,
           AddObservables, IncidentFails, ReportIncident, ReportFails, FindCase, CreateCase,
           Settle, OpenCase, Only, storeVars
  <1>2. CASE EnrichmentFails \/ IncidentFails \/ ReportFails
    BY <1>1, <1>2, RaiseSteady DEF EnrichmentFails, IncidentFails, ReportFails, Only
  <1>3. CASE ReserveIncident \/ FindNoCase \/ ReportIncident
    <2>1. CASE ReserveIncident
      BY <1>1, <2>1, GoToSteady DEF ReserveIncident
    <2>2. CASE FindNoCase
      BY <1>1, <2>2, GoToSteady DEF FindNoCase, Only
    <2>3. CASE ReportIncident
      BY <1>1, <2>3, GoToSteady DEF ReportIncident, Only
    <2> QED BY <1>3, <2>1, <2>2, <2>3
  <1>4. ASSUME worker.pc \in Carrying, NEW stage \in Carrying, NEW c, NEW disposition,
               worker' = [worker EXCEPT !.pc = stage, !.case = c, !.disposition = disposition]
        PROVE  Steady
    BY <1>1, <1>4 DEF Steady, Carries, TypeInv, TypeOK, WorkerRecord
  <1>5. CASE JoinIncident
    BY <1>4, <1>5 DEF JoinIncident, Only
  <1>6. CASE AddObservables
    BY <1>4, <1>6 DEF AddObservables, Settle
  <1>7. ASSUME NEW c \in CaseIds, FindCase(c) PROVE Steady
    BY <1>4, <1>7 DEF FindCase, Settle
  <1>8. ASSUME NEW c \in CaseIds, CreateCase(c) PROVE Steady
    <2>1. worker.pc = "creating" /\ worker' = [worker EXCEPT !.pc = "observing", !.case = c]
      BY <1>8 DEF CreateCase, OpenCase
    <2> QED BY <1>1, <2>1 DEF Steady, Carries, TypeInv, TypeOK, WorkerRecord
  <1> QED BY <1>2, <1>3, <1>5, <1>6, <1>7, <1>8 DEF PipelineStep

LEMMA HandoffSteady == ASSUME TypeInv, HandoffStep PROVE Steady
  <1> USE DEF At, Carrying, Stages
  <1>1. UNCHANGED deliveries
    BY DEF HandoffStep, SendHandoff, ResumeHandoff, SkipHandoff, ShuffleAccepts,
           ShuffleRefuses, HandoffAccepted, HandoffRefused, HandoffAmbiguous, Only, storeVars
  <1>2. CASE HandoffRefused \/ HandoffAmbiguous
    BY <1>1, <1>2, RaiseSteady DEF HandoffRefused, HandoffAmbiguous
  <1>3. CASE SendHandoff
    BY <1>1, <1>3, GoToSteady DEF SendHandoff
  <1>4. CASE SkipHandoff
    BY <1>1, <1>4, GoToSteady DEF SkipHandoff, Only
  <1>5. CASE ResumeHandoff
    <2>1. worker.pc = "handing"
          /\ \/ Raise
             \/ worker' = [worker EXCEPT !.pc = "commenting",
                                         !.execution = handoffs[Key].execution]
      BY <1>5 DEF ResumeHandoff, Only
    <2> QED BY <1>1, <2>1, RaiseSteady DEF Steady, Carries, TypeInv, TypeOK, WorkerRecord
  <1>6. CASE ShuffleAccepts
    BY <1>1, <1>6 DEF ShuffleAccepts, Steady, Carries, TypeInv, TypeOK, WorkerRecord
  <1>7. CASE ShuffleRefuses
    BY <1>1, <1>7 DEF ShuffleRefuses, Steady, Carries, TypeInv, TypeOK, WorkerRecord
  <1>8. CASE HandoffAccepted
    BY <1>1, <1>8 DEF HandoffAccepted, Steady, Carries, TypeInv, TypeOK, WorkerRecord
  <1> QED BY <1>2, <1>3, <1>4, <1>5, <1>6, <1>7, <1>8 DEF HandoffStep

LEMMA FinishSteady ==
  ASSUME TypeInv,
         \/ Comment \/ CommentFails \/ Propose
         \/ AuditCompletion \/ AuditCompletionFails \/ AuditFailure \/ AuditFailureFails
  PROVE  Steady
  <1> USE DEF At, Carrying, Stages
  <1>1. UNCHANGED deliveries
    BY DEF Comment, CommentFails, Propose, AuditCompletion, AuditCompletionFails,
           AuditFailure, AuditFailureFails, Rest, Only, storeVars
  <1>2. CASE Comment
    BY <1>1, <1>2, GoToSteady DEF Comment
  <1>3. CASE CommentFails
    BY <1>1, <1>3, RaiseSteady DEF CommentFails
  <1>4. CASE Propose
    BY <1>1, <1>4, GoToSteady DEF Propose
  <1>5. CASE AuditCompletion \/ AuditFailure \/ AuditFailureFails
    BY <1>1, <1>5, RestFields
    DEF AuditCompletion, AuditFailure, AuditFailureFails, Rest, Only, Die, Steady, Leaves
  <1>6. CASE AuditCompletionFails
    BY <1>1, <1>6, RaiseFields
    DEF AuditCompletionFails, Only, Steady, Leaves, TypeInv, TypeOK
  <1> QED BY <1>2, <1>3, <1>4, <1>5, <1>6

LEMMA EnvironmentQuiet ==
  ASSUME TypeInv,
         EnvironmentStep \/ UNCHANGED vars \/ \E k \in Keys : ReconcileInterrupted(k)
  PROVE  Quiet
  BY RestFields DEF EnvironmentStep, Crash, CaseAnswerLost, OpenCase, StrayArrives,
     ReconcileInterrupted, vars, storeVars, Quiet, Steady, Stops
\* The steps that write a row.
LEMMA HandlerOwner ==
  ASSUME TypeInv, OwnerInv, UNCHANGED worker, NEW k \in Keys, NEW status, NEW alert,
         Sets(k, status, alert), status # "processing",
         deliveries[k].status \notin {"processing", "completed"}
  PROVE  OwnerInv'
  <1>1. worker.pc \in Stages => Key \in Keys
    BY DEF TypeInv, WorkerOK
  <1> QED BY <1>1 DEF OwnerInv, ProcessingIsOwned, WorkerHolds, OneWorking, Working, Carrying,
                      Stages, At, Key, Sets

LEMMA ClaimOwner == ASSUME TypeInv, OwnerInv, NEW k \in Keys, Claim(k) PROVE OwnerInv'
  <1>1. Sets(k, "processing", deliveries[k].alert) /\ worker.pc = "idle"
    BY ClaimSets DEF Claim, TypeInv, TypeOK, DeliveriesOK, At
  <1>2. worker'.pc = "enriching" /\ worker'.key = k
    BY DEF Claim, Resting
  <1>3. \A j \in Keys : ~Working(j)
    BY <1>1 DEF OwnerInv, ProcessingIsOwned, Working, At, Stages
  <1> QED BY <1>1, <1>2, <1>3 DEF OwnerInv, ProcessingIsOwned, WorkerHolds, OneWorking,
                                 Working, Carrying, Stages, At, Key, Sets

LEMMA SettleOwner ==
  ASSUME TypeInv, OwnerInv, worker.pc \in {"completing", "failing"},
         NEW status \in {"completed", "failed", "retrying"}, NEW alert,
         Sets(Key, status, alert), worker'.key = worker.key,
         \/ status = "completed" /\ worker'.pc = "auditing"
         \/ worker'.pc = "auditing_failure"
  PROVE  OwnerInv'
  <1>1. Key \in Keys
    BY DEF TypeInv, WorkerOK, Stages
  <1>2. \A j \in Keys \ {Key} : ~Working(j) /\ ~Working(j)'
    BY DEF OwnerInv, ProcessingIsOwned, Working, At, Key, Sets
  <1>3. ~Working(Key)' /\ deliveries'[Key].status = status
    BY DEF Working, Sets, Key
  <1> QED BY <1>1, <1>2, <1>3 DEF OwnerInv, ProcessingIsOwned, WorkerHolds, OneWorking,
                                 Working, Carrying, Stages, At, Key

LEMMA RestartOwner == ASSUME TypeInv, OwnerInv, Restart PROVE OwnerInv'
  <1>1. \A k \in Keys : deliveries'[k].status # "processing"
    BY RecoverSets DEF Restart, TypeInv, TypeOK, DeliveriesOK
  <1>2. worker'.pc \in {"idle", "dead"}
    BY RestFields DEF Restart, Die
  <1> QED BY <1>1, <1>2 DEF OwnerInv, ProcessingIsOwned, WorkerHolds, OneWorking, Working,
                           Carrying, Stages, At

\* What each of these steps does to the rows.
LEMMA HandlerRows ==
  ASSUME TypeInv, NEW k \in Keys
  PROVE  /\ \A a \in Alerts : ReceiveAlert(k, a) =>
              Quiet \/ /\ deliveries[k].status = "absent" /\ Sets(k, "queued", a)
                       /\ UNCHANGED worker
         /\ Replay(k) \/ Reconcile(k) =>
              /\ deliveries[k].status = "failed" /\ Sets(k, "queued", deliveries[k].alert)
              /\ UNCHANGED worker
         /\ BackoffPasses(k) =>
              /\ deliveries[k].status = "retrying"
              /\ Sets(k, "retrying", deliveries[k].alert)
              /\ UNCHANGED worker
  BY EnqueueSets, RequeueSets, BackoffSets
  DEF ReceiveAlert, Replay, Reconcile, BackoffPasses, Quiet, Steady, TypeInv, TypeOK, DeliveriesOK

LEMMA SettleRows ==
  ASSUME TypeInv
  PROVE  /\ CompleteDelivery =>
              /\ At("completing") /\ Sets(Key, "completed", deliveries[Key].alert)
              /\ worker'.pc = "auditing" /\ worker'.key = worker.key
         /\ RecordFailure =>
              /\ At("failing")
              /\ \E status \in {"failed", "retrying"} :
                   Sets(Key, status, deliveries[Key].alert)
              /\ worker'.pc = "auditing_failure" /\ worker'.key = worker.key
  <1>1. worker.pc \in Stages => Key \in Keys
    BY DEF TypeInv, WorkerOK
  <1>2. DeliveriesOK /\ worker \in WorkerRecord
    BY DEF TypeInv, TypeOK, DeliveriesOK
  <1>3. ASSUME CompleteDelivery
        PROVE  /\ At("completing") /\ Sets(Key, "completed", deliveries[Key].alert)
               /\ worker'.pc = "auditing" /\ worker'.key = worker.key
    <2>1. At("completing") /\ Complete(Key, Result) /\ GoTo("auditing")
      BY <1>3 DEF CompleteDelivery
    <2>2. Key \in Keys
      BY <1>1, <2>1 DEF At, Stages
    <2>3. Sets(Key, "completed", deliveries[Key].alert)
      BY <1>2, <2>1, <2>2, CompleteSets
    <2> QED BY <1>2, <2>1, <2>3, GoToFields DEF Stages
  <1>4. ASSUME RecordFailure
        PROVE  /\ At("failing")
               /\ \E status \in {"failed", "retrying"} :
                    Sets(Key, status, deliveries[Key].alert)
               /\ worker'.pc = "auditing_failure" /\ worker'.key = worker.key
    <2>1. At("failing") /\ Fail(Key) /\ GoTo("auditing_failure")
      BY <1>4 DEF RecordFailure
    <2>2. Key \in Keys
      BY <1>1, <2>1 DEF At, Stages
    <2>3. \E status \in {"failed", "retrying"} : Sets(Key, status, deliveries[Key].alert)
      BY <1>2, <2>1, <2>2, FailSets
    <2> QED BY <1>2, <2>1, <2>3, GoToFields DEF Stages
  <1> QED BY <1>3, <1>4

LEMMA NextOwner == ASSUME TypeInv, OwnerInv, [Next]_vars PROVE OwnerInv'
  <1>1. CASE Quiet
    BY <1>1, QuietOwner
  <1>2. CASE FinishStep
    <2>1. CASE CompleteDelivery \/ RecordFailure
      BY <2>1, SettleRows, SettleOwner DEF At
    <2> QED BY <1>1, <1>2, <2>1, FinishSteady DEF FinishStep, Quiet
  <1>3. CASE HandlerStep \/ \E k \in Keys : BackoffPasses(k)
    <2>1. PICK k \in Keys :
            \/ \E a \in Alerts : ReceiveAlert(k, a)
            \/ Replay(k) \/ Reconcile(k) \/ ReconcileInterrupted(k) \/ BackoffPasses(k)
      BY <1>3 DEF HandlerStep
    <2>2. CASE ReconcileInterrupted(k)
      BY <1>1, <2>2, EnvironmentQuiet
    <2>3. CASE Replay(k) \/ Reconcile(k) \/ BackoffPasses(k)
      BY <2>3, HandlerRows, HandlerOwner
    <2>4. ASSUME NEW a \in Alerts, ReceiveAlert(k, a) PROVE OwnerInv'
      BY <1>1, <2>4, HandlerRows, HandlerOwner
    <2> QED BY <2>1, <2>2, <2>3, <2>4
  <1> QED BY <1>1, <1>2, <1>3, PipelineSteady, HandoffSteady, EnvironmentQuiet, ClaimOwner,
             RestartOwner DEF Next, WorkerStep, Quiet

\* No delivery is ever stuck in "processing": the running worker holds it, or the
\* process is down and recovers it when it starts (claim_due, recover_processing).
THEOREM NothingStuck == Spec => []ProcessingIsOwned
  <1>1. Spec => [](TypeInv /\ OwnerInv)
    <2>1. Init => TypeInv /\ OwnerInv
      BY InitType, InitOwner
    <2>2. TypeInv /\ OwnerInv /\ [Next]_vars => TypeInv' /\ OwnerInv'
      BY NextType, NextOwner
    <2> QED BY <2>1, <2>2, PTL DEF Spec
  <1> QED BY <1>1, PTL DEF OwnerInv
------------------------------------------------------------------------------
(* The refinement: every step is a step of the inbox or leaves it alone.     *)

Image == [k \in Keys |-> [alert |-> deliveries[k].alert,
                          state |-> InboxState[deliveries[k].status]]]

LEMMA ImageMoves ==
  ASSUME NEW k \in Keys, NEW status, Sets(k, status, deliveries[k].alert)
  PROVE  Image' = [Image EXCEPT ![k].state = InboxState[status]]
  <1> DEFINE show(j) == [alert |-> deliveries[j].alert,
                         state |-> InboxState[deliveries[j].status]]
  <1>1. \A j \in Keys \ {k} : Image'[j] = Image[j]
    BY DEF Image, Sets
  <1>2. Image'[k] = [Image[k] EXCEPT !.state = InboxState[status]]
    BY DEF Image, Sets
  <1>3. Image = [j \in Keys |-> Image[j]] /\ Image' = [j \in Keys |-> Image'[j]]
    BY DEF Image
  <1> HIDE DEF Image
  <1> QED BY <1>1, <1>2, <1>3

LEMMA ImageAccepts ==
  ASSUME NEW k \in Keys, NEW a, Sets(k, "queued", a)
  PROVE  Image' = [Image EXCEPT ![k] = [alert |-> a, state |-> "waiting"]]
  BY StateOf DEF Image, Sets

LEMMA QuietImage == ASSUME Quiet PROVE Image' = Image
  BY DEF Image, Quiet, Steady

LEMMA NextInbox ==
  ASSUME TypeInv, OwnerInv, [Next]_vars
  PROVE  [Inbox!Next]_Image
  <1>1. CASE Quiet
    BY <1>1, QuietImage
  <1>2. ASSUME NEW k \in Keys, NEW from, NEW to, NEW status, Image[k].state = from,
               InboxState[status] = to, Sets(k, status, deliveries[k].alert)
        PROVE  Inbox!Move(k, from, to)
    BY <1>2, ImageMoves DEF Inbox!Move, Image
  <1>3. \A k \in Keys : Image[k].state = InboxState[deliveries[k].status]
    BY DEF Image
  <1>4. ASSUME NEW k \in Keys, Claim(k) PROVE Inbox!Next
    <2>1. /\ deliveries[k].status \in {"queued", "retrying"} /\ worker.pc = "idle"
          /\ Sets(k, "processing", deliveries[k].alert)
      BY <1>4, ClaimSets DEF Claim, TypeInv, TypeOK, DeliveriesOK, At
    <2>2. \A j \in Keys : deliveries[j].status \in Statuses \ {"processing"}
      BY <2>1 DEF OwnerInv, ProcessingIsOwned, At, Stages, TypeInv, TypeOK, DeliveryRow
    <2>3. Inbox!Nobody
      BY <1>3, <2>2, StateOf DEF Inbox!Nobody, Image, Statuses
    <2>4. Inbox!Move(k, "waiting", "working")
      BY <1>2, <1>3, <2>1, StateOf
    <2> QED BY <2>3, <2>4 DEF Inbox!Next, Inbox!Start
  <1>5. CASE FinishStep
    <2>1. worker.pc \in Stages => Key \in Keys
      BY DEF TypeInv, WorkerOK
    <2>2. CASE CompleteDelivery
      <3>1. Key \in Keys /\ deliveries[Key].status = "processing"
            /\ Sets(Key, "completed", deliveries[Key].alert)
        BY <2>1, <2>2, SettleRows DEF At, Stages, Carrying, OwnerInv, WorkerHolds, Working
      <3>2. Inbox!Move(Key, "working", "done")
        BY <1>2, <1>3, <3>1, StateOf
      <3> QED BY <3>1, <3>2 DEF Inbox!Next, Inbox!Finish
    <2>3. CASE RecordFailure
      <3>1. PICK status \in {"failed", "retrying"} :
              Sets(Key, status, deliveries[Key].alert)
        BY <2>3, SettleRows
      <3>2. Key \in Keys
            /\ \/ deliveries[Key].status = "processing"
               \/ deliveries[Key].status = "completed" /\ "audit" \in Faults
        BY <2>1, <2>3, SettleRows DEF At, Stages, OwnerInv, WorkerHolds, Working
      <3>3. \E from \in {"working", "done"}, to \in {"waiting", "given_up"} :
              Inbox!Move(Key, from, to) /\ (from = "done" => "audit" \in Faults)
        BY <1>2, <1>3, <3>1, <3>2, StateOf
      <3> QED BY <3>2, <3>3 DEF Inbox!Next, Inbox!PutBack, Inbox!GiveUp, Inbox!Reopen
    <2> QED BY <1>1, <1>5, <2>2, <2>3, FinishSteady DEF FinishStep, Quiet
  <1>6. ASSUME NEW k \in Keys, NEW a \in Alerts, ReceiveAlert(k, a)
        PROVE  [Inbox!Next]_Image
    <2>1. CASE deliveries[k].status = "absent" /\ Sets(k, "queued", a)
      <3>1. Image[k].state = "absent"
        BY <1>3, <2>1, StateOf
      <3>2. Inbox!Accept(k, a)
        BY <2>1, <3>1, ImageAccepts DEF Inbox!Accept, Image
      <3> QED BY <3>2 DEF Inbox!Next
    <2> QED BY <1>1, <1>6, <2>1, HandlerRows
  <1>7. ASSUME NEW k \in Keys, Replay(k) \/ Reconcile(k) PROVE Inbox!Next
    <2>1. Inbox!Move(k, "given_up", "waiting")
      BY <1>2, <1>3, <1>7, HandlerRows, StateOf
    <2> QED BY <2>1 DEF Inbox!Next, Inbox!Replay
  <1>8. ASSUME NEW k \in Keys, BackoffPasses(k) PROVE Image' = Image
    BY <1>8, HandlerRows DEF Sets, Image
  <1>9. CASE Restart
    <2>1. \A k \in Keys : IF deliveries[k].status = "processing"
            THEN deliveries'[k].status = "retrying"
                 /\ deliveries'[k].alert = deliveries[k].alert
            ELSE deliveries'[k] = deliveries[k]
      BY <1>9, RecoverSets DEF Restart, TypeInv, TypeOK, DeliveriesOK
    <2>2. CASE \A k \in Keys : ~Working(k)
      BY <2>1, <2>2 DEF Image, Working
    <2>3. ASSUME NEW k \in Keys, Working(k) PROVE Inbox!Next
      <3>1. Sets(k, "retrying", deliveries[k].alert)
        BY <2>1, <2>3 DEF Sets, Working, OwnerInv, OneWorking
      <3>2. Inbox!Move(k, "working", "waiting")
        BY <1>2, <1>3, <2>3, <3>1, StateOf DEF Working
      <3> QED BY <3>2 DEF Inbox!Next, Inbox!PutBack
    <2> QED BY <2>2, <2>3
  <1> QED BY <1>1, <1>4, <1>5, <1>6, <1>7, <1>8, <1>9, PipelineSteady, HandoffSteady,
             EnvironmentQuiet DEF Next, WorkerStep, HandlerStep, Quiet

\* The gateway implements the inbox: an accepted alert keeps its content and is never
\* lost, one is worked on at a time, only a given-up one is replayed, and a finished
\* one stays finished unless the audit file may fail (deliveries.py, worker.py, app.py).
THEOREM GatewayIsInbox == Spec => RefinesInbox
  <1>1. Init => Inbox!Init
    BY StateOf DEF Init, StoreInit, Vacant, Inbox!Init
  <1>2. TypeInv /\ OwnerInv /\ [Next]_vars => [Inbox!Next]_Image
    BY NextInbox
  <1>3. Init => TypeInv /\ OwnerInv
    BY InitType, InitOwner
  <1>4. TypeInv /\ OwnerInv /\ [Next]_vars => TypeInv' /\ OwnerInv'
    BY NextType, NextOwner
  <1> QED BY <1>1, <1>2, <1>3, <1>4, PTL DEF Spec, RefinesInbox, Inbox!Spec, Image
------------------------------------------------------------------------------
(* What a sender was told.                                                   *)

LEMMA SetsKeeps ==
  ASSUME NEW k \in Keys, NEW status, status # "absent", Sets(k, status, deliveries[k].alert)
  PROVE  KnownStays
  BY DEF Sets, KnownStays, Known

LEMMA NextKeeps == ASSUME TypeInv, OwnerInv, [Next]_vars PROVE KnownStays
  <1>1. CASE Quiet
    BY <1>1 DEF Quiet, Steady, KnownStays, Known
  <1>2. CASE FinishStep
    <2>1. CASE CompleteDelivery \/ RecordFailure
      <3>1. Key \in Keys /\ \E status \in {"completed", "failed", "retrying"} :
                              Sets(Key, status, deliveries[Key].alert)
        BY <2>1, SettleRows DEF TypeInv, WorkerOK, At, Stages
      <3> QED BY <3>1, SetsKeeps
    <2> QED BY <1>1, <1>2, <2>1, FinishSteady DEF FinishStep, Quiet
  <1>3. ASSUME NEW k \in Keys, NEW a \in Alerts, ReceiveAlert(k, a) PROVE KnownStays
    <2>1. CASE deliveries[k].status = "absent" /\ Sets(k, "queued", a)
      BY <2>1 DEF Sets, KnownStays, Known
    <2> QED BY <1>1, <1>3, <2>1, HandlerRows
  <1>4. ASSUME NEW k \in Keys, Replay(k) \/ Reconcile(k) \/ BackoffPasses(k) PROVE KnownStays
    BY <1>4, HandlerRows, SetsKeeps
  <1>5. ASSUME NEW k \in Keys, Claim(k) PROVE KnownStays
    BY <1>5, ClaimType DEF Claim, TypeInv, TypeOK, DeliveriesOK
  <1>6. CASE Restart
    BY <1>6, RecoverType DEF Restart, TypeInv, TypeOK, DeliveriesOK
  <1> QED BY <1>1, <1>2, <1>3, <1>4, <1>5, <1>6, PipelineSteady, HandoffSteady,
             EnvironmentQuiet DEF Next, WorkerStep, HandlerStep, Quiet

LEMMA NextAcked ==
  ASSUME TypeInv, OwnerInv, AckedIsDurable, [Next]_vars
  PROVE  AckedIsDurable'
  <1>1. CASE UNCHANGED acked
    BY <1>1, NextKeeps DEF AckedIsDurable, KnownStays, TypeInv, TypeOK
  <1>2. ASSUME NEW k \in Keys, NEW a \in Alerts, ReceiveAlert(k, a) PROVE AckedIsDurable'
    <2>1. Known(k)' /\ deliveries'[k].alert = a
      <3>1. CASE Enqueue(k, a)
        BY <3>1, EnqueueSets DEF Sets, Known, TypeInv, TypeOK, DeliveriesOK
      <3>2. CASE SamePayload(k, a) /\ UNCHANGED deliveries
        BY <3>2 DEF SamePayload, Known
      <3> QED BY <1>2, <3>1, <3>2 DEF ReceiveAlert
    <2>2. acked' = acked \cup {<<k, a>>} /\ KnownStays
      BY <1>2, NextKeeps DEF ReceiveAlert
    <2> QED BY <2>1, <2>2 DEF AckedIsDurable, KnownStays
  <1>3. CASE WorkerStep
    BY <1>1, <1>3
    DEF WorkerStep, Claim, PipelineStep, HandoffStep, FinishStep, EnrichmentFails,
        ReserveIncident, JoinIncident, FindNoCase, AddObservables, IncidentFails,
        ReportIncident, ReportFails, FindCase, CreateCase, Settle, OpenCase, SendHandoff,
        ResumeHandoff, SkipHandoff, ShuffleAccepts, ShuffleRefuses, HandoffAccepted,
        HandoffRefused, HandoffAmbiguous, Comment, CommentFails, Propose, CompleteDelivery,
        AuditCompletion, AuditCompletionFails, RecordFailure, AuditFailure,
        AuditFailureFails, Rest, Only
  <1>4. CASE EnvironmentStep \/ Restart \/ UNCHANGED vars
    BY <1>1, <1>4 DEF EnvironmentStep, Crash, CaseAnswerLost, OpenCase, StrayArrives,
       Restart, vars
  <1>5. ASSUME NEW k \in Keys,
               Replay(k) \/ Reconcile(k) \/ ReconcileInterrupted(k) \/ BackoffPasses(k)
        PROVE  AckedIsDurable'
    BY <1>1, <1>5 DEF Replay, Reconcile, ReconcileInterrupted, BackoffPasses
  <1> QED BY <1>2, <1>3, <1>4, <1>5 DEF Next, HandlerStep

\* What a sender was told with HTTP 202 stays stored with the payload it was told of
\* (receive_wazuh_alert answers after enqueue has committed).
THEOREM AcceptedIsKept == Spec => []AckedIsDurable
  <1>1. Init => TypeInv /\ OwnerInv /\ AckedIsDurable
    BY InitType, InitOwner DEF Init, AckedIsDurable
  <1>2. TypeInv /\ OwnerInv /\ AckedIsDurable /\ [Next]_vars
          => TypeInv' /\ OwnerInv' /\ AckedIsDurable'
    BY NextType, NextOwner, NextAcked
  <1> QED BY <1>1, <1>2, PTL DEF Spec

------------------------------------------------------------------------------
(* A completed handoff.  The worker completes the row it reserved, which is  *)
(* still pending: nobody reconciles a delivery that is being processed.      *)

TriggerPending == At("triggering") => handoffs[Key].status = "pending"

LEMMA VerdictRows ==
  ASSUME TypeInv, NEW k \in Keys, Verdict(k)
  PROVE  /\ \A t \in Keys \ {k} : handoffs'[t] = handoffs[t]
         /\ handoffs[k].status = "completed" => handoffs'[k] = handoffs[k]
  BY DEF Verdict, ReconcileRetry, ReleaseHandoff, ReconcileCompleted, CompleteHandoff,
     TypeInv, TypeOK, HandoffRow
LedgerKept == \A t \in Keys : handoffs[t].status = "completed" => handoffs'[t] = handoffs[t]

LEMMA QuietLedger ==
  ASSUME TriggerPending, UNCHANGED handoffs,
         ~At("triggering")' \/ (At("triggering") /\ worker'.key = worker.key)
  PROVE  TriggerPending' /\ LedgerKept
  BY DEF TriggerPending, LedgerKept, At, Key

LEMMA NextLedger ==
  ASSUME TypeInv, OwnerInv, TriggerPending, [Next]_vars
  PROVE  TriggerPending' /\ LedgerKept
  <1>1. At("triggering") \/ At("handing") => Key \in Keys
    BY DEF TypeInv, WorkerOK, At, Stages
  <1>2. CASE SendHandoff
    <2>1. Key \in Keys /\ ReserveHandoff(Key) /\ worker'.key = worker.key
      BY <1>1, <1>2, GoToFields DEF SendHandoff, TypeInv, TypeOK, Stages
    <2> QED BY <2>1 DEF ReserveHandoff, Reserved, TriggerPending, LedgerKept, Key, TypeInv,
                        TypeOK
  <1>3. CASE ShuffleAccepts \/ ShuffleRefuses
    BY <1>3, QuietLedger DEF ShuffleAccepts, ShuffleRefuses, storeVars, TypeInv, TypeOK,
       WorkerRecord
  <1>4. CASE HandoffAccepted
    <2>1. Key \in Keys /\ handoffs[Key].status = "pending" /\ ~At("triggering")'
          /\ CompleteHandoff(Key, worker.execution)
      BY <1>1, <1>4 DEF HandoffAccepted, At, TriggerPending, TypeInv, TypeOK, WorkerRecord
    <2> QED BY <2>1 DEF CompleteHandoff, TriggerPending, LedgerKept, TypeInv, TypeOK
  <1>5. CASE HandoffRefused
    <2>1. Key \in Keys /\ ~At("triggering")' /\ ReleaseHandoff(Key)
      BY <1>1, <1>5 DEF HandoffRefused, Raise, Resting, At
    <2> QED BY <2>1 DEF ReleaseHandoff, TriggerPending, LedgerKept, TypeInv, TypeOK
  <1>6. CASE HandoffAmbiguous \/ Crash
    BY <1>6, QuietLedger DEF HandoffAmbiguous, Crash, Raise, Resting, At, storeVars
  <1>7. ASSUME NEW k \in Keys, Reconcile(k) PROVE TriggerPending' /\ LedgerKept
    <2>1. Verdict(k) /\ UNCHANGED worker /\ deliveries[k].status = "failed"
      BY <1>7 DEF Reconcile
    <2>2. At("triggering") => Key # k
      BY <2>1 DEF OwnerInv, WorkerHolds, Working, Carrying, Stages, At
    <2> QED BY <1>1, <2>1, <2>2, VerdictRows DEF TriggerPending, LedgerKept, At, Key
  <1>8. ASSUME NEW k \in Keys, ReconcileInterrupted(k) PROVE TriggerPending' /\ LedgerKept
    <2>1. Verdict(k) /\ ~At("triggering")'
      BY <1>8 DEF ReconcileInterrupted, Resting, At
    <2> QED BY <2>1, VerdictRows DEF TriggerPending, LedgerKept
  <1>9. ASSUME NEW k \in Keys, StrayArrives(k) PROVE TriggerPending' /\ LedgerKept
    BY <1>9, QuietLedger DEF StrayArrives, storeVars, At
  <1>10. CASE UNCHANGED vars
    BY <1>10, QuietLedger DEF vars, storeVars, At
  <1>11. ASSUME UNCHANGED handoffs, ~At("triggering")' \/ UNCHANGED worker
         PROVE  TriggerPending' /\ LedgerKept
    BY <1>11, QuietLedger DEF At
  <1>12. CASE PipelineStep
    BY <1>11, <1>12, QuietSteps DEF PipelineStep
  <1>13. CASE HandoffStep
    BY <1>2, <1>3, <1>4, <1>5, <1>6, <1>11, <1>13, QuietSteps DEF HandoffStep
  <1>14. CASE FinishStep
    BY <1>11, <1>14, QuietSteps DEF FinishStep
  <1>15. CASE HandlerStep \/ \E k \in Keys : BackoffPasses(k)
    BY <1>7, <1>8, <1>11, <1>15, QuietSteps DEF HandlerStep
  <1>16. CASE EnvironmentStep \/ Restart \/ \E k \in Keys : Claim(k)
    BY <1>6, <1>9, <1>11, <1>16, QuietSteps DEF EnvironmentStep
  <1> QED BY <1>10, <1>12, <1>13, <1>14, <1>15, <1>16 DEF Next, WorkerStep

\* A completed handoff is never reopened or renamed: neither by the worker, which may be
\* awaiting Shuffle while an operator reconciles, nor by reconcile_handoff.
THEOREM HandoffsAreFinal == Spec => HandoffIsFinal
  <1>1. Init => TypeInv /\ OwnerInv /\ TriggerPending
    BY InitType, InitOwner DEF Init, Resting, TriggerPending, At
  <1>2. TypeInv /\ OwnerInv /\ TriggerPending /\ [Next]_vars
          => TypeInv' /\ OwnerInv' /\ TriggerPending' /\ [LedgerKept]_vars
    BY NextType, NextOwner, NextLedger
  <1>3. LedgerKept => \A t \in Keys : handoffs[t].status = "completed"
                                       => handoffs'[t] = handoffs[t]
    BY DEF LedgerKept
  <1> QED BY <1>1, <1>2, <1>3, PTL DEF Spec, HandoffIsFinal
------------------------------------------------------------------------------
(* The retry budget.  A crash may cost a claim that is not counted as a      *)
(* failure: `most` grows with it, and until the restart the row is below it. *)

Fits(row, most, down) ==
  /\ row.status \in {"absent", "queued"} => row.attempts = 0
  /\ row.status = "retrying" =>
       /\ row.attempts < most
       /\ row.lastError = "failure" => row.attempts < MaxAttempts
  /\ row.status = "processing" => row.attempts <= most /\ (down => row.attempts < most)
  /\ row.status = "completed" => row.attempts <= most
  /\ row.status = "failed" => MaxAttempts <= row.attempts /\ row.attempts <= most

BudgetInv == \A k \in Keys : Fits(deliveries[k], MaxAttempts + crashes, At("down"))

LEMMA NumbersOK ==
  ASSUME TypeInv
  PROVE  /\ MaxAttempts \in Nat \ {0} /\ crashes \in Nat
         /\ \A k \in Keys : /\ deliveries[k].attempts \in Nat
                            /\ deliveries[k].status \in Statuses
  BY MaxAttemptsAssumption DEF TypeInv, TypeOK, DeliveryRow

LEMMA InitBudget == Init => BudgetInv
  <1> SUFFICES ASSUME Init, NEW k \in Keys
               PROVE  Fits(deliveries[k], MaxAttempts + crashes, At("down"))
    BY DEF BudgetInv
  <1>1. deliveries[k] = Vacant
    BY DEF Init, StoreInit
  <1>2. deliveries[k].status = "absent" /\ deliveries[k].attempts = 0
    BY <1>1 DEF Vacant
  <1> QED BY <1>2 DEF Fits

\* A transaction on one row while nothing crashes.
LEMMA WriteBudget ==
  ASSUME BudgetInv, NEW k \in Keys, NEW status, NEW alert, Sets(k, status, alert),
         UNCHANGED crashes, At("down")' => At("down"),
         Fits(deliveries'[k], MaxAttempts + crashes, At("down")')
  PROVE  BudgetInv'
  <1>1. \A j \in Keys \ {k} : deliveries'[j] = deliveries[j]
    BY DEF Sets
  <1>2. \A j \in Keys \ {k} : Fits(deliveries[j], MaxAttempts + crashes, At("down")')
    BY DEF BudgetInv, Fits
  <1> QED BY <1>1, <1>2 DEF BudgetInv

LEMMA SteadyBudget ==
  ASSUME TypeInv, BudgetInv, UNCHANGED deliveries,
         \/ UNCHANGED crashes /\ (At("down")' => At("down"))
         \/ crashes' = crashes + 1
  PROVE  BudgetInv'
  <1>1. ASSUME NEW k \in Keys
        PROVE  Fits(deliveries[k], MaxAttempts + crashes', At("down")')
    <2>1. Fits(deliveries[k], MaxAttempts + crashes, At("down"))
      BY DEF BudgetInv
    <2> QED BY <2>1, NumbersOK DEF Fits
  <1> QED BY <1>1 DEF BudgetInv

LEMMA NextBudget == ASSUME TypeInv, OwnerInv, BudgetInv, [Next]_vars PROVE BudgetInv'
  <1> DEFINE most == MaxAttempts + crashes
  <1>1. \A k \in Keys : Fits(deliveries[k], most, At("down"))
    BY DEF BudgetInv
  <1>2. CASE Steady /\ UNCHANGED crashes
    BY <1>2, SteadyBudget DEF Steady, Carries, Leaves, Carrying, Stages, At
  <1>3. CASE PipelineStep \/ HandoffStep
    <2>1. UNCHANGED crashes
      BY <1>3 DEF PipelineStep, HandoffStep, EnrichmentFails, ReserveIncident, JoinIncident,
         FindNoCase, AddObservables, IncidentFails, ReportIncident, ReportFails, FindCase,
         CreateCase, Settle, OpenCase, SendHandoff, ResumeHandoff, SkipHandoff,
         ShuffleAccepts, ShuffleRefuses, HandoffAccepted, HandoffRefused, HandoffAmbiguous,
         Only, bounds
    <2> QED BY <1>2, <1>3, <2>1, PipelineSteady, HandoffSteady
  <1>4. CASE FinishStep
    <2>1. UNCHANGED crashes
      BY <1>4 DEF FinishStep, Comment, CommentFails, Propose, CompleteDelivery,
         AuditCompletion, AuditCompletionFails, RecordFailure, AuditFailure,
         AuditFailureFails, Rest, Only, bounds
    <2>2. DeliveriesOK /\ (worker.pc \in Stages => Key \in Keys)
      BY DEF TypeInv, TypeOK, DeliveriesOK, WorkerOK
    <2>3. CASE CompleteDelivery
      <3>1. /\ Complete(Key, Result) /\ Key \in Keys /\ deliveries[Key].status = "processing"
            /\ ~At("down")'
        BY <2>2, <2>3, SettleRows
        DEF CompleteDelivery, At, Stages, Carrying, OwnerInv, WorkerHolds, Working
      <3>2. Sets(Key, "completed", deliveries[Key].alert)
            /\ Counts(Key, deliveries[Key].attempts, "none")
        BY <2>2, <3>1, CompleteSets
      <3>3. Fits(deliveries'[Key], most, At("down")')
        BY <1>1, <3>1, <3>2 DEF Fits, Sets, Counts
      <3> QED BY <2>1, <3>1, <3>2, <3>3, WriteBudget
    <2>4. CASE RecordFailure
      <3>1. /\ Fail(Key) /\ Key \in Keys /\ ~At("down")'
            /\ deliveries[Key].status \in {"processing", "completed"}
        BY <2>2, <2>4, SettleRows
        DEF RecordFailure, At, Stages, Carrying, OwnerInv, WorkerHolds, Working
      <3>2. PICK status \in {"failed", "retrying"} :
              /\ Sets(Key, status, deliveries[Key].alert)
              /\ Counts(Key, deliveries[Key].attempts, "failure")
              /\ status = "failed" <=> Exhausted(Key)
        BY <2>2, <3>1, FailSets
      <3>3. deliveries[Key].attempts <= most
        BY <1>1, <3>1 DEF Fits
      <3>4. Fits(deliveries'[Key], most, At("down")')
        BY <3>1, <3>2, <3>3, NumbersOK DEF Fits, Sets, Counts, Exhausted
      <3> QED BY <2>1, <3>1, <3>2, <3>4, WriteBudget
    <2> QED BY <1>2, <1>4, <2>1, <2>3, <2>4, FinishSteady DEF FinishStep
  <1>5. ASSUME NEW k \in Keys, Claim(k) PROVE BudgetInv'
    <2>1. /\ deliveries[k].status \in {"queued", "retrying"}
          /\ Sets(k, "processing", deliveries[k].alert)
          /\ Counts(k, deliveries[k].attempts + 1, deliveries[k].lastError)
      BY <1>5, ClaimSets DEF Claim, TypeInv, TypeOK, DeliveriesOK
    <2>2. UNCHANGED crashes /\ ~At("down")'
      BY <1>5 DEF Claim, Resting, At, bounds
    <2>3. Fits(deliveries'[k], most, At("down")')
      BY <1>1, <2>1, <2>2, NumbersOK DEF Fits, Sets, Counts
    <2> QED BY <2>1, <2>2, <2>3, WriteBudget
  <1>6. ASSUME NEW k \in Keys,
               \/ \E a \in Alerts : ReceiveAlert(k, a)
               \/ Replay(k) \/ Reconcile(k) \/ BackoffPasses(k)
        PROVE  BudgetInv'
    <2>1. UNCHANGED <<crashes, worker>> /\ DeliveriesOK
      BY <1>6 DEF ReceiveAlert, Replay, Reconcile, BackoffPasses, bounds, TypeInv, TypeOK,
         DeliveriesOK
    <2>2. CASE UNCHANGED deliveries
      BY <2>1, <2>2, SteadyBudget DEF At
    <2>3. ASSUME NEW alert, Sets(k, "queued", alert), Counts(k, 0, "none") PROVE BudgetInv'
      <3>1. Fits(deliveries'[k], most, At("down")')
        BY <2>3, NumbersOK DEF Fits, Sets, Counts
      <3> QED BY <2>1, <2>3, <3>1, WriteBudget DEF At
    <2>4. ASSUME NEW a \in Alerts, ReceiveAlert(k, a) PROVE BudgetInv'
      BY <2>1, <2>2, <2>3, <2>4, EnqueueSets DEF ReceiveAlert
    <2>5. CASE Replay(k) \/ Reconcile(k)
      BY <2>1, <2>3, <2>5, RequeueSets DEF Replay, Reconcile
    <2>6. CASE BackoffPasses(k)
      <3>1. /\ deliveries[k].status = "retrying" /\ Sets(k, "retrying", deliveries[k].alert)
            /\ Counts(k, deliveries[k].attempts, deliveries[k].lastError)
        BY <2>1, <2>6, BackoffSets DEF BackoffPasses
      <3>2. Fits(deliveries'[k], most, At("down")')
        BY <1>1, <3>1 DEF Fits, Sets, Counts
      <3> QED BY <2>1, <3>1, <3>2, WriteBudget DEF At
    <2> QED BY <1>6, <2>4, <2>5, <2>6
  <1>7. CASE Restart
    <2>1. UNCHANGED crashes /\ ~At("down")' /\ At("down")
      BY <1>7, RestFields DEF Restart, Die, At, bounds
    <2>2. \A k \in Keys : IF deliveries[k].status = "processing"
            THEN deliveries'[k].status = "retrying"
                 /\ Counts(k, deliveries[k].attempts, "worker_restart")
            ELSE deliveries'[k] = deliveries[k]
      BY <1>7, RecoverSets DEF Restart, TypeInv, TypeOK, DeliveriesOK
    <2>3. \A k \in Keys : Fits(deliveries'[k], most, At("down")')
      BY <1>1, <2>1, <2>2 DEF Fits, Counts
    <2> QED BY <2>1, <2>3 DEF BudgetInv
  <1>8. CASE EnvironmentStep \/ UNCHANGED vars \/ \E k \in Keys : ReconcileInterrupted(k)
    BY <1>8, SteadyBudget DEF EnvironmentStep, Crash, CaseAnswerLost, OpenCase, StrayArrives,
       ReconcileInterrupted, vars, storeVars, bounds, At
  <1> QED BY <1>3, <1>4, <1>5, <1>6, <1>7, <1>8 DEF Next, WorkerStep, HandlerStep

\* The retry budget: a failure schedules a retry only below max_attempts, a delivery is
\* given up only at it, and only crashes add claims beyond it (fail, recover_processing).
THEOREM BudgetKept == Spec => []RetryBudget
  <1>1. Spec => [](TypeInv /\ OwnerInv /\ BudgetInv)
    <2>1. Init => TypeInv /\ OwnerInv /\ BudgetInv
      BY InitType, InitOwner, InitBudget
    <2>2. TypeInv /\ OwnerInv /\ BudgetInv /\ [Next]_vars
            => TypeInv' /\ OwnerInv' /\ BudgetInv'
      BY NextType, NextOwner, NextBudget
    <2> QED BY <2>1, <2>2, PTL DEF Spec
  <1>2. TypeInv /\ BudgetInv => RetryBudget
    <2> SUFFICES ASSUME TypeInv, BudgetInv, NEW k \in Keys
                 PROVE  LET row == deliveries[k] IN
                        /\ row.status = "retrying" /\ row.lastError = "failure"
                             => row.attempts < MaxAttempts
                        /\ row.status = "failed" => row.attempts >= MaxAttempts
                        /\ row.attempts <= MaxAttempts + crashes
      BY DEF RetryBudget
    <2>1. Fits(deliveries[k], MaxAttempts + crashes, At("down"))
      BY DEF BudgetInv
    <2> QED BY <2>1, NumbersOK DEF Fits, Statuses
  <1> QED BY <1>1, <1>2, PTL
==============================================================================
