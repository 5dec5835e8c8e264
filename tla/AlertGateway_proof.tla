------------------------- MODULE AlertGateway_proof -------------------------
(***************************************************************************)
(* Theorems about AlertGateway, for every value of its constants.          *)
(***************************************************************************)
EXTENDS AlertGateway, TLAPS

\* The stages at which process_once has the pipeline's result.
Decided == {"found", "reporting", "handing", "triggering", "commenting", "proposing",
            "completing"}

RowsOK == \A k \in Keys : Known(k) => deliveries[k].alert \in Alerts

\* What the worker holds is a stored delivery and, later, a pipeline result.
WorkerOK ==
  /\ worker.pc \in Stages => Key \in Keys /\ Known(Key)
  /\ worker.pc \in Decided => worker.disposition \in Dispositions
  /\ At("observing") => worker.case \in CaseIds

TypeInv == TypeOK /\ RowsOK /\ WorkerOK

LEMMA InitType == Init => TypeInv
  BY NullAssumption, AlertAssumption
  DEF Init, StoreInit, LedgerInit, IncidentInit, Vacant, NoRow, NoIncident, Resting,
      TypeInv, TypeOK, RowsOK, WorkerOK, Statuses, Errors, Known, Stages, Decided, At, Results,
      DeliveryRow, HandoffRow, IncidentRow, WorkerRecord, CaseRecord

\* The transactions of the store keep the type of the table.
DeliveriesOK == deliveries \in [Keys -> DeliveryRow] /\ RowsOK
KnownStays == \A j \in Keys : Known(j) => Known(j)' /\ deliveries'[j].alert = deliveries[j].alert

LEMMA WriteType ==
  ASSUME DeliveriesOK, NEW k \in Keys, NEW row \in DeliveryRow, row.status # "absent",
         row.alert \in Alerts, Known(k) => row.alert = deliveries[k].alert, Write(k, row)
  PROVE  DeliveriesOK' /\ KnownStays /\ Known(k)'
  BY DEF DeliveriesOK, RowsOK, KnownStays, Known, Write

LEMMA EnqueueType ==
  ASSUME DeliveriesOK, NEW k \in Keys, NEW a \in Alerts, Enqueue(k, a)
  PROVE  DeliveriesOK' /\ KnownStays /\ Known(k)'
  <1> DEFINE before == {j \in Keys : Known(j)}
  <1> DEFINE row == [Vacant EXCEPT !.status = "queued", !.alert = a, !.due = TRUE,
                                   !.older = before]
  <1>1. ~Known(k) /\ Write(k, row)
    BY DEF Enqueue
  <1>2. before \in SUBSET Keys
    OBVIOUS
  <1> HIDE DEF before
  <1>3. row \in DeliveryRow /\ row.status # "absent" /\ row.alert = a
    BY <1>2 DEF Vacant, DeliveryRow, Statuses, Errors
  <1> HIDE DEF row
  <1> QED BY <1>1, <1>3, WriteType

LEMMA ClaimType ==
  ASSUME DeliveriesOK, NEW k \in Keys, ClaimDue(k)
  PROVE  DeliveriesOK' /\ KnownStays /\ Known(k)'
  <1> DEFINE d == deliveries[k]
  <1> DEFINE n == d.attempts + 1
  <1> DEFINE row == [d EXCEPT !.status = "processing", !.attempts = n]
  <1>1. Known(k) /\ Write(k, row)
    BY DEF ClaimDue, Claimable, Known
  <1>2. d \in DeliveryRow /\ d.alert \in Alerts /\ d.attempts \in Nat
    BY <1>1 DEF DeliveriesOK, RowsOK, DeliveryRow
  <1>3. n \in Nat
    BY <1>2
  <1> HIDE DEF n
  <1> HIDE DEF d
  <1>4. row \in DeliveryRow /\ row.status # "absent" /\ row.alert = d.alert
    BY <1>1, <1>2, <1>3 DEF DeliveryRow, Statuses, Errors
  <1> USE DEF d
  <1> HIDE DEF row
  <1> QED BY <1>1, <1>2, <1>4, WriteType

LEMMA CompleteType ==
  ASSUME DeliveriesOK, NEW k \in Keys, Known(k), NEW r \in Results, Complete(k, r)
  PROVE  DeliveriesOK' /\ KnownStays /\ Known(k)'
  <1> DEFINE d == deliveries[k]
  <1> DEFINE row == [d EXCEPT !.status = "completed", !.result = r,
                              !.lastError = "none", !.due = TRUE]
  <1>1. Known(k) /\ Write(k, row)
    BY DEF Complete
  <1>2. d \in DeliveryRow /\ d.alert \in Alerts /\ d.attempts \in Nat
    BY <1>1 DEF DeliveriesOK, RowsOK, DeliveryRow
  <1> HIDE DEF d
  <1>4. row \in DeliveryRow /\ row.status # "absent" /\ row.alert = d.alert
    BY <1>1, <1>2 DEF DeliveryRow, Statuses, Errors
  <1> USE DEF d
  <1> HIDE DEF row
  <1> QED BY <1>1, <1>2, <1>4, WriteType

LEMMA FailType ==
  ASSUME DeliveriesOK, NEW k \in Keys, Known(k), Fail(k)
  PROVE  DeliveriesOK' /\ KnownStays /\ Known(k)'
  <1> DEFINE d == deliveries[k]
  <1> DEFINE due == Exhausted(k)
  <1> DEFINE status == IF due THEN "failed" ELSE "retrying"
  <1> DEFINE row == [d EXCEPT !.status = status, !.due = due, !.lastError = "failure"]
  <1>1. Known(k) /\ Write(k, row)
    BY DEF Fail
  <1>2. d \in DeliveryRow /\ d.alert \in Alerts /\ d.attempts \in Nat
    BY <1>1 DEF DeliveriesOK, RowsOK, DeliveryRow
  <1>3. due \in BOOLEAN /\ status \in {"failed", "retrying"}
    BY DEF Exhausted
  <1> HIDE DEF due, status
  <1> HIDE DEF d
  <1>4. row \in DeliveryRow /\ row.status # "absent" /\ row.alert = d.alert
    BY <1>1, <1>2, <1>3 DEF DeliveryRow, Statuses, Errors
  <1> USE DEF d
  <1> HIDE DEF row
  <1> QED BY <1>1, <1>2, <1>4, WriteType

LEMMA RequeueType ==
  ASSUME DeliveriesOK, NEW k \in Keys, Requeue(k)
  PROVE  DeliveriesOK' /\ KnownStays /\ Known(k)'
  <1> DEFINE d == deliveries[k]
  <1> DEFINE row == [d EXCEPT !.status = "queued", !.attempts = 0, !.due = TRUE,
                              !.lastError = "none"]
  <1>1. Known(k) /\ Write(k, row)
    BY DEF Requeue, Known
  <1>2. d \in DeliveryRow /\ d.alert \in Alerts /\ d.attempts \in Nat
    BY <1>1 DEF DeliveriesOK, RowsOK, DeliveryRow
  <1> HIDE DEF d
  <1>4. row \in DeliveryRow /\ row.status # "absent" /\ row.alert = d.alert
    BY <1>1, <1>2 DEF DeliveryRow, Statuses, Errors
  <1> USE DEF d
  <1> HIDE DEF row
  <1> QED BY <1>1, <1>2, <1>4, WriteType

LEMMA BackoffType ==
  ASSUME DeliveriesOK, NEW k \in Keys, BackoffElapses(k)
  PROVE  DeliveriesOK' /\ KnownStays /\ Known(k)'
  <1> DEFINE d == deliveries[k]
  <1> DEFINE row == [d EXCEPT !.due = TRUE]
  <1>1. Known(k) /\ Write(k, row)
    BY DEF BackoffElapses, Known
  <1>2. d.status # "absent" /\ d \in DeliveryRow /\ d.alert \in Alerts /\ d.attempts \in Nat
    BY <1>1 DEF DeliveriesOK, RowsOK, DeliveryRow, Known
  <1> HIDE DEF d
  <1>4. row \in DeliveryRow /\ row.status # "absent" /\ row.alert = d.alert
    BY <1>1, <1>2 DEF DeliveryRow, Statuses, Errors
  <1> USE DEF d
  <1> HIDE DEF row
  <1> QED BY <1>1, <1>2, <1>4, WriteType

LEMMA RecoverType ==
  ASSUME DeliveriesOK, RecoverProcessing
  PROVE  DeliveriesOK' /\ KnownStays
  <1> DEFINE row(d) == [d EXCEPT !.status = "retrying", !.due = TRUE,
                                 !.lastError = "worker_restart"]
  <1>1. \A d \in DeliveryRow : /\ row(d) \in DeliveryRow /\ row(d).status = "retrying"
                               /\ row(d).alert = d.alert
    BY DEF DeliveryRow, Statuses, Errors
  <1>2. deliveries' = [k \in Keys |-> IF deliveries[k].status = "processing"
                                      THEN row(deliveries[k]) ELSE deliveries[k]]
    BY DEF RecoverProcessing
  <1> HIDE DEF row
  <1> QED BY <1>1, <1>2 DEF DeliveriesOK, RowsOK, KnownStays, Known

\* What the worker's local steps do to its record.
LEMMA GoToFields ==
  ASSUME worker \in WorkerRecord, NEW stage \in Stages, GoTo(stage)
  PROVE  /\ worker' \in WorkerRecord /\ worker'.pc = stage
         /\ worker'.key = worker.key /\ worker'.disposition = worker.disposition
         /\ worker'.case = worker.case /\ worker'.execution = worker.execution
         /\ worker'.answer = worker.answer
  BY DEF WorkerRecord, GoTo

LEMMA RaiseFields ==
  ASSUME worker \in WorkerRecord, Raise
  PROVE  /\ worker' \in WorkerRecord /\ worker'.pc = "failing" /\ worker'.key = worker.key
         /\ worker'.case = NoCase /\ worker'.execution = 0 /\ worker'.answer = "none"
  BY DEF WorkerRecord, Raise, Resting, Stages, Key

LEMMA RestFields ==
  /\ Resting \in WorkerRecord /\ Resting.pc = "idle"
  /\ \A stage \in {"down", "dead"} :
       /\ [Resting EXCEPT !.pc = stage] \in WorkerRecord
       /\ [Resting EXCEPT !.pc = stage].pc = stage
  BY DEF WorkerRecord, Resting

\* Everything but the worker keeps its type when it does not change.
OthersSame == UNCHANGED <<storeVars, hiveVars, shuffleVars, acked, grants, bounds>>

LEMMA OnlyType ==
  ASSUME TypeInv, OthersSame, worker' \in WorkerRecord, WorkerOK'
  PROVE  TypeInv'
  BY DEF TypeInv, TypeOK, RowsOK, Known, OthersSame, storeVars, hiveVars, shuffleVars, bounds

\* A worker step that keeps the delivery and reaches an undemanding stage.
LEMMA PlainMove ==
  ASSUME WorkerOK, worker.pc \in Stages, worker'.key = worker.key, KnownStays,
         \/ worker'.pc \notin Decided \cup {"observing"}
         \/ worker'.pc \in Decided /\ worker'.disposition \in Dispositions
         \/ worker'.pc = "observing" /\ worker'.case \in CaseIds
  PROVE  WorkerOK'
  BY DEF WorkerOK, Decided, Stages, At, Key, KnownStays, Known

LEMMA Idle ==
  ASSUME worker'.pc \in {"idle", "down", "dead"} PROVE WorkerOK'
  BY DEF WorkerOK, Decided, Stages, At

------------------------------------------------------------------------------
(* Every action keeps TypeInv.                                               *)

\* The steps that only move the worker along.
LEMMA MoveType ==
  ASSUME TypeInv, NEW stage \in Stages, worker.pc \in Stages, Only(GoTo(stage)),
         stage \in Decided => worker.disposition \in Dispositions, stage # "observing"
  PROVE  TypeInv'
  <1>1. OthersSame /\ GoTo(stage) /\ KnownStays
    BY DEF Only, OthersSame, KnownStays, Known, storeVars
  <1>2. /\ worker' \in WorkerRecord /\ worker'.pc = stage /\ worker'.key = worker.key
        /\ worker'.disposition = worker.disposition
    BY <1>1, GoToFields DEF TypeInv, TypeOK
  <1>3. WorkerOK'
    BY <1>1, <1>2, PlainMove DEF TypeInv
  <1> QED BY <1>1, <1>2, <1>3, OnlyType

LEMMA RaiseType ==
  ASSUME TypeInv, worker.pc \in Stages, Only(Raise)
  PROVE  TypeInv'
  <1>1. OthersSame /\ Raise /\ KnownStays
    BY DEF Only, OthersSame, KnownStays, Known, storeVars
  <1>2. worker' \in WorkerRecord /\ worker'.pc = "failing" /\ worker'.key = worker.key
    BY <1>1, RaiseFields DEF TypeInv, TypeOK
  <1>3. WorkerOK'
    BY <1>1, <1>2, PlainMove DEF TypeInv, Decided
  <1> QED BY <1>1, <1>2, <1>3, OnlyType

LEMMA StopType ==
  ASSUME TypeInv, \/ Only(worker' = Resting)
                  \/ Only(Die)
  PROVE  TypeInv'
  <1>1. OthersSame
    BY DEF Only, OthersSame
  <1>2. worker' \in WorkerRecord /\ worker'.pc \in {"idle", "dead"}
    BY RestFields DEF Only, Die
  <1>3. WorkerOK'
    BY <1>2, Idle
  <1> QED BY <1>1, <1>2, <1>3, OnlyType

LEMMA LocalStepType ==
  ASSUME TypeInv,
         \/ EnrichmentFails \/ JoinIncident \/ FindNoCase \/ ReportIncident \/ ReportFails
         \/ ResumeHandoff \/ SkipHandoff \/ AuditCompletion \/ AuditCompletionFails
         \/ AuditFailure \/ AuditFailureFails
  PROVE  TypeInv'
  <1> USE DEF At, Stages, Decided
  <1>1. CASE EnrichmentFails
    BY <1>1, RaiseType DEF EnrichmentFails
  <1>2. CASE JoinIncident
    <2> DEFINE case == incidents[Tag].case
    <2> DEFINE disposition == IF case = NoCase THEN "pending" ELSE "reused"
    <2>1. worker.pc = "enriching" /\ OthersSame /\ KnownStays
          /\ worker' = [worker EXCEPT !.pc = "reporting", !.case = case,
                                      !.disposition = disposition]
      BY <1>2 DEF JoinIncident, Only, OthersSame, KnownStays, Known, storeVars
    <2>2. Key \in Keys /\ deliveries[Key].alert \in Alerts
      BY <2>1 DEF TypeInv, WorkerOK, RowsOK
    <2>3. case \in CaseIds \cup {NoCase} /\ disposition \in Dispositions
      BY <2>2, AlertAssumption DEF TypeInv, TypeOK, IncidentRow, Tag, Alert, Dispositions
    <2> HIDE DEF case, disposition
    <2>4. /\ worker' \in WorkerRecord /\ worker'.pc = "reporting" /\ worker'.key = worker.key
          /\ worker'.disposition \in Dispositions
      BY <2>1, <2>3 DEF TypeInv, TypeOK, WorkerRecord
    <2>5. WorkerOK'
      BY <2>1, <2>4, PlainMove DEF TypeInv
    <2> QED BY <2>1, <2>4, <2>5, OnlyType
  <1>3. CASE FindNoCase
    BY <1>3, MoveType DEF FindNoCase
  <1>4. CASE ReportIncident
    BY <1>4, MoveType DEF ReportIncident, TypeInv, WorkerOK
  <1>5. CASE ReportFails
    BY <1>5, RaiseType DEF ReportFails
  <1>6. CASE ResumeHandoff
    <2> DEFINE prior == handoffs[Key].execution
    <2>1. worker.pc = "handing" /\ Key \in Keys /\ prior \in Nat
          /\ worker.disposition \in Dispositions
      BY <1>6 DEF ResumeHandoff, TypeInv, TypeOK, WorkerOK, HandoffRow
    <2>2. CASE Only(Raise)
      BY <2>1, <2>2, RaiseType
    <2>3. CASE Only(worker' = [worker EXCEPT !.pc = "commenting", !.execution = prior])
      <3>1. OthersSame /\ KnownStays
            /\ worker' = [worker EXCEPT !.pc = "commenting", !.execution = prior]
        BY <2>3 DEF Only, OthersSame, KnownStays, Known, storeVars
      <3> HIDE DEF prior
      <3>2. /\ worker' \in WorkerRecord /\ worker'.pc = "commenting"
            /\ worker'.key = worker.key /\ worker'.disposition = worker.disposition
        BY <3>1, <2>1 DEF TypeInv, TypeOK, WorkerRecord
      <3>3. WorkerOK'
        BY <2>1, <3>1, <3>2, PlainMove DEF TypeInv
      <3> QED BY <3>1, <3>2, <3>3, OnlyType
    <2> QED BY <1>6, <2>2, <2>3 DEF ResumeHandoff
  <1>7. CASE SkipHandoff
    BY <1>7, MoveType DEF SkipHandoff, TypeInv, WorkerOK
  <1>8. CASE AuditCompletion
    BY <1>8, StopType DEF AuditCompletion, Rest
  <1>9. CASE AuditCompletionFails
    BY <1>9, RaiseType DEF AuditCompletionFails
  <1>10. CASE AuditFailure
    BY <1>10, StopType DEF AuditFailure, Rest
  <1>11. CASE AuditFailureFails
    BY <1>11, StopType DEF AuditFailureFails
  <1> QED BY <1>1, <1>2, <1>3, <1>4, <1>5, <1>6, <1>7, <1>8, <1>9, <1>10, <1>11

\* The steps that move the worker along and change a table or a service too.
Moves(stage) == worker.pc \in Stages /\ worker'.pc = stage /\ worker'.key = worker.key

LEMMA IncidentStepType ==
  ASSUME TypeInv,
         \/ ReserveIncident \/ AddObservables \/ IncidentFails
         \/ \E c \in CaseIds : FindCase(c) \/ CreateCase(c) \/ CaseAnswerLost(c)
  PROVE  TypeInv'
  <1>1. UNCHANGED <<deliveries, handoffs, proposals, notes, shuffleVars, acked, grants, bounds>>
    BY DEF ReserveIncident, AddObservables, IncidentFails, FindCase, CreateCase,
           CaseAnswerLost, Settle, OpenCase, storeVars, hiveVars
  <1>2. KnownStays
    BY <1>1 DEF KnownStays, Known
  <1>3. worker.pc \in {"enriching", "finding", "found", "creating", "observing"}
    BY DEF ReserveIncident, AddObservables, IncidentFails, FindCase, CreateCase,
           CaseAnswerLost, OpenCase, At
  <1>4. Key \in Keys /\ Alert \in Alerts /\ Tag \in Fingerprints
    BY <1>3, AlertAssumption DEF TypeInv, RowsOK, WorkerOK, Stages, Alert, Tag
  <1>5. (At("observing") => worker.case \in CaseIds) /\ worker.pc \in Stages
    BY <1>3 DEF TypeInv, WorkerOK, Stages
  <1>6. /\ incidents' \in [Fingerprints -> IncidentRow]
        /\ cases' \in [CaseIds -> CaseRecord]
        /\ worker' \in WorkerRecord /\ WorkerOK'
    <2>1. CASE ReserveIncident
      <3>1. worker' \in WorkerRecord /\ worker'.pc = "finding" /\ worker'.key = worker.key
        BY <2>1, GoToFields DEF ReserveIncident, TypeInv, TypeOK, Stages
      <3>2. WorkerOK'
        BY <1>2, <1>5, <3>1, PlainMove DEF TypeInv, Decided
      <3> QED BY <2>1, <3>1, <3>2 DEF ReserveIncident, Reserve, TypeInv, TypeOK,
                                      IncidentRow, hiveVars
    <2>2. ASSUME NEW c \in CaseIds, NEW disposition \in Dispositions,
                 NEW stage \in {"found", "reporting"}, Settle(c, disposition, stage)
          PROVE  /\ incidents' \in [Fingerprints -> IncidentRow]
                 /\ worker' \in WorkerRecord /\ WorkerOK'
      <3>1. incidents' \in [Fingerprints -> IncidentRow]
        BY <2>2 DEF Settle, CompleteIncident, TypeInv, TypeOK, IncidentRow
      <3>2. worker' = [worker EXCEPT !.pc = stage, !.case = c, !.disposition = disposition]
        BY <2>2 DEF Settle
      <3>3. /\ worker' \in WorkerRecord /\ worker'.pc = stage /\ worker'.key = worker.key
            /\ worker'.disposition = disposition
        BY <3>2 DEF TypeInv, TypeOK, WorkerRecord, Stages
      <3>4. WorkerOK'
        BY <1>2, <1>5, <3>3, PlainMove DEF TypeInv, Decided
      <3> QED BY <3>1, <3>3, <3>4
    <2>3. CASE AddObservables
      <3>1. Settle(worker.case, "created", "reporting") /\ worker.case \in CaseIds
        BY <1>5, <2>3 DEF AddObservables
      <3>2. cases' \in [CaseIds -> CaseRecord]
        BY <2>3 DEF AddObservables, TypeInv, TypeOK, CaseRecord
      <3> QED BY <2>2, <3>1, <3>2 DEF Dispositions
    <2>4. CASE IncidentFails
      <3>1. worker' \in WorkerRecord /\ worker'.pc = "failing" /\ worker'.key = worker.key
        BY <2>4, RaiseFields DEF IncidentFails, TypeInv, TypeOK
      <3>2. WorkerOK'
        BY <1>2, <1>5, <3>1, PlainMove DEF TypeInv, Decided
      <3>3. incidents' \in [Fingerprints -> IncidentRow] /\ UNCHANGED cases
        BY <2>4 DEF IncidentFails, Release, NoIncident, TypeInv, TypeOK, IncidentRow, hiveVars
      <3> QED BY <3>1, <3>2, <3>3 DEF TypeInv, TypeOK
    <2>5. ASSUME NEW c \in CaseIds, FindCase(c)
          PROVE  /\ incidents' \in [Fingerprints -> IncidentRow]
                 /\ cases' \in [CaseIds -> CaseRecord]
                 /\ worker' \in WorkerRecord /\ WorkerOK'
      BY <2>2, <2>5 DEF FindCase, Dispositions, TypeInv, TypeOK
    <2>6. ASSUME NEW c \in CaseIds, OpenCase(c)
          PROVE  UNCHANGED incidents /\ cases' \in [CaseIds -> CaseRecord]
      BY <1>4, <2>6 DEF OpenCase, storeVars, TypeInv, TypeOK, CaseRecord
    <2>7. ASSUME NEW c \in CaseIds, CreateCase(c)
          PROVE  worker' \in WorkerRecord /\ WorkerOK'
      <3>1. worker' = [worker EXCEPT !.pc = "observing", !.case = c]
        BY <2>7 DEF CreateCase
      <3>2. /\ worker' \in WorkerRecord /\ worker'.pc = "observing"
            /\ worker'.key = worker.key /\ worker'.case = c
        BY <3>1 DEF TypeInv, TypeOK, WorkerRecord, Stages
      <3> QED BY <1>2, <1>5, <3>2, PlainMove DEF TypeInv
    <2>8. ASSUME NEW c \in CaseIds, CaseAnswerLost(c)
          PROVE  worker' \in WorkerRecord /\ WorkerOK'
      BY <1>1, <2>8 DEF CaseAnswerLost, TypeInv, TypeOK, WorkerOK, Known, At, Key
    <2> QED BY <2>1, <2>3, <2>4, <2>5, <2>6, <2>7, <2>8
            DEF CreateCase, CaseAnswerLost, TypeInv, TypeOK
  <1> QED BY <1>1, <1>2, <1>6 DEF TypeInv, TypeOK, RowsOK, Known, shuffleVars, bounds

LEMMA AnswerFields ==
  ASSUME worker \in WorkerRecord, NEW x \in {"accepted", "refused"}, NEW e \in Nat,
         worker' = [worker EXCEPT !.answer = x, !.execution = e]
  PROVE  /\ worker' \in WorkerRecord /\ worker'.pc = worker.pc /\ worker'.key = worker.key
         /\ worker'.disposition = worker.disposition /\ worker'.answer = x
         /\ worker'.case = worker.case /\ worker'.execution = e
  BY DEF WorkerRecord

LEMMA LedgerType ==
  ASSUME handoffs \in [Keys -> HandoffRow], NEW t \in Keys, NEW e \in Nat,
         \/ ReserveHandoff(t) \/ CompleteHandoff(t, e) \/ ReleaseHandoff(t)
         \/ ReconcileRetry(t) \/ ReconcileCompleted(t, e)
  PROVE  handoffs' \in [Keys -> HandoffRow]
  BY DEF HandoffRow, ReserveHandoff, CompleteHandoff, ReleaseHandoff, ReconcileRetry,
         ReconcileCompleted, NoRow

LEMMA StrayType ==
  ASSUME stray \in [Keys -> Nat],
         stray' = [t \in Keys |-> IF Awaiting(t) THEN stray[t] + 1 ELSE stray[t]]
  PROVE  stray' \in [Keys -> Nat]
  OBVIOUS

LEMMA HandoffStepType ==
  ASSUME TypeInv,
         \/ SendHandoff \/ ShuffleAccepts \/ ShuffleRefuses
         \/ HandoffAccepted \/ HandoffRefused \/ HandoffAmbiguous
  PROVE  TypeInv'
  <1>1. UNCHANGED <<deliveries, incidents, proposals, hiveVars, acked, grants, bounds>>
    BY DEF SendHandoff, ShuffleAccepts, ShuffleRefuses, HandoffAccepted, HandoffRefused,
           HandoffAmbiguous, storeVars
  <1>2. KnownStays
    BY <1>1 DEF KnownStays, Known
  <1>3. worker.pc \in {"handing", "triggering"}
    BY DEF SendHandoff, ShuffleAccepts, ShuffleRefuses, HandoffAccepted, HandoffRefused,
           HandoffAmbiguous, At
  <1>4. Key \in Keys /\ worker.disposition \in Dispositions /\ worker.pc \in Stages
    BY <1>3 DEF TypeInv, WorkerOK, Stages, Decided
  <1>5. worker.execution \in Nat /\ runs[Key] + 1 \in Nat
    BY <1>4 DEF TypeInv, TypeOK, WorkerRecord
  <1>6. /\ handoffs' \in [Keys -> HandoffRow]
        /\ runs' \in [Keys -> Nat] /\ stray' \in [Keys -> Nat]
        /\ worker' \in WorkerRecord /\ WorkerOK'
    <2>1. CASE SendHandoff
      <3>1. /\ worker' \in WorkerRecord /\ worker'.pc = "triggering"
            /\ worker'.key = worker.key /\ worker'.disposition = worker.disposition
        BY <2>1, GoToFields DEF SendHandoff, TypeInv, TypeOK, Stages
      <3>2. WorkerOK'
        BY <1>2, <1>4, <3>1, PlainMove DEF TypeInv, Decided
      <3> QED BY <1>4, <2>1, <3>1, <3>2, LedgerType
              DEF SendHandoff, TypeInv, TypeOK, shuffleVars
    <2>2. CASE ShuffleAccepts
      <3>1. PICK e \in {runs[Key] + 1, 0} :
              worker' = [worker EXCEPT !.answer = "accepted", !.execution = e]
        BY <2>2 DEF ShuffleAccepts
      <3>2. e \in Nat
        BY <1>5, <3>1
      <3>3. /\ worker' \in WorkerRecord /\ worker'.pc = "triggering"
            /\ worker'.key = worker.key /\ worker'.disposition = worker.disposition
        BY <2>2, <3>1, <3>2, AnswerFields DEF ShuffleAccepts, At, TypeInv, TypeOK
      <3>4. WorkerOK'
        BY <1>2, <1>4, <3>3, PlainMove DEF TypeInv, Decided
      <3> QED BY <1>5, <2>2, <3>3, <3>4 DEF ShuffleAccepts, storeVars, TypeInv, TypeOK
    <2>3. CASE ShuffleRefuses
      <3>1. /\ worker' \in WorkerRecord /\ worker'.pc = "triggering"
            /\ worker'.key = worker.key /\ worker'.disposition = worker.disposition
        BY <2>3 DEF ShuffleRefuses, At, TypeInv, TypeOK, WorkerRecord
      <3>2. WorkerOK'
        BY <1>2, <1>4, <3>1, PlainMove DEF TypeInv, Decided
      <3> QED BY <1>5, <2>3, <3>1, <3>2 DEF ShuffleRefuses, storeVars, TypeInv, TypeOK
    <2>4. CASE HandoffAccepted
      <3>1. worker' = [worker EXCEPT !.pc = "commenting", !.answer = "none"]
        BY <2>4 DEF HandoffAccepted
      <3>2. /\ worker' \in WorkerRecord /\ worker'.pc = "commenting"
            /\ worker'.key = worker.key /\ worker'.disposition = worker.disposition
        BY <3>1 DEF TypeInv, TypeOK, WorkerRecord, Stages
      <3>3. WorkerOK'
        BY <1>2, <1>4, <3>2, PlainMove DEF TypeInv, Decided
      <3> QED BY <1>4, <1>5, <2>4, <3>2, <3>3, LedgerType
              DEF HandoffAccepted, TypeInv, TypeOK, shuffleVars
    <2>5. ASSUME Raise PROVE worker' \in WorkerRecord /\ WorkerOK'
      <3>1. worker' \in WorkerRecord /\ worker'.pc = "failing" /\ worker'.key = worker.key
        BY <2>5, RaiseFields DEF TypeInv, TypeOK
      <3> QED BY <1>2, <1>4, <3>1, PlainMove DEF TypeInv, Decided
    <2>6. CASE HandoffRefused
      BY <1>4, <2>5, <2>6, LedgerType DEF HandoffRefused, TypeInv, TypeOK, shuffleVars
    <2>7. CASE HandoffAmbiguous
      BY <2>5, <2>7, StrayType DEF HandoffAmbiguous, TypeInv, TypeOK, storeVars
    <2> QED BY <2>1, <2>2, <2>3, <2>4, <2>6, <2>7
  <1> QED BY <1>1, <1>2, <1>6 DEF TypeInv, TypeOK, RowsOK, Known, hiveVars, bounds

LEMMA FinishStepType ==
  ASSUME TypeInv,
         Comment \/ CommentFails \/ Propose \/ CompleteDelivery \/ RecordFailure
  PROVE  TypeInv'
  <1>1. UNCHANGED <<handoffs, incidents, cases, shuffleVars, acked, grants, bounds>>
    BY DEF Comment, CommentFails, Propose, CompleteDelivery, RecordFailure, storeVars, hiveVars
  <1>2. worker.pc \in {"commenting", "proposing", "completing", "failing"}
    BY DEF Comment, CommentFails, Propose, CompleteDelivery, RecordFailure, At
  <1>3. /\ Key \in Keys /\ Known(Key) /\ worker.pc \in Stages
        /\ worker.pc # "failing" => worker.disposition \in Dispositions
    BY <1>2 DEF TypeInv, WorkerOK, Stages, Decided
  <1>4. worker.case \in CaseIds \cup {NoCase} /\ worker.execution \in Nat
    BY DEF TypeInv, TypeOK, WorkerRecord
  <1>5. DeliveriesOK
    BY DEF DeliveriesOK, TypeInv, TypeOK
  <1>6. ASSUME UNCHANGED deliveries PROVE DeliveriesOK' /\ KnownStays
    BY <1>5, <1>6 DEF DeliveriesOK, RowsOK, KnownStays, Known
  <1>7. /\ DeliveriesOK' /\ KnownStays
        /\ notes' \subseteq Keys \X CaseIds
        /\ proposals' \in [Keys -> CaseIds \cup {NoCase}]
        /\ worker' \in WorkerRecord /\ worker'.key = worker.key
        /\ \/ worker'.pc \in {"auditing", "failing", "auditing_failure"}
           \/ /\ worker'.pc \in {"proposing", "completing"}
              /\ worker'.disposition \in Dispositions
    <2>1. CASE Comment
      BY <1>3, <1>4, <1>6, <2>1, GoToFields
      DEF Comment, At, TypeInv, TypeOK, storeVars, Stages
    <2>2. CASE CommentFails
      BY <1>3, <1>4, <1>6, <2>2, RaiseFields
      DEF CommentFails, At, TypeInv, TypeOK, storeVars
    <2>3. CASE Propose
      BY <1>3, <1>4, <1>6, <2>3, GoToFields
      DEF Propose, At, TypeInv, TypeOK, hiveVars, Stages
    <2>4. CASE CompleteDelivery
      <3>1. Result \in Results
        BY <1>3, <1>4, <2>4 DEF CompleteDelivery, At, Result, Results
      <3>2. DeliveriesOK' /\ KnownStays
        BY <1>3, <1>5, <2>4, <3>1, CompleteType DEF CompleteDelivery
      <3> QED BY <2>4, <3>2, GoToFields DEF CompleteDelivery, TypeInv, TypeOK, hiveVars, Stages
    <2>5. CASE RecordFailure
      <3>1. DeliveriesOK' /\ KnownStays
        BY <1>3, <1>5, <2>5, FailType DEF RecordFailure
      <3> QED BY <2>5, <3>1, GoToFields DEF RecordFailure, TypeInv, TypeOK, hiveVars, Stages
    <2> QED BY <2>1, <2>2, <2>3, <2>4, <2>5
  <1>8. WorkerOK'
    BY <1>3, <1>7, PlainMove DEF TypeInv, Decided
  <1> QED BY <1>1, <1>7, <1>8 DEF DeliveriesOK, TypeInv, TypeOK, shuffleVars, bounds

\* A handler changes the rows and leaves the worker's delivery known.
LEMMA WorkerStays ==
  ASSUME WorkerOK, UNCHANGED worker, KnownStays PROVE WorkerOK'
  BY DEF WorkerOK, KnownStays, Known, At, Key

LEMMA HandlerStepType ==
  ASSUME TypeInv, NEW k \in Keys,
         \/ \E a \in Alerts : ReceiveAlert(k, a)
         \/ Replay(k) \/ Reconcile(k) \/ ReconcileInterrupted(k) \/ BackoffPasses(k)
  PROVE  TypeInv'
  <1>1. DeliveriesOK
    BY DEF DeliveriesOK, TypeInv, TypeOK
  <1>2. ASSUME UNCHANGED deliveries PROVE DeliveriesOK' /\ KnownStays
    BY <1>1, <1>2 DEF DeliveriesOK, RowsOK, KnownStays, Known
  <1>3. ASSUME Verdict(k)
        PROVE  handoffs' \in [Keys -> HandoffRow] /\ grants' \in [Keys -> Nat]
    <2>1. CASE ReconcileRetry(k) /\ grants' = [grants EXCEPT ![k] = @ + 1]
      BY <2>1, LedgerType, 0 \in Nat DEF TypeInv, TypeOK
    <2>2. CASE (\E e \in 1..runs[k] : ReconcileCompleted(k, e)) /\ UNCHANGED grants
      BY <2>2, LedgerType DEF TypeInv, TypeOK
    <2> QED BY <1>3, <2>1, <2>2 DEF Verdict
  <1>4. CASE \E a \in Alerts : ReceiveAlert(k, a)
    <2>1. PICK a \in Alerts : ReceiveAlert(k, a)
      BY <1>4
    <2>2. DeliveriesOK' /\ KnownStays
      BY <1>1, <1>2, <2>1, EnqueueType DEF ReceiveAlert
    <2>3. WorkerOK' /\ acked' \subseteq Keys \X Alerts
      BY <2>1, <2>2, WorkerStays DEF ReceiveAlert, TypeInv, TypeOK
    <2> QED BY <2>1, <2>2, <2>3
            DEF ReceiveAlert, DeliveriesOK, TypeInv, TypeOK, hiveVars, shuffleVars, bounds
  <1>5. CASE Replay(k)
    <2>1. DeliveriesOK' /\ KnownStays
      BY <1>1, <1>5, RequeueType DEF Replay
    <2>2. WorkerOK'
      BY <1>5, <2>1, WorkerStays DEF Replay, TypeInv
    <2> QED BY <1>5, <2>1, <2>2 DEF Replay, DeliveriesOK, TypeInv, TypeOK, hiveVars, shuffleVars
  <1>6. CASE Reconcile(k)
    <2>1. DeliveriesOK' /\ KnownStays
      BY <1>1, <1>6, RequeueType DEF Reconcile
    <2>2. WorkerOK'
      BY <1>6, <2>1, WorkerStays DEF Reconcile, TypeInv
    <2> QED BY <1>3, <1>6, <2>1, <2>2
            DEF Reconcile, DeliveriesOK, TypeInv, TypeOK, hiveVars, shuffleVars
  <1>7. CASE ReconcileInterrupted(k)
    <2>1. worker' \in WorkerRecord /\ WorkerOK'
      BY <1>7, RestFields, Idle DEF ReconcileInterrupted
    <2>2. stray' \in [Keys -> Nat]
      BY <1>7, StrayType DEF ReconcileInterrupted, TypeInv, TypeOK
    <2> QED BY <1>2, <1>3, <1>7, <2>1, <2>2
            DEF ReconcileInterrupted, DeliveriesOK, TypeInv, TypeOK, hiveVars
  <1>8. CASE BackoffPasses(k)
    <2>1. DeliveriesOK' /\ KnownStays
      BY <1>1, <1>8, BackoffType DEF BackoffPasses
    <2>2. WorkerOK'
      BY <1>8, <2>1, WorkerStays DEF BackoffPasses, TypeInv
    <2> QED BY <1>8, <2>1, <2>2
            DEF BackoffPasses, DeliveriesOK, TypeInv, TypeOK, hiveVars, shuffleVars, bounds
  <1> QED BY <1>4, <1>5, <1>6, <1>7, <1>8

LEMMA ProcessStepType ==
  ASSUME TypeInv,
         \/ Crash \/ Restart
         \/ \E k \in Keys : Claim(k) \/ StrayArrives(k)
  PROVE  TypeInv'
  <1>1. DeliveriesOK
    BY DEF DeliveriesOK, TypeInv, TypeOK
  <1>2. CASE Crash
    <2>1. worker' \in WorkerRecord /\ WorkerOK'
      BY <1>2, RestFields, Idle DEF Crash
    <2>2. stray' \in [Keys -> Nat]
      BY <1>2, StrayType DEF Crash, TypeInv, TypeOK
    <2> QED BY <1>2, <2>1, <2>2 DEF Crash, storeVars, hiveVars, TypeInv, TypeOK, RowsOK, Known
  <1>3. CASE Restart
    <2>1. worker' \in WorkerRecord /\ WorkerOK'
      BY <1>3, RestFields, Idle DEF Restart, Die
    <2>2. DeliveriesOK'
      BY <1>1, <1>3, RecoverType DEF Restart
    <2> QED BY <1>3, <2>1, <2>2
            DEF Restart, DeliveriesOK, TypeInv, TypeOK, hiveVars, shuffleVars, bounds
  <1>4. ASSUME NEW k \in Keys, Claim(k) PROVE TypeInv'
    <2>1. DeliveriesOK' /\ Known(k)'
      BY <1>1, <1>4, ClaimType DEF Claim
    <2>2. worker' = [Resting EXCEPT !.pc = "enriching", !.key = k]
      BY <1>4 DEF Claim
    <2>3. worker' \in WorkerRecord /\ worker'.pc = "enriching" /\ worker'.key = k
      BY <2>2 DEF WorkerRecord, Resting, Stages
    <2>4. WorkerOK'
      BY <2>1, <2>3 DEF WorkerOK, Decided, At, Key, Known
    <2> QED BY <1>4, <2>1, <2>3, <2>4
            DEF Claim, DeliveriesOK, TypeInv, TypeOK, hiveVars, shuffleVars, bounds
  <1>5. ASSUME NEW k \in Keys, StrayArrives(k) PROVE TypeInv'
    <2>1. stray' \in [Keys -> Nat] /\ runs' \in [Keys -> Nat]
      BY <1>5 DEF StrayArrives, TypeInv, TypeOK
    <2>2. KnownStays /\ UNCHANGED worker
      BY <1>5 DEF StrayArrives, storeVars, KnownStays, Known
    <2>3. WorkerOK'
      BY <2>2, WorkerStays DEF TypeInv
    <2> QED BY <1>5, <2>1, <2>3
            DEF StrayArrives, storeVars, hiveVars, bounds, TypeInv, TypeOK, RowsOK, Known
  <1> QED BY <1>2, <1>3, <1>4, <1>5

LEMMA StutterType == ASSUME TypeInv, UNCHANGED vars PROVE TypeInv'
  <1>1. OthersSame /\ UNCHANGED worker /\ KnownStays
    BY DEF vars, OthersSame, storeVars, hiveVars, shuffleVars, bounds, KnownStays, Known
  <1> QED BY <1>1, OnlyType, WorkerStays DEF TypeInv, TypeOK

LEMMA NextType == ASSUME TypeInv, [Next]_vars PROVE TypeInv'
  <1>1. CASE UNCHANGED vars
    BY <1>1, StutterType
  <1>2. CASE PipelineStep
    BY <1>2, LocalStepType, IncidentStepType DEF PipelineStep
  <1>3. CASE HandoffStep
    BY <1>3, LocalStepType, HandoffStepType DEF HandoffStep
  <1>4. CASE FinishStep
    BY <1>4, LocalStepType, FinishStepType DEF FinishStep
  <1>5. CASE HandlerStep \/ \E k \in Keys : BackoffPasses(k)
    BY <1>5, HandlerStepType DEF HandlerStep
  <1>6. CASE EnvironmentStep \/ Restart \/ \E k \in Keys : Claim(k)
    BY <1>6, ProcessStepType, IncidentStepType DEF EnvironmentStep
  <1> QED BY <1>1, <1>2, <1>3, <1>4, <1>5, <1>6 DEF Next, WorkerStep

\* Every table, service and local of the gateway keeps its type: in particular the
\* worker only ever holds a stored delivery and reports a known disposition.
THEOREM TypeCorrect == Spec => []TypeOK
  <1>1. Spec => []TypeInv
    BY InitType, NextType, PTL DEF Spec
  <1> QED BY <1>1, PTL DEF TypeInv

------------------------------------------------------------------------------
(* At most one automatic run per trace.  HandoffAtMostOnce is not inductive: *)
(* it does not say that a trace without a row has used up nothing.           *)

\* A row of the ledger pays for one run, an operator's decision for one more.
HandoffPaid ==
  \A t \in Keys : /\ Committed(t) <= 1 + grants[t]
                  /\ ~Reserved(t) => Committed(t) <= grants[t]

\* A refused request started nothing, so its row may be given back.
RefusalIsFree ==
  At("triggering") /\ worker.answer = "refused" => Committed(Key) <= grants[Key]

HandoffInv == HandoffPaid /\ RefusalIsFree

LEMMA InitHandoff == Init => HandoffInv
  BY DEF Init, LedgerInit, NoRow, Resting, HandoffInv, HandoffPaid, RefusalIsFree,
         Committed, Awaiting, Reserved, At

\* Nothing is committed by a step that leaves ledger and Shuffle alone, unless the
\* worker starts to await an answer.
LEMMA QuietHandoff ==
  ASSUME TypeInv, HandoffInv, UNCHANGED <<handoffs, runs, stray, grants>>,
         ~At("triggering")' \/ UNCHANGED worker
  PROVE  HandoffInv'
  BY DEF TypeInv, TypeOK, HandoffInv, HandoffPaid, RefusalIsFree, Committed, Awaiting,
         Reserved, At, Key

LEMMA VerdictHandoff ==
  ASSUME TypeInv, HandoffInv, NEW k \in Keys, Verdict(k)
  PROVE  \A t \in Keys : /\ Committed(t) <= 1 + grants'[t]
                         /\ ~Reserved(t)' => Committed(t) <= grants'[t]
                         /\ grants[t] <= grants'[t]
  <1>1. CASE ReconcileRetry(k) /\ grants' = [grants EXCEPT ![k] = @ + 1]
    <2>1. \A t \in Keys : Committed(t) \in Nat /\ grants[t] \in Nat
      BY DEF TypeInv, TypeOK, Committed
    <2>3. grants'[k] = grants[k] + 1 /\ \A t \in Keys \ {k} : grants'[t] = grants[t]
      BY <1>1 DEF TypeInv, TypeOK
    <2>4. \A t \in Keys \ {k} : Reserved(t)' = Reserved(t)
      BY <1>1 DEF ReconcileRetry, ReleaseHandoff, Reserved, TypeInv, TypeOK
    <2> QED BY <2>1, <2>3, <2>4 DEF HandoffInv, HandoffPaid
  <1>2. CASE (\E e \in 1..runs[k] : ReconcileCompleted(k, e)) /\ UNCHANGED grants
    <2>1. \A t \in Keys : Reserved(t) => Reserved(t)'
      BY <1>2 DEF ReconcileCompleted, CompleteHandoff, Reserved, TypeInv, TypeOK
    <2>2. \A t \in Keys : Committed(t) \in Nat /\ grants[t] \in Nat
      BY DEF TypeInv, TypeOK, Committed
    <2> QED BY <1>2, <2>1, <2>2 DEF HandoffInv, HandoffPaid
  <1> QED BY <1>1, <1>2 DEF Verdict

\* An abandoned request moves from the worker to the network.
LEMMA AbandonHandoff ==
  ASSUME TypeInv, worker'.pc # "triggering", UNCHANGED runs,
         stray' = [t \in Keys |-> IF Awaiting(t) THEN stray[t] + 1 ELSE stray[t]]
  PROVE  \A t \in Keys : Committed(t)' = Committed(t)
  BY DEF TypeInv, TypeOK, Committed, Awaiting, At

LEMMA QuietSteps ==
  ASSUME \/ EnrichmentFails \/ JoinIncident \/ FindNoCase \/ ReportIncident \/ ReportFails
         \/ ResumeHandoff \/ SkipHandoff \/ AuditCompletion \/ AuditCompletionFails
         \/ AuditFailure \/ AuditFailureFails
         \/ ReserveIncident \/ AddObservables \/ IncidentFails
         \/ Comment \/ CommentFails \/ Propose \/ CompleteDelivery \/ RecordFailure
         \/ Restart \/ (\E k \in Keys : Claim(k))
         \/ (\E c \in CaseIds : FindCase(c) \/ CreateCase(c) \/ CaseAnswerLost(c))
         \/ \E k \in Keys : \/ \E a \in Alerts : ReceiveAlert(k, a)
                            \/ Replay(k) \/ BackoffPasses(k),
         TypeInv
  PROVE  /\ UNCHANGED <<handoffs, runs, stray, grants>>
         /\ ~At("triggering")' \/ UNCHANGED worker
  <1> USE DEF TypeInv, TypeOK, WorkerRecord, storeVars, shuffleVars, bounds, At, Resting
  <1>1. CASE \/ EnrichmentFails \/ JoinIncident \/ FindNoCase \/ ReportIncident \/ ReportFails
             \/ ResumeHandoff \/ SkipHandoff \/ AuditCompletion \/ AuditCompletionFails
             \/ AuditFailure \/ AuditFailureFails
    <2>1. UNCHANGED <<handoffs, runs, stray, grants>>
      BY <1>1 DEF EnrichmentFails, JoinIncident, FindNoCase, ReportIncident, ReportFails,
         ResumeHandoff, SkipHandoff, AuditCompletion, AuditCompletionFails, AuditFailure,
         AuditFailureFails, Only, Rest
    <2>2. CASE EnrichmentFails \/ ReportFails \/ AuditCompletionFails
      BY <2>1, <2>2, RaiseFields DEF EnrichmentFails, ReportFails, AuditCompletionFails, Only
    <2>3. CASE FindNoCase \/ ReportIncident \/ SkipHandoff
      BY <2>1, <2>3, GoToFields DEF FindNoCase, ReportIncident, SkipHandoff, Only, Stages
    <2>4. CASE JoinIncident
      BY <2>1, <2>4 DEF JoinIncident, Only
    <2>5. CASE ResumeHandoff
      <3>1. Raise \/ worker' = [worker EXCEPT !.pc = "commenting",
                                              !.execution = handoffs[Key].execution]
        BY <2>5 DEF ResumeHandoff, Only
      <3> QED BY <2>1, <3>1, RaiseFields
    <2>6. CASE AuditCompletion \/ AuditFailure \/ AuditFailureFails
      BY <2>1, <2>6, RestFields DEF AuditCompletion, AuditFailure, AuditFailureFails, Rest,
         Only, Die
    <2> QED BY <1>1, <2>2, <2>3, <2>4, <2>5, <2>6
  <1>2. CASE ReserveIncident \/ AddObservables \/ IncidentFails
    BY <1>2 DEF ReserveIncident, AddObservables, IncidentFails, Settle, GoTo, Raise
  <1>3. CASE Comment \/ CommentFails \/ Propose \/ CompleteDelivery \/ RecordFailure
    <2>1. UNCHANGED <<handoffs, runs, stray, grants>>
      BY <1>3 DEF Comment, CommentFails, Propose, CompleteDelivery, RecordFailure
    <2>2. (\E stage \in Stages \ {"triggering"} : GoTo(stage)) \/ Raise
      BY <1>3 DEF Comment, CommentFails, Propose, CompleteDelivery, RecordFailure, Stages
    <2> QED BY <2>1, <2>2, GoToFields, RaiseFields
  <1>4. CASE Restart \/ \E k \in Keys : Claim(k)
    <2>1. UNCHANGED <<handoffs, runs, stray, grants>>
      BY <1>4 DEF Restart, Claim
    <2>2. CASE Restart
      BY <2>1, <2>2, RestFields DEF Restart, Die
    <2>3. CASE \E k \in Keys : Claim(k)
      BY <2>1, <2>3 DEF Claim
    <2> QED BY <1>4, <2>2, <2>3
  <1>5. CASE \E c \in CaseIds : FindCase(c) \/ CreateCase(c) \/ CaseAnswerLost(c)
    BY <1>5 DEF FindCase, CreateCase, CaseAnswerLost, Settle, OpenCase
  <1>6. CASE \E k \in Keys : \/ \E a \in Alerts : ReceiveAlert(k, a)
                             \/ Replay(k) \/ BackoffPasses(k)
    BY <1>6 DEF ReceiveAlert, Replay, BackoffPasses
  <1> QED BY <1>1, <1>2, <1>3, <1>4, <1>5, <1>6

LEMMA NextHandoff ==
  ASSUME "hidden_run" \notin Faults, TypeInv, HandoffInv, [Next]_vars
  PROVE  HandoffInv'
  <1> USE DEF HandoffInv, HandoffPaid, RefusalIsFree
  <1>1. worker.pc \in Stages => Key \in Keys
    BY DEF TypeInv, WorkerOK
  <1>2. \A t \in Keys : /\ Committed(t) \in Nat /\ runs[t] \in Nat
                        /\ stray[t] \in Nat /\ grants[t] \in Nat
    BY DEF TypeInv, TypeOK, Committed
  <1>3. CASE SendHandoff
    <2>1. Key \in Keys /\ ~Awaiting(Key) /\ ~Reserved(Key) /\ worker'.key = worker.key
          /\ UNCHANGED <<runs, stray, grants>>
      <3>1. worker.pc = "handing" /\ ~Reserved(worker.key) /\ GoTo("triggering")
            /\ UNCHANGED <<runs, stray, grants>>
        BY <1>3 DEF SendHandoff, At, Key, ReserveHandoff, shuffleVars
      <3>2. worker'.key = worker.key
        BY <3>1, GoToFields DEF Stages, TypeInv, TypeOK
      <3> QED BY <1>1, <3>1, <3>2 DEF Stages, At, Awaiting, Key
    <2>2. Reserved(Key)' /\ \A t \in Keys \ {Key} : Reserved(t)' = Reserved(t)
      <3>1. ReserveHandoff(Key)
        BY <1>3 DEF SendHandoff
      <3> QED BY <2>1, <3>1 DEF Key, ReserveHandoff, Reserved, TypeInv, TypeOK
    <2>3. \A t \in Keys \ {Key} : Committed(t)' = Committed(t)
      BY <1>3, <2>1 DEF SendHandoff, Committed, Awaiting, At, Key
    <2>4. Committed(Key) = runs[Key] + stray[Key] /\ Committed(Key) <= grants[Key]
      BY <1>2, <2>1 DEF Committed
    <2>5. /\ Committed(Key)' <= 1 + grants[Key]
          /\ worker'.answer # "none" => Committed(Key)' <= grants[Key]
      BY <1>2, <2>1, <2>4 DEF Committed, Awaiting, At, Key
    <2> QED BY <2>1, <2>2, <2>3, <2>5 DEF Key
  <1>4. CASE ShuffleAccepts
    <2>1. Key \in Keys /\ Awaiting(Key) /\ UNCHANGED <<handoffs, stray, grants>>
          /\ runs' = [runs EXCEPT ![Key] = @ + 1]
          /\ worker'.key = worker.key /\ worker'.answer = "accepted"
      BY <1>1, <1>4 DEF ShuffleAccepts, At, Stages, Awaiting, TypeInv, TypeOK, WorkerRecord,
         storeVars
    <2>2. \A t \in Keys : Committed(t)' = Committed(t)
      BY <1>2, <2>1 DEF Committed, Awaiting, At, Key, TypeInv, TypeOK
    <2> QED BY <2>1, <2>2 DEF Reserved
  <1>5. CASE ShuffleRefuses
    <2>1. Key \in Keys /\ Awaiting(Key) /\ UNCHANGED <<handoffs, stray, grants, runs>>
          /\ worker'.key = worker.key /\ worker'.answer = "refused"
      BY <1>1, <1>5 DEF ShuffleRefuses, At, Stages, Awaiting, TypeInv, TypeOK, WorkerRecord,
         storeVars
    <2>2. \A t \in Keys \ {Key} : Committed(t)' = Committed(t)
      BY <2>1 DEF Committed, Awaiting, At, Key
    <2>3. Committed(Key)' = Committed(Key) - 1
      BY <1>2, <2>1 DEF Committed, Awaiting, At, Key
    <2> QED BY <1>2, <2>1, <2>2, <2>3 DEF Reserved, Key
  <1>6. CASE HandoffAccepted
    <2>1. Key \in Keys /\ ~At("triggering")' /\ ~Awaiting(Key)
          /\ UNCHANGED <<runs, stray, grants>>
      BY <1>1, <1>6 DEF HandoffAccepted, At, Stages, Awaiting, TypeInv, TypeOK, WorkerRecord,
         shuffleVars
    <2>2. \A t \in Keys : Committed(t)' = Committed(t)
      BY <2>1 DEF Committed, Awaiting
    <2>3. \A t \in Keys : Reserved(t)' = Reserved(t)
      BY <1>6, <2>1 DEF HandoffAccepted, CompleteHandoff, Reserved, TypeInv, TypeOK
    <2> QED BY <2>1, <2>2, <2>3
  <1>7. CASE HandoffRefused
    <2>1. Key \in Keys /\ ~At("triggering")' /\ ~Awaiting(Key)
          /\ Committed(Key) <= grants[Key] /\ UNCHANGED <<runs, stray, grants>>
      BY <1>1, <1>7 DEF HandoffRefused, Raise, Resting, At, Stages, Awaiting, shuffleVars
    <2>2. \A t \in Keys : Committed(t)' = Committed(t)
      BY <2>1 DEF Committed, Awaiting
    <2>3. \A t \in Keys \ {Key} : Reserved(t)' = Reserved(t)
      BY <1>7, <2>1 DEF HandoffRefused, ReleaseHandoff, Reserved, TypeInv, TypeOK
    <2> QED BY <1>2, <2>1, <2>2, <2>3
  <1>8. CASE HandoffAmbiguous \/ Crash
    <2>1. UNCHANGED <<handoffs, grants>> /\ ~At("triggering")'
      BY <1>8 DEF HandoffAmbiguous, Crash, Raise, Resting, At, storeVars
    <2>2. \A t \in Keys : Committed(t)' = Committed(t)
      BY <1>8, <2>1, AbandonHandoff DEF HandoffAmbiguous, Crash, At
    <2> QED BY <2>1, <2>2 DEF Reserved
  <1>9. ASSUME NEW k \in Keys, StrayArrives(k) PROVE HandoffInv'
    <2>1. UNCHANGED <<handoffs, grants, worker>>
      BY <1>9 DEF StrayArrives, storeVars
    <2>2. \A t \in Keys : Committed(t)' <= Committed(t) /\ Committed(t)' \in Nat
      BY <1>2, <1>9, <2>1 DEF StrayArrives, Committed, Awaiting, At, Key, TypeInv, TypeOK
    <2> QED BY <1>1, <1>2, <2>1, <2>2 DEF Reserved, At, Key, Stages
  <1>10. ASSUME NEW k \in Keys, Reconcile(k) PROVE HandoffInv'
    <2>1. Verdict(k) /\ UNCHANGED <<runs, stray, worker>>
      BY <1>10 DEF Reconcile, shuffleVars
    <2>2. \A t \in Keys : Committed(t)' = Committed(t)
      BY <2>1 DEF Committed, Awaiting, At, Key
    <2>3. \A t \in Keys : grants'[t] \in Nat
      BY <1>10, NextType DEF Next, HandlerStep, TypeInv, TypeOK
    <2> QED BY <1>1, <1>2, <2>1, <2>2, <2>3, VerdictHandoff DEF At, Key, Stages
  <1>11. ASSUME NEW k \in Keys, ReconcileInterrupted(k) PROVE HandoffInv'
    <2>1. Verdict(k) /\ ~At("triggering")'
      BY <1>11 DEF ReconcileInterrupted, At, Resting
    <2>2. \A t \in Keys : Committed(t)' = Committed(t)
      BY <1>11, <2>1, AbandonHandoff DEF ReconcileInterrupted, At
    <2> QED BY <2>1, <2>2, VerdictHandoff
  <1>12. CASE UNCHANGED vars
    BY <1>12, QuietHandoff DEF vars, storeVars, shuffleVars
  <1>13. CASE PipelineStep
    BY <1>13, QuietSteps, QuietHandoff DEF PipelineStep
  <1>14. CASE HandoffStep
    BY <1>3, <1>4, <1>5, <1>6, <1>7, <1>8, <1>14, QuietSteps, QuietHandoff DEF HandoffStep
  <1>15. CASE FinishStep
    BY <1>15, QuietSteps, QuietHandoff DEF FinishStep
  <1>16. CASE HandlerStep \/ \E k \in Keys : BackoffPasses(k)
    BY <1>10, <1>11, <1>16, QuietSteps, QuietHandoff DEF HandlerStep
  <1>17. CASE EnvironmentStep \/ Restart \/ \E k \in Keys : Claim(k)
    BY <1>8, <1>9, <1>17, QuietSteps, QuietHandoff DEF EnvironmentStep
  <1> QED BY <1>12, <1>13, <1>14, <1>15, <1>16, <1>17 DEF Next, WorkerStep

\* Whatever fails, crashes or arrives late, a trace gets one automatic workflow run
\* and one more for each time an operator declared it safe to retry, provided that
\* an HTTP error means the run did not start (the assumption stated at
\* worker.py:113-115, which the code relies on when it releases the handoff).
THEOREM HandoffOnce ==
  ASSUME "hidden_run" \notin Faults
  PROVE  Spec => []HandoffAtMostOnce
  <1>1. Spec => [](TypeInv /\ HandoffInv)
    <2>1. Init => TypeInv /\ HandoffInv
      BY InitType, InitHandoff
    <2>2. TypeInv /\ HandoffInv /\ [Next]_vars => TypeInv' /\ HandoffInv'
      BY NextType, NextHandoff
    <2> QED BY <2>1, <2>2, PTL DEF Spec
  <1>2. TypeInv /\ HandoffInv => HandoffAtMostOnce
    BY DEF HandoffInv, HandoffPaid, HandoffAtMostOnce
  <1> QED BY <1>1, <1>2, PTL
==============================================================================
