------------------------ MODULE AlertGatewayWork_proof ------------------------
(***************************************************************************)
(* What a completed delivery stands for, for every value of the constants: *)
(* the incident the worker decides on, the handoff it finds or makes, the  *)
(* proposal it records, and the result it stores at the end.  The facts    *)
(* are layered like process_once: each layer says what its stages leave    *)
(* behind and what no later step undoes.                                   *)
(***************************************************************************)
EXTENDS AlertGatewayInbox_proof

\* The worker's moves that change its position and its choice of a case only.
LEMMA DecideFields ==
  ASSUME worker \in WorkerRecord, NEW stage, NEW c, NEW disposition,
         worker' = [worker EXCEPT !.pc = stage, !.case = c, !.disposition = disposition]
  PROVE  /\ worker'.pc = stage /\ worker'.key = worker.key /\ worker'.case = c
         /\ worker'.execution = worker.execution /\ worker'.answer = worker.answer
  BY DEF WorkerRecord

LEMMA ObserveFields ==
  ASSUME worker \in WorkerRecord, NEW c,
         worker' = [worker EXCEPT !.pc = "observing", !.case = c]
  PROVE  /\ worker'.pc = "observing" /\ worker'.key = worker.key /\ worker'.case = c
         /\ worker'.execution = worker.execution /\ worker'.answer = worker.answer
  BY DEF WorkerRecord

\* The delivery the worker holds keeps its payload, hence its fingerprint.
LEMMA HeldStays ==
  ASSUME TypeInv, KnownStays, worker.pc \in Stages
  PROVE  /\ Key \in Keys /\ Known(Key) /\ Alert \in Alerts /\ Tag \in Fingerprints
         /\ worker'.key = worker.key => Key' = Key /\ Alert' = Alert /\ Tag' = Tag
  BY AlertAssumption
  DEF TypeInv, WorkerOK, RowsOK, KnownStays, Known, Key, Alert, Tag

------------------------------------------------------------------------------
(* The incident of a fingerprint.                                            *)

Reserves == {"finding", "creating", "observing"}
Reserving == worker.pc \in Reserves

\* A row that is nobody's open reservation: release and complete leave it alone.
Settled(f) == incidents[f].present /\ ~(Reserving /\ Tag = f)

\* The worker's reservation is open, and a row with a case names one of its tag.
ReservationInv ==
  /\ Reserving => incidents[Tag].present /\ incidents[Tag].case = NoCase
  /\ At("observing") => cases[worker.case].tag = Tag
  /\ \A f \in Fingerprints : incidents[f].case # NoCase =>
       incidents[f].present /\ cases[incidents[f].case].tag = f

\* Once the pipeline has decided, the table agrees with the worker.
DecisionInv ==
  /\ worker.pc \in Decided => incidents[Tag].present /\ worker.case = incidents[Tag].case
  /\ At("found") => worker.case # NoCase

IncidentInv == ReservationInv /\ DecisionInv

\* What no step undoes: a settled row, and the tag of a case.
SettledKept == \A f \in Fingerprints :
                 Settled(f) => Settled(f)' /\ incidents'[f] = incidents[f]
TagsKept == \A c \in CaseIds : cases[c].tag # NoTag => cases'[c].tag = cases[c].tag

\* The worker goes on with its decision, or has none.
Onward == /\ worker.pc \in Decided /\ worker'.pc \in Decided \ {"found"}
          /\ worker'.key = worker.key /\ worker'.case = worker.case
Clear == worker'.pc \notin Reserves \cup Decided
Aside == UNCHANGED <<incidents, cases>> /\ (UNCHANGED worker \/ Onward \/ Clear)

IncidentStep ==
  \/ ReserveIncident \/ JoinIncident \/ FindNoCase \/ AddObservables \/ IncidentFails
  \/ \E c \in CaseIds : FindCase(c) \/ CreateCase(c) \/ CaseAnswerLost(c)

LEMMA InitIncident == Init => IncidentInv
  BY DEF Init, IncidentInit, NoIncident, Resting, IncidentInv, ReservationInv, DecisionInv,
         Reserving, Reserves, Decided, At

LEMMA RaiseClear == ASSUME TypeInv, Raise PROVE Clear
  BY RaiseFields DEF TypeInv, TypeOK, Clear, Reserves, Decided

LEMMA RestClear ==
  ASSUME worker' = Resting \/ Die \/ worker' = [Resting EXCEPT !.pc = "down"]
  PROVE  Clear
  BY RestFields DEF Die, Clear, Reserves, Decided

LEMMA GoToOnward ==
  ASSUME TypeInv, worker.pc \in Decided, NEW stage \in Decided \ {"found"}, GoTo(stage)
  PROVE  Onward
  BY GoToFields DEF TypeInv, TypeOK, Onward, Decided, Stages

LEMMA HandoffAside == ASSUME TypeInv, HandoffStep PROVE Aside
  <1> USE DEF At, Decided
  <1>1. UNCHANGED <<incidents, cases>>
    BY DEF HandoffStep, SendHandoff, ResumeHandoff, SkipHandoff, ShuffleAccepts,
           ShuffleRefuses, HandoffAccepted, HandoffRefused, HandoffAmbiguous, Only,
           storeVars, hiveVars
  <1> SUFFICES Onward \/ Clear
    BY <1>1 DEF Aside
  <1>2. CASE HandoffRefused \/ HandoffAmbiguous
    BY <1>2, RaiseClear DEF HandoffRefused, HandoffAmbiguous
  <1>3. CASE SendHandoff \/ SkipHandoff
    BY <1>3, GoToOnward DEF SendHandoff, SkipHandoff, Only
  <1>4. CASE ResumeHandoff
    <2>1. worker.pc = "handing"
          /\ \/ Raise
             \/ worker' = [worker EXCEPT !.pc = "commenting",
                                         !.execution = handoffs[Key].execution]
      BY <1>4 DEF ResumeHandoff, Only
    <2> QED BY <2>1, RaiseClear DEF Onward, TypeInv, TypeOK, WorkerRecord
  <1>5. CASE ShuffleAccepts
    BY <1>5 DEF ShuffleAccepts, Onward, TypeInv, TypeOK, WorkerRecord
  <1>6. CASE ShuffleRefuses
    BY <1>6 DEF ShuffleRefuses, Onward, TypeInv, TypeOK, WorkerRecord
  <1>7. CASE HandoffAccepted
    BY <1>7 DEF HandoffAccepted, Onward, TypeInv, TypeOK, WorkerRecord
  <1> QED BY <1>2, <1>3, <1>4, <1>5, <1>6, <1>7 DEF HandoffStep

LEMMA FinishAside == ASSUME TypeInv, FinishStep PROVE Aside
  <1> USE DEF At, Decided
  <1>1. UNCHANGED <<incidents, cases>>
    BY DEF FinishStep, Comment, CommentFails, Propose, CompleteDelivery, AuditCompletion,
           AuditCompletionFails, RecordFailure, AuditFailure, AuditFailureFails, Rest, Only,
           storeVars, hiveVars
  <1> SUFFICES Onward \/ Clear
    BY <1>1 DEF Aside
  <1>2. CASE Comment \/ Propose
    BY <1>2, GoToOnward DEF Comment, Propose
  <1>3. CASE CommentFails \/ AuditCompletionFails
    BY <1>3, RaiseClear DEF CommentFails, AuditCompletionFails, Only
  <1>4. CASE CompleteDelivery \/ RecordFailure
    BY <1>4, SettleRows DEF Clear, Reserves
  <1>5. CASE AuditCompletion \/ AuditFailure \/ AuditFailureFails
    BY <1>5, RestClear DEF AuditCompletion, AuditFailure, AuditFailureFails, Rest, Only
  <1> QED BY <1>2, <1>3, <1>4, <1>5 DEF FinishStep

\* Every step works on the incident or leaves table, cases and decision alone.
LEMMA IncidentSteps == ASSUME TypeInv, [Next]_vars PROVE Aside \/ IncidentStep
  <1>1. CASE EnrichmentFails \/ ReportFails
    BY <1>1, RaiseClear DEF EnrichmentFails, ReportFails, Only, storeVars, hiveVars, Aside
  <1>2. CASE ReportIncident
    <2>1. Onward
      BY <1>2, GoToOnward DEF ReportIncident, Only, Decided
    <2> QED BY <1>2, <2>1 DEF ReportIncident, Only, storeVars, hiveVars, Aside
  <1>3. ASSUME NEW k \in Keys, Claim(k) PROVE Aside
    BY <1>3 DEF Claim, Resting, hiveVars, Aside, Clear, Reserves, Decided
  <1>4. CASE Restart
    BY <1>4, RestClear DEF Restart, hiveVars, Aside
  <1>5. CASE Crash \/ \E k \in Keys : ReconcileInterrupted(k)
    BY <1>5, RestClear DEF Crash, ReconcileInterrupted, storeVars, hiveVars, Aside
  <1>6. CASE UNCHANGED vars \/ \E k \in Keys : \/ \E a \in Alerts : ReceiveAlert(k, a)
                                              \/ Replay(k) \/ Reconcile(k) \/ BackoffPasses(k)
                                              \/ StrayArrives(k)
    BY <1>6 DEF vars, ReceiveAlert, Replay, Reconcile, BackoffPasses, StrayArrives, storeVars,
       hiveVars, Aside
  <1>7. CASE PipelineStep
    BY <1>1, <1>2, <1>7 DEF PipelineStep, IncidentStep
  <1>8. CASE EnvironmentStep
    BY <1>5, <1>6, <1>8 DEF EnvironmentStep, IncidentStep
  <1>9. CASE HandlerStep \/ \E k \in Keys : BackoffPasses(k)
    BY <1>5, <1>6, <1>9 DEF HandlerStep
  <1> QED BY <1>3, <1>4, <1>6, <1>7, <1>8, <1>9, HandoffAside, FinishAside
          DEF Next, WorkerStep

LEMMA AsideIncident ==
  ASSUME TypeInv, IncidentInv, KnownStays, Aside
  PROVE  IncidentInv' /\ SettledKept /\ TagsKept
  <1> USE DEF IncidentInv, ReservationInv, DecisionInv, SettledKept, TagsKept, Settled,
              Reserving, Reserves, At
  <1>1. UNCHANGED <<incidents, cases>>
    BY DEF Aside
  <1>2. CASE UNCHANGED worker
    <2>1. worker.pc \in Stages => Tag' = Tag
      BY <1>2, HeldStays
    <2> QED BY <1>1, <1>2, <2>1 DEF Decided, Stages
  <1>3. CASE Onward
    <2>1. worker.pc \in Stages /\ Tag' = Tag
      BY <1>3, HeldStays DEF Onward, Decided, Stages
    <2> QED BY <1>1, <1>3, <2>1 DEF Onward, Decided
  <1>4. CASE Clear
    BY <1>1, <1>4 DEF Clear, Decided
  <1> QED BY <1>2, <1>3, <1>4 DEF Aside

\* What the working step can rely on: its row and its delivery.
LEMMA IncidentStepFacts ==
  ASSUME TypeInv, KnownStays, IncidentStep
  PROVE  /\ worker.pc \in {"enriching", "finding", "found", "creating", "observing"}
         /\ Key \in Keys /\ Known(Key) /\ Alert \in Alerts /\ Tag \in Fingerprints
         /\ worker'.key = worker.key /\ Key' = Key /\ Alert' = Alert /\ Tag' = Tag
         /\ UNCHANGED <<deliveries, handoffs, proposals, notes, shuffleVars>>
  <1>1. worker.pc \in {"enriching", "finding", "found", "creating", "observing"}
    BY DEF IncidentStep, ReserveIncident, JoinIncident, FindNoCase, AddObservables,
           IncidentFails, FindCase, CreateCase, CaseAnswerLost, OpenCase, At
  <1>2. UNCHANGED <<deliveries, handoffs, proposals, notes, shuffleVars>>
    BY DEF IncidentStep, ReserveIncident, JoinIncident, FindNoCase, AddObservables,
           IncidentFails, FindCase, CreateCase, CaseAnswerLost, OpenCase, Settle, Only,
           storeVars, hiveVars
  <1>3. worker'.key = worker.key
    <2>1. worker \in WorkerRecord
      BY DEF TypeInv, TypeOK
    <2>2. CASE ReserveIncident \/ FindNoCase
      BY <2>1, <2>2, GoToFields DEF ReserveIncident, FindNoCase, Only, Stages
    <2>3. CASE JoinIncident
      BY <2>1, <2>3, DecideFields DEF JoinIncident, Only
    <2>4. CASE AddObservables
      BY <2>1, <2>4, DecideFields DEF AddObservables, Settle
    <2>5. CASE IncidentFails
      BY <2>1, <2>5, RaiseFields DEF IncidentFails
    <2>6. ASSUME NEW c \in CaseIds, FindCase(c) PROVE worker'.key = worker.key
      BY <2>1, <2>6, DecideFields DEF FindCase, Settle
    <2>7. ASSUME NEW c \in CaseIds, CreateCase(c) \/ CaseAnswerLost(c)
          PROVE  worker'.key = worker.key
      BY <2>1, <2>7, ObserveFields DEF CreateCase, CaseAnswerLost
    <2> QED BY <2>2, <2>3, <2>4, <2>5, <2>6, <2>7 DEF IncidentStep
  <1> QED BY <1>1, <1>2, <1>3, HeldStays DEF Stages

\* complete writes the worker's own reservation.
LEMMA SettleIncident ==
  ASSUME TypeInv, IncidentInv, Reserving, Tag \in Fingerprints, Tag' = Tag,
         NEW c \in CaseIds, NEW stage \in {"found", "reporting"}, NEW disposition,
         Settle(c, disposition, stage), cases'[c].tag = Tag, TagsKept
  PROVE  IncidentInv' /\ SettledKept
  <1>1. worker'.pc = stage /\ worker'.case = c /\ c # NoCase
    BY DecideFields, NoCaseAssumption DEF Settle, TypeInv, TypeOK
  <1>2. incidents'[Tag].present /\ incidents'[Tag].case = c
        /\ \A f \in Fingerprints \ {Tag} : incidents'[f] = incidents[f]
    BY DEF Settle, CompleteIncident, IncidentInv, ReservationInv, TypeInv, TypeOK, IncidentRow
  <1>3. \A f \in Fingerprints : incidents[f].case # NoCase =>
          incidents[f].case \in CaseIds /\ cases'[incidents[f].case].tag = f
    BY NullAssumption DEF IncidentInv, ReservationInv, TagsKept, TypeInv, TypeOK, IncidentRow
  <1> QED BY <1>1, <1>2, <1>3
          DEF IncidentInv, ReservationInv, DecisionInv, SettledKept, Settled, Reserving,
              Reserves, Decided, At

LEMMA OpenCaseTags ==
  ASSUME TypeInv, NEW c \in CaseIds, OpenCase(c)
  PROVE  /\ TagsKept /\ cases[c].tag = NoTag /\ cases'[c].tag = Tag
         /\ \A d \in CaseIds \ {c} : cases'[d] = cases[d]
  BY DEF OpenCase, TagsKept, TypeInv, TypeOK, CaseRecord

LEMMA StepIncident ==
  ASSUME TypeInv, IncidentInv, KnownStays, IncidentStep
  PROVE  IncidentInv' /\ SettledKept /\ TagsKept
  <1> USE DEF At
  <1>1. /\ worker.pc \in {"enriching", "finding", "found", "creating", "observing"}
        /\ Key \in Keys /\ Tag \in Fingerprints /\ Tag' = Tag /\ worker'.key = worker.key
        /\ worker \in WorkerRecord
    BY IncidentStepFacts DEF TypeInv, TypeOK
  <1>2. CASE ReserveIncident
    <2>1. worker'.pc = "finding" /\ UNCHANGED cases
      BY <1>1, <1>2, GoToFields DEF ReserveIncident, Stages, hiveVars
    <2>2. /\ ~incidents[Tag].present /\ worker.pc = "enriching"
          /\ incidents'[Tag].present /\ incidents'[Tag].case = incidents[Tag].case
          /\ \A f \in Fingerprints \ {Tag} : incidents'[f] = incidents[f]
      BY <1>1, <1>2 DEF ReserveIncident, Reserve, TypeInv, TypeOK, IncidentRow
    <2> QED BY <1>1, <2>1, <2>2
            DEF IncidentInv, ReservationInv, DecisionInv, SettledKept, TagsKept, Settled,
                Reserving, Reserves, Decided
  <1>3. CASE JoinIncident
    <2>1. /\ worker.pc = "enriching" /\ incidents[Tag].present
          /\ worker'.pc = "reporting" /\ worker'.case = incidents[Tag].case
          /\ UNCHANGED <<incidents, cases>>
      BY <1>1, <1>3, DecideFields DEF JoinIncident, Only, storeVars, hiveVars
    <2> QED BY <1>1, <2>1
            DEF IncidentInv, ReservationInv, DecisionInv, SettledKept, TagsKept, Settled,
                Reserving, Reserves, Decided
  <1>4. CASE FindNoCase
    <2>1. worker.pc = "finding" /\ worker'.pc = "creating" /\ UNCHANGED <<incidents, cases>>
      BY <1>1, <1>4, GoToFields DEF FindNoCase, Only, Stages, storeVars, hiveVars
    <2> QED BY <1>1, <2>1
            DEF IncidentInv, ReservationInv, DecisionInv, SettledKept, TagsKept, Settled,
                Reserving, Reserves, Decided
  <1>5. CASE AddObservables
    <2>1. worker.pc = "observing" /\ worker.case \in CaseIds
          /\ Settle(worker.case, "created", "reporting")
      BY <1>5 DEF AddObservables, TypeInv, WorkerOK
    <2>2. TagsKept /\ cases'[worker.case].tag = cases[worker.case].tag
      BY <1>5, <2>1 DEF AddObservables, TagsKept, TypeInv, TypeOK, CaseRecord
    <2>3. Reserving /\ cases[worker.case].tag = Tag
      BY <2>1 DEF IncidentInv, ReservationInv, Reserving, Reserves
    <2> QED BY <1>1, <2>1, <2>2, <2>3, SettleIncident
  <1>6. CASE IncidentFails
    <2>1. worker'.pc = "failing" /\ UNCHANGED cases /\ Release(Tag)
          /\ worker.pc \in {"finding", "creating", "observing", "found"}
      BY <1>1, <1>6, RaiseFields DEF IncidentFails, hiveVars
    <2>2. \A f \in Fingerprints \ {Tag} : incidents'[f] = incidents[f]
      BY <2>1 DEF Release, TypeInv, TypeOK
    <2>3. IF incidents[Tag].case = NoCase THEN incidents'[Tag] = NoIncident
                                          ELSE incidents'[Tag] = incidents[Tag]
      BY <1>1, <2>1 DEF Release, TypeInv, TypeOK
    <2>4. incidents[Tag].case = NoCase => Reserving
      BY <2>1 DEF IncidentInv, DecisionInv, Reserving, Reserves, Decided
    <2> QED BY <1>1, <2>1, <2>2, <2>3, <2>4
            DEF IncidentInv, ReservationInv, DecisionInv, SettledKept, TagsKept, Settled,
                Reserving, Reserves, Decided, NoIncident
  <1>7. ASSUME NEW c \in CaseIds, FindCase(c) PROVE IncidentInv' /\ SettledKept /\ TagsKept
    <2>1. worker.pc = "finding" /\ cases[c].tag = Tag /\ Settle(c, "reused", "found")
          /\ UNCHANGED cases
      BY <1>7 DEF FindCase, Tagged
    <2>2. Reserving /\ TagsKept
      BY <2>1 DEF Reserving, Reserves, TagsKept
    <2> QED BY <1>1, <2>1, <2>2, SettleIncident
  <1>8. ASSUME NEW c \in CaseIds, CreateCase(c) \/ CaseAnswerLost(c)
        PROVE  IncidentInv' /\ SettledKept /\ TagsKept
    <2>1. OpenCase(c) /\ worker.pc = "creating" /\ UNCHANGED incidents
      BY <1>8 DEF CreateCase, CaseAnswerLost, OpenCase, storeVars
    <2>2. /\ worker'.pc \in {"creating", "observing"}
          /\ worker'.pc = "observing" => worker'.case = c
      BY <1>1, <1>8, <2>1, ObserveFields DEF CreateCase, CaseAnswerLost
    <2>3. TagsKept /\ cases'[c].tag = Tag
      BY <2>1, OpenCaseTags
    <2>4. \A f \in Fingerprints : incidents[f].case # NoCase =>
            incidents[f].case \in CaseIds /\ cases'[incidents[f].case].tag = f
      BY <2>3, NullAssumption
      DEF IncidentInv, ReservationInv, TagsKept, TypeInv, TypeOK, IncidentRow
    <2> QED BY <1>1, <2>1, <2>2, <2>3, <2>4
            DEF IncidentInv, ReservationInv, DecisionInv, SettledKept, Settled, Reserving,
                Reserves, Decided
  <1> QED BY <1>2, <1>3, <1>4, <1>5, <1>6, <1>7, <1>8 DEF IncidentStep

LEMMA NextIncident ==
  ASSUME TypeInv, OwnerInv, IncidentInv, [Next]_vars
  PROVE  IncidentInv' /\ SettledKept /\ TagsKept
  BY NextKeeps, IncidentSteps, AsideIncident, StepIncident

------------------------------------------------------------------------------
(* The handoff the worker goes on with.                                      *)

\* A completed row stands for a run; any other carries no execution id.
LedgerInv ==
  \A t \in Keys : IF handoffs[t].status = "completed" THEN runs[t] > 0
                                                      ELSE handoffs[t].execution = 0

BeforeHandoff == {"enriching", "finding", "found", "creating", "observing", "reporting",
                  "handing"}
AfterHandoff == {"commenting", "proposing", "completing"}

\* What the worker knows of its trace is what the ledger and the case say of it.
HandedInv ==
  /\ worker.pc \in BeforeHandoff => worker.execution = 0 /\ worker.answer = "none"
  /\ At("triggering") /\ worker.answer = "accepted" => runs[Key] > 0
  /\ worker.pc \in {"triggering", "commenting"} => Alert \in Webhooked
  /\ worker.pc \in AfterHandoff =>
       IF Alert \in Webhooked
       THEN handoffs[Key] = [status |-> "completed", execution |-> worker.execution]
       ELSE worker.execution = 0
  /\ worker.pc \in {"proposing", "completing"} /\ Alert \in Webhooked /\ worker.case # NoCase
       => <<Key, worker.case>> \in notes

\* What no step undoes: a run that was started, a comment that was made.
RunsKept == \A t \in Keys : runs[t] > 0 => runs'[t] > 0
NotesKept == notes \subseteq notes'

LEMMA InitHanded == Init => LedgerInv /\ HandedInv
  BY DEF Init, LedgerInit, NoRow, Resting, LedgerInv, HandedInv, BeforeHandoff, AfterHandoff,
         At

LEMMA NextRuns == ASSUME TypeInv, [Next]_vars PROVE RunsKept
  <1> USE DEF RunsKept
  <1>1. CASE UNCHANGED runs
    BY <1>1
  <1>2. \A t \in Keys : runs[t] \in Nat
    BY DEF TypeInv, TypeOK
  <1>3. CASE ShuffleAccepts
    BY <1>2, <1>3 DEF ShuffleAccepts, TypeInv, TypeOK
  <1>4. CASE ShuffleRefuses
    BY <1>2, <1>4 DEF ShuffleRefuses, TypeInv, TypeOK
  <1>5. ASSUME NEW k \in Keys, StrayArrives(k) PROVE RunsKept
    BY <1>2, <1>5 DEF StrayArrives, TypeInv, TypeOK
  <1>6. CASE HandoffStep
    <2>1. CASE SendHandoff \/ HandoffAccepted \/ HandoffRefused \/ HandoffAmbiguous
      BY <1>1, <2>1 DEF SendHandoff, HandoffAccepted, HandoffRefused, HandoffAmbiguous,
         shuffleVars
    <2> QED BY <1>1, <1>3, <1>4, <1>6, <2>1, QuietSteps DEF HandoffStep
  <1>7. CASE HandlerStep \/ \E k \in Keys : BackoffPasses(k)
    <2>1. ASSUME NEW k \in Keys, Reconcile(k) \/ ReconcileInterrupted(k) PROVE RunsKept
      BY <1>1, <2>1 DEF Reconcile, ReconcileInterrupted, shuffleVars
    <2> QED BY <1>1, <1>7, <2>1, QuietSteps DEF HandlerStep
  <1>8. CASE EnvironmentStep \/ Restart \/ \E k \in Keys : Claim(k)
    <2>1. CASE Crash
      BY <1>1, <2>1 DEF Crash
    <2> QED BY <1>1, <1>5, <1>8, <2>1, QuietSteps DEF EnvironmentStep
  <1>9. CASE UNCHANGED vars
    BY <1>1, <1>9 DEF vars, shuffleVars
  <1> QED BY <1>1, <1>6, <1>7, <1>8, <1>9, QuietSteps
          DEF Next, WorkerStep, PipelineStep, FinishStep

LEMMA NextNotes == ASSUME TypeInv, [Next]_vars PROVE NotesKept
  <1>1. CASE UNCHANGED notes
    BY <1>1 DEF NotesKept
  <1>2. CASE Comment \/ CommentFails
    BY <1>2 DEF NotesKept, Comment, CommentFails
  <1>3. CASE IncidentStep
    BY <1>1, <1>3
    DEF IncidentStep, ReserveIncident, JoinIncident, FindNoCase, AddObservables,
        IncidentFails, FindCase, CreateCase, CaseAnswerLost, OpenCase, Settle, Only, storeVars,
        hiveVars
  <1>4. CASE \/ EnrichmentFails \/ ReportIncident \/ ReportFails
             \/ HandoffStep
             \/ Propose \/ CompleteDelivery
             \/ AuditCompletion \/ AuditCompletionFails
             \/ RecordFailure \/ AuditFailure \/ AuditFailureFails
             \/ Restart \/ Crash \/ UNCHANGED vars
             \/ \E k \in Keys : \/ Claim(k) \/ StrayArrives(k) \/ BackoffPasses(k)
    BY <1>1, <1>4
    DEF EnrichmentFails, ReportIncident, ReportFails, HandoffStep, SendHandoff, ResumeHandoff,
        SkipHandoff, ShuffleAccepts, ShuffleRefuses, HandoffAccepted, HandoffRefused,
        HandoffAmbiguous, Propose, CompleteDelivery, AuditCompletion, AuditCompletionFails,
        RecordFailure, AuditFailure, AuditFailureFails, Rest, Only, Restart, Crash, Claim,
        StrayArrives, BackoffPasses, vars, storeVars, hiveVars
  <1>5. CASE HandlerStep
    BY <1>1, <1>5 DEF HandlerStep, ReceiveAlert, Replay, Reconcile, ReconcileInterrupted,
       hiveVars
  <1> QED BY <1>2, <1>3, <1>4, <1>5
          DEF Next, WorkerStep, PipelineStep, FinishStep, EnvironmentStep, IncidentStep

LEMMA NextLedgerRows ==
  ASSUME TypeInv, OwnerInv, TriggerPending, LedgerInv, HandedInv, RunsKept, [Next]_vars
  PROVE  LedgerInv'
  <1> USE DEF LedgerInv
  <1>1. CASE UNCHANGED handoffs
    BY <1>1 DEF RunsKept, TypeInv, TypeOK
  <1>2. worker.pc \in Stages => Key \in Keys
    BY DEF TypeInv, WorkerOK
  <1>3. CASE SendHandoff
    BY <1>3 DEF SendHandoff, ReserveHandoff, RunsKept, TypeInv, TypeOK
  <1>4. CASE HandoffAccepted
    <2>1. Key \in Keys /\ runs[Key] > 0 /\ CompleteHandoff(Key, worker.execution)
          /\ handoffs[Key].status = "pending"
      BY <1>2, <1>4 DEF HandoffAccepted, HandedInv, TriggerPending, At, Stages
    <2> QED BY <2>1 DEF CompleteHandoff, Reserved, RunsKept, TypeInv, TypeOK
  <1>5. CASE HandoffRefused
    BY <1>5 DEF HandoffRefused, ReleaseHandoff, NoRow, RunsKept, TypeInv, TypeOK
  <1>6. ASSUME NEW k \in Keys, Verdict(k) PROVE LedgerInv'
    <2>1. CASE ReconcileRetry(k)
      BY <2>1 DEF ReconcileRetry, ReleaseHandoff, NoRow, RunsKept, TypeInv, TypeOK
    <2>2. ASSUME NEW e \in 1..runs[k], ReconcileCompleted(k, e) PROVE LedgerInv'
      <3>1. runs[k] \in Nat /\ runs[k] > 0
        BY <2>2 DEF TypeInv, TypeOK
      <3> QED BY <1>1, <2>2, <3>1
              DEF ReconcileCompleted, CompleteHandoff, Reserved, RunsKept, TypeInv, TypeOK
    <2> QED BY <1>6, <2>1, <2>2 DEF Verdict
  <1>7. CASE HandoffStep
    <2>1. CASE ShuffleAccepts \/ ShuffleRefuses \/ HandoffAmbiguous
      BY <1>1, <2>1 DEF ShuffleAccepts, ShuffleRefuses, HandoffAmbiguous, storeVars
    <2> QED BY <1>1, <1>3, <1>4, <1>5, <1>7, <2>1, QuietSteps DEF HandoffStep
  <1>8. CASE HandlerStep \/ \E k \in Keys : BackoffPasses(k)
    BY <1>1, <1>6, <1>8, QuietSteps DEF HandlerStep, Reconcile, ReconcileInterrupted
  <1>9. CASE EnvironmentStep \/ Restart \/ \E k \in Keys : Claim(k)
    <2>1. ASSUME NEW k \in Keys, StrayArrives(k) PROVE LedgerInv'
      BY <1>1, <2>1 DEF StrayArrives, storeVars
    <2>2. CASE Crash
      BY <1>1, <2>2 DEF Crash, storeVars
    <2> QED BY <1>1, <1>9, <2>1, <2>2, QuietSteps DEF EnvironmentStep
  <1>10. CASE UNCHANGED vars
    BY <1>1, <1>10 DEF vars, storeVars
  <1> QED BY <1>1, <1>7, <1>8, <1>9, <1>10, QuietSteps
          DEF Next, WorkerStep, PipelineStep, FinishStep

\* The facts about a trace that every step keeps for the worker that relies on them.
TraceKept == KnownStays /\ LedgerKept /\ RunsKept /\ NotesKept

LEMMA HandedStays ==
  ASSUME TypeInv, HandedInv, TraceKept, worker.pc \in Carrying, worker'.pc = worker.pc,
         worker'.key = worker.key, worker'.case = worker.case,
         worker'.execution = worker.execution, worker'.answer = worker.answer
  PROVE  HandedInv'
  <1>1. Key \in Keys /\ Key' = Key /\ Alert' = Alert
    BY HeldStays DEF TraceKept, Carrying
  <1>2. handoffs[Key].status = "completed" => handoffs'[Key] = handoffs[Key]
    BY <1>1 DEF TraceKept, LedgerKept
  <1>3. runs[Key] > 0 => runs'[Key] > 0
    BY <1>1 DEF TraceKept, RunsKept
  <1>4. <<Key, worker.case>> \in notes => <<Key, worker.case>> \in notes'
    BY DEF TraceKept, NotesKept
  <1> QED BY <1>1, <1>2, <1>3, <1>4 DEF HandedInv, At, AfterHandoff

LEMMA HandedPast == ASSUME worker'.pc \notin Carrying PROVE HandedInv'
  BY DEF HandedInv, Carrying, Stages, BeforeHandoff, AfterHandoff, At

LEMMA HandedBefore ==
  ASSUME worker'.pc \in BeforeHandoff, worker'.execution = 0, worker'.answer = "none"
  PROVE  HandedInv'
  BY DEF HandedInv, BeforeHandoff, AfterHandoff, At

LEMMA PipelineHanded == ASSUME TypeInv, HandedInv, PipelineStep PROVE HandedInv'
  <1> USE DEF At, BeforeHandoff
  <1>1. worker \in WorkerRecord
    BY DEF TypeInv, TypeOK
  <1>2. CASE EnrichmentFails \/ IncidentFails \/ ReportFails
    BY <1>1, <1>2, RaiseFields, HandedPast DEF EnrichmentFails, IncidentFails, ReportFails,
       Only, Carrying
  <1>3. worker.pc \in BeforeHandoff => worker.execution = 0 /\ worker.answer = "none"
    BY DEF HandedInv
  <1>4. CASE ReserveIncident \/ FindNoCase \/ ReportIncident
    BY <1>1, <1>3, <1>4, GoToFields, HandedBefore
    DEF ReserveIncident, FindNoCase, ReportIncident, Only, Stages
  <1>5. CASE JoinIncident
    BY <1>1, <1>3, <1>5, DecideFields, HandedBefore DEF JoinIncident, Only
  <1>6. CASE AddObservables
    BY <1>1, <1>3, <1>6, DecideFields, HandedBefore DEF AddObservables, Settle
  <1>7. ASSUME NEW c \in CaseIds, FindCase(c) PROVE HandedInv'
    BY <1>1, <1>3, <1>7, DecideFields, HandedBefore DEF FindCase, Settle
  <1>8. ASSUME NEW c \in CaseIds, CreateCase(c) PROVE HandedInv'
    BY <1>1, <1>3, <1>8, ObserveFields, HandedBefore DEF CreateCase, OpenCase
  <1> QED BY <1>2, <1>4, <1>5, <1>6, <1>7, <1>8 DEF PipelineStep

LEMMA HandoffHanded ==
  ASSUME TypeInv, TriggerPending, LedgerInv, HandedInv, KnownStays, HandoffStep
  PROVE  HandedInv'
  <1> USE DEF At, BeforeHandoff, AfterHandoff
  <1>1. worker.pc \in {"handing", "triggering"} /\ worker.pc \in Stages
    BY DEF HandoffStep, SendHandoff, ResumeHandoff, SkipHandoff, ShuffleAccepts,
           ShuffleRefuses, HandoffAccepted, HandoffRefused, HandoffAmbiguous, Stages
  <1>2. /\ worker \in WorkerRecord /\ Key \in Keys
        /\ worker'.key = worker.key => Key' = Key /\ Alert' = Alert
        /\ worker.pc = "handing" => worker.execution = 0 /\ worker.answer = "none"
        /\ worker.pc = "triggering" => Alert \in Webhooked
    BY <1>1, HeldStays DEF TypeInv, TypeOK, HandedInv
  <1>3. CASE HandoffRefused \/ HandoffAmbiguous
    BY <1>2, <1>3, RaiseFields, HandedPast DEF HandoffRefused, HandoffAmbiguous, Carrying
  <1>4. CASE SendHandoff
    <2>1. /\ worker'.pc = "triggering" /\ worker'.key = worker.key
          /\ worker'.answer = "none" /\ Alert \in Webhooked
      BY <1>2, <1>4, GoToFields DEF SendHandoff, Stages
    <2> QED BY <1>2, <2>1 DEF HandedInv
  <1>5. CASE ResumeHandoff
    <2> DEFINE prior == handoffs[Key].execution
    <2>1. CASE Raise
      BY <1>2, <2>1, RaiseFields, HandedPast DEF Carrying
    <2>2. CASE prior # 0 /\ Only(worker' = [worker EXCEPT !.pc = "commenting",
                                                           !.execution = prior])
      <3>1. /\ worker'.pc = "commenting" /\ worker'.key = worker.key
            /\ worker'.execution = handoffs[Key].execution /\ UNCHANGED handoffs
        BY <1>2, <2>2 DEF Only, WorkerRecord, storeVars
      <3>2. handoffs[Key] = [status |-> "completed", execution |-> handoffs[Key].execution]
        BY <1>2, <2>2 DEF LedgerInv, TypeInv, TypeOK, HandoffRow
      <3>3. Alert \in Webhooked
        BY <1>5 DEF ResumeHandoff
      <3> QED BY <1>2, <3>1, <3>2, <3>3 DEF HandedInv
    <2> QED BY <1>5, <2>1, <2>2 DEF ResumeHandoff, Only
  <1>6. CASE SkipHandoff
    <2>1. /\ worker'.pc = "proposing" /\ worker'.key = worker.key
          /\ worker'.execution = worker.execution /\ worker.pc = "handing"
          /\ Alert \notin Webhooked
      BY <1>2, <1>6, GoToFields DEF SkipHandoff, Only, Stages
    <2> QED BY <1>2, <2>1 DEF HandedInv
  <1>7. CASE ShuffleAccepts
    <2>1. worker.pc = "triggering" /\ worker'.pc = worker.pc /\ worker'.key = worker.key
      BY <1>2, <1>7 DEF ShuffleAccepts, WorkerRecord
    <2>2. runs'[Key] > 0
      BY <1>2, <1>7 DEF ShuffleAccepts, TypeInv, TypeOK
    <2> QED BY <1>2, <2>1, <2>2 DEF HandedInv
  <1>8. CASE ShuffleRefuses
    <2>1. worker.pc = "triggering" /\ worker'.pc = worker.pc /\ worker'.key = worker.key
          /\ worker'.answer = "refused"
      BY <1>2, <1>8 DEF ShuffleRefuses, WorkerRecord
    <2> QED BY <1>2, <2>1 DEF HandedInv
  <1>9. CASE HandoffAccepted
    <2>1. /\ worker.pc = "triggering" /\ worker'.pc = "commenting"
          /\ worker'.key = worker.key /\ worker'.execution = worker.execution
      BY <1>2, <1>9 DEF HandoffAccepted, WorkerRecord
    <2>2. handoffs'[Key] = [status |-> "completed", execution |-> worker.execution]
      BY <1>2, <1>9 DEF HandoffAccepted, CompleteHandoff, Reserved, TriggerPending, TypeInv,
         TypeOK
    <2> QED BY <1>2, <2>1, <2>2 DEF HandedInv
  <1> QED BY <1>3, <1>4, <1>5, <1>6, <1>7, <1>8, <1>9 DEF HandoffStep

LEMMA FinishHanded ==
  ASSUME TypeInv, HandedInv, KnownStays, FinishStep
  PROVE  HandedInv'
  <1> USE DEF At, AfterHandoff, BeforeHandoff
  <1>1. worker \in WorkerRecord
    BY DEF TypeInv, TypeOK
  <1>2. CASE CommentFails \/ AuditCompletionFails
    BY <1>1, <1>2, RaiseFields, HandedPast
    DEF CommentFails, AuditCompletionFails, Only, Carrying
  <1>3. CASE CompleteDelivery \/ RecordFailure
    BY <1>3, SettleRows, HandedPast DEF Carrying
  <1>4. CASE AuditCompletion \/ AuditFailure \/ AuditFailureFails
    BY <1>4, RestFields, HandedPast
    DEF AuditCompletion, AuditFailure, AuditFailureFails, Rest, Only, Die, Carrying, Stages
  <1>5. CASE Comment
    <2>1. /\ worker.pc = "commenting" /\ worker'.pc = "proposing"
          /\ worker'.key = worker.key /\ worker'.case = worker.case
          /\ worker'.execution = worker.execution /\ UNCHANGED handoffs
          /\ worker.case # NoCase => <<Key, worker.case>> \in notes'
      BY <1>1, <1>5, GoToFields DEF Comment, Stages, storeVars
    <2>2. Key' = Key /\ Alert' = Alert
      BY <2>1, HeldStays DEF Stages
    <2> QED BY <2>1, <2>2 DEF HandedInv
  <1>6. CASE Propose
    <2>1. /\ worker.pc = "proposing" /\ worker'.pc = "completing"
          /\ worker'.key = worker.key /\ worker'.case = worker.case
          /\ worker'.execution = worker.execution /\ UNCHANGED <<handoffs, notes>>
      BY <1>1, <1>6, GoToFields DEF Propose, Stages, hiveVars
    <2>2. Key' = Key /\ Alert' = Alert
      BY <2>1, HeldStays DEF Stages
    <2> QED BY <2>1, <2>2 DEF HandedInv
  <1> QED BY <1>2, <1>3, <1>4, <1>5, <1>6 DEF FinishStep

LEMMA NextHanded ==
  ASSUME TypeInv, TriggerPending, LedgerInv, HandedInv, TraceKept, [Next]_vars
  PROVE  HandedInv'
  <1>1. CASE UNCHANGED worker
    BY <1>1, HandedStays, HandedPast
  <1>2. ASSUME NEW k \in Keys, Claim(k) PROVE HandedInv'
    BY <1>2, HandedBefore DEF Claim, Resting, BeforeHandoff
  <1>3. CASE Restart \/ Crash \/ \E k \in Keys : ReconcileInterrupted(k)
    BY <1>3, RestFields, HandedPast DEF Restart, Crash, ReconcileInterrupted, Die, Carrying,
       Stages
  <1>4. CASE HandlerStep \/ \E k \in Keys : BackoffPasses(k)
    BY <1>1, <1>3, <1>4 DEF HandlerStep, ReceiveAlert, Replay, Reconcile, BackoffPasses
  <1>5. CASE EnvironmentStep \/ UNCHANGED vars
    BY <1>1, <1>3, <1>5 DEF EnvironmentStep, CaseAnswerLost, StrayArrives, vars
  <1> QED BY <1>2, <1>3, <1>4, <1>5, PipelineHanded, HandoffHanded, FinishHanded
          DEF Next, WorkerStep, TraceKept

------------------------------------------------------------------------------
(* The proposal to a human.                                                  *)

ProposalInv ==
  /\ \A k \in Keys : proposals[k] # NoCase => Known(k)
  /\ ProposalIsGrounded
  /\ At("completing") /\ Alert \in AccountActivity /\ worker.case # NoCase =>
       proposals[Key] = worker.case

LEMMA InitProposal == Init => ProposalInv
  BY DEF Init, Resting, ProposalInv, ProposalIsGrounded, At

\* A proposal is recorded by one action, which is also the only way to "completing".
LEMMA OnlyPropose ==
  ASSUME TypeInv, [Next]_vars, ~Propose
  PROVE  UNCHANGED proposals /\ (UNCHANGED worker \/ worker'.pc # "completing")
  <1>1. worker \in WorkerRecord
    BY DEF TypeInv, TypeOK
  <1>2. CASE PipelineStep
    <2>1. UNCHANGED proposals
      BY <1>2 DEF PipelineStep, EnrichmentFails, ReserveIncident, JoinIncident, FindNoCase,
         AddObservables, IncidentFails, ReportIncident, ReportFails, FindCase, CreateCase,
         Settle, OpenCase, Only, storeVars
    <2>2. CASE EnrichmentFails \/ IncidentFails \/ ReportFails
      BY <1>1, <2>1, <2>2, RaiseFields DEF EnrichmentFails, IncidentFails, ReportFails, Only
    <2>3. CASE ReserveIncident \/ FindNoCase \/ ReportIncident
      BY <1>1, <2>1, <2>3, GoToFields DEF ReserveIncident, FindNoCase, ReportIncident, Only,
         Stages
    <2>4. ASSUME JoinIncident PROVE worker'.pc = "reporting"
      BY <1>1, <2>4, DecideFields DEF JoinIncident, Only
    <2>5. ASSUME AddObservables PROVE worker'.pc = "reporting"
      BY <1>1, <2>5, DecideFields DEF AddObservables, Settle
    <2>6. ASSUME NEW c \in CaseIds, FindCase(c) PROVE worker'.pc = "found"
      BY <1>1, <2>6, DecideFields DEF FindCase, Settle
    <2>7. ASSUME NEW c \in CaseIds, CreateCase(c) PROVE worker'.pc = "observing"
      BY <1>1, <2>7, ObserveFields DEF CreateCase
    <2> QED BY <1>2, <2>1, <2>2, <2>3, <2>4, <2>5, <2>6, <2>7 DEF PipelineStep
  <1>3. CASE HandoffStep
    <2>1. UNCHANGED proposals
      BY <1>3 DEF HandoffStep, SendHandoff, ResumeHandoff, SkipHandoff, ShuffleAccepts,
         ShuffleRefuses, HandoffAccepted, HandoffRefused, HandoffAmbiguous, Only, storeVars
    <2>2. CASE HandoffRefused \/ HandoffAmbiguous
      BY <1>1, <2>1, <2>2, RaiseFields DEF HandoffRefused, HandoffAmbiguous
    <2>3. CASE SendHandoff \/ SkipHandoff
      BY <1>1, <2>1, <2>3, GoToFields DEF SendHandoff, SkipHandoff, Only, Stages
    <2>4. CASE ResumeHandoff
      <3>1. Raise \/ worker' = [worker EXCEPT !.pc = "commenting",
                                              !.execution = handoffs[Key].execution]
        BY <2>4 DEF ResumeHandoff, Only
      <3> QED BY <1>1, <2>1, <3>1, RaiseFields DEF WorkerRecord
    <2>5. CASE ShuffleAccepts \/ ShuffleRefuses \/ HandoffAccepted
      BY <1>1, <2>1, <2>5 DEF ShuffleAccepts, ShuffleRefuses, HandoffAccepted, WorkerRecord, At
    <2> QED BY <1>3, <2>2, <2>3, <2>4, <2>5 DEF HandoffStep
  <1>4. CASE FinishStep
    <2>1. UNCHANGED proposals
      BY <1>4 DEF FinishStep, Comment, CommentFails, CompleteDelivery, AuditCompletion,
         AuditCompletionFails, RecordFailure, AuditFailure, AuditFailureFails, Rest, Only,
         storeVars
    <2>2. CASE Comment
      BY <1>1, <2>1, <2>2, GoToFields DEF Comment, Stages
    <2>3. CASE CommentFails \/ AuditCompletionFails
      BY <1>1, <2>1, <2>3, RaiseFields DEF CommentFails, AuditCompletionFails, Only
    <2>4. CASE CompleteDelivery \/ RecordFailure
      BY <2>1, <2>4, SettleRows
    <2>5. CASE AuditCompletion \/ AuditFailure \/ AuditFailureFails
      BY <2>1, <2>5, RestFields DEF AuditCompletion, AuditFailure, AuditFailureFails, Rest,
         Only, Die
    <2> QED BY <1>4, <2>2, <2>3, <2>4, <2>5 DEF FinishStep
  <1>5. ASSUME NEW k \in Keys, Claim(k) PROVE UNCHANGED proposals /\ worker'.pc = "enriching"
    BY <1>5 DEF Claim, Resting
  <1>6. CASE HandlerStep \/ Restart \/ \E k \in Keys : BackoffPasses(k)
    BY <1>6, RestFields
    DEF HandlerStep, ReceiveAlert, Replay, Reconcile, ReconcileInterrupted, BackoffPasses,
        Restart, Die
  <1>7. CASE EnvironmentStep \/ UNCHANGED vars
    BY <1>7, RestFields
    DEF EnvironmentStep, Crash, CaseAnswerLost, OpenCase, StrayArrives, vars, storeVars
  <1> QED BY <1>2, <1>3, <1>4, <1>5, <1>6, <1>7 DEF Next, WorkerStep

\* A row with a case is settled: the worker's reservation has none.
LEMMA CaseSettled ==
  ASSUME ReservationInv, NEW f \in Fingerprints, incidents[f].case # NoCase
  PROVE  Settled(f) /\ cases[incidents[f].case].tag = f
  BY DEF ReservationInv, Settled

LEMMA ProposalStays ==
  ASSUME TypeInv, ReservationInv, ProposalInv, TraceKept, SettledKept, TagsKept,
         NEW k \in Keys, proposals[k] # NoCase, proposals'[k] = proposals[k]
  PROVE  /\ Known(k)'
         /\ LET a == deliveries'[k].alert
            IN  /\ a \in AccountActivity
                /\ incidents'[FingerprintOf[a]].case = proposals'[k]
                /\ cases'[proposals'[k]].tag = FingerprintOf[a]
                /\ a \in Webhooked => handoffs'[k].status = "completed"
  <1> DEFINE a == deliveries[k].alert
             f == FingerprintOf[a]
  <1>1. /\ Known(k) /\ a \in AccountActivity /\ incidents[f].case = proposals[k]
        /\ cases[proposals[k]].tag = f
        /\ a \in Webhooked => handoffs[k].status = "completed"
    BY DEF ProposalInv, ProposalIsGrounded
  <1>2. Known(k)' /\ deliveries'[k].alert = a
    BY <1>1 DEF TraceKept, KnownStays
  <1>3. f \in Fingerprints /\ proposals[k] \in CaseIds
    BY <1>1, AlertAssumption DEF TypeInv, TypeOK, RowsOK
  <1>4. incidents'[f] = incidents[f]
    BY <1>1, <1>3, CaseSettled DEF SettledKept
  <1>5. cases'[proposals[k]].tag = f
    BY <1>1, <1>3, NullAssumption DEF TagsKept
  <1>6. a \in Webhooked => handoffs'[k].status = "completed"
    BY <1>1 DEF TraceKept, LedgerKept
  <1> QED BY <1>1, <1>2, <1>4, <1>5, <1>6

LEMMA NextProposal ==
  ASSUME TypeInv, IncidentInv, HandedInv, ProposalInv, TraceKept, SettledKept, TagsKept,
         [Next]_vars
  PROVE  ProposalInv'
  <1>1. ASSUME UNCHANGED proposals, UNCHANGED worker \/ worker'.pc # "completing"
        PROVE  ProposalInv'
    <2>1. worker.pc = "completing" /\ UNCHANGED worker => Key' = Key /\ Alert' = Alert
      BY HeldStays DEF Stages, TraceKept
    <2>2. UNCHANGED proposals
      BY <1>1
    <2>3. At("completing")' => At("completing") /\ UNCHANGED worker
      BY <1>1 DEF At
    <2> QED BY <2>1, <2>2, <2>3, ProposalStays DEF ProposalInv, ProposalIsGrounded, At,
            IncidentInv
  <1>2. CASE Propose
    <2>1. /\ worker.pc = "proposing" /\ worker.pc \in Stages /\ worker'.pc = "completing"
          /\ worker'.key = worker.key /\ worker'.case = worker.case
          /\ UNCHANGED <<deliveries, handoffs, incidents, cases>>
      BY <1>2, GoToFields DEF Propose, At, Stages, TypeInv, TypeOK, hiveVars
    <2>2. Key \in Keys /\ Known(Key) /\ Alert \in Alerts /\ Tag \in Fingerprints
          /\ Key' = Key /\ Alert' = Alert
      BY <2>1, HeldStays DEF TraceKept
    <2>3. worker.case = incidents[Tag].case
      BY <2>1 DEF IncidentInv, DecisionInv, Decided
    <2>4. /\ \A k \in Keys \ {Key} : proposals'[k] = proposals[k]
          /\ IF Alert \in AccountActivity /\ worker.case # NoCase /\ proposals[Key] = NoCase
             THEN proposals'[Key] = worker.case
             ELSE proposals'[Key] = proposals[Key]
      BY <1>2, <2>2 DEF Propose, TypeInv, TypeOK
    <2>5. \A k \in Keys : proposals[k] # NoCase => proposals'[k] = proposals[k]
      BY <2>4
    <2>6. ASSUME proposals[Key] = NoCase, proposals'[Key] # NoCase
          PROVE  /\ Alert \in AccountActivity /\ incidents[Tag].case = proposals'[Key]
                 /\ cases[proposals'[Key]].tag = Tag
                 /\ Alert \in Webhooked => handoffs[Key].status = "completed"
      <3>1. Alert \in AccountActivity /\ worker.case # NoCase /\ proposals'[Key] = worker.case
        BY <2>4, <2>6
      <3>2. cases[worker.case].tag = Tag
        BY <2>2, <2>3, <3>1, CaseSettled DEF IncidentInv
      <3>3. Alert \in Webhooked => handoffs[Key].status = "completed"
        BY <2>1 DEF HandedInv, AfterHandoff
      <3> QED BY <2>3, <3>1, <3>2, <3>3
    <2>7. Alert \in AccountActivity /\ worker.case # NoCase => proposals'[Key] = worker.case
      <3>1. proposals[Key] # NoCase => proposals[Key] = incidents[Tag].case
        BY <2>2 DEF ProposalInv, ProposalIsGrounded, Alert, Tag
      <3> QED BY <2>3, <2>4, <3>1
    <2>8. ASSUME NEW k \in Keys, proposals'[k] # NoCase
          PROVE  /\ Known(k)'
                 /\ LET a == deliveries'[k].alert
                    IN  /\ a \in AccountActivity
                        /\ incidents'[FingerprintOf[a]].case = proposals'[k]
                        /\ cases'[proposals'[k]].tag = FingerprintOf[a]
                        /\ a \in Webhooked => handoffs'[k].status = "completed"
      <3>1. CASE proposals[k] # NoCase
        BY <2>5, <3>1, ProposalStays DEF IncidentInv
      <3>2. CASE proposals[k] = NoCase
        <4>1. k = Key
          BY <2>4, <2>8, <3>2
        <4> QED BY <2>1, <2>2, <2>6, <2>8, <3>2, <4>1 DEF Alert, Tag, Known
      <3> QED BY <3>1, <3>2
    <2> QED BY <2>1, <2>2, <2>7, <2>8 DEF ProposalInv, ProposalIsGrounded
  <1> QED BY <1>1, <1>2, OnlyPropose

------------------------------------------------------------------------------
(* The result of a delivery.                                                 *)

\* The transactions of the store that leave the result column alone.
Keeps(k) == /\ deliveries'[k].result = deliveries[k].result
            /\ deliveries'[k].status = "completed" => deliveries[k].status = "completed"
\* A key stored for the first time.
Fresh(k) == /\ ~Known(k)
            /\ deliveries'[k].result = NoResult /\ deliveries'[k].status = "queued"

LEMMA ClaimKeeps ==
  ASSUME DeliveriesOK, NEW k \in Keys, ClaimDue(k) PROVE \A j \in Keys : Keeps(j)
  <1> DEFINE d == deliveries[k]
             n == d.attempts + 1
             row == [d EXCEPT !.status = "processing", !.attempts = n]
  <1>1. Write(k, row) /\ d \in DeliveryRow
    BY DEF ClaimDue, DeliveriesOK
  <1> HIDE DEF n
  <1> HIDE DEF d
  <1>2. row.status = "processing" /\ row.result = d.result
    BY <1>1 DEF DeliveryRow
  <1> USE DEF d
  <1> HIDE DEF row
  <1> QED BY <1>1, <1>2 DEF DeliveriesOK, Write, Keeps

LEMMA FailKeeps ==
  ASSUME DeliveriesOK, NEW k \in Keys, Fail(k) PROVE \A j \in Keys : Keeps(j)
  <1> DEFINE d == deliveries[k]
             due == Exhausted(k)
             status == IF due THEN "failed" ELSE "retrying"
             row == [d EXCEPT !.status = status, !.due = due, !.lastError = "failure"]
  <1>1. Write(k, row) /\ d \in DeliveryRow /\ status # "completed"
    BY DEF Fail, DeliveriesOK
  <1> HIDE DEF due, status
  <1> HIDE DEF d
  <1>2. row.status = status /\ row.result = d.result
    BY <1>1 DEF DeliveryRow
  <1> USE DEF d
  <1> HIDE DEF row
  <1> QED BY <1>1, <1>2 DEF DeliveriesOK, Write, Keeps

LEMMA RequeueKeeps ==
  ASSUME DeliveriesOK, NEW k \in Keys, Requeue(k) PROVE \A j \in Keys : Keeps(j)
  <1> DEFINE d == deliveries[k]
             row == [d EXCEPT !.status = "queued", !.attempts = 0, !.due = TRUE,
                              !.lastError = "none"]
  <1>1. Write(k, row) /\ d \in DeliveryRow
    BY DEF Requeue, DeliveriesOK
  <1> HIDE DEF d
  <1>2. row.status = "queued" /\ row.result = d.result
    BY <1>1 DEF DeliveryRow
  <1> USE DEF d
  <1> HIDE DEF row
  <1> QED BY <1>1, <1>2 DEF DeliveriesOK, Write, Keeps

LEMMA BackoffKeeps ==
  ASSUME DeliveriesOK, NEW k \in Keys, BackoffElapses(k) PROVE \A j \in Keys : Keeps(j)
  <1> DEFINE d == deliveries[k]
             row == [d EXCEPT !.due = TRUE]
  <1>1. Write(k, row) /\ d \in DeliveryRow
    BY DEF BackoffElapses, DeliveriesOK
  <1> HIDE DEF d
  <1>2. row.status = d.status /\ row.result = d.result
    BY <1>1 DEF DeliveryRow
  <1> USE DEF d
  <1> HIDE DEF row
  <1> QED BY <1>1, <1>2 DEF DeliveriesOK, Write, Keeps

LEMMA RecoverKeeps ==
  ASSUME DeliveriesOK, RecoverProcessing PROVE \A j \in Keys : Keeps(j)
  <1> DEFINE row(d) == [d EXCEPT !.status = "retrying", !.due = TRUE,
                                 !.lastError = "worker_restart"]
  <1>1. \A d \in DeliveryRow : row(d).status = "retrying" /\ row(d).result = d.result
    BY DEF DeliveryRow
  <1>2. \A j \in Keys : deliveries'[j] = IF deliveries[j].status = "processing"
                                         THEN row(deliveries[j]) ELSE deliveries[j]
    BY DEF RecoverProcessing
  <1> HIDE DEF row
  <1> QED BY <1>1, <1>2 DEF DeliveriesOK, Keeps

LEMMA EnqueueFresh ==
  ASSUME DeliveriesOK, NEW k \in Keys, NEW a \in Alerts, Enqueue(k, a)
  PROVE  Fresh(k) /\ \A j \in Keys \ {k} : Keeps(j)
  BY DEF DeliveriesOK, Enqueue, Write, Vacant, Fresh, Keeps

LEMMA CompleteStores ==
  ASSUME DeliveriesOK, NEW k \in Keys, NEW r, Complete(k, r)
  PROVE  /\ deliveries'[k].result = r
         /\ \A j \in Keys \ {k} : deliveries'[j] = deliveries[j]
  <1> DEFINE d == deliveries[k]
             row == [d EXCEPT !.status = "completed", !.result = r,
                              !.lastError = "none", !.due = TRUE]
  <1>1. Write(k, row) /\ d \in DeliveryRow
    BY DEF Complete, DeliveriesOK
  <1> HIDE DEF d
  <1>2. row.result = r
    BY <1>1 DEF DeliveryRow
  <1> HIDE DEF row
  <1> QED BY <1>1, <1>2 DEF DeliveriesOK, Write

\* A result is stored by one action.
LEMMA OnlyComplete ==
  ASSUME TypeInv, [Next]_vars, ~CompleteDelivery
  PROVE  \A k \in Keys : Keeps(k) \/ Fresh(k)
  <1>1. DeliveriesOK /\ (worker.pc \in Stages => Key \in Keys)
    BY DEF TypeInv, TypeOK, DeliveriesOK, WorkerOK
  <1>2. ASSUME UNCHANGED deliveries PROVE \A k \in Keys : Keeps(k)
    BY <1>2 DEF Keeps
  <1>3. CASE PipelineStep \/ HandoffStep
    BY <1>2, <1>3, PipelineSteady, HandoffSteady DEF Steady
  <1>4. CASE FinishStep
    <2>1. CASE RecordFailure
      <3>1. Fail(Key) /\ Key \in Keys
        BY <1>1, <2>1 DEF RecordFailure, At, Stages
      <3> QED BY <1>1, <3>1, FailKeeps
    <2> QED BY <1>2, <1>4, <2>1, FinishSteady DEF FinishStep, Steady
  <1>5. ASSUME NEW k \in Keys, Claim(k) PROVE \A j \in Keys : Keeps(j)
    BY <1>1, <1>5, ClaimKeeps DEF Claim
  <1>6. ASSUME NEW k \in Keys, NEW a \in Alerts, ReceiveAlert(k, a)
        PROVE  \A j \in Keys : Keeps(j) \/ Fresh(j)
    BY <1>1, <1>2, <1>6, EnqueueFresh DEF ReceiveAlert
  <1>7. ASSUME NEW k \in Keys, Replay(k) \/ Reconcile(k) PROVE \A j \in Keys : Keeps(j)
    BY <1>1, <1>7, RequeueKeeps DEF Replay, Reconcile
  <1>8. ASSUME NEW k \in Keys, BackoffPasses(k) PROVE \A j \in Keys : Keeps(j)
    BY <1>1, <1>8, BackoffKeeps DEF BackoffPasses
  <1>9. CASE Restart
    BY <1>1, <1>9, RecoverKeeps DEF Restart
  <1>10. CASE EnvironmentStep \/ UNCHANGED vars \/ \E k \in Keys : ReconcileInterrupted(k)
    BY <1>2, <1>10, EnvironmentQuiet DEF Quiet, Steady
  <1> QED BY <1>3, <1>4, <1>5, <1>6, <1>7, <1>8, <1>9, <1>10 DEF Next, WorkerStep, HandlerStep

HasResult(k) == deliveries[k].status = "completed" \/ deliveries[k].result # NoResult

\* A stored result is what the tables and the services say of its delivery, and the
\* row of its incident is not an open reservation, so it will stay that way.
Backed(k) ==
  LET a == deliveries[k].alert
      r == deliveries[k].result
  IN  /\ Known(k) /\ r \in Results
      /\ Settled(FingerprintOf[a])
      /\ r.incident = incidents[FingerprintOf[a]].case
      /\ CompletedFor(k, a, r)
      /\ a \notin Webhooked => r.execution = 0

ResultInv == \A k \in Keys : HasResult(k) => Backed(k)

ProposalsKept == \A k \in Keys : proposals[k] # NoCase => proposals'[k] = proposals[k]
ResultKept == \A k \in Keys : deliveries[k].result # NoResult =>
                /\ deliveries'[k].result.incident = deliveries[k].result.incident
                /\ deliveries'[k].result.execution = deliveries[k].result.execution

LEMMA InitResult == Init => ResultInv
  <1> SUFFICES ASSUME Init, NEW k \in Keys PROVE ~HasResult(k)
    BY DEF ResultInv
  <1>1. deliveries[k] = Vacant
    BY DEF Init, StoreInit
  <1> QED BY <1>1 DEF Vacant, HasResult

LEMMA NextProposals == ASSUME TypeInv, [Next]_vars PROVE ProposalsKept
  <1>1. CASE Propose
    BY <1>1 DEF Propose, ProposalsKept, TypeInv, TypeOK
  <1> QED BY <1>1, OnlyPropose DEF ProposalsKept

\* Backed in the next state, from facts about that state.
LEMMA BackedNext ==
  ASSUME NEW k \in Keys, NEW a, NEW r \in Results, NEW f, f = FingerprintOf[a],
         Known(k)', deliveries'[k].alert = a, deliveries'[k].result = r,
         Settled(f)', r.incident = incidents'[f].case,
         IF a \in Webhooked
         THEN handoffs'[k] = [status |-> "completed", execution |-> r.execution]
              /\ runs'[k] > 0
         ELSE r.execution = 0,
         r.incident # NoCase => /\ cases'[r.incident].tag = f
                                /\ a \in Webhooked => <<k, r.incident>> \in notes'
                                /\ a \in AccountActivity => proposals'[k] = r.incident
  PROVE  Backed(k)'
  BY DEF Backed, CompletedFor

LEMMA BackedStays ==
  ASSUME TypeInv, TraceKept, SettledKept, TagsKept, ProposalsKept,
         NEW k \in Keys, Backed(k), deliveries'[k].result = deliveries[k].result
  PROVE  Backed(k)'
  <1> SUFFICES ASSUME NEW a, NEW r, NEW f, a = deliveries[k].alert,
                      r = deliveries[k].result, f = FingerprintOf[a]
               PROVE  Backed(k)'
    OBVIOUS
  <1>1. /\ Known(k) /\ r \in Results /\ Settled(f) /\ r.incident = incidents[f].case
        /\ CompletedFor(k, a, r) /\ (a \notin Webhooked => r.execution = 0)
    BY DEF Backed
  <1>2. Known(k)' /\ deliveries'[k].alert = a
    BY <1>1 DEF TraceKept, KnownStays
  <1>3. f \in Fingerprints /\ (r.incident # NoCase => r.incident \in CaseIds)
    BY <1>1, AlertAssumption DEF TypeInv, RowsOK, Results
  <1>4. Settled(f)' /\ incidents'[f] = incidents[f]
    BY <1>1, <1>3 DEF SettledKept
  <1>5. a \in Webhooked =>
          handoffs'[k] = [status |-> "completed", execution |-> r.execution] /\ runs'[k] > 0
    BY <1>1 DEF CompletedFor, TraceKept, LedgerKept, RunsKept
  <1>6. ASSUME r.incident # NoCase
        PROVE  /\ cases'[r.incident].tag = f
               /\ a \in Webhooked => <<k, r.incident>> \in notes'
               /\ a \in AccountActivity => proposals'[k] = r.incident
    BY <1>1, <1>3, <1>6, NullAssumption
    DEF CompletedFor, TagsKept, TraceKept, NotesKept, ProposalsKept
  <1> QED BY <1>1, <1>2, <1>4, <1>5, <1>6, BackedNext

LEMMA CompletionBacked ==
  ASSUME TypeInv, IncidentInv, LedgerInv, HandedInv, ProposalInv, TraceKept,
         CompleteDelivery, NEW k, k = Key, NEW f, f = Tag
  PROVE  /\ k \in Keys /\ Backed(k)'
         /\ deliveries'[k].result.incident = incidents[f].case
         /\ deliveries'[k].result.execution = worker.execution
         /\ \A j \in Keys \ {k} : deliveries'[j] = deliveries[j]
  <1> SUFFICES ASSUME NEW a, NEW r, a = Alert, r = Result
               PROVE  /\ k \in Keys /\ Backed(k)'
                      /\ deliveries'[k].result.incident = incidents[f].case
                      /\ deliveries'[k].result.execution = worker.execution
                      /\ \A j \in Keys \ {k} : deliveries'[j] = deliveries[j]
    OBVIOUS
  <1>1. /\ worker.pc = "completing" /\ Complete(k, r) /\ GoTo("auditing")
        /\ UNCHANGED <<handoffs, incidents, proposals, cases, notes, runs>>
    BY DEF CompleteDelivery, At, hiveVars, shuffleVars
  <1>2. worker'.pc = "auditing"
    BY <1>1, GoToFields DEF TypeInv, TypeOK, Stages
  <1>3. k \in Keys /\ Known(k) /\ a \in Alerts /\ f \in Fingerprints /\ f = FingerprintOf[a]
    BY <1>1, HeldStays DEF Stages, TraceKept, Tag
  <1>4. Known(k)' /\ deliveries'[k].alert = a
    BY <1>3 DEF TraceKept, KnownStays, Alert
  <1>5. deliveries'[k].result = r /\ \A j \in Keys \ {k} : deliveries'[j] = deliveries[j]
    BY <1>1, <1>3, CompleteStores DEF TypeInv, TypeOK, DeliveriesOK
  <1>6. r \in Results /\ r.incident = worker.case /\ r.execution = worker.execution
    <2>1. /\ worker.disposition \in Dispositions
          /\ worker.case \in CaseIds \cup {NoCase} /\ worker.execution \in Nat
      BY <1>1 DEF TypeInv, TypeOK, WorkerOK, WorkerRecord, Decided
    <2> QED BY <2>1 DEF Result, Results
  <1>7. incidents[f].present /\ worker.case = incidents[f].case
    BY <1>1 DEF IncidentInv, DecisionInv, Decided
  <1>8. Settled(f)'
    BY <1>1, <1>2, <1>7 DEF Settled, Reserving, Reserves
  <1>9. IF a \in Webhooked
        THEN handoffs[k] = [status |-> "completed", execution |-> worker.execution]
             /\ runs[k] > 0
        ELSE worker.execution = 0
    <2>1. IF a \in Webhooked
          THEN handoffs[k] = [status |-> "completed", execution |-> worker.execution]
          ELSE worker.execution = 0
      BY <1>1 DEF HandedInv, AfterHandoff
    <2> QED BY <1>3, <2>1 DEF LedgerInv
  <1>10. ASSUME worker.case # NoCase
         PROVE  /\ cases[worker.case].tag = f
                /\ a \in Webhooked => <<k, worker.case>> \in notes
                /\ a \in AccountActivity => proposals[k] = worker.case
    <2>1. cases[worker.case].tag = f
      BY <1>3, <1>7, <1>10, CaseSettled DEF IncidentInv
    <2> QED BY <1>1, <1>10, <2>1 DEF HandedInv, ProposalInv, At
  <1>11. Backed(k)'
    BY <1>1, <1>3, <1>4, <1>5, <1>6, <1>7, <1>8, <1>9, <1>10, BackedNext
  <1> QED BY <1>3, <1>5, <1>6, <1>7, <1>11

LEMMA NextResult ==
  ASSUME TypeInv, IncidentInv, LedgerInv, HandedInv, ProposalInv, ResultInv, TraceKept,
         SettledKept, TagsKept, ProposalsKept, [Next]_vars
  PROVE  ResultInv' /\ ResultKept
  <1>1. ASSUME NEW k \in Keys, Keeps(k)
        PROVE  /\ HasResult(k)' => Backed(k)'
               /\ deliveries'[k].result = deliveries[k].result
    <2>1. HasResult(k)' => HasResult(k)
      BY <1>1 DEF HasResult, Keeps
    <2> QED BY <1>1, <2>1, BackedStays DEF Keeps, ResultInv
  <1>2. ASSUME NEW k \in Keys, Fresh(k)
        PROVE  ~HasResult(k)' /\ deliveries[k].result = NoResult
    BY <1>2 DEF Fresh, ResultInv, HasResult, Backed
  <1>3. CASE ~CompleteDelivery
    BY <1>1, <1>2, <1>3, OnlyComplete DEF ResultInv, ResultKept
  <1>4. CASE CompleteDelivery
    <2>1. PICK k, f : k = Key /\ f = Tag
      OBVIOUS
    <2>2. /\ k \in Keys /\ Backed(k)'
          /\ deliveries'[k].result.incident = incidents[f].case
          /\ deliveries'[k].result.execution = worker.execution
          /\ \A j \in Keys \ {k} : deliveries'[j] = deliveries[j]
      BY <1>4, <2>1, CompletionBacked
    <2>3. ASSUME deliveries[k].result # NoResult
          PROVE  /\ deliveries[k].result.incident = incidents[f].case
                 /\ deliveries[k].result.execution = worker.execution
      <3>1. Backed(k)
        BY <2>2, <2>3 DEF ResultInv, HasResult
      <3>2. worker.pc = "completing"
        BY <1>4 DEF CompleteDelivery, At
      <3>3. IF Alert \in Webhooked
            THEN handoffs[k] = [status |-> "completed", execution |-> worker.execution]
            ELSE worker.execution = 0
        BY <2>1, <3>2 DEF HandedInv, AfterHandoff
      <3>4. IF Alert \in Webhooked
            THEN handoffs[k].execution = deliveries[k].result.execution
            ELSE deliveries[k].result.execution = 0
        BY <2>1, <3>1 DEF Backed, CompletedFor, Alert
      <3>5. deliveries[k].result.incident = incidents[f].case
        BY <2>1, <3>1 DEF Backed, Alert, Tag
      <3> QED BY <3>3, <3>4, <3>5
    <2>4. \A j \in Keys \ {k} : Keeps(j)
      BY <2>2 DEF Keeps
    <2> QED BY <1>1, <2>2, <2>3, <2>4 DEF ResultInv, ResultKept
  <1> QED BY <1>3, <1>4

WorkInv == /\ TypeInv /\ OwnerInv /\ TriggerPending
           /\ IncidentInv /\ LedgerInv /\ HandedInv /\ ProposalInv /\ ResultInv

LEMMA InitWork == Init => WorkInv
  BY InitType, InitOwner, InitIncident, InitHanded, InitProposal, InitResult
  DEF Init, Resting, TriggerPending, At, WorkInv

LEMMA NextWork == ASSUME WorkInv, [Next]_vars PROVE WorkInv' /\ ResultKept
  <1> USE DEF WorkInv
  <1>1. TypeInv' /\ OwnerInv' /\ TriggerPending' /\ TraceKept
    BY NextType, NextOwner, NextKeeps, NextLedger, NextRuns, NextNotes DEF TraceKept
  <1>2. IncidentInv' /\ SettledKept /\ TagsKept
    BY NextIncident
  <1>3. LedgerInv' /\ HandedInv'
    BY <1>1, NextLedgerRows, NextHanded DEF TraceKept
  <1>4. ProposalInv' /\ ProposalsKept
    BY <1>1, <1>2, NextProposal, NextProposals
  <1>5. ResultInv' /\ ResultKept
    BY <1>1, <1>2, <1>4, NextResult
  <1> QED BY <1>1, <1>2, <1>3, <1>4, <1>5

LEMMA AlwaysWork == Spec => []WorkInv
  BY InitWork, NextWork, PTL DEF Spec

\* A delivery reported as completed has done its work outside, whatever failed, crashed
\* or was replayed on the way: its workflow ran and is recorded under the id it reports,
\* its case has its fingerprint and the comment, and its proposal is for that case
\* (process_once reaches store.complete only after each of these has returned).
THEOREM CompletedWorkDone == Spec => []CompletedWorkIsReal
  <1>1. WorkInv => CompletedWorkIsReal
    BY DEF WorkInv, ResultInv, HasResult, Backed, CompletedWorkIsReal
  <1> QED BY <1>1, AlwaysWork, PTL

\* A proposal is made only for account activity, for the case its fingerprint has, and
\* after the handoff is on record; later steps keep all three (approvals.create_once).
THEOREM ProposalsGrounded == Spec => []ProposalIsGrounded
  <1>1. WorkInv => ProposalIsGrounded
    BY DEF WorkInv, ProposalInv
  <1> QED BY <1>1, AlwaysWork, PTL

\* A delivery that is worked on again after its result was stored comes to the same
\* incident and execution: both are read back from rows that no step changes.
THEOREM ResultsAreStable == Spec => ResultIsStable
  <1>1. WorkInv /\ [Next]_vars => [ResultKept]_vars
    BY NextWork
  <1>2. ResultKept => \A k \in Keys : deliveries[k].result # NoResult =>
                        /\ deliveries'[k].result.incident = deliveries[k].result.incident
                        /\ deliveries'[k].result.execution = deliveries[k].result.execution
    BY DEF ResultKept
  <1> QED BY <1>1, <1>2, AlwaysWork, PTL DEF Spec, ResultIsStable

------------------------------------------------------------------------------
(* Until the first crash no reservation is left behind.                      *)

OwnedInv == /\ ReservationIsOwned
            /\ worker.pc \in Decided => worker.case # NoCase
            /\ CompletedHasIncident

LEMMA InitOwned == Init => OwnedInv
  BY DEF Init, StoreInit, Vacant, IncidentInit, NoIncident, Resting, OwnedInv,
         ReservationIsOwned, CompletedHasIncident, Decided

\* Only a crash takes the worker from an open reservation without closing it.
LEMMA ReservingHolds ==
  ASSUME TypeInv, [Next]_vars, Reserving, ~IncidentStep, UNCHANGED crashes
  PROVE  UNCHANGED worker
  <1> USE DEF Reserving, Reserves, At
  <1>0. crashes \in Nat
    BY DEF TypeInv, TypeOK
  <1>1. ~PipelineStep
    BY DEF PipelineStep, IncidentStep, EnrichmentFails, ReportIncident, ReportFails
  <1>2. ~HandoffStep
    BY DEF HandoffStep, SendHandoff, ResumeHandoff, SkipHandoff, ShuffleAccepts,
           ShuffleRefuses, HandoffAccepted, HandoffRefused, HandoffAmbiguous
  <1>3. ~FinishStep
    BY DEF FinishStep, Comment, CommentFails, Propose, CompleteDelivery, AuditCompletion,
           AuditCompletionFails, RecordFailure, AuditFailure, AuditFailureFails
  <1>4. \A k \in Keys : ~Claim(k)
    BY DEF Claim
  <1>5. ~Restart
    BY DEF Restart
  <1>6. \A k \in Keys : ~ReconcileInterrupted(k)
    BY <1>0 DEF ReconcileInterrupted
  <1>7. ~Crash
    BY <1>0 DEF Crash
  <1>8. CASE HandlerStep \/ \E k \in Keys : BackoffPasses(k)
    BY <1>6, <1>8 DEF HandlerStep, ReceiveAlert, Replay, Reconcile, BackoffPasses
  <1>9. CASE EnvironmentStep \/ UNCHANGED vars
    BY <1>7, <1>9 DEF EnvironmentStep, CaseAnswerLost, StrayArrives, vars
  <1> QED BY <1>1, <1>2, <1>3, <1>4, <1>5, <1>8, <1>9 DEF Next, WorkerStep

LEMMA CrashesCounted ==
  ASSUME TypeInv, [Next]_vars
  PROVE  crashes \in Nat /\ (UNCHANGED crashes \/ crashes' = crashes + 1)
  <1>1. CASE PipelineStep \/ HandoffStep
    BY <1>1
    DEF PipelineStep, HandoffStep, EnrichmentFails, ReserveIncident, JoinIncident, FindNoCase,
        AddObservables, IncidentFails, ReportIncident, ReportFails, FindCase, CreateCase,
        Settle, OpenCase, SendHandoff, ResumeHandoff, SkipHandoff, ShuffleAccepts,
        ShuffleRefuses, HandoffAccepted, HandoffRefused, HandoffAmbiguous, Only, bounds,
        TypeInv, TypeOK
  <1>2. CASE FinishStep
    BY <1>2
    DEF FinishStep, Comment, CommentFails, Propose, CompleteDelivery, AuditCompletion,
        AuditCompletionFails, RecordFailure, AuditFailure, AuditFailureFails, Rest, Only,
        bounds, TypeInv, TypeOK
  <1>3. CASE HandlerStep \/ Restart \/ \E k \in Keys : Claim(k) \/ BackoffPasses(k)
    BY <1>3
    DEF HandlerStep, ReceiveAlert, Replay, Reconcile, ReconcileInterrupted, Restart, Claim,
        BackoffPasses, bounds, TypeInv, TypeOK
  <1>4. CASE EnvironmentStep \/ UNCHANGED vars
    BY <1>4 DEF EnvironmentStep, Crash, CaseAnswerLost, OpenCase, StrayArrives, vars, bounds,
       TypeInv, TypeOK
  <1> QED BY <1>1, <1>2, <1>3, <1>4 DEF Next, WorkerStep

LEMMA StepOwned ==
  ASSUME TypeInv, IncidentInv, KnownStays, OwnedInv, IncidentStep
  PROVE  ReservationIsOwned' /\ (worker'.pc \in Decided => worker'.case # NoCase)
  <1> USE DEF At
  <1>1. /\ worker.pc \in {"enriching", "finding", "found", "creating", "observing"}
        /\ Key \in Keys /\ Tag \in Fingerprints /\ Tag' = Tag /\ worker \in WorkerRecord
    BY IncidentStepFacts DEF TypeInv, TypeOK
  <1>2. \A f \in Fingerprints : incidents[f].present /\ incidents[f].case = NoCase =>
          Reserving /\ Tag = f
    BY DEF OwnedInv, ReservationIsOwned, Reserving, Reserves
  <1>3. CASE ReserveIncident
    <2>1. worker'.pc = "finding" /\ worker.pc = "enriching"
          /\ \A f \in Fingerprints \ {Tag} : incidents'[f] = incidents[f]
      BY <1>1, <1>3, GoToFields DEF ReserveIncident, Reserve, Stages, TypeInv, TypeOK
    <2> QED BY <1>1, <1>2, <2>1 DEF ReservationIsOwned, Reserving, Reserves, Decided
  <1>4. CASE JoinIncident
    <2>1. /\ worker.pc = "enriching" /\ incidents[Tag].present
          /\ worker'.pc = "reporting" /\ worker'.case = incidents[Tag].case
          /\ UNCHANGED incidents
      BY <1>1, <1>4, DecideFields DEF JoinIncident, Only, storeVars
    <2> QED BY <1>1, <1>2, <2>1 DEF ReservationIsOwned, Reserving, Reserves
  <1>5. CASE FindNoCase
    <2>1. worker.pc = "finding" /\ worker'.pc = "creating" /\ UNCHANGED incidents
      BY <1>1, <1>5, GoToFields DEF FindNoCase, Only, Stages, storeVars
    <2> QED BY <1>1, <1>2, <2>1 DEF ReservationIsOwned, Decided
  <1>6. ASSUME NEW c \in CaseIds, NEW stage \in {"found", "reporting"}, NEW disposition,
               Settle(c, disposition, stage)
        PROVE  ReservationIsOwned' /\ (worker'.pc \in Decided => worker'.case # NoCase)
    <2>1. worker'.pc = stage /\ worker'.case = c /\ c # NoCase
      BY <1>1, <1>6, DecideFields, NoCaseAssumption DEF Settle
    <2>2. /\ incidents'[Tag].case = c \/ ~incidents'[Tag].present
          /\ \A f \in Fingerprints \ {Tag} : incidents'[f] = incidents[f]
      BY <1>1, <1>6 DEF Settle, CompleteIncident, TypeInv, TypeOK, IncidentRow
    <2> QED BY <1>2, <2>1, <2>2 DEF ReservationIsOwned
  <1>7. CASE AddObservables
    BY <1>6, <1>7 DEF AddObservables, TypeInv, WorkerOK
  <1>8. CASE IncidentFails
    <2>1. worker'.pc = "failing" /\ Release(Tag)
      BY <1>1, <1>8, RaiseFields DEF IncidentFails
    <2>2. /\ incidents'[Tag].case # NoCase \/ ~incidents'[Tag].present
          /\ \A f \in Fingerprints \ {Tag} : incidents'[f] = incidents[f]
      BY <1>1, <2>1 DEF Release, NoIncident, TypeInv, TypeOK, IncidentRow
    <2> QED BY <1>2, <2>1, <2>2 DEF ReservationIsOwned, Decided
  <1>9. ASSUME NEW c \in CaseIds, FindCase(c)
        PROVE  ReservationIsOwned' /\ (worker'.pc \in Decided => worker'.case # NoCase)
    BY <1>6, <1>9 DEF FindCase
  <1>10. ASSUME NEW c \in CaseIds, CreateCase(c) \/ CaseAnswerLost(c)
         PROVE  ReservationIsOwned' /\ (worker'.pc \in Decided => worker'.case # NoCase)
    <2>1. worker.pc = "creating" /\ UNCHANGED incidents
      BY <1>10 DEF CreateCase, CaseAnswerLost, OpenCase, storeVars
    <2>2. worker'.pc \in {"creating", "observing"}
      BY <1>1, <1>10, <2>1, ObserveFields DEF CreateCase, CaseAnswerLost
    <2> QED BY <1>1, <1>2, <2>1, <2>2 DEF ReservationIsOwned, Decided
  <1> QED BY <1>3, <1>4, <1>5, <1>7, <1>8, <1>9, <1>10 DEF IncidentStep

LEMMA NextOwned ==
  ASSUME WorkInv, crashes = 0 => OwnedInv, [Next]_vars, crashes' = 0
  PROVE  OwnedInv'
  <1> USE DEF WorkInv
  <1>1. KnownStays /\ UNCHANGED crashes /\ OwnedInv
    BY NextKeeps, CrashesCounted
  <1>2. ReservationIsOwned' /\ (worker'.pc \in Decided => worker'.case # NoCase)
    <2>1. CASE IncidentStep
      BY <1>1, <2>1, StepOwned
    <2>2. CASE ~IncidentStep
      <3>1. UNCHANGED <<incidents, cases>> /\ (UNCHANGED worker \/ Onward \/ Clear)
        BY <2>2, IncidentSteps DEF Aside
      <3>2. Reserving => UNCHANGED worker /\ Tag' = Tag
        BY <1>1, <2>2, ReservingHolds, HeldStays DEF Reserving, Reserves, Stages
      <3>3. worker'.pc \in Decided => worker.pc \in Decided /\ worker'.case = worker.case
        BY <3>1 DEF Onward, Clear
      <3> QED BY <1>1, <3>1, <3>2, <3>3
              DEF OwnedInv, ReservationIsOwned, Reserving, Reserves
    <2> QED BY <2>1, <2>2
  <1>3. CompletedHasIncident'
    <2>1. CASE CompleteDelivery
      <3>1. PICK k, f : k = Key /\ f = Tag
        OBVIOUS
      <3>2. /\ deliveries'[k].result.incident = incidents[f].case
            /\ \A j \in Keys \ {k} : deliveries'[j] = deliveries[j]
        BY <1>1, <2>1, <3>1, CompletionBacked, NextLedger, NextRuns, NextNotes DEF TraceKept
      <3>3. incidents[f].case # NoCase
        BY <1>1, <2>1, <3>1
        DEF CompleteDelivery, At, Decided, IncidentInv, DecisionInv, OwnedInv
      <3> QED BY <1>1, <3>2, <3>3 DEF OwnedInv, CompletedHasIncident
    <2>2. CASE ~CompleteDelivery
      BY <1>1, <2>2, OnlyComplete DEF OwnedInv, CompletedHasIncident, Keeps, Fresh
    <2> QED BY <2>1, <2>2
  <1> QED BY <1>2, <1>3 DEF OwnedInv

LEMMA AlwaysOwned == Spec => [](WorkInv /\ (crashes = 0 => OwnedInv))
  <1>1. Init => WorkInv /\ (crashes = 0 => OwnedInv)
    BY InitWork, InitOwned
  <1>2. WorkInv /\ (crashes = 0 => OwnedInv) /\ [Next]_vars
          => WorkInv' /\ (crashes = 0 => OwnedInv)'
    BY NextWork, NextOwned
  <1> QED BY <1>1, <1>2, PTL DEF Spec

\* As long as the process has not crashed, an unfinished reservation is the worker's own:
\* every failure between reserve and complete releases it (the try block of pipeline.py).
THEOREM ReservationsOwned == Spec => [](crashes = 0 => ReservationIsOwned)
  <1>1. WorkInv /\ (crashes = 0 => OwnedInv) => (crashes = 0 => ReservationIsOwned)
    BY DEF OwnedInv
  <1> QED BY <1>1, AlwaysOwned, PTL

\* Until then no delivery joins an incident that never gets its case, and every completed
\* one reports an incident.
THEOREM CompletedHaveIncident == Spec => [](crashes = 0 => CompletedHasIncident)
  <1>1. WorkInv /\ (crashes = 0 => OwnedInv) => (crashes = 0 => CompletedHasIncident)
    BY DEF OwnedInv
  <1> QED BY <1>1, AlwaysOwned, PTL

------------------------------------------------------------------------------
(* One case for a fingerprint.                                               *)

SoleInv == /\ OneCasePerFingerprint
           /\ At("creating") => \A c \in CaseIds : cases[c].tag # Tag

LEMMA InitSole == Init => SoleInv
  BY DEF Init, Resting, SoleInv, OneCasePerFingerprint, At

LEMMA StepSole ==
  ASSUME "lost_case" \notin Faults, TypeInv, SoleInv, KnownStays, IncidentStep
  PROVE  SoleInv'
  <1> USE DEF At
  <1>1. Tag \in Fingerprints /\ Tag' = Tag /\ worker \in WorkerRecord
    BY IncidentStepFacts DEF TypeInv, TypeOK
  <1>2. ASSUME NEW stage, stage # "creating", worker'.pc = stage,
               \A c \in CaseIds : cases'[c].tag = cases[c].tag
        PROVE  SoleInv'
    BY <1>2 DEF SoleInv, OneCasePerFingerprint
  <1>3. CASE ReserveIncident
    BY <1>1, <1>2, <1>3, GoToFields DEF ReserveIncident, Stages, hiveVars
  <1>4. CASE JoinIncident
    <2>1. worker'.pc = "reporting"
      BY <1>1, <1>4, DecideFields DEF JoinIncident, Only
    <2>2. UNCHANGED cases
      BY <1>4 DEF JoinIncident, Only, hiveVars
    <2> QED BY <1>2, <2>1, <2>2
  <1>5. CASE FindNoCase
    <2>1. /\ \A c \in CaseIds : cases[c].tag # Tag
          /\ UNCHANGED cases
      BY <1>5 DEF FindNoCase, Tagged, Only, hiveVars
    <2> QED BY <1>1, <2>1 DEF SoleInv, OneCasePerFingerprint
  <1>6. CASE AddObservables
    <2>1. worker'.pc = "reporting"
      BY <1>1, <1>6, DecideFields DEF AddObservables, Settle
    <2>2. \A c \in CaseIds : cases'[c].tag = cases[c].tag
      BY <1>6 DEF AddObservables, TypeInv, TypeOK, CaseRecord
    <2> QED BY <1>2, <2>1, <2>2
  <1>7. CASE IncidentFails
    BY <1>1, <1>2, <1>7, RaiseFields DEF IncidentFails, hiveVars
  <1>8. ASSUME NEW c \in CaseIds, FindCase(c) PROVE SoleInv'
    <2>1. worker'.pc = "found"
      BY <1>1, <1>8, DecideFields DEF FindCase, Settle
    <2>2. UNCHANGED cases
      BY <1>8 DEF FindCase
    <2> QED BY <1>2, <2>1, <2>2
  <1>9. ASSUME NEW c \in CaseIds, CreateCase(c) PROVE SoleInv'
    <2>1. OpenCase(c) /\ worker.pc = "creating" /\ worker'.pc = "observing"
      BY <1>1, <1>9, ObserveFields DEF CreateCase, OpenCase
    <2>2. cases'[c].tag = Tag /\ \A d \in CaseIds \ {c} : cases'[d] = cases[d]
      BY <2>1, OpenCaseTags
    <2>3. \A d \in CaseIds : cases[d].tag # Tag
      BY <2>1 DEF SoleInv
    <2> QED BY <2>1, <2>2, <2>3 DEF SoleInv, OneCasePerFingerprint
  <1>10. \A c \in CaseIds : ~CaseAnswerLost(c)
    BY DEF CaseAnswerLost
  <1> QED BY <1>3, <1>4, <1>5, <1>6, <1>7, <1>8, <1>9, <1>10 DEF IncidentStep

LEMMA NextSole ==
  ASSUME "lost_case" \notin Faults, TypeInv, OwnerInv, SoleInv, [Next]_vars
  PROVE  SoleInv'
  <1>1. KnownStays
    BY NextKeeps
  <1>2. CASE Aside
    <2>1. At("creating")' => worker.pc = "creating" /\ UNCHANGED worker
      BY <1>2 DEF Aside, Onward, Clear, Decided, Reserves, At
    <2>2. At("creating")' => At("creating") /\ Tag' = Tag
      BY <1>1, <2>1, HeldStays DEF Stages, At
    <2> QED BY <1>2, <2>2 DEF Aside, SoleInv, OneCasePerFingerprint
  <1> QED BY <1>1, <1>2, StepSole, IncidentSteps

\* The alerts of one fingerprint share one case, also across crashes: the worker looks
\* for a case by its tag before it creates one.  The hypothesis is the case the search
\* cannot cover, a create request that is posted again because its answer got lost.
THEOREM SoleCase ==
  ASSUME "lost_case" \notin Faults
  PROVE  Spec => []OneCasePerFingerprint
  <1>1. Init => TypeInv /\ OwnerInv /\ SoleInv
    BY InitType, InitOwner, InitSole
  <1>2. TypeInv /\ OwnerInv /\ SoleInv /\ [Next]_vars => TypeInv' /\ OwnerInv' /\ SoleInv'
    BY NextType, NextOwner, NextSole
  <1>3. SoleInv => OneCasePerFingerprint
    BY DEF SoleInv
  <1> QED BY <1>1, <1>2, <1>3, PTL DEF Spec

------------------------------------------------------------------------------
(* A handoff an operator can reconcile.                                      *)

\* A completed row has an id, and so has the answer that is about to complete one.
NamedInv ==
  /\ \A t \in Keys : handoffs[t].status = "completed" => handoffs[t].execution # 0
  /\ At("triggering") /\ worker.answer = "accepted" => worker.execution # 0

LEMMA InitNamed == Init => NamedInv
  BY DEF Init, LedgerInit, NoRow, Resting, NamedInv, At

LEMMA NextNamed ==
  ASSUME "no_id" \notin Faults, TypeInv, OwnerInv, TriggerPending, HandedInv, NamedInv,
         [Next]_vars
  PROVE  NamedInv'
  <1> USE DEF NamedInv, At
  <1>1. (worker.pc \in Stages => Key \in Keys) /\ worker \in WorkerRecord
        /\ \A t \in Keys : runs[t] \in Nat
    BY DEF TypeInv, TypeOK, WorkerOK
  <1>2. ASSUME UNCHANGED handoffs, UNCHANGED worker \/ worker'.pc # "triggering"
        PROVE  NamedInv'
    BY <1>2
  <1>3. CASE SendHandoff
    <2>1. worker.pc = "handing" /\ ReserveHandoff(Key) /\ worker'.answer = worker.answer
      BY <1>1, <1>3, GoToFields DEF SendHandoff, Stages
    <2>2. worker'.answer = "none"
      BY <2>1 DEF HandedInv, BeforeHandoff
    <2> QED BY <2>1, <2>2 DEF ReserveHandoff, TypeInv, TypeOK
  <1>4. CASE ShuffleAccepts
    <2>1. Key \in Keys /\ UNCHANGED handoffs
      BY <1>1, <1>4 DEF ShuffleAccepts, Stages, storeVars
    <2>2. PICK e \in {runs[Key] + 1} :
            worker' = [worker EXCEPT !.answer = "accepted", !.execution = e]
      BY <1>4 DEF ShuffleAccepts
    <2>3. e \in Nat /\ e # 0
      BY <1>1, <2>1, <2>2
    <2>4. worker'.execution = e
      BY <1>1, <2>2 DEF WorkerRecord
    <2> QED BY <2>1, <2>3, <2>4
  <1>5. CASE ShuffleRefuses
    <2>1. worker'.answer = "refused" /\ UNCHANGED handoffs
      BY <1>1, <1>5 DEF ShuffleRefuses, WorkerRecord, storeVars
    <2> QED BY <2>1
  <1>6. CASE HandoffAccepted
    <2>1. Key \in Keys /\ CompleteHandoff(Key, worker.execution) /\ worker.execution # 0
          /\ worker'.pc = "commenting"
      BY <1>1, <1>6 DEF HandoffAccepted, Stages, WorkerRecord
    <2> QED BY <2>1 DEF CompleteHandoff, TypeInv, TypeOK
  <1>7. CASE HandoffRefused
    <2>1. ReleaseHandoff(Key) /\ worker'.pc = "failing"
      BY <1>1, <1>7, RaiseFields DEF HandoffRefused
    <2> QED BY <2>1 DEF ReleaseHandoff, NoRow, TypeInv, TypeOK
  <1>8. CASE HandoffAmbiguous
    BY <1>1, <1>2, <1>8, RaiseFields DEF HandoffAmbiguous, storeVars
  <1>9. ASSUME NEW k \in Keys, Verdict(k), UNCHANGED worker \/ worker'.pc # "triggering"
        PROVE  NamedInv'
    <2>1. CASE ReconcileRetry(k)
      BY <1>9, <2>1 DEF ReconcileRetry, ReleaseHandoff, NoRow, TypeInv, TypeOK
    <2>2. ASSUME NEW e \in 1..runs[k], ReconcileCompleted(k, e) PROVE NamedInv'
      BY <1>9, <2>2 DEF ReconcileCompleted, CompleteHandoff, TypeInv, TypeOK
    <2> QED BY <1>9, <2>1, <2>2 DEF Verdict
  <1>10. CASE HandoffStep
    BY <1>2, <1>3, <1>4, <1>5, <1>6, <1>7, <1>8, <1>10, QuietSteps DEF HandoffStep
  <1>11. CASE HandlerStep \/ \E k \in Keys : BackoffPasses(k)
    <2>1. ASSUME NEW k \in Keys, Reconcile(k) PROVE NamedInv'
      BY <1>9, <2>1 DEF Reconcile
    <2>2. ASSUME NEW k \in Keys, ReconcileInterrupted(k) PROVE NamedInv'
      BY <1>9, <2>2, RestFields DEF ReconcileInterrupted
    <2> QED BY <1>2, <1>11, <2>1, <2>2, QuietSteps DEF HandlerStep
  <1>12. CASE EnvironmentStep \/ Restart \/ \E k \in Keys : Claim(k)
    <2>1. CASE Crash
      BY <1>2, <2>1, RestFields DEF Crash, storeVars
    <2>2. ASSUME NEW k \in Keys, StrayArrives(k) PROVE NamedInv'
      BY <1>2, <2>2 DEF StrayArrives, storeVars
    <2> QED BY <1>2, <1>12, <2>1, <2>2, QuietSteps DEF EnvironmentStep
  <1>13. CASE UNCHANGED vars
    BY <1>2, <1>13 DEF vars, storeVars
  <1> QED BY <1>2, <1>10, <1>11, <1>12, <1>13, QuietSteps
          DEF Next, WorkerStep, PipelineStep, FinishStep

\* A handoff without an execution id that blocks a failed delivery is pending, which the
\* reconciliation endpoint accepts, provided that Shuffle names the runs it accepts (it
\* does not have to: worker.py stores an empty id as it comes).
THEOREM BlockedIsReconcilable ==
  ASSUME "no_id" \notin Faults
  PROVE  Spec => []BlockedHandoffIsReconcilable
  <1>1. Init => WorkInv /\ NamedInv
    BY InitWork, InitNamed
  <1>2. WorkInv /\ NamedInv /\ [Next]_vars => WorkInv' /\ NamedInv'
    BY NextWork, NextNamed DEF WorkInv
  <1>3. WorkInv /\ NamedInv => BlockedHandoffIsReconcilable
    BY DEF WorkInv, TypeInv, TypeOK, HandoffRow, NamedInv, BlockedHandoffIsReconcilable,
           Reserved
  <1> QED BY <1>1, <1>2, <1>3, PTL DEF Spec
==============================================================================
