----------------------------- MODULE AlertGateway -----------------------------
(***************************************************************************)
(* The integration gateway: the webhook and operator handlers of app.py,   *)
(* the delivery worker of worker.py with the pipeline of pipeline.py it    *)
(* awaits, the SQLite tables they share, and the services they call.       *)
(*                                                                         *)
(* One process runs everything on one event loop.  The worker is the only  *)
(* long activity: `worker.pc` names the place where it waits for a service *)
(* or stands between two commits, so that a crash may fall at each of them *)
(* and other handlers may run.  TheHive and Shuffle are modelled by what   *)
(* the gateway can observe of them.                                        *)
(***************************************************************************)
EXTENDS HandoffLedger, IncidentStore

CONSTANTS
  Webhooked,        \* alerts whose scenario has a Shuffle webhook configured
  AccountActivity,  \* alerts of the scenario account-activity
  WithIndicators,   \* alerts from which an indicator is extracted
  FingerprintOf,    \* the incident fingerprint of an alert
  NoTag, NoKey,
  Faults,           \* the environment's misbehaviours that may happen, see below
  MaxCrashes,       \* bound: process crashes
  MaxOperations     \* bound: successful operator replays and reconciliations

(***************************************************************************)
(* "audit"       appending to the audit file may raise                     *)
(* "no_id"       Shuffle may accept a run without naming its execution     *)
(* "hidden_run"  an HTTP error may be answered although the run started    *)
(* "lost_case"   TheHive may create a case and its answer get lost, so the *)
(*               HTTP client posts again                                   *)
(* Timeouts, refusals, crashes and late requests need no switch.           *)
(***************************************************************************)
FaultKinds == {"audit", "no_id", "hidden_run", "lost_case"}

ASSUME AlertAssumption == /\ Webhooked \subseteq Alerts
                          /\ AccountActivity \subseteq Alerts
                          /\ WithIndicators \subseteq Alerts
                          /\ FingerprintOf \in [Alerts -> Fingerprints]
ASSUME NullAssumption == NoTag \notin Fingerprints /\ NoKey \notin Keys
ASSUME FaultAssumption == Faults \subseteq FaultKinds
ASSUME BoundAssumption == MaxCrashes \in Nat /\ MaxOperations \in Nat

VARIABLES
  worker,      \* the worker task and the locals of process_once
  proposals,   \* approval_sources: the case a trace's proposal was made for
  cases,       \* TheHive: the cases, their dedup tag, whether they hold evidence
  notes,       \* TheHive: the <<trace, case>> pairs with a handoff comment
  runs,        \* Shuffle: the number of runs started for each trace
  stray,       \* trigger requests still in the network that nobody awaits
  acked,       \* history: the <<key, alert>> pairs answered with HTTP 202
  grants,      \* history: operator decisions that a trace is safe to retry
  crashes, operations

storeVars == <<deliveries, handoffs, incidents, proposals>>
hiveVars == <<cases, notes>>
shuffleVars == <<runs, stray>>
bounds == <<crashes, operations>>
vars == <<storeVars, worker, hiveVars, shuffleVars, acked, grants, bounds>>

------------------------------------------------------------------------------
\* Where the worker stands; "down" is a process that is not running and "dead"
\* a task that ended with an exception while the process serves requests.
Stages == {"enriching", "finding", "found", "creating", "observing", "reporting",
           "handing", "triggering", "commenting", "proposing", "completing",
           "auditing", "failing", "auditing_failure"}

Resting == [pc |-> "idle", key |-> NoKey, disposition |-> "none", case |-> NoCase,
            execution |-> 0, answer |-> "none"]

Key == worker.key
Alert == deliveries[Key].alert
Tag == FingerprintOf[Alert]

At(stage) == worker.pc = stage
GoTo(stage) == worker' = [worker EXCEPT !.pc = stage]
Up == ~At("down")

\* An exception unwinds process_once: of its locals only the delivery is left.
Raise == worker' = [Resting EXCEPT !.pc = "failing", !.key = Key]

\* The request the worker awaits is in the network and unanswered.
Awaiting(t) == At("triggering") /\ Key = t /\ worker.answer = "none"

Dispositions == {"created", "reused", "pending"}
Results == [incident : CaseIds \cup {NoCase}, disposition : Dispositions, execution : Nat]
Result == [incident |-> worker.case, disposition |-> worker.disposition,
           execution |-> worker.execution]

Init ==
  /\ StoreInit /\ LedgerInit /\ IncidentInit
  /\ proposals = [t \in Keys |-> NoCase]
  /\ worker = Resting
  /\ cases = [c \in CaseIds |-> [tag |-> NoTag, evidence |-> FALSE]]
  /\ notes = {}
  /\ runs = [t \in Keys |-> 0]
  /\ stray = [t \in Keys |-> 0]
  /\ acked = {}
  /\ grants = [t \in Keys |-> 0]
  /\ crashes = 0 /\ operations = 0

------------------------------------------------------------------------------
(* The handlers of app.py.  None awaits between its reads and its writes.    *)

\* receive_wazuh_alert: the row is committed, then the sender is told.  When the
\* audit write in between raises or the answer gets lost the sender posts again
\* and meets its own row.  A key known with another payload is answered 409.
ReceiveAlert(k, a) ==
  /\ Up
  /\ \/ Enqueue(k, a)
     \/ SamePayload(k, a) /\ UNCHANGED deliveries
  /\ acked' = acked \cup {<<k, a>>}
  /\ UNCHANGED <<handoffs, incidents, proposals, worker, hiveVars, shuffleVars,
                 grants, bounds>>

OperatorMay == Up /\ operations < MaxOperations

\* replay_delivery
Replay(k) ==
  /\ OperatorMay
  /\ Requeue(k)
  /\ operations' = operations + 1
  /\ UNCHANGED <<handoffs, incidents, proposals, worker, hiveVars, shuffleVars,
                 acked, grants, crashes>>

\* The analyst looked at Shuffle: a run that exists is recorded, otherwise the
\* trace is declared safe to retry.  The gateway cannot check either.
Verdict(k) ==
  \/ ReconcileRetry(k) /\ grants' = [grants EXCEPT ![k] = @ + 1]
  \/ (\E e \in 1..runs[k] : ReconcileCompleted(k, e)) /\ UNCHANGED grants

\* reconcile_delivery_handoff: two transactions, the verdict and the requeue.
Reconcile(k) ==
  /\ OperatorMay
  /\ deliveries[k].status = "failed"
  /\ Verdict(k)
  /\ Requeue(k)
  /\ operations' = operations + 1
  /\ UNCHANGED <<incidents, proposals, worker, hiveVars, shuffleVars, acked, crashes>>

\* The process dies between the two: the verdict is kept, the delivery failed.
ReconcileInterrupted(k) ==
  /\ OperatorMay
  /\ deliveries[k].status = "failed"
  /\ crashes < MaxCrashes
  /\ Verdict(k)
  /\ worker' = [Resting EXCEPT !.pc = "down"]
  /\ stray' = [t \in Keys |-> IF Awaiting(t) THEN stray[t] + 1 ELSE stray[t]]
  /\ operations' = operations + 1
  /\ crashes' = crashes + 1
  /\ UNCHANGED <<deliveries, incidents, proposals, hiveVars, runs, acked>>

------------------------------------------------------------------------------
(* process_once up to the incident: AlertPipeline.process.                   *)

Claim(k) ==
  /\ At("idle")
  /\ ClaimDue(k)
  /\ worker' = [Resting EXCEPT !.pc = "enriching", !.key = k]
  /\ UNCHANGED <<handoffs, incidents, proposals, hiveVars, shuffleVars, acked,
                 grants, bounds>>

\* A step of the worker that leaves every table and service alone.
Only(step) == step /\ UNCHANGED <<storeVars, hiveVars, shuffleVars, acked, grants, bounds>>

\* Slip: the incident is reserved before MISP is asked, outside the try block.
EnrichmentFailsReserved ==
  /\ At("enriching") /\ Alert \in WithIndicators
  /\ Reserve(Tag)
  /\ Raise
  /\ UNCHANGED <<deliveries, handoffs, proposals, hiveVars, shuffleVars, acked,
                 grants, bounds>>

\* A MISP search fails before any reservation.
EnrichmentFails == At("enriching") /\ Alert \in WithIndicators /\ Only(Raise)

ReserveIncident ==
  /\ At("enriching")
  /\ Reserve(Tag)
  /\ GoTo("finding")
  /\ UNCHANGED <<deliveries, handoffs, proposals, hiveVars, shuffleVars, acked,
                 grants, bounds>>

\* Slip: the disposition of a pending incident is not set.
JoinIncidentSilently ==
  /\ At("enriching")
  /\ incidents[Tag].present
  /\ LET case == incidents[Tag].case
     IN  Only(worker' = [worker EXCEPT !.pc = "reporting", !.case = case,
            !.disposition = IF case = NoCase THEN @ ELSE "reused"])

\* The fingerprint has a row: its case is reused; without one it is "pending".
JoinIncident ==
  /\ At("enriching")
  /\ incidents[Tag].present
  /\ LET case == incidents[Tag].case
     IN  Only(worker' = [worker EXCEPT !.pc = "reporting", !.case = case,
            !.disposition = IF case = NoCase THEN "pending" ELSE "reused"])

Settle(c, disposition, stage) ==
  /\ CompleteIncident(Tag, c)
  /\ worker' = [worker EXCEPT !.pc = stage, !.case = c, !.disposition = disposition]
  /\ UNCHANGED <<deliveries, handoffs, proposals, notes, shuffleVars, acked, grants, bounds>>

Tagged(c) == cases[c].tag = Tag

\* find_case_by_tag
FindCase(c) == At("finding") /\ Tagged(c) /\ Settle(c, "reused", "found") /\ UNCHANGED cases

\* Slip: a new case is created without looking for an old one.
FindSkipped == At("finding") /\ Only(GoTo("creating"))

FindNoCase == At("finding") /\ ~(\E c \in CaseIds : Tagged(c)) /\ Only(GoTo("creating"))

\* TheHive opens a case under an id it has not used.
OpenCase(c) ==
  /\ At("creating")
  /\ cases[c].tag = NoTag
  /\ cases' = [cases EXCEPT ![c].tag = Tag]
  /\ UNCHANGED <<storeVars, notes, shuffleVars, acked, grants, bounds>>

CreateCase(c) == OpenCase(c) /\ worker' = [worker EXCEPT !.pc = "observing", !.case = c]

\* The answer to a create request is lost; the HTTP client posts it again or
\* gives up.
CaseAnswerLost(c) == "lost_case" \in Faults /\ OpenCase(c) /\ UNCHANGED worker

AddObservables ==
  /\ At("observing")
  /\ cases' = [cases EXCEPT ![worker.case].evidence = TRUE]
  /\ Settle(worker.case, "created", "reporting")

\* What the try block raises: a failing call of TheHive, or the audit write after
\* a case was found.  release is called on both; it leaves a completed row alone.
IncidentFails ==
  /\ \/ At("finding") \/ At("creating")
     \/ At("observing") /\ Alert \in WithIndicators
     \/ At("found") /\ "audit" \in Faults
  /\ Release(Tag)
  /\ Raise
  /\ UNCHANGED <<deliveries, handoffs, proposals, hiveVars, shuffleVars, acked,
                 grants, bounds>>

\* The pipeline's audit write; outside the try block it just fails the attempt.
ReportIncident == worker.pc \in {"found", "reporting"} /\ Only(GoTo("handing"))

ReportFails == At("reporting") /\ "audit" \in Faults /\ Only(Raise)

------------------------------------------------------------------------------
(* process_once from the Shuffle handoff on.                                 *)

\* Reserve the trace and send the trigger request, once: it is not retry-safe.
SendHandoff ==
  /\ At("handing") /\ Alert \in Webhooked
  /\ ReserveHandoff(Key)
  /\ GoTo("triggering")
  /\ UNCHANGED <<deliveries, incidents, proposals, hiveVars, shuffleVars, acked,
                 grants, bounds>>

\* The trace has a row: go on with its execution, or ask for an operator.
ResumeHandoff ==
  /\ At("handing") /\ Alert \in Webhooked /\ Reserved(Key)
  /\ LET prior == handoffs[Key].execution
     IN  \/ prior = 0 /\ Only(Raise)
         \/ prior # 0 /\ Only(worker' = [worker EXCEPT !.pc = "commenting",
                                                        !.execution = prior])

SkipHandoff == At("handing") /\ Alert \notin Webhooked /\ Only(GoTo("proposing"))

\* Shuffle starts the run the worker awaits and names it, or leaves the id out.
ShuffleAccepts ==
  /\ At("triggering") /\ worker.answer = "none"
  /\ runs' = [runs EXCEPT ![Key] = @ + 1]
  /\ \E e \in {runs[Key] + 1} \cup (IF "no_id" \in Faults THEN {0} ELSE {}) :
       worker' = [worker EXCEPT !.answer = "accepted", !.execution = e]
  /\ UNCHANGED <<storeVars, hiveVars, stray, acked, grants, bounds>>

\* An HTTP error is answered; a proxy may answer one for a run that started.
ShuffleRefuses ==
  /\ At("triggering") /\ worker.answer = "none"
  /\ worker' = [worker EXCEPT !.answer = "refused"]
  /\ \/ UNCHANGED runs
     \/ "hidden_run" \in Faults /\ runs' = [runs EXCEPT ![Key] = @ + 1]
  /\ UNCHANGED <<storeVars, hiveVars, stray, acked, grants, bounds>>

\* Slip: the execution id is not stored.
HandoffUnrecorded ==
  /\ At("triggering") /\ worker.answer = "accepted"
  /\ worker' = [worker EXCEPT !.pc = "commenting", !.answer = "none"]
  /\ UNCHANGED <<storeVars, hiveVars, shuffleVars, acked, grants, bounds>>

HandoffAccepted ==
  /\ At("triggering") /\ worker.answer = "accepted"
  /\ CompleteHandoff(Key, worker.execution)
  /\ worker' = [worker EXCEPT !.pc = "commenting", !.answer = "none"]
  /\ UNCHANGED <<deliveries, incidents, proposals, hiveVars, shuffleVars, acked,
                 grants, bounds>>

\* A definite rejection gives the reservation back.
HandoffRefused ==
  /\ At("triggering") /\ worker.answer = "refused"
  /\ ReleaseHandoff(Key)
  /\ Raise
  /\ UNCHANGED <<deliveries, incidents, proposals, hiveVars, shuffleVars, acked,
                 grants, bounds>>

\* Slips: a timeout gives the reservation back, or closes it without an id.
HandoffForgotten ==
  /\ At("triggering")
  /\ ReleaseHandoff(Key)
  /\ stray' = [t \in Keys |-> IF Awaiting(t) THEN stray[t] + 1 ELSE stray[t]]
  /\ Raise
  /\ UNCHANGED <<deliveries, incidents, proposals, hiveVars, runs, acked, grants, bounds>>

HandoffClosed ==
  /\ At("triggering")
  /\ CompleteHandoff(Key, 0)
  /\ stray' = [t \in Keys |-> IF Awaiting(t) THEN stray[t] + 1 ELSE stray[t]]
  /\ Raise
  /\ UNCHANGED <<deliveries, incidents, proposals, hiveVars, runs, acked, grants, bounds>>

\* Timeout, broken connection or unreadable answer: the reservation is kept, and
\* a request that was not answered may still be in the network.
HandoffAmbiguous ==
  /\ At("triggering")
  /\ stray' = [t \in Keys |-> IF Awaiting(t) THEN stray[t] + 1 ELSE stray[t]]
  /\ Raise
  /\ UNCHANGED <<storeVars, hiveVars, runs, acked, grants, bounds>>

\* A request nobody awaits reaches Shuffle after all, or is lost.
StrayArrives(t) ==
  /\ stray[t] > 0
  /\ stray' = [stray EXCEPT ![t] = @ - 1]
  /\ runs' \in {runs, [runs EXCEPT ![t] = @ + 1]}
  /\ UNCHANGED <<storeVars, worker, hiveVars, acked, grants, bounds>>

\* add_comment on the incident's case, when there is one.
Comment ==
  /\ At("commenting")
  /\ notes' = IF worker.case = NoCase THEN notes ELSE notes \cup {<<Key, worker.case>>}
  /\ GoTo("proposing")
  /\ UNCHANGED <<storeVars, cases, shuffleVars, acked, grants, bounds>>

CommentFails ==
  /\ At("commenting") /\ worker.case # NoCase
  /\ notes' \in {notes, notes \cup {<<Key, worker.case>>}}
  /\ Raise
  /\ UNCHANGED <<storeVars, cases, shuffleVars, acked, grants, bounds>>

\* Slip: the scenario is not looked at.
ProposeAlways ==
  /\ At("proposing")
  /\ proposals' = IF worker.case # NoCase /\ proposals[Key] = NoCase
                  THEN [proposals EXCEPT ![Key] = worker.case]
                  ELSE proposals
  /\ GoTo("completing")
  /\ UNCHANGED <<deliveries, handoffs, incidents, hiveVars, shuffleVars, acked,
                 grants, bounds>>

\* approvals.create_once for account activity with an incident.
Propose ==
  /\ At("proposing")
  /\ proposals' = IF /\ Alert \in AccountActivity /\ worker.case # NoCase
                     /\ proposals[Key] = NoCase
                  THEN [proposals EXCEPT ![Key] = worker.case]
                  ELSE proposals
  /\ GoTo("completing")
  /\ UNCHANGED <<deliveries, handoffs, incidents, hiveVars, shuffleVars, acked,
                 grants, bounds>>

CompleteDelivery ==
  /\ At("completing")
  /\ Complete(Key, Result)
  /\ GoTo("auditing")
  /\ UNCHANGED <<handoffs, incidents, proposals, hiveVars, shuffleVars, acked,
                 grants, bounds>>

Rest == Only(worker' = Resting)

AuditCompletion == At("auditing") /\ Rest

\* The audit write sits inside the try block, after the commit.
AuditCompletionFails == At("auditing") /\ "audit" \in Faults /\ Only(Raise)

\* The except branch: store.fail, then an audit write that may end the task.
RecordFailure ==
  /\ At("failing")
  /\ Fail(Key)
  /\ GoTo("auditing_failure")
  /\ UNCHANGED <<handoffs, incidents, proposals, hiveVars, shuffleVars, acked,
                 grants, bounds>>

AuditFailure == At("auditing_failure") /\ Rest

Die == worker' = [Resting EXCEPT !.pc = "dead"]

AuditFailureFails == At("auditing_failure") /\ "audit" \in Faults /\ Only(Die)

------------------------------------------------------------------------------
(* The process.                                                              *)

Crash ==
  /\ Up /\ crashes < MaxCrashes
  /\ worker' = [Resting EXCEPT !.pc = "down"]
  /\ stray' = [t \in Keys |-> IF Awaiting(t) THEN stray[t] + 1 ELSE stray[t]]
  /\ crashes' = crashes + 1
  /\ UNCHANGED <<storeVars, hiveVars, runs, acked, grants, operations>>

\* Slip: the task starts without recovering.
RestartOnly ==
  /\ At("down")
  /\ Only(worker' = Resting)

\* The worker task starts with recover_processing, and audits it if it found any.
Restart ==
  /\ At("down")
  /\ RecoverProcessing
  /\ \/ worker' = Resting
     \/ "audit" \in Faults /\ deliveries' # deliveries /\ Die
  /\ UNCHANGED <<handoffs, incidents, proposals, hiveVars, shuffleVars, acked,
                 grants, bounds>>

BackoffPasses(k) ==
  /\ BackoffElapses(k)
  /\ UNCHANGED <<handoffs, incidents, proposals, worker, hiveVars, shuffleVars,
                 acked, grants, bounds>>

PipelineStep ==
  \/ EnrichmentFails \/ ReserveIncident \/ JoinIncident
  \/ FindNoCase \/ AddObservables \/ IncidentFails \/ ReportIncident \/ ReportFails
  \/ \E c \in CaseIds : FindCase(c) \/ CreateCase(c)

HandoffStep ==
  \/ SendHandoff \/ ResumeHandoff \/ SkipHandoff
  \/ ShuffleAccepts \/ ShuffleRefuses
  \/ HandoffAccepted \/ HandoffRefused \/ HandoffAmbiguous

FinishStep ==
  \/ Comment \/ CommentFails \/ Propose \/ CompleteDelivery
  \/ AuditCompletion \/ AuditCompletionFails
  \/ RecordFailure \/ AuditFailure \/ AuditFailureFails

WorkerStep == (\E k \in Keys : Claim(k)) \/ PipelineStep \/ HandoffStep \/ FinishStep

HandlerStep ==
  \E k \in Keys : \/ \E a \in Alerts : ReceiveAlert(k, a)
                  \/ Replay(k) \/ Reconcile(k) \/ ReconcileInterrupted(k)

EnvironmentStep ==
  \/ Crash
  \/ \E c \in CaseIds : CaseAnswerLost(c)
  \/ \E t \in Keys : StrayArrives(t)

Next == WorkerStep \/ HandlerStep \/ EnvironmentStep \/ Restart
        \/ \E k \in Keys : BackoffPasses(k)

Spec == Init /\ [][Next]_vars

(***************************************************************************)
(* The event loop resumes a worker whose await is over, and every await is *)
(* over at the latest when the client's timeout expires; the clock reaches *)
(* every next_attempt_at; the container runtime restarts the process.      *)
(***************************************************************************)
Fairness == /\ WF_vars(WorkerStep)
            /\ \A k \in Keys : WF_vars(BackoffPasses(k))
            /\ WF_vars(Restart)

FairSpec == Spec /\ Fairness

------------------------------------------------------------------------------
(* Properties.                                                               *)

DeliveryRow == [status : Statuses, alert : Alerts \cup {NoAlert}, attempts : Nat,
                due : BOOLEAN, lastError : Errors, result : Results \cup {NoResult},
                older : SUBSET Keys]
HandoffRow == [status : {"absent", "pending", "completed"}, execution : Nat]
IncidentRow == [present : BOOLEAN, case : CaseIds \cup {NoCase}]
WorkerRecord == [pc : Stages \cup {"idle", "dead", "down"}, key : Keys \cup {NoKey},
                 disposition : Dispositions \cup {"none"}, case : CaseIds \cup {NoCase},
                 execution : Nat, answer : {"none", "accepted", "refused"}]
CaseRecord == [tag : Fingerprints \cup {NoTag}, evidence : BOOLEAN]

TypeOK ==
  /\ deliveries \in [Keys -> DeliveryRow]
  /\ handoffs \in [Keys -> HandoffRow]
  /\ incidents \in [Fingerprints -> IncidentRow]
  /\ proposals \in [Keys -> CaseIds \cup {NoCase}]
  /\ worker \in WorkerRecord
  /\ cases \in [CaseIds -> CaseRecord]
  /\ notes \subseteq Keys \X CaseIds
  /\ runs \in [Keys -> Nat]
  /\ stray \in [Keys -> Nat]
  /\ acked \subseteq Keys \X Alerts
  /\ grants \in [Keys -> Nat]
  /\ crashes \in Nat
  /\ operations \in Nat

\* Every run Shuffle has started for a trace or may still start.
Committed(t) == runs[t] + stray[t] + (IF Awaiting(t) THEN 1 ELSE 0)

\* One automatic workflow run per trace: whatever times out, crashes, arrives late
\* or is replayed, each run beyond the first was granted by an operator who
\* declared the trace safe to retry (reserve_handoff, release_handoff).
HandoffAtMostOnce == \A t \in Keys : Committed(t) <= 1 + grants[t]

CompletedFor(k, a, r) ==
  /\ a \in Webhooked => /\ handoffs[k] = [status |-> "completed", execution |-> r.execution]
                        /\ runs[k] > 0
  /\ r.incident # NoCase =>
       /\ cases[r.incident].tag = FingerprintOf[a]
       /\ a \in Webhooked => <<k, r.incident>> \in notes
       /\ a \in AccountActivity => proposals[k] = r.incident

\* A delivery reported as completed has done its work outside: its workflow ran
\* and is recorded under the reported id, its case carries its fingerprint and the
\* handoff comment, and account activity has its proposal for that case.
CompletedWorkIsReal ==
  \A k \in Keys : deliveries[k].status = "completed" =>
    CompletedFor(k, deliveries[k].alert, deliveries[k].result)

\* A proposal to a human comes after everything it refers to: the alert asks for
\* one, the incident's case exists, and the workflow handoff is on record.
ProposalIsGrounded ==
  \A k \in Keys : proposals[k] # NoCase =>
    LET a == deliveries[k].alert
    IN  /\ a \in AccountActivity
        /\ incidents[FingerprintOf[a]].case = proposals[k]
        /\ cases[proposals[k]].tag = FingerprintOf[a]
        /\ a \in Webhooked => handoffs[k].status = "completed"

\* No delivery is left in "processing", which claim_due never picks: the worker
\* holds it, or the process is down and recover_processing will return it.
ProcessingIsOwned ==
  \A k \in Keys : deliveries[k].status = "processing" =>
    At("down") \/ (Key = k /\ worker.pc \in Stages)

\* The retry budget: a failure schedules a retry only below the limit, the limit is
\* reached before a delivery is given up, and only restarts add claims beyond it.
RetryBudget ==
  \A k \in Keys : LET row == deliveries[k] IN
    /\ row.status = "retrying" /\ row.lastError = "failure" => row.attempts < MaxAttempts
    /\ row.status = "failed" => row.attempts >= MaxAttempts
    /\ row.attempts <= MaxAttempts + crashes

\* What a sender was told with HTTP 202 is the payload that is stored and will be
\* processed: reusing a key for other content is never acknowledged.
AckedIsDurable ==
  \A k \in Keys, a \in Alerts : <<k, a>> \in acked => Known(k) /\ deliveries[k].alert = a

\* Whenever a failed delivery is blocked by a handoff without an execution id, the
\* handoff is one the reconciliation endpoint accepts (reconcile_handoff).
BlockedHandoffIsReconcilable ==
  \A k \in Keys :
    deliveries[k].status = "failed" /\ Reserved(k) /\ handoffs[k].execution = 0
      => handoffs[k].status = "pending"

\* An unfinished incident reservation belongs to the worker's current attempt
\* (pipeline.py releases it on every failure), so nobody finds it pending.
ReservationIsOwned ==
  \A f \in Fingerprints : incidents[f].present /\ incidents[f].case = NoCase =>
    worker.pc \in {"finding", "creating", "observing"} /\ Tag = f

\* A completed delivery has an incident.
CompletedHasIncident ==
  \A k \in Keys : deliveries[k].status = "completed" => deliveries[k].result.incident # NoCase

\* The alerts of one fingerprint share one case.
OneCasePerFingerprint ==
  \A c, d \in CaseIds : cases[c].tag = cases[d].tag /\ cases[c].tag # NoTag => c = d

\* The case a completed delivery names carries the alert's observables.
CompletedCaseHasEvidence ==
  \A k \in Keys :
    /\ deliveries[k].status = "completed"
    /\ deliveries[k].alert \in WithIndicators
    /\ deliveries[k].result.incident # NoCase
    => cases[deliveries[k].result.incident].evidence

\* A completed handoff is never reopened or renamed, so its trace is never sent again.
HandoffIsFinal ==
  [][\A t \in Keys : handoffs[t].status = "completed" => handoffs'[t] = handoffs[t]]_vars

\* A delivery that is processed again after it had a result (the audit write after
\* the commit raised) comes to the same incident and the same execution.
ResultIsStable ==
  [][\A k \in Keys : deliveries[k].result # NoResult =>
       /\ deliveries'[k].result.incident = deliveries[k].result.incident
       /\ deliveries'[k].result.execution = deliveries[k].result.execution]_vars

\* Every accepted alert ends in a visible final state.
AcceptedSettles ==
  \A k \in Keys : Known(k) ~> deliveries[k].status \in {"completed", "failed"}

\* What a status means to a client of the inbox.
InboxState == [absent |-> "absent", queued |-> "waiting", retrying |-> "waiting",
               processing |-> "working", completed |-> "done", failed |-> "given_up"]

\* The gateway implements the durable inbox its API promises.
Inbox == INSTANCE DurableInbox WITH
  MayReopen <- "audit" \in Faults,
  inbox <- [k \in Keys |-> [alert |-> deliveries[k].alert,
                            state |-> InboxState[deliveries[k].status]]]
RefinesInbox == Inbox!Spec
==============================================================================
