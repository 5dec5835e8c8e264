# Verification of the SOC automation lab

This directory is a TLA+ development beside the SOC automation lab: modules that model its
integration gateway (`src/soc_integration`), the Wazuh manager's adapter
(`docker/wazuh/integrations/soc_gateway_adapter.py`) and the scripts that seed TheHive,
Shuffle and MISP, TLC configurations that check them on
small instances, and TLAPS proofs of what matters most for every instance. Paths below are
relative to the repository.

## 1. The system

Wazuh raises an alert; its manager starts the **adapter**, which posts the alert to the
**gateway**. The gateway stores it, answers 202, and a single **worker** enriches it (MISP),
opens or reuses a case (TheHive), starts a workflow run (Shuffle), and proposes a response to
a human where the scenario asks for one. Analysts decide proposals and repair failed
deliveries through the gateway's HTTP interface, and record triage of an endpoint there.
Dashboards scrape the gateway's metrics. Operators seed the three services by hand, with
scripts meant to be run again.

| component | state | operations | correct when |
|---|---|---|---|
| durable queue, `deliveries.py` | table `deliveries` | `enqueue`, `claim_due`, `complete`, `fail`, `recover_processing`, `requeue` | what was acknowledged is stored unchanged and ends completed or failed; nothing stays in `processing` without an owner; retries are bounded |
| handoff ledger, `deliveries.py` | table `shuffle_handoffs` | `reserve_`, `complete_`, `release_`, `reconcile_handoff` | a trace starts at most one automatic run; a finished handoff is final; a blocked one has a way out |
| incident store, `incidents.py` | table `incidents` | `reserve`, `complete`, `release` | a fingerprint has one case; a reservation has an owner |
| pipeline and worker, `pipeline.py`, `worker.py` | the locals of `process_once`, across awaits and commits | claim, enrich, incident, handoff, comment, propose, complete, fail, recover | "completed" means that the work outside was done |
| webhook and operator handlers, `app.py` | none of their own | `receive_wazuh_alert`, `replay_delivery`, `reconcile_delivery_handoff` | they never disturb a delivery the worker holds |
| human approval, `approvals.py`, `app.py` | tables `approvals`, `approval_sources`, `lab_identities`; audit file | `create`, `create_once`, `decide` | one response, final decisions, answers that agree with ledger and audit |
| HTTP client, `integrations/base.py` | the retry loop's locals | `RetryingClient.request` | a call that is not retry-safe has at most one effect; bounded waiting |
| adapter | spool directory | `flush`, `send`, `spool`, `process` | an alert is stored by the gateway, or in the spool, or reported otherwise |
| triage, `triage.py`, `app.py` | table `triage_requests`; audit file | `create`, `update` | answers agree with ledger and audit; the case can be trusted to tell what happened |
| enrichment and scoring, `enrichment.py`, `scoring.py` | none (pure), over what MISP holds at the time | `extract_indicators`, `normalize_misp`, `score_alert` | more intelligence never lowers a risk, whatever order it came in |
| metrics and health, `app.py`, `health.py`, `observability.py`, `metrics.py` | gauges shared by all requests | `/metrics`, `/health/ready` | a page shows nothing that was not so while it was made, and stale values do not outlive their cause |
| case seed, `seed_case.py` | a state file; one case in TheHive | `seed` | run again it adds nothing twice; the state file is true |
| playbook seed, `seed_workflows.py` | a state file; workflows and webhooks in Shuffle | `main`, `start_hook` | one workflow of a name, started by its webhook, named by the file |
| intelligence seed, `seed_misp.py` | one event and its attributes in MISP | `seed` | run again it adds nothing twice |

How they interact: the handlers and the worker share one SQLite file and one asyncio event
loop. A handler never awaits between its reads and its writes, so each of its transactions is
one step; the worker awaits a service or stands between two commits at fourteen places, and
at each of them handlers run, the process may die, or the answer may be late, lost or wrong.
The adapter's processes share only a directory, and the gateway only its HTTP answer.

What is hard: crashes between a durable reservation and its completion; a timeout that says
nothing about the effect; retries of a step that succeeded; an audit write that raises after a
commit; operators who replay or reconcile while the worker runs; several adapter processes on
one directory; awaits between a record and its comment, and between a look at a service and the
gauge; scripts that find and then create, one request at a time. `PROJECT.json` lists each hazard at its line with the properties aimed at it.

## 2. The modules

| module | models | uses |
|---|---|---|
| `DeliveryStore` | table `deliveries`, one operator per transaction | |
| `HandoffLedger` | table `shuffle_handoffs` | `DeliveryStore` |
| `IncidentStore` | table `incidents` | |
| `AlertGateway` | worker, pipeline, handlers, crash, TheHive and Shuffle as observed | the three above |
| `DurableInbox` | what the gateway promises about a delivery, without its machinery | |
| `Approvals` | approval ledger with the handlers around it | |
| `RetryingClient` | one call of the shared HTTP client | |
| `SpoolAdapter` | adapter processes on one spool directory | |
| `Triage` | triage store with the handlers and comments around it | |
| `Monitoring` | probes that look at the services and the gauges they share | |
| `CaseSeed`, `PlaybookSeed` | the scripts that seed TheHive and Shuffle | |
| `RiskScore` | the score as pure operators | |
| `IntelSeed` | the script that seeds MISP, and the enrichment that reads it | `RiskScore` |
| `MCEndpoints`, `MCLab` | compose `Triage` with `Monitoring`, and the three seeds, for TLC | |
| `MCAlertGateway`, `MCApprovals` | constants and symmetry for TLC | |
| `AlertGateway_proof`, `AlertGatewayInbox_proof`, `AlertGatewayWork_proof` | theorems about the gateway, each building on the one before | `AlertGateway`, `DurableInbox` |
| `Lab_proof`, `Endpoints_proof` | theorems about the components composed there | `MCLab`, `MCEndpoints` |
| other `*_proof` | theorems | the module they are named for |

An operator that begins with the comment "Slip" is not part of any specification. It is a
plausible mistake in the operator defined after it, kept to show that a property notices it.

### AlertGateway and the code

`worker.pc` is the line where `process_once` waits:

| `pc` | code | next |
|---|---|---|
| `enriching` | MISP searches, `pipeline.py` before the reservation | `ReserveIncident`, `JoinIncident`, `EnrichmentFails` |
| `finding`, `creating`, `observing`, `found` | the `try` block that looks for, creates and fills the case | `FindCase`, `CreateCase`, `AddObservables`, `IncidentFails` (`release`) |
| `reporting` | the pipeline's audit write | `ReportIncident`, `ReportFails` |
| `handing`, `triggering` | `reserve_handoff` and the trigger request, sent once | `HandoffAccepted`, `HandoffRefused` (`release_handoff`), `HandoffAmbiguous` |
| `commenting`, `proposing`, `completing` | case comment, `create_once`, `store.complete` | |
| `auditing` | the audit write inside the `try`, after the commit | `AuditCompletionFails` puts the delivery back |
| `failing`, `auditing_failure` | the `except` branch: `store.fail`, then an unprotected audit write | `AuditFailureFails` ends the task (`dead`) |
| `idle`, `down`, `dead` | no delivery; no process; a process whose worker task has ended | `Claim`, `Restart`, nothing |

Data is reduced to what the properties tell apart. An alert is a value; its fingerprint,
whether its scenario has a webhook or a proposal, and whether it has indicators are constant
functions. A trace is named by its key (it is a hash of values fixed with the key). An
execution id is the ordinal of the run, 0 for NULL. `older` stands for the order of
`created_at`; `due` for the comparison of `next_attempt_at` with the clock.

The environment is always allowed to time out, refuse, crash (up to `MaxCrashes`) and deliver
a request late. Four more misbehaviours are switched by `Faults`: an audit write that raises
(`audit`), a run accepted without an id (`no_id`), an error answered for a run that started
(`hidden_run`), and a create request whose answer is lost and which the client repeats
(`lost_case`). `MaxOperations` bounds successful replays and reconciliations.

A graceful stop is a crash of an idle worker; it is not modelled apart. `AlertGateway` is a
process that has a worker, that is, MISP and TheHive have credentials (`app.py:88`).

### The others

`Approvals`: a request is a commit together with its audit event (no await in between), then
an await of TheHive during which others run. The audit write may raise, the process may die
right after the commit, and the comment may fail, be lost, or come back unreadable.
`RetryingClient`: one call; `network` counts requests given up that may still arrive. An
error status may follow the effect or not (`Errs`), whatever its number is: the code cannot
tell, so neither does any property. A negative Retry-After sleeps as long as 0 does; one that
is not finite is outside the model.
`SpoolAdapter`: a process lists the first `MaxFlush` files, sends and unlinks each, then sends
its own alert and spools it unless the gateway took or refused it. Keys are numbers because
the files are tried in the order of their names.

`Triage`: `CreateTriage` and `UpdateTriage` are the store and the audit write (`Proceed`),
which no await separates; a refused update changes nothing. The call then waits at `noting`:
`PostComment` is one request of the client's retry loop, `CommentArrives` is TheHive taking one
of them, at any later time. `after` is history, the calls that had been answered when this one
was received, and lets `TriageCaseTold` tell comments that had to be in order from comments of
calls that were in progress together. The tests at `triage.py:79` and `app.py:341` are on the
truth of the summary, so that the empty string is a text of its own.

`Monitoring`: a probe is a request for `/metrics` or `/health/ready`. `CheckOne` is one ended
health check, `AllChecked` the gauges set from all of them, `CountRuns` one workflow's
executions. `clients` are the services that have credentials, chosen at the start, and they
decide whether there is a worker (`HasWorker`, `WorkerDeps`): with one, a page (`BeginProbe`)
and each turn of the worker's loop (`WorkerRefreshes`) bring the gauge of the queue up to date;
without one nobody does. A health check that reads what was answered (`ReadDeps`, the token of
Wazuh) may raise what `check_one` does not catch (`CheckRaises`).
`held`, `quiet` and `real` are history, against which the shown page is compared.

`CaseSeed`, `PlaybookSeed`, `IntelSeed`: one action for each HTTP request, of any number of runs
at once; a run may stop before and after each. `overlapped`, `overlapping` and `seedsMet`
remember whether two were in progress together, since find-then-create cannot be idempotent
then; `CaseSeedOnce`, `HookRunsTheBook` and `IntelSeedOnce` speak of runs one after the other
only, and of overlapping runs `SeededCaseIsWhole` alone. It is assumed that a service has processed a request, or never will, when the run that
sent it ends. `IntelSeed` also has the gateway's side: `BeginLook` extracts the indicators of an
alert, `LookUp` is one search of MISP, `EndLook` scores. A text field is reduced to the value
it stands for, whether its key is an indicator's, and whether it is well-formed. An indicator of
the seed's fixture stands for a value with its MISP type, by which `attribute_exists` searches
(`Present`); so does an attribute that others add. MISP's answer
is the list of the value's attributes, each reduced to the confidence its comment gives.
`IntelligencePoints` replaces `int(confidence * 0.3 + 0.5)` by integer division; the two agree
for the 101 values that `_metadata` can return.

## 3. What TLC checks

| run | instance | shows |
|---|---|---|
| `gateway_faults` | 1 key, 2 payloads, 2 cases, 2 attempts, 2 crashes, 2 operations, every fault but `hidden_run` | the delivery's whole life under failures, and that the gateway implements `DurableInbox` |
| `gateway_steady` | 2 keys, 2 payloads of one fingerprint, 1 operation, failing audit writes | what two deliveries do to each other: deduplication, order, reservations, acknowledged keys |
| `gateway_live` | 2 keys, 1 crash, no switched fault, fair | every accepted alert settles |
| `approvals` | 2 approvals, 2 requests at once, 1 trace, 1 crash | one response, agreement, backed comments |
| `client` | 4 attempts, Retry-After of 0, 3, 60 or none | effects, leftovers and waiting of one call |
| `spool` | 2 processes, 2 files of which one is refused, failing disk, 1 outage, 1 kill, fair | reports are true, the spool loses nothing and drains |
| `endpoints` | triage: 3 calls, 1 record, 2 requests for a comment; monitoring: 2 probes, 2 dependencies (Shuffle, and one for MISP, TheHive and Wazuh together), 2 playbooks, 2 changes; crashes | triage answers, audit and comments agree; what a page shows was so |
| `lab` | 3 runs of the case seed (2 cases, 2 observables, 1 task, 1 deletion), 3 of the playbook seed (2 playbooks, 3 workflows), 2 of the MISP seed (2 indicators) with 2 alerts and 1 foreign attribute | seeds are idempotent, state files true, risk grows with intelligence |

Why these bounds are enough for the interesting cases: two attempts give a
failure that is retried and one that is final; two crashes let one fall into the
recovery of another; two operations let an operator reconcile, fail again and reconcile
again; two cases let a duplicate exist; two deliveries of one fingerprint are the smallest
conflict. One key is enough in `gateway_faults` because keys meet only in the claim order and
in a fingerprint, which `gateway_steady` covers. Two approvals and two requests give both the
race for one approval and the race for the one identity. Three triage calls are a creation, an
update and a second update beside it; with two requests for each comment one can arrive after
the call has ended. Two changes let a service fail and come back between two looks. Three runs
of a seed are one that is stopped, one that repairs, and one beside it or after it; three
workflows let each of two playbooks have one and one of them a duplicate. One dependency stands
for the three that `other` bundles since each only decides whether there is a worker or whether
a check may raise; with three dependencies the run would not end in time, and the theorems
cover any number. In `spool` the slice of `MaxFlush` files never cuts the list, for the same
reason: its theorems hold for every `MaxFlush`, its liveness is checked for two files.

`MCEndpoints` and `MCLab` hold systems that share no variable. One works while the others rest
in their initial state, since interleaving them shows nothing that each does not show alone.
In `lab.cfg` the systems share model values so that few permutations serve them all. `CHECK_DEADLOCK` is off in these two runs,
where every call or run is used once and the system then stops. The proofs of section 5 lift
every safety property of these runs to every size, five of them under a stated condition.

The abstraction relation of `RefinesInbox` maps `queued` and `retrying` to "waiting",
`processing` to "working", `completed` to "done" and `failed` to "given up". `Reopen` is
allowed in the abstract specification only when `"audit"` is among the faults: then a
completed delivery really is put back, and `ResultIsStable` says that its second processing
reaches the same incident and execution.

### Fairness

- `WF(WorkerStep)`: the event loop resumes a coroutine whose await has ended, and every await
  ends because each client request has a timeout.
- `WF(BackoffPasses(k))`: the clock reaches `next_attempt_at`, and the worker polls.
- `WF(Restart)`: the container runtime restarts the process (`restart: unless-stopped`).
- adapter: a started process runs, the manager goes on starting processes as alerts arrive,
  and outages end. Nothing is assumed about which alert arrives.

Nothing is assumed about operators, crashes, or the services' answers.

## 4. Where code and documents disagree

Each of these runs checks one sentence of the documentation and finds a behaviour of the code
that contradicts it; `PROJECT.json` quotes both sides.

| run | what happens |
|---|---|
| `doc_incident` | a process that dies between `incidents.reserve` and `incidents.complete` leaves the fingerprint reserved for ever; this delivery and all later ones of the fingerprint are completed with no incident |
| `doc_reconcile` | Shuffle accepts without an id, a later step fails: every retry demands a reconciliation that `reconcile_handoff` refuses |
| `doc_settles` | the audit write of the `except` branch raises: the worker task ends, the process goes on accepting alerts nobody processes |
| `doc_evidence` | `add_observable` fails once: the retry reuses the case by its tag and never adds the observables |

Noticed while modelling, without a run of its own:

- `create_case` is posted with the client's default `retry_safe=True` (`thehive.py:34`): when
  the answer is lost the client posts it again, and TheHive has two cases for one fingerprint,
  although `AUTOMATED_ENRICHMENT.md:13` has one created or reused. With `lost_case` in
  `Faults`, `OneCasePerFingerprint` fails; `gateway_steady` excludes it.
- `flush` tries the first `max_flush` files by name (`soc_gateway_adapter.py:126`). That many
  files which the gateway refuses for ever keep every later one from being tried, although
  `docker/wazuh/README.md:20` has failures "retried on the next invocation". With as many
  refused alerts as `MaxFlush`, `SpoolDrains` fails; the run `spool` has one fewer.
- The state file of `seed_case.py` may name a case that was deleted since. TheHive answers 404,
  `request` raises, and no later run gets to `find_case`, although line 79 provides for it.
- Every rerun of `seed_case.py` sets the case to `InProgress` (line 103), also one that an
  analyst has closed.
- `attribute_exists` (`seed_misp.py:66`) is satisfied by an attribute without metadata that
  somebody else added; the seed then never adds its own, and the confidence stays 0.
- Metadata that is JSON but no object raises an `AttributeError` (`enrichment.py:130`) that
  nothing catches before the worker: every alert with that indicator fails (`LookFails`).
- The reputation shown is the last attribute's (`enrichment.py:130`), the confidence the
  highest one's: the two may come from different authors.
- Shuffle's answer may be no list of records; the page is then HTTP 500 (`app.py:183` catches
  `IntegrationError` only; `CollectionRaises`). So may the answer to Wazuh's health check be no
  token: `/metrics` and `/health/ready` are then HTTP 500 instead of saying that Wazuh is
  unhealthy (`health.py:23`; `CheckRaises`).
- Without credentials for MISP or TheHive there is no worker (`app.py:88`), but the webhook goes
  on accepting alerts: they wait for ever, and `/metrics` shows nothing of the queue
  (`app.py:151`; the clause on the queue in `QuietPageIsTrue`). `AcceptedSettles` is about a
  process with a worker.
- `start_hook` takes any reason with "exist" or "running" in it for a webhook that is there
  (`seed_workflows.py:115`), "does not exist" and "not running" included. The model's Shuffle
  gives no such reason.
- A triage update to `collecting` whose audit write raised is stored, refused when repeated,
  and never audited. `TriageAnswersAgree` holds because nobody was told that it stands.
- An error status for a run that did start, a proxy's 502 or 504 or a 500 of Shuffle's own,
  is reported as an HTTP error (`base.py:108`); the worker takes it for a rejection and releases the handoff
  (`worker.py:116`), and the retry starts a second run. With `hidden_run` in `Faults`,
  `HandoffAtMostOnce` fails; the checked instance and the theorem exclude it.
- When two adapter processes send the same file, the second `unlink` raises outside the `try`
  (`soc_gateway_adapter.py:139`) and the process ends before it sent or spooled its own alert
  (`UnlinkFails`). The properties hold because it reports an error.
- Any 4xx drops the adapter's own alert, a temporary one (a token being rotated) included.
- A decision whose audit write raises (`app.py:271`) stands without an audit event until
  somebody repeats the request. `AnswersAgree` holds because the request was not answered.

## 5. What is proved

All theorems hold for every value of the constants that satisfies the modules' assumptions.
These say what a constant stands for: that a limit is a natural number and a null value is
none of the data, that the fixture is a list without repetitions, that an alert has finitely
many fields and an attribute one of the shapes `_metadata` can meet, and that there are
finitely many playbooks. No theorem assumes a bound on runs, calls, probes or deliveries.

**`AlertGateway_proof`.** `TypeCorrect`, through `TypeInv`: besides the types, every stored
row has a payload, the worker holds a stored delivery at every stage (`WorkerOK`), knows a
disposition after the pipeline, and has a case when it adds observables. Without these the
types are not inductive, as `Complete` writes what the worker holds.

`HandoffOnce`: under the assumption that an error status means that no run started. The
property alone is not inductive; the invariant is an account (`HandoffPaid`): runs, requests
in the network and the one being awaited, together `Committed`, are at most one plus the
operator's grants, and at most the grants when the trace has no row. `RefusalIsFree` says
that a refused request leaves the account as if it had not been sent, which is what lets
`release_handoff` delete the row.

**`AlertGatewayInbox_proof`.** The invariant `OwnerInv` says where the worker stands
relative to its row: it is `processing` until settled, `completed` while the completion is
audited, and in the failure branch either still `processing` or, after a failed audit write,
`completed`; nobody else's row is `processing` unless the process is down, and at most one
is. From it:

- `NothingStuck`: `ProcessingIsOwned`.
- `GatewayIsInbox`: the refinement. Each step that writes a row is matched with one step of
  the inbox (`NextInbox`); a restart puts back the single interrupted row; all others,
  proved to leave the rows alone (`Quiet`), stutter.
- `AcceptedIsKept`: `AckedIsDurable`, since no step removes a row or changes its payload.
- `HandoffsAreFinal`: `HandoffIsFinal`. The row of a trigger request being awaited is still
  pending (`TriggerPending`), because reconciliation requires a failed delivery and
  `OwnerInv` makes the awaited one `processing`.
- `BudgetKept`: `RetryBudget`, through `Fits`: a crash buys one more claim, and a row that a
  stopped process left behind has not used it yet.

**`AlertGatewayWork_proof`.** What a completion stands for. The invariant `WorkInv` has one
layer for each thing that `process_once` leaves behind, and the layers rest on one another
in the order of the code. `IncidentInv`: a row with a case names a case of its own
fingerprint, the row of the worker's open reservation has none, and once the pipeline has
decided the worker's case is the row's. `HandedInv`: past the handoff the row of the trace
is completed with the execution that the worker holds, and past the comment the case has it.
`LedgerInv`: a completed row stands for a run. `ProposalInv`: a proposal is of a stored
delivery with the case of its fingerprint. `ResultInv`: a stored result agrees with all of
these rows (`Backed`). Each layer comes with what no later step undoes (`TagsKept`,
`TraceKept`, `ProposalsKept`, `ResultKept`). From it, without any condition:

- `CompletedWorkDone`: `CompletedWorkIsReal`; `ProposalsGrounded`: `ProposalIsGrounded`.
- `ResultsAreStable`: `ResultIsStable`. A completion that was put back and is worked on
  again reads the same rows, so it stores what was stored.

Four properties fail without a condition, as `HandoffAtMostOnce` does. The theorems state it
and section 4 explains it:

- `ReservationsOwned` and `CompletedHaveIncident`, as long as `crashes = 0`. The invariant
  `OwnedInv` needs both at once: who joins a reservation gets no case exactly when its owner
  is gone. `doc_incident` shows what a crash does.
- `SoleCase`: `OneCasePerFingerprint` when `"lost_case"` is not in `Faults`. At `creating`
  the search has found no case of the tag, and nobody else can create one (`SoleInv`).
- `BlockedIsReconcilable`: `BlockedHandoffIsReconcilable` when `"no_id"` is not in `Faults`;
  `doc_reconcile` shows the other case.

**`Approvals_proof`.** Types, `ResponseOnce`, `AnswersAgree`, `NotesAreBacked`,
`ProposedOnce` and `DecisionIsFinal`. The invariant adds that a request in progress refers
to a decision that is in the ledger and in the audit file.

**`Endpoints_proof`**, triage. `TriageTyped`, `AnswersAgree`, `CaseIsTold`. The second needs
that a call in progress, answered or given up refers to a stored record at least as far as
its own update (so that `Updatable` and `Repeated` keep what was told), and that its pair is
in the audit file. For the order of comments the invariant says that a call which has been
answered with something to tell, and whose failure was not recorded, has a comment already;
a later call then can only append behind it.

Monitoring. `MonitoringTyped`, `WhatWasShownWasTrue` (`ShownWasTrue`) and
`QuietPagesAreTrue` (`QuietPageIsTrue`). Any probe may set the gauges that another shows, so
the invariant speaks of every two probes in progress: whatever one has seen and may yet set,
the other remembers as having been so, and the gauges that a probe is about to show hold
only what it remembers (`HeldInv`), and for a probe that met no change it is the truth
(`QuietInv`). The gauge of the queue needs a clause beside it: without a worker it was never
set, so that a page shows nothing there and not an older number. No execution is shown twice because what a probe has counted, and what the
gauge holds, is at most the number of executions there are (`TallyInv`, by cardinalities of
finite sets); only this makes the type of the gauges inductive. `ShownInv` keeps for an
answered probe what held when it was answered.

`EndpointsTyped`: `EndpointsTypeOK`, since a behaviour of the composition is one of each of
the two (`EndpointsRun`).

**`Lab_proof`**, case seed. `CaseSeedTyped` and `StateFileIsTrue`: what a run has passed,
the case it holds has for good: at `tasking` every observable, at `patching` every task and
the comment. A run that skips the comment does so because the file named its case, so that
`Whole` of the file's case is part of the invariant; no step takes anything from a case.
`CaseSeededOnce` (`CaseSeedOnce`): until two runs overlap, what the only run has found
missing is missing still (`Alert`), and the comments are at most as many as runs that
stopped, plus one once a run has got as far as `patching`; with a state file nobody comments
again (`OnceInv`).

Playbook seed. `PlaybookSeedTyped` and `HooksRunTheirBooks` (`HookRunsTheBook`): until two
runs overlap there is one workflow of each name, every webhook starts one of its playbook,
and it starts the one that the state file names (`BookInv`); `RunKnows` says that the list
the run holds has not aged and that the playbooks it is done with are hooked up.

Intelligence seed and enrichment. `SeedsOnce` (`IntelSeedOnce`): while seeds are one after
the other, a seed that adds has seen that nothing is there, and only analysts, whom
`foreign` counts, add in between. `FactorsAddUp` (the cap of 100 never cuts, so the factors
an analyst sees add up to the score), `ScoreIsMonotone` and `SeverityIsMonotone`, for every
rule level, confidence of 0..100 and number of indicators. `IntelTyped`, with percentages
for the confidences and scores. `RiskGrows` (`RiskGrowsWithIntelligence`): MISP only grows
(`MispGrows`), so that a confidence once found for an indicator stays supported by an
attribute (`Supports`), and a later enrichment of the same alert has found as much or has it
still before it (`Regains`); a completed seed has left an attribute of the fixture's
confidence for each of its indicators (`SeedDoes`). The scores then compare by
`ScoreIsMonotone`.

`LabTyped`: `LabTypeOK`, from `LabRuns`, as above.

**`RetryingClient_proof`.** `EffectsBounded`, `AnswersAreOver` (`AnsweredIsOver`: what is left
under way when a call ends with an answer was sent by earlier attempts), and that the error after
the loop is unreachable (`NeverExhausted`), for every number of attempts, from an account of
the requests sent per attempt. `CallTyped` (`TypeOK`) follows from the same invariant.
`WaitIsBounded` (`WaitBounded`): `SleepInv` counts `LongestSleep`, the longest that the cap
or the last backoff allows, once for each attempt that has failed.

**`SpoolAdapter_proof`.** Types, `ResultsAreTrue` and `SpoolKeeps` for any number of
processes and files: a process that is about to unlink a file has seen it accepted.

Only model-checked: the liveness properties `AcceptedSettles` and `SpoolDrains`, since
liveness under fairness and ENABLED are beyond the prover. Every invariant and action
property of the passing runs is stated by a theorem. The violations of section 4 are TLC's
counterexamples.

## 6. Not modelled, and why

- Token checks, validation of requests and settings: they precede every state change and
  decide only whether an operation starts.
- Texts, formats, log lines and reports: no property is about them.
- The read-only endpoints and `idempotency.py` (used by tests only).
- The guest-agent, validation and drill scripts, `invoke_playbook.py` and `enrich_ioc.py`:
  sequential I/O without state of their own.
- Counters, duration summaries and the rendering of metrics; the reputation, tags and sources
  of an enrichment and the list of malformed indicators, which reach texts only.
- Requests of a seeding script that a service processes after the run has ended. They could
  double what the next run adds; nothing in the scripts deals with them.
- SQLite itself: a transaction is atomic and durable (the code opens the file with WAL and
  commits in a `with` block), so torn writes are outside the model.

## 7. Plan

Done, in this order: stores, gateway, inbox, approvals, client, adapter, and their proofs;
triage, monitoring, the seeds, enrichment and scoring, and their proofs; the theorems about what
a completed delivery stands for.

Next:

1. **Composition** of adapter and gateway: an alert handed to the adapter ends stored, spooled
   or reported, with the gateway's acknowledgement in between; and of `IntelSeed` with the
   gateway, so that an enrichment that fails is retried by the worker.
2. **Proofs** of what that composition adds, and an abstract specification for the approval
   ledger (a decision is made once, then only told) with its refinement.

## Running

    tlc -workers 2 -config gateway_faults.cfg MCAlertGateway.tla
    tlapm AlertGatewayInbox_proof.tla

A configuration belongs to the module that `PROJECT.json` names. `CHECK_DEADLOCK` is left on
except in `endpoints.cfg` and `lab.cfg`; the client's finished call stutters (`Done`).
