------------------------------- MODULE Monitoring -------------------------------
(***************************************************************************)
(* What dashboards are told: the handlers metrics and ready of app.py,     *)
(* integration_health of health.py, collect_playbook_metrics of            *)
(* observability.py, and the gauges of metrics.py they write.              *)
(*                                                                         *)
(* A probe looks at the dependencies one await at a time and then sets the *)
(* gauges, which all probes and the page they render share.  A probe that  *)
(* looked early may therefore set and show its gauges late.                *)
(***************************************************************************)
EXTENDS Naturals, FiniteSets

CONSTANTS
  Probes,     \* requests for /metrics or /health/ready, each used once
  Deps,       \* the dependencies create_app knows
  Shuffle,    \* the dependency that runs the playbooks
  WorkerDeps, \* the dependencies without which no worker is made: MISP and TheHive
  ReadDeps,   \* the dependencies whose health check reads what was answered: Wazuh
  Books,      \* executions of the workflows named SOC-LAB PB, one for each workflow
  MaxQueue,   \* bound: deliveries queued
  MaxChanges  \* bound: changes of the world while probes run

ASSUME DepsAssumption == Shuffle \in Deps /\ WorkerDeps \subseteq Deps /\ ReadDeps \subseteq Deps
ASSUME BooksAssumption == IsFiniteSet(Books)
ASSUME MonitoringBounds == MaxQueue \in Nat /\ MaxChanges \in Nat

VARIABLES
  clients,  \* the dependencies that the settings give a client, fixed at start
  healthy,  \* which dependencies answer
  runs,     \* how the executions stand in Shuffle
  queued,   \* deliveries in the queue
  gauges,   \* MetricsRegistry, the gauges that probes and the worker write
  probes,   \* the requests: where each stands and what it has seen
  changes

monitoringVars == <<clients, healthy, runs, queued, gauges, probes, changes>>

Outcomes == {"running", "success", "failure"}
Unset == 2  \* a gauge that has no sample yet

Tally0 == [o \in Outcomes |-> 0]
Gauges0 == [dep |-> [d \in Deps |-> Unset], books |-> Tally0, up |-> Unset, queue |-> Unset]
Unused0 == [at |-> "idle", page |-> TRUE, saw |-> [d \in Deps |-> "pending"], left |-> {},
            tally |-> Tally0, shown |-> Gauges0, real |-> Gauges0,
            quiet |-> TRUE, held |-> [d \in Deps |-> {}]]

MonitoringInit ==
  /\ clients \in SUBSET Deps
  /\ healthy \in [Deps -> BOOLEAN]
  /\ runs = [b \in Books |-> "none"]
  /\ queued = 0
  /\ gauges = Gauges0
  /\ probes = [p \in Probes |-> Unused0]
  /\ changes = 0

InFlight == {p \in Probes : probes[p].at \notin {"idle", "answered", "error"}}

------------------------------------------------------------------------------
(* The handlers, and the worker.                                             *)

\* create_app makes a pipeline, and with it a worker, only when these have clients.
HasWorker == WorkerDeps \subseteq clients

\* The queue is asked by the worker, if there is one.
Refreshed == IF HasWorker THEN [gauges EXCEPT !.queue = queued] ELSE gauges

\* The worker refreshes the gauge after each turn of its loop.
WorkerRefreshes ==
  /\ HasWorker
  /\ gauges' = Refreshed
  /\ UNCHANGED <<clients, healthy, runs, queued, probes, changes>>

\* A probe begins: the page first has the gauge of the queue refreshed.  A dependency
\* without client is reported at once.  quiet and held are history: whether the world
\* has stood still since, and which health each dependency has had since, counting
\* what probes still in progress may yet set.
BeginProbe(p, page) ==
  /\ probes[p].at = "idle"
  /\ probes' = [probes EXCEPT ![p] =
       [Unused0 EXCEPT !.at = "checking", !.page = page,
          !.saw = [d \in Deps |-> IF d \in clients THEN "pending" ELSE "not_configured"],
          !.quiet = \A o \in InFlight : probes[o].quiet,
          !.held = [d \in Deps |-> {healthy[d]} \cup UNION {probes[o].held[d] : o \in InFlight}]]]
  /\ gauges' = IF page THEN Refreshed ELSE gauges
  /\ UNCHANGED <<clients, healthy, runs, queued, changes>>

\* check_one: the checks are gathered and end in any order.
CheckOne(p, d) ==
  /\ probes[p].at = "checking" /\ probes[p].saw[d] = "pending"
  /\ probes' = [probes EXCEPT ![p].saw[d] = IF healthy[d] THEN "healthy" ELSE "unhealthy"]
  /\ UNCHANGED <<clients, healthy, runs, queued, gauges, changes>>

\* An answer that is not what WazuhClient.token expects: no check_one catches what is
\* raised, the probe is answered with HTTP 500 and sets no further gauge.
CheckRaises(p, d) ==
  /\ probes[p].at = "checking" /\ probes[p].saw[d] = "pending"
  /\ d \in ReadDeps
  /\ probes' = [probes EXCEPT ![p].at = "error"]
  /\ UNCHANGED <<clients, healthy, runs, queued, gauges, changes>>

\* Slip: the results are paired with the names in another order.
DepGaugesZipped(saw) ==
  LET flip == CHOOSE f \in [Deps -> Deps] :
                \A d \in Deps : f[f[d]] = d /\ (Cardinality(Deps) > 1 => f[d] # d)
  IN [d \in Deps |-> IF saw[flip[d]] = "healthy" THEN 1 ELSE 0]

DepGauges(saw) == [d \in Deps |-> IF saw[d] = "healthy" THEN 1 ELSE 0]

Count(o) == Cardinality({b \in Books : runs[b] = o})
Bit(b) == IF b THEN 1 ELSE 0

\* The truth that a page is compared with.
Real == [dep |-> [d \in Deps |-> Bit(d \in clients /\ healthy[d])],
         books |-> [o \in Outcomes |-> Count(o)],
         up |-> Bit(Shuffle \in clients /\ healthy[Shuffle]), queue |-> queued]

\* The answer: the page, or for ready the health it saw.  real is history.
Answer(p, g) ==
  probes' = [probes EXCEPT ![p].at = "answered", ![p].shown = g, ![p].real = Real]

\* All checks have ended: the gauges are set, and ready answers with what it saw.  The
\* page goes on to the playbooks, unless Shuffle has no client.
AllChecked(p) ==
  LET saw == probes[p].saw
      g == [gauges EXCEPT !.dep = DepGauges(saw)]
  IN /\ probes[p].at = "checking" /\ \A d \in Deps : saw[d] # "pending"
     /\ \/ ~probes[p].page /\ gauges' = g /\ Answer(p, g)
        \/ /\ probes[p].page /\ Shuffle \notin clients
           /\ gauges' = [g EXCEPT !.up = 0]
           /\ Answer(p, gauges')
        \/ /\ probes[p].page /\ Shuffle \in clients
           /\ gauges' = g
           /\ probes' = [probes EXCEPT ![p].at = "listing"]
     /\ UNCHANGED <<clients, healthy, runs, queued, changes>>

ListWorkflows(p) ==
  /\ probes[p].at = "listing" /\ healthy[Shuffle]
  /\ probes' = [probes EXCEPT ![p].at = "counting", ![p].left = Books]
  /\ UNCHANGED <<clients, healthy, runs, queued, gauges, changes>>

Tallied(tally, outcome) == IF outcome = "none" THEN tally ELSE [tally EXCEPT ![outcome] = @ + 1]

\* The executions of one workflow are fetched and counted by result.
CountRuns(p, b) ==
  /\ probes[p].at = "counting" /\ b \in probes[p].left /\ healthy[Shuffle]
  /\ probes' = [probes EXCEPT ![p].left = @ \ {b}, ![p].tally = Tallied(@, runs[b])]
  /\ UNCHANGED <<clients, healthy, runs, queued, gauges, changes>>

BookGauges(p) == probes[p].tally

\* The collection ends: all playbook gauges are set and the page is rendered.
Collected(p) ==
  /\ probes[p].at = "counting" /\ probes[p].left = {}
  /\ gauges' = [gauges EXCEPT !.books = BookGauges(p), !.up = 1]
  /\ Answer(p, gauges')
  /\ UNCHANGED <<clients, healthy, runs, queued, changes>>

\* Slip: a failed collection leaves every gauge as it was.
UpAfterFailureKept == gauges.up

\* Slip: the failure is counted instead, as by the counter beside the gauge.
UpAfterFailureCounted == gauges.up + 1

UpAfterFailure == 0

\* Shuffle does not answer: the page says so, and shows the old playbook gauges.
CollectionFails(p) ==
  /\ probes[p].at \in {"listing", "counting"} /\ ~healthy[Shuffle]
  /\ gauges' = [gauges EXCEPT !.up = UpAfterFailure]
  /\ Answer(p, gauges')
  /\ UNCHANGED <<clients, healthy, runs, queued, changes>>

\* Shuffle's answer is no list of records: HTTP 500, and no further gauge is set.
CollectionRaises(p) ==
  /\ probes[p].at \in {"listing", "counting"}
  /\ probes' = [probes EXCEPT ![p].at = "error"]
  /\ UNCHANGED <<clients, healthy, runs, queued, gauges, changes>>

------------------------------------------------------------------------------
(* The world, and the process.                                               *)

\* Something changes: probes in progress are not quiet any more.
Change(health) ==
  /\ changes < MaxChanges
  /\ changes' = changes + 1
  /\ healthy' = health
  /\ probes' = [p \in Probes |->
       IF p \in InFlight
       THEN [probes[p] EXCEPT !.quiet = FALSE,
               !.held = [d \in Deps |-> probes[p].held[d] \cup {health[d]}]]
       ELSE probes[p]]
  /\ UNCHANGED gauges

HealthChanges(d) ==
  /\ d \in clients
  /\ Change([healthy EXCEPT ![d] = ~@])
  /\ UNCHANGED <<clients, runs, queued>>

RunStarts(b) ==
  /\ runs[b] = "none"
  /\ runs' = [runs EXCEPT ![b] = "running"]
  /\ Change(healthy)
  /\ UNCHANGED <<clients, queued>>

RunEnds(b, outcome) ==
  /\ runs[b] = "running"
  /\ runs' = [runs EXCEPT ![b] = outcome]
  /\ Change(healthy)
  /\ UNCHANGED <<clients, queued>>

QueueChanges ==
  /\ queued' \in (0..MaxQueue) \ {queued}
  /\ Change(healthy)
  /\ UNCHANGED <<clients, runs>>

\* The process restarts: gauges and requests are gone.
MonitoringCrash ==
  /\ gauges' = Gauges0
  /\ probes' = [p \in Probes |->
       IF p \in InFlight THEN [probes[p] EXCEPT !.at = "error"] ELSE probes[p]]
  /\ UNCHANGED <<clients, healthy, runs, queued, changes>>

ProbeHandler(p) ==
  \/ \E page \in BOOLEAN : BeginProbe(p, page)
  \/ \E d \in Deps : CheckOne(p, d) \/ CheckRaises(p, d)
  \/ AllChecked(p)
  \/ ListWorkflows(p)
  \/ \E b \in Books : CountRuns(p, b)
  \/ Collected(p) \/ CollectionFails(p) \/ CollectionRaises(p)

World ==
  \/ \E d \in Deps : HealthChanges(d)
  \/ \E b \in Books : RunStarts(b) \/ \E o \in {"success", "failure"} : RunEnds(b, o)
  \/ QueueChanges

MonitoringNext ==
  (\E p \in Probes : ProbeHandler(p)) \/ WorkerRefreshes \/ World \/ MonitoringCrash

MonitoringSpec == MonitoringInit /\ [][MonitoringNext]_monitoringVars

------------------------------------------------------------------------------
(* Properties.                                                               *)

Gauge == {0, 1, Unset}
GaugeRecord == [dep : [Deps -> Gauge], books : [Outcomes -> 0..Cardinality(Books)],
                up : Gauge, queue : (0..MaxQueue) \cup {Unset}]

MonitoringTypeOK ==
  /\ healthy \in [Deps -> BOOLEAN]
  /\ runs \in [Books -> Outcomes \cup {"none"}]
  /\ queued \in 0..MaxQueue
  /\ gauges \in GaugeRecord
  /\ \A p \in Probes :
       /\ probes[p].at \in {"idle", "checking", "listing", "counting", "answered", "error"}
       /\ {probes[p].shown, probes[p].real} \subseteq GaugeRecord
       /\ probes[p].left \subseteq Books
  /\ changes \in 0..MaxChanges

AnsweredProbes == {p \in Probes : probes[p].at = "answered"}

\* However probes overlap, nothing is shown that was not so at some moment since the
\* probe began, or since one began that was then in progress; and no page that says its
\* playbook gauges were collected counts an execution twice or one that did not happen.
ShownWasTrue ==
  \A p \in AnsweredProbes :
    LET shown == probes[p].shown IN
    /\ \A d \in clients : \E was \in probes[p].held[d] : shown.dep[d] = Bit(was)
    /\ \A d \in Deps \ clients : shown.dep[d] = 0
    /\ shown.up = 1 => /\ shown.books["success"] <= probes[p].real.books["success"]
                       /\ shown.books["failure"] <= probes[p].real.books["failure"]

\* Staleness does not outlive its cause: a page whose probe met no change, neither
\* itself nor through an older probe still in progress, shows the truth, except for the
\* playbooks while Shuffle is down, and then it says so.  Without a worker nobody asks
\* the queue, and the page shows nothing of it, however many alerts wait there.
QuietPageIsTrue ==
  \A p \in AnsweredProbes :
    LET shown == probes[p].shown
        real == probes[p].real
    IN probes[p].quiet /\ probes[p].page =>
         /\ shown.dep = real.dep /\ shown.up = real.up
         /\ shown.queue = IF HasWorker THEN real.queue ELSE Unset
         /\ real.up = 1 => shown.books = real.books
==============================================================================
