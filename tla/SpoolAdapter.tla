----------------------------- MODULE SpoolAdapter -----------------------------
(***************************************************************************)
(* soc_gateway_adapter.py: the process the Wazuh manager starts for each   *)
(* alert.  It first flushes the spool directory (the first MaxFlush files  *)
(* in the order of their names), then posts its own alert, and spools it   *)
(* when the gateway does not answer 202.  Processes share nothing but the  *)
(* directory and the gateway.                                              *)
(*                                                                         *)
(* A key stands for an alert and for its file; keys are ordered as the     *)
(* names of the files.  An unavailable gateway answers 5xx, not at all, or *)
(* after the deadline, so it may have stored the alert all the same.       *)
(***************************************************************************)
EXTENDS Naturals, FiniteSetsExt

CONSTANTS
  Keys,         \* the idempotency keys of the alerts
  Refused,      \* keys the gateway always answers 4xx
  NoKey,
  Procs,        \* adapter processes that may run at once
  MaxFlush,     \* config.max_flush
  DiskMayFail,  \* writing a spool file may raise
  MaxOutages,   \* bound: outages of the gateway
  MaxKills      \* bound: adapter processes killed

ASSUME KeysAssumption == Keys \subseteq Nat /\ Refused \subseteq Keys /\ NoKey \notin Keys
ASSUME BoundsAssumption == MaxFlush \in Nat /\ MaxOutages \in Nat /\ MaxKills \in Nat
ASSUME DiskAssumption == DiskMayFail \in BOOLEAN

VARIABLES
  files,     \* the spool directory
  adapter,   \* the processes
  accepted,  \* the gateway: alerts it has stored
  up,        \* the gateway is reachable and answers in time
  results,   \* history: the <<key, result>> pairs of the processes that ended
  budget     \* outages and kills so far

gateway == <<accepted, up>>
vars == <<files, adapter, gateway, results, budget>>

Results == {"delivered", "spooled", "rejected", "error"}
Idle == [pc |-> "idle", key |-> NoKey, batch |-> {}, file |-> NoKey]

Init ==
  /\ files = {} /\ adapter = [p \in Procs |-> Idle]
  /\ accepted = {} /\ up = TRUE
  /\ results = {} /\ budget = [outages |-> 0, kills |-> 0]

At(p, pc) == adapter[p].pc = pc

\* Slip: the result of a delivery is not returned.
FinishSilently(p, result) ==
  /\ adapter' = [adapter EXCEPT ![p] = Idle]
  /\ results' = results \cup {<<adapter[p].key, IF result = "delivered" THEN "none" ELSE result>>}

\* The process ends.
Finish(p, result) ==
  /\ adapter' = [adapter EXCEPT ![p] = Idle]
  /\ results' = results \cup {<<adapter[p].key, result>>}

\* The files a flush will try, in sorted order: all that have fewer than MaxFlush
\* files before them.
Listed == {f \in files : Cardinality({g \in files : g < f}) < MaxFlush}

Start(p, k) ==
  /\ At(p, "idle")
  /\ adapter' = [adapter EXCEPT ![p] = [pc |-> "flush", key |-> k, batch |-> Listed, file |-> NoKey]]
  /\ UNCHANGED <<files, gateway, results, budget>>

Try(p) == At(p, "flush") /\ adapter[p].batch # {}
NextFile(p) == Min(adapter[p].batch)

\* A file is read and its alert is answered 202.
FlushSent(p) ==
  /\ Try(p) /\ up
  /\ NextFile(p) \in files \ Refused
  /\ accepted' = accepted \cup {NextFile(p)}
  /\ adapter' = [adapter EXCEPT ![p].pc = "unlink", ![p].file = NextFile(p)]
  /\ UNCHANGED <<files, up, results, budget>>

\* What an unavailable gateway may have stored of an alert.
Perhaps(f) == {accepted} \cup (IF up \/ f \in Refused THEN {} ELSE {accepted \cup {f}})

\* Slip: the first failure ends the flush.
FlushBreaks(p) ==
  /\ Try(p)
  /\ ~up \/ NextFile(p) \notin files \/ NextFile(p) \in Refused
  /\ adapter' = [adapter EXCEPT ![p].batch = {}]
  /\ accepted' \in (IF NextFile(p) \in files THEN Perhaps(NextFile(p)) ELSE {accepted})
  /\ UNCHANGED <<files, up, results, budget>>

\* Slip: the file is removed whatever the answer.
FlushFinally(p) ==
  /\ Try(p)
  /\ ~up \/ NextFile(p) \notin files \/ NextFile(p) \in Refused
  /\ adapter' = [adapter EXCEPT ![p].pc = "unlink", ![p].file = NextFile(p)]
  /\ accepted' \in (IF NextFile(p) \in files THEN Perhaps(NextFile(p)) ELSE {accepted})
  /\ UNCHANGED <<files, up, results, budget>>

\* The file is gone, the gateway fails or it refuses: the flush goes on.
FlushSkips(p) ==
  /\ Try(p)
  /\ ~up \/ NextFile(p) \notin files \/ NextFile(p) \in Refused
  /\ adapter' = [adapter EXCEPT ![p].batch = @ \ {NextFile(p)}]
  /\ accepted' \in (IF NextFile(p) \in files THEN Perhaps(NextFile(p)) ELSE {accepted})
  /\ UNCHANGED <<files, up, results, budget>>

Unlink(p) ==
  /\ At(p, "unlink") /\ adapter[p].file \in files
  /\ files' = files \ {adapter[p].file}
  /\ adapter' = [adapter EXCEPT ![p] =
       [pc |-> "flush", key |-> adapter[p].key, file |-> NoKey,
        batch |-> adapter[p].batch \ {adapter[p].file}]]
  /\ UNCHANGED <<gateway, results, budget>>

\* Another process removed the file: the error is raised outside the loop's try,
\* and the process ends before it sent its own alert.
UnlinkFails(p) ==
  /\ At(p, "unlink") /\ adapter[p].file \notin files
  /\ Finish(p, "error")
  /\ UNCHANGED <<files, gateway, budget>>

FlushEnds(p) ==
  /\ At(p, "flush") /\ adapter[p].batch = {}
  /\ adapter' = [adapter EXCEPT ![p].pc = "own"]
  /\ UNCHANGED <<files, gateway, results, budget>>

OwnDelivered(p) ==
  /\ At(p, "own") /\ up /\ adapter[p].key \notin Refused
  /\ accepted' = accepted \cup {adapter[p].key}
  /\ Finish(p, "delivered")
  /\ UNCHANGED <<files, up, budget>>

OwnRejected(p) ==
  /\ At(p, "own") /\ up /\ adapter[p].key \in Refused
  /\ Finish(p, "rejected")
  /\ UNCHANGED <<files, gateway, budget>>

OwnUnavailable(p) ==
  /\ At(p, "own") /\ ~up
  /\ adapter' = [adapter EXCEPT ![p].pc = "spool"]
  /\ accepted' \in Perhaps(adapter[p].key)
  /\ UNCHANGED <<files, up, results, budget>>

\* Slip: an error of the disk is ignored.
SpoolTolerant(p) ==
  /\ At(p, "spool")
  /\ files' \in {files, files \cup {adapter[p].key}}
  /\ Finish(p, "spooled")
  /\ UNCHANGED <<gateway, budget>>

\* The file appears at once, by replace; or writing it raises.
Spool(p) ==
  /\ At(p, "spool")
  /\ \/ files' = files \cup {adapter[p].key} /\ Finish(p, "spooled")
     \/ DiskMayFail /\ UNCHANGED files /\ Finish(p, "error")
  /\ UNCHANGED <<gateway, budget>>

\* The manager or the machine kills a process.
Kill(p) ==
  /\ ~At(p, "idle") /\ budget.kills < MaxKills
  /\ adapter' = [adapter EXCEPT ![p] = Idle]
  /\ budget' = [budget EXCEPT !.kills = @ + 1]
  /\ UNCHANGED <<files, gateway, results>>

GatewayDown ==
  /\ up /\ budget.outages < MaxOutages
  /\ up' = FALSE /\ budget' = [budget EXCEPT !.outages = @ + 1]
  /\ UNCHANGED <<files, adapter, accepted, results>>

GatewayUp == ~up /\ up' = TRUE /\ UNCHANGED <<files, adapter, accepted, results, budget>>

Run(p) ==
  \/ FlushSent(p) \/ FlushSkips(p) \/ Unlink(p) \/ UnlinkFails(p) \/ FlushEnds(p)
  \/ OwnDelivered(p) \/ OwnRejected(p) \/ OwnUnavailable(p) \/ Spool(p)

Next ==
  \/ \E p \in Procs : Run(p) \/ Kill(p) \/ \E k \in Keys : Start(p, k)
  \/ GatewayDown \/ GatewayUp

Spec == Init /\ [][Next]_vars

\* Processes run, the manager goes on starting them, and outages end.
FairSpec ==
  /\ Spec
  /\ \A p \in Procs : WF_vars(Run(p)) /\ WF_vars(\E k \in Keys : Start(p, k))
  /\ WF_vars(GatewayUp)

------------------------------------------------------------------------------
(* Properties.                                                               *)

AdapterRecord == [pc : {"idle", "flush", "unlink", "own", "spool"}, key : Keys \cup {NoKey},
                  batch : SUBSET Keys, file : Keys \cup {NoKey}]

TypeOK ==
  /\ files \subseteq Keys /\ accepted \subseteq Keys
  /\ adapter \in [Procs -> AdapterRecord]
  /\ up \in BOOLEAN
  /\ results \subseteq Keys \X Results
  /\ budget \in [outages : Nat, kills : Nat]

\* What a process reports is true and stays true, whichever processes flush the same
\* files or are killed: a delivered alert is stored by the gateway, a spooled one is
\* in the directory or stored, and a rejected one is one the gateway refuses.
ResultsAreTrue ==
  /\ \A k \in Keys : <<k, "delivered">> \in results => k \in accepted
  /\ \A k \in Keys : <<k, "spooled">> \in results => k \in files \cup accepted
  /\ \A k \in Keys : <<k, "rejected">> \in results => k \in Refused

\* A file leaves the directory only when the gateway has its alert; a refused one
\* never does.
SpoolKeeps == [][files \ files' \subseteq accepted]_vars

\* A spooled alert that the gateway would take reaches it, even behind files that it
\* will never take.
SpoolDrains == \A k \in Keys \ Refused : k \in files ~> k \in accepted
==============================================================================
