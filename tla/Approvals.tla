------------------------------- MODULE Approvals -------------------------------
(***************************************************************************)
(* Human approval: the ledger of approvals.py with its one response action *)
(* (a synthetic identity goes from enabled to disabled), the handlers      *)
(* create_approval and decide_approval of app.py, and the worker's         *)
(* create_once.                                                            *)
(*                                                                         *)
(* A handler commits to SQLite and writes its audit event without giving   *)
(* up the event loop, then awaits TheHive for the case comment.  A request *)
(* is therefore a step (commit and audit) followed by an await in which    *)
(* other requests run, the process may crash, or TheHive may fail.  A      *)
(* client whose request got no answer may send it again.                   *)
(***************************************************************************)
EXTENDS Naturals

CONSTANTS
  ApprovalIds,   \* identifiers uuid4 may draw
  Traces,        \* traces the worker proposes for
  Incidents,
  Clients,       \* HTTP requests that may be in progress at once
  NoId, NoTrace, NoIncident,
  AuditMayFail,  \* appending to the audit file may raise
  MaxCrashes     \* bound: process crashes

ASSUME NullsAssumption == /\ NoId \notin ApprovalIds
                          /\ NoTrace \notin Traces
                          /\ NoIncident \notin Incidents
ASSUME AuditAssumption == AuditMayFail \in BOOLEAN
ASSUME CrashAssumption == MaxCrashes \in Nat

VARIABLES
  approvals,  \* tables approvals and approval_sources, joined
  identity,   \* lab_identities: state of soc-response-test
  requests,   \* the handlers that await TheHive
  audit,      \* the <<approval, event>> pairs in the audit file
  notes,      \* the <<approval, event>> pairs commented on a case
  answers,    \* history: the <<approval, event>> pairs answered with success
  conflicts,  \* history: the <<approval, decision>> pairs answered with HTTP 409
  crashes

ledger == <<approvals, identity>>
trail == <<audit, notes>>
vars == <<ledger, requests, trail, answers, conflicts, crashes>>

Decisions == {"approve", "reject", "escalate"}
Events == Decisions \cup {"proposed"}

NoApproval == [status |-> "absent", incident |-> NoIncident, trace |-> NoTrace,
               result |-> "none"]
Free == [id |-> NoId, event |-> "none"]

Init ==
  /\ approvals = [id \in ApprovalIds |-> NoApproval]
  /\ identity = "enabled"
  /\ requests = [c \in Clients |-> Free]
  /\ audit = {} /\ notes = {} /\ answers = {} /\ conflicts = {}
  /\ crashes = 0

------------------------------------------------------------------------------
(* ApprovalStore: one transaction each.                                      *)

Insert(id, i, t) ==
  /\ approvals[id].status = "absent"
  /\ approvals' = [approvals EXCEPT ![id] =
       [status |-> "pending", incident |-> i, trace |-> t, result |-> "none"]]
  /\ UNCHANGED identity

Proposed(t) == \E id \in ApprovalIds : approvals[id].trace = t

\* Slip: the state of the identity is not read before it is written.
OutcomeUnread(d) == IF d = "approve" THEN "disabled" ELSE "none"

\* Slip: the state read is recorded, and not what was done about it.
OutcomeIsState(d) == IF d = "approve" THEN identity ELSE "none"

\* What approving does to the identity, and what the record says about it.
Outcome(d) ==
  IF d # "approve" THEN "none"
  ELSE IF identity = "enabled" THEN "disabled" ELSE "already_disabled"

\* Slip: a decided approval may be decided again.
DecidableAgain(id) == approvals[id].status # "absent"

\* decide only finalizes what is pending.
Decidable(id) == approvals[id].status = "pending"

Finalize(id, d) ==
  /\ Decidable(id)
  /\ approvals' = [approvals EXCEPT ![id] =
       [status |-> d, incident |-> approvals[id].incident,
        trace |-> approvals[id].trace, result |-> Outcome(d)]]
  /\ identity' = IF d = "approve" THEN "disabled" ELSE identity

\* The same decision again: the stored record is returned.
Repeat(id, d) == approvals[id].status = d /\ UNCHANGED ledger

------------------------------------------------------------------------------
(* The handlers.                                                             *)

Idle(c) == requests[c] = Free

\* Slip: the comment does not wait for the audit event.
ContinueUnaudited(c, id, event) ==
  /\ requests' = [requests EXCEPT ![c] = [id |-> id, event |-> event]]
  /\ UNCHANGED <<audit, crashes>>

\* After the commit: the audit event, then the await; unless the audit write
\* raises (HTTP 500), or the process dies first and takes every request along.
Continue(c, id, event) ==
  \/ /\ audit' = audit \cup {<<id, event>>}
     /\ requests' = [requests EXCEPT ![c] = [id |-> id, event |-> event]]
     /\ UNCHANGED crashes
  \/ AuditMayFail /\ UNCHANGED <<audit, requests, crashes>>
  \/ /\ crashes < MaxCrashes
     /\ requests' = [d \in Clients |-> Free]
     /\ crashes' = crashes + 1
     /\ UNCHANGED audit

CreateApproval(c, id, i) ==
  /\ Idle(c)
  /\ Insert(id, i, NoTrace)
  /\ Continue(c, id, "proposed")
  /\ UNCHANGED <<notes, answers, conflicts>>

DecideApproval(c, id, d) ==
  /\ Idle(c)
  /\ Finalize(id, d) \/ Repeat(id, d)
  /\ Continue(c, id, d)
  /\ UNCHANGED <<notes, answers, conflicts>>

\* Another decision than the stored one: HTTP 409.
RefuseDecision(c, id, d) ==
  /\ Idle(c)
  /\ approvals[id].status \in Decisions \ {d}
  /\ conflicts' = conflicts \cup {<<id, d>>}
  /\ UNCHANGED <<ledger, requests, trail, answers, crashes>>

\* Slip: the source of a proposal is not looked up.
ProposeEachTime(t, id, i) ==
  /\ Insert(id, i, t)
  /\ UNCHANGED <<requests, trail, answers, conflicts, crashes>>

\* create_once, called by the worker for a trace, on every attempt.
ProposeOnce(t, id, i) ==
  /\ ~Proposed(t)
  /\ Insert(id, i, t)
  /\ UNCHANGED <<requests, trail, answers, conflicts, crashes>>

Pair(c) == <<requests[c].id, requests[c].event>>

\* The await ends: the comment is made, or TheHive fails and the failure is only
\* audited (which may raise as well); the handler answers.
Answer(c) ==
  /\ ~Idle(c)
  /\ notes' \in {notes, notes \cup {Pair(c)}}
  /\ answers' = answers \cup {Pair(c)}
  /\ requests' = [requests EXCEPT ![c] = Free]
  /\ UNCHANGED <<ledger, audit, conflicts, crashes>>

\* An exception leaves the handler: an unreadable answer of TheHive, or the audit
\* write of the failed comment.
AnswerError(c) ==
  /\ ~Idle(c)
  /\ notes' \in {notes, notes \cup {Pair(c)}}
  /\ requests' = [requests EXCEPT ![c] = Free]
  /\ UNCHANGED <<ledger, audit, answers, conflicts, crashes>>

\* The process dies while requests are in progress.
Crash ==
  /\ crashes < MaxCrashes
  /\ requests' = [c \in Clients |-> Free]
  /\ crashes' = crashes + 1
  /\ UNCHANGED <<ledger, trail, answers, conflicts>>

Next ==
  \/ \E c \in Clients :
       \/ \E id \in ApprovalIds : \/ \E i \in Incidents : CreateApproval(c, id, i)
                                  \/ \E d \in Decisions : DecideApproval(c, id, d)
                                                          \/ RefuseDecision(c, id, d)
       \/ Answer(c) \/ AnswerError(c)
  \/ \E t \in Traces, id \in ApprovalIds, i \in Incidents : ProposeOnce(t, id, i)
  \/ Crash

Spec == Init /\ [][Next]_vars

------------------------------------------------------------------------------
(* Properties.                                                               *)

ApprovalRow == [status : {"absent", "pending"} \cup Decisions,
                incident : Incidents \cup {NoIncident}, trace : Traces \cup {NoTrace},
                result : {"none", "disabled", "already_disabled"}]
RequestRecord == [id : ApprovalIds \cup {NoId}, event : Events \cup {"none"}]

TypeOK ==
  /\ approvals \in [ApprovalIds -> ApprovalRow]
  /\ identity \in {"enabled", "disabled"}
  /\ requests \in [Clients -> RequestRecord]
  /\ audit \subseteq ApprovalIds \X Events
  /\ notes \subseteq ApprovalIds \X Events
  /\ answers \subseteq ApprovalIds \X Events
  /\ conflicts \subseteq ApprovalIds \X Decisions
  /\ crashes \in Nat

Executed(id) == approvals[id].result = "disabled"

\* The response runs at most once, whoever approves and repeats: one record at most
\* claims it, that record was approved, and the identity is disabled exactly then.
ResponseOnce ==
  /\ \A a, b \in ApprovalIds : Executed(a) /\ Executed(b) => a = b
  /\ \A a \in ApprovalIds : Executed(a) => approvals[a].status = "approve"
  /\ identity = "disabled" <=> \E a \in ApprovalIds : Executed(a)

\* Analysts who decide at the same time agree afterwards: who was told that a
\* decision stands finds it in the ledger and in the audit file, and who was told
\* 409 was refused for a different decision.
AnswersAgree ==
  /\ \A a \in answers : a \in audit
  /\ \A a \in ApprovalIds, d \in Decisions :
       /\ <<a, d>> \in answers => approvals[a].status = d
       /\ <<a, d>> \in conflicts => approvals[a].status \in Decisions \ {d}

\* A comment on a case never claims what the audit file and the ledger do not hold.
NotesAreBacked ==
  /\ notes \subseteq audit
  /\ \A a \in ApprovalIds, d \in Decisions : <<a, d>> \in notes => approvals[a].status = d

\* A trace has one proposal, however often its delivery is processed.
ProposedOnce ==
  \A a, b \in ApprovalIds :
    approvals[a].trace = approvals[b].trace /\ approvals[a].trace # NoTrace => a = b

\* A decision is final together with its result, and the identity is never enabled
\* again.
DecisionIsFinal ==
  [][/\ \A a \in ApprovalIds :
          approvals[a].status \in Decisions => approvals'[a] = approvals[a]
     /\ identity = "disabled" => identity' = "disabled"]_vars
==============================================================================
