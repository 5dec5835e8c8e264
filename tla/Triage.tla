--------------------------------- MODULE Triage ---------------------------------
(***************************************************************************)
(* Bounded triage: the store of triage.py with the handlers create_triage  *)
(* and update_triage of app.py and their case comments (add_case_note).    *)
(*                                                                         *)
(* A handler reads and writes SQLite and appends to the audit file without *)
(* giving up the event loop, so that much is one step.  It then awaits     *)
(* TheHive for the comment while other calls run.  The client behind       *)
(* add_case_note sends the comment again when no answer comes in time; a   *)
(* request given up may still arrive later.  TheHive is configured:        *)
(* without it nothing is commented.                                        *)
(***************************************************************************)
EXTENDS Naturals, Sequences, FiniteSets

CONSTANTS
  Calls,             \* handler invocations, each used once
  TriageIds,         \* identifiers uuid4 may draw
  Summaries,         \* texts that say something
  Blanks,            \* texts Python takes for false: none and the empty string
  NoText, NoTriage,  \* none; no record named
  TriageAuditFails,  \* appending to the audit file may raise
  MaxCopies          \* bound: requests one comment may cause (max_retries + 1)

ASSUME TextAssumption == NoText \in Blanks /\ Summaries \cap Blanks = {}
ASSUME TriageNullAssumption == NoTriage \notin TriageIds
ASSUME TriageAuditAssumption == TriageAuditFails \in BOOLEAN
ASSUME CopiesAssumption == MaxCopies \in Nat

VARIABLES
  triage,        \* table triage_requests
  calls,         \* the invocations: where each stands and what it holds
  triageAudit,   \* the <<record, status>> pairs of the audit file
  syncFailures,  \* the calls audited as approval.case_sync_failed
  comments       \* what arrived at TheHive, in order: the calls that sent it

triageVars == <<triage, calls, triageAudit, syncFailures, comments>>

Texts == Summaries \cup Blanks
Final == {"completed", "failed"}
Updates == Final \cup {"collecting"}
Statuses == Updates \cup {"requested"}

NoRecord == [status |-> "absent", text |-> NoText]
Unused == [at |-> "idle", id |-> NoTriage, status |-> "none", text |-> NoText,
           sent |-> 0, after |-> {}]

TriageInit ==
  /\ triage = [r \in TriageIds |-> NoRecord]
  /\ calls = [c \in Calls |-> Unused]
  /\ triageAudit = {} /\ syncFailures = {} /\ comments = <<>>

------------------------------------------------------------------------------
(* TriageStore.                                                              *)

\* Slip: only the table of transitions is consulted, and it lets failed be retried.
UpdatableLoose(r, s, m) ==
  /\ s = "completed" => m \in Summaries
  /\ triage[r].status \in {"requested", "collecting", "failed"}

\* The update is written: the transition is allowed and a completion says something.
Updatable(r, s, m) ==
  /\ s = "completed" => m \in Summaries
  /\ \/ triage[r].status = "requested"
     \/ triage[r].status = "collecting" /\ s \in Final

\* The same final update again returns the record, and writes nothing.
Repeated(r, s, m) ==
  /\ s = "completed" => m \in Summaries
  /\ triage[r].status \in Final
  /\ triage[r] = [status |-> s, text |-> m]

StoreRecord(r, s, m) == triage' = [triage EXCEPT ![r] = [status |-> s, text |-> m]]

------------------------------------------------------------------------------
(* The handlers.                                                             *)

Answered == {c \in Calls : calls[c].at = "answered"}

\* Slip: the comment is started as a task of its own and the call answered at once.
AfterAuditDetached(s, m) == "answered"

\* A creation is always commented, an update only when its record has a summary.
AfterAudit(s, m) ==
  IF s = "requested" \/ m \in Summaries THEN "noting" ELSE "answered"

Leave(c, at) == calls' = [calls EXCEPT ![c].at = at]

Place(c, r, s, m, at) ==
  calls' = [calls EXCEPT ![c] = [at |-> at, id |-> r, status |-> s, text |-> m,
                                 sent |-> 0, after |-> Answered]]

\* What follows the store: the audit event, then the comment or the answer.  A write
\* that raises is HTTP 500; a process that dies before it leaves the same behind.
Proceed(c, r, s, m) ==
  \/ /\ triageAudit' = triageAudit \cup {<<r, s>>}
     /\ Place(c, r, s, m, AfterAudit(s, m))
  \/ /\ TriageAuditFails
     /\ Place(c, r, s, m, "error")
     /\ UNCHANGED triageAudit

CreateTriage(c, r) ==
  /\ calls[c].at = "idle"
  /\ triage[r] = NoRecord
  /\ StoreRecord(r, "requested", NoText)
  /\ Proceed(c, r, "requested", NoText)
  /\ UNCHANGED <<syncFailures, comments>>

UpdateTriage(c, r, s, m) ==
  /\ calls[c].at = "idle"
  /\ \/ Updatable(r, s, m) /\ StoreRecord(r, s, m)
     \/ Repeated(r, s, m) /\ UNCHANGED triage
  /\ Proceed(c, r, s, m)
  /\ UNCHANGED <<syncFailures, comments>>

\* HTTP 404 for an unknown record, 409 for every other update.
RefuseTriage(c, r, s, m) ==
  /\ calls[c].at = "idle"
  /\ ~Updatable(r, s, m) /\ ~Repeated(r, s, m)
  /\ Leave(c, "refused")
  /\ UNCHANGED <<triage, triageAudit, syncFailures, comments>>

Arrivals(c) == {i \in DOMAIN comments : comments[i] = c}

\* The client posts the comment, again after a timeout.
PostComment(c) ==
  /\ calls[c].at = "noting" /\ calls[c].sent < MaxCopies
  /\ calls' = [calls EXCEPT ![c].sent = @ + 1]
  /\ UNCHANGED <<triage, triageAudit, syncFailures, comments>>

\* TheHive takes one of the requests, perhaps long after the call has ended.
CommentArrives(c) ==
  /\ Cardinality(Arrivals(c)) < calls[c].sent
  /\ comments' = Append(comments, c)
  /\ UNCHANGED <<triage, calls, triageAudit, syncFailures>>

\* The await ends with TheHive's answer.
NoteMade(c) ==
  /\ calls[c].at = "noting" /\ Arrivals(c) # {}
  /\ Leave(c, "answered")
  /\ UNCHANGED <<triage, triageAudit, syncFailures, comments>>

\* The await ends with an IntegrationError, whether or not a request arrived: it is
\* audited and the call answered as if the comment had been made.
NoteFails(c) ==
  /\ calls[c].at = "noting"
  /\ Leave(c, "answered")
  /\ syncFailures' = syncFailures \cup {c}
  /\ UNCHANGED <<triage, triageAudit, comments>>

\* Another exception leaves the handler: TheHive's answer is not JSON, or the audit
\* write of the failure raises.
NoteRaises(c) ==
  /\ calls[c].at = "noting"
  /\ Arrivals(c) # {} \/ TriageAuditFails
  /\ Leave(c, "error")
  /\ UNCHANGED <<triage, triageAudit, syncFailures, comments>>

\* The process dies and is restarted: the calls in progress get no answer.
TriageCrash ==
  /\ calls' = [c \in Calls |->
       IF calls[c].at = "noting" THEN [calls[c] EXCEPT !.at = "error"] ELSE calls[c]]
  /\ UNCHANGED <<triage, triageAudit, syncFailures, comments>>

TriageHandler(c) ==
  \/ \E r \in TriageIds :
       \/ CreateTriage(c, r)
       \/ \E s \in Updates, m \in Texts : UpdateTriage(c, r, s, m) \/ RefuseTriage(c, r, s, m)
  \/ PostComment(c) \/ CommentArrives(c) \/ NoteMade(c) \/ NoteFails(c) \/ NoteRaises(c)

TriageNext == (\E c \in Calls : TriageHandler(c)) \/ TriageCrash

TriageSpec == TriageInit /\ [][TriageNext]_triageVars

------------------------------------------------------------------------------
(* Properties.                                                               *)

CallRecord == [at : {"idle", "noting", "answered", "refused", "error"},
               id : TriageIds \cup {NoTriage}, status : Statuses \cup {"none"},
               text : Texts, sent : Nat, after : SUBSET Calls]

TriageTypeOK ==
  /\ triage \in [TriageIds -> [status : Statuses \cup {"absent"}, text : Texts]]
  /\ calls \in [Calls -> CallRecord]
  /\ triageAudit \subseteq TriageIds \X Statuses
  /\ syncFailures \subseteq Calls
  /\ comments \in Seq(Calls)

\* Analysts who update one record at the same time agree afterwards: a final status
\* and summary that somebody was told is what the ledger holds from then on, an
\* earlier one has been kept or overtaken, and either is in the audit file.
TriageAnswersAgree ==
  \A c \in Answered :
    LET r == calls[c].id IN
    /\ <<r, calls[c].status>> \in triageAudit
    /\ \/ triage[r] = [status |-> calls[c].status, text |-> calls[c].text]
       \/ calls[c].status = "requested" /\ triage[r].status \in Updates
       \/ calls[c].status = "collecting" /\ triage[r].status \in Final

\* A call that its case must hear of.
Tells(c) == calls[c].status = "requested" \/ calls[c].text \in Summaries

\* The first comment of b is before the first of a, although a was answered, its
\* comment confirmed, before b was received.
Overtaken(a, b) ==
  /\ a \in calls[b].after \ syncFailures /\ Tells(a)
  /\ \E i \in Arrivals(b) : \A j \in Arrivals(a) : i < j

\* The case file can be trusted: what an answered call has to tell is commented on the
\* case or audited as missing there, and comments are out of order only for calls that
\* were in progress together.
TriageCaseTold ==
  /\ \A c \in Answered : Tells(c) => c \in syncFailures \/ Arrivals(c) # {}
  /\ \A a, b \in Calls : ~Overtaken(a, b)
==============================================================================
