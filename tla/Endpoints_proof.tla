---------------------------- MODULE Endpoints_proof ----------------------------
(***************************************************************************)
(* Proofs about the two endpoints beside the alert pipeline, for every     *)
(* number of calls, records and texts of Triage and of probes,             *)
(* dependencies and playbooks of Monitoring.                               *)
(*                                                                         *)
(* Triage: the invariant says of a call that waits for its comment what    *)
(* the property says of an answered one, for the record and the audit file *)
(* are written before the await, and later updates only move the record    *)
(* on.  A call knows only answered ones, whose comments are in TheHive, or *)
(* audited as missing, before its own.                                     *)
(*                                                                         *)
(* Monitoring: the gauges are shared, so that the invariant relates every  *)
(* two probes in progress: what one has seen, and will set, the other may  *)
(* show.                                                                   *)
(***************************************************************************)
EXTENDS MCEndpoints, FiniteSetTheorems, TLAPS

------------------------------------------------------------------------------
(* Triage.                                                                   *)

\* The call has written its record and its audit event.
Written(c) == calls[c].at \in {"noting", "answered"}

\* What TriageAnswersAgree asks of an answered call.
Agrees(c) ==
  LET r == calls[c].id IN
  /\ <<r, calls[c].status>> \in triageAudit
  /\ \/ triage[r] = [status |-> calls[c].status, text |-> calls[c].text]
     \/ calls[c].status = "requested" /\ triage[r].status \in Updates
     \/ calls[c].status = "collecting" /\ triage[r].status \in Final

WrittenAgree ==
  \A c \in Calls : Written(c) =>
    calls[c].id \in TriageIds /\ calls[c].status \in Statuses /\ Agrees(c)

\* Told or audited as missing, when it is answered.
Told(c) == Tells(c) => c \in syncFailures \/ Arrivals(c) # {}
AnsweredTold == \A c \in Answered : Told(c)

\* A call that has not begun has sent nothing, and nothing of it has arrived.
IdleSilent == \A c \in Calls : calls[c].at = "idle" =>
  calls[c].sent = 0 /\ calls[c].after = {} /\ Arrivals(c) = {}

KnowsAnswered == \A b \in Calls : calls[b].after \subseteq Answered

\* Some comment of a precedes every comment of b.
Precedes(a, b) == \A i \in Arrivals(b) : \E j \in Arrivals(a) : j < i
Ordered == \A b \in Calls : \A a \in calls[b].after :
  a \notin syncFailures /\ Tells(a) => Precedes(a, b)

TriageInv == TriageTypeOK /\ WrittenAgree /\ AnsweredTold /\ IdleSilent /\ KnowsAnswered /\ Ordered

LEMMA TriageInitial == TriageInit => TriageInv
<1> SUFFICES ASSUME TriageInit PROVE TriageInv OBVIOUS
<1>1. NoText \in Texts BY TextAssumption DEF Texts
<1>2. TriageTypeOK
  BY <1>1 DEF TriageInit, TriageTypeOK, CallRecord, Unused, NoRecord
<1>3. \A c \in Calls : calls[c] = Unused BY DEF TriageInit
<1>4. WrittenAgree /\ AnsweredTold /\ KnowsAnswered /\ Ordered
  BY <1>3 DEF WrittenAgree, AnsweredTold, KnowsAnswered, Ordered, Written, Answered, Unused
<1>5. IdleSilent BY <1>3 DEF IdleSilent, Unused, Arrivals, TriageInit
<1>6. QED BY <1>2, <1>4, <1>5 DEF TriageInv

------------------------------------------------------------------------------
(* The pieces that a step changes, one lemma each.                           *)

\* The call goes elsewhere, and nothing else of any call changes.
LEMMA Leaving ==
  ASSUME TriageTypeOK, NEW c \in Calls, NEW at, Leave(c, at)
  PROVE  /\ DOMAIN calls' = Calls
         /\ \A d \in Calls : /\ calls'[d].id = calls[d].id
                             /\ calls'[d].status = calls[d].status
                             /\ calls'[d].text = calls[d].text
                             /\ calls'[d].sent = calls[d].sent
                             /\ calls'[d].after = calls[d].after
                             /\ calls'[d].at = IF d = c THEN at ELSE calls[d].at
BY DEF TriageTypeOK, CallRecord, Leave

\* The records and the audit file stay, and every call that has written by now had
\* written before: agreement is kept.
LEMMA AgreementKept ==
  ASSUME WrittenAgree, UNCHANGED <<triage, triageAudit>>,
         \A d \in Calls : /\ calls'[d].id = calls[d].id
                          /\ calls'[d].status = calls[d].status
                          /\ calls'[d].text = calls[d].text
                          /\ Written(d)' => Written(d)
  PROVE  WrittenAgree'
BY DEF WrittenAgree, Agrees

\* A call placed in a new row, the others staying where they are.
LEMMA Placing ==
  ASSUME TriageTypeOK, NEW c \in Calls, NEW r \in TriageIds, NEW s \in Statuses,
         NEW m \in Texts, NEW at, Place(c, r, s, m, at)
  PROVE  /\ DOMAIN calls' = Calls
         /\ calls'[c] = [at |-> at, id |-> r, status |-> s, text |-> m, sent |-> 0,
                         after |-> Answered]
         /\ \A d \in Calls \ {c} : calls'[d] = calls[d]
BY DEF TriageTypeOK, Place

\* The store and the audit: who has written still agrees with a record moved on.
LEMMA StoringAgrees ==
  ASSUME TriageInv, NEW c \in Calls, NEW r \in TriageIds, NEW s \in Statuses, NEW m \in Texts,
         calls[c].at = "idle",
         \/ StoreRecord(r, s, m) /\ \/ triage[r] = NoRecord /\ s = "requested"
                                    \/ Updatable(r, s, m) /\ s \in Updates
         \/ triage[r] = [status |-> s, text |-> m] /\ UNCHANGED triage,
         Proceed(c, r, s, m)
  PROVE  WrittenAgree'
<1>0. TriageTypeOK BY DEF TriageInv
<1>1. triageAudit \subseteq triageAudit' BY DEF Proceed
<1>2. PICK at : Place(c, r, s, m, at) /\ (at \in {"noting", "answered"} => <<r, s>> \in triageAudit')
  BY DEF Proceed
<1>3. /\ calls'[c] = [at |-> at, id |-> r, status |-> s, text |-> m, sent |-> 0,
                      after |-> Answered]
      /\ \A d \in Calls \ {c} : calls'[d] = calls[d]
  BY <1>0, <1>2, Placing
<1>4. triage'[r] = [status |-> s, text |-> m] /\ \A q \in TriageIds \ {r} : triage'[q] = triage[q]
  BY <1>0 DEF TriageTypeOK, StoreRecord
<1>5. Written(c)' => calls'[c].id \in TriageIds /\ calls'[c].status \in Statuses /\ Agrees(c)'
  BY <1>2, <1>3, <1>4 DEF Written, Agrees
<1>6. ASSUME NEW d \in Calls \ {c}, Written(d)'
      PROVE  calls'[d].id \in TriageIds /\ calls'[d].status \in Statuses /\ Agrees(d)'
  <2>1. Written(d) /\ calls'[d] = calls[d] BY <1>3, <1>6 DEF Written
  <2>2. calls[d].id \in TriageIds /\ calls[d].status \in Statuses /\ Agrees(d)
    BY <2>1 DEF TriageInv, WrittenAgree
  <2>3. CASE calls[d].id # r
    BY <1>1, <1>4, <2>1, <2>2, <2>3 DEF Agrees
  <2>4. CASE calls[d].id = r /\ UNCHANGED triage
    BY <1>1, <2>1, <2>2, <2>4 DEF Agrees
  <2>5. CASE calls[d].id = r /\ triage[r] = NoRecord
    BY <2>2, <2>5 DEF Agrees, NoRecord, Statuses, Updates, Final
  <2>6. CASE calls[d].id = r /\ Updatable(r, s, m) /\ s \in Updates
    <3>1. <<r, calls[d].status>> \in triageAudit' BY <1>1, <2>2, <2>6 DEF Agrees
    <3>2. triage[r].status = calls[d].status \/ triage[r].status \in Final
          \/ calls[d].status = "requested"
      BY <2>2, <2>6 DEF Agrees
    <3>3. triage'[r].status = s BY <1>4
    <3>4. \/ calls[d].status = "requested" /\ s \in Updates
          \/ calls[d].status = "collecting" /\ s \in Final
      BY <2>6, <3>2 DEF Updatable, Final, Updates
    <3>5. QED BY <2>1, <2>2, <2>6, <3>1, <3>3, <3>4 DEF Agrees
  <2>7. QED BY <2>3, <2>4, <2>5, <2>6
<1>7. QED BY <1>5, <1>6 DEF WrittenAgree

\* The same step: what it does to the answers, to silence, knowledge and order.
LEMMA StoringTells ==
  ASSUME TriageInv, NEW c \in Calls, NEW r \in TriageIds, NEW s \in Statuses, NEW m \in Texts,
         calls[c].at = "idle", Proceed(c, r, s, m), UNCHANGED <<syncFailures, comments>>,
         triage' \in [TriageIds -> [status : Statuses \cup {"absent"}, text : Texts]]
  PROVE  TriageTypeOK' /\ AnsweredTold' /\ IdleSilent' /\ KnowsAnswered' /\ Ordered'
<1>0. TriageTypeOK BY DEF TriageInv
<1>1. PICK at : /\ Place(c, r, s, m, at)
                /\ at \in {"noting", "answered", "error"}
                /\ at = "answered" => s # "requested" /\ m \notin Summaries
  BY DEF Proceed, AfterAudit
<1>2. /\ DOMAIN calls' = Calls
      /\ calls'[c] = [at |-> at, id |-> r, status |-> s, text |-> m, sent |-> 0,
                      after |-> Answered]
      /\ \A d \in Calls \ {c} : calls'[d] = calls[d]
  BY <1>0, <1>1, Placing
<1>3. \A d \in Calls : Arrivals(d)' = Arrivals(d) BY DEF Arrivals
<1>4. TriageTypeOK'
  <2>1. triageAudit' \subseteq TriageIds \X Statuses
    BY <1>0 DEF Proceed, TriageTypeOK
  <2>2. calls' \in [Calls -> CallRecord]
    BY <1>0, <1>1, Zenon DEF TriageTypeOK, CallRecord, Place, Answered
  <2>3. QED BY <1>0, <2>1, <2>2 DEF TriageTypeOK
<1>5. c \notin Answered /\ Arrivals(c) = {} BY DEF Answered, TriageInv, IdleSilent
<1>6. Answered \subseteq Answered' /\ Answered' \subseteq Answered \cup {c}
  BY <1>2, <1>5 DEF Answered
<1>7. AnsweredTold'
  <2>1. \A d \in Answered : Told(d)' BY <1>2, <1>3, <1>5 DEF TriageInv, AnsweredTold, Told, Tells, Answered
  <2>2. c \in Answered' => Told(c)' BY <1>1, <1>2 DEF Told, Tells, Answered
  <2>3. QED BY <1>6, <2>1, <2>2 DEF AnsweredTold
<1>8. IdleSilent' BY <1>1, <1>2, <1>3 DEF TriageInv, IdleSilent
<1>9. KnowsAnswered' BY <1>2, <1>6 DEF TriageInv, KnowsAnswered
<1>10. Ordered'
  <2>1. \A a \in Answered : Tells(a)' => Tells(a) BY <1>2, <1>5 DEF Tells, Answered
  <2>2. \A a, b \in Calls : Precedes(a, b) => Precedes(a, b)' BY <1>3 DEF Precedes
  <2>3. \A a \in Calls : Precedes(a, c)' BY <1>3, <1>5 DEF Precedes
  <2>4. ASSUME NEW b \in Calls \ {c}, NEW a \in calls'[b].after, a \notin syncFailures', Tells(a)'
        PROVE  Precedes(a, b)'
    BY <1>2, <2>1, <2>2, <2>4 DEF TriageInv, Ordered, KnowsAnswered, Answered
  <2>5. QED BY <1>9, <2>3, <2>4 DEF Ordered, KnowsAnswered, Answered
<1>11. QED BY <1>4, <1>7, <1>8, <1>9, <1>10

------------------------------------------------------------------------------
(* The steps.                                                                *)

LEMMA Creating ==
  ASSUME TriageInv, NEW c \in Calls, NEW r \in TriageIds, CreateTriage(c, r)
  PROVE  TriageInv'
<1>0. TriageTypeOK BY DEF TriageInv
<1>1. NoText \in Texts /\ "requested" \in Statuses BY TextAssumption DEF Texts, Statuses
<1>2. triage' \in [TriageIds -> [status : Statuses \cup {"absent"}, text : Texts]]
  BY <1>0, <1>1 DEF CreateTriage, StoreRecord, TriageTypeOK
<1>3. WrittenAgree' BY <1>1, StoringAgrees DEF CreateTriage
<1>4. QED BY <1>1, <1>2, <1>3, StoringTells DEF CreateTriage, TriageInv

LEMMA Updating ==
  ASSUME TriageInv, NEW c \in Calls, NEW r \in TriageIds, NEW s \in Updates, NEW m \in Texts,
         UpdateTriage(c, r, s, m)
  PROVE  TriageInv'
<1>0. TriageTypeOK BY DEF TriageInv
<1>1. s \in Statuses BY DEF Statuses
<1>2. triage' \in [TriageIds -> [status : Statuses \cup {"absent"}, text : Texts]]
  <2>1. CASE StoreRecord(r, s, m) BY <1>0, <1>1, <2>1 DEF StoreRecord, TriageTypeOK
  <2>2. CASE UNCHANGED triage BY <1>0, <2>2 DEF TriageTypeOK
  <2>3. QED BY <2>1, <2>2, Zenon DEF UpdateTriage
<1>3. WrittenAgree' BY <1>1, StoringAgrees DEF UpdateTriage, Repeated
<1>4. QED BY <1>1, <1>2, <1>3, StoringTells DEF UpdateTriage, TriageInv

\* A call that is not answered yet leaves for an answer or an error: nothing is stored
\* and nothing arrives; it may be audited as missing.
LEMMA LeavingKeeps ==
  ASSUME TriageInv, NEW c \in Calls, NEW at \in {"answered", "refused", "error"},
         calls[c].at \in {"idle", "noting"}, calls[c].at = "idle" => at = "refused",
         Leave(c, at), UNCHANGED <<triage, triageAudit, comments>>,
         syncFailures \subseteq syncFailures', syncFailures' \subseteq Calls,
         at = "answered" => c \in syncFailures' \/ Arrivals(c) # {}
  PROVE  TriageInv'
<1>0. TriageTypeOK BY DEF TriageInv
<1>1. /\ DOMAIN calls' = Calls
      /\ \A d \in Calls : /\ calls'[d].id = calls[d].id
                          /\ calls'[d].status = calls[d].status
                          /\ calls'[d].text = calls[d].text
                          /\ calls'[d].sent = calls[d].sent
                          /\ calls'[d].after = calls[d].after
                          /\ calls'[d].at = IF d = c THEN at ELSE calls[d].at
  BY <1>0, Leaving
<1>2. \A d \in Calls : Arrivals(d)' = Arrivals(d) BY DEF Arrivals
<1>3. TriageTypeOK'
  <2>1. calls' \in [Calls -> CallRecord]
    BY <1>0 DEF TriageTypeOK, CallRecord, Leave
  <2>2. QED BY <1>0, <2>1 DEF TriageTypeOK
<1>4. WrittenAgree' BY <1>1, AgreementKept DEF TriageInv, Written
<1>5. Answered \subseteq Answered' BY <1>1 DEF Answered
<1>6. AnsweredTold' BY <1>1, <1>2 DEF TriageInv, AnsweredTold, Told, Tells, Answered
<1>7. IdleSilent' BY <1>1, <1>2 DEF TriageInv, IdleSilent
<1>8. KnowsAnswered' BY <1>1, <1>5 DEF TriageInv, KnowsAnswered
<1>9. Ordered'
  <2>1. \A a \in Calls : Tells(a)' <=> Tells(a) BY <1>1 DEF Tells
  <2>2. \A a, b \in Calls : Precedes(a, b) => Precedes(a, b)' BY <1>2 DEF Precedes
  <2>3. QED BY <1>1, <2>1, <2>2 DEF TriageInv, Ordered, KnowsAnswered, Answered
<1>10. QED BY <1>3, <1>4, <1>6, <1>7, <1>8, <1>9 DEF TriageInv

LEMMA Posting ==
  ASSUME TriageInv, NEW c \in Calls, PostComment(c)
  PROVE  TriageInv'
<1>0. TriageTypeOK BY DEF TriageInv
<1>1. /\ \A d \in Calls : /\ calls'[d].id = calls[d].id
                          /\ calls'[d].status = calls[d].status
                          /\ calls'[d].text = calls[d].text
                          /\ calls'[d].after = calls[d].after
                          /\ calls'[d].at = calls[d].at
      /\ \A d \in Calls \ {c} : calls'[d].sent = calls[d].sent
  BY <1>0 DEF PostComment, TriageTypeOK, CallRecord
<1>2. \A d \in Calls : Arrivals(d)' = Arrivals(d) BY DEF Arrivals, PostComment
<1>3. TriageTypeOK'
  <2>1. calls[c].sent + 1 \in Nat BY <1>0 DEF TriageTypeOK, CallRecord
  <2>2. calls' \in [Calls -> CallRecord]
    BY <1>0, <2>1 DEF TriageTypeOK, CallRecord, PostComment
  <2>3. QED BY <1>0, <2>2 DEF TriageTypeOK, PostComment
<1>4. Answered' = Answered BY <1>1 DEF Answered
<1>5. WrittenAgree' BY <1>1, AgreementKept DEF TriageInv, Written, PostComment
<1>6. AnsweredTold'
  BY <1>1, <1>2, <1>4 DEF TriageInv, AnsweredTold, Told, Tells, Answered, PostComment
<1>7. IdleSilent' BY <1>1, <1>2 DEF TriageInv, IdleSilent, PostComment
<1>8. KnowsAnswered' BY <1>1, <1>4 DEF TriageInv, KnowsAnswered
<1>9. Ordered'
  <2>1. \A a \in Calls : Tells(a)' <=> Tells(a) BY <1>1 DEF Tells
  <2>2. \A a, b \in Calls : Precedes(a, b) => Precedes(a, b)' BY <1>2 DEF Precedes
  <2>3. QED BY <1>1, <2>1, <2>2 DEF TriageInv, Ordered, KnowsAnswered, Answered, PostComment
<1>10. QED BY <1>3, <1>5, <1>6, <1>7, <1>8, <1>9 DEF TriageInv

\* A comment arrives after all others: whoever is in order stays so, and the first of
\* a call comes after those of the answered calls that it knew.
LEMMA Arriving ==
  ASSUME TriageInv, NEW c \in Calls, CommentArrives(c)
  PROVE  TriageInv'
<1>0. TriageTypeOK BY DEF TriageInv
<1>1. comments \in Seq(Calls) /\ comments' = Append(comments, c)
  BY <1>0 DEF TriageTypeOK, CommentArrives
<1>2. /\ Len(comments) \in Nat
      /\ DOMAIN comments = 1..Len(comments) /\ DOMAIN comments' = 1..(Len(comments) + 1)
      /\ \A i \in 1..Len(comments) : comments'[i] = comments[i]
      /\ comments'[Len(comments) + 1] = c
  BY <1>1
<1>3. /\ \A d \in Calls \ {c} : Arrivals(d)' = Arrivals(d)
      /\ Arrivals(c)' = Arrivals(c) \cup {Len(comments) + 1}
      /\ \A d \in Calls : Arrivals(d) \subseteq 1..Len(comments)
  BY <1>2 DEF Arrivals
<1>4. UNCHANGED <<triage, calls, triageAudit, syncFailures>> BY DEF CommentArrives
<1>5. TriageTypeOK' BY <1>0, <1>1, <1>4 DEF TriageTypeOK
<1>6. WrittenAgree' BY <1>4, AgreementKept DEF TriageInv, Written
<1>7. Answered' = Answered /\ \A d \in Calls : Tells(d)' <=> Tells(d)
  BY <1>4 DEF Answered, Tells
<1>8. AnsweredTold'
  BY <1>3, <1>4, <1>7 DEF TriageInv, AnsweredTold, Told, Answered
<1>9. calls[c].at # "idle"
  <2>1. SUFFICES ASSUME calls[c].at = "idle" PROVE FALSE OBVIOUS
  <2>2. Arrivals(c) = {} /\ calls[c].sent = 0 BY <2>1 DEF TriageInv, IdleSilent
  <2>3. Cardinality(Arrivals(c)) = 0 BY <2>2, FS_EmptySet
  <2>4. QED BY <2>2, <2>3 DEF CommentArrives
<1>10. IdleSilent' BY <1>3, <1>4, <1>9 DEF TriageInv, IdleSilent
<1>11. KnowsAnswered' BY <1>4, <1>7 DEF TriageInv, KnowsAnswered
<1>12. Ordered'
  <2> SUFFICES ASSUME NEW b \in Calls, NEW a \in calls[b].after, a \notin syncFailures, Tells(a)
               PROVE  Precedes(a, b)'
    BY <1>4, <1>7, <1>11 DEF Ordered, KnowsAnswered, Answered
  <2>1. a \in Answered BY DEF TriageInv, KnowsAnswered
  <2>2. Arrivals(a) # {} BY <2>1 DEF TriageInv, AnsweredTold, Told
  <2>3. Precedes(a, b) BY DEF TriageInv, Ordered
  <2>4. Arrivals(a) \subseteq Arrivals(a)' BY <1>3, <2>1 DEF Answered
  <2>5. ASSUME NEW i \in Arrivals(b)' PROVE \E j \in Arrivals(a)' : j < i
    <3>1. CASE i \in Arrivals(b) BY <2>3, <2>4, <3>1 DEF Precedes
    <3>2. CASE i = Len(comments) + 1
      <4>1. PICK j \in Arrivals(a) : TRUE BY <2>2
      <4>2. j \in 1..Len(comments) BY <1>3, <2>1 DEF Answered
      <4>3. j < i BY <1>2, <3>2, <4>2
      <4>4. QED BY <2>4, <4>3
    <3>3. QED BY <1>3, <2>5, <3>1, <3>2
  <2>6. QED BY <2>5 DEF Precedes
<1>13. QED BY <1>5, <1>6, <1>8, <1>10, <1>11, <1>12 DEF TriageInv

LEMMA Crashing ==
  ASSUME TriageInv, TriageCrash
  PROVE  TriageInv'
<1>0. TriageTypeOK BY DEF TriageInv
<1>1. \A d \in Calls : /\ calls'[d].id = calls[d].id
                       /\ calls'[d].status = calls[d].status
                       /\ calls'[d].text = calls[d].text
                       /\ calls'[d].sent = calls[d].sent
                       /\ calls'[d].after = calls[d].after
                       /\ calls'[d].at = IF calls[d].at = "noting" THEN "error"
                                         ELSE calls[d].at
  BY <1>0 DEF TriageTypeOK, CallRecord, TriageCrash
<1>2. \A d \in Calls : Arrivals(d)' = Arrivals(d) BY DEF Arrivals, TriageCrash
<1>3. TriageTypeOK'
  <2>1. \A d \in Calls : calls[d] \in CallRecord /\ [calls[d] EXCEPT !.at = "error"] \in CallRecord
    BY <1>0 DEF TriageTypeOK, CallRecord
  <2>2. calls' \in [Calls -> CallRecord] BY <2>1 DEF TriageCrash
  <2>3. QED BY <1>0, <2>2 DEF TriageTypeOK, TriageCrash
<1>4. WrittenAgree' BY <1>1, AgreementKept DEF TriageInv, Written, TriageCrash
<1>5. Answered' = Answered BY <1>1 DEF Answered
<1>6. \A a \in Calls : Tells(a)' <=> Tells(a) BY <1>1 DEF Tells
<1>7. AnsweredTold'
  BY <1>2, <1>5, <1>6 DEF TriageInv, AnsweredTold, Told, Answered, TriageCrash
<1>8. IdleSilent' BY <1>1, <1>2 DEF TriageInv, IdleSilent
<1>9. KnowsAnswered' BY <1>1, <1>5 DEF TriageInv, KnowsAnswered
<1>10. \A a, b \in Calls : Precedes(a, b) => Precedes(a, b)' BY <1>2 DEF Precedes
<1>11. Ordered'
  BY <1>1, <1>6, <1>10 DEF TriageInv, Ordered, KnowsAnswered, Answered, TriageCrash
<1>12. QED BY <1>3, <1>4, <1>7, <1>8, <1>9, <1>11 DEF TriageInv

LEMMA TriageStepping ==
  ASSUME TriageInv, [TriageNext]_triageVars
  PROVE  TriageInv'
<1>1. CASE UNCHANGED triageVars
  BY <1>1 DEF triageVars, TriageInv, TriageTypeOK, WrittenAgree, Written, Agrees, AnsweredTold,
     Answered, Told, Tells, Arrivals, IdleSilent, KnowsAnswered, Ordered, Precedes
<1>2. ASSUME NEW c \in Calls, NEW r \in TriageIds, CreateTriage(c, r) PROVE TriageInv'
  BY <1>2, Creating
<1>3. ASSUME NEW c \in Calls, NEW r \in TriageIds, NEW s \in Updates, NEW m \in Texts,
             UpdateTriage(c, r, s, m)
      PROVE  TriageInv'
  BY <1>3, Updating
<1>4. ASSUME NEW c \in Calls, NEW r \in TriageIds, NEW s \in Updates, NEW m \in Texts,
             RefuseTriage(c, r, s, m)
      PROVE  TriageInv'
  BY <1>4, LeavingKeeps DEF RefuseTriage, TriageInv, TriageTypeOK
<1>5. ASSUME NEW c \in Calls, PostComment(c) PROVE TriageInv' BY <1>5, Posting
<1>6. ASSUME NEW c \in Calls, CommentArrives(c) PROVE TriageInv' BY <1>6, Arriving
<1>7. ASSUME NEW c \in Calls, NoteMade(c) PROVE TriageInv'
  BY <1>7, LeavingKeeps DEF NoteMade, TriageInv, TriageTypeOK
<1>8. ASSUME NEW c \in Calls, NoteFails(c) PROVE TriageInv'
  BY <1>8, LeavingKeeps DEF NoteFails, TriageInv, TriageTypeOK
<1>9. ASSUME NEW c \in Calls, NoteRaises(c) PROVE TriageInv'
  BY <1>9, LeavingKeeps DEF NoteRaises, TriageInv, TriageTypeOK
<1>10. CASE TriageCrash BY <1>10, Crashing
<1>11. QED
  BY <1>1, <1>2, <1>3, <1>4, <1>5, <1>6, <1>7, <1>8, <1>9, <1>10 DEF TriageNext, TriageHandler

LEMMA TriageInvariance == TriageSpec => []TriageInv
BY TriageInitial, TriageStepping, PTL DEF TriageSpec

------------------------------------------------------------------------------
(* The theorems about Triage.                                                *)

\* Type correctness of the triage store, its handlers and TheHive's comments.
THEOREM TriageTyped == TriageSpec => []TriageTypeOK
<1>1. TriageInv => TriageTypeOK BY DEF TriageInv
<1>2. QED BY TriageInvariance, <1>1, PTL

\* However many analysts update a record at once, crash and fail to audit: what an
\* answer said is audited, and what the ledger holds or has moved on from.
THEOREM AnswersAgree == TriageSpec => []TriageAnswersAgree
<1>1. TriageInv => TriageAnswersAgree
  BY DEF TriageInv, WrittenAgree, Written, Agrees, TriageAnswersAgree, Answered
<1>2. QED BY TriageInvariance, <1>1, PTL

\* However often comments are repeated, lost or late: an answered call's comment is in
\* TheHive or audited as missing, and no later call's comment overtakes it.
THEOREM CaseIsTold == TriageSpec => []TriageCaseTold
<1>1. TriageInv => TriageCaseTold
  <2> SUFFICES ASSUME TriageInv PROVE TriageCaseTold OBVIOUS
  <2>1. \A c \in Answered : Tells(c) => c \in syncFailures \/ Arrivals(c) # {}
    BY DEF TriageInv, AnsweredTold, Told
  <2>2. ASSUME NEW a \in Calls, NEW b \in Calls, Overtaken(a, b) PROVE FALSE
    <3>1. PICK i \in Arrivals(b) : \A j \in Arrivals(a) : i < j BY <2>2 DEF Overtaken
    <3>2. Precedes(a, b) BY <2>2 DEF Overtaken, TriageInv, Ordered
    <3>3. PICK j \in Arrivals(a) : j < i BY <3>1, <3>2 DEF Precedes
    <3>4. i \in Nat /\ j \in Nat BY DEF Arrivals, TriageInv, TriageTypeOK
    <3>5. QED BY <3>1, <3>3, <3>4
  <2>3. QED BY <2>1, <2>2 DEF TriageCaseTold
<1>2. QED BY TriageInvariance, <1>1, PTL

------------------------------------------------------------------------------
(* Monitoring: types, and what a playbook collection has counted.            *)

ProbeRow == [at : {"idle", "checking", "listing", "counting", "answered", "error"},
             page : BOOLEAN,
             saw : [Deps -> {"pending", "not_configured", "healthy", "unhealthy"}],
             left : SUBSET Books, tally : [Outcomes -> Nat],
             shown : GaugeRecord, real : GaugeRecord,
             quiet : BOOLEAN, held : [Deps -> SUBSET BOOLEAN]]

\* Each execution is counted at most once.
Bounded(p) == \A o \in Outcomes : probes[p].tally[o] <= Cardinality(Books \ probes[p].left)

MonTypes ==
  /\ clients \in SUBSET Deps
  /\ healthy \in [Deps -> BOOLEAN]
  /\ runs \in [Books -> Outcomes \cup {"none"}]
  /\ queued \in 0..MaxQueue
  /\ gauges \in GaugeRecord
  /\ probes \in [Probes -> ProbeRow]
  /\ changes \in 0..MaxChanges
  /\ \A p \in Probes : Bounded(p)

\* The executions that a probe has fetched and that stand so now.
CountedAs(left, o) == {b \in Books \ left : runs[b] = o}

LEMMA CountsFinite ==
  ASSUME NEW S \in SUBSET Books
  PROVE  IsFiniteSet(S) /\ Cardinality(S) \in Nat /\ Cardinality(S) <= Cardinality(Books)
BY BooksAssumption, FS_Subset, FS_CardinalityType

LEMMA BooksCounted == Cardinality(Books) \in Nat
BY CountsFinite

LEMMA CountRange == \A o : Count(o) \in 0..Cardinality(Books)
<1> SUFFICES ASSUME NEW o PROVE Count(o) \in 0..Cardinality(Books) OBVIOUS
<1> DEFINE S == {b \in Books : runs[b] = o}
<1>1. Cardinality(S) \in Nat /\ Cardinality(S) <= Cardinality(Books) BY CountsFinite
<1>2. Count(o) = Cardinality(S) BY DEF Count
<1> HIDE DEF S
<1>3. QED BY <1>1, <1>2, BooksCounted

LEMMA TallyRange == Tally0 \in [Outcomes -> 0..Cardinality(Books)] /\ Tally0 \in [Outcomes -> Nat]
BY BooksCounted DEF Tally0

LEMMA Gauges0Typed == Gauges0 \in GaugeRecord
BY TallyRange DEF Gauges0, GaugeRecord, Gauge, Unset

LEMMA RealTyped == ASSUME MonTypes PROVE Real \in GaugeRecord
<1>1. [o \in Outcomes |-> Count(o)] \in [Outcomes -> 0..Cardinality(Books)] BY CountRange
<1>2. \A b \in BOOLEAN : Bit(b) \in Gauge BY DEF Bit, Gauge
<1>3. [d \in Deps |-> Bit(d \in clients /\ healthy[d])] \in [Deps -> Gauge] BY <1>2
<1>4. Bit(Shuffle \in clients /\ healthy[Shuffle]) \in Gauge BY <1>2
<1>5. queued \in (0..MaxQueue) \cup {Unset} BY DEF MonTypes
<1>6. QED BY <1>1, <1>3, <1>4, <1>5 DEF Real, GaugeRecord

LEMMA UnusedTyped ==
  /\ Unused0 \in ProbeRow /\ Unused0.at = "idle" /\ Unused0.tally = Tally0 /\ Unused0.left = {}
<1>1. /\ Unused0.at = "idle" /\ Unused0.page = TRUE /\ Unused0.left = {} /\ Unused0.tally = Tally0
      /\ Unused0.quiet = TRUE
  BY DEF Unused0
<1>2. [d \in Deps |-> "pending"] \in [Deps -> {"pending", "not_configured", "healthy", "unhealthy"}]
      /\ [d \in Deps |-> {}] \in [Deps -> SUBSET BOOLEAN]
  OBVIOUS
<1>3. Unused0 \in ProbeRow BY <1>2, TallyRange, Gauges0Typed DEF Unused0, ProbeRow
<1>4. QED BY <1>1, <1>3

LEMMA TallyBound0 ==
  ASSUME NEW left \in SUBSET Books
  PROVE  \A o \in Outcomes : Tally0[o] <= Cardinality(Books \ left)
<1>1. Cardinality(Books \ left) \in Nat
  <2>1. Books \ left \in SUBSET Books OBVIOUS
  <2>2. QED BY <2>1, CountsFinite
<1>2. \A o \in Outcomes : Tally0[o] = 0 BY DEF Tally0
<1>3. QED BY <1>1, <1>2

LEMMA MonTypesInitial == MonitoringInit => MonTypes
<1> SUFFICES ASSUME MonitoringInit PROVE MonTypes OBVIOUS
<1>1. \A p \in Probes : probes[p] = Unused0 BY DEF MonitoringInit
<1>2. \A p \in Probes : Bounded(p)
  <2>1. {} \in SUBSET Books OBVIOUS
  <2>2. QED BY <1>1, <2>1, TallyBound0, UnusedTyped DEF Bounded
<1>3. QED
  BY <1>2, UnusedTyped, Gauges0Typed, MonitoringBounds DEF MonitoringInit, MonTypes

\* A page that fetches one more execution.
LEMMA CountingOne ==
  ASSUME NEW left \in SUBSET Books, NEW b \in left
  PROVE  /\ Cardinality(Books \ (left \ {b})) = Cardinality(Books \ left) + 1
         /\ Cardinality(Books \ left) \in Nat
         /\ \A o : /\ Cardinality(CountedAs(left, o)) \in Nat
                   /\ Cardinality(CountedAs(left \ {b}, o)) =
                        IF runs[b] = o THEN Cardinality(CountedAs(left, o)) + 1
                        ELSE Cardinality(CountedAs(left, o))
<1>1. Books \ (left \ {b}) = (Books \ left) \cup {b} /\ b \notin Books \ left
      /\ Books \ left \in SUBSET Books
  OBVIOUS
<1>2. IsFiniteSet(Books \ left) /\ Cardinality(Books \ left) \in Nat BY <1>1, CountsFinite
<1>3. Cardinality(Books \ (left \ {b})) = Cardinality(Books \ left) + 1
  BY <1>1, <1>2, FS_AddElement
<1>4. ASSUME NEW o
      PROVE  /\ Cardinality(CountedAs(left, o)) \in Nat
             /\ Cardinality(CountedAs(left \ {b}, o)) =
                  IF runs[b] = o THEN Cardinality(CountedAs(left, o)) + 1
                  ELSE Cardinality(CountedAs(left, o))
  <2>1. CountedAs(left, o) \in SUBSET Books /\ b \notin CountedAs(left, o) BY DEF CountedAs
  <2>2. IsFiniteSet(CountedAs(left, o)) /\ Cardinality(CountedAs(left, o)) \in Nat
    BY <2>1, CountsFinite
  <2>3. runs[b] = o => CountedAs(left \ {b}, o) = CountedAs(left, o) \cup {b} BY DEF CountedAs
  <2>4. runs[b] # o => CountedAs(left \ {b}, o) = CountedAs(left, o) BY DEF CountedAs
  <2>5. QED BY <2>1, <2>2, <2>3, <2>4, FS_AddElement
<1>5. QED BY <1>2, <1>3, <1>4

------------------------------------------------------------------------------
(* What each handler does to its probe.                                      *)

World0 == <<clients, healthy, runs, queued, changes>>

\* Only this probe steps, and keeps what is remembered about it.
Moves(p) ==
  /\ UNCHANGED World0
  /\ \A q \in Probes \ {p} : probes'[q] = probes[q]
  /\ probes'[p].page = probes[p].page /\ probes'[p].quiet = probes[p].quiet
  /\ probes'[p].held = probes[p].held

LEMMA Moving ==
  ASSUME MonTypes, NEW p \in Probes, NEW row \in ProbeRow, probes' = [probes EXCEPT ![p] = row],
         UNCHANGED World0, gauges' \in GaugeRecord,
         \A o \in Outcomes : row.tally[o] <= Cardinality(Books \ row.left)
  PROVE  /\ MonTypes' /\ probes'[p] = row
         /\ \A q \in Probes \ {p} : probes'[q] = probes[q]
<1>1. /\ probes' \in [Probes -> ProbeRow] /\ probes'[p] = row
      /\ \A q \in Probes \ {p} : probes'[q] = probes[q]
  BY DEF MonTypes
<1>2. \A q \in Probes : Bounded(q)'
  <2>1. Bounded(p)' BY <1>1 DEF Bounded
  <2>2. \A q \in Probes \ {p} : Bounded(q)' BY <1>1 DEF MonTypes, Bounded
  <2>3. QED BY <2>1, <2>2
<1>3. QED BY <1>1, <1>2 DEF MonTypes, World0

\* What the refresh of the queue's gauge sets, and leaves.
LEMMA RefreshedFields ==
  ASSUME MonTypes
  PROVE  /\ Refreshed \in GaugeRecord
         /\ Refreshed.dep = gauges.dep /\ Refreshed.books = gauges.books
         /\ Refreshed.queue = IF HasWorker THEN queued ELSE gauges.queue
<1>1. gauges \in GaugeRecord /\ queued \in 0..MaxQueue BY DEF MonTypes
<1> DEFINE set == [gauges EXCEPT !.queue = queued]
<1>2. /\ set \in GaugeRecord
      /\ set.dep = gauges.dep /\ set.books = gauges.books /\ set.queue = queued
  BY <1>1 DEF GaugeRecord
<1>3. Refreshed = IF HasWorker THEN set ELSE gauges BY DEF Refreshed
<1> HIDE DEF set
<1>4. QED BY <1>1, <1>2, <1>3

LEMMA Beginning ==
  ASSUME MonTypes, NEW p \in Probes, NEW page \in BOOLEAN, BeginProbe(p, page)
  PROVE  /\ MonTypes' /\ UNCHANGED World0
         /\ \A q \in Probes \ {p} : probes'[q] = probes[q]
         /\ gauges' = IF page THEN Refreshed ELSE gauges
         /\ probes'[p].at = "checking" /\ probes'[p].page = page
         /\ probes'[p].saw = [d \in Deps |-> IF d \in clients THEN "pending" ELSE "not_configured"]
         /\ probes'[p].tally = Tally0
         /\ probes'[p].quiet = (\A o \in InFlight : probes[o].quiet)
         /\ probes'[p].held =
              [d \in Deps |-> {healthy[d]} \cup UNION {probes[o].held[d] : o \in InFlight}]
<1> DEFINE saw == [d \in Deps |-> IF d \in clients THEN "pending" ELSE "not_configured"]
<1> DEFINE quiet == \A o \in InFlight : probes[o].quiet
<1> DEFINE held == [d \in Deps |-> {healthy[d]} \cup UNION {probes[o].held[d] : o \in InFlight}]
<1> DEFINE base == Unused0
<1> DEFINE row == [base EXCEPT !.at = "checking", !.page = page, !.saw = saw, !.quiet = quiet,
                              !.held = held]
<1>1. probes' = [probes EXCEPT ![p] = row] /\ UNCHANGED World0 BY DEF BeginProbe, World0
<1>2. gauges' = IF page THEN Refreshed ELSE gauges BY DEF BeginProbe
<1>3. gauges' \in GaugeRecord BY <1>2, RefreshedFields DEF MonTypes
<1>4. saw \in [Deps -> {"pending", "not_configured", "healthy", "unhealthy"}] OBVIOUS
<1>5. quiet \in BOOLEAN OBVIOUS
<1>6. held \in [Deps -> SUBSET BOOLEAN]
  <2>1. \A o \in InFlight : probes[o].held \in [Deps -> SUBSET BOOLEAN]
    BY DEF MonTypes, InFlight, ProbeRow
  <2>2. \A d \in Deps : healthy[d] \in BOOLEAN BY DEF MonTypes
  <2>3. \A d \in Deps : UNION {probes[o].held[d] : o \in InFlight} \subseteq BOOLEAN
    <3> SUFFICES ASSUME NEW d \in Deps, NEW x \in UNION {probes[o].held[d] : o \in InFlight}
                 PROVE  x \in BOOLEAN
      OBVIOUS
    <3>1. PICK o \in InFlight : x \in probes[o].held[d] OBVIOUS
    <3>2. QED BY <2>1, <3>1
  <2>4. QED BY <2>2, <2>3
<1>7. base \in ProbeRow /\ base.tally = Tally0 /\ base.left = {} BY UnusedTyped
<1>8. saw = [d \in Deps |-> IF d \in clients THEN "pending" ELSE "not_configured"]
      /\ quiet = (\A o \in InFlight : probes[o].quiet)
      /\ held = [d \in Deps |-> {healthy[d]} \cup UNION {probes[o].held[d] : o \in InFlight}]
  OBVIOUS
<1> HIDE DEF saw, quiet, held, base
<1>9. row \in ProbeRow BY <1>4, <1>5, <1>6, <1>7 DEF ProbeRow
<1>10. row.at = "checking" /\ row.page = page /\ row.saw = saw /\ row.held = held
  BY <1>7 DEF ProbeRow
<1>11. row.quiet = quiet BY <1>5, <1>7 DEF ProbeRow
<1>12. row.tally = Tally0 /\ row.left = {} BY <1>7 DEF ProbeRow
<1> HIDE DEF row
<1>13. \A o \in Outcomes : row.tally[o] <= Cardinality(Books \ row.left)
  <2>1. {} \in SUBSET Books OBVIOUS
  <2>2. QED BY <1>12, <2>1, TallyBound0
<1>14. /\ MonTypes' /\ probes'[p] = row
       /\ \A q \in Probes \ {p} : probes'[q] = probes[q]
  BY <1>1, <1>3, <1>9, <1>13, Moving
<1>15. QED BY <1>1, <1>2, <1>8, <1>10, <1>11, <1>12, <1>14

\* A step that sets one field of its probe: where it stands, and at most what it saw, or
\* what it has left and counted.
LEMMA SettingSaw ==
  ASSUME MonTypes, NEW p \in Probes, NEW d \in Deps, CheckOne(p, d)
  PROVE  /\ MonTypes' /\ Moves(p) /\ UNCHANGED gauges
         /\ probes[p].at = "checking" /\ probes'[p].at = "checking"
         /\ probes[p].saw[d] = "pending" /\ probes'[p].tally = probes[p].tally
         /\ probes'[p].saw = [probes[p].saw EXCEPT ![d] =
              IF healthy[d] THEN "healthy" ELSE "unhealthy"]
<1> DEFINE old == probes[p]
<1> DEFINE saw == [old.saw EXCEPT ![d] = IF healthy[d] THEN "healthy" ELSE "unhealthy"]
<1> DEFINE row == [old EXCEPT !.saw = saw]
<1>1. old \in ProbeRow /\ gauges \in GaugeRecord /\ Bounded(p) BY DEF MonTypes
<1>2. saw \in [Deps -> {"pending", "not_configured", "healthy", "unhealthy"}]
  BY <1>1 DEF ProbeRow
<1>3. probes' = [probes EXCEPT ![p] = row] BY DEF CheckOne
<1>4. UNCHANGED World0 /\ UNCHANGED gauges BY DEF CheckOne, World0
<1>5. old.at = "checking" /\ old.saw[d] = "pending" BY DEF CheckOne
<1>6. saw = [old.saw EXCEPT ![d] = IF healthy[d] THEN "healthy" ELSE "unhealthy"] OBVIOUS
<1> HIDE DEF saw
<1>7. \A o \in Outcomes : old.tally[o] <= Cardinality(Books \ old.left) BY <1>1 DEF Bounded
<1>8. old = probes[p] OBVIOUS
<1> HIDE DEF old
<1>9. /\ row \in ProbeRow /\ row.at = old.at /\ row.left = old.left /\ row.tally = old.tally
      /\ row.held = old.held /\ row.saw = saw
  BY <1>1, <1>2 DEF ProbeRow
<1>10. row.page = old.page /\ row.quiet = old.quiet BY <1>1 DEF ProbeRow
<1> HIDE DEF row
<1>11. /\ MonTypes' /\ probes'[p] = row
       /\ \A q \in Probes \ {p} : probes'[q] = probes[q]
  BY <1>1, <1>3, <1>4, <1>7, <1>9, Moving
<1>12. QED BY <1>4, <1>5, <1>6, <1>8, <1>9, <1>10, <1>11 DEF Moves

LEMMA SettingStage ==
  ASSUME MonTypes, NEW p \in Probes, NEW at \in {"listing", "error"},
         probes' = [probes EXCEPT ![p].at = at], UNCHANGED World0, gauges' \in GaugeRecord
  PROVE  /\ MonTypes' /\ Moves(p) /\ probes'[p].at = at
         /\ probes'[p].saw = probes[p].saw /\ probes'[p].tally = probes[p].tally
<1> DEFINE old == probes[p]
<1> DEFINE row == [old EXCEPT !.at = at]
<1>1. old \in ProbeRow /\ Bounded(p) BY DEF MonTypes
<1>2. probes' = [probes EXCEPT ![p] = row] OBVIOUS
<1>3. \A o \in Outcomes : old.tally[o] <= Cardinality(Books \ old.left) BY <1>1 DEF Bounded
<1>4. old = probes[p] OBVIOUS
<1> HIDE DEF old
<1>5. /\ row \in ProbeRow /\ row.at = at /\ row.left = old.left /\ row.tally = old.tally
      /\ row.held = old.held /\ row.saw = old.saw
  BY <1>1 DEF ProbeRow
<1>6. row.page = old.page /\ row.quiet = old.quiet BY <1>1 DEF ProbeRow
<1> HIDE DEF row
<1>7. /\ MonTypes' /\ probes'[p] = row
      /\ \A q \in Probes \ {p} : probes'[q] = probes[q]
  BY <1>2, <1>3, <1>5, Moving
<1>8. QED BY <1>4, <1>5, <1>6, <1>7 DEF Moves

LEMMA SettingCount ==
  ASSUME MonTypes, NEW p \in Probes, NEW row \in ProbeRow, probes' = [probes EXCEPT ![p] = row],
         row.at = "counting", row.saw = probes[p].saw, row.page = probes[p].page,
         row.quiet = probes[p].quiet, row.held = probes[p].held,
         UNCHANGED World0, UNCHANGED gauges,
         \A o \in Outcomes : row.tally[o] <= Cardinality(Books \ row.left)
  PROVE  MonTypes' /\ Moves(p) /\ probes'[p] = row
<1>1. gauges' \in GaugeRecord BY DEF MonTypes
<1>2. /\ MonTypes' /\ probes'[p] = row
      /\ \A q \in Probes \ {p} : probes'[q] = probes[q]
  BY <1>1, Moving
<1>3. QED BY <1>2 DEF Moves

\* An answer shows the gauges as they are set with it.
LEMMA Answering ==
  ASSUME MonTypes, NEW p \in Probes, NEW g \in GaugeRecord, Answer(p, g), UNCHANGED World0,
         gauges' = g
  PROVE  /\ MonTypes' /\ Moves(p) /\ probes'[p].at = "answered"
         /\ probes'[p].shown = g /\ probes'[p].real = Real
         /\ probes'[p].saw = probes[p].saw /\ probes'[p].tally = probes[p].tally
<1> DEFINE old == probes[p]
<1> DEFINE real == Real
<1> DEFINE row == [old EXCEPT !.at = "answered", !.shown = g, !.real = real]
<1>1. old \in ProbeRow /\ Bounded(p) BY DEF MonTypes
<1>2. probes' = [probes EXCEPT ![p] = row] BY DEF Answer
<1>3. \A o \in Outcomes : old.tally[o] <= Cardinality(Books \ old.left) BY <1>1 DEF Bounded
<1>4. old = probes[p] /\ real = Real OBVIOUS
<1>5. real \in GaugeRecord BY RealTyped
<1> HIDE DEF old, real
<1>6. /\ row \in ProbeRow /\ row.at = "answered" /\ row.left = old.left /\ row.tally = old.tally
      /\ row.held = old.held /\ row.saw = old.saw /\ row.shown = g /\ row.real = real
  BY <1>1, <1>5 DEF ProbeRow
<1>7. row.page = old.page /\ row.quiet = old.quiet BY <1>1 DEF ProbeRow
<1> HIDE DEF row
<1>8. /\ MonTypes' /\ probes'[p] = row
      /\ \A q \in Probes \ {p} : probes'[q] = probes[q]
  BY <1>2, <1>3, <1>6, Moving
<1>9. QED BY <1>4, <1>6, <1>7, <1>8 DEF Moves

------------------------------------------------------------------------------
(* What the world and a restart do to the probes.                            *)

LEMMA Changing ==
  ASSUME MonTypes, NEW health \in [Deps -> BOOLEAN], Change(health), UNCHANGED clients,
         runs' \in [Books -> Outcomes \cup {"none"}], queued' \in 0..MaxQueue
  PROVE  /\ MonTypes' /\ healthy' = health /\ UNCHANGED gauges
         /\ \A p \in Probes \ InFlight : probes'[p] = probes[p]
         /\ \A p \in InFlight :
              /\ probes'[p].at = probes[p].at /\ probes'[p].page = probes[p].page
              /\ probes'[p].saw = probes[p].saw /\ probes'[p].left = probes[p].left
              /\ probes'[p].tally = probes[p].tally /\ probes'[p].quiet = FALSE
              /\ \A d \in Deps : probes'[p].held[d] = probes[p].held[d] \cup {health[d]}
<1>0. changes' \in 0..MaxChanges
  <2>1. changes \in 0..MaxChanges /\ changes < MaxChanges /\ changes' = changes + 1
    BY DEF Change, MonTypes
  <2>2. QED BY <2>1, MonitoringBounds
<1>1. /\ healthy' = health /\ UNCHANGED gauges
      /\ probes' = [p \in Probes |->
           IF p \in InFlight
           THEN [probes[p] EXCEPT !.quiet = FALSE,
                   !.held = [d \in Deps |-> probes[p].held[d] \cup {health[d]}]]
           ELSE probes[p]]
  BY DEF Change
<1>2. ASSUME NEW p \in InFlight
      PROVE  /\ probes'[p] \in ProbeRow
             /\ probes'[p].at = probes[p].at /\ probes'[p].page = probes[p].page
             /\ probes'[p].saw = probes[p].saw /\ probes'[p].left = probes[p].left
             /\ probes'[p].tally = probes[p].tally /\ probes'[p].quiet = FALSE
             /\ \A d \in Deps : probes'[p].held[d] = probes[p].held[d] \cup {health[d]}
  <2> DEFINE old == probes[p]
  <2> DEFINE held == [d \in Deps |-> old.held[d] \cup {health[d]}]
  <2> DEFINE row == [old EXCEPT !.quiet = FALSE, !.held = held]
  <2>1. p \in Probes /\ old \in ProbeRow BY DEF InFlight, MonTypes
  <2>2. probes'[p] = row BY <1>1, <2>1
  <2>3. held \in [Deps -> SUBSET BOOLEAN] BY <2>1 DEF ProbeRow
  <2>4. old = probes[p] /\ \A d \in Deps : held[d] = probes[p].held[d] \cup {health[d]} OBVIOUS
  <2> HIDE DEF old, held
  <2>5. /\ row \in ProbeRow /\ row.at = old.at /\ row.saw = old.saw /\ row.left = old.left
        /\ row.tally = old.tally /\ row.held = held
    BY <2>1, <2>3 DEF ProbeRow
  <2>6. row.page = old.page /\ row.quiet = FALSE BY <2>1 DEF ProbeRow
  <2> HIDE DEF row
  <2>7. QED BY <2>2, <2>4, <2>5, <2>6
<1>3. \A p \in Probes \ InFlight : probes'[p] = probes[p] BY <1>1
<1>4. probes' \in [Probes -> ProbeRow]
  <2>1. \A p \in Probes : probes'[p] \in ProbeRow BY <1>2, <1>3 DEF MonTypes
  <2>2. QED BY <1>1, <2>1
<1>5. \A p \in Probes : Bounded(p)' BY <1>2, <1>3 DEF Bounded, MonTypes
<1>6. MonTypes' BY <1>0, <1>1, <1>4, <1>5 DEF MonTypes
<1>7. QED BY <1>1, <1>2, <1>3, <1>6

LEMMA Restarting ==
  ASSUME MonTypes, MonitoringCrash
  PROVE  /\ MonTypes' /\ UNCHANGED World0 /\ gauges' = Gauges0 /\ InFlight' = {}
         /\ \A p \in Probes : probes'[p].at = "answered" => probes'[p] = probes[p]
         /\ \A p \in Probes : probes'[p].at \notin {"checking", "listing", "counting"}
<1>1. /\ gauges' = Gauges0 /\ UNCHANGED World0
      /\ probes' = [p \in Probes |->
           IF p \in InFlight THEN [probes[p] EXCEPT !.at = "error"] ELSE probes[p]]
  BY DEF MonitoringCrash, World0
<1>2. \A p \in InFlight :
        /\ probes'[p] \in ProbeRow /\ probes'[p].at = "error"
        /\ probes'[p].left = probes[p].left /\ probes'[p].tally = probes[p].tally
  <2> SUFFICES ASSUME NEW p \in InFlight
               PROVE  /\ probes'[p] \in ProbeRow /\ probes'[p].at = "error"
                      /\ probes'[p].left = probes[p].left /\ probes'[p].tally = probes[p].tally
    OBVIOUS
  <2> DEFINE old == probes[p]
  <2>1. p \in Probes /\ old \in ProbeRow BY DEF InFlight, MonTypes
  <2>2. probes'[p] = [old EXCEPT !.at = "error"] BY <1>1, <2>1
  <2>3. old = probes[p] OBVIOUS
  <2> HIDE DEF old
  <2>4. QED BY <2>1, <2>2, <2>3 DEF ProbeRow
<1>3. \A p \in Probes \ InFlight : probes'[p] = probes[p] BY <1>1
<1>4. probes' \in [Probes -> ProbeRow]
  <2>1. \A p \in Probes : probes'[p] \in ProbeRow BY <1>2, <1>3 DEF MonTypes
  <2>2. QED BY <1>1, <2>1
<1>5. \A p \in Probes : Bounded(p)' BY <1>2, <1>3 DEF Bounded, MonTypes
<1>6. MonTypes' BY <1>1, <1>4, <1>5, Gauges0Typed DEF MonTypes, World0
<1>7. \A p \in Probes : probes'[p].at \in {"idle", "answered", "error"}
  BY <1>2, <1>3 DEF MonTypes, ProbeRow, InFlight
<1>8. InFlight' = {} BY <1>7 DEF InFlight
<1>9. QED BY <1>1, <1>2, <1>3, <1>6, <1>7, <1>8

------------------------------------------------------------------------------
(* Every health that a probe may show, each probe in progress remembers.     *)

Past(p) == probes[p].at \in {"listing", "counting"}

HealthHeld(p) ==
  \A d \in Deps : /\ healthy[d] => TRUE \in probes[p].held[d]
                  /\ ~healthy[d] => FALSE \in probes[p].held[d]

\* What one probe has seen and may yet set.
SeenHeld(o, p) ==
  \A d \in Deps : /\ probes[o].saw[d] = "healthy" => TRUE \in probes[p].held[d]
                  /\ probes[o].saw[d] = "unhealthy" => FALSE \in probes[p].held[d]

Configured(p) == \A d \in Deps : probes[p].saw[d] = "not_configured" <=> d \notin clients

DepHeld(v, d, p) ==
  IF d \in clients THEN (v = 1 /\ TRUE \in probes[p].held[d]) \/ (v = 0 /\ FALSE \in probes[p].held[d])
  ELSE v = 0

DepsHeld(dep, p) == \A d \in Deps : DepHeld(dep[d], d, p)

HeldBy(p) ==
  /\ HealthHeld(p) /\ Configured(p)
  /\ \A o \in InFlight : SeenHeld(o, p)
  /\ Past(p) => /\ probes[p].page /\ Shuffle \in clients
                /\ DepsHeld(gauges.dep, p)

HeldInv == \A p \in InFlight : HeldBy(p)

LEMMA SeenIsHeld ==
  ASSUME MonTypes, HeldInv, NEW o \in InFlight, NEW p \in InFlight,
         \A d \in Deps : probes[o].saw[d] # "pending"
  PROVE  DepsHeld(DepGauges(probes[o].saw), p)
<1> SUFFICES ASSUME NEW d \in Deps PROVE DepHeld(DepGauges(probes[o].saw)[d], d, p)
  BY DEF DepsHeld
<1>1. probes[o].saw[d] \in {"not_configured", "healthy", "unhealthy"}
  BY DEF MonTypes, InFlight, ProbeRow
<1>2. SeenHeld(o, p) /\ Configured(o) BY DEF HeldInv, HeldBy
<1>3. DepGauges(probes[o].saw)[d] = IF probes[o].saw[d] = "healthy" THEN 1 ELSE 0
  BY DEF DepGauges
<1>4. CASE d \in clients BY <1>1, <1>2, <1>3, <1>4 DEF SeenHeld, Configured, DepHeld
<1>5. CASE d \notin clients BY <1>2, <1>3, <1>5 DEF Configured, DepHeld
<1>6. QED BY <1>4, <1>5

\* A handler moves its probe: it sees what is so, and sets what it saw.
LEMMA HeldMoves ==
  ASSUME MonTypes, HeldInv, NEW p \in InFlight, Moves(p),
         \A d \in Deps : \/ probes'[p].saw[d] = probes[p].saw[d]
                         \/ /\ d \in clients
                            /\ probes'[p].saw[d] = IF healthy[d] THEN "healthy" ELSE "unhealthy",
         \/ gauges'.dep = gauges.dep /\ (Past(p)' => Past(p))
         \/ /\ gauges'.dep = DepGauges(probes[p].saw)
            /\ \A d \in Deps : probes[p].saw[d] # "pending"
            /\ Past(p)' => probes[p].page /\ Shuffle \in clients
  PROVE  HeldInv'
<1>1. /\ UNCHANGED <<clients, healthy>> /\ InFlight' \subseteq InFlight
      /\ \A q \in InFlight : /\ probes'[q].page = probes[q].page
                             /\ probes'[q].held = probes[q].held
      /\ \A q \in InFlight \ {p} : probes'[q] = probes[q]
  BY DEF Moves, World0, InFlight
<1>2. ASSUME NEW q \in InFlight' PROVE HealthHeld(q)'
  BY <1>1, <1>2 DEF HeldInv, HeldBy, HealthHeld
<1>3. ASSUME NEW q \in InFlight' PROVE Configured(q)'
  <2>1. Configured(q) BY <1>1, <1>3 DEF HeldInv, HeldBy
  <2>2. CASE q # p BY <1>1, <1>3, <2>1, <2>2 DEF Configured
  <2>3. CASE q = p BY <1>1, <2>1, <2>3 DEF Configured
  <2>4. QED BY <2>2, <2>3
<1>4. ASSUME NEW q \in InFlight', NEW o \in InFlight' PROVE SeenHeld(o, q)'
  <2>1. SeenHeld(o, q) /\ HealthHeld(q) /\ q \in InFlight
    BY <1>1, <1>4 DEF HeldInv, HeldBy
  <2>2. CASE o # p BY <1>1, <1>4, <2>1, <2>2 DEF SeenHeld
  <2>3. CASE o = p BY <1>1, <2>1, <2>3 DEF SeenHeld, HealthHeld
  <2>4. QED BY <2>2, <2>3
<1>5. ASSUME NEW q \in InFlight', Past(q)'
      PROVE  probes'[q].page /\ Shuffle \in clients' /\ DepsHeld(gauges.dep, q)'
  <2>0. q \in InFlight BY <1>1, <1>5
  <2>1. CASE gauges'.dep = gauges.dep /\ (Past(p)' => Past(p))
    <3>1. Past(q) BY <1>1, <1>5, <2>0, <2>1 DEF Past
    <3>2. probes[q].page /\ Shuffle \in clients /\ DepsHeld(gauges.dep, q)
      BY <2>0, <3>1 DEF HeldInv, HeldBy
    <3>3. QED BY <1>1, <2>0, <2>1, <3>2 DEF DepsHeld, DepHeld
  <2>2. CASE /\ gauges'.dep = DepGauges(probes[p].saw)
             /\ \A d \in Deps : probes[p].saw[d] # "pending"
             /\ Past(p)' => probes[p].page /\ Shuffle \in clients
    <3>1. DepsHeld(DepGauges(probes[p].saw), q) BY <2>0, <2>2, SeenIsHeld
    <3>2. probes[q].page /\ Shuffle \in clients
      <4>1. CASE q = p BY <1>5, <2>2, <4>1
      <4>2. CASE q # p
        <5>1. Past(q) BY <1>1, <1>5, <2>0, <4>2 DEF Past
        <5>2. QED BY <2>0, <5>1 DEF HeldInv, HeldBy
      <4>3. QED BY <4>1, <4>2
    <3>3. QED BY <1>1, <2>0, <2>2, <3>1, <3>2 DEF DepsHeld, DepHeld
  <2>3. QED BY <2>1, <2>2
<1>6. QED BY <1>2, <1>3, <1>4, <1>5 DEF HeldInv, HeldBy

LEMMA HeldBegins ==
  ASSUME MonTypes, HeldInv, NEW p \in Probes, NEW page \in BOOLEAN, BeginProbe(p, page)
  PROVE  HeldInv'
<1> DEFINE held(d) == {healthy[d]} \cup UNION {probes[o].held[d] : o \in InFlight}
<1>1. /\ UNCHANGED <<clients, healthy>>
      /\ \A q \in Probes \ {p} : probes'[q] = probes[q]
      /\ probes'[p].at = "checking"
      /\ \A d \in Deps : probes'[p].saw[d] = IF d \in clients THEN "pending" ELSE "not_configured"
      /\ \A d \in Deps : probes'[p].held[d] = held(d)
  BY Beginning DEF World0
<1>2. gauges'.dep = gauges.dep
  BY Beginning, RefreshedFields
<1>3. InFlight' = InFlight \cup {p} /\ p \notin InFlight /\ InFlight \subseteq Probes
  BY <1>1 DEF InFlight, BeginProbe
<1>4. \A d \in Deps : /\ healthy[d] \in BOOLEAN /\ healthy[d] \in held(d)
                      /\ \A o \in InFlight : probes[o].held[d] \subseteq held(d)
  BY DEF MonTypes
<1> HIDE DEF held
<1>5. HeldBy(p)'
  <2>1. HealthHeld(p)' BY <1>1, <1>4 DEF HealthHeld
  <2>2. Configured(p)' BY <1>1 DEF Configured
  <2>3. ASSUME NEW o \in InFlight PROVE SeenHeld(o, p)'
    <3>1. SeenHeld(o, o) /\ probes'[o] = probes[o] BY <1>1, <1>3 DEF HeldInv, HeldBy
    <3>2. QED BY <1>1, <1>4, <3>1 DEF SeenHeld
  <2>4. SeenHeld(p, p)' BY <1>1 DEF SeenHeld
  <2>5. ~Past(p)' BY <1>1 DEF Past
  <2>6. QED BY <1>3, <2>1, <2>2, <2>3, <2>4, <2>5 DEF HeldBy
<1>6. ASSUME NEW q \in InFlight PROVE HeldBy(q)'
  <2>1. HeldBy(q) /\ probes'[q] = probes[q] BY <1>1, <1>3 DEF HeldInv
  <2>2. HealthHeld(q)' /\ Configured(q)' BY <1>1, <2>1 DEF HeldBy, HealthHeld, Configured
  <2>3. ASSUME NEW o \in InFlight PROVE SeenHeld(o, q)'
    <3>1. SeenHeld(o, q) /\ probes'[o] = probes[o] BY <1>1, <1>3, <2>1 DEF HeldBy
    <3>2. QED BY <2>1, <3>1 DEF SeenHeld
  <2>4. SeenHeld(p, q)' BY <1>1 DEF SeenHeld
  <2>5. Past(q)' => probes'[q].page /\ Shuffle \in clients' /\ DepsHeld(gauges.dep, q)'
    BY <1>1, <1>2, <2>1 DEF HeldBy, Past, DepsHeld, DepHeld
  <2>6. QED BY <1>3, <2>2, <2>3, <2>4, <2>5 DEF HeldBy
<1>7. QED BY <1>3, <1>5, <1>6 DEF HeldInv

LEMMA HeldChanges ==
  ASSUME MonTypes, HeldInv, NEW health \in [Deps -> BOOLEAN], Change(health), UNCHANGED clients,
         runs' \in [Books -> Outcomes \cup {"none"}], queued' \in 0..MaxQueue
  PROVE  HeldInv'
<1>1. /\ healthy' = health /\ UNCHANGED gauges
      /\ \A p \in Probes \ InFlight : probes'[p] = probes[p]
      /\ \A p \in InFlight :
           /\ probes'[p].at = probes[p].at /\ probes'[p].page = probes[p].page
           /\ probes'[p].saw = probes[p].saw
           /\ \A d \in Deps : probes'[p].held[d] = probes[p].held[d] \cup {health[d]}
  BY Changing
<1>2. InFlight' = InFlight BY <1>1 DEF InFlight
<1>3. ASSUME NEW q \in InFlight PROVE HeldBy(q)'
  <2>1. HeldBy(q) BY DEF HeldInv
  <2>2. HealthHeld(q)' BY <1>1 DEF HealthHeld
  <2>3. Configured(q)' BY <1>1, <2>1 DEF HeldBy, Configured
  <2>4. \A o \in InFlight : SeenHeld(o, q)' BY <1>1, <2>1 DEF HeldBy, SeenHeld
  <2>5. Past(q)' => probes'[q].page /\ Shuffle \in clients' /\ DepsHeld(gauges.dep, q)'
    BY <1>1, <2>1 DEF HeldBy, Past, DepsHeld, DepHeld
  <2>6. QED BY <1>2, <2>2, <2>3, <2>4, <2>5 DEF HeldBy
<1>4. QED BY <1>2, <1>3 DEF HeldInv

------------------------------------------------------------------------------
(* What is counted has happened, and once.                                   *)

\* Executions that have ended stay so.
Ended == {"success", "failure"}

TallyBy(p) ==
  /\ probes[p].at \in {"checking", "listing"} => probes[p].tally = Tally0
  /\ probes[p].at = "counting" =>
       \A o \in Ended : probes[p].tally[o] <= Cardinality(CountedAs(probes[p].left, o))

TallyInv == /\ \A o \in Ended : gauges.books[o] <= Count(o)
            /\ \A p \in Probes : TallyBy(p)

LEMMA TallyMoves ==
  ASSUME TallyInv, NEW p \in Probes, Moves(p), TallyBy(p)',
         gauges'.books = gauges.books \/ \A o \in Ended : gauges'.books[o] <= Count(o)
  PROVE  TallyInv'
<1>1. UNCHANGED runs /\ \A q \in Probes \ {p} : probes'[q] = probes[q] BY DEF Moves, World0
<1>2. \A q \in Probes \ {p} : TallyBy(q)' BY <1>1 DEF TallyInv, TallyBy, CountedAs
<1>3. \A o \in Ended : gauges'.books[o] <= Count(o)' BY <1>1 DEF TallyInv, Count
<1>4. QED BY <1>2, <1>3 DEF TallyInv

\* A change of the world that ends nothing twice.
LEMMA TallyChanges ==
  ASSUME MonTypes, TallyInv, NEW health \in [Deps -> BOOLEAN], Change(health), UNCHANGED clients,
         runs' \in [Books -> Outcomes \cup {"none"}], queued' \in 0..MaxQueue,
         \A b \in Books : runs[b] \in Ended => runs'[b] = runs[b]
  PROVE  TallyInv'
<1>1. /\ UNCHANGED gauges
      /\ \A p \in Probes \ InFlight : probes'[p] = probes[p]
      /\ \A p \in InFlight : /\ probes'[p].at = probes[p].at /\ probes'[p].left = probes[p].left
                             /\ probes'[p].tally = probes[p].tally
  BY Changing
<1>2. \A p \in Probes : /\ probes'[p].at = probes[p].at /\ probes'[p].left = probes[p].left
                        /\ probes'[p].tally = probes[p].tally
  BY <1>1
<1>3. ASSUME NEW left \in SUBSET Books, NEW o \in Ended
      PROVE  /\ Cardinality(CountedAs(left, o)) <= Cardinality({b \in Books \ left : runs'[b] = o})
             /\ Cardinality(CountedAs(left, o)) \in Nat
             /\ Cardinality({b \in Books \ left : runs'[b] = o}) \in Nat
  <2> DEFINE old == CountedAs(left, o)
  <2> DEFINE new == {b \in Books \ left : runs'[b] = o}
  <2>1. old \subseteq new /\ new \in SUBSET Books /\ old \in SUBSET Books BY DEF CountedAs
  <2>2. IsFiniteSet(new) /\ Cardinality(new) \in Nat /\ Cardinality(old) \in Nat
    BY <2>1, CountsFinite
  <2>3. Cardinality(old) <= Cardinality(new) BY <2>1, <2>2, FS_Subset
  <2>4. QED BY <2>2, <2>3
<1>4. ASSUME NEW p \in Probes PROVE TallyBy(p)'
  <2> DEFINE left == probes[p].left
  <2>1. TallyBy(p) /\ left \in SUBSET Books /\ probes[p].tally \in [Outcomes -> Nat]
    BY DEF TallyInv, MonTypes, ProbeRow
  <2>2. ASSUME probes[p].at = "counting", NEW o \in Ended
        PROVE  probes[p].tally[o] <= Cardinality({b \in Books \ left : runs'[b] = o})
    <3>1. probes[p].tally[o] <= Cardinality(CountedAs(left, o)) /\ probes[p].tally[o] \in Nat
      BY <2>1, <2>2 DEF TallyBy, Ended, Outcomes
    <3> HIDE DEF left
    <3>2. QED BY <1>3, <2>1, <3>1
  <2>3. QED BY <1>2, <2>1, <2>2 DEF TallyBy, CountedAs
<1>5. ASSUME NEW o \in Ended PROVE gauges.books[o] <= Count(o)'
  <2> DEFINE v == gauges.books[o]
  <2>1. v <= Count(o) /\ v \in Nat
    BY BooksCounted DEF TallyInv, MonTypes, GaugeRecord, Ended, Outcomes
  <2>2. {} \in SUBSET Books /\ Books \ {} = Books OBVIOUS
  <2>3. /\ Cardinality({b \in Books : runs[b] = o}) <= Cardinality({b \in Books : runs'[b] = o})
        /\ Cardinality({b \in Books : runs[b] = o}) \in Nat
        /\ Cardinality({b \in Books : runs'[b] = o}) \in Nat
    BY <1>3, <2>2 DEF CountedAs
  <2> HIDE DEF v
  <2>4. QED BY <2>1, <2>3 DEF Count, v
<1>6. QED BY <1>1, <1>4, <1>5 DEF TallyInv

------------------------------------------------------------------------------
(* While the world stands still, all probes see the same.                    *)

RealDeps == [d \in Deps |-> Bit(d \in clients /\ healthy[d])]

SeesTruth(p) ==
  \A d \in clients : probes[p].saw[d] # "pending" => (probes[p].saw[d] = "healthy" <=> healthy[d])

CountsTruth(p) ==
  probes[p].at = "counting" =>
    /\ healthy[Shuffle]
    /\ \A o \in Outcomes : probes[p].tally[o] = Cardinality(CountedAs(probes[p].left, o))

\* What a page shows of the queue while nothing changes.
QueueTruth == IF HasWorker THEN queued ELSE Unset

QuietBy(p) ==
  probes[p].quiet =>
    /\ \A o \in InFlight : probes[o].quiet
    /\ SeesTruth(p) /\ CountsTruth(p)
    /\ probes[p].page => gauges.queue = QueueTruth
    /\ Past(p) => gauges.dep = RealDeps

\* Nobody but a worker and the page of a process that has one sets the queue's gauge.
QuietInv == /\ HasWorker \/ gauges.queue = Unset
            /\ \A p \in InFlight : QuietBy(p)

LEMMA SeenIsTrue ==
  ASSUME MonTypes, HeldInv, NEW p \in InFlight, SeesTruth(p),
         \A d \in Deps : probes[p].saw[d] # "pending"
  PROVE  DepGauges(probes[p].saw) = RealDeps
<1>1. \A d \in Deps : DepGauges(probes[p].saw)[d] = Bit(d \in clients /\ healthy[d])
  <2> SUFFICES ASSUME NEW d \in Deps
               PROVE  DepGauges(probes[p].saw)[d] = Bit(d \in clients /\ healthy[d])
    OBVIOUS
  <2>1. DepGauges(probes[p].saw)[d] = IF probes[p].saw[d] = "healthy" THEN 1 ELSE 0
    BY DEF DepGauges
  <2>2. CASE d \in clients BY <2>1, <2>2 DEF SeesTruth, Bit
  <2>3. CASE d \notin clients
    <3>1. probes[p].saw[d] = "not_configured" BY <2>3 DEF HeldInv, HeldBy, Configured
    <3>2. QED BY <2>1, <2>3, <3>1 DEF Bit
  <2>4. QED BY <2>2, <2>3
<1>2. QED BY <1>1 DEF DepGauges, RealDeps

LEMMA QuietMoves ==
  ASSUME MonTypes, HeldInv, QuietInv, NEW p \in InFlight, Moves(p), gauges'.queue = gauges.queue,
         \A d \in Deps : \/ probes'[p].saw[d] = probes[p].saw[d]
                         \/ /\ d \in clients
                            /\ probes'[p].saw[d] = IF healthy[d] THEN "healthy" ELSE "unhealthy",
         \/ gauges'.dep = gauges.dep /\ (Past(p)' => Past(p))
         \/ /\ gauges'.dep = DepGauges(probes[p].saw)
            /\ \A d \in Deps : probes[p].saw[d] # "pending"
            /\ Past(p)' => probes[p].page /\ Shuffle \in clients,
         probes[p].quiet => CountsTruth(p)'
  PROVE  QuietInv'
<1>1. /\ UNCHANGED <<clients, healthy, runs, queued>> /\ InFlight' \subseteq InFlight
      /\ \A q \in InFlight : probes'[q].page = probes[q].page /\ probes'[q].quiet = probes[q].quiet
      /\ \A q \in InFlight \ {p} : probes'[q] = probes[q]
  BY DEF Moves, World0, InFlight
<1>0. (HasWorker \/ gauges.queue = Unset)' /\ QueueTruth' = QueueTruth
  BY <1>1 DEF QuietInv, HasWorker, QueueTruth
<1> SUFFICES ASSUME NEW q \in InFlight', probes'[q].quiet
             PROVE  /\ \A o \in InFlight' : probes'[o].quiet
                    /\ SeesTruth(q)' /\ CountsTruth(q)'
                    /\ probes'[q].page => gauges'.queue = QueueTruth'
                    /\ Past(q)' => gauges'.dep = RealDeps'
  BY <1>0 DEF QuietInv, QuietBy
<1>2. q \in InFlight /\ probes[q].quiet BY <1>1
<1>3. /\ \A o \in InFlight : probes[o].quiet
      /\ SeesTruth(q) /\ CountsTruth(q)
      /\ probes[q].page => gauges.queue = QueueTruth
      /\ Past(q) => gauges.dep = RealDeps
  BY <1>2 DEF QuietInv, QuietBy
<1>4. \A o \in InFlight' : probes'[o].quiet
  <2>1. \A o \in InFlight' : o \in InFlight BY <1>1
  <2>2. QED BY <1>1, <1>3, <2>1
<1>5. SeesTruth(q)'
  <2>1. CASE q = p
    <3>1. clients \subseteq Deps BY DEF MonTypes
    <3>2. QED BY <1>1, <1>3, <2>1, <3>1 DEF SeesTruth
  <2>2. CASE q # p BY <1>1, <1>2, <1>3, <2>2 DEF SeesTruth
  <2>3. QED BY <2>1, <2>2
<1>6. CountsTruth(q)'
  <2>1. CASE q = p BY <1>2, <2>1
  <2>2. CASE q # p BY <1>1, <1>2, <1>3, <2>2 DEF CountsTruth, CountedAs
  <2>3. QED BY <2>1, <2>2
<1>7. Past(q)' => gauges'.dep = RealDeps'
  <2>1. RealDeps' = RealDeps BY <1>1 DEF RealDeps
  <2>2. CASE gauges'.dep = gauges.dep /\ (Past(p)' => Past(p))
    BY <1>1, <1>2, <1>3, <2>1, <2>2 DEF Past
  <2>3. CASE /\ gauges'.dep = DepGauges(probes[p].saw)
             /\ \A d \in Deps : probes[p].saw[d] # "pending"
    <3>1. probes[p].quiet BY <1>3
    <3>2. SeesTruth(p) BY <3>1 DEF QuietInv, QuietBy
    <3>3. QED BY <2>1, <2>3, <3>2, SeenIsTrue
  <2>4. QED BY <2>2, <2>3
<1>8. QED BY <1>0, <1>1, <1>2, <1>3, <1>4, <1>5, <1>6, <1>7

LEMMA QuietBegins ==
  ASSUME MonTypes, HeldInv, QuietInv, NEW p \in Probes, NEW page \in BOOLEAN, BeginProbe(p, page)
  PROVE  QuietInv'
<1> DEFINE quiet == \A o \in InFlight : probes[o].quiet
<1>1. /\ UNCHANGED <<clients, healthy, runs, queued>>
      /\ \A q \in Probes \ {p} : probes'[q] = probes[q]
      /\ probes'[p].at = "checking" /\ probes'[p].page = page
      /\ probes'[p].saw = [d \in Deps |-> IF d \in clients THEN "pending" ELSE "not_configured"]
      /\ probes'[p].quiet = quiet
  BY Beginning DEF World0
<1>2. /\ gauges'.dep = gauges.dep
      /\ gauges'.queue = IF page THEN QueueTruth ELSE gauges.queue
      /\ HasWorker \/ gauges'.queue = Unset
      /\ QueueTruth' = QueueTruth /\ (HasWorker' <=> HasWorker)
  <2>1. gauges' = IF page THEN Refreshed ELSE gauges BY DEF BeginProbe
  <2>2. HasWorker \/ gauges.queue = Unset BY DEF QuietInv
  <2>3. QueueTruth' = QueueTruth /\ (HasWorker' <=> HasWorker)
    BY <1>1 DEF QueueTruth, HasWorker
  <2>4. QED BY <2>1, <2>2, <2>3, RefreshedFields DEF QueueTruth
<1>3. InFlight' = InFlight \cup {p} /\ p \notin InFlight /\ InFlight \subseteq Probes
  BY <1>1 DEF InFlight, BeginProbe
<1>4. RealDeps' = RealDeps BY <1>1 DEF RealDeps
<1>5. clients \subseteq Deps BY DEF MonTypes
<1>6. QuietBy(p)'
  <2> SUFFICES ASSUME probes'[p].quiet PROVE QuietBy(p)' BY DEF QuietBy
  <2>1. \A o \in InFlight' : probes'[o].quiet BY <1>1, <1>3
  <2>2. SeesTruth(p)' BY <1>1, <1>5 DEF SeesTruth
  <2>3. CountsTruth(p)' /\ ~Past(p)' BY <1>1 DEF CountsTruth, Past
  <2>4. probes'[p].page => gauges'.queue = QueueTruth' BY <1>1, <1>2
  <2>5. QED BY <2>1, <2>2, <2>3, <2>4 DEF QuietBy
<1>7. ASSUME NEW q \in InFlight PROVE QuietBy(q)'
  <2>1. probes'[q] = probes[q] BY <1>1, <1>3
  <2> SUFFICES ASSUME probes[q].quiet PROVE QuietBy(q)' BY <2>1 DEF QuietBy
  <2>2. /\ \A o \in InFlight : probes[o].quiet
        /\ SeesTruth(q) /\ CountsTruth(q)
        /\ probes[q].page => gauges.queue = QueueTruth
        /\ Past(q) => gauges.dep = RealDeps
    BY DEF QuietInv, QuietBy
  <2>3. \A o \in InFlight' : probes'[o].quiet BY <1>1, <1>3, <2>2
  <2>4. SeesTruth(q)' /\ CountsTruth(q)'
    BY <1>1, <2>1, <2>2 DEF SeesTruth, CountsTruth, CountedAs
  <2>5. probes'[q].page => gauges'.queue = QueueTruth' BY <1>1, <1>2, <2>1, <2>2
  <2>6. Past(q)' => gauges'.dep = RealDeps' BY <1>2, <1>4, <2>1, <2>2 DEF Past
  <2>7. QED BY <2>3, <2>4, <2>5, <2>6 DEF QuietBy
<1>8. QED BY <1>2, <1>3, <1>6, <1>7 DEF QuietInv

------------------------------------------------------------------------------
(* What an answered probe showed.                                            *)

ShownBy(p) ==
  probes[p].at = "answered" =>
    /\ DepsHeld(probes[p].shown.dep, p)
    /\ probes[p].shown.up = 1 =>
         \A o \in Ended : probes[p].shown.books[o] <= probes[p].real.books[o]

TrueBy(p) ==
  probes[p].at = "answered" /\ probes[p].quiet /\ probes[p].page =>
    /\ probes[p].shown.dep = probes[p].real.dep
    /\ probes[p].shown.up = probes[p].real.up
    /\ probes[p].shown.queue = IF HasWorker THEN probes[p].real.queue ELSE Unset
    /\ probes[p].real.up = 1 => probes[p].shown.books = probes[p].real.books

ShownInv == \A p \in Probes : ShownBy(p) /\ TrueBy(p)

\* What was answered stays so.
LEMMA ShownStays ==
  ASSUME NEW p \in Probes, ShownBy(p), TrueBy(p), UNCHANGED clients,
         probes'[p].at = "answered" => probes'[p] = probes[p]
  PROVE  ShownBy(p)' /\ TrueBy(p)'
BY DEF ShownBy, TrueBy, DepsHeld, DepHeld, HasWorker

LEMMA ShownMoves ==
  ASSUME ShownInv, NEW p \in Probes, Moves(p), ShownBy(p)', TrueBy(p)'
  PROVE  ShownInv'
<1>1. UNCHANGED clients /\ \A q \in Probes \ {p} : probes'[q] = probes[q] BY DEF Moves, World0
<1>2. \A q \in Probes \ {p} : ShownBy(q)' /\ TrueBy(q)' BY <1>1, ShownStays DEF ShownInv
<1>3. QED BY <1>2 DEF ShownInv

MonInv == MonTypes /\ HeldInv /\ TallyInv /\ QuietInv /\ ShownInv

\* The truth that an answer is compared with.
LEMMA RealFields ==
  /\ Real.dep = RealDeps /\ Real.queue = queued
  /\ Real.up = Bit(Shuffle \in clients /\ healthy[Shuffle])
  /\ Real.books = [o \in Outcomes |-> Count(o)]
BY DEF Real, RealDeps

\* A handler answers: what it sets is held, counted and, for a quiet page, true.
LEMMA AnswerMoves ==
  ASSUME MonInv, NEW p \in InFlight, NEW g \in GaugeRecord, Answer(p, g), UNCHANGED World0,
         gauges' = g, g.queue = gauges.queue,
         \/ g.dep = gauges.dep
         \/ g.dep = DepGauges(probes[p].saw) /\ \A d \in Deps : probes[p].saw[d] # "pending",
         g.books = gauges.books \/ \A o \in Ended : g.books[o] <= Count(o),
         DepsHeld(g.dep, p),
         probes[p].quiet /\ probes[p].page =>
           /\ g.dep = RealDeps
           /\ g.up = Bit(Shuffle \in clients /\ healthy[Shuffle])
           /\ g.up = 1 => g.books = [o \in Outcomes |-> Count(o)]
  PROVE  MonInv'
<1>0. MonTypes /\ HeldInv /\ TallyInv /\ QuietInv /\ ShownInv /\ p \in Probes
  BY DEF MonInv, InFlight
<1>1. /\ MonTypes' /\ Moves(p) /\ probes'[p].at = "answered"
      /\ probes'[p].shown = g /\ probes'[p].real = Real /\ probes'[p].saw = probes[p].saw
  BY <1>0, Answering
<1>2. /\ UNCHANGED clients /\ probes'[p].held = probes[p].held
      /\ probes'[p].page = probes[p].page /\ probes'[p].quiet = probes[p].quiet
  BY <1>1 DEF Moves, World0
<1>3. ~Past(p)' /\ TallyBy(p)' /\ CountsTruth(p)'
  BY <1>1 DEF Past, TallyBy, CountsTruth
<1>4. HeldInv' BY <1>0, <1>1, <1>3, HeldMoves
<1>5. TallyInv' BY <1>0, <1>1, <1>3, TallyMoves
<1>6. QuietInv' BY <1>0, <1>1, <1>3, QuietMoves
<1>7. \A o \in Ended : g.books[o] <= Count(o) /\ Real.books[o] = Count(o)
  BY <1>0, RealFields DEF TallyInv, Ended, Outcomes
<1>8. ShownBy(p)' BY <1>1, <1>2, <1>7 DEF ShownBy, DepsHeld, DepHeld
<1>9. TrueBy(p)'
  <2> SUFFICES ASSUME probes[p].quiet, probes[p].page
               PROVE  /\ g.dep = Real.dep /\ g.up = Real.up
                      /\ g.queue = IF HasWorker THEN Real.queue ELSE Unset
                      /\ Real.up = 1 => g.books = Real.books
    BY <1>1, <1>2 DEF TrueBy, HasWorker
  <2>1. gauges.queue = QueueTruth BY <1>0 DEF QuietInv, QuietBy
  <2>2. QED BY <2>1, RealFields DEF QueueTruth
<1>10. ShownInv' BY <1>0, <1>1, <1>8, <1>9, ShownMoves
<1>11. QED BY <1>1, <1>4, <1>5, <1>6, <1>10 DEF MonInv

\* A handler goes on, without an answer.
LEMMA OtherMoves ==
  ASSUME MonInv, NEW p \in InFlight, MonTypes', Moves(p), gauges'.queue = gauges.queue,
         gauges'.books = gauges.books, probes'[p].at # "answered",
         \A d \in Deps : \/ probes'[p].saw[d] = probes[p].saw[d]
                         \/ /\ d \in clients
                            /\ probes'[p].saw[d] = IF healthy[d] THEN "healthy" ELSE "unhealthy",
         \/ gauges'.dep = gauges.dep /\ (Past(p)' => Past(p))
         \/ /\ gauges'.dep = DepGauges(probes[p].saw)
            /\ \A d \in Deps : probes[p].saw[d] # "pending"
            /\ Past(p)' => probes[p].page /\ Shuffle \in clients,
         TallyBy(p)', probes[p].quiet => CountsTruth(p)'
  PROVE  MonInv'
<1>0. MonTypes /\ HeldInv /\ TallyInv /\ QuietInv /\ ShownInv /\ p \in Probes
  BY DEF MonInv, InFlight
<1>1. HeldInv' BY <1>0, HeldMoves
<1>2. TallyInv' BY <1>0, TallyMoves
<1>3. QuietInv' BY <1>0, QuietMoves
<1>4. ShownBy(p)' /\ TrueBy(p)' BY DEF ShownBy, TrueBy
<1>5. ShownInv' BY <1>0, <1>4, ShownMoves
<1>6. QED BY <1>1, <1>2, <1>3, <1>5 DEF MonInv

------------------------------------------------------------------------------
(* The handlers.                                                             *)

LEMMA Checking ==
  ASSUME MonInv, NEW p \in Probes, NEW d \in Deps, CheckOne(p, d)
  PROVE  MonInv'
<1>0. MonTypes /\ p \in InFlight BY DEF MonInv, InFlight, CheckOne
<1>1. /\ MonTypes' /\ Moves(p) /\ UNCHANGED gauges
      /\ probes[p].at = "checking" /\ probes'[p].at = "checking"
      /\ probes[p].saw[d] = "pending" /\ probes'[p].tally = probes[p].tally
      /\ probes'[p].saw = [probes[p].saw EXCEPT ![d] = IF healthy[d] THEN "healthy" ELSE "unhealthy"]
  BY <1>0, SettingSaw
<1>2. d \in clients BY <1>0, <1>1 DEF MonInv, HeldInv, HeldBy, Configured
<1>3. \A e \in Deps : \/ probes'[p].saw[e] = probes[p].saw[e]
                      \/ /\ e \in clients
                         /\ probes'[p].saw[e] = IF healthy[e] THEN "healthy" ELSE "unhealthy"
  <2>1. probes[p].saw \in [Deps -> {"pending", "not_configured", "healthy", "unhealthy"}]
    BY <1>0 DEF MonTypes, ProbeRow
  <2>2. QED BY <1>1, <1>2, <2>1
<1>4. TallyBy(p)' BY <1>1 DEF MonInv, TallyInv, TallyBy
<1>5. CountsTruth(p)' /\ ~Past(p)' BY <1>1 DEF CountsTruth, Past
<1>6. QED BY <1>0, <1>1, <1>3, <1>4, <1>5, OtherMoves

LEMMA AllChecking ==
  ASSUME MonInv, NEW p \in Probes, AllChecked(p)
  PROVE  MonInv'
<1> DEFINE saw == probes[p].saw
<1> DEFINE g == [gauges EXCEPT !.dep = DepGauges(saw)]
<1>0. MonTypes /\ HeldInv /\ p \in InFlight BY DEF MonInv, InFlight, AllChecked
<1>1. /\ probes[p].at = "checking" /\ \A d \in Deps : saw[d] # "pending"
      /\ UNCHANGED World0
  BY DEF AllChecked, World0
<1>2. /\ g \in GaugeRecord /\ g.dep = DepGauges(saw) /\ g.books = gauges.books
      /\ g.up = gauges.up /\ g.queue = gauges.queue
  <2>1. DepGauges(saw) \in [Deps -> Gauge] BY DEF DepGauges, Gauge
  <2>2. gauges \in GaugeRecord BY <1>0 DEF MonTypes
  <2> DEFINE dep == DepGauges(saw)
  <2> HIDE DEF dep
  <2>3. QED BY <2>1, <2>2 DEF GaugeRecord
<1>3. DepsHeld(DepGauges(saw), p) BY <1>0, <1>1, SeenIsHeld
<1>4. probes[p].quiet => DepGauges(saw) = RealDeps
  <2>1. probes[p].quiet => SeesTruth(p) BY <1>0 DEF MonInv, QuietInv, QuietBy
  <2>2. QED BY <1>0, <1>1, <2>1, SeenIsTrue
<1>5. CASE ~probes[p].page /\ gauges' = g /\ Answer(p, g)
  <2> HIDE DEF g
  <2>1. QED BY <1>0, <1>1, <1>2, <1>3, <1>5, AnswerMoves
<1>6. CASE /\ probes[p].page /\ Shuffle \notin clients
           /\ gauges' = [g EXCEPT !.up = 0] /\ Answer(p, gauges')
  <2> DEFINE h == [g EXCEPT !.up = 0]
  <2> HIDE DEF g
  <2>1. h \in GaugeRecord /\ h.dep = g.dep /\ h.books = g.books /\ h.up = 0 /\ h.queue = g.queue
    BY <1>2 DEF GaugeRecord, Gauge
  <2>2. gauges' = h /\ Answer(p, h) BY <1>6
  <2> HIDE DEF h
  <2>3. h.up = Bit(Shuffle \in clients /\ healthy[Shuffle]) BY <1>6, <2>1 DEF Bit
  <2>4. h.dep = DepGauges(saw) /\ h.books = gauges.books /\ h.queue = gauges.queue
    BY <1>2, <2>1
  <2>5. h.up # 1 BY <2>1
  <2>6. DepsHeld(h.dep, p) BY <1>3, <2>4
  <2>7. QED BY <1>0, <1>1, <1>4, <2>1, <2>2, <2>3, <2>4, <2>5, <2>6, AnswerMoves
<1>7. CASE /\ probes[p].page /\ Shuffle \in clients /\ gauges' = g
           /\ probes' = [probes EXCEPT ![p].at = "listing"]
  <2> HIDE DEF g
  <2>1. /\ MonTypes' /\ Moves(p) /\ probes'[p].at = "listing"
        /\ probes'[p].saw = probes[p].saw /\ probes'[p].tally = probes[p].tally
    BY <1>0, <1>1, <1>2, <1>7, SettingStage
  <2>2. TallyBy(p)' BY <1>1, <2>1 DEF MonInv, TallyInv, TallyBy
  <2>3. CountsTruth(p)' BY <2>1 DEF CountsTruth
  <2>4. QED BY <1>0, <1>1, <1>2, <1>7, <2>1, <2>2, <2>3, OtherMoves
<1>8. QED BY <1>5, <1>6, <1>7 DEF AllChecked

\* Nothing is counted yet.
LEMMA NothingCounted ==
  /\ Books \ Books = {} /\ Cardinality({}) = 0
  /\ \A o : Cardinality(CountedAs(Books, o)) = 0
<1>1. Cardinality({}) = 0 BY FS_EmptySet
<1>2. \A o : CountedAs(Books, o) = {} BY DEF CountedAs
<1>3. QED BY <1>1, <1>2

LEMMA Listing ==
  ASSUME MonInv, NEW p \in Probes, ListWorkflows(p)
  PROVE  MonInv'
<1>0. MonTypes /\ p \in InFlight /\ Past(p) BY DEF MonInv, InFlight, ListWorkflows, Past
<1>1. probes[p].tally = Tally0 BY DEF MonInv, TallyInv, TallyBy, ListWorkflows
<1>2. /\ Tally0 \in [Outcomes -> Nat] /\ Books \in SUBSET Books
      /\ \A o \in Outcomes : Tally0[o] = 0
  BY TallyRange DEF Tally0
<1>3. \A o \in Outcomes : Tally0[o] <= Cardinality(Books \ Books) BY <1>2, NothingCounted
<1>4. UNCHANGED World0 /\ UNCHANGED gauges /\ healthy[Shuffle] BY DEF ListWorkflows, World0
<1> DEFINE row == [probes[p] EXCEPT !.at = "counting", !.left = Books]
<1>5. /\ row \in ProbeRow /\ row.at = "counting" /\ row.saw = probes[p].saw
      /\ row.held = probes[p].held /\ row.left = Books /\ row.tally = Tally0
      /\ row.page = probes[p].page /\ row.quiet = probes[p].quiet
  <2> DEFINE old == probes[p]
  <2>1. old \in ProbeRow BY <1>0 DEF MonTypes
  <2>2. old.tally = Tally0 BY <1>1
  <2> HIDE DEF old
  <2> DEFINE new == [old EXCEPT !.at = "counting", !.left = Books]
  <2>3. new \in ProbeRow /\ new.at = "counting" /\ new.saw = old.saw /\ new.held = old.held
        /\ new.left = Books /\ new.tally = Tally0
    BY <2>1, <2>2, <1>2 DEF ProbeRow
  <2>4. new.page = old.page /\ new.quiet = old.quiet BY <2>1 DEF ProbeRow
  <2>5. row = new BY DEF old
  <2> HIDE DEF new, row
  <2>6. QED BY <2>3, <2>4, <2>5 DEF old
<1>6. /\ MonTypes' /\ Moves(p) /\ probes'[p].at = "counting" /\ probes'[p].saw = probes[p].saw
      /\ probes'[p].left = Books /\ probes'[p].tally = Tally0
  <2>1. probes' = [probes EXCEPT ![p] = row] BY <1>0 DEF ListWorkflows, MonTypes, ProbeRow
  <2> HIDE DEF row
  <2>2. \A o \in Outcomes : row.tally[o] <= Cardinality(Books \ row.left) BY <1>3, <1>5
  <2>3. MonTypes' /\ Moves(p) /\ probes'[p] = row BY <1>0, <1>4, <1>5, <2>1, <2>2, SettingCount
  <2>4. QED BY <1>5, <2>3
<1>7. \A o \in Outcomes : Tally0[o] = Cardinality(CountedAs(Books, o)')
  <2>1. \A o : CountedAs(Books, o)' = {} BY DEF CountedAs
  <2>2. QED BY <1>2, <2>1, NothingCounted
<1>8. \A o \in Outcomes : Cardinality(CountedAs(Books, o)') = 0 BY <1>2, <1>7
<1>9. TallyBy(p)' BY <1>2, <1>6, <1>8 DEF TallyBy, CountedAs, Ended, Outcomes
<1>10. CountsTruth(p)' BY <1>4, <1>6, <1>7 DEF CountsTruth, World0, CountedAs
<1>11. QED BY <1>0, <1>4, <1>6, <1>9, <1>10, OtherMoves

LEMMA CountingRun ==
  ASSUME MonInv, NEW p \in Probes, NEW b \in Books, CountRuns(p, b)
  PROVE  MonInv'
<1> DEFINE old == probes[p]
<1> DEFINE left == old.left \ {b}
<1> DEFINE tally == Tallied(old.tally, runs[b])
<1>0. MonTypes /\ p \in InFlight /\ Past(p) BY DEF MonInv, InFlight, CountRuns, Past
<1>1. old \in ProbeRow /\ old.left \in SUBSET Books /\ old.tally \in [Outcomes -> Nat]
  BY <1>0 DEF MonTypes, ProbeRow
<1>2. old.at = "counting" /\ b \in old.left /\ healthy[Shuffle]
      /\ UNCHANGED World0 /\ UNCHANGED gauges
  BY DEF CountRuns, World0
<1>3. \A o \in Outcomes : /\ tally[o] = IF runs[b] = o THEN old.tally[o] + 1 ELSE old.tally[o]
                          /\ tally[o] \in Nat /\ old.tally[o] \in Nat
  BY <1>0, <1>1 DEF MonTypes, Outcomes, Tallied
<1>4. left \in SUBSET Books /\ tally \in [Outcomes -> Nat]
  <2>1. runs[b] \in Outcomes \cup {"none"} BY <1>0 DEF MonTypes
  <2>2. QED BY <1>1, <2>1 DEF Tallied, Outcomes
<1> DEFINE row == [old EXCEPT !.left = left, !.tally = tally]
<1>5. probes' = [probes EXCEPT ![p] = row]
  BY <1>0 DEF CountRuns, MonTypes, ProbeRow
<1> DEFINE oldLeft == old.left
<1>6. /\ Cardinality(Books \ left) = Cardinality(Books \ oldLeft) + 1
      /\ Cardinality(Books \ oldLeft) \in Nat
      /\ \A o : /\ Cardinality(CountedAs(oldLeft, o)) \in Nat
                /\ Cardinality(CountedAs(left, o)) =
                     IF runs[b] = o THEN Cardinality(CountedAs(oldLeft, o)) + 1
                     ELSE Cardinality(CountedAs(oldLeft, o))
  BY <1>1, <1>2, CountingOne
<1>7. \A o \in Outcomes : tally[o] <= Cardinality(Books \ left)
  <2>1. \A o \in Outcomes : old.tally[o] <= Cardinality(Books \ oldLeft)
    BY <1>0 DEF MonTypes, Bounded
  <2> HIDE DEF left, tally, oldLeft
  <2>2. QED BY <1>3, <1>6, <2>1
<1>8. ASSUME NEW o \in Ended PROVE tally[o] <= Cardinality(CountedAs(left, o))
  <2>1. old.tally[o] <= Cardinality(CountedAs(oldLeft, o)) /\ o \in Outcomes
    BY <1>2 DEF MonInv, TallyInv, TallyBy, Ended, Outcomes
  <2> HIDE DEF left, tally, oldLeft, old
  <2>2. QED BY <1>3, <1>6, <2>1
<1>9. ASSUME probes[p].quiet, NEW o \in Outcomes PROVE tally[o] = Cardinality(CountedAs(left, o))
  <2>1. old.tally[o] = Cardinality(CountedAs(oldLeft, o))
    BY <1>0, <1>2, <1>9 DEF MonInv, QuietInv, QuietBy, CountsTruth
  <2> HIDE DEF left, tally, oldLeft, old
  <2>2. QED BY <1>3, <1>6, <2>1
<1>10. old = probes[p] OBVIOUS
<1> HIDE DEF old, left, tally, oldLeft
<1>11. /\ MonTypes' /\ Moves(p) /\ probes'[p].at = "counting" /\ probes'[p].saw = probes[p].saw
       /\ probes'[p].left = left /\ probes'[p].tally = tally
  <2>1. /\ row \in ProbeRow /\ row.at = "counting" /\ row.saw = old.saw /\ row.held = old.held
        /\ row.left = left /\ row.tally = tally
    BY <1>1, <1>2, <1>4 DEF ProbeRow
  <2>2. row.page = old.page /\ row.quiet = old.quiet BY <1>1 DEF ProbeRow
  <2> HIDE DEF row
  <2>3. \A o \in Outcomes : row.tally[o] <= Cardinality(Books \ row.left) BY <1>7, <2>1
  <2>4. MonTypes' /\ Moves(p) /\ probes'[p] = row
    BY <1>0, <1>2, <1>5, <1>10, <2>1, <2>2, <2>3, SettingCount
  <2>5. QED BY <1>10, <2>1, <2>4
<1>12. \A o : CountedAs(left, o) = {x \in Books \ left : runs'[x] = o}
  BY <1>2 DEF CountedAs, World0
<1>13. TallyBy(p)' BY <1>8, <1>11, <1>12 DEF TallyBy, CountedAs
<1>14. probes[p].quiet => CountsTruth(p)'
  BY <1>2, <1>9, <1>11, <1>12 DEF CountsTruth, CountedAs, World0
<1>15. QED BY <1>0, <1>2, <1>11, <1>13, <1>14, OtherMoves

LEMMA Collecting ==
  ASSUME MonInv, NEW p \in Probes, Collected(p)
  PROVE  MonInv'
<1> DEFINE tally == probes[p].tally
<1> DEFINE g == [gauges EXCEPT !.books = tally, !.up = 1]
<1>0. MonTypes /\ p \in InFlight /\ Past(p) BY DEF MonInv, InFlight, Collected, Past
<1>1. /\ probes[p].at = "counting" /\ probes[p].left = {} /\ UNCHANGED World0
      /\ gauges' = g /\ Answer(p, g)
  BY DEF Collected, World0, BookGauges
<1>2. \A o : CountedAs(probes[p].left, o) = {b \in Books : runs[b] = o} BY <1>1 DEF CountedAs
<1>3. tally \in [Outcomes -> 0..Cardinality(Books)]
  <2>1. tally \in [Outcomes -> Nat] BY <1>0 DEF MonTypes, ProbeRow
  <2>2. \A o \in Outcomes : tally[o] <= Cardinality(Books \ probes[p].left)
    BY <1>0 DEF MonTypes, Bounded
  <2>3. Books \ probes[p].left = Books BY <1>1
  <2>4. QED BY <2>1, <2>2, <2>3, BooksCounted
<1>4. \A o \in Ended : tally[o] <= Count(o)
  BY <1>1, <1>2 DEF MonInv, TallyInv, TallyBy, Count
<1>5. ASSUME probes[p].quiet
      PROVE  tally = [o \in Outcomes |-> Count(o)] /\ healthy[Shuffle] /\ gauges.dep = RealDeps
  <2>1. CountsTruth(p) /\ gauges.dep = RealDeps
    BY <1>0, <1>5 DEF MonInv, QuietInv, QuietBy
  <2>2. healthy[Shuffle] /\ \A o \in Outcomes : tally[o] = Count(o)
    BY <1>1, <1>2, <2>1 DEF CountsTruth, Count
  <2>3. QED BY <1>3, <2>1, <2>2
<1>6. Shuffle \in clients /\ DepsHeld(gauges.dep, p) BY <1>0 DEF MonInv, HeldInv, HeldBy
<1> HIDE DEF tally
<1>7. /\ g \in GaugeRecord /\ g.dep = gauges.dep /\ g.books = tally /\ g.up = 1
      /\ g.queue = gauges.queue
  BY <1>0, <1>3 DEF MonTypes, GaugeRecord, Gauge
<1> HIDE DEF g
<1>8. probes[p].quiet => g.up = Bit(Shuffle \in clients /\ healthy[Shuffle])
  BY <1>5, <1>6, <1>7 DEF Bit
<1>9. QED BY <1>0, <1>1, <1>4, <1>5, <1>6, <1>7, <1>8, AnswerMoves

LEMMA FailingCollection ==
  ASSUME MonInv, NEW p \in Probes, CollectionFails(p)
  PROVE  MonInv'
<1> DEFINE g == [gauges EXCEPT !.up = 0]
<1>0. MonTypes /\ p \in InFlight /\ Past(p) BY DEF MonInv, InFlight, CollectionFails, Past
<1>1. ~healthy[Shuffle] /\ UNCHANGED World0 /\ gauges' = g /\ Answer(p, g)
  BY DEF CollectionFails, World0, UpAfterFailure
<1>2. DepsHeld(gauges.dep, p) BY <1>0 DEF MonInv, HeldInv, HeldBy
<1>3. probes[p].quiet => gauges.dep = RealDeps BY <1>0 DEF MonInv, QuietInv, QuietBy
<1>4. /\ g \in GaugeRecord /\ g.dep = gauges.dep /\ g.books = gauges.books /\ g.up = 0
      /\ g.queue = gauges.queue
  BY <1>0 DEF MonTypes, GaugeRecord, Gauge
<1> HIDE DEF g
<1>5. g.up = Bit(Shuffle \in clients /\ healthy[Shuffle]) BY <1>1, <1>4, Zenon DEF Bit
<1>6. g.up # 1 /\ DepsHeld(g.dep, p) BY <1>2, <1>4
<1>7. QED BY <1>0, <1>1, <1>3, <1>4, <1>5, <1>6, AnswerMoves

LEMMA RaisingCollection ==
  ASSUME MonInv, NEW p \in Probes, CollectionRaises(p)
  PROVE  MonInv'
<1>0. MonTypes /\ p \in InFlight /\ Past(p) BY DEF MonInv, InFlight, CollectionRaises, Past
<1>1. /\ UNCHANGED World0 /\ UNCHANGED gauges /\ gauges \in GaugeRecord
      /\ probes' = [probes EXCEPT ![p].at = "error"]
  BY <1>0 DEF CollectionRaises, World0, MonTypes
<1>2. /\ MonTypes' /\ Moves(p) /\ probes'[p].at = "error"
      /\ probes'[p].saw = probes[p].saw
  BY <1>0, <1>1, SettingStage
<1>3. TallyBy(p)' /\ CountsTruth(p)' BY <1>2 DEF TallyBy, CountsTruth
<1>4. QED BY <1>0, <1>1, <1>2, <1>3, OtherMoves

\* A check that raises ends its probe, as a collection that raises does.
LEMMA RaisingCheck ==
  ASSUME MonInv, NEW p \in Probes, NEW d \in Deps, CheckRaises(p, d)
  PROVE  MonInv'
<1>0. MonTypes /\ p \in InFlight BY DEF MonInv, InFlight, CheckRaises
<1>1. /\ UNCHANGED World0 /\ UNCHANGED gauges /\ gauges \in GaugeRecord
      /\ probes' = [probes EXCEPT ![p].at = "error"]
  BY <1>0 DEF CheckRaises, World0, MonTypes
<1>2. /\ MonTypes' /\ Moves(p) /\ probes'[p].at = "error"
      /\ probes'[p].saw = probes[p].saw
  BY <1>0, <1>1, SettingStage
<1>3. TallyBy(p)' /\ CountsTruth(p)' /\ ~Past(p)' BY <1>2 DEF TallyBy, CountsTruth, Past
<1>4. QED BY <1>0, <1>1, <1>2, <1>3, OtherMoves

------------------------------------------------------------------------------
(* The other steps, and the theorems about Monitoring.                       *)

LEMMA BeginningProbe ==
  ASSUME MonInv, NEW p \in Probes, NEW page \in BOOLEAN, BeginProbe(p, page)
  PROVE  MonInv'
<1>0. MonTypes /\ HeldInv /\ TallyInv /\ QuietInv /\ ShownInv BY DEF MonInv
<1>1. /\ MonTypes' /\ UNCHANGED World0 /\ \A q \in Probes \ {p} : probes'[q] = probes[q]
      /\ probes'[p].at = "checking" /\ probes'[p].tally = Tally0
  BY <1>0, Beginning
<1>2. HeldInv' BY <1>0, HeldBegins
<1>3. QuietInv' BY <1>0, QuietBegins
<1>4. gauges'.books = gauges.books BY <1>0, Beginning, RefreshedFields
<1>5. TallyInv'
  <2>1. \A q \in Probes : TallyBy(q)' BY <1>0, <1>1 DEF TallyInv, TallyBy, World0, CountedAs
  <2>2. \A o \in Ended : gauges'.books[o] <= Count(o)'
    BY <1>0, <1>1, <1>4 DEF TallyInv, World0, Count
  <2>3. QED BY <2>1, <2>2 DEF TallyInv
<1>6. ShownInv'
  <2>1. \A q \in Probes : probes'[q].at = "answered" => probes'[q] = probes[q] BY <1>1
  <2>2. UNCHANGED clients BY <1>1 DEF World0
  <2>3. QED BY <1>0, <2>1, <2>2, ShownStays DEF ShownInv
<1>7. QED BY <1>1, <1>2, <1>3, <1>5, <1>6 DEF MonInv

LEMMA ChangingWorld ==
  ASSUME MonInv, NEW health \in [Deps -> BOOLEAN], Change(health), UNCHANGED clients,
         runs' \in [Books -> Outcomes \cup {"none"}], queued' \in 0..MaxQueue,
         \A b \in Books : runs[b] \in Ended => runs'[b] = runs[b]
  PROVE  MonInv'
<1>0. MonTypes /\ HeldInv /\ TallyInv /\ QuietInv /\ ShownInv BY DEF MonInv
<1>1. /\ MonTypes'
      /\ \A p \in Probes \ InFlight : probes'[p] = probes[p]
      /\ \A p \in InFlight : probes'[p].at = probes[p].at /\ probes'[p].quiet = FALSE
      /\ UNCHANGED gauges
  BY <1>0, Changing
<1>2. HeldInv' BY <1>0, HeldChanges
<1>3. TallyInv' BY <1>0, TallyChanges
<1>4. QuietInv'
  <2>1. InFlight' \subseteq InFlight BY <1>1 DEF InFlight
  <2>2. HasWorker' <=> HasWorker BY DEF HasWorker
  <2>3. QED BY <1>0, <1>1, <2>1, <2>2 DEF QuietInv, QuietBy
<1>5. ShownInv'
  <2>1. \A q \in Probes : probes'[q].at = "answered" => probes'[q] = probes[q]
    BY <1>1 DEF InFlight
  <2>2. QED BY <1>0, <2>1, ShownStays DEF ShownInv
<1>6. QED BY <1>1, <1>2, <1>3, <1>4, <1>5 DEF MonInv

LEMMA WorldChanging == ASSUME MonInv, World PROVE MonInv'
<1>0. MonTypes BY DEF MonInv
<1>1. ASSUME NEW d \in Deps, HealthChanges(d) PROVE MonInv'
  <2>1. [healthy EXCEPT ![d] = ~healthy[d]] \in [Deps -> BOOLEAN] BY <1>0 DEF MonTypes
  <2>2. Change([healthy EXCEPT ![d] = ~healthy[d]]) /\ UNCHANGED <<clients, runs, queued>>
    BY <1>1 DEF HealthChanges
  <2>3. QED BY <1>0, <2>1, <2>2, ChangingWorld DEF MonTypes
<1>2. ASSUME NEW b \in Books, RunStarts(b) PROVE MonInv'
  <2>1. /\ Change(healthy) /\ UNCHANGED <<clients, queued>>
        /\ runs' = [runs EXCEPT ![b] = "running"] /\ runs[b] = "none"
    BY <1>2 DEF RunStarts
  <2>2. /\ runs' \in [Books -> Outcomes \cup {"none"}]
        /\ \A c \in Books : runs[c] \in Ended => runs'[c] = runs[c]
    BY <1>0, <2>1 DEF MonTypes, Outcomes, Ended
  <2>3. QED BY <1>0, <2>1, <2>2, ChangingWorld DEF MonTypes
<1>3. ASSUME NEW b \in Books, NEW o \in {"success", "failure"}, RunEnds(b, o) PROVE MonInv'
  <2>1. /\ Change(healthy) /\ UNCHANGED <<clients, queued>>
        /\ runs' = [runs EXCEPT ![b] = o] /\ runs[b] = "running"
    BY <1>3 DEF RunEnds
  <2>2. /\ runs' \in [Books -> Outcomes \cup {"none"}]
        /\ \A c \in Books : runs[c] \in Ended => runs'[c] = runs[c]
    BY <1>0, <2>1 DEF MonTypes, Outcomes, Ended
  <2>3. QED BY <1>0, <2>1, <2>2, ChangingWorld DEF MonTypes
<1>4. CASE QueueChanges
  <2>1. Change(healthy) /\ UNCHANGED <<clients, runs>> /\ queued' \in 0..MaxQueue
    BY <1>4 DEF QueueChanges
  <2>2. QED BY <1>0, <2>1, ChangingWorld DEF MonTypes
<1>5. QED BY <1>1, <1>2, <1>3, <1>4 DEF World

LEMMA RestartingProbes == ASSUME MonInv, MonitoringCrash PROVE MonInv'
<1>0. MonTypes /\ ShownInv BY DEF MonInv
<1>1. /\ MonTypes' /\ UNCHANGED World0 /\ gauges' = Gauges0 /\ InFlight' = {}
      /\ \A p \in Probes : probes'[p].at = "answered" => probes'[p] = probes[p]
      /\ \A p \in Probes : probes'[p].at \notin {"checking", "listing", "counting"}
  BY <1>0, Restarting
<1>2. HeldInv' /\ QuietInv' BY <1>1 DEF HeldInv, QuietInv, Gauges0
<1>3. TallyInv'
  <2>1. \A p \in Probes : TallyBy(p)' BY <1>1 DEF TallyBy
  <2>2. \A o \in Ended : Count(o)' \in Nat /\ Gauges0.books[o] = 0
    <3>1. \A o : Count(o) \in Nat BY CountRange, BooksCounted
    <3>2. \A o : Count(o)' = Count(o) BY <1>1 DEF Count, World0
    <3>3. \A o \in Ended : Gauges0.books[o] = 0 BY DEF Gauges0, Tally0, Ended, Outcomes
    <3>4. QED BY <3>1, <3>2, <3>3
  <2>3. \A o \in Ended : gauges'.books[o] <= Count(o)' BY <1>1, <2>2
  <2>4. QED BY <2>1, <2>3 DEF TallyInv
<1>4. ShownInv' BY <1>0, <1>1, ShownStays DEF ShownInv, World0
<1>5. QED BY <1>1, <1>2, <1>3, <1>4 DEF MonInv

LEMMA MonitoringInitial == MonitoringInit => MonInv
<1> SUFFICES ASSUME MonitoringInit PROVE MonInv OBVIOUS
<1>1. MonTypes BY MonTypesInitial
<1>2. \A p \in Probes : probes[p] = Unused0 BY DEF MonitoringInit
<1>3. \A p \in Probes : probes[p].at = "idle" BY <1>2, UnusedTyped
<1>4. HeldInv /\ QuietInv
  BY <1>3 DEF HeldInv, QuietInv, InFlight, MonitoringInit, Gauges0
<1>5. ShownInv BY <1>3 DEF ShownInv, ShownBy, TrueBy
<1>6. TallyInv
  <2>1. \A p \in Probes : TallyBy(p) BY <1>3 DEF TallyBy
  <2>2. \A o : Count(o) \in Nat BY CountRange, BooksCounted
  <2>3. \A o \in Ended : gauges.books[o] = 0
    BY DEF MonitoringInit, Gauges0, Tally0, Ended, Outcomes
  <2>4. QED BY <2>1, <2>2, <2>3 DEF TallyInv
<1>7. QED BY <1>1, <1>4, <1>5, <1>6 DEF MonInv

\* Nothing steps, or the worker refreshes the gauge of its queue.
LEMMA StandingStill ==
  ASSUME MonInv, UNCHANGED <<clients, healthy, runs, queued, probes, changes>>,
         gauges' = gauges \/ gauges' = Refreshed
  PROVE  MonInv'
<1>0. MonTypes BY DEF MonInv
<1>1. /\ gauges' \in GaugeRecord /\ gauges'.dep = gauges.dep /\ gauges'.books = gauges.books
      /\ \/ gauges'.queue = gauges.queue
         \/ gauges'.queue = IF HasWorker THEN queued ELSE gauges.queue
  BY <1>0, RefreshedFields DEF MonTypes
<1>2. MonTypes' BY <1>1 DEF MonInv, MonTypes, Bounded
<1>3. InFlight' = InFlight BY DEF InFlight
<1>4. HeldInv'
  <2> SUFFICES ASSUME NEW p \in InFlight PROVE HeldBy(p)' BY <1>3 DEF HeldInv
  <2>1. HeldBy(p) BY DEF MonInv, HeldInv
  <2>2. HealthHeld(p)' /\ Configured(p)' BY <2>1 DEF HeldBy, HealthHeld, Configured
  <2>3. \A o \in InFlight : SeenHeld(o, p)' BY <2>1 DEF HeldBy, SeenHeld
  <2>4. Past(p)' => probes'[p].page /\ Shuffle \in clients' /\ DepsHeld(gauges.dep, p)'
    BY <1>1, <2>1 DEF HeldBy, Past, DepsHeld, DepHeld
  <2>5. QED BY <1>3, <2>2, <2>3, <2>4 DEF HeldBy
<1>5. TallyInv' BY <1>1 DEF MonInv, TallyInv, TallyBy, CountedAs, Count
<1>6. QuietInv'
  <2>1. QuietInv BY DEF MonInv
  <2>2. /\ HasWorker' <=> HasWorker
        /\ QueueTruth' = QueueTruth /\ RealDeps' = RealDeps
    BY DEF HasWorker, QueueTruth, RealDeps
  <2>3. (HasWorker \/ gauges.queue = Unset)' BY <1>1, <2>1, <2>2 DEF QuietInv
  <2>4. ASSUME NEW p \in InFlight PROVE QuietBy(p)'
    <3>1. QuietBy(p) BY <2>1 DEF QuietInv
    <3>2. SeesTruth(p) => SeesTruth(p)' BY DEF SeesTruth
    <3>3. CountsTruth(p) => CountsTruth(p)' BY DEF CountsTruth, CountedAs
    <3>4. gauges.queue = QueueTruth => gauges'.queue = QueueTruth' BY <1>1, <2>2 DEF QueueTruth
    <3>5. QED BY <1>1, <1>3, <2>2, <3>1, <3>2, <3>3, <3>4 DEF QuietBy, Past
  <2>5. QED BY <1>3, <2>3, <2>4 DEF QuietInv
<1>7. ShownInv' BY ShownStays DEF MonInv, ShownInv
<1>8. QED BY <1>2, <1>4, <1>5, <1>6, <1>7 DEF MonInv

LEMMA MonitoringStepping == MonInv /\ [MonitoringNext]_monitoringVars => MonInv'
<1> SUFFICES ASSUME MonInv, [MonitoringNext]_monitoringVars PROVE MonInv' OBVIOUS
<1>1. ASSUME NEW p \in Probes, NEW page \in BOOLEAN, BeginProbe(p, page) PROVE MonInv'
  BY <1>1, BeginningProbe
<1>2. ASSUME NEW p \in Probes, NEW d \in Deps, CheckOne(p, d) PROVE MonInv' BY <1>2, Checking
<1>3. ASSUME NEW p \in Probes, AllChecked(p) PROVE MonInv' BY <1>3, AllChecking
<1>4. ASSUME NEW p \in Probes, ListWorkflows(p) PROVE MonInv' BY <1>4, Listing
<1>5. ASSUME NEW p \in Probes, NEW b \in Books, CountRuns(p, b) PROVE MonInv' BY <1>5, CountingRun
<1>6. ASSUME NEW p \in Probes, Collected(p) PROVE MonInv' BY <1>6, Collecting
<1>7. ASSUME NEW p \in Probes, CollectionFails(p) PROVE MonInv' BY <1>7, FailingCollection
<1>8. ASSUME NEW p \in Probes, CollectionRaises(p) PROVE MonInv' BY <1>8, RaisingCollection
<1>9. CASE World BY <1>9, WorldChanging
<1>10. CASE MonitoringCrash BY <1>10, RestartingProbes
<1>11. ASSUME NEW p \in Probes, NEW d \in Deps, CheckRaises(p, d) PROVE MonInv'
  BY <1>11, RaisingCheck
<1>12. CASE WorkerRefreshes BY <1>12, StandingStill DEF WorkerRefreshes
<1>13. CASE UNCHANGED monitoringVars BY <1>13, StandingStill DEF monitoringVars
<1>14. QED
  BY <1>1, <1>2, <1>3, <1>4, <1>5, <1>6, <1>7, <1>8, <1>9, <1>10, <1>11, <1>12, <1>13
     DEF MonitoringNext, ProbeHandler

LEMMA MonitoringInvariance == MonitoringSpec => []MonInv
BY MonitoringInitial, MonitoringStepping, PTL DEF MonitoringSpec

\* However probes overlap, and whatever changes while they look: the gauges and every page
\* have their types, and no page counts more executions than there are.
THEOREM MonitoringTyped == MonitoringSpec => []MonitoringTypeOK
<1>1. MonInv => MonitoringTypeOK BY DEF MonInv, MonTypes, ProbeRow, MonitoringTypeOK
<1>2. QED BY <1>1, MonitoringInvariance, PTL

\* Nothing is shown that was not so at some moment since the probe began, or since one
\* began that was then in progress, and no execution is shown twice: whatever a probe has
\* seen, every probe in progress remembers, so that it may be set before any of them shows.
THEOREM WhatWasShownWasTrue == MonitoringSpec => []ShownWasTrue
<1>1. MonInv => ShownWasTrue
  <2> SUFFICES ASSUME MonInv, NEW p \in AnsweredProbes
               PROVE  /\ \A d \in clients : \E was \in probes[p].held[d] :
                           probes[p].shown.dep[d] = Bit(was)
                      /\ \A d \in Deps \ clients : probes[p].shown.dep[d] = 0
                      /\ probes[p].shown.up = 1 =>
                           /\ probes[p].shown.books["success"] <= probes[p].real.books["success"]
                           /\ probes[p].shown.books["failure"] <= probes[p].real.books["failure"]
    BY DEF ShownWasTrue
  <2>1. ShownBy(p) /\ probes[p].at = "answered" /\ clients \subseteq Deps
    BY DEF AnsweredProbes, MonInv, ShownInv, MonTypes
  <2>2. \A d \in Deps : DepHeld(probes[p].shown.dep[d], d, p) BY <2>1 DEF ShownBy, DepsHeld
  <2>3. Bit(TRUE) = 1 /\ Bit(FALSE) = 0 BY DEF Bit
  <2>4. \A d \in clients : \E was \in probes[p].held[d] : probes[p].shown.dep[d] = Bit(was)
    BY <2>1, <2>2, <2>3, Zenon DEF DepHeld
  <2>5. \A d \in Deps \ clients : probes[p].shown.dep[d] = 0 BY <2>2 DEF DepHeld
  <2>6. QED BY <2>1, <2>4, <2>5 DEF ShownBy, Ended
<1>2. QED BY <1>1, MonitoringInvariance, PTL

\* A page whose probe met no change shows the truth: probes that overlap it have seen the
\* same, and set the gauges to what it would set.  Of the queue it shows the truth in a
\* process with a worker, and in one without never anything, whatever waits there.
THEOREM QuietPagesAreTrue == MonitoringSpec => []QuietPageIsTrue
<1>1. MonInv => QuietPageIsTrue
  BY DEF MonInv, ShownInv, TrueBy, QuietPageIsTrue, AnsweredProbes
<1>2. QED BY <1>1, MonitoringInvariance, PTL

------------------------------------------------------------------------------
(* The two beside one another.                                               *)

\* A step of one leaves the variables of the other alone.
LEMMA EndpointsRun == Spec => TriageSpec /\ MonitoringSpec
<1>1. Init => TriageInit /\ MonitoringInit BY DEF Init
<1>2. [Next]_vars => [TriageNext]_triageVars
  <2>1. UNCHANGED vars => UNCHANGED triageVars BY DEF vars
  <2>2. Next => TriageNext \/ UNCHANGED triageVars BY DEF Next
  <2>3. QED BY <2>1, <2>2
<1>3. [Next]_vars => [MonitoringNext]_monitoringVars
  <2>1. UNCHANGED vars => UNCHANGED monitoringVars BY DEF vars
  <2>2. Next => MonitoringNext \/ UNCHANGED monitoringVars BY DEF Next
  <2>3. QED BY <2>1, <2>2
<1>4. QED BY <1>1, <1>2, <1>3, PTL DEF Spec, TriageSpec, MonitoringSpec

\* Every variable of the two has its type, whatever they run beside.
THEOREM EndpointsTyped == Spec => []EndpointsTypeOK
<1>1. TriageTypeOK /\ MonitoringTypeOK => EndpointsTypeOK BY DEF EndpointsTypeOK
<1>2. QED BY <1>1, EndpointsRun, TriageTyped, MonitoringTyped, PTL
==============================================================================
