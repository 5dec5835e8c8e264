---------------------------- MODULE Approvals_proof ----------------------------
(***************************************************************************)
(* Proofs about Approvals, for any number of approvals, clients and        *)
(* crashes, with or without failing audit writes.                          *)
(***************************************************************************)
EXTENDS Approvals, TLAPS

\* A request in progress is for an approval that exists, and everything in the audit
\* file about a decision is in the ledger.
TrailInv ==
  /\ \A c \in Clients : ~Idle(c) => Pair(c) \in audit
  /\ \A a \in ApprovalIds, d \in Decisions : <<a, d>> \in audit => approvals[a].status = d
  /\ notes \subseteq audit
  /\ answers \subseteq audit
  /\ \A a \in ApprovalIds, d \in Decisions :
       <<a, d>> \in conflicts => approvals[a].status \in Decisions \ {d}

\* Only an approved record has a result, and a fresh one has no trace.
RowInv ==
  \A a \in ApprovalIds :
    /\ approvals[a].result # "none" => approvals[a].status = "approve"
    /\ approvals[a].status = "absent" => approvals[a].trace = NoTrace

IInv == TypeOK /\ TrailInv /\ RowInv /\ ResponseOnce /\ ProposedOnce

LEMMA InitInv == Init => IInv
  <1> SUFFICES ASSUME Init PROVE IInv
    OBVIOUS
  <1> USE DEF Init, NoApproval, Free
  <1>1. TypeOK
    BY DEF TypeOK, ApprovalRow, RequestRecord
  <1>2. TrailInv /\ RowInv
    BY DEF TrailInv, RowInv, Idle
  <1>3. ResponseOnce /\ ProposedOnce
    BY DEF ResponseOnce, ProposedOnce, Executed
  <1> QED BY <1>1, <1>2, <1>3 DEF IInv

\* What a ledger operation leaves behind; every action changes the ledger by one of
\* the three or not at all.
LedgerStep ==
  \/ \E id \in ApprovalIds, i \in Incidents, t \in Traces \cup {NoTrace} :
       Insert(id, i, t) /\ (t # NoTrace => ~Proposed(t))
  \/ \E id \in ApprovalIds, d \in Decisions : Finalize(id, d)
  \/ UNCHANGED ledger

LedgerInv ==
  /\ approvals \in [ApprovalIds -> ApprovalRow]
  /\ identity \in {"enabled", "disabled"}
  /\ RowInv /\ ResponseOnce /\ ProposedOnce

Final ==
  /\ \A a \in ApprovalIds : approvals[a].status \in Decisions => approvals'[a] = approvals[a]
  /\ identity = "disabled" => identity' = "disabled"

LEMMA LedgerPreserved ==
  ASSUME LedgerInv, LedgerStep
  PROVE  LedgerInv' /\ Final
  <1> USE DEF LedgerInv, Decisions
  <1>1. ASSUME NEW id \in ApprovalIds, NEW i \in Incidents, NEW t \in Traces \cup {NoTrace},
               Insert(id, i, t), t # NoTrace => ~Proposed(t)
        PROVE  LedgerInv' /\ Final
    <2> DEFINE row == [status |-> "pending", incident |-> i, trace |-> t, result |-> "none"]
    <2>1. /\ row \in ApprovalRow /\ row.status = "pending" /\ row.trace = t
          /\ row.result = "none"
      BY DEF ApprovalRow
    <2> HIDE DEF row
    <2>2. /\ approvals[id].status = "absent" /\ approvals' = [approvals EXCEPT ![id] = row]
          /\ identity' = identity
      BY <1>1 DEF Insert, row
    <2>3. \A a \in ApprovalIds : approvals'[a] = IF a = id THEN row ELSE approvals[a]
      BY <2>2
    <2>4. approvals' \in [ApprovalIds -> ApprovalRow]
      BY <2>1, <2>2
    <2>5. RowInv' /\ ResponseOnce'
      BY <2>1, <2>2, <2>3 DEF RowInv, ResponseOnce, Executed
    <2>6. ProposedOnce'
      BY <1>1, <2>1, <2>3 DEF ProposedOnce, Proposed
    <2>7. Final
      BY <2>2, <2>3 DEF Final
    <2> QED BY <2>2, <2>4, <2>5, <2>6, <2>7
  <1>2. ASSUME NEW id \in ApprovalIds, NEW d \in Decisions, Finalize(id, d)
        PROVE  LedgerInv' /\ Final
    <2> DEFINE row == [status |-> d, incident |-> approvals[id].incident,
                       trace |-> approvals[id].trace, result |-> Outcome(d)]
    <2>1. /\ row \in ApprovalRow /\ row.status = d /\ row.trace = approvals[id].trace
          /\ row.result = Outcome(d)
      BY DEF ApprovalRow, Outcome
    <2> HIDE DEF row
    <2>2. /\ approvals[id].status = "pending" /\ approvals' = [approvals EXCEPT ![id] = row]
          /\ identity' = IF d = "approve" THEN "disabled" ELSE identity
      BY <1>2 DEF Finalize, Decidable, row
    <2>3. \A a \in ApprovalIds : approvals'[a] = IF a = id THEN row ELSE approvals[a]
      BY <2>2
    <2>4. approvals' \in [ApprovalIds -> ApprovalRow]
      BY <2>1, <2>2
    <2>5. RowInv' /\ ProposedOnce'
      BY <2>1, <2>2, <2>3 DEF RowInv, ProposedOnce, Outcome
    <2>6. ResponseOnce'
      BY <2>1, <2>2, <2>3 DEF RowInv, ResponseOnce, Executed, Outcome
    <2>7. Final
      BY <2>2, <2>3 DEF Final
    <2> QED BY <2>2, <2>4, <2>5, <2>6, <2>7
  <1>3. CASE UNCHANGED ledger
    BY <1>3 DEF ledger, RowInv, ResponseOnce, ProposedOnce, Executed, Final
  <1> QED BY <1>1, <1>2, <1>3 DEF LedgerStep

\* Every step changes the ledger by one operation.
LEMMA StepLedger ==
  ASSUME [Next]_vars
  PROVE  LedgerStep
  <1>1. ASSUME NEW c \in Clients, NEW id \in ApprovalIds, NEW i \in Incidents,
               CreateApproval(c, id, i)
        PROVE  LedgerStep
    BY <1>1 DEF CreateApproval, LedgerStep
  <1>2. ASSUME NEW c \in Clients, NEW id \in ApprovalIds, NEW d \in Decisions,
               DecideApproval(c, id, d)
        PROVE  LedgerStep
    BY <1>2 DEF DecideApproval, Repeat, LedgerStep
  <1>3. ASSUME NEW t \in Traces, NEW id \in ApprovalIds, NEW i \in Incidents,
               ProposeOnce(t, id, i)
        PROVE  LedgerStep
    BY <1>3 DEF ProposeOnce, LedgerStep
  <1>4. CASE \/ \E c \in Clients : Answer(c) \/ AnswerError(c)
             \/ \E c \in Clients, id \in ApprovalIds, d \in Decisions : RefuseDecision(c, id, d)
             \/ Crash \/ UNCHANGED vars
    BY <1>4 DEF Answer, AnswerError, RefuseDecision, Crash, vars, LedgerStep
  <1> QED BY <1>1, <1>2, <1>3, <1>4 DEF Next

\* Types of everything but the ledger.
RestType ==
  /\ requests \in [Clients -> RequestRecord]
  /\ audit \subseteq ApprovalIds \X Events
  /\ notes \subseteq ApprovalIds \X Events
  /\ answers \subseteq ApprovalIds \X Events
  /\ conflicts \subseteq ApprovalIds \X Decisions
  /\ crashes \in Nat

\* The trail stays true while the ledger only gains decisions.
LEMMA TrailFrame ==
  ASSUME TrailInv, RestType, LedgerInv, Final,
         UNCHANGED <<audit, conflicts>>, crashes' \in Nat,
         requests' \in [Clients -> RequestRecord],
         \A c \in Clients : requests'[c] \in {requests[c], Free},
         notes' \subseteq audit, answers' \subseteq audit
  PROVE  TrailInv' /\ RestType'
  <1>1. RestType'
    BY DEF RestType
  <1>2. \A c \in Clients : ~Idle(c)' => Pair(c)' \in audit'
    BY DEF TrailInv, Idle, Pair
  <1>3. \A a \in ApprovalIds, d \in Decisions :
          /\ <<a, d>> \in audit' => approvals'[a].status = d
          /\ <<a, d>> \in conflicts' => approvals'[a].status \in Decisions \ {d}
    BY DEF TrailInv, Final
  <1> QED BY <1>1, <1>2, <1>3 DEF TrailInv

LEMMA FreshRequest ==
  ASSUME NEW c \in Clients, NEW id \in ApprovalIds, NEW event \in Events,
         TrailInv, RestType, LedgerInv, Final, Continue(c, id, event),
         event \in Decisions => approvals'[id].status = event,
         UNCHANGED <<notes, answers, conflicts>>
  PROVE  TrailInv' /\ RestType'
  <1>1. CASE UNCHANGED <<audit, requests, crashes>>
    BY <1>1, TrailFrame DEF TrailInv, RestType
  <1>2. CASE /\ requests' = [d \in Clients |-> Free]
             /\ crashes' = crashes + 1
             /\ UNCHANGED audit
    <2>1. requests' \in [Clients -> RequestRecord]
      BY <1>2 DEF Free, RequestRecord
    <2> QED BY <1>2, <2>1, TrailFrame DEF TrailInv, RestType
  <1>3. CASE /\ audit' = audit \cup {<<id, event>>}
             /\ requests' = [requests EXCEPT ![c] = [id |-> id, event |-> event]]
             /\ UNCHANGED crashes
    <2> DEFINE request == [id |-> id, event |-> event]
    <2>1. request \in RequestRecord /\ request.id = id /\ request.event = event
      BY DEF RequestRecord
    <2> HIDE DEF request
    <2>2. \A d \in Clients : requests'[d] = IF d = c THEN request ELSE requests[d]
      BY <1>3 DEF RestType, request
    <2>3. RestType'
      BY <1>3, <2>1 DEF RestType, request
    <2>4. \A d \in Clients : ~Idle(d)' => Pair(d)' \in audit'
      BY <1>3, <2>1, <2>2 DEF TrailInv, Idle, Pair
    <2>5. \A a \in ApprovalIds, d \in Decisions :
            /\ <<a, d>> \in audit' => approvals'[a].status = d
            /\ <<a, d>> \in conflicts' => approvals'[a].status \in Decisions \ {d}
      BY <1>3 DEF TrailInv, Final
    <2> QED BY <1>3, <2>3, <2>4, <2>5 DEF TrailInv
  <1> QED BY <1>1, <1>2, <1>3 DEF Continue

LEMMA NextInv == IInv /\ [Next]_vars => IInv' /\ Final
  <1> SUFFICES ASSUME IInv, [Next]_vars PROVE IInv' /\ Final
    OBVIOUS
  <1>1. LedgerInv /\ RestType /\ TrailInv
    BY DEF IInv, TypeOK, LedgerInv, RestType
  <1>2. LedgerInv' /\ Final
    BY <1>1, StepLedger, LedgerPreserved
  <1> SUFFICES TrailInv' /\ RestType'
    BY <1>2 DEF IInv, TypeOK, LedgerInv, RestType
  <1>3. ASSUME NEW c \in Clients, NEW id \in ApprovalIds, NEW i \in Incidents,
               CreateApproval(c, id, i)
        PROVE  TrailInv' /\ RestType'
    BY <1>1, <1>2, <1>3, FreshRequest DEF CreateApproval, Events, Decisions
  <1>4. ASSUME NEW c \in Clients, NEW id \in ApprovalIds, NEW d \in Decisions,
               DecideApproval(c, id, d)
        PROVE  TrailInv' /\ RestType'
    <2>1. approvals'[id].status = d
      BY <1>1, <1>4 DEF DecideApproval, Finalize, Repeat, ledger, LedgerInv
    <2> QED BY <1>1, <1>2, <1>4, <2>1, FreshRequest DEF DecideApproval, Events
  <1>5. ASSUME NEW c \in Clients, NEW id \in ApprovalIds, NEW d \in Decisions,
               RefuseDecision(c, id, d)
        PROVE  TrailInv' /\ RestType'
    BY <1>1, <1>5 DEF RefuseDecision, ledger, trail, TrailInv, RestType, Idle, Pair
  <1>6. ASSUME NEW t \in Traces, NEW id \in ApprovalIds, NEW i \in Incidents,
               ProposeOnce(t, id, i)
        PROVE  TrailInv' /\ RestType'
    BY <1>1, <1>2, <1>6, TrailFrame DEF ProposeOnce, trail, TrailInv, RestType
  <1>7. ASSUME NEW c \in Clients, Answer(c) \/ AnswerError(c)
        PROVE  TrailInv' /\ RestType'
    <2>1. requests' = [requests EXCEPT ![c] = Free] /\ Free \in RequestRecord
      BY <1>7 DEF Answer, AnswerError, Free, RequestRecord
    <2>2. /\ \A d \in Clients : requests'[d] \in {requests[d], Free}
          /\ requests' \in [Clients -> RequestRecord]
      BY <1>1, <2>1 DEF RestType
    <2>3. Pair(c) \in audit
      BY <1>1, <1>7 DEF Answer, AnswerError, TrailInv
    <2>4. /\ notes' \subseteq audit /\ answers' \subseteq audit
          /\ UNCHANGED <<audit, conflicts, crashes>>
      BY <1>1, <1>7, <2>3 DEF Answer, AnswerError, TrailInv
    <2> QED BY <1>1, <1>2, <2>2, <2>4, TrailFrame DEF RestType
  <1>8. CASE Crash
    <2>1. requests' \in [Clients -> RequestRecord]
      BY <1>8 DEF Crash, Free, RequestRecord
    <2> QED BY <1>1, <1>2, <1>8, <2>1, TrailFrame DEF Crash, trail, TrailInv, RestType
  <1>9. CASE UNCHANGED vars
    BY <1>1, <1>2, <1>9, TrailFrame DEF vars, trail, TrailInv, RestType
  <1> QED BY <1>3, <1>4, <1>5, <1>6, <1>7, <1>8, <1>9 DEF Next

\* Every variable keeps its type.
THEOREM ApprovalsTyped == Spec => []TypeOK
  <1>1. IInv => TypeOK
    BY DEF IInv
  <1> QED BY InitInv, NextInv, <1>1, PTL DEF Spec

\* The response runs at most once and only for an approved record, whoever decides,
\* repeats, crashes or fails to audit (ApprovalStore.decide).
THEOREM ResponseRunsOnce == Spec => []ResponseOnce
  <1>1. IInv => ResponseOnce
    BY DEF IInv
  <1> QED BY InitInv, NextInv, <1>1, PTL DEF Spec

\* Whoever was answered finds his decision in the ledger and in the audit file; whoever
\* got HTTP 409 was refused for another decision (decide_approval).
THEOREM AnsweredDecisionsStand == Spec => []AnswersAgree
  <1>1. IInv => AnswersAgree
    BY DEF IInv, TrailInv, AnswersAgree
  <1> QED BY InitInv, NextInv, <1>1, PTL DEF Spec

\* Case comments never run ahead of the ledger and the audit file (add_case_note).
THEOREM NotesFollowLedger == Spec => []NotesAreBacked
  <1>1. IInv => NotesAreBacked
    BY DEF IInv, TrailInv, NotesAreBacked
  <1> QED BY InitInv, NextInv, <1>1, PTL DEF Spec

\* create_once makes one proposal per trace.
THEOREM OneProposalPerTrace == Spec => []ProposedOnce
  <1>1. IInv => ProposedOnce
    BY DEF IInv
  <1> QED BY InitInv, NextInv, <1>1, PTL DEF Spec

\* A decision, its result and the disabled identity never change again.
THEOREM DecisionsAreFinal == Spec => DecisionIsFinal
  <1>1. IInv /\ [Next]_vars => [Final]_vars
    BY NextInv
  <1> QED BY InitInv, NextInv, <1>1, PTL DEF Spec, DecisionIsFinal, Final
==============================================================================
