SPECIFICATION Spec
CONSTANTS
  ApprovalIds = {a1, a2}
  Traces = {t1}
  Incidents = {i1}
  Clients = {c1, c2}
  NoId = NoId
  NoTrace = NoTrace
  NoIncident = NoIncident
  AuditMayFail = TRUE
  MaxCrashes = 1
SYMMETRY Symmetry
INVARIANTS
  TypeOK
  ResponseOnce
  AnswersAgree
  NotesAreBacked
  ProposedOnce
PROPERTIES
  DecisionIsFinal
