SPECIFICATION Spec
CONSTANTS
  Calls = {c1, c2, c3}
  TriageIds = {r1}
  Summaries = {s1}
  Blanks = {NoText, EmptyText}
  NoText = NoText
  NoTriage = NoTriage
  TriageAuditFails = TRUE
  MaxCopies = 2
  Probes = {p1, p2}
  Deps = {shuffle, other}
  Shuffle = shuffle
  WorkerDeps = {other}
  ReadDeps = {other}
  Books = {b1, b2}
  MaxQueue = 1
  MaxChanges = 2
SYMMETRY Symmetry
INVARIANTS
  EndpointsTypeOK
  TriageAnswersAgree
  TriageCaseTold
  ShownWasTrue
  QuietPageIsTrue
CHECK_DEADLOCK FALSE
