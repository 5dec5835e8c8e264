SPECIFICATION Spec
CONSTANTS
  CaseRuns = {r1, r2, r3}
  Cases = {k1, k2}
  Observables = {o1, o2}
  Tasks = {t1}
  NoCase = NoCase
  MaxDeletions = 1
  BookRuns = {r1, r2, r3}
  Playbooks = {o1, o2}
  WorkflowIds = {k1, k2, k3}
  NoWorkflow = NoWorkflow
  NoPlaybook = NoPlaybook
  Seeds = {o1, o2}
  Fixture <- MCFixture
  Confidence <- MCConfidence
  Foreign <- MCForeign
  Looks = {o1, o2}
  Alerts <- MCAlerts
  NoAlert = NoAlert
  MaxForeign = 1
SYMMETRY Symmetry
INVARIANTS
  LabTypeOK
  CaseSeedOnce
  SeededCaseIsWhole
  HookRunsTheBook
  IntelSeedOnce
  RiskGrowsWithIntelligence
CHECK_DEADLOCK FALSE
