SPECIFICATION Spec
CONSTANTS
  Keys = {k1}
  CaseIds = {c1, c2}
  NoAlert = NoAlert
  NoResult = NoResult
  NoCase = NoCase
  NoTag = NoTag
  NoKey = NoKey
  Alerts = {"account", "plain"}
  Fingerprints <- MCFingerprints
  FingerprintOf <- MCFingerprintOf
  Webhooked <- MCWebhooked
  AccountActivity <- MCAccountActivity
  WithIndicators <- MCWithIndicators
  MaxAttempts = 2
  MaxCrashes = 2
  MaxOperations = 2
  Faults = {"audit", "no_id", "lost_case"}
SYMMETRY Symmetry
INVARIANTS
  TypeOK
  HandoffAtMostOnce
  CompletedWorkIsReal
  ProposalIsGrounded
  RetryBudget
  ProcessingIsOwned
PROPERTIES
  RefinesInbox
  HandoffIsFinal
  ResultIsStable
