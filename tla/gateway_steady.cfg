SPECIFICATION Spec
CONSTANTS
  Keys = {k1, k2}
  CaseIds = {c1, c2}
  NoAlert = NoAlert
  NoResult = NoResult
  NoCase = NoCase
  NoTag = NoTag
  NoKey = NoKey
  Alerts = {"account", "account2"}
  Fingerprints <- MCFingerprints
  FingerprintOf <- MCFingerprintOf
  Webhooked <- MCWebhooked
  AccountActivity <- MCAccountActivity
  WithIndicators <- MCWithIndicators
  MaxAttempts = 2
  MaxCrashes = 0
  MaxOperations = 1
  Faults = {"audit"}
SYMMETRY Symmetry
INVARIANTS
  AckedIsDurable
  ReservationIsOwned
  CompletedHasIncident
  OneCasePerFingerprint
  BlockedHandoffIsReconcilable
