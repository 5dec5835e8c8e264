SPECIFICATION Spec
CONSTANTS
  Keys = {k1}
  CaseIds = {c1}
  NoAlert = NoAlert
  NoResult = NoResult
  NoCase = NoCase
  NoTag = NoTag
  NoKey = NoKey
  Alerts = {"account"}
  Fingerprints <- MCFingerprints
  FingerprintOf <- MCFingerprintOf
  Webhooked <- MCWebhooked
  AccountActivity <- MCAccountActivity
  WithIndicators <- MCWithIndicators
  MaxAttempts = 2
  MaxCrashes = 1
  MaxOperations = 0
  Faults = {}
SYMMETRY Symmetry
INVARIANTS
  CompletedHasIncident
