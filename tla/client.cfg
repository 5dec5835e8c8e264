SPECIFICATION Spec
CONSTANTS
  Attempts = 4
  Backoff = 1
  RetryAfters = {0, 3, 60}
  NoHeader = NoHeader
INVARIANTS
  TypeOK
  EffectsBounded
  AnsweredIsOver
  WaitBounded
