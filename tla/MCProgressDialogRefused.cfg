CONSTANTS
  MaxOps = 2
  Limit = 2

SPECIFICATION Spec

INVARIANT RefusedForCause
