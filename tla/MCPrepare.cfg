SPECIFICATION Spec
\* The calls of the bound are made, and end.
CHECK_DEADLOCK FALSE
CONSTANTS
  Procs = {p1, p2}
  Admins = {p1}
  Types <- MCTypes
  Embedded <- MCEmbedded
  Supported <- MCSupported
  Options <- MCOptions
  VendorSubject = "own"
  Calls = 2
  Budgets <- MCBudgets
INVARIANTS KeyDestroyed PackageTrusted VersionIsOwn
