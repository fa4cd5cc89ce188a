CONSTANTS
  MaxOps = 3
  Limit = 2

SPECIFICATION FairSpec

INVARIANTS
  ResultIsOwn
  ArgumentsAlive
  ParentEnabled
  NotRefused
  CallCanEnd

PROPERTY CallReturns
