CONSTANTS
  Api <- MCApi
  Leaky <- MCLeaky
  Timed <- MCTimed
  Process = {"p1", "p2"}
  Thread = {"t1", "t2", "t3"}
  Host <- MCHost
  NoApi = NoApi

SPECIFICATION Spec

INVARIANT BusyOnlyWhileRunning
