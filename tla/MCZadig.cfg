SPECIFICATION Spec
\* The user may close the window, or be done with what the budgets let him do.
CHECK_DEADLOCK FALSE
CONSTANTS
  Hw = 2
  Worlds <- MCWorlds
  WcidOf <- MCWcid
  Types <- MCTypes
  Supported <- MCSupported
  Budgets <- MCBudgets
INVARIANTS ShownIsInstalled ModesAgree NoUseAfterFree ChangesHeard LaunchesComplete RequestHeard
PROPERTIES ChangesShown ChecksAnswered
