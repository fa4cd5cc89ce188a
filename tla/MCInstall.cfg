CONSTANTS
  MaxCalls = 2
  LogBufSize = 2
  LineSizes = {2, 3, 6}
  MaxLines = 2
  Knowledge <- MCKnowledge
  InstallErrors = {"WDI_ERROR_INF_SYNTAX"}
  MaxFaults = 1
  UserValues <- MCUserValues
  MaxPolicyErrors = 1

SPECIFICATION MCSpec

INVARIANTS
  TypeOK
  ResultFaithful
  Reassembly
  IdentityIsOwn
  OwnInstaller
  SuccessRestoresTimeout
  BracketsDisjoint
  PolicyRestored

PROPERTIES
  NeverGivesUpOnWindows
  HungForEver
  EndNoticed
  KeepsPromise
