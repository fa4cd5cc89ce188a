CONSTANTS
  MaxCalls = 1
  LogBufSize = 2
  LineSizes = {2}
  MaxLines = 0
  Knowledge <- MCKnowledge
  InstallErrors = {"WDI_ERROR_INF_SYNTAX"}
  MaxFaults = 0
  UserValues <- MCUserValues
  MaxPolicyErrors = 1

SPECIFICATION PolicySpec

PROPERTY EndRestores
