SPECIFICATION Spec
\* A job is done once, a log ends with its install, and the bar with its last text.
CHECK_DEADLOCK FALSE
CONSTANTS
  Character <- MCCharacter
  Prefix <- MCPrefix
  Suffix <- MCPrefix
  Entities <- MCEntities
  GrowSize = 1
  Field = 3
  NameOrder <- MCNameOrder
  Strtol <- MCStrtol
  Strtoul <- MCStrtoul
  ArrayNames = 3
  MAX_STRLEN = 5
  Unauthorized = {"?", "*"}
  TwoBytes = {"wide"}
  Jobs <- MCJobs
  Symbol <- MCSymbol
  Olds <- MCOlds
  Writes <- MCWrites
  Check = {"check1", "check2"}
  Load = {"load1", "load2"}
  TextCount = 4
INVARIANTS AsMeant SyslogLogged LastMessageShown
