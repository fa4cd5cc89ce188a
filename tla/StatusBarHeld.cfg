SPECIFICATION BarSpec
CHECK_DEADLOCK FALSE
CONSTANTS
  Check = {"check1"}
  Load = {"load1"}
  TextCount = 3
INVARIANT StatusHeld
