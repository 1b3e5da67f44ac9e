\* Two runs over two load generators, one failure; times are half seconds.
SPECIFICATION Spec
CONSTANTS
  Targets = {"t1", "t2"}
  Plan <- MCPlan
  Warmup = 1
  Measure = 1
  PerSec = 2
  JitterBuf = 1
  Threshold = 0
  Starts = {3}
  Timeout = 2
  MaxFaults = 1
  MaxAll = 3
  Viewed = {"t2"}
INVARIANTS AsLabelled WindowsAreApplied LeftClear StallsAreSilence RowsAreWhole
PROPERTY Finishes
\* The matrix comes to its end.
CHECK_DEADLOCK FALSE
