\* One viewer, a publisher that connects again, two failures.
SPECIFICATION Spec
CONSTANTS
  Viewers = {v1}
  Slots = {1, 2}
  MaxFaults = 2
INVARIANT HelpTexts
CHECK_DEADLOCK FALSE
