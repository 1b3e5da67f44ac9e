\* One viewer and one failure.
SPECIFICATION Spec
CONSTANTS
  Viewers = {v1}
  Slots = {1, 2}
  MaxFaults = 1
PROPERTY Heals
CHECK_DEADLOCK FALSE
