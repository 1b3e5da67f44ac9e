\* Two viewers over three connections; two failures of any kind.
SPECIFICATION Spec
CONSTANTS
  Viewers = {v1, v2}
  Slots = {1, 2, 3}
  MaxFaults = 2
 
PROPERTY FedOrStarved
\* Sessions and failures come to their bounds.
CHECK_DEADLOCK FALSE
