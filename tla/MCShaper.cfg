\* Two goroutines send while the profile changes.
SPECIFICATION Spec
CONSTANTS
    Sender = {a, b}
    Profiles <- Access
    Changes = 1
    CanClose = TRUE
    MaxQueue = 1
    MaxPacket = 2
    LastSend = 1
    MaxTime = 4
INVARIANTS Conserved RateCap QueuedInOrder
PROPERTIES NotEarly AllDelivered
CHECK_DEADLOCK FALSE
