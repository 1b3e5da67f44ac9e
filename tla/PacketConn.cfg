\* Two readers, a queue of one, deadlines set three times.
SPECIFICATION Spec
CONSTANTS
    Reader = {r1, r2}
    QueueCap = 1
    MaxPacket = 2
    MaxSet = 3
    MaxTime = 2
INVARIANT NoStaleDeadline
PROPERTIES DeadlineHonoured CloseEndsReads
CHECK_DEADLOCK FALSE
