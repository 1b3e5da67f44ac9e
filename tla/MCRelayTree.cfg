\* A chain of three relays; two relay processes killed, one connection lost and
\* the publisher possibly stopped.
CONSTANTS
    o = o
    m = m
    e = e
    p1 = p1
    v1 = v1
    v2 = v2
    Relay <- Relays
    Publisher = {p1}
    Viewer = {v1, v2}
    Dials <- OriginDials
    MaxCrash = 2
    MaxBreak = 1
    MaxLeave = 1
SPECIFICATION TreeSpec
INVARIANTS OnePull ServedIsPulled
PROPERTIES Heals
\* A tree that has healed has nothing left to do.
CHECK_DEADLOCK FALSE
