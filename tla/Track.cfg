\* One subscription that may stall for ever, two groups of up to two objects,
\* published, fanned out and joined in every order, any of them after a
\* publisher restart, the connection lost anywhere, a queue of one.
CONSTANTS
    Sub = {s1}
    Nobody = nobody
    QueueCap = 1
    MaxStream = 2
    MaxSeq = 2
    MaxEpoch = 1
    MaxObj = 2
    MaxLoss = 1
SPECIFICATION Spec
INVARIANTS TypeOK FinIsWhole FilterNeverAhead LateJoinNoGap
           GenerationsAreIncarnations SentOnceInOrder NewestDelivered
PROPERTIES FanoutEnds DepartedRemoved
CHECK_DEADLOCK FALSE
