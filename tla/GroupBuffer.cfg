\* Two writers, two different objects, groups of up to three objects.
CONSTANTS
    Obj = {o1, o2}
    Reader = {r1, r2}
    MaxObj = 3
SPECIFICATION Spec
INVARIANTS TypeOK NoLostWakeup FinishedIsWhole
PROPERTY IsLiveObjectLog
