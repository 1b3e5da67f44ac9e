\* Enough groups to climb the ladder; sessions fail and the process is killed.
SPECIFICATION Spec
CONSTANTS
    GroupFrames = 3
    Top = 4
    StartTier = 2
    ABR = TRUE
    MaxGroup = 13
    MaxFail = 2
    MaxKill = 1
INVARIANTS FeedOrder CleanEndIsWhole LadderFollowsStreak
CHECK_DEADLOCK FALSE
