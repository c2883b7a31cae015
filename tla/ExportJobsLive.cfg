SPECIFICATION FairSpec
CONSTANTS
    i1 = i1  i2 = i2  g1 = g1  g2 = g2  f1 = f1
    Id <- TwoIds
    Group <- TwoGroups
    Filter <- OneFilter
    MaxJobs = 2
    MaxFaults = 1
INVARIANTS FilesAreKept NothingOrphaned OneTaskPerGroup
PROPERTIES StoppedNeverReady EveryTaskLeavesQueue RemovalsFinish
CHECK_DEADLOCK FALSE
