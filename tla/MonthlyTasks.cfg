SPECIFICATION LiveSpec
CONSTANTS
    t1 = t1  t2 = t2
    g1 = g1  g2 = g2
    w1 = w1  w2 = w2
    Task <- MCTask
    Group <- MCGroup
    GroupOf <- TwoGroups
    Worker <- MCWorker
    MaxTasks = 2
    MaxActive = 2
    MaxAttempts = 2
    LeaseTime = 2
    AttemptLimit = 2
    RetryDelay = 1
    MaxTime = 13
    ClockRegresses = FALSE
INVARIANTS Consistent SingleHolder DraftOfLastAttempt
PROPERTIES LifecycleSpec EverySubmissionSettles
CHECK_DEADLOCK FALSE
