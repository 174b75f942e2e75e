SPECIFICATION FairSpec
CONSTANTS
    api = api
    worker = worker
    Task <- ThreeTasks
    Proc = {api, worker}
    Api = api
    Redis = TRUE
    Base <- Priorities
    Aging = 1
    Boost = 2
    Gated = {3}
    Blocked = {2}
    PopLimit = 2
    MaxTime = 2
    MaxRequeues = 1
INVARIANT TypeOK
PROPERTIES OvertakingHasCause PopTakesItsFill NoStarvation
CHECK_DEADLOCK FALSE
