CONSTANTS
    Task = {t1, t2, t3, t4}
    NULL = NULL
    Wild = Wild
SPECIFICATION CleanSpec
INVARIANTS TypeOK QueueIsOrder CurrentIsLive
PROPERTY EveryTaskRuns
