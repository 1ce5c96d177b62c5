CONSTANTS
    Task = {t1, t2, t3, t4}
    NULL = NULL
    Wild = Wild
    Slots = 3
    MaxProc = 4
    Failures = {"data"}
SPECIFICATION Spec
INVARIANT RunningIsRegistered
