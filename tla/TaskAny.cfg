CONSTANTS
    Task = {t1, t2, t3, t4}
    NULL = NULL
    Wild = Wild
SPECIFICATION Spec
INVARIANT CurrentIsLive
