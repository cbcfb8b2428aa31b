CONSTANTS
    t1 = t1
    t2 = t2
    p1 = p1
    p2 = p2
    Threads = {t1, t2}
    Processes = {p1, p2}
    ProcOf <- OneThreadEach
    Writers = {"w1"}
    WriteKinds = {"save", "bulk"}
    Faults = {"incr_lost", "crash", "redis_loss"}
    LockRetries = 2
    MaxVersion = 0
    MaxCommits = 1
SPECIFICATION FairSpec
PROPERTIES LoadTerminates LoadBounded
