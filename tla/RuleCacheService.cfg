CONSTANTS
    t1 = t1
    t2 = t2
    p1 = p1
    p2 = p2
    Threads = {t1, t2}
    Processes = {p1, p2}
    ProcOf <- OneThreadEach
    Writers = {"w1"}
    WriteKinds = {"save", "atomic"}
    Faults = {"load_error", "crash"}
    LockRetries = 0
    MaxVersion = 1
    MaxCommits = 1
SYMMETRY Workers
SPECIFICATION Spec
INVARIANTS CacheFresh ProcessCacheFresh
PROPERTIES ImplementsRuleService
