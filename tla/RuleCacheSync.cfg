CONSTANTS
    t1 = t1
    t2 = t2
    p1 = p1
    p2 = p2
    Threads = {t1}
    Processes = {p1}
    ProcOf <- OneWorker
    Writers = {"w1", "w2"}
    WriteKinds = {"save", "expire"}
    Faults = {"crash"}
    LockRetries = 0
    MaxVersion = 2
    MaxCommits = 2
SPECIFICATION Spec
INVARIANTS NoChangeLeftUnseen
