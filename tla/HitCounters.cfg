CONSTANTS
    Rules = {k1, k2}
    Hits = {h1, h2}
    Flushers = {f1, f2}
    Probes = {"p1"}
    Faults = {"redis", "db", "crash", "expiry"}
    Overlap = FALSE
SPECIFICATION FairSpec
INVARIANTS HitsAccounted NeverCountedTwice NoFalseAlarm
PROPERTIES ProbeSparesEarlierHits ImplementsHitTally HitsReachDatabase
