CONSTANTS
    Rules = {k1, k2}
    Hits = {h1, h2}
    Flushers = {f1}
    Probes = {"p1"}
    Faults = {}
    Overlap = TRUE
SPECIFICATION Spec
INVARIANTS HitsAccounted
