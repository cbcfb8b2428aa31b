CONSTANTS
    Threads = {t1, t2}
    Tokens = {k1}
    NoToken = NoToken
    Threshold = 2
    MaxCount = 2
    Faults = {"redis"}
SPECIFICATION Spec
SYMMETRY Symmetry
INVARIANTS TypeOK ChallengesBounded SolvedNotEscalated SpentNeverPasses CachedHasRow
