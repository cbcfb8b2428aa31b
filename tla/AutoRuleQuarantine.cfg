CONSTANTS
    i1 = i1
    i2 = i2
    d1 = d1
    d2 = d2
    r1 = r1
    r2 = r2
    Ids = {i1, i2}
    Detectors = {d1, d2}
    QuarantineAll = TRUE
    ObserveOnly = {}
    Runners = {r1, r2}
SYMMETRY AllSymmetry
SPECIFICATION Spec
INVARIANTS QuarantineHolds
PROPERTIES OverwrittenOnce
