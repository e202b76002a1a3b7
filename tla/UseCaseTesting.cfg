SPECIFICATION Spec
CONSTANTS
    Cards = {c1}
    Testers = {p1, p2}
    Basis = {b1, b2}
    Cycles = {k1}
    Proofs = {q1}
    Statuses = {"not_tested", "passed"}
    None = None
    TxBound = 3
    ChangeBound = 2
    VersionBound = 1
SYMMETRY Symmetry
CHECK_DEADLOCK FALSE
INVARIANTS CacheFollowsTimeline VerdictsWereGiven CycleTestsItsVersion
PROPERTIES EvidenceLocked
