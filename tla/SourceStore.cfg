SPECIFICATION FairSpec
CONSTANTS
    Sources = {s1}
    ProofKeys = {k1, k2}
    Brds = {b1, b2}
    Proofs = {p1}
    Uploads = {u1, u2}
    Cleaners = {d1, d2}
    NoKey = none
    PutBound = 2
    FaultBound = 1
CHECK_DEADLOCK FALSE
INVARIANTS SourcesKept ProofsKept
PROPERTIES OrphansGo
