SPECIFICATION Spec
CONSTANTS
    Null = Null
    Docs = {d1}
    Jobs = {j1, j2}
    Revs = {r1, r2}
    Workers = {w1, w2}
    Budget = 2
    ClaimBound = 3
    CrashBound = 1
SYMMETRY Symmetry
CHECK_DEADLOCK FALSE
INVARIANTS OneClaimHolder FirstVersionCanMove
PROPERTIES OvertakenWorkerIsHarmless PublishedWithItsJob ImplementsPromise
