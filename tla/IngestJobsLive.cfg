SPECIFICATION FairSpec
CONSTANTS
    Null = Null
    Docs = {d1}
    Jobs = {j1, j2}
    Revs = {r1}
    Workers = {w1, w2}
    Budget = 2
    ClaimBound = 2
    CrashBound = 1
CHECK_DEADLOCK FALSE
PROPERTIES JobsSettle
