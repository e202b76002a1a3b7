SPECIFICATION Spec
CONSTANTS
    Procs = {p1, p2}
    Msgs = {m1}
    Addrs = {a1}
    a1 = a1
    To <- MCTo
    Sweep = Sweep
    Null = Null
    MaxAttempts = 2
    FaultBound = 2
CHECK_DEADLOCK FALSE
INVARIANTS SentWasDelivered RepeatsNeedAFault
PROPERTIES EveryMessageSettles
