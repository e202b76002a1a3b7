SPECIFICATION FairSpec
CONSTANTS
    Readers = {r1}
    TurnBound = 2
    TokenBound = 1
    FaultBound = 1
CHECK_DEADLOCK FALSE
INVARIANTS ReadersSeeAll SavedAsTold HistoryIsPairs
PROPERTIES ReadersEnd
