SPECIFICATION FairSpec
CONSTANTS
    Askers = {t1, t2}
    Models <- MCModels
    Preferred = 2
    Catalogs <- MCCatalogs
    MaxAttempts = 2
    Retries = 2
    AskBound = 2
CHECK_DEADLOCK FALSE
INVARIANTS NeverSwitched PoolTriedOnce
PROPERTIES PromptsEnd
