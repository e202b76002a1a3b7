SPECIFICATION FairBudgetSpec
CONSTANTS
    Queries = {q1, q2}
    Ingests = {i1}
    Sizes = {1, 4}
    Rpm = 3
    Tpm = 3
    Reserve = 1
    Window = 2
    Recent = 3
    Attempts = 2
    Transients = 2
INVARIANTS WithinLimits QuestionsMoveOn
PROPERTIES IngestResumes
