SPECIFICATION Spec
CONSTANTS
    Reqs = {1}
    Sections = {1}
    Texts = {1, 2}
    BatchSize = 1
    Cards = {c1, c2}
    Bodies = {b1, b2}
    EditBound = 3
    RunBound = 2
    VersionBound = 2
SYMMETRY CardSymmetry
CHECK_DEADLOCK FALSE
INVARIANTS HistoryComplete CodesNeverReused VersionsDiffer
