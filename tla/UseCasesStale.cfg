SPECIFICATION Spec
CONSTANTS
    Reqs = {1, 2}
    Sections = {1, 2}
    Texts = {1, 2}
    BatchSize = 2
    Cards = {c1}
    Bodies = {b1}
    EditBound = 4
    RunBound = 2
    VersionBound = 0
CHECK_DEADLOCK FALSE
INVARIANTS StaleCasesAreOffered CleanRunCompletes
