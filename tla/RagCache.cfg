SPECIFICATION Spec
CONSTANTS
    Clients = {c1, c2}
    Readers = {p1}
    Texts = {a, b}
    Long = ab
    NoText = none
    First = a
    Second = b
    IdBound = 3
    SnapBound = 3
    WriteBound = 3
    AskBound = 2
SYMMETRY Symmetry
CHECK_DEADLOCK FALSE
INVARIANTS VectorsMatchText DiscardFindsReviewed AppliedOnce ServesCurrent
