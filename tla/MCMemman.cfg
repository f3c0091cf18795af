CONSTANTS
    Page = 2
    Frees = 3
    Low <- MCLow
    High <- MCHigh
    Sizes = {1, 2, 3}
SPECIFICATION Spec
INVARIANTS
    TypeOK
    FreeListOrdered
    NoOverlap
    Conserved
PROPERTIES
    Implements
