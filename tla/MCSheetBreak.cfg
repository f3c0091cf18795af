CONSTANTS
    MAX_SHEETS = 6
    WindowHeight = 3
SPECIFICATION Spec
INVARIANTS
    TopIsUppermost
