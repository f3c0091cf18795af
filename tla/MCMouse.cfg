CONSTANTS
    Moves <- MCMoves
    Room = 3
    scrnx = 4
    scrny = 3
    PointerSize = 1
    BarHeight = 1
    MaxLosses = 2
SPECIFICATION Spec
INVARIANTS
    TypeOK
    OneWrongPerLoss
PROPERTIES
    MovesAsMouse
