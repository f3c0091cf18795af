CONSTANTS
    CmdSize = 4
    FifoSize = 2
    LockKeys = {2, 4}
    StartLeds = {0, 2}
    MaxStrokes = 3
SPECIFICATION Spec
INVARIANTS
    TypeOK
    OneByteOut
    CommandsWhole
    LedsOnTheWay
PROPERTIES
    LedsFollow
