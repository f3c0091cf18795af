CONSTANTS
    Size = 3
    Data = {0, 1, 2}
    Owner = 1
SPECIFICATION Spec
INVARIANTS
    TypeOK
    RingExact
    NoLostWakeup
PROPERTIES
    Implements
    EveryValueRead
