CONSTANTS
    MAX_TIMER = 4
    Wide = 256
    MaxCount = 3
    Delays = {1, 2}
SPECIFICATION TimerSpec
INVARIANTS
    TimerTypeOK
    ListSound
PROPERTIES
    Implements
\* The model's clock stops at MaxCount.
CHECK_DEADLOCK FALSE
