CONSTANTS
    MAX_TASKS = 5
    MAX_TASKS_LV = 3
    MAX_TASKLEVELS = 10
    Plans <- MCPlans
SPECIFICATION Spec
INVARIANTS
    TypeOK
    QueuesExact
    UrgentFirst
PROPERTIES
    NobodyStarves
