CONSTANTS
    MAX_TASKS = 3
    MAX_TASKS_LV = 3
    MAX_TASKLEVELS = 4
    SizeA = 2
    SizeC = 2
    Users <- MCBusy
    Leftover = {"cursor", "char"}
SPECIFICATION Spec
INVARIANTS
    RunningCounts
