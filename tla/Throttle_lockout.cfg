SPECIFICATION Spec
CONSTANTS
    Callers = {c1}
    Guards = {"concurrency"}
    Limit = 1
    Window = 2
    MaxCount = 3
    MaxTime = 5
    MaxFailures = 1
INVARIANT CountRolls
CHECK_DEADLOCK FALSE
