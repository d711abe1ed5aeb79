SPECIFICATION Spec
CONSTANTS
    Clients = {c1, c2}
    Nobody = Nobody
    Keys <- MCKeys
    Requests <- LapseCalls
    Opening <- Mixed
    MaxAttempts = 2
    MaxCalls = 1
    MaxTime = 2
SYMMETRY ClientSymmetry
PROPERTIES LapsedBonusIsNotHeadroom
