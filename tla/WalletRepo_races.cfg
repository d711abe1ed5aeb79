SPECIFICATION Spec
CONSTANTS
    Clients = {c1, c2}
    Nobody = Nobody
    Keys <- MCKeys
    Requests <- AllCalls
    Opening <- Mixed
    MaxAttempts = 2
    MaxCalls = 2
    MaxTime = 2
SYMMETRY ClientSymmetry
INVARIANTS IInv MovedOncePerKey
PROPERTIES  OnlyLapsedBonusExpires ImplementsStatement
