SPECIFICATION AnyFairSpec
CONSTANTS
    s1 = s1
    s2 = s2
    Nobody = Nobody
    Handlers = {h1}
    Reconcilers = {r1}
    Sessions = {s1, s2}
    Quote <- UnevenQuote
    Reported = {1}
    Funds = 3
    Ops <- EndingOps
    MaxFailures = 1
    Callers = {a, b}
    Creator = a
    Length = 1
    BatchFailures = 2
    Requests = {q1, q2}
    Kinds = {"speech", "upload", "live"}
    MaxChunks = 2
    Calls = {c1, c2}
    Relays = {}
    Limit = 1
    Exempt = 1
    MaxCandidates = 2
    MaxBatch = 2
INVARIANTS TypesOK HeardIsCharged KeptIsWhole
PROPERTIES NotEndedUnderway   HoldsGivenBack
CHECK_DEADLOCK FALSE
