SPECIFICATION CallSpec
CONSTANTS
    s1 = s1
    s2 = s2
    s3 = s3
    Handlers = {h1, h2}
    Reconcilers = {r1}
    Nobody = Nobody
    Sessions = {s1, s2}
    Quote <- UnevenQuote
    Reported = {1, 3}
    Funds = 2
    Ops <- CallOps
    MaxFailures = 1
SYMMETRY HandlerSymmetry
INVARIANTS HoldsMatchSessions ClosedMeansCharged  
