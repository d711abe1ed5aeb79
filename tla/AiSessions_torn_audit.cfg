SPECIFICATION Spec
CONSTANTS
    s1 = s1
    s2 = s2
    s3 = s3
    Handlers = {h1}
    Reconcilers = {r1}
    Nobody = Nobody
    Sessions = {s1, s2, s3}
    Quote <- EvenQuote
    Reported = {1}
    Funds = 3
    Ops <- TornOps
    MaxFailures = 0
INVARIANTS HealFreesOnlyLeaks
