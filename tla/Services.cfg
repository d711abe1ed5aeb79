SPECIFICATION AnySpec
CONSTANTS
    Calls = {"c1", "c2"}
    Relays = {"r1", "r2"}
    Limit = 1
    Exempt = 1
    MaxCandidates = 2
    MaxBatch = 2
    MaxFailures = 1
    Savers = {"s1", "s2", "s3"}
    Deleters = {"d1", "d2"}
    Key <- SameKey
    Table <- SavedTo
    Tables <- SavedTables
    Callers = {"c1", "c2"}
    Guards = {"enforce", "concurrency"}
    AttemptLimit = 1
    AttemptWindow = 2
    MaxCount = 3
    MaxTicks = 5
    Users = {"u1", "u2"}
    Identities = {"g1", "t1"}
    Provider <- ProviderOf
    Mailed = {"g1"}
    AccountRequests = {"q1", "q2"}
    Unlinkers = {"q1"}
    Nobody = "nobody"
    MaxCodes = 2
    MaxPasswords = 2
    Tariffs <- Books
    NoRow <- Unpriced
    Versions = {1, 2}
    MaxQuantity = 3
    Unmetered = 0
    SignedRequests = {"m1"}
    Handlers = {"h1", "h2"}
    SigningWindow = 3
    Ahead = 1
    Behind = 1
    BodyTime = 1
    Lifetime = 7
    MaxSeconds = 8
INVARIANTS TypesOK WithinBudget LineCap   RelayedIsSpent  OneBonus QuoteCovers
PROPERTY SharedFileKept
CHECK_DEADLOCK FALSE
