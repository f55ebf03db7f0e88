SPECIFICATION FairSpec
CONSTANTS
    Threads = {t1, t2}
    NoThread = NoThread
    TTL = 2
    FetchTimeout = 1
    MaxTime = 4
    MaxVersions = 2
INVARIANTS RevocationBounded
PROPERTIES NoKeyRegression RefreshOncePerTTL OutageTolerated GetReturns
    ImplementsKeyService
CHECK_DEADLOCK TRUE
