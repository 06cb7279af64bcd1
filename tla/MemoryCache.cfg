SPECIFICATION CacheSpec
CONSTANTS
    k1 = k1
    k2 = k2
    k3 = k3
    k4 = k4
    i1 = i1
    i2 = i2
    i3 = i3
    a = a
    b = b
    Keys = {k1, k2, k3, k4}
    Digests = {i1, i2, i3}
    DigestOf <- MCDigestOf
    Scopes = {a, b}
    ScopeOf <- MCScopeOf
    Sizes = {1, 2, 3}
    MaxEntryBytes = 2
    MaxScopeBytes = 3
    MaxBytes = 4
    MaxEntries = 2
    Ttl = 1
    Slack = 1
    MaxInserts = 6
    MaxGeneration = 1
    MaxNow = 2
    None = None
CHECK_DEADLOCK FALSE
INVARIANT BooksExact
PROPERTY EvictsOldest
