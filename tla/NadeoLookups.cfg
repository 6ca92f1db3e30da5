CONSTANTS
    t1 = t1
    t2 = t2
    t3 = t3
    k1 = k1
    k2 = k2
    g1 = g1
    g2 = g2
    g3 = g3
    g4 = g4
    a1 = a1
    Nil = Nil
    Tasks = {t1, t2}
    Keys = {k1, k2}
    OwnMaps = {k1}
    Accounts = {a1}
    AccountOf <- MCAccountOf
    Gates = {g1, g2, g3}
    Capacity = 1
    Concurrency = 1
    GlobalLimit = 1
    AccountLimit = 1
    RecentAttempts = 2
    RetryAttempts = 2
SPECIFICATION Spec
INVARIANTS
    TypeOK
    SingleFlight
    RecentNoIsRecent
    NoNeedlessAuthentication
PROPERTIES
    LookupsReturn
