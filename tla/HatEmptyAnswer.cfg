\* A spec upload between the two queries of one answer.
CONSTANTS
    h1 = h1
    h2 = h2
    h3 = h3
    m1 = m1
    m2 = m2
    t1 = t1
    t2 = t2
    Reader = Reader
    Nil = Nil
    Hats = {h1, h2, h3}
    Maps = {m1, m2}
    MapOf <- MCMapOf
    Tasks = {t1, t2}
    MaxPending = 2
    MaxValidations = 1
    MaxRequests = 4
    MaxRebinds = 1
SPECIFICATION FairSpec
INVARIANTS
    NoEmptyAnswer
CHECK_DEADLOCK FALSE
