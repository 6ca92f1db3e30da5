\* Three hats on two maps, so that siblings share a map and a drain of one map
\* leaves the other owed; two tasks contend for one permit.  Four requests make
\* a batch of two 84s with its 213 and one more request behind it.
CONSTANTS
    h1 = h1
    h2 = h2
    h3 = h3
    m1 = m1
    m2 = m2
    t1 = t1
    t2 = t2
    Reader = Reader
    Nil = Nil
    Hats = {h1, h2, h3}
    Maps = {m1, m2}
    MapOf <- MCMapOf
    Tasks = {t1, t2}
    MaxPending = 2
    MaxValidations = 1
    MaxRequests = 4
    MaxRebinds = 1
SPECIFICATION FairSpec
INVARIANTS
    TypeOK
    OwedMatchesTasks
    InlineAnswerNotOwed
    InlineAnswerIsCurrent
    WithheldHasAnswerer
PROPERTIES
    WithheldIsAnswered
CHECK_DEADLOCK FALSE
