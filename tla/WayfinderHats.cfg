\* One bound map with one hat, two players and two jobs at a time out of seven
\* (two equips and moves, so that one player's pushes follow each other) with one
\* upload or comment change: a wearer, a witness, a rebind, in every order.
CONSTANTS
    u1 = u1
    u2 = u2
    m1 = m1
    s1 = s1
    s2 = s2
    h1 = h1
    j1 = j1
    j2 = j2
    easy = easy
    hard = hard
    Nil = Nil
    Legacy = Legacy
    Users = {u1, u2}
    Maps = {m1}
    Specs = {s1, s2}
    Slugs = {h1}
    Criteria = {easy, hard}
    Catalogs <- MCCatalogs
    Owner <- MCOwner
    NadeoAuthor <- MCNadeoAuthor
    Earned <- MCEarned
    MaxRev = 2
    Jobs = {j1, j2}
    Permits = 1
    MaxStarts <- HatsStarts
    MaxEdits = 1
SPECIFICATION HatsSpec
SYMMETRY JobSymmetry
INVARIANTS
    NoGhostHats
    UnlocksWereEarned
    UsableMatchesSource
PROPERTIES
    ImplementsWardrobe
CHECK_DEADLOCK FALSE
