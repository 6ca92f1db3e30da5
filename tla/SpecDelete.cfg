\* As WayfinderAuthority: one bind races one deletion.
CONSTANTS
    u1 = u1
    u2 = u2
    m1 = m1
    s1 = s1
    s2 = s2
    h1 = h1
    j1 = j1
    j2 = j2
    easy = easy
    hard = hard
    Nil = Nil
    Legacy = Legacy
    Users = {u1, u2}
    Maps = {m1}
    Specs = {s1, s2}
    Slugs = {h1}
    Criteria = {easy, hard}
    Catalogs <- MCCatalogs
    Owner <- MCOwner
    NadeoAuthor <- MCNadeoAuthor
    Earned <- MCEarned
    MaxRev = 2
    Jobs = {j1, j2}
    Permits = 1
    MaxStarts <- AuthorityStarts
    MaxEdits = 1
SPECIFICATION AuthoritySpec
INVARIANT DeleteDetectsBinding
CHECK_DEADLOCK FALSE
