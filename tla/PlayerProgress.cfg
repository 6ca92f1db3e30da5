SPECIFICATION Spec
CONSTANTS
    first = first
    second = second
    doubled = doubled
    Users = {u1}
    Tasks = {t1, t2}
    Specs = {a, b}
    Contents <- MCContents
    Collectibles <- MCCollectibles
    Games <- MCGames
    Slugs <- MCSlugs
    Times <- MCTimes
    OldRows <- MCOldRows
    MaxAttempts = 2
    Nil = Nil
SYMMETRY TaskSymmetry
INVARIANTS
    TypeOK
    PbSummarisesAttempts
PROPERTIES
    FirstCollectionsAreLogged
    ReportsCountForTheirSpec
    ImplementsLedger
