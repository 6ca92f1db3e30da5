SPECIFICATION Spec
CONSTANTS
    Players = {p1, p2}
    Runners = {p1}
    Tasks = {t1, t2}
    MaxHeight = 2
    Thresholds = {0, 2}
    MinThreshold = 1
    DefaultThreshold = 2
    MaxThreshold = 2
    Nil = Nil
SYMMETRY TaskSymmetry
INVARIANTS
    TypeOK
    ThresholdNotMissed
    BestIsHighest
PROPERTIES
    BoardNeverFalls
