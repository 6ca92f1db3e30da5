SPECIFICATION Spec
CONSTANTS
    author = author
    other = other
    Users <- MCUsers
    Author <- author
    Actors <- MCUsers
    Browsers = {author}
    Targets = {other}
    SuperTargets <- MCUsers
    Requests = {r1, r2}
    States = {s1}
    Nil = Nil
SYMMETRY RequestSymmetry
INVARIANTS
    TypeOK
    BannedIsUnofficial
    NoBannedDelegate
    OneSessionPerState
PROPERTIES
    Authorised
    OnlyRacesLeaveNone
