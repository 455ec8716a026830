SPECIFICATION Spec
CONSTANTS
    tea = tea
    teas = teas
    login = login
    drink = drink
    what = what
    Ids = {i1, i2, i3}
    Profiles = {p1, p2}
    Texts <- MCTexts
    Sensitive = {login}
    Questions = {drink, what}
    Matches <- MCMatches
    Overlaps <- MCOverlaps
    Limit = 1
    NoRow = NoRow
SYMMETRY Symmetry
INVARIANTS
    IndexFollowsRows
    RecallIsComplete
PROPERTIES
    ImplementsNotebook
