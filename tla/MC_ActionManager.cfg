CONSTANTS
    q1 = q1
    q2 = q2
    q3 = q3
    Null = Null
    Queries <- MCQueries
    MaxResolves = 2
    MaxParsers = 1

SPECIFICATION Spec

SYMMETRY MCSymmetry

PROPERTY DirectPlayLinkLatestWins
