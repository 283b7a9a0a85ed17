CONSTANTS
    q1 = q1
    q2 = q2
    q3 = q3
    q4 = q4
    Null = Null
    Queries <- MCQueries
    Overlap = TRUE

SPECIFICATION Spec

SYMMETRY MCSymmetry

\* The user stops issuing bookmark commands once every query is used.
CHECK_DEADLOCK FALSE

INVARIANT NoBookmarkLost
