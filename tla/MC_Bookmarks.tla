---------------------------- MODULE MC_Bookmarks ----------------------------
(* Small instance of Bookmarks: a few bookmark commands, each with its own *)
(* query object.                                                           *)
EXTENDS Bookmarks, TLC

CONSTANTS q1, q2, q3, q4

MCQueries == {q1, q2, q3, q4}

MCSymmetry == Permutations(MCQueries)

=============================================================================
