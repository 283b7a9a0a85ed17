-------------------------- MODULE MC_ActionManager --------------------------
(* Small instance of ActionManager: three query objects, each resolved at  *)
(* most twice, and one Spotify/Rdio parser.                                *)
EXTENDS ActionManager, TLC

CONSTANTS q1, q2, q3

MCQueries == {q1, q2, q3}

MCSymmetry == Permutations(MCQueries)

=============================================================================
