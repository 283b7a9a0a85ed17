------------------------- MODULE MC_PlayResolution -------------------------
(* Small instance of PlayResolution for TLC: three query objects, each     *)
(* resolved at most twice, and one Spotify/Rdio parser.                    *)
EXTENDS PlayResolution, TLC

CONSTANTS q1, q2, q3

MCQueries == {q1, q2, q3}

MCSymmetry == Permutations(MCQueries)

=============================================================================
