--------------------------- MODULE MC_TomahawkCache ---------------------------
(* TomahawkCache for TLC: two clients, two keys, a clock of three instants. *)
EXTENDS TomahawkCache, TLC

CONSTANTS c1, c2, k1, k2

MCClients == {c1, c2}

MCKeys == {k1, k2}

=============================================================================
