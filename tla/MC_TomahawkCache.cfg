\* Two clients and two keys: one client can be emptied while the other
\* keeps an entry, and one key can expire while the other is still fresh.
\* Three instants give entries that expire at the first tick, at the second,
\* and never.  Symmetry is not used: the liveness property is checked.
CONSTANTS
    c1 = c1
    c2 = c2
    k1 = k1
    k2 = k2
    Clients <- MCClients
    Keys <- MCKeys
    MaxTime = 2
SPECIFICATION Spec
PROPERTY ExpiredEntriesPruned
PROPERTY ImplementsContract
INVARIANT NoOrphanEntries
