------------------------ MODULE TomahawkCacheContract ------------------------
(***************************************************************************)
(* What TomahawkUtils::TomahawkCache promises the clients that call        *)
(* putData and getData, whatever happens to the process: an entry holds    *)
(* the maxAge of the last putData of its key, and disappears only once it *)
(* has expired.  How and when expired entries go (getData, the prune       *)
(* timer, never) and the manifest of clients are left out.                  *)
(***************************************************************************)
EXTENDS Integers

CONSTANTS
    Clients,   \* client identifiers
    Keys,      \* entry keys
    MaxTime    \* the last instant of the clock

VARIABLES
    entries,   \* entries[c][k]: the expiry time of client c's entry for k
    clock      \* the current time

\* The value of a key that has no entry.
Absent == -1

Instants == 0..MaxTime

Entries == [Clients -> [Keys -> Instants \cup {Absent}]]

\* An entry whose expiry time lies strictly before t.
Expired(e, t) == e # Absent /\ e < t

Init ==
    /\ clock = 0
    /\ entries \in Entries

\* A client stores an entry for a key, replacing the one it had.
Write(c, k, e) ==
    /\ entries' = [entries EXCEPT ![c][k] = e]
    /\ UNCHANGED clock

\* Any number of expired entries are dropped; every other entry stays.
Evict ==
    /\ entries' \in Entries
    /\ \A c \in Clients, k \in Keys :
          \/ entries'[c][k] = entries[c][k]
          \/ Expired(entries[c][k], clock) /\ entries'[c][k] = Absent
    /\ UNCHANGED clock

Advance ==
    /\ clock < MaxTime
    /\ clock' = clock + 1
    /\ UNCHANGED entries

Next ==
    \/ \E c \in Clients, k \in Keys, e \in Instants : Write(c, k, e)
    \/ Evict
    \/ Advance

Spec == Init /\ [][Next]_<<entries, clock>>

=============================================================================
