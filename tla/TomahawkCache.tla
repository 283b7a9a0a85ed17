---------------------------- MODULE TomahawkCache ----------------------------
(***************************************************************************)
(* TomahawkUtils::TomahawkCache (databasecommand_updatesearchindex.cpp,    *)
(* lines 103-220): a disk-backed key/value cache.  The manifest file lists *)
(* the clients; each client has a settings file of entries, each stored    *)
(* with its maxAge, an absolute expiry time in the code's clock.  A        *)
(* repeating timer, started when the singleton is created, prunes the      *)
(* expired entries of every listed client and drops the clients left with  *)
(* no entry.                                                               *)
(*                                                                         *)
(* Fault model: the process may stop between any two handlers and inside   *)
(* putData and pruneTimerFired between two writes.  Each file write (a     *)
(* sync, or the destructor of a local QSettings) is atomic.  A restart     *)
(* loses the singleton; the next instance() call creates it again.         *)
(*                                                                         *)
(* The manifest is a QVariantList that addClient keeps free of duplicates, *)
(* and no handler reads its order except the prune loop, whose order a     *)
(* crash may cut anywhere: it is modelled as a set.                        *)
(***************************************************************************)
EXTENDS Integers, FiniteSets

CONSTANTS
    Clients,   \* client identifiers
    Keys,      \* entry keys
    MaxTime    \* the last instant of the modelled clock

ASSUME CacheTimeAssumption == MaxTime \in Nat

\* The value of a key a client's settings file does not contain.
NoEntry == -1

Times == 0..MaxTime

VARIABLES
    manifest,  \* the "clients" list of cachemanifest.ini, on disk
    store,     \* store[c][k]: the maxAge stored for key k in client c's file
    now,       \* QDateTime::currentMSecsSinceEpoch()
    alive      \* s_instance exists (and with it the running prune timer)

vars == <<manifest, store, now, alive>>

TypeOK ==
    /\ manifest \subseteq Clients
    /\ store \in [Clients -> [Keys -> Times \cup {NoEntry}]]
    /\ now \in Times
    /\ alive \in BOOLEAN

\* Any cache directory a previous run can have left: the manifest and the
\* files are consistent (see NoOrphanEntries), the singleton not created.
Init ==
    /\ now = 0
    /\ alive = FALSE
    /\ manifest \in SUBSET Clients
    /\ store \in [Clients -> [Keys -> Times \cup {NoEntry}]]
    /\ \A c \in Clients \ manifest : \A k \in Keys : store[c][k] = NoEntry

-----------------------------------------------------------------------------

\* Mutant: an entry counts as stale already at its maxAge (<= for <).
StaleAtExpiry(e, t) == e # NoEntry /\ e <= t

\* data.maxAge < currentMSecsSinceEpoch, for a key the file contains.
Stale(e, t) == e # NoEntry /\ e < t

HasEntries(files, c) == \E k \in Keys : files[c][k] # NoEntry

\* One client's iteration of the prune loop up to cached_settings.sync():
\* every stale key removed.
Pruned(c) == [k \in Keys |-> IF Stale(store[c][k], now) THEN NoEntry ELSE store[c][k]]

\* addClient: the identifier is appended unless the manifest lists it.
AddClient(m, c) == m \cup {c}

\* removeClient for each identifier in R: its entry is erased from the
\* manifest, which is synced.
RemoveClients(m, R) == m \ R

\* Mutant: removeClient for every visited client, without the
\* allKeys().size() == 0 test.
PruneClientsAlwaysRemove(S, T) ==
    /\ store' = [c \in Clients |-> IF c \in S THEN Pruned(c) ELSE store[c]]
    /\ manifest' = RemoveClients(manifest, T)

\* The prune loop over the clients in S; the clients of T among them also
\* reach the allKeys().size() == 0 test and, if emptied, removeClient.
PruneClients(S, T) ==
    /\ store' = [c \in Clients |-> IF c \in S THEN Pruned(c) ELSE store[c]]
    /\ manifest' = RemoveClients(manifest, {c \in T : ~HasEntries(store', c)})

\* instance(): the first call creates the cache and starts its timer.
Instance == alive' = TRUE

\* Mutant: putData writes the entry before registering the client.
PutDataEntryFirst(c, k, e, crash) ==
    /\ store' = [store EXCEPT ![c][k] = e]
    /\ manifest' = IF crash THEN manifest ELSE AddClient(manifest, c)

\* putData(identifier, maxAge, key, value): addClient (append to the
\* manifest and sync it unless already listed), then the entry is written
\* when the local QSettings is destroyed.  With crash, the process stops
\* between the two writes.
PutData(c, k, e, crash) ==
    /\ manifest' = AddClient(manifest, c)
    /\ store' = IF crash THEN store ELSE [store EXCEPT ![c][k] = e]

\* A complete putData call.
Put(c, k, e) ==
    /\ Instance
    /\ PutData(c, k, e, FALSE)
    /\ UNCHANGED now

\* putData stops after addClient's sync: the process is gone.
PutCrashes(c, k, e) ==
    /\ PutData(c, k, e, TRUE)
    /\ alive' = FALSE
    /\ UNCHANGED now

\* getData(identifier, key): a stale entry is removed (written when the
\* local QSettings is destroyed) and an invalid QVariant returned.
GetData(c, k) ==
    /\ Instance
    /\ store' = IF Stale(store[c][k], now)
                   THEN [store EXCEPT ![c][k] = NoEntry] ELSE store
    /\ UNCHANGED <<manifest, now>>

\* pruneTimerFired: the timer runs only while the singleton exists.
PruneTimerFired ==
    /\ alive
    /\ PruneClients(manifest, manifest)
    /\ UNCHANGED <<now, alive>>

\* The process stops inside the prune loop: the clients in S were
\* processed, the last of them possibly not up to removeClient.
PruneCrashes ==
    /\ alive
    /\ \E S, T \in SUBSET manifest :
          /\ T \subseteq S
          /\ Cardinality(S \ T) <= 1
          /\ PruneClients(S, T)
    /\ alive' = FALSE
    /\ UNCHANGED now

\* The process stops between two handlers.
Restart ==
    /\ alive
    /\ alive' = FALSE
    /\ UNCHANGED <<manifest, store, now>>

Tick ==
    /\ now < MaxTime
    /\ now' = now + 1
    /\ UNCHANGED <<manifest, store, alive>>

Next ==
    \/ \E c \in Clients, k \in Keys, e \in Times :
          Put(c, k, e) \/ PutCrashes(c, k, e)
    \/ \E c \in Clients, k \in Keys : GetData(c, k)
    \/ PruneTimerFired
    \/ PruneCrashes
    \/ Restart
    \/ Tick

\* The repeating QTimer fires every 5 minutes while the event loop runs;
\* nothing else is guaranteed to happen.
Spec == Init /\ [][Next]_vars /\ WF_vars(PruneTimerFired)

-----------------------------------------------------------------------------
(* Properties.                                                             *)

\* Every client with an entry on disk is listed in the manifest, whatever
\* point putData or the prune loop was interrupted at: otherwise
\* pruneTimerFired, which only visits listed clients, never removes its
\* entries.  Relies on putData calling addClient (and its sync) before it
\* writes the entry, and on removeClient running only for emptied files.
NoOrphanEntries ==
    \A c \in Clients : HasEntries(store, c) => c \in manifest

\* While the cache stays in use, an expired entry does not stay on disk:
\* the repeating prune timer removes it (or a putData overwrites it).
ExpiredEntriesPruned ==
    \A c \in Clients, k \in Keys :
        Stale(store[c][k], now) ~> (~Stale(store[c][k], now) \/ ~alive)

\* The contract, with the files on disk as its entries and the code's
\* clock as its clock.  The manifest and the singleton are not part of it.
Contract == INSTANCE TomahawkCacheContract WITH entries <- store, clock <- now

\* The cache implements its contract: through crashes inside putData and
\* the prune loop, restarts and getData calls, an entry changes only by a
\* putData of its key, and is removed only once its maxAge has passed; no
\* fresh entry is ever lost.
ImplementsContract == Contract!Spec

=============================================================================
