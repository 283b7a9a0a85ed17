------------------------- MODULE TomahawkCache_proofs -------------------------
(***************************************************************************)
(* Proofs about TomahawkCache for every set of clients and keys and every  *)
(* clock bound.  NoOrphanEntries is inductive together with TypeOK: a step *)
(* adds an entry only after (or with) listing its client, and removes a    *)
(* client only when its file has been emptied.                              *)
(***************************************************************************)
EXTENDS TomahawkCache, TLAPS

\* The files after a prune of the clients in S are well typed.
LEMMA PruneClientsType ==
    ASSUME TypeOK, NEW S \in SUBSET Clients, NEW T \in SUBSET Clients,
           PruneClients(S, T)
    PROVE  /\ store' \in [Clients -> [Keys -> Times \cup {NoEntry}]]
           /\ manifest' \subseteq Clients
BY DEF PruneClients, Pruned, RemoveClients, TypeOK

\* A prune removes from the manifest only the clients it has emptied.
LEMMA PruneClientsNoOrphan ==
    ASSUME NoOrphanEntries, NEW S, NEW T, PruneClients(S, T)
    PROVE  NoOrphanEntries'
<1> SUFFICES ASSUME NEW c \in Clients, HasEntries(store', c)
             PROVE  c \in manifest'
    BY DEF NoOrphanEntries
<1>1. HasEntries(store, c)
    BY DEF PruneClients, Pruned, HasEntries
<1>2. c \in manifest
    BY <1>1 DEF NoOrphanEntries
<1>3. QED
    BY <1>2 DEF PruneClients, RemoveClients

\* TypeOK from its conjuncts, the Boolean one apart from the arithmetic.
LEMMA TypeParts ==
    ASSUME manifest' \subseteq Clients,
           store' \in [Clients -> [Keys -> Times \cup {NoEntry}]],
           now' \in Times, alive' \in BOOLEAN
    PROVE  TypeOK'
BY Zenon DEF TypeOK

\* Writing one key of one client's file keeps the files well typed.
LEMMA StoreUpdateType ==
    ASSUME NEW f \in [Clients -> [Keys -> Times \cup {NoEntry}]],
           NEW c \in Clients, NEW k \in Keys, NEW e \in Times \cup {NoEntry}
    PROVE  [f EXCEPT ![c][k] = e] \in [Clients -> [Keys -> Times \cup {NoEntry}]]
OBVIOUS

LEMMA TypeInit == Init => TypeOK
<1> SUFFICES ASSUME Init PROVE TypeOK
    OBVIOUS
<1>1. now \in Times
    BY CacheTimeAssumption DEF Init, Times
<1>2. alive \in BOOLEAN
    BY Zenon DEF Init
<1>3. QED
    BY <1>1, <1>2, Zenon DEF Init, TypeOK

LEMMA TypeStep == TypeOK /\ [Next]_vars => TypeOK'
<1> SUFFICES ASSUME TypeOK, [Next]_vars PROVE TypeOK'
    OBVIOUS
<1>0. /\ manifest \subseteq Clients
      /\ store \in [Clients -> [Keys -> Times \cup {NoEntry}]]
      /\ now \in Times /\ alive \in BOOLEAN
    BY DEF TypeOK
<1>1. ASSUME NEW c \in Clients, NEW k \in Keys, NEW e \in Times,
             Put(c, k, e) \/ PutCrashes(c, k, e)
      PROVE  TypeOK'
  <2>1. manifest' \subseteq Clients /\ now' = now
    BY <1>0, <1>1 DEF Put, PutCrashes, PutData, AddClient
  <2>2. store' \in [Clients -> [Keys -> Times \cup {NoEntry}]]
    <3>1. store' = store \/ store' = [store EXCEPT ![c][k] = e]
      BY <1>1 DEF Put, PutCrashes, PutData, AddClient
    <3>2. QED
      BY <1>0, <3>1, StoreUpdateType
  <2>3. alive' \in BOOLEAN
    BY <1>1, Zenon DEF Put, PutCrashes, Instance
  <2>4. QED
    BY <1>0, <2>1, <2>2, <2>3, TypeParts
<1>2. ASSUME NEW c \in Clients, NEW k \in Keys, GetData(c, k) PROVE TypeOK'
  <2>1. manifest' \subseteq Clients /\ now' \in Times
      /\ store' \in [Clients -> [Keys -> Times \cup {NoEntry}]]
    BY <1>0, <1>2 DEF GetData
  <2>2. alive' \in BOOLEAN
    BY <1>2, Zenon DEF GetData, Instance
  <2>3. QED
    BY <2>1, <2>2, TypeParts
<1>3. CASE PruneTimerFired \/ PruneCrashes \/ Restart
  <2>1. manifest' \subseteq Clients /\ now' \in Times
      /\ store' \in [Clients -> [Keys -> Times \cup {NoEntry}]]
    <3>1. CASE PruneTimerFired
      BY <1>0, <3>1, PruneClientsType DEF PruneTimerFired
    <3>2. CASE PruneCrashes
      BY <1>0, <3>2, PruneClientsType DEF PruneCrashes
    <3>3. CASE Restart
      BY <1>0, <3>3 DEF Restart
    <3>4. QED
      BY <1>3, <3>1, <3>2, <3>3
  <2>2. alive' \in BOOLEAN
    BY <1>0, <1>3, Zenon DEF PruneTimerFired, PruneCrashes, Restart
  <2>3. QED
    BY <2>1, <2>2, TypeParts
<1>4. CASE Tick
  <2>0. now \in Times
    BY DEF TypeOK
  <2>1. now' \in Times
    BY <2>0, <1>4, CacheTimeAssumption DEF Tick, Times
  <2>2. QED
    BY <1>0, <1>4, <2>1, TypeParts DEF Tick
<1>5. CASE UNCHANGED vars
    BY <1>0, <1>5, TypeParts DEF vars
<1>6. QED
    BY <1>1, <1>2, <1>3, <1>4, <1>5 DEF Next

\* Every reachable state is well typed.
THEOREM TypeCorrect == Spec => []TypeOK
BY TypeInit, TypeStep, PTL DEF Spec

Inv == TypeOK /\ NoOrphanEntries

LEMMA InvInit == Init => Inv
BY TypeInit DEF Init, Inv, NoOrphanEntries, HasEntries

LEMMA InvStep == Inv /\ [Next]_vars => Inv'
<1> SUFFICES ASSUME Inv, [Next]_vars PROVE Inv'
    OBVIOUS
<1>0. TypeOK'
    BY TypeStep DEF Inv
<1> SUFFICES NoOrphanEntries'
    BY <1>0 DEF Inv
<1>1. ASSUME NEW c \in Clients, NEW k \in Keys, NEW e \in Times,
             Put(c, k, e) \/ PutCrashes(c, k, e)
      PROVE  NoOrphanEntries'
    BY <1>1 DEF Put, PutCrashes, PutData, AddClient, Inv, TypeOK, NoOrphanEntries, HasEntries
<1>2. ASSUME NEW c \in Clients, NEW k \in Keys, GetData(c, k)
      PROVE  NoOrphanEntries'
    BY <1>2 DEF GetData, Inv, TypeOK, NoOrphanEntries, HasEntries
<1>3. CASE PruneTimerFired
    BY <1>3, PruneClientsNoOrphan DEF PruneTimerFired, Inv
<1>4. CASE PruneCrashes
    BY <1>4, PruneClientsNoOrphan DEF PruneCrashes, Inv
<1>5. CASE Restart \/ Tick \/ UNCHANGED vars
    BY <1>5 DEF Restart, Tick, vars, Inv, NoOrphanEntries, HasEntries
<1>6. QED
    BY <1>1, <1>2, <1>3, <1>4, <1>5 DEF Next

\* Whatever point putData or the prune loop is interrupted at, for every
\* set of clients and keys, no client with an entry on disk is missing
\* from the manifest that pruneTimerFired walks.
THEOREM NoOrphans == Spec => []NoOrphanEntries
BY InvInit, InvStep, PTL DEF Spec, Inv

-----------------------------------------------------------------------------
(* Refinement: the cache implements TomahawkCacheContract under the        *)
(* mapping entries <- store, clock <- now.                                  *)

\* The files of the code and the entries of the contract range over the
\* same values.
LEMMA SameEntries ==
    [Clients -> [Keys -> Times \cup {NoEntry}]] = Contract!Entries
BY DEF Times, NoEntry, Contract!Entries, Contract!Instants, Contract!Absent

\* A prune, complete or cut short, drops only expired entries.
LEMMA PruneClientsEvicts ==
    ASSUME TypeOK, NEW S \in SUBSET Clients, NEW T \in SUBSET Clients,
           PruneClients(S, T), now' = now
    PROVE  Contract!Evict
<1>1. store' \in Contract!Entries
    BY PruneClientsType, SameEntries
<1>2. \A c \in Clients, k \in Keys :
          \/ store'[c][k] = store[c][k]
          \/ Contract!Expired(store[c][k], now) /\ store'[c][k] = Contract!Absent
    BY DEF PruneClients, Pruned, Stale, NoEntry, Contract!Expired, Contract!Absent
<1>3. QED
    BY <1>1, <1>2 DEF Contract!Evict

LEMMA ContractInit == Init => Contract!Init
BY SameEntries DEF Init, Contract!Init

LEMMA ContractStep == TypeOK /\ [Next]_vars => [Contract!Next]_<<store, now>>
<1> SUFFICES ASSUME TypeOK, [Next]_vars PROVE [Contract!Next]_<<store, now>>
    OBVIOUS
<1>1. ASSUME NEW c \in Clients, NEW k \in Keys, NEW e \in Times, Put(c, k, e)
      PROVE  [Contract!Next]_<<store, now>>
  <2>1. Contract!Write(c, k, e)
    BY <1>1 DEF Put, PutData, Contract!Write
  <2>2. e \in Contract!Instants
    BY DEF Times, Contract!Instants
  <2>3. QED
    BY <2>1, <2>2 DEF Contract!Next
<1>2. ASSUME NEW c \in Clients, NEW k \in Keys, NEW e \in Times, PutCrashes(c, k, e)
      PROVE  [Contract!Next]_<<store, now>>
    BY <1>2 DEF PutCrashes, PutData
<1>3. ASSUME NEW c \in Clients, NEW k \in Keys, GetData(c, k)
      PROVE  [Contract!Next]_<<store, now>>
  <2>1. CASE Stale(store[c][k], now)
    <3>1. store' = [store EXCEPT ![c][k] = NoEntry] /\ now' = now
      BY <1>3, <2>1 DEF GetData
    <3>2. store' \in Contract!Entries
      BY <3>1, StoreUpdateType, SameEntries DEF TypeOK
    <3>3. Contract!Evict
      BY <2>1, <3>1, <3>2 DEF TypeOK, Stale, NoEntry, Contract!Evict,
         Contract!Expired, Contract!Absent
    <3>4. QED
      BY <3>3 DEF Contract!Next
  <2>2. CASE ~Stale(store[c][k], now)
    BY <1>3, <2>2 DEF GetData
  <2>3. QED
    BY <2>1, <2>2
<1>4. CASE PruneTimerFired
    BY <1>4, PruneClientsEvicts DEF PruneTimerFired, TypeOK, Contract!Next
<1>5. CASE PruneCrashes
    BY <1>5, PruneClientsEvicts DEF PruneCrashes, TypeOK, Contract!Next
<1>6. CASE Tick
    BY <1>6 DEF Tick, Contract!Next, Contract!Advance
<1>7. CASE Restart \/ UNCHANGED vars
    BY <1>7 DEF Restart, vars
<1>8. QED
    BY <1>1, <1>2, <1>3, <1>4, <1>5, <1>6, <1>7 DEF Next

\* For every set of clients and keys and every clock bound, the cache
\* implements its contract: whatever putData, getData, the prune timer,
\* crashes and restarts do, an entry changes only by a putData of its key
\* and is removed only after its maxAge.
THEOREM Refinement == Spec => ImplementsContract
BY TypeCorrect, ContractInit, ContractStep, PTL DEF Spec, ImplementsContract, Contract!Spec

=============================================================================
