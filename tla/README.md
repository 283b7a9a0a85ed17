# TLA+ models of Tomahawk's action-link layer

This directory holds TLA+ models of the source files under `src/`, TLC
configurations that check them on small instances, and TLAPS proofs that
hold for every instance. `PROJECT.json` lists the components, runs, mutants,
the map from definitions to source lines, the findings and the hazards.

## 1. Inventory

The sources are three files. Two of them are concatenations of several
original files.

| file | contents |
|---|---|
| `src/unnamed/part_000` | `GlobalActionManager` (globalactionmanager.cpp): the core. |
| `src/src/libtomahawk/database/databasecommand_updatesearchindex.cpp` | lines 1-88: `DatabaseCommand_UpdateSearchIndex`; lines 89-224: `TomahawkCache`. |
| `src/src/libtomahawk/utils/PixmapDelegateFader.h` | lines 1-90: the `PixmapDelegateFader` declaration; lines 91-204: `DelegateConfigWrapper`; the rest: a French translation catalogue. |

### Components of GlobalActionManager

GlobalActionManager is a process-wide singleton (`instance()`). All of its
slots run on the GUI thread, so there is no data race. The hard part is
ordering: signals from the resolution pipeline, the link parsers, the
collection and the playlists arrive later, in any order, to slots that read
members set by earlier handlers.

* **CommandRouter** (`parseTomahawkLink` and `handle*Command`, lines
  190-447, 600-641). It is stateless. It takes the command after
  `tomahawk://`, applies `%2B -> %20`, and takes the category as the text
  before the first `/`. It then dispatches to a handler and returns that
  handler's boolean. Interactions: it calls the ResolutionCoordinator,
  the playlist store (`Playlist::create`, XSPF/JSPF loaders) and the view
  layer.
* **ResolutionCoordinator** (lines 319-329, 351-425, 606-664, 754-770,
  970-986). Its state is `m_waitingToPlay`, the one query the manager waits
  on, plus the signal connections from queries to `waitingForResolved`.
  A play command registers its query directly. `spotifyToPlay` registers
  the query a SpotifyParser delivers. Open and queue commands go through
  `handleOpenTrack`, which registers only when the engine is idle.
  `waitingForResolved` clears `m_waitingToPlay` when the sender is another
  query. It calls `AudioEngine::play()` when the sender is the remembered
  query and that query is playable.
* **Bookmarks** (lines 667-751). State: `m_waitingToBookmark` and
  `m_toShow`. The collection creates the bookmarks playlist asynchronously.
  Revisions load asynchronously, and `revisionLoaded` triggers
  `showPlaylist`. The router never calls `handleBookmarkCommand`, because
  `bookmark` is dispatched to `handlePlayCommand`.
* **AttributeFilterCodec** (`loadDynamicPlaylist` lines 456-596,
  `copyPlaylistToClipboard` lines 109-150). It maps URL parameters to
  Echonest controls and back. The `_max` suffix becomes `Min<Attr> - 1` for
  some attributes and `Min<Attr> + 1` for others.
* **LinkGrammar / outbound links** (`openLink`, `openLinkFromQuery`,
  `copyToClipboard`, lines 73-106, 179-186). These encode a track as an
  `open/track/` link and re-escape `'` as `%27`.
* **PayloadClassifier** (lines 779-964). `acceptsMimeData` and
  `tracksFromMimeData` select a payload format. `handleTrackUrls` picks a
  Spotify, Rdio or shortened-link parser. `expandedUrls` feeds the
  expanded links back into `handleTrackUrls`.
* **Playlist export** (`savePlaylistToFile`, `xspfCreated`, lines
  152-176). An asynchronous XSPF generator writes the file.

### Other components

* **TomahawkCache**. State: a manifest of client ids, and per client a
  settings file of key -> (expiry, value). Operations: `putData` (adds the
  client, then writes the key), `getData` (drops an expired key), a
  five-minute prune timer (drops expired keys, then removes empty clients),
  `addClient` and `removeClient`. Everything is persisted through
  QSettings.
* **DelegateConfigWrapper**. An account-configuration dialog. Its outcomes
  are Ok, Cancel and Delete. `closed()` compares the clicked button with
  `m_deleteButton`, which only `setShowDelete(true)` assigns.
* **DatabaseCommand_UpdateSearchIndex**. Straight-line code that fills the
  fuzzy index from two SQL queries. It is not modelled (see section 5).
* **PixmapDelegateFader**. Only the declaration is present. It is not
  modelled.

### What makes each component correct

* ResolutionCoordinator: only the newest request may start playback. A
  request starts playback at most once. A superseded callback must not
  disturb the newest request (spec 4.5). An unplayable result clears the
  slot.
* CommandRouter: each category reaches the handler of the spec's table.
  Required parameters are enforced. The return value reports what was
  done.
* Bookmarks: every bookmark request ends up in the bookmarks playlist,
  once. The assertion in `bookmarkPlaylistCreated` holds.
* AttributeFilterCodec and LinkGrammar: decode(encode(x)) = x.
* PayloadClassifier: an accepted payload yields tracks. Expansion
  terminates.
* TomahawkCache: every client with stored keys is in the manifest, so
  that prune reaches it, even across crashes; expired entries are removed.
* DelegateConfigWrapper: the dialog's outcome is the button's, and the
  configuration widget outlives the dialog.

The hard-to-test behaviours are listed, each at its line, under `hazards`
in `PROJECT.json`.

## 2. Plan

The order puts the most important behaviour first.

1. `PlayResolution`: the ResolutionCoordinator with the pipeline, parsers
   and engine as environment. **Done (first sitting).**
2. `LinkRouter`: the router as operators over an abstract command. The
   command is a category token, whether a `/` follows it, the path parts
   and the set of parameter keys. Then `ActionManager` composes
   LinkRouter with PlayResolution: a link arrives and the handler's
   actions run. Runs: dispatch against the spec's routing table
   (violations for `bookmark`, `load?xspf=`, the `queue/add` return value
   and the url-list loop), and the ordering hazard of Spotify play
   links. **Done (first sitting).**
3. `Bookmarks`: the collection's asynchronous playlist creation and
   asynchronous revisions. Properties: no bookmark is lost, and the
   assertion holds. Expected violations: a double bookmark during
   creation, and two revisions from the same parent. **Done (first
   sitting).**
4. `StationCodec`: the control table as a function, and encode/decode as
   operators. A pure run checks the round trip over all control lists of
   length at most 2.
5. `TomahawkCache` and `DelegateConfigWrapper` (moved up: they are the
   code outside `GlobalActionManager`). **Done (second sitting).**
6. `LinkGrammar`: percent-encoding over a small alphabet
   {letter, space, '+', '''}. Round trip of `copyToClipboard` and
   `parseTomahawkLink`. Expected violation: '+'.
7. `PayloadClassifier`: payload formats and URL kinds as sets. Shortened
   links are expanded by asynchronous parser steps. Runs: an accepted
   payload yields tracks, and expansion depth.

Abstract specifications worth stating:

* An abstract one-slot "latest request wins" coordinator. The slot holds
  the newest request, and only it can play. `PlayResolution` refines it
  under the mapping slot <- `m_waitingToPlay`, with an extra abstract
  "abandon" step that the code's stale-callback clear needs. **Done
  (second sitting): `ResolutionSlot`.**
* For Bookmarks, an abstract playlist whose entries are the set of
  bookmarked queries.

The cache's contract (`TomahawkCacheContract`) and the slot
(`ResolutionSlot`) are stated, checked and proved (second sitting).

## 3. Modules and runs

### PlayResolution (`PlayResolution.tla`, `MC_PlayResolution.tla`)

State (variables -> code):

| variable | code |
|---|---|
| `waitingToPlay` | `m_waitingToPlay` |
| `conns` | the queries whose `resolvingFinished` is connected to `waitingForResolved` (never disconnected) |
| `qstate`, `playable`, `resolves` | each query's pipeline state, `Query::playable()`, and the number of resolutions |
| `queued` | the queries appended to the queue model |
| `playing` | `AudioEngine::isPlaying()` |
| `parsers`, `launched` | SpotifyParser/RdioParser objects still running, per target slot, and how many were started |
| `lastReg`, `plays` | history: the latest assignment to `m_waitingToPlay`, and the `play()` calls per query |

Actions:

* `HandlePlayCommand`: `handlePlayCommand` for play/track without a
  Spotify parameter.
* `PlaySpotify` and `SpotifyToPlay`: `playSpotify`, then the parser's
  callback.
* `DoQueueAddTrack`: the title/artist/album path of `doQueueAdd`, ending
  in `handleOpenTrack`.
* `DoQueueAddUrl`: the url path of `doQueueAdd`.
* `OpenLink` and `ParserToOpen`: `queueSpotify`, `openSpotifyLink` and
  `openRdioLink`, then `handleOpenTrack`.
* `ResolvingFinished`: the pipeline's signal, with `waitingForResolved`
  run inside the same emission.
* Environment steps: `RefreshResults`, `ParserFails`, `EngineStops` and
  `UserPlays`.

Queries are created fresh: a handler picks a query in state "free".

The pipeline may finish with or without a playable result, and may resolve
a finished query again. This is `Query::refreshResults`, which runs when
resolvers or sources come and go. No fairness is assumed. The spec says a
resolution may never complete, and a parser may never answer.

| run | cfg | checks | result |
|---|---|---|---|
| `play_resolution` | `MC_PlayResolution.cfg` | `TypeOK`, `AtMostOnePlayPerRequest`, `PlayOnlyForLatest` (action property), `ImplementsSlot` (refinement) | pass, ~98k distinct states |
| `stale_callback` | `MC_PlayResolution_stale.cfg` | `LatestRequestStaysPending` | violation in 3 steps |

Bounds: 3 queries, at most 2 resolutions per query, 1 parser. Three
queries are enough for a superseded request, the current request, and an
open request issued while the engine plays. Two resolutions give a
re-emission after `play()`. One parser lets its callback interleave with
direct commands. Queries are a symmetry set. This is sound because they
are model values compared only for equality.

Refinement. `ResolutionSlot.tla` is the promise of spec section 4.5 for
the slot of requests that end in playback. Its variables are `slot` and
`plays`. `Register(q)` makes q the slot's request, `Abandon` empties a
held slot without an effect, and `Complete` plays the held request once
and empties the slot. `PlayResolution` instantiates it as `Slot` with
`slot <- waitingToPlay`, and `ImplementsSlot == Slot!Spec` is checked.
The mapping sends the registrations in `handlePlayCommand`,
`spotifyToPlay` and `handleOpenTrack` (engine idle) to `Register`.
`waitingForResolved` maps by its branch: a foreign sender is `Abandon`,
the held query when playable is `Complete`, and the held query when
unplayable is a stutter. All other steps are stutters. `Abandon` is in the
slot because the code empties it on a foreign sender, where the spec
says a superseded callback is a no-op. `stale_callback` shows that
divergence. The mutant that drops
the sender comparison (`WaitingForResolvedNoSenderCheck`) plays a query
the slot does not hold and breaks the refinement.

`stale_callback` shows a divergence from spec 4.5. The run is: play q1,
play q2, then q1 finishes. `waitingForResolved` sees a sender other than
`m_waitingToPlay` and clears it. q2 is still resolving and can no longer
start playback.

### LinkRouter (`LinkRouter.tla`, `LinkRouterCheck.tla`)

`LinkRouter` has no state. `ParseTomahawkLink(c)` returns the handler's
outcome for a command `c`. The outcome is the effect started, the boolean
returned, and the number of track queries built. It has one operator per
handler: `HandlePlaylistCommand`, `HandleCollectionCommand`,
`HandleQueueCommand`, `HandleOpenCommand`, `DoQueueAdd`, `QueueSpotify`,
`LoadDynamicPlaylist`, `HandleSearchCommand` and `HandlePlayCommand`.
Each keeps the code's order of tests and its fall-through returns.

A command is abstracted to what the handlers test:

* the category token;
* whether a `/` follows the token, because `cmdType` is
  `cmd.split("/").first()`;
* the path words after the token;
* for each query key, whether it is absent, empty or non-empty;
* for `url`, the sequence of values, each a web url or a `file://` url.

`spotifyURI` stands for both Spotify keys, which every handler treats
alike. Values themselves are never compared by the router, so they are
left out.

`LinkRouterCheck` makes every command head (category, slash, path words of
length at most 2) an initial state. That gives 473 states. Each property
quantifies over all 4536 parameter combinations. The check is exhaustive
over the bounded grammar: every category, every path word the handlers
compare with plus one they do not, and every key a handler reads.

### ActionManager (`ActionManager.tla`, `MC_ActionManager.tla`)

`ActionManager` composes the router with the coordinator. The coordinator
is `PR == INSTANCE PlayResolution`, with the composite's own variables. The
router is `R == INSTANCE LinkRouter`. `ReceiveLink(c)` takes a link from
`Links`, computes `R!ParseTomahawkLink(c)`, and runs the `PlayResolution`
handler that the effect names:

| effect | handler |
|---|---|
| `playTrack` | `HandlePlayCommand` |
| `playSpotify` | `PlaySpotify` |
| `queueTrack` | `DoQueueAddTrack` |
| `queueUrl` | `DoQueueAddUrl` |
| `queueSpotify` | `OpenLink` |

`Links` has one concrete link per path into the coordinator, and includes
`bookmark/track`, which the router sends to `handlePlayCommand`.

History variables number the play links:

* `origin[q]` is the number of the play link that query `q` was created
  for;
* `fromParser` holds the queries that a SpotifyParser delivered;
* `spotifyPending` holds the play links whose parser has not yet answered.

The composite uses the same bounds as `MC_PlayResolution`.

| run | cfg | checks | result |
|---|---|---|---|
| `link_router` | `MC_LinkRouter.cfg` | `RequiredParamsEnforced` | pass, 473 states x 4536 parameter sets |
| `routing_table` | `MC_LinkRouter_RoutingTable.cfg` | `RoutingTableHonoured` | violation: `bookmark/track` plays instead of bookmarking; `load?xspf=` is rejected; `play/track` with no track fields plays an empty query; of a url list only the first url is queued |
| `result_value` | `MC_LinkRouter_ResultReportsEffect.cfg` | `ResultReportsEffect` | violation: `playlist/import`, `playlist/new` and `queue/add` return false after acting; a `file://` url returns true with nothing queued |
| `action_manager` | `MC_ActionManager.cfg` | `DirectPlayLinkLatestWins` | pass, ~266k distinct states |
| `spotify_play_order` | `MC_ActionManager_latest.cfg` | `PlayLinkLatestWins` | violation in 3 steps |

`spotify_play_order` shows why only the direct form holds. `playSpotify`
starts a parser and registers nothing, so:

* an older play link's track still plays after a newer Spotify play link;
* the Spotify link's track, delivered later, supersedes play links
  received after it.

The shortest trace is: a play link, then a Spotify play link, then the
first link's track resolves and plays.

### Bookmarks (`Bookmarks.tla`, `MC_Bookmarks.tla`)

`Bookmarks` models `handleBookmarkCommand`, `bookmarkPlaylistCreated`,
`doBookmark` and `showPlaylist` (lines 667-751).

| variable | code |
|---|---|
| `bookmarkPl` | `LocalCollection::bookmarksPlaylist()` is not null |
| `creates` | `createBookmarksPlaylist()` requests not yet answered |
| `connected` | `bookmarkPlaylistCreated` connected (`Qt::UniqueConnection`, so once) |
| `waitingToBookmark`, `toShow` | `m_waitingToBookmark`, `m_toShow` |
| `revConnected` | the playlist's `revisionLoaded` connected to `showPlaylist` |
| `entries`, `pending` | the loaded revision's entries; revisions asked of `createNewRevision` and not yet loaded, oldest first |
| `requested`, `asserted` | history: the bookmarked queries; whether the `Q_ASSERT` at line 715 failed |

Actions: `HandleBookmarkCommand(q)` (with `DoBookmark` inline when the
playlist exists), `BookmarkPlaylistCreated` (the collection's signal and
the slot), and `RevisionLoaded` (the playlist commits the oldest pending
revision, and `showPlaylist` runs). A failed assertion stops everything.

The environment is modelled from the spec, since `LocalCollection` and
`Playlist` are not in the sources: the collection answers each creation
request once; revisions commit in request order; `entries()` changes only
when a revision loads. The constant `Overlap` says whether a new bookmark
command may arrive while an earlier one is still being completed.
`MC_Bookmarks.cfg` has `Overlap = FALSE`; the violation runs have it TRUE.

The router never calls `handleBookmarkCommand` (`routing_table`), so this
module shows what the handler would do if it were reached.

The pass run sets `CHECK_DEADLOCK FALSE`: once every query has been
bookmarked and every revision loaded, nothing is left to do, which is the
normal end of a session, not a deadlock. Four queries let the playlist
start with up to three entries and still take new bookmarks.

| run | cfg | checks | result |
|---|---|---|---|
| `bookmarks` | `MC_Bookmarks.cfg` | `NoBookmarkLost` | pass (`Overlap = FALSE`) |
| `bookmark_overlap` | `MC_Bookmarks_overlap.cfg` | `NoBookmarkLost` | violation: a second bookmark before the playlist exists overwrites `m_waitingToBookmark`; two bookmarks before the first revision loads build two revisions on the same entries, and the later drops the first bookmark |
| `bookmark_assert` | `MC_Bookmarks_assert.cfg` | `BookmarkAssertHolds` | violation: two creation requests, the second answer meets a null `m_waitingToBookmark` |

### TomahawkCache (`TomahawkCache.tla`, `MC_TomahawkCache.tla`)

`TomahawkCache` models `databasecommand_updatesearchindex.cpp` lines
103-220.

| variable | code |
|---|---|
| `manifest` | the `clients` list of `cachemanifest.ini` |
| `store[c][k]` | the `maxAge` stored under key `k` in client `c`'s settings file (`NoEntry` if absent) |
| `now` | `QDateTime::currentMSecsSinceEpoch()`, from 0 to `MaxTime` |
| `alive` | `s_instance` exists, and with it the repeating prune timer |

Values are left out: no handler looks at them. `maxAge` is compared
with the clock, so the model treats it as the absolute expiry time the
code compares it as.

Actions:

* `Put`: `instance()` plus `putData`, which calls `addClient` and then
  writes the key.
* `GetData`: drops a stale key.
* `PruneTimerFired`: the loop over the manifest. It removes stale keys,
  syncs, and calls `removeClient` for emptied files.
* Fault actions: `PutCrashes` (the process stops after `addClient`'s
  sync), `PruneCrashes` (it stops part-way through the loop, the last
  client possibly before `removeClient`) and `Restart`.
* `Tick`: the clock.

The manifest is a set because `addClient` keeps it free of duplicates,
and only the prune loop reads its order, which a crash may cut anywhere.

Fairness is `WF_vars(PruneTimerFired)`: the timer is not single-shot and
fires every five minutes while the process runs. Nothing else is assumed.
The singleton is created only by `instance()`, so after a restart no
pruning happens until the cache is used again. The liveness property
says "while the cache is in use" for this reason.

Bounds: two clients, two keys and instants 0..2. These give one client
emptied while another keeps an entry, one key stale while another is
fresh, and entries that expire at each tick or never. There is no
symmetry reduction, because a liveness property is checked.

| run | cfg | checks | result |
|---|---|---|---|
| `cache` | `MC_TomahawkCache.cfg` | `NoOrphanEntries`, `ExpiredEntriesPruned`, `ImplementsContract` | pass, 1734 distinct states |

Refinement. `TomahawkCacheContract.tla` is what the cache promises its
clients. Its state is `entries[c][k]`, an expiry time or `Absent`, and a
clock. Its steps are `Write` (any entry replaced), `Evict` (any number of
expired entries dropped, every other entry kept) and `Advance`. It leaves
out the manifest, the singleton and when eviction happens. `TomahawkCache`
instantiates it as `Contract` with `entries <- store, clock <- now`, and
`ImplementsContract == Contract!Spec` is checked as a property. The
mapping sends `Put` to `Write`, `GetData` on a stale key and both prune
actions to `Evict`, `Tick` to `Advance`, and `PutCrashes` and `Restart`
to stuttering steps.

The three mutants are:

* `putData` writing the entry before `addClient` (`PutDataEntryFirst`).
  A crash between the two writes then orphans the entry.
* `removeClient` without the emptiness test (`PruneClientsAlwaysRemove`).
  This orphans a fresh entry that later expires and is never pruned.
* `data.maxAge <= now` for `<` (`StaleAtExpiry`). The prune loop then
  drops an entry in the instant it is still valid, and this is not a step
  of the contract.

### DelegateConfigWrapper (`DelegateConfigWrapper.tla`)

`DelegateConfigWrapper` models `PixmapDelegateFader.h` lines 108-203.

| variable | code |
|---|---|
| `phase` | constructed, in `exec()`, or after `exec()` returned |
| `deleteButtons`, `deleteButton` | the Delete Account buttons `setShowDelete(true)` added, and `m_deleteButton` |
| `okEnabled` | `m_okButton->isEnabled()` |
| `attached` | the widget is in the dialog's layout and is its child |
| `deleted`, `result` | `m_deleted`, and the dialog's result code |
| `clicked` | history: what ended `exec()` |

Actions are `SetShowDelete`, `Exec` (the owner), `ToggleOkButton`,
`Closed(b)` (the button box's `clicked` signal), `Reject` (Escape or the
close button, then the `rejected()` slot) and `UpdateSizeHint` (Mac
only). `m_deleteButton` is never initialised. Reading it is undefined
behaviour, so its initial value is a nondeterministic choice: it points
nowhere, or (with `AliasUninit`) it holds the Cancel button's address.

Only a violation run is kept. Without the three hazards (no aliasing, no
Mac build, at most one `setShowDelete(true)`), the property holds, but
in fewer than 100 states.

| run | cfg | checks | result |
|---|---|---|---|
| `config_dialog` | `MC_DelegateConfigWrapper.cfg` | `CloseOutcomeFaithful` | violation, three independent ways (see below) |

Each way violates the property with the other two switched off:

* `AliasUninit`: Cancel deletes the account.
* `MaxDeleteButtons = 2`: the first Delete button only cancels.
* `OnMac`: `updateSizeHint` ends `exec()` with the widget still the
  dialog's child.

## 4. Proofs

`PlayResolution_proofs.tla` proves the following for all `Queries`,
`MaxResolves >= 1` and `MaxParsers`. It assumes `NullAssumption` and
`BoundsAssumption`.

* `TypeCorrect`: `Spec => []TypeOK`. `TypeOK` is inductive on its own.
* `IInvariant`: `Spec => []IInv`, where IInv is `TypeOK` plus three
  facts:
  * `m_waitingToPlay` is null or the latest registration;
  * a fresh query has never played and is not the latest registration;
  * every query has played at most once, and a query that played is no
    longer remembered.

  IInv is needed because `plays[q] <= 1` alone is not inductive. Without
  the other facts, nothing rules out that the remembered query has
  already played, or that an already-used query is registered again.
* `AtMostOnePlay`: `Spec => []AtMostOnePlayPerRequest`, from IInv.
* `PlayOnlyForLatestHolds`: `Spec => PlayOnlyForLatest`. The action
  property follows from IInv and the guard of `WaitingForResolved`.

* `SlotRefinement`: `Spec => ImplementsSlot`, under `TypeOK` alone.
  `SlotStep` maps each action to a slot step or a stutter. It uses the
  lemmas `RegisterStep`, `OpenTrackStep` (the `isPlaying()` test of
  `handleOpenTrack`) and `ResolvingFinishedStep`, which has one case per
  branch of `waitingForResolved`.

The proof of each step has one case per action. `ResolvingFinished` is
split further along the branches of `waitingForResolved`.

`Bookmarks_proofs.tla` proves, for every set of queries, assuming only
`BookmarkNullAssumption` (the null query is not a query):

* `TypeCorrect`: `Spec => []TypeOK`, whatever `Overlap` is.
* `SequentialNoBookmarkLost`: `~Overlap => (Spec => []NoBookmarkLost)`.
* `SequentialAssertHolds`: `~Overlap => (Spec => []BookmarkAssertHolds)`.

Both rest on `SeqInv`: `TypeOK`, `NoBookmarkLost`, no failed assertion, at
most one creation request outstanding, and exactly while a bookmark waits
(with the slot connected and no revision pending), and at most one
revision pending. `NoBookmarkLost` alone is not inductive, because it
allows the states the `Overlap = TRUE` runs reach: a second waiting
bookmark, a second creation request, or a second revision built on stale
entries. `SeqInv` excludes exactly those. The lemma `SingletonSeq` (a
non-empty sequence of length at most one is `<<s[1]>>`) handles
`RevisionLoaded`.

`TomahawkCache_proofs.tla` proves, for every set of clients and keys and
every `MaxTime \in Nat` (`CacheTimeAssumption`):

* `TypeCorrect`: `Spec => []TypeOK`.
* `NoOrphans`: `Spec => []NoOrphanEntries`, crashes included. The
  invariant `TypeOK /\ NoOrphanEntries` is inductive. `putData` lists the
  client before it writes, and a prune, whole or cut short, removes only
  clients whose files it has just emptied (lemma `PruneClientsNoOrphan`).
  `ExpiredEntriesPruned` is a liveness property and stays with TLC.
* `Refinement`: `Spec => ImplementsContract`, that is
  `Spec => Contract!Spec`. This is the standard safety refinement proof.
  `ContractInit` maps the initial states. `ContractStep` shows that,
  under `TypeOK`, every step maps to a contract step or a stutter, with
  one case per action. The prune case rests on the lemma
  `PruneClientsEvicts`: a prune of any clients `S` drops only stale keys.
  The lemma `SameEntries` identifies the code's file type with the
  contract's `Entries`.

`LinkRouter_proofs.tla` proves facts about the router for every command
value, not only the 4536 parameter combinations per head that the
`link_router` run enumerates. No assumption is needed.

* `RouterEnforcesRequired`: `\A c : RequiredFor(ParseTomahawkLink(c).effect, c)`.
  Every branch of every handler is guarded by a test of the parameters its
  effect needs. The proof has one lemma per handler (`DoQueueAddRequired`,
  `QueueRequired`, `OpenRequired`, `SearchRequired`, ...). These lemmas
  hold whichever arm of a `CASE` applies, so the argument survives overlapping
  guards, such as `load` with both `xspf` and `jspf`.
* `RequiredParamsAlways`: `Spec => []RequiredParamsEnforced` follows from
  it.

`ActionManager_proofs.tla` proves the action property of the
`action_manager` run for every set of queries and all bounds. Its only
assumption is `AMNullAssumption` (the null `query_ptr` is not a query).
The first proof attempt needed that assumption: without it, clearing
`m_waitingToPlay` could look like registering a query.

* `IInvariant`: `Spec => []IInv`, where `IInv` is a type invariant plus
  `LatestInv`:
  * every link number is at most the number of play links so far, and
    pending Spotify links are numbered within it;
  * a query not yet created has link 0 and did not come from a parser;
  * when `m_waitingToPlay` holds a track `handlePlayCommand` created
    itself, no other such track has a later link.

  TLC checked `LatestInv` on the `action_manager` instance before it was
  proved. The third conjunct alone is not inductive. A new play link
  would not be known to be newer than every earlier one without the
  first conjunct. Registering a fresh query for an open link could make
  it look like a play link's track without the second.
* `DirectLatestWins`: `Spec => DirectPlayLinkLatestWins`. The lemma
  `PlaysOnlyWaiting` shows that `plays` changes only in
  `resolvingFinished`, for the query `m_waitingToPlay` holds, with the
  history unchanged. `LatestInv` then gives the property.

The following stay with TLC and are out of the prover's reach: liveness
and ENABLED, what recursive definitions compute for every input, and
anything in modules with RECURSIVE operators. Concretely:
`ExpiredEntriesPruned` is a leads-to property under weak fairness, so it
is model-checked only. The properties of the violation runs are false of
the code by design, and their counterexamples are the findings.

## 5. Not modelled

* `DatabaseCommand_UpdateSearchIndex`: a straight-line read of two SQL
  queries into the fuzzy index. It has no branching or interleaving of
  its own.
* `PixmapDelegateFader`: the sources contain only its declaration.
* The translation catalogue: data. It is lines 205-3794 of
  `PixmapDelegateFader.h`, most of the lines in the two files under
  `src/src/`. Because of this, the map covers only a small share of those
  two files, even though every line of their code that changes state is
  mapped: `TomahawkCache` and `DelegateConfigWrapper` in full. A message
  table would only be a transliteration, not a model.
* `updateSizeHint`'s layout calls and the constructor's widget flags are
  part of the actions above. Only their effect on `exec()` and on the
  widget's parent is kept.
* External collaborators are the environment of the models, not their
  subject: the pipeline, AudioEngine, ViewManager, the playlist store, and
  the Spotify/Rdio/shortened-link parsers.
