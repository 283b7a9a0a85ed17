------------------------------ MODULE Bookmarks ------------------------------
(***************************************************************************)
(* GlobalActionManager's bookmark handling (src/unnamed/part_000):         *)
(* handleBookmarkCommand, bookmarkPlaylistCreated, doBookmark and          *)
(* showPlaylist, with the local collection and the bookmarks playlist as   *)
(* the environment.                                                        *)
(*                                                                         *)
(* The collection creates the bookmarks playlist asynchronously and emits  *)
(* bookmarkPlaylistCreated once per createBookmarksPlaylist request.  A    *)
(* playlist revision built by createNewRevision from the entries the       *)
(* playlist has loaded is committed later, in request order; committing it *)
(* makes its entry list the playlist's entries and emits revisionLoaded.   *)
(*                                                                         *)
(* Overlap says whether a bookmark command may arrive while an earlier one *)
(* is still being completed (playlist creation or revision pending).       *)
(***************************************************************************)
EXTENDS Naturals, Sequences

CONSTANTS
    Queries,   \* the query objects bookmark commands create
    Null,      \* the null query_ptr
    Overlap    \* whether bookmark commands may overlap

ASSUME BookmarkNullAssumption == Null \notin Queries
ASSUME OverlapAssumption == Overlap \in BOOLEAN

VARIABLES
    bookmarkPl,        \* LocalCollection::bookmarksPlaylist() is not null
    creates,           \* createBookmarksPlaylist requests not yet answered
    connected,         \* bookmarkPlaylistCreated is connected (Qt::UniqueConnection)
    waitingToBookmark, \* m_waitingToBookmark
    toShow,            \* m_toShow is set (it only ever holds the bookmarks playlist)
    revConnected,      \* revisionLoaded of the playlist is connected to showPlaylist
    entries,           \* the entries of the playlist's loaded revision
    pending,           \* revisions requested and not yet loaded, oldest first
    requested,         \* history: queries bookmarked, by the commands handled or before
    asserted           \* history: bookmarkPlaylistCreated ran with a null m_waitingToBookmark

vars == <<bookmarkPl, creates, connected, waitingToBookmark, toShow,
          revConnected, entries, pending, requested, asserted>>

TypeOK ==
    /\ bookmarkPl \in BOOLEAN
    /\ creates \in Nat
    /\ connected \in BOOLEAN
    /\ waitingToBookmark \in Queries \cup {Null}
    /\ toShow \in BOOLEAN
    /\ revConnected \in BOOLEAN
    /\ entries \subseteq Queries
    /\ pending \in Seq(SUBSET Queries)
    /\ requested \subseteq Queries
    /\ asserted \in BOOLEAN

\* The user may already have a bookmarks playlist, holding tracks that
\* earlier bookmark commands added.
Init ==
    /\ bookmarkPl \in BOOLEAN
    /\ entries \in IF bookmarkPl THEN SUBSET Queries ELSE {{}}
    /\ creates = 0
    /\ connected = FALSE
    /\ waitingToBookmark = Null
    /\ toShow = FALSE
    /\ revConnected = FALSE
    /\ pending = << >>
    /\ requested = entries
    /\ asserted = FALSE

-----------------------------------------------------------------------------

\* The entry list the playlist will end with once every requested revision
\* is loaded.
Eventual == IF pending = << >> THEN entries ELSE pending[Len(pending)]

\* Mutant: the new revision holds only the new entry, not pl->entries().
DoBookmarkFreshList(q) ==
    /\ pending' = Append(pending, {q})
    /\ revConnected' = TRUE
    /\ toShow' = TRUE
    /\ waitingToBookmark' = Null

\* doBookmark(pl, q): a new revision whose entries are the loaded entries
\* plus q, revisionLoaded connected to showPlaylist, m_toShow = pl and
\* m_waitingToBookmark cleared.
DoBookmark(q) ==
    /\ pending' = Append(pending, entries \cup {q})
    /\ revConnected' = TRUE
    /\ toShow' = TRUE
    /\ waitingToBookmark' = Null

\* handleBookmarkCommand for "bookmark/track": a new query; without a
\* bookmarks playlist, remember it, ask the collection to create the
\* playlist and connect bookmarkPlaylistCreated; otherwise doBookmark.
HandleBookmarkCommand(q) ==
    /\ q \notin requested
    /\ ~asserted
    /\ Overlap \/ (creates = 0 /\ pending = << >>)
    /\ requested' = requested \cup {q}
    /\ IF bookmarkPl
          THEN /\ DoBookmark(q)
               /\ UNCHANGED <<creates, connected>>
          ELSE /\ waitingToBookmark' = q
               /\ creates' = creates + 1
               /\ connected' = TRUE
               /\ UNCHANGED <<toShow, revConnected, pending>>
    /\ UNCHANGED <<bookmarkPl, entries, asserted>>

\* The collection has created the playlist and emits bookmarkPlaylistCreated;
\* the connected slot asserts m_waitingToBookmark and calls doBookmark.  A
\* failed assertion aborts a debug build, and in a release build doBookmark
\* dereferences the null query; either way nothing runs after it.
BookmarkPlaylistCreated ==
    /\ creates > 0
    /\ ~asserted
    /\ creates' = creates - 1
    /\ bookmarkPl' = TRUE
    /\ IF connected /\ waitingToBookmark = Null
          THEN /\ asserted' = TRUE
               /\ UNCHANGED <<waitingToBookmark, toShow, revConnected, pending>>
          ELSE IF connected
                  THEN /\ DoBookmark(waitingToBookmark)
                       /\ UNCHANGED asserted
                  ELSE UNCHANGED <<waitingToBookmark, toShow, revConnected,
                                   pending, asserted>>
    /\ UNCHANGED <<connected, entries, requested>>

\* The oldest requested revision is loaded and revisionLoaded is emitted;
\* showPlaylist shows m_toShow, if set, and clears it.
RevisionLoaded ==
    /\ pending # << >>
    /\ ~asserted
    /\ entries' = Head(pending)
    /\ pending' = Tail(pending)
    /\ IF revConnected THEN toShow' = FALSE ELSE UNCHANGED toShow
    /\ UNCHANGED <<bookmarkPl, creates, connected, waitingToBookmark,
                   revConnected, requested, asserted>>

Next ==
    \/ \E q \in Queries : HandleBookmarkCommand(q)
    \/ BookmarkPlaylistCreated
    \/ RevisionLoaded

Spec == Init /\ [][Next]_vars

-----------------------------------------------------------------------------
(* Properties.                                                             *)

\* Spec 4.4: every bookmark command's track ends up in the bookmarks
\* playlist, and the tracks already there stay.  Each bookmarked track is
\* either still remembered in m_waitingToBookmark or in the entry list the
\* playlist will end with once its requested revisions are loaded.
NoBookmarkLost ==
    \A q \in requested : q = waitingToBookmark \/ q \in Eventual

\* The Q_ASSERT of bookmarkPlaylistCreated: whenever the collection reports
\* the bookmarks playlist created, a bookmark is waiting for it.
BookmarkAssertHolds == ~asserted

=============================================================================
