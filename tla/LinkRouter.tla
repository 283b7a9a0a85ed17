----------------------------- MODULE LinkRouter -----------------------------
(***************************************************************************)
(* GlobalActionManager::parseTomahawkLink and the handle*Command handlers  *)
(* it dispatches to (src/unnamed/part_000), as operators from a command to *)
(* the handler's effect and its boolean result.                            *)
(*                                                                         *)
(* A command is the text after "tomahawk://" with "%2B" already replaced,  *)
(* abstracted to what the handlers look at:                                *)
(*   cat    the text before the first "/" or "?"                           *)
(*   slash  whether a "/" follows cat                                      *)
(*   parts  url.path().split("/").mid(1): the path words after cat         *)
(*   params per query key, the kind of its value: absent, empty or text;   *)
(*          for "url", the sequence of its values in order, each a web or  *)
(*          a file:// url (an empty value becomes a web url)               *)
(* Other values are never inspected by the router, only their presence and *)
(* emptiness.  "spotifyURI" stands for spotifyURI and spotifyURL, which    *)
(* every handler treats alike.                                             *)
(***************************************************************************)
EXTENDS Naturals, Sequences, FiniteSets

\* The category tokens of parseTomahawkLink, and one token it does not know.
Categories == {"playlist", "collection", "queue", "station", "autoplaylist",
               "search", "play", "bookmark", "open", "load", "other"}

\* Path words the handlers compare with, and one they do not ("" included).
PathWords == {"track", "add", "import", "new", "create", "other"}

Keys == {"title", "artist", "album", "url", "xspf", "jspf", "type", "spotifyURI"}

\* The effects a handler can start.
Effects == {"none", "importXspf", "importJspf", "newPlaylist", "queueSpotify",
            "queueTrack", "queueUrl", "station", "autoplaylist", "search",
            "playSpotify", "playTrack", "bookmark"}

\* What the value of key k in command c is.
Has(c, k) == IF k = "url" THEN c.params.url # << >> ELSE c.params[k] # "absent"

NonEmpty(c, k) == c.params[k] = "text"

\* The number of web (non file://) urls among the url values.
WebUrls(c) == Cardinality({i \in DOMAIN c.params.url : c.params.url[i] = "web"})

\* QString cmdType = cmd.split("/").first(): with no "/" after the category,
\* the query string stays attached and the token matches no category.
CmdType(c) ==
    IF c.slash \/ \A k \in Keys : ~Has(c, k) THEN c.cat ELSE "cat?query"

\* A handler's outcome: the effect it starts, the boolean it returns, and
\* the number of track queries it builds.
Route(effect, result) ==
    [effect |-> effect, result |-> result, items |-> IF effect = "none" THEN 0 ELSE 1]

Rejected == Route("none", FALSE)

-----------------------------------------------------------------------------
(* The handlers.                                                           *)

\* Mutant: "playlist/new" creates the playlist without checking for a title.
HandlePlaylistCommandNoTitle(c) ==
    CASE c.parts = << >> -> Rejected
      [] c.parts[1] = "import" /\ Has(c, "xspf") -> Route("importXspf", FALSE)
      [] c.parts[1] = "new" -> Route("newPlaylist", FALSE)
      [] OTHER -> Rejected

\* handlePlaylistCommand: import and new start their effect but fall through
\* to the final "return false".
HandlePlaylistCommand(c) ==
    CASE c.parts = << >> -> Rejected
      [] c.parts[1] = "import" /\ Has(c, "xspf") -> Route("importXspf", FALSE)
      [] c.parts[1] = "new" /\ Has(c, "title") -> Route("newPlaylist", FALSE)
      [] OTHER -> Rejected

\* handleCollectionCommand: "add" is not implemented.
HandleCollectionCommand(c) == Rejected

\* queueSpotify: the last spotifyURL/spotifyURI value, if non-empty, is
\* opened with openSpotifyLink.
QueueSpotify(c) == NonEmpty(c, "spotifyURI")

\* doQueueAdd(parts, queryItems): the url loop returns after its first url,
\* and queues nothing for a file:// url.
DoQueueAdd(c, ps) ==
    CASE ps = << >> \/ ps[1] # "track" -> Rejected
      [] QueueSpotify(c) -> Route("queueSpotify", TRUE)
      [] \E k \in {"title", "artist", "album"} : NonEmpty(c, k)
            -> Route("queueTrack", TRUE)
      [] Has(c, "url") /\ c.params.url[1] = "file" -> Route("none", TRUE)
      [] Has(c, "url") -> Route("queueUrl", TRUE)
      [] OTHER -> Rejected

\* handleOpenCommand: doQueueAdd on the whole path.
HandleOpenCommand(c) ==
    IF c.parts = << >> THEN Rejected ELSE DoQueueAdd(c, c.parts)

\* handleQueueCommand: doQueueAdd on the path after "add"; its result is
\* dropped and the handler returns false.
HandleQueueCommand(c) ==
    IF c.parts # << >> /\ c.parts[1] = "add"
       THEN Route(DoQueueAdd(c, Tail(c.parts)).effect, FALSE)
       ELSE Rejected

\* loadDynamicPlaylist(url, station): "create" with a title and a type.
LoadDynamicPlaylist(c, station) ==
    IF c.parts # << >> /\ c.parts[1] = "create" /\ Has(c, "title") /\ Has(c, "type")
       THEN Route(IF station THEN "station" ELSE "autoplaylist", TRUE)
       ELSE Rejected

\* handleSearchCommand: the present artist, album and title values joined
\* by " "; an empty join is rejected (a join of two empty values is " ").
HandleSearchCommand(c) ==
    LET present == {k \in {"artist", "album", "title"} : Has(c, k)}
    IN  IF \/ present = {}
           \/ Cardinality(present) = 1 /\ \A k \in present : ~NonEmpty(c, k)
           THEN Rejected
           ELSE Route("search", TRUE)

\* handlePlayCommand: "track" plays a Spotify link through playSpotify when
\* a spotify parameter is present, and otherwise any title/artist/album.
HandlePlayCommand(c) ==
    CASE c.parts = << >> \/ c.parts[1] # "track" -> Rejected
      [] Has(c, "spotifyURI") -> Route("playSpotify", TRUE)
      [] OTHER -> Route("playTrack", TRUE)

\* parseTomahawkLink: the legacy "load" aliases first, then the dispatch on
\* the category token.
ParseTomahawkLink(c) ==
    LET t == CmdType(c) IN
    CASE t = "load" /\ Has(c, "xspf") -> Route("importXspf", TRUE)
      [] t = "load" /\ Has(c, "jspf") -> Route("importJspf", TRUE)
      [] t = "playlist" -> HandlePlaylistCommand(c)
      [] t = "collection" -> HandleCollectionCommand(c)
      [] t = "queue" -> HandleQueueCommand(c)
      [] t = "station" -> LoadDynamicPlaylist(c, TRUE)
      [] t = "autoplaylist" -> LoadDynamicPlaylist(c, FALSE)
      [] t = "search" -> HandleSearchCommand(c)
      [] t = "play" -> HandlePlayCommand(c)
      [] t = "bookmark" -> HandlePlayCommand(c)
      [] t = "open" -> HandleOpenCommand(c)
      [] OTHER -> Rejected

=============================================================================
