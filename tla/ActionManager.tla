---------------------------- MODULE ActionManager ----------------------------
(***************************************************************************)
(* GlobalActionManager as a whole: a tomahawk:// link arrives, the router  *)
(* (LinkRouter) picks the handler, and the handler's coordinator steps     *)
(* (PlayResolution) run.  Links are a few concrete commands, one per path  *)
(* into the coordinator.                                                   *)
(*                                                                         *)
(* History: each link the router sends to handlePlayCommand is numbered;   *)
(* origin[q] is the number of the play link that q was created for, and    *)
(* spotifyPending holds the numbers of play links whose SpotifyParser has  *)
(* not answered yet.                                                       *)
(***************************************************************************)
EXTENDS Naturals

CONSTANTS Queries, Null, MaxResolves, MaxParsers

\* A cleared m_waitingToPlay (a null query_ptr) is not a query object.
ASSUME AMNullAssumption == Null \notin Queries

VARIABLES qstate, playable, resolves, conns, waitingToPlay, queued, playing,
          parsers, launched, lastReg, plays,
          playLinks,      \* history: play links received so far
          origin,         \* history: per query, the play link it was created for (0: none)
          fromParser,     \* history: queries delivered by a SpotifyParser to spotifyToPlay
          spotifyPending  \* history: play links whose SpotifyParser is still running

PR == INSTANCE PlayResolution

R == INSTANCE LinkRouter

hist == <<playLinks, origin, fromParser, spotifyPending>>

vars == <<PR!vars, hist>>

\* A command with only the given parameters present.
NoParams == [k \in R!Keys |-> IF k = "url" THEN << >> ELSE "absent"]

Link(cat, parts, params) ==
    [cat |-> cat, slash |-> TRUE, parts |-> parts, params |-> params]

\* The links of the model: play/track, bookmark/track, open/track and
\* queue/add/track with a title or artist, open/track with a url, and
\* play/track and open/track with a Spotify URI.
Links ==
    { Link("play", <<"track">>, [NoParams EXCEPT !.title = "text"]),
      Link("play", <<"track">>, [NoParams EXCEPT !.spotifyURI = "text"]),
      Link("bookmark", <<"track">>, [NoParams EXCEPT !.title = "text"]),
      Link("open", <<"track">>, [NoParams EXCEPT !.title = "text"]),
      Link("queue", <<"add", "track">>, [NoParams EXCEPT !.artist = "text"]),
      Link("open", <<"track">>, [NoParams EXCEPT !.url = <<"web">>]),
      Link("open", <<"track">>, [NoParams EXCEPT !.spotifyURI = "text"]) }

TypeOK ==
    /\ PR!TypeOK
    /\ playLinks \in Nat
    /\ origin \in [Queries -> Nat]
    /\ fromParser \subseteq Queries
    /\ spotifyPending \subseteq Nat

Init ==
    /\ PR!Init
    /\ playLinks = 0
    /\ origin = [q \in Queries |-> 0]
    /\ fromParser = {}
    /\ spotifyPending = {}

-----------------------------------------------------------------------------
(* A link arrives: parseTomahawkLink and the handler it picks.             *)

ReceiveLink(c) ==
    LET e == R!ParseTomahawkLink(c).effect IN
    \/ /\ e = "playTrack"
       /\ \E q \in Queries :
             /\ PR!HandlePlayCommand(q)
             /\ origin' = [origin EXCEPT ![q] = playLinks + 1]
       /\ playLinks' = playLinks + 1
       /\ UNCHANGED <<fromParser, spotifyPending>>
    \/ /\ e = "playSpotify"
       /\ PR!PlaySpotify
       /\ playLinks' = playLinks + 1
       /\ spotifyPending' = spotifyPending \cup {playLinks + 1}
       /\ UNCHANGED <<origin, fromParser>>
    \/ /\ e = "queueTrack"
       /\ \E q \in Queries : PR!DoQueueAddTrack(q)
       /\ UNCHANGED hist
    \/ /\ e = "queueUrl"
       /\ \E q \in Queries : PR!DoQueueAddUrl(q)
       /\ UNCHANGED hist
    \/ /\ e = "queueSpotify"
       /\ PR!OpenLink
       /\ UNCHANGED hist

-----------------------------------------------------------------------------
(* Callbacks and the environment.                                          *)

\* spotifyToPlay: the SpotifyParser of play link i delivers its query.
SpotifyToPlay(q) ==
    \E i \in spotifyPending :
       /\ PR!SpotifyToPlay(q)
       /\ origin' = [origin EXCEPT ![q] = i]
       /\ fromParser' = fromParser \cup {q}
       /\ spotifyPending' = spotifyPending \ {i}
       /\ UNCHANGED playLinks

\* A parser fails; a failed SpotifyParser of play link i never answers.
ParserFails(s) ==
    /\ PR!ParserFails(s)
    /\ IF s = "toPlay"
          THEN \E i \in spotifyPending : spotifyPending' = spotifyPending \ {i}
          ELSE UNCHANGED spotifyPending
    /\ UNCHANGED <<playLinks, origin, fromParser>>

Environment ==
    /\ \/ \E q \in Queries : PR!ParserToOpen(q) \/ PR!ResolvingFinished(q)
                               \/ PR!RefreshResults(q)
       \/ PR!EngineStops
       \/ PR!UserPlays
    /\ UNCHANGED hist

Next ==
    \/ \E c \in Links : ReceiveLink(c)
    \/ \E q \in Queries : SpotifyToPlay(q)
    \/ \E s \in PR!ParserSlots : ParserFails(s)
    \/ Environment

Spec == Init /\ [][Next]_vars

-----------------------------------------------------------------------------
(* Properties.                                                             *)

\* A track that handlePlayCommand created itself for a play (or bookmark)
\* link starts playback only if no later link made handlePlayCommand create
\* a track: m_waitingToPlay and the sender check of waitingForResolved make
\* the newest such link win over every earlier one, whatever order the
\* pipeline finishes them in.
DirectPlayLinkLatestWins ==
    [][\A q \in Queries :
          plays'[q] # plays[q] /\ origin[q] # 0 /\ q \notin fromParser
              => \A r \in Queries \ fromParser : origin[r] <= origin[q]]_vars

\* Spec 4.5: for the Play kind only the most recently registered request
\* can produce an effect, and a play link registers its request when it is
\* handled (4.4).  So a track created for a play link, directly or through
\* a Spotify link's parser, starts playback only if that play link is the
\* newest.
PlayLinkLatestWins ==
    [][\A q \in Queries :
          plays'[q] # plays[q] /\ origin[q] # 0 => origin[q] = playLinks]_vars

=============================================================================
