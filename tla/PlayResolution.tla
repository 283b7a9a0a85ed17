--------------------------- MODULE PlayResolution ---------------------------
(***************************************************************************)
(* The "resolve, then play" coordinator of GlobalActionManager             *)
(* (src/unnamed/part_000).  A play or open command builds a track query,   *)
(* hands it to the resolution pipeline and remembers it in the single      *)
(* member m_waitingToPlay, connecting the query's resolvingFinished signal *)
(* to the slot waitingForResolved.  The slot starts the audio engine when  *)
(* the remembered query has become playable.                               *)
(*                                                                         *)
(* Queries are model values.  The pipeline, the audio engine and the       *)
(* Spotify/Rdio link parsers are the environment: the pipeline may finish  *)
(* a resolution with or without a playable result and may resolve a query  *)
(* again later (Query::refreshResults), a parser may deliver its track or  *)
(* fail, and the engine may be stopped or started by the user.  Every      *)
(* callback runs on the GUI thread, so each step below is atomic.          *)
(***************************************************************************)
EXTENDS Naturals, FiniteSets

CONSTANTS
    Queries,      \* the query objects the handlers can create
    Null,         \* the null query_ptr
    MaxResolves,  \* how many times the pipeline may resolve one query
    MaxParsers    \* how many Spotify/Rdio parsers may be started in a run

ASSUME NullAssumption == Null \notin Queries
ASSUME BoundsAssumption == MaxResolves \in Nat \ {0} /\ MaxParsers \in Nat

VARIABLES
    qstate,       \* per query: "free" (not yet created), "resolving", "idle"
    playable,     \* per query: Query::playable() after its last resolution
    resolves,     \* per query: how many resolutions the pipeline started
    conns,        \* queries whose resolvingFinished is connected to waitingForResolved
    waitingToPlay,\* m_waitingToPlay
    queued,       \* queries appended to the play queue (ViewManager queue model)
    playing,      \* AudioEngine::isPlaying()
    parsers,      \* parsers started and not yet finished, per callback slot
    launched,     \* parsers started so far (bounded by MaxParsers)
    lastReg,      \* history: the query most recently assigned to m_waitingToPlay
    plays         \* history: per query, AudioEngine::play() calls made in its callback

vars == <<qstate, playable, resolves, conns, waitingToPlay, queued, playing,
          parsers, launched, lastReg, plays>>

\* The slot a started parser will call with the query it produces:
\* spotifyToPlay (playSpotify) or handleOpenTrack (openSpotifyLink, openRdioLink).
ParserSlots == {"toPlay", "toOpen"}

QueryStates == {"free", "resolving", "idle"}

TypeOK ==
    /\ qstate \in [Queries -> QueryStates]
    /\ playable \in [Queries -> BOOLEAN]
    /\ resolves \in [Queries -> 0..MaxResolves]
    /\ conns \subseteq Queries
    /\ waitingToPlay \in Queries \cup {Null}
    /\ queued \subseteq Queries
    /\ playing \in BOOLEAN
    /\ parsers \in [ParserSlots -> Nat]
    /\ launched \in 0..MaxParsers
    /\ lastReg \in Queries \cup {Null}
    /\ plays \in [Queries -> Nat]

Init ==
    /\ qstate = [q \in Queries |-> "free"]
    /\ playable = [q \in Queries |-> FALSE]
    /\ resolves = [q \in Queries |-> 0]
    /\ conns = {}
    /\ waitingToPlay = Null
    /\ queued = {}
    /\ playing = FALSE
    /\ parsers = [s \in ParserSlots |-> 0]
    /\ launched = 0
    /\ lastReg = Null
    /\ plays = [q \in Queries |-> 0]

-----------------------------------------------------------------------------
(* Helpers shared by the handlers.                                         *)

\* Query::get(...) followed by Pipeline::instance()->resolve(q, true): a new
\* query object that the pipeline starts resolving.
CreateAndResolve(q) ==
    /\ qstate[q] = "free"
    /\ qstate' = [qstate EXCEPT ![q] = "resolving"]
    /\ resolves' = [resolves EXCEPT ![q] = 1]

\* m_waitingToPlay = q; connect(q, resolvingFinished, waitingForResolved).
Register(q) ==
    /\ waitingToPlay' = q
    /\ conns' = conns \cup {q}
    /\ lastReg' = q

\* handleOpenTrack(q): append to the queue, show it, and wait for q to play
\* it only when the engine is idle.
HandleOpenTrack(q) ==
    /\ queued' = queued \cup {q}
    /\ IF ~playing
          THEN Register(q)
          ELSE UNCHANGED <<waitingToPlay, conns, lastReg>>

\* A parser is started for a link and will call back the given slot.
StartParser(slot) ==
    /\ launched < MaxParsers
    /\ launched' = launched + 1
    /\ parsers' = [parsers EXCEPT ![slot] = @ + 1]

-----------------------------------------------------------------------------
(* Handlers of GlobalActionManager.                                        *)

\* handlePlayCommand for "play/track" (and "bookmark/track", which the router
\* also sends here) without a spotifyURI/spotifyURL parameter.
HandlePlayCommand(q) ==
    /\ CreateAndResolve(q)
    /\ Register(q)
    /\ UNCHANGED <<playable, queued, playing, parsers, launched, plays>>

\* handlePlayCommand -> playSpotify: a SpotifyParser is started whose track()
\* signal is connected to spotifyToPlay.
PlaySpotify ==
    /\ StartParser("toPlay")
    /\ UNCHANGED <<qstate, playable, resolves, conns, waitingToPlay, queued,
                   playing, lastReg, plays>>

\* Mutation: the slot runs without a pending parser (a track() signal
\* delivered twice, or a connection made twice).
SpotifyToPlayUnguarded(q) ==
    /\ parsers' = [parsers EXCEPT !["toPlay"] = @ - 1]
    /\ CreateAndResolve(q)
    /\ Register(q)
    /\ UNCHANGED <<playable, queued, playing, launched, plays>>

\* spotifyToPlay(q): the parser delivered its track; resolve it and wait.
SpotifyToPlay(q) ==
    /\ parsers["toPlay"] > 0
    /\ parsers' = [parsers EXCEPT !["toPlay"] = @ - 1]
    /\ CreateAndResolve(q)
    /\ Register(q)
    /\ UNCHANGED <<playable, queued, playing, launched, plays>>

\* doQueueAdd for "track" with a title, artist or album (from "open/track"
\* and "queue/add/track"): resolve the new query, then handleOpenTrack.
DoQueueAddTrack(q) ==
    /\ CreateAndResolve(q)
    /\ HandleOpenTrack(q)
    /\ UNCHANGED <<playable, playing, parsers, launched, plays>>

\* doQueueAdd for "track" with only url parameters: the first non-file url
\* becomes a query that is resolved and appended; nothing waits for it.
DoQueueAddUrl(q) ==
    /\ CreateAndResolve(q)
    /\ queued' = queued \cup {q}
    /\ UNCHANGED <<playable, conns, waitingToPlay, playing, parsers, launched,
                   lastReg, plays>>

\* queueSpotify -> openSpotifyLink, and openRdioLink: a parser is started
\* whose track() signal is connected to handleOpenTrack.
OpenLink ==
    /\ StartParser("toOpen")
    /\ UNCHANGED <<qstate, playable, resolves, conns, waitingToPlay, queued,
                   playing, lastReg, plays>>

\* The parser delivered a query (created with auto-resolve, so the pipeline
\* resolves it) to handleOpenTrack.
ParserToOpen(q) ==
    /\ parsers["toOpen"] > 0
    /\ parsers' = [parsers EXCEPT !["toOpen"] = @ - 1]
    /\ CreateAndResolve(q)
    /\ HandleOpenTrack(q)
    /\ UNCHANGED <<playable, playing, launched, plays>>

\* A parser fails (network error, unknown link) and never emits a track.
ParserFails(slot) ==
    /\ parsers[slot] > 0
    /\ parsers' = [parsers EXCEPT ![slot] = @ - 1]
    /\ UNCHANGED <<qstate, playable, resolves, conns, waitingToPlay, queued,
                   playing, launched, lastReg, plays>>

\* Mutations of waitingForResolved used to check that the properties below
\* can tell a broken slot apart: the m_waitingToPlay.clear() after play()
\* forgotten, and the playable() test forgotten.
WaitingForResolvedNoClear(q, p) ==
    IF waitingToPlay # q
       THEN /\ waitingToPlay' = Null
            /\ UNCHANGED <<playing, plays>>
       ELSE IF p
               THEN /\ playing' = TRUE
                    /\ plays' = [plays EXCEPT ![q] = @ + 1]
                    /\ UNCHANGED waitingToPlay
               ELSE UNCHANGED <<waitingToPlay, playing, plays>>

WaitingForResolvedNoPlayableTest(q, p) ==
    IF waitingToPlay # q
       THEN /\ waitingToPlay' = Null
            /\ UNCHANGED <<playing, plays>>
       ELSE /\ playing' = TRUE
            /\ plays' = [plays EXCEPT ![q] = @ + 1]
            /\ waitingToPlay' = Null

\* Mutation: the slot plays any connected query that becomes playable,
\* without comparing the sender with m_waitingToPlay.
WaitingForResolvedNoSenderCheck(q, p) ==
    IF p
       THEN /\ playing' = TRUE
            /\ plays' = [plays EXCEPT ![q] = @ + 1]
            /\ waitingToPlay' = Null
       ELSE UNCHANGED <<waitingToPlay, playing, plays>>

\* waitingForResolved, run inside the resolvingFinished emission of q, whose
\* playable() is now p.  A sender other than m_waitingToPlay clears
\* m_waitingToPlay; the remembered query starts the engine when playable.
WaitingForResolved(q, p) ==
    IF waitingToPlay # q
       THEN /\ waitingToPlay' = Null
            /\ UNCHANGED <<playing, plays>>
       ELSE IF p
               THEN /\ playing' = TRUE
                    /\ plays' = [plays EXCEPT ![q] = @ + 1]
                    /\ waitingToPlay' = Null
               ELSE UNCHANGED <<waitingToPlay, playing, plays>>

\* The pipeline finishes resolving q and emits resolvingFinished(playable);
\* if q is connected, waitingForResolved runs in the same step.
ResolvingFinished(q) ==
    /\ qstate[q] = "resolving"
    /\ \E p \in BOOLEAN :
          /\ qstate' = [qstate EXCEPT ![q] = "idle"]
          /\ playable' = [playable EXCEPT ![q] = p]
          /\ IF q \in conns
                THEN WaitingForResolved(q, p)
                ELSE UNCHANGED <<waitingToPlay, playing, plays>>
    /\ UNCHANGED <<resolves, conns, queued, parsers, launched, lastReg>>

\* Query::refreshResults: results changed (a resolver or a source appeared
\* or went away) and the pipeline resolves the finished query again.
RefreshResults(q) ==
    /\ qstate[q] = "idle"
    /\ resolves[q] < MaxResolves
    /\ qstate' = [qstate EXCEPT ![q] = "resolving"]
    /\ resolves' = [resolves EXCEPT ![q] = @ + 1]
    /\ UNCHANGED <<playable, conns, waitingToPlay, queued, playing, parsers,
                   launched, lastReg, plays>>

\* The audio engine stops (end of queue, user pause) or is started by the user.
EngineStops ==
    /\ playing
    /\ playing' = FALSE
    /\ UNCHANGED <<qstate, playable, resolves, conns, waitingToPlay, queued,
                   parsers, launched, lastReg, plays>>

UserPlays ==
    /\ ~playing
    /\ playing' = TRUE
    /\ UNCHANGED <<qstate, playable, resolves, conns, waitingToPlay, queued,
                   parsers, launched, lastReg, plays>>

Next ==
    \/ \E q \in Queries :
          \/ HandlePlayCommand(q)
          \/ SpotifyToPlay(q)
          \/ DoQueueAddTrack(q)
          \/ DoQueueAddUrl(q)
          \/ ParserToOpen(q)
          \/ ResolvingFinished(q)
          \/ RefreshResults(q)
    \/ PlaySpotify
    \/ OpenLink
    \/ \E s \in ParserSlots : ParserFails(s)
    \/ EngineStops
    \/ UserPlays

Spec == Init /\ [][Next]_vars

-----------------------------------------------------------------------------
(* Properties.                                                             *)

\* AudioEngine::play() is called from waitingForResolved only in the
\* resolvingFinished callback of the query most recently assigned to
\* m_waitingToPlay, and only when that resolution made it playable: a
\* superseded request, whose callback may arrive at any later time, never
\* starts playback, and neither does an unplayable one.
PlayOnlyForLatest ==
    [][\A q \in Queries :
          plays'[q] # plays[q] => q = lastReg /\ playable'[q]]_vars

\* A play or open request starts the engine at most once, although the
\* pipeline may resolve its query again (Query::refreshResults) and each
\* resolution re-emits resolvingFinished to the still-connected slot.
AtMostOnePlayPerRequest ==
    \A q \in Queries : plays[q] <= 1

\* Spec section 4.5: a completion callback of a superseded query is a no-op,
\* so the most recent request stays pending until its own first resolution
\* has finished.
LatestRequestStaysPending ==
    /\ lastReg # Null
    /\ qstate[lastReg] = "resolving"
    /\ resolves[lastReg] = 1
    => waitingToPlay = lastReg

\* The slot of spec section 4.5, with m_waitingToPlay as the slot.
Slot == INSTANCE ResolutionSlot WITH slot <- waitingToPlay

\* The coordinator keeps the promise of spec section 4.5 for its one slot:
\* AudioEngine::play() is called only for the query m_waitingToPlay holds,
\* which is then cleared, and m_waitingToPlay changes only by a new
\* registration or by being cleared.  Whatever order resolutions,
\* re-resolutions and parser answers arrive in, every step of
\* GlobalActionManager is a step of the slot.
ImplementsSlot == Slot!Spec

=============================================================================
