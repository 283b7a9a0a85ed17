------------------------ MODULE ActionManager_proofs ------------------------
(***************************************************************************)
(* Proofs about ActionManager for every set of queries and all bounds.     *)
(*                                                                         *)
(* DirectPlayLinkLatestWins is an action property.  It follows from an     *)
(* invariant about m_waitingToPlay: when it holds a track handlePlayCommand *)
(* created itself, no other such track comes from a later link.  That is   *)
(* not inductive alone: it needs that link numbers never exceed the count  *)
(* of play links (a new link is the newest), and that a query not created  *)
(* yet has no link and did not come from a parser (registering it for an   *)
(* open link cannot make it look like a play link's track).                *)
(***************************************************************************)
EXTENDS ActionManager, TLAPS

\* The types the argument needs.  PlayResolution's own bounds (resolves,
\* launched) play no part, so their assumptions are not needed.
AMType ==
    /\ qstate \in [Queries -> {"free", "resolving", "idle"}]
    /\ plays \in [Queries -> Nat]
    /\ playLinks \in Nat
    /\ origin \in [Queries -> Nat]
    /\ fromParser \subseteq Queries
    /\ spotifyPending \subseteq Nat

\* The invariant, checked by TLC on the action_manager instance.
LatestInv ==
    /\ \A q \in Queries : origin[q] <= playLinks
    /\ spotifyPending \subseteq 1..playLinks
    /\ \A q \in Queries : qstate[q] = "free" => origin[q] = 0 /\ q \notin fromParser
    /\ \A q \in Queries :
          waitingToPlay = q /\ origin[q] # 0 /\ q \notin fromParser
              => \A r \in Queries \ fromParser : origin[r] <= origin[q]

IInv == AMType /\ LatestInv

-----------------------------------------------------------------------------

LEMMA IInvInit == Init => IInv
BY DEF Init, PR!Init, IInv, AMType, LatestInv

\* A new query created for handlePlayCommand and registered: it carries the
\* newest link number.
LEMMA PlayTrackStep ==
    ASSUME IInv, NEW q \in Queries, PR!HandlePlayCommand(q),
           origin' = [origin EXCEPT ![q] = playLinks + 1],
           playLinks' = playLinks + 1,
           UNCHANGED <<fromParser, spotifyPending>>
    PROVE  IInv'
<1> USE DEF IInv, AMType, LatestInv
<1>1. qstate[q] = "free" /\ waitingToPlay' = q
      /\ qstate' = [qstate EXCEPT ![q] = "resolving"] /\ UNCHANGED plays
    BY DEF PR!HandlePlayCommand, PR!CreateAndResolve, PR!Register
<1>2. AMType'
    BY <1>1
<1>3. QED
    BY <1>1, <1>2

\* A query registered (or not) by handleOpenTrack, or only queued.
LEMMA OpenTrackStep ==
    ASSUME IInv, NEW q \in Queries, PR!DoQueueAddTrack(q) \/ PR!ParserToOpen(q)
                                     \/ PR!DoQueueAddUrl(q),
           UNCHANGED <<playLinks, origin, fromParser, spotifyPending>>
    PROVE  IInv'
<1> USE DEF IInv, AMType, LatestInv
<1>1. /\ qstate[q] = "free" /\ qstate' = [qstate EXCEPT ![q] = "resolving"]
      /\ UNCHANGED plays /\ waitingToPlay' \in {waitingToPlay, q}
    BY DEF PR!DoQueueAddTrack, PR!ParserToOpen, PR!DoQueueAddUrl,
           PR!CreateAndResolve, PR!HandleOpenTrack, PR!Register
<1>2. origin[q] = 0
    BY <1>1
<1>3. QED
    BY <1>1, <1>2

\* spotifyToPlay: the parser's query is registered and marked as such.
LEMMA SpotifyStep ==
    ASSUME IInv, NEW q \in Queries, SpotifyToPlay(q)
    PROVE  IInv'
<1> USE DEF IInv, AMType, LatestInv
<1>1. PICK i \in spotifyPending :
          /\ PR!SpotifyToPlay(q)
          /\ origin' = [origin EXCEPT ![q] = i]
          /\ fromParser' = fromParser \cup {q}
          /\ spotifyPending' = spotifyPending \ {i}
          /\ UNCHANGED playLinks
    BY DEF SpotifyToPlay
<1>2. qstate[q] = "free" /\ qstate' = [qstate EXCEPT ![q] = "resolving"]
      /\ UNCHANGED plays /\ waitingToPlay' = q
    BY <1>1 DEF PR!SpotifyToPlay, PR!CreateAndResolve, PR!Register
<1>3. i \in 1..playLinks
    BY <1>1
<1>4. QED
    BY <1>1, <1>2, <1>3

\* resolvingFinished with waitingForResolved: m_waitingToPlay is kept or
\* cleared, and plays changes only for the query it holds.
LEMMA ResolvingFinishedEffect ==
    ASSUME NEW q \in Queries, PR!ResolvingFinished(q), plays \in [Queries -> Nat],
           qstate \in [Queries -> {"free", "resolving", "idle"}]
    PROVE  /\ waitingToPlay' \in {waitingToPlay, Null}
           /\ qstate' \in [Queries -> {"free", "resolving", "idle"}]
           /\ \A s \in Queries : qstate'[s] = "free" => qstate[s] = "free"
           /\ plays' \in [Queries -> Nat]
           /\ \A s \in Queries : plays'[s] # plays[s] => s = q /\ waitingToPlay = q
<1>1. PICK p \in BOOLEAN :
          /\ qstate' = [qstate EXCEPT ![q] = "idle"]
          /\ IF q \in conns
                THEN PR!WaitingForResolved(q, p)
                ELSE UNCHANGED <<waitingToPlay, playing, plays>>
    BY DEF PR!ResolvingFinished
<1>2. QED
    BY <1>1 DEF PR!WaitingForResolved

LEMMA EnvironmentStep ==
    ASSUME IInv, Environment
    PROVE  IInv'
<1> USE DEF IInv, AMType, LatestInv
<1>1. UNCHANGED hist
    BY DEF Environment
<1>2. ASSUME NEW q \in Queries, PR!ResolvingFinished(q) PROVE IInv'
    BY <1>1, <1>2, ResolvingFinishedEffect, AMNullAssumption DEF hist
<1>3. ASSUME NEW q \in Queries, PR!ParserToOpen(q) PROVE IInv'
    BY <1>1, <1>3, OpenTrackStep DEF hist
<1>4. ASSUME NEW q \in Queries, PR!RefreshResults(q) PROVE IInv'
    BY <1>1, <1>4 DEF hist, PR!RefreshResults
<1>5. CASE PR!EngineStops \/ PR!UserPlays
    BY <1>1, <1>5 DEF hist, PR!EngineStops, PR!UserPlays
<1>6. QED
    BY <1>2, <1>3, <1>4, <1>5 DEF Environment

LEMMA IInvStep == IInv /\ [Next]_vars => IInv'
<1> SUFFICES ASSUME IInv, [Next]_vars PROVE IInv'
    OBVIOUS
<1>1. ASSUME NEW c \in Links, ReceiveLink(c) PROVE IInv'
  <2> DEFINE e == R!ParseTomahawkLink(c).effect
  <2>1. CASE e = "playTrack"
    <3>1. PICK q \in Queries :
              /\ PR!HandlePlayCommand(q)
              /\ origin' = [origin EXCEPT ![q] = playLinks + 1]
              /\ playLinks' = playLinks + 1
              /\ UNCHANGED <<fromParser, spotifyPending>>
        BY <1>1, <2>1 DEF ReceiveLink
    <3>2. QED
        BY <3>1, PlayTrackStep
  <2>2. CASE e = "playSpotify"
    <3>1. /\ PR!PlaySpotify
          /\ playLinks' = playLinks + 1
          /\ spotifyPending' = spotifyPending \cup {playLinks + 1}
          /\ UNCHANGED <<origin, fromParser>>
        BY <1>1, <2>2 DEF ReceiveLink
    <3>2. QED
        BY <3>1 DEF PR!PlaySpotify, IInv, AMType, LatestInv
  <2>3. CASE e \in {"queueTrack", "queueUrl"}
    <3>1. PICK q \in Queries : (PR!DoQueueAddTrack(q) \/ PR!DoQueueAddUrl(q))
                               /\ UNCHANGED hist
        BY <1>1, <2>3 DEF ReceiveLink
    <3>2. QED
        BY <3>1, OpenTrackStep DEF hist
  <2>4. CASE e = "queueSpotify"
    BY <1>1, <2>4 DEF ReceiveLink, PR!OpenLink, hist, IInv, AMType, LatestInv
  <2>5. QED
    BY <1>1, <2>1, <2>2, <2>3, <2>4 DEF ReceiveLink
<1>2. ASSUME NEW q \in Queries, SpotifyToPlay(q) PROVE IInv'
    BY <1>2, SpotifyStep
<1>3. ASSUME NEW s \in PR!ParserSlots, ParserFails(s) PROVE IInv'
    BY <1>3 DEF ParserFails, PR!ParserFails, IInv, AMType, LatestInv
<1>4. CASE Environment
    BY <1>4, EnvironmentStep
<1>5. CASE UNCHANGED vars
    BY <1>5 DEF vars, PR!vars, hist, IInv, AMType, LatestInv
<1>6. QED
    BY <1>1, <1>2, <1>3, <1>4, <1>5 DEF Next

THEOREM IInvariant == Spec => []IInv
BY IInvInit, IInvStep, PTL DEF Spec

\* In every step, plays changes only for the query m_waitingToPlay holds.
LEMMA PlaysOnlyWaiting ==
    ASSUME IInv, [Next]_vars, NEW q \in Queries, plays'[q] # plays[q]
    PROVE  waitingToPlay = q /\ UNCHANGED <<origin, fromParser>>
<1>1. PICK s \in Queries : PR!ResolvingFinished(s) /\ UNCHANGED hist
    BY DEF Next, vars, PR!vars, hist, ReceiveLink, SpotifyToPlay, ParserFails,
           Environment, PR!HandlePlayCommand, PR!PlaySpotify, PR!DoQueueAddTrack,
           PR!DoQueueAddUrl, PR!OpenLink, PR!SpotifyToPlay, PR!ParserFails,
           PR!ParserToOpen, PR!RefreshResults, PR!EngineStops, PR!UserPlays
<1>2. QED
    BY <1>1, ResolvingFinishedEffect DEF IInv, AMType, hist

\* For every set of queries and all bounds: a track that handlePlayCommand
\* created itself for a play or bookmark link starts playback only if no
\* later link made handlePlayCommand create a track, whatever order the
\* pipeline and the parsers answer in.
THEOREM DirectLatestWins == Spec => DirectPlayLinkLatestWins
<1>1. IInv /\ [Next]_vars =>
        [\A q \in Queries :
            plays'[q] # plays[q] /\ origin[q] # 0 /\ q \notin fromParser
                => \A r \in Queries \ fromParser : origin[r] <= origin[q]]_vars
  <2> SUFFICES ASSUME IInv, [Next]_vars, NEW q \in Queries, plays'[q] # plays[q],
                      origin[q] # 0, q \notin fromParser
               PROVE  \A r \in Queries \ fromParser : origin[r] <= origin[q]
      OBVIOUS
  <2>1. waitingToPlay = q
      BY PlaysOnlyWaiting
  <2>2. QED
      BY <2>1 DEF IInv, LatestInv
<1>2. QED
    BY <1>1, IInvariant, PTL DEF Spec, DirectPlayLinkLatestWins

=============================================================================
