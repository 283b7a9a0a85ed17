-------------------------- MODULE LinkRouter_proofs --------------------------
(***************************************************************************)
(* Proofs about the router for every command, not only the bounded ones    *)
(* LinkRouterCheck enumerates.  Each branch of every handler is guarded by *)
(* a test of the parameters its effect needs, so the required parameters   *)
(* hold whichever branch a command takes, whatever its path and values.   *)
(***************************************************************************)
EXTENDS LinkRouterCheck, TLAPS

\* doQueueAdd starts a queue effect only with its parameter present.
LEMMA DoQueueAddRequired ==
    ASSUME NEW c, NEW ps
    PROVE  RequiredFor(DoQueueAdd(c, ps).effect, c)
BY DEF DoQueueAdd, QueueSpotify, Route, Rejected, RequiredFor, Has, NonEmpty

LEMMA PlaylistRequired ==
    ASSUME NEW c
    PROVE  RequiredFor(HandlePlaylistCommand(c).effect, c)
BY DEF HandlePlaylistCommand, Route, Rejected, RequiredFor

\* handleQueueCommand keeps doQueueAdd's effect and drops its result.
LEMMA QueueRequired ==
    ASSUME NEW c
    PROVE  RequiredFor(HandleQueueCommand(c).effect, c)
<1>1. CASE c.parts # << >> /\ c.parts[1] = "add"
    <2>1. HandleQueueCommand(c).effect = DoQueueAdd(c, Tail(c.parts)).effect
        BY <1>1 DEF HandleQueueCommand, Route
    <2>2. QED
        BY <2>1, DoQueueAddRequired
<1>2. CASE ~(c.parts # << >> /\ c.parts[1] = "add")
    BY <1>2 DEF HandleQueueCommand, Rejected, Route, RequiredFor
<1>3. QED
    BY <1>1, <1>2

LEMMA OpenRequired ==
    ASSUME NEW c
    PROVE  RequiredFor(HandleOpenCommand(c).effect, c)
<1>1. CASE c.parts = << >>
    BY <1>1 DEF HandleOpenCommand, Rejected, Route, RequiredFor
<1>2. CASE c.parts # << >>
    BY <1>2, DoQueueAddRequired DEF HandleOpenCommand
<1>3. QED
    BY <1>1, <1>2

LEMMA DynamicPlaylistRequired ==
    ASSUME NEW c, NEW station \in BOOLEAN
    PROVE  RequiredFor(LoadDynamicPlaylist(c, station).effect, c)
BY DEF LoadDynamicPlaylist, Route, Rejected, RequiredFor

\* handleSearchCommand searches only when one of the fields is present.
LEMMA SearchRequired ==
    ASSUME NEW c
    PROVE  RequiredFor(HandleSearchCommand(c).effect, c)
<1> DEFINE present == {k \in {"artist", "album", "title"} : Has(c, k)}
<1>1. CASE present = {}
    BY <1>1 DEF HandleSearchCommand, Rejected, Route, RequiredFor
<1>2. CASE present # {}
    <2>1. HandleSearchCommand(c).effect \in {"none", "search"}
        BY DEF HandleSearchCommand, Rejected, Route
    <2>2. \E k \in {"artist", "album", "title"} : Has(c, k)
        BY <1>2
    <2>3. QED
        BY <2>1, <2>2 DEF RequiredFor
<1>3. QED
    BY <1>1, <1>2

LEMMA PlayRequired ==
    ASSUME NEW c
    PROVE  RequiredFor(HandlePlayCommand(c).effect, c)
BY DEF HandlePlayCommand, Route, Rejected, RequiredFor

\* For every command, whatever its category, path and parameters,
\* parseTomahawkLink and the handler it dispatches to start an import, a
\* playlist, a station, a search or a queue insertion only with the
\* parameters spec section 4.4 requires for it.
THEOREM RouterEnforcesRequired ==
    \A c : RequiredFor(ParseTomahawkLink(c).effect, c)
<1> SUFFICES ASSUME NEW c PROVE RequiredFor(ParseTomahawkLink(c).effect, c)
    OBVIOUS
<1> DEFINE t == CmdType(c)
<1>1. CASE t = "load" /\ (Has(c, "xspf") \/ Has(c, "jspf"))
    BY <1>1 DEF ParseTomahawkLink, Route, RequiredFor
<1>2. CASE ~(t = "load" /\ (Has(c, "xspf") \/ Has(c, "jspf")))
    <2>1. ParseTomahawkLink(c).effect \in
            { HandlePlaylistCommand(c).effect, HandleCollectionCommand(c).effect,
              HandleQueueCommand(c).effect, LoadDynamicPlaylist(c, TRUE).effect,
              LoadDynamicPlaylist(c, FALSE).effect, HandleSearchCommand(c).effect,
              HandlePlayCommand(c).effect, HandleOpenCommand(c).effect,
              Rejected.effect }
        BY <1>2 DEF ParseTomahawkLink
    <2>2. RequiredFor(HandleCollectionCommand(c).effect, c) /\ RequiredFor(Rejected.effect, c)
        BY DEF HandleCollectionCommand, Rejected, Route, RequiredFor
    <2>3. QED
        BY <2>1, <2>2, PlaylistRequired, QueueRequired, DynamicPlaylistRequired,
           SearchRequired, PlayRequired, OpenRequired
<1>3. QED
    BY <1>1, <1>2

\* RequiredParamsEnforced holds in every state of the LinkRouterCheck run,
\* for every set of heads and parameter combinations.
THEOREM RequiredParamsAlways == Spec => []RequiredParamsEnforced
<1>1. RequiredParamsEnforced
    BY RouterEnforcesRequired DEF RequiredParamsEnforced
<1>2. QED
    BY <1>1, PTL
=============================================================================
