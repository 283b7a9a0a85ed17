------------------------ MODULE PlayResolution_proofs ------------------------
(***************************************************************************)
(* Proofs about PlayResolution for every set of queries and every bound.   *)
(*                                                                         *)
(* AtMostOnePlayPerRequest and PlayOnlyForLatest are not inductive as      *)
(* they stand: a query could be registered a second time, or the remembered*)
(* query could differ from the last registration.  IInv adds what the code *)
(* guarantees about these: only a fresh ("free") query is registered, a    *)
(* fresh query has never played and is not the last registration, the     *)
(* remembered query is the last registration or null, and a query that    *)
(* has played is no longer remembered.                                     *)
(***************************************************************************)
EXTENDS PlayResolution, TLAPS

\* The strengthened invariant.
IInv ==
    /\ TypeOK
    /\ waitingToPlay \in {Null, lastReg}
    /\ \A q \in Queries : qstate[q] = "free" => plays[q] = 0 /\ q # lastReg
    /\ \A q \in Queries : plays[q] <= 1 /\ (plays[q] = 1 => waitingToPlay # q)

USE NullAssumption, BoundsAssumption

-----------------------------------------------------------------------------
(* Type correctness.                                                       *)

LEMMA TypeInit == Init => TypeOK
<1> SUFFICES ASSUME Init PROVE TypeOK
    OBVIOUS
<1>1. playable \in [Queries -> BOOLEAN] /\ playing \in BOOLEAN
    BY DEF Init
<1>2. /\ qstate \in [Queries -> QueryStates]
      /\ resolves \in [Queries -> 0..MaxResolves]
      /\ parsers \in [ParserSlots -> Nat]
      /\ launched \in 0..MaxParsers
      /\ plays \in [Queries -> Nat]
    BY DEF Init, QueryStates, ParserSlots
<1>3. /\ conns \subseteq Queries /\ queued \subseteq Queries
      /\ waitingToPlay \in Queries \cup {Null} /\ lastReg \in Queries \cup {Null}
    BY DEF Init
<1>4. QED
    BY <1>1, <1>2, <1>3 DEF TypeOK

LEMMA TypeStep == TypeOK /\ [Next]_vars => TypeOK'
<1> SUFFICES ASSUME TypeOK, [Next]_vars PROVE TypeOK'
    OBVIOUS
<1> USE DEF TypeOK, QueryStates, ParserSlots
<1>1. ASSUME NEW q \in Queries, HandlePlayCommand(q) PROVE TypeOK'
    BY <1>1 DEF HandlePlayCommand, CreateAndResolve, Register
<1>2. ASSUME NEW q \in Queries, SpotifyToPlay(q) PROVE TypeOK'
    BY <1>2 DEF SpotifyToPlay, CreateAndResolve, Register
<1>3. ASSUME NEW q \in Queries, DoQueueAddTrack(q) PROVE TypeOK'
    BY <1>3 DEF DoQueueAddTrack, CreateAndResolve, HandleOpenTrack, Register
<1>4. ASSUME NEW q \in Queries, DoQueueAddUrl(q) PROVE TypeOK'
    BY <1>4 DEF DoQueueAddUrl, CreateAndResolve
<1>5. ASSUME NEW q \in Queries, ParserToOpen(q) PROVE TypeOK'
    BY <1>5 DEF ParserToOpen, CreateAndResolve, HandleOpenTrack, Register
<1>6. ASSUME NEW q \in Queries, ResolvingFinished(q) PROVE TypeOK'
  <2>1. PICK p \in BOOLEAN :
            /\ qstate' = [qstate EXCEPT ![q] = "idle"]
            /\ playable' = [playable EXCEPT ![q] = p]
            /\ IF q \in conns
                  THEN WaitingForResolved(q, p)
                  ELSE UNCHANGED <<waitingToPlay, playing, plays>>
    BY <1>6 DEF ResolvingFinished
  <2>2. playing' \in BOOLEAN
    BY <2>1 DEF WaitingForResolved
  <2>3. waitingToPlay' \in Queries \cup {Null} /\ plays' \in [Queries -> Nat]
    BY <2>1 DEF WaitingForResolved
  <2>4. QED
    BY <1>6, <2>1, <2>2, <2>3 DEF ResolvingFinished
<1>7. ASSUME NEW q \in Queries, RefreshResults(q) PROVE TypeOK'
    BY <1>7 DEF RefreshResults
<1>8. CASE PlaySpotify
    BY <1>8 DEF PlaySpotify, StartParser
<1>9. CASE OpenLink
    BY <1>9 DEF OpenLink, StartParser
<1>10. ASSUME NEW s \in ParserSlots, ParserFails(s) PROVE TypeOK'
    BY <1>10 DEF ParserFails
<1>11. CASE EngineStops
    BY <1>11 DEF EngineStops
<1>12. CASE UserPlays
    BY <1>12 DEF UserPlays
<1>13. CASE UNCHANGED vars
    BY <1>13 DEF vars
<1>14. QED
    BY <1>1, <1>2, <1>3, <1>4, <1>5, <1>6, <1>7, <1>8, <1>9, <1>10, <1>11,
       <1>12, <1>13 DEF Next

\* Every reachable state is well typed.
THEOREM TypeCorrect == Spec => []TypeOK
BY TypeInit, TypeStep, PTL DEF Spec

-----------------------------------------------------------------------------
(* The inductive invariant.                                                *)

LEMMA IInvInit == Init => IInv
BY TypeInit DEF Init, IInv

LEMMA IInvStep == IInv /\ [Next]_vars => IInv'
<1> SUFFICES ASSUME IInv, [Next]_vars PROVE IInv'
    OBVIOUS
<1>0. TypeOK /\ TypeOK'
    BY TypeStep DEF IInv
<1> USE DEF IInv, TypeOK
<1>1. ASSUME NEW q \in Queries, HandlePlayCommand(q) PROVE IInv'
    BY <1>0, <1>1 DEF HandlePlayCommand, CreateAndResolve, Register
<1>2. ASSUME NEW q \in Queries, SpotifyToPlay(q) PROVE IInv'
    BY <1>0, <1>2 DEF SpotifyToPlay, CreateAndResolve, Register
<1>3. ASSUME NEW q \in Queries, DoQueueAddTrack(q) PROVE IInv'
    BY <1>0, <1>3 DEF DoQueueAddTrack, CreateAndResolve, HandleOpenTrack, Register
<1>4. ASSUME NEW q \in Queries, DoQueueAddUrl(q) PROVE IInv'
    BY <1>0, <1>4 DEF DoQueueAddUrl, CreateAndResolve
<1>5. ASSUME NEW q \in Queries, ParserToOpen(q) PROVE IInv'
    BY <1>0, <1>5 DEF ParserToOpen, CreateAndResolve, HandleOpenTrack, Register
<1>6. ASSUME NEW q \in Queries, ResolvingFinished(q) PROVE IInv'
  <2>1. PICK p \in BOOLEAN :
            /\ qstate' = [qstate EXCEPT ![q] = "idle"]
            /\ playable' = [playable EXCEPT ![q] = p]
            /\ IF q \in conns
                  THEN WaitingForResolved(q, p)
                  ELSE UNCHANGED <<waitingToPlay, playing, plays>>
    BY <1>6 DEF ResolvingFinished
  <2>2. UNCHANGED <<lastReg, resolves, conns>>
    BY <1>6 DEF ResolvingFinished
  <2>3. CASE q \notin conns
    BY <1>0, <2>1, <2>2, <2>3
  <2>4. CASE q \in conns /\ waitingToPlay # q
    BY <1>0, <2>1, <2>2, <2>4 DEF WaitingForResolved
  <2>5. CASE q \in conns /\ waitingToPlay = q /\ p
    BY <1>0, <2>1, <2>2, <2>5 DEF WaitingForResolved
  <2>6. CASE q \in conns /\ waitingToPlay = q /\ ~p
    BY <1>0, <2>1, <2>2, <2>6 DEF WaitingForResolved
  <2>7. QED
    BY <2>3, <2>4, <2>5, <2>6
<1>7. ASSUME NEW q \in Queries, RefreshResults(q) PROVE IInv'
    BY <1>0, <1>7 DEF RefreshResults
<1>8. CASE PlaySpotify \/ OpenLink
    BY <1>0, <1>8 DEF PlaySpotify, OpenLink, StartParser
<1>9. ASSUME NEW s \in ParserSlots, ParserFails(s) PROVE IInv'
    BY <1>0, <1>9 DEF ParserFails
<1>10. CASE EngineStops \/ UserPlays
    BY <1>0, <1>10 DEF EngineStops, UserPlays
<1>11. CASE UNCHANGED vars
    BY <1>0, <1>11 DEF vars
<1>12. QED
    BY <1>1, <1>2, <1>3, <1>4, <1>5, <1>6, <1>7, <1>8, <1>9, <1>10, <1>11
    DEF Next

\* IInv holds in every reachable state.
THEOREM IInvariant == Spec => []IInv
BY IInvInit, IInvStep, PTL DEF Spec

-----------------------------------------------------------------------------
(* The properties checked by the MC_PlayResolution run.                    *)

\* A play or open request starts the audio engine at most once, whatever
\* the number of queries, of re-resolutions and of parsers.
THEOREM AtMostOnePlay == Spec => []AtMostOnePlayPerRequest
<1>1. IInv => AtMostOnePlayPerRequest
    BY DEF IInv, AtMostOnePlayPerRequest
<1>2. QED
    BY <1>1, IInvariant, PTL

\* waitingForResolved calls AudioEngine::play() only in the callback of the
\* most recent registration, and only when that query is playable.
THEOREM PlayOnlyForLatestHolds == Spec => PlayOnlyForLatest
<1>1. IInv /\ [Next]_vars
        => [\A q \in Queries : plays'[q] # plays[q] => q = lastReg /\ playable'[q]]_vars
  <2> SUFFICES ASSUME IInv, [Next]_vars, NEW q \in Queries, plays'[q] # plays[q]
               PROVE q = lastReg /\ playable'[q]
      BY DEF vars
  <2> USE DEF IInv, TypeOK
  <2>1. ResolvingFinished(q)
    BY DEF Next, vars, HandlePlayCommand, SpotifyToPlay, DoQueueAddTrack,
           DoQueueAddUrl, ParserToOpen, RefreshResults, PlaySpotify, OpenLink,
           ParserFails, EngineStops, UserPlays, ResolvingFinished,
           WaitingForResolved, CreateAndResolve, HandleOpenTrack, Register,
           StartParser
  <2>2. PICK p \in BOOLEAN :
            /\ playable' = [playable EXCEPT ![q] = p]
            /\ IF q \in conns
                  THEN WaitingForResolved(q, p)
                  ELSE UNCHANGED <<waitingToPlay, playing, plays>>
    BY <2>1 DEF ResolvingFinished
  <2>3. q \in conns /\ waitingToPlay = q /\ p
    BY <2>2 DEF WaitingForResolved
  <2>4. QED
    BY <2>2, <2>3, NullAssumption
<1>2. QED
    BY <1>1, IInvariant, PTL DEF Spec, PlayOnlyForLatest

-----------------------------------------------------------------------------
(* Refinement: GlobalActionManager implements the slot of spec section 4.5 *)
(* under the mapping slot <- m_waitingToPlay.                               *)

SlotVars == <<waitingToPlay, plays>>

\* A registration (m_waitingToPlay = q) is the slot's Register.
LEMMA RegisterStep ==
    ASSUME NEW q \in Queries, Register(q), UNCHANGED plays
    PROVE  [Slot!Next]_SlotVars
BY DEF Register, Slot!Next, Slot!Register

\* handleOpenTrack registers the query only when the engine is idle.
LEMMA OpenTrackStep ==
    ASSUME NEW q \in Queries, HandleOpenTrack(q), UNCHANGED plays
    PROVE  [Slot!Next]_SlotVars
<1>1. CASE ~playing
    BY <1>1, RegisterStep DEF HandleOpenTrack
<1>2. CASE playing
    BY <1>2 DEF HandleOpenTrack, SlotVars
<1>3. QED
    BY <1>1, <1>2

\* The resolvingFinished emission of q, with waitingForResolved if q is
\* connected: a foreign sender abandons the slot, the held query completes
\* when playable, and an unplayable one leaves the slot as it is.
LEMMA ResolvingFinishedStep ==
    ASSUME TypeOK, NEW q \in Queries, ResolvingFinished(q)
    PROVE  [Slot!Next]_SlotVars
<1>1. PICK p \in BOOLEAN :
          IF q \in conns
             THEN WaitingForResolved(q, p)
             ELSE UNCHANGED <<waitingToPlay, playing, plays>>
    BY DEF ResolvingFinished
<1>2. CASE q \notin conns
    BY <1>1, <1>2 DEF SlotVars
<1>3. CASE q \in conns /\ waitingToPlay # q /\ waitingToPlay = Null
    BY <1>1, <1>3 DEF WaitingForResolved, SlotVars
<1>4. CASE q \in conns /\ waitingToPlay # q /\ waitingToPlay # Null
    BY <1>1, <1>4 DEF WaitingForResolved, Slot!Next, Slot!Abandon
<1>5. CASE q \in conns /\ waitingToPlay = q /\ p
    <2>1. waitingToPlay # Null
        BY <1>5, NullAssumption
    <2>2. Slot!Complete
        BY <1>1, <1>5, <2>1 DEF WaitingForResolved, Slot!Complete
    <2>3. QED
        BY <2>2 DEF Slot!Next
<1>6. CASE q \in conns /\ waitingToPlay = q /\ ~p
    BY <1>1, <1>6 DEF WaitingForResolved, SlotVars
<1>7. QED
    BY <1>2, <1>3, <1>4, <1>5, <1>6

LEMMA SlotInit == Init => Slot!Init
BY DEF Init, Slot!Init

LEMMA SlotStep == TypeOK /\ [Next]_vars => [Slot!Next]_SlotVars
<1> SUFFICES ASSUME TypeOK, [Next]_vars PROVE [Slot!Next]_SlotVars
    OBVIOUS
<1>1. ASSUME NEW q \in Queries, HandlePlayCommand(q) \/ SpotifyToPlay(q)
      PROVE  [Slot!Next]_SlotVars
    BY <1>1, RegisterStep DEF HandlePlayCommand, SpotifyToPlay
<1>2. ASSUME NEW q \in Queries, DoQueueAddTrack(q) \/ ParserToOpen(q)
      PROVE  [Slot!Next]_SlotVars
    BY <1>2, OpenTrackStep DEF DoQueueAddTrack, ParserToOpen
<1>3. ASSUME NEW q \in Queries, ResolvingFinished(q) PROVE [Slot!Next]_SlotVars
    BY <1>3, ResolvingFinishedStep
<1>4. ASSUME NEW q \in Queries, DoQueueAddUrl(q) \/ RefreshResults(q)
      PROVE  [Slot!Next]_SlotVars
    BY <1>4 DEF DoQueueAddUrl, RefreshResults, SlotVars
<1>5. CASE PlaySpotify \/ OpenLink \/ (\E s \in ParserSlots : ParserFails(s))
           \/ EngineStops \/ UserPlays \/ UNCHANGED vars
    BY <1>5 DEF PlaySpotify, OpenLink, ParserFails, EngineStops, UserPlays,
       vars, SlotVars
<1>6. QED
    BY <1>1, <1>2, <1>3, <1>4, <1>5 DEF Next

\* For every set of queries and all bounds, GlobalActionManager keeps the
\* promise of spec section 4.5 for its slot m_waitingToPlay: only the held
\* query starts playback, which clears the slot, and the slot otherwise
\* changes only by a registration or by being cleared.
THEOREM SlotRefinement == Spec => ImplementsSlot
BY TypeCorrect, SlotInit, SlotStep, PTL DEF Spec, ImplementsSlot, Slot!Spec, SlotVars

=============================================================================
