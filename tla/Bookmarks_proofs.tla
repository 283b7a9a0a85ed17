------------------------- MODULE Bookmarks_proofs -------------------------
(***************************************************************************)
(* Proofs about Bookmarks for every set of queries.                        *)
(*                                                                         *)
(* Type correctness holds whatever Overlap is.  When bookmark commands do  *)
(* not overlap, no bookmark is lost and the assertion of                   *)
(* bookmarkPlaylistCreated holds.  NoBookmarkLost alone is not inductive:  *)
(* a second command could overwrite m_waitingToBookmark, a second creation *)
(* could meet a null m_waitingToBookmark, and a second revision could be   *)
(* built on stale entries.  SeqInv adds what the absence of overlap buys:  *)
(* at most one creation is pending and only while a bookmark waits for it, *)
(* and at most one revision is pending and only when nothing waits.        *)
(***************************************************************************)
EXTENDS Bookmarks, SequenceTheorems, TLAPS


SeqInv ==
    /\ TypeOK
    /\ NoBookmarkLost
    /\ ~asserted
    /\ creates \in {0, 1}
    /\ creates = 1 <=> waitingToBookmark # Null
    /\ waitingToBookmark # Null => pending = << >> /\ connected
    /\ Len(pending) <= 1

-----------------------------------------------------------------------------
(* Type correctness.                                                       *)

LEMMA TypeInit == Init => TypeOK
<1> SUFFICES ASSUME Init PROVE TypeOK
    OBVIOUS
<1>1. bookmarkPl \in BOOLEAN /\ connected \in BOOLEAN /\ toShow \in BOOLEAN
      /\ revConnected \in BOOLEAN /\ asserted \in BOOLEAN
    BY DEF Init
<1>2. creates \in Nat /\ pending \in Seq(SUBSET Queries)
    BY DEF Init
<1>3. entries \subseteq Queries /\ requested \subseteq Queries
      /\ waitingToBookmark \in Queries \cup {Null}
    BY DEF Init
<1>4. QED
    BY <1>1, <1>2, <1>3 DEF TypeOK

\* doBookmark keeps the types of the variables it changes.
LEMMA DoBookmarkType ==
    ASSUME TypeOK, NEW q \in Queries, DoBookmark(q)
    PROVE  /\ pending' \in Seq(SUBSET Queries)
           /\ revConnected' \in BOOLEAN /\ toShow' \in BOOLEAN
           /\ waitingToBookmark' \in Queries \cup {Null}
BY DEF TypeOK, DoBookmark

LEMMA TypeStep == TypeOK /\ [Next]_vars => TypeOK'
<1> SUFFICES ASSUME TypeOK, [Next]_vars PROVE TypeOK'
    OBVIOUS
<1>1. ASSUME NEW q \in Queries, HandleBookmarkCommand(q) PROVE TypeOK'
  <2>1. CASE bookmarkPl
    BY <1>1, <2>1, DoBookmarkType DEF HandleBookmarkCommand, TypeOK
  <2>2. CASE ~bookmarkPl
    BY <1>1, <2>2 DEF HandleBookmarkCommand, TypeOK
  <2>3. QED
    BY <2>1, <2>2
<1>2. CASE BookmarkPlaylistCreated
  <2>1. CASE connected /\ waitingToBookmark = Null
    BY <1>2, <2>1 DEF BookmarkPlaylistCreated, TypeOK
  <2>2. CASE connected /\ waitingToBookmark # Null
    BY <1>2, <2>2, DoBookmarkType DEF BookmarkPlaylistCreated, TypeOK
  <2>3. CASE ~connected
    BY <1>2, <2>3 DEF BookmarkPlaylistCreated, TypeOK
  <2>4. QED
    BY <2>1, <2>2, <2>3
<1>3. CASE RevisionLoaded
  <2>1. pending # << >> /\ entries' = Head(pending) /\ pending' = Tail(pending)
    BY <1>3 DEF RevisionLoaded
  <2>2. entries' \subseteq Queries /\ pending' \in Seq(SUBSET Queries)
    BY <2>1 DEF TypeOK
  <2>3. toShow' \in BOOLEAN
    BY <1>3 DEF RevisionLoaded, TypeOK
  <2>4. QED
    BY <1>3, <2>2, <2>3 DEF RevisionLoaded, TypeOK
<1>4. CASE UNCHANGED vars
    BY <1>4 DEF vars, TypeOK
<1>5. QED
    BY <1>1, <1>2, <1>3, <1>4 DEF Next

\* Every reachable state is well typed, whether or not commands overlap.
THEOREM TypeCorrect == Spec => []TypeOK
BY TypeInit, TypeStep, PTL DEF Spec

-----------------------------------------------------------------------------
(* Bookmark commands that do not overlap.                                  *)

LEMMA SeqInit == Init => SeqInv
<1> SUFFICES ASSUME Init PROVE SeqInv
    OBVIOUS
<1>1. TypeOK
    BY TypeInit
<1>2. Eventual = entries
    BY DEF Init, Eventual
<1>3. QED
    BY <1>1, <1>2 DEF Init, SeqInv, NoBookmarkLost

\* The revision doBookmark requests when none is pending becomes the final
\* entry list.
LEMMA DoBookmarkEventual ==
    ASSUME TypeOK, NEW q \in Queries, pending = << >>, DoBookmark(q)
    PROVE  /\ pending' = << entries \cup {q} >>
           /\ Eventual' = entries \cup {q}
           /\ waitingToBookmark' = Null
BY DEF TypeOK, DoBookmark, Eventual

\* A non-empty sequence of length at most one is a one-element sequence.
LEMMA SingletonSeq ==
    ASSUME NEW S, NEW s \in Seq(S), s # << >>, Len(s) <= 1
    PROVE  s[1] \in S /\ s = << s[1] >>
<1>1. Len(s) = 1
  <2>1. Len(s) \in Nat /\ Len(s) # 0
    BY EmptySeq, LenProperties
  <2>2. QED
    BY <2>1
<1>2. QED
    BY <1>1, LenProperties

LEMMA SeqStep == ~Overlap /\ SeqInv /\ [Next]_vars => SeqInv'
<1> SUFFICES ASSUME ~Overlap, SeqInv, [Next]_vars PROVE SeqInv'
    OBVIOUS
<1>0. TypeOK'
    BY TypeStep DEF SeqInv
<1> USE DEF SeqInv
<1>1. ASSUME NEW q \in Queries, HandleBookmarkCommand(q) PROVE SeqInv'
  <2>1. creates = 0 /\ pending = << >> /\ waitingToBookmark = Null
    BY <1>1 DEF HandleBookmarkCommand
  <2>2. requested \subseteq entries
    BY <2>1, BookmarkNullAssumption DEF NoBookmarkLost, Eventual, TypeOK
  <2>3. CASE bookmarkPl
    <3>0. DoBookmark(q)
      BY <1>1, <2>3 DEF HandleBookmarkCommand
    <3>1. /\ pending' = << entries \cup {q} >>
          /\ Eventual' = entries \cup {q}
          /\ waitingToBookmark' = Null
      BY <2>1, <3>0, DoBookmarkEventual
    <3>2. NoBookmarkLost'
      BY <1>1, <2>2, <3>1 DEF HandleBookmarkCommand, NoBookmarkLost
    <3>3. QED
      BY <1>0, <1>1, <2>1, <2>3, <3>1, <3>2 DEF HandleBookmarkCommand
  <2>4. CASE ~bookmarkPl
    <3>1. Eventual' = entries
      BY <1>1, <2>1, <2>4 DEF HandleBookmarkCommand, Eventual
    <3>2. NoBookmarkLost'
      BY <1>1, <2>2, <2>4, <3>1 DEF HandleBookmarkCommand, NoBookmarkLost
    <3>3. QED
      BY <1>0, <1>1, <2>1, <2>4, <3>2, BookmarkNullAssumption
      DEF HandleBookmarkCommand
  <2>5. QED
    BY <2>3, <2>4
<1>2. CASE BookmarkPlaylistCreated
  <2>1. /\ creates = 1 /\ waitingToBookmark \in Queries
        /\ pending = << >> /\ connected
    BY <1>2 DEF BookmarkPlaylistCreated, TypeOK
  <2>2. DoBookmark(waitingToBookmark) /\ creates' = 0
    BY <1>2, <2>1 DEF BookmarkPlaylistCreated
  <2>3. /\ pending' = << entries \cup {waitingToBookmark} >>
        /\ Eventual' = entries \cup {waitingToBookmark}
        /\ waitingToBookmark' = Null
    BY <2>1, <2>2, DoBookmarkEventual
  <2>4. NoBookmarkLost'
    BY <1>2, <2>1, <2>3 DEF BookmarkPlaylistCreated, NoBookmarkLost, Eventual
  <2>5. QED
    BY <1>0, <1>2, <2>1, <2>2, <2>3, <2>4 DEF BookmarkPlaylistCreated
<1>3. CASE RevisionLoaded
  <2>1. PICK x \in SUBSET Queries : pending = << x >>
    <3>1. pending \in Seq(SUBSET Queries) /\ pending # << >> /\ Len(pending) <= 1
      BY <1>3 DEF RevisionLoaded, TypeOK
    <3>2. QED
      BY <3>1, SingletonSeq
  <2>2. entries' = x /\ pending' = << >>
    BY <1>3, <2>1 DEF RevisionLoaded
  <2>5. waitingToBookmark = Null
    BY <2>1
  <2>3. Eventual = x /\ Eventual' = x
    BY <2>1, <2>2 DEF Eventual
  <2>4. QED
    BY <1>0, <1>3, <2>2, <2>3, <2>5 DEF RevisionLoaded, NoBookmarkLost
<1>4. CASE UNCHANGED vars
    BY <1>0, <1>4 DEF vars, NoBookmarkLost, Eventual
<1>5. QED
    BY <1>1, <1>2, <1>3, <1>4 DEF Next

\* When each bookmark command arrives after the previous one has been
\* completed, every bookmarked track (including those already in the
\* playlist) stays in the bookmarks playlist or is still waiting for it:
\* handleBookmarkCommand, bookmarkPlaylistCreated and doBookmark lose
\* nothing.
THEOREM SequentialNoBookmarkLost == ~Overlap => (Spec => []NoBookmarkLost)
<1> SUFFICES ASSUME ~Overlap PROVE Spec => []NoBookmarkLost
    OBVIOUS
<1>1. SeqInv /\ [Next]_vars => SeqInv'
    BY SeqStep
<1>2. QED
    BY SeqInit, <1>1, PTL DEF Spec, SeqInv

\* Without overlapping commands, bookmarkPlaylistCreated never runs with a
\* null m_waitingToBookmark, so its Q_ASSERT holds.
THEOREM SequentialAssertHolds == ~Overlap => (Spec => []BookmarkAssertHolds)
<1> SUFFICES ASSUME ~Overlap PROVE Spec => []BookmarkAssertHolds
    OBVIOUS
<1>1. SeqInv /\ [Next]_vars => SeqInv'
    BY SeqStep
<1>2. QED
    BY SeqInit, <1>1, PTL DEF Spec, SeqInv, BookmarkAssertHolds

=============================================================================
