---------------------------- MODULE ResolutionSlot ----------------------------
(***************************************************************************)
(* The promise of the ResolutionCoordinator (spec section 4.5) for the     *)
(* slot of the requests that end in playback: registering a request makes  *)
(* it the slot's only authoritative one, and only the request held by the  *)
(* slot can start playback, once, emptying the slot.  A pending request    *)
(* may also be dropped from the slot without an effect.                    *)
(***************************************************************************)
EXTENDS Naturals

CONSTANTS
    Queries,   \* the requests (their track queries)
    Null       \* the empty slot

VARIABLES
    slot,      \* the authoritative request, or Null
    plays      \* per request: how many times it started playback

Init ==
    /\ slot = Null
    /\ plays = [q \in Queries |-> 0]

\* A new request supersedes whatever the slot held.
Register(q) ==
    /\ slot' = q
    /\ UNCHANGED plays

\* The pending request is given up without an effect.
Abandon ==
    /\ slot # Null
    /\ slot' = Null
    /\ UNCHANGED plays

\* The pending request completes with a playable track: playback starts
\* for it and the slot is empty again.
Complete ==
    /\ slot # Null
    /\ plays' = [plays EXCEPT ![slot] = @ + 1]
    /\ slot' = Null

Next ==
    \/ \E q \in Queries : Register(q)
    \/ Abandon
    \/ Complete

Spec == Init /\ [][Next]_<<slot, plays>>

=============================================================================
