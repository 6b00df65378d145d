--------------------------- MODULE MCUserRequests ---------------------------
(***************************************************************************)
(* Small instances of InboxMutations and of Subscriptions for TLC.  The    *)
(* two share no state and no property speaks of both, so either is         *)
(* explored while the other is still in its initial state: what            *)
(* interleaving them would add is pairs of states already seen.  Inbox     *)
(* requests are interchangeable.                                           *)
(***************************************************************************)
EXTENDS InboxMutations, Subscriptions, TLC

CONSTANTS r1, r2

Symmetry == Permutations(Requests)

MCInit == Init /\ ToggleInit

MCNext ==
    \/ Next /\ toggles = 0 /\ UNCHANGED toggleVars
    \/ ToggleNext /\ notes = 0 /\ started = 0 /\ UNCHANGED vars

MCSpec == MCInit /\ [][MCNext]_<<vars, toggleVars>>
=============================================================================
