------------------------- MODULE SnapshotFollower -------------------------
(***************************************************************************)
(* What a feed of changes promises its reader: whoever applies the events  *)
(* to what he knew holds, after each of them, either what he held before   *)
(* or the whole truth of that moment, never a mixture of two states and    *)
(* never a state that was not.  A new feed starts from nothing.            *)
(***************************************************************************)
CONSTANTS Truth,    \* the states of what is followed
          Nothing   \* what is known before the first look

VARIABLES truth, view

Init == truth \in Truth /\ view = Nothing

\* The truth changes beside the feed.
Change == truth' \in Truth /\ UNCHANGED view

\* The feed catches up with the truth as it is now.
Sync == view' = truth /\ UNCHANGED truth

\* A new feed takes over.
Restart == view' = Nothing /\ UNCHANGED truth

Next == Change \/ Sync \/ Restart

Spec == Init /\ [][Next]_<<truth, view>>
=============================================================================
