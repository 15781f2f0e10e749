---------------------------- MODULE Confluence -----------------------------
(***************************************************************************)
(* What a composite promises (strategies/composite): a setup is announced  *)
(* at a close exactly when the votes cast within the window satisfy its    *)
(* side's tree there and did not at the close before.  It names the        *)
(* tree's members among the voters, and has one chance to become a signal. *)
(***************************************************************************)
EXTENDS VoteTrees

CONSTANTS
  None,
  Window,  \* how long a vote counts
  Times    \* the closes

VARIABLES
  at,      \* the last close, None before the first
  cast,    \* every vote ever cast: [side, member, at]
  setups   \* every setup announced: [side, at, voters, sent]

vars == <<at, cast, setups>>

\* The members with a vote of `votes` for the side inside the window at t.
Voters(votes, side, t) ==
  {m \in Members : \E v \in votes : v.side = side /\ v.member = m /\ t - v.at < Window}

Complete(votes, side, t) ==
  t # None /\ HasTree(side) /\ Passes(side, Voters(votes, side, t))

Init == at = None /\ cast = {} /\ setups = {}

Vote ==
  /\ at' \in Times /\ (at # None => at < at')
  /\ cast \subseteq cast' /\ cast' \ cast \subseteq [side : Sides, member : Members, at : {at'}]
  /\ \E sent \in SUBSET Sides :
       setups' = setups \cup
         {[side |-> side, at |-> at', voters |-> Voters(cast', side, at') \cap BlockIds(side),
           sent |-> side \in sent] :
            side \in {s \in Sides : Complete(cast', s, at') /\ ~Complete(cast, s, at)}}

Spec == Init /\ [][Vote]_vars
=============================================================================
