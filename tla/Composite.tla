----------------------------- MODULE Composite -----------------------------
(***************************************************************************)
(* CompositeStrategy.on_bar (strategies/composite/strategy.py) at every    *)
(* close of a scheduled replay.  Members vote by signalling; the newest    *)
(* vote of a member counts for window_bars base bars of time; a setup is   *)
(* announced on the edge of its tree.                                      *)
(***************************************************************************)
EXTENDS VoteTrees, Contexts

CONSTANTS
  FrameOf,     \* the frame each member is decided on
  WindowBars,  \* spec["window_bars"]
  MaxCasts     \* bound: the votes of one behaviour

VARIABLES
  votes,    \* per side and member: the time of its newest vote, or None
  passing,  \* per side: did the tree pass at the last close?
  decided,  \* history: on which row each frame was decided, and when
  cast,     \* history: every vote
  setups    \* history: every edge, and whether rr_signal built a signal of it

vars == <<labels, step, votes, passing, decided, cast, setups>>

ASSUME CompositeAssumption ==
  /\ FrameOf \in [Members -> Frames]
  /\ WindowBars \in 1..20
  /\ MaxCasts \in Nat

Window == WindowBars * BaseStep

Init ==
  /\ ContextsInit
  /\ votes = [side \in Sides |-> [m \in Members |-> None]]
  /\ passing = [side \in Sides |-> FALSE]
  /\ decided = {} /\ cast = {} /\ setups = {}

\* The members asked at the close of i that may answer.
Deciding(i) == {m \in Members : Decides(FrameOf[m], i)}

\* A member's vote replaces its last one on that side.
Voted(ballots, at) ==
  [side \in Sides |-> [m \in Members |-> IF <<side, m>> \in ballots THEN at ELSE votes[side][m]]]

Live(ballot, at) == {m \in Members : ballot[m] # None /\ at - ballot[m] < Window}

Passing(side, live) == HasTree(side) /\ Passes(side, live)

\* Mutant: the edge is only remembered when a signal came of it.
RememberedIfSent(side, passes, sent) == passes /\ (sent \/ passing[side])

\* What the side's flag remembers of this close, whatever became of the edge.
Remembered(side, passes, sent) == passes

\* The live members of a side once the ballots are in, and the sides whose
\* tree passes now and did not at the last close.
LiveAfter(ballots, at, side) == Live(Voted(ballots, at)[side], at)
Edges(ballots, at) ==
  {side \in Sides : Passing(side, LiveAfter(ballots, at, side)) /\ ~passing[side]}

\* Each edge is a setup; rr_signal may build a signal of it or decline.
Announce(ballots, at) ==
  \E sent \in SUBSET Edges(ballots, at) :
    /\ passing' = [side \in Sides |->
         Remembered(side, Passing(side, LiveAfter(ballots, at, side)), side \in sent)]
    /\ setups' = setups \cup
         {[side |-> side, at |-> at, voters |-> LiveAfter(ballots, at, side) \cap BlockIds(side),
           sent |-> side \in sent] : side \in Edges(ballots, at)}

\* on_bar at the close of the next interval.
OnBar ==
  /\ NextClose
  /\ \E ballots \in SUBSET (Sides \X Deciding(step + 1)) :
       LET at == Closes[step + 1] IN
       /\ Cardinality(cast) + Cardinality(ballots) <= MaxCasts
       /\ votes' = Voted(ballots, at)
       /\ cast' = cast \cup {[side |-> b[1], member |-> b[2], at |-> at] : b \in ballots}
       /\ Announce(ballots, at)
  /\ decided' = decided \cup
       {[frame |-> tf, row |-> Newest(tf, step + 1), at |-> Closes[step + 1]] :
          tf \in {f \in Frames : Decides(f, step + 1)}}

Finished == step = LastTest /\ UNCHANGED vars

Next == OnBar \/ Finished

Spec == Init /\ [][Next]_vars
=============================================================================
