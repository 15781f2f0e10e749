------------------------ MODULE CompositeProperties ------------------------
(* What must hold of a composite in a scheduled replay. *)
EXTENDS Composite

\* The rows and closes a play on a frame decides at are the observations the
\* information coefficient grades it on, none missing but a frame's first
\* row: the gate of engine/context.py (the newest released row is fresh now)
\* and the list of engine/ic.py (every fresh instant inside the window) are
\* two readings of one schedule.
DecidedIsObserved ==
  \A tf \in Frames :
    {d \in decided : d.frame = tf} =
      {o \in Observations(tf) : o.at <= Now /\ \E l \in Rows(tf) : l < o.row}

\* A composite announces a setup exactly when the votes within the window
\* complete its tree and did not at the close before, although it keeps one
\* vote per member and one flag per side (on_bar, whatever rr_signal built).
Promise == INSTANCE Confluence WITH at <- IF step < FirstTest THEN None ELSE Closes[step]
ImplementsConfluence == Promise!Spec

\* "A vote cast on bar i stays live through bar i + window_bars - 1"
\* (strategies/composite/strategy.py:126), bars being those of the replay.
VotesLiveByBars ==
  \A side \in Sides, m \in Members : \A i \in FirstTest..step :
    votes[side][m] = Closes[i] /\ step < i + WindowBars => m \in Live(votes[side], Closes[step])

-----------------------------------------------------------------------------
\* The strengthening: votes and flags are what the history of casts says.

VotesAreNewest ==
  \A side \in Sides, m \in Members :
    LET mine == {v \in cast : v.side = side /\ v.member = m} IN
    IF votes[side][m] = None THEN mine = {}
    ELSE /\ \E v \in mine : v.at = votes[side][m]
         /\ \A v \in mine : v.at <= votes[side][m]

FlagsAreComplete ==
  \A side \in Sides :
    passing[side] <=> Promise!Complete(cast, side, IF step < FirstTest THEN None ELSE Closes[step])
=============================================================================
