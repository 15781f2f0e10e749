------------------------- MODULE BoundaryProperties -------------------------
(***************************************************************************)
(* What a position may rely on behind the boundary.                        *)
(***************************************************************************)
EXTENDS Boundary

\* The levels the closes of a position's life called for, read off its
\* history: its entry from a close that had gained enough, and the trailing
\* level of a close whose distance was known.  A close whose trailing distance
\* is nil calls for nothing.
CalledFor ==
  LET direction == position.direction
      Gained(c) == play.exits.breakeven_at # None /\
        Side(direction) * (c - position.entry)
          >= play.exits.breakeven_at * Abs(position.entry - position.initial_stop)
  IN  UNION {(IF Gained(m[1]) THEN {position.entry} ELSE {})
             \cup (IF m[2] # NaN THEN {m[1] - Side(direction) * m[2]} ELSE {}) :
               m \in {x \in Range(managed) : x[2] # 0}}

\* A position that survived a close stands strictly between its levels there,
\* and its stop is no looser than it was signalled, whatever strategy manages
\* it: the protective levels inside the bar and the boundary at the close leave
\* no other way.  What a rule strategy returns is never refused, neither a
\* signal nor a decision, in any market; its stop is the tightest level the
\* closes of its life called for, whichever came first, its target is the one
\* it was signalled with, and it is not held past its time stop
\* (RuleStrategy.manage, rr_signal, validate_signal_sequence,
\* validate_management_decision).
ManagedWithinLevels ==
  /\ play # None => fault = None
  /\ position # None /\ stage = "open" =>
       /\ BracketsProtectively(position.direction, close, position.live_stop, position.live_target)
       /\ ~ Behind(position.direction, position.live_stop, position.initial_stop)
       /\ play # None =>
            /\ position.live_target = position.initial_target
            /\ position.live_stop \in CalledFor \cup {position.initial_stop}
            /\ \A level \in CalledFor : ~ Behind(position.direction, position.live_stop, level)
            /\ play.exits.time_stop # None =>
                 CloseTs[interval] - position.entry_ts < play.exits.time_stop * BaseStep
=============================================================================
