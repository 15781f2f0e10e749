------------------------------ MODULE MCReplay ------------------------------
(* Small replays for TLC: values for the constants of Replay. *)
EXTENDS Results, TLC

Bar(o, h, l, c) == [open |-> o, high |-> h, low |-> l, close |-> c]
Shape(d, s, t) == [dir |-> d, stop |-> s, target |-> t]
Decision(s, t, e) == [stop |-> s, target |-> t, exit |-> e]
Hold == Decision(None, None, FALSE)

\* Two sessions: two intervals on the first, one on the second, and an IC
\* tail interval on a third, after a weekend.
TailOpenTs  == <<100, 110, 200, 500>>
TailCloseTs == <<110, 120, 210, 510>>
\* The same without a tail: the schedule ends with the window.
FlatOpenTs  == <<100, 110, 200>>
FlatCloseTs == <<110, 120, 210>>

\* Two plays of one symbol, long: a quiet bar, a bar through both levels, a
\* gap under the stop and a gap over the target.
PlaysByPriority == (1 :> 0) @@ (2 :> 1)
LongBars == {Bar(20, 21, 19, 20), Bar(20, 27, 13, 16), Bar(15, 20, 15, 20), Bar(28, 28, 19, 20)}
LongShapes == {Shape("long", 15, 26), Shape("long", 10, 26)}
LongDecisions == {Hold, Decision(18, None, FALSE), Decision(18, None, TRUE)}

\* One play of two symbols, one slot, no IC tail, shorts beside longs and
\* slippage that can take a cheap fill to zero: a quiet bar, a bar through a
\* short's stop that closes beyond its target, and a penny open.
OnePlay == 1 :> 0
MixedBars == {Bar(20, 21, 19, 20), Bar(20, 30, 2, 2), Bar(2, 20, 1, 20)}
MixedShapes == {Shape("short", 24, 14), Shape("long", 1, 26)}
MixedDecisions == {Hold, Decision(None, 12, FALSE), Decision(None, None, TRUE)}

\* One play symbol against every kind of bar, three intervals to a session:
\* quiet, through both levels, gaps to either side, and the penny prices
\* slippage turns into refusals.
EdgeOpenTs  == <<100, 110, 120, 400>>
EdgeCloseTs == <<110, 120, 130, 410>>
EdgeBars == {Bar(20, 21, 19, 20), Bar(20, 27, 13, 20), Bar(20, 21, 13, 16), Bar(38, 38, 19, 20),
             Bar(12, 20, 12, 20), Bar(20, 21, 2, 2), Bar(2, 20, 2, 20), Bar(20, 25, 16, 20)}
EdgeShapes == {Shape("long", 15, 26), Shape("long", 1, 26), Shape("long", 2, 26), Shape("short", 24, 14)}
EdgeDecisions == {Hold, Decision(18, None, FALSE), Decision(22, 12, FALSE), Decision(None, None, TRUE)}

\* One short over four sessions, for the account's own floor.
DailyOpenTs  == <<100, 200, 300, 400>>
DailyCloseTs == <<110, 210, 310, 410>>
GapBars == {Bar(20, 21, 19, 20), Bar(60, 60, 50, 55)}
GapShapes == {Shape("short", 24, 14)}
GapDecisions == {Hold}
=============================================================================
