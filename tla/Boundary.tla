------------------------------ MODULE Boundary ------------------------------
(***************************************************************************)
(* The strategy boundary (strategies/base.py) over the life of one         *)
(* position: a signal returned at a close, its fill at the next open, the  *)
(* protective levels inside every bar, and the decision returned at every  *)
(* close it survives.  Behind the boundary stands a rule strategy          *)
(* (rules/strategy.py, risk.py, util.py rr_signal), whose conditions match *)
(* when they like, or a strategy of any other making.                      *)
(*                                                                         *)
(* A bar's own times, the account and the seats are module Replay's.       *)
(***************************************************************************)
EXTENDS Absent, Integers, Sequences, FiniteSetsExt, Functions

CONSTANTS
  Plays,      \* rule specs [sides, stop, target, exits]; None: of another making
  FirstCloses, Bars,
  CloseTs,    \* the closes of the window's intervals; one base step before each, its open
  BaseStep, Slip,
  Ranges,     \* a multiple of the average true range, NaN while it has no value
  Returns,    \* what another strategy's on_bar may return or raise
  Decisions   \* and its manage

VARIABLES
  play,
  interval,   \* the interval reached
  close,      \* its close
  stage,      \* "evaluate", "open", "manage", "over" or "refused"
  signal,     \* accepted, waiting for the next open
  position,
  managed,    \* history: the closes survived, each with the trailing distance read there
  fault       \* the class of the error that refused the replay

boundaryVars == <<play, interval, close, stage, signal, position, managed, fault>>

Abs(x) == IF x < 0 THEN -x ELSE x
Side(direction) == IF direction = "long" THEN 1 ELSE -1

\* On the protective side of a price, seen from a direction.
Behind(direction, level, price) == Side(direction) * level < Side(direction) * price

BracketsProtectively(direction, price, stop, target) ==
  Behind(direction, stop, price) /\ Behind(direction, price, target)

Directions == {"long", "short"}

\* What reserve() and open() make of a signal, as the boundary shows it to the
\* strategy that manages it.
Positions ==
  [direction : Directions, entry_ts : Int, entry : Int, initial_stop : Int, initial_target : Int,
   live_stop : Int, live_target : Int]

\* What a spec's validators admit of its risk and its exits: sizes are positive.
Usable(spec) ==
  /\ spec.sides \subseteq Directions
  /\ spec.stop.kind \in {"percent", "atr"} /\ spec.stop.size \in Nat \ {0}
  /\ spec.target.kind \in {"percent", "rr"} /\ spec.target.size \in Nat \ {0}
  /\ spec.exits.exit \in BOOLEAN
  /\ spec.exits.time_stop \in (Nat \ {0}) \cup {None}
  /\ spec.exits.breakeven_at \in (Nat \ {0}) \cup {None}
  /\ spec.exits.trailing # None =>
       spec.exits.trailing.kind \in {"percent", "atr"} /\ spec.exits.trailing.size \in Nat \ {0}

\* What the theorems assume: usable specs, bars of positive prices that hold
\* their close, ranges of no negative length, and numbers where a strategy of
\* another making got as far as numbers.
ASSUME BoundaryAssumption ==
  /\ None \notin Int \cup Positions /\ NaN \notin Int
  /\ \A p \in Plays \ {None} : Usable(p)
  /\ FirstCloses \subseteq Nat \ {0}
  /\ \A b \in Bars : /\ {b.open, b.high, b.low, b.close} \subseteq Nat \ {0}
                     /\ b.low <= b.close /\ b.close <= b.high
  /\ CloseTs \in Seq(Int) /\ CloseTs # <<>>
  /\ BaseStep \in Nat /\ Slip \in Nat /\ Ranges \subseteq Nat \cup {NaN}
  /\ \A r \in Returns : r.kind = "sequence" =>
       /\ r.items \in Seq(Range(r.items))
       /\ \A item \in Range(r.items) : item.kind = "signal" /\ item.sound =>
            item.direction \in Directions /\ {item.entry_ref, item.stop, item.target} \subseteq Int
  /\ \A d \in Decisions : d.kind = "decision" => {d.stop, d.target} \subseteq Int \cup {None}

-----------------------------------------------------------------------------
(* What a rule strategy returns. *)

\* A distance from a close: a percentage of it, or what the range came to.
DistanceOf(measure, range) ==
  IF measure.kind = "percent" THEN (close * measure.size) \div 100 ELSE range
Away(direction, distance) ==
  IF distance = NaN THEN NaN ELSE close - Side(direction) * distance

\* The signal of a side, unless its levels are no bracket of prices.
RrSignal(direction, stop, target) ==
  IF stop = NaN \/ ~ Behind(direction, stop, close) \/ stop <= 0 THEN {}
  ELSE LET reach == IF target.kind = "rr" THEN target.size * Abs(close - stop)
                    ELSE DistanceOf(target, NaN)
           level == close + Side(direction) * reach
       IN  IF Behind(direction, close, level) /\ level > 0
           THEN {[kind |-> "signal", sound |-> TRUE, direction |-> direction,
                  entry_ref |-> close, stop |-> stop, target |-> level]}
           ELSE {}

\* The first side that matched and whose levels make a signal.
RuleSignals(matched, range) ==
  LET Of(direction) ==
        IF direction \notin matched THEN {}
        ELSE RrSignal(direction, Away(direction, DistanceOf(play.stop, range)), play.target)
      first == IF Of("long") # {} THEN Of("long") ELSE Of("short")
  IN  [kind |-> "sequence", items |-> IF first = {} THEN <<>> ELSE <<CHOOSE s \in first : TRUE>>]

Risk == Abs(position.entry - position.initial_stop)
Gain == Side(position.direction) * (close - position.entry)

\* The live stop, or a level that is tighter.
Ratchet(stop, level) ==
  IF level # NaN /\ Behind(position.direction, stop, level) THEN level ELSE stop

\* A position is held from its entry to now, counted in base steps.
TimedOut ==
  play.exits.time_stop # None /\ CloseTs[interval] - position.entry_ts >= play.exits.time_stop * BaseStep
BreakevenReached ==
  play.exits.breakeven_at # None /\ Risk > 0 /\ Gain >= play.exits.breakeven_at * Risk

\* Mutant: a ratchet that lands on the deciding close is a stop.
AnyLevel(stop) == TRUE

\* A ratchet that lands on the deciding close is the price, and no stop.
Protects(stop) == Behind(position.direction, stop, close)

Decision(action, stop) == [kind |-> "decision", action |-> action, stop |-> stop, target |-> None]

RuleDecision(matched, range) ==
  IF (play.exits.exit /\ matched) \/ TimedOut THEN Decision("exit", None)
  ELSE LET even == IF BreakevenReached THEN Ratchet(position.live_stop, position.entry)
                   ELSE position.live_stop
           stop == IF play.exits.trailing = None THEN even
                   ELSE Ratchet(even, Away(position.direction, DistanceOf(play.exits.trailing, range)))
       IN  IF stop = position.live_stop \/ ~ Protects(stop) THEN Decision("hold", None)
           ELSE Decision("hold", stop)

-----------------------------------------------------------------------------
(* What the boundary admits. *)

\* Every escape from strategy code is a fault of its own class.
FaultOf(raised) ==
  IF raised \in {"assigns", "input_error", "output_error"} THEN "output" ELSE "runtime"

SignalAccepted(item) ==
  /\ item.kind = "signal" /\ item.sound
  /\ item.stop > 0 /\ item.target > 0
  /\ item.entry_ref = close
  /\ BracketsProtectively(item.direction, item.entry_ref, item.stop, item.target)
SignalsAccepted(returned) ==
  returned.kind = "sequence" /\ \A item \in Range(returned.items) : SignalAccepted(item)

Or(replacement, live) == IF replacement = None THEN live ELSE replacement

DecisionAccepted(d) ==
  LET direction == position.direction
  IN  /\ d.kind = "decision"
      /\ d.stop # None =>
           /\ d.stop > 0
           /\ ~ Behind(direction, d.stop, position.live_stop)
           /\ Behind(direction, d.stop, close)
      /\ d.target # None => d.target > 0 /\ Behind(direction, close, d.target)
      /\ d.stop # None \/ d.target # None =>
           Behind(direction, Or(d.stop, position.live_stop), Or(d.target, position.live_target))

-----------------------------------------------------------------------------
(* One position. *)

BoundaryInit ==
  /\ play \in Plays /\ interval = 1 /\ close \in FirstCloses /\ stage = "evaluate"
  /\ signal = None /\ position = None /\ managed = <<>> /\ fault = None

Refuse(class) ==
  /\ stage' = "refused" /\ fault' = class
  /\ UNCHANGED <<play, interval, close, signal, position, managed>>

Signals ==
  IF play = None THEN Returns
  ELSE {RuleSignals(matched, range) : matched \in SUBSET play.sides, range \in Ranges}

Evaluate ==
  /\ stage = "evaluate"
  /\ \E returned \in Signals :
       CASE returned.kind = "raises" -> Refuse(FaultOf(returned.what))
         [] returned.kind # "raises" /\ ~ SignalsAccepted(returned) -> Refuse("output")
         [] OTHER -> /\ IF returned.items = <<>> THEN stage' = "over" /\ UNCHANGED signal
                        ELSE stage' = "open" /\ signal' = returned.items[1]
                     /\ UNCHANGED <<play, interval, close, position, managed, fault>>

\* A fill at the raw open, if the open and the price paid are inside the levels.
FilledAt(open) ==
  LET entry == open + Side(signal.direction) * Slip
  IN  IF /\ BracketsProtectively(signal.direction, open, signal.stop, signal.target)
         /\ BracketsProtectively(signal.direction, entry, signal.stop, signal.target)
      THEN [direction |-> signal.direction, entry_ts |-> CloseTs[interval + 1] - BaseStep, entry |-> entry,
            initial_stop |-> signal.stop, initial_target |-> signal.target,
            live_stop |-> signal.stop, live_target |-> signal.target]
      ELSE None

\* Some price of the bar was at a level, from its open on.
Hit(p, bar) ==
  \E price \in {bar.open, bar.high, bar.low} :
    ~ Behind(p.direction, p.live_stop, price) \/ ~ Behind(p.direction, price, p.live_target)

\* The next interval's open and what trades inside it.
Trade ==
  /\ stage = "open" /\ interval < Len(CloseTs)
  /\ \E bar \in Bars :
       LET p == IF position = None THEN FilledAt(bar.open) ELSE position
       IN  /\ interval' = interval + 1 /\ close' = bar.close /\ signal' = None
           /\ IF p = None THEN stage' = "over" /\ position' = None
              ELSE IF Hit(p, bar) THEN stage' = "over" /\ position' = None
              ELSE stage' = "manage" /\ position' = p
  /\ UNCHANGED <<play, managed, fault>>

Manage ==
  /\ stage = "manage"
  /\ \E range \in Ranges, matched \in BOOLEAN :
     \E d \in IF play = None THEN Decisions ELSE {RuleDecision(matched, range)} :
       IF d.kind = "raises" THEN Refuse(FaultOf(d.what))
       ELSE IF ~ DecisionAccepted(d) THEN Refuse("output")
       ELSE /\ position' = IF d.action = "exit" THEN None
                           ELSE [position EXCEPT !.live_stop = Or(d.stop, @), !.live_target = Or(d.target, @)]
            /\ stage' = IF d.action = "exit" THEN "over" ELSE "open"
            /\ managed' = IF play = None \/ play.exits.trailing = None THEN Append(managed, <<close, NaN>>)
                          ELSE Append(managed, <<close, DistanceOf(play.exits.trailing, range)>>)
            /\ UNCHANGED <<play, interval, close, signal, fault>>

\* The window's end takes what is still held, at the last close.
CloseWindow ==
  /\ stage = "open" /\ interval = Len(CloseTs)
  /\ stage' = "over" /\ signal' = None /\ position' = None
  /\ UNCHANGED <<play, interval, close, managed, fault>>

Ended == stage \in {"over", "refused"} /\ UNCHANGED boundaryVars

BoundaryNext == Evaluate \/ Trade \/ Manage \/ CloseWindow \/ Ended

BoundarySpec == BoundaryInit /\ [][BoundaryNext]_boundaryVars
=============================================================================
