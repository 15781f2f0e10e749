----------------------------- MODULE RuleProofs -----------------------------
(***************************************************************************)
(* A rule strategy from all its ends.  The compile that writes it: what is *)
(* reported of its bill, its rounds and its spec, for every grammar, every *)
(* provider and every number of retries.  The boundary around it: what     *)
(* validate_signal_sequence, the fill, the protective levels and           *)
(* validate_management_decision leave of a position's levels, and why a    *)
(* rule strategy's own signals and ratchets always pass.  The gate its     *)
(* vocabulary's terms pass: why a term is checked only when it is causal   *)
(* at every row of the frame, and why what verify_term says of a term was  *)
(* seen in one of its runs.  The registry its definition is frozen in: why *)
(* a frozen bundle holds all that a composite can reach and none of its    *)
(* references run in a circle, and why a runtime built from it reads only  *)
(* what its play declared.  The screen written in its grammar: why what is *)
(* planned before a symbol's frames are loaded is what judging the loaded  *)
(* frames would have said, and why a row of stale data says so.            *)
(***************************************************************************)
EXTENDS BoundaryProperties, TermGateProperties, CompileProperties, RegistryProperties,
        ScreenProperties, SequenceTheorems, FiniteLemmas

\* A signal the boundary let pass.
SignalOK(s) ==
  s.direction \in Directions /\ s.stop \in Nat \ {0} /\ s.target \in Nat \ {0}

\* A position entered strictly inside the levels it was signalled with.
PositionOK(p) ==
  /\ p \in Positions /\ p.live_stop > 0 /\ p.initial_stop > 0 /\ p.initial_target > 0
  /\ BracketsProtectively(p.direction, p.entry, p.initial_stop, p.initial_target)

\* What one close of a position's life called for.
GainedAt(c) ==
  play.exits.breakeven_at # None /\
    Side(position.direction) * (c - position.entry)
      >= play.exits.breakeven_at * Abs(position.entry - position.initial_stop)
Calls(c, distance) ==
  IF distance = 0 THEN {}
  ELSE (IF GainedAt(c) THEN {position.entry} ELSE {})
         \cup (IF distance # NaN THEN {c - Side(position.direction) * distance} ELSE {})

\* A rule's stop is the tightest level called for so far, its target untouched.
Tightest ==
  /\ position.live_target = position.initial_target
  /\ position.live_stop \in CalledFor \cup {position.initial_stop}
  /\ \A level \in CalledFor : level \in Int /\ ~ Behind(position.direction, position.live_stop, level)

\* A survivor stands inside levels no looser than signalled.
Standing ==
  /\ PositionOK(position)
  /\ BracketsProtectively(position.direction, close, position.live_stop, position.live_target)
  /\ ~ Behind(position.direction, position.live_stop, position.initial_stop)
  /\ play # None => Tightest

InTime ==
  play # None /\ play.exits.time_stop # None =>
    CloseTs[interval] - position.entry_ts < play.exits.time_stop * BaseStep

\* The inductive invariant of a position's life.
BInv ==
  /\ play \in Plays /\ interval \in 1..Len(CloseTs) /\ close \in Nat \ {0}
  /\ managed \in Seq(Int \X (Int \cup {NaN}))
  /\ stage \in {"evaluate", "open", "manage", "over", "refused"}
  /\ play # None => fault = None
  /\ stage = "evaluate" => position = None /\ signal = None
  /\ stage \in {"evaluate", "open"} /\ position = None => managed = <<>>
  /\ stage = "open" /\ position = None => SignalOK(signal)
  /\ stage = "manage" => position # None
  /\ stage \in {"open", "manage"} /\ position # None => Standing
  /\ stage = "open" /\ position # None => InTime

-----------------------------------------------------------------------------
(* The two sides of a price. *)

\* What Behind says of each direction.
LEMMA Sides ==
  \A d \in Directions, a, b \in Int :
    Behind(d, a, b) <=> IF d = "long" THEN a < b ELSE b < a
  BY DEF Directions, Behind, Side

\* A price inside the levels stays inside between two prices that are.
LEMMA Between ==
  ASSUME NEW d \in Directions, NEW stop \in Int, NEW target \in Int,
         NEW low \in Int, NEW high \in Int, NEW c \in Int, low <= c, c <= high,
         BracketsProtectively(d, low, stop, target), BracketsProtectively(d, high, stop, target)
  PROVE  BracketsProtectively(d, c, stop, target)
  BY Sides DEF BracketsProtectively

\* What a fixed number of base steps takes is no product of unknowns.
LEMMA ProductPositive == \A a, b \in Nat \ {0} : a * b \in Nat \ {0}
  OBVIOUS

-----------------------------------------------------------------------------
(* What a rule strategy returns. *)

\* A distance is a natural number, or not known.
LEMMA DistanceTyped ==
  ASSUME close \in Nat \ {0}, NEW measure, measure.size \in Nat \ {0},
         NEW range \in Ranges
  PROVE  DistanceOf(measure, range) \in Nat \cup {NaN}
<1>1. \A a, b \in Nat : (a * b) \div 100 \in Nat
  OBVIOUS
<1>2. (close * measure.size) \div 100 \in Nat
  BY <1>1
<1> QED BY <1>2, BoundaryAssumption DEF DistanceOf

\* rr_signal returns no signal the boundary refuses.
LEMMA RrAccepted ==
  ASSUME close \in Nat \ {0}, NEW d \in Directions,
         NEW stop \in Int \cup {NaN}, NEW target,
         target.kind \in {"percent", "rr"}, target.size \in Nat \ {0}
  PROVE  \A s \in RrSignal(d, stop, target) : SignalAccepted(s) /\ SignalOK(s) /\ s.kind = "signal"
<1> SUFFICES ASSUME NEW s \in RrSignal(d, stop, target)
             PROVE  SignalAccepted(s) /\ SignalOK(s) /\ s.kind = "signal"
  OBVIOUS
<1> DEFINE reach == IF target.kind = "rr" THEN target.size * Abs(close - stop)
                    ELSE DistanceOf(target, NaN)
           level == close + Side(d) * reach
<1>1. stop # NaN /\ Behind(d, stop, close) /\ ~ (stop <= 0)
  BY DEF RrSignal
<1>2. stop \in Int /\ stop > 0
  BY <1>1
<1>3. /\ Behind(d, close, level) /\ level > 0
      /\ s = [kind |-> "signal", sound |-> TRUE, direction |-> d,
              entry_ref |-> close, stop |-> stop, target |-> level]
  BY <1>1 DEF RrSignal
<1>4. level \in Int
  <2>1. reach \in Int
    <3>1. CASE target.kind = "rr"
      <4>1. Abs(close - stop) \in Int
        BY <1>2 DEF Abs
      <4>2. target.size * Abs(close - stop) \in Int
        BY <4>1
      <4> QED BY <3>1, <4>2
    <3>2. CASE target.kind = "percent"
      <4>1. \A a, b \in Nat : (a * b) \div 100 \in Int
        OBVIOUS
      <4>2. reach = (close * target.size) \div 100
        BY <3>2 DEF DistanceOf
      <4> QED BY <4>1, <4>2
    <3> QED BY <3>1, <3>2
  <2>2. Side(d) = 1 \/ Side(d) = -1
    BY DEF Side
  <2> HIDE DEF reach
  <2> QED BY <2>1, <2>2
<1> HIDE DEF level
<1>5. s.direction = d /\ s.stop = stop /\ s.target = level /\ s.entry_ref = close /\ s.sound /\ s.kind = "signal"
  BY <1>3
<1> QED BY <1>1, <1>2, <1>3, <1>4, <1>5 DEF SignalAccepted, SignalOK, BracketsProtectively

\* Nothing a rule strategy returns at a close is refused.
LEMMA RuleSignalsAccepted ==
  ASSUME close \in Nat \ {0}, play \in Plays, play # None,
         NEW matched \in SUBSET play.sides, NEW range \in Ranges
  PROVE  LET r == RuleSignals(matched, range)
         IN  /\ r.kind = "sequence" /\ SignalsAccepted(r)
             /\ r.items # <<>> => SignalOK(r.items[1])
<1> DEFINE Of(d) == IF d \notin matched THEN {}
                    ELSE RrSignal(d, Away(d, DistanceOf(play.stop, range)), play.target)
           first == IF Of("long") # {} THEN Of("long") ELSE Of("short")
           one == CHOOSE s \in first : TRUE
           items == IF first = {} THEN <<>> ELSE <<one>>
           r == RuleSignals(matched, range)
<1>1. play.stop.size \in Nat \ {0} /\ play.target.size \in Nat \ {0} /\ play.target.kind \in {"percent", "rr"}
  BY BoundaryAssumption DEF Usable
<1>2. ASSUME NEW d \in Directions PROVE \A s \in Of(d) : SignalAccepted(s) /\ SignalOK(s)
  <2>1. Away(d, DistanceOf(play.stop, range)) \in Int \cup {NaN}
    <3>1. DistanceOf(play.stop, range) \in Nat \cup {NaN}
      BY <1>1, DistanceTyped
    <3>2. Side(d) = 1 \/ Side(d) = -1
      BY DEF Side
    <3> QED BY <3>1, <3>2 DEF Away
  <2>2. \A s \in RrSignal(d, Away(d, DistanceOf(play.stop, range)), play.target) :
          SignalAccepted(s) /\ SignalOK(s)
    <3> DEFINE stop == Away(d, DistanceOf(play.stop, range))
               target == play.target
    <3>1. stop \in Int \cup {NaN} /\ target.size \in Nat \ {0} /\ target.kind \in {"percent", "rr"}
      BY <1>1, <2>1
    <3> HIDE DEF stop, target
    <3>2. \A s \in RrSignal(d, stop, target) : SignalAccepted(s) /\ SignalOK(s)
      BY <3>1, RrAccepted
    <3> QED BY <3>2 DEF stop, target
  <2> QED BY <2>2
<1>3. \A s \in first : SignalAccepted(s) /\ SignalOK(s)
  BY <1>2 DEF Directions
<1>4. r.kind = "sequence" /\ r.items = items
  BY DEF RuleSignals
<1> HIDE DEF r, first
<1>5. \A item \in Range(items) : SignalAccepted(item)
  <2>1. CASE first = {}
    BY <2>1 DEF Range
  <2>2. CASE first # {}
    <3>1. one \in first
      BY <2>2
    <3> HIDE DEF one
    <3>2. items = <<one>>
      BY <2>2
    <3>3. Range(items) = {one}
      BY <3>2 DEF Range
    <3> QED BY <1>3, <3>1, <3>3
  <2> QED BY <2>1, <2>2
<1>6. items # <<>> => SignalOK(items[1])
  BY <1>3
<1> QED BY <1>4, <1>5, <1>6 DEF SignalsAccepted, r

\* What the closes survived so far called for, one close at a time.
LEMMA CalledForAll ==
  ASSUME managed \in Seq(Int \X (Int \cup {NaN}))
  PROVE  CalledFor = UNION {Calls(m[1], m[2]) : m \in Range(managed)}
<1> DEFINE all == UNION {Calls(m[1], m[2]) : m \in Range(managed)}
<1>1. ASSUME NEW x \in CalledFor PROVE x \in all
  <2>1. PICK m \in Range(managed) :
          /\ m[2] # 0
          /\ x \in (IF GainedAt(m[1]) THEN {position.entry} ELSE {})
                     \cup (IF m[2] # NaN THEN {m[1] - Side(position.direction) * m[2]} ELSE {})
    BY DEF CalledFor, GainedAt
  <2> QED BY <2>1 DEF Calls
<1>2. ASSUME NEW x \in all PROVE x \in CalledFor
  <2>1. PICK m \in Range(managed) : x \in Calls(m[1], m[2])
    OBVIOUS
  <2>2. m[2] # 0
    BY <2>1 DEF Calls
  <2>3. m \in {y \in Range(managed) : y[2] # 0}
    BY <2>2
  <2>4. x \in (IF GainedAt(m[1]) THEN {position.entry} ELSE {})
                \cup (IF m[2] # NaN THEN {m[1] - Side(position.direction) * m[2]} ELSE {})
    BY <2>1, <2>2 DEF Calls
  <2> QED BY <2>3, <2>4 DEF CalledFor, GainedAt
<1> QED BY <1>1, <1>2

\* Surviving a close adds what that close called for.
LEMMA CalledForGrows ==
  ASSUME managed \in Seq(Int \X (Int \cup {NaN})), NEW c \in Int, NEW distance \in Int \cup {NaN},
         managed' = Append(managed, <<c, distance>>), play' = play,
         position'.entry = position.entry, position'.direction = position.direction,
         position'.initial_stop = position.initial_stop
  PROVE  /\ managed' \in Seq(Int \X (Int \cup {NaN}))
         /\ CalledFor' = CalledFor \cup Calls(c, distance)
<1> DEFINE e == <<c, distance>>
<1>1. e \in Int \X (Int \cup {NaN}) /\ e[1] = c /\ e[2] = distance
  OBVIOUS
<1>2. managed' \in Seq(Int \X (Int \cup {NaN}))
  BY <1>1, AppendProperties
<1>3. Range(managed') = Range(managed) \cup {e}
  <2> HIDE DEF e
  <2>1. /\ Len(managed') = Len(managed) + 1 /\ DOMAIN managed' = 1..Len(managed')
        /\ \A i \in 1..Len(managed) : managed'[i] = managed[i]
        /\ managed'[Len(managed) + 1] = e /\ DOMAIN managed = 1..Len(managed)
    BY <1>1, AppendProperties DEF e
  <2>2. Len(managed) \in Nat
    OBVIOUS
  <2>3. 1..(Len(managed) + 1) = (1..Len(managed)) \cup {Len(managed) + 1}
    BY <2>2
  <2>4. Range(managed) = {managed[i] : i \in 1..Len(managed)}
        /\ Range(managed') = {managed'[i] : i \in 1..(Len(managed) + 1)}
    BY <2>1 DEF Range
  <2>5. ASSUME NEW x \in Range(managed') PROVE x \in Range(managed) \cup {e}
    <3>1. PICK i \in (1..Len(managed)) \cup {Len(managed) + 1} : x = managed'[i]
      BY <2>3, <2>4
    <3> QED BY <2>1, <2>4, <3>1
  <2>6. ASSUME NEW x \in Range(managed) PROVE x \in Range(managed')
    <3>1. PICK i \in 1..Len(managed) : x = managed[i]
      BY <2>4
    <3>2. i \in 1..(Len(managed) + 1) /\ x = managed'[i]
      BY <2>1, <2>3, <3>1
    <3> QED BY <2>4, <3>2
  <2>7. e \in Range(managed')
    <3>1. Len(managed) + 1 \in 1..(Len(managed) + 1)
      BY <2>3
    <3> QED BY <2>1, <2>4, <3>1
  <2> QED BY <2>5, <2>6, <2>7
<1>4. \A x, y : Calls(x, y)' = Calls(x, y)
  BY DEF Calls, GainedAt
<1>5. CalledFor = UNION {Calls(m[1], m[2]) : m \in Range(managed)}
  BY CalledForAll
<1>6. ASSUME NEW x \in CalledFor' PROVE x \in CalledFor \cup Calls(c, distance)
  <2>1. PICK m \in Range(managed') :
          /\ m[2] # 0
          /\ x \in ((IF GainedAt(m[1]) THEN {position.entry} ELSE {})
                     \cup (IF m[2] # NaN THEN {m[1] - Side(position.direction) * m[2]} ELSE {}))'
    BY DEF CalledFor, GainedAt
  <2>2. x \in Calls(m[1], m[2])'
    BY <2>1 DEF Calls
  <2>3. x \in Calls(m[1], m[2])
    BY <1>4, <2>2
  <2> HIDE DEF e
  <2> QED BY <1>1, <1>3, <1>5, <2>3
<1>7. ASSUME NEW m \in Range(managed'), NEW x \in Calls(m[1], m[2]) PROVE x \in CalledFor'
  <2>1. m[2] # 0
    BY DEF Calls
  <2>2. x \in Calls(m[1], m[2])'
    BY <1>4
  <2>3. x \in ((IF GainedAt(m[1]) THEN {position.entry} ELSE {})
                 \cup (IF m[2] # NaN THEN {m[1] - Side(position.direction) * m[2]} ELSE {}))'
    BY <2>1, <2>2 DEF Calls
  <2> QED BY <2>1, <2>3 DEF CalledFor, GainedAt
<1>8. ASSUME NEW x \in CalledFor \cup Calls(c, distance) PROVE x \in CalledFor'
  <2>1. PICK m \in Range(managed') : x \in Calls(m[1], m[2])
    <3> HIDE DEF e
    <3> QED BY <1>1, <1>3, <1>5
  <2> QED BY <1>7, <2>1
<1> QED BY <1>2, <1>6, <1>8

\* A position's numbers are numbers, and its levels hold the close between them.
LEMMA StandingFacts ==
  ASSUME Standing
  PROVE  /\ position.direction \in Directions
         /\ position.entry \in Int /\ position.entry_ts \in Int
         /\ position.initial_stop \in Int /\ position.initial_target \in Int
         /\ position.live_stop \in Int /\ position.live_target \in Int
         /\ position.live_stop > 0 /\ position.initial_stop > 0 /\ position.initial_target > 0
         /\ Behind(position.direction, position.initial_stop, position.entry)
         /\ Behind(position.direction, position.entry, position.initial_target)
         /\ Behind(position.direction, position.live_stop, close)
         /\ Behind(position.direction, close, position.live_target)
  BY DEF Standing, PositionOK, Positions, Directions, BracketsProtectively

\* The distance a trailing stop reads at a close; none reads nothing.
TrailAt(range) ==
  IF play.exits.trailing = None THEN NaN ELSE DistanceOf(play.exits.trailing, range)
Even == IF BreakevenReached THEN Ratchet(position.live_stop, position.entry) ELSE position.live_stop

\* A breakeven is the entry of a position that gained its multiple of the risk:
\* tighter than the live stop, or no stop at all.
LEMMA EvenFacts ==
  ASSUME BInv, stage = "manage", play # None
  PROVE  /\ Even \in Int /\ Even > 0 /\ Behind(position.direction, Even, close)
         /\ ~ Behind(position.direction, Even, position.live_stop)
         /\ Even = position.live_stop \/ (Even = position.entry /\ GainedAt(close))
         /\ GainedAt(close) => ~ Behind(position.direction, Even, position.entry)
<1> DEFINE d == position.direction
           entry == position.entry
           live == position.live_stop
           be == play.exits.breakeven_at
<1>1. Standing /\ close \in Nat \ {0} /\ play \in Plays
  BY DEF BInv
<1>2. /\ d \in Directions /\ entry \in Int /\ live \in Int /\ live > 0
      /\ position.initial_stop \in Int /\ position.initial_stop > 0 /\ position.initial_target > 0
      /\ position.initial_target \in Int
      /\ Behind(d, position.initial_stop, entry) /\ Behind(d, entry, position.initial_target)
      /\ Behind(d, live, close)
  BY <1>1, StandingFacts
<1>3. be \in (Nat \ {0}) \cup {None}
  BY <1>1, BoundaryAssumption DEF Usable
<1>4. Risk \in Nat \ {0} /\ Gain \in Int /\ entry > 0
  BY <1>1, <1>2, Sides DEF Risk, Gain, Abs, Side, Directions
<1>5. BreakevenReached <=> GainedAt(close)
  <2>1. Risk > 0
    BY <1>4
  <2> QED BY <2>1 DEF BreakevenReached, GainedAt, Risk, Gain
<1>6. GainedAt(close) => Gain > 0
  <2> SUFFICES ASSUME GainedAt(close) PROVE Gain > 0
    OBVIOUS
  <2>1. be # None /\ Gain >= be * Risk
    BY DEF GainedAt, Gain, Risk
  <2>2. be \in Nat \ {0}
    BY <1>3, <2>1
  <2> HIDE DEF be
  <2>3. be * Risk \in Nat \ {0}
    BY <1>4, <2>2, ProductPositive
  <2> QED BY <1>4, <2>1, <2>3
<1>7. GainedAt(close) => Behind(d, entry, close)
  <2>1. Gain = IF d = "long" THEN close - entry ELSE entry - close
    BY <1>1, <1>2 DEF Gain, Side, Directions
  <2> QED BY <1>1, <1>2, <1>4, <1>6, <2>1, Sides
<1>8. entry # NaN
  BY <1>2, BoundaryAssumption
<1>9. CASE GainedAt(close)
  <2>1. Even = IF Behind(d, live, entry) THEN entry ELSE live
    BY <1>5, <1>8, <1>9 DEF Even, Ratchet
  <2> HIDE DEF d, entry, live
  <2>2. CASE Behind(d, live, entry)
    BY <1>1, <1>2, <1>4, <1>7, <1>9, <2>1, <2>2, Sides DEF d, entry, live
  <2>3. CASE ~ Behind(d, live, entry)
    BY <1>1, <1>2, <1>4, <1>9, <2>1, <2>3, Sides DEF d, entry, live
  <2> QED BY <2>2, <2>3
<1>10. CASE ~ GainedAt(close)
  <2>1. Even = live
    BY <1>5, <1>10 DEF Even
  <2> QED BY <1>2, <1>10, <2>1, Sides
<1> QED BY <1>9, <1>10

\* What a ratchet leaves: the tightest of a stop and a level, inside the close
\* when both are.
LEMMA RatchetFacts ==
  ASSUME position.direction \in Directions, NEW stop \in Int, NEW level \in Int
  PROVE  /\ Ratchet(stop, level) \in {stop, level}
         /\ ~ Behind(position.direction, Ratchet(stop, level), stop)
         /\ ~ Behind(position.direction, Ratchet(stop, level), level)
<1>1. level # NaN
  BY BoundaryAssumption
<1> QED BY <1>1, Sides DEF Ratchet

\* A rule strategy's decision is never refused; what it holds with is the
\* tightest of the live stop and what the close called for, inside the close.
LEMMA RuleDecides ==
  ASSUME BInv, stage = "manage", play # None,
         NEW matched \in BOOLEAN, NEW range \in Ranges
  PROVE  LET d == RuleDecision(matched, range)
             stop == Or(d.stop, position.live_stop)
             side == position.direction
             called == Calls(close, TrailAt(range))
         IN  /\ d.kind = "decision" /\ d.target = None /\ DecisionAccepted(d)
             /\ d.action # "exit" =>
                  /\ ~ TimedOut
                  /\ stop \in Int /\ stop > 0 /\ Behind(side, stop, close)
                  /\ ~ Behind(side, stop, position.live_stop)
                  /\ stop \in {position.live_stop} \cup called
                  /\ \A level \in called : level \in Int /\ ~ Behind(side, stop, level)
<1> DEFINE d == RuleDecision(matched, range)
           side == position.direction
           live == position.live_stop
           trail == TrailAt(range)
           called == Calls(close, trail)
           stop == Ratchet(Even, Away(side, trail))
<1>1. Standing /\ close \in Nat \ {0} /\ play \in Plays
  BY DEF BInv
<1>2. /\ side \in Directions /\ live \in Int /\ live > 0 /\ position.entry \in Int
      /\ position.live_target \in Int /\ Behind(side, live, close) /\ Behind(side, close, position.live_target)
  BY <1>1, StandingFacts
<1>3. /\ Even \in Int /\ Even > 0 /\ Behind(side, Even, close) /\ ~ Behind(side, Even, live)
      /\ Even = live \/ (Even = position.entry /\ GainedAt(close))
      /\ GainedAt(close) => ~ Behind(side, Even, position.entry)
  BY EvenFacts
<1>4. trail \in Nat \cup {NaN} /\ NaN \notin Int /\ None \notin Int
  <2>1. play.exits.trailing # None => play.exits.trailing.size \in Nat \ {0}
    BY <1>1, BoundaryAssumption DEF Usable
  <2>2. play.exits.trailing # None => DistanceOf(play.exits.trailing, range) \in Nat \cup {NaN}
    BY <1>1, <2>1, DistanceTyped
  <2> QED BY <2>2, BoundaryAssumption DEF TrailAt
<1>5. (play.exits.exit /\ matched) \/ TimedOut => d = Decision("exit", None)
  BY DEF RuleDecision
<1>6. ~ ((play.exits.exit /\ matched) \/ TimedOut) =>
        d = IF stop = live \/ ~ Protects(stop) THEN Decision("hold", None) ELSE Decision("hold", stop)
  <2>1. play.exits.trailing = None => stop = Even
    BY DEF TrailAt, Away, Ratchet
  <2>2. play.exits.trailing # None => stop = Ratchet(Even, Away(side, DistanceOf(play.exits.trailing, range)))
    BY DEF TrailAt
  <2> HIDE DEF stop
  <2> QED BY <2>1, <2>2 DEF RuleDecision, Even
<1>7. CASE (play.exits.exit /\ matched) \/ TimedOut
  <2>1. d = [kind |-> "decision", action |-> "exit", stop |-> None, target |-> None]
    BY <1>5, <1>7 DEF Decision
  <2> HIDE DEF d
  <2>2. d.kind = "decision" /\ d.action = "exit" /\ d.stop = None /\ d.target = None
    BY <2>1
  <2>3. DecisionAccepted(d)
    BY <2>2 DEF DecisionAccepted
  <2> QED BY <2>2, <2>3 DEF d
<1>8. CASE ~ ((play.exits.exit /\ matched) \/ TimedOut)
  <2> DEFINE final == IF trail = 0 THEN live ELSE stop
             held == IF trail = 0 \/ stop = live THEN None ELSE stop
  <2>1. trail = 0 => stop = close
    <3> SUFFICES ASSUME trail = 0 PROVE stop = close
      OBVIOUS
    <3>1. Away(side, trail) = close
      <4>1. trail # NaN /\ close - Side(side) * 0 = close
        BY <1>1, <1>4, (Side(side) = 1 \/ Side(side) = -1) DEF Side
      <4> QED BY <4>1 DEF Away
    <3> HIDE DEF trail
    <3> QED BY <1>1, <1>3, <1>4, <3>1 DEF Ratchet
  <2>2. trail # 0 /\ trail # NaN =>
          LET level == close - Side(side) * trail
          IN  /\ Away(side, trail) = level /\ level \in Int /\ Behind(side, level, close)
              /\ side = "short" => level > 0
    <3> SUFFICES ASSUME trail \in Nat \ {0}
                 PROVE  LET level == close - Side(side) * trail
                        IN  /\ Away(side, trail) = level /\ level \in Int /\ Behind(side, level, close)
                            /\ side = "short" => level > 0
      BY <1>4
    <3>1. Away(side, trail) = close - Side(side) * trail
      BY <1>4 DEF Away
    <3> HIDE DEF trail, side
    <3>2. side \in Directions
      BY <1>2 DEF side
    <3> QED BY <1>1, <3>1, <3>2, Sides DEF Side, Directions
  <2>3. trail = NaN => stop = Even
    BY DEF Away, Ratchet
  <2>4. trail # 0 => /\ stop \in Int /\ stop > 0 /\ Behind(side, stop, close)
                     /\ ~ Behind(side, stop, Even)
                     /\ stop \in {Even} \cup (IF trail # NaN THEN {close - Side(side) * trail} ELSE {})
                     /\ trail # NaN => ~ Behind(side, stop, close - Side(side) * trail)
    <3> SUFFICES ASSUME trail # 0
                 PROVE  /\ stop \in Int /\ stop > 0 /\ Behind(side, stop, close)
                        /\ ~ Behind(side, stop, Even)
                        /\ stop \in {Even} \cup (IF trail # NaN THEN {close - Side(side) * trail} ELSE {})
                        /\ trail # NaN => ~ Behind(side, stop, close - Side(side) * trail)
      OBVIOUS
    <3>1. CASE trail = NaN
      <4>1. stop = Even
        BY <2>3, <3>1
      <4> HIDE DEF stop, trail
      <4> QED BY <1>2, <1>3, <3>1, <4>1, Sides
    <3>2. CASE trail # NaN
      <4> DEFINE level == close - Side(side) * trail
      <4>1. /\ stop = Ratchet(Even, level) /\ level \in Int /\ Behind(side, level, close)
            /\ side = "short" => level > 0
        BY <2>2, <3>2
      <4> HIDE DEF level, stop, trail
      <4>2. stop \in {Even, level} /\ ~ Behind(side, stop, Even) /\ ~ Behind(side, stop, level)
        BY <1>2, <1>3, <4>1, RatchetFacts
      <4>3. stop > 0 /\ stop \in Int /\ Behind(side, stop, close)
        BY <1>2, <1>3, <4>1, <4>2, Sides DEF Directions
      <4> QED BY <3>2, <4>2, <4>3 DEF level
    <3> QED BY <3>1, <3>2
  <2>5. d = Decision("hold", held)
    <3>1. trail = 0 => ~ Protects(stop)
      BY <1>1, <1>2, <2>1, Sides DEF Protects
    <3>2. trail # 0 => Protects(stop)
      BY <2>4 DEF Protects
    <3> HIDE DEF stop, trail, d
    <3> QED BY <1>6, <1>8, <3>1, <3>2 DEF d, stop, trail
  <2>6. d.kind = "decision" /\ d.action = "hold" /\ d.stop = held /\ d.target = None
    BY <2>5 DEF Decision
  <2>7. Or(held, live) = final
    <3>1. trail # 0 => stop # None
      BY <1>4, <2>4
    <3> HIDE DEF stop, trail
    <3> QED BY <3>1 DEF Or
  <2> HIDE DEF stop, trail, d
  <2>8. /\ final \in Int /\ final > 0 /\ Behind(side, final, close)
        /\ ~ Behind(side, final, live)
    <3>1. ~ Behind(side, Even, live) /\ (trail # 0 => ~ Behind(side, stop, Even) /\ stop \in Int)
      BY <1>3, <2>4
    <3> QED BY <1>2, <1>3, <2>4, <3>1, Sides
  <2>9. final \in {live} \cup called /\ \A level \in called : level \in Int /\ ~ Behind(side, final, level)
    <3>1. CASE trail = 0
      BY <3>1 DEF Calls
    <3>2. CASE trail # 0
      <4> DEFINE level == close - Side(side) * trail
      <4>1. called = (IF GainedAt(close) THEN {position.entry} ELSE {})
                       \cup (IF trail # NaN THEN {level} ELSE {})
        BY <3>2 DEF Calls
      <4>2. trail # NaN => level \in Int
        BY <1>1, <1>4, (Side(side) = 1 \/ Side(side) = -1) DEF Side
      <4> HIDE DEF level, called
      <4>3. final = stop /\ stop \in Int /\ (stop = Even \/ (trail # NaN /\ stop = level))
        BY <2>4, <3>2 DEF level
      <4>4. ~ Behind(side, stop, Even) /\ (trail # NaN => ~ Behind(side, stop, level))
        BY <2>4, <3>2 DEF level
      <4>5. Even \in Int /\ position.entry \in Int /\ side \in Directions
        BY <1>2, <1>3
      <4>6. GainedAt(close) => ~ Behind(side, Even, position.entry)
        BY <1>3
      <4>7. Even = live \/ (Even = position.entry /\ GainedAt(close))
        BY <1>3
      <4> HIDE DEF final, live, side
      <4>8. GainedAt(close) => ~ Behind(side, stop, position.entry)
        <5>1. \A d0 \in Directions, a, b, c \in Int :
                ~ Behind(d0, a, b) /\ ~ Behind(d0, b, c) => ~ Behind(d0, a, c)
          BY Sides
        <5> QED BY <4>3, <4>4, <4>5, <4>6, <5>1
      <4>9. ASSUME NEW l \in called PROVE l \in Int /\ ~ Behind(side, final, l)
        <5>1. CASE GainedAt(close) /\ l = position.entry
          BY <4>3, <4>5, <4>8, <5>1
        <5>2. CASE trail # NaN /\ l = level
          BY <4>2, <4>3, <4>4, <5>2
        <5> QED BY <4>1, <5>1, <5>2
      <4>10. final \in {live} \cup called
        <5>1. Even \in {live} \cup called
          BY <4>1, <4>7
        <5>2. trail # NaN => level \in called
          BY <4>1
        <5> QED BY <4>3, <5>1, <5>2
      <4> QED BY <4>9, <4>10 DEF live, side, final
    <3> QED BY <3>1, <3>2
  <2>10. DecisionAccepted(d)
    <3>1. held # None => held = final
      BY DEF held
    <3> HIDE DEF held, final
    <3>2. Behind(side, final, position.live_target)
      BY <1>1, <1>2, <2>8, Sides
    <3>3. Or(d.stop, live) = final /\ Or(d.target, position.live_target) = position.live_target
      BY <2>6, <2>7 DEF Or
    <3> QED BY <2>6, <2>8, <3>1, <3>2, <3>3 DEF DecisionAccepted
  <2>11. ~ TimedOut
    BY <1>8
  <2> HIDE DEF held, final, called
  <2> QED BY <2>6, <2>7, <2>8, <2>9, <2>10, <2>11 DEF d, called, trail
<1> QED BY <1>7, <1>8

-----------------------------------------------------------------------------
(* The steps. *)

\* An accepted signal is one, whoever returned it.
LEMMA AcceptedSignal ==
  ASSUME BInv, NEW returned \in Signals, SignalsAccepted(returned),
         returned.items # <<>>
  PROVE  SignalOK(returned.items[1])
<1>1. CASE play = None
  <2>1. returned \in Returns /\ returned.kind = "sequence"
    BY <1>1 DEF Signals, SignalsAccepted
  <2>2. returned.items \in Seq(Range(returned.items))
    BY <2>1, BoundaryAssumption
  <2> DEFINE item == returned.items[1]
  <2>3. item \in Range(returned.items)
    <3>1. 1 \in DOMAIN returned.items
      BY <2>2
    <3> QED BY <3>1 DEF Range
  <2>4. SignalAccepted(item)
    BY <2>3 DEF SignalsAccepted
  <2>5. item.direction \in Directions /\ item.stop \in Int /\ item.target \in Int
    BY <2>1, <2>3, <2>4, BoundaryAssumption DEF SignalAccepted, Directions
  <2> HIDE DEF item
  <2> QED BY <2>4, <2>5 DEF SignalOK, SignalAccepted, item
<1>2. CASE play # None
  <2>1. PICK matched \in SUBSET play.sides, range \in Ranges : returned = RuleSignals(matched, range)
    BY <1>2 DEF Signals
  <2> QED BY <1>2, <2>1, RuleSignalsAccepted DEF BInv
<1> QED BY <1>1, <1>2

\* Whatever a strategy returns, a signal that passes is one the book may open.
LEMMA EvaluateKeeps == ASSUME BInv, Evaluate PROVE BInv'
<1>1. PICK returned \in Signals :
        CASE returned.kind = "raises" -> Refuse(FaultOf(returned.what))
          [] returned.kind # "raises" /\ ~ SignalsAccepted(returned) -> Refuse("output")
          [] OTHER -> /\ IF returned.items = <<>> THEN stage' = "over" /\ UNCHANGED signal
                         ELSE stage' = "open" /\ signal' = returned.items[1]
                      /\ UNCHANGED <<play, interval, close, position, managed, fault>>
  BY DEF Evaluate
<1>2. stage = "evaluate" /\ position = None /\ managed = <<>>
  BY DEF Evaluate, BInv
<1>3. play # None => returned.kind = "sequence" /\ SignalsAccepted(returned)
  <2> SUFFICES ASSUME play # None PROVE returned.kind = "sequence" /\ SignalsAccepted(returned)
    OBVIOUS
  <2>1. PICK matched \in SUBSET play.sides, range \in Ranges : returned = RuleSignals(matched, range)
    BY DEF Signals
  <2> QED BY <2>1, RuleSignalsAccepted DEF BInv
<1>4. \/ play = None /\ \E class : Refuse(class)
      \/ /\ SignalsAccepted(returned)
         /\ IF returned.items = <<>> THEN stage' = "over" /\ UNCHANGED signal
            ELSE stage' = "open" /\ signal' = returned.items[1]
         /\ UNCHANGED <<play, interval, close, position, managed, fault>>
  BY <1>1, <1>3
<1>5. CASE play = None /\ \E class : Refuse(class)
  BY <1>2, <1>5 DEF Refuse, BInv
<1>6. CASE /\ SignalsAccepted(returned)
           /\ IF returned.items = <<>> THEN stage' = "over" /\ UNCHANGED signal
              ELSE stage' = "open" /\ signal' = returned.items[1]
           /\ UNCHANGED <<play, interval, close, position, managed, fault>>
  <2>1. CASE returned.items = <<>>
    BY <1>2, <1>6, <2>1 DEF BInv
  <2>2. CASE returned.items # <<>>
    <3>1. SignalOK(signal')
      BY <1>6, <2>2, AcceptedSignal
    <3>2. SignalOK(signal)'
      BY <3>1 DEF SignalOK
    <3> QED BY <1>2, <1>6, <2>2, <3>2 DEF BInv
  <2> QED BY <2>1, <2>2
<1> QED BY <1>4, <1>5, <1>6

\* A close inside the bar stands inside the levels the bar did not touch.
LEMMA TradeKeeps == ASSUME BInv, Trade PROVE BInv'
<1>1. PICK bar \in Bars :
        LET p == IF position = None THEN FilledAt(bar.open) ELSE position
        IN  /\ interval' = interval + 1 /\ close' = bar.close /\ signal' = None
            /\ IF p = None THEN stage' = "over" /\ position' = None
               ELSE IF Hit(p, bar) THEN stage' = "over" /\ position' = None
               ELSE stage' = "manage" /\ position' = p
  BY DEF Trade
<1> DEFINE p == IF position = None THEN FilledAt(bar.open) ELSE position
<1>2. stage = "open" /\ interval < Len(CloseTs) /\ UNCHANGED <<play, managed, fault>>
  BY DEF Trade
<1>3. /\ play \in Plays /\ interval \in 1..Len(CloseTs) /\ Len(CloseTs) \in Nat
      /\ managed \in Seq(Int \X (Int \cup {NaN})) /\ (play # None => fault = None)
  BY BoundaryAssumption DEF BInv
<1>4. bar.open \in Nat \ {0} /\ bar.high \in Int /\ bar.low \in Int /\ bar.close \in Nat \ {0}
      /\ bar.low <= bar.close /\ bar.close <= bar.high
  BY BoundaryAssumption
<1>5. interval' \in 1..Len(CloseTs) /\ close' \in Nat \ {0}
  BY <1>1, <1>2, <1>3, <1>4
<1>6. CASE p = None \/ Hit(p, bar)
  <2>1. stage' = "over" /\ position' = None
    BY <1>1, <1>6
  <2> QED BY <1>2, <1>3, <1>5, <2>1 DEF BInv
<1>7. CASE p # None /\ ~ Hit(p, bar)
  <2>1. stage' = "manage" /\ position' = p
    BY <1>1, <1>7
  <2>2. PositionOK(p) /\ (position = None => p.live_stop = p.initial_stop /\ p.live_target = p.initial_target)
        /\ ~ Behind(p.direction, p.live_stop, p.initial_stop)
    <3>1. CASE position # None
      BY <1>2, <3>1 DEF BInv, Standing
    <3>2. CASE position = None
      <4> DEFINE entry == bar.open + Side(signal.direction) * Slip
      <4>1. SignalOK(signal)
        BY <1>2, <3>2 DEF BInv
      <4>2. /\ BracketsProtectively(signal.direction, entry, signal.stop, signal.target)
            /\ p = [direction |-> signal.direction, entry_ts |-> CloseTs[interval + 1] - BaseStep, entry |-> entry,
                    initial_stop |-> signal.stop, initial_target |-> signal.target,
                    live_stop |-> signal.stop, live_target |-> signal.target]
        BY <1>7, <3>2 DEF FilledAt
      <4>3. entry \in Int
        <5>1. Side(signal.direction) = 1 \/ Side(signal.direction) = -1
          BY DEF Side
        <5> QED BY <1>4, <5>1, BoundaryAssumption
      <4>4. CloseTs[interval + 1] - BaseStep \in Int
        <5>1. interval + 1 \in 1..Len(CloseTs)
          BY <1>2, <1>3
        <5>2. CloseTs[interval + 1] \in Int
          BY <5>1, BoundaryAssumption
        <5> QED BY <5>2, BoundaryAssumption
      <4> DEFINE ts == CloseTs[interval + 1] - BaseStep
      <4> HIDE DEF entry, ts, p
      <4>5. /\ p.direction = signal.direction /\ p.entry = entry /\ p.initial_stop = signal.stop
            /\ p.initial_target = signal.target /\ p.live_stop = signal.stop /\ p.live_target = signal.target
        BY <4>2
      <4>6. p \in Positions
        BY <4>1, <4>2, <4>3, <4>4 DEF Positions, SignalOK, ts, Directions
      <4>7. ~ Behind(p.direction, p.live_stop, p.initial_stop)
        BY <4>1, <4>5, Sides DEF SignalOK
      <4> QED BY <4>1, <4>2, <4>5, <4>6, <4>7 DEF PositionOK, SignalOK
    <3> QED BY <3>1, <3>2
  <2>3. BracketsProtectively(p.direction, bar.close, p.live_stop, p.live_target)
    <3>1. /\ p.direction \in Directions /\ p.live_stop \in Int /\ p.live_target \in Int
      BY <2>2 DEF PositionOK, Positions, Directions
    <3> HIDE DEF p
    <3>2. /\ BracketsProtectively(p.direction, bar.low, p.live_stop, p.live_target)
          /\ BracketsProtectively(p.direction, bar.high, p.live_stop, p.live_target)
      BY <1>7 DEF Hit, BracketsProtectively
    <3> QED BY <1>4, <3>1, <3>2, Between
  <2>4. play # None => Tightest'
    <3> SUFFICES ASSUME play # None PROVE Tightest'
      OBVIOUS
    <3>1. CASE position # None
      <4>1. Tightest /\ position' = position
        BY <1>2, <2>1, <3>1 DEF BInv, Standing
      <4>2. CalledFor' = CalledFor
        BY <1>2, <4>1 DEF CalledFor
      <4> QED BY <4>1, <4>2 DEF Tightest
    <3>2. CASE position = None
      <4>1. managed' = <<>>
        BY <1>2, <3>2 DEF BInv
      <4>2. CalledFor' = {}
        BY <4>1 DEF CalledFor, Range
      <4> HIDE DEF p
      <4> QED BY <2>1, <2>2, <3>2, <4>2 DEF Tightest
    <3> QED BY <3>1, <3>2
  <2>5. Standing'
    <3> HIDE DEF p
    <3> QED BY <1>1, <1>2, <2>1, <2>2, <2>3, <2>4 DEF Standing, PositionOK
  <2> HIDE DEF p
  <2> QED BY <1>2, <1>3, <1>5, <1>7, <2>1, <2>5 DEF BInv
<1> QED BY <1>6, <1>7

\* A close a position survives leaves it inside its levels.
LEMMA ManageKeeps == ASSUME BInv, Manage PROVE BInv'
<1> DEFINE Outcome(d, range) ==
        IF d.kind = "raises" THEN Refuse(FaultOf(d.what))
        ELSE IF ~ DecisionAccepted(d) THEN Refuse("output")
        ELSE /\ position' = IF d.action = "exit" THEN None
                            ELSE [position EXCEPT !.live_stop = Or(d.stop, @), !.live_target = Or(d.target, @)]
             /\ stage' = IF d.action = "exit" THEN "over" ELSE "open"
             /\ managed' = IF play = None \/ play.exits.trailing = None THEN Append(managed, <<close, NaN>>)
                           ELSE Append(managed, <<close, DistanceOf(play.exits.trailing, range)>>)
             /\ UNCHANGED <<play, interval, close, signal, fault>>
<1>0. PICK range \in Ranges, matched \in BOOLEAN :
        \E d \in IF play = None THEN Decisions ELSE {RuleDecision(matched, range)} : Outcome(d, range)
  BY DEF Manage
<1>1. PICK d \in IF play = None THEN Decisions ELSE {RuleDecision(matched, range)} : Outcome(d, range)
  BY <1>0
<1>2. stage = "manage" /\ position # None /\ Standing
  BY DEF Manage, BInv
<1>3. /\ play \in Plays /\ interval \in 1..Len(CloseTs) /\ close \in Nat \ {0}
      /\ managed \in Seq(Int \X (Int \cup {NaN})) /\ (play # None => fault = None)
  BY DEF BInv
<1>4. play # None => d = RuleDecision(matched, range) /\ d.kind = "decision" /\ DecisionAccepted(d)
  BY <1>2, RuleDecides
<1>5. CASE \E class : Refuse(class) /\ play = None
  BY <1>3, <1>5 DEF Refuse, BInv
<1>6. CASE /\ DecisionAccepted(d)
           /\ position' = IF d.action = "exit" THEN None
                          ELSE [position EXCEPT !.live_stop = Or(d.stop, @), !.live_target = Or(d.target, @)]
           /\ stage' = IF d.action = "exit" THEN "over" ELSE "open"
           /\ managed' = IF play = None \/ play.exits.trailing = None THEN Append(managed, <<close, NaN>>)
                         ELSE Append(managed, <<close, DistanceOf(play.exits.trailing, range)>>)
           /\ UNCHANGED <<play, interval, close, signal, fault>>
  <2> DEFINE trail == IF play = None THEN NaN ELSE TrailAt(range)
             stop == Or(d.stop, position.live_stop)
             target == Or(d.target, position.live_target)
             side == position.direction
  <2>1. managed' = Append(managed, <<close, trail>>) /\ trail \in Int \cup {NaN}
    <3>1. play # None /\ play.exits.trailing # None =>
            DistanceOf(play.exits.trailing, range) \in Nat \cup {NaN}
      <4> SUFFICES ASSUME play # None, play.exits.trailing # None
                   PROVE  DistanceOf(play.exits.trailing, range) \in Nat \cup {NaN}
        OBVIOUS
      <4>1. play.exits.trailing.size \in Nat \ {0}
        BY <1>3, BoundaryAssumption DEF Usable
      <4> QED BY <1>3, <4>1, DistanceTyped
    <3> QED BY <1>6, <3>1 DEF TrailAt
  <2>2. managed' \in Seq(Int \X (Int \cup {NaN}))
    <3>1. <<close, trail>> \in Int \X (Int \cup {NaN})
      BY <1>3, <2>1
    <3> HIDE DEF trail
    <3> QED BY <1>3, <2>1, <3>1, AppendProperties
  <2>3. CASE d.action = "exit"
    <3>1. position' = None /\ stage' = "over"
      BY <1>6, <2>3
    <3> HIDE DEF trail
    <3> QED BY <1>3, <1>6, <2>2, <3>1 DEF BInv
  <2>4. CASE d.action # "exit"
    <3>1. /\ side \in Directions /\ position.live_stop \in Int /\ position.live_target \in Int
          /\ position.live_stop > 0 /\ position.initial_stop \in Int
          /\ position \in Positions /\ PositionOK(position)
          /\ Behind(side, position.live_stop, close) /\ Behind(side, close, position.live_target)
          /\ ~ Behind(side, position.live_stop, position.initial_stop)
      BY <1>2, StandingFacts DEF Standing, PositionOK
    <3>2. d.stop \in Int \cup {None} /\ d.target \in Int \cup {None}
      <4>1. CASE play = None
        BY <1>1, <1>6, <4>1, BoundaryAssumption DEF DecisionAccepted
      <4>2. CASE play # None
        <5>1. d = RuleDecision(matched, range) /\ d.target = None /\ Or(d.stop, position.live_stop) \in Int
          BY <1>2, <1>4, <2>4, <4>2, RuleDecides
        <5> QED BY <5>1 DEF Or
      <4> QED BY <4>1, <4>2
    <3>3. /\ stop \in Int /\ target \in Int /\ stop > 0
          /\ Behind(side, stop, close) /\ Behind(side, close, target)
          /\ ~ Behind(side, stop, position.live_stop)
      <4>1. d.stop # None => d.stop > 0 /\ ~ Behind(side, d.stop, position.live_stop) /\ Behind(side, d.stop, close)
        BY <1>6 DEF DecisionAccepted
      <4>2. d.target # None => Behind(side, close, d.target)
        BY <1>6 DEF DecisionAccepted
      <4>3. ~ Behind(side, position.live_stop, position.live_stop)
        BY <3>1, Sides
      <4> QED BY <3>1, <3>2, <4>1, <4>2, <4>3 DEF Or
    <3>4. /\ stage' = "open"
          /\ position' = [position EXCEPT !.live_stop = stop, !.live_target = target]
      BY <1>6, <2>4
    <3> HIDE DEF stop, target, trail
    <3>5. /\ position' \in Positions /\ position'.live_stop = stop /\ position'.live_target = target
          /\ position'.direction = side /\ position'.entry = position.entry
          /\ position'.entry_ts = position.entry_ts
          /\ position'.initial_stop = position.initial_stop /\ position'.initial_target = position.initial_target
      BY <3>1, <3>3, <3>4 DEF Positions
    <3>6. PositionOK(position')
      BY <3>1, <3>3, <3>5 DEF PositionOK
    <3>7. ~ Behind(side, stop, position.initial_stop)
      BY <3>1, <3>3, Sides
    <3>8. play # None => Tightest' /\ InTime'
      <4> SUFFICES ASSUME play # None PROVE Tightest' /\ InTime'
        OBVIOUS
      <4>1. /\ d = RuleDecision(matched, range) /\ d.target = None /\ ~ TimedOut
            /\ stop \in {position.live_stop} \cup Calls(close, trail)
            /\ \A level \in Calls(close, trail) : level \in Int /\ ~ Behind(side, stop, level)
        BY <1>2, <1>4, <2>4, RuleDecides DEF stop, trail
      <4>2. CalledFor' = CalledFor \cup Calls(close, trail)
        <5>1. close \in Int /\ trail \in Int \cup {NaN} /\ play' = play
          BY <1>3, <1>6, <2>1
        <5> QED BY <1>3, <2>1, <3>5, <5>1, CalledForGrows
      <4>3. Tightest
        BY <1>2 DEF Standing
      <4>4. target = position.live_target
        BY <4>1 DEF Or, target
      <4>5. \A level \in CalledFor : level \in Int /\ ~ Behind(side, stop, level)
        <5> SUFFICES ASSUME NEW level \in CalledFor PROVE level \in Int /\ ~ Behind(side, stop, level)
          OBVIOUS
        <5>1. level \in Int /\ ~ Behind(side, position.live_stop, level)
          BY <4>3 DEF Tightest
        <5>2. \A d0 \in Directions, a, b, c \in Int :
                ~ Behind(d0, a, b) /\ ~ Behind(d0, b, c) => ~ Behind(d0, a, c)
          BY Sides
        <5> QED BY <3>1, <3>3, <5>1, <5>2
      <4>6. stop \in CalledFor' \cup {position.initial_stop}
        BY <4>1, <4>2, <4>3 DEF Tightest
      <4>7. Tightest'
        <5>1. \A level \in CalledFor' : level \in Int /\ ~ Behind(side, stop, level)
          BY <4>1, <4>2, <4>5
        <5> QED BY <3>5, <4>3, <4>4, <4>6, <5>1 DEF Tightest
      <4>8. InTime'
        <5>1. play.exits.time_stop # None =>
                ~ (CloseTs[interval] - position.entry_ts >= play.exits.time_stop * BaseStep)
          BY <4>1 DEF TimedOut
        <5>2. play.exits.time_stop # None => play.exits.time_stop * BaseStep \in Int
          <6>1. play.exits.time_stop \in (Nat \ {0}) \cup {None} /\ BaseStep \in Nat
            BY <1>3, BoundaryAssumption DEF Usable
          <6> QED BY <6>1
        <5>3. CloseTs[interval] - position.entry_ts \in Int
          <6>1. CloseTs[interval] \in Int
            BY <1>3, BoundaryAssumption
          <6> QED BY <3>1, <6>1 DEF Positions
        <5> DEFINE held == CloseTs[interval] - position.entry_ts
                   limit == play.exits.time_stop * BaseStep
        <5>4. play.exits.time_stop # None => held < limit
          <6> HIDE DEF held, limit
          <6> QED BY <5>1, <5>2, <5>3 DEF held, limit
        <5> QED BY <1>6, <3>5, <5>4 DEF InTime
      <4> QED BY <4>7, <4>8
    <3>9. Standing'
      <4>1. close' = close /\ play' = play
        BY <1>6
      <4> QED BY <3>3, <3>5, <3>6, <3>7, <3>8, <4>1 DEF Standing, BracketsProtectively
    <3>10. position' # None => InTime'
      <4>1. play' = play
        BY <1>6
      <4> QED BY <3>8, <4>1 DEF InTime
    <3>11. position' # None
      BY <3>9, BoundaryAssumption DEF Standing, PositionOK
    <3> QED BY <1>3, <1>6, <2>2, <3>4, <3>9, <3>10, <3>11 DEF BInv
  <2> QED BY <2>3, <2>4
<1>7. \/ \E class : Refuse(class) /\ play = None
      \/ /\ DecisionAccepted(d)
         /\ position' = IF d.action = "exit" THEN None
                        ELSE [position EXCEPT !.live_stop = Or(d.stop, @), !.live_target = Or(d.target, @)]
         /\ stage' = IF d.action = "exit" THEN "over" ELSE "open"
         /\ managed' = IF play = None \/ play.exits.trailing = None THEN Append(managed, <<close, NaN>>)
                       ELSE Append(managed, <<close, DistanceOf(play.exits.trailing, range)>>)
         /\ UNCHANGED <<play, interval, close, signal, fault>>
  BY <1>1, <1>4
<1> QED BY <1>5, <1>6, <1>7

\* Every step keeps the invariant.
LEMMA BInvStep == BInv /\ [BoundaryNext]_boundaryVars => BInv'
<1> SUFFICES ASSUME BInv, [BoundaryNext]_boundaryVars PROVE BInv'
  OBVIOUS
<1>1. CASE CloseWindow
  BY <1>1 DEF CloseWindow, BInv
<1>2. CASE UNCHANGED boundaryVars
  BY <1>2 DEF boundaryVars, BInv, Standing, Tightest, CalledFor, InTime, SignalOK
<1>3. CASE Ended
  BY <1>2, <1>3 DEF Ended
<1> QED BY <1>1, <1>2, <1>3, EvaluateKeeps, TradeKeeps, ManageKeeps DEF BoundaryNext

\* It holds at first, and says what the property says.
LEMMA BInvFirst == BoundaryInit => BInv
<1> SUFFICES ASSUME BoundaryInit PROVE BInv
  OBVIOUS
<1>1. interval \in 1..Len(CloseTs)
  <2>1. Len(CloseTs) \in Nat \ {0}
    BY BoundaryAssumption
  <2> QED BY <2>1 DEF BoundaryInit
<1>2. close \in Nat \ {0} /\ <<>> \in Seq(Int \X (Int \cup {NaN}))
  BY BoundaryAssumption DEF BoundaryInit
<1> QED BY <1>1, <1>2 DEF BoundaryInit, BInv

\* For any strategy, market and window: who survives a close stands strictly
\* between its levels, a stop is never loosened, a rule strategy is never
\* refused, and its stop is the tightest level its life called for
\* (validate_management_decision, RuleStrategy.manage).
THEOREM LevelsManaged == BoundarySpec => []ManagedWithinLevels
<1>1. BInv => ManagedWithinLevels
  <2> SUFFICES ASSUME BInv PROVE ManagedWithinLevels
    OBVIOUS
  <2>1. play # None => fault = None
    BY DEF BInv
  <2>2. position # None /\ stage = "open" => Standing /\ InTime
    BY DEF BInv
  <2> QED BY <2>1, <2>2 DEF Standing, Tightest, InTime, ManagedWithinLevels
<1> QED BY <1>1, BInvFirst, BInvStep, PTL DEF BoundarySpec

-----------------------------------------------------------------------------
\* While a term is under test: its sets are tried or still to be, none tried
\* is at fault, and the counts are of those tried.
UnderTest ==
  verdict = None /\ term # None =>
    /\ term \in Terms /\ rows \in FrameSizes /\ rows > 1
    /\ ArgsOf(term, "odd") = {} /\ ArgSets(term) # {}
    /\ DOMAIN done \cup todo = Mandated(term) /\ DOMAIN done \cap todo = {}
    /\ IsFiniteSet(DOMAIN done)
    /\ \A s \in DOMAIN done : done[s] \in Behaviours /\ SetCause(done[s]) = None
    /\ checked = Cardinality({s \in DOMAIN done : Numbers(done[s]) # {}})
    /\ vacuous \in BOOLEAN /\ (vacuous <=> \E s \in DOMAIN done : Numbers(done[s]) = {})

GateInv == UnderTest /\ CheckedIsCausal /\ VerdictIsDeserved

-----------------------------------------------------------------------------
(* The argument sets. *)

\* Without an argument of a shape the schema does not know, the enumeration
\* yields the sets a term is owed: nothing is left out, nothing is added.
LEMMA ArgSetsMandated ==
  ASSUME NEW t \in Terms, ArgsOf(t, "odd") = {}
  PROVE  ArgSets(t) = Mandated(t)
<1> DEFINE A == DOMAIN t.args
           U == UNION {Values(t, a) : a \in A}
           apart(f) == \A a, c \in ArgsOf(t, "range") : f[a] = Resting(t, a) \/ f[c] = Resting(t, c) \/ a = c
<1>1. \A a \in A : t.args[a].kind \in {"choice", "condition", "range"}
  BY GateAssumption DEF ArgsOf
<1>2. /\ ArgsOf(t, "choice") = {a \in A : t.args[a].kind = "choice"}
      /\ ArgsOf(t, "range") = {a \in A : t.args[a].kind = "range"}
  BY DEF ArgsOf
<1>3. \A a \in A : Values(t, a) \subseteq U
  OBVIOUS
<1>4. Mandated(t) = {f \in [A -> U] : (\A a \in A : f[a] \in Values(t, a)) /\ apart(f)}
  <2>1. \A f \in [A -> U] : DOMAIN f = A
    OBVIOUS
  <2> HIDE DEF U
  <2> QED BY <2>1 DEF Mandated, U
<1>5. ASSUME NEW c \in Combos(t)
      PROVE  LET base == Base(t, c)
             IN /\ base \in [A -> U]
                /\ \A a \in A : base[a] \in Values(t, a)
                /\ \A a \in ArgsOf(t, "range") : base[a] = Resting(t, a)
  <2> DEFINE base == Base(t, c)
  <2>1. \A a \in ArgsOf(t, "choice") : c[a] \in t.args[a].values
    BY DEF Combos
  <2>2. DOMAIN base = A /\ \A a \in A :
          base[a] = CASE t.args[a].kind = "condition" -> Condition
                      [] t.args[a].kind = "choice" -> c[a]
                      [] t.args[a].kind = "range" /\ a \in DOMAIN t.defaults -> t.defaults[a]
                      [] OTHER -> t.args[a].low
    BY DEF Base
  <2> HIDE DEF base
  <2>3. ASSUME NEW a \in A
        PROVE  base[a] \in Values(t, a) /\ (a \in ArgsOf(t, "range") => base[a] = Resting(t, a))
    <3>1. CASE t.args[a].kind = "condition"
      BY <1>2, <2>2, <3>1 DEF Values
    <3>2. CASE t.args[a].kind = "choice"
      BY <1>2, <2>1, <2>2, <3>2 DEF Values
    <3>3. CASE t.args[a].kind = "range"
      <4>1. base[a] = Resting(t, a)
        BY <2>2, <3>3 DEF Resting
      <4> QED BY <3>3, <4>1 DEF Values
    <3> QED BY <1>1, <3>1, <3>2, <3>3
  <2>4. \A a \in A : base[a] \in U
    <3> HIDE DEF U
    <3> QED BY <1>3, <2>3
  <2>5. base \in [A -> U]
    <3>1. base = [a \in A |-> base[a]]
      BY <2>2 DEF base, Base
    <3> HIDE DEF U
    <3> QED BY <2>4, <3>1
  <2>6. \A a \in ArgsOf(t, "range") : a \in A
    BY <1>2
  <2> QED BY <2>3, <2>5, <2>6 DEF base
<1>6. ASSUME NEW c \in Combos(t), NEW a \in ArgsOf(t, "range"), NEW v \in {t.args[a].low, t.args[a].high}
      PROVE  [Base(t, c) EXCEPT ![a] = v] \in Mandated(t)
  <2> DEFINE base == Base(t, c)
             f == [base EXCEPT ![a] = v]
  <2>1. /\ base \in [A -> U]
        /\ \A b \in A : base[b] \in Values(t, b)
        /\ \A b \in ArgsOf(t, "range") : base[b] = Resting(t, b)
    BY <1>5
  <2>2. v \in Values(t, a) /\ a \in A /\ \A b \in ArgsOf(t, "range") : b \in A
    BY <1>2 DEF Values
  <2>3. v \in U
    <3> HIDE DEF U
    <3> QED BY <1>3, <2>2
  <2> HIDE DEF base, U
  <2>4. f \in [A -> U] /\ f[a] = v /\ \A b \in A : b # a => f[b] = base[b]
    BY <2>1, <2>2, <2>3
  <2> HIDE DEF f
  <2>5. \A b \in A : f[b] \in Values(t, b)
    BY <2>1, <2>2, <2>4
  <2>6. apart(f)
    BY <2>1, <2>2, <2>4
  <2> QED BY <1>4, <2>4, <2>5, <2>6 DEF f, base
<1>7. ASSUME NEW c \in Combos(t) PROVE Base(t, c) \in Mandated(t)
  <2> DEFINE base == Base(t, c)
  <2>1. /\ base \in [A -> U]
        /\ \A b \in A : base[b] \in Values(t, b)
        /\ \A b \in ArgsOf(t, "range") : base[b] = Resting(t, b)
    BY <1>5
  <2> HIDE DEF base, U
  <2> QED BY <1>4, <2>1 DEF base
<1>8. ArgSets(t) \subseteq Mandated(t)
  <2> SUFFICES ASSUME NEW c \in Combos(t), NEW f \in {Base(t, c)} \cup Ends(t, Base(t, c))
               PROVE  f \in Mandated(t)
    BY DEF ArgSets
  <2>1. CASE f = Base(t, c)
    BY <1>7, <2>1
  <2>2. CASE f \in Ends(t, Base(t, c))
    <3>1. PICK a \in ArgsOf(t, "range") :
            f = [Base(t, c) EXCEPT ![a] = t.args[a].low] \/ f = [Base(t, c) EXCEPT ![a] = t.args[a].high]
      BY <2>2 DEF Ends
    <3> QED BY <1>6, <3>1
  <2> QED BY <2>1, <2>2
<1>9. ASSUME NEW f \in Mandated(t) PROVE f \in ArgSets(t)
  <2> DEFINE c == [a \in ArgsOf(t, "choice") |-> f[a]]
             base == Base(t, c)
  <2>1. f \in [A -> U] /\ (\A a \in A : f[a] \in Values(t, a)) /\ apart(f)
    BY <1>4
  <2>2. c \in Combos(t)
    <3>1. \A a \in ArgsOf(t, "choice") : f[a] \in t.args[a].values
      BY <1>2, <2>1 DEF Values
    <3>2. \A a \in ArgsOf(t, "choice") : f[a] \in UNION {t.args[b].values : b \in ArgsOf(t, "choice")}
      BY <3>1
    <3> QED BY <3>1, <3>2 DEF Combos
  <2>3. /\ base \in [A -> U]
        /\ \A b \in ArgsOf(t, "range") : base[b] = Resting(t, b)
    <3> HIDE DEF c, U
    <3> QED BY <1>5, <2>2
  <2>4. \A a \in A : t.args[a].kind # "range" => base[a] = f[a]
    <3> SUFFICES ASSUME NEW a \in A, t.args[a].kind # "range" PROVE base[a] = f[a]
      OBVIOUS
    <3>1. CASE t.args[a].kind = "condition"
      BY <2>1, <3>1 DEF Base, Values
    <3>2. CASE t.args[a].kind = "choice"
      BY <1>2, <3>2 DEF Base
    <3> QED BY <1>1, <3>1, <3>2
  <2> HIDE DEF base, U
  <2>5. base \in {Base(t, c)} \cup Ends(t, Base(t, c))
    BY DEF base
  <2>6. CASE \A a \in ArgsOf(t, "range") : f[a] = Resting(t, a)
    <3>1. \A a \in A : f[a] = base[a]
      BY <1>2, <2>3, <2>4, <2>6
    <3>2. f = base
      BY <2>1, <2>3, <3>1
    <3> QED BY <2>2, <2>5, <3>2 DEF ArgSets
  <2>7. CASE ~ \A a \in ArgsOf(t, "range") : f[a] = Resting(t, a)
    <3>1. PICK a \in ArgsOf(t, "range") : f[a] # Resting(t, a)
      BY <2>7
    <3>2. \A b \in ArgsOf(t, "range") : b # a => f[b] = Resting(t, b)
      BY <2>1, <3>1
    <3>3. a \in A /\ t.args[a].kind = "range"
      BY <1>2
    <3>4. f[a] \in {t.args[a].low, t.args[a].high}
      BY <2>1, <3>1, <3>3 DEF Values
    <3>5. \A b \in A : f[b] = IF b = a THEN f[a] ELSE base[b]
      BY <1>2, <2>3, <2>4, <3>2
    <3>6. f = [base EXCEPT ![a] = f[a]]
      BY <2>1, <2>3, <3>3, <3>5
    <3>7. f \in Ends(t, base)
      BY <3>4, <3>6 DEF Ends
    <3> QED BY <2>2, <3>7 DEF ArgSets, base
  <2> QED BY <2>6, <2>7
<1> QED BY <1>8, <1>9

-----------------------------------------------------------------------------
(* The probes. *)

\* Division with its remainder.
LEMMA Divided ==
  ASSUME NEW a \in Nat, NEW g \in Nat \ {0}
  PROVE  /\ a \div g \in Nat /\ a % g \in Nat /\ a % g < g
         /\ a = ((a \div g) * g) + (a % g)
<1>1. a \in Int /\ g \in Int /\ g > 0
  OBVIOUS
<1>2. a % g \in Nat /\ a % g < g
  BY <1>1
<1>3. a \div g \in Nat
  BY <1>1
<1>4. a = ((a \div g) * g) + (a % g)
  BY <1>1
<1> QED BY <1>2, <1>3, <1>4

\* A quotient rounds to the number it is less than a half away from.
LEMMA RoundedNear ==
  ASSUME NEW a \in Nat, NEW g \in Nat \ {0}, NEW d \in Nat,
         2 * (d * g) < 2 * a + g, 2 * a < 2 * (d * g) + g
  PROVE  Rounded(a, g) = d
<1> DEFINE q == a \div g
           r == a % g
           p == q * g
           e == d * g
<1>1. q \in Nat /\ r \in Nat /\ r < g /\ a = p + r
  BY Divided
<1>2. p \in Nat /\ e \in Nat
  BY <1>1
<1>3. Rounded(a, g) = IF 2 * r > g \/ (2 * r = g /\ q % 2 = 1) THEN q + 1 ELSE q
  BY DEF Rounded
<1>4. 2 * e < 2 * a + g /\ 2 * a < 2 * e + g
  OBVIOUS
<1>5. q + 1 <= d => p + g <= e
  <2> HAVE q + 1 <= d
  <2>1. (q + 1) * g <= d * g
    BY <1>1, TimesGrows
  <2>2. (q + 1) * g = p + g
    BY <1>1
  <2> QED BY <2>1, <2>2
<1>6. d + 1 <= q => e + g <= p
  <2> HAVE d + 1 <= q
  <2>1. (d + 1) * g <= q * g
    BY <1>1, TimesGrows
  <2>2. (d + 1) * g = e + g
    OBVIOUS
  <2> QED BY <2>1, <2>2
<1>7. q + 2 <= d => p + 2 * g <= e
  <2> HAVE q + 2 <= d
  <2>1. (q + 2) * g <= d * g
    BY <1>1, TimesGrows
  <2>2. (q + 2) * g = p + 2 * g
    BY <1>1
  <2> QED BY <2>1, <2>2
<1>8. q = d => p = e
  OBVIOUS
<1>9. q + 1 = d => p + g = e
  <2> HAVE q + 1 = d
  <2>1. (q + 1) * g = q * g + g
    BY <1>1
  <2> QED BY <2>1
<1> HIDE DEF q, r, p, e
<1>10. ~ (d + 1 <= q)
  BY <1>1, <1>2, <1>4, <1>6
<1>11. ~ (q + 2 <= d)
  BY <1>1, <1>2, <1>4, <1>7
<1>12. q = d \/ q + 1 = d
  BY <1>1, <1>10, <1>11
<1>13. CASE q = d
  <2>1. 2 * r < g
    BY <1>1, <1>2, <1>4, <1>8, <1>13
  <2> QED BY <1>1, <1>3, <1>13, <2>1
<1>14. CASE q + 1 = d
  <2>1. 2 * r > g
    BY <1>1, <1>2, <1>4, <1>9, <1>14
  <2> QED BY <1>3, <1>14, <2>1
<1> QED BY <1>12, <1>13, <1>14

\* A quotient rounds to no more than a whole number it does not exceed.
LEMMA RoundedBelow ==
  ASSUME NEW a \in Nat, NEW g \in Nat \ {0}, NEW d \in Nat, a <= d * g
  PROVE  Rounded(a, g) \in 0..d
<1> DEFINE q == a \div g
           r == a % g
           p == q * g
           e == d * g
<1>1. q \in Nat /\ r \in Nat /\ r < g /\ a = p + r
  BY Divided
<1>2. p \in Nat /\ e \in Nat /\ a <= e
  BY <1>1
<1>3. Rounded(a, g) = IF 2 * r > g \/ (2 * r = g /\ q % 2 = 1) THEN q + 1 ELSE q
  BY DEF Rounded
<1>4. d + 1 <= q => e + g <= p
  <2> HAVE d + 1 <= q
  <2>1. (d + 1) * g <= q * g
    BY <1>1, TimesGrows
  <2>2. (d + 1) * g = e + g
    OBVIOUS
  <2> QED BY <2>1, <2>2
<1>5. q = d => p = e
  OBVIOUS
<1> HIDE DEF q, r, p, e
<1>6. q <= d
  BY <1>1, <1>2, <1>4
<1>7. CASE q = d
  <2>1. r = 0
    BY <1>1, <1>2, <1>5, <1>7
  <2>2. ~ (2 * r > g) /\ ~ (2 * r = g)
    BY <2>1
  <2>3. Rounded(a, g) = q
    BY <1>3, <2>2
  <2> QED BY <1>1, <1>7, <2>3
<1>8. CASE q + 1 <= d
  <2>1. Rounded(a, g) = q \/ Rounded(a, g) = q + 1
    BY <1>3
  <2> QED BY <1>1, <1>8, <2>1
<1> QED BY <1>1, <1>6, <1>7, <1>8

\* A spread stays between its ends.
LEMMA SpreadBetween ==
  ASSUME NEW lo \in Nat, NEW hi \in Nat, NEW count \in Nat \ {0}
  PROVE  Spread(lo, hi, count) \subseteq lo..hi
<1> DEFINE gaps == IF count > 1 THEN count - 1 ELSE 1
           L == hi - lo
<1>1. CASE hi < lo
  BY <1>1 DEF Spread
<1>2. CASE ~ (hi < lo)
  <2>1. L \in Nat /\ gaps \in Nat \ {0}
    BY <1>2
  <2>2. Spread(lo, hi, count) = {lo + Rounded(k * L, gaps) : k \in 0..count - 1}
    BY <1>2 DEF Spread
  <2>3. \A k \in 0..count - 1 : k \in Nat /\ k <= gaps
    OBVIOUS
  <2> HIDE DEF gaps
  <2>4. ASSUME NEW k \in 0..count - 1 PROVE Rounded(k * L, gaps) \in 0..L
    <3> DEFINE len == L
    <3>1. len \in Nat
      BY <2>1
    <3> HIDE DEF len
    <3>2. k \in Nat /\ k <= gaps /\ gaps \in Nat
      BY <2>1, <2>3
    <3>3. k * len <= gaps * len /\ k * len \in Nat
      BY <3>1, <3>2, TimesGrows
    <3>4. gaps * len = len * gaps
      BY <3>1, <3>2
    <3>5. k * len <= len * gaps
      BY <3>3, <3>4
    <3>6. Rounded(k * len, gaps) \in 0..len
      BY <2>1, <3>1, <3>3, <3>5, RoundedBelow
    <3> QED BY <3>6 DEF len
  <2>5. \A x \in 0..L : lo + x \in lo..hi
    BY <1>2
  <2> HIDE DEF L
  <2> QED BY <2>2, <2>4, <2>5
<1> QED BY <1>1, <1>2

\* A spread of as many probes as there are rows is on every one of them.
LEMMA SpreadCovers ==
  ASSUME NEW lo \in Nat, NEW hi \in Nat, NEW count \in Nat \ {0}, lo <= hi, hi - lo + 1 <= count
  PROVE  lo..hi \subseteq Spread(lo, hi, count)
<1> SUFFICES ASSUME NEW m \in lo..hi PROVE m \in Spread(lo, hi, count)
  OBVIOUS
<1> DEFINE g == IF count > 1 THEN count - 1 ELSE 1
           L == hi - lo
           d == m - lo
<1>1. /\ L \in Nat /\ g \in Nat \ {0} /\ d \in Nat /\ d <= L /\ (L # 0 => L <= g)
      /\ (L # 0 => g = count - 1) /\ lo + d = m
  OBVIOUS
<1>2. Spread(lo, hi, count) = {lo + Rounded(k * L, g) : k \in 0..count - 1}
  BY DEF Spread
<1>3. SUFFICES \E k \in 0..count - 1 : Rounded(k * L, g) = d
  <2> HIDE DEF g, L, d
  <2>1. PICK k \in 0..count - 1 : Rounded(k * L, g) = d
    BY <1>3
  <2>2. lo + Rounded(k * L, g) = m
    BY <1>1, <2>1
  <2> QED BY <1>2, <2>2
<1> HIDE DEF g, L, d
<1>4. CASE d = 0
  <2>1. 0 * L = 0 /\ d * g = 0
    BY <1>1, <1>4
  <2>2. Rounded(0, g) = 0
    <3>1. 2 * (0 * g) < 2 * 0 + g /\ 2 * 0 < 2 * (0 * g) + g
      BY <1>1
    <3> QED BY <1>1, <3>1, RoundedNear
  <2>3. 0 \in 0..count - 1
    OBVIOUS
  <2> QED BY <1>4, <2>1, <2>2, <2>3
<1>5. CASE d # 0 /\ L = g
  <2>1. d \in 0..count - 1
    BY <1>1, <1>5
  <2>2. d * L = d * g /\ d * g \in Nat
    BY <1>1, <1>5
  <2>3. Rounded(d * g, g) = d
    <3> DEFINE e == d * g
    <3>1. e \in Nat
      BY <2>2
    <3> HIDE DEF e
    <3>2. 2 * e < 2 * e + g
      BY <1>1, <3>1
    <3> QED BY <1>1, <3>1, <3>2, RoundedNear DEF e
  <2> QED BY <2>1, <2>2, <2>3
<1>6. CASE d # 0 /\ L # g
  <2>1. L \in Nat \ {0} /\ L < g /\ d \in Nat \ {0}
    BY <1>1, <1>6
  <2> DEFINE e == d * g
             q == (2 * e - g) \div (2 * L)
             k == q + 1
             p == q * (2 * L)
             r == (2 * e - g) % (2 * L)
  <2>2. e \in Nat /\ g <= e
    <3>1. 1 * g <= d * g /\ d * g \in Nat
      BY <1>1, <2>1, TimesGrows
    <3>2. 1 * g = g
      BY <1>1
    <3> QED BY <3>1, <3>2
  <2>3. 2 * e - g \in Nat /\ 2 * L \in Nat \ {0}
    <3> HIDE DEF e
    <3> QED BY <1>1, <2>1, <2>2
  <2>4. q \in Nat /\ r \in Nat /\ r < 2 * L /\ 2 * e - g = p + r
    <3> HIDE DEF e
    <3> QED BY <2>3, Divided
  <2>5. p \in Nat /\ 2 * (k * L) = p + 2 * L /\ k \in Nat /\ k * L \in Nat
    <3> HIDE DEF e
    <3>1. q \in Nat /\ L \in Nat
      BY <1>1, <2>4
    <3> HIDE DEF q
    <3> QED BY <3>1
  <2>6. 2 * e < 2 * (k * L) + g /\ 2 * (k * L) < 2 * e + g
    <3> DEFINE z == k * L
    <3>1. z \in Nat /\ 2 * z = p + 2 * L
      BY <2>5
    <3> HIDE DEF e, p, r, z
    <3>2. 2 * e - g = p + r /\ r \in Nat /\ r < 2 * L /\ p \in Nat /\ e \in Nat /\ L \in Nat /\ L < g /\ g \in Nat
      BY <1>1, <2>1, <2>2, <2>4, <2>5
    <3>3. 2 * e < 2 * z + g /\ 2 * z < 2 * e + g
      BY <3>1, <3>2
    <3> QED BY <3>3 DEF z
  <2>7. Rounded(k * L, g) = d
    <3> DEFINE z == k * L
    <3>1. z \in Nat /\ 2 * (d * g) < 2 * z + g /\ 2 * z < 2 * (d * g) + g
      BY <2>5, <2>6
    <3> HIDE DEF z
    <3>2. Rounded(z, g) = d
      BY <1>1, <3>1, RoundedNear
    <3> QED BY <3>2 DEF z
  <2>8. k <= g
    <3> SUFFICES ASSUME g + 1 <= k PROVE FALSE
      BY <1>1, <2>5
    <3>1. (g + 1) * L <= k * L /\ (g + 1) * L = L * g + L
      <4> HIDE DEF k
      <4>1. g + 1 \in Nat
        BY <1>1
      <4>2. (g + 1) * L <= k * L
        BY <1>1, <2>5, <4>1, TimesGrows
      <4>3. (g + 1) * L = L * g + L
        BY <1>1
      <4> QED BY <4>2, <4>3
    <3>2. d * g <= L * g
      BY <1>1, TimesGrows
    <3> DEFINE z == k * L
               y == L * g
    <3>3. z \in Nat /\ y \in Nat /\ y + L <= z /\ e <= y /\ 2 * z < 2 * e + g /\ L \in Nat /\ g \in Nat
      BY <1>1, <2>2, <2>5, <2>6, <3>1, <3>2
    <3>4. 2 * z = p + 2 * L /\ p <= 2 * e - g /\ p \in Nat
      BY <2>4, <2>5
    <3> HIDE DEF z, y, e, p
    <3> QED BY <1>1, <2>2, <3>3, <3>4
  <2>9. k \in 0..count - 1
    <3> HIDE DEF k
    <3> QED BY <1>1, <2>1, <2>5, <2>8
  <2> HIDE DEF k
  <2> QED BY <2>7, <2>9
<1> QED BY <1>4, <1>5, <1>6

\* The probes are of rows below the last, and of every row of a half that is
\* not too long for them.
LEMMA ProbesCover ==
  ASSUME rows \in Nat, rows > 1
  PROVE  /\ ProbeRows(rows) \subseteq 0..rows - 2
         /\ \A i \in 0..rows - 2 : Crowded(i) \/ i \in ProbeRows(rows)
<1> DEFINE half == rows \div 2
           low == Least(half - 1, rows - 2)
           count == ProbeCount
<1>1. half \in Nat /\ 1 <= half /\ half - 1 <= rows - 2 /\ half <= rows - 1
  OBVIOUS
<1>2. count \in Nat \ {0}
  BY GateAssumption
<1>3. ProbeRows(rows) = Spread(half, rows - 2, count) \cup Spread(0, low, count)
  BY DEF ProbeRows
<1>4. \A i : Crowded(i) <=> IF i < half THEN half > count ELSE rows - 1 - half > count
  BY DEF Crowded
<1> HIDE DEF half, count
<1>5. low = half - 1 /\ low \in Nat /\ rows - 2 \in Nat
  BY <1>1 DEF Least
<1> HIDE DEF low
<1>6. ProbeRows(rows) \subseteq 0..rows - 2
  <2>1. Spread(half, rows - 2, count) \subseteq half..rows - 2 /\ Spread(0, low, count) \subseteq 0..low
    BY <1>1, <1>2, <1>5, SpreadBetween
  <2>2. half..rows - 2 \subseteq 0..rows - 2 /\ 0..low \subseteq 0..rows - 2
    BY <1>1, <1>5
  <2> QED BY <1>3, <2>1, <2>2
<1>7. ASSUME NEW i \in 0..rows - 2, ~ Crowded(i) PROVE i \in ProbeRows(rows)
  <2>1. CASE i < half
    <3>1. half <= count
      BY <1>1, <1>2, <1>4, <1>7, <2>1
    <3>2. i \in 0..low /\ 0 <= low /\ low - 0 + 1 <= count
      BY <1>1, <1>5, <2>1, <3>1
    <3>3. 0..low \subseteq Spread(0, low, count)
      BY <1>2, <1>5, <3>2, SpreadCovers
    <3> QED BY <1>3, <3>2, <3>3
  <2>2. CASE ~ (i < half)
    <3>1. rows - 1 - half <= count
      BY <1>1, <1>2, <1>4, <1>7, <2>2
    <3>2. i \in half..rows - 2 /\ half <= rows - 2 /\ (rows - 2) - half + 1 <= count
      BY <1>1, <2>2, <3>1
    <3>3. half..rows - 2 \subseteq Spread(half, rows - 2, count)
      BY <1>1, <1>2, <1>5, <3>2, SpreadCovers
    <3> QED BY <1>3, <3>2, <3>3
  <2> QED BY <2>1, <2>2
<1> QED BY <1>6, <1>7

-----------------------------------------------------------------------------
(* One argument set. *)

\* The whole frame's cause is the first fault's: never a look-ahead, and a
\* mutation only of a callable that wrote.
LEMMA WholeDecides ==
  ASSUME NEW b, b.whole \subseteq Faults
  PROVE  /\ WholeCause(b) = None <=> b.whole = {}
         /\ WholeCause(b) \in (Causes \cup {None}) \ {"lookahead"}
         /\ WholeCause(b) = "mutation" => "scribbles" \in b.whole
<1>1. None \notin Causes
  BY GateAssumption
<1>2. CASE b.whole = {}
  BY <1>1, <1>2 DEF WholeCause, Causes
<1>3. CASE b.whole # {}
  <2> DEFINE first(k) == WholeFaults[k] \in b.whole /\ \A j \in 1..k - 1 : WholeFaults[j] \notin b.whole
             k == CHOOSE i \in 1..6 : first(i)
  <2>1. \E i \in 1..6 : first(i)
    <3> DEFINE hits == {i \in 1..6 : WholeFaults[i] \in b.whole}
    <3>1. /\ WholeFaults[1] = "raises" /\ WholeFaults[2] = "scribbles" /\ WholeFaults[3] = "columns"
          /\ WholeFaults[4] = "unreadable" /\ WholeFaults[5] = "short" /\ WholeFaults[6] = "relabelled"
      BY DEF WholeFaults
    <3>2. hits # {}
      BY <1>3, <3>1 DEF Faults
    <3>3. IsFiniteSet(hits) /\ hits \subseteq Nat
      <4>1. IsFiniteSet(1..6)
        <5>1. 1 \in Int /\ 6 \in Int
          OBVIOUS
        <5>2. \A m, n \in Int : IsFiniteSet(m..n)
          BY FS_Interval
        <5> QED BY <5>1, <5>2
      <4>2. hits \subseteq 1..6
        OBVIOUS
      <4> QED BY <4>1, <4>2, FS_Subset
    <3>4. PICK i \in hits : \A h \in hits : i <= h
      <4> HIDE DEF hits
      <4> QED BY <3>2, <3>3, NatMin
    <3>5. \A j \in 1..i - 1 : j \in 1..6 /\ ~ (i <= j)
      OBVIOUS
    <3>6. first(i)
      BY <3>4, <3>5
    <3> QED BY <3>6
  <2>2. k \in 1..6 /\ first(k)
    <3> HIDE DEF first
    <3> QED BY <2>1
  <2>3. WholeCause(b) = WholeCauses[k]
    BY <1>3 DEF WholeCause
  <2> HIDE DEF k
  <2>4. k = 1 \/ k = 2 \/ k = 3 \/ k = 4 \/ k = 5 \/ k = 6
    BY <2>2
  <2>5. /\ WholeCauses[1] = "uncallable" /\ WholeCauses[2] = "mutation" /\ WholeCauses[3] = "schema"
        /\ WholeCauses[4] = "gate_error" /\ WholeCauses[5] = "schema" /\ WholeCauses[6] = "schema"
    BY DEF WholeCauses
  <2>6. WholeCause(b) \in Causes \ {"lookahead"}
    BY <2>3, <2>4, <2>5 DEF Causes
  <2>7. WholeCause(b) = "mutation" => k = 2
    BY <2>3, <2>4, <2>5
  <2>8. WholeFaults[2] = "scribbles"
    BY DEF WholeFaults
  <2> QED BY <1>1, <1>3, <2>2, <2>6, <2>7, <2>8
<1> QED BY <1>2, <1>3

\* Below the last row the values over the frame and over the prefix differ
\* exactly where the row reads a later one.
LEMMA DifferByPeeking ==
  ASSUME NEW b \in Behaviours, rows \in FrameSizes, NEW i \in 0..rows - 2
  PROVE  Value(b, i, rows) # Value(b, i, i + 1) <=> Peeks(b, i)
<1>1. b.reads[i] \in Nat \cup {None} /\ None \notin Nat /\ rows \in Nat /\ i \in Nat /\ i < rows - 1
  <2>1. rows \in Nat /\ i \in 0..rows - 1
    BY GateAssumption
  <2> QED BY <2>1, GateAssumption
<1> DEFINE r == b.reads[i]
<1>2. r \in Nat \cup {None}
  BY <1>1
<1>3. /\ Value(b, i, rows) = IF r = None \/ r >= rows THEN None ELSE r
      /\ Value(b, i, i + 1) = IF r = None \/ r >= i + 1 THEN None ELSE r
      /\ Peeks(b, i) <=> r # None /\ r > i /\ r < rows
  BY DEF Value, Peeks
<1> HIDE DEF r
<1>4. CASE r = None
  BY <1>3, <1>4
<1>5. CASE r \in Nat /\ r # None
  <2>1. CASE r >= rows
    <3>1. r >= i + 1 /\ ~ (r < rows)
      BY <1>1, <1>5, <2>1
    <3> QED BY <1>3, <2>1, <3>1
  <2>2. CASE ~ (r >= rows) /\ r >= i + 1
    <3>1. r > i /\ r < rows
      BY <1>1, <1>5, <2>2
    <3> QED BY <1>3, <1>5, <2>2, <3>1
  <2>3. CASE ~ (r >= rows) /\ ~ (r >= i + 1)
    <3>1. ~ (r > i)
      BY <1>1, <1>5, <2>3
    <3> QED BY <1>3, <1>5, <2>3, <3>1
  <2> QED BY <2>1, <2>2, <2>3
<1> QED BY <1>1, <1>2, <1>4, <1>5

\* What a set's cause says of what the callable did with it.
LEMMA CauseDeserved ==
  ASSUME NEW b \in Behaviours, rows \in FrameSizes, rows > 1
  PROVE  /\ SetCause(b) \in Causes \cup {None}
         /\ SetCause(b) = "lookahead" => \E i \in 0..rows - 2 : Peeks(b, i)
         /\ SetCause(b) = "mutation" =>
              "scribbles" \in b.whole \/ \E i \in ProbeRows(rows) : "scribbles" \in b.prefix[i]
         /\ SetCause(b) = None => b.whole = {} /\ \A i \in ProbeRows(rows) : ~ Peeks(b, i)
<1> DEFINE bad == {i \in ProbeRows(rows) : RowCause(b, i) # None}
           first == CHOOSE i \in bad : \A j \in bad : i <= j
<1>1. rows \in Nat /\ b.whole \subseteq Faults /\ None \notin Causes
  BY GateAssumption
<1>2. ProbeRows(rows) \subseteq 0..rows - 2
  BY <1>1, ProbesCover
<1>3. /\ WholeCause(b) = None <=> b.whole = {}
      /\ WholeCause(b) \in (Causes \cup {None}) \ {"lookahead"}
      /\ WholeCause(b) = "mutation" => "scribbles" \in b.whole
  BY <1>1, WholeDecides
<1>4. ASSUME NEW i \in ProbeRows(rows)
      PROVE  /\ RowCause(b, i) \in Causes \cup {None}
             /\ RowCause(b, i) = "lookahead" => Peeks(b, i)
             /\ RowCause(b, i) = "mutation" => "scribbles" \in b.prefix[i]
             /\ RowCause(b, i) = None => ~ Peeks(b, i)
  <2>1. Value(b, i, rows) # Value(b, i, i + 1) <=> Peeks(b, i)
    BY <1>2, DifferByPeeking
  <2>2. Disagrees(b, i) <=> Peeks(b, i) \/ "scribbles" \in b.prefix[i]
    BY <2>1 DEF Disagrees
  <2> QED BY <1>1, <2>2 DEF RowCause, Causes
<1>5. SetCause(b) = IF WholeCause(b) # None THEN WholeCause(b)
                    ELSE IF bad = {} THEN None ELSE RowCause(b, first)
  BY DEF SetCause
<1>6. bad # {} => first \in bad
  <2> HAVE bad # {}
  <2>1. IsFiniteSet(bad) /\ bad \subseteq Nat
    <3>1. IsFiniteSet(0..rows - 2)
      BY <1>1, FS_Interval
    <3>2. bad \subseteq 0..rows - 2 /\ 0..rows - 2 \subseteq Nat
      BY <1>2
    <3> QED BY <3>1, <3>2, FS_Subset
  <2>2. \E i \in bad : \A j \in bad : i <= j
    <3> HIDE DEF bad
    <3> QED BY <2>1, NatMin
  <2> QED BY <2>2
<1> HIDE DEF first
<1>7. CASE WholeCause(b) # None
  BY <1>1, <1>3, <1>5, <1>7
<1>8. CASE WholeCause(b) = None /\ bad = {}
  <2>1. SetCause(b) = None /\ b.whole = {} /\ \A i \in ProbeRows(rows) : RowCause(b, i) = None
    BY <1>3, <1>5, <1>8
  <2>2. None # "lookahead" /\ None # "mutation"
    BY <1>1 DEF Causes
  <2> QED BY <1>4, <2>1, <2>2
<1>9. CASE WholeCause(b) = None /\ bad # {}
  <2>1. SetCause(b) = RowCause(b, first) /\ first \in ProbeRows(rows) /\ RowCause(b, first) # None
    BY <1>5, <1>6, <1>9
  <2>2. first \in 0..rows - 2
    BY <1>2, <2>1
  <2> QED BY <1>4, <2>1, <2>2
<1> QED BY <1>7, <1>8, <1>9

-----------------------------------------------------------------------------
(* Every action preserves the invariant. *)

\* A verdict is something.
LEMMA VerdictIs ==
  ASSUME NEW status \in {"exempt", "vacuous", "failed", "checked"}, NEW cause \in Causes \cup {None},
         NEW count \in Nat
  PROVE  LET v == Verdict(status, cause, count)
         IN v # None /\ v.status = status /\ v.cause = cause /\ v.checked = count
<1>1. [status |-> status, cause |-> cause, checked |-> count]
        \in [status : {"exempt", "vacuous", "failed", "checked"}, cause : Causes \cup {None}, checked : Nat]
  OBVIOUS
<1> QED BY <1>1, GateAssumption DEF Verdict

\* A term that is refused before it is called gives no reason it does not have.
LEMMA BeginKeeps ==
  ASSUME NEW t \in Terms, NEW n \in FrameSizes, Begin(t, n) PROVE GateInv'
<1>1. term' = t /\ rows' = n /\ done' = << >> /\ checked' = 0 /\ vacuous' = FALSE /\ n \in Nat
  BY GateAssumption DEF Begin
<1>2. DOMAIN done' = {}
  BY <1>1
<1>3. Cardinality({}) = 0 /\ IsFiniteSet({})
  BY FS_EmptySet
<1>4. None # "lookahead" /\ None # "mutation" /\ "unenumerable" \in Causes
  BY GateAssumption DEF Causes
<1>5. n > 1 => ProbeRows(n) # {}
  <2> SUFFICES ASSUME n > 1 PROVE ProbeRows(n) # {}
    OBVIOUS
  <2> DEFINE half == n \div 2
             low == Least(half - 1, n - 2)
             count == ProbeCount
             gaps == IF count > 1 THEN count - 1 ELSE 1
  <2>1. half \in Nat /\ 1 <= half /\ half - 1 <= n - 2
    BY <1>1
  <2>2. ProbeRows(n) = Spread(half, n - 2, count) \cup Spread(0, low, count)
    BY <1>1 DEF ProbeRows
  <2> HIDE DEF half
  <2>3. low \in Nat /\ ~ (low < 0)
    BY <1>1, <2>1 DEF Least
  <2> HIDE DEF low
  <2>4. Spread(0, low, count) = {0 + Rounded(k * (low - 0), gaps) : k \in 0..count - 1}
    BY <2>3 DEF Spread
  <2>5. 0 \in 0..count - 1
    BY GateAssumption
  <2> HIDE DEF count, gaps
  <2> QED BY <2>2, <2>4, <2>5
<1>6. CASE t.window_required \/ t.end_anchored
  <2>1. verdict' = Verdict("exempt", None, 0)
    BY <1>6 DEF Begin
  <2>2. verdict' # None /\ verdict'.status = "exempt" /\ verdict'.cause = None /\ verdict'.checked = 0
    BY <2>1, VerdictIs
  <2>3. {s \in DOMAIN done' : SetCause(done[s])' = None /\ Numbers(done[s])' # {}} = {}
    BY <1>2
  <2>4. VerdictIsDeserved'
    BY <1>3, <1>4, <2>2, <2>3 DEF VerdictIsDeserved
  <2> QED BY <2>2, <2>4 DEF GateInv, UnderTest, CheckedIsCausal
<1>7. CASE ~ (t.window_required \/ t.end_anchored) /\ ProbeRows(n) = {}
  <2>1. verdict' = Verdict("vacuous", None, 0)
    BY <1>7 DEF Begin
  <2>2. verdict' # None /\ verdict'.status = "vacuous" /\ verdict'.cause = None /\ verdict'.checked = 0
    BY <2>1, VerdictIs
  <2>3. {s \in DOMAIN done' : SetCause(done[s])' = None /\ Numbers(done[s])' # {}} = {}
    BY <1>2
  <2>4. ~ (rows' > 1)
    BY <1>1, <1>5, <1>7
  <2>5. VerdictIsDeserved'
    BY <1>3, <1>4, <2>2, <2>3, <2>4 DEF VerdictIsDeserved
  <2> QED BY <2>2, <2>5 DEF GateInv, UnderTest, CheckedIsCausal
<1>8. CASE ~ (t.window_required \/ t.end_anchored) /\ ProbeRows(n) # {} /\ Unenumerable(t)
  <2>1. verdict' = Verdict("failed", "unenumerable", 0)
    BY <1>8 DEF Begin
  <2>2. verdict' # None /\ verdict'.status = "failed" /\ verdict'.cause = "unenumerable" /\ verdict'.checked = 0
    BY <1>4, <2>1, VerdictIs
  <2>3. {s \in DOMAIN done' : SetCause(done[s])' = None /\ Numbers(done[s])' # {}} = {}
    BY <1>2
  <2>4. VerdictIsDeserved'
    BY <1>3, <2>2, <2>3 DEF VerdictIsDeserved
  <2> QED BY <2>2, <2>4 DEF GateInv, UnderTest, CheckedIsCausal
<1>9. CASE ~ (t.window_required \/ t.end_anchored) /\ ProbeRows(n) # {} /\ ~ Unenumerable(t)
  <2>1. verdict' = None /\ todo' = ArgSets(t)
    BY <1>9 DEF Begin
  <2>2. ArgsOf(t, "odd") = {} /\ ArgSets(t) # {}
    BY <1>9 DEF Unenumerable
  <2>3. ArgSets(t) = Mandated(t)
    BY <2>2, ArgSetsMandated
  <2>4. n > 1
    BY <1>1, <1>9 DEF ProbeRows
  <2>5. {s \in DOMAIN done' : Numbers(done[s])' # {}} = {}
    BY <1>2
  <2>6. UnderTest'
    BY <1>1, <1>2, <1>3, <2>1, <2>2, <2>3, <2>4, <2>5 DEF UnderTest
  <2> QED BY <2>1, <2>6 DEF GateInv, CheckedIsCausal, VerdictIsDeserved
<1> QED BY <1>6, <1>7, <1>8, <1>9

\* A set's trial adds it to those tried.
LEMMA VerifyKeeps ==
  ASSUME GateInv, NEW args \in todo, NEW b \in Behaviours, Verify(args, b) PROVE GateInv'
<1>0. PICK after : after = [s \in DOMAIN done \cup {args} |-> IF s = args THEN b ELSE done[s]]
  OBVIOUS
<1>1. /\ term # None /\ verdict = None /\ term' = term /\ rows' = rows /\ done' = after
  BY <1>0 DEF Verify
<1>2. /\ term \in Terms /\ rows \in FrameSizes /\ rows > 1
      /\ ArgsOf(term, "odd") = {} /\ ArgSets(term) # {}
      /\ DOMAIN done \cup todo = Mandated(term) /\ DOMAIN done \cap todo = {}
      /\ IsFiniteSet(DOMAIN done)
      /\ \A s \in DOMAIN done : done[s] \in Behaviours /\ SetCause(done[s]) = None
      /\ checked = Cardinality({s \in DOMAIN done : Numbers(done[s]) # {}})
      /\ vacuous \in BOOLEAN /\ (vacuous <=> \E s \in DOMAIN done : Numbers(done[s]) = {})
  BY <1>1 DEF GateInv, UnderTest
<1> DEFINE tried == DOMAIN done
           good == {s \in tried : Numbers(done[s]) # {}}
<1>3. /\ DOMAIN after = tried \cup {args} /\ args \notin tried /\ after[args] = b
      /\ \A s \in tried : after[s] = done[s]
  BY <1>0, <1>2
<1>4. \A x : SetCause(x)' = SetCause(x) /\ Numbers(x)' = Numbers(x)
             /\ ProbeRows(rows)' = ProbeRows(rows)
  BY <1>1 DEF SetCause, RowCause, WholeCause, Disagrees, Numbers, Value, ProbeRows
<1>5. IsFiniteSet(good) /\ Cardinality(good) = checked /\ checked \in Nat
  <2>1. good \subseteq tried
    OBVIOUS
  <2>2. IsFiniteSet(good)
    BY <1>2, <2>1, FS_Subset
  <2> QED BY <1>2, <2>2, FS_CardinalityType
<1>6. CASE SetCause(b) # None
  <2>1. verdict' = Verdict("failed", SetCause(b), checked)
    BY <1>6 DEF Verify
  <2>2. /\ SetCause(b) \in Causes \cup {None}
        /\ SetCause(b) = "lookahead" => \E i \in 0..rows - 2 : Peeks(b, i)
        /\ SetCause(b) = "mutation" =>
             "scribbles" \in b.whole \/ \E i \in ProbeRows(rows) : "scribbles" \in b.prefix[i]
    BY <1>2, CauseDeserved
  <2>3. verdict' # None /\ verdict'.status = "failed" /\ verdict'.cause = SetCause(b) /\ verdict'.checked = checked
    BY <1>5, <2>1, <2>2, VerdictIs
  <2>4. {s \in DOMAIN after : SetCause(after[s])' = None /\ Numbers(after[s])' # {}} = good
    <3>1. \A s \in DOMAIN after : SetCause(after[s]) = None /\ Numbers(after[s]) # {} <=> s \in good
      BY <1>2, <1>3, <1>6
    <3> QED BY <1>3, <1>4, <3>1
  <2>5. verdict'.cause = "lookahead" => \E s \in DOMAIN after : \E i \in 0..rows' - 2 : Peeks(after[s], i)'
    <3> HAVE verdict'.cause = "lookahead"
    <3>1. PICK i \in 0..rows - 2 : Peeks(b, i)
      BY <2>2, <2>3
    <3>2. Peeks(b, i)' <=> Peeks(b, i)
      BY <1>1 DEF Peeks
    <3>3. args \in DOMAIN after /\ after[args] = b
      BY <1>3
    <3> QED BY <1>1, <3>1, <3>2, <3>3 DEF Peeks
  <2>6. verdict'.cause = "mutation" =>
          \E s \in DOMAIN after : "scribbles" \in after[s].whole
            \/ \E i \in ProbeRows(rows') : "scribbles" \in after[s].prefix[i]
    BY <1>1, <1>3, <2>2, <2>3
  <2>7. VerdictIsDeserved'
    BY <1>1, <1>5, <2>3, <2>4, <2>5, <2>6 DEF VerdictIsDeserved
  <2> QED BY <2>3, <2>7 DEF GateInv, UnderTest, CheckedIsCausal
<1>7. CASE SetCause(b) = None
  <2>1. /\ verdict' = None /\ todo' = todo \ {args}
        /\ checked' = IF Numbers(b) # {} THEN checked + 1 ELSE checked
        /\ vacuous' = (vacuous \/ Numbers(b) = {})
    BY <1>1, <1>7 DEF Verify, Remaining
  <2> DEFINE good2 == {s \in DOMAIN after : Numbers(after[s]) # {}}
  <2>2. good2 = IF Numbers(b) # {} THEN good \cup {args} ELSE good
    BY <1>3
  <2>3. Cardinality(good2) = checked'
    <3>1. CASE Numbers(b) # {}
      <4>1. args \notin good
        BY <1>3
      <4>2. Cardinality(good \cup {args}) = Cardinality(good) + 1
        <5> HIDE DEF good
        <5> QED BY <1>5, <4>1, FS_AddElement
      <4> HIDE DEF good, good2
      <4> QED BY <1>5, <2>1, <2>2, <3>1, <4>2
    <3>2. CASE ~ (Numbers(b) # {})
      <4> HIDE DEF good, good2
      <4> QED BY <1>5, <2>1, <2>2, <3>2
    <3> QED BY <3>1, <3>2
  <2>4. DOMAIN after \cup todo' = Mandated(term) /\ DOMAIN after \cap todo' = {}
    BY <1>2, <1>3, <2>1
  <2>5. IsFiniteSet(DOMAIN after)
    BY <1>2, <1>3, FS_AddElement
  <2>6. \A s \in DOMAIN after : after[s] \in Behaviours /\ SetCause(after[s]) = None
    BY <1>2, <1>3, <1>7
  <2>7. vacuous' \in BOOLEAN /\ (vacuous' <=> \E s \in DOMAIN after : Numbers(after[s]) = {})
    <3>1. vacuous' \in BOOLEAN /\ (vacuous' <=> vacuous \/ Numbers(b) = {})
      BY <2>1
    <3>2. (\E s \in DOMAIN after : Numbers(after[s]) = {})
            <=> (\E s \in tried : Numbers(done[s]) = {}) \/ Numbers(b) = {}
      BY <1>3
    <3> QED BY <1>2, <3>1, <3>2
  <2>8. UnderTest'
    <3>1. {s \in DOMAIN after : Numbers(after[s])' # {}} = good2
      BY <1>4
    <3>2. \A s \in DOMAIN after : SetCause(after[s])' = None
      BY <1>4, <2>6
    <3>3. (\E s \in DOMAIN after : Numbers(after[s])' = {}) <=> (\E s \in DOMAIN after : Numbers(after[s]) = {})
      BY <1>4
    <3> HIDE DEF good2
    <3> QED BY <1>1, <1>2, <2>3, <2>4, <2>5, <2>6, <2>7, <3>1, <3>2, <3>3 DEF UnderTest
  <2> QED BY <2>1, <2>8 DEF GateInv, CheckedIsCausal, VerdictIsDeserved
<1> QED BY <1>6, <1>7

\* A term is passed when every set it is owed has been tried.
LEMMA ConcludeKeeps == ASSUME GateInv, Conclude PROVE GateInv'
<1>1. /\ term # None /\ verdict = None /\ todo = {}
      /\ verdict' = Verdict(IF vacuous THEN "vacuous" ELSE "checked", None, checked)
      /\ term' = term /\ rows' = rows /\ todo' = todo /\ done' = done
      /\ checked' = checked /\ vacuous' = vacuous
  BY DEF Conclude
<1>2. /\ term \in Terms /\ rows \in FrameSizes /\ rows > 1
      /\ ArgsOf(term, "odd") = {} /\ ArgSets(term) # {}
      /\ DOMAIN done = Mandated(term) /\ IsFiniteSet(DOMAIN done)
      /\ \A s \in DOMAIN done : done[s] \in Behaviours /\ SetCause(done[s]) = None
      /\ checked = Cardinality({s \in DOMAIN done : Numbers(done[s]) # {}})
      /\ vacuous \in BOOLEAN /\ (vacuous <=> \E s \in DOMAIN done : Numbers(done[s]) = {})
  BY <1>1 DEF GateInv, UnderTest
<1> DEFINE good == {s \in DOMAIN done : Numbers(done[s]) # {}}
           status == IF vacuous THEN "vacuous" ELSE "checked"
<1>3. checked \in Nat
  <2>1. good \subseteq DOMAIN done
    OBVIOUS
  <2>2. IsFiniteSet(good)
    BY <1>2, <2>1, FS_Subset
  <2> QED BY <1>2, <2>2, FS_CardinalityType
<1>4. None # "lookahead" /\ None # "mutation"
  BY GateAssumption DEF Causes
<1>5. status \in {"vacuous", "checked"}
  BY <1>2
<1>6. verdict' # None /\ verdict'.status = status /\ verdict'.cause = None /\ verdict'.checked = checked
  <2>1. status \in {"exempt", "vacuous", "failed", "checked"} /\ verdict' = Verdict(status, None, checked)
    BY <1>1, <1>5
  <2> HIDE DEF status
  <2> QED BY <1>3, <2>1, VerdictIs
<1>7. \A x : SetCause(x)' = SetCause(x) /\ Numbers(x)' = Numbers(x)
  BY <1>1 DEF SetCause, RowCause, WholeCause, Disagrees, Numbers, Value, ProbeRows
<1>8. {s \in DOMAIN done : SetCause(done[s]) = None /\ Numbers(done[s]) # {}} = good
  BY <1>2
<1>9. VerdictIsDeserved'
  <2>1. {s \in DOMAIN done' : SetCause(done[s])' = None /\ Numbers(done[s])' # {}} = good
    BY <1>1, <1>7, <1>8
  <2>2. verdict'.checked = Cardinality(good)
    BY <1>2, <1>6
  <2>3. verdict'.status = "vacuous" =>
          /\ DOMAIN done' = Mandated(term')
          /\ \E s \in DOMAIN done' : Numbers(done[s])' = {}
          /\ \A s \in DOMAIN done' : SetCause(done[s])' = None
    BY <1>1, <1>2, <1>6, <1>7
  <2>4. verdict'.cause # "lookahead" /\ verdict'.cause # "mutation"
    BY <1>4, <1>6
  <2> HIDE DEF good, status
  <2> QED BY <2>1, <2>2, <2>3, <2>4 DEF VerdictIsDeserved
<1>10. CheckedIsCausal'
  <2> SUFFICES ASSUME verdict'.status = "checked"
               PROVE  /\ DOMAIN done = Mandated(term) /\ Mandated(term) # {}
                      /\ \A s \in DOMAIN done :
                           /\ done[s].whole = {}
                           /\ \E i \in 0..rows - 2 : Value(done[s], i, rows) # None
                           /\ \A i \in 0..rows - 2 : Peeks(done[s], i) => Crowded(i)
                      /\ verdict'.checked = Cardinality(Mandated(term))
    BY <1>1 DEF CheckedIsCausal, Value, Peeks, Crowded
  <2>1. \A s \in DOMAIN done : Numbers(done[s]) # {}
    BY <1>2, <1>6
  <2>2. good = DOMAIN done
    BY <2>1
  <2>3. verdict'.checked = Cardinality(Mandated(term))
    BY <1>2, <1>6, <2>2
  <2>4. Mandated(term) # {}
    BY <1>2, ArgSetsMandated
  <2>5. rows \in Nat
    BY <1>2, GateAssumption
  <2>6. ProbeRows(rows) \subseteq 0..rows - 2 /\ \A i \in 0..rows - 2 : Crowded(i) \/ i \in ProbeRows(rows)
    BY <1>2, <2>5, ProbesCover
  <2>7. ASSUME NEW s \in DOMAIN done
        PROVE  /\ done[s].whole = {}
               /\ \E i \in 0..rows - 2 : Value(done[s], i, rows) # None
               /\ \A i \in 0..rows - 2 : Peeks(done[s], i) => Crowded(i)
    <3>1. PICK b \in Behaviours : b = done[s]
      BY <1>2
    <3>2. SetCause(b) = None
      BY <1>2, <3>1
    <3>3. b.whole = {} /\ \A i \in ProbeRows(rows) : ~ Peeks(b, i)
      BY <1>2, <3>2, CauseDeserved
    <3>4. PICK i \in ProbeRows(rows) : Value(b, i, rows) # None
      BY <2>1, <3>1 DEF Numbers
    <3> QED BY <2>6, <3>1, <3>3, <3>4
  <2> QED BY <1>2, <2>3, <2>4, <2>7
<1>11. UnderTest'
  BY <1>6 DEF UnderTest
<1> QED BY <1>9, <1>10, <1>11 DEF GateInv

-----------------------------------------------------------------------------
(* The theorems. *)

\* Before the first term there is no verdict.
LEMMA GateInvFirst == GateInit => GateInv
  BY DEF GateInit, GateInv, UnderTest, CheckedIsCausal, VerdictIsDeserved

\* Every step keeps the invariant.
LEMMA GateInvStep == GateInv /\ [GateNext]_gateVars => GateInv'
<1> SUFFICES ASSUME GateInv, [GateNext]_gateVars PROVE GateInv'
  OBVIOUS
<1>1. CASE \E t \in Terms, n \in FrameSizes : Begin(t, n)
  BY <1>1, BeginKeeps
<1>2. CASE \E args \in todo, b \in Behaviours : Verify(args, b)
  BY <1>2, VerifyKeeps
<1>3. CASE Conclude
  BY <1>3, ConcludeKeeps
<1>4. CASE NextTerm
  BY <1>4 DEF NextTerm, GateInv, UnderTest, CheckedIsCausal, VerdictIsDeserved
<1>5. CASE UNCHANGED gateVars
  <2>1. /\ term' = term /\ rows' = rows /\ todo' = todo /\ done' = done
        /\ checked' = checked /\ vacuous' = vacuous /\ verdict' = verdict
    BY <1>5 DEF gateVars
  <2>2. \A x : SetCause(x)' = SetCause(x) /\ Numbers(x)' = Numbers(x)
    BY <2>1 DEF SetCause, RowCause, WholeCause, Disagrees, Numbers, Value, ProbeRows
  <2>3. UnderTest'
    BY <2>1, <2>2 DEF GateInv, UnderTest
  <2>4. CheckedIsCausal'
    BY <2>1 DEF GateInv, CheckedIsCausal, Value, Peeks, Crowded
  <2>5. VerdictIsDeserved'
    BY <2>1, <2>2 DEF GateInv, VerdictIsDeserved, Peeks
  <2> QED BY <2>3, <2>4, <2>5 DEF GateInv
<1> QED BY <1>1, <1>2, <1>3, <1>4, <1>5 DEF GateNext

\* CHECKED is proof, for every schema, callable and frame: every argument set
\* owed was called, and none of them reads ahead of a row but where a half has
\* more rows than probes.
THEOREM CheckedCausal == GateSpec => []CheckedIsCausal
<1>1. GateInv => CheckedIsCausal
  BY DEF GateInv
<1> QED BY <1>1, GateInvFirst, GateInvStep, PTL DEF GateSpec

\* A verdict says what happened, for every schema, callable and frame.
THEOREM VerdictDeserved == GateSpec => []VerdictIsDeserved
<1>1. GateInv => VerdictIsDeserved
  BY DEF GateInv
<1> QED BY <1>1, GateInvFirst, GateInvStep, PTL DEF GateSpec

-----------------------------------------------------------------------------
(* The compile. *)

Results ==
  [attempts : Nat, retries : Nat, input : Nat, output : Nat, read : Nat, write : Nat, cost : Nat,
   exact : BOOLEAN, unknown : BOOLEAN, spec : Candidates \cup {None},
   error : BOOLEAN, notExpressible : BOOLEAN]
Bases == [provider : BOOLEAN, table : BOOLEAN, uncertain : BOOLEAN]
Meters == [calls : Nat, charged : Nat, prompt : Nat, output : Nat]
Replies ==
  [input : Nat, output : Nat, read : Nat, write : Nat, cost : Nat,
   exact : BOOLEAN, table : BOOLEAN, unknown : BOOLEAN]

\* A reply that claims no more than what was charged and used.
Honest(reply, charge, prompt, output) ==
  /\ reply \in Replies /\ charge \in Nat /\ prompt \in Nat /\ output \in Nat
  /\ reply.exact => reply.cost = charge
  /\ reply.table => reply.input + reply.read + reply.write = prompt /\ reply.output = output
  /\ reply.cost <= charge /\ reply.input <= prompt /\ reply.output <= output

Typed == result \in Results /\ evidence \in Bases \cup {None} /\ meter \in Meters

\* Between rounds: what the evidence says of all calls together.
Grounded ==
  /\ evidence = None =>
       /\ result.attempts = 0 /\ ~result.exact /\ ~result.unknown
       /\ result.cost = 0 /\ meter.charged = 0
       /\ result.input = 0 /\ result.read = 0 /\ result.write = 0 /\ meter.prompt = 0
       /\ result.output = 0 /\ meter.output = 0
  /\ evidence # None =>
       /\ result.exact = (evidence.provider /\ ~evidence.uncertain)
       /\ result.unknown = (evidence.uncertain \/ ~(evidence.provider \/ evidence.table))
       /\ evidence.provider => result.cost = meter.charged
       /\ evidence.table => /\ result.input + result.read + result.write = meter.prompt
                            /\ result.output = meter.output

Waiting ==
  ~Done => Grounded /\ result.attempts = meter.calls /\ result.attempts <= MaxRetries

IInv == Typed /\ BillIsSound /\ AttemptsAreCalls /\ ResultIsUsable /\ Waiting

\* An arrived response claims no more than was charged and used
\* (_billing_evidence).
LEMMA ArrivedIsHonest ==
  ASSUME NEW b \in Bodies
  PROVE  Honest(Arrived(b), b.charged, b.usedPrompt, b.usedOutput)
<1>1. /\ b \in [usedPrompt : Nat, usedOutput : Nat, charged : Nat, cost : Reported,
                prompt : Reported, output : Reported, read : Reported, write : Reported]
      /\ b.cost \in {None, b.charged} /\ b.prompt \in {None, b.usedPrompt}
      /\ b.output \in {None, b.usedOutput}
  BY BodyAssumption
<1>2. \A field \in Reported : Counted(field) \in Nat /\ (field # None => Counted(field) = field)
  BY DEF Reported, Counted
<1>3. Counted(b.cost) <= b.charged /\ (b.cost # None => Counted(b.cost) = b.charged)
  BY <1>1 DEF Counted
<1>4. Counted(b.output) <= b.usedOutput /\ (b.output # None => Counted(b.output) = b.usedOutput)
  BY <1>1 DEF Counted
<1>5. Uncached(b) \in Nat /\ Uncached(b) <= b.usedPrompt
  BY <1>1, <1>2 DEF Uncached, SubsetsValid
<1>6. CountersComplete(b) => Uncached(b) + Counted(b.read) + Counted(b.write) = b.usedPrompt
  BY <1>1, <1>2 DEF Uncached, SubsetsValid, CountersComplete
<1>7. Arrived(b) \in Replies
  BY <1>1, <1>2, <1>5 DEF Arrived, Replies, CountersComplete, SubsetsValid
<1> QED
  BY <1>1, <1>3, <1>4, <1>5, <1>6, <1>7 DEF Honest, Arrived, CountersComplete

\* A transport failure claims nothing.
LEMMA LostIsHonest ==
  ASSUME NEW charge \in Nat
  PROVE  Honest(Lost, charge, 0, 0)
BY DEF Honest, Lost, Replies

\* The outcome fields are apart from the bill.
SameBill(r, s) ==
  /\ r.attempts = s.attempts /\ r.retries = s.retries
  /\ r.input = s.input /\ r.output = s.output /\ r.read = s.read /\ r.write = s.write
  /\ r.cost = s.cost /\ r.exact = s.exact /\ r.unknown = s.unknown

\* Setting a result's error touches none of its bill.
LEMMA WithError ==
  ASSUME NEW r \in Results
  PROVE  LET t == [r EXCEPT !.error = TRUE] IN
         /\ t \in Results /\ SameBill(t, r)
         /\ t.spec = r.spec /\ t.error /\ t.notExpressible = r.notExpressible
BY DEF Results, SameBill

\* Nor does setting its spec.
LEMMA WithSpec ==
  ASSUME NEW r \in Results, NEW s \in Candidates
  PROVE  LET t == [r EXCEPT !.spec = s] IN
         /\ t \in Results /\ SameBill(t, r)
         /\ t.spec = s /\ t.error = r.error /\ t.notExpressible = r.notExpressible
BY DEF Results, SameBill

\* Nor does marking it not expressible.
LEMMA WithNotExpressible ==
  ASSUME NEW r \in Results, NEW b \in BOOLEAN
  PROVE  LET t == [r EXCEPT !.notExpressible = b] IN
         /\ t \in Results /\ SameBill(t, r)
         /\ t.spec = r.spec /\ t.error = r.error /\ t.notExpressible = b
BY DEF Results, SameBill

\* Counting a call keeps the result typed and its bill otherwise the same.
LEMMA RoundCounted ==
  ASSUME Typed
  PROVE  /\ Called \in Results
         /\ Called.attempts = result.attempts + 1 /\ Called.retries = result.attempts
         /\ Called.input = result.input /\ Called.output = result.output
         /\ Called.read = result.read /\ Called.write = result.write /\ Called.cost = result.cost
         /\ Called.spec = result.spec /\ Called.error = result.error
         /\ Called.notExpressible = result.notExpressible
<1>1. result \in Results /\ result.attempts \in Nat /\ result.attempts + 1 \in Nat
  BY DEF Typed, Results
<1>2. Called = [result EXCEPT !.attempts = result.attempts + 1, !.retries = result.attempts]
  BY DEF Called
<1>3. Called \in Results
  BY <1>1, <1>2 DEF Results
<1> QED BY <1>1, <1>2, <1>3 DEF Results

\* Billing a reply adds its counts and its cost, and keeps the result typed.
LEMMA ReplyBilled ==
  ASSUME Typed, NEW reply \in Replies
  PROVE  /\ Joined(reply) \in Bases
         /\ Billed(reply) \in Results
         /\ Billed(reply).attempts = result.attempts + 1 /\ Billed(reply).retries = result.attempts
         /\ Billed(reply).input = result.input + reply.input
         /\ Billed(reply).output = result.output + reply.output
         /\ Billed(reply).read = result.read + reply.read
         /\ Billed(reply).write = result.write + reply.write
         /\ Billed(reply).cost = result.cost + reply.cost
         /\ Billed(reply).exact = (Joined(reply).provider /\ ~Joined(reply).uncertain)
         /\ Billed(reply).unknown =
              (Joined(reply).uncertain \/ ~(Joined(reply).provider \/ Joined(reply).table))
         /\ Billed(reply).spec = result.spec /\ Billed(reply).error = result.error
         /\ Billed(reply).notExpressible = result.notExpressible
<1>1. Joined(reply) \in Bases
  BY DEF Typed, Joined, Bases, Replies
<1>2. /\ Called.input + reply.input \in Nat /\ Called.output + reply.output \in Nat
      /\ Called.read + reply.read \in Nat /\ Called.write + reply.write \in Nat
      /\ Called.cost + reply.cost \in Nat
  BY RoundCounted DEF Results, Replies
<1> DEFINE exact == Joined(reply).provider /\ ~Joined(reply).uncertain
           unknown == Joined(reply).uncertain \/ ~(Joined(reply).provider \/ Joined(reply).table)
<1>3. exact \in BOOLEAN /\ unknown \in BOOLEAN
  BY <1>1 DEF Bases
<1>4. Billed(reply) = [Called EXCEPT !.input = @ + reply.input, !.output = @ + reply.output,
                         !.read = @ + reply.read, !.write = @ + reply.write,
                         !.cost = @ + reply.cost, !.exact = exact, !.unknown = unknown]
  BY DEF Billed
<1> HIDE DEF exact, unknown
<1>5. Billed(reply) \in Results
  BY RoundCounted, <1>2, <1>3, <1>4, ZenonT(60) DEF Results
<1>6. /\ Billed(reply).attempts = result.attempts + 1 /\ Billed(reply).retries = result.attempts
      /\ Billed(reply).input = result.input + reply.input
      /\ Billed(reply).output = result.output + reply.output
      /\ Billed(reply).read = result.read + reply.read
      /\ Billed(reply).write = result.write + reply.write
      /\ Billed(reply).cost = result.cost + reply.cost
      /\ Billed(reply).spec = result.spec /\ Billed(reply).error = result.error
      /\ Billed(reply).notExpressible = result.notExpressible
  BY RoundCounted, <1>4 DEF Results
<1>7. Billed(reply).exact = exact /\ Billed(reply).unknown = unknown
  BY RoundCounted, <1>3, <1>4 DEF Results
<1> QED BY <1>1, <1>5, <1>6, <1>7 DEF exact, unknown

\* After the bill of an honest reply, whatever becomes of the reply: counts,
\* evidence and bill still agree with the provider (_add_usage).
LEMMA BilledIsSound ==
  ASSUME IInv, ~Done, NEW reply, NEW charge, NEW prompt, NEW output,
         Honest(reply, charge, prompt, output),
         Metered(1, charge, prompt, output), evidence' = Joined(reply),
         result' \in Results, SameBill(result', Billed(reply))
  PROVE  /\ Typed' /\ BillIsSound' /\ Grounded'
         /\ result'.attempts = meter'.calls /\ result'.attempts <= MaxRetries + 1
         /\ result'.attempts >= 1 /\ result'.retries = result'.attempts - 1
<1>1. result \in Results /\ meter \in Meters /\ reply \in Replies /\ Typed
  BY DEF IInv, Typed, Honest
<1>2. Grounded /\ BillIsSound /\ result.attempts = meter.calls /\ result.attempts <= MaxRetries
  BY DEF IInv, Waiting
<1>3. /\ meter' \in Meters /\ meter'.calls = meter.calls + 1
      /\ meter'.charged = meter.charged + charge
      /\ meter'.prompt = meter.prompt + prompt /\ meter'.output = meter.output + output
  BY <1>1 DEF Metered, Meters, Honest
<1>4. evidence' \in Bases /\ evidence' # None
  BY <1>1, ReplyBilled, CompileAssumption DEF Bases
<1>5. /\ result'.attempts = result.attempts + 1 /\ result'.retries = result.attempts
      /\ result'.input = result.input + reply.input
      /\ result'.output = result.output + reply.output
      /\ result'.read = result.read + reply.read /\ result'.write = result.write + reply.write
      /\ result'.cost = result.cost + reply.cost
  BY <1>1, ReplyBilled DEF SameBill
<1>6. /\ result'.exact = (evidence'.provider /\ ~evidence'.uncertain)
      /\ result'.unknown = (evidence'.uncertain \/ ~(evidence'.provider \/ evidence'.table))
  BY <1>1, ReplyBilled DEF SameBill
<1>7. evidence'.provider => result'.cost = meter'.charged
  BY <1>1, <1>2, <1>3, <1>5 DEF Joined, Grounded, Honest, Results, Meters, Replies
<1>8. evidence'.table => /\ result'.input + result'.read + result'.write = meter'.prompt
                         /\ result'.output = meter'.output
  BY <1>1, <1>2, <1>3, <1>5 DEF Joined, Grounded, Honest, Results, Meters, Replies
<1>9. Grounded'
  BY <1>4, <1>6, <1>7, <1>8 DEF Grounded
<1>10. /\ result'.cost <= meter'.charged
       /\ result'.output <= meter'.output /\ result'.input <= meter'.prompt
  BY <1>1, <1>2, <1>3, <1>5 DEF BillIsSound, Honest, Results, Meters, Replies
<1>11. BillIsSound'
  BY <1>4, <1>6, <1>7, <1>8, <1>10 DEF BillIsSound, Bases
<1>12. /\ result'.attempts = meter'.calls /\ result'.attempts <= MaxRetries + 1
       /\ result'.attempts >= 1 /\ result'.retries = result'.attempts - 1
  BY <1>1, <1>2, <1>3, <1>5, CompileAssumption DEF Meters, Results
<1> QED BY <1>3, <1>4, <1>9, <1>11, <1>12 DEF Typed

\* A compile that has not called anyone satisfies the invariant.
LEMMA InitIInv == Init => IInv
BY CompileAssumption DEF Init, IInv, Typed, BillIsSound, AttemptsAreCalls, ResultIsUsable, Waiting,
   Done, Grounded, Results, Bases, Meters

\* Every way a round can go keeps it.
LEMMA NextIInv == IInv /\ [Next]_vars => IInv'
<1> SUFFICES ASSUME IInv, [Next]_vars PROVE IInv'
  OBVIOUS
<1>1. result \in Results /\ evidence \in Bases \cup {None} /\ meter \in Meters
  BY DEF IInv, Typed
<1>2. ~Done => result.spec = None /\ ~result.error /\ ~result.notExpressible
  BY DEF Done
<1>3. CASE Refused
  <2> DEFINE retries == IF result.attempts = 0 THEN 0 ELSE result.attempts - 1
  <2>1. ~Done /\ UNCHANGED <<evidence, meter>>
    BY <1>3 DEF Refused
  <2>2. retries \in Nat
    BY <1>1 DEF Results
  <2> HIDE DEF retries
  <2>3. /\ Uncounted \in Results /\ Uncounted.retries = retries
        /\ Uncounted.attempts = result.attempts /\ Uncounted.exact = result.exact
        /\ Uncounted.unknown = result.unknown /\ Uncounted.cost = result.cost
        /\ Uncounted.input = result.input /\ Uncounted.output = result.output
        /\ Uncounted.read = result.read /\ Uncounted.write = result.write
        /\ Uncounted.spec = result.spec /\ Uncounted.notExpressible = result.notExpressible
    <3>1. Uncounted = [result EXCEPT !.retries = retries]
      BY DEF Uncounted, retries
    <3> QED BY <1>1, <2>2, <3>1 DEF Results
  <2>4. /\ result' \in Results /\ SameBill(result', Uncounted)
        /\ result'.spec = None /\ result'.error /\ ~result'.notExpressible
    BY <1>2, <1>3, <2>1, <2>3, WithError DEF Refused
  <2>5. BillIsSound'
    BY <2>1, <2>3, <2>4 DEF IInv, BillIsSound, SameBill
  <2>6. AttemptsAreCalls'
    BY <2>1, <2>3, <2>4, <1>1, CompileAssumption
    DEF IInv, Waiting, AttemptsAreCalls, SameBill, retries, Results
  <2> QED
    BY <1>1, <2>1, <2>4, <2>5, <2>6 DEF IInv, Typed, ResultIsUsable, Waiting, Done
<1>4. CASE Raised
  <2> DEFINE raised == [Called EXCEPT !.error = TRUE, !.exact = FALSE, !.unknown = TRUE]
  <2>1. ~Done /\ UNCHANGED evidence /\ result' = raised
    BY <1>4 DEF Raised
  <2>2. PICK calls \in {0, 1}, charge \in Nat : Metered(calls, charge, 0, 0)
    BY <1>4, CompileAssumption DEF Raised
  <2>3. /\ meter' \in Meters /\ meter'.calls = meter.calls + calls
        /\ meter'.charged >= meter.charged
        /\ meter'.prompt = meter.prompt /\ meter'.output = meter.output
    BY <1>1, <2>2 DEF Metered, Meters
  <2>4. Called \in Results /\ Called.spec = None /\ ~Called.notExpressible
    BY <1>1, <1>2, <2>1, RoundCounted DEF IInv
  <2>5. /\ raised \in Results /\ raised.error /\ ~raised.exact /\ raised.unknown
        /\ raised.spec = Called.spec /\ raised.notExpressible = Called.notExpressible
        /\ raised.attempts = Called.attempts /\ raised.retries = Called.retries
        /\ raised.cost = Called.cost /\ raised.input = Called.input
        /\ raised.output = Called.output
    BY <2>4 DEF Results
  <2> HIDE DEF raised
  <2>6. /\ result'.cost = result.cost /\ result'.input = result.input
        /\ result'.output = result.output
        /\ result'.attempts = result.attempts + 1 /\ result'.retries = result.attempts
    BY <2>1, <2>5, RoundCounted DEF IInv
  <2>7. BillIsSound'
    BY <1>1, <2>1, <2>3, <2>5, <2>6 DEF IInv, BillIsSound, Results, Meters
  <2>8. AttemptsAreCalls'
    BY <1>1, <2>1, <2>3, <2>5, <2>6, CompileAssumption
    DEF IInv, Waiting, AttemptsAreCalls, Results, Meters
  <2> QED
    BY <1>1, <2>1, <2>3, <2>4, <2>5, <2>7, <2>8 DEF IInv, Typed, ResultIsUsable, Waiting, Done
<1>5. CASE NotDelivered
  <2>1. PICK charge \in Nat : Metered(1, charge, 0, 0)
    BY <1>5, CompileAssumption DEF NotDelivered
  <2>2. ~Done /\ evidence' = Joined(Lost) /\ result' = [Billed(Lost) EXCEPT !.error = TRUE]
    BY <1>5 DEF NotDelivered
  <2>3. Honest(Lost, charge, 0, 0)
    BY LostIsHonest
  <2>4. /\ Billed(Lost) \in Results
        /\ Billed(Lost).spec = None /\ ~Billed(Lost).notExpressible
    BY <1>2, <2>2, <2>3, ReplyBilled DEF Honest, IInv
  <2>5. /\ result' \in Results /\ SameBill(result', Billed(Lost))
        /\ result'.spec = None /\ result'.error /\ ~result'.notExpressible
    BY <2>2, <2>4, WithError
  <2>6. /\ Typed' /\ BillIsSound' /\ Grounded'
        /\ result'.attempts = meter'.calls /\ result'.attempts <= MaxRetries + 1
        /\ result'.attempts >= 1 /\ result'.retries = result'.attempts - 1
    BY <2>1, <2>2, <2>3, <2>5, BilledIsSound
  <2> QED
    BY <2>5, <2>6 DEF IInv, Typed, Results, AttemptsAreCalls, ResultIsUsable, Waiting, Done
<1>6. ASSUME NEW b \in Bodies, Response(b),
             \/ result' = [Billed(Arrived(b)) EXCEPT !.error = TRUE]
             \/ \E given \in BOOLEAN :
                  /\ ~given => Billed(Arrived(b)).attempts # MaxRetries + 1
                  /\ result' = [Billed(Arrived(b)) EXCEPT !.notExpressible = given]
             \/ \E c \in Candidates :
                  Passes(c) /\ result' = [Billed(Arrived(b)) EXCEPT !.spec = Normalized[c]]
      PROVE  IInv'
  <2> DEFINE reply == Arrived(b)
  <2>1. /\ ~Done /\ evidence' = Joined(reply)
        /\ Metered(1, b.charged, b.usedPrompt, b.usedOutput)
    BY <1>6 DEF Response
  <2>2. Honest(reply, b.charged, b.usedPrompt, b.usedOutput)
    BY <1>6, ArrivedIsHonest
  <2> HIDE DEF reply
  <2>3. /\ Billed(reply) \in Results
        /\ Billed(reply).spec = None /\ ~Billed(reply).error /\ ~Billed(reply).notExpressible
    BY <1>2, <2>1, <2>2, ReplyBilled DEF Honest, IInv
  <2>4. \A c \in Candidates : Passes(c) => Normalized[c] \in Valid \cap Welcome \cap Candidates
    BY CompileAssumption DEF Passes
  <2>5. /\ result' \in Results /\ SameBill(result', Billed(reply)) /\ ResultIsUsable'
        /\ ~Done' => Billed(reply).attempts # MaxRetries + 1
    <3>1. CASE result' = [Billed(reply) EXCEPT !.error = TRUE]
      BY <2>3, <3>1, WithError DEF ResultIsUsable, Done
    <3>2. CASE \E given \in BOOLEAN :
                 /\ ~given => Billed(reply).attempts # MaxRetries + 1
                 /\ result' = [Billed(reply) EXCEPT !.notExpressible = given]
      <4>1. PICK given \in BOOLEAN :
              /\ ~given => Billed(reply).attempts # MaxRetries + 1
              /\ result' = [Billed(reply) EXCEPT !.notExpressible = given]
        BY <3>2
      <4>2. /\ result' \in Results /\ SameBill(result', Billed(reply))
            /\ result'.spec = None /\ ~result'.error /\ result'.notExpressible = given
        <5> DEFINE t == [Billed(reply) EXCEPT !.notExpressible = given]
        <5>1. /\ t \in Results /\ SameBill(t, Billed(reply))
              /\ t.spec = Billed(reply).spec /\ t.error = Billed(reply).error
              /\ t.notExpressible = given
          BY <2>3, <4>1, WithNotExpressible
        <5> QED BY <2>3, <4>1, <5>1
      <4> QED BY <4>1, <4>2 DEF ResultIsUsable, Done
    <3>3. CASE \E c \in Candidates :
                 Passes(c) /\ result' = [Billed(reply) EXCEPT !.spec = Normalized[c]]
      <4>1. PICK c \in Candidates :
              Passes(c) /\ result' = [Billed(reply) EXCEPT !.spec = Normalized[c]]
        BY <3>3
      <4>2. Normalized[c] \in Valid \cap Welcome /\ Normalized[c] \in Candidates
        BY <2>4, <4>1
      <4>3. /\ result' \in Results /\ SameBill(result', Billed(reply))
            /\ result'.spec = Normalized[c] /\ ~result'.error /\ ~result'.notExpressible
        <5> DEFINE t == [Billed(reply) EXCEPT !.spec = Normalized[c]]
        <5>1. /\ t \in Results /\ SameBill(t, Billed(reply)) /\ t.spec = Normalized[c]
              /\ t.error = Billed(reply).error
              /\ t.notExpressible = Billed(reply).notExpressible
          BY <2>3, <4>2, WithSpec
        <5> QED BY <2>3, <4>1, <5>1
      <4> QED BY <4>2, <4>3, CompileAssumption DEF ResultIsUsable, Done
    <3> QED BY <1>6, <3>1, <3>2, <3>3 DEF reply
  <2>6. /\ Typed' /\ BillIsSound' /\ Grounded'
        /\ result'.attempts = meter'.calls /\ result'.attempts <= MaxRetries + 1
        /\ result'.attempts >= 1 /\ result'.retries = result'.attempts - 1
    BY <2>1, <2>2, <2>5, BilledIsSound
  <2>7. AttemptsAreCalls'
    BY <2>6 DEF AttemptsAreCalls, Typed, Results
  <2>8. Waiting'
    BY <2>5, <2>6, CompileAssumption DEF Waiting, Typed, Results, SameBill
  <2> QED BY <2>5, <2>6, <2>7, <2>8 DEF IInv
<1>7. CASE Failed
  BY <1>6, <1>7 DEF Failed
<1>8. CASE Inexpressible
  BY <1>6, <1>8 DEF Inexpressible
<1>9. ASSUME NEW b \in Bodies, Response(b), result' = Retried(Billed(Arrived(b)))
      PROVE  IInv'
  <2>1. (Billed(Arrived(b)).attempts = MaxRetries + 1) \in BOOLEAN
    OBVIOUS
  <2> QED BY <1>6, <1>9, <2>1 DEF Retried
<1>10. CASE Unreadable
  BY <1>9, <1>10 DEF Unreadable
<1>11. CASE Answered
  <2>1. PICK b \in Bodies, c \in Candidates :
          /\ Response(b)
          /\ result' = IF Passes(c) THEN [Billed(Arrived(b)) EXCEPT !.spec = Normalized[c]]
                       ELSE Retried(Billed(Arrived(b)))
    BY <1>11 DEF Answered
  <2>2. CASE Passes(c)
    BY <1>6, <2>1, <2>2
  <2>3. CASE ~Passes(c)
    BY <1>9, <2>1, <2>3
  <2> QED BY <2>2, <2>3
<1>12. CASE UNCHANGED vars
  BY <1>12 DEF vars, IInv, Typed, BillIsSound, AttemptsAreCalls, ResultIsUsable, Waiting, Done, Grounded
<1> QED BY <1>3, <1>4, <1>5, <1>7, <1>8, <1>10, <1>11, <1>12 DEF Next, Returned

\* The invariant holds in every reachable state of a compile.
LEMMA Inductive == Spec => []IInv
BY InitIInv, NextIInv, PTL DEF Spec

\* Whatever replies, failures and refusals follow one another, the result
\* never claims more of its bill than the provider's meter bears out
\* (_add_usage and the returns around it).
THEOREM BillSound == Spec => []BillIsSound
<1>1. IInv => BillIsSound
  BY DEF IInv
<1> QED BY <1>1, Inductive, PTL

\* A reserve for MaxRetries + 1 calls is enough, and attempts counts them.
THEOREM CallsCounted == Spec => []AttemptsAreCalls
<1>1. IInv => AttemptsAreCalls
  BY DEF IInv
<1> QED BY <1>1, Inductive, PTL

\* What is returned as a spec is valid and welcome as it is returned.
THEOREM SpecUsable == Spec => []ResultIsUsable
<1>1. IInv => ResultIsUsable
  BY DEF IInv
<1> QED BY <1>1, Inductive, PTL

-----------------------------------------------------------------------------
(* Stacks and sorted sets. *)

\* What a set sorted by a key of its members' own holds is that set.
LEMMA SortedHolds ==
  ASSUME NEW S, IsFiniteSet(S), NEW key, \A x \in S : key[x] \in Nat,
         \A x, y \in S : key[x] = key[y] => x = y
  PROVE  SortedBy(S, key) \in Seq(S) /\ ToSet(SortedBy(S, key)) = S
<1> DEFINE R == {p \in S \X S : key[p[1]] < key[p[2]]}
           under(x) == {y \in S : key[y] < key[x]}
           rank == [x \in S |-> Cardinality(under(x))]
           n == Cardinality(S)
           sorted == SortedBy(S, key)
<1>1. n \in Nat
  BY FS_CardinalityType
<1>2. TotallyOrders(R, S)
  BY DEF TotallyOrders
<1>3. CountsBefore(rank, R, S)
  <2>1. \A x \in S : {y \in S : <<y, x>> \in R} = under(x)
    OBVIOUS
  <2> QED BY <2>1 DEF CountsBefore
<1>4. /\ \A x \in S : rank[x] \in 0..(n - 1)
      /\ \A x, y \in S : rank[x] = rank[y] => x = y
      /\ \A k \in 0..(n - 1) : \E x \in S : rank[x] = k
  BY <1>2, <1>3, OrderOnto
<1>5. sorted = [k \in 1..n |-> CHOOSE x \in S : Cardinality(under(x)) = k - 1]
  BY Zenon DEF SortedBy
<1>0. \A x \in S : rank[x] = Cardinality(under(x))
  OBVIOUS
<1> HIDE DEF rank, sorted, R, under
<1>6. \A k \in 1..n : sorted[k] \in S /\ rank[sorted[k]] = k - 1
  <2>1. SUFFICES ASSUME NEW k \in 1..n PROVE sorted[k] \in S /\ rank[sorted[k]] = k - 1
    OBVIOUS
  <2>2. k - 1 \in 0..(n - 1)
    BY <1>1
  <2>3. \E x \in S : rank[x] = k - 1
    BY <1>4, <2>2
  <2> QED BY <1>0, <1>5, <2>3
<1>7. \A x \in S : \E k \in 1..n : sorted[k] = x
  <2>1. SUFFICES ASSUME NEW x \in S PROVE \E k \in 1..n : sorted[k] = x
    OBVIOUS
  <2>2. rank[x] \in 0..(n - 1)
    BY <1>4
  <2>3. rank[x] + 1 \in 1..n /\ (rank[x] + 1) - 1 = rank[x]
    BY <1>1, <2>2
  <2>4. sorted[rank[x] + 1] = x
    BY <1>4, <1>6, <2>3
  <2> QED BY <2>3, <2>4
<1>8. sorted \in [1..n -> S]
  BY <1>5, <1>6
<1>9. sorted \in Seq(S) /\ DOMAIN sorted = 1..n
  BY <1>1, <1>8
<1>10. ToSet(sorted) = S
  BY <1>6, <1>7, <1>9 DEF ToSet
<1> QED BY <1>9, <1>10 DEF sorted

\* A stack without its last element.
LEMMA Popped ==
  ASSUME NEW T, NEW s \in Seq(T), s # <<>>
  PROVE  /\ Len(s) \in Nat \ {0} /\ DOMAIN s = 1..Len(s)
         /\ s[Len(s)] \in T /\ s[Len(s)] \in ToSet(s)
         /\ Front(s) \in Seq(T) /\ Len(Front(s)) = Len(s) - 1
         /\ \A i \in 1..(Len(s) - 1) : Front(s)[i] = s[i]
         /\ ToSet(s) = ToSet(Front(s)) \cup {s[Len(s)]}
<1>1. Len(s) \in Nat \ {0} /\ DOMAIN s = 1..Len(s)
  BY EmptySeq, LenProperties
<1>2. s[Len(s)] \in T
  BY <1>1, ElementOfSeq
<1>3. Front(s) = SubSeq(s, 1, Len(s) - 1)
  BY DEF Front
<1>4. /\ Front(s) \in Seq(T) /\ Len(Front(s)) = Len(s) - 1
      /\ \A i \in 1..(Len(s) - 1) : Front(s)[i] = s[i]
  BY <1>1, <1>3
<1>5. DOMAIN Front(s) = 1..(Len(s) - 1)
  BY <1>4
<1>6. 1..Len(s) = (1..(Len(s) - 1)) \cup {Len(s)}
  BY <1>1
<1>7. ToSet(s) = ToSet(Front(s)) \cup {s[Len(s)]}
  BY <1>1, <1>4, <1>5, <1>6 DEF ToSet
<1> QED BY <1>1, <1>2, <1>4, <1>7

\* A stack with more pushed on it.
LEMMA Pushed ==
  ASSUME NEW T, NEW s \in Seq(T), NEW t \in Seq(T)
  PROVE  /\ s \o t \in Seq(T) /\ Len(s \o t) = Len(s) + Len(t)
         /\ \A i \in 1..Len(s) : (s \o t)[i] = s[i]
         /\ \A i \in 1..Len(t) : (s \o t)[Len(s) + i] = t[i]
         /\ ToSet(s \o t) = ToSet(s) \cup ToSet(t)
<1>1. /\ s \o t \in Seq(T) /\ Len(s \o t) = Len(s) + Len(t)
      /\ \A i \in 1..Len(s) : (s \o t)[i] = s[i]
      /\ \A i \in 1..Len(t) : (s \o t)[Len(s) + i] = t[i]
  OBVIOUS
<1>2. Len(s) \in Nat /\ Len(t) \in Nat
  OBVIOUS
<1>3. \A i \in 1..(Len(s) + Len(t)) : i \in 1..Len(s) \/ \E j \in 1..Len(t) : i = Len(s) + j
  <2>1. SUFFICES ASSUME NEW i \in 1..(Len(s) + Len(t)), i \notin 1..Len(s)
                 PROVE  \E j \in 1..Len(t) : i = Len(s) + j
    OBVIOUS
  <2>2. i - Len(s) \in 1..Len(t) /\ i = Len(s) + (i - Len(s))
    BY <1>2, <2>1
  <2> QED BY <2>2
<1>4. \A i \in 1..Len(s) : i \in 1..(Len(s) + Len(t))
  BY <1>2
<1>5. \A j \in 1..Len(t) : Len(s) + j \in 1..(Len(s) + Len(t))
  BY <1>2
<1>6. DOMAIN (s \o t) = 1..(Len(s) + Len(t)) /\ DOMAIN s = 1..Len(s) /\ DOMAIN t = 1..Len(t)
  BY <1>1
<1> HIDE <1>6
<1>7. ToSet(s \o t) \subseteq ToSet(s) \cup ToSet(t)
  BY <1>1, <1>3, <1>6 DEF ToSet
<1>8. ToSet(s) \subseteq ToSet(s \o t) /\ ToSet(t) \subseteq ToSet(s \o t)
  BY <1>1, <1>4, <1>5, <1>6 DEF ToSet
<1> QED BY <1>1, <1>7, <1>8

-----------------------------------------------------------------------------
(* What is reached. *)

LEMMA BundleTyped ==
  ASSUME bundle \in Bundles
  PROVE  /\ Top \subseteq Objects /\ IsFiniteSet(Top) /\ Top = ToSet(bundle.top)
         /\ \A o \in Objects : /\ bundle.members[o] \in Seq(Objects)
                               /\ Members(o) = ToSet(bundle.members[o])
                               /\ Members(o) \subseteq Objects
<1>1. /\ bundle.top \in Seq(Objects) /\ bundle.members \in [Objects -> Seq(Objects)]
      /\ IsFiniteSet(Objects)
  BY RegistryAssumption
<1>2. ASSUME NEW s \in Seq(Objects) PROVE ToSet(s) \subseteq Objects
  <2>1. \A i \in DOMAIN s : s[i] \in Objects
    BY ElementOfSeq
  <2> QED BY <2>1 DEF ToSet
<1>3. Top \subseteq Objects
  BY <1>1, <1>2 DEF Top
<1>4. IsFiniteSet(Top)
  BY <1>1, <1>3, FS_Subset
<1>5. \A o \in Objects : Members(o) \subseteq Objects
  BY <1>1, <1>2 DEF Members
<1> QED BY <1>1, <1>3, <1>4, <1>5 DEF Members, Top

\* The names of objects are finitely many numbers.
LEMMA NamesFinite ==
  ASSUME NEW S \in SUBSET Objects
  PROVE  IsFiniteSet(Names(S)) /\ Names(S) \subseteq Nat
<1> DEFINE name == [o \in S |-> NameOf[o]]
<1>1. IsFiniteSet(Objects) /\ NameOf \in [Objects -> Nat]
  BY RegistryAssumption
<1>2. name \in Surjection(S, Names(S))
  BY DEF Surjection, Names
<1>3. IsFiniteSet(S)
  BY <1>1, FS_Subset
<1>4. IsFiniteSet(Names(S))
  <2> HIDE DEF name
  <2> QED BY <1>2, <1>3, FS_Surjection
<1>5. Names(S) \subseteq Nat
  BY <1>1 DEF Names
<1> QED BY <1>4, <1>5

\* What is reached holds the bundle's own objects and its members' members,
LEMMA ReachedHolds ==
  ASSUME bundle \in Bundles
  PROVE  /\ Reached \subseteq Objects /\ Top \subseteq Reached
         /\ \A p \in Reached : Members(p) \subseteq Reached
<1>1. Top \subseteq Objects /\ \A o \in Objects : Members(o) \subseteq Objects
  BY BundleTyped
<1> QED BY <1>1 DEF Reached

\* and nothing that some such set lacks.
LEMMA ReachedLeast ==
  ASSUME NEW S \in SUBSET Objects, Top \subseteq S, \A p \in S : Members(p) \subseteq S
  PROVE  Reached \subseteq S
BY DEF Reached

\* An object outside the closure leaves it open, however it is reached.
LEMMA Opens ==
  ASSUME NEW o \in Reached, Unbound(o) \/ Mismatched(o)
  PROVE  ~Closed(Reached)
BY DEF Closed

-----------------------------------------------------------------------------
(* The walk and the search, as they stand. *)

\* No two of the bundle's own objects share a name or a digest.
Distinct ==
  \A o, p \in Top : NameOf[o] = NameOf[p] \/ DigestOf[o] = DigestOf[p] => o = p

\* What has been met or is still to meet is reached and bound.
WalkInv ==
  /\ stack \in Seq(Objects) /\ finished = {}
  /\ ToSet(stack) \subseteq Reached /\ seen \subseteq Reached
  /\ Top \subseteq seen \cup ToSet(stack)
  /\ \A o \in seen : Members(o) \subseteq seen \cup ToSet(stack)
  /\ \A o \in seen \cup ToSet(stack) : ~Unbound(o) /\ ~Mismatched(o)
  /\ DOMAIN edges = Names(seen)
  /\ \A n \in Names(seen) : edges[n] = UNION {Names(Members(p)) : p \in {q \in seen : NameOf[q] = n}}

\* The edges are those of every object reached.
WholeGraph ==
  /\ Closed(Reached) /\ DOMAIN edges = Names(Reached)
  /\ \A n \in Names(Reached) :
       edges[n] = UNION {Names(Members(p)) : p \in {q \in Reached : NameOf[q] = n}}

NamesClosed(N) == \A n \in N : edges[n] \subseteq N
ClosedSets == {N \in SUBSET Names(Reached) : NamesClosed(N)}

\* A finished name's members are finished, and do not lead back to it.
FinishedInv ==
  /\ finished \in ClosedSets
  /\ \A n \in finished : \E N \in ClosedSets : edges[n] \subseteq N /\ n \notin N

\* A name to leave is on the path once; its members are finished or above it;
\* and all that is above it is reached from it.
LeavingInv(i) ==
  LET name == stack[i].name IN
  /\ name \notin finished
  /\ \A j \in DOMAIN stack : stack[j].leaving /\ stack[j].name = name => j = i
  /\ \A m \in edges[name] : m \in finished \/ \E j \in DOMAIN stack : i < j /\ stack[j].name = m
  /\ \A j \in DOMAIN stack : i < j =>
       \A N \in ClosedSets : edges[name] \subseteq N => stack[j].name \in N

SearchInv ==
  /\ stack \in Seq([name : Names(Reached), leaving : BOOLEAN])
  /\ onPath = {stack[i].name : i \in {j \in DOMAIN stack : stack[j].leaving}}
  /\ \A i \in DOMAIN stack : stack[i].leaving => LeavingInv(i)

Underway == {"walk", "search", "frozen", "bound", "closed", "built"}

FreezeInv ==
  /\ phase \in Underway \cup {"idle", "refused"}
  /\ IF phase = "idle"
     THEN bundle = None /\ seen = {} /\ edges = <<>> /\ finished = {}
     ELSE bundle \in Bundles
  /\ phase # "refused" => resolution = None
  /\ phase \in Underway => Distinct
  /\ phase = "walk" => WalkInv
  /\ phase = "search" => WholeGraph /\ FinishedInv /\ SearchInv
  /\ phase \in {"frozen", "bound", "closed", "built"} => Closed(Reached) /\ Acyclic(Reached)
  /\ phase = "refused" /\ resolution # "duplicate_value" =>
       /\ resolution \in {"unknown_member", "member_digest_mismatch"} => ~Closed(Reached)
       /\ resolution = "member_cycle" => Closed(Reached) /\ ~Acyclic(Reached)

LEMMA NoneApart ==
  None \notin Bundles /\ None \notin {"unknown_member", "member_digest_mismatch", "member_cycle"}
BY RegistryAssumption

LEMMA FreezeInvImplies == FreezeInv => FrozenIsClosed
<1> SUFFICES ASSUME FreezeInv, bundle # None, resolution # "duplicate_value"
             PROVE  /\ phase \in {"frozen", "bound", "closed", "built"} => Closed(Reached) /\ Acyclic(Reached)
                    /\ resolution \in {"unknown_member", "member_digest_mismatch"} => ~Closed(Reached)
                    /\ resolution = "member_cycle" => Closed(Reached) /\ ~Acyclic(Reached)
  BY DEF FrozenIsClosed
<1>1. resolution \in {"unknown_member", "member_digest_mismatch", "member_cycle"} => phase = "refused"
  <2>2. None # "unknown_member" /\ None # "member_digest_mismatch" /\ None # "member_cycle"
    BY NoneApart
  <2>3. phase # "refused" => resolution = None
    BY DEF FreezeInv
  <2> QED BY <2>2, <2>3
<1> QED BY <1>1 DEF FreezeInv

-----------------------------------------------------------------------------
(* Freezing. *)

\* What is read of the bundle stays while the bundle does.
LEMMA SameBundle ==
  ASSUME bundle' = bundle
  PROVE  /\ Top' = Top /\ Reached' = Reached
         /\ \A o : Members(o)' = Members(o)
         /\ \A o : (Unbound(o)' <=> Unbound(o)) /\ (Mismatched(o)' <=> Mismatched(o))
         /\ Distinct' <=> Distinct
         /\ Closed(Reached)' <=> Closed(Reached)
         /\ Acyclic(Reached)' <=> Acyclic(Reached)
<1>1. Top' = Top
  BY DEF Top
<1>2. Reached' = Reached
  BY DEF Reached, Members, Top
<1>3. \A o : Members(o)' = Members(o)
  BY DEF Members
<1>4. \A o : (Unbound(o)' <=> Unbound(o)) /\ (Mismatched(o)' <=> Mismatched(o))
  BY DEF Top, Unbound, Mismatched, Registered
<1>5. Distinct' <=> Distinct
  BY <1>1 DEF Distinct
<1>6. Closed(Reached)' <=> Closed(Reached)
  BY DEF Closed, Unbound, Mismatched, Registered, Reached, Members, Top
<1>7. Acyclic(Reached)' <=> Acyclic(Reached)
  BY DEF Acyclic, NamesBelow, Reached, Members, Top
<1> QED BY <1>1, <1>2, <1>3, <1>4, <1>5, <1>6, <1>7

\* As many keys as places: no two of a sequence's members share one.
LEMMA KeysApart ==
  ASSUME NEW s \in Seq(Objects), NEW key \in [Objects -> Nat],
         Cardinality({key[o] : o \in ToSet(s)}) = Len(s)
  PROVE  \A o, p \in ToSet(s) : key[o] = key[p] => o = p
<1> DEFINE keys == {key[o] : o \in ToSet(s)}
           at == [i \in 1..Len(s) |-> key[s[i]]]
<1>1. Len(s) \in Nat /\ DOMAIN s = 1..Len(s)
  OBVIOUS
<1>2. ToSet(s) = {s[i] : i \in 1..Len(s)}
  BY <1>1 DEF ToSet
<1>3. IsFiniteSet(1..Len(s)) /\ Cardinality(1..Len(s)) = Len(s)
  <2>1. 1 \in Int /\ Len(s) \in Int
    BY <1>1
  <2>2. IsFiniteSet(1..Len(s)) /\ Cardinality(1..Len(s)) = IF 1 > Len(s) THEN 0 ELSE (Len(s) - 1) + 1
    BY <2>1, FS_Interval, Zenon
  <2> QED BY <1>1, <2>2
<1>4. at \in Surjection(1..Len(s), keys)
  BY <1>2 DEF Surjection
<1>5. at \in Injection(1..Len(s), keys)
  <2> HIDE DEF at, keys
  <2>1. Cardinality(1..Len(s)) = Cardinality(keys)
    BY <1>3 DEF keys
  <2> QED BY <1>3, <1>4, <2>1, FS_SurjSameCardinalityImpliesInj
<1>6. \A i, j \in 1..Len(s) : at[i] = at[j] => i = j
  BY <1>5 DEF Injection, IsInjective
<1> QED BY <1>2, <1>6

\* A name is registered by the bundle's own object of that name.
LEMMA RegisteredOne ==
  ASSUME Distinct, NEW o \in Top
  PROVE  Registered(NameOf[o]) = o /\ ~Unbound(o) /\ ~Mismatched(o)
<1>1. Registered(NameOf[o]) \in Top /\ NameOf[Registered(NameOf[o])] = NameOf[o]
  BY DEF Registered
<1>2. Registered(NameOf[o]) = o
  BY <1>1 DEF Distinct
<1> QED BY <1>2 DEF Unbound, Mismatched, Names

LEMMA RegistryInitInv == RegistryInit => FreezeInv
BY DEF RegistryInit, FreezeInv, Underway

LEMMA FreezeKeeps == FreezeInv /\ Freeze => FreezeInv'
<1> SUFFICES ASSUME FreezeInv, Freeze PROVE FreezeInv'
  OBVIOUS
<1>1. PICK b \in Bundles :
        /\ bundle' = b
        /\ IF Cardinality(Names(ToSet(b.top))) = Len(b.top)
              /\ Cardinality({DigestOf[o] : o \in ToSet(b.top)}) = Len(b.top)
           THEN phase' = "walk" /\ resolution' = None /\ stack' = SortedBy(ToSet(b.top), DigestOf)
           ELSE phase' = "refused" /\ resolution' = "duplicate_value"
  BY DEF Freeze
<1>2. /\ phase = "idle" /\ seen' = {} /\ edges' = <<>> /\ finished' = {}
  BY DEF Freeze, FreezeInv
<1>3. CASE phase' = "refused"
  BY <1>1, <1>3 DEF FreezeInv, Underway
<1>4. CASE phase' = "walk"
  <2>1. /\ Cardinality(Names(ToSet(b.top))) = Len(b.top)
        /\ Cardinality({DigestOf[o] : o \in ToSet(b.top)}) = Len(b.top)
        /\ resolution' = None /\ stack' = SortedBy(ToSet(b.top), DigestOf)
    BY <1>1, <1>4
  <2>2. /\ b.top \in Seq(Objects) /\ IsFiniteSet(Objects)
        /\ NameOf \in [Objects -> Nat] /\ DigestOf \in [Objects -> Nat]
    BY RegistryAssumption
  <2>3. Top' = ToSet(b.top)
    BY <1>1 DEF Top
  <2>4. Top' \subseteq Objects
    <3>1. \A i \in DOMAIN b.top : b.top[i] \in Objects
      BY <2>2, ElementOfSeq
    <3> QED BY <2>3, <3>1 DEF ToSet
  <2>5. /\ \A o, p \in Top' : NameOf[o] = NameOf[p] => o = p
        /\ \A o, p \in Top' : DigestOf[o] = DigestOf[p] => o = p
    <3>1. Cardinality({NameOf[o] : o \in ToSet(b.top)}) = Len(b.top)
      BY <2>1 DEF Names
    <3>2. \A o, p \in ToSet(b.top) : NameOf[o] = NameOf[p] => o = p
      BY <2>2, <3>1, KeysApart
    <3>3. \A o, p \in ToSet(b.top) : DigestOf[o] = DigestOf[p] => o = p
      BY <2>1, <2>2, KeysApart
    <3> QED BY <2>3, <3>2, <3>3
  <2>6. Distinct'
    BY <2>5 DEF Distinct
  <2>7. stack' \in Seq(Top') /\ ToSet(stack') = Top'
    <3>1. IsFiniteSet(Top')
      BY <2>2, <2>4, FS_Subset
    <3>2. \A o \in Top' : DigestOf[o] \in Nat
      BY <2>2, <2>4
    <3> QED BY <2>1, <2>3, <2>5, <3>1, <3>2, SortedHolds
  <2>8. stack' \in Seq(Objects)
    BY <2>4, <2>7
  <2>9. Top' \subseteq Reached'
    BY <2>4 DEF Reached
  <2>10. \A o \in Top' : ~Unbound(o)' /\ ~Mismatched(o)'
    <3>1. SUFFICES ASSUME NEW o \in Top' PROVE ~Unbound(o)' /\ ~Mismatched(o)'
      OBVIOUS
    <3>2. Registered(NameOf[o])' \in Top' /\ NameOf[Registered(NameOf[o])'] = NameOf[o]
      BY DEF Registered
    <3>3. Registered(NameOf[o])' = o
      BY <2>5, <3>2
    <3> QED BY <3>3 DEF Unbound, Mismatched, Names
  <2>11. DOMAIN edges' = Names(seen')
    BY <1>2 DEF Names
  <2>12. WalkInv'
    BY <1>2, <2>7, <2>8, <2>9, <2>10, <2>11 DEF WalkInv, Names
  <2> QED BY <1>1, <1>4, <2>1, <2>6, <2>12 DEF FreezeInv, Underway
<1> QED BY <1>1, <1>3, <1>4

-----------------------------------------------------------------------------
(* The walk. *)

LEMMA WalkKeeps == FreezeInv /\ Walk => FreezeInv'
<1> SUFFICES ASSUME FreezeInv, Walk PROVE FreezeInv'
  OBVIOUS
<1> DEFINE o == stack[Len(stack)]
           members == bundle.members[o]
           bad == {n \in DOMAIN members : Unbound(members[n]) \/ Mismatched(members[n])}
           first == members[Min(bad)]
           last == Front(stack)
<1>1. phase = "walk" /\ bundle \in Bundles /\ WalkInv /\ Distinct /\ resolution = None /\ stack # <<>>
  BY DEF FreezeInv, Walk, Underway
<1>2. bundle' = bundle /\ finished' = finished
  BY DEF Walk, RefuseAs
<1>3. \/ /\ Met(o) /\ stack' = last
         /\ UNCHANGED <<phase, seen, edges, resolution>>
      \/ /\ ~Met(o) /\ bad # {}
         /\ RefuseAs(IF Unbound(first) THEN "unknown_member" ELSE "member_digest_mismatch")
         /\ UNCHANGED <<stack, seen, edges>>
      \/ /\ ~Met(o) /\ bad = {}
         /\ seen' = seen \cup {o}
         /\ edges' = [n \in DOMAIN edges \cup {NameOf[o]} |->
                        (IF n \in DOMAIN edges THEN edges[n] ELSE {})
                          \cup (IF n = NameOf[o] THEN Names(Members(o)) ELSE {})]
         /\ stack' = last \o members
         /\ UNCHANGED <<phase, resolution>>
  BY DEF Walk
<1>4. /\ stack \in Seq(Objects) /\ finished = {}
      /\ ToSet(stack) \subseteq Reached /\ seen \subseteq Reached
      /\ Top \subseteq seen \cup ToSet(stack)
      /\ \A p \in seen : Members(p) \subseteq seen \cup ToSet(stack)
      /\ \A p \in seen \cup ToSet(stack) : ~Unbound(p) /\ ~Mismatched(p)
      /\ DOMAIN edges = Names(seen)
      /\ \A n \in Names(seen) : edges[n] = UNION {Names(Members(p)) : p \in {q \in seen : NameOf[q] = n}}
  BY <1>1 DEF WalkInv
<1>5. /\ o \in Objects /\ o \in ToSet(stack) /\ last \in Seq(Objects)
      /\ ToSet(stack) = ToSet(last) \cup {o}
  BY <1>1, <1>4, Popped
<1>6. /\ members \in Seq(Objects) /\ Members(o) = ToSet(members)
      /\ Members(o) \subseteq Reached
  BY <1>1, <1>4, <1>5, BundleTyped, ReachedHolds
<1>7. /\ Top' = Top /\ Reached' = Reached
      /\ \A p : Members(p)' = Members(p)
      /\ \A p : (Unbound(p)' <=> Unbound(p)) /\ (Mismatched(p)' <=> Mismatched(p))
      /\ Distinct'
      /\ Closed(Reached)' <=> Closed(Reached)
  BY <1>1, <1>2, SameBundle
<1> HIDE DEF o, members, bad, first, last
<1>8. CASE Met(o) /\ stack' = last /\ UNCHANGED <<phase, seen, edges, resolution>>
  <2>1. o \in seen
    BY <1>8 DEF Met
  <2>2. ToSet(stack') \subseteq ToSet(stack) /\ seen \cup ToSet(stack') = seen \cup ToSet(stack)
    BY <1>5, <1>8, <2>1
  <2>3. WalkInv'
    BY <1>2, <1>4, <1>5, <1>7, <1>8, <2>2 DEF WalkInv, Names
  <2> QED BY <1>1, <1>2, <1>7, <1>8, <2>3 DEF FreezeInv, Underway
<1>9. CASE /\ ~Met(o) /\ bad # {}
           /\ RefuseAs(IF Unbound(first) THEN "unknown_member" ELSE "member_digest_mismatch")
  <2>1. first \in Members(o) /\ (Unbound(first) \/ Mismatched(first))
    <3>1. Len(members) \in Nat /\ DOMAIN members = 1..Len(members)
      BY <1>6
    <3>2. bad \subseteq 1..Len(members)
      BY <3>1 DEF bad
    <3>3. IsFiniteSet(bad) /\ bad \subseteq Nat
      <4>1. IsFiniteSet(1..Len(members))
        BY <3>1, FS_Interval
      <4>2. IsFiniteSet(bad)
        BY <3>2, <4>1, FS_Subset
      <4>3. bad \subseteq Nat
        BY <3>1, <3>2
      <4> QED BY <4>2, <4>3
    <3>4. Min(bad) \in bad
      BY <1>9, <3>3, NatMin
    <3> QED BY <1>6, <3>4 DEF bad, first, ToSet
  <2>2. ~Closed(Reached)
    BY <1>6, <2>1, Opens
  <2>3. phase' = "refused" /\ resolution' \in {"unknown_member", "member_digest_mismatch"}
    BY <1>9 DEF RefuseAs
  <2>4. ~Closed(Reached)'
    BY <1>7, <2>2
  <2> QED BY <1>1, <1>2, <2>3, <2>4 DEF FreezeInv, Underway
<1>10. CASE /\ ~Met(o) /\ bad = {}
            /\ seen' = seen \cup {o}
            /\ edges' = [n \in DOMAIN edges \cup {NameOf[o]} |->
                           (IF n \in DOMAIN edges THEN edges[n] ELSE {})
                             \cup (IF n = NameOf[o] THEN Names(Members(o)) ELSE {})]
            /\ stack' = last \o members
            /\ UNCHANGED <<phase, resolution>>
  <2>1. stack' \in Seq(Objects) /\ ToSet(stack') = ToSet(last) \cup Members(o)
    BY <1>5, <1>6, <1>10, Pushed
  <2>2. \A m \in Members(o) : ~Unbound(m) /\ ~Mismatched(m)
    BY <1>6, <1>10 DEF bad, ToSet
  <2>3. seen' \cup ToSet(stack') = seen \cup ToSet(stack) \cup Members(o)
    BY <1>5, <1>10, <2>1
  <2>4. Names(seen') = Names(seen) \cup {NameOf[o]} /\ DOMAIN edges' = Names(seen')
    BY <1>4, <1>10 DEF Names
  <2>5. ASSUME NEW n \in Names(seen')
        PROVE  edges'[n] = UNION {Names(Members(p)) : p \in {q \in seen' : NameOf[q] = n}}
    <3> DEFINE E(S) == UNION {Names(Members(p)) : p \in {q \in S : NameOf[q] = n}}
    <3>1. E(seen') = E(seen) \cup (IF n = NameOf[o] THEN Names(Members(o)) ELSE {})
      BY <1>10
    <3>2. n \notin Names(seen) => E(seen) = {}
      BY DEF Names
    <3>3. n \in Names(seen) => edges[n] = E(seen)
      BY <1>4
    <3>4. edges'[n] = (IF n \in Names(seen) THEN edges[n] ELSE {})
                        \cup (IF n = NameOf[o] THEN Names(Members(o)) ELSE {})
      BY <1>4, <1>10, <2>4, <2>5
    <3> HIDE DEF E
    <3>5. edges'[n] = E(seen')
      BY <3>1, <3>2, <3>3, <3>4
    <3> QED BY <3>5 DEF E
  <2>6. \A p \in seen' : Members(p) \subseteq seen' \cup ToSet(stack')
    BY <1>4, <1>10, <2>3
  <2>7. \A p \in seen' \cup ToSet(stack') : ~Unbound(p) /\ ~Mismatched(p)
    BY <1>4, <2>2, <2>3
  <2>8. ToSet(stack') \subseteq Reached /\ seen' \subseteq Reached
    BY <1>4, <1>5, <1>6, <1>10, <2>1
  <2>9. Top \subseteq seen' \cup ToSet(stack')
    BY <1>4, <2>3
  <2>10. \A n \in Names(seen') : edges'[n] = UNION {Names(Members(p)') : p \in {q \in seen' : NameOf[q] = n}}
    BY <1>7, <2>5 DEF Names
  <2>11. WalkInv'
    BY <1>2, <1>4, <1>7, <2>1, <2>4, <2>6, <2>7, <2>8, <2>9, <2>10 DEF WalkInv, Names
  <2> QED BY <1>1, <1>2, <1>7, <1>10, <2>11 DEF FreezeInv, Underway
<1> QED BY <1>3, <1>8, <1>9, <1>10

-----------------------------------------------------------------------------
(* The search. *)

\* An object's members, by name, are among its name's edges, and every edge
\* is one of an object of the name.
LEMMA EdgesHold ==
  ASSUME WholeGraph
  PROVE  /\ \A o \in Reached : NameOf[o] \in Names(Reached) /\ Names(Members(o)) \subseteq edges[NameOf[o]]
         /\ \A n \in Names(Reached) : \A m \in edges[n] :
              \E o \in Reached : NameOf[o] = n /\ m \in Names(Members(o))
<1>1. \A n \in Names(Reached) :
        edges[n] = UNION {Names(Members(p)) : p \in {q \in Reached : NameOf[q] = n}}
  BY DEF WholeGraph
<1>2. \A o \in Reached : NameOf[o] \in Names(Reached)
  BY DEF Names
<1>3. ASSUME NEW o \in Reached PROVE Names(Members(o)) \subseteq edges[NameOf[o]]
  <2>1. o \in {q \in Reached : NameOf[q] = NameOf[o]}
    OBVIOUS
  <2>2. edges[NameOf[o]] = UNION {Names(Members(p)) : p \in {q \in Reached : NameOf[q] = NameOf[o]}}
    BY <1>1, <1>2
  <2> QED BY <2>1, <2>2
<1>4. ASSUME NEW n \in Names(Reached), NEW m \in edges[n]
      PROVE  \E o \in Reached : NameOf[o] = n /\ m \in Names(Members(o))
  BY <1>1
<1> QED BY <1>2, <1>3, <1>4

\* Every edge leads to a name reached.
LEMMA EdgesStay ==
  ASSUME bundle \in Bundles, WholeGraph
  PROVE  \A n \in Names(Reached) : edges[n] \subseteq Names(Reached)
<1> SUFFICES ASSUME NEW n \in Names(Reached), NEW m \in edges[n] PROVE m \in Names(Reached)
  OBVIOUS
<1>1. PICK o \in Reached : m \in Names(Members(o))
  BY EdgesHold
<1>2. Members(o) \subseteq Reached
  BY ReachedHolds
<1> QED BY <1>1, <1>2 DEF Names

\* The names below an object are in every closed set of names its edges are in.
LEMMA BelowClosed ==
  ASSUME WholeGraph, NEW o \in Reached, NEW N \in ClosedSets, edges[NameOf[o]] \subseteq N
  PROVE  NamesBelow(o, Reached) \subseteq N
<1>1. N \in SUBSET Names(Reached) /\ \A n \in N : edges[n] \subseteq N
  BY DEF ClosedSets, NamesClosed
<1>2. Names(Members(o)) \subseteq N
  BY EdgesHold
<1>3. \A p \in Reached : NameOf[p] \in N => Names(Members(p)) \subseteq N
  BY <1>1, EdgesHold
<1> QED BY <1>1, <1>2, <1>3 DEF NamesBelow

\* All names finished: no name is reached from its own members.
LEMMA FinishedAll ==
  ASSUME WholeGraph, FinishedInv, finished = Names(Reached)
  PROVE  Acyclic(Reached)
<1> SUFFICES ASSUME NEW o \in Reached PROVE NameOf[o] \notin NamesBelow(o, Reached)
  BY DEF Acyclic
<1>1. NameOf[o] \in finished
  BY DEF Names
<1>2. PICK N \in ClosedSets : edges[NameOf[o]] \subseteq N /\ NameOf[o] \notin N
  BY <1>1 DEF FinishedInv
<1> QED BY <1>2, BelowClosed

\* A name in every closed set that its own edges are in is on a cycle.
LEMMA CycleFound ==
  ASSUME bundle \in Bundles, WholeGraph, NEW n \in Names(Reached),
         \A N \in ClosedSets : edges[n] \subseteq N => n \in N
  PROVE  ~Acyclic(Reached)
<1> SUFFICES ASSUME Acyclic(Reached) PROVE FALSE
  OBVIOUS
<1> DEFINE without == {N \in ClosedSets : n \notin N}
           all == UNION without
<1>1. all \in ClosedSets /\ n \notin all
  BY DEF ClosedSets, NamesClosed
<1>2. edges[n] \subseteq all
  <2>1. SUFFICES ASSUME NEW m \in edges[n] PROVE m \in all
    OBVIOUS
  <2>2. PICK o \in Reached : NameOf[o] = n /\ m \in Names(Members(o))
    BY EdgesHold
  <2>3. n \notin NamesBelow(o, Reached)
    BY <2>2 DEF Acyclic
  <2>4. PICK N \in SUBSET Names(Reached) :
          /\ Names(Members(o)) \subseteq N /\ n \notin N
          /\ \A p \in Reached : NameOf[p] \in N => Names(Members(p)) \subseteq N
    BY <2>3 DEF NamesBelow
  <2>5. NamesClosed(N)
    <3>1. SUFFICES ASSUME NEW k \in N, NEW l \in edges[k] PROVE l \in N
      BY DEF NamesClosed
    <3>2. k \in Names(Reached)
      BY <2>4
    <3>3. PICK p \in Reached : NameOf[p] = k /\ l \in Names(Members(p))
      BY <3>1, <3>2, EdgesHold
    <3> QED BY <2>4, <3>1, <3>3
  <2>6. N \in without
    BY <2>4, <2>5 DEF ClosedSets
  <2> QED BY <2>2, <2>4, <2>6
<1> QED BY <1>1, <1>2

\* What the walk leaves behind, and what a finished root does.
LEMMA RootFacts ==
  ASSUME FreezeInv, Root
  PROVE  WholeGraph /\ FinishedInv
<1>1. bundle \in Bundles /\ (phase = "walk" \/ phase = "search") /\ stack = <<>>
  BY DEF Root, FreezeInv
<1>2. CASE phase = "search"
  BY <1>2 DEF FreezeInv
<1>3. CASE phase = "walk"
  <2>1. WalkInv
    BY <1>3 DEF FreezeInv
  <2>2. ToSet(stack) = {}
    BY <1>1 DEF ToSet
  <2>3. seen \subseteq Reached /\ Top \subseteq seen /\ \A o \in seen : Members(o) \subseteq seen
    BY <2>1, <2>2 DEF WalkInv
  <2>4. seen = Reached
    <3>1. seen \in SUBSET Objects
      BY <1>1, <2>3, ReachedHolds
    <3> QED BY <2>3, <3>1, ReachedLeast
  <2>5. Closed(Reached)
    BY <2>1, <2>4 DEF WalkInv, Closed
  <2>6. WholeGraph
    BY <2>1, <2>4, <2>5 DEF WalkInv, WholeGraph
  <2>7. FinishedInv
    BY <2>1 DEF WalkInv, FinishedInv, ClosedSets, NamesClosed
  <2> QED BY <2>6, <2>7
<1> QED BY <1>1, <1>2, <1>3

\* What the search's invariant says of names stays while nothing is finished.
LEMMA SameGraph ==
  ASSUME bundle' = bundle, edges' = edges
  PROVE  (WholeGraph' <=> WholeGraph) /\ ClosedSets' = ClosedSets /\ Names(Reached)' = Names(Reached)
<1>1. Reached' = Reached /\ (Closed(Reached)' <=> Closed(Reached)) /\ \A o : Members(o)' = Members(o)
  BY SameBundle
<1>2. Names(Reached)' = Names(Reached)
  BY <1>1 DEF Names
<1>3. ClosedSets' = ClosedSets
  BY <1>1, <1>2 DEF ClosedSets, NamesClosed
<1>4. WholeGraph' <=> WholeGraph
  BY <1>1, <1>2 DEF WholeGraph, Names
<1> QED BY <1>2, <1>3, <1>4

LEMMA RootKeeps == FreezeInv /\ Root => FreezeInv'
<1> SUFFICES ASSUME FreezeInv, Root PROVE FreezeInv'
  OBVIOUS
<1> DEFINE left == DOMAIN edges \ finished
<1>1. bundle \in Bundles /\ Distinct /\ resolution = None /\ phase \in {"walk", "search"}
  BY DEF Root, FreezeInv, Underway
<1>2. bundle' = bundle /\ resolution' = resolution /\ edges' = edges /\ finished' = finished
  BY DEF Root
<1>3. WholeGraph /\ FinishedInv
  BY RootFacts
<1>4. WholeGraph' /\ FinishedInv'
  BY <1>2, <1>3, SameGraph DEF FinishedInv
<1>5. Distinct' /\ (Closed(Reached)' <=> Closed(Reached)) /\ (Acyclic(Reached)' <=> Acyclic(Reached))
  BY <1>1, <1>2, SameBundle
<1>6. CASE left = {}
  <2>1. phase' = "frozen"
    BY <1>6 DEF Root
  <2>2. finished = Names(Reached)
    BY <1>3, <1>6 DEF WholeGraph, FinishedInv, ClosedSets
  <2>3. Acyclic(Reached) /\ Closed(Reached)
    BY <1>3, <2>2, FinishedAll DEF WholeGraph
  <2> QED BY <1>1, <1>2, <1>5, <2>1, <2>3 DEF FreezeInv, Underway
<1>7. CASE left # {}
  <2>1. phase' = "search" /\ onPath' = {} /\ stack' = <<[name |-> Min(left), leaving |-> FALSE]>>
    BY <1>7 DEF Root
  <2>2. Min(left) \in Names(Reached)
    <3>1. Reached \in SUBSET Objects
      BY <1>1, ReachedHolds
    <3>2. IsFiniteSet(Names(Reached)) /\ Names(Reached) \subseteq Nat
      BY <3>1, NamesFinite
    <3>4. left \subseteq Names(Reached)
      BY <1>3 DEF WholeGraph
    <3>5. IsFiniteSet(left) /\ left \subseteq Nat
      BY <3>2, <3>4, FS_Subset
    <3> HIDE DEF left
    <3> QED BY <1>7, <3>4, <3>5, NatMin
  <2>3. SearchInv'
    <3>1. Names(Reached)' = Names(Reached)
      BY <1>2, SameGraph
    <3>2. stack' \in Seq([name : Names(Reached), leaving : BOOLEAN])
      BY <2>1, <2>2
    <3>3. DOMAIN stack' = {1} /\ ~stack'[1].leaving
      BY <2>1
    <3> QED BY <2>1, <3>1, <3>2, <3>3 DEF SearchInv
  <2> QED BY <1>1, <1>2, <1>4, <1>5, <2>1, <2>3 DEF FreezeInv, Underway
<1> QED BY <1>6, <1>7

\* A name to leave, seen from the facts of one state.
LEMMA SearchFacts ==
  ASSUME FreezeInv, phase = "search", stack # <<>>
  PROVE  /\ bundle \in Bundles /\ Distinct /\ resolution = None
         /\ WholeGraph /\ FinishedInv /\ SearchInv
         /\ Len(stack) \in Nat \ {0} /\ DOMAIN stack = 1..Len(stack)
         /\ stack[Len(stack)].name \in Names(Reached)
         /\ \A i \in 1..Len(stack) : /\ stack[i].name \in Names(Reached) /\ stack[i].leaving \in BOOLEAN
                                     /\ stack[i] = [name |-> stack[i].name, leaving |-> stack[i].leaving]
         /\ Front(stack) \in Seq([name : Names(Reached), leaving : BOOLEAN])
         /\ Len(Front(stack)) = Len(stack) - 1 /\ DOMAIN Front(stack) = 1..(Len(stack) - 1)
         /\ \A i \in 1..(Len(stack) - 1) : Front(stack)[i] = stack[i]
<1>1. /\ bundle \in Bundles /\ Distinct /\ resolution = None
      /\ WholeGraph /\ FinishedInv /\ SearchInv
  BY DEF FreezeInv, Underway
<1>2. stack \in Seq([name : Names(Reached), leaving : BOOLEAN])
  BY <1>1 DEF SearchInv
<1>3. /\ Len(stack) \in Nat \ {0} /\ DOMAIN stack = 1..Len(stack)
      /\ Front(stack) \in Seq([name : Names(Reached), leaving : BOOLEAN])
      /\ Len(Front(stack)) = Len(stack) - 1
      /\ \A i \in 1..(Len(stack) - 1) : Front(stack)[i] = stack[i]
  BY <1>2, Popped
<1>4. \A i \in 1..Len(stack) : stack[i] \in [name : Names(Reached), leaving : BOOLEAN]
  BY <1>2, <1>3, ElementOfSeq
<1>5. DOMAIN Front(stack) = 1..(Len(stack) - 1)
  BY <1>3
<1> HIDE <1>2
<1> QED BY <1>1, <1>3, <1>4, <1>5

\* Leaving a name: its members are all finished, and do not lead back.
LEMMA LeaveKeeps ==
  ASSUME FreezeInv, Search, stack[Len(stack)].leaving
  PROVE  FreezeInv'
<1> DEFINE k == Len(stack)
           name == stack[k].name
<1>1. /\ phase = "search" /\ stack # <<>> /\ phase' = "search"
      /\ onPath' = onPath \ {name} /\ finished' = finished \cup {name}
      /\ stack' = Front(stack)
      /\ bundle' = bundle /\ edges' = edges /\ resolution' = resolution
  BY DEF Search
<1>2. /\ bundle \in Bundles /\ Distinct /\ resolution = None
      /\ WholeGraph /\ FinishedInv /\ SearchInv
      /\ k \in Nat \ {0} /\ DOMAIN stack = 1..k
      /\ name \in Names(Reached)
      /\ stack' \in Seq([name : Names(Reached), leaving : BOOLEAN])
      /\ DOMAIN stack' = 1..(k - 1)
      /\ \A i \in 1..(k - 1) : stack'[i] = stack[i]
  BY <1>1, SearchFacts
<1>3. Distinct'
  BY <1>1, <1>2, SameBundle
<1>4. WholeGraph' /\ ClosedSets' = ClosedSets /\ Names(Reached)' = Names(Reached)
  BY <1>1, <1>2, SameGraph
<1>5. ASSUME NEW i \in 1..k, stack[i].leaving
      PROVE  /\ stack[i].name \notin finished
             /\ \A j \in 1..k : stack[j].leaving /\ stack[j].name = stack[i].name => j = i
             /\ \A m \in edges[stack[i].name] :
                  m \in finished \/ \E j \in 1..k : i < j /\ stack[j].name = m
             /\ \A j \in 1..k : i < j =>
                  \A N \in ClosedSets : edges[stack[i].name] \subseteq N => stack[j].name \in N
  BY <1>2, <1>5 DEF SearchInv, LeavingInv
<1>6. k \in 1..k /\ stack[k].leaving
  BY <1>2
<1>7. edges[name] \subseteq finished /\ name \notin finished
  <2>1. ~ \E j \in 1..k : k < j
    BY <1>2
  <2> QED BY <1>5, <1>6, <2>1
<1>8. finished \in ClosedSets /\ \A n \in finished : \E N \in ClosedSets : edges[n] \subseteq N /\ n \notin N
  BY <1>2 DEF FinishedInv
<1>9. finished' \in ClosedSets
  BY <1>1, <1>2, <1>7, <1>8 DEF ClosedSets, NamesClosed
<1>10. FinishedInv'
  BY <1>1, <1>4, <1>7, <1>8, <1>9 DEF FinishedInv
<1>16. k \in Nat \ {0}
  BY <1>2
<1>11. /\ \A i \in 1..(k - 1) : i \in 1..k /\ i # k
       /\ \A i \in 1..k : i # k => i \in 1..(k - 1)
  <2> HIDE DEF k
  <2> QED BY <1>16
<1>12. \A i \in 1..(k - 1) : stack[i].leaving => stack[i].name # name
  BY <1>5, <1>6, <1>11
<1>13. onPath' = {stack'[i].name : i \in {j \in DOMAIN stack' : stack'[j].leaving}}
  <2>1. onPath = {stack[i].name : i \in {j \in 1..k : stack[j].leaving}}
    BY <1>2 DEF SearchInv
  <2>2. {j \in DOMAIN stack' : stack'[j].leaving} = {j \in 1..k : stack[j].leaving} \ {k}
    <3> HIDE DEF k
    <3> QED BY <1>2, <1>11
  <2> HIDE DEF k
  <2>3. \A i \in {j \in DOMAIN stack' : stack'[j].leaving} : stack'[i].name = stack[i].name
    BY <1>2
  <2>4. {stack'[i].name : i \in {j \in DOMAIN stack' : stack'[j].leaving}}
          = {stack[i].name : i \in {j \in 1..k : stack[j].leaving} \ {k}}
    BY <2>2, <2>3
  <2>5. \A i \in {j \in 1..k : stack[j].leaving} \ {k} : stack[i].name # name
    BY <1>11, <1>12
  <2> QED BY <1>1, <1>6, <2>1, <2>4, <2>5
<1>14. ASSUME NEW i \in DOMAIN stack', stack'[i].leaving PROVE LeavingInv(i)'
  <2>1. i \in 1..(k - 1) /\ i \in 1..k /\ stack[i].leaving /\ stack'[i] = stack[i]
    BY <1>2, <1>11, <1>14
  <2>2. stack[i].name \notin finished'
    BY <1>1, <1>5, <1>12, <2>1
  <2>3. \A j \in 1..(k - 1) : stack[j].leaving /\ stack[j].name = stack[i].name => j = i
    BY <1>5, <1>11, <2>1
  <2>4. ASSUME NEW m \in edges[stack[i].name], m \notin finished'
        PROVE  \E j \in 1..(k - 1) : i < j /\ stack[j].name = m
    <3>1. PICK j \in 1..k : i < j /\ stack[j].name = m
      BY <1>1, <1>5, <2>1, <2>4
    <3>2. j # k
      BY <1>1, <2>4, <3>1
    <3>3. j \in 1..(k - 1)
      BY <1>11, <3>1, <3>2
    <3> QED BY <3>1, <3>3
  <2>5. \A j \in 1..(k - 1) : i < j =>
          \A N \in ClosedSets : edges[stack[i].name] \subseteq N => stack[j].name \in N
    BY <1>5, <1>11, <2>1
  <2> HIDE DEF k, name
  <2> QED BY <1>1, <1>2, <1>4, <2>1, <2>2, <2>3, <2>4, <2>5 DEF LeavingInv
<1>15. SearchInv'
  BY <1>2, <1>4, <1>13, <1>14 DEF SearchInv
<1> QED BY <1>1, <1>2, <1>3, <1>4, <1>10, <1>15 DEF FreezeInv, Underway

\* What the invariant says of a name to leave, unfolded.
LEMMA LeavingFacts ==
  ASSUME SearchInv, NEW k, DOMAIN stack = 1..k
  PROVE  /\ onPath = {stack[i].name : i \in {j \in 1..k : stack[j].leaving}}
         /\ \A i \in 1..k : stack[i].leaving =>
              /\ stack[i].name \notin finished
              /\ \A j \in 1..k : stack[j].leaving /\ stack[j].name = stack[i].name => j = i
              /\ \A m \in edges[stack[i].name] :
                   m \in finished \/ \E j \in 1..k : i < j /\ stack[j].name = m
              /\ \A j \in 1..k : i < j =>
                   \A N \in ClosedSets : edges[stack[i].name] \subseteq N => stack[j].name \in N
BY DEF SearchInv, LeavingInv

\* Passing over a name that is finished.
LEMMA PassKeeps ==
  ASSUME FreezeInv, Search, ~stack[Len(stack)].leaving, stack[Len(stack)].name \in finished
  PROVE  FreezeInv'
<1> DEFINE k == Len(stack)
           name == stack[k].name
<1>1. /\ phase = "search" /\ stack # <<>> /\ phase' = "search"
      /\ onPath' = onPath /\ finished' = finished
      /\ stack' = Front(stack)
      /\ bundle' = bundle /\ edges' = edges /\ resolution' = resolution
  BY DEF Search
<1>2. /\ bundle \in Bundles /\ Distinct /\ resolution = None
      /\ WholeGraph /\ FinishedInv /\ SearchInv
      /\ k \in Nat \ {0} /\ DOMAIN stack = 1..k
      /\ stack' \in Seq([name : Names(Reached), leaving : BOOLEAN])
      /\ DOMAIN stack' = 1..(k - 1)
      /\ \A i \in 1..(k - 1) : stack'[i] = stack[i]
  BY <1>1, SearchFacts
<1>3. Distinct'
  BY <1>1, <1>2, SameBundle
<1>4. WholeGraph' /\ ClosedSets' = ClosedSets /\ Names(Reached)' = Names(Reached)
  BY <1>1, <1>2, SameGraph
<1>5. /\ onPath = {stack[i].name : i \in {j \in 1..k : stack[j].leaving}}
      /\ \A i \in 1..k : stack[i].leaving =>
           /\ stack[i].name \notin finished
           /\ \A j \in 1..k : stack[j].leaving /\ stack[j].name = stack[i].name => j = i
           /\ \A m \in edges[stack[i].name] :
                m \in finished \/ \E j \in 1..k : i < j /\ stack[j].name = m
           /\ \A j \in 1..k : i < j =>
                \A N \in ClosedSets : edges[stack[i].name] \subseteq N => stack[j].name \in N
  BY <1>2, LeavingFacts
<1>6. k \in Nat \ {0}
  BY <1>2
<1>7. /\ \A i \in 1..(k - 1) : i \in 1..k /\ i # k
      /\ \A i \in 1..k : i # k => i \in 1..(k - 1)
  <2> HIDE DEF k
  <2> QED BY <1>6
<1>8. FinishedInv'
  BY <1>1, <1>2, <1>4 DEF FinishedInv
<1>9. ~stack[k].leaving /\ name \in finished
  OBVIOUS
<1> HIDE DEF k
<1>10. onPath' = {stack'[i].name : i \in {j \in DOMAIN stack' : stack'[j].leaving}}
  <2>1. {j \in DOMAIN stack' : stack'[j].leaving} = {j \in 1..k : stack[j].leaving}
    BY <1>2, <1>7, <1>9
  <2>2. \A i \in {j \in DOMAIN stack' : stack'[j].leaving} : stack'[i].name = stack[i].name
    BY <1>2
  <2> QED BY <1>1, <1>5, <2>1, <2>2
<1>11. ASSUME NEW i \in DOMAIN stack', stack'[i].leaving PROVE LeavingInv(i)'
  <2>1. i \in 1..(k - 1) /\ i \in 1..k /\ stack[i].leaving /\ stack'[i] = stack[i]
    BY <1>2, <1>7, <1>11
  <2>2. stack[i].name \notin finished'
    BY <1>1, <1>5, <2>1
  <2>3. \A j \in 1..(k - 1) : stack[j].leaving /\ stack[j].name = stack[i].name => j = i
    BY <1>5, <1>7, <2>1
  <2>4. ASSUME NEW m \in edges[stack[i].name], m \notin finished'
        PROVE  \E j \in 1..(k - 1) : i < j /\ stack[j].name = m
    <3>1. PICK j \in 1..k : i < j /\ stack[j].name = m
      BY <1>1, <1>5, <2>1, <2>4
    <3>2. j # k
      BY <1>1, <1>9, <2>4, <3>1
    <3> QED BY <1>7, <3>1, <3>2
  <2>5. \A j \in 1..(k - 1) : i < j =>
          \A N \in ClosedSets : edges[stack[i].name] \subseteq N => stack[j].name \in N
    BY <1>5, <1>7, <2>1
  <2> HIDE DEF name
  <2> QED BY <1>1, <1>2, <1>4, <2>1, <2>2, <2>3, <2>4, <2>5 DEF LeavingInv
<1>12. SearchInv'
  BY <1>2, <1>4, <1>10, <1>11 DEF SearchInv
<1> QED BY <1>1, <1>2, <1>3, <1>4, <1>8, <1>12 DEF FreezeInv, Underway

\* A name met again on the path it is on: a cycle.
LEMMA CycleKeeps ==
  ASSUME FreezeInv, Search, ~stack[Len(stack)].leaving,
         stack[Len(stack)].name \notin finished, stack[Len(stack)].name \in onPath
  PROVE  FreezeInv'
<1> DEFINE k == Len(stack)
           name == stack[k].name
<1>1. /\ phase = "search" /\ stack # <<>> /\ phase' = "refused" /\ resolution' = "member_cycle"
      /\ bundle' = bundle
  BY DEF Search, RefuseAs
<1>2. /\ bundle \in Bundles /\ WholeGraph /\ SearchInv
      /\ k \in Nat \ {0} /\ DOMAIN stack = 1..k /\ name \in Names(Reached)
  BY <1>1, SearchFacts
<1>3. /\ onPath = {stack[i].name : i \in {j \in 1..k : stack[j].leaving}}
      /\ \A i \in 1..k : stack[i].leaving =>
           \A j \in 1..k : i < j =>
             \A N \in ClosedSets : edges[stack[i].name] \subseteq N => stack[j].name \in N
  BY <1>2, LeavingFacts
<1>4. PICK i \in 1..k : stack[i].leaving /\ stack[i].name = name
  BY <1>3
<1>5. i < k /\ k \in 1..k
  <2>1. i # k
    BY <1>4
  <2>2. i \in 1..k /\ k \in Nat \ {0}
    BY <1>2
  <2> HIDE DEF k
  <2> QED BY <2>1, <2>2
<1>6. \A N \in ClosedSets : edges[name] \subseteq N => name \in N
  BY <1>3, <1>4, <1>5
<1>7. ~Acyclic(Reached)
  BY <1>2, <1>6, CycleFound
<1>8. Closed(Reached)
  BY <1>2 DEF WholeGraph
<1>9. ~Acyclic(Reached)' /\ Closed(Reached)'
  BY <1>1, <1>7, <1>8, SameBundle
<1> QED BY <1>1, <1>2, <1>9 DEF FreezeInv, Underway

\* Entering a name: it is on the path, its members above it.
LEMMA EnterKeeps ==
  ASSUME FreezeInv, Search, ~stack[Len(stack)].leaving,
         stack[Len(stack)].name \notin finished, stack[Len(stack)].name \notin onPath
  PROVE  FreezeInv'
<1> DEFINE k == Len(stack)
           name == stack[k].name
           names == SortedBy(edges[name], [m \in edges[name] |-> m])
           entered == [n \in DOMAIN names |-> [name |-> names[n], leaving |-> FALSE]]
           mark == [name |-> name, leaving |-> TRUE]
           Entries == [name : Names(Reached), leaving : BOOLEAN]
<1>1. /\ phase = "search" /\ stack # <<>> /\ phase' = "search"
      /\ onPath' = onPath \cup {name} /\ finished' = finished
      /\ stack' = Append(Front(stack), mark) \o entered
      /\ bundle' = bundle /\ edges' = edges /\ resolution' = resolution
  BY DEF Search
<1>2. /\ bundle \in Bundles /\ Distinct /\ resolution = None
      /\ WholeGraph /\ FinishedInv /\ SearchInv
      /\ k \in Nat \ {0} /\ DOMAIN stack = 1..k
      /\ name \in Names(Reached)
      /\ Front(stack) \in Seq(Entries) /\ Len(Front(stack)) = k - 1
      /\ \A i \in 1..(k - 1) : Front(stack)[i] = stack[i]
  BY <1>1, SearchFacts
<1>3. Distinct'
  BY <1>1, <1>2, SameBundle
<1>4. WholeGraph' /\ ClosedSets' = ClosedSets /\ Names(Reached)' = Names(Reached)
  BY <1>1, <1>2, SameGraph
<1>5. /\ onPath = {stack[i].name : i \in {j \in 1..k : stack[j].leaving}}
      /\ \A i \in 1..k : stack[i].leaving =>
           /\ stack[i].name \notin finished
           /\ \A j \in 1..k : stack[j].leaving /\ stack[j].name = stack[i].name => j = i
           /\ \A m \in edges[stack[i].name] :
                m \in finished \/ \E j \in 1..k : i < j /\ stack[j].name = m
           /\ \A j \in 1..k : i < j =>
                \A N \in ClosedSets : edges[stack[i].name] \subseteq N => stack[j].name \in N
  BY <1>2, LeavingFacts
<1>6. edges[name] \subseteq Names(Reached)
  BY <1>2, EdgesStay
<1>7. names \in Seq(edges[name]) /\ ToSet(names) = edges[name]
  <2>1. IsFiniteSet(Names(Reached)) /\ Names(Reached) \subseteq Nat
    <3>1. Reached \in SUBSET Objects
      BY <1>2, ReachedHolds
    <3> QED BY <3>1, NamesFinite
  <2>2. IsFiniteSet(edges[name])
    BY <1>6, <2>1, FS_Subset
  <2>3. \A m \in edges[name] : [l \in edges[name] |-> l][m] \in Nat
    BY <1>6, <2>1
  <2>4. \A l, m \in edges[name] : [j \in edges[name] |-> j][l] = [j \in edges[name] |-> j][m] => l = m
    OBVIOUS
  <2> HIDE DEF name
  <2> QED BY <2>2, <2>3, <2>4, SortedHolds
<1> HIDE DEF names
<1>8. /\ Len(names) \in Nat /\ DOMAIN names = 1..Len(names)
      /\ \A n \in 1..Len(names) : names[n] \in edges[name]
      /\ \A m \in edges[name] : \E n \in 1..Len(names) : names[n] = m
  <2>1. Len(names) \in Nat /\ DOMAIN names = 1..Len(names)
    BY <1>7, LenProperties
  <2>2. \A n \in 1..Len(names) : names[n] \in edges[name]
    BY <1>7, <2>1, ElementOfSeq
  <2>3. \A m \in edges[name] : \E n \in 1..Len(names) : names[n] = m
    BY <1>7, <2>1 DEF ToSet
  <2> QED BY <2>1, <2>2, <2>3
<1>9. k \in Nat \ {0}
  BY <1>2
<1>10. /\ ~stack[k].leaving /\ name \notin finished /\ name \notin onPath
  OBVIOUS
<1> HIDE DEF k
<1>11. /\ \A i \in 1..(k - 1) : i \in 1..k /\ i # k
       /\ \A i \in 1..k : i # k => i \in 1..(k - 1)
  BY <1>9
<1>12. mark \in Entries /\ entered \in Seq(Entries) /\ Len(entered) = Len(names)
  <2>1. mark \in Entries
    BY <1>2
  <2>2. entered \in [1..Len(names) -> Entries]
    BY <1>6, <1>8
  <2> HIDE DEF entered, Entries, mark
  <2>3. entered \in Seq(Entries)
    BY <1>8, <2>2
  <2>4. DOMAIN entered = 1..Len(names)
    BY <2>2
  <2>5. Len(entered) = Len(names)
    BY <1>8, <2>3, <2>4, LenProperties
  <2> QED BY <2>1, <2>3, <2>5
<1> DEFINE under == Append(Front(stack), mark)
<1>13. under \in Seq(Entries) /\ Len(under) = k /\ under[k] = mark
       /\ \A i \in 1..(k - 1) : under[i] = stack[i]
  <2> HIDE DEF Entries, mark
  <2>1. under \in Seq(Entries) /\ Len(under) = (k - 1) + 1 /\ under[(k - 1) + 1] = mark
        /\ \A i \in 1..(k - 1) : under[i] = Front(stack)[i]
    BY <1>2, <1>12, AppendProperties
  <2>2. (k - 1) + 1 = k
    BY <1>9
  <2> HIDE DEF under
  <2> QED BY <1>2, <2>1, <2>2
<1>14. /\ stack' \in Seq(Entries) /\ Len(stack') = k + Len(names)
       /\ \A i \in 1..k : stack'[i] = under[i]
       /\ \A n \in 1..Len(names) : stack'[k + n] = entered[n]
  <2> HIDE DEF Entries, mark, entered, under
  <2>1. stack' = under \o entered
    BY <1>1 DEF under
  <2>2. /\ under \o entered \in Seq(Entries) /\ Len(under \o entered) = Len(under) + Len(entered)
        /\ \A i \in 1..Len(under) : (under \o entered)[i] = under[i]
        /\ \A n \in 1..Len(entered) : (under \o entered)[Len(under) + n] = entered[n]
    <3>1. under \in Seq(Entries) /\ entered \in Seq(Entries)
      BY <1>12, <1>13
    <3>2. under \o entered \in Seq(Entries)
      BY <3>1
    <3>3. Len(under \o entered) = Len(under) + Len(entered)
      BY <3>1
    <3>4. \A i \in 1..Len(under) : (under \o entered)[i] = under[i]
      BY <3>1
    <3>5. \A n \in 1..Len(entered) : (under \o entered)[Len(under) + n] = entered[n]
      BY <3>1
    <3> QED BY <3>2, <3>3, <3>4, <3>5
  <2> QED BY <1>12, <1>13, <2>1, <2>2, Zenon
<1> DEFINE top == k + Len(names)
<1>15. /\ DOMAIN stack' = 1..top
       /\ \A i \in 1..(k - 1) : stack'[i] = stack[i]
       /\ stack'[k].name = name /\ stack'[k].leaving
       /\ \A i \in 1..k : stack'[i].name = stack[i].name
       /\ \A i \in 1..top : i \in 1..k \/ (k < i /\ ~stack'[i].leaving /\ stack'[i].name \in edges[name])
       /\ \A m \in edges[name] : \E j \in 1..top : k < j /\ stack'[j].name = m
  <2>1. \A i \in 1..top : i \in 1..k \/ (k < i /\ \E n \in 1..Len(names) : i = k + n)
    <3>1. SUFFICES ASSUME NEW i \in 1..top, i \notin 1..k
                   PROVE  k < i /\ \E n \in 1..Len(names) : i = k + n
      OBVIOUS
    <3>2. Len(names) \in Nat /\ i \in Int /\ 1 <= i /\ i <= k + Len(names) /\ k < i
      BY <1>8, <1>9, <3>1
    <3>3. i - k \in 1..Len(names) /\ i = k + (i - k)
      BY <1>9, <3>2
    <3> QED BY <3>2, <3>3
  <2>2. \A n \in 1..Len(names) : k + n \in 1..top /\ k < k + n
    BY <1>8, <1>9
  <2>3. \A n \in 1..Len(names) : entered[n].name = names[n] /\ ~entered[n].leaving
    BY <1>8
  <2>4. k \in 1..k /\ mark.name = name /\ mark.leaving
    BY <1>9
  <2>5. DOMAIN stack' = 1..top
    <3> HIDE DEF Entries
    <3> QED BY <1>14, LenProperties
  <2> HIDE DEF top, entered, mark, under, Entries
  <2>6. /\ \A i \in 1..(k - 1) : stack'[i] = stack[i]
        /\ stack'[k] = mark
    BY <1>11, <1>13, <1>14, <2>4
  <2>7. \A i \in 1..k : stack'[i].name = stack[i].name
    BY <1>11, <2>4, <2>6
  <2>8. \A n \in 1..Len(names) : ~stack'[k + n].leaving /\ stack'[k + n].name = names[n]
    BY <1>14, <2>3
  <2>9. \A i \in 1..top : i \in 1..k \/ (k < i /\ ~stack'[i].leaving /\ stack'[i].name \in edges[name])
    BY <1>8, <2>1, <2>8
  <2>10. \A m \in edges[name] : \E j \in 1..top : k < j /\ stack'[j].name = m
    BY <1>8, <2>2, <2>8
  <2> QED BY <2>4, <2>5, <2>6, <2>7, <2>9, <2>10
<1> HIDE DEF top, entered, mark, under
<1>16. FinishedInv'
  BY <1>1, <1>2, <1>4 DEF FinishedInv
<1>17. \A i \in 1..k : stack[i].leaving => i \in 1..(k - 1) /\ stack[i].name # name
  BY <1>5, <1>10, <1>11
<1>18. \A i \in 1..k : i \in 1..top
  <2>1. top \in Nat /\ k <= top
    BY <1>8, <1>9 DEF top
  <2> QED BY <1>9, <2>1
<1>19. \A i \in DOMAIN stack' : stack'[i].leaving <=>
         i \in 1..k /\ (i = k \/ stack[i].leaving)
  BY <1>11, <1>15, <1>18
<1>20. onPath' = {stack'[i].name : i \in {j \in DOMAIN stack' : stack'[j].leaving}}
  <2>1. k \in 1..k /\ k \in 1..top
    BY <1>9, <1>18
  <2>2. \A n \in onPath' : \E i \in DOMAIN stack' : stack'[i].leaving /\ stack'[i].name = n
    <3>1. SUFFICES ASSUME NEW n \in onPath' PROVE \E i \in DOMAIN stack' : stack'[i].leaving /\ stack'[i].name = n
      OBVIOUS
    <3>2. CASE n = name
      BY <1>15, <2>1, <3>2
    <3>3. CASE n \in onPath
      <4>1. PICK i \in 1..k : stack[i].leaving /\ stack[i].name = n
        BY <1>5, <3>3
      <4> QED BY <1>15, <1>18, <1>19, <4>1
    <3> QED BY <1>1, <3>2, <3>3
  <2>3. \A i \in DOMAIN stack' : stack'[i].leaving => stack'[i].name \in onPath'
    <3>1. SUFFICES ASSUME NEW i \in DOMAIN stack', stack'[i].leaving PROVE stack'[i].name \in onPath'
      OBVIOUS
    <3>2. i \in 1..k /\ (i = k \/ stack[i].leaving)
      BY <1>19, <3>1
    <3>3. stack'[i].name = stack[i].name
      BY <1>15, <3>2
    <3> QED BY <1>1, <1>5, <3>2, <3>3
  <2> QED BY <2>2, <2>3
<1>21. ASSUME NEW i \in DOMAIN stack', stack'[i].leaving PROVE LeavingInv(i)'
  <2>1. i \in 1..k /\ (i = k \/ stack[i].leaving) /\ stack'[i].name = stack[i].name
    BY <1>15, <1>19, <1>21
  <2>2. stack'[i].name \notin finished'
    BY <1>1, <1>5, <1>10, <2>1
  <2>3. ASSUME NEW j \in 1..top, stack'[j].leaving, stack'[j].name = stack'[i].name PROVE j = i
    <3>1. j \in 1..k /\ (j = k \/ stack[j].leaving) /\ stack'[j].name = stack[j].name
      BY <1>15, <1>19, <2>3
    <3> QED BY <1>5, <1>17, <2>1, <2>3, <3>1
  <2>4. ASSUME NEW m \in edges[stack'[i].name], m \notin finished'
        PROVE  \E j \in 1..top : i < j /\ stack'[j].name = m
    <3>1. CASE i = k
      BY <1>15, <2>4, <3>1
    <3>2. CASE stack[i].leaving
      <4>1. PICK j \in 1..k : i < j /\ stack[j].name = m
        BY <1>1, <1>5, <2>1, <2>4, <3>2
      <4> QED BY <1>15, <1>18, <4>1
    <3> QED BY <2>1, <3>1, <3>2
  <2>5. ASSUME NEW j \in 1..top, i < j, NEW N \in ClosedSets, edges[stack'[i].name] \subseteq N
        PROVE  stack'[j].name \in N
    <3>1. CASE i = k
      <4>1. j \notin 1..k
        BY <1>9, <2>5, <3>1
      <4> QED BY <1>15, <2>1, <2>5, <3>1, <4>1
    <3>2. CASE stack[i].leaving /\ j \in 1..k
      BY <1>5, <1>15, <2>1, <2>5, <3>2
    <3>3. CASE stack[i].leaving /\ j \notin 1..k
      <4>1. i < k
        BY <1>9, <1>17, <2>1, <3>3
      <4>2. k \in 1..k
        BY <1>9
      <4>3. name \in N
        BY <1>5, <2>1, <2>5, <3>3, <4>1, <4>2
      <4>4. edges[name] \subseteq N
        BY <4>3 DEF ClosedSets, NamesClosed
      <4> QED BY <1>15, <3>3, <4>4
    <3> QED BY <2>1, <3>1, <3>2, <3>3
  <2> HIDE DEF name
  <2>6. DOMAIN stack' = 1..top
    BY <1>15
  <2> QED BY <1>1, <1>4, <2>2, <2>3, <2>4, <2>5, <2>6 DEF LeavingInv
<1>22. SearchInv'
  BY <1>4, <1>14, <1>20, <1>21 DEF SearchInv
<1> QED BY <1>1, <1>2, <1>3, <1>4, <1>16, <1>22 DEF FreezeInv, Underway

LEMMA SearchKeeps == FreezeInv /\ Search => FreezeInv'
<1> SUFFICES ASSUME FreezeInv, Search PROVE FreezeInv'
  OBVIOUS
<1> DEFINE top == stack[Len(stack)]
<1>1. CASE top.leaving
  BY <1>1, LeaveKeeps
<1>2. CASE ~top.leaving /\ top.name \in finished
  BY <1>2, PassKeeps
<1>3. CASE ~top.leaving /\ top.name \notin finished /\ top.name \in onPath
  BY <1>3, CycleKeeps
<1>4. CASE ~top.leaving /\ top.name \notin finished /\ top.name \notin onPath
  BY <1>4, EnterKeeps
<1> QED BY <1>1, <1>2, <1>3, <1>4

\* What follows leaves the bundle as it was frozen.
LEMMA LaterKeeps ==
  ASSUME FreezeInv, Bind \/ Close \/ Build \/ UNCHANGED registryVars
  PROVE  FreezeInv'
<1>1. CASE Bind \/ Close \/ Build
  <2>1. /\ phase \in {"frozen", "bound", "closed"} /\ bundle' = bundle
        /\ \/ phase' \in {"bound", "closed", "built"} /\ resolution' = resolution
           \/ /\ phase' = "refused"
              /\ resolution' \in {"unknown_strategy", "definition_digest_mismatch", "dependencies"}
    BY <1>1 DEF Bind, Close, Build, RefuseAs
  <2>2. /\ bundle \in Bundles /\ Distinct /\ resolution = None
        /\ Closed(Reached) /\ Acyclic(Reached)
    BY <2>1 DEF FreezeInv, Underway
  <2>3. Distinct' /\ Closed(Reached)' /\ Acyclic(Reached)'
    BY <2>1, <2>2, SameBundle
  <2> QED BY <2>1, <2>2, <2>3 DEF FreezeInv, Underway
<1>2. CASE UNCHANGED registryVars
  <2>1. /\ bundle' = bundle /\ phase' = phase /\ stack' = stack /\ seen' = seen /\ edges' = edges
        /\ onPath' = onPath /\ finished' = finished /\ resolution' = resolution
    BY <1>2 DEF registryVars
  <2>2. /\ Top' = Top /\ Reached' = Reached
        /\ \A o : Members(o)' = Members(o)
        /\ \A o : (Unbound(o)' <=> Unbound(o)) /\ (Mismatched(o)' <=> Mismatched(o))
        /\ Distinct' <=> Distinct
        /\ Closed(Reached)' <=> Closed(Reached)
        /\ Acyclic(Reached)' <=> Acyclic(Reached)
    BY <2>1, SameBundle
  <2>3. (WholeGraph' <=> WholeGraph) /\ ClosedSets' = ClosedSets /\ Names(Reached)' = Names(Reached)
    BY <2>1, SameGraph
  <2>4. WalkInv' <=> WalkInv
    BY <2>1, <2>2 DEF WalkInv, Names
  <2>5. FinishedInv' <=> FinishedInv
    BY <2>1, <2>3 DEF FinishedInv
  <2>6. SearchInv' <=> SearchInv
    BY <2>1, <2>3 DEF SearchInv, LeavingInv
  <2> QED BY <2>1, <2>2, <2>3, <2>4, <2>5, <2>6 DEF FreezeInv, Underway
<1> QED BY <1>1, <1>2

LEMMA RegistryNextKeeps == FreezeInv /\ [RegistryNext]_registryVars => FreezeInv'
<1> SUFFICES ASSUME FreezeInv, [RegistryNext]_registryVars PROVE FreezeInv'
  OBVIOUS
<1>1. CASE Freeze BY <1>1, FreezeKeeps
<1>2. CASE Walk BY <1>2, WalkKeeps
<1>3. CASE Root BY <1>3, RootKeeps
<1>4. CASE Search BY <1>4, SearchKeeps
<1>5. CASE Bind \/ Close \/ Build \/ UNCHANGED registryVars BY <1>5, LaterKeeps
<1> QED BY <1>1, <1>2, <1>3, <1>4, <1>5 DEF RegistryNext, RegistryEnded

\* Whatever the definitions of a bundle and however they share members, a
\* bundle is frozen only when all that is reached is registered by digest and
\* no name is reached from its own members, and it is refused for a member
\* only when one of these fails (_definition_graph, _require_acyclic_and_closed).
THEOREM FrozenClosed == RegistrySpec => []FrozenIsClosed
<1>1. RegistrySpec => []FreezeInv
  BY RegistryInitInv, RegistryNextKeeps, PTL DEF RegistrySpec
<1> QED BY <1>1, FreezeInvImplies, PTL

-----------------------------------------------------------------------------
(* What a play declares and what its runtime reads. *)

\* The params nested in a node's blocks, each under any definition.
Nested == [node \in Nodes |-> Objects \X {block.params : block \in ToSet(node[2].blocks)}]
Depths == [node \in Nodes |-> DepthOf[node[2]]]

LEMMA ChildrenBelow ==
  /\ Depths \in [Nodes -> Nat] /\ Nested \in [Nodes -> SUBSET Nodes]
  /\ \A node \in Nodes : \A child \in Nested[node] : Depths[child] < Depths[node]
<1>1. /\ DepthOf \in [Settings -> Nat]
      /\ \A params \in Settings : \A block \in ToSet(params.blocks) :
           block.params \in Settings /\ DepthOf[block.params] < DepthOf[params]
  BY RegistryAssumption
<1>2. Depths \in [Nodes -> Nat]
  BY <1>1 DEF Depths, Nodes
<1>3. ASSUME NEW node \in Nodes, NEW child \in Nested[node]
      PROVE  child \in Nodes /\ Depths[child] < Depths[node]
  <2>1. node[2] \in Settings
    BY DEF Nodes
  <2>2. PICK block \in ToSet(node[2].blocks) : child[1] \in Objects /\ child[2] = block.params
                                               /\ child = <<child[1], child[2]>>
    BY DEF Nested
  <2>3. child[2] \in Settings /\ DepthOf[child[2]] < DepthOf[node[2]]
    BY <1>1, <2>1, <2>2
  <2>4. child \in Nodes
    BY <2>2, <2>3 DEF Nodes
  <2> QED BY <2>3, <2>4 DEF Depths
<1>4. Nested \in [Nodes -> SUBSET Nodes]
  BY <1>3 DEF Nested
<1> QED BY <1>2, <1>3, <1>4

\* A block's member is one of its composite's, and a child.
LEMMA MemberBelow ==
  ASSUME bundle \in Bundles, NEW node \in Nodes, NEW block \in ToSet(node[2].blocks),
         Bound(node[1], block.strategy) # {}
  PROVE  /\ MemberOf(node[1], block.strategy) \in Objects
         /\ <<MemberOf(node[1], block.strategy), block.params>> \in Nested[node]
<1>1. MemberOf(node[1], block.strategy) \in Bound(node[1], block.strategy)
  BY DEF MemberOf
<1>2. node[1] \in Objects
  BY DEF Nodes
<1>3. MemberOf(node[1], block.strategy) \in Objects
  BY <1>1, <1>2, BundleTyped DEF Bound
<1> QED BY <1>3 DEF Nested

LEMMA BlocksOf == \A params : MemberBlocks(params) \subseteq ToSet(params.blocks)
BY DEF MemberBlocks, ToSet

\* What a definition declares, given what its members do.
Declared(node, h) ==
  LET o == node[1]
      params == node[2]
      blocks == MemberBlocks(params)
  IN  IF o \notin Composites
      THEN IF TwoSpecs(o, params) THEN {None}
           ELSE {<<Own, BaseAxis>>} \cup SpecReads(EffectiveSpec(o, params))
      ELSE IF \E b \in blocks : Bound(o, b.strategy) = {} \/ ~OneGrammar(o, MemberOf(o, b.strategy))
      THEN {None}
      ELSE {<<Own, BaseAxis>>}
             \cup UNION {h[<<MemberOf(o, b.strategy), b.params>>] : b \in blocks}

\* What a runtime reads and speaks, given what its members do.
Ran(node, h) ==
  LET o == node[1]
      params == node[2]
      blocks == ToSet(params.blocks)
      Part(b) == h[<<MemberOf(o, b.strategy), b.params>>]
  IN  IF o \notin Composites
      THEN [reads |-> IF TwoSpecs(o, params) THEN {None}
                      ELSE {<<Own, BaseAxis>>} \cup SpecReads(EffectiveSpec(o, params)),
            grammars |-> {GrammarOf[o]}]
      ELSE IF \E b \in blocks : b.saved \/ Bound(o, b.strategy) = {}
      THEN [reads |-> {None}, grammars |-> {}]
      ELSE [reads |-> {<<Own, BaseAxis>>} \cup UNION {Part(b).reads : b \in blocks},
            grammars |-> UNION {Part(b).grammars : b \in blocks}]

\* All that could be read.
Readable == {None, <<Own, BaseAxis>>} \cup UNION {SpecReads(EffectiveSpec(n[1], n[2])) : n \in Nodes}

LEMMA DependenciesAt ==
  ASSUME bundle \in Bundles
  PROVE  \A node \in Nodes : Dependencies[node] = Declared(node, Dependencies)
<1> DEFINE V == SUBSET Readable
           F == [node \in Nodes |-> [h \in [Nested[node] -> V] |-> Declared(node, h)]]
<1>1. ASSUME NEW node \in Nodes, NEW h, NEW g,
             \A child \in Nested[node] : h[child] = g[child]
      PROVE  Declared(node, h) = Declared(node, g)
  <2> DEFINE o == node[1]
             blocks == MemberBlocks(node[2])
  <2>1. \A b \in blocks : Bound(o, b.strategy) # {} =>
          h[<<MemberOf(o, b.strategy), b.params>>] = g[<<MemberOf(o, b.strategy), b.params>>]
    BY <1>1, MemberBelow, BlocksOf
  <2> QED BY <2>1 DEF Declared
<1>2. ASSUME NEW node \in Nodes, NEW h \in [Nested[node] -> V] PROVE Declared(node, h) \in V
  <2> DEFINE o == node[1]
             blocks == MemberBlocks(node[2])
  <2>1. \A b \in blocks : Bound(o, b.strategy) # {} =>
          h[<<MemberOf(o, b.strategy), b.params>>] \subseteq Readable
    BY MemberBelow, BlocksOf
  <2>2. SpecReads(EffectiveSpec(node[1], node[2])) \subseteq Readable
    BY DEF Readable
  <2>3. {None} \subseteq Readable /\ {<<Own, BaseAxis>>} \subseteq Readable
    BY DEF Readable
  <2> QED BY <2>1, <2>2, <2>3 DEF Declared
<1>3. \A node \in Nodes : \A h \in [Nested[node] -> V] : F[node][h] \in V
  BY <1>2
<1> HIDE DEF V, F
<1>4. PICK f \in [Nodes -> V] :
        \A node \in Nodes : f[node] = F[node][[child \in Nested[node] |-> f[child]]]
  <2>1. Descends(Nodes, Depths, Nested, V, F)
    BY <1>3, ChildrenBelow DEF Descends
  <2>2. \E f : Follows(f, Nodes, Nested, V, F)
    BY <2>1, Recursion
  <2> QED BY <2>2 DEF Follows
<1>5. \A node \in Nodes : f[node] = Declared(node, f)
  <2>1. SUFFICES ASSUME NEW node \in Nodes PROVE f[node] = Declared(node, f)
    OBVIOUS
  <2> DEFINE h == [child \in Nested[node] |-> f[child]]
  <2>2. h \in [Nested[node] -> V]
    BY <1>4, ChildrenBelow
  <2>3. F[node][h] = Declared(node, h)
    BY <2>2 DEF F
  <2>4. Declared(node, h) = Declared(node, f)
    BY <1>1
  <2> QED BY <1>4, <2>3, <2>4
<1>6. f = [node \in Nodes |-> Declared(node, f)]
  BY <1>4, <1>5
<1>7. Dependencies = CHOOSE d : d = [node \in Nodes |-> Declared(node, d)]
  BY Zenon DEF Dependencies, Declared
<1>8. Dependencies = [node \in Nodes |-> Declared(node, Dependencies)]
  BY <1>6, <1>7, Zenon
<1> QED BY <1>8, Zenon

LEMMA RuntimeAt ==
  ASSUME bundle \in Bundles
  PROVE  \A node \in Nodes : Runtime[node] = Ran(node, Runtime)
<1> DEFINE G == {GrammarOf[o] : o \in Objects}
           V == [reads : SUBSET Readable, grammars : SUBSET G]
           F == [node \in Nodes |-> [h \in [Nested[node] -> V] |-> Ran(node, h)]]
<1>1. ASSUME NEW node \in Nodes, NEW h, NEW g,
             \A child \in Nested[node] : h[child] = g[child]
      PROVE  Ran(node, h) = Ran(node, g)
  <2> DEFINE o == node[1]
             blocks == ToSet(node[2].blocks)
  <2>1. \A b \in blocks : Bound(o, b.strategy) # {} =>
          h[<<MemberOf(o, b.strategy), b.params>>] = g[<<MemberOf(o, b.strategy), b.params>>]
    BY <1>1, MemberBelow
  <2> QED BY <2>1 DEF Ran
<1>2. ASSUME NEW node \in Nodes, NEW h \in [Nested[node] -> V] PROVE Ran(node, h) \in V
  <2> DEFINE o == node[1]
             blocks == ToSet(node[2].blocks)
             Part(b) == h[<<MemberOf(o, b.strategy), b.params>>]
  <2>1. \A b \in blocks : Bound(o, b.strategy) # {} =>
          Part(b).reads \subseteq Readable /\ Part(b).grammars \subseteq G
    BY MemberBelow
  <2>2. SpecReads(EffectiveSpec(node[1], node[2])) \subseteq Readable
    BY DEF Readable
  <2>3. {None} \subseteq Readable /\ {<<Own, BaseAxis>>} \subseteq Readable
    BY DEF Readable
  <2>4. {GrammarOf[o]} \subseteq G
    BY DEF Nodes
  <2>5. CASE o \notin Composites
    <3> DEFINE reads == IF TwoSpecs(o, node[2]) THEN {None}
                        ELSE {<<Own, BaseAxis>>} \cup SpecReads(EffectiveSpec(o, node[2]))
    <3>1. Ran(node, h) = [reads |-> reads, grammars |-> {GrammarOf[o]}]
      BY <2>5 DEF Ran
    <3>2. reads \in SUBSET Readable /\ {GrammarOf[o]} \in SUBSET G
      BY <2>2, <2>3, <2>4
    <3> HIDE DEF reads, G
    <3> QED BY <3>1, <3>2
  <2>6. CASE o \in Composites /\ \E b \in blocks : b.saved \/ Bound(o, b.strategy) = {}
    <3>1. Ran(node, h) = [reads |-> {None}, grammars |-> {}]
      BY <2>6 DEF Ran
    <3>2. {None} \in SUBSET Readable /\ {} \in SUBSET G
      BY <2>3
    <3> HIDE DEF G
    <3> QED BY <3>1, <3>2
  <2>7. CASE o \in Composites /\ ~ \E b \in blocks : b.saved \/ Bound(o, b.strategy) = {}
    <3> DEFINE reads == {<<Own, BaseAxis>>} \cup UNION {Part(b).reads : b \in blocks}
               grammars == UNION {Part(b).grammars : b \in blocks}
    <3>1. Ran(node, h) = [reads |-> reads, grammars |-> grammars]
      BY <2>7 DEF Ran
    <3>2. reads \in SUBSET Readable /\ grammars \in SUBSET G
      <4> HIDE DEF G, Part
      <4>1. \A b \in blocks : Part(b).reads \subseteq Readable /\ Part(b).grammars \subseteq G
        BY <2>1, <2>7
      <4> QED BY <2>3, <4>1
    <3> HIDE DEF reads, grammars, G
    <3> QED BY <3>1, <3>2
  <2> QED BY <2>5, <2>6, <2>7
<1>3. \A node \in Nodes : \A h \in [Nested[node] -> V] : F[node][h] \in V
  BY <1>2
<1> HIDE DEF V, F
<1>4. PICK f : Follows(f, Nodes, Nested, V, F)
  <2>1. Descends(Nodes, Depths, Nested, V, F)
    BY <1>3, ChildrenBelow DEF Descends
  <2> QED BY <2>1, Recursion
<1>5. \A node \in Nodes : f[node] = Ran(node, f)
  <2>1. SUFFICES ASSUME NEW node \in Nodes PROVE f[node] = Ran(node, f)
    OBVIOUS
  <2> DEFINE h == [child \in Nested[node] |-> f[child]]
  <2>2. f \in [Nodes -> V] /\ f[node] = F[node][h]
    BY <1>4 DEF Follows
  <2>3. h \in [Nested[node] -> V]
    BY <2>2, ChildrenBelow
  <2>4. F[node][h] = Ran(node, h)
    BY <2>3 DEF F
  <2>5. Ran(node, h) = Ran(node, f)
    BY <1>1
  <2> QED BY <2>2, <2>4, <2>5
<1>6. f = [node \in Nodes |-> Ran(node, f)]
  BY <1>4, <1>5 DEF Follows
<1>7. Runtime = CHOOSE r : r = [node \in Nodes |-> Ran(node, r)]
  BY Zenon DEF Runtime, Ran
<1>8. Runtime = [node \in Nodes |-> Ran(node, Runtime)]
  BY <1>6, <1>7, Zenon
<1> QED BY <1>8, Zenon

LEMMA UnresolvedAt ==
  \A params \in Settings :
    Unresolved[params] = \E block \in ToSet(params.blocks) : block.saved \/ Unresolved[block.params]
<1> DEFINE Open(params, h) == \E block \in ToSet(params.blocks) : block.saved \/ h[block.params]
           below == [params \in Settings |-> {block.params : block \in ToSet(params.blocks)}]
           F == [params \in Settings |-> [h \in [below[params] -> BOOLEAN] |-> Open(params, h)]]
<1>1. Descends(Settings, DepthOf, below, BOOLEAN, F)
  <2>1. /\ DepthOf \in [Settings -> Nat]
        /\ \A params \in Settings : \A block \in ToSet(params.blocks) :
             block.params \in Settings /\ DepthOf[block.params] < DepthOf[params]
    BY RegistryAssumption
  <2>2. below \in [Settings -> SUBSET Settings]
    BY <2>1
  <2>3. \A x \in Settings : \A y \in below[x] : DepthOf[y] < DepthOf[x]
    BY <2>1
  <2>4. \A x \in Settings : \A h \in [below[x] -> BOOLEAN] : F[x][h] \in BOOLEAN
    OBVIOUS
  <2> QED BY <2>1, <2>2, <2>3, <2>4 DEF Descends
<1>2. PICK f : Follows(f, Settings, below, BOOLEAN, F)
  <2> HIDE DEF below, F
  <2> QED BY <1>1, Recursion
<1>3. \A params \in Settings : f[params] = Open(params, f)
  <2>1. SUFFICES ASSUME NEW params \in Settings PROVE f[params] = Open(params, f)
    OBVIOUS
  <2> DEFINE h == [child \in below[params] |-> f[child]]
  <2>2. f \in [Settings -> BOOLEAN] /\ f[params] = F[params][h]
    BY <1>2 DEF Follows
  <2>3. below[params] \subseteq Settings
    BY <1>1 DEF Descends
  <2>4. h \in [below[params] -> BOOLEAN]
    <3> HIDE DEF below
    <3> QED BY <2>2, <2>3
  <2>5. F[params][h] = Open(params, h)
    BY <2>4
  <2>6. Open(params, h) = Open(params, f)
    BY Zenon
  <2> QED BY <2>2, <2>5, <2>6, Zenon
<1>4. f = [params \in Settings |-> Open(params, f)]
  <2>1. f \in [Settings -> BOOLEAN]
    BY <1>2 DEF Follows
  <2> HIDE DEF Open
  <2> QED BY <1>3, <2>1
<1>5. Unresolved = CHOOSE u : u = [params \in Settings |-> Open(params, u)]
  BY Zenon DEF Unresolved
<1>6. Unresolved = [params \in Settings |-> Open(params, Unresolved)]
  <2> HIDE DEF Open
  <2> QED BY <1>4, <1>5, Zenon
<1> QED BY <1>6, Zenon

\* A runtime reads what its play declared, in its definition's grammar; and
\* is missing a part only where a saved configuration was not inlined.
Covered(node) ==
  None \notin Dependencies[node] =>
    IF None \in Runtime[node].reads THEN Unresolved[node[2]]
    ELSE Runtime[node].reads \subseteq Dependencies[node] /\ Runtime[node].grammars \subseteq {GrammarOf[node[1]]}

\* If its members' are covered, a definition's is.
LEMMA CoveredStep ==
  ASSUME bundle \in Bundles, NEW node \in Nodes, \A child \in Nested[node] : Covered(child)
  PROVE  Covered(node)
<1> DEFINE o == node[1]
           params == node[2]
           blocks == ToSet(params.blocks)
           Child(b) == <<MemberOf(o, b.strategy), b.params>>
<1> SUFFICES ASSUME None \notin Dependencies[node]
             PROVE  IF None \in Runtime[node].reads THEN Unresolved[params]
                    ELSE /\ Runtime[node].reads \subseteq Dependencies[node]
                         /\ Runtime[node].grammars \subseteq {GrammarOf[o]}
  BY DEF Covered
<1>1. Dependencies[node] = Declared(node, Dependencies) /\ Runtime[node] = Ran(node, Runtime)
  BY DependenciesAt, RuntimeAt
<1>2. Unresolved[params] = \E block \in blocks : block.saved \/ Unresolved[block.params]
  BY UnresolvedAt DEF Nodes
<1>3. CASE o \notin Composites
  BY <1>1, <1>3 DEF Declared, Ran
<1>4. CASE o \in Composites /\ \E b \in blocks : b.saved
  <2>1. Unresolved[params]
    BY <1>2, <1>4
  <2>2. Runtime[node].reads = {None}
    BY <1>1, <1>4 DEF Ran
  <2> QED BY <2>1, <2>2
<1>5. CASE o \in Composites /\ \A b \in blocks : ~b.saved
  <2>1. MemberBlocks(params) = blocks
    BY <1>5 DEF MemberBlocks, ToSet
  <2>2. \A b \in blocks : Bound(o, b.strategy) # {} /\ OneGrammar(o, MemberOf(o, b.strategy))
    BY <1>1, <1>5, <2>1 DEF Declared
  <2>3. Dependencies[node] = {<<Own, BaseAxis>>} \cup UNION {Dependencies[Child(b)] : b \in blocks}
    BY <1>1, <1>5, <2>1, <2>2 DEF Declared
  <2>4. /\ Runtime[node].reads = {<<Own, BaseAxis>>} \cup UNION {Runtime[Child(b)].reads : b \in blocks}
        /\ Runtime[node].grammars = UNION {Runtime[Child(b)].grammars : b \in blocks}
    <3>1. Ran(node, Runtime) =
            [reads |-> {<<Own, BaseAxis>>} \cup UNION {Runtime[Child(b)].reads : b \in blocks},
             grammars |-> UNION {Runtime[Child(b)].grammars : b \in blocks}]
      BY <1>5, <2>2 DEF Ran
    <3> QED BY <1>1, <3>1
  <2>5. ASSUME NEW b \in blocks
        PROVE  IF None \in Runtime[Child(b)].reads THEN Unresolved[b.params]
               ELSE /\ Runtime[Child(b)].reads \subseteq Dependencies[node]
                    /\ Runtime[Child(b)].grammars \subseteq {GrammarOf[o]}
    <3>1. Child(b) \in Nested[node]
      BY <2>2, MemberBelow
    <3>2. Dependencies[Child(b)] \subseteq Dependencies[node] /\ None \notin Dependencies[Child(b)]
      BY <2>3
    <3>3. Covered(Child(b))
      BY <3>1
    <3>4. GrammarOf[MemberOf(o, b.strategy)] = GrammarOf[o]
      BY <2>2 DEF OneGrammar
    <3> QED BY <3>2, <3>3, <3>4 DEF Covered
  <2>6. CASE None \in Runtime[node].reads
    <3>1. None # <<Own, BaseAxis>>
      BY <2>3
    <3>2. PICK b \in blocks : None \in Runtime[Child(b)].reads
      <4>1. None \in UNION {Runtime[Child(b)].reads : b \in blocks}
        <5> HIDE DEF Child, blocks
        <5> QED BY <2>4, <2>6, <3>1, Zenon
      <4>2. PICK r \in {Runtime[Child(b)].reads : b \in blocks} : None \in r
        BY <4>1, Zenon
      <4> QED BY <4>2, Zenon
    <3>3. Unresolved[b.params]
      BY <2>5, <3>2
    <3> QED BY <1>2, <2>6, <3>3
  <2>7. CASE None \notin Runtime[node].reads
    <3> HIDE DEF Child, blocks
    <3>1. \A b \in blocks : None \notin Runtime[Child(b)].reads
      BY <2>4, <2>7
    <3>2. \A b \in blocks : /\ Runtime[Child(b)].reads \subseteq Dependencies[node]
                            /\ Runtime[Child(b)].grammars \subseteq {GrammarOf[o]}
      BY <2>5, <3>1
    <3>3. <<Own, BaseAxis>> \in Dependencies[node]
      BY <2>3
    <3>4. UNION {Runtime[Child(b)].reads : b \in blocks} \subseteq Dependencies[node]
      BY <3>2, Zenon
    <3>5. UNION {Runtime[Child(b)].grammars : b \in blocks} \subseteq {GrammarOf[o]}
      BY <3>2, Zenon
    <3>6. Runtime[node].reads \subseteq Dependencies[node]
      <4>1. {<<Own, BaseAxis>>} \subseteq Dependencies[node]
        BY <3>3
      <4> QED BY <2>4, <3>4, <4>1, Zenon
    <3>7. Runtime[node].grammars \subseteq {GrammarOf[o]}
      BY <2>4, <3>5, Zenon
    <3> QED BY <2>7, <3>6, <3>7, Zenon
  <2> QED BY <2>6, <2>7
<1> QED BY <1>3, <1>4, <1>5

LEMMA AllCovered ==
  ASSUME bundle \in Bundles
  PROVE  \A node \in Nodes : Covered(node)
<1> DEFINE bad == {node \in Nodes : ~Covered(node)}
           depths == {Depths[node] : node \in bad}
<1>1. SUFFICES ASSUME NEW z \in bad PROVE FALSE
  OBVIOUS
<1>2. depths \subseteq Nat /\ Depths[z] \in depths
  BY ChildrenBelow
<1>3. PICK d \in depths : \A e \in depths : d <= e
  BY <1>2, LeastNat
<1>4. PICK node \in bad : Depths[node] = d
  BY <1>3
<1>5. node \in Nodes /\ ~Covered(node)
  BY <1>4
<1>6. ASSUME NEW child \in Nested[node] PROVE Covered(child)
  <2>1. child \in Nodes /\ Depths[child] < Depths[node] /\ Depths[child] \in Nat /\ Depths[node] \in Nat
    BY <1>5, ChildrenBelow
  <2>2. child \in bad => Depths[child] \in depths
    OBVIOUS
  <2>3. child \notin bad
    <3> HIDE DEF bad, depths
    <3> QED BY <1>3, <1>4, <2>1, <2>2
  <2> QED BY <2>1, <2>3
<1> QED BY <1>5, <1>6, CoveredStep

\* What is bound, and what is closed, of the plays.
BuildInv ==
  /\ phase \in {"bound", "closed", "built"} =>
       plays \in Requests /\ \A i \in DOMAIN plays : plays[i].strategy \in Names(Top)
  /\ phase = "closed" =>
       None \notin closure /\ \A i \in DOMAIN plays : Dependencies[NodeOf(plays[i])] \subseteq closure
  /\ RuntimeStaysInClosure

\* A bound play is a node.
LEMMA PlayTyped ==
  ASSUME bundle \in Bundles, plays \in Requests, NEW i \in DOMAIN plays,
         plays[i].strategy \in Names(Top)
  PROVE  NodeOf(plays[i]) \in Nodes
<1>1. plays[i].params \in Settings
  <2>1. plays[i] \in ToSet(plays)
    BY DEF ToSet
  <2> QED BY <2>1, RegistryAssumption
<1>2. Registered(plays[i].strategy) \in Top
  BY DEF Registered, Names
<1>3. Registered(plays[i].strategy) \in Objects
  BY <1>2, BundleTyped
<1> QED BY <1>1, <1>3 DEF NodeOf, Nodes

LEMMA BuildKeeps == FreezeInv /\ BuildInv /\ Build => BuildInv'
<1> SUFFICES ASSUME FreezeInv, BuildInv, Build PROVE BuildInv'
  OBVIOUS
<1>1. /\ phase = "closed" /\ phase' = "built"
      /\ bundle' = bundle /\ plays' = plays /\ closure' = closure
      /\ built' = [i \in DOMAIN plays |-> Runtime[NodeOf(plays[i])]]
  BY DEF Build
<1>2. /\ bundle \in Bundles /\ plays \in Requests /\ None \notin closure
      /\ \A i \in DOMAIN plays : /\ plays[i].strategy \in Names(Top)
                                 /\ Dependencies[NodeOf(plays[i])] \subseteq closure
  BY <1>1 DEF BuildInv, FreezeInv
<1>3. Top' = Top /\ \A n : Registered(n)' = Registered(n)
  BY <1>1 DEF Top, Registered
<1>4. ASSUME NEW i \in DOMAIN plays
      PROVE  LET o == Registered(plays[i].strategy)
                 params == plays[i].params
             IN /\ IF None \in built'[i].reads THEN Unresolved[params]
                   ELSE built'[i].reads \subseteq closure /\ built'[i].grammars \subseteq {GrammarOf[o]}
                /\ Graded(o) => <<Own, Axis(o, params)>> \in closure
  <2> DEFINE node == NodeOf(plays[i])
             o == Registered(plays[i].strategy)
             params == plays[i].params
  <2>1. node \in Nodes /\ node[1] = o /\ node[2] = params
    BY <1>2, PlayTyped DEF NodeOf
  <2>2. built'[i] = Runtime[node]
    BY <1>1
  <2>3. Dependencies[node] \subseteq closure /\ None \notin Dependencies[node]
    BY <1>2
  <2>4. IF None \in Runtime[node].reads THEN Unresolved[params]
        ELSE /\ Runtime[node].reads \subseteq Dependencies[node]
             /\ Runtime[node].grammars \subseteq {GrammarOf[o]}
    <3>1. Covered(node)
      BY <1>2, <2>1, AllCovered
    <3> HIDE DEF node
    <3> QED BY <2>1, <2>3, <3>1 DEF Covered
  <2>5. ASSUME Graded(o) PROVE <<Own, Axis(o, params)>> \in closure
    <3>1. Dependencies[node] = Declared(node, Dependencies)
      BY <1>2, <2>1, DependenciesAt
    <3> HIDE DEF node, o, params
    <3>2. Dependencies[node] = {<<Own, BaseAxis>>} \cup SpecReads(EffectiveSpec(o, params))
      BY <2>1, <2>3, <2>5, <3>1 DEF Declared, Graded
    <3>3. <<Own, Axis(o, params)>> \in Dependencies[node]
      BY <3>2 DEF SpecReads, Axis
    <3> QED BY <2>3, <3>3
  <2> HIDE DEF node, o, params
  <2>6. /\ IF None \in built'[i].reads THEN Unresolved[params]
           ELSE built'[i].reads \subseteq closure /\ built'[i].grammars \subseteq {GrammarOf[o]}
        /\ Graded(o) => <<Own, Axis(o, params)>> \in closure
    BY <2>2, <2>3, <2>4, <2>5
  <2> QED BY <2>6 DEF o, params
<1>5. RuntimeStaysInClosure'
  BY <1>1, <1>3, <1>4 DEF RuntimeStaysInClosure
<1> QED BY <1>1, <1>2, <1>3, <1>5 DEF BuildInv

LEMMA SameDependencies == bundle' = bundle => Dependencies' = Dependencies
BY DEF Dependencies, MemberOf, Bound, OneGrammar, Members

LEMMA CloseKeeps == FreezeInv /\ BuildInv /\ Close => BuildInv'
<1> SUFFICES ASSUME FreezeInv, BuildInv, Close PROVE BuildInv'
  OBVIOUS
<1> DEFINE all == {<<Own, BaseAxis>>} \cup UNION {Dependencies[NodeOf(plays[i])] : i \in DOMAIN plays}
<1>1. /\ phase = "bound" /\ bundle' = bundle /\ plays' = plays
      /\ \/ phase' = "refused"
         \/ phase' = "closed" /\ closure' = all /\ None \notin all
  BY DEF Close, RefuseAs
<1>2. /\ plays \in Requests /\ \A i \in DOMAIN plays : plays[i].strategy \in Names(Top)
  BY <1>1 DEF BuildInv
<1>3. CASE phase' = "refused"
  BY <1>3 DEF BuildInv, RuntimeStaysInClosure
<1>4. CASE phase' = "closed" /\ closure' = all /\ None \notin all
  <2>1. Dependencies' = Dependencies
    BY <1>1, SameDependencies
  <2>2. Top' = Top /\ \A n : NodeOf(n)' = NodeOf(n)
    BY <1>1 DEF Top, Registered, NodeOf
  <2>3. \A i \in DOMAIN plays : Dependencies[NodeOf(plays[i])] \subseteq all
    OBVIOUS
  <2> HIDE DEF all
  <2>4. None \notin closure' /\ \A i \in DOMAIN plays' : Dependencies'[NodeOf(plays[i])'] \subseteq closure'
    BY <1>1, <1>4, <2>1, <2>2, <2>3
  <2> QED BY <1>1, <1>2, <1>4, <2>1, <2>2, <2>4 DEF BuildInv, RuntimeStaysInClosure
<1> QED BY <1>1, <1>3, <1>4

LEMMA BuildInvKeeps == FreezeInv /\ BuildInv /\ [RegistryNext]_registryVars => BuildInv'
<1> SUFFICES ASSUME FreezeInv, BuildInv, [RegistryNext]_registryVars PROVE BuildInv'
  OBVIOUS
<1>1. CASE Build BY <1>1, BuildKeeps
<1>2. CASE Close BY <1>2, CloseKeeps
<1>3. CASE Freeze \/ Walk \/ Root \/ Search
  <2>1. phase' \in {"refused", "walk", "search", "frozen"}
    BY <1>3 DEF Freeze, Walk, Root, Search, RefuseAs
  <2> QED BY <2>1 DEF BuildInv, RuntimeStaysInClosure
<1>4. CASE Bind
  <2>1. bundle' = bundle /\ \/ phase' = "refused"
                            \/ /\ phase' = "bound" /\ plays' \in Requests
                               /\ \A i \in DOMAIN plays' : plays'[i].strategy \in Names(Top)
    BY <1>4 DEF Bind
  <2>2. Names(Top)' = Names(Top)
    BY <2>1 DEF Names, Top
  <2> QED BY <2>1, <2>2 DEF BuildInv, RuntimeStaysInClosure
<1>5. CASE UNCHANGED registryVars
  <2>1. /\ bundle' = bundle /\ phase' = phase /\ plays' = plays /\ closure' = closure /\ built' = built
    BY <1>5 DEF registryVars
  <2>2. Dependencies' = Dependencies
    BY <2>1, SameDependencies
  <2>3. Names(Top)' = Names(Top) /\ \A n : Registered(n)' = Registered(n)
    BY <2>1 DEF Names, Top, Registered
  <2>4. \A n : NodeOf(n)' = NodeOf(n)
    BY <2>3 DEF NodeOf
  <2>5. RuntimeStaysInClosure' <=> RuntimeStaysInClosure
    BY <2>1, <2>3 DEF RuntimeStaysInClosure
  <2> QED BY <2>1, <2>2, <2>3, <2>4, <2>5 DEF BuildInv
<1> QED BY <1>1, <1>2, <1>3, <1>4, <1>5 DEF RegistryNext, RegistryEnded

LEMMA BuildInit == RegistryInit => BuildInv
BY DEF RegistryInit, BuildInv, RuntimeStaysInClosure

\* Whatever the definitions, the requests and the depth of their blocks, a
\* runtime built after the preflight lacks a member only for a configuration
\* that was not inlined, and otherwise reads what its play declared, in its
\* definition's grammar, and is graded on a declared frame (dependencies_for,
\* composite_definition, CompositeStrategy, _graded_axis).
THEOREM RuntimeClosed == RegistrySpec => []RuntimeStaysInClosure
<1>1. RegistrySpec => [](FreezeInv /\ BuildInv)
  <2>1. FreezeInv /\ BuildInv /\ [RegistryNext]_registryVars => (FreezeInv /\ BuildInv)'
    BY RegistryNextKeeps, BuildInvKeeps
  <2> QED BY <2>1, RegistryInitInv, BuildInit, PTL DEF RegistrySpec
<1>2. BuildInv => RuntimeStaysInClosure
  BY DEF BuildInv
<1> QED BY <1>1, <1>2, PTL

-----------------------------------------------------------------------------
(* Expressions, from below. *)

\* What is below an expression is an expression, of a lower height; what an
\* operand is made of are operands, and what is judged is made of both.
LEMMA BelowIsLower ==
  \A e \in Expressions : \A o \in Children(e) : o \in Expressions /\ HeightOf[o] < HeightOf[e]
<1> SUFFICES ASSUME NEW e \in Expressions, NEW o \in Children(e)
             PROVE  o \in Expressions /\ HeightOf[o] < HeightOf[e]
  OBVIOUS
<1>1. WellFormed(e) /\ HeightOf[o] < HeightOf[e]
  BY ScreenAssumption
<1>2. e \in Operands \cup Judged
  BY ScreenAssumption
<1>3. CASE e.kind = "math"
  BY <1>1, <1>3 DEF WellFormed, Children, Range, Operands
<1>4. CASE e.kind = "term"
  BY <1>1, <1>4 DEF WellFormed, Children, Operands
<1>5. CASE e.kind = "group"
  BY <1>1, <1>5 DEF WellFormed, Children, Range, Judged
<1>6. CASE e.kind = "condition"
  BY <1>1, <1>6 DEF WellFormed, Children, Operands
<1>7. CASE e.kind \in {"number", "fact"}
  BY <1>7 DEF Children
<1> QED BY <1>1, <1>2, <1>3, <1>4, <1>5, <1>6, <1>7 DEF Operands, Judged

\* What holds of an expression when it holds of all directly below it, holds.
LEMMA FromBelow ==
  ASSUME NEW Good, \A e \in Expressions : Children(e) \subseteq Good => e \in Good
  PROVE  Expressions \subseteq Good
<1> DEFINE bad == {n \in Nat : \E e \in Expressions \ Good : HeightOf[e] = n}
<1> SUFFICES ASSUME NEW x \in Expressions \ Good PROVE FALSE
  OBVIOUS
<1>1. \A e \in Expressions : HeightOf[e] \in Nat
  BY ScreenAssumption
<1>2. HeightOf[x] \in bad
  BY <1>1
<1>3. PICK n \in bad : \A k \in bad : n <= k
  BY <1>2, LeastNat
<1>4. PICK e \in Expressions \ Good : HeightOf[e] = n
  OBVIOUS
<1>5. \A o \in Children(e) : o \in Expressions /\ HeightOf[o] < n
  BY <1>4, BelowIsLower
<1>6. ASSUME NEW o \in Children(e) PROVE o \in Good
  <2>1. o \notin Good => HeightOf[o] \in bad
    BY <1>1, <1>5
  <2> QED BY <1>1, <1>3, <1>5, <2>1
<1> QED BY <1>4, <1>6

LEMMA PartsAt == \A e \in Expressions : Parts[e] = {e} \cup UNION {Parts[o] : o \in Children(e)}
<1> DEFINE Body(e, h) == {e} \cup UNION {h[o] : o \in Children(e)}
           V == SUBSET Expressions
           B == [e \in Expressions |-> [h \in [Expressions -> V] |-> Body(e, h)]]
           below == [e \in Expressions |-> Children(e)]
<1>1. \A e \in Expressions : \A h \in [Expressions -> V] : B[e][h] = Body(e, h) /\ Body(e, h) \in V
  BY BelowIsLower
<1>2. ASSUME NEW e \in Expressions, NEW h \in [Expressions -> V], NEW g \in [Expressions -> V],
             \A o \in below[e] : h[o] = g[o]
      PROVE  B[e][h] = B[e][g]
  <2>1. {h[o] : o \in Children(e)} = {g[o] : o \in Children(e)}
    BY <1>2
  <2> QED BY <1>1, <2>1
<1>3. /\ HeightOf \in [Expressions -> Nat] /\ below \in [Expressions -> SUBSET Expressions] /\ V # {}
      /\ \A e \in Expressions : \A o \in below[e] : HeightOf[o] < HeightOf[e]
  BY ScreenAssumption, BelowIsLower
<1>4. PICK f \in [Expressions -> V] : \A e \in Expressions : f[e] = B[e][f]
  <2> HIDE DEF V, B, below, Body
  <2>1. Looks(Expressions, HeightOf, below, V, B)
    BY <1>1, <1>2, <1>3 DEF Looks
  <2> QED BY <2>1, Solved
<1>5. f = [e \in Expressions |-> Body(e, f)]
  <2> HIDE DEF V, B, Body
  <2> QED BY <1>1, <1>4
<1>6. Parts = CHOOSE g : g = [e \in Expressions |-> Body(e, g)]
  BY Zenon DEF Parts
<1>7. Parts = [e \in Expressions |-> Body(e, Parts)]
  <2> HIDE DEF Body
  <2> QED BY <1>5, <1>6, Zenon
<1> QED BY <1>7, Zenon

\* So what is defined of nodes, an expression and what surrounds it, from the
\* values of nodes of lower expressions.
Climbs(S, V, B) ==
  /\ V # {} /\ \A x \in S : x[1] \in Expressions
  /\ \A x \in S : \A h \in [S -> V] : B[x][h] \in V
  /\ \A x \in S : \A h, g \in [S -> V] :
       (\A y \in S : HeightOf[y[1]] < HeightOf[x[1]] => h[y] = g[y]) => B[x][h] = B[x][g]

LEMMA SolvedFromBelow ==
  ASSUME NEW S, NEW V, NEW B, Climbs(S, V, B)
  PROVE  \E f \in [S -> V] : \A x \in S : f[x] = B[x][f]
<1> DEFINE rank == [x \in S |-> HeightOf[x[1]]]
           below == [x \in S |-> {y \in S : HeightOf[y[1]] < HeightOf[x[1]]}]
<1>1. rank \in [S -> Nat] /\ below \in [S -> SUBSET S]
  BY ScreenAssumption DEF Climbs
<1>2. \A x \in S : \A y \in below[x] : rank[y] < rank[x]
  OBVIOUS
<1>3. ASSUME NEW x \in S, NEW h \in [S -> V], NEW g \in [S -> V], \A y \in below[x] : h[y] = g[y]
      PROVE  B[x][h] = B[x][g]
  <2>1. \A y \in S : HeightOf[y[1]] < HeightOf[x[1]] => h[y] = g[y]
    BY <1>3
  <2> HIDE DEF below
  <2> QED BY <2>1 DEF Climbs
<1> HIDE DEF rank, below
<1>4. Looks(S, rank, below, V, B)
  BY <1>1, <1>2, <1>3 DEF Looks, Climbs
<1> QED BY <1>4, Solved

LEMMA ScopeTyped ==
  ASSUME NEW e \in Expressions, NEW tf \in Timeframes, NEW sym \in Nat \cup {None}
  PROVE  /\ Inherit(TfOf(e), tf) \in Timeframes
         /\ Inherit(SymOf(e), sym) \in Nat \cup {None}
         /\ sym \in Nat => Inherit(SymOf(e), sym) \in Nat
<1>1. WellFormed(e)
  BY ScreenAssumption
<1> QED BY <1>1 DEF WellFormed, Inherit, SymOf, TfOf

PairsWithin(e, inner) ==
  (IF inner[1] = None THEN {} ELSE {inner})
    \cup UNION {ReferencePairs[<<o, inner>>] : o \in Children(e)}

LEMMA ReferencePairsAt ==
  ASSUME NEW e \in Expressions, NEW sym \in Nat \cup {None}, NEW tf \in Timeframes
  PROVE  ReferencePairs[<<e, <<sym, tf>>>>]
           = PairsWithin(e, <<Inherit(SymOf(e), sym), Inherit(TfOf(e), tf)>>)
<1> DEFINE S == Expressions \X Scopes
           Within(x) == <<Inherit(SymOf(x[1]), x[2][1]), Inherit(TfOf(x[1]), x[2][2])>>
           Body(x, h) == (IF Within(x)[1] = None THEN {} ELSE {Within(x)})
                           \cup UNION {h[<<o, Within(x)>>] : o \in Children(x[1])}
           V == SUBSET Scopes
           B == [x \in S |-> [h \in [S -> V] |-> Body(x, h)]]
<1>1. \A x \in S : Within(x) \in Scopes
  BY ScopeTyped DEF Scopes
<1>2. \A x \in S : \A o \in Children(x[1]) : <<o, Within(x)>> \in S /\ HeightOf[o] < HeightOf[x[1]]
  BY <1>1, BelowIsLower
<1>3. \A x \in S : \A h \in [S -> V] : B[x][h] = Body(x, h) /\ Body(x, h) \in V
  <2>1. ASSUME NEW x \in S, NEW h \in [S -> V] PROVE Body(x, h) \in V
    <3> HIDE DEF Within
    <3> QED BY <1>1, <1>2
  <2>2. \A x \in S : \A h \in [S -> V] : B[x][h] = Body(x, h)
    <3> HIDE DEF Body, V, S
    <3> QED OBVIOUS
  <2> HIDE DEF Body, B, V, S
  <2> QED BY <2>1, <2>2
<1>4. ASSUME NEW x \in S, NEW h \in [S -> V], NEW g \in [S -> V],
             \A y \in S : HeightOf[y[1]] < HeightOf[x[1]] => h[y] = g[y]
      PROVE  B[x][h] = B[x][g]
  <2>1. \A o \in Children(x[1]) : h[<<o, Within(x)>>] = g[<<o, Within(x)>>]
    <3>1. ASSUME NEW o \in Children(x[1]) PROVE h[<<o, Within(x)>>] = g[<<o, Within(x)>>]
      <4> DEFINE y == <<o, Within(x)>>
      <4>1. y \in S /\ y[1] = o
        BY <1>2
      <4> HIDE DEF y, S
      <4>2. h[y] = g[y]
        BY <1>2, <1>4, <4>1
      <4> QED BY <4>2 DEF y
    <3> QED BY <3>1
  <2> HIDE DEF Within
  <2>2. {h[<<o, Within(x)>>] : o \in Children(x[1])} = {g[<<o, Within(x)>>] : o \in Children(x[1])}
    BY <2>1
  <2> HIDE DEF S, V, B
  <2> QED BY <1>3, <2>2
<1>5. PICK f \in [S -> V] : \A x \in S : f[x] = B[x][f]
  <2>1. V # {} /\ \A x \in S : x[1] \in Expressions
    OBVIOUS
  <2> HIDE DEF V, B, Body, S
  <2>2. Climbs(S, V, B)
    BY <1>3, <1>4, <2>1 DEF Climbs
  <2> QED BY <2>2, SolvedFromBelow
<1>6. f = [x \in S |-> Body(x, f)]
  <2> HIDE DEF V, B, Body, S
  <2> QED BY <1>3, <1>5
<1>7. ReferencePairs = CHOOSE g : g = [x \in S |-> Body(x, g)]
  BY Zenon DEF ReferencePairs, Scoped
<1>8. ReferencePairs = [x \in S |-> Body(x, ReferencePairs)]
  <2> HIDE DEF S, Body
  <2> QED BY <1>6, <1>7, Zenon
<1> DEFINE x == <<e, <<sym, tf>>>>
<1>9. x \in S /\ x[1] = e /\ Within(x) = <<Inherit(SymOf(e), sym), Inherit(TfOf(e), tf)>>
  BY DEF Scopes
<1>10. ReferencePairs[x] = Body(x, ReferencePairs)
  <2> HIDE DEF S, Body, x
  <2> QED BY <1>8, <1>9, Zenon
<1> HIDE DEF Within
<1>11. Body(x, ReferencePairs) = PairsWithin(e, Within(x))
  BY <1>9 DEF PairsWithin
<1> QED BY <1>9, <1>10, <1>11

LEMMA ReadsAt ==
  \A e \in Expressions, s \in Nat, tf \in Timeframes :
    LET native == <<Inherit(SymOf(e), s), Inherit(TfOf(e), tf)>>
    IN  Reads[<<e, <<s, tf>>>>] = {native} \cup UNION {Reads[<<o, native>>] : o \in Children(e)}
<1> DEFINE S == Expressions \X (Nat \X Timeframes)
           Within(x) == <<Inherit(SymOf(x[1]), x[2][1]), Inherit(TfOf(x[1]), x[2][2])>>
           Body(x, h) == {Within(x)} \cup UNION {h[<<o, Within(x)>>] : o \in Children(x[1])}
           V == SUBSET (Nat \X Timeframes)
           B == [x \in S |-> [h \in [S -> V] |-> Body(x, h)]]
<1>1. \A x \in S : Within(x) \in Nat \X Timeframes
  BY ScopeTyped
<1>2. \A x \in S : \A o \in Children(x[1]) : <<o, Within(x)>> \in S /\ HeightOf[o] < HeightOf[x[1]]
  BY <1>1, BelowIsLower
<1>3. \A x \in S : \A h \in [S -> V] : B[x][h] = Body(x, h) /\ Body(x, h) \in V
  <2>1. ASSUME NEW x \in S, NEW h \in [S -> V] PROVE Body(x, h) \in V
    <3> HIDE DEF Within
    <3>1. \A o \in Children(x[1]) : h[<<o, Within(x)>>] \subseteq Nat \X Timeframes
      BY <1>2
    <3>2. UNION {h[<<o, Within(x)>>] : o \in Children(x[1])} \subseteq Nat \X Timeframes
      BY <3>1
    <3>3. {Within(x)} \subseteq Nat \X Timeframes
      BY <1>1
    <3> QED BY <3>2, <3>3
  <2>2. \A x \in S : \A h \in [S -> V] : B[x][h] = Body(x, h)
    <3> HIDE DEF Body, V, S
    <3> QED OBVIOUS
  <2> HIDE DEF Body, B, V, S
  <2> QED BY <2>1, <2>2
<1>4. ASSUME NEW x \in S, NEW h \in [S -> V], NEW g \in [S -> V],
             \A y \in S : HeightOf[y[1]] < HeightOf[x[1]] => h[y] = g[y]
      PROVE  B[x][h] = B[x][g]
  <2>1. \A o \in Children(x[1]) : h[<<o, Within(x)>>] = g[<<o, Within(x)>>]
    <3>1. ASSUME NEW o \in Children(x[1]) PROVE h[<<o, Within(x)>>] = g[<<o, Within(x)>>]
      <4> DEFINE y == <<o, Within(x)>>
      <4>1. y \in S /\ y[1] = o
        BY <1>2
      <4> HIDE DEF y, S
      <4>2. h[y] = g[y]
        BY <1>2, <1>4, <4>1
      <4> QED BY <4>2 DEF y
    <3> QED BY <3>1
  <2> HIDE DEF Within
  <2>2. {h[<<o, Within(x)>>] : o \in Children(x[1])} = {g[<<o, Within(x)>>] : o \in Children(x[1])}
    BY <2>1
  <2> HIDE DEF S, V, B
  <2> QED BY <1>3, <2>2
<1>5. PICK f \in [S -> V] : \A x \in S : f[x] = B[x][f]
  <2>1. V # {} /\ \A x \in S : x[1] \in Expressions
    OBVIOUS
  <2> HIDE DEF V, B, Body, S
  <2>2. Climbs(S, V, B)
    BY <1>3, <1>4, <2>1 DEF Climbs
  <2> QED BY <2>2, SolvedFromBelow
<1>6. f = [x \in S |-> Body(x, f)]
  <2> HIDE DEF V, B, Body, S
  <2> QED BY <1>3, <1>5
<1>7. Reads = CHOOSE g : g = [x \in S |-> Body(x, g)]
  BY Zenon DEF Reads
<1>8. Reads = [x \in S |-> Body(x, Reads)]
  <2> HIDE DEF S, Body
  <2> QED BY <1>6, <1>7, Zenon
<1>9. ASSUME NEW e \in Expressions, NEW s \in Nat, NEW tf \in Timeframes
       PROVE  Reads[<<e, <<s, tf>>>>] =
                {<<Inherit(SymOf(e), s), Inherit(TfOf(e), tf)>>}
                  \cup UNION {Reads[<<o, <<Inherit(SymOf(e), s), Inherit(TfOf(e), tf)>>>>] :
                                o \in Children(e)}
  <2> DEFINE x == <<e, <<s, tf>>>>
  <2>1. x \in S /\ x[1] = e /\ Within(x) = <<Inherit(SymOf(e), s), Inherit(TfOf(e), tf)>>
    OBVIOUS
  <2>2. Reads[x] = Body(x, Reads)
    <3> HIDE DEF S, Body, x
    <3> QED BY <1>8, <2>1, Zenon
  <2> HIDE DEF Within
  <2> QED BY <2>1, <2>2
<1> QED BY <1>9

\* The pair of an explicit symbol in scope, or the symbol's own on a timeframe
\* that is named (expression_reference_pairs).
NamedPair(e, s, sym, tf, p) ==
  /\ p \in Nat \X Timeframes
  /\ \/ p \in ReferencePairs[<<e, <<sym, tf>>>>]
     \/ p[1] = s /\ p[2] \in {tf} \cup ({TfOf(x) : x \in Parts[e]} \ {None})

\* Whatever is read below an expression is named by it.
LEMMA ReadsNamed ==
  \A e \in Expressions, s \in Nat, sym \in Nat \cup {None}, tf \in Timeframes :
    \A p \in Reads[<<e, <<Inherit(sym, s), tf>>>>] : NamedPair(e, s, sym, tf, p)
<1> DEFINE Good == {e \in Expressions :
                      \A s \in Nat, sym \in Nat \cup {None}, tf \in Timeframes :
                        \A p \in Reads[<<e, <<Inherit(sym, s), tf>>>>] : NamedPair(e, s, sym, tf, p)}
<1>1. ASSUME NEW e \in Expressions, Children(e) \subseteq Good,
             NEW s \in Nat, NEW sym \in Nat \cup {None}, NEW tf \in Timeframes,
             NEW p \in Reads[<<e, <<Inherit(sym, s), tf>>>>]
      PROVE  NamedPair(e, s, sym, tf, p)
  <2> DEFINE sym1 == Inherit(SymOf(e), sym)
             tf1 == Inherit(TfOf(e), tf)
             native == <<Inherit(SymOf(e), Inherit(sym, s)), tf1>>
             inner == <<sym1, tf1>>
  <2>1. sym1 \in Nat \cup {None} /\ tf1 \in Timeframes
    BY ScopeTyped
  <2>2. Inherit(sym, s) \in Nat /\ native = <<Inherit(sym1, s), tf1>> /\ Inherit(sym1, s) \in Nat
    BY <2>1 DEF Inherit
  <2>3. Reads[<<e, <<Inherit(sym, s), tf>>>>] = {native} \cup UNION {Reads[<<o, native>>] : o \in Children(e)}
    BY <2>2, ReadsAt
  <2>4. ReferencePairs[<<e, <<sym, tf>>>>]
          = (IF inner[1] = None THEN {} ELSE {inner})
              \cup UNION {ReferencePairs[<<o, inner>>] : o \in Children(e)}
    <3>1. ReferencePairs[<<e, <<sym, tf>>>>] = PairsWithin(e, inner)
      BY ReferencePairsAt
    <3> HIDE DEF inner
    <3> QED BY <3>1, Zenon DEF PairsWithin
  <2>5. Parts[e] = {e} \cup UNION {Parts[o] : o \in Children(e)}
    BY PartsAt
  <2>6. tf1 \in {tf} \cup ({TfOf(x) : x \in Parts[e]} \ {None})
    BY <2>5 DEF Inherit
  <2>7. CASE p = native
    <3>1. p \in Nat \X Timeframes
      BY <2>1, <2>2, <2>7
    <3>2. CASE sym1 = None
      <4>1. p[1] = s /\ p[2] = tf1
        BY <2>2, <2>7, <3>2 DEF Inherit
      <4> QED BY <2>6, <3>1, <4>1 DEF NamedPair
    <3>3. CASE sym1 # None
      <4>1. p = inner
        BY <2>2, <2>7, <3>3 DEF Inherit
      <4>2. p \in ReferencePairs[<<e, <<sym, tf>>>>]
        BY <2>4, <3>3, <4>1
      <4> QED BY <3>1, <4>2 DEF NamedPair
    <3> QED BY <3>2, <3>3
  <2>8. CASE p # native
    <3> HIDE DEF Good
    <3>1. PICK o \in Children(e) : p \in Reads[<<o, native>>]
      BY <2>3, <2>8
    <3>2. NamedPair(o, s, sym1, tf1, p)
      <4>1. o \in Good
        BY <1>1
      <4>2. p \in Reads[<<o, <<Inherit(sym1, s), tf1>>>>]
        BY <2>2, <3>1
      <4> HIDE DEF sym1, tf1, native
      <4> QED BY <2>1, <4>1, <4>2 DEF Good
    <3>3. ReferencePairs[<<o, inner>>] \subseteq ReferencePairs[<<e, <<sym, tf>>>>]
      BY <2>4
    <3>4. Parts[o] \subseteq Parts[e]
      BY <2>5
    <3> HIDE DEF sym1, tf1, native
    <3> QED BY <2>6, <3>2, <3>3, <3>4 DEF NamedPair
  <2> QED BY <2>7, <2>8
<1>2. Expressions \subseteq Good
  <2>1. ASSUME NEW e \in Expressions, Children(e) \subseteq Good PROVE e \in Good
    <3> QED BY <1>1, <2>1
  <2> HIDE DEF Good
  <2> QED BY <2>1, FromBelow
<1> QED BY <1>2

-----------------------------------------------------------------------------
(* Arithmetic. *)

CombineTyped(op) == \A a, b \in Quantity : Combine(op, a, b) \in Quantity

LEMMA Combines == \A op \in Folds : CombineTyped(op)
<1> SUFFICES ASSUME NEW op \in Folds, NEW a \in Quantity, NEW b \in Quantity
             PROVE  Combine(op, a, b) \in Quantity
  BY DEF CombineTyped
<1>1. CASE op \in {"min", "max"}
  BY <1>1 DEF Combine, Quantity
<1>2. CASE op \notin {"min", "max"} /\ (NaN \in {a, b} \/ (op = "/" /\ b = 0))
  BY <1>2 DEF Combine, Quantity
<1>3. CASE op \notin {"min", "max"} /\ ~(NaN \in {a, b} \/ (op = "/" /\ b = 0))
  <2>1. a \in Int /\ b \in Int
    BY <1>3 DEF Quantity
  <2>2. CASE op = "/"
    <3>1. b # 0 /\ -a \in Int /\ -b \in Int
      BY <1>3, <2>1, <2>2
    <3>2. CASE b < 0
      <4>1. Combine(op, a, b) = (-a) \div (-b)
        BY <1>3, <2>2, <3>2 DEF Combine
      <4>2. -b > 0
        BY <2>1, <3>2
      <4> QED BY <3>1, <4>1, <4>2 DEF Quantity
    <3>3. CASE ~(b < 0)
      <4>1. Combine(op, a, b) = a \div b
        BY <1>3, <2>2, <3>3 DEF Combine
      <4>2. b > 0
        BY <2>1, <3>1, <3>3
      <4> QED BY <2>1, <4>1, <4>2 DEF Quantity
    <3> QED BY <3>2, <3>3
  <2>3. CASE op # "/"
    BY <1>3, <2>1, <2>3 DEF Combine, Quantity, Folds
  <2> QED BY <2>2, <2>3
<1> QED BY <1>1, <1>2, <1>3

\* The values folded so far, from the left.
LEMMA FoldedAt ==
  ASSUME NEW op \in Folds, NEW args \in Seq(Quantity), args # <<>>
  PROVE  \E f \in [DOMAIN args -> Quantity] :
           /\ \A i \in DOMAIN args :
                f[i] = IF i = 1 THEN args[1] ELSE Combine(op, f[i - 1], args[i])
           /\ ApplyMath(op, args) = f[Len(args)]
<1> DEFINE S == DOMAIN args
           Body(i, h) == IF i = 1 THEN args[1] ELSE Combine(op, h[i - 1], args[i])
           B == [i \in S |-> [h \in [S -> Quantity] |-> Body(i, h)]]
           rank == [i \in S |-> i]
           below == [i \in S |-> {i - 1} \cap S]
<1>1. S = 1..Len(args) /\ Len(args) \in Nat /\ \A i \in S : args[i] \in Quantity /\ i \in Nat
  OBVIOUS
<1>2. \A i \in S : i # 1 => i - 1 \in S /\ i - 1 < i
  BY <1>1
<1>3. \A i \in S : \A h \in [S -> Quantity] : B[i][h] = Body(i, h) /\ Body(i, h) \in Quantity
  <2>1. ASSUME NEW i \in S, NEW h \in [S -> Quantity] PROVE Body(i, h) \in Quantity
    <3>1. i # 1 => h[i - 1] \in Quantity
      BY <1>2
    <3> QED BY <1>1, <3>1, Combines DEF CombineTyped
  <2>2. \A i \in S : \A h \in [S -> Quantity] : B[i][h] = Body(i, h)
    <3> HIDE DEF S, Body
    <3> QED OBVIOUS
  <2> QED BY <2>1, <2>2
<1>4. ASSUME NEW i \in S, NEW h \in [S -> Quantity], NEW g \in [S -> Quantity],
             \A j \in below[i] : h[j] = g[j]
      PROVE  B[i][h] = B[i][g]
  <2>1. i # 1 => h[i - 1] = g[i - 1]
    BY <1>2, <1>4
  <2> HIDE DEF S, B
  <2> QED BY <1>3, <2>1
<1>5. /\ rank \in [S -> Nat] /\ below \in [S -> SUBSET S] /\ Quantity # {}
      /\ \A i \in S : \A j \in below[i] : rank[j] < rank[i]
  <2>1. Quantity # {}
    BY DEF Quantity
  <2> QED BY <1>1, <2>1
<1>6. PICK f \in [S -> Quantity] : \A i \in S : f[i] = B[i][f]
  <2> HIDE DEF S, B, below, rank, Body
  <2>1. Looks(S, rank, below, Quantity, B)
    BY <1>3, <1>4, <1>5 DEF Looks
  <2> QED BY <2>1, Solved
<1>7. f = [i \in S |-> Body(i, f)]
  <2> HIDE DEF S, B, Body
  <2> QED BY <1>3, <1>6
<1> DEFINE g == CHOOSE x : x = [i \in S |-> Body(i, x)]
<1>8. g = [i \in S |-> Body(i, g)]
  <2> HIDE DEF S, Body
  <2> QED BY <1>7, Zenon
<1>9. ApplyMath(op, args) = g[Len(args)]
  <2>1. op # "abs"
    BY DEF Folds
  <2> QED BY <2>1, Zenon DEF ApplyMath
<1>10. ASSUME NEW k \in S PROVE g[k] = f[k]
  <2> DEFINE bad == {i \in S : g[i] # f[i]}
  <2> SUFFICES ASSUME k \in bad PROVE FALSE
    OBVIOUS
  <2>1. bad \subseteq Nat
    BY <1>1
  <2>2. PICK n \in bad : \A i \in bad : n <= i
    <3> HIDE DEF bad
    <3> QED BY <2>1, LeastNat
  <2>3. n # 1 => g[n - 1] = f[n - 1]
    <3>1. n # 1 => n - 1 \in S /\ ~(n <= n - 1)
      BY <1>1, <1>2
    <3> QED BY <2>2, <3>1
  <2>4. g[n] = Body(n, g) /\ f[n] = Body(n, f)
    <3> HIDE DEF S, Body, g
    <3> QED BY <1>7, <1>8
  <2> QED BY <2>3, <2>4
<1>11. \A i \in S : f[i] = IF i = 1 THEN args[1] ELSE Combine(op, f[i - 1], args[i])
  <2> HIDE DEF S
  <2> QED BY <1>7
<1>12. Len(args) \in S
  <2>1. Len(args) # 0
    OBVIOUS
  <2> QED BY <1>1, <2>1
<1> HIDE DEF g
<1> QED BY <1>9, <1>10, <1>11, <1>12

\* A number comes of numbers.
LEMMA ApplyTyped ==
  ASSUME NEW op, NEW args \in Seq(Quantity), args # <<>>, op \in Folds \/ op = "abs"
  PROVE  ApplyMath(op, args) \in Quantity
<1>1. CASE op \in Folds
  <2>1. Len(args) \in DOMAIN args
    OBVIOUS
  <2> QED BY <1>1, <2>1, FoldedAt
<1>2. CASE op = "abs"
  <2>1. args[1] \in Quantity
    OBVIOUS
  <2>2. ApplyMath(op, args) = IF args[1] # NaN /\ args[1] < 0 THEN -args[1] ELSE args[1]
    BY <1>2, Zenon DEF ApplyMath
  <2> QED BY <2>1, <2>2 DEF Quantity
<1> QED BY <1>1, <1>2

\* NaN stays NaN in everything but an extremum.
LEMMA ApplyNaN ==
  ASSUME NEW op, NEW args \in Seq(Quantity), op \in Folds \/ (op = "abs" /\ Len(args) = 1),
         op \notin {"min", "max"}, NEW k \in DOMAIN args, args[k] = NaN
  PROVE  ApplyMath(op, args) = NaN
<1>1. CASE op \in Folds
  <2>1. args # <<>> /\ DOMAIN args = 1..Len(args) /\ Len(args) \in Nat
    OBVIOUS
  <2>2. PICK f \in [DOMAIN args -> Quantity] :
          /\ \A i \in DOMAIN args : f[i] = IF i = 1 THEN args[1] ELSE Combine(op, f[i - 1], args[i])
          /\ ApplyMath(op, args) = f[Len(args)]
    BY <1>1, <2>1, FoldedAt
  <2>3. ASSUME NEW i \in k..Len(args) PROVE f[i] = NaN
    <3> DEFINE bad == {j \in k..Len(args) : f[j] # NaN}
    <3> SUFFICES ASSUME i \in bad PROVE FALSE
      OBVIOUS
    <3>1. bad \subseteq Nat
      BY <2>1
    <3>2. PICK n \in bad : \A j \in bad : n <= j
      <4> HIDE DEF bad
      <4> QED BY <3>1, LeastNat
    <3>3. n = k \/ f[n - 1] = NaN
      <4>1. n # k => n - 1 \in k..Len(args) /\ ~(n <= n - 1)
        BY <2>1
      <4> QED BY <3>2, <4>1
    <3>4. n \in DOMAIN args /\ n \in Nat /\ (n = 1 => n = k)
      BY <2>1
    <3>5. \A a, b : NaN \in {a, b} => Combine(op, a, b) = NaN
      BY DEF Combine
    <3>6. n # 1 => f[n] = NaN
      <4>1. n # 1 => f[n] = Combine(op, f[n - 1], args[n])
        BY <2>2, <3>4
      <4> QED BY <3>3, <3>5, <4>1
    <3>7. n = 1 => f[n] = NaN
      BY <2>2, <3>4
    <3> QED BY <3>6, <3>7
  <2>4. Len(args) \in k..Len(args)
    BY <2>1
  <2> QED BY <2>2, <2>3, <2>4
<1>2. CASE op = "abs" /\ Len(args) = 1
  <2>1. args[1] = NaN
    BY <1>2
  <2> QED BY <1>2, <2>1, Zenon DEF ApplyMath
<1> QED BY <1>1, <1>2

-----------------------------------------------------------------------------
(* What the facts decide of an operand. *)

Plans == [value : Quantity \cup {None}, technical : BOOLEAN, missing : SUBSET Facts]
Pairs == [1..2 -> Quantity]

\* What the facts say of an operand is what any bars would give; and what they
\* leave open without a term is lacking, and NaN whatever the bars.
Agrees(p, s, lacking) ==
  /\ p.value # None => s[1] = p.value /\ s[2] = p.value
  /\ p.value = None /\ ~p.technical => s[1] = NaN /\ s[2] = NaN /\ p.missing # {}
  /\ p.missing \subseteq lacking

LEMMA JointTyped ==
  ASSUME NEW n \in Nat, NEW plans \in [1..n -> Plans]
  PROVE  /\ Joint(plans).technical \in BOOLEAN /\ Joint(plans).missing \in SUBSET Facts
         /\ Joint(plans).technical <=> \E i \in 1..n : plans[i].technical
         /\ Joint(plans).missing = UNION {plans[i].missing : i \in 1..n}
<1>1. Joint(plans).missing = UNION {plans[i].missing : i \in 1..n}
  BY DEF Joint
<1>2. \A i \in 1..n : plans[i].missing \subseteq Facts
  BY DEF Plans
<1>3. UNION {plans[i].missing : i \in 1..n} \subseteq Facts
  BY <1>2
<1>4. Joint(plans).technical = (\E i \in 1..n : plans[i].technical)
  BY DEF Joint
<1> QED BY <1>1, <1>3, <1>4

LEMMA MathPlanned ==
  ASSUME NEW n \in Nat \ {0}, NEW plans \in [1..n -> Plans], NEW op, op \in Folds \/ op = "abs"
  PROVE  PlanMath(op, plans) \in Plans
<1> DEFINE joint == Joint(plans)
           values == [i \in DOMAIN plans |-> IF plans[i].value = None THEN NaN ELSE plans[i].value]
           value == ApplyMath(op, values)
<1>1. values \in Seq(Quantity) /\ values # <<>>
  BY DEF Plans, Quantity
<1>2. value \in Quantity
  <2> HIDE DEF values
  <2> QED BY <1>1, ApplyTyped
<1>3. joint.technical \in BOOLEAN /\ joint.missing \in SUBSET Facts
  BY JointTyped
<1> HIDE DEF joint, value
<1>4. /\ [Unknown(joint) EXCEPT !.value = value] \in Plans
      /\ Unknown(joint) \in Plans /\ Known(value) \in Plans
  BY <1>2, <1>3 DEF Unknown, Known, Plans
<1>5. PlanMath(op, plans) \in {[Unknown(joint) EXCEPT !.value = value], Unknown(joint), Known(value)}
  BY DEF PlanMath, joint, value
<1> QED BY <1>4, <1>5

LEMMA MathAgrees ==
  ASSUME NEW n \in Nat \ {0}, NEW plans \in [1..n -> Plans], NEW parts \in [1..n -> Pairs],
         NEW op, op \in Folds \/ (op = "abs" /\ n = 1), NEW lacking,
         \A i \in 1..n : Agrees(plans[i], parts[i], lacking)
  PROVE  Agrees(PlanMath(op, plans), SeriesMath(op, parts), lacking)
<1> DEFINE joint == Joint(plans)
           values == [i \in DOMAIN plans |-> IF plans[i].value = None THEN NaN ELSE plans[i].value]
           value == ApplyMath(op, values)
           at(k) == [i \in DOMAIN parts |-> parts[i][k]]
           known == \A i \in DOMAIN plans : plans[i].value # None
           s == SeriesMath(op, parts)
           p == PlanMath(op, plans)
<1> SUFFICES Agrees(p, s, lacking)
  OBVIOUS
<1>1. s[1] = ApplyMath(op, at(1)) /\ s[2] = ApplyMath(op, at(2))
  BY DEF SeriesMath
<1>2. \A k \in 1..2 : at(k) \in Seq(Quantity) /\ at(k) # <<>> /\ DOMAIN at(k) = 1..n
  BY DEF Pairs
<1>3. p = IF known THEN [Unknown(joint) EXCEPT !.value = value]
          ELSE IF joint.technical \/ op \notin {"min", "max"} \/ value = NaN THEN Unknown(joint)
          ELSE Known(value)
  BY DEF PlanMath
<1>4. joint.missing \subseteq lacking
  <2>1. \A i \in 1..n : plans[i].missing \subseteq lacking
    BY DEF Agrees
  <2>2. joint.missing = UNION {plans[i].missing : i \in 1..n}
    BY JointTyped
  <2> HIDE DEF joint
  <2> QED BY <2>1, <2>2
<1>5. (known \/ ~joint.technical) => at(1) = values /\ at(2) = values
  <2>1. ASSUME known \/ ~joint.technical, NEW i \in 1..n, NEW k \in 1..2
        PROVE  parts[i][k] = values[i]
    <3>1. plans[i].value # None \/ ~plans[i].technical
      BY <2>1, JointTyped
    <3> QED BY <3>1 DEF Agrees
  <2> QED BY <2>1
<1>6. (known \/ ~joint.technical) => s[1] = value /\ s[2] = value
  <2> HIDE DEF values, at, s, joint, known
  <2> QED BY <1>1, <1>5
<1>7. value \in Quantity /\ value # None
  <2>1. values \in Seq(Quantity) /\ values # <<>>
    BY DEF Plans, Quantity
  <2> HIDE DEF values, value
  <2>2. value \in Quantity
    BY <2>1, ApplyTyped DEF value
  <2> QED BY <2>2, ScreenAssumption DEF Quantity
<1>8. CASE known
  <2>1. p.value = value /\ p.missing = joint.missing
    <3> HIDE DEF joint, value, known
    <3> QED BY <1>3, <1>8 DEF Unknown
  <2> HIDE DEF joint, value, p, s, known
  <2> QED BY <1>4, <1>6, <1>7, <1>8, <2>1 DEF Agrees
<1>9. CASE ~known /\ (joint.technical \/ op \notin {"min", "max"} \/ value = NaN)
  <2>1. p.value = None /\ p.missing = joint.missing /\ p.technical = joint.technical
    <3> HIDE DEF joint, value, known
    <3> QED BY <1>3, <1>9 DEF Unknown
  <2>2. ASSUME ~joint.technical PROVE s[1] = NaN /\ s[2] = NaN /\ joint.missing # {}
    <3>1. PICK i \in 1..n : plans[i].value = None
      BY <1>9
    <3>2. ~plans[i].technical
      BY <2>2, JointTyped
    <3>3. parts[i][1] = NaN /\ parts[i][2] = NaN /\ plans[i].missing # {}
      BY <3>1, <3>2 DEF Agrees
    <3>4. joint.missing # {}
      <4>1. joint.missing = UNION {plans[j].missing : j \in 1..n}
        BY JointTyped
      <4> HIDE DEF joint
      <4> QED BY <3>3, <4>1
    <3>5. CASE op \in {"min", "max"}
      <4>1. value = NaN
        BY <1>9, <2>2, <3>5
      <4> HIDE DEF joint, value, s, known
      <4> QED BY <1>6, <2>2, <3>4, <4>1
    <3>6. CASE op \notin {"min", "max"}
      <4>1. at(1)[i] = NaN /\ at(2)[i] = NaN
        BY <3>3
      <4> HIDE DEF at
      <4>2. ASSUME NEW a, a \in {at(1), at(2)} PROVE ApplyMath(op, a) = NaN
        <5>1. a \in Seq(Quantity) /\ i \in DOMAIN a /\ a[i] = NaN /\ DOMAIN a = 1..n
          BY <1>2, <4>1, <4>2
        <5>2. Len(a) = n
          BY <5>1
        <5> QED BY <3>6, <5>1, <5>2, ApplyNaN
      <4> HIDE DEF s
      <4> QED BY <1>1, <3>4, <4>2
    <3> QED BY <3>5, <3>6
  <2> HIDE DEF joint, value, p, s, known
  <2> QED BY <1>4, <2>1, <2>2 DEF Agrees
<1>10. CASE ~known /\ ~(joint.technical \/ op \notin {"min", "max"} \/ value = NaN)
  <2>1. p = Known(value) /\ ~joint.technical
    <3> HIDE DEF joint, value, known
    <3> QED BY <1>3, <1>10
  <2>2. p.value = value /\ p.missing = {}
    <3> HIDE DEF value, p
    <3> QED BY <2>1 DEF Known
  <2> HIDE DEF joint, value, p, s, known
  <2> QED BY <1>6, <1>7, <2>1, <2>2 DEF Agrees
<1> HIDE DEF joint, value, p, s, at, known
<1> QED BY <1>8, <1>9, <1>10

\* What an operand is made of: its kind, and lower operands.
LEMMA OperandsMade ==
  ASSUME NEW e \in Operands
  PROVE  /\ e \in Expressions
         /\ e.kind \in {"number", "fact", "term", "math"}
         /\ e.kind = "number" => e.value \in Int
         /\ e.kind = "fact" => e.name \in Facts
         /\ e.kind = "term" => e.name \in TermNames
         /\ e.kind = "math" => /\ Children(e) = Range(e.args) /\ Len(e.args) \in Nat \ {0}
                               /\ e.args \in [1..Len(e.args) -> Operands]
                               /\ e.op \in Folds \/ (e.op = "abs" /\ Len(e.args) = 1)
<1>1. e \in Expressions /\ WellFormed(e) /\ e.kind \in {"number", "fact", "term", "math"}
  BY ScreenAssumption DEF Operands
<1>2. e.kind = "math" => e.args \in Seq(Operands) /\ e.args # <<>>
  BY <1>1 DEF WellFormed
<1>3. e.kind = "math" => e.args \in [1..Len(e.args) -> Operands] /\ Len(e.args) \in Nat \ {0}
  BY <1>2
<1>4. e.kind = "math" => Children(e) = Range(e.args)
  BY DEF Children
<1> QED BY <1>1, <1>3, <1>4 DEF WellFormed

\* The plan of an operand, from the plans of what it is made of.
PlannedFrom(x, h) ==
  LET e == x[1] IN
  IF e.kind # "math" THEN PlanLeaf(e, x[2])
  ELSE PlanMath(e.op, [i \in DOMAIN e.args |-> h[<<e.args[i], x[2]>>]])

LEMMA PlannedTyped ==
  ASSUME NEW e \in Operands, NEW sheet \in FactSheets, NEW h,
         e.kind = "math" => \A i \in DOMAIN e.args : h[<<e.args[i], sheet>>] \in Plans
  PROVE  PlannedFrom(<<e, sheet>>, h) \in Plans
<1>1. e.kind # "math" => PlanLeaf(e, sheet) \in Plans
  <2>1. sheet \in [Facts -> Int \cup {None}]
    BY ScreenAssumption
  <2>2. /\ e.kind = "number" => Known(e.value) \in Plans
        /\ e.kind = "fact" => FactValue(e.name, sheet) \in Plans
        /\ [Known(None) EXCEPT !.technical = TRUE] \in Plans
    BY <2>1, OperandsMade DEF Known, FactValue, Plans, Quantity
  <2> QED BY <2>2, OperandsMade DEF PlanLeaf
<1>2. ASSUME e.kind = "math"
      PROVE  PlanMath(e.op, [i \in DOMAIN e.args |-> h[<<e.args[i], sheet>>]]) \in Plans
  <2> DEFINE plans == [i \in DOMAIN e.args |-> h[<<e.args[i], sheet>>]]
  <2>1. Len(e.args) \in Nat \ {0} /\ DOMAIN e.args = 1..Len(e.args)
    BY <1>2, OperandsMade
  <2>2. plans \in [1..Len(e.args) -> Plans]
    BY <1>2, <2>1
  <2>3. e.op \in Folds \/ e.op = "abs"
    BY <1>2, OperandsMade
  <2> SUFFICES PlanMath(e.op, plans) \in Plans
    OBVIOUS
  <2> HIDE DEF plans
  <2> QED BY <2>1, <2>2, <2>3, MathPlanned
<1> QED BY <1>1, <1>2 DEF PlannedFrom

LEMMA PlanUnfolds ==
  PlanExpr = [x \in Operands \X FactSheets |-> PlannedFrom(x, PlanExpr)]
<1> DEFINE S == Operands \X FactSheets
           V == Plans
           B == [x \in S |-> [h \in [S -> V] |-> PlannedFrom(x, h)]]
<1>1. \A x \in S : x[1].kind = "math" =>
        \A i \in DOMAIN x[1].args :
          <<x[1].args[i], x[2]>> \in S /\ HeightOf[x[1].args[i]] < HeightOf[x[1]]
  BY OperandsMade, BelowIsLower DEF Range
<1>2. V # {} /\ \A x \in S : x[1] \in Expressions
  <2>1. [value |-> None, technical |-> FALSE, missing |-> {}] \in Plans
    BY DEF Plans
  <2> QED BY <2>1, OperandsMade
<1>3. \A x \in S : \A h \in [S -> V] : B[x][h] = PlannedFrom(x, h) /\ PlannedFrom(x, h) \in V
  <2>1. ASSUME NEW x \in S, NEW h \in [S -> V] PROVE PlannedFrom(x, h) \in V
    <3>1. x[1] \in Operands /\ x[2] \in FactSheets /\ x = <<x[1], x[2]>>
      OBVIOUS
    <3>2. x[1].kind = "math" => \A i \in DOMAIN x[1].args : h[<<x[1].args[i], x[2]>>] \in Plans
      BY <1>1
    <3> HIDE DEF S
    <3>3. PlannedFrom(<<x[1], x[2]>>, h) \in Plans
      BY <3>1, <3>2, PlannedTyped
    <3> QED BY <3>1, <3>3
  <2>2. \A x \in S : \A h \in [S -> V] : B[x][h] = PlannedFrom(x, h)
    <3> HIDE DEF V, S
    <3> QED OBVIOUS
  <2> HIDE DEF B, V, S
  <2> QED BY <2>1, <2>2
<1>4. ASSUME NEW x \in S, NEW h \in [S -> V], NEW g \in [S -> V],
             \A y \in S : HeightOf[y[1]] < HeightOf[x[1]] => h[y] = g[y]
      PROVE  B[x][h] = B[x][g]
  <2>1. x[1].kind = "math" => [i \in DOMAIN x[1].args |-> h[<<x[1].args[i], x[2]>>]]
                                = [i \in DOMAIN x[1].args |-> g[<<x[1].args[i], x[2]>>]]
    <3>1. ASSUME x[1].kind = "math", NEW i \in DOMAIN x[1].args
          PROVE  h[<<x[1].args[i], x[2]>>] = g[<<x[1].args[i], x[2]>>]
      <4> DEFINE y == <<x[1].args[i], x[2]>>
      <4>1. y \in S /\ HeightOf[y[1]] < HeightOf[x[1]]
        BY <1>1, <3>1
      <4> HIDE DEF y, S
      <4>2. h[y] = g[y]
        BY <1>4, <4>1
      <4> QED BY <4>2 DEF y
    <3> QED BY <3>1
  <2>2. PlannedFrom(x, h) = PlannedFrom(x, g)
    BY <2>1 DEF PlannedFrom
  <2> HIDE DEF S, V, B
  <2> QED BY <1>3, <2>2
<1>5. PICK f \in [S -> V] : \A x \in S : f[x] = B[x][f]
  <2> HIDE DEF V, B, S
  <2>1. Climbs(S, V, B)
    BY <1>2, <1>3, <1>4 DEF Climbs
  <2> QED BY <2>1, SolvedFromBelow
<1>6. f = [x \in S |-> PlannedFrom(x, f)]
  <2> HIDE DEF V, B, S
  <2> QED BY <1>3, <1>5
<1>7. PlanExpr = CHOOSE g : g = [x \in S |-> PlannedFrom(x, g)]
  BY Zenon DEF PlanExpr, PlannedFrom
<1> HIDE DEF S
<1> QED BY <1>6, <1>7, Zenon DEF S

LEMMA PlanAt ==
  ASSUME NEW e \in Operands, NEW sheet \in FactSheets
  PROVE  PlanExpr[<<e, sheet>>] =
           IF e.kind # "math" THEN PlanLeaf(e, sheet)
           ELSE PlanMath(e.op, [i \in DOMAIN e.args |-> PlanExpr[<<e.args[i], sheet>>]])
<1> DEFINE x == <<e, sheet>>
           S == Operands \X FactSheets
<1>1. x \in S /\ x[1] = e /\ x[2] = sheet
  OBVIOUS
<1>2. PlanExpr[x] = PlannedFrom(x, PlanExpr)
  <2>1. PlanExpr = [y \in S |-> PlannedFrom(y, PlanExpr)]
    BY PlanUnfolds
  <2> HIDE DEF x, S
  <2> QED BY <1>1, <2>1, Zenon
<1> QED BY <1>1, <1>2, Zenon DEF PlannedFrom

\* The last two values of an operand, from those of what it is made of.
EvaluatedFrom(x, h) ==
  LET e == x[1] IN
  IF e.kind # "math" THEN SeriesLeaf(e, x[2], x[3])
  ELSE SeriesMath(e.op, [i \in DOMAIN e.args |-> h[<<e.args[i], x[2], x[3]>>]])

LEMMA EvaluatedTyped ==
  ASSUME NEW e \in Operands, NEW sheet \in FactSheets, NEW reading \in Readings, NEW h,
         e.kind = "math" => \A i \in DOMAIN e.args : h[<<e.args[i], sheet, reading>>] \in Pairs
  PROVE  EvaluatedFrom(<<e, sheet, reading>>, h) \in Pairs
<1>1. e.kind # "math" => SeriesLeaf(e, sheet, reading) \in Pairs
  <2>1. sheet \in [Facts -> Int \cup {None}] /\ reading \in [TermNames -> Quantity \X Quantity]
    BY ScreenAssumption
  <2>2. \A a, b \in Quantity : <<a, b>> \in Pairs
    BY DEF Pairs
  <2>3. e.kind = "number" => <<e.value, e.value>> \in Pairs
    BY <2>2, OperandsMade DEF Quantity
  <2>4. e.kind = "fact" => \A v : v = (IF sheet[e.name] = None THEN NaN ELSE sheet[e.name])
                                    => <<v, v>> \in Pairs
    BY <2>1, <2>2, OperandsMade DEF Quantity
  <2>5. e.kind = "term" => reading[e.name] \in Pairs
    <3>1. \A y \in Quantity \X Quantity : y = <<y[1], y[2]>> /\ y[1] \in Quantity /\ y[2] \in Quantity
      OBVIOUS
    <3> QED BY <2>1, <2>2, <3>1, OperandsMade
  <2> QED BY <2>3, <2>4, <2>5, OperandsMade DEF SeriesLeaf
<1>2. ASSUME e.kind = "math"
      PROVE  SeriesMath(e.op, [i \in DOMAIN e.args |-> h[<<e.args[i], sheet, reading>>]]) \in Pairs
  <2> DEFINE parts == [i \in DOMAIN e.args |-> h[<<e.args[i], sheet, reading>>]]
             at(k) == [i \in DOMAIN parts |-> parts[i][k]]
  <2> SUFFICES SeriesMath(e.op, parts) \in Pairs
    OBVIOUS
  <2>1. Len(e.args) \in Nat \ {0} /\ DOMAIN e.args = 1..Len(e.args)
    BY <1>2, OperandsMade
  <2>2. parts \in [1..Len(e.args) -> Pairs]
    BY <1>2, <2>1
  <2>3. e.op \in Folds \/ e.op = "abs"
    BY <1>2, OperandsMade
  <2> HIDE DEF parts
  <2>4. ASSUME NEW k \in 1..2 PROVE ApplyMath(e.op, at(k)) \in Quantity
    <3>1. at(k) \in Seq(Quantity) /\ at(k) # <<>>
      BY <2>1, <2>2 DEF Pairs
    <3> HIDE DEF at
    <3> QED BY <2>3, <3>1, ApplyTyped
  <2>5. SeriesMath(e.op, parts) = [k \in 1..2 |-> ApplyMath(e.op, at(k))]
    BY Zenon DEF SeriesMath
  <2> HIDE DEF at
  <2> QED BY <2>4, <2>5 DEF Pairs
<1> QED BY <1>1, <1>2 DEF EvaluatedFrom

LEMMA SeriesUnfolds ==
  Series = [x \in Operands \X FactSheets \X Readings |-> EvaluatedFrom(x, Series)]
<1> DEFINE S == Operands \X FactSheets \X Readings
           V == Pairs
           B == [x \in S |-> [h \in [S -> V] |-> EvaluatedFrom(x, h)]]
<1>1. \A x \in S : x[1].kind = "math" =>
        \A i \in DOMAIN x[1].args :
          <<x[1].args[i], x[2], x[3]>> \in S /\ HeightOf[x[1].args[i]] < HeightOf[x[1]]
  BY OperandsMade, BelowIsLower DEF Range
<1>2. V # {} /\ \A x \in S : x[1] \in Expressions
  <2>1. [k \in 1..2 |-> NaN] \in Pairs
    BY DEF Pairs, Quantity
  <2> QED BY <2>1, OperandsMade
<1>3. \A x \in S : \A h \in [S -> V] : B[x][h] = EvaluatedFrom(x, h) /\ EvaluatedFrom(x, h) \in V
  <2>1. ASSUME NEW x \in S, NEW h \in [S -> V] PROVE EvaluatedFrom(x, h) \in V
    <3>1. x[1] \in Operands /\ x[2] \in FactSheets /\ x[3] \in Readings /\ x = <<x[1], x[2], x[3]>>
      OBVIOUS
    <3>2. x[1].kind = "math" => \A i \in DOMAIN x[1].args : h[<<x[1].args[i], x[2], x[3]>>] \in Pairs
      BY <1>1
    <3> HIDE DEF S
    <3>3. EvaluatedFrom(<<x[1], x[2], x[3]>>, h) \in Pairs
      BY <3>1, <3>2, EvaluatedTyped
    <3> QED BY <3>1, <3>3
  <2>2. \A x \in S : \A h \in [S -> V] : B[x][h] = EvaluatedFrom(x, h)
    <3> HIDE DEF V, S
    <3> QED OBVIOUS
  <2> HIDE DEF B, V, S
  <2> QED BY <2>1, <2>2
<1>4. ASSUME NEW x \in S, NEW h \in [S -> V], NEW g \in [S -> V],
             \A y \in S : HeightOf[y[1]] < HeightOf[x[1]] => h[y] = g[y]
      PROVE  B[x][h] = B[x][g]
  <2>1. x[1].kind = "math" => [i \in DOMAIN x[1].args |-> h[<<x[1].args[i], x[2], x[3]>>]]
                                = [i \in DOMAIN x[1].args |-> g[<<x[1].args[i], x[2], x[3]>>]]
    <3>1. ASSUME x[1].kind = "math", NEW i \in DOMAIN x[1].args
          PROVE  h[<<x[1].args[i], x[2], x[3]>>] = g[<<x[1].args[i], x[2], x[3]>>]
      <4> DEFINE y == <<x[1].args[i], x[2], x[3]>>
      <4>1. y \in S /\ HeightOf[y[1]] < HeightOf[x[1]]
        BY <1>1, <3>1
      <4> HIDE DEF y, S
      <4>2. h[y] = g[y]
        BY <1>4, <4>1
      <4> QED BY <4>2 DEF y
    <3> QED BY <3>1
  <2>2. EvaluatedFrom(x, h) = EvaluatedFrom(x, g)
    BY <2>1 DEF EvaluatedFrom
  <2> HIDE DEF S, V, B
  <2> QED BY <1>3, <2>2
<1>5. PICK f \in [S -> V] : \A x \in S : f[x] = B[x][f]
  <2> HIDE DEF V, B, S
  <2>1. Climbs(S, V, B)
    BY <1>2, <1>3, <1>4 DEF Climbs
  <2> QED BY <2>1, SolvedFromBelow
<1>6. f = [x \in S |-> EvaluatedFrom(x, f)]
  <2> HIDE DEF V, B, S
  <2> QED BY <1>3, <1>5
<1>7. Series = CHOOSE g : g = [x \in S |-> EvaluatedFrom(x, g)]
  BY Zenon DEF Series, EvaluatedFrom
<1> HIDE DEF S
<1> QED BY <1>6, <1>7, Zenon DEF S

LEMMA SeriesAt ==
  ASSUME NEW e \in Operands, NEW sheet \in FactSheets, NEW reading \in Readings
  PROVE  Series[<<e, sheet, reading>>] =
           IF e.kind # "math" THEN SeriesLeaf(e, sheet, reading)
           ELSE SeriesMath(e.op, [i \in DOMAIN e.args |-> Series[<<e.args[i], sheet, reading>>]])
<1> DEFINE x == <<e, sheet, reading>>
           S == Operands \X FactSheets \X Readings
<1>1. x \in S /\ x[1] = e /\ x[2] = sheet /\ x[3] = reading
  OBVIOUS
<1>2. Series[x] = EvaluatedFrom(x, Series)
  <2>1. Series = [y \in S |-> EvaluatedFrom(y, Series)]
    BY SeriesUnfolds
  <2> HIDE DEF x, S
  <2> QED BY <1>1, <2>1, Zenon
<1> QED BY <1>1, <1>2, Zenon DEF EvaluatedFrom

Lacking(sheet) == {name \in Facts : sheet[name] = None}

\* What the facts say of an operand: nothing that the bars could gainsay, and
\* that it waits for them whenever a term is in it; NaN is of arithmetic only.
Settled(e, sheet) ==
  LET p == PlanExpr[<<e, sheet>>] IN
  /\ p \in Plans
  /\ (\E t \in Parts[e] : t.kind = "term") => p.technical
  /\ p.value = NaN => e.kind = "math"
  /\ \A reading \in Readings : LET s == Series[<<e, sheet, reading>>]
                               IN  s \in Pairs /\ Agrees(p, s, Lacking(sheet))

LEMMA LeafSettled ==
  ASSUME NEW e \in Operands, NEW sheet \in FactSheets, e.kind # "math"
  PROVE  Settled(e, sheet)
<1> DEFINE p == PlanExpr[<<e, sheet>>]
<1>1. p = PlanLeaf(e, sheet)
  BY PlanAt
<1>2. p \in Plans
  <2>1. PlannedFrom(<<e, sheet>>, 0) \in Plans
    BY PlannedTyped
  <2> QED BY <1>1, <2>1 DEF PlannedFrom
<1>3. sheet \in [Facts -> Int \cup {None}]
  BY ScreenAssumption
<1>4. \A v \in Int : v # None /\ v # NaN
  BY ScreenAssumption
<1>5. None # NaN
  BY ScreenAssumption
<1>6. (\E t \in Parts[e] : t.kind = "term") => p.technical
  <2>1. e.kind # "term" => Parts[e] = {e}
    <3>1. e.kind # "term" => Children(e) = {}
      BY OperandsMade DEF Children
    <3> QED BY <3>1, PartsAt, OperandsMade
  <2>2. e.kind = "term" => p.technical
    BY <1>1 DEF PlanLeaf, Known
  <2> QED BY <2>1, <2>2
<1>7. p.value # NaN
  <2>1. e.kind = "number" => p.value \in Int
    BY <1>1, OperandsMade DEF PlanLeaf, Known
  <2>2. e.kind = "fact" => p.value \in Int \cup {None}
    BY <1>1, <1>3, OperandsMade DEF PlanLeaf, FactValue, Known
  <2>3. e.kind = "term" => p.value = None
    BY <1>1 DEF PlanLeaf, Known
  <2> QED BY <1>4, <1>5, <2>1, <2>2, <2>3, OperandsMade
<1>8. ASSUME NEW reading \in Readings
      PROVE  Series[<<e, sheet, reading>>] \in Pairs
             /\ Agrees(p, Series[<<e, sheet, reading>>], Lacking(sheet))
  <2> DEFINE s == Series[<<e, sheet, reading>>]
  <2>1. s = SeriesLeaf(e, sheet, reading)
    BY SeriesAt
  <2>2. s \in Pairs
    <3>1. EvaluatedFrom(<<e, sheet, reading>>, 0) \in Pairs
      BY EvaluatedTyped
    <3> QED BY <2>1, <3>1 DEF EvaluatedFrom
  <2> SUFFICES s \in Pairs /\ Agrees(p, s, Lacking(sheet))
    OBVIOUS
  <2> HIDE DEF p, s
  <2>3. CASE e.kind = "number"
    <3>1. p = Known(e.value) /\ s = <<e.value, e.value>>
      BY <1>1, <2>1, <2>3 DEF PlanLeaf, SeriesLeaf
    <3>2. e.value # None
      BY <1>4, <2>3, OperandsMade
    <3> QED BY <2>2, <3>1, <3>2 DEF Agrees, Known
  <2>4. CASE e.kind = "fact"
    <3>1. e.name \in Facts /\ p = FactValue(e.name, sheet)
      BY <1>1, <2>4, OperandsMade DEF PlanLeaf
    <3>2. CASE sheet[e.name] = None
      <4>1. s = <<NaN, NaN>>
        BY <2>1, <2>4, <3>2 DEF SeriesLeaf
      <4>2. p.value = None /\ p.missing = {e.name}
        BY <3>1, <3>2 DEF FactValue, Known
      <4>3. e.name \in Lacking(sheet)
        BY <3>1, <3>2 DEF Lacking
      <4> QED BY <2>2, <4>1, <4>2, <4>3 DEF Agrees
    <3>3. CASE sheet[e.name] # None
      <4>1. s = <<sheet[e.name], sheet[e.name]>>
        BY <2>1, <2>4, <3>3 DEF SeriesLeaf
      <4>2. p.value = sheet[e.name] /\ p.missing = {}
        BY <3>1, <3>3 DEF FactValue, Known
      <4> QED BY <2>2, <3>3, <4>1, <4>2 DEF Agrees
    <3> QED BY <3>2, <3>3
  <2>5. CASE e.kind = "term"
    <3>1. p.value = None /\ p.technical /\ p.missing = {}
      BY <1>1, <2>5 DEF PlanLeaf, Known
    <3> QED BY <2>2, <3>1 DEF Agrees
  <2> QED BY <2>2, <2>3, <2>4, <2>5, OperandsMade
<1> QED BY <1>2, <1>6, <1>7, <1>8 DEF Settled

LEMMA MathSettled ==
  ASSUME NEW e \in Operands, NEW sheet \in FactSheets, e.kind = "math",
         \A o \in Range(e.args) : Settled(o, sheet)
  PROVE  Settled(e, sheet)
<1> DEFINE n == Len(e.args)
           p == PlanExpr[<<e, sheet>>]
           plans == [i \in DOMAIN e.args |-> PlanExpr[<<e.args[i], sheet>>]]
<1>1. n \in Nat \ {0} /\ DOMAIN e.args = 1..n /\ (\A i \in 1..n : e.args[i] \in Operands)
      /\ (e.op \in Folds \/ (e.op = "abs" /\ n = 1))
  BY OperandsMade
<1>2. p = PlanMath(e.op, plans)
  BY PlanAt
<1>3. \A i \in 1..n : Settled(e.args[i], sheet)
  BY <1>1 DEF Range
<1>4. plans \in [1..n -> Plans]
  BY <1>1, <1>3 DEF Settled
<1>5. p \in Plans
  <2> HIDE DEF plans, p, n
  <2> QED BY <1>1, <1>2, <1>4, MathPlanned
<1>6. ASSUME \E t \in Parts[e] : t.kind = "term" PROVE p.technical
  <2>1. Parts[e] = {e} \cup UNION {Parts[o] : o \in Range(e.args)}
    BY PartsAt, OperandsMade
  <2>2. PICK t \in Parts[e] : t.kind = "term"
    BY <1>6
  <2>3. t # e
    BY <2>2
  <2>4. PICK o \in Range(e.args) : t \in Parts[o]
    BY <2>1, <2>2, <2>3
  <2>5. PICK i \in 1..n : o = e.args[i]
    BY <1>1 DEF Range
  <2>6. plans[i].technical
    BY <1>1, <1>3, <2>2, <2>4, <2>5 DEF Settled
  <2> HIDE DEF plans, p, n
  <2>7. Joint(plans).technical
    BY <1>1, <1>4, <2>6, JointTyped
  <2> DEFINE joint == Joint(plans)
  <2>8. \A v : [Unknown(joint) EXCEPT !.value = v].technical = joint.technical
    BY DEF Unknown
  <2>9. Unknown(joint).technical = joint.technical
    BY DEF Unknown
  <2> HIDE DEF joint
  <2> QED BY <1>2, <2>7, <2>8, <2>9 DEF PlanMath, joint
<1>7. ASSUME NEW reading \in Readings
      PROVE  Series[<<e, sheet, reading>>] \in Pairs
             /\ Agrees(p, Series[<<e, sheet, reading>>], Lacking(sheet))
  <2> DEFINE s == Series[<<e, sheet, reading>>]
             parts == [i \in DOMAIN e.args |-> Series[<<e.args[i], sheet, reading>>]]
  <2>1. s = SeriesMath(e.op, parts)
    BY SeriesAt
  <2>2. parts \in [1..n -> Pairs]
    BY <1>1, <1>3 DEF Settled
  <2>3. s \in Pairs
    <3>1. EvaluatedFrom(<<e, sheet, reading>>, Series) \in Pairs
      BY <1>1, <2>2, EvaluatedTyped
    <3> QED BY <2>1, <3>1 DEF EvaluatedFrom
  <2>4. \A i \in 1..n : Agrees(plans[i], parts[i], Lacking(sheet))
    <3>1. \A i \in 1..n : plans[i] = PlanExpr[<<e.args[i], sheet>>]
                          /\ parts[i] = Series[<<e.args[i], sheet, reading>>]
      BY <1>1
    <3> HIDE DEF plans, parts, n
    <3> QED BY <1>3, <3>1 DEF Settled
  <2>5. Agrees(p, s, Lacking(sheet))
    <3> HIDE DEF plans, parts, p, s, n
    <3> QED BY <1>1, <1>2, <1>4, <2>1, <2>2, <2>4, MathAgrees
  <2> QED BY <2>3, <2>5
<1> QED BY <1>5, <1>6, <1>7 DEF Settled

LEMMA OperandsSettled == \A e \in Operands, sheet \in FactSheets : Settled(e, sheet)
<1> DEFINE Good == {e \in Expressions : e \in Operands => \A sheet \in FactSheets : Settled(e, sheet)}
<1>1. ASSUME NEW e \in Expressions, Children(e) \subseteq Good PROVE e \in Good
  <2> SUFFICES ASSUME e \in Operands, NEW sheet \in FactSheets PROVE Settled(e, sheet)
    OBVIOUS
  <2>1. CASE e.kind = "math"
    <3>1. Range(e.args) \subseteq Good /\ Range(e.args) \subseteq Operands
      BY <1>1, <2>1, OperandsMade DEF Range
    <3>2. \A o \in Range(e.args) : Settled(o, sheet)
      BY <3>1
    <3> QED BY <2>1, <3>2, MathSettled
  <2> QED BY <2>1, LeafSettled
<1>2. Expressions \subseteq Good
  <2> HIDE DEF Good
  <2> QED BY <1>1, FromBelow
<1> QED BY <1>2, OperandsMade

-----------------------------------------------------------------------------
(* What the facts decide of a condition and of a group. *)

Verdicts == BOOLEAN \cup {None}
Opinions == [value : Verdicts, technical : BOOLEAN, missing : SUBSET Facts]

\* A verdict of the facts is the bars' or one they cannot give; and what the
\* facts leave open without a term the bars cannot give either.
Bears(p, v, lacking) ==
  /\ p.value # None => v \in {p.value, None}
  /\ p.value = None /\ ~p.technical => v = None /\ p.missing # {}
  /\ p.missing \subseteq lacking

Exact(p, v) == p.value # None => v = p.value
Affirmed(p, v) == p.value = TRUE => v = TRUE

LEMMA JointHolds ==
  ASSUME NEW n \in Nat, NEW plans, DOMAIN plans = 1..n, NEW lacking,
         \A i \in 1..n : plans[i].missing \subseteq lacking
  PROVE  LET joint == Joint(plans)
         IN  /\ joint.technical \in BOOLEAN /\ joint.missing \subseteq lacking
             /\ joint.technical <=> \E i \in 1..n : plans[i].technical
             /\ \A i \in 1..n : plans[i].missing \subseteq joint.missing
<1>1. Joint(plans).missing = UNION {plans[i].missing : i \in 1..n}
  BY DEF Joint
<1>2. Joint(plans).technical = (\E i \in 1..n : plans[i].technical)
  BY DEF Joint
<1>3. UNION {plans[i].missing : i \in 1..n} \subseteq lacking
  OBVIOUS
<1> QED BY <1>1, <1>2, <1>3

LEMMA GroupOpines ==
  ASSUME NEW n \in Nat \ {0}, NEW plans \in [1..n -> Opinions],
         NEW key, key \in {"all", "any"} \/ (key = "not" /\ n = 1)
  PROVE  ReduceGroup(key, plans) \in Opinions
<1> DEFINE joint == Joint(plans)
<1>1. joint.technical \in BOOLEAN /\ joint.missing \subseteq Facts
  <2>1. DOMAIN plans = 1..n /\ \A i \in 1..n : plans[i].missing \subseteq Facts
    BY DEF Opinions
  <2> QED BY <2>1, JointHolds
<1> HIDE DEF joint
<1>2. Unknown(joint) \in Opinions
  BY <1>1 DEF Unknown, Opinions, Verdicts
<1>3. \A b \in BOOLEAN : Known(b) \in Opinions
  BY DEF Known, Opinions, Verdicts
<1>4. plans[1] \in Opinions /\ plans[1].value \in Verdicts
  BY DEF Opinions
<1>5. CASE key = "not"
  <2>1. ReduceGroup(key, plans) = IF plans[1].value = None THEN plans[1] ELSE Known(~plans[1].value)
    BY <1>5 DEF ReduceGroup
  <2>2. plans[1].value # None => (~plans[1].value) \in BOOLEAN
    OBVIOUS
  <2> QED BY <1>3, <1>4, <2>1, <2>2
<1>6. CASE key # "not"
  <2>1. ReduceGroup(key, plans) \in {Known(FALSE), Known(TRUE), Known(key = "all"), Unknown(joint)}
    BY <1>6 DEF ReduceGroup, joint
  <2>2. (key = "all") \in BOOLEAN
    OBVIOUS
  <2> QED BY <1>2, <1>3, <2>1, <2>2
<1> QED BY <1>5, <1>6

LEMMA GroupBears ==
  ASSUME NEW n \in Nat \ {0}, NEW plans \in [1..n -> Opinions], NEW verdicts \in [1..n -> Verdicts],
         NEW key, key \in {"all", "any"} \/ (key = "not" /\ n = 1), NEW lacking,
         \A i \in 1..n : Bears(plans[i], verdicts[i], lacking)
  PROVE  LET p == ReduceGroup(key, plans)
             v == Reduce(key, {verdicts[i] : i \in 1..n})
         IN  /\ v \in Verdicts /\ Bears(p, v, lacking)
             /\ (\A i \in 1..n : Exact(plans[i], verdicts[i])) => Exact(p, v)
             /\ key # "not" /\ (\A i \in 1..n : Affirmed(plans[i], verdicts[i])) => Affirmed(p, v)
<1> DEFINE joint == Joint(plans)
           given == {verdicts[i] : i \in 1..n}
           known == {plans[i].value : i \in DOMAIN plans}
           p == ReduceGroup(key, plans)
           v == Reduce(key, given)
           sure == \A i \in 1..n : Exact(plans[i], verdicts[i])
           apt == \A i \in 1..n : Affirmed(plans[i], verdicts[i])
<1> SUFFICES /\ v \in Verdicts /\ Bears(p, v, lacking)
             /\ sure => Exact(p, v)
             /\ key # "not" /\ apt => Affirmed(p, v)
  OBVIOUS
<1>1. None \notin BOOLEAN
  BY ScreenAssumption
<1>2. given \subseteq Verdicts /\ \A i \in 1..n : verdicts[i] \in given
  OBVIOUS
<1>3. known \subseteq Verdicts /\ \A i \in 1..n : plans[i].value \in known
  BY DEF Opinions
<1>4. /\ \A b \in known : \E i \in 1..n : plans[i].value = b
      /\ \A b \in given : \E i \in 1..n : verdicts[i] = b
  OBVIOUS
<1>5. /\ joint.missing \subseteq lacking
      /\ joint.technical <=> \E i \in 1..n : plans[i].technical
      /\ \A i \in 1..n : plans[i].missing \subseteq joint.missing
  <2>1. DOMAIN plans = 1..n /\ \A i \in 1..n : plans[i].missing \subseteq lacking
    BY DEF Bears
  <2> QED BY <2>1, JointHolds
<1>6. \A b : Known(b).value = b /\ Known(b).missing = {}
  BY DEF Known
<1>7. Unknown(joint).value = None /\ Unknown(joint).technical = joint.technical
      /\ Unknown(joint).missing = joint.missing
  BY DEF Unknown
<1>8. n # 0 /\ 1 \in 1..n /\ known # {} /\ given # {}
  OBVIOUS
<1>9. CASE key = "not"
  <2>1. given = {verdicts[1]} /\ verdicts[1] \in Verdicts /\ plans[1].value \in Verdicts
    BY <1>9 DEF Opinions
  <2>2. v = IF verdicts[1] = None THEN None ELSE FALSE \in given
    <3> HIDE DEF given
    <3> QED BY <1>9, <2>1 DEF Reduce
  <2>3. p = IF plans[1].value = None THEN plans[1] ELSE Known(~plans[1].value)
    BY <1>9 DEF ReduceGroup
  <2>4. Bears(plans[1], verdicts[1], lacking) /\ (sure => Exact(plans[1], verdicts[1]))
    BY <1>8
  <2> HIDE DEF given, p, v, sure
  <2>5. CASE verdicts[1] = None
    <3>1. v = None
      BY <2>2, <2>5
    <3>2. plans[1].value = None => p = plans[1]
      BY <2>3
    <3>3. plans[1].value # None => p.value # None /\ p.missing = {}
      BY <1>1, <1>6, <2>1, <2>3
    <3> QED BY <1>1, <1>9, <2>4, <2>5, <3>1, <3>2, <3>3 DEF Bears, Exact, Verdicts
  <2>6. CASE verdicts[1] # None
    <3>1. v = (FALSE \in given)
      BY <2>2, <2>6
    <3>2. CASE plans[1].value = None
      <4>1. p = plans[1] /\ v \in BOOLEAN
        BY <2>3, <3>1, <3>2
      <4> QED BY <1>9, <2>4, <2>6, <3>2, <4>1 DEF Bears, Exact, Verdicts
    <3>3. CASE plans[1].value # None
      <4>1. verdicts[1] = plans[1].value /\ verdicts[1] \in BOOLEAN
        BY <2>1, <2>4, <2>6, <3>3 DEF Bears, Verdicts
      <4>2. v = ~verdicts[1]
        <5>1. v \in BOOLEAN
          BY <3>1
        <5>2. v <=> FALSE \in given
          BY <3>1, Zenon
        <5>3. FALSE \in given <=> verdicts[1] = FALSE
          BY <2>1
        <5> QED BY <4>1, <5>1, <5>2, <5>3
      <4>3. p = Known(~plans[1].value)
        BY <2>3, <3>3
      <4>4. p.value = v /\ p.missing = {} /\ v \in BOOLEAN
        BY <1>6, <4>1, <4>2, <4>3
      <4> QED BY <1>1, <1>9, <4>4 DEF Bears, Exact, Verdicts
    <3> QED BY <3>2, <3>3
  <2> QED BY <2>5, <2>6
<1>10. CASE key = "all"
  <2>1. v = IF FALSE \in given THEN FALSE ELSE IF None \in given THEN None ELSE TRUE
    BY <1>10 DEF Reduce
  <2>2. p = IF FALSE \in known THEN Known(FALSE)
            ELSE IF None \notin known THEN Known(TRUE) ELSE Unknown(joint)
    BY <1>10 DEF ReduceGroup
  <2> HIDE DEF given, p, v, known, joint
  <2>3. v \in Verdicts
    BY <2>1 DEF Verdicts
  <2>4. CASE FALSE \in known
    <3>1. PICK i \in 1..n : plans[i].value = FALSE
      BY <1>4, <2>4
    <3>2. verdicts[i] \in {FALSE, None} /\ (sure => verdicts[i] = FALSE)
      BY <1>1, <3>1 DEF Bears, Exact
    <3>3. v \in {FALSE, None} /\ (sure => v = FALSE)
      BY <1>2, <2>1, <3>2
    <3>4. p.value = FALSE /\ p.missing = {}
      BY <1>6, <2>2, <2>4
    <3> QED BY <1>1, <2>3, <3>3, <3>4 DEF Bears, Exact, Affirmed
  <2>5. CASE FALSE \notin known /\ None \notin known
    <3>1. \A i \in 1..n : plans[i].value = TRUE
      BY <1>3, <2>5 DEF Verdicts
    <3>2. \A i \in 1..n : verdicts[i] \in {TRUE, None} /\ (sure \/ apt => verdicts[i] = TRUE)
      BY <1>1, <3>1 DEF Bears, Exact, Affirmed
    <3>3. v \in {TRUE, None} /\ (sure \/ apt => v = TRUE)
      <4> HIDE DEF sure, apt
      <4>1. FALSE \notin given
        BY <1>1, <1>4, <3>2
      <4>2. ASSUME sure \/ apt PROVE None \notin given
        <5>1. \A i \in 1..n : verdicts[i] = TRUE
          BY <3>2, <4>2
        <5>2. \A b \in given : b = TRUE
          BY <1>4, <5>1
        <5>3. None # TRUE
          BY <1>1
        <5> QED BY <5>2, <5>3
      <4> QED BY <2>1, <4>1, <4>2
    <3>4. p.value = TRUE /\ p.missing = {}
      BY <1>6, <2>2, <2>5
    <3> HIDE DEF sure, apt
    <3> QED BY <1>1, <2>3, <3>3, <3>4 DEF Bears, Exact, Affirmed
  <2>6. CASE FALSE \notin known /\ None \in known
    <3>1. p = Unknown(joint)
      BY <2>2, <2>6
    <3>2. ASSUME ~joint.technical PROVE v = None /\ joint.missing # {}
      <4>1. \A i \in 1..n : ~plans[i].technical
        BY <1>5, <3>2
      <4>2. PICK i \in 1..n : plans[i].value = None
        BY <1>4, <2>6
      <4>3. verdicts[i] = None /\ plans[i].missing # {}
        BY <4>1, <4>2 DEF Bears
      <4>4. \A k \in 1..n : plans[k].value \in {TRUE, None}
        BY <1>3, <2>6 DEF Verdicts
      <4>5. \A k \in 1..n : verdicts[k] \in {TRUE, None}
        BY <4>1, <4>4 DEF Bears
      <4>6. FALSE \notin given /\ None \in given
        BY <1>1, <1>2, <1>4, <4>3, <4>5
      <4> QED BY <1>5, <2>1, <4>3, <4>6
    <3> HIDE DEF sure, apt
    <3> QED BY <1>1, <1>5, <1>7, <2>3, <3>1, <3>2 DEF Bears, Exact, Affirmed
  <2> QED BY <2>4, <2>5, <2>6
<1>11. CASE key = "any"
  <2>1. v = IF TRUE \in given THEN TRUE ELSE IF None \in given THEN None ELSE FALSE
    BY <1>11 DEF Reduce
  <2>2. p = IF TRUE \in known THEN Known(TRUE)
            ELSE IF None \notin known THEN Known(FALSE) ELSE Unknown(joint)
    BY <1>11 DEF ReduceGroup
  <2> HIDE DEF given, p, v, known, joint
  <2>3. v \in Verdicts
    BY <2>1 DEF Verdicts
  <2>4. CASE TRUE \in known
    <3>1. PICK i \in 1..n : plans[i].value = TRUE
      BY <1>4, <2>4
    <3>2. verdicts[i] \in {TRUE, None} /\ (sure \/ apt => verdicts[i] = TRUE)
      BY <1>1, <3>1 DEF Bears, Exact, Affirmed
    <3>3. v \in {TRUE, None} /\ (sure \/ apt => v = TRUE)
      BY <1>2, <2>1, <3>2
    <3>4. p.value = TRUE /\ p.missing = {}
      BY <1>6, <2>2, <2>4
    <3> HIDE DEF sure, apt
    <3> QED BY <1>1, <2>3, <3>3, <3>4 DEF Bears, Exact, Affirmed
  <2>5. CASE TRUE \notin known /\ None \notin known
    <3>1. \A i \in 1..n : plans[i].value = FALSE
      BY <1>3, <2>5 DEF Verdicts
    <3>2. \A i \in 1..n : verdicts[i] \in {FALSE, None} /\ (sure => verdicts[i] = FALSE)
      BY <1>1, <3>1 DEF Bears, Exact
    <3>3. v \in {FALSE, None} /\ (sure => v = FALSE)
      <4>1. TRUE \notin given /\ (sure => None \notin given)
        BY <1>1, <1>4, <3>2
      <4> QED BY <2>1, <4>1
    <3>4. p.value = FALSE /\ p.missing = {}
      BY <1>6, <2>2, <2>5
    <3> HIDE DEF sure, apt
    <3> QED BY <1>1, <2>3, <3>3, <3>4 DEF Bears, Exact, Affirmed
  <2>6. CASE TRUE \notin known /\ None \in known
    <3>1. p = Unknown(joint)
      BY <2>2, <2>6
    <3>2. ASSUME ~joint.technical PROVE v = None /\ joint.missing # {}
      <4>1. \A i \in 1..n : ~plans[i].technical
        BY <1>5, <3>2
      <4>2. PICK i \in 1..n : plans[i].value = None
        BY <1>4, <2>6
      <4>3. verdicts[i] = None /\ plans[i].missing # {}
        BY <4>1, <4>2 DEF Bears
      <4>4. \A k \in 1..n : plans[k].value \in {FALSE, None}
        BY <1>3, <2>6 DEF Verdicts
      <4>5. \A k \in 1..n : verdicts[k] \in {FALSE, None}
        BY <4>1, <4>4 DEF Bears
      <4>6. TRUE \notin given /\ None \in given
        BY <1>1, <1>2, <1>4, <4>3, <4>5
      <4> QED BY <1>5, <2>1, <4>3, <4>6
    <3> HIDE DEF sure, apt
    <3> QED BY <1>1, <1>5, <1>7, <2>3, <3>1, <3>2 DEF Bears, Exact, Affirmed
  <2> QED BY <2>4, <2>5, <2>6
<1> QED BY <1>9, <1>10, <1>11

Quotient(e, sheet) == \E x \in Parts[e] : x.kind = "math" /\ PlanExpr[<<x, sheet>>].value = NaN
Negation(e) == \E x \in Parts[e] : x.kind = "group" /\ x.key = "not"

\* What is judged is made of: operands, or what is judged below.
LEMMA JudgedMade ==
  ASSUME NEW c \in Judged
  PROVE  /\ c \in Expressions /\ c.kind \in {"condition", "group"}
         /\ c.kind = "condition" => /\ c.lhs \in Operands /\ c.rhs \in Operands
                                    /\ c.op \in {">", "<", ">=", "<="} \cup Crosses
                                    /\ c.op \in Crosses => \E t \in Parts[c.lhs] : t.kind = "term"
                                    /\ Children(c) = {c.lhs, c.rhs}
         /\ c.kind = "group" => /\ Children(c) = Range(c.items) /\ Len(c.items) \in Nat \ {0}
                                /\ c.items \in [1..Len(c.items) -> Judged]
                                /\ c.key \in {"all", "any"} \/ (c.key = "not" /\ Len(c.items) = 1)
<1>1. c \in Expressions /\ WellFormed(c) /\ c.kind \in {"condition", "group"}
  BY ScreenAssumption DEF Judged
<1>2. c.kind = "group" => c.items \in Seq(Judged) /\ c.items # <<>>
  BY <1>1 DEF WellFormed
<1>3. c.kind = "group" => c.items \in [1..Len(c.items) -> Judged] /\ Len(c.items) \in Nat \ {0}
  BY <1>2
<1>4. Children(c) = IF c.kind = "group" THEN Range(c.items) ELSE {c.lhs, c.rhs}
  BY <1>1 DEF Children
<1>5. c.kind = "condition" => /\ c.lhs \in Operands /\ c.rhs \in Operands
                              /\ c.op \in {">", "<", ">=", "<="} \cup Crosses
                              /\ c.op \in Crosses => \E t \in Parts[c.lhs] : t.kind = "term"
  BY <1>1 DEF WellFormed
<1>6. c.kind = "group" => c.key \in {"all", "any"} \/ (c.key = "not" /\ Len(c.items) = 1)
  BY <1>1 DEF WellFormed
<1> QED BY <1>1, <1>3, <1>4, <1>5, <1>6

\* A plan and a verdict of what is judged, and how they bear on one another.
Judges(c, p, v, sheet) ==
  /\ v \in Verdicts /\ Bears(p, v, Lacking(sheet))
  /\ ~Quotient(c, sheet) => Exact(p, v)
  /\ ~Negation(c) => Affirmed(p, v)

LEMMA ConditionOpines ==
  ASSUME NEW c \in Judged, c.kind = "condition", NEW sheet \in FactSheets
  PROVE  PlanCondition(c, sheet) \in Opinions
<1> DEFINE lp == PlanExpr[<<c.lhs, sheet>>]
           rp == PlanExpr[<<c.rhs, sheet>>]
           plans == <<lp, rp>>
           p == PlanCondition(c, sheet)
<1>1. lp \in Plans /\ rp \in Plans
  BY JudgedMade, OperandsSettled, Zenon DEF Settled
<1>2. p = IF None \in {lp.value, rp.value} \/ c.op \in Crosses THEN Unknown(Joint(plans))
          ELSE Known(Compare(c.op, lp.value, rp.value))
  BY DEF PlanCondition
<1>3. DOMAIN plans = 1..2 /\ \A i \in 1..2 : plans[i].missing \subseteq Facts
  <2>1. lp.missing \subseteq Facts /\ rp.missing \subseteq Facts
    <3> HIDE DEF lp, rp
    <3> QED BY <1>1 DEF Plans
  <2>2. DOMAIN plans = 1..2 /\ plans[1] = lp /\ plans[2] = rp
    OBVIOUS
  <2> HIDE DEF plans, lp, rp
  <2> QED BY <2>1, <2>2
<1>4. Joint(plans).technical \in BOOLEAN /\ Joint(plans).missing \subseteq Facts
  <2> HIDE DEF plans
  <2> QED BY <1>3, JointHolds
<1>5. Compare(c.op, lp.value, rp.value) \in BOOLEAN
  BY DEF Compare
<1> SUFFICES p \in Opinions
  OBVIOUS
<1> HIDE DEF p, plans, lp, rp
<1> QED BY <1>2, <1>4, <1>5 DEF Unknown, Known, Opinions, Verdicts

LEMMA ConditionJudged ==
  ASSUME NEW c \in Judged, c.kind = "condition", NEW sheet \in FactSheets, NEW reading \in Readings
  PROVE  Judges(c, PlanCondition(c, sheet), ConditionVerdict(c, sheet, reading), sheet)
<1> DEFINE lp == PlanExpr[<<c.lhs, sheet>>]
           rp == PlanExpr[<<c.rhs, sheet>>]
           ls == Series[<<c.lhs, sheet, reading>>]
           rs == Series[<<c.rhs, sheet, reading>>]
           p == PlanCondition(c, sheet)
           v == ConditionVerdict(c, sheet, reading)
           lacking == Lacking(sheet)
           read == {ls[2], rs[2]} \cup (IF c.op \in Crosses THEN {ls[1], rs[1]} ELSE {})
           joint == Joint(<<lp, rp>>)
<1> SUFFICES Judges(c, p, v, sheet)
  OBVIOUS
<1>1. /\ c.lhs \in Operands /\ c.rhs \in Operands /\ c.op \in {">", "<", ">=", "<="} \cup Crosses
      /\ c.op \in Crosses => \E t \in Parts[c.lhs] : t.kind = "term"
  BY JudgedMade
<1>2. Settled(c.lhs, sheet) /\ Settled(c.rhs, sheet)
  BY <1>1, OperandsSettled
<1>3. /\ lp \in Plans /\ rp \in Plans /\ ls \in Pairs /\ rs \in Pairs
      /\ Agrees(lp, ls, lacking) /\ Agrees(rp, rs, lacking)
      /\ c.op \in Crosses => lp.technical
      /\ lp.value = NaN => c.lhs.kind = "math"
      /\ rp.value = NaN => c.rhs.kind = "math"
  BY <1>1, <1>2, Zenon DEF Settled
<1>4. /\ joint.technical \in BOOLEAN /\ joint.missing \subseteq lacking
      /\ joint.technical <=> lp.technical \/ rp.technical
      /\ lp.missing \subseteq joint.missing /\ rp.missing \subseteq joint.missing
  <2> DEFINE plans == <<lp, rp>>
  <2>1. DOMAIN plans = 1..2 /\ plans[1] = lp /\ plans[2] = rp
    OBVIOUS
  <2>2. \A i \in 1..2 : plans[i].missing \subseteq lacking
    <3> HIDE DEF plans, lp, rp, ls, rs
    <3> QED BY <1>3, <2>1 DEF Agrees
  <2> SUFFICES /\ Joint(plans).technical \in BOOLEAN
               /\ Joint(plans).missing \subseteq lacking
               /\ Joint(plans).technical <=> lp.technical \/ rp.technical
               /\ lp.missing \subseteq Joint(plans).missing /\ rp.missing \subseteq Joint(plans).missing
    OBVIOUS
  <2> HIDE DEF plans, lp, rp, lacking
  <2>3. 2 \in Nat /\ 1 \in 1..2 /\ 2 \in 1..2 /\ \A i \in 1..2 : i = 1 \/ i = 2
    OBVIOUS
  <2>4. /\ Joint(plans).technical \in BOOLEAN /\ Joint(plans).missing \subseteq lacking
        /\ Joint(plans).technical <=> \E i \in 1..2 : plans[i].technical
        /\ \A i \in 1..2 : plans[i].missing \subseteq Joint(plans).missing
    BY <2>1, <2>2, <2>3, JointHolds
  <2> QED BY <2>1, <2>3, <2>4
<1>5. p = IF None \in {lp.value, rp.value} \/ c.op \in Crosses THEN Unknown(joint)
          ELSE Known(Compare(c.op, lp.value, rp.value))
  BY DEF PlanCondition
<1>6. /\ NaN \in read => v = None
      /\ NaN \notin read /\ c.op \notin Crosses => v = Compare(c.op, ls[2], rs[2])
      /\ v \in Verdicts
  <2>1. \A op, a, b : Compare(op, a, b) \in BOOLEAN
    BY DEF Compare
  <2>2. v = IF NaN \in read THEN None
            ELSE CASE c.op = "crosses_above" -> ls[1] <= rs[1] /\ ls[2] > rs[2]
                   [] c.op = "crosses_below" -> ls[1] >= rs[1] /\ ls[2] < rs[2]
                   [] OTHER -> Compare(c.op, ls[2], rs[2])
    BY DEF ConditionVerdict
  <2> HIDE DEF v, ls, rs, read
  <2>3. v \in Verdicts
    BY <2>1, <2>2 DEF Verdicts
  <2>4. NaN \notin read /\ c.op \notin Crosses => v = Compare(c.op, ls[2], rs[2])
    BY <2>2 DEF Crosses
  <2> QED BY <2>2, <2>3, <2>4
<1>7. None \notin BOOLEAN /\ None # NaN
  BY ScreenAssumption
<1>8. c.op \notin Crosses => read = {ls[2], rs[2]}
  OBVIOUS
<1>9. ls[2] \in read /\ rs[2] \in read
  OBVIOUS
<1>10. CASE None \in {lp.value, rp.value} \/ c.op \in Crosses
  <2> HIDE DEF p, v, lp, rp, ls, rs, joint, read, lacking
  <2>1. p = Unknown(joint)
    BY <1>5, <1>10
  <2>2. p.value = None /\ p.technical = joint.technical /\ p.missing = joint.missing
    BY <2>1 DEF Unknown
  <2>3. ASSUME ~joint.technical PROVE v = None /\ joint.missing # {}
    <3>1. ~lp.technical /\ ~rp.technical /\ None \in {lp.value, rp.value}
      BY <1>3, <1>4, <1>10, <2>3
    <3>2. NaN \in {ls[2], rs[2]} /\ (lp.missing # {} \/ rp.missing # {})
      BY <1>3, <3>1 DEF Agrees
    <3> QED BY <1>4, <1>6, <1>9, <3>2
  <2> QED BY <1>4, <1>6, <1>7, <2>2, <2>3 DEF Judges, Bears, Exact, Affirmed, lacking
<1>11. CASE ~(None \in {lp.value, rp.value} \/ c.op \in Crosses)
  <2>1. Quotient(c, sheet) \/ NaN \notin {lp.value, rp.value}
    <3>1. Parts[c] = {c} \cup UNION {Parts[o] : o \in {c.lhs, c.rhs}}
      BY PartsAt, JudgedMade
    <3>2. c.lhs \in Parts[c.lhs] /\ c.rhs \in Parts[c.rhs]
      BY <1>1, PartsAt, OperandsMade
    <3> QED BY <1>3, <3>1, <3>2 DEF Quotient
  <2> HIDE DEF p, v, lp, rp, ls, rs, joint, read, lacking
  <2> DEFINE said == Compare(c.op, lp.value, rp.value)
  <2>2. said \in BOOLEAN /\ (NaN \in {lp.value, rp.value} => said = FALSE)
    BY DEF Compare
  <2>3. p = Known(said)
    BY <1>5, <1>11
  <2>4. ls[2] = lp.value /\ rs[2] = rp.value
    BY <1>3, <1>11 DEF Agrees
  <2>5. /\ NaN \in {lp.value, rp.value} => v = None
        /\ NaN \notin {lp.value, rp.value} => v = said
    BY <1>6, <1>8, <1>11, <2>4
  <2> HIDE DEF said
  <2>6. p.value = said /\ p.missing = {}
    BY <2>3 DEF Known
  <2> QED BY <1>6, <1>7, <2>1, <2>2, <2>5, <2>6 DEF Judges, Bears, Exact, Affirmed
<1> QED BY <1>10, <1>11

\* The plan of what is judged, from the plans of what it is made of.
OpinedFrom(x, h) ==
  LET e == x[1] IN
  IF e.kind = "condition" THEN PlanCondition(e, x[2])
  ELSE ReduceGroup(e.key, [i \in DOMAIN e.items |-> h[<<e.items[i], x[2]>>]])

LEMMA OpinedTyped ==
  ASSUME NEW e \in Judged, NEW sheet \in FactSheets, NEW h,
         e.kind = "group" => \A i \in DOMAIN e.items : h[<<e.items[i], sheet>>] \in Opinions
  PROVE  OpinedFrom(<<e, sheet>>, h) \in Opinions
<1>1. e.kind = "condition" => PlanCondition(e, sheet) \in Opinions
  BY ConditionOpines
<1>2. ASSUME e.kind = "group"
      PROVE  ReduceGroup(e.key, [i \in DOMAIN e.items |-> h[<<e.items[i], sheet>>]]) \in Opinions
  <2> DEFINE plans == [i \in DOMAIN e.items |-> h[<<e.items[i], sheet>>]]
  <2> SUFFICES ReduceGroup(e.key, plans) \in Opinions
    OBVIOUS
  <2>1. Len(e.items) \in Nat \ {0} /\ DOMAIN e.items = 1..Len(e.items)
        /\ (e.key \in {"all", "any"} \/ (e.key = "not" /\ Len(e.items) = 1))
    BY <1>2, JudgedMade
  <2>2. plans \in [1..Len(e.items) -> Opinions]
    BY <1>2, <2>1
  <2> HIDE DEF plans
  <2> QED BY <2>1, <2>2, GroupOpines
<1> QED BY <1>1, <1>2, JudgedMade DEF OpinedFrom

LEMMA GroupUnfolds ==
  PlanGroup = [x \in Judged \X FactSheets |-> OpinedFrom(x, PlanGroup)]
<1> DEFINE S == Judged \X FactSheets
           V == Opinions
           B == [x \in S |-> [h \in [S -> V] |-> OpinedFrom(x, h)]]
<1>1. \A x \in S : x[1].kind = "group" =>
        \A i \in DOMAIN x[1].items :
          <<x[1].items[i], x[2]>> \in S /\ HeightOf[x[1].items[i]] < HeightOf[x[1]]
  BY JudgedMade, BelowIsLower DEF Range
<1>2. V # {} /\ \A x \in S : x[1] \in Expressions
  <2>1. [value |-> None, technical |-> FALSE, missing |-> {}] \in Opinions
    BY DEF Opinions, Verdicts
  <2> QED BY <2>1, JudgedMade
<1>3. \A x \in S : \A h \in [S -> V] : B[x][h] = OpinedFrom(x, h) /\ OpinedFrom(x, h) \in V
  <2>1. ASSUME NEW x \in S, NEW h \in [S -> V] PROVE OpinedFrom(x, h) \in V
    <3>1. x[1] \in Judged /\ x[2] \in FactSheets /\ x = <<x[1], x[2]>>
      OBVIOUS
    <3>2. x[1].kind = "group" => \A i \in DOMAIN x[1].items : h[<<x[1].items[i], x[2]>>] \in Opinions
      BY <1>1
    <3> HIDE DEF S
    <3>3. OpinedFrom(<<x[1], x[2]>>, h) \in Opinions
      BY <3>1, <3>2, OpinedTyped
    <3> QED BY <3>1, <3>3
  <2>2. \A x \in S : \A h \in [S -> V] : B[x][h] = OpinedFrom(x, h)
    <3> HIDE DEF V, S
    <3> QED OBVIOUS
  <2> HIDE DEF B, V, S
  <2> QED BY <2>1, <2>2
<1>4. ASSUME NEW x \in S, NEW h \in [S -> V], NEW g \in [S -> V],
             \A y \in S : HeightOf[y[1]] < HeightOf[x[1]] => h[y] = g[y]
      PROVE  B[x][h] = B[x][g]
  <2>1. x[1].kind = "group" => [i \in DOMAIN x[1].items |-> h[<<x[1].items[i], x[2]>>]]
                                 = [i \in DOMAIN x[1].items |-> g[<<x[1].items[i], x[2]>>]]
    <3>1. ASSUME x[1].kind = "group", NEW i \in DOMAIN x[1].items
          PROVE  h[<<x[1].items[i], x[2]>>] = g[<<x[1].items[i], x[2]>>]
      <4> DEFINE y == <<x[1].items[i], x[2]>>
      <4>1. y \in S /\ HeightOf[y[1]] < HeightOf[x[1]]
        BY <1>1, <3>1
      <4> HIDE DEF y, S
      <4>2. h[y] = g[y]
        BY <1>4, <4>1
      <4> QED BY <4>2 DEF y
    <3> QED BY <3>1
  <2>2. OpinedFrom(x, h) = OpinedFrom(x, g)
    BY <2>1, JudgedMade DEF OpinedFrom
  <2> HIDE DEF S, V, B
  <2> QED BY <1>3, <2>2
<1>5. PICK f \in [S -> V] : \A x \in S : f[x] = B[x][f]
  <2> HIDE DEF V, B, S
  <2>1. Climbs(S, V, B)
    BY <1>2, <1>3, <1>4 DEF Climbs
  <2> QED BY <2>1, SolvedFromBelow
<1>6. f = [x \in S |-> OpinedFrom(x, f)]
  <2> HIDE DEF V, B, S
  <2> QED BY <1>3, <1>5
<1>7. PlanGroup = CHOOSE g : g = [x \in S |-> OpinedFrom(x, g)]
  BY Zenon DEF PlanGroup, OpinedFrom
<1> HIDE DEF S
<1> QED BY <1>6, <1>7, Zenon DEF S

LEMMA PlanGroupAt ==
  ASSUME NEW e \in Judged, NEW sheet \in FactSheets
  PROVE  PlanGroup[<<e, sheet>>] =
           IF e.kind = "condition" THEN PlanCondition(e, sheet)
           ELSE ReduceGroup(e.key, [i \in DOMAIN e.items |-> PlanGroup[<<e.items[i], sheet>>]])
<1> DEFINE x == <<e, sheet>>
           S == Judged \X FactSheets
<1>1. x \in S /\ x[1] = e /\ x[2] = sheet
  OBVIOUS
<1>2. PlanGroup[x] = OpinedFrom(x, PlanGroup)
  <2>1. PlanGroup = [y \in S |-> OpinedFrom(y, PlanGroup)]
    BY GroupUnfolds
  <2> HIDE DEF x, S
  <2> QED BY <1>1, <2>1, Zenon
<1> QED BY <1>1, <1>2, Zenon DEF OpinedFrom

\* The verdict of what is judged, from the verdicts of what it is made of.
JudgedFrom(x, h) ==
  LET e == x[1] IN
  IF e.kind = "condition" THEN ConditionVerdict(e, x[2], x[3])
  ELSE Reduce(e.key, {h[<<o, x[2], x[3]>>] : o \in Range(e.items)})

LEMMA JudgedTyped ==
  ASSUME NEW e \in Judged, NEW sheet \in FactSheets, NEW reading \in Readings, NEW h,
         e.kind = "group" => \A o \in Range(e.items) : h[<<o, sheet, reading>>] \in Verdicts
  PROVE  JudgedFrom(<<e, sheet, reading>>, h) \in Verdicts
<1>1. e.kind = "condition" => ConditionVerdict(e, sheet, reading) \in Verdicts
  BY ConditionJudged DEF Judges
<1>2. ASSUME e.kind = "group"
      PROVE  Reduce(e.key, {h[<<o, sheet, reading>>] : o \in Range(e.items)}) \in Verdicts
  <2> DEFINE given == {h[<<o, sheet, reading>>] : o \in Range(e.items)}
  <2>1. e.key \in {"all", "any", "not"}
    BY <1>2, JudgedMade
  <2> SUFFICES Reduce(e.key, given) \in Verdicts
    OBVIOUS
  <2> HIDE DEF given
  <2> QED BY <2>1 DEF Reduce, Verdicts
<1> QED BY <1>1, <1>2, JudgedMade DEF JudgedFrom

LEMMA VerdictUnfolds ==
  GroupVerdict = [x \in Judged \X FactSheets \X Readings |-> JudgedFrom(x, GroupVerdict)]
<1> DEFINE S == Judged \X FactSheets \X Readings
           V == Verdicts
           B == [x \in S |-> [h \in [S -> V] |-> JudgedFrom(x, h)]]
<1>1. \A x \in S : x[1].kind = "group" =>
        \A o \in Range(x[1].items) :
          <<o, x[2], x[3]>> \in S /\ HeightOf[o] < HeightOf[x[1]]
  BY JudgedMade, BelowIsLower DEF Range
<1>2. V # {} /\ \A x \in S : x[1] \in Expressions
  BY JudgedMade DEF Verdicts
<1>3. \A x \in S : \A h \in [S -> V] : B[x][h] = JudgedFrom(x, h) /\ JudgedFrom(x, h) \in V
  <2>1. ASSUME NEW x \in S, NEW h \in [S -> V] PROVE JudgedFrom(x, h) \in V
    <3>1. x[1] \in Judged /\ x[2] \in FactSheets /\ x[3] \in Readings /\ x = <<x[1], x[2], x[3]>>
      OBVIOUS
    <3>2. x[1].kind = "group" => \A o \in Range(x[1].items) : h[<<o, x[2], x[3]>>] \in Verdicts
      BY <1>1
    <3> HIDE DEF S
    <3>3. JudgedFrom(<<x[1], x[2], x[3]>>, h) \in Verdicts
      BY <3>1, <3>2, JudgedTyped
    <3> QED BY <3>1, <3>3
  <2>2. \A x \in S : \A h \in [S -> V] : B[x][h] = JudgedFrom(x, h)
    <3> HIDE DEF V, S
    <3> QED OBVIOUS
  <2> HIDE DEF B, V, S
  <2> QED BY <2>1, <2>2
<1>4. ASSUME NEW x \in S, NEW h \in [S -> V], NEW g \in [S -> V],
             \A y \in S : HeightOf[y[1]] < HeightOf[x[1]] => h[y] = g[y]
      PROVE  B[x][h] = B[x][g]
  <2>1. ASSUME x[1].kind = "group", NEW o \in Range(x[1].items)
        PROVE  h[<<o, x[2], x[3]>>] = g[<<o, x[2], x[3]>>]
    <3> DEFINE y == <<o, x[2], x[3]>>
    <3>1. y \in S /\ HeightOf[y[1]] < HeightOf[x[1]]
      BY <1>1, <2>1
    <3> HIDE DEF y, S
    <3>2. h[y] = g[y]
      BY <1>4, <3>1
    <3> QED BY <3>2 DEF y
  <2>2. x[1].kind = "group" => {h[<<o, x[2], x[3]>>] : o \in Range(x[1].items)}
                                 = {g[<<o, x[2], x[3]>>] : o \in Range(x[1].items)}
    BY <2>1
  <2>3. JudgedFrom(x, h) = JudgedFrom(x, g)
    BY <2>2, JudgedMade DEF JudgedFrom
  <2> HIDE DEF S, V, B
  <2> QED BY <1>3, <2>3
<1>5. PICK f \in [S -> V] : \A x \in S : f[x] = B[x][f]
  <2> HIDE DEF V, B, S
  <2>1. Climbs(S, V, B)
    BY <1>2, <1>3, <1>4 DEF Climbs
  <2> QED BY <2>1, SolvedFromBelow
<1>6. f = [x \in S |-> JudgedFrom(x, f)]
  <2> HIDE DEF V, B, S
  <2> QED BY <1>3, <1>5
<1>7. GroupVerdict = CHOOSE g : g = [x \in S |-> JudgedFrom(x, g)]
  BY Zenon DEF GroupVerdict, JudgedFrom
<1> HIDE DEF S
<1> QED BY <1>6, <1>7, Zenon DEF S

LEMMA GroupVerdictAt ==
  ASSUME NEW e \in Judged, NEW sheet \in FactSheets, NEW reading \in Readings
  PROVE  GroupVerdict[<<e, sheet, reading>>] =
           IF e.kind = "condition" THEN ConditionVerdict(e, sheet, reading)
           ELSE Reduce(e.key, {GroupVerdict[<<o, sheet, reading>>] : o \in Range(e.items)})
<1> DEFINE x == <<e, sheet, reading>>
           S == Judged \X FactSheets \X Readings
<1>1. x \in S /\ x[1] = e /\ x[2] = sheet /\ x[3] = reading
  OBVIOUS
<1>2. GroupVerdict[x] = JudgedFrom(x, GroupVerdict)
  <2>1. GroupVerdict = [y \in S |-> JudgedFrom(y, GroupVerdict)]
    BY VerdictUnfolds
  <2> HIDE DEF x, S
  <2> QED BY <1>1, <2>1, Zenon
<1> QED BY <1>1, <1>2, Zenon DEF JudgedFrom

\* Whatever the facts decide, they decide as any bars would, but for the two
\* of a negated quotient.
Decided(e, sheet) ==
  /\ PlanGroup[<<e, sheet>>] \in Opinions
  /\ \A reading \in Readings :
       Judges(e, PlanGroup[<<e, sheet>>], GroupVerdict[<<e, sheet, reading>>], sheet)

LEMMA GroupDecided ==
  ASSUME NEW e \in Judged, NEW sheet \in FactSheets, e.kind = "group",
         \A o \in Range(e.items) : Decided(o, sheet)
  PROVE  Decided(e, sheet)
<1> DEFINE n == Len(e.items)
           p == PlanGroup[<<e, sheet>>]
           plans == [i \in DOMAIN e.items |-> PlanGroup[<<e.items[i], sheet>>]]
<1>1. n \in Nat \ {0} /\ DOMAIN e.items = 1..n /\ (\A i \in 1..n : e.items[i] \in Judged)
      /\ (e.key \in {"all", "any"} \/ (e.key = "not" /\ n = 1))
  BY JudgedMade
<1>2. p = ReduceGroup(e.key, plans)
  BY PlanGroupAt
<1>3. \A i \in 1..n : Decided(e.items[i], sheet) /\ e.items[i] \in Range(e.items)
  BY <1>1 DEF Range
<1>4. plans \in [1..n -> Opinions]
  BY <1>1, <1>3 DEF Decided
<1>5. p \in Opinions
  <2> HIDE DEF plans, p, n
  <2> QED BY <1>1, <1>2, <1>4, GroupOpines
<1>6. Parts[e] = {e} \cup UNION {Parts[o] : o \in Range(e.items)}
  BY PartsAt, JudgedMade
<1>7. \A i \in 1..n : /\ Quotient(e.items[i], sheet) => Quotient(e, sheet)
                      /\ Negation(e.items[i]) => Negation(e)
  <2>1. \A i \in 1..n : Parts[e.items[i]] \subseteq Parts[e]
    BY <1>3, <1>6
  <2> QED BY <2>1 DEF Quotient, Negation
<1>8. e.key = "not" => Negation(e)
  BY <1>6 DEF Negation
<1>9. ASSUME NEW reading \in Readings
      PROVE  Judges(e, p, GroupVerdict[<<e, sheet, reading>>], sheet)
  <2> DEFINE v == GroupVerdict[<<e, sheet, reading>>]
             verdicts == [i \in 1..n |-> GroupVerdict[<<e.items[i], sheet, reading>>]]
  <2>1. v = Reduce(e.key, {GroupVerdict[<<o, sheet, reading>>] : o \in Range(e.items)})
    BY GroupVerdictAt
  <2>2. {GroupVerdict[<<o, sheet, reading>>] : o \in Range(e.items)} = {verdicts[i] : i \in 1..n}
    BY <1>1 DEF Range
  <2>3. \A i \in 1..n : Judges(e.items[i], plans[i], verdicts[i], sheet)
    <3>1. \A i \in 1..n : plans[i] = PlanGroup[<<e.items[i], sheet>>]
                          /\ verdicts[i] = GroupVerdict[<<e.items[i], sheet, reading>>]
      BY <1>1
    <3> HIDE DEF plans, verdicts, n
    <3> QED BY <1>3, <3>1 DEF Decided
  <2>4. verdicts \in [1..n -> Verdicts]
    <3>1. \A i \in 1..n : verdicts[i] \in Verdicts
      <4> HIDE DEF plans, verdicts, n
      <4> QED BY <2>3 DEF Judges
    <3> QED BY <3>1
  <2> SUFFICES Judges(e, p, v, sheet)
    OBVIOUS
  <2> HIDE DEF plans, verdicts, n, p, v
  <2>5. v = Reduce(e.key, {verdicts[i] : i \in 1..n})
    BY <2>1, <2>2
  <2>6. \A i \in 1..n : Bears(plans[i], verdicts[i], Lacking(sheet))
    BY <2>3 DEF Judges
  <2>7. /\ v \in Verdicts /\ Bears(p, v, Lacking(sheet))
        /\ (\A i \in 1..n : Exact(plans[i], verdicts[i])) => Exact(p, v)
        /\ e.key # "not" /\ (\A i \in 1..n : Affirmed(plans[i], verdicts[i])) => Affirmed(p, v)
    BY <1>1, <1>2, <1>4, <2>4, <2>5, <2>6, GroupBears
  <2>8. ~Quotient(e, sheet) => \A i \in 1..n : Exact(plans[i], verdicts[i])
    BY <1>7, <2>3 DEF Judges
  <2>9. ~Negation(e) => e.key # "not" /\ \A i \in 1..n : Affirmed(plans[i], verdicts[i])
    BY <1>7, <1>8, <2>3 DEF Judges
  <2> QED BY <2>7, <2>8, <2>9 DEF Judges
<1> QED BY <1>5, <1>9 DEF Decided

LEMMA AllDecided == \A e \in Judged, sheet \in FactSheets : Decided(e, sheet)
<1> DEFINE Good == {e \in Expressions : e \in Judged => \A sheet \in FactSheets : Decided(e, sheet)}
<1>1. ASSUME NEW e \in Expressions, Children(e) \subseteq Good PROVE e \in Good
  <2> SUFFICES ASSUME e \in Judged, NEW sheet \in FactSheets PROVE Decided(e, sheet)
    OBVIOUS
  <2>1. CASE e.kind = "group"
    <3>1. Range(e.items) \subseteq Good /\ Range(e.items) \subseteq Judged
      BY <1>1, <2>1, JudgedMade DEF Range
    <3>2. \A o \in Range(e.items) : Decided(o, sheet)
      BY <3>1
    <3> QED BY <2>1, <3>2, GroupDecided
  <2>2. CASE e.kind = "condition"
    <3>1. PlanGroup[<<e, sheet>>] = PlanCondition(e, sheet)
      BY <2>2, PlanGroupAt
    <3>2. \A reading \in Readings :
            GroupVerdict[<<e, sheet, reading>>] = ConditionVerdict(e, sheet, reading)
      BY <2>2, GroupVerdictAt
    <3> QED BY <2>2, <3>1, <3>2, ConditionOpines, ConditionJudged DEF Decided
  <2> QED BY <2>1, <2>2, JudgedMade
<1>2. Expressions \subseteq Good
  <2> HIDE DEF Good
  <2> QED BY <1>1, FromBelow
<1> QED BY <1>2, JudgedMade

-----------------------------------------------------------------------------
(* A run. *)

ScreenRows == [symbol : Nat, matched : Verdicts, priced : BOOLEAN, noted : BOOLEAN]

ScreenTypes ==
  /\ screen \in Screens \cup {None} /\ facts \in FactSheets \cup {None}
  /\ turn \in {"plan", "derive", "read"} /\ noted \in BOOLEAN
  /\ unscreened \in Seq(Nat) /\ report \in Seq(ScreenRows)
  /\ facts # None => screen # None /\ unscreened # <<>>
  /\ turn # "plan" => facts # None

\* The pairs of this turn that a provider serves.
InTurn(sym, tf) == <<sym, tf>> \in SyncPairs(Head(unscreened)) /\ Source(tf) \in served

\* While no sync of this turn has failed, the source of every pair that a
\* provider serves was refreshed, and by the read the pair itself.
TurnFresh ==
  /\ turn = "derive" /\ ~noted =>
       \A sym \in Nat, tf \in Timeframes : InTurn(sym, tf) => <<sym, Source(tf)>> \in fresh
  /\ turn = "read" /\ ~noted =>
       \A sym \in Nat, tf \in Timeframes :
         InTurn(sym, tf) => <<sym, Source(tf)>> \in fresh /\ <<sym, tf>> \in fresh

ScreenInv == ScreenTypes /\ TurnFresh

LEMMA ScreenFacts ==
  ASSUME NEW spec \in Screens
  PROVE  /\ spec.conditions \in Judged /\ spec.conditions \in Expressions /\ spec.tf \in Timeframes
         /\ spec # None
<1>1. spec.conditions \in Groups /\ spec.tf \in Timeframes /\ spec # None
  BY ScreenAssumption
<1> QED BY <1>1, JudgedMade DEF Groups

\* Whatever is named is a number, and there are finitely many of it.
LEMMA UniverseTyped ==
  ASSUME NEW watched \in Watchlists, NEW named \in NamedLists, ~ListRefused(named)
  PROVE  ResolveUniverse(watched, named) \in SUBSET Nat /\ IsFiniteSet(ResolveUniverse(watched, named))
<1>1. ASSUME NEW names \in Seq(DOMAIN TickerOf) PROVE IsFiniteSet(Spelled(names))
  <2>1. IsFiniteSet(1..Len(names)) /\ DOMAIN names = 1..Len(names)
    <3>1. Len(names) \in Nat /\ DOMAIN names = 1..Len(names)
      OBVIOUS
    <3>2. IsFiniteSet(1..Len(names))
      BY <3>1, FS_Interval
    <3> QED BY <3>1, <3>2
  <2> DEFINE f == [i \in 1..Len(names) |-> TickerOf[names[i]]]
             image == {f[i] : i \in 1..Len(names)}
  <2>2. f \in Surjection(1..Len(names), image)
    BY DEF Surjection
  <2>3. IsFiniteSet(image)
    <3> HIDE DEF f, image
    <3> QED BY <2>1, <2>2, FS_Surjection
  <2>4. Spelled(names) = image
    BY <2>1 DEF Spelled
  <2> QED BY <2>3, <2>4
<1>2. watched \in Seq({name \in DOMAIN TickerOf : TickerOf[name] \in Nat}) /\ named \in Seq(DOMAIN TickerOf)
  BY ScreenAssumption
<1>3. watched \in Seq(DOMAIN TickerOf) /\ Spelled(watched) \subseteq Nat
  BY <1>2 DEF Spelled
<1>4. ValidateSymbols(named) \subseteq Nat
  BY ScreenAssumption DEF ListRefused
<1>5. IsFiniteSet(Spelled(watched)) /\ IsFiniteSet(Spelled(named))
  BY <1>1, <1>2, <1>3
<1>6. IsFiniteSet(Spelled(watched) \cup Spelled(named))
  BY <1>5, FS_Union
<1>7. ResolveUniverse(watched, named) \subseteq Spelled(watched) \cup Spelled(named)
  BY DEF ResolveUniverse, ValidateSymbols
<1>8. IsFiniteSet(ResolveUniverse(watched, named))
  BY <1>6, <1>7, FS_Subset
<1> QED BY <1>3, <1>4, <1>8 DEF ResolveUniverse

\* The row a turn ends with, and what is left of the turn.
LEMMA TurnOver ==
  ASSUME ScreenTypes, facts # None, NEW matched \in Verdicts, NEW priced \in BOOLEAN,
         EndTurn(matched, priced)
  PROVE  /\ ScreenInv'
         /\ Head(unscreened) \in Nat
         /\ Added = [symbol |-> Head(unscreened), matched |-> matched,
                     priced |-> priced, noted |-> noted]
<1> DEFINE row == [symbol |-> Head(unscreened), matched |-> matched, priced |-> priced, noted |-> noted]
<1>1. unscreened \in Seq(Nat) /\ unscreened # <<>> /\ report \in Seq(ScreenRows) /\ noted \in BOOLEAN
  BY DEF ScreenTypes
<1>2. Head(unscreened) \in Nat /\ Tail(unscreened) \in Seq(Nat)
  BY <1>1
<1>3. row \in ScreenRows
  BY <1>1, <1>2 DEF ScreenRows
<1>4. report' = Append(report, row) /\ unscreened' = Tail(unscreened) /\ facts' = None /\ turn' = "plan"
      /\ noted' = FALSE /\ screen' = screen
  BY DEF EndTurn
<1> HIDE DEF row
<1>5. report' \in Seq(ScreenRows) /\ report'[Len(report')] = row
  BY <1>1, <1>3, <1>4
<1>6. ScreenTypes'
  BY <1>2, <1>4, <1>5 DEF ScreenTypes
<1>7. TurnFresh'
  BY <1>4 DEF TurnFresh
<1> QED BY <1>2, <1>5, <1>6, <1>7 DEF ScreenInv, Added, row

LEMMA PlanTyped ==
  ASSUME ScreenTypes, facts # None
  PROVE  /\ screen \in Screens /\ facts \in FactSheets /\ unscreened # <<>>
         /\ Decided(screen.conditions, facts) /\ Plan = PlanGroup[<<screen.conditions, facts>>]
<1>1. screen \in Screens /\ facts \in FactSheets /\ unscreened # <<>>
  BY DEF ScreenTypes
<1>2. Decided(screen.conditions, facts)
  BY <1>1, ScreenFacts, AllDecided
<1> QED BY <1>1, <1>2 DEF Plan

LEMMA RowRead ==
  ASSUME ScreenTypes, ReadLastRow
  PROVE  facts # None /\ \E matched \in Verdicts, priced \in BOOLEAN : EndTurn(matched, priced)
<1>1. facts # None
  BY DEF ReadLastRow, ScreenTypes
<1>2. PICK bars \in BarCounts :
        IF bars < MaxLookback(screen) THEN EndTurn(None, FALSE)
        ELSE \E reading \in Readings :
               LET judged == GroupVerdict[<<screen.conditions, facts, reading>>] IN
               IF judged = None /\ Plan.missing # {} THEN EndTurn(None, TRUE)
               ELSE EndTurn(judged = TRUE, TRUE)
  BY DEF ReadLastRow
<1>3. \A v : (v = TRUE) \in Verdicts
  BY DEF Verdicts
<1>4. None \in Verdicts /\ TRUE \in BOOLEAN /\ FALSE \in BOOLEAN
  BY DEF Verdicts
<1> QED BY <1>1, <1>2, <1>3, <1>4

LEMMA ScreenInitiated == ScreenInit => ScreenInv
<1> SUFFICES ASSUME ScreenInit PROVE ScreenInv
  OBVIOUS
<1>1. /\ screen = None /\ unscreened = <<>> /\ facts = None /\ turn = "plan"
      /\ noted = FALSE /\ report = <<>>
  BY DEF ScreenInit
<1>2. unscreened \in Seq(Nat) /\ report \in Seq(ScreenRows)
  BY <1>1
<1>3. TurnFresh
  BY <1>1 DEF TurnFresh
<1> QED BY <1>1, <1>2, <1>3 DEF ScreenInv, ScreenTypes

LEMMA ScreenUnchanged == ScreenInv /\ UNCHANGED screenVars => ScreenInv'
<1> SUFFICES ASSUME ScreenInv, UNCHANGED screenVars PROVE ScreenInv'
  OBVIOUS
<1>1. UNCHANGED <<screen, served, unscreened, facts, turn, fresh, noted, report>>
  BY DEF screenVars
<1>2. ScreenTypes'
  BY <1>1 DEF ScreenInv, ScreenTypes
<1>3. \A sym, tf : InTurn(sym, tf)' = InTurn(sym, tf)
  BY <1>1 DEF InTurn, SyncPairs, References
<1>4. TurnFresh'
  BY <1>1, <1>3 DEF ScreenInv, TurnFresh
<1> QED BY <1>2, <1>4 DEF ScreenInv

LEMMA ScreenInductive == ScreenInv /\ [ScreenNext]_screenVars => ScreenInv'
<1> SUFFICES ASSUME ScreenInv, ScreenNext PROVE ScreenInv'
  BY ScreenUnchanged
<1> USE DEF ScreenInv
<1>1. CASE RunScreen
  <2>1. PICK spec \in Screens, watched \in Watchlists, named \in NamedLists, p \in SUBSET Providers :
          /\ ~ListRefused(named) /\ screen' = spec
          /\ unscreened' = LET all == ResolveUniverse(watched, named) IN SortedBy(all, [n \in all |-> n])
    BY <1>1 DEF RunScreen
  <2> DEFINE all == ResolveUniverse(watched, named)
             key == [n \in all |-> n]
  <2>2. all \in SUBSET Nat /\ IsFiniteSet(all)
    BY <2>1, UniverseTyped
  <2>3. unscreened' = SortedBy(all, key)
    BY <2>1
  <2>4. (\A n \in all : key[n] \in Nat) /\ \A m, n \in all : key[m] = key[n] => m = n
    BY <2>2
  <2>5. unscreened' \in Seq(Nat)
    <3> HIDE DEF key, all
    <3>1. unscreened' \in Seq(all)
      BY <2>2, <2>3, <2>4, SortedHolds
    <3>2. Len(unscreened') \in Nat /\ unscreened' \in [1..Len(unscreened') -> all]
      BY <3>1
    <3>3. unscreened' \in [1..Len(unscreened') -> Nat]
      BY <2>2, <3>2
    <3> QED BY <3>2, <3>3
  <2>6. facts = None /\ turn = "plan" /\ UNCHANGED <<facts, turn, fresh, noted, report, errors, skipped>>
    BY <1>1 DEF RunScreen, ScreenTypes
  <2> QED BY <2>1, <2>5, <2>6 DEF ScreenTypes, TurnFresh
<1>2. CASE RefuseNames
  BY <1>2, ScreenUnchanged DEF RefuseNames
<1>3. CASE NextSymbol
  <2>1. turn = "plan" /\ turn' = "plan"
    BY <1>3 DEF NextSymbol, ScreenTypes
  <2> QED BY <1>3, <2>1 DEF NextSymbol, ScreenTypes, TurnFresh
<1>4. CASE SettleByFacts
  <2>1. facts # None /\ EndTurn(Plan.value, FALSE)
    BY <1>4 DEF SettleByFacts
  <2>2. Plan.value \in Verdicts
    BY <2>1, PlanTyped DEF Decided, Opinions
  <2> QED BY <2>1, <2>2, TurnOver
<1>5. CASE Sync
  <2> DEFINE s == Head(unscreened)
             asked == {p \in SyncPairs(s) : Source(p[2]) \in served}
  <2>1. PICK failed \in SUBSET asked :
          /\ fresh' = {<<p[1], Source(p[2])>> : p \in asked \ failed}
          /\ noted' = (failed # {})
    BY <1>5 DEF Sync
  <2>2. turn' = "derive" /\ UNCHANGED <<screen, served, unscreened, facts, report, skipped>> /\ facts # None
    BY <1>5 DEF Sync
  <2>3. ASSUME ~noted', NEW sym \in Nat, NEW tf \in Timeframes, InTurn(sym, tf)'
        PROVE  <<sym, Source(tf)>> \in fresh'
    <3> DEFINE p == <<sym, tf>>
    <3>1. p \in asked /\ p[1] = sym /\ p[2] = tf
      BY <2>2, <2>3 DEF InTurn, SyncPairs, References
    <3>2. failed = {}
      BY <2>1, <2>3
    <3> HIDE DEF p, asked
    <3>3. <<p[1], Source(p[2])>> \in fresh'
      BY <2>1, <3>1, <3>2
    <3> QED BY <3>1, <3>3
  <2>4. TurnFresh'
    BY <2>2, <2>3 DEF TurnFresh
  <2>5. noted' \in BOOLEAN
    BY <2>1
  <2> QED BY <2>2, <2>4, <2>5 DEF ScreenTypes
<1>6. CASE Derive
  <2> DEFINE s == Head(unscreened)
             due == {p \in SyncPairs(s) : p[2] \in DOMAIN Derived}
  <2>1. PICK failed \in SUBSET due :
          /\ fresh' = fresh \cup {p \in due \ failed : <<p[1], Source(p[2])>> \in fresh}
          /\ noted' = (noted \/ failed # {})
    BY <1>6 DEF Derive
  <2>2. turn = "derive" /\ turn' = "read" /\ UNCHANGED <<screen, served, unscreened, facts, report, skipped>>
        /\ facts # None
    BY <1>6 DEF Derive, ScreenTypes
  <2>3. ASSUME ~noted', NEW sym \in Nat, NEW tf \in Timeframes, InTurn(sym, tf)'
        PROVE  <<sym, Source(tf)>> \in fresh' /\ <<sym, tf>> \in fresh'
    <3> DEFINE p == <<sym, tf>>
    <3>1. p \in SyncPairs(s) /\ p[1] = sym /\ p[2] = tf /\ InTurn(sym, tf)
      BY <2>2, <2>3 DEF InTurn, SyncPairs, References
    <3>2. failed = {} /\ ~noted
      BY <2>1, <2>3
    <3>3. <<sym, Source(tf)>> \in fresh
      BY <2>2, <3>1, <3>2 DEF TurnFresh
    <3>4. CASE tf \in DOMAIN Derived
      <4>1. p \in due /\ <<p[1], Source(p[2])>> \in fresh
        BY <3>1, <3>3, <3>4
      <4> HIDE DEF due, p
      <4>2. p \in fresh'
        BY <2>1, <3>2, <4>1
      <4> QED BY <2>1, <3>3, <4>2 DEF p
    <3>5. CASE tf \notin DOMAIN Derived
      BY <2>1, <3>3, <3>5 DEF Source
    <3> QED BY <3>4, <3>5
  <2>4. TurnFresh'
    BY <2>2, <2>3 DEF TurnFresh
  <2>5. noted' \in BOOLEAN
    BY <2>1
  <2> QED BY <2>2, <2>4, <2>5 DEF ScreenTypes
<1>7. CASE ReadLastRow
  BY <1>7, RowRead, TurnOver
<1>8. CASE Raise
  <2>1. facts # None /\ EndTurn(None, FALSE) /\ None \in Verdicts
    BY <1>8 DEF Raise, ScreenTypes, Verdicts
  <2> QED BY <2>1, TurnOver
<1>9. CASE FinishRun
  <2> DEFINE matched == {n \in DOMAIN report : report[n].matched = TRUE}
  <2>1. report' = Kept(report, matched) \o Kept(report, DOMAIN report \ matched)
    BY <1>9 DEF FinishRun
  <2>2. UNCHANGED <<screen, served, unscreened, facts, turn, fresh, noted>> /\ unscreened = <<>>
    BY <1>9 DEF FinishRun
  <2>3. \A at \in SUBSET DOMAIN report : Kept(report, at) \in Seq(ScreenRows)
    BY KeptInOrder DEF ScreenTypes
  <2>4. report' \in Seq(ScreenRows)
    <3>1. matched \in SUBSET DOMAIN report /\ DOMAIN report \ matched \in SUBSET DOMAIN report
      OBVIOUS
    <3> HIDE DEF matched
    <3> QED BY <2>1, <2>3, <3>1
  <2>5. turn = "plan"
    BY <2>2 DEF ScreenTypes
  <2> QED BY <2>2, <2>4, <2>5 DEF ScreenTypes, TurnFresh
<1> QED BY <1>1, <1>2, <1>3, <1>4, <1>5, <1>6, <1>7, <1>8, <1>9 DEF ScreenNext

LEMMA ScreenKept == ScreenSpec => []ScreenInv
  BY ScreenInitiated, ScreenInductive, PTL DEF ScreenSpec

\* A turn ends by what the facts settle, by a read, or by an error.
LEMMA TurnsEnd ==
  ASSUME ScreenInv, [ScreenNext]_screenVars, TurnEnds
  PROVE  facts # None /\ (SettleByFacts \/ ReadLastRow \/ Raise)
<1>1. ScreenNext
  BY DEF TurnEnds, screenVars
<1>2. ~RunScreen
  BY DEF TurnEnds, RunScreen
<1>3. ~(RefuseNames \/ NextSymbol \/ Sync \/ Derive \/ FinishRun)
  BY DEF TurnEnds, RefuseNames, NextSymbol, Sync, Derive, FinishRun, screenVars
<1>4. SettleByFacts \/ ReadLastRow \/ Raise
  BY <1>1, <1>2, <1>3 DEF ScreenNext
<1> QED BY <1>4 DEF SettleByFacts, ReadLastRow, Raise, ScreenInv, ScreenTypes

LEMMA SettledStep ==
  ASSUME ScreenInv, [ScreenNext]_screenVars, TurnEnds, turn = "plan"
  PROVE  LET Said(reading) == GroupVerdict[<<screen.conditions, facts, reading>>]
         IN  IF Added.matched = None
             THEN /\ \A reading \in Readings : Said(reading) = None
                  /\ Plan.missing # {} /\ \A name \in Plan.missing : facts[name] = None
             ELSE \/ NegatedQuotient
                  \/ \A reading \in Readings : Added.matched = (Said(reading) = TRUE)
<1> DEFINE c == screen.conditions
           v(reading) == GroupVerdict[<<c, facts, reading>>]
<1>1. facts # None /\ SettleByFacts
  BY TurnsEnd DEF ReadLastRow, Raise
<1>2. Decided(c, facts) /\ Plan = PlanGroup[<<c, facts>>]
  BY <1>1, PlanTyped DEF ScreenInv
<1>3. Plan \in Opinions /\ \A reading \in Readings : Judges(c, Plan, v(reading), facts)
  BY <1>2 DEF Decided
<1>4. ~(Plan.value = None /\ Plan.technical) /\ EndTurn(Plan.value, FALSE)
  BY <1>1 DEF SettleByFacts
<1>5. Added.matched = Plan.value /\ Plan.value \in Verdicts
  <2>1. Plan.value \in Verdicts
    BY <1>3 DEF Opinions
  <2>2. Added = [symbol |-> Head(unscreened), matched |-> Plan.value, priced |-> FALSE, noted |-> noted]
    BY <1>1, <1>4, <2>1, TurnOver DEF ScreenInv
  <2> QED BY <2>1, <2>2
<1>6. None \notin BOOLEAN
  BY ScreenAssumption
<1> HIDE DEF v
<1>7. ASSUME Plan.value = None
      PROVE  /\ \A reading \in Readings : v(reading) = None
             /\ Plan.missing # {} /\ \A name \in Plan.missing : facts[name] = None
  <2>1. ~Plan.technical
    BY <1>4, <1>7
  <2>2. \A reading \in Readings : Bears(Plan, v(reading), Lacking(facts))
    BY <1>3 DEF Judges
  <2>3. Readings # {}
    BY ScreenAssumption
  <2> QED BY <1>7, <2>1, <2>2, <2>3 DEF Bears, Lacking
<1>8. ASSUME Plan.value # None, ~NegatedQuotient, NEW reading \in Readings
      PROVE  Plan.value = (v(reading) = TRUE)
  <2>1. Judges(c, Plan, v(reading), facts)
    BY <1>3
  <2>2. ~Negation(c) \/ ~Quotient(c, facts)
    BY <1>8 DEF NegatedQuotient, Negation, Quotient
  <2>3. v(reading) \in {Plan.value, None} /\ Plan.value \in BOOLEAN
    BY <1>5, <1>8, <2>1 DEF Judges, Bears, Verdicts
  <2>4. Plan.value = TRUE => v(reading) = TRUE
    BY <1>8, <2>1, <2>2 DEF Judges, Exact, Affirmed
  <2>5. Plan.value = FALSE => v(reading) # TRUE
    BY <1>6, <2>3
  <2> QED BY <2>3, <2>4, <2>5
<1>9. CASE Added.matched = None
  BY <1>5, <1>7, <1>9 DEF v
<1>10. CASE Added.matched # None
  BY <1>5, <1>8, <1>10 DEF v
<1> QED BY <1>9, <1>10

LEMMA StaleStep ==
  ASSUME ScreenInv, [ScreenNext]_screenVars, TurnEnds, Added.priced
  PROVE  \A p \in Reads[<<screen.conditions, <<Added.symbol, screen.tf>>>>] :
           /\ p \in Loaded(screen, Added.symbol)
           /\ Source(p[2]) \in served /\ ~Added.noted =>
                p \in fresh /\ <<p[1], Source(p[2])>> \in fresh
<1> DEFINE s == Head(unscreened)
<1>1. facts # None /\ (SettleByFacts \/ ReadLastRow \/ Raise)
  BY TurnsEnd
<1>2. \A matched \in Verdicts, priced \in BOOLEAN :
        EndTurn(matched, priced) =>
          s \in Nat /\ Added = [symbol |-> s, matched |-> matched, priced |-> priced, noted |-> noted]
  BY <1>1, TurnOver DEF ScreenInv
<1>3. Added.symbol = s /\ Added.noted = noted /\ s \in Nat
  <2>1. \E matched \in Verdicts, priced \in BOOLEAN : EndTurn(matched, priced)
    <3>1. CASE SettleByFacts
      <4>1. Plan.value \in Verdicts
        BY <1>1, PlanTyped DEF ScreenInv, Decided, Opinions
      <4> QED BY <3>1, <4>1 DEF SettleByFacts
    <3>2. CASE ReadLastRow
      BY <3>2, RowRead DEF ScreenInv
    <3>3. CASE Raise
      BY <3>3 DEF Raise, Verdicts
    <3> QED BY <1>1, <3>1, <3>2, <3>3
  <2> HIDE DEF s
  <2> QED BY <1>2, <2>1
<1>4. turn = "read"
  <2>1. CASE SettleByFacts
    <3>1. Plan.value \in Verdicts /\ EndTurn(Plan.value, FALSE)
      BY <1>1, <2>1, PlanTyped DEF ScreenInv, Decided, Opinions, SettleByFacts
    <3>2. Added = [symbol |-> Head(unscreened), matched |-> Plan.value, priced |-> FALSE, noted |-> noted]
      BY <1>1, <3>1, TurnOver DEF ScreenInv
    <3> QED BY <3>2
  <2> QED BY <1>1, <2>1 DEF ReadLastRow, Raise
<1>5. screen \in Screens /\ screen.conditions \in Expressions /\ screen.tf \in Timeframes
  BY <1>1, PlanTyped, ScreenFacts DEF ScreenInv
<1> HIDE DEF s
<1>6. ASSUME NEW p \in Reads[<<screen.conditions, <<s, screen.tf>>>>]
      PROVE  /\ p \in Nat \X Timeframes
             /\ \/ p \in References(screen)
                \/ p[1] = s /\ p[2] \in ReferencedTimeframes(screen)
  <2>1. Inherit(None, s) = s /\ None \in Nat \cup {None}
    BY DEF Inherit
  <2>2. NamedPair(screen.conditions, s, None, screen.tf, p)
    BY <1>3, <1>5, <2>1, ReadsNamed
  <2> QED BY <2>2 DEF NamedPair, References, ReferencedTimeframes
<1>7. ASSUME NEW p \in Reads[<<screen.conditions, <<s, screen.tf>>>>]
      PROVE  /\ p \in Loaded(screen, s)
             /\ Source(p[2]) \in served /\ ~noted => p \in fresh /\ <<p[1], Source(p[2])>> \in fresh
  <2>1. p = <<p[1], p[2]>> /\ p[1] \in Nat /\ p[2] \in Timeframes
    BY <1>6
  <2>2. p \in Loaded(screen, s)
    <3>1. CASE p \in References(screen)
      BY <3>1 DEF Loaded
    <3>2. CASE p[1] = s /\ p[2] \in ReferencedTimeframes(screen)
      BY <2>1, <3>2 DEF Loaded, Timeframes
    <3> QED BY <1>6, <3>1, <3>2
  <2>3. p \in SyncPairs(s)
    <3>1. CASE p \in References(screen)
      BY <3>1 DEF SyncPairs
    <3>2. CASE p[1] = s /\ p[2] \in ReferencedTimeframes(screen)
      BY <2>1, <3>2 DEF SyncPairs
    <3> QED BY <1>6, <3>1, <3>2
  <2>4. ASSUME Source(p[2]) \in served, ~noted
        PROVE  p \in fresh /\ <<p[1], Source(p[2])>> \in fresh
    <3>1. InTurn(p[1], p[2])
      BY <2>1, <2>3, <2>4 DEF InTurn, s
    <3>2. <<p[1], Source(p[2])>> \in fresh /\ <<p[1], p[2]>> \in fresh
      BY <1>4, <2>1, <2>4, <3>1 DEF ScreenInv, TurnFresh
    <3> QED BY <2>1, <3>2
  <2> QED BY <2>2, <2>4
<1> QED BY <1>3, <1>7

\* A row written without bars is the row any bars would have given
\* (plan_symbol before group_verdict).
THEOREM RowsSettled == ScreenSpec => SettledAsEvaluated
<1>1. ScreenInv /\ [ScreenNext]_screenVars =>
        [TurnEnds /\ turn = "plan" =>
           LET Said(reading) == GroupVerdict[<<screen.conditions, facts, reading>>]
           IN  IF Added.matched = None
               THEN /\ \A reading \in Readings : Said(reading) = None
                    /\ Plan.missing # {} /\ \A name \in Plan.missing : facts[name] = None
               ELSE \/ NegatedQuotient
                    \/ \A reading \in Readings : Added.matched = (Said(reading) = TRUE)]_screenVars
  BY SettledStep
<1> QED BY <1>1, ScreenKept, PTL DEF ScreenSpec, SettledAsEvaluated

\* A row read from bars is read from frames that were loaded, and it says so
\* when one of them was not refreshed (expression_reference_pairs, _sync_frame).
THEOREM StaleRowsTold == ScreenSpec => StaleRowsSaySo
<1>1. ScreenInv /\ [ScreenNext]_screenVars =>
        [TurnEnds /\ Added.priced =>
           \A p \in Reads[<<screen.conditions, <<Added.symbol, screen.tf>>>>] :
             /\ p \in Loaded(screen, Added.symbol)
             /\ Source(p[2]) \in served /\ ~Added.noted =>
                  p \in fresh /\ <<p[1], Source(p[2])>> \in fresh]_screenVars
  BY StaleStep
<1> QED BY <1>1, ScreenKept, PTL DEF ScreenSpec, StaleRowsSaySo
=============================================================================
