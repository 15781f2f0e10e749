------------------------------ MODULE RankLens ------------------------------
(***************************************************************************)
(* The information coefficient lens (engine/ic.py _ic_map): which play     *)
(* symbols are graded, what a factor's answer must be, and the rank        *)
(* correlation of its margins with the returns that followed.              *)
(*                                                                         *)
(* Where a factor is asked and what it is shown is module Preflight's; here *)
(* a case gives the rows it is asked about and each symbol's closes.  A     *)
(* return is its price ratio, a pair; a rank is doubled; a coefficient is   *)
(* its covariance and the product of its spreads, a pair, before the root   *)
(* and the rounding: integers are exact where the code's binary64 rounds.   *)
(***************************************************************************)
EXTENDS Absent, Selection, Integers, Sequences, FiniteSetsExt, Functions

CONSTANTS
  Cases,     \* replays to grade: [plays, symbols, asked, closes]
  Answers,   \* what a factor may return, or raise
  Horizons,  \* how many bars ahead, in order
  MinPairs   \* the fewest pairs a coefficient is made of

VARIABLES
  case,      \* the replay graded
  answers,   \* per play symbol asked, what its factor returned
  estimates, \* per play symbol, in order, its estimates
  lens       \* "idle", "grading", "sliced" or "refused"

Margin == [kind : STRING, value : Int]

\* What the doors before it give the lens, and a margin its kind and number.
ASSUME LensAssumption ==
  /\ Horizons \in Seq(Nat) /\ MinPairs \in Nat
  /\ None \notin Int \X Int /\ None \notin Seq(Margin)
  /\ \A c \in Cases :
       /\ c.plays \in Seq(Range(c.plays)) /\ c.symbols \in Seq(Range(c.symbols))
       /\ c.asked \in Seq(Nat \ {0})
       /\ \A symbol \in Range(c.symbols) : c.closes[symbol] \in Seq(Int)
  /\ \A a \in Answers : a.kind = "sequence" => a.margins \in Seq(Margin)

lensVars == <<case, answers, estimates, lens>>

\* The replay's own order: plays by priority, each over the symbols.
Keys ==
  LET symbols == Len(case.symbols)
  IN  [n \in 1..(Len(case.plays) * symbols) |->
         <<case.plays[((n - 1) \div symbols) + 1], case.symbols[((n - 1) % symbols) + 1]>>]
NextKey == Keys[Len(estimates) + 1]

Number(margin) == margin.kind = "number"

\* One finite number or nothing for every row asked about.  (_require_margins)
MarginsAccepted(returned, expected) ==
  /\ returned.kind = "sequence" /\ Len(returned.margins) = expected
  /\ \A margin \in Range(returned.margins) : margin.kind \in {"none", "number"}

\* A price ratio, over a positive number.
Ratio(ahead, base) == IF base < 0 THEN <<-ahead, -base>> ELSE <<ahead, base>>

\* The return over a horizon, unless the series ends or the base is zero.
ForwardReturn(closes, ordinal, horizon) ==
  IF ordinal + horizon > Len(closes) \/ closes[ordinal] = 0 THEN None
  ELSE Ratio(closes[ordinal + horizon], closes[ordinal])

-----------------------------------------------------------------------------
(* Rank correlation. *)

Below(a, b) == a[1] * b[2] < b[1] * a[2]
Same(a, b) == a[1] * b[2] = b[1] * a[2]

Precedes(values, m, n) == Below(values[m], values[n]) \/ (Same(values[m], values[n]) /\ m < n)

\* The positions of the values, ascending, the earlier first in a tie.
Ascending(values) ==
  [k \in DOMAIN values |->
     CHOOSE n \in DOMAIN values : Cardinality({m \in DOMAIN values : Precedes(values, m, n)}) = k - 1]

\* Mutant: equal values ranked in the order they arrived.
OrdinalRanks(values) ==
  [p \in DOMAIN values |-> 2 * (CHOOSE n \in DOMAIN values : Ascending(values)[n] = p)]

\* Ranks from one, a run of equal values sharing the average of its ends.
AverageRanks(values) ==
  LET order == Ascending(values)
      Run(p) == {n \in DOMAIN order : Same(values[order[n]], values[p])}
  IN  [p \in DOMAIN values |-> Min(Run(p)) + Max(Run(p))]

Gaps(ranks) == [p \in DOMAIN ranks |-> ranks[p] - SumFunction(ranks) \div Len(ranks)]
Product(a, b) == SumFunction([p \in DOMAIN a |-> a[p] * b[p]])

RankCorrelation(factor, outcome) ==
  LET left  == AverageRanks(factor)
      right == AverageRanks(outcome)
  IN  IF \/ Len(factor) < MinPairs
         \/ Cardinality(Range(left)) < 2 \/ Cardinality(Range(right)) < 2 THEN None
      ELSE <<Product(Gaps(left), Gaps(right)),
             Product(Gaps(left), Gaps(left)) * Product(Gaps(right), Gaps(right))>>

\* A pair survives when the row was graded and the series reaches its return.
Estimate(horizon, margins, asked, closes) ==
  LET Outcome(n) == ForwardReturn(closes, asked[n], horizon)
      pairs == Kept([n \in DOMAIN margins |-> n],
                    {n \in DOMAIN margins : Number(margins[n]) /\ Outcome(n) # None})
  IN  [horizon      |-> horizon,
       correlation  |-> RankCorrelation([p \in DOMAIN pairs |-> <<margins[pairs[p]].value, 1>>],
                                        [p \in DOMAIN pairs |-> Outcome(pairs[p])]),
       observations |-> Len(pairs)]

Ungraded ==
  [n \in DOMAIN Horizons |-> [horizon |-> Horizons[n], correlation |-> None, observations |-> 0]]

\* What the result's own type admits.
EstimateAccepted(e) ==
  e.correlation # None =>
    /\ e.correlation[1] * e.correlation[1] <= e.correlation[2]
    /\ e.observations >= MinPairs

-----------------------------------------------------------------------------
(* One lens. *)

LensInit == case = None /\ answers = <<>> /\ estimates = <<>> /\ lens = "idle"

Open ==
  /\ lens = "idle"
  /\ case' \in Cases /\ lens' = "grading"
  /\ UNCHANGED <<answers, estimates>>

RefuseLens == lens' = "refused" /\ case' = None /\ answers' = <<>> /\ estimates' = <<>>

\* Graded play, an axis nobody declared: refused before its factor is asked.
Undeclared ==
  /\ lens = "grading" /\ Len(estimates) < Len(Keys)
  /\ LET play == NextKey[1] IN play.factor /\ play.axis \notin play.declared
  /\ RefuseLens

\* Nothing to grade with, or no row to ask about.
Skip ==
  /\ lens = "grading" /\ Len(estimates) < Len(Keys)
  /\ LET play == NextKey[1] IN ~ play.factor \/ (play.axis \in play.declared /\ case.asked = <<>>)
  /\ estimates' = Append(estimates, Ungraded)
  /\ answers' = Append(answers, None)
  /\ UNCHANGED <<case, lens>>

\* One call of the factor for all its rows, then one estimate per horizon.
Grade ==
  /\ lens = "grading" /\ Len(estimates) < Len(Keys)
  /\ LET play == NextKey[1] IN play.factor /\ play.axis \in play.declared /\ case.asked # <<>>
  /\ \E returned \in Answers :
       IF ~ MarginsAccepted(returned, Len(case.asked)) THEN RefuseLens
       ELSE LET made == [n \in DOMAIN Horizons |->
                           Estimate(Horizons[n], returned.margins, case.asked, case.closes[NextKey[2]])]
            IN  IF \E e \in Range(made) : ~ EstimateAccepted(e) THEN RefuseLens
                ELSE /\ estimates' = Append(estimates, made)
                     /\ answers' = Append(answers, returned.margins)
                     /\ UNCHANGED <<case, lens>>

\* Every play symbol has its estimates: the slices are frozen.
Slices ==
  /\ lens = "grading" /\ Len(estimates) = Len(Keys)
  /\ lens' = "sliced"
  /\ UNCHANGED <<case, answers, estimates>>

LensEnded == lens \in {"sliced", "refused"} /\ UNCHANGED lensVars

LensNext == Open \/ Undeclared \/ Skip \/ Grade \/ Slices \/ LensEnded

LensSpec == LensInit /\ [][LensNext]_lensVars
=============================================================================
