----------------------------- MODULE Contexts ------------------------------
(***************************************************************************)
(* What a scheduled replay lets a strategy read at a base close, and at    *)
(* which closes it may decide (engine/schedule.py, engine/context.py).     *)
(* A row of a frame is named by its label: a base bar by its position, a   *)
(* bar of 1h or 4h by its left edge, a daily bar by its session.           *)
(***************************************************************************)
EXTENDS Integers, Sequences, FiniteSetsExt

CONSTANTS
  None,
  Opens, Closes, SessionOf,  \* the base intervals
  BaseStep,                  \* the length of one base bar
  PeriodEnd,                 \* per intraday frame: left edges to period ends
  FirstTest, LastTest        \* the intervals of the test range

VARIABLES
  labels,  \* per context frame: the rows the schedule carries
  step     \* base intervals closed

BaseFrame == "15m"
Daily == "1d"
Intraday == {"1h", "4h"}
Higher == Intraday \cup {Daily}
Frames == Higher \cup {BaseFrame}
Intervals == 1..Len(Opens)
Times == {Closes[i] : i \in Intervals}

\* The base intervals validate_schedule accepts.  Sessions are whole nights
\* apart, which it does not check and every exchange calendar gives.
ASSUME ClockAssumption ==
  /\ Opens \in Seq(Nat) /\ Closes \in Seq(Nat) /\ SessionOf \in Seq(Nat)
  /\ Len(Closes) = Len(Opens) /\ Len(SessionOf) = Len(Opens)
  /\ BaseStep \in Nat \ {0} /\ None \notin Nat
  /\ FirstTest \in Intervals /\ LastTest \in Intervals /\ FirstTest <= LastTest
  /\ \A i \in Intervals : Opens[i] < Closes[i]
  /\ \A i, j \in Intervals : i < j =>
       /\ Closes[i] <= Opens[j]
       /\ SessionOf[i] <= SessionOf[j]
       /\ SessionOf[i] # SessionOf[j] => Closes[i] < Opens[j]

\* An hour is an hour and a four-hour bucket three to five: consecutive
\* period ends are at least a base bar apart.
ASSUME PeriodAssumption ==
  /\ DOMAIN PeriodEnd = Intraday
  /\ \A tf \in Intraday :
       /\ DOMAIN PeriodEnd[tf] \subseteq Nat
       /\ \A l \in DOMAIN PeriodEnd[tf] : PeriodEnd[tf][l] \in Nat /\ l < PeriodEnd[tf][l]
       /\ \A l, m \in DOMAIN PeriodEnd[tf] :
            l < m => PeriodEnd[tf][l] + BaseStep <= PeriodEnd[tf][m]

\* The intervals of the sessions after s; the first of them opens the next.
Later(s) == {i \in Intervals : SessionOf[i] > s}
Covered(tf, l) == {i \in Intervals : Closes[i] > l /\ Opens[i] < PeriodEnd[tf][l]}

\* The labels a schedule may carry.  (_require_session_coverage,
\* _require_label_semantics, _require_daily_semantics)
Schedulable(tf) ==
  IF tf = Daily THEN {s \in {SessionOf[i] : i \in Intervals} : Later(s) # {}}
  ELSE {l \in DOMAIN PeriodEnd[tf] :
          /\ Covered(tf, l) # {}
          /\ \A i, j \in Covered(tf, l) : SessionOf[i] = SessionOf[j]}

Rows(tf) == IF tf = BaseFrame THEN Intervals ELSE labels[tf]

\* The first scheduled close of the one base bar that starts at t, if any.
CloseAt(t) ==
  LET after == {i \in Intervals : Closes[i] >= t /\ Closes[i] < t + BaseStep}
  IN IF after = {} THEN None ELSE Closes[Min(after)]

\* When a row may be read.
AvailableAt(tf, l) ==
  CASE tf = BaseFrame -> Closes[l]
    [] tf \in Intraday -> PeriodEnd[tf][l]
    [] tf = Daily -> Opens[Min(Later(l))]

\* The one close a row may be decided on, if any.  (fresh_context_at)
FreshAt(tf, l) ==
  CASE tf = BaseFrame -> Closes[l]
    [] tf \in Intraday -> CloseAt(PeriodEnd[tf][l])
    [] tf = Daily -> Closes[Min(Later(l))]

\* The rows of a context at the close of interval i, the newest of them, and
\* the emission gate.  (visible_rows, _scheduled_freshness)
Visible(tf, i) == {l \in Rows(tf) : AvailableAt(tf, l) <= Closes[i]}
Newest(tf, i) == Max(Visible(tf, i))

\* Mutant: a row may be decided on when it is released.
FreshOnRelease(tf, i) == Visible(tf, i) # {} /\ AvailableAt(tf, Newest(tf, i)) = Closes[i]

Fresh(tf, i) == Visible(tf, i) # {} /\ FreshAt(tf, Newest(tf, i)) = Closes[i]

\* A play decided on tf answers at the close of i: the gate is open and two
\* rows are there.  (RuleStrategy.on_bar)
Decides(tf, i) ==
  /\ tf = BaseFrame \/ Fresh(tf, i)
  /\ \E l \in Visible(tf, i) : l # Newest(tf, i)

\* Where the information coefficient measures tf.  (_observations)
Observations(tf) ==
  {[frame |-> tf, row |-> l, at |-> FreshAt(tf, l)] :
     l \in {m \in Rows(tf) : /\ FreshAt(tf, m) # None
                             /\ Opens[FirstTest] < FreshAt(tf, m)
                             /\ FreshAt(tf, m) <= Closes[LastTest]}}

Now == IF step = 0 THEN 0 ELSE Closes[step]

ContextsInit ==
  /\ \E carried \in SUBSET UNION {{tf} \X Schedulable(tf) : tf \in Higher} :
       labels = [tf \in Higher |-> {l \in Schedulable(tf) : <<tf, l>> \in carried}]
  /\ step = FirstTest - 1

\* The replay moves to the next close of the test range.
NextClose ==
  /\ step < LastTest
  /\ step' = step + 1
  /\ UNCHANGED labels
=============================================================================
