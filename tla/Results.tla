------------------------------ MODULE Results ------------------------------
(***************************************************************************)
(* What a finished replay reports: replay._finalize_result over the event  *)
(* stream module Replay leaves, with the lenses of engine/benchmark.py and *)
(* engine/metrics.py and the result types that may still refuse it.        *)
(*                                                                         *)
(* A ratio is a pair <<numerator, denominator>>, never divided: sums of    *)
(* integers are exact where the code's binary64 rounds.  The basket's own  *)
(* value, the IC map and the pooled moments of at least sixty sessions are *)
(* left out.                                                               *)
(***************************************************************************)
EXTENDS ReplayProperties

-----------------------------------------------------------------------------
(* The equity curve, on the schedule's instants. *)

\* Mutant: the schedule's marks without the post-close one.
WithoutPostClose == <<TestStart>> \o SubSeq(CloseTs, 1, NTest)

\* The anchor, every close of the window, and the post-close mark.
ScheduledMarks == <<TestStart>> \o SubSeq(CloseTs, 1, NTest) \o <<TestEnd>>

Aligned ==
  /\ Len(marks) = Len(ScheduledMarks)
  /\ \A n \in 1..Len(marks) : marks[n][1] = ScheduledMarks[n]

EquityAt(n) == marks[n][2]
StartingMark == EquityAt(1)
EndingMark == EquityAt(Len(marks))

\* How far below its running peak the account stands at a point, and the peak.
Drawdown(n) ==
  LET peak == Max({EquityAt(m) : m \in 1..n})
  IN  <<peak - EquityAt(n), peak>>

Deeper(a, b) == a[1] * b[2] > b[1] * a[2]

-----------------------------------------------------------------------------
(* Trade cohorts. *)

\* Mutant: the entry's commission is forgotten.
ExitFees(t) == Charge(t.position.qty)
Fees(t) == t.position.fee + Charge(t.position.qty)

\* One fold for the whole replay, each direction and each slice: a break-even
\* trade counts as a trade and in neither gross sum.
Cohort(rows) ==
  LET wins   == {t \in rows : t.net > 0}
      losses == {t \in rows : t.net < 0}
  IN  [n       |-> Cardinality(rows),
       wins    |-> Cardinality(wins),
       profit  |-> SumFunction([t \in wins |-> t.net]),
       loss    |-> SumFunction([t \in losses |-> - t.net]),
       preCost |-> SumFunction([t \in rows |-> GrossPnl(t.position, t.exit)]),
       fees    |-> SumFunction([t \in rows |-> Fees(t)])]

Net(cohort) == cohort.preCost - cohort.fees

ProfitFactorState(cohort) ==
  IF cohort.loss > 0 THEN "finite" ELSE IF cohort.profit > 0 THEN "infinite" ELSE "unavailable"

DirectionCohort(dir) == Cohort({t \in trades : t.position.intent.dir = dir})

\* One play symbol's share: its trades and its rejections by reason.
Slice(k) ==
  [cohort     |-> Cohort({t \in trades : t.position.intent.key = k}),
   rejections |-> [reason \in RejectionReasons |->
                     Cardinality({r \in rejections : r.intent.key = k /\ r.reason = reason})]]

\* Every trade and rejection names a play symbol the request declares.
Attributed ==
  /\ \A t \in trades : t.position.intent.key \in Keys
  /\ \A r \in rejections : r.intent.key \in Keys

\* Ticks in a position, summed over the trades, and the window they divide by.
Held == SumFunction([t \in trades |-> t.exitTs - t.position.entryTs])
Elapsed == TestEnd - TestStart

-----------------------------------------------------------------------------
(* Daily sampling. *)

TestSessions == {DateOf(OpenTs[n]) : n \in 1..NTest}
ClosesOf(session) == {CloseTs[n] : n \in {m \in 1..NTest : DateOf(OpenTs[m]) = session}}
MarksIn(session) == {n \in 1..Len(marks) : marks[n][1] \in ClosesOf(session)}

\* Inside a session the last point wins.
SessionEquity(session) == EquityAt(Max(MarksIn(session)))

\* What a session's return divides by: the session before it, or the start.
PreviousEquity(session) ==
  LET earlier == {s \in TestSessions : s < session}
  IN  IF earlier = {} THEN StartingMark ELSE SessionEquity(Max(earlier))

\* A session's return, as <<gained, from>>.
DailyReturn(session) ==
  <<SessionEquity(session) - PreviousEquity(session), PreviousEquity(session)>>

-----------------------------------------------------------------------------
(* What may still refuse a finished replay. *)

\* The trade row's validator: causal instants, positive prices, and levels
\* that bracketed the entry.
TradeAccepted(t) ==
  LET p == t.position
  IN  /\ p.intent.ts <= p.entryTs /\ p.entryTs < t.exitTs
      /\ p.qty > 0 /\ p.entry > 0 /\ t.exit > 0
      /\ p.intent.stop > 0 /\ p.stop > 0 /\ p.intent.target > 0 /\ p.target > 0
      /\ Brackets(p.intent.dir, p.entry, p.intent.stop, p.intent.target)

RejectionAccepted(r) == r.intent.ts <= r.ts

\* Ordinals start at zero and increment once per recorded event: a set keeps an
\* event's place in its ordinal.
Contiguous(rows) == {r.ordinal : r \in rows} = 0..(Cardinality(rows) - 1)

\* The rows refuse as the account issues them; then the lenses and the result
\* type, in the order _finalize_result builds them.
FinalizeRefusal ==
  IF \E t \in trades : ~ TradeAccepted(t) THEN "trade_row"
  ELSE IF \E r \in rejections : ~ RejectionAccepted(r) THEN "rejection_row"
  ELSE IF ~ Aligned THEN "misaligned_marks"
  ELSE IF ~ Attributed THEN "unknown_attribution_key"
  ELSE IF StartingMark <= 0 THEN "starting_equity"
  ELSE IF \E s \in TestSessions : MarksIn(s) = {} THEN "unmarked_session"
  ELSE IF \E s \in TestSessions : PreviousEquity(s) <= 0 THEN "daily_return"
  ELSE IF ~ (Contiguous(trades) /\ Contiguous(rejections)) THEN "event_order"
  ELSE IF \E n \in 2..Len(marks) : marks[n][1] < marks[n - 1][1] THEN "mark_order"
  ELSE "none"

Reported == phase = "done" /\ FinalizeRefusal = "none"

-----------------------------------------------------------------------------
(* Properties. *)

\* No check between the last event and the result ever refuses a replay the
\* chronology finished, except the one the code says is reachable: a session
\* before the last left the account at zero or below, and the next session's
\* return has no honest denominator (_daily_returns).  Marks, ordinals,
\* attribution and every row agree with the schedule and the request by then.
ResultNeverRefused ==
  phase = "done" =>
    \/ FinalizeRefusal = "none"
    \/ /\ FinalizeRefusal = "daily_return"
       /\ \E n \in 1..(NTest - 1) : EquityAt(n + 1) <= 0 /\ DateOf(OpenTs[n]) < DateOf(OpenTs[NTest])

\* A reported result reconciles across its lenses, which never read each
\* other: the curve's gain is the trades' net result, however it is summed
\* (_portfolio_metrics, _slice_accumulators); every signal is in some slice;
\* positions are held no longer than the slots allow; the daily returns chain
\* the start to the end, one per session (_daily_returns); and the post-close
\* mark, the one point the ulcer index leaves out, is never the only deepest
\* (_drawdowns).
ResultReconciles ==
  Reported =>
    LET whole == Cohort(trades)
        Over(field) == SumFunction([k \in Keys |-> Slice(k).cohort[field]])
    IN  /\ StartingMark = StartingEquity
        /\ EndingMark - StartingMark = Net(whole)
        /\ Net(whole) = whole.profit - whole.loss
        /\ ProfitFactorState(whole) = "infinite" => EndingMark > StartingMark
        /\ \A field \in DOMAIN whole :
             /\ Over(field) = whole[field]
             /\ DirectionCohort("long")[field] + DirectionCohort("short")[field] = whole[field]
        /\ signalOrdinal = whole.n + SumFunction([k \in Keys |-> SumFunction(Slice(k).rejections)])
        /\ Held <= MaxOpen * Elapsed
        /\ StartingMark + SumFunction([s \in TestSessions |-> DailyReturn(s)[1]]) = EndingMark
        /\ \E n \in 1..(Len(marks) - 1) : ~ Deeper(Drawdown(Len(marks)), Drawdown(n))
=============================================================================
