------------------------------ MODULE LiveDoor ------------------------------
(***************************************************************************)
(* The context of a caller without a schedule: the live scanner and the    *)
(* screener (engine/context.py build_context, strategies/util.py,          *)
(* data/schema.py).  What is closed and what may be decided on is told     *)
(* from the labels of the cached bars, where Preflight's contexts ask the  *)
(* schedule.  A cache is given by its frames' labels: those the replay was *)
(* handed, a week's where it has one, and prints outside the sessions.     *)
(***************************************************************************)
EXTENDS Preflight, SequencesExt, TLC

CONSTANTS
  OpenOffset,         \* the regular open, from the session's midnight
  WeekLen, Monday,    \* a week, and one day that begins one
  Prints,             \* driving bars outside the sessions, in order
  WeekLabels          \* the weeks cached, each by its first session's midnight

LiveFrames == Frames \cup {"1w"}
SessionAligned == {"1d", "1w"}
Delta == [tf \in LiveFrames \ SessionAligned |->
            CASE tf = BaseFrame -> BaseLen [] tf = "1h" -> HourLen [] tf = "4h" -> BucketLen]

\* The first session-aligned label not yet closed: midnight of today, or of
\* this week's Monday, counted in the label's own days.
SessionCutoff(now, tf) ==
  LET day == SessionAt(now)
  IN  DayLen * (IF tf = "1w" THEN day - ((day - Monday) % WeekLen) ELSE day)

ClosedBefore(index, tf, now) ==
  IF tf \in SessionAligned THEN Cut(index, BisectLeft(index, SessionCutoff(now, tf)))
  ELSE Cut(index, BisectRight(index, now - Delta[tf]))

\* The regular open of the session an instant falls in, off the wall clock.
\* No session opens in the hour a clock change repeats or skips.
SessionOpen(t) ==
  LET wall == SessionAt(t) * DayLen + OpenOffset
  IN  IF wall < Change THEN wall ELSE wall - Shift

Cached(symbol, tf) ==
  LET labels == RequiredLabels(request, schedule, <<symbol, tf>>)
  IN  CASE tf = "1w" -> WeekLabels
        [] tf = BaseFrame -> SortSeq(labels \o Prints, <)
        [] OTHER -> labels

LiveIndex(symbol, tf, now) == ClosedBefore(Cached(symbol, tf), tf, now)

-----------------------------------------------------------------------------
(* The emission gate, from labels. *)

\* Less than one base bar since the newest visible bar's label plus its delta.
FreshBar(index, tf, now) ==
  index # <<>> /\ now - (Last(index) + Delta[tf]) < BaseLen

\* Mutant: a session begins with its date.
FirstBarOfDate(driving) ==
  driving # <<>> /\ \A n \in 1..(Len(driving) - 1) : SessionAt(driving[n]) < SessionAt(Last(driving))

\* The newest driving bar is the first at or after its session's open.
FirstBarOfSession(driving) ==
  driving # <<>> /\ BisectLeft(driving, SessionOpen(Last(driving))) = Len(driving) - 1

\* And the trading day before it lies in an earlier week.
FirstBarOfWeek(driving) ==
  /\ FirstBarOfSession(driving)
  /\ LET today  == SessionAt(Last(driving))
         before == SelectSeq(driving, LAMBDA t : SessionAt(t) < today)
     IN  before # <<>> => SessionCutoff(Last(before), "1w") < SessionCutoff(Last(driving), "1w")

LabelGate(symbol, tf, now) ==
  CASE tf = "1w" -> FirstBarOfWeek(LiveIndex(symbol, BaseFrame, now))
    [] tf = "1d" -> FirstBarOfSession(LiveIndex(symbol, BaseFrame, now))
    [] OTHER -> FreshBar(LiveIndex(symbol, tf, now), tf, now)
=============================================================================
