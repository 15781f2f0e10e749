------------------------ MODULE PreflightProperties -------------------------
(***************************************************************************)
(* What a replay may rely on once its doors have opened.                   *)
(***************************************************************************)
EXTENDS LiveDoor

Now == TestIntervals(request, schedule)[read].close

\* The schedule's row of a frame under a label, and what an interval or a
\* row covers, found without the doors' searches.
RowAt(tf, label) ==
  CHOOSE row \in Range(schedule.rows) : row.timeframe = tf /\ row.label = label
IntervalsOf(tf, label) ==
  IF tf = BaseFrame THEN {i \in Range(schedule.intervals) : i.open = label}
  ELSE LET row == RowAt(tf, label)
       IN  {i \in Range(schedule.intervals) :
              IF tf = "1d" THEN i.session = row.session
              ELSE i.open < row.end /\ i.close > row.start}

\* The labels of the rows released by an instant.
Released(tf, t) ==
  IF tf = BaseFrame THEN {i.open : i \in {j \in Range(schedule.intervals) : j.close <= t}}
  ELSE {row.label : row \in {r \in Range(schedule.rows) : r.timeframe = tf /\ r.available <= t}}

\* What the caller handed over under a label, if anything.
Handed(key, label) ==
  LET frame == FrameOf(supply, key)
  IN  IF label \in Range(frame.index)
      THEN frame.bars[CHOOSE n \in DOMAIN frame.index : frame.index[n] = label]
      ELSE None

\* A frame as it may be read at an instant: the rows released by then, each
\* once, each with the bar handed over for it, and every interval it covers closed.
ReadAsScheduled(key, frame, t) ==
  /\ {frame[n].label : n \in DOMAIN frame} = Released(key[2], t)
  /\ Len(frame) = Cardinality(Released(key[2], t))
  /\ \A n \in DOMAIN frame :
       /\ \A i \in IntervalsOf(key[2], frame[n].label) : i.close <= t
       /\ frame[n].bar = Handed(key, frame[n].label)
       /\ frame[n].bar = None => key \notin ExactPairs(request)

\* The emission gate: open exactly at the instant some row names, and then
\* that row is the last one read and it is no null row.
GateIsNamed(symbol, tf, t) ==
  LET named == {row \in Range(schedule.rows) : row.timeframe = tf /\ row.fresh = t}
      frame == context[symbol].frames[<<symbol, tf>>]
  IN  /\ context[symbol].fresh[tf] <=> named # {}
      /\ \A row \in named : frame[Len(frame)].label = row.label /\ frame[Len(frame)].bar # None

\* A position counted in the schedule finds its row in every prepared frame:
\* at every close of the test range a strategy reads exactly the rows released
\* by then, none of whose intervals is still open, in bars the caller handed
\* over for those labels, and may decide where the schedule says; and the
\* graded factor afterwards is shown what the last close showed, asked at
\* rising instants about rows its own frame carries (validate_schedule,
\* prepare_portfolio_bars, build_scheduled_context, _observations).
ReadsAreScheduled ==
  door \in {"bar", "done"} /\ read > 0 =>
    \A symbol \in Range(request.symbols) :
      /\ \A key \in PairsRead(request, symbol) :
           ReadAsScheduled(key, context[symbol].frames[key], Now)
      /\ \A tf \in request.deps.timeframes \ {BaseFrame} : GateIsNamed(symbol, tf, Now)
      /\ door = "done" => CausalFrames(symbol) = context[symbol].frames
      /\ door = "done" => \A axis \in request.deps.timeframes :
           LET asked == Observations(axis)
               whole == prepared[<<symbol, axis>>]
           IN  /\ Rising([n \in DOMAIN asked |-> asked[n].at])
               /\ \A n \in DOMAIN asked :
                    /\ whole[asked[n].ordinal].label = asked[n].label
                    /\ asked[n].label \in Released(axis, asked[n].at)

\* Periods a clock change falls into.
Spans(row) == row.start < Change /\ Change < row.end

\* Sessions whose daily row the schedule leaves out, which only it can know.
Unlisted ==
  {session \in Sessions(schedule) :
     /\ session < Max(Sessions(schedule))
     /\ ~ \E row \in Range(schedule.rows) : row.timeframe = "1d" /\ row.session = session}

\* The scanner sees what a replay of the same bars showed.  At every close of
\* the test range the labels alone give the rows the schedule had released and
\* open each gate where the schedule opens it, prints outside the sessions
\* and early closes notwithstanding, unless the newest bucket spans a clock
\* change, the one case fresh_bar names, or a day is not scheduled at all; and a week may be decided on exactly
\* at the first close after its last session, when it is the newest one read
\* (closed_before, label_freshness against build_scheduled_context).
LiveDoorAgrees ==
  door = "bar" /\ read > 0 =>
    \A symbol \in Range(request.symbols) :
      /\ \A tf \in request.deps.timeframes :
           LET frame == context[symbol].frames[<<symbol, tf>>]
               live  == LiveIndex(symbol, tf, Now)
           IN  \/ /\ [n \in DOMAIN frame |-> frame[n].label] = SelectSeq(live, LAMBDA t : t \notin Range(Prints))
                  /\ tf # BaseFrame => (LabelGate(symbol, tf, Now) <=> context[symbol].fresh[tf])
               \/ tf = "1d" /\ Unlisted # {}
               \/ tf = "4h" /\ live # <<>> /\ Spans(RowAt(tf, Last(live)))
      /\ LET week(t) == SessionCutoff(t, "1w")
             last == {i \in Range(schedule.intervals) : week(i.open) < week(Now)}
         IN  /\ LabelGate(symbol, "1w", Now) <=>
                  \A i \in Range(schedule.intervals) : week(i.open) = week(Now) => Now <= i.close
             /\ \A t \in Range(LiveIndex(symbol, "1w", Now)) :
                  \A i \in Range(schedule.intervals) :
                    SessionCutoff(i.open, "1w") = SessionCutoff(t, "1w") => i.close <= Now
             /\ LabelGate(symbol, "1w", Now) /\ last # {} =>
                  week(Last(LiveIndex(symbol, "1w", Now))) = Max({week(i.open) : i \in last})
=============================================================================
