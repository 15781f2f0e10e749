----------------------------- MODULE Preflight ------------------------------
(***************************************************************************)
(* The doors of a replay (engine/replay.py _replay): the request's types,  *)
(* the schedule (engine/schedule.py), the bars (engine/bars.py); and what  *)
(* is read through them afterwards by position, the contexts of the base   *)
(* closes (engine/context.py) and the views of the information coefficient *)
(* (engine/ic.py).                                                         *)
(*                                                                         *)
(* A replay is refused whole, whatever the refusal says: a guard here is a *)
(* door's accepting condition.  Instants are integers; the exchange's wall *)
(* clock is they, shifted once.                                            *)
(***************************************************************************)
EXTENDS Absent, Selection, Integers, Sequences, FiniteSetsExt, Functions

CONSTANTS
  BaseLen, HourLen, BucketLen, DayLen,   \* 15m, 1h, 4h, 1d
  Change, Shift,        \* from Change on, the wall clock is Shift ahead
  Calls,                \* what a caller may ask and hand over: [request, schedule]
  SymbolOf,             \* a spelled symbol to its name
  Supplies(_)           \* the bars it may hand over, given the labels required per pair

VARIABLES
  door,      \* the door the replay stands before, then "bar", "done" or "refused"
  request, schedule,
  supply,    \* the caller's bars: [symbol, timeframe, frame], in order
  prepared,  \* the engine's frames, per pair
  context,   \* per traded symbol, what the last close showed
  read       \* test intervals replayed

preflightVars == <<door, request, schedule, supply, prepared, context, read>>

BaseFrame == "15m"
ContextFrames == <<"1h", "4h", "1d">>
Frames == {BaseFrame} \cup Range(ContextFrames)
Position(tf) == CHOOSE n \in DOMAIN ContextFrames : ContextFrames[n] = tf
SourceOf ==
  [tf \in Range(ContextFrames) |->
     CASE tf = "1h" -> "fetched_left_edge"
       [] tf = "4h" -> "derived_1h_et_midnight"
       [] tf = "1d" -> "session_aligned"]

Local(t) == IF t < Change THEN t ELSE t + Shift
SessionAt(t) == Local(t) \div DayLen

Rising(values) == \A n \in 2..Len(values) : values[n - 1] < values[n]

\* How many of the rising keys are at most x, and how many are below it.
\* (bisect_right, bisect_left)
BisectRight(keys, x) ==
  LET f[range \in (0..Len(keys)) \X (0..Len(keys))] ==
        LET lo  == range[1]
            hi  == range[2]
            mid == (lo + hi) \div 2
        IN  IF lo >= hi THEN lo
            ELSE IF x < keys[mid + 1] THEN f[<<lo, mid>>] ELSE f[<<mid + 1, hi>>]
  IN  f[<<0, Len(keys)>>]
BisectLeft(keys, x) == BisectRight(keys, x - 1)

-----------------------------------------------------------------------------
(* The types of a request, of a closure and of a schedule's rows. *)

WindowAccepted(w) ==
  w.trainStart < w.trainEnd /\ w.trainEnd = w.testStart /\ w.testStart < w.testEnd

ClosureAccepted(deps) ==
  /\ BaseFrame \in deps.timeframes /\ deps.timeframes \subseteq Frames
  /\ \A pair \in deps.pairs : pair[2] \in Frames

RequestAccepted(r) ==
  /\ r.symbols # <<>> /\ IsInjective(r.symbols)
  /\ (r.benchmark.kind = "single_symbol") <=> (r.benchmark.symbol # None)
  /\ WindowAccepted(r.window)
  /\ r.tail >= r.window.testEnd
  /\ r.minted

IntervalAccepted(i) == i.ordinal >= 0 /\ i.open < i.close

RowAccepted(row) ==
  /\ row.start < row.end
  /\ row.end <= row.available
  /\ row.fresh # None => row.available <= row.fresh

-----------------------------------------------------------------------------
(* The schedule. *)

Opens(s) == [n \in DOMAIN s.intervals |-> s.intervals[n].open]
Closes(s) == [n \in DOMAIN s.intervals |-> s.intervals[n].close]
ContextBars(s, tf) == Kept(s.rows, {n \in DOMAIN s.rows : s.rows[n].timeframe = tf})
Block(s, session) == Kept(s.intervals, {n \in DOMAIN s.intervals : s.intervals[n].session = session})
Sessions(s) == {i.session : i \in Range(s.intervals)}

\* One run of intervals that never overlap, each in the session it opens in.
SoundClock(s) ==
  /\ s.intervals # <<>> /\ \A i \in Range(s.intervals) : IntervalAccepted(i)
  /\ Rising(Opens(s)) /\ Rising(Closes(s))
  /\ \A n \in 2..Len(s.intervals) : s.intervals[n].open >= s.intervals[n - 1].close
  /\ \A n \in DOMAIN s.intervals :
       LET i == s.intervals[n]
       IN  /\ i.session = SessionAt(i.open)
           /\ i.ordinal = Cardinality({m \in 1..(n - 1) : s.intervals[m].session = i.session})

\* Context rows stand by frame and, inside one, rise in label, start and end.
Grouped(s) ==
  \A n \in 2..Len(s.rows) :
    LET earlier == s.rows[n - 1]
        later   == s.rows[n]
    IN  /\ Position(earlier.timeframe) <= Position(later.timeframe)
        /\ earlier.timeframe = later.timeframe =>
             earlier.label < later.label /\ earlier.start < later.start /\ earlier.end < later.end

Covered(s, row) ==
  {n \in (BisectRight(Closes(s), row.start) + 1)..Len(s.intervals) : s.intervals[n].open < row.end}

\* The base close inside the one base bar that begins at t, if any.
CloseAfter(s, t) ==
  LET n == BisectLeft(Closes(s), t) + 1
  IN  IF n <= Len(s.intervals) /\ s.intervals[n].close < t + BaseLen
      THEN s.intervals[n].close ELSE None

Anchored(row) ==
  CASE row.timeframe = "1h" -> row.label % HourLen = 0
    [] row.timeframe = "4h" -> Local(row.label) % BucketLen = 0
    [] row.timeframe = "1d" -> Local(row.label) = row.session * DayLen

PeriodLength(row) ==
  IF row.timeframe = "1h" THEN row.end - row.start = HourLen
  ELSE Local(row.end) - Local(row.start) = BucketLen

\* An hour or a bucket is labelled at its left edge and released at its end.
IntradayRow(s, row) ==
  /\ row.start = row.label
  /\ PeriodLength(row)
  /\ row.available = row.end
  /\ row.fresh = CloseAfter(s, row.end)

\* A day spans its session and is released when the next one opens.
DailyRow(s, row) ==
  LET block == Block(s, row.session)
      later == {session \in Sessions(s) : session > row.session}
  IN  /\ row.start = block[1].open /\ row.end = block[Len(block)].close
      /\ later # {}
      /\ LET following == Block(s, Min(later))[1]
         IN  row.available = following.open /\ row.fresh = following.close

SoundRow(s, row) ==
  /\ RowAccepted(row)
  /\ Covered(s, row) # {} /\ \A n \in Covered(s, row) : s.intervals[n].session = row.session
  /\ row.source = SourceOf[row.timeframe]
  /\ Anchored(row)
  /\ IF row.timeframe = "1d" THEN DailyRow(s, row) ELSE IntradayRow(s, row)

\* Every edge of the window is an edge of an interval.
WindowFits(r, s) ==
  /\ s.intervals[1].open = r.window.trainStart
  /\ s.intervals[Len(s.intervals)].close = r.tail
  /\ r.window.testStart \in Range(Opens(s))
  /\ r.window.testEnd \in Range(Closes(s))

ScheduleAccepted(r, s) ==
  /\ s.identity = r.identity /\ s.signed
  /\ SoundClock(s) /\ Grouped(s)
  /\ \A row \in Range(s.rows) : SoundRow(s, row)
  /\ WindowFits(r, s)

TestIntervals(r, s) ==
  LET inside(i) == r.window.testStart <= i.open /\ i.open < r.window.testEnd
  IN  Kept(s.intervals, {n \in DOMAIN s.intervals : inside(s.intervals[n])})

-----------------------------------------------------------------------------
(* The bars. *)

\* A pair's spellings are one key, and a key has one frame.
Key(entry) == <<SymbolOf[entry.symbol], entry.timeframe>>
SupplyAccepted(bars) == \A m, n \in DOMAIN bars : Key(bars[m]) = Key(bars[n]) => m = n
FrameOf(bars, key) == (CHOOSE entry \in Range(bars) : Key(entry) = key).frame

\* Every value a number, every high its highest price and every low its lowest.
BarAccepted(bar) ==
  /\ bar # None
  /\ bar.high >= Max({bar.open, bar.close, bar.low})
  /\ bar.low <= Min({bar.open, bar.close, bar.high})
  /\ bar.volume >= 0

FrameAccepted(frame) ==
  Rising(frame.index) /\ frame.columns /\ \A bar \in Range(frame.bars) : BarAccepted(bar)

ExactPairs(r) ==
  (Range(r.symbols) \X r.deps.timeframes)
  \cup (IF r.benchmark.symbol = None THEN {} ELSE {<<r.benchmark.symbol, BaseFrame>>})
RequiredPairs(r) == ExactPairs(r) \cup r.deps.pairs

\* A traded pair is read to the end of the tail, any other to the test's.
Boundary(r, key) ==
  IF key \in Range(r.symbols) \X r.deps.timeframes THEN r.tail ELSE r.window.testEnd

ScheduledLabels(s, tf, boundary) ==
  LET labels == IF tf = BaseFrame THEN Opens(s)
                ELSE [n \in DOMAIN ContextBars(s, tf) |-> ContextBars(s, tf)[n].label]
  IN  Kept(labels, {n \in DOMAIN labels : labels[n] < boundary})

RequiredLabels(r, s, key) == ScheduledLabels(s, key[2], Boundary(r, key))

LabelsOwed(r, s) == [key \in RequiredPairs(r) |-> RequiredLabels(r, s, key)]

\* Mutant: a frame that covers the labels is enough.
CoversLabels(frame, labels) == Range(labels) \subseteq Range(frame.index)

HasLabels(frame, labels) == frame.index = labels

LabelsAccepted(r, s, key, frame) ==
  LET labels == RequiredLabels(r, s, key)
  IN  IF key \in ExactPairs(r) THEN HasLabels(frame, labels)
      ELSE Range(frame.index) \subseteq Range(labels)

\* The engine's frame: a traded or benchmark one as it is, an external one
\* placed on the schedule with a null row for every label it lacks.
Placed(r, s, key, frame) ==
  LET labels == IF key \in ExactPairs(r) THEN frame.index ELSE RequiredLabels(r, s, key)
      BarAt(t) == IF t \in Range(frame.index)
                  THEN frame.bars[CHOOSE n \in DOMAIN frame.index : frame.index[n] = t]
                  ELSE None
  IN  [n \in DOMAIN labels |-> [label |-> labels[n], bar |-> BarAt(labels[n])]]

BarsAccepted(r, s, bars) ==
  /\ SupplyAccepted(bars)
  /\ \A tf \in r.deps.timeframes \ {BaseFrame} : ContextBars(s, tf) # <<>>
  /\ {Key(entry) : entry \in Range(bars)} = RequiredPairs(r)
  /\ \A key \in RequiredPairs(r) :
       /\ FrameAccepted(FrameOf(bars, key))
       /\ LabelsAccepted(r, s, key, FrameOf(bars, key))

-----------------------------------------------------------------------------
(* Reading by position. *)

ClosedBaseCount(s, now) == BisectRight(Closes(s), now)

AvailableContextCount(s, tf, now) ==
  BisectRight([n \in DOMAIN ContextBars(s, tf) |-> ContextBars(s, tf)[n].available], now)

VisibleRows(s, tf, now) ==
  IF tf = BaseFrame THEN ClosedBaseCount(s, now) ELSE AvailableContextCount(s, tf, now)

\* A frame's first rows, or all it has.
Cut(frame, n) == SubSeq(frame, 1, Min({n, Len(frame)}))

PairsRead(r, symbol) == ({symbol} \X r.deps.timeframes) \cup r.deps.pairs

FramesAt(symbol, now) ==
  [key \in PairsRead(request, symbol) |-> Cut(prepared[key], VisibleRows(schedule, key[2], now))]

\* The newest row released is the one to decide on, if now is its instant.
Fresh(s, tf, now) ==
  LET released == Cut(ContextBars(s, tf), AvailableContextCount(s, tf, now))
  IN  released # <<>> /\ released[Len(released)].fresh = now

\* A context is built at a scheduled base close no later than the test's end.
ContextTime(now) ==
  LET closed == ClosedBaseCount(schedule, now)
  IN  /\ closed # 0 /\ Closes(schedule)[closed] = now
      /\ now <= request.window.testEnd

ContextOf(symbol, now) ==
  [frames |-> FramesAt(symbol, now),
   fresh  |-> [tf \in request.deps.timeframes \ {BaseFrame} |-> Fresh(schedule, tf, now)]]

\* The instants a graded factor is asked at, each with its row's label and
\* position, and the frames it is shown.
Observations(axis) ==
  LET rows == IF axis = BaseFrame
              THEN [n \in DOMAIN schedule.intervals |->
                      [at |-> Closes(schedule)[n], label |-> Opens(schedule)[n], ordinal |-> n]]
              ELSE [n \in DOMAIN ContextBars(schedule, axis) |->
                      [at      |-> ContextBars(schedule, axis)[n].fresh,
                       label   |-> ContextBars(schedule, axis)[n].label,
                       ordinal |-> n]]
      asked(o) == o.at # None /\ request.window.testStart < o.at /\ o.at <= request.window.testEnd
  IN  Kept(rows, {n \in DOMAIN rows : asked(rows[n])})
CausalFrames(symbol) == FramesAt(symbol, request.window.testEnd)

-----------------------------------------------------------------------------
(* What the types and the calendar give. *)

\* Instants are whole numbers, and a context row is of a context frame.
Interval == [session : Int, ordinal : Int, open : Int, close : Int]
ContextRow ==
  [timeframe : Range(ContextFrames), session : Int, label : Int, start : Int, end : Int,
   available : Int, fresh : Int \cup {None}, source : STRING]
CallTyped(call) ==
  /\ {call.request.window.testStart, call.request.window.testEnd, call.request.tail} \subseteq Int
  /\ call.schedule.intervals \in Seq(Interval) /\ call.schedule.rows \in Seq(ContextRow)

\* A session ends before the next one opens.
SessionsApart(s) ==
  SoundClock(s) =>
    \A n \in 2..Len(s.intervals) :
      s.intervals[n].session # s.intervals[n - 1].session => s.intervals[n - 1].close < s.intervals[n].open

\* A frame has a bar for every label.
FrameTyped(frame) == DOMAIN frame.bars = DOMAIN frame.index

\* The clock changes by less than a bucket, no less than a base bar, and
\* neither skips nor repeats a midnight.
ASSUME PreflightAssumption ==
  /\ None \notin Int
  /\ {BaseLen, HourLen, BucketLen, DayLen} \subseteq Nat \ {0}
  /\ BaseLen <= HourLen /\ BaseLen <= BucketLen
  /\ {Change, Shift} \subseteq Int
  /\ Shift # 0 =>
       /\ SessionAt(Change - 1) = SessionAt(Change) /\ Local(Change) % DayLen # 0
       /\ \E by \in {Shift, -Shift} : BaseLen <= by /\ by + BaseLen <= BucketLen
  /\ \A call \in Calls :
       /\ CallTyped(call) /\ SessionsApart(call.schedule)
       /\ RequestAccepted(call.request) /\ ClosureAccepted(call.request.deps)
          /\ ScheduleAccepted(call.request, call.schedule) =>
            \A bars \in Supplies(LabelsOwed(call.request, call.schedule)) :
              \A entry \in Range(bars) : FrameTyped(entry.frame)

-----------------------------------------------------------------------------
(* One replay. *)

DoorsInit ==
  /\ door = "call"
  /\ request = None /\ schedule = None /\ supply = None
  /\ prepared = None /\ context = None /\ read = 0

\* A refusal leaves nothing of the replay behind.
TurnAway ==
  /\ door' = "refused"
  /\ request' = None /\ schedule' = None /\ supply' = None
  /\ prepared' = None /\ context' = None /\ read' = 0

ValidateRequest ==
  /\ door = "call"
  /\ \E call \in Calls :
       IF RequestAccepted(call.request) /\ ClosureAccepted(call.request.deps)
       THEN /\ door' = "schedule"
            /\ request' = call.request /\ schedule' = call.schedule
            /\ UNCHANGED <<supply, prepared, context, read>>
       ELSE TurnAway

ValidateSchedule ==
  /\ door = "schedule"
  /\ IF ScheduleAccepted(request, schedule)
     THEN door' = "bars" /\ UNCHANGED <<request, schedule, supply, prepared, context, read>>
     ELSE TurnAway

PrepareBars ==
  /\ door = "bars"
  /\ \E bars \in Supplies(LabelsOwed(request, schedule)) :
       IF BarsAccepted(request, schedule, bars)
       THEN /\ door' = "bar"
            /\ supply' = bars
            /\ prepared' = [key \in RequiredPairs(request) |->
                              Placed(request, schedule, key, FrameOf(bars, key))]
            /\ UNCHANGED <<request, schedule, context, read>>
       ELSE TurnAway

\* The next base close of the test range: one context per traded symbol.
NextClose ==
  LET now == TestIntervals(request, schedule)[read + 1].close
  IN  /\ door = "bar" /\ read < Len(TestIntervals(request, schedule))
      /\ IF ContextTime(now)
         THEN /\ read' = read + 1
              /\ context' = [symbol \in Range(request.symbols) |-> ContextOf(symbol, now)]
              /\ UNCHANGED <<door, request, schedule, supply, prepared>>
         ELSE TurnAway

Finish ==
  /\ door = "bar" /\ read = Len(TestIntervals(request, schedule))
  /\ door' = "done"
  /\ UNCHANGED <<request, schedule, supply, prepared, context, read>>

ReplayEnded == door \in {"done", "refused"} /\ UNCHANGED preflightVars

DoorsNext ==
  ValidateRequest \/ ValidateSchedule \/ PrepareBars \/ NextClose \/ Finish \/ ReplayEnded

DoorsSpec == DoorsInit /\ [][DoorsNext]_preflightVars
=============================================================================
