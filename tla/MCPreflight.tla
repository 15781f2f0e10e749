---------------------------- MODULE MCPreflight ----------------------------
(* A calendar of three sessions for the doors of a replay, what a caller may  *)
(* spoil of it, and the bars it may hand over.  A base bar is 1 long, an hour *)
(* 2, a bucket 4 and a day 12; session 1 closes early, leaves interval 19 out *)
(* and has a clock change inside its bucket.                                  *)
EXTENDS Integers, Sequences, SequencesExt, TLC

CONSTANT None

ClockShift == -2
PremarketPrints == <<9, 14, 24, 28>>
CachedWeeks == <<0, 12>>

Slot(session, ordinal, open) ==
  [session |-> session, ordinal |-> ordinal, open |-> open, close |-> open + 1]
Scheduled(tf, session, label, start, end, available, fresh) ==
  [timeframe |-> tf, session |-> session, label |-> label, start |-> start, end |-> end,
   available |-> available, fresh |-> fresh,
   source |-> CASE tf = "1h" -> "fetched_left_edge"
                [] tf = "4h" -> "derived_1h_et_midnight"
                [] tf = "1d" -> "session_aligned"]
HourRow(session, label, fresh) ==
  Scheduled("1h", session, label, label, label + 2, label + 2, fresh)
Calendar ==
  [identity |-> 1, signed |-> TRUE,
   intervals |-> <<Slot(0, 0, 4), Slot(0, 1, 5), Slot(0, 2, 6), Slot(0, 3, 7),
                   Slot(1, 0, 16), Slot(1, 1, 17), Slot(1, 2, 18), Slot(1, 3, 21),
                   Slot(2, 0, 30), Slot(2, 1, 31)>>,
   rows |-> <<HourRow(0, 4, 6), HourRow(0, 6, 8), HourRow(1, 16, 18), HourRow(1, 18, None),
              HourRow(1, 20, 22), HourRow(2, 30, 32),
              Scheduled("4h", 0, 4, 4, 8, 8, 8), Scheduled("4h", 1, 16, 16, 22, 22, 22),
              Scheduled("4h", 2, 30, 30, 34, 34, None),
              Scheduled("1d", 0, 0, 4, 8, 16, 17), Scheduled("1d", 1, 12, 16, 22, 30, 31)>>]

\* An interval that runs over an hour's end, which leaves that hour unfresh.
Uneven ==
  [Calendar EXCEPT
     !.intervals = <<Slot(0, 0, 4), [Slot(0, 1, 5) EXCEPT !.close = 7], Slot(0, 2, 7)>>
                   \o SubSeq(@, 5, 10),
     !.rows = <<HourRow(0, 4, None)>> \o SubSeq(@, 2, 11)]

Swapped(q, n) == [q EXCEPT ![n] = q[n + 1], ![n + 1] = q[n]]
Nudged(record, fields) ==
  {[record EXCEPT ![f] = @ + d] : f \in {g \in fields : record[g] # None}, d \in {-2, -1, 1, 2, 3}}
NudgedRow(row) ==
  Nudged(row, {"session", "label", "start", "end", "available", "fresh"})
  \cup {[row EXCEPT !.fresh = None], [row EXCEPT !.fresh = row.end], [row EXCEPT !.source = "odd"]}
NudgedSlot(slot) == Nudged(slot, {"session", "ordinal", "open", "close"})

Schedules ==
  {Calendar, Uneven, [Calendar EXCEPT !.signed = FALSE], [Calendar EXCEPT !.identity = 2],
   [Calendar EXCEPT !.rows = SubSeq(@, 1, 9)], [Calendar EXCEPT !.rows = SubSeq(@, 7, 11)]}
  \cup {[Calendar EXCEPT !.rows = RemoveAt(@, n)] : n \in 1..11}
  \cup {[Calendar EXCEPT !.rows = Swapped(@, n)] : n \in 1..10}
  \cup UNION {{[Calendar EXCEPT !.rows[n] = row] : row \in NudgedRow(Calendar.rows[n])} : n \in 1..11}
  \cup {[Calendar EXCEPT !.intervals = RemoveAt(@, n)] : n \in 1..10}
  \cup UNION {{[Calendar EXCEPT !.intervals[n] = slot] : slot \in NudgedSlot(Calendar.intervals[n])} :
              n \in 1..10}

\* Two replays: one symbol on every frame, read against a benchmark; two
\* symbols over a shorter test range, with a reference to another's days.
Edges(a, b, c, d) == [trainStart |-> a, trainEnd |-> b, testStart |-> c, testEnd |-> d]
OneSymbol ==
  [symbols |-> <<1>>, benchmark |-> [kind |-> "single_symbol", symbol |-> 2],
   window |-> Edges(4, 6, 6, 22), tail |-> 32, minted |-> TRUE, identity |-> 1,
   deps |-> [timeframes |-> {"15m", "1h", "4h", "1d"},
             pairs |-> {<<2, "1h">>, <<2, "15m">>, <<1, "4h">>}]]
TwoSymbols ==
  [OneSymbol EXCEPT
     !.symbols = <<1, 3>>,
     !.benchmark = [kind |-> "equal_weight_request_symbols", symbol |-> None],
     !.window = Edges(4, 16, 16, 18),
     !.deps = [timeframes |-> {"15m", "1h"}, pairs |-> {<<2, "1d">>}]]
OddRequests ==
  {[TwoSymbols EXCEPT !.window.testEnd = 32, !.deps.timeframes = {"15m", "4h", "1d"}],
   [OneSymbol EXCEPT !.window.testEnd = 21], [OneSymbol EXCEPT !.tail = 18],
   [OneSymbol EXCEPT !.minted = FALSE], [TwoSymbols EXCEPT !.symbols = <<1, 1>>],
   [TwoSymbols EXCEPT !.deps.timeframes = {"1h"}]}
ReplayCalls ==
  {[request |-> r, schedule |-> s] : r \in {OneSymbol, TwoSymbols}, s \in Schedules}
  \cup {[request |-> r, schedule |-> Calendar] : r \in OddRequests}

\* Bars: every pair's frame as required, or one of them spoiled, missing,
\* spelled twice or never asked for.
Spellings == [n \in {"A", "a", "B", "b", "C", "c"} |->
                CASE n \in {"A", "a"} -> 1 [] n \in {"B", "b"} -> 2 [] n \in {"C", "c"} -> 3]
Upward == [open |-> 2, high |-> 3, low |-> 1, close |-> 2, volume |-> 0]
FrameFor(labels) ==
  [index |-> labels, columns |-> TRUE,
   bars |-> [n \in DOMAIN labels |-> [Upward EXCEPT !.volume = labels[n] + 5]]]
Spoiled(frame) ==
  {FrameFor(RemoveAt(frame.index, n)) : n \in DOMAIN frame.index}
  \cup {FrameFor(<<-3>> \o frame.index), FrameFor(frame.index \o <<33>>), FrameFor(<<>>),
        [frame EXCEPT !.columns = FALSE]}
  \cup (IF Len(frame.index) < 2 THEN {}
        ELSE {FrameFor(Swapped(frame.index, 1))}
             \cup {[frame EXCEPT !.bars[2] = bar] :
                     bar \in {None, [Upward EXCEPT !.high = 1], [Upward EXCEPT !.low = 3],
                              [Upward EXCEPT !.volume = -1]}})
HandedOver(frames) ==
  SetToSeq({[symbol |-> <<"A", "b", "C">>[key[1]], timeframe |-> key[2], frame |-> frames[key]] :
              key \in DOMAIN frames})
BarSupplies(required) ==
  LET full == [key \in DOMAIN required |-> FrameFor(required[key])]
      all  == HandedOver(full)
  IN  {all, Append(all, [all[1] EXCEPT !.timeframe = "1w"]),
       Append(all, [all[1] EXCEPT !.symbol = <<"a", "B", "c">>[Spellings[@]]])}
      \cup {RemoveAt(all, n) : n \in DOMAIN all}
      \cup UNION {{HandedOver([full EXCEPT ![key] = frame]) : frame \in Spoiled(full[key])} :
                  key \in DOMAIN full}
=============================================================================
