-------------------------- MODULE CompositeProofs --------------------------
(***************************************************************************)
(* For every schedule, frame and vote tree: the emission gate opens at the *)
(* observations of the information coefficient, and one vote per member    *)
(* with one flag per side is enough to announce a setup on its edge.       *)
(***************************************************************************)
EXTENDS CompositeProperties, FiniteLemmas

-----------------------------------------------------------------------------
(* The schedule. *)

\* What ClockAssumption says of its sequences.
LEMMA Clock ==
  /\ Intervals \subseteq Nat \ {0} /\ IsFiniteSet(Intervals)
  /\ \A i \in Intervals : Opens[i] \in Nat /\ Closes[i] \in Nat /\ SessionOf[i] \in Nat
  /\ \A i, j \in Intervals : i < j => Closes[i] < Closes[j] /\ Opens[i] < Opens[j]
  /\ \A i, j \in Intervals : i <= j => Closes[i] <= Closes[j] /\ Opens[i] <= Opens[j]
<1>1. Len(Opens) \in Nat /\ Intervals \subseteq Nat \ {0}
  BY ClockAssumption, SMTT(30) DEF Intervals
<1>2. IsFiniteSet(Intervals)
  BY <1>1, FS_Interval, 1 \in Int DEF Intervals
<1>3. \A i \in Intervals : Opens[i] \in Nat /\ Closes[i] \in Nat /\ SessionOf[i] \in Nat
  <2>1. \A s \in Seq(Nat) : \A i \in 1..Len(s) : s[i] \in Nat
    OBVIOUS
  <2>2. Opens \in Seq(Nat) /\ Closes \in Seq(Nat) /\ SessionOf \in Seq(Nat)
    BY ClockAssumption
  <2>3. Len(Closes) = Len(Opens) /\ Len(SessionOf) = Len(Opens)
    BY ClockAssumption
  <2> QED BY <2>1, <2>2, <2>3 DEF Intervals
<1>4. \A i, j \in Intervals : i < j => Closes[i] < Closes[j] /\ Opens[i] < Opens[j]
  <2> SUFFICES ASSUME NEW i \in Intervals, NEW j \in Intervals, i < j
               PROVE  Closes[i] < Closes[j] /\ Opens[i] < Opens[j]
    OBVIOUS
  <2>1. Closes[i] <= Opens[j]
    BY ClockAssumption
  <2>2. Opens[i] < Closes[i] /\ Opens[j] < Closes[j]
    BY ClockAssumption
  <2> QED BY <1>3, <2>1, <2>2
<1>5. \A i, j \in Intervals : i <= j => i < j \/ i = j
  BY <1>1
<1> QED BY <1>1, <1>2, <1>3, <1>4, <1>5

\* The first interval of the sessions after s.
LEMMA FirstLater ==
  ASSUME NEW s, Later(s) # {}
  PROVE  /\ Min(Later(s)) \in Intervals /\ SessionOf[Min(Later(s))] > s
         /\ \A i \in Later(s) : Min(Later(s)) <= i
<1>1. Later(s) \subseteq Intervals
  BY DEF Later
<1>2. IsFiniteSet(Later(s)) /\ Later(s) \subseteq Nat
  BY <1>1, Clock, FS_Subset
<1>3. Min(Later(s)) \in Later(s) /\ \A i \in Later(s) : Min(Later(s)) <= i
  BY <1>2, NatMin
<1> QED BY <1>1, <1>3 DEF Later

\* The close an intraday row is fresh at.
LEMMA FirstClose ==
  ASSUME NEW t \in Nat, CloseAt(t) # None
  PROVE  \E i \in Intervals : CloseAt(t) = Closes[i] /\ t <= Closes[i] /\ Closes[i] < t + BaseStep
<1> DEFINE after == {i \in Intervals : Closes[i] >= t /\ Closes[i] < t + BaseStep}
<1>1. after # {} /\ CloseAt(t) = Closes[Min(after)]
  BY DEF CloseAt
<1>2. IsFiniteSet(after) /\ after \subseteq Nat
  BY Clock, FS_Subset
<1>3. Min(after) \in after
  <2> HIDE DEF after
  <2> QED BY <1>1, <1>2, NatMin
<1> QED BY <1>1, <1>3, Clock

\* The labels a validated schedule carries.
Carried == labels \in [Higher -> SUBSET Nat] /\ \A tf \in Higher : labels[tf] \subseteq Schedulable(tf)

\* A carried row is a label, and one of a higher frame ends after it begins.
LEMMA RowFacts ==
  ASSUME Carried, NEW tf \in Frames, NEW l \in Rows(tf)
  PROVE  /\ l \in Nat
         /\ tf = BaseFrame => l \in Intervals
         /\ tf \in Intraday => l \in DOMAIN PeriodEnd[tf] /\ PeriodEnd[tf][l] \in Nat /\ l < PeriodEnd[tf][l]
         /\ tf = Daily => Later(l) # {} /\ \E i \in Intervals : l = SessionOf[i]
<1>1. CASE tf = BaseFrame
  BY <1>1, Clock DEF Rows, BaseFrame, Intraday, Daily
<1>2. CASE tf \in Intraday
  BY <1>2, PeriodAssumption DEF Rows, BaseFrame, Intraday, Daily, Higher, Carried, Schedulable
<1>3. CASE tf = Daily
  BY <1>3 DEF Rows, BaseFrame, Intraday, Daily, Higher, Carried, Schedulable
<1> QED BY <1>1, <1>2, <1>3 DEF Frames, Higher

\* A row is fresh at a scheduled close, not before it is released.
LEMMA FreshAfterRelease ==
  ASSUME Carried, NEW tf \in Frames, NEW l \in Rows(tf)
  PROVE  /\ AvailableAt(tf, l) \in Nat
         /\ FreshAt(tf, l) # None =>
              /\ \E i \in Intervals : FreshAt(tf, l) = Closes[i]
              /\ AvailableAt(tf, l) <= FreshAt(tf, l)
<1>1. CASE tf = BaseFrame
  <2>1. \A k \in Rows(tf) : AvailableAt(tf, k) = Closes[k] /\ FreshAt(tf, k) = Closes[k] /\ k \in Intervals
    BY <1>1, RowFacts DEF AvailableAt, FreshAt, Intraday, BaseFrame, Daily
  <2>2. \A i \in Intervals : Closes[i] \in Nat
    BY Clock
  <2> QED BY <2>1, <2>2
<1>2. CASE tf \in Intraday
  <2>1. AvailableAt(tf, l) = PeriodEnd[tf][l] /\ FreshAt(tf, l) = CloseAt(PeriodEnd[tf][l])
    BY <1>2 DEF AvailableAt, FreshAt, Intraday, BaseFrame, Daily
  <2> QED BY <1>2, <2>1, RowFacts, FirstClose, Clock
<1>3. CASE tf = Daily
  <2>1. AvailableAt(tf, l) = Opens[Min(Later(l))] /\ FreshAt(tf, l) = Closes[Min(Later(l))]
    BY <1>3 DEF AvailableAt, FreshAt, Intraday, BaseFrame, Daily
  <2>2. Min(Later(l)) \in Intervals
    BY <1>3, RowFacts, FirstLater
  <2>3. \A i \in Intervals : Opens[i] \in Nat /\ Closes[i] \in Nat /\ Opens[i] <= Closes[i]
    BY Clock, ClockAssumption
  <2> QED BY <2>1, <2>2, <2>3
<1> QED BY <1>1, <1>2, <1>3 DEF Frames, Higher

\* Rows are released in order, and none between a row's release and the close
\* it is fresh at: the newest released row is the only candidate.
LEMMA ReleasedInOrder ==
  ASSUME Carried, NEW tf \in Frames, NEW l \in Rows(tf), NEW m \in Rows(tf), l < m
  PROVE  /\ AvailableAt(tf, l) <= AvailableAt(tf, m)
         /\ FreshAt(tf, l) # None => FreshAt(tf, l) < AvailableAt(tf, m)
<1>1. CASE tf = BaseFrame
  <2>1. \A k \in Rows(tf) : AvailableAt(tf, k) = Closes[k] /\ FreshAt(tf, k) = Closes[k] /\ k \in Intervals
    BY <1>1, RowFacts DEF AvailableAt, FreshAt, Intraday, BaseFrame, Daily
  <2>2. Closes[l] < Closes[m] /\ Closes[l] \in Nat /\ Closes[m] \in Nat
    BY <2>1, Clock
  <2> QED BY <2>1, <2>2
<1>2. CASE tf \in Intraday
  <2>1. /\ AvailableAt(tf, l) = PeriodEnd[tf][l] /\ FreshAt(tf, l) = CloseAt(PeriodEnd[tf][l])
        /\ AvailableAt(tf, m) = PeriodEnd[tf][m]
    BY <1>2 DEF AvailableAt, FreshAt, Intraday, BaseFrame, Daily
  <2>2. PeriodEnd[tf][l] + BaseStep <= PeriodEnd[tf][m]
    BY <1>2, RowFacts, PeriodAssumption
  <2>3. PeriodEnd[tf][l] \in Nat /\ PeriodEnd[tf][m] \in Nat /\ BaseStep \in Nat
    BY <1>2, RowFacts, ClockAssumption
  <2>4. CloseAt(PeriodEnd[tf][l]) # None => \E i \in Intervals :
           CloseAt(PeriodEnd[tf][l]) = Closes[i] /\ Closes[i] < PeriodEnd[tf][l] + BaseStep
    BY <2>3, FirstClose
  <2> QED BY <2>1, <2>2, <2>3, <2>4, Clock
<1>3. CASE tf = Daily
  <2>1. /\ AvailableAt(tf, l) = Opens[Min(Later(l))] /\ FreshAt(tf, l) = Closes[Min(Later(l))]
        /\ AvailableAt(tf, m) = Opens[Min(Later(m))]
    BY <1>3 DEF AvailableAt, FreshAt, Intraday, BaseFrame, Daily
  <2>2. PICK i \in Intervals : m = SessionOf[i]
    BY <1>3, RowFacts
  <2>3. /\ Min(Later(l)) \in Intervals /\ \A j \in Later(l) : Min(Later(l)) <= j
        /\ Min(Later(m)) \in Intervals /\ SessionOf[Min(Later(m))] > m
    BY <1>3, RowFacts, FirstLater
  <2>4. i \in Later(l) /\ l \in Nat /\ m \in Nat
    BY <2>2, RowFacts DEF Later
  <2>5. Min(Later(l)) <= i
    BY <2>3, <2>4
  <2>6. \A j \in Intervals : SessionOf[j] > m => i < j /\ Closes[i] < Opens[j]
    <3>1. SUFFICES ASSUME NEW j \in Intervals, SessionOf[j] > m PROVE i < j /\ Closes[i] < Opens[j]
      OBVIOUS
    <3>2. i \in Nat /\ j \in Nat /\ SessionOf[i] \in Nat /\ SessionOf[j] \in Nat
      BY Clock
    <3>3. j < i => SessionOf[j] <= SessionOf[i]
      BY ClockAssumption
    <3>4. i < j /\ SessionOf[i] # SessionOf[j]
      BY <2>2, <3>1, <3>2, <3>3
    <3> QED BY <3>4, ClockAssumption
  <2>8. Closes[i] < Opens[Min(Later(m))]
    BY <2>3, <2>6
  <2>9. Closes[Min(Later(l))] <= Closes[i] /\ Opens[Min(Later(l))] <= Opens[i] /\ Opens[i] < Closes[i]
    BY <2>2, <2>3, <2>5, Clock, ClockAssumption
  <2>10. \A j \in Intervals : Opens[j] \in Nat /\ Closes[j] \in Nat
    BY Clock
  <2> QED BY <2>1, <2>2, <2>3, <2>8, <2>9, <2>10
<1> QED BY <1>1, <1>2, <1>3 DEF Frames, Higher

\* The newest visible row exists.
LEMMA NewestVisible ==
  ASSUME Carried, NEW tf \in Frames, NEW i \in Intervals, Visible(tf, i) # {}
  PROVE  Newest(tf, i) \in Visible(tf, i) /\ \A l \in Visible(tf, i) : l <= Newest(tf, i)
<1>1. Visible(tf, i) \subseteq Nat
  BY RowFacts DEF Visible
<1>2. \E b \in Nat : \A l \in Visible(tf, i) : l <= b
  <2>1. CASE tf = BaseFrame
    <3>1. \A l \in Visible(tf, i) : l <= Len(Opens)
      BY <2>1 DEF Visible, Rows, Intervals
    <3> QED BY <3>1, ClockAssumption
  <2>2. CASE tf \in Intraday
    <3>1. \A l \in Visible(tf, i) : l <= Closes[i]
      BY <2>2, RowFacts, Clock DEF Visible, AvailableAt, Intraday, BaseFrame, Daily
    <3> QED BY <3>1, Clock
  <2>3. CASE tf = Daily
    <3>1. \A l \in Visible(tf, i) : l <= SessionOf[Len(Opens)]
      <4>1. Len(Opens) \in Intervals
        BY Clock, ClockAssumption DEF Intervals
      <4>2. \A j \in Intervals : j < Len(Opens) \/ j = Len(Opens)
        BY ClockAssumption DEF Intervals
      <4>3. \A j \in Intervals : SessionOf[j] <= SessionOf[Len(Opens)]
        <5> SUFFICES ASSUME NEW j \in Intervals PROVE SessionOf[j] <= SessionOf[Len(Opens)]
          OBVIOUS
        <5>1. j < Len(Opens) => SessionOf[j] <= SessionOf[Len(Opens)]
          BY <4>1, ClockAssumption
        <5>2. SessionOf[j] \in Nat
          BY Clock
        <5> QED BY <4>2, <5>1, <5>2
      <4> QED BY <2>3, <4>3, RowFacts DEF Visible
    <3>2. SessionOf[Len(Opens)] \in Nat
      BY Clock, ClockAssumption DEF Intervals
    <3> QED BY <3>1, <3>2
  <2> QED BY <2>1, <2>2, <2>3 DEF Frames, Higher
<1> QED BY <1>1, <1>2, NatMax DEF Newest

\* The row a frame is decided on at the close of i.
Graded(tf, l, i) == FreshAt(tf, l) = Closes[i] /\ \E k \in Rows(tf) : k < l

\* A frame is decided at a close exactly when one of its rows but the first is
\* fresh there, and on that row.
LEMMA GateOpens ==
  ASSUME Carried, NEW tf \in Frames, NEW i \in Intervals
  PROVE  /\ Decides(tf, i) => Newest(tf, i) \in Rows(tf) /\ Graded(tf, Newest(tf, i), i)
         /\ \A l \in Rows(tf) : Graded(tf, l, i) => Decides(tf, i) /\ l = Newest(tf, i)
<1>1. ASSUME Decides(tf, i) PROVE Newest(tf, i) \in Rows(tf) /\ Graded(tf, Newest(tf, i), i)
  <2>1. PICK k \in Visible(tf, i) : k # Newest(tf, i)
    BY <1>1 DEF Decides
  <2>2. Newest(tf, i) \in Visible(tf, i) /\ \A l \in Visible(tf, i) : l <= Newest(tf, i)
    BY <2>1, NewestVisible
  <2>3. Newest(tf, i) \in Rows(tf) /\ k \in Rows(tf) /\ k < Newest(tf, i)
    BY <2>1, <2>2, RowFacts DEF Visible
  <2>4. FreshAt(tf, Newest(tf, i)) = Closes[i]
    <3>1. CASE tf = BaseFrame
      <4>1. i \in Visible(tf, i)
        BY <3>1, Clock DEF Visible, Rows, AvailableAt, Intraday, BaseFrame, Daily
      <4>2. Newest(tf, i) \in Intervals /\ Closes[Newest(tf, i)] <= Closes[i] /\ i <= Newest(tf, i)
        BY <2>2, <3>1, <4>1 DEF Visible, Rows, AvailableAt, Intraday, BaseFrame, Daily
      <4>3. Closes[i] <= Closes[Newest(tf, i)]
        BY <4>2, Clock
      <4>4. Closes[Newest(tf, i)] = Closes[i]
        <5>1. Closes[i] \in Nat /\ Closes[Newest(tf, i)] \in Nat
          BY <4>2, Clock
        <5> QED BY <4>2, <4>3, <5>1
      <4> QED BY <3>1, <4>4 DEF FreshAt, Intraday, BaseFrame, Daily
    <3>2. CASE tf # BaseFrame
      BY <1>1, <3>2 DEF Decides, Fresh
    <3> QED BY <3>1, <3>2
  <2> QED BY <2>3, <2>4 DEF Graded
<1>2. ASSUME NEW l \in Rows(tf), Graded(tf, l, i) PROVE Decides(tf, i) /\ l = Newest(tf, i)
  <2>1. PICK k \in Rows(tf) : k < l
    BY <1>2 DEF Graded
  <2>2. FreshAt(tf, l) = Closes[i] /\ FreshAt(tf, l) # None
    BY <1>2, Clock, ClockAssumption DEF Graded
  <2>3. l \in Visible(tf, i)
    BY <2>2, FreshAfterRelease DEF Visible
  <2>4. k \in Visible(tf, i)
    BY <2>1, <2>3, ReleasedInOrder, FreshAfterRelease, Clock DEF Visible
  <2>5. \A m \in Visible(tf, i) : ~ (l < m)
    BY <2>2, ReleasedInOrder, FreshAfterRelease, Clock DEF Visible
  <2>6. Newest(tf, i) \in Visible(tf, i) /\ l <= Newest(tf, i)
    BY <2>3, NewestVisible
  <2>7. l = Newest(tf, i)
    BY <2>5, <2>6, RowFacts DEF Visible
  <2>8. k # Newest(tf, i)
    BY <2>1, <2>7, RowFacts
  <2> QED BY <2>2, <2>3, <2>4, <2>7, <2>8 DEF Decides, Fresh
<1> QED BY <1>1, <1>2

-----------------------------------------------------------------------------
(* The composite. *)

\* Types, as far as the steps need them.
Typed ==
  /\ Carried
  /\ step \in (FirstTest - 1)..LastTest
  /\ votes \in [Sides -> [Members -> Nat \cup {None}]]
  /\ passing \in [Sides -> BOOLEAN]
  /\ cast \subseteq [side : Sides, member : Members, at : Nat]
  /\ \A v \in cast : \E i \in FirstTest..step : v.at = Closes[i]

\* What has been decided is exactly what was graded up to now.
DecidedIsGraded ==
  /\ \A d \in decided : \E tf \in Frames : \E l \in Rows(tf), i \in FirstTest..step :
       d = [frame |-> tf, row |-> l, at |-> Closes[i]] /\ Graded(tf, l, i)
  /\ \A tf \in Frames : \A l \in Rows(tf), i \in FirstTest..step :
       Graded(tf, l, i) => [frame |-> tf, row |-> l, at |-> Closes[i]] \in decided

IInv == Typed /\ VotesAreNewest /\ FlagsAreComplete /\ DecidedIsGraded

\* The test range lies inside the schedule.
LEMMA TestRange ==
  /\ FirstTest \in Nat /\ LastTest \in Nat /\ 1 <= FirstTest /\ FirstTest <= LastTest
  /\ FirstTest..LastTest \subseteq Intervals
  BY Clock, ClockAssumption DEF Intervals

\* The promise reads the trees as the composite does.
LEMMA SameTrees ==
  /\ Promise!Sides = Sides
  /\ \A side : Promise!HasTree(side) = HasTree(side)
  /\ \A side, live : Promise!Passes(side, live) = Passes(side, live)
  /\ \A side : Promise!BlockIds(side) = BlockIds(side)
  BY DEF Promise!Sides, Sides, Promise!HasTree, HasTree, Promise!Passes, Passes,
         Promise!BlockIds, BlockIds

\* The members whose newest vote is live are those with any vote in the window.
LEMMA LiveIsInWindow ==
  Typed /\ VotesAreNewest =>
    \A side \in Sides, t \in Nat : Live(votes[side], t) = Promise!Voters(cast, side, t)
<1> SUFFICES ASSUME Typed, VotesAreNewest, NEW side \in Sides, NEW t \in Nat
             PROVE  Live(votes[side], t) = Promise!Voters(cast, side, t)
  OBVIOUS
<1>1. Window \in Nat
  BY CompositeAssumption, ClockAssumption DEF Window
<1>2. SUFFICES ASSUME NEW m \in Members
               PROVE  (votes[side][m] # None /\ t - votes[side][m] < Window)
                      <=> \E v \in cast : v.side = side /\ v.member = m /\ t - v.at < Window
  BY DEF Live, Promise!Voters
<1>3. \A v \in cast : v.at \in Nat
  BY DEF Typed
<1>4. CASE votes[side][m] = None
  BY <1>4 DEF VotesAreNewest
<1>5. CASE votes[side][m] # None
  <2>1. votes[side][m] \in Nat
    BY <1>5 DEF Typed
  <2>2. /\ \E v \in cast : v.side = side /\ v.member = m /\ v.at = votes[side][m]
        /\ \A v \in cast : v.side = side /\ v.member = m => v.at <= votes[side][m]
    BY <1>5 DEF VotesAreNewest
  <2> QED BY <1>1, <1>3, <1>5, <2>1, <2>2
<1> QED BY <1>4, <1>5

\* Before the first close nothing is cast, complete or decided.
LEMMA CompositeInit == Init => IInv
<1> SUFFICES ASSUME Init PROVE IInv
  OBVIOUS
<1>1. step = FirstTest - 1 /\ ~ (FirstTest <= step) /\ step < FirstTest
  BY TestRange DEF Init, ContextsInit
<1>2. Carried
  <2>1. PICK carried : labels = [tf \in Higher |-> {l \in Schedulable(tf) : <<tf, l>> \in carried}]
    BY DEF Init, ContextsInit
  <2>2. \A tf \in Higher : Schedulable(tf) \subseteq Nat
    <3>1. Schedulable(Daily) \subseteq Nat
      BY Clock DEF Schedulable
    <3>2. \A tf \in Intraday : Schedulable(tf) \subseteq Nat
      BY PeriodAssumption DEF Schedulable, Intraday, Daily
    <3> QED BY <3>1, <3>2 DEF Higher
  <2> QED BY <2>1, <2>2 DEF Carried
<1>3. Typed
  BY <1>1, <1>2, TestRange DEF Typed, Init
<1>4. VotesAreNewest
  BY DEF VotesAreNewest, Init
<1>5. FlagsAreComplete
  BY <1>1 DEF FlagsAreComplete, Init, Promise!Complete
<1>6. DecidedIsGraded
  <2>1. FirstTest..step = {}
    BY <1>1, TestRange
  <2> QED BY <2>1 DEF DecidedIsGraded, Init
<1> QED BY <1>3, <1>4, <1>5, <1>6 DEF IInv

\* What a close of the replay does, with its choices named.
LEMMA BarParts ==
  ASSUME Typed, OnBar
  PROVE  LET at == Closes[step + 1] IN
         /\ step + 1 \in FirstTest..LastTest /\ step + 1 \in Intervals /\ at \in Nat
         /\ step' = step + 1 /\ labels' = labels
         /\ \E ballots \in SUBSET (Sides \X Members) :
              /\ votes' = Voted(ballots, at)
              /\ cast' = cast \cup {[side |-> b[1], member |-> b[2], at |-> at] : b \in ballots}
              /\ Announce(ballots, at)
<1>1. step' = step + 1 /\ labels' = labels /\ step < LastTest
  BY DEF OnBar, NextClose
<1>2. step + 1 \in FirstTest..LastTest /\ step + 1 \in Intervals
  BY <1>1, TestRange DEF Typed
<1>3. Deciding(step + 1) \subseteq Members
  BY DEF Deciding
<1>4. \E ballots \in SUBSET (Sides \X Deciding(step + 1)) :
        /\ votes' = Voted(ballots, Closes[step + 1])
        /\ cast' = cast \cup {[side |-> b[1], member |-> b[2], at |-> Closes[step + 1]] : b \in ballots}
        /\ Announce(ballots, Closes[step + 1])
  BY Zenon DEF OnBar
<1>5. SUBSET (Sides \X Deciding(step + 1)) \subseteq SUBSET (Sides \X Members)
  BY <1>3
<1> QED BY <1>1, <1>2, <1>4, <1>5, Clock

\* A close keeps the types and the newest votes.
LEMMA BarVotes ==
  ASSUME Typed, VotesAreNewest, OnBar
  PROVE  VotesAreNewest' /\ Carried'
         /\ step' \in (FirstTest - 1)..LastTest
         /\ votes' \in [Sides -> [Members -> Nat \cup {None}]]
         /\ cast' \subseteq [side : Sides, member : Members, at : Nat]
         /\ \A v \in cast' : \E i \in FirstTest..step' : v.at = Closes[i]
<1> DEFINE at == Closes[step + 1]
<1>1. /\ step + 1 \in FirstTest..LastTest /\ step + 1 \in Intervals /\ at \in Nat
      /\ step' = step + 1 /\ labels' = labels
  BY BarParts
<1>2. PICK ballots \in SUBSET (Sides \X Members) :
        /\ votes' = Voted(ballots, at)
        /\ cast' = cast \cup {[side |-> b[1], member |-> b[2], at |-> at] : b \in ballots}
  BY BarParts
<1>3. Carried'
  BY <1>1 DEF Typed, Carried, Schedulable, Higher
<1>4. votes' \in [Sides -> [Members -> Nat \cup {None}]]
  BY <1>1, <1>2 DEF Typed, Voted
<1>5. cast' \subseteq [side : Sides, member : Members, at : Nat]
  BY <1>1, <1>2 DEF Typed
<1>6. \A v \in cast' : \E i \in FirstTest..step' : v.at = Closes[i]
  <2>1. FirstTest..step \subseteq FirstTest..(step + 1) /\ step + 1 \in FirstTest..(step + 1)
    BY <1>1, TestRange DEF Typed
  <2> QED BY <1>1, <1>2, <2>1 DEF Typed
<1>7. \A v \in cast : v.at < at /\ v.at \in Nat
  <2>1. \A i \in FirstTest..step : i \in Intervals /\ i < step + 1
    BY TestRange DEF Typed
  <2> QED BY <1>1, <2>1, Clock DEF Typed
<1>8. VotesAreNewest'
  <2> SUFFICES ASSUME NEW side \in Sides, NEW m \in Members
               PROVE  LET mine == {v \in cast' : v.side = side /\ v.member = m} IN
                      IF votes'[side][m] = None THEN mine = {}
                      ELSE /\ \E v \in mine : v.at = votes'[side][m]
                           /\ \A v \in mine : v.at <= votes'[side][m]
    BY DEF VotesAreNewest
  <2>1. at # None
    BY <1>1, ClockAssumption
  <2>2. CASE <<side, m>> \in ballots
    <3>1. votes'[side][m] = at
      BY <1>2, <2>2 DEF Voted
    <3>2. [side |-> side, member |-> m, at |-> at] \in cast'
      BY <1>2, <2>2
    <3>3. \A v \in cast' : v.at <= at
      BY <1>1, <1>2, <1>7
    <3> QED BY <2>1, <3>1, <3>2, <3>3
  <2>3. CASE <<side, m>> \notin ballots
    <3>1. votes'[side][m] = votes[side][m]
      BY <1>2, <2>3 DEF Voted
    <3>2. \A b \in ballots : b = <<b[1], b[2]>>
      OBVIOUS
    <3>3. \A v \in cast' : v.side = side /\ v.member = m => v \in cast
      BY <1>2, <2>3, <3>2
    <3>4. {v \in cast' : v.side = side /\ v.member = m} = {v \in cast : v.side = side /\ v.member = m}
      BY <1>2, <3>3
    <3> QED BY <3>1, <3>4 DEF VotesAreNewest
  <2> QED BY <2>2, <2>3
<1>9. step' \in (FirstTest - 1)..LastTest
  BY <1>1, TestRange
<1> QED BY <1>3, <1>4, <1>5, <1>6, <1>8, <1>9

\* A close announces what the votes in the window complete, and remembers it.
LEMMA BarAnnounces ==
  ASSUME IInv, OnBar
  PROVE  Typed' /\ FlagsAreComplete' /\ Promise!Vote
<1> DEFINE at == Closes[step + 1]
           before == IF step < FirstTest THEN None ELSE Closes[step]
           live(side) == Promise!Voters(cast', side, at)
           edges == {side \in Sides : Promise!Complete(cast', side, at) /\ ~ Promise!Complete(cast, side, before)}
<1>1. /\ step + 1 \in FirstTest..LastTest /\ step + 1 \in Intervals /\ at \in Nat
      /\ step' = step + 1 /\ labels' = labels
  BY BarParts DEF IInv
<1>2. VotesAreNewest' /\ Carried'
      /\ step' \in (FirstTest - 1)..LastTest
      /\ votes' \in [Sides -> [Members -> Nat \cup {None}]]
      /\ cast' \subseteq [side : Sides, member : Members, at : Nat]
      /\ \A v \in cast' : \E i \in FirstTest..step' : v.at = Closes[i]
  BY BarVotes DEF IInv
<1>3. PICK ballots \in SUBSET (Sides \X Members) :
        /\ votes' = Voted(ballots, at)
        /\ cast' = cast \cup {[side |-> b[1], member |-> b[2], at |-> at] : b \in ballots}
        /\ Announce(ballots, at)
  BY BarParts DEF IInv
<1>4. PICK sent \in SUBSET Edges(ballots, at) :
        /\ passing' = [side \in Sides |->
             Remembered(side, Passing(side, LiveAfter(ballots, at, side)), side \in sent)]
        /\ setups' = setups \cup
             {[side |-> side, at |-> at, voters |-> LiveAfter(ballots, at, side) \cap BlockIds(side),
               sent |-> side \in sent] : side \in Edges(ballots, at)}
  BY <1>3 DEF Announce
<1>5. passing' \in [Sides -> BOOLEAN]
  BY <1>4 DEF Remembered, Passing, HasTree
<1>6. Typed'
  BY <1>2, <1>5 DEF Typed
<1>7. \A side \in Sides : LiveAfter(ballots, at, side) = live(side)
  <2>1. \A side \in Sides, t \in Nat : Live(votes'[side], t) = Promise!Voters(cast', side, t)
    <3>1. (\A side \in Sides, t \in Nat : Live(votes[side], t) = Promise!Voters(cast, side, t))'
      BY <1>2, <1>6, LiveIsInWindow, PTL
    <3> QED BY <3>1 DEF Live, Promise!Voters
  <2> QED BY <1>1, <1>3, <2>1 DEF LiveAfter
<1>8. \A side \in Sides : Passing(side, LiveAfter(ballots, at, side)) <=> Promise!Complete(cast', side, at)
  <2>1. at # None
    BY <1>1, ClockAssumption
  <2> QED BY <1>7, <2>1, SameTrees DEF Passing, Promise!Complete
<1>9. FlagsAreComplete'
  <2>1. step' >= FirstTest /\ Closes[step'] = at
    BY <1>1, TestRange
  <2>2. \A side \in Sides : passing'[side] = Passing(side, LiveAfter(ballots, at, side))
    BY <1>4 DEF Remembered
  <2>3. ~ (step' < FirstTest)
    BY <1>1, <2>1, TestRange
  <2> QED BY <1>8, <2>1, <2>2, <2>3 DEF FlagsAreComplete, Promise!Complete, Promise!Voters
<1>10. Edges(ballots, at) = edges
  BY <1>8 DEF Edges, IInv, FlagsAreComplete
<1>11. Promise!Vote
  <2> DEFINE next == IF step' < FirstTest THEN None ELSE Closes[step']
  <2>1. next = at /\ at \in Times /\ (before # None => before < at)
    <3>1. step' >= FirstTest /\ ~ (step' < FirstTest)
      BY <1>1, TestRange
    <3>2. before # None => step \in Intervals /\ step < step + 1 /\ before = Closes[step]
      BY <1>1, TestRange DEF IInv, Typed
    <3> QED BY <1>1, <3>1, <3>2, Clock DEF Times
  <2>2. cast \subseteq cast' /\ cast' \ cast \subseteq [side : Sides, member : Members, at : {next}]
    BY <1>3, <2>1
  <2>3. setups' = setups \cup
          {[side |-> side, at |-> next, voters |-> live(side) \cap BlockIds(side),
            sent |-> side \in sent] : side \in edges}
    <3>1. \A side \in edges : LiveAfter(ballots, at, side) = live(side)
      BY <1>7
    <3> HIDE DEF edges, live
    <3> QED BY <1>4, <1>10, <2>1, <3>1
  <2>4. sent \in SUBSET Sides
    BY <1>4 DEF Edges
  <2> QED BY <2>1, <2>2, <2>3, <2>4, SameTrees, SMTT(30) DEF Promise!Vote
<1> QED BY <1>6, <1>9, <1>11

\* A close decides what is graded at it, and on that row.
LEMMA BarDecides ==
  ASSUME IInv, OnBar
  PROVE  DecidedIsGraded'
<1> DEFINE n == step + 1
           Row(tf, l, i) == [frame |-> tf, row |-> l, at |-> Closes[i]]
<1>1. n \in FirstTest..LastTest /\ n \in Intervals /\ step' = n /\ labels' = labels
  BY BarParts DEF IInv
<1>2. decided' = decided \cup {Row(tf, Newest(tf, n), n) : tf \in {f \in Frames : Decides(f, n)}}
  BY DEF OnBar
<1>3. Carried
  BY DEF IInv, Typed
<1>4. /\ \A tf \in Frames : Decides(tf, n) => Newest(tf, n) \in Rows(tf) /\ Graded(tf, Newest(tf, n), n)
      /\ \A tf \in Frames : \A l \in Rows(tf) : Graded(tf, l, n) => Decides(tf, n) /\ l = Newest(tf, n)
  BY <1>1, <1>3, GateOpens
<1>5. /\ \A i \in FirstTest..n : i \in FirstTest..step \/ i = n
      /\ n \in FirstTest..n /\ FirstTest..step \subseteq FirstTest..n
  BY <1>1, TestRange DEF IInv, Typed
<1>6. \A d \in decided' : \E tf \in Frames : \E l \in Rows(tf), i \in FirstTest..n :
        d = Row(tf, l, i) /\ Graded(tf, l, i)
  <2>1. \A d \in decided : \E tf \in Frames : \E l \in Rows(tf), i \in FirstTest..n :
          d = Row(tf, l, i) /\ Graded(tf, l, i)
    BY <1>5 DEF IInv, DecidedIsGraded
  <2> QED BY <1>2, <1>4, <1>5, <2>1
<1>7. ASSUME NEW tf \in Frames, NEW l \in Rows(tf), NEW i \in FirstTest..n, Graded(tf, l, i)
      PROVE  Row(tf, l, i) \in decided'
  <2>1. CASE i \in FirstTest..step
    BY <1>2, <1>7, <2>1 DEF IInv, DecidedIsGraded
  <2>2. CASE i = n
    BY <1>2, <1>4, <1>7, <2>2
  <2> QED BY <1>5, <2>1, <2>2
<1>8. \A tf \in Frames : Rows(tf)' = Rows(tf) /\ \A l, i : Graded(tf, l, i)' <=> Graded(tf, l, i)
  BY <1>1 DEF Rows, Graded, FreshAt
<1> QED BY <1>1, <1>6, <1>7, <1>8 DEF DecidedIsGraded

\* Every step keeps the invariant.
LEMMA CompositeNext == IInv /\ [Next]_vars => IInv'
<1>1. ASSUME IInv, OnBar PROVE IInv'
  <2>1. VotesAreNewest'
    BY <1>1, BarVotes DEF IInv
  <2> QED BY <1>1, <2>1, BarAnnounces, BarDecides DEF IInv
<1>2. ASSUME IInv, UNCHANGED vars PROVE IInv'
  <2> USE <1>2 DEF vars, IInv
  <2>1. Typed'
    BY DEF Typed, Carried, Schedulable
  <2>2. VotesAreNewest'
    BY DEF VotesAreNewest
  <2>3. FlagsAreComplete'
    BY DEF FlagsAreComplete, Promise!Complete, Promise!Voters
  <2>4. DecidedIsGraded'
    <3>1. \A tf \in Frames : Rows(tf)' = Rows(tf) /\ \A l, i : Graded(tf, l, i)' <=> Graded(tf, l, i)
      BY DEF Rows, Graded, FreshAt
    <3> QED BY <3>1 DEF DecidedIsGraded
  <2> QED BY <2>1, <2>2, <2>3, <2>4
<1> QED BY <1>1, <1>2 DEF Next, Finished

\* The invariant holds at every close of a composite's replay.
LEMMA CompositeInvariant == Spec => []IInv
  BY CompositeInit, CompositeNext, PTL DEF Spec

\* What is graded up to now is what the observations up to now are.
LEMMA GradedIsObserved == IInv => DecidedIsObserved
<1> SUFFICES ASSUME IInv, NEW tf \in Frames
             PROVE  {d \in decided : d.frame = tf} =
                      {o \in Observations(tf) : o.at <= Now /\ \E l \in Rows(tf) : l < o.row}
  BY DEF DecidedIsObserved
<1>1. Carried /\ step \in (FirstTest - 1)..LastTest
  BY DEF IInv, Typed
<1>2. ASSUME NEW d \in decided, d.frame = tf
      PROVE  d \in Observations(tf) /\ d.at <= Now /\ \E l \in Rows(tf) : l < d.row
  <2>1. PICK l \in Rows(tf), i \in FirstTest..step :
          d = [frame |-> tf, row |-> l, at |-> Closes[i]] /\ Graded(tf, l, i)
    BY <1>2 DEF IInv, DecidedIsGraded
  <2>2. i \in Intervals /\ step \in Intervals /\ step # 0 /\ FirstTest <= i /\ i <= step /\ step <= LastTest
    BY <1>1, TestRange
  <2>3. Opens[FirstTest] < Closes[i] /\ Closes[i] <= Closes[LastTest] /\ Closes[i] <= Closes[step]
    <3>1. FirstTest \in Intervals /\ LastTest \in Intervals /\ Opens[FirstTest] < Closes[FirstTest]
      BY ClockAssumption
    <3>2. Closes[FirstTest] <= Closes[i] /\ Closes[i] <= Closes[step] /\ Closes[step] <= Closes[LastTest]
      BY <2>2, <3>1, Clock
    <3> QED BY <2>2, <3>1, <3>2, Clock
  <2>4. FreshAt(tf, l) = Closes[i] /\ Closes[i] # None
    BY <2>1, <2>2, Clock, ClockAssumption DEF Graded
  <2> QED BY <2>1, <2>2, <2>3, <2>4 DEF Observations, Now, Graded
<1>3. ASSUME NEW o \in Observations(tf), o.at <= Now, NEW k \in Rows(tf), k < o.row
      PROVE  o \in decided /\ o.frame = tf
  <2>1. PICK l \in Rows(tf) : /\ o = [frame |-> tf, row |-> l, at |-> FreshAt(tf, l)]
                              /\ FreshAt(tf, l) # None /\ Opens[FirstTest] < FreshAt(tf, l)
    BY DEF Observations
  <2>2. PICK i \in Intervals : FreshAt(tf, l) = Closes[i]
    BY <1>1, <2>1, FreshAfterRelease
  <2>3. i \in Nat /\ FirstTest \in Intervals /\ FirstTest \in Nat /\ step \in Int
    BY <1>1, Clock, ClockAssumption
  <2>4. FirstTest <= i
    <3>1. i < FirstTest => Closes[i] <= Opens[FirstTest]
      BY <2>3, ClockAssumption
    <3>2. Opens[FirstTest] < Closes[i] /\ Closes[i] \in Nat /\ Opens[FirstTest] \in Nat
      BY <2>1, <2>2, <2>3, Clock
    <3> QED BY <2>3, <3>1, <3>2
  <2>5. i <= step
    <3>1. step # 0
      <4>1. Closes[i] > 0
        BY <2>1, <2>2, <2>3, Clock
      <4> QED BY <1>3, <2>1, <2>2, <4>1, Clock DEF Now
    <3>2. step \in Intervals /\ Closes[i] <= Closes[step]
      BY <1>1, <1>3, <2>1, <2>2, <3>1, TestRange DEF Now, Intervals
    <3>3. step < i => Closes[step] < Closes[i]
      BY <3>2, Clock
    <3>4. Closes[i] \in Nat /\ Closes[step] \in Nat
      BY <3>2, Clock
    <3> QED BY <2>3, <3>2, <3>3, <3>4
  <2>6. i \in FirstTest..step
    BY <2>3, <2>4, <2>5
  <2>7. Graded(tf, l, i)
    BY <1>3, <2>1, <2>2 DEF Graded
  <2> QED BY <2>1, <2>2, <2>6, <2>7 DEF IInv, DecidedIsGraded
<1> QED BY <1>2, <1>3

\* The replay's emission gate opens at exactly the observations of the
\* information coefficient, on the same rows.
THEOREM GateIsObservation == Spec => []DecidedIsObserved
  BY CompositeInvariant, GradedIsObserved, PTL

\* Newest votes and one flag per side implement the promise.
THEOREM ConfluenceImplemented == Spec => ImplementsConfluence
<1>1. Init => Promise!Init
  BY TestRange DEF Init, ContextsInit, Promise!Init
<1>2. IInv /\ [Next]_vars => [Promise!Vote]_(Promise!vars)
  <2>1. ASSUME UNCHANGED vars PROVE UNCHANGED Promise!vars
    BY <2>1 DEF vars, Promise!vars
  <2> QED BY <2>1, BarAnnounces DEF Next, Finished
<1> QED BY <1>1, <1>2, CompositeInvariant, PTL DEF Spec, ImplementsConfluence, Promise!Spec
=============================================================================
