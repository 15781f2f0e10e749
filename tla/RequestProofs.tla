---------------------------- MODULE RequestProofs ---------------------------
(***************************************************************************)
(* What surrounds a replay.  Its doors: a validated schedule's rows of one *)
(* frame rise in label and in release, a search finds how many of them an  *)
(* instant has released, and so the first rows of every prepared frame are *)
(* the ones the schedule released.  Its lens: ranks of ties shared by      *)
(* their average differ from their mean by what a value beats less what    *)
(* beats it, so an estimate is an agreement of pairs.                      *)
(***************************************************************************)
EXTENDS PreflightProperties, RankLensProperties, SequenceTheorems, FiniteLemmas

-----------------------------------------------------------------------------
(* The clock. *)

\* Division with its remainder.
LEMMA Parts ==
  ASSUME NEW a \in Int, NEW d \in Nat \ {0}
  PROVE  /\ a \div d \in Int /\ a % d \in Nat /\ a % d < d
         /\ a = ((a \div d) * d) + (a % d)
<1>1. d \in Int /\ d > 0
  OBVIOUS
<1>2. a % d \in Nat /\ a % d < d
  BY <1>1
<1>3. a \div d \in Int
  BY <1>1
<1>4. a = ((a \div d) * d) + (a % d)
  BY <1>1
<1> QED BY <1>2, <1>3, <1>4

\* One more of the same.
LEMMA OneMore ==
  ASSUME NEW i \in Int, NEW j \in Int, i < j, NEW d \in Nat
  PROVE  i * d \in Int /\ j * d \in Int /\ (i * d) + d <= j * d
<1>1. PICK k \in Nat : j = i + 1 + k
  <2>1. j - i - 1 \in Nat /\ j = i + 1 + (j - i - 1)
    OBVIOUS
  <2> QED BY <2>1
<1>2. j * d = (i * d) + d + (k * d) /\ k * d \in Nat /\ i * d \in Int
  BY <1>1
<1> HIDE <1>1
<1> QED BY <1>2

\* Division keeps the order.
LEMMA Grows ==
  ASSUME NEW a \in Int, NEW b \in Int, a <= b, NEW d \in Nat \ {0}
  PROVE  a \div d <= b \div d
<1>1. PICK p \in Int, r \in Nat : p = a \div d /\ r < d /\ a = (p * d) + r
  BY Parts
<1>2. PICK q \in Int, s \in Nat : q = b \div d /\ s < d /\ b = (q * d) + s
  BY Parts
<1>3. ASSUME q < p PROVE FALSE
  <2>1. (q * d) + d <= p * d /\ q * d \in Int /\ p * d \in Int
    BY <1>3, OneMore
  <2> QED BY <1>1, <1>2, <2>1
<1> QED BY <1>1, <1>2, <1>3

\* The calendar's numbers.
LEMMA Lengths ==
  /\ BaseLen \in Nat \ {0} /\ HourLen \in Nat \ {0} /\ BucketLen \in Nat \ {0} /\ DayLen \in Nat \ {0}
  /\ BaseLen <= HourLen /\ BaseLen <= BucketLen /\ Change \in Int /\ Shift \in Int /\ None \notin Int
  BY PreflightAssumption

\* Wall clock readings.
LEMMA LocalTyped ==
  ASSUME NEW t \in Int
  PROVE  Local(t) \in Int /\ SessionAt(t) \in Int
<1>1. Local(t) \in Int
  BY Lengths DEF Local
<1> QED BY <1>1, Lengths, Parts DEF SessionAt

\* The exchange's date never goes back.
LEMMA DatesGrow ==
  ASSUME NEW t \in Int, NEW u \in Int, t <= u
  PROVE  SessionAt(t) <= SessionAt(u)
<1>1. CASE u < Change \/ Change <= t \/ Shift = 0
  <2>1. Local(t) <= Local(u)
    BY <1>1, Lengths DEF Local
  <2> QED BY <2>1, LocalTyped, Lengths, Grows DEF SessionAt
<1>2. CASE t < Change /\ Change <= u /\ Shift # 0
  <2>1. Change - 1 \in Int /\ Local(t) <= Local(Change - 1) /\ Local(Change) <= Local(u)
    BY <1>2, Lengths DEF Local
  <2>2. SessionAt(t) <= SessionAt(Change - 1)
    BY <2>1, LocalTyped, Lengths, Grows DEF SessionAt
  <2>3. SessionAt(Change) <= SessionAt(u)
    BY <2>1, LocalTyped, Lengths, Grows DEF SessionAt
  <2>4. SessionAt(Change - 1) = SessionAt(Change)
    BY <1>2, PreflightAssumption
  <2>5. SessionAt(t) \in Int /\ SessionAt(u) \in Int /\ SessionAt(Change) \in Int
    BY LocalTyped, Lengths
  <2> QED BY <2>2, <2>3, <2>4, <2>5
<1> QED BY <1>1, <1>2, Lengths

\* A date's midnight is not after an instant of that date.
LEMMA MidnightBefore ==
  ASSUME NEW t \in Int, NEW label \in Int, Local(label) = SessionAt(t) * DayLen
  PROVE  label <= t
<1>1. PICK day \in Int, r \in Nat : day = SessionAt(t) /\ r < DayLen /\ Local(t) = (day * DayLen) + r
  <2>1. Local(t) \in Int /\ DayLen \in Nat \ {0}
    BY LocalTyped, Lengths
  <2>2. /\ SessionAt(t) \in Int /\ Local(t) % DayLen \in Nat /\ Local(t) % DayLen < DayLen
        /\ Local(t) = (SessionAt(t) * DayLen) + (Local(t) % DayLen)
    BY <2>1, Parts, LocalTyped DEF SessionAt
  <2> QED BY <2>2
<1>2. day * DayLen \in Int /\ day * DayLen <= Local(t) /\ Local(label) = day * DayLen
  BY <1>1, Lengths
<1> SUFFICES ASSUME t < label PROVE FALSE
  OBVIOUS
<1>3. t < Change /\ Change <= label /\ Shift # 0
  BY <1>2, Lengths DEF Local
<1>4. Local(Change) <= day * DayLen /\ day * DayLen <= Change - 1
  BY <1>2, <1>3, Lengths DEF Local
<1>5. PICK q \in Int, s \in Nat :
        q = SessionAt(Change) /\ s < DayLen /\ Local(Change) = (q * DayLen) + s /\ s = Local(Change) % DayLen
  BY LocalTyped, Lengths, Parts DEF SessionAt
<1>6. PICK v \in Nat : v < DayLen /\ Change - 1 = (q * DayLen) + v
  <2>1. Local(Change - 1) = Change - 1 /\ Change - 1 \in Int
    BY Lengths DEF Local
  <2>2. SessionAt(Change - 1) = q
    BY <1>3, <1>5, PreflightAssumption
  <2> QED BY <2>1, <2>2, Lengths, Parts DEF SessionAt
<1>7. q * DayLen \in Int
  BY Lengths
<1>8. ASSUME day < q PROVE FALSE
  <2>1. (day * DayLen) + DayLen <= q * DayLen
    BY <1>8, OneMore, Lengths
  <2> QED BY <1>2, <1>4, <1>5, <1>7, <2>1, Lengths
<1>9. ASSUME q < day PROVE FALSE
  <2>1. (q * DayLen) + DayLen <= day * DayLen
    BY <1>9, OneMore, Lengths
  <2> QED BY <1>2, <1>4, <1>6, <1>7, <2>1, Lengths
<1>10. day = q
  BY <1>1, <1>5, <1>8, <1>9
<1>11. s = 0
  BY <1>4, <1>5, <1>7, <1>10
<1> QED BY <1>3, <1>5, <1>11, PreflightAssumption

-----------------------------------------------------------------------------
(* The searches. *)

\* The search finds the answer where there is one.
LEMMA BisectUnfolds ==
  ASSUME NEW keys \in Seq(Int), NEW x \in Int, NEW answer \in 0..Len(keys),
         \A n \in 1..Len(keys) : n <= answer <=> keys[n] <= x
  PROVE  BisectRight(keys, x) = answer
<1> DEFINE D == 0..Len(keys)
           P == D \X D
           Mid(p) == (p[1] + p[2]) \div 2
           Step(g, p) == IF p[1] >= p[2] THEN p[1]
                         ELSE IF x < keys[Mid(p) + 1] THEN g[<<p[1], Mid(p)>>] ELSE g[<<Mid(p) + 1, p[2]>>]
           Body(g) == [p \in P |-> Step(g, p)]
           f == CHOOSE g : g = Body(g)
           Value(lo, hi) == IF lo >= hi \/ answer < lo THEN lo ELSE IF answer > hi THEN hi ELSE answer
           F == [p \in P |-> Value(p[1], p[2])]
<1>1. Len(keys) \in Nat /\ DOMAIN keys = 1..Len(keys) /\ \A n \in 1..Len(keys) : keys[n] \in Int
  OBVIOUS
<1>2. BisectRight(keys, x) = f[<<0, Len(keys)>>]
  BY DEF BisectRight
\* Between two bounds the middle is a position.
<1>3. ASSUME NEW lo \in D, NEW hi \in D, lo < hi, NEW mid, mid = (lo + hi) \div 2
      PROVE  /\ mid \in D /\ mid + 1 \in D /\ mid + 1 \in 1..Len(keys)
             /\ lo <= mid /\ mid < hi
  BY <1>1, <1>3
<1>4. \A lo, hi \in D : F[<<lo, hi>>] = Value(lo, hi)
  <2> HIDE DEF Value, D
  <2> QED OBVIOUS
<1>5. F = Body(F)
  <2>1. ASSUME NEW lo \in D, NEW hi \in D
        PROVE  Value(lo, hi) = Step(F, <<lo, hi>>)
    <3>1. CASE lo >= hi
      BY <3>1
    <3>2. CASE lo < hi
      <4>0. PICK mid : mid = (lo + hi) \div 2
        OBVIOUS
      <4>1. /\ mid \in D /\ mid + 1 \in D /\ mid + 1 \in 1..Len(keys)
            /\ lo <= mid /\ mid < hi
        <5> HIDE DEF D
        <5> QED BY <1>3, <3>2, <4>0
      <4>2. F[<<lo, mid>>] = Value(lo, mid) /\ F[<<mid + 1, hi>>] = Value(mid + 1, hi)
        <5> HIDE DEF F, Value, D
        <5> QED BY <1>4, <4>1
      <4>3. (x < keys[mid + 1]) <=> answer <= mid
        <5>1. (mid + 1 <= answer) <=> keys[mid + 1] <= x
          BY <4>1
        <5>2. keys[mid + 1] \in Int /\ mid \in Int
          BY <1>1, <4>1
        <5> QED BY <5>1, <5>2
      <4>4. answer \in Int /\ lo \in Int /\ hi \in Int /\ mid \in Int
        BY <1>1, <4>1
      <4>8. Step(F, <<lo, hi>>) = IF x < keys[mid + 1] THEN F[<<lo, mid>>] ELSE F[<<mid + 1, hi>>]
        <5>1. <<lo, hi>>[1] = lo /\ <<lo, hi>>[2] = hi
          OBVIOUS
        <5>2. Mid(<<lo, hi>>) = mid
          BY <4>0
        <5>3. PICK p : p = <<lo, hi>>
          OBVIOUS
        <5>4. p[1] = lo /\ p[2] = hi /\ Mid(p) = mid /\ ~ (lo >= hi)
          BY <3>2, <4>4, <5>1, <5>2, <5>3
        <5>5. Step(F, p) = IF x < keys[mid + 1] THEN F[<<lo, mid>>] ELSE F[<<mid + 1, hi>>]
          <6> HIDE DEF F, Mid
          <6> QED BY <5>4
        <5> HIDE DEF F, Mid, Step
        <5> QED BY <5>3, <5>5
      <4> HIDE DEF Step
      <4>5. CASE answer <= mid
        <5>1. Value(lo, mid) = Value(lo, hi)
          <6> HIDE DEF F
          <6> QED BY <3>2, <4>1, <4>4, <4>5
        <5> HIDE DEF F, Value
        <5> QED BY <4>2, <4>3, <4>5, <5>1, <4>8
      <4>6. CASE mid < answer
        <5>1. Value(mid + 1, hi) = Value(lo, hi)
          <6> HIDE DEF F
          <6> QED BY <3>2, <4>1, <4>4, <4>6
        <5>2. ~ (x < keys[mid + 1])
          BY <4>3, <4>4, <4>6
        <5> HIDE DEF F, Value
        <5> QED BY <4>2, <5>2, <5>1, <4>8
      <4> QED BY <4>4, <4>5, <4>6
    <3> QED BY <1>1, <3>1, <3>2
  <2>2. ASSUME NEW p \in P PROVE Value(p[1], p[2]) = Step(F, p)
    <3>1. PICK lo \in D, hi \in D : p = <<lo, hi>>
      <4> HIDE DEF D
      <4> QED OBVIOUS
    <3>2. p[1] = lo /\ p[2] = hi
      BY <3>1
    <3> HIDE DEF Value, Step, F
    <3> QED BY <2>1, <3>1, <3>2
  <2> HIDE DEF Value, Step, P
  <2>3. Body(F) = [p \in P |-> Value(p[1], p[2])]
    <3> HIDE DEF F
    <3> QED BY <2>2
  <2> QED BY <2>3
<1>6. f = Body(f)
  <2> HIDE DEF Body, F
  <2> QED BY <1>5
<1>7. ASSUME NEW p \in P PROVE f[p] = Step(f, p)
  <2>1. Body(f)[p] = Step(f, p)
    <3> HIDE DEF f, P, Step
    <3> QED OBVIOUS
  <2> HIDE DEF Body, f, Step
  <2> QED BY <1>6, <2>1
<1>8. ASSUME NEW p \in P PROVE F[p] = Step(F, p)
  <2>1. Body(F)[p] = Step(F, p)
    <3> HIDE DEF F, P, Step
    <3> QED OBVIOUS
  <2> HIDE DEF Body, F, Step
  <2> QED BY <1>5, <2>1
<1>12. \A lo, hi \in D : <<lo, hi>> \in P /\ <<lo, hi>>[1] = lo /\ <<lo, hi>>[2] = hi
  OBVIOUS
<1>13. Value(0, Len(keys)) = answer
  <2>1. PICK l \in Nat : l = Len(keys)
    BY <1>1
  <2>2. answer \in Int /\ 0 <= answer /\ answer <= l
    BY <2>1
  <2>3. Value(0, l) = answer
    <3> HIDE <2>1
    <3> HIDE DEF F
    <3> QED BY <2>2
  <2> HIDE DEF Value
  <2> QED BY <2>1, <2>3
<1> HIDE DEF f, F, Body, Value, P
<1> DEFINE Apart == {d \in 0..Len(keys) :
                       \E lo, hi \in D : lo < hi /\ d = hi - lo /\ f[<<lo, hi>>] # F[<<lo, hi>>]}
<1>9. ASSUME Apart # {} PROVE FALSE
  <2>1. IsFiniteSet(Apart) /\ Apart \subseteq Nat
    <3>1. IsFiniteSet(0..Len(keys)) /\ Apart \in SUBSET (0..Len(keys))
      BY <1>1, FS_Interval
    <3>2. \A d \in Apart : d \in Nat
      BY <1>1
    <3> HIDE DEF Apart
    <3> QED BY <3>1, <3>2, FS_Subset
  <2>2. PICK d \in Apart : \A e \in Apart : d <= e
    <3> HIDE DEF Apart
    <3> QED BY <1>9, <2>1, NatMin
  <2>3. PICK lo \in D, hi \in D : lo < hi /\ d = hi - lo /\ f[<<lo, hi>>] # F[<<lo, hi>>]
    OBVIOUS
  <2>4. PICK mid : mid = (lo + hi) \div 2
    OBVIOUS
  <2>5. /\ mid \in D /\ mid + 1 \in D /\ mid + 1 \in 1..Len(keys)
        /\ lo <= mid /\ mid < hi
    BY <1>3, <2>3, <2>4
  <2>6. ASSUME NEW a \in D, NEW b \in D, a < b, b - a < d PROVE f[<<a, b>>] = F[<<a, b>>]
    <3>1. b - a \in 0..Len(keys) /\ b - a \in Int /\ d \in Int
      <4>1. a \in Int /\ b \in Int /\ lo \in Int /\ hi \in Int /\ 0 <= lo /\ hi <= Len(keys)
        BY <1>1
      <4> HIDE DEF D
      <4> QED BY <1>1, <2>3, <2>6, <4>1
    <3>2. b - a \notin Apart
      <4> HIDE DEF Apart, D
      <4> QED BY <2>2, <2>6, <3>1
    <3> QED BY <2>6, <3>1, <3>2
  <2> HIDE DEF Apart
  <2>7. ASSUME NEW a \in D, NEW b \in D, a >= b PROVE f[<<a, b>>] = F[<<a, b>>]
    <3>1. f[<<a, b>>] = a /\ F[<<a, b>>] = a
      BY <1>7, <1>8, <1>12, <2>7
    <3> QED BY <3>1
  <2>8. f[<<lo, mid>>] = F[<<lo, mid>>]
    <3>1. CASE lo < mid
      <4>1. mid - lo < d
        BY <1>1, <2>3, <2>5, <3>1
      <4> QED BY <2>5, <2>6, <3>1, <4>1
    <3>2. CASE lo >= mid
      BY <2>5, <2>7, <3>2
    <3> QED BY <1>1, <2>5, <3>1, <3>2
  <2>9. f[<<mid + 1, hi>>] = F[<<mid + 1, hi>>]
    <3>1. CASE mid + 1 < hi
      <4>1. hi - (mid + 1) < d
        BY <1>1, <2>3, <2>5, <3>1
      <4> QED BY <2>5, <2>6, <3>1, <4>1
    <3>2. CASE mid + 1 >= hi
      BY <2>5, <2>7, <3>2
    <3> QED BY <1>1, <2>5, <3>1, <3>2
  <2>10. f[<<lo, hi>>] = F[<<lo, hi>>]
    <3>1. ~ (lo >= hi)
      BY <1>1, <2>3
    <3>2. <<lo, hi>> \in P /\ <<lo, hi>>[1] = lo /\ <<lo, hi>>[2] = hi /\ Mid(<<lo, hi>>) = mid
      BY <1>12, <2>4
    <3> HIDE DEF Mid
    <3>3. f[<<lo, hi>>] = IF x < keys[mid + 1] THEN f[<<lo, mid>>] ELSE f[<<mid + 1, hi>>]
      BY <1>7, <3>1, <3>2
    <3>4. F[<<lo, hi>>] = IF x < keys[mid + 1] THEN F[<<lo, mid>>] ELSE F[<<mid + 1, hi>>]
      BY <1>8, <3>1, <3>2
    <3> HIDE DEF Step
    <3> QED BY <2>8, <2>9, <3>3, <3>4
  <2> QED BY <2>3, <2>10
<1>10. f[<<0, Len(keys)>>] = F[<<0, Len(keys)>>]
  <2>1. 0 \in D /\ Len(keys) \in D
    BY <1>1
  <2>2. CASE Len(keys) = 0
    <3>1. 0 >= Len(keys)
      BY <2>2
    <3>2. f[<<0, Len(keys)>>] = 0 /\ F[<<0, Len(keys)>>] = 0
      BY <1>7, <1>8, <1>12, <2>1, <3>1
    <3> QED BY <3>2
  <2>3. CASE Len(keys) # 0
    <3>1. 0 < Len(keys) /\ Len(keys) - 0 \in 0..Len(keys)
      BY <1>1, <2>3
    <3>2. Len(keys) - 0 \notin Apart
      <4> HIDE DEF Apart
      <4> QED BY <1>9
    <3> QED BY <2>1, <3>1, <3>2
  <2> QED BY <2>2, <2>3
<1>11. F[<<0, Len(keys)>>] = answer
  <2>1. 0 \in D /\ Len(keys) \in D /\ answer \in Int
    BY <1>1
  <2> QED BY <1>4, <1>13, <2>1
<1> QED BY <1>2, <1>10, <1>11

\* Among rising keys, those up to a bound come first.
LEMMA FirstKeys ==
  ASSUME NEW keys \in Seq(Int), NEW x \in Int,
         \A m, n \in 1..Len(keys) : m < n => keys[m] < keys[n]
  PROVE  \E q \in 0..Len(keys) : \A n \in 1..Len(keys) : n <= q <=> keys[n] <= x
<1> DEFINE S == {n \in 1..Len(keys) : keys[n] <= x}
<1>1. PICK l \in Nat : l = Len(keys)
  OBVIOUS
<1>2. \A n \in 1..l : keys[n] \in Int
  BY <1>1
<1>3. CASE S = {}
  <2>1. \A n \in 1..l : n <= 0 <=> keys[n] <= x
    BY <1>1, <1>3
  <2>2. 0 \in 0..l
    BY <1>1
  <2> QED BY <1>1, <2>1, <2>2
<1>4. CASE S # {}
  <2>1. S \subseteq Nat /\ \A s \in S : s <= l
    BY <1>1
  <2>2. PICK q \in S : \A s \in S : s <= q
    <3> HIDE DEF S
    <3> QED BY <1>1, <1>4, <2>1, NatMax
  <2>3. q \in 1..l /\ keys[q] <= x
    BY <1>1
  <2>4. ASSUME NEW n \in 1..l PROVE n <= q <=> keys[n] <= x
    <3>1. CASE n < q
      BY <1>1, <1>2, <2>3, <3>1
    <3>2. CASE n = q
      BY <2>3, <3>2
    <3>3. CASE n > q
      <4>1. n \notin S
        <5> HIDE DEF S
        <5> QED BY <2>2, <2>3, <3>3
      <4> QED BY <1>1, <2>3, <3>3, <4>1
    <3> QED BY <2>3, <3>1, <3>2, <3>3
  <2>5. q \in 0..l
    BY <2>3
  <2> HIDE DEF S
  <2> QED BY <1>1, <2>4, <2>5
<1> QED BY <1>3, <1>4

\* The search counts the rising keys that are at most a value.
LEMMA BisectCounts ==
  ASSUME NEW keys \in Seq(Int), NEW x \in Int,
         \A m, n \in 1..Len(keys) : m < n => keys[m] < keys[n]
  PROVE  /\ BisectRight(keys, x) \in 0..Len(keys)
         /\ \A n \in 1..Len(keys) : n <= BisectRight(keys, x) <=> keys[n] <= x
<1>1. PICK q \in 0..Len(keys) : \A n \in 1..Len(keys) : n <= q <=> keys[n] <= x
  BY FirstKeys
<1>2. BisectRight(keys, x) = q
  BY <1>1, BisectUnfolds
<1> QED BY <1>1, <1>2

\* What is kept of rising keys below a bound is their beginning.
LEMMA BeginningKept ==
  ASSUME NEW keys \in Seq(Int), NEW b \in Int,
         \A m, n \in 1..Len(keys) : m < n => keys[m] < keys[n]
  PROVE  \E p \in 0..Len(keys) :
           /\ \A n \in 1..Len(keys) : n <= p <=> keys[n] < b
           /\ Kept(keys, {n \in DOMAIN keys : keys[n] < b}) = [n \in 1..p |-> keys[n]]
<1> DEFINE at == {n \in DOMAIN keys : keys[n] < b}
<1>1. PICK l \in Nat : l = Len(keys) /\ DOMAIN keys = 1..l
  OBVIOUS
<1>2. \A n \in 1..l : keys[n] \in Int
  BY <1>1
<1>3. PICK p \in 0..l : \A n \in 1..l : n <= p <=> keys[n] <= b - 1
  <2>1. b - 1 \in Int
    OBVIOUS
  <2> QED BY <1>1, <2>1, FirstKeys
<1>4. \A n \in 1..l : n <= p <=> keys[n] < b
  <2>1. \A n \in 1..l : keys[n] <= b - 1 <=> keys[n] < b
    BY <1>2
  <2> QED BY <1>3, <2>1
<1>5. at = 1..p
  BY <1>1, <1>3, <1>4
<1>6. p \in Nat /\ \A i \in 0..p : Cardinality(1..i) = i
  <2>1. p \in Nat
    BY <1>3
  <2>2. ASSUME NEW i \in 0..p PROVE Cardinality(1..i) = i
    BY <2>1, FS_Interval
  <2> QED BY <2>1, <2>2
<1>7. ASSUME NEW i \in 1..p PROVE {j \in 1..p : j <= i} = 1..i /\ i \in 0..p
  BY <1>6
<1>8. ASSUME NEW k \in 1..p PROVE (CHOOSE i \in 1..p : Cardinality({j \in 1..p : j <= i}) = k) = k
  BY <1>6, <1>7
<1>9. Kept(keys, 1..p) = [k \in 1..p |-> keys[k]]
  <2>1. Cardinality(1..p) = p
    BY <1>6
  <2> DEFINE chosen(k) == CHOOSE i \in 1..p : Cardinality({j \in 1..p : j <= i}) = k
  <2>2. Kept(keys, 1..p) = [k \in 1..p |-> keys[chosen(k)]]
    BY <2>1 DEF Kept
  <2>3. \A k \in 1..p : chosen(k) = k
    BY <1>8
  <2> HIDE DEF chosen
  <2> QED BY <2>2, <2>3
<1> HIDE DEF at
<1>10. Kept(keys, at) = [n \in 1..p |-> keys[n]]
  BY <1>5, <1>9
<1> QED BY <1>1, <1>4, <1>10 DEF at

-----------------------------------------------------------------------------
(* The intervals of an accepted schedule. *)

\* A schedule validate_schedule has let through.
Accepted(s) ==
  /\ s.intervals \in Seq(Interval) /\ s.rows \in Seq(ContextRow)
  /\ SessionsApart(s) /\ SoundClock(s) /\ Grouped(s)
  /\ \A row \in Range(s.rows) : SoundRow(s, row)

\* Intervals one after another, whole sessions at a time.
LEMMA Clock ==
  ASSUME NEW s, Accepted(s)
  PROVE  /\ Len(s.intervals) \in Nat \ {0} /\ DOMAIN s.intervals = 1..Len(s.intervals)
         /\ \A n \in 1..Len(s.intervals) :
              /\ s.intervals[n] \in Interval
              /\ s.intervals[n].open \in Int /\ s.intervals[n].close \in Int /\ s.intervals[n].session \in Int
              /\ s.intervals[n].open < s.intervals[n].close
              /\ s.intervals[n].session = SessionAt(s.intervals[n].open)
         /\ \A m, n \in 1..Len(s.intervals) : m < n =>
              /\ s.intervals[m].open < s.intervals[n].open
              /\ s.intervals[m].close < s.intervals[n].close
              /\ s.intervals[m].close <= s.intervals[n].open
              /\ s.intervals[m].session <= s.intervals[n].session
              /\ s.intervals[m].session # s.intervals[n].session =>
                   s.intervals[m].close < s.intervals[n].open
<1>1. PICK I \in Seq(Interval) : I = s.intervals
  BY DEF Accepted
<1>2. PICK N \in Nat : N = Len(I) /\ DOMAIN I = 1..N
  OBVIOUS
<1>3. N # 0
  BY <1>1, <1>2 DEF Accepted, SoundClock
<1>4. ASSUME NEW n \in 1..N
      PROVE  /\ I[n] \in Interval /\ I[n].open \in Int /\ I[n].close \in Int /\ I[n].session \in Int
             /\ I[n].open < I[n].close /\ I[n].session = SessionAt(I[n].open)
  <2>1. I[n] \in Interval
    BY <1>2
  <2>2. I[n] \in Range(I) /\ n \in DOMAIN I
    BY <1>2 DEF Range
  <2>3. IntervalAccepted(I[n]) /\ I[n].session = SessionAt(I[n].open)
    BY <1>1, <2>2 DEF Accepted, SoundClock
  <2> QED BY <2>1, <2>3 DEF Interval, IntervalAccepted
<1>5. ASSUME NEW n \in 2..N
      PROVE  /\ I[n - 1].open < I[n].open /\ I[n - 1].close < I[n].close /\ I[n - 1].close <= I[n].open
             /\ I[n].session # I[n - 1].session => I[n - 1].close < I[n].open
  <2>0. Len(I) = N /\ n \in 2..Len(I) /\ n - 1 \in 1..N /\ n \in 1..N
    BY <1>2
  <2>1. I[n].open >= I[n - 1].close
    BY <1>1, <1>2, <2>0 DEF Accepted, SoundClock
  <2>2. I[n].session # I[n - 1].session => I[n - 1].close < I[n].open
    BY <1>1, <1>2, <2>0 DEF Accepted, SessionsApart
  <2> QED BY <1>4, <2>0, <2>1, <2>2
<1> DEFINE R == {p \in (1..N) \X (1..N) :
                   /\ I[p[1]].open < I[p[2]].open
                   /\ I[p[1]].close < I[p[2]].close
                   /\ I[p[1]].close <= I[p[2]].open
                   /\ I[p[1]].session <= I[p[2]].session
                   /\ I[p[1]].session # I[p[2]].session => I[p[1]].close < I[p[2]].open}
<1>6. \A i, j \in 1..N :
        <<i, j>> \in R <=> /\ I[i].open < I[j].open
                           /\ I[i].close < I[j].close
                           /\ I[i].close <= I[j].open
                           /\ I[i].session <= I[j].session
                           /\ I[i].session # I[j].session => I[i].close < I[j].open
  OBVIOUS
<1> HIDE DEF R
<1>7. ASSUME NEW n \in 2..N PROVE <<n - 1, n>> \in R
  <2>1. n - 1 \in 1..N /\ n \in 1..N
    BY <1>2
  <2>2. SessionAt(I[n - 1].open) <= SessionAt(I[n].open)
    BY <1>4, <1>5, <2>1, DatesGrow
  <2> QED BY <1>4, <1>5, <1>6, <2>1, <2>2
<1>8. ASSUME NEW i \in 1..N, NEW j \in 1..N, NEW k \in 1..N, <<i, j>> \in R, <<j, k>> \in R
      PROVE  <<i, k>> \in R
  <2>1. /\ I[i].open < I[j].open /\ I[i].close < I[j].close /\ I[i].close <= I[j].open
        /\ I[i].session <= I[j].session
    BY <1>6, <1>8
  <2>2. /\ I[j].open < I[k].open /\ I[j].close < I[k].close /\ I[j].close <= I[k].open
        /\ I[j].session <= I[k].session
    BY <1>6, <1>8
  <2>3. /\ I[i].open < I[k].open /\ I[i].close < I[k].close /\ I[i].close < I[k].open
        /\ I[i].session <= I[k].session
    <3>1. \A n \in {i, j, k} : I[n].open \in Int /\ I[n].close \in Int /\ I[n].session \in Int
      BY <1>4
    <3>2. I[j].open < I[j].close
      BY <1>4
    <3>3. I[i].open < I[k].open
      BY <2>1, <2>2, <3>1, SMTT(30)
    <3>4. I[i].close < I[k].close /\ I[i].session <= I[k].session
      BY <2>1, <2>2, <3>1, SMTT(30)
    <3>5. I[i].close < I[k].open
      BY <2>1, <2>2, <3>1, <3>2
    <3> QED BY <3>3, <3>4, <3>5
  <2> QED BY <1>4, <1>6, <2>3
<1>9. \A i, j \in 1..N : i < j => <<i, j>> \in R
  BY <1>7, <1>8, Chained
<1> QED BY <1>1, <1>2, <1>3, <1>4, <1>6, <1>9

\* The edges of the intervals rise.
LEMMA Edges ==
  ASSUME NEW s, Accepted(s)
  PROVE  /\ Opens(s) \in Seq(Int) /\ Closes(s) \in Seq(Int)
         /\ Len(Opens(s)) = Len(s.intervals) /\ Len(Closes(s)) = Len(s.intervals)
         /\ DOMAIN Opens(s) = 1..Len(s.intervals) /\ DOMAIN Closes(s) = 1..Len(s.intervals)
         /\ \A n \in 1..Len(s.intervals) :
              Opens(s)[n] = s.intervals[n].open /\ Closes(s)[n] = s.intervals[n].close
         /\ \A m, n \in 1..Len(s.intervals) : m < n => Opens(s)[m] < Opens(s)[n] /\ Closes(s)[m] < Closes(s)[n]
<1>1. PICK N \in Nat : N = Len(s.intervals) /\ DOMAIN s.intervals = 1..N
  BY Clock
<1>2. \A n \in 1..N : s.intervals[n].open \in Int /\ s.intervals[n].close \in Int
  BY <1>1, Clock
<1>3. Opens(s) = [n \in 1..N |-> s.intervals[n].open] /\ Closes(s) = [n \in 1..N |-> s.intervals[n].close]
  BY <1>1 DEF Opens, Closes
<1>4. Opens(s) \in [1..N -> Int] /\ Closes(s) \in [1..N -> Int]
  BY <1>2, <1>3
<1>5. Opens(s) \in Seq(Int) /\ Closes(s) \in Seq(Int) /\ Len(Opens(s)) = N /\ Len(Closes(s)) = N
  BY <1>4
<1>6. \A m, n \in 1..N : m < n => Opens(s)[m] < Opens(s)[n] /\ Closes(s)[m] < Closes(s)[n]
  BY <1>1, <1>3, Clock
<1> QED BY <1>1, <1>3, <1>4, <1>5, <1>6

\* How many intervals have closed by an instant.
LEMMA ClosedCount ==
  ASSUME NEW s, Accepted(s), NEW t \in Int
  PROVE  /\ ClosedBaseCount(s, t) \in 0..Len(s.intervals)
         /\ \A n \in 1..Len(s.intervals) : n <= ClosedBaseCount(s, t) <=> s.intervals[n].close <= t
<1>1. /\ BisectRight(Closes(s), t) \in 0..Len(Closes(s))
      /\ \A n \in 1..Len(Closes(s)) : n <= BisectRight(Closes(s), t) <=> Closes(s)[n] <= t
  BY Edges, BisectCounts
<1> QED BY <1>1, Edges DEF ClosedBaseCount

\* An interval that opens before a base close has closed by it.
LEMMA ClosedByClose ==
  ASSUME NEW s, Accepted(s), NEW c \in 1..Len(s.intervals), NEW n \in 1..Len(s.intervals),
         s.intervals[n].open < s.intervals[c].close
  PROVE  n <= c /\ s.intervals[n].close <= s.intervals[c].close
<1>1. c \in Nat /\ n \in Nat
  BY Clock
<1>2. s.intervals[n].open \in Int /\ s.intervals[c].close \in Int
  BY Clock
<1>3. ASSUME c < n PROVE FALSE
  <2>1. s.intervals[c].close <= s.intervals[n].open
    BY <1>3, Clock
  <2> QED BY <1>2, <2>1
<1>4. n < c \/ n = c
  BY <1>1, <1>3
<1>5. n < c => s.intervals[n].close < s.intervals[c].close
  BY Clock
<1> QED BY <1>1, <1>4, <1>5, Clock

-----------------------------------------------------------------------------
(* The context rows of an accepted schedule. *)

\* The context frames stand in one order.
LEMMA Positions ==
  \A tf, u \in Range(ContextFrames) :
    Position(tf) \in Nat /\ (Position(tf) = Position(u) => tf = u)
<1> SUFFICES ASSUME NEW tf \in Range(ContextFrames)
             PROVE  Position(tf) \in DOMAIN ContextFrames /\ ContextFrames[Position(tf)] = tf
  <2>1. DOMAIN ContextFrames = 1..3
    BY DEF ContextFrames
  <2> QED BY <2>1
<1>1. \E n \in DOMAIN ContextFrames : ContextFrames[n] = tf
  BY DEF Range
<1> QED BY <1>1 DEF Position

\* What is known of a row by its fields.
LEMMA RowTyped ==
  ASSUME NEW row \in ContextRow
  PROVE  /\ row.timeframe \in Range(ContextFrames) /\ row.session \in Int /\ row.label \in Int
         /\ row.start \in Int /\ row.end \in Int /\ row.available \in Int
         /\ row.fresh \in Int \cup {None}
  BY DEF ContextRow

\* The rows of one frame rise in label, start and end.
LEMMA RowsRise ==
  ASSUME NEW s, Accepted(s), NEW tf
  PROVE  /\ ContextBars(s, tf) \in Seq(ContextRow)
         /\ Len(ContextBars(s, tf)) \in Nat /\ DOMAIN ContextBars(s, tf) = 1..Len(ContextBars(s, tf))
         /\ \A n \in 1..Len(ContextBars(s, tf)) :
              /\ ContextBars(s, tf)[n] \in ContextRow
              /\ ContextBars(s, tf)[n] \in Range(s.rows)
              /\ ContextBars(s, tf)[n].timeframe = tf
         /\ \A row \in Range(s.rows) :
              row.timeframe = tf => \E n \in 1..Len(ContextBars(s, tf)) : ContextBars(s, tf)[n] = row
         /\ \A m, n \in 1..Len(ContextBars(s, tf)) : m < n =>
              /\ ContextBars(s, tf)[m].label < ContextBars(s, tf)[n].label
              /\ ContextBars(s, tf)[m].start < ContextBars(s, tf)[n].start
              /\ ContextBars(s, tf)[m].end < ContextBars(s, tf)[n].end
<1>1. PICK Q \in Seq(ContextRow) : Q = s.rows
  BY DEF Accepted
<1>2. PICK N \in Nat : N = Len(Q) /\ DOMAIN Q = 1..N
  OBVIOUS
<1>3. \A n \in 1..N : Q[n] \in ContextRow
  BY <1>2
<1> DEFINE R == {p \in (1..N) \X (1..N) :
                   /\ Position(Q[p[1]].timeframe) <= Position(Q[p[2]].timeframe)
                   /\ Q[p[1]].timeframe = Q[p[2]].timeframe =>
                        /\ Q[p[1]].label < Q[p[2]].label
                        /\ Q[p[1]].start < Q[p[2]].start
                        /\ Q[p[1]].end < Q[p[2]].end}
<1>4. \A i, j \in 1..N :
        <<i, j>> \in R <=>
          /\ Position(Q[i].timeframe) <= Position(Q[j].timeframe)
          /\ Q[i].timeframe = Q[j].timeframe =>
               Q[i].label < Q[j].label /\ Q[i].start < Q[j].start /\ Q[i].end < Q[j].end
  OBVIOUS
<1> HIDE DEF R
<1>5. ASSUME NEW n \in 2..N PROVE <<n - 1, n>> \in R
  <2>1. n - 1 \in 1..N /\ n \in 1..N /\ n \in 2..Len(Q)
    BY <1>2
  <2>2. /\ Position(Q[n - 1].timeframe) <= Position(Q[n].timeframe)
        /\ Q[n - 1].timeframe = Q[n].timeframe =>
             Q[n - 1].label < Q[n].label /\ Q[n - 1].start < Q[n].start /\ Q[n - 1].end < Q[n].end
    BY <1>1, <2>1 DEF Accepted, Grouped
  <2> QED BY <1>4, <2>1, <2>2
<1>6. ASSUME NEW i \in 1..N, NEW j \in 1..N, NEW k \in 1..N, <<i, j>> \in R, <<j, k>> \in R
      PROVE  <<i, k>> \in R
  <2>1. \A n \in {i, j, k} : /\ Q[n].timeframe \in Range(ContextFrames) /\ Position(Q[n].timeframe) \in Nat
                             /\ Q[n].label \in Int /\ Q[n].start \in Int /\ Q[n].end \in Int
    BY <1>3, RowTyped, Positions
  <2>2. /\ Position(Q[i].timeframe) <= Position(Q[j].timeframe)
        /\ Position(Q[j].timeframe) <= Position(Q[k].timeframe)
    BY <1>4, <1>6
  <2>3. Position(Q[i].timeframe) <= Position(Q[k].timeframe)
    BY <2>1, <2>2
  <2>4. ASSUME Q[i].timeframe = Q[k].timeframe
        PROVE  Q[i].label < Q[k].label /\ Q[i].start < Q[k].start /\ Q[i].end < Q[k].end
    <3>1. Position(Q[i].timeframe) = Position(Q[j].timeframe)
      BY <2>1, <2>2, <2>4
    <3>2. Q[i].timeframe = Q[j].timeframe
      BY <2>1, <3>1, Positions
    <3>3. Q[i].label < Q[j].label /\ Q[i].start < Q[j].start /\ Q[i].end < Q[j].end
      BY <1>4, <1>6, <3>2
    <3>4. Q[j].label < Q[k].label /\ Q[j].start < Q[k].start /\ Q[j].end < Q[k].end
      BY <1>4, <1>6, <2>4, <3>2
    <3>5. /\ Q[i].label \in Int /\ Q[j].label \in Int /\ Q[k].label \in Int
          /\ Q[i].start \in Int /\ Q[j].start \in Int /\ Q[k].start \in Int
          /\ Q[i].end \in Int /\ Q[j].end \in Int /\ Q[k].end \in Int
      BY <2>1
    <3>6. Q[i].label < Q[k].label
      BY <3>3, <3>4, <3>5, SMTT(30)
    <3>7. Q[i].start < Q[k].start
      BY <3>3, <3>4, <3>5
    <3>8. Q[i].end < Q[k].end
      BY <3>3, <3>4, <3>5
    <3> QED BY <3>6, <3>7, <3>8
  <2> QED BY <1>4, <2>3, <2>4
<1>7. \A i, j \in 1..N : i < j => <<i, j>> \in R
  BY <1>5, <1>6, Chained
<1> DEFINE at == {n \in DOMAIN Q : Q[n].timeframe = tf}
<1>8. PICK C : C = ContextBars(s, tf)
  OBVIOUS
<1>9. C = Kept(Q, at)
  BY <1>1, <1>8 DEF ContextBars
<1>10. at \in SUBSET DOMAIN Q
  OBVIOUS
<1>11. /\ C \in Seq(ContextRow)
       /\ \E e \in [1..Len(C) -> at] :
            /\ \A k \in 1..Len(C) : C[k] = Q[e[k]]
            /\ \A i \in at : \E k \in 1..Len(C) : e[k] = i
            /\ \A k, l \in 1..Len(C) : k < l => e[k] < e[l]
  <2> HIDE DEF at
  <2>1. PICK A \in SUBSET DOMAIN Q : A = at
    BY <1>10
  <2>2. /\ Kept(Q, A) \in Seq(ContextRow)
        /\ \E e \in [1..Len(Kept(Q, A)) -> A] :
             /\ \A k \in 1..Len(Kept(Q, A)) : Kept(Q, A)[k] = Q[e[k]]
             /\ \A i \in A : \E k \in 1..Len(Kept(Q, A)) : e[k] = i
             /\ \A k, l \in 1..Len(Kept(Q, A)) : k < l => e[k] < e[l]
    BY KeptInOrder
  <2> QED BY <1>9, <2>1, <2>2, SMTT(30)
<1>12. PICK e \in [1..Len(C) -> at] :
         /\ \A k \in 1..Len(C) : C[k] = Q[e[k]]
         /\ \A i \in at : \E k \in 1..Len(C) : e[k] = i
         /\ \A k, l \in 1..Len(C) : k < l => e[k] < e[l]
  BY <1>11
<1>13. ASSUME NEW n \in 1..Len(C)
       PROVE  e[n] \in 1..N /\ C[n] = Q[e[n]] /\ C[n] \in ContextRow /\ C[n] \in Range(Q) /\ C[n].timeframe = tf
  <2>1. e[n] \in at
    BY <1>12
  <2>2. e[n] \in 1..N /\ Q[e[n]].timeframe = tf /\ C[n] = Q[e[n]]
    BY <1>2, <1>12, <2>1
  <2> QED BY <1>2, <1>3, <2>2 DEF Range
<1>14. ASSUME NEW row \in Range(Q), row.timeframe = tf PROVE \E n \in 1..Len(C) : C[n] = row
  <2>1. PICK i \in DOMAIN Q : Q[i] = row
    BY DEF Range
  <2>2. i \in at
    BY <1>14, <2>1
  <2> QED BY <1>12, <2>1, <2>2, SMTT(30)
<1>15. ASSUME NEW m \in 1..Len(C), NEW n \in 1..Len(C), m < n
       PROVE  C[m].label < C[n].label /\ C[m].start < C[n].start /\ C[m].end < C[n].end
  <2>1. e[m] < e[n]
    BY <1>12, <1>15
  <2>2. /\ e[m] \in 1..N /\ C[m] = Q[e[m]] /\ C[m].timeframe = tf
        /\ e[n] \in 1..N /\ C[n] = Q[e[n]] /\ C[n].timeframe = tf
    BY <1>13
  <2>3. <<e[m], e[n]>> \in R
    BY <1>7, <2>1, <2>2
  <2> QED BY <1>4, <2>2, <2>3
<1>16. Len(C) \in Nat /\ DOMAIN C = 1..Len(C)
  BY <1>11
<1> HIDE DEF at
<1> QED BY <1>1, <1>8, <1>11, <1>13, <1>14, <1>15, <1>16

\* A session's intervals, from its first to its last.
LEMMA BlockEnds ==
  ASSUME NEW s, Accepted(s), NEW session,
         NEW m \in 1..Len(s.intervals), s.intervals[m].session = session
  PROVE  \E a, b \in 1..Len(s.intervals) :
           /\ Block(s, session)[1] = s.intervals[a]
           /\ Block(s, session)[Len(Block(s, session))] = s.intervals[b]
           /\ s.intervals[a].session = session /\ s.intervals[b].session = session
           /\ \A n \in 1..Len(s.intervals) : s.intervals[n].session = session => a <= n /\ n <= b
<1>1. PICK I \in Seq(Interval) : I = s.intervals
  BY DEF Accepted
<1>2. PICK N \in Nat : N = Len(I) /\ DOMAIN I = 1..N
  OBVIOUS
<1>3. PICK A \in SUBSET DOMAIN I : A = {n \in DOMAIN I : I[n].session = session}
  OBVIOUS
<1>4. PICK B : B = Block(s, session)
  OBVIOUS
<1>5. B = Kept(I, A)
  BY <1>1, <1>3, <1>4 DEF Block
<1>6. /\ B \in Seq(Interval)
      /\ \E e \in [1..Len(B) -> A] :
           /\ \A k \in 1..Len(B) : B[k] = I[e[k]]
           /\ \A i \in A : \E k \in 1..Len(B) : e[k] = i
           /\ \A k, l \in 1..Len(B) : k < l => e[k] < e[l]
  BY <1>5, KeptInOrder, SMTT(30)
<1>7. PICK L \in Nat : L = Len(B)
  BY <1>6
<1>8. PICK e \in [1..L -> A] :
        /\ \A k \in 1..L : B[k] = I[e[k]]
        /\ \A i \in A : \E k \in 1..L : e[k] = i
        /\ \A k, l \in 1..L : k < l => e[k] < e[l]
  BY <1>6, <1>7
<1>9. m \in A
  BY <1>1, <1>2, <1>3
<1>10. 1 \in 1..L /\ L \in 1..L
  <2>1. PICK k \in 1..L : e[k] = m
    BY <1>8, <1>9
  <2> QED BY <1>7, <2>1
<1>11. \A k \in 1..L : e[k] \in 1..N /\ I[e[k]].session = session
  BY <1>2, <1>3, <1>8
<1>12. ASSUME NEW n \in 1..N, I[n].session = session PROVE e[1] <= n /\ n <= e[L]
  <2>1. PICK k \in 1..L : e[k] = n
    BY <1>2, <1>3, <1>8, <1>12
  <2>2. e[1] \in Nat /\ e[L] \in Nat /\ n \in Nat
    BY <1>10, <1>11
  <2>3. CASE k = 1
    BY <1>8, <1>10, <2>1, <2>2, <2>3, k = L \/ k < L
  <2>4. CASE k = L
    BY <1>8, <1>10, <2>1, <2>2, <2>4, k = 1 \/ 1 < k
  <2>5. CASE 1 < k /\ k < L
    <3>1. e[1] < e[k] /\ e[k] < e[L]
      BY <1>8, <1>10, <2>5
    <3> QED BY <2>1, <2>2, <3>1
  <2>6. k = 1 \/ k = L \/ (1 < k /\ k < L)
    BY <1>7
  <2> QED BY <2>3, <2>4, <2>5, <2>6
<1> QED BY <1>1, <1>2, <1>4, <1>7, <1>8, <1>10, <1>11, <1>12, SMTT(30)

\* The first of the intervals some condition holds of.
LEMMA FirstOne ==
  ASSUME NEW S, S \subseteq Nat, S # {}, NEW N \in Nat, S \subseteq 1..N
  PROVE  \E f \in S : \A n \in S : f <= n
<1>1. IsFiniteSet(1..N)
  BY FS_Interval
<1>2. IsFiniteSet(S)
  BY <1>1, FS_Subset
<1> QED BY <1>2, NatMin

\* A row covers an interval of its session.
LEMMA RowCovers ==
  ASSUME NEW s, Accepted(s), NEW row \in Range(s.rows)
  PROVE  \E m \in 1..Len(s.intervals) :
           /\ s.intervals[m].session = row.session
           /\ s.intervals[m].open < row.end /\ row.start < s.intervals[m].close
<1>1. row \in ContextRow /\ SoundRow(s, row)
  <2>1. PICK i \in DOMAIN s.rows : row = s.rows[i]
    BY DEF Range
  <2> QED BY <2>1 DEF Accepted
<1>2. PICK m \in Covered(s, row) : s.intervals[m].session = row.session
  BY <1>1 DEF SoundRow
<1>3. row.start \in Int
  BY <1>1, RowTyped
<1>4. PICK k \in 0..Len(s.intervals) :
        /\ k = BisectRight(Closes(s), row.start)
        /\ \A n \in 1..Len(s.intervals) : n <= k <=> s.intervals[n].close <= row.start
  <2>1. /\ ClosedBaseCount(s, row.start) \in 0..Len(s.intervals)
        /\ \A n \in 1..Len(s.intervals) :
             n <= ClosedBaseCount(s, row.start) <=> s.intervals[n].close <= row.start
    BY <1>3, ClosedCount
  <2> QED BY <2>1 DEF ClosedBaseCount
<1>5. m \in (k + 1)..Len(s.intervals) /\ s.intervals[m].open < row.end
  BY <1>2, <1>4 DEF Covered
<1>6. PICK N \in Nat : N = Len(s.intervals)
  BY Clock
<1>7. m \in 1..N /\ ~ (m <= k)
  BY <1>4, <1>5, <1>6
<1>8. s.intervals[m].close \in Int /\ ~ (s.intervals[m].close <= row.start)
  BY <1>4, <1>6, <1>7, Clock
<1>9. row.start < s.intervals[m].close
  BY <1>3, <1>8
<1> QED BY <1>2, <1>5, <1>6, <1>7, <1>9

\* A day is its session, released when the next session opens.
LEMMA DaySpans ==
  ASSUME NEW s, Accepted(s), NEW row \in Range(s.rows), row.timeframe = "1d"
  PROVE  \E a, b, f \in 1..Len(s.intervals) :
           /\ row.start = s.intervals[a].open /\ row.end = s.intervals[b].close
           /\ s.intervals[a].session = row.session /\ s.intervals[b].session = row.session
           /\ \A n \in 1..Len(s.intervals) : s.intervals[n].session = row.session => a <= n /\ n <= b
           /\ row.session < s.intervals[f].session
           /\ \A n \in 1..Len(s.intervals) : row.session < s.intervals[n].session => f <= n
           /\ row.available = s.intervals[f].open /\ row.fresh = s.intervals[f].close
<1> DEFINE I == s.intervals
           N == Len(I)
           later == {session \in Sessions(s) : session > row.session}
           After == {n \in 1..N : row.session < I[n].session}
<1>1. row \in ContextRow /\ row.session \in Int /\ DailyRow(s, row)
  <2>1. PICK i \in DOMAIN s.rows : row = s.rows[i]
    BY DEF Range
  <2> QED BY <2>1, RowTyped DEF Accepted, SoundRow
<1>2. N \in Nat /\ DOMAIN I = 1..N /\ \A n \in 1..N : I[n].session \in Int
  BY Clock
<1>3. \A session : session \in Sessions(s) <=> \E n \in 1..N : I[n].session = session
  <2> HIDE DEF I
  <2>1. Sessions(s) = {i.session : i \in Range(I)}
    BY DEF Sessions, I
  <2> QED BY <1>2, <2>1 DEF Range
<1>4. PICK m \in 1..N : I[m].session = row.session
  BY RowCovers
<1>5. PICK a \in 1..N, b \in 1..N :
        /\ Block(s, row.session)[1] = I[a]
        /\ Block(s, row.session)[Len(Block(s, row.session))] = I[b]
        /\ I[a].session = row.session /\ I[b].session = row.session
        /\ \A n \in 1..N : I[n].session = row.session => a <= n /\ n <= b
  BY <1>4, BlockEnds
<1>6. row.start = I[a].open /\ row.end = I[b].close
  BY <1>1, <1>5 DEF DailyRow
<1>7. later # {} /\ row.available = Block(s, Min(later))[1].open /\ row.fresh = Block(s, Min(later))[1].close
  BY <1>1 DEF DailyRow
<1>8. After # {}
  <2>1. PICK session \in later : TRUE
    BY <1>7
  <2>2. session \in Sessions(s) /\ session > row.session
    OBVIOUS
  <2>3. PICK n \in 1..N : I[n].session = session
    BY <1>3, <2>2
  <2> HIDE DEF I
  <2> QED BY <1>1, <1>2, <2>2, <2>3
<1>9. PICK f \in After : \A n \in After : f <= n
  <2>1. After \subseteq Nat /\ After \subseteq 1..N
    BY <1>2
  <2> HIDE DEF After, I
  <2> QED BY <1>2, <1>8, <2>1, FirstOne
<1>10. f \in 1..N /\ row.session < I[f].session
  <2> HIDE DEF I
  <2> QED OBVIOUS
<1>11. \A n \in 1..N : row.session < I[n].session => f <= n
  <2> HIDE DEF I
  <2> QED BY <1>9
<1>12. ASSUME NEW n \in 1..N, row.session < I[n].session PROVE I[f].session <= I[n].session
  <2>1. f <= n /\ f \in Nat /\ n \in Nat
    BY <1>2, <1>10, <1>11, <1>12
  <2>2. CASE f = n
    BY <1>2, <1>10, <2>2
  <2>3. CASE f < n
    BY <1>10, <2>3, Clock
  <2> QED BY <2>1, <2>2, <2>3
<1> HIDE DEF I, N
<1>13. Min(later) = I[f].session
  <2>1. PICK first \in Int : first = I[f].session
    BY <1>2, <1>10
  <2>2. first \in later
    BY <1>1, <1>3, <1>10, <2>1
  <2>3. ASSUME NEW session \in later PROVE session \in Int /\ first <= session
    <3>1. session \in Sessions(s) /\ session > row.session
      OBVIOUS
    <3>2. PICK n \in 1..N : I[n].session = session
      BY <1>3, <3>1
    <3>3. session \in Int /\ row.session < session
      BY <1>1, <1>2, <3>1, <3>2
    <3> QED BY <1>12, <2>1, <3>2, <3>3
  <2> HIDE DEF later
  <2>4. \A session \in later : (\A t \in later : session <= t) => session = first
    <3> TAKE session \in later
    <3> HAVE \A t \in later : session <= t
    <3>1. session <= first /\ first <= session /\ session \in Int
      BY <2>2, <2>3
    <3> QED BY <3>1
  <2>5. Min(later) = CHOOSE session \in later : \A t \in later : session <= t
    BY DEF Min
  <2> QED BY <2>1, <2>2, <2>3, <2>4, <2>5
<1>14. PICK g \in 1..N, h \in 1..N :
         /\ Block(s, Min(later))[1] = I[g] /\ I[g].session = Min(later)
         /\ \A n \in 1..N : I[n].session = Min(later) => g <= n
  <2> HIDE DEF later
  <2>1. I[f].session = Min(later) /\ f \in 1..N
    BY <1>10, <1>13
  <2> QED BY <2>1, BlockEnds DEF I, N
<1>15. g = f
  <2>1. g <= f
    BY <1>10, <1>13, <1>14
  <2>2. f <= g
    BY <1>10, <1>11, <1>13, <1>14
  <2> QED BY <1>2, <1>10, <2>1, <2>2
<1>16. row.available = I[f].open /\ row.fresh = I[f].close
  BY <1>7, <1>14, <1>15
<1> HIDE DEF later, After
<1> QED BY <1>5, <1>6, <1>10, <1>11, <1>16 DEF I, N

\* What validate_schedule leaves of a row's times.
LEMMA RowTimes ==
  ASSUME NEW s, Accepted(s), NEW row \in Range(s.rows)
  PROVE  /\ row \in ContextRow /\ row.timeframe \in {"1h", "4h", "1d"}
         /\ row.label \in Int /\ row.start \in Int /\ row.end \in Int /\ row.available \in Int /\ row.session \in Int
         /\ row.label <= row.start /\ row.start < row.end /\ row.end <= row.available
         /\ row.label < row.available
         /\ row.fresh # None => row.fresh \in Int /\ row.available <= row.fresh
         /\ row.timeframe # "1d" => IntradayRow(s, row) /\ Anchored(row)
<1>1. row \in ContextRow /\ SoundRow(s, row)
  <2>1. PICK i \in DOMAIN s.rows : row = s.rows[i]
    BY DEF Range
  <2> QED BY <2>1 DEF Accepted
<1>2. /\ row.label \in Int /\ row.start \in Int /\ row.end \in Int /\ row.available \in Int /\ row.session \in Int
      /\ row.fresh # None => row.fresh \in Int
      /\ row.timeframe \in {"1h", "4h", "1d"}
  <2>1. Range(ContextFrames) = {"1h", "4h", "1d"}
    <3>1. DOMAIN ContextFrames = {1, 2, 3}
      BY DEF ContextFrames
    <3> QED BY <3>1 DEF ContextFrames, Range
  <2> QED BY <1>1, <2>1, RowTyped
<1>3. /\ row.start < row.end /\ row.end <= row.available
      /\ row.fresh # None => row.available <= row.fresh
  BY <1>1 DEF SoundRow, RowAccepted
<1>4. row.timeframe # "1d" => IntradayRow(s, row) /\ Anchored(row)
  BY <1>1 DEF SoundRow
<1>5. row.label <= row.start
  <2>1. CASE row.timeframe # "1d"
    BY <1>2, <1>4, <2>1 DEF IntradayRow
  <2>2. CASE row.timeframe = "1d"
    <3>1. Local(row.label) = row.session * DayLen
      BY <1>1, <2>2 DEF SoundRow, Anchored
    <3>2. PICK a \in 1..Len(s.intervals) :
            row.start = s.intervals[a].open /\ s.intervals[a].session = row.session
      BY <2>2, DaySpans
    <3>3. row.session = SessionAt(row.start)
      BY <3>2, Clock
    <3> QED BY <1>2, <3>1, <3>3, MidnightBefore
  <2> QED BY <2>1, <2>2
<1>6. row.label < row.available
  BY <1>2, <1>3, <1>5
<1> QED BY <1>1, <1>2, <1>3, <1>4, <1>5, <1>6

\* An hour or a bucket that may be decided on, is within one base bar of its end.
LEMMA FreshInTime ==
  ASSUME NEW s, Accepted(s), NEW row \in Range(s.rows), row.timeframe # "1d", row.fresh # None
  PROVE  row.fresh < row.end + BaseLen
  BY RowTimes DEF IntradayRow, CloseAfter

\* No remainder is a multiple.
LEMMA Multiple ==
  ASSUME NEW a \in Int, NEW d \in Nat \ {0}, a % d = 0
  PROVE  \E p \in Int : a = p * d
<1>1. PICK p \in Int : p = a \div d
  BY Parts
<1>2. PICK r \in Int : r = p * d
  OBVIOUS
<1>3. a = r + 0
  BY <1>1, <1>2, Parts
<1>4. a = r
  BY <1>3
<1> QED BY <1>2, <1>4

\* Different multiples are one length apart.
LEMMA MultiplesApart ==
  ASSUME NEW a \in Int, NEW b \in Int, a < b, NEW d \in Nat \ {0}, a % d = 0, b % d = 0
  PROVE  a + d <= b
<1>1. PICK p \in Int : a = p * d
  BY Multiple
<1>2. PICK q \in Int : b = q * d
  BY Multiple
<1>3. p * d \in Int /\ q * d \in Int
  BY <1>1, <1>2
<1>4. ASSUME q < p PROVE FALSE
  <2>1. (q * d) + d <= p * d
    BY <1>4, OneMore
  <2> QED BY <1>1, <1>2, <1>3, <2>1
<1>5. p # q
  BY <1>1, <1>2
<1>6. p < q
  BY <1>4, <1>5
<1>7. (p * d) + d <= q * d
  BY <1>6, OneMore
<1> QED BY <1>1, <1>2, <1>7

\* The next multiple is one too.
LEMMA NextMultiple ==
  ASSUME NEW a \in Int, NEW d \in Nat \ {0}, a % d = 0
  PROVE  \E q \in Int : a + d = q * d
<1>1. PICK p \in Int : a = p * d
  BY Multiple
<1>2. (p + 1) * d = (p * d) + d /\ p + 1 \in Int
  OBVIOUS
<1> QED BY <1>1, <1>2

\* Buckets that end one after the other end a base bar apart, whatever the
\* clock does between them.
LEMMA BucketsApart ==
  ASSUME NEW x \in Int, NEW y \in Int, x < y,
         NEW p \in Int, NEW q \in Int, Local(x) = p * BucketLen, Local(y) = q * BucketLen
  PROVE  x + BaseLen <= y
<1>1. PICK B \in Nat \ {0} : B = BucketLen
  BY Lengths
<1>2. BaseLen \in Nat /\ BaseLen <= B /\ Change \in Int /\ Shift \in Int
  BY <1>1, Lengths
<1>3. p * B \in Int /\ q * B \in Int /\ Local(x) = p * B /\ Local(y) = q * B
  BY <1>1
<1>4. ASSUME NEW i \in Int, NEW j \in Int, i < j PROVE (i * B) + B <= j * B /\ i * B \in Int /\ j * B \in Int
  BY <1>4, OneMore
<1>5. CASE y < Change \/ Change <= x
  <2>1. (q * B) - (p * B) = y - x
    BY <1>2, <1>3, <1>5 DEF Local
  <2>2. p < q
    <3>1. ASSUME q < p PROVE FALSE
      BY <1>3, <1>4, <2>1, <3>1
    <3>2. p # q
      BY <1>3, <2>1
    <3> QED BY <3>1, <3>2
  <2> QED BY <1>2, <1>3, <1>4, <2>1, <2>2
<1>6. CASE x < Change /\ Change <= y
  <2>1. (q * B) - (p * B) = (y - x) + Shift
    BY <1>2, <1>3, <1>6 DEF Local
  <2>2. CASE Shift = 0
    <3>2. p < q
      <4>1. ASSUME q < p PROVE FALSE
        BY <1>3, <1>4, <2>1, <2>2, <4>1
      <4>2. p # q
        BY <1>3, <2>1, <2>2
      <4> QED BY <4>1, <4>2
    <3> QED BY <1>2, <1>3, <1>4, <2>1, <2>2, <3>2
  <2>3. CASE Shift # 0
    <3>1. PICK by \in {Shift, -Shift} : BaseLen <= by /\ by + BaseLen <= B
      BY <1>1, <2>3, PreflightAssumption
    <3>2. by \in Int
      BY <1>2
    <3>3. CASE Shift = by
      <4>1. p < q
        <5>1. ASSUME q < p PROVE FALSE
          BY <1>2, <1>3, <1>4, <2>1, <3>1, <3>2, <3>3, <5>1
        <5>2. p # q
          BY <1>2, <1>3, <2>1, <3>1, <3>2, <3>3
        <5> QED BY <5>1, <5>2
      <4>2. (p * B) + B <= q * B
        BY <1>4, <4>1
      <4> QED BY <1>2, <1>3, <2>1, <3>1, <3>2, <3>3, <4>2
    <3>4. CASE by = -Shift
      <4>1. ~ (q < p)
        <5>1. ASSUME q < p PROVE FALSE
          <6>1. (q * B) + B <= p * B
            BY <1>4, <5>1
          <6> QED BY <1>2, <1>3, <2>1, <3>1, <3>2, <3>4, <6>1
        <5> QED BY <5>1
      <4>2. p * B <= q * B
        <5>1. p = q \/ p < q
          BY <4>1
        <5>2. p < q => (p * B) + B <= q * B
          BY <1>4
        <5> QED BY <1>3, <5>1, <5>2
      <4> QED BY <1>2, <1>3, <2>1, <3>1, <3>2, <3>4, <4>2
    <3> QED BY <3>1, <3>3, <3>4
  <2> QED BY <2>2, <2>3
<1> QED BY <1>2, <1>5, <1>6

\* Rows of one frame are released one after the other, each after the one
\* before it could last be decided on.
LEMMA ReleasesRise ==
  ASSUME NEW s, Accepted(s), NEW earlier \in Range(s.rows), NEW later \in Range(s.rows),
         earlier.timeframe = later.timeframe,
         earlier.label < later.label, earlier.start < later.start, earlier.end < later.end
  PROVE  /\ earlier.available < later.available
         /\ earlier.fresh # None => earlier.fresh < later.available
<1>1. /\ earlier.label \in Int /\ earlier.start \in Int /\ earlier.end \in Int /\ earlier.available \in Int
      /\ earlier.session \in Int
      /\ earlier.fresh # None => earlier.fresh \in Int /\ earlier.available <= earlier.fresh
      /\ earlier.timeframe \in {"1h", "4h", "1d"}
  BY RowTimes
<1>2. /\ later.label \in Int /\ later.start \in Int /\ later.end \in Int /\ later.available \in Int
      /\ later.session \in Int
  BY RowTimes
<1>3. CASE earlier.timeframe # "1d"
  <2>1. /\ IntradayRow(s, earlier) /\ IntradayRow(s, later) /\ Anchored(earlier) /\ Anchored(later)
        /\ later.timeframe # "1d"
    BY <1>3, RowTimes
  <2>2. earlier.available = earlier.end /\ later.available = later.end
    BY <2>1 DEF IntradayRow
  <2>3. earlier.end + BaseLen <= later.end
    <3>1. CASE earlier.timeframe = "1h"
      <4>1. earlier.label % HourLen = 0 /\ later.label % HourLen = 0
        BY <2>1, <3>1 DEF Anchored
      <4>2. earlier.end - earlier.label = HourLen /\ later.end - later.label = HourLen
        BY <2>1, <3>1 DEF IntradayRow, PeriodLength
      <4>3. earlier.label + HourLen <= later.label
        BY <1>1, <1>2, <4>1, Lengths, MultiplesApart
      <4> QED BY <1>1, <1>2, <4>2, <4>3, Lengths
    <3>2. CASE earlier.timeframe = "4h"
      <4>1. Local(earlier.label) % BucketLen = 0 /\ Local(later.label) % BucketLen = 0
        BY <2>1, <3>2 DEF Anchored
      <4>2. /\ Local(earlier.end) - Local(earlier.label) = BucketLen
            /\ Local(later.end) - Local(later.label) = BucketLen
        BY <2>1, <3>2 DEF IntradayRow, PeriodLength
      <4>3. /\ Local(earlier.end) \in Int /\ Local(earlier.label) \in Int
            /\ Local(later.end) \in Int /\ Local(later.label) \in Int
        BY <1>1, <1>2, LocalTyped
      <4>4. PICK p \in Int : Local(earlier.label) + BucketLen = p * BucketLen
        BY <4>1, <4>3, Lengths, NextMultiple
      <4>5. PICK q \in Int : Local(later.label) + BucketLen = q * BucketLen
        BY <4>1, <4>3, Lengths, NextMultiple
      <4>6. /\ Local(earlier.end) = Local(earlier.label) + BucketLen
            /\ Local(later.end) = Local(later.label) + BucketLen
        BY <4>2, <4>3, Lengths
      <4>7. Local(earlier.end) = p * BucketLen /\ Local(later.end) = q * BucketLen
        BY <4>4, <4>5, <4>6
      <4> QED BY <1>1, <1>2, <4>7, BucketsApart
    <3> QED BY <1>1, <1>3, <3>1, <3>2
  <2>4. earlier.fresh # None => earlier.fresh < earlier.end + BaseLen
    BY <1>3, FreshInTime
  <2> QED BY <1>1, <1>2, <2>2, <2>3, <2>4, Lengths
<1>4. CASE earlier.timeframe = "1d"
  <2> DEFINE I == s.intervals
             N == Len(I)
  <2>1. PICK a \in 1..N, f \in 1..N :
          /\ earlier.start = I[a].open /\ I[a].session = earlier.session
          /\ \A n \in 1..N : I[n].session = earlier.session => a <= n
          /\ earlier.session < I[f].session
          /\ \A n \in 1..N : earlier.session < I[n].session => f <= n
          /\ earlier.available = I[f].open /\ earlier.fresh = I[f].close
    BY <1>4, DaySpans
  <2>2. PICK b \in 1..N, g \in 1..N :
          /\ later.start = I[b].open /\ I[b].session = later.session
          /\ \A n \in 1..N : I[n].session = later.session => b <= n
          /\ later.session < I[g].session
          /\ later.available = I[g].open
    <3>1. later.timeframe = "1d"
      BY <1>4
    <3>2. PICK b \in 1..N, e \in 1..N, g \in 1..N :
            /\ later.start = I[b].open /\ later.end = I[e].close
            /\ I[b].session = later.session /\ I[e].session = later.session
            /\ \A n \in 1..N : I[n].session = later.session => b <= n /\ n <= e
            /\ later.session < I[g].session
            /\ \A n \in 1..N : later.session < I[n].session => g <= n
            /\ later.available = I[g].open /\ later.fresh = I[g].close
      BY <3>1, DaySpans
    <3> HIDE DEF I, N
    <3> QED BY <3>2
  <2>3. N \in Nat /\ \A n \in 1..N : I[n].session \in Int /\ I[n].open \in Int /\ I[n].close \in Int
                                     /\ I[n].open < I[n].close
    BY Clock
  <2>4. \A m, n \in 1..N : m < n => I[m].open < I[n].open /\ I[m].session <= I[n].session
    BY Clock
  <2>5. \A m, n \in 1..N : m < n /\ I[m].session # I[n].session => I[m].close < I[n].open
    BY Clock
  <2> HIDE DEF I, N
  <2>6. a < b
    <3>1. a # b
      BY <1>1, <2>1, <2>2
    <3>2. ASSUME b < a PROVE FALSE
      BY <1>1, <1>2, <2>1, <2>2, <2>4, <3>2
    <3> QED BY <2>3, <3>1, <3>2
  <2>7. earlier.session <= later.session
    BY <2>1, <2>2, <2>4, <2>6
  <2>8. earlier.session # later.session
    <3>1. ASSUME earlier.session = later.session PROVE FALSE
      <4>1. b <= a
        BY <2>1, <2>2, <3>1
      <4> QED BY <2>3, <2>6, <4>1
    <3> QED BY <3>1
  <2>9. earlier.session < later.session
    BY <1>1, <1>2, <2>7, <2>8
  <2>10. f <= b
    BY <2>1, <2>2, <2>9
  <2>11. I[f].session <= later.session
    <3>1. f = b \/ f < b
      BY <2>3, <2>10
    <3> QED BY <1>2, <2>2, <2>4, <3>1
  <2>12. I[f].session < I[g].session
    BY <1>2, <2>2, <2>3, <2>11
  <2>13. f < g
    <3>1. f # g
      BY <2>3, <2>12
    <3>2. ASSUME g < f PROVE FALSE
      <4>1. I[g].session <= I[f].session
        BY <2>4, <3>2
      <4> QED BY <2>3, <2>12, <4>1
    <3> QED BY <2>3, <3>1, <3>2
  <2>14. I[f].close < I[g].open
    <3>1. I[f].session # I[g].session
      BY <2>3, <2>12
    <3> QED BY <2>5, <2>13, <3>1
  <2>15. I[f].open < I[g].open
    BY <2>4, <2>13
  <2> QED BY <2>1, <2>2, <2>14, <2>15
<1> QED BY <1>3, <1>4

\* Every interval a row covers has closed at a base close no earlier than its release.
LEMMA CoveredClosed ==
  ASSUME NEW s, Accepted(s), NEW row \in Range(s.rows), NEW c \in 1..Len(s.intervals),
         row.available <= s.intervals[c].close, NEW n \in 1..Len(s.intervals),
         IF row.timeframe = "1d" THEN s.intervals[n].session = row.session
         ELSE s.intervals[n].open < row.end
  PROVE  s.intervals[n].close <= s.intervals[c].close
<1>1. row.end \in Int /\ row.available \in Int /\ row.end <= row.available
  BY RowTimes
<1>2. \A m \in 1..Len(s.intervals) : /\ s.intervals[m].open \in Int /\ s.intervals[m].close \in Int
                                     /\ s.intervals[m].open < s.intervals[m].close
  BY Clock
<1>3. CASE row.timeframe # "1d"
  <2>1. s.intervals[n].open < s.intervals[c].close
    BY <1>1, <1>2, <1>3
  <2> QED BY <2>1, ClosedByClose
<1>4. CASE row.timeframe = "1d"
  <2>1. PICK b \in 1..Len(s.intervals) :
          /\ row.end = s.intervals[b].close
          /\ \A m \in 1..Len(s.intervals) : s.intervals[m].session = row.session => m <= b
    BY <1>4, DaySpans
  <2>2. n <= b
    BY <1>4, <2>1
  <2>3. s.intervals[n].close <= s.intervals[b].close
    <3>1. n = b \/ n < b
      BY <2>2, Clock
    <3>2. n < b => s.intervals[n].close < s.intervals[b].close
      BY Clock
    <3> QED BY <1>2, <3>1, <3>2
  <2> QED BY <1>1, <1>2, <2>1, <2>3, SMTT(30)
<1> QED BY <1>3, <1>4

-----------------------------------------------------------------------------
(* The rows of a frame, by their labels and the instants that release them. *)

RowLabels(s, tf) ==
  IF tf = BaseFrame THEN Opens(s) ELSE [n \in DOMAIN ContextBars(s, tf) |-> ContextBars(s, tf)[n].label]
RowReleases(s, tf) ==
  IF tf = BaseFrame THEN Closes(s) ELSE [n \in DOMAIN ContextBars(s, tf) |-> ContextBars(s, tf)[n].available]

\* A row is labelled before it is released, and both rise along its frame.
LEMMA RowsTurn ==
  ASSUME NEW s, Accepted(s), NEW tf
  PROVE  /\ RowLabels(s, tf) \in Seq(Int) /\ RowReleases(s, tf) \in Seq(Int)
         /\ Len(RowReleases(s, tf)) = Len(RowLabels(s, tf))
         /\ \A n \in 1..Len(RowLabels(s, tf)) : RowLabels(s, tf)[n] < RowReleases(s, tf)[n]
         /\ \A m, n \in 1..Len(RowLabels(s, tf)) : m < n =>
              RowLabels(s, tf)[m] < RowLabels(s, tf)[n] /\ RowReleases(s, tf)[m] < RowReleases(s, tf)[n]
<1>1. CASE tf = BaseFrame
  <2>1. RowLabels(s, tf) = Opens(s) /\ RowReleases(s, tf) = Closes(s)
    BY <1>1 DEF RowLabels, RowReleases
  <2>2. \A n \in 1..Len(s.intervals) : Opens(s)[n] < Closes(s)[n]
    BY Edges, Clock
  <2> QED BY <2>1, <2>2, Edges
<1>2. CASE tf # BaseFrame
  <2>1. PICK C : C = ContextBars(s, tf)
    OBVIOUS
  <2>2. PICK M \in Nat : M = Len(C) /\ DOMAIN C = 1..M
    BY <2>1, RowsRise
  <2>3. \A n \in 1..M : C[n] \in Range(s.rows) /\ C[n].timeframe = tf
    BY <2>1, <2>2, RowsRise
  <2>4. \A n \in 1..M : C[n].label \in Int /\ C[n].available \in Int /\ C[n].label < C[n].available
    BY <2>3, RowTimes
  <2>5. ASSUME NEW m \in 1..M, NEW n \in 1..M, m < n
        PROVE  C[m].label < C[n].label /\ C[m].available < C[n].available
    <3>1. C[m].label < C[n].label /\ C[m].start < C[n].start /\ C[m].end < C[n].end
      BY <2>1, <2>2, <2>5, RowsRise
    <3> QED BY <2>3, <3>1, ReleasesRise
  <2>6. /\ RowLabels(s, tf) = [n \in 1..M |-> C[n].label]
        /\ RowReleases(s, tf) = [n \in 1..M |-> C[n].available]
    BY <1>2, <2>1, <2>2 DEF RowLabels, RowReleases
  <2>7. RowLabels(s, tf) \in [1..M -> Int] /\ RowReleases(s, tf) \in [1..M -> Int]
    BY <2>4, <2>6
  <2>8. /\ RowLabels(s, tf) \in Seq(Int) /\ RowReleases(s, tf) \in Seq(Int)
        /\ Len(RowLabels(s, tf)) = M /\ Len(RowReleases(s, tf)) = M
    BY <2>7
  <2> QED BY <2>4, <2>5, <2>6, <2>8
<1> QED BY <1>1, <1>2

\* The doors' counts count the rows released.
LEMMA VisibleCount ==
  ASSUME NEW s, Accepted(s), NEW tf, NEW t \in Int
  PROVE  /\ VisibleRows(s, tf, t) \in 0..Len(RowLabels(s, tf))
         /\ \A n \in 1..Len(RowLabels(s, tf)) : n <= VisibleRows(s, tf, t) <=> RowReleases(s, tf)[n] <= t
<1>1. VisibleRows(s, tf, t) = BisectRight(RowReleases(s, tf), t)
  BY DEF VisibleRows, ClosedBaseCount, AvailableContextCount, RowReleases
<1>2. /\ RowReleases(s, tf) \in Seq(Int) /\ Len(RowReleases(s, tf)) = Len(RowLabels(s, tf))
      /\ \A m, n \in 1..Len(RowReleases(s, tf)) : m < n => RowReleases(s, tf)[m] < RowReleases(s, tf)[n]
  BY RowsTurn
<1> QED BY <1>1, <1>2, BisectCounts

\* The labels a pair's frame must have are the frame's first.
LEMMA LabelsBegin ==
  ASSUME NEW s, Accepted(s), NEW tf, NEW b \in Int
  PROVE  \E p \in 0..Len(RowLabels(s, tf)) :
           /\ \A n \in 1..Len(RowLabels(s, tf)) : n <= p <=> RowLabels(s, tf)[n] < b
           /\ ScheduledLabels(s, tf, b) = [n \in 1..p |-> RowLabels(s, tf)[n]]
<1>1. PICK keys \in Seq(Int) : keys = RowLabels(s, tf)
  BY RowsTurn
<1>2. \A m, n \in 1..Len(keys) : m < n => keys[m] < keys[n]
  BY <1>1, RowsTurn
<1>3. ScheduledLabels(s, tf, b) = Kept(keys, {n \in DOMAIN keys : keys[n] < b})
  BY <1>1 DEF ScheduledLabels, RowLabels
<1>4. PICK p \in 0..Len(keys) :
        /\ \A n \in 1..Len(keys) : n <= p <=> keys[n] < b
        /\ Kept(keys, {n \in DOMAIN keys : keys[n] < b}) = [n \in 1..p |-> keys[n]]
  BY <1>2, BeginningKept
<1> QED BY <1>1, <1>3, <1>4

\* The labels of the rows released are those of as many first rows.
LEMMA ReleasedFirst ==
  ASSUME Accepted(schedule), NEW tf, tf = BaseFrame \/ tf \in Range(ContextFrames), NEW t \in Int
  PROVE  /\ Released(tf, t) = {RowLabels(schedule, tf)[n] : n \in 1..VisibleRows(schedule, tf, t)}
         /\ Cardinality(Released(tf, t)) = VisibleRows(schedule, tf, t)
<1>1. PICK L \in Seq(Int) : L = RowLabels(schedule, tf)
  BY RowsTurn
<1>2. PICK M \in Nat : M = Len(L)
  OBVIOUS
<1>3. PICK k \in 0..M : k = VisibleRows(schedule, tf, t)
  BY <1>1, <1>2, VisibleCount
<1>4. \A n \in 1..M : n <= k <=> RowReleases(schedule, tf)[n] <= t
  BY <1>1, <1>2, <1>3, VisibleCount
<1>5. k \in Nat /\ \A n \in 1..k : n \in 1..M
  BY <1>2, <1>3
<1>6. Released(tf, t) = {L[n] : n \in 1..k}
  <2>1. CASE tf = BaseFrame
    <3>1. PICK I \in Seq(Interval) : I = schedule.intervals
      BY DEF Accepted
    <3>2. M = Len(I) /\ DOMAIN I = 1..M /\ \A n \in 1..M : L[n] = I[n].open /\ RowReleases(schedule, tf)[n] = I[n].close
      BY <1>1, <1>2, <2>1, <3>1, Edges DEF RowLabels, RowReleases
    <3>3. Released(tf, t) = {i.open : i \in {j \in Range(I) : j.close <= t}}
      BY <2>1, <3>1 DEF Released
    <3>4. \A x \in {L[n] : n \in 1..k} : x \in {i.open : i \in {j \in Range(I) : j.close <= t}}
      <4> SUFFICES ASSUME NEW n \in 1..k
                   PROVE  L[n] \in {i.open : i \in {j \in Range(I) : j.close <= t}}
        OBVIOUS
      <4>1. n \in 1..M /\ I[n].close <= t
        BY <1>3, <1>4, <1>5, <3>2, SMTT(30)
      <4>2. I[n] \in {j \in Range(I) : j.close <= t} /\ L[n] = I[n].open
        BY <3>2, <4>1 DEF Range
      <4> QED BY <4>2
    <3>5. \A i \in Range(I) : i.close <= t => i.open \in {L[n] : n \in 1..k}
      <4> SUFFICES ASSUME NEW n \in DOMAIN I, I[n].close <= t
                   PROVE  I[n].open \in {L[m] : m \in 1..k}
        BY DEF Range
      <4>1. n \in 1..M /\ L[n] = I[n].open /\ n <= k
        BY <1>4, <3>2
      <4>2. n \in 1..k
        BY <1>5, <4>1
      <4> QED BY <4>1, <4>2
    <3> QED BY <3>3, <3>4, <3>5
  <2>2. CASE tf # BaseFrame
    <3>1. PICK C : C = ContextBars(schedule, tf)
      OBVIOUS
    <3>2. DOMAIN C = 1..Len(C) /\ Len(C) \in Nat
      BY <3>1, RowsRise
    <3>3. L = [n \in DOMAIN C |-> C[n].label] /\ RowReleases(schedule, tf) = [n \in DOMAIN C |-> C[n].available]
      BY <1>1, <2>2, <3>1 DEF RowLabels, RowReleases
    <3>4. M = Len(C) /\ DOMAIN C = 1..M
      <4>1. PICK m \in Nat : m = Len(C) /\ DOMAIN C = 1..m
        BY <3>2
      <4>2. DOMAIN L = 1..m
        BY <3>3, <4>1
      <4>3. M = m
        BY <1>2, <4>2
      <4> QED BY <4>1, <4>3
    <3>5. \A n \in 1..M : L[n] = C[n].label /\ RowReleases(schedule, tf)[n] = C[n].available
      BY <3>3, <3>4
    <3>6. \A n \in 1..M : C[n] \in Range(schedule.rows) /\ C[n].timeframe = tf
      BY <3>1, <3>4, RowsRise
    <3>7. \A row \in Range(schedule.rows) : row.timeframe = tf => \E n \in 1..M : C[n] = row
      BY <3>1, <3>4, RowsRise
    <3>8. Released(tf, t) =
            {row.label : row \in {r \in Range(schedule.rows) : r.timeframe = tf /\ r.available <= t}}
      BY <2>2 DEF Released
    <3>9. \A x \in {L[n] : n \in 1..k} :
            x \in {row.label : row \in {r \in Range(schedule.rows) : r.timeframe = tf /\ r.available <= t}}
      <4> SUFFICES ASSUME NEW n \in 1..k
                   PROVE  L[n] \in {row.label : row \in {r \in Range(schedule.rows) :
                                                           r.timeframe = tf /\ r.available <= t}}
        OBVIOUS
      <4>1. n \in 1..M /\ C[n].available <= t
        BY <1>3, <1>4, <1>5, <3>5
      <4>2. C[n] \in {r \in Range(schedule.rows) : r.timeframe = tf /\ r.available <= t} /\ L[n] = C[n].label
        BY <3>5, <3>6, <4>1
      <4> QED BY <4>2
    <3>10. \A row \in Range(schedule.rows) :
             row.timeframe = tf /\ row.available <= t => row.label \in {L[n] : n \in 1..k}
      <4> SUFFICES ASSUME NEW row \in Range(schedule.rows), row.timeframe = tf, row.available <= t
                   PROVE  row.label \in {L[n] : n \in 1..k}
        OBVIOUS
      <4>1. PICK n \in 1..M : C[n] = row
        BY <3>7
      <4>2. L[n] = row.label /\ n <= k
        BY <1>4, <3>5, <4>1
      <4>3. n \in 1..k
        BY <1>5, <4>2
      <4> QED BY <4>2, <4>3
    <3> QED BY <3>8, <3>9, <3>10
  <2> QED BY <2>1, <2>2
<1>7. Cardinality({L[n] : n \in 1..k}) = k
  <2>1. \A m, n \in 1..k : m < n => L[m] < L[n]
    BY <1>1, <1>2, <1>5, RowsTurn
  <2>2. \A n \in 1..k : L[n] \in Int
    BY <1>2, <1>5
  <2>3. \A m, n \in 1..k : L[m] = L[n] => m = n
    <3> SUFFICES ASSUME NEW m \in 1..k, NEW n \in 1..k, L[m] = L[n], m # n PROVE FALSE
      OBVIOUS
    <3>1. L[m] \in Int /\ L[n] \in Int /\ (m < n \/ n < m)
      BY <1>5, <2>2
    <3>2. L[m] < L[n] \/ L[n] < L[m]
      BY <2>1, <3>1
    <3> QED BY <3>1, <3>2
  <2>4. IsFiniteSet(1..k) /\ Cardinality(1..k) = k
    BY <1>5, FS_Interval
  <2> QED BY <2>3, <2>4, CountImage
<1> QED BY <1>1, <1>3, <1>6, <1>7

-----------------------------------------------------------------------------
(* The frames prepared. *)

\* What has passed the doors.
Opened ==
  /\ Accepted(schedule) /\ WindowFits(request, schedule)
  /\ request.window.testStart \in Int /\ request.window.testEnd \in Int /\ request.tail \in Int
  /\ RequestAccepted(request) /\ ClosureAccepted(request.deps)
  /\ BarsAccepted(request, schedule, supply)
  /\ \A key \in RequiredPairs(request) : FrameTyped(FrameOf(supply, key))
  /\ prepared = [key \in RequiredPairs(request) |->
                   Placed(request, schedule, key, FrameOf(supply, key))]

\* The pairs a replay reads are prepared, each to the end of what it is read for.
LEMMA PairsPrepared ==
  ASSUME Opened
  PROVE  /\ \A key \in RequiredPairs(request) :
              /\ key[2] = BaseFrame \/ key[2] \in Range(ContextFrames)
              /\ Boundary(request, key) \in Int /\ request.window.testEnd <= Boundary(request, key)
         /\ \A symbol \in Range(request.symbols) :
              /\ PairsRead(request, symbol) \subseteq RequiredPairs(request)
              /\ \A tf \in request.deps.timeframes :
                   /\ <<symbol, tf>> \in PairsRead(request, symbol)
                   /\ <<symbol, tf>> \in ExactPairs(request)
                   /\ Boundary(request, <<symbol, tf>>) = request.tail
         /\ ExactPairs(request) \subseteq RequiredPairs(request)
         /\ request.window.testEnd <= request.tail
<1>1. request.tail >= request.window.testEnd /\ request.tail \in Int /\ request.window.testEnd \in Int
  BY DEF Opened, RequestAccepted
<1>2. /\ BaseFrame \in request.deps.timeframes /\ request.deps.timeframes \subseteq Frames
      /\ \A pair \in request.deps.pairs : pair[2] \in Frames
  BY DEF Opened, ClosureAccepted
<1>3. \A tf \in Frames : tf = BaseFrame \/ tf \in Range(ContextFrames)
  BY DEF Frames
<1>4. ASSUME NEW key \in RequiredPairs(request) PROVE key[2] \in Frames
  <2>1. CASE key \in request.deps.pairs
    BY <1>2, <2>1
  <2>2. CASE key \in Range(request.symbols) \X request.deps.timeframes
    BY <1>2, <2>2
  <2>3. CASE key = <<request.benchmark.symbol, BaseFrame>>
    BY <1>2, <2>3
  <2> QED BY <1>4, <2>1, <2>2, <2>3 DEF RequiredPairs, ExactPairs
<1>5. ASSUME NEW key \in RequiredPairs(request)
      PROVE  Boundary(request, key) \in Int /\ request.window.testEnd <= Boundary(request, key)
  BY <1>1 DEF Boundary
<1>6. ASSUME NEW symbol \in Range(request.symbols)
      PROVE  PairsRead(request, symbol) \subseteq RequiredPairs(request)
  BY DEF PairsRead, RequiredPairs, ExactPairs
<1>7. ASSUME NEW symbol \in Range(request.symbols), NEW tf \in request.deps.timeframes
      PROVE  /\ <<symbol, tf>> \in PairsRead(request, symbol)
             /\ <<symbol, tf>> \in ExactPairs(request)
             /\ Boundary(request, <<symbol, tf>>) = request.tail
  BY DEF PairsRead, ExactPairs, Boundary
<1> QED BY <1>1, <1>3, <1>4, <1>5, <1>6, <1>7 DEF RequiredPairs

\* A prepared frame has the first labels of its frame, under each of them the
\* bar handed over, and no null row where the frame is required as it is.
LEMMA PreparedRows ==
  ASSUME Opened, NEW key \in RequiredPairs(request)
  PROVE  \E p \in 0..Len(RowLabels(schedule, key[2])) :
           /\ \A n \in 1..Len(RowLabels(schedule, key[2])) :
                n <= p <=> RowLabels(schedule, key[2])[n] < Boundary(request, key)
           /\ prepared[key] = [n \in 1..p |->
                                 [label |-> RowLabels(schedule, key[2])[n],
                                  bar   |-> Handed(key, RowLabels(schedule, key[2])[n])]]
           /\ key \in ExactPairs(request) =>
                \A n \in 1..p : Handed(key, RowLabels(schedule, key[2])[n]) # None
<1>1. PICK L \in Seq(Int) : L = RowLabels(schedule, key[2])
  BY RowsTurn DEF Opened
<1>2. PICK b \in Int : b = Boundary(request, key)
  BY PairsPrepared
<1>3. PICK p \in 0..Len(L) :
        /\ \A n \in 1..Len(L) : n <= p <=> L[n] < b
        /\ ScheduledLabels(schedule, key[2], b) = [n \in 1..p |-> L[n]]
  <2>1. PICK tf : tf = key[2]
    OBVIOUS
  <2>2. Accepted(schedule) /\ L = RowLabels(schedule, tf)
    BY <1>1, <2>1 DEF Opened
  <2>3. \E p \in 0..Len(RowLabels(schedule, tf)) :
          /\ \A n \in 1..Len(RowLabels(schedule, tf)) : n <= p <=> RowLabels(schedule, tf)[n] < b
          /\ ScheduledLabels(schedule, tf, b) = [n \in 1..p |-> RowLabels(schedule, tf)[n]]
    BY <2>2, LabelsBegin, SMTT(30)
  <2> QED BY <2>1, <2>2, <2>3
<1>4. PICK frame : frame = FrameOf(supply, key)
  OBVIOUS
<1>5. FrameAccepted(frame) /\ LabelsAccepted(request, schedule, key, frame) /\ FrameTyped(frame)
  BY <1>4 DEF Opened, BarsAccepted
<1>6. RequiredLabels(request, schedule, key) = [n \in 1..p |-> L[n]]
  BY <1>2, <1>3 DEF RequiredLabels
<1>7. (IF key \in ExactPairs(request) THEN frame.index ELSE RequiredLabels(request, schedule, key))
        = [n \in 1..p |-> L[n]]
  BY <1>5, <1>6 DEF LabelsAccepted, HasLabels
<1>8. \A t : Handed(key, t) = IF t \in Range(frame.index)
                              THEN frame.bars[CHOOSE n \in DOMAIN frame.index : frame.index[n] = t]
                              ELSE None
  BY <1>4 DEF Handed
<1>9. Placed(request, schedule, key, frame)
        = [n \in 1..p |-> [label |-> L[n], bar |-> Handed(key, L[n])]]
  <2>1. PICK labels : labels = [n \in 1..p |-> L[n]]
    OBVIOUS
  <2>2. Placed(request, schedule, key, frame)
          = [n \in DOMAIN labels |-> [label |-> labels[n], bar |-> Handed(key, labels[n])]]
    <3>1. labels = IF key \in ExactPairs(request) THEN frame.index ELSE RequiredLabels(request, schedule, key)
      BY <1>7, <2>1
    <3>2. Placed(request, schedule, key, frame) =
            [n \in DOMAIN labels |->
               [label |-> labels[n],
                bar   |-> IF labels[n] \in Range(frame.index)
                          THEN frame.bars[CHOOSE m \in DOMAIN frame.index : frame.index[m] = labels[n]]
                          ELSE None]]
      BY <3>1 DEF Placed
    <3>3. \A n \in DOMAIN labels :
            (IF labels[n] \in Range(frame.index)
             THEN frame.bars[CHOOSE m \in DOMAIN frame.index : frame.index[m] = labels[n]]
             ELSE None) = Handed(key, labels[n])
      BY <1>8
    <3> QED BY <3>2, <3>3
  <2>3. DOMAIN labels = 1..p /\ \A n \in 1..p : labels[n] = L[n]
    BY <2>1
  <2> QED BY <2>2, <2>3
<1>10. prepared[key] = [n \in 1..p |-> [label |-> L[n], bar |-> Handed(key, L[n])]]
  BY <1>4, <1>9 DEF Opened
<1>11. ASSUME key \in ExactPairs(request), NEW n \in 1..p PROVE Handed(key, L[n]) # None
  <2>1. frame.index = [m \in 1..p |-> L[m]]
    BY <1>7, <1>11
  <2>2. L[n] \in Range(frame.index) /\ \E m \in DOMAIN frame.index : frame.index[m] = L[n]
    BY <2>1 DEF Range
  <2>3. PICK m \in DOMAIN frame.index :
          m = CHOOSE i \in DOMAIN frame.index : frame.index[i] = L[n]
    BY <2>2
  <2>4. Handed(key, L[n]) = frame.bars[m]
    BY <1>8, <2>2, <2>3
  <2>5. frame.bars[m] \in Range(frame.bars)
    BY <1>5 DEF FrameTyped, Range
  <2>6. BarAccepted(frame.bars[m])
    BY <1>5, <2>5 DEF FrameAccepted
  <2> QED BY <2>4, <2>6 DEF BarAccepted
<1> QED BY <1>1, <1>2, <1>3, <1>10, <1>11

\* A frame's first rows.
First(frame, k) == [n \in 1..k |-> frame[n]]

LEMMA CutFirst ==
  ASSUME NEW p \in Nat, NEW frame, frame = First(frame, p), NEW k \in 0..p
  PROVE  Cut(frame, k) = First(frame, k) /\ Len(First(frame, k)) = k
<1>1. PICK S : frame \in [1..p -> S]
  <2>1. frame \in [1..p -> {frame[n] : n \in 1..p}]
    BY DEF First
  <2> QED BY <2>1
<1>2. frame \in Seq(S) /\ Len(frame) = p
  BY <1>1
<1>3. Min({k, p}) = k
  <2>1. k \in {k, p} /\ \A x \in {k, p} : k <= x
    OBVIOUS
  <2>2. \A x \in {k, p} : (\A y \in {k, p} : x <= y) => x = k
    OBVIOUS
  <2>3. Min({k, p}) = CHOOSE x \in {k, p} : \A y \in {k, p} : x <= y
    BY DEF Min
  <2> QED BY <2>1, <2>2, <2>3
<1>4. Cut(frame, k) = SubSeq(frame, 1, k)
  BY <1>2, <1>3 DEF Cut
<1>5. SubSeq(frame, 1, k) = [n \in 1..k |-> frame[n]]
  BY <1>1, <1>2
<1>6. k \in Nat /\ Len([n \in 1..k |-> frame[n]]) = k
  OBVIOUS
<1> QED BY <1>4, <1>5, <1>6 DEF First

\* A label names one row of its frame.
LEMMA RowNamed ==
  ASSUME Accepted(schedule), NEW tf \in Range(ContextFrames), tf # BaseFrame,
         NEW n \in 1..Len(RowLabels(schedule, tf))
  PROVE  /\ RowAt(tf, RowLabels(schedule, tf)[n]) \in Range(schedule.rows)
         /\ RowAt(tf, RowLabels(schedule, tf)[n]).timeframe = tf
         /\ RowAt(tf, RowLabels(schedule, tf)[n]).available = RowReleases(schedule, tf)[n]
<1>1. PICK C : C = ContextBars(schedule, tf)
  OBVIOUS
<1>2. PICK M \in Nat : M = Len(C) /\ DOMAIN C = 1..M
  BY <1>1, RowsRise
<1>3. /\ RowLabels(schedule, tf) = [m \in 1..M |-> C[m].label]
      /\ RowReleases(schedule, tf) = [m \in 1..M |-> C[m].available]
  BY <1>1, <1>2 DEF RowLabels, RowReleases
<1>4. n \in 1..M
  <2>1. PICK l \in Nat : l = Len(RowLabels(schedule, tf)) /\ DOMAIN RowLabels(schedule, tf) = 1..l
    BY RowsTurn
  <2>2. l = M
    BY <1>3, <2>1
  <2> QED BY <2>1, <2>2
<1>5. /\ \A m \in 1..M : C[m] \in Range(schedule.rows) /\ C[m].timeframe = tf /\ C[m].label \in Int
      /\ \A row \in Range(schedule.rows) : row.timeframe = tf => \E m \in 1..M : C[m] = row
      /\ \A m, i \in 1..M : m < i => C[m].label < C[i].label
  <2>1. \A m \in 1..M : C[m] \in Range(schedule.rows) /\ C[m].timeframe = tf /\ C[m] \in ContextRow
    BY <1>1, <1>2, RowsRise
  <2>2. \A m \in 1..M : C[m].label \in Int
    BY <2>1, RowTyped
  <2>3. \A row \in Range(schedule.rows) : row.timeframe = tf => \E m \in 1..M : C[m] = row
    BY <1>1, <1>2, RowsRise
  <2>4. \A m, i \in 1..M : m < i => C[m].label < C[i].label
    BY <1>1, <1>2, RowsRise
  <2> QED BY <2>1, <2>2, <2>3, <2>4
<1>6. \A row \in Range(schedule.rows) : row.timeframe = tf /\ row.label = C[n].label => row = C[n]
  <2> SUFFICES ASSUME NEW row \in Range(schedule.rows), row.timeframe = tf, row.label = C[n].label
               PROVE  row = C[n]
    OBVIOUS
  <2>1. PICK m \in 1..M : C[m] = row
    BY <1>5
  <2>2. m < n \/ m = n \/ n < m
    BY <1>2, <1>4
  <2>3. C[m].label \in Int /\ C[n].label \in Int
    BY <1>4, <1>5
  <2>4. ~ (m < n) /\ ~ (n < m)
    BY <1>4, <1>5, <2>1, <2>3
  <2> QED BY <2>1, <2>2, <2>4
<1>7. RowAt(tf, C[n].label) = C[n]
  BY <1>4, <1>5, <1>6 DEF RowAt
<1> QED BY <1>3, <1>4, <1>5, <1>7

\* As many rows as are released by an instant of the window are prepared.
LEMMA CutPrepared ==
  ASSUME Opened, NEW key \in RequiredPairs(request), NEW t \in Int, t <= request.window.testEnd,
         NEW k, k = VisibleRows(schedule, key[2], t)
  PROVE  /\ k \in 0..Len(RowLabels(schedule, key[2]))
         /\ Cut(prepared[key], k) = [n \in 1..k |-> [label |-> RowLabels(schedule, key[2])[n],
                                                     bar   |-> Handed(key, RowLabels(schedule, key[2])[n])]]
         /\ Len(Cut(prepared[key], k)) = k
         /\ key \in ExactPairs(request) =>
              \A n \in 1..k : Handed(key, RowLabels(schedule, key[2])[n]) # None
<1>0. Accepted(schedule)
  BY DEF Opened
<1>1. PICK L \in Seq(Int) : L = RowLabels(schedule, key[2])
  BY <1>0, RowsTurn
<1>2. PICK M \in Nat : M = Len(L)
  OBVIOUS
<1>3. PICK R \in Seq(Int) : R = RowReleases(schedule, key[2]) /\ Len(R) = M /\ \A n \in 1..M : L[n] < R[n]
  BY <1>0, <1>1, <1>2, RowsTurn
<1>4. k \in 0..M /\ \A n \in 1..M : n <= k <=> R[n] <= t
  BY <1>0, <1>1, <1>2, <1>3, VisibleCount
<1>5. PICK b \in Int : b = Boundary(request, key) /\ t <= b
  <2>1. Boundary(request, key) \in Int /\ request.window.testEnd <= Boundary(request, key)
    BY PairsPrepared
  <2>2. request.window.testEnd \in Int
    BY DEF Opened
  <2> QED BY <2>1, <2>2
<1>6. PICK p \in 0..M :
        /\ \A n \in 1..M : n <= p <=> L[n] < b
        /\ prepared[key] = [n \in 1..p |-> [label |-> L[n], bar |-> Handed(key, L[n])]]
        /\ key \in ExactPairs(request) => \A n \in 1..p : Handed(key, L[n]) # None
  <2>1. \E p \in 0..Len(RowLabels(schedule, key[2])) :
          /\ \A n \in 1..Len(RowLabels(schedule, key[2])) :
               n <= p <=> RowLabels(schedule, key[2])[n] < Boundary(request, key)
          /\ prepared[key] = [n \in 1..p |->
                                [label |-> RowLabels(schedule, key[2])[n],
                                 bar   |-> Handed(key, RowLabels(schedule, key[2])[n])]]
          /\ key \in ExactPairs(request) =>
               \A n \in 1..p : Handed(key, RowLabels(schedule, key[2])[n]) # None
    BY PreparedRows
  <2> QED BY <1>1, <1>2, <1>5, <2>1
<1>7. k <= p
  <2>1. CASE k = 0
    BY <1>6, <2>1
  <2>2. CASE k # 0
    <3>1. k \in 1..M /\ k <= k
      BY <1>4, <2>2
    <3>2. R[k] <= t /\ L[k] < R[k] /\ R[k] \in Int /\ L[k] \in Int
      BY <1>2, <1>3, <1>4, <3>1
    <3>3. L[k] < b
      BY <1>5, <3>2
    <3> QED BY <1>6, <3>1, <3>3
  <2> QED BY <2>1, <2>2
<1>8. p \in Nat /\ k \in 0..p /\ \A n \in 1..k : n \in 1..p
  BY <1>2, <1>4, <1>6, <1>7
<1>9. PICK frame : frame = prepared[key]
  OBVIOUS
<1>10. frame = [n \in 1..p |-> [label |-> L[n], bar |-> Handed(key, L[n])]]
  BY <1>6, <1>9
<1>11. frame = First(frame, p)
  BY <1>10 DEF First
<1>12. Cut(frame, k) = First(frame, k) /\ Len(First(frame, k)) = k
  BY <1>8, <1>11, CutFirst
<1>13. \A n \in 1..k : frame[n] = [label |-> L[n], bar |-> Handed(key, L[n])]
  BY <1>8, <1>10
<1>14. Cut(frame, k) = [n \in 1..k |-> [label |-> L[n], bar |-> Handed(key, L[n])]]
  BY <1>12, <1>13 DEF First
<1> QED BY <1>1, <1>2, <1>4, <1>6, <1>8, <1>9, <1>12, <1>14

\* At a base close of the window a frame is read as the schedule released it.
LEMMA ReadThere ==
  ASSUME Opened, NEW key \in RequiredPairs(request),
         NEW c \in 1..Len(schedule.intervals), NEW t, t = schedule.intervals[c].close,
         t <= request.window.testEnd
  PROVE  ReadAsScheduled(key, Cut(prepared[key], VisibleRows(schedule, key[2], t)), t)
<1>0. Accepted(schedule) /\ t \in Int
  BY Clock DEF Opened
<1>1. PICK tf : tf = key[2] /\ (tf = BaseFrame \/ tf \in Range(ContextFrames))
  BY PairsPrepared
<1>2. PICK L \in Seq(Int) : L = RowLabels(schedule, tf)
  BY <1>0, RowsTurn
<1>3. PICK k : k = VisibleRows(schedule, tf, t)
  OBVIOUS
<1>4. PICK frame : frame = Cut(prepared[key], k)
  OBVIOUS
<1>5. /\ k \in 0..Len(L)
      /\ frame = [n \in 1..k |-> [label |-> L[n], bar |-> Handed(key, L[n])]]
      /\ Len(frame) = k
      /\ key \in ExactPairs(request) => \A n \in 1..k : Handed(key, L[n]) # None
  <2>1. k = VisibleRows(schedule, key[2], t) /\ L = RowLabels(schedule, key[2])
    BY <1>1, <1>2, <1>3
  <2>2. /\ k \in 0..Len(RowLabels(schedule, key[2]))
        /\ Cut(prepared[key], k) = [n \in 1..k |-> [label |-> RowLabels(schedule, key[2])[n],
                                                    bar   |-> Handed(key, RowLabels(schedule, key[2])[n])]]
        /\ Len(Cut(prepared[key], k)) = k
        /\ key \in ExactPairs(request) =>
             \A n \in 1..k : Handed(key, RowLabels(schedule, key[2])[n]) # None
    BY <1>0, <2>1, CutPrepared, SMTT(30)
  <2> QED BY <1>4, <2>1, <2>2
<1>6. DOMAIN frame = 1..k /\ \A n \in 1..k : frame[n].label = L[n] /\ frame[n].bar = Handed(key, L[n])
  BY <1>5
<1>7. Released(tf, t) = {L[n] : n \in 1..k} /\ Cardinality(Released(tf, t)) = k
  BY <1>0, <1>1, <1>2, <1>3, ReleasedFirst
<1>8. {frame[n].label : n \in DOMAIN frame} = Released(tf, t)
  BY <1>6, <1>7
<1>9. ASSUME NEW n \in 1..k PROVE \A i \in IntervalsOf(tf, L[n]) : i.close <= t
  <2>1. n \in 1..Len(L) /\ RowReleases(schedule, tf)[n] <= t
    <3>1. n \in 1..Len(L) /\ n <= k
      BY <1>5
    <3> QED BY <1>0, <1>2, <1>3, <3>1, VisibleCount
  <2>2. PICK I \in Seq(Interval) : I = schedule.intervals
    BY <1>0 DEF Accepted
  <2>3. DOMAIN I = 1..Len(I)
    OBVIOUS
  <2>4. CASE tf = BaseFrame
    <3> SUFFICES ASSUME NEW m \in DOMAIN I, I[m].open = L[n] PROVE I[m].close <= t
      BY <2>2, <2>4 DEF IntervalsOf, Range
    <3>1. Opens(schedule)[n] = L[n] /\ Closes(schedule)[n] <= t
      BY <1>2, <2>1, <2>4 DEF RowLabels, RowReleases
    <3>2. n \in 1..Len(I) /\ m \in 1..Len(I)
      <4>1. L = Opens(schedule)
        BY <1>2, <2>4 DEF RowLabels
      <4>2. Len(Opens(schedule)) = Len(I)
        BY <1>0, <2>2, Edges
      <4>3. m \in 1..Len(I)
        BY <2>3
      <4> QED BY <2>1, <4>1, <4>2, <4>3
    <3>3. Opens(schedule)[m] = L[n] /\ Closes(schedule)[m] = I[m].close /\ Opens(schedule)[n] \in Int
      <4>1. \A j \in 1..Len(I) : Opens(schedule)[j] = I[j].open /\ Closes(schedule)[j] = I[j].close
        BY <1>0, <2>2, Edges
      <4>2. I[n] \in Interval
        BY <3>2
      <4>3. I[n].open \in Int
        BY <4>2 DEF Interval
      <4>4. I[m].open = L[n]
        OBVIOUS
      <4> QED BY <3>2, <4>1, <4>3, <4>4
    <3>4. m = n
      <4>1. m < n \/ m = n \/ n < m
        BY <3>2
      <4>2. \A j, l \in 1..Len(I) : j < l => Opens(schedule)[j] < Opens(schedule)[l]
        BY <1>0, <2>2, Edges
      <4> QED BY <3>1, <3>2, <3>3, <4>1, <4>2
    <3> QED BY <3>1, <3>3, <3>4
  <2>5. CASE tf # BaseFrame
    <3>1. PICK row : row = RowAt(tf, L[n])
      OBVIOUS
    <3>2. row \in Range(schedule.rows) /\ row.timeframe = tf /\ row.available = RowReleases(schedule, tf)[n]
      BY <1>0, <1>1, <1>2, <2>1, <2>5, <3>1, RowNamed
    <3>3. IntervalsOf(tf, L[n]) = {i \in Range(I) :
                                    IF tf = "1d" THEN i.session = row.session
                                    ELSE i.open < row.end /\ i.close > row.start}
      BY <2>2, <2>5, <3>1 DEF IntervalsOf
    <3> SUFFICES ASSUME NEW m \in DOMAIN I,
                        IF tf = "1d" THEN I[m].session = row.session
                        ELSE I[m].open < row.end /\ I[m].close > row.start
                 PROVE  I[m].close <= t
      BY <3>3 DEF Range
    <3>4. row.available <= schedule.intervals[c].close
      BY <2>1, <3>2
    <3>5. m \in 1..Len(schedule.intervals)
      BY <2>2, <2>3
    <3>6. schedule.intervals[m].close <= schedule.intervals[c].close
      BY <1>0, <2>2, <3>2, <3>4, <3>5, CoveredClosed
    <3> QED BY <2>2, <3>6
  <2> QED BY <2>4, <2>5
<1>10. \A n \in DOMAIN frame :
         /\ \A i \in IntervalsOf(tf, frame[n].label) : i.close <= t
         /\ frame[n].bar = Handed(key, frame[n].label)
         /\ frame[n].bar = None => key \notin ExactPairs(request)
  BY <1>5, <1>6, <1>9
<1>11. ReadAsScheduled(key, frame, t)
  BY <1>1, <1>5, <1>7, <1>8, <1>10 DEF ReadAsScheduled
<1> QED BY <1>1, <1>3, <1>4, <1>11

\* The gate opens at the instant a row names, on the row it names.
LEMMA GateThere ==
  ASSUME Opened, NEW symbol \in Range(request.symbols),
         NEW tf \in request.deps.timeframes \ {BaseFrame},
         NEW t \in Int, t <= request.window.testEnd,
         NEW frame, frame = Cut(prepared[<<symbol, tf>>], VisibleRows(schedule, tf, t))
  PROVE  /\ Fresh(schedule, tf, t) <=>
              {row \in Range(schedule.rows) : row.timeframe = tf /\ row.fresh = t} # {}
         /\ \A row \in Range(schedule.rows) : row.timeframe = tf /\ row.fresh = t =>
              frame[Len(frame)].label = row.label /\ frame[Len(frame)].bar # None
<1>0. Accepted(schedule) /\ tf # BaseFrame /\ None \notin Int
  BY Lengths DEF Opened
<1>1. PICK C : C = ContextBars(schedule, tf)
  OBVIOUS
<1>2. PICK M \in Nat : M = Len(C) /\ DOMAIN C = 1..M
  BY <1>0, <1>1, RowsRise
<1>3. /\ RowLabels(schedule, tf) = [n \in 1..M |-> C[n].label]
      /\ RowReleases(schedule, tf) = [n \in 1..M |-> C[n].available]
  BY <1>0, <1>1, <1>2 DEF RowLabels, RowReleases
<1>4. Len(RowLabels(schedule, tf)) = M
  BY <1>3
<1>5. /\ \A n \in 1..M : C[n] \in Range(schedule.rows) /\ C[n].timeframe = tf
      /\ \A row \in Range(schedule.rows) : row.timeframe = tf => \E n \in 1..M : C[n] = row
  BY <1>0, <1>1, <1>2, RowsRise
<1>6. PICK k \in 0..M : k = VisibleRows(schedule, tf, t) /\ \A n \in 1..M : n <= k <=> C[n].available <= t
  <2>1. /\ VisibleRows(schedule, tf, t) \in 0..M
        /\ \A n \in 1..M : n <= VisibleRows(schedule, tf, t) <=> RowReleases(schedule, tf)[n] <= t
    BY <1>0, <1>4, VisibleCount
  <2> QED BY <1>3, <2>1
<1>7. PICK released : released = Cut(C, k)
  OBVIOUS
<1>8. Fresh(schedule, tf, t) <=> released # <<>> /\ released[Len(released)].fresh = t
  <2>1. AvailableContextCount(schedule, tf, t) = k
    BY <1>0, <1>6 DEF VisibleRows
  <2> QED BY <1>1, <1>7, <2>1 DEF Fresh
<1>9. released = First(C, k) /\ Len(released) = k
  <2>1. C = First(C, M)
    <3>1. PICK S : C \in [1..M -> S]
      <4>1. C \in Seq(ContextRow)
        BY <1>0, <1>1, RowsRise
      <4>2. C \in [1..Len(C) -> ContextRow]
        BY <4>1
      <4> QED BY <1>2, <4>2
    <3> QED BY <3>1 DEF First
  <2> QED BY <1>7, <2>1, CutFirst
<1>10. k # 0 => released # <<>> /\ released[k] = C[k]
  <2> SUFFICES ASSUME k # 0 PROVE released # <<>> /\ released[k] = C[k]
    OBVIOUS
  <2>1. k \in 1..k
    BY <1>2
  <2>2. released[k] = C[k]
    BY <1>9, <2>1 DEF First
  <2>3. Len(<<>>) = 0
    OBVIOUS
  <2> QED BY <1>9, <2>2, <2>3
<1>11. k = 0 => released = <<>>
  BY <1>9 DEF First
<1>12. ASSUME NEW row \in Range(schedule.rows), row.timeframe = tf, row.fresh = t
       PROVE  k # 0 /\ row = C[k]
  <2>1. PICK j \in 1..M : C[j] = row
    BY <1>5, <1>12
  <2>2. row.available \in Int /\ row.available <= t
    BY <1>0, <1>12, RowTimes
  <2>3. j <= k /\ j \in Nat /\ k \in Nat
    BY <1>2, <1>6, <2>1, <2>2
  <2>4. ASSUME j < k PROVE FALSE
    <3>1. k \in 1..M
      BY <1>2, <1>6, <2>1, <2>3, <2>4
    <3>2. /\ C[j].label < C[k].label /\ C[j].start < C[k].start /\ C[j].end < C[k].end
          /\ C[j] \in Range(schedule.rows) /\ C[k] \in Range(schedule.rows) /\ C[j].timeframe = C[k].timeframe
      BY <1>0, <1>1, <1>2, <1>5, <2>4, <3>1, RowsRise, SMTT(30)
    <3>3. C[j].fresh # None => C[j].fresh < C[k].available
      BY <1>0, <3>2, ReleasesRise
    <3>4. t < C[k].available
      BY <1>0, <1>12, <2>1, <3>3
    <3>5. C[k].available <= t /\ C[k].available \in Int
      BY <1>0, <1>2, <1>6, <3>1, <3>2, RowTimes
    <3> QED BY <3>4, <3>5
  <2>5. j = k
    BY <2>3, <2>4
  <2> QED BY <2>1, <2>5
<1>13. Fresh(schedule, tf, t) <=>
         {row \in Range(schedule.rows) : row.timeframe = tf /\ row.fresh = t} # {}
  <2>1. ASSUME Fresh(schedule, tf, t)
        PROVE  \E row \in Range(schedule.rows) : row.timeframe = tf /\ row.fresh = t
    <3>1. k # 0 /\ released[k].fresh = t
      BY <1>8, <1>9, <1>11, <2>1
    <3>2. k \in 1..M /\ C[k].fresh = t
      BY <1>2, <1>6, <1>10, <3>1
    <3> QED BY <1>5, <3>2
  <2>2. ASSUME NEW row \in Range(schedule.rows), row.timeframe = tf, row.fresh = t
        PROVE  Fresh(schedule, tf, t)
    BY <1>8, <1>9, <1>10, <1>12, <2>2
  <2> QED BY <2>1, <2>2
<1>14. ASSUME NEW row \in Range(schedule.rows), row.timeframe = tf, row.fresh = t
       PROVE  frame[Len(frame)].label = row.label /\ frame[Len(frame)].bar # None
  <2>1. PICK key : key = <<symbol, tf>>
    OBVIOUS
  <2>2. key \in RequiredPairs(request) /\ key \in ExactPairs(request) /\ key[2] = tf
    <3>1. symbol \in Range(request.symbols) /\ tf \in request.deps.timeframes
      OBVIOUS
    <3>2. <<symbol, tf>> \in ExactPairs(request)
      BY <3>1, PairsPrepared
    <3>3. ExactPairs(request) \subseteq RequiredPairs(request)
      BY PairsPrepared
    <3> QED BY <2>1, <3>2, <3>3
  <2>3. PICK L : L = RowLabels(schedule, tf)
    OBVIOUS
  <2>4. /\ frame = [n \in 1..k |-> [label |-> L[n], bar |-> Handed(key, L[n])]]
        /\ Len(frame) = k
        /\ \A n \in 1..k : Handed(key, L[n]) # None
    <3>1. k = VisibleRows(schedule, key[2], t) /\ frame = Cut(prepared[key], k) /\ L = RowLabels(schedule, key[2])
      BY <1>6, <2>1, <2>2, <2>3
    <3>2. /\ Cut(prepared[key], k) =
               [n \in 1..k |-> [label |-> RowLabels(schedule, key[2])[n],
                                bar   |-> Handed(key, RowLabels(schedule, key[2])[n])]]
          /\ Len(Cut(prepared[key], k)) = k
          /\ key \in ExactPairs(request) =>
               \A n \in 1..k : Handed(key, RowLabels(schedule, key[2])[n]) # None
      BY <2>2, <3>1, CutPrepared
    <3> QED BY <2>2, <3>1, <3>2
  <2>5. k # 0 /\ row = C[k]
    BY <1>12, <1>14
  <2>6. k \in 1..k /\ k \in 1..M
    BY <1>2, <1>6, <2>5
  <2>7. frame[k].label = L[k] /\ frame[k].bar # None
    BY <2>4, <2>6
  <2>8. L[k] = C[k].label
    BY <1>3, <2>3, <2>6
  <2> QED BY <2>4, <2>5, <2>7, <2>8
<1> QED BY <1>13, <1>14

\* The last interval of the test range closes at its end.
LEMMA LastTested ==
  ASSUME Opened
  PROVE  /\ TestIntervals(request, schedule) \in Seq(Interval)
         /\ Len(TestIntervals(request, schedule)) \in Nat \ {0}
         /\ \A n \in 1..Len(TestIntervals(request, schedule)) :
              \E c \in 1..Len(schedule.intervals) :
                TestIntervals(request, schedule)[n] = schedule.intervals[c]
         /\ TestIntervals(request, schedule)[Len(TestIntervals(request, schedule))].close
              = request.window.testEnd
<1>0. Accepted(schedule) /\ WindowFits(request, schedule)
  BY DEF Opened
<1>1. PICK I \in Seq(Interval) : I = schedule.intervals
  BY <1>0 DEF Accepted
<1>2. PICK N \in Nat : N = Len(I) /\ DOMAIN I = 1..N
  OBVIOUS
<1>3. PICK from \in Int, to \in Int : from = request.window.testStart /\ to = request.window.testEnd /\ from < to
  BY DEF Opened, RequestAccepted, WindowAccepted
<1>4. PICK b \in 1..N : I[b].open = from
  <2>1. from \in Range(Opens(schedule))
    BY <1>0, <1>3 DEF WindowFits
  <2> QED BY <1>0, <1>1, <1>2, <2>1, Edges DEF Range
<1>5. PICK e \in 1..N : I[e].close = to
  <2>1. to \in Range(Closes(schedule))
    BY <1>0, <1>3 DEF WindowFits
  <2> QED BY <1>0, <1>1, <1>2, <2>1, Edges DEF Range
<1>6. /\ \A n \in 1..N : I[n].open \in Int /\ I[n].close \in Int /\ I[n].open < I[n].close
      /\ \A m, n \in 1..N : m < n => I[m].open < I[n].open /\ I[m].close <= I[n].open
  <2>1. \A n \in 1..N : I[n].open \in Int /\ I[n].close \in Int /\ I[n].open < I[n].close
    BY <1>0, <1>1, <1>2, Clock
  <2>2. \A m, n \in 1..N : m < n => I[m].open < I[n].open /\ I[m].close <= I[n].open
    BY <1>0, <1>1, <1>2, Clock
  <2> QED BY <2>1, <2>2
<1>7. PICK A \in SUBSET DOMAIN I : A = {n \in DOMAIN I : from <= I[n].open /\ I[n].open < to}
  OBVIOUS
<1>8. PICK T : T = TestIntervals(request, schedule)
  OBVIOUS
<1>9. T = Kept(I, A)
  BY <1>1, <1>3, <1>7, <1>8 DEF TestIntervals
<1>10. /\ T \in Seq(Interval)
       /\ \E g \in [1..Len(T) -> A] :
            /\ \A k \in 1..Len(T) : T[k] = I[g[k]]
            /\ \A i \in A : \E k \in 1..Len(T) : g[k] = i
            /\ \A k, l \in 1..Len(T) : k < l => g[k] < g[l]
  <2>1. /\ Kept(I, A) \in Seq(Interval)
        /\ \E g \in [1..Len(Kept(I, A)) -> A] :
             /\ \A k \in 1..Len(Kept(I, A)) : Kept(I, A)[k] = I[g[k]]
             /\ \A i \in A : \E k \in 1..Len(Kept(I, A)) : g[k] = i
             /\ \A k, l \in 1..Len(Kept(I, A)) : k < l => g[k] < g[l]
    BY KeptInOrder
  <2> QED BY <1>9, <2>1
<1>11. PICK L \in Nat : L = Len(T)
  BY <1>10
<1>12. PICK g \in [1..L -> A] :
         /\ \A k \in 1..L : T[k] = I[g[k]]
         /\ \A i \in A : \E k \in 1..L : g[k] = i
         /\ \A k, l \in 1..L : k < l => g[k] < g[l]
  BY <1>10, <1>11
<1>13. e \in A
  <2>1. ASSUME e < b PROVE FALSE
    BY <1>3, <1>4, <1>5, <1>6, <2>1
  <2>2. b < e \/ b = e
    BY <1>2, <2>1
  <2>3. from <= I[e].open
    BY <1>3, <1>4, <1>6, <2>2
  <2> QED BY <1>2, <1>5, <1>6, <1>7, <2>3
<1>14. \A n \in A : n \in 1..N /\ n <= e
  <2> SUFFICES ASSUME NEW n \in A PROVE n \in 1..N /\ n <= e
    OBVIOUS
  <2>1. n \in 1..N /\ I[n].open < to
    BY <1>2, <1>7
  <2>2. ASSUME e < n PROVE FALSE
    BY <1>3, <1>5, <1>6, <2>1, <2>2
  <2> QED BY <1>2, <2>1, <2>2
<1>15. PICK k \in 1..L : g[k] = e
  BY <1>12, <1>13
<1>16. L \in 1..L /\ g[L] \in A
  BY <1>12, <1>15
<1>17. k = L
  <2>1. ASSUME k < L PROVE FALSE
    <3>1. e < g[L]
      BY <1>12, <1>15, <1>16, <2>1
    <3> QED BY <1>2, <1>14, <1>16, <3>1
  <2> QED BY <1>11, <2>1
<1>18. T[L].close = to
  BY <1>5, <1>12, <1>15, <1>17
<1>19. \A n \in 1..L : \E c \in 1..N : T[n] = I[c]
  BY <1>12, <1>14
<1>20. L \in Nat \ {0}
  BY <1>11, <1>16
<1> QED BY <1>1, <1>2, <1>3, <1>8, <1>10, <1>11, <1>18, <1>19, <1>20

\* When a row is asked about: at its close, or where it may be decided on.
Asked(s, tf) ==
  IF tf = BaseFrame THEN Closes(s) ELSE [n \in DOMAIN ContextBars(s, tf) |-> ContextBars(s, tf)[n].fresh]

\* The rows of a frame that are asked about are asked about in their order,
\* none before its release.
LEMMA AskedRise ==
  ASSUME NEW s, Accepted(s), NEW tf
  PROVE  /\ \A n \in 1..Len(RowLabels(s, tf)) :
              Asked(s, tf)[n] # None => Asked(s, tf)[n] \in Int /\ RowReleases(s, tf)[n] <= Asked(s, tf)[n]
         /\ \A m, n \in 1..Len(RowLabels(s, tf)) :
              m < n /\ Asked(s, tf)[m] # None /\ Asked(s, tf)[n] # None =>
                Asked(s, tf)[m] < Asked(s, tf)[n]
<1>1. CASE tf = BaseFrame
  <2>1. RowReleases(s, tf) = Closes(s) /\ Asked(s, tf) = Closes(s) /\ RowLabels(s, tf) = Opens(s)
    BY <1>1 DEF RowReleases, RowLabels, Asked
  <2>2. \A n \in 1..Len(s.intervals) : Closes(s)[n] \in Int
    BY Edges, Clock
  <2>3. PICK N \in Nat : N = Len(s.intervals) /\ N = Len(RowLabels(s, tf))
    BY <2>1, Edges, Clock
  <2>4. PICK keys : keys = Closes(s) /\ \A n \in 1..N : keys[n] \in Int
    BY <2>2, <2>3
  <2>5. \A m, n \in 1..N : m < n => keys[m] < keys[n]
    BY <2>3, <2>4, Edges
  <2>6. \A n \in 1..N : keys[n] <= keys[n]
    BY <2>4
  <2> QED BY <2>1, <2>3, <2>4, <2>5, <2>6
<1>2. CASE tf # BaseFrame
  <2>1. PICK C : C = ContextBars(s, tf)
    OBVIOUS
  <2>2. PICK M \in Nat : M = Len(C) /\ DOMAIN C = 1..M
    BY <2>1, RowsRise
  <2>3. /\ RowLabels(s, tf) = [n \in 1..M |-> C[n].label]
        /\ RowReleases(s, tf) = [n \in 1..M |-> C[n].available]
        /\ Asked(s, tf) = [n \in 1..M |-> C[n].fresh]
    BY <1>2, <2>1, <2>2 DEF RowLabels, RowReleases, Asked
  <2>4. Len(RowLabels(s, tf)) = M
    BY <2>3
  <2>5. \A n \in 1..M : C[n] \in Range(s.rows) /\ C[n].timeframe = tf
    BY <2>1, <2>2, RowsRise
  <2>6. \A n \in 1..M : /\ C[n].available \in Int
                        /\ C[n].fresh # None => C[n].fresh \in Int /\ C[n].available <= C[n].fresh
    BY <2>5, RowTimes
  <2>7. ASSUME NEW m \in 1..M, NEW n \in 1..M, m < n, C[m].fresh # None, C[n].fresh # None
        PROVE  C[m].fresh < C[n].fresh
    <3>1. C[m].label < C[n].label /\ C[m].start < C[n].start /\ C[m].end < C[n].end
      BY <2>1, <2>2, <2>7, RowsRise
    <3>2. C[m].fresh < C[n].available
      BY <2>5, <2>7, <3>1, ReleasesRise
    <3>3. C[m].fresh \in Int /\ C[n].fresh \in Int /\ C[n].available \in Int /\ C[n].available <= C[n].fresh
      BY <2>6, <2>7
    <3> QED BY <3>2, <3>3
  <2> QED BY <2>3, <2>4, <2>6, <2>7
<1> QED BY <1>1, <1>2

\* A graded factor is asked at rising instants, about rows of its own frame
\* that are released by then.
LEMMA ObservedThere ==
  ASSUME Opened, NEW symbol \in Range(request.symbols), NEW axis \in request.deps.timeframes
  PROVE  /\ Rising([n \in DOMAIN Observations(axis) |-> Observations(axis)[n].at])
         /\ \A n \in DOMAIN Observations(axis) :
              /\ prepared[<<symbol, axis>>][Observations(axis)[n].ordinal].label = Observations(axis)[n].label
              /\ Observations(axis)[n].label \in Released(axis, Observations(axis)[n].at)
<1>0. Accepted(schedule)
  BY DEF Opened
<1>1. PICK L \in Seq(Int) : L = RowLabels(schedule, axis)
  BY <1>0, RowsTurn
<1>2. PICK M \in Nat : M = Len(L) /\ DOMAIN L = 1..M
  OBVIOUS
<1>3. PICK R \in Seq(Int) : R = RowReleases(schedule, axis) /\ Len(R) = M /\ \A n \in 1..M : L[n] < R[n]
  BY <1>0, <1>1, <1>2, RowsTurn
<1>4. PICK A : A = Asked(schedule, axis)
  OBVIOUS
<1>5. /\ \A n \in 1..M : A[n] # None => A[n] \in Int /\ R[n] <= A[n]
      /\ \A m, n \in 1..M : m < n /\ A[m] # None /\ A[n] # None => A[m] < A[n]
  <2>1. /\ \A n \in 1..Len(RowLabels(schedule, axis)) :
             Asked(schedule, axis)[n] # None =>
               Asked(schedule, axis)[n] \in Int /\ RowReleases(schedule, axis)[n] <= Asked(schedule, axis)[n]
        /\ \A m, n \in 1..Len(RowLabels(schedule, axis)) :
             m < n /\ Asked(schedule, axis)[m] # None /\ Asked(schedule, axis)[n] # None =>
               Asked(schedule, axis)[m] < Asked(schedule, axis)[n]
    BY <1>0, AskedRise
  <2> QED BY <1>1, <1>2, <1>3, <1>4, <2>1
<1>6. PICK rows : rows = [n \in 1..M |-> [at |-> A[n], label |-> L[n], ordinal |-> n]]
  OBVIOUS
<1>7. PICK D \in SUBSET (1..M) :
        D = {n \in 1..M : /\ A[n] # None
                          /\ request.window.testStart < A[n] /\ A[n] <= request.window.testEnd}
  OBVIOUS
<1>8. PICK O : O = Observations(axis)
  OBVIOUS
<1>9. O = Kept(rows, D)
  <2> DEFINE drawn == IF axis = BaseFrame
                      THEN [n \in DOMAIN schedule.intervals |->
                              [at |-> Closes(schedule)[n], label |-> Opens(schedule)[n], ordinal |-> n]]
                      ELSE [n \in DOMAIN ContextBars(schedule, axis) |->
                              [at      |-> ContextBars(schedule, axis)[n].fresh,
                               label   |-> ContextBars(schedule, axis)[n].label,
                               ordinal |-> n]]
  <2>1. drawn = rows
    <3>1. CASE axis = BaseFrame
      <4>1. A = Closes(schedule) /\ L = Opens(schedule)
        BY <1>1, <1>4, <3>1 DEF Asked, RowLabels
      <4>2. DOMAIN schedule.intervals = 1..M
        BY <1>0, <1>2, <4>1, Edges, Clock
      <4> QED BY <1>6, <3>1, <4>1, <4>2
    <3>2. CASE axis # BaseFrame
      <4>1. PICK C : C = ContextBars(schedule, axis)
        OBVIOUS
      <4>2. A = [n \in DOMAIN C |-> C[n].fresh] /\ L = [n \in DOMAIN C |-> C[n].label]
        BY <1>1, <1>4, <3>2, <4>1 DEF Asked, RowLabels
      <4>3. DOMAIN C = 1..M
        BY <1>2, <4>2
      <4>4. \A n \in 1..M : A[n] = C[n].fresh /\ L[n] = C[n].label
        BY <4>2, <4>3
      <4>5. drawn = [n \in 1..M |-> [at |-> C[n].fresh, label |-> C[n].label, ordinal |-> n]]
        BY <3>2, <4>1, <4>3
      <4> HIDE DEF drawn
      <4> QED BY <1>6, <4>4, <4>5
    <3> QED BY <3>1, <3>2
  <2>2. Observations(axis) =
          Kept(drawn, {n \in DOMAIN drawn : /\ drawn[n].at # None
                                            /\ request.window.testStart < drawn[n].at
                                            /\ drawn[n].at <= request.window.testEnd})
    BY DEF Observations
  <2> HIDE DEF drawn
  <2>3. DOMAIN rows = 1..M /\ \A n \in 1..M : rows[n].at = A[n]
    BY <1>6
  <2>4. {n \in DOMAIN rows : /\ rows[n].at # None
                             /\ request.window.testStart < rows[n].at
                             /\ rows[n].at <= request.window.testEnd} = D
    BY <1>7, <2>3
  <2> QED BY <1>8, <2>1, <2>2, <2>4
<1>10. PICK S : rows \in Seq(S) /\ DOMAIN rows = 1..M
  <2>1. rows \in [1..M -> {rows[n] : n \in 1..M}]
    BY <1>6
  <2>2. PICK S : rows \in [1..M -> S]
    BY <2>1
  <2>3. rows \in Seq(S) /\ DOMAIN rows = 1..M
    BY <1>2, <2>2, SMTT(30)
  <2> QED BY <2>3
<1>11. PICK e \in [1..Len(O) -> D] :
         /\ O \in Seq(S)
         /\ \A k \in 1..Len(O) : O[k] = rows[e[k]]
         /\ \A k, l \in 1..Len(O) : k < l => e[k] < e[l]
  <2>0. D \in SUBSET DOMAIN rows /\ rows \in Seq(S)
    BY <1>7, <1>10
  <2>1. /\ Kept(rows, D) \in Seq(S)
        /\ \E e \in [1..Len(Kept(rows, D)) -> D] :
             /\ \A k \in 1..Len(Kept(rows, D)) : Kept(rows, D)[k] = rows[e[k]]
             /\ \A i \in D : \E k \in 1..Len(Kept(rows, D)) : e[k] = i
             /\ \A k, l \in 1..Len(Kept(rows, D)) : k < l => e[k] < e[l]
    BY <2>0, KeptInOrder
  <2> QED BY <1>9, <2>1
<1>12. PICK K \in Nat : K = Len(O) /\ DOMAIN O = 1..K
  BY <1>11
<1>13. ASSUME NEW k \in 1..K
       PROVE  /\ e[k] \in 1..M /\ A[e[k]] # None /\ A[e[k]] \in Int /\ A[e[k]] <= request.window.testEnd
              /\ O[k].at = A[e[k]] /\ O[k].label = L[e[k]] /\ O[k].ordinal = e[k]
  <2>1. e[k] \in D /\ O[k] = rows[e[k]]
    BY <1>11, <1>12
  <2>2. e[k] \in 1..M /\ A[e[k]] # None /\ A[e[k]] <= request.window.testEnd
    BY <1>7, <2>1
  <2>3. O[k] = [at |-> A[e[k]], label |-> L[e[k]], ordinal |-> e[k]]
    BY <1>6, <2>1, <2>2
  <2> QED BY <1>5, <2>2, <2>3
<1>14. Rising([n \in DOMAIN O |-> O[n].at])
  <2>1. PICK V : V = [n \in 1..K |-> O[n].at]
    OBVIOUS
  <2>2. Len(V) = K /\ \A n \in 1..K : V[n] = A[e[n]]
    <3>1. \A n \in 1..K : V[n] = A[e[n]]
      BY <1>13, <2>1
    <3>2. Len(V) = K
      BY <1>12, <2>1
    <3> QED BY <3>1, <3>2
  <2>3. ASSUME NEW n \in 2..K PROVE V[n - 1] < V[n]
    <3>1. n - 1 \in 1..K /\ n \in 1..K /\ n - 1 < n
      BY <1>12
    <3>2. e[n - 1] < e[n]
      BY <1>11, <1>12, <3>1
    <3>3. A[e[n - 1]] < A[e[n]]
      BY <1>5, <1>13, <3>1, <3>2
    <3> QED BY <2>2, <3>1, <3>3
  <2>4. Rising(V)
    BY <2>2, <2>3 DEF Rising
  <2> QED BY <1>12, <2>1, <2>4
<1>15. PICK key : key = <<symbol, axis>> /\ key \in RequiredPairs(request) /\ key[2] = axis
                  /\ Boundary(request, key) = request.tail
  <2>1. <<symbol, axis>> \in ExactPairs(request) /\ Boundary(request, <<symbol, axis>>) = request.tail
    BY PairsPrepared
  <2>2. ExactPairs(request) \subseteq RequiredPairs(request)
    BY PairsPrepared
  <2> QED BY <2>1, <2>2
<1>16. /\ request.tail \in Int /\ request.window.testEnd \in Int /\ request.window.testEnd <= request.tail
       /\ axis = BaseFrame \/ axis \in Range(ContextFrames)
  <2>1. request.tail \in Int /\ request.window.testEnd \in Int
    BY DEF Opened
  <2> QED BY <1>15, <2>1, PairsPrepared
<1>17. PICK p \in 0..M :
         /\ \A n \in 1..M : n <= p <=> L[n] < request.tail
         /\ prepared[key] = [n \in 1..p |-> [label |-> L[n], bar |-> Handed(key, L[n])]]
  <2>1. \E p \in 0..Len(RowLabels(schedule, key[2])) :
          /\ \A n \in 1..Len(RowLabels(schedule, key[2])) :
               n <= p <=> RowLabels(schedule, key[2])[n] < Boundary(request, key)
          /\ prepared[key] = [n \in 1..p |->
                                [label |-> RowLabels(schedule, key[2])[n],
                                 bar   |-> Handed(key, RowLabels(schedule, key[2])[n])]]
    BY <1>15, PreparedRows
  <2>2. L = RowLabels(schedule, key[2]) /\ M = Len(RowLabels(schedule, key[2]))
    BY <1>1, <1>2, <1>15
  <2>3. Boundary(request, key) = request.tail
    BY <1>15
  <2> QED BY <2>1, <2>2, <2>3
<1>18. ASSUME NEW k \in 1..K
       PROVE  prepared[key][O[k].ordinal].label = O[k].label /\ O[k].label \in Released(axis, O[k].at)
  <2>1. PICK n \in 1..M : n = e[k] /\ O[k].at = A[n] /\ O[k].label = L[n] /\ O[k].ordinal = n
    BY <1>13
  <2>2. PICK t \in Int : t = A[n] /\ t <= request.window.testEnd /\ R[n] <= t
    BY <1>5, <1>13, <2>1
  <2>3. L[n] < R[n] /\ L[n] \in Int /\ R[n] \in Int
    BY <1>2, <1>3
  <2>4. L[n] < request.tail
    BY <1>16, <2>2, <2>3, SMTT(30)
  <2>5. n \in 1..p
    BY <1>2, <1>17, <2>4
  <2>6. prepared[key][n].label = L[n]
    BY <1>17, <2>5
  <2>7. PICK v \in 0..M : v = VisibleRows(schedule, axis, t) /\ n <= v
    <3>1. /\ VisibleRows(schedule, axis, t) \in 0..Len(RowLabels(schedule, axis))
          /\ \A i \in 1..Len(RowLabels(schedule, axis)) :
               i <= VisibleRows(schedule, axis, t) <=> RowReleases(schedule, axis)[i] <= t
      BY <1>0, VisibleCount
    <3> QED BY <1>1, <1>2, <1>3, <2>2, <3>1
  <2>8. Released(axis, t) = {L[i] : i \in 1..v}
    BY <1>0, <1>1, <1>16, <2>7, ReleasedFirst
  <2>9. n \in 1..v
    BY <1>2, <2>7
  <2>10. L[n] \in Released(axis, t)
    BY <2>8, <2>9
  <2> QED BY <2>1, <2>2, <2>6, <2>10
<1> QED BY <1>8, <1>12, <1>14, <1>15, <1>18

-----------------------------------------------------------------------------
(* One replay. *)

\* What each door has checked still stands behind it, and the last context
\* shown is the one of the last close.
DoorsInv ==
  /\ door \in {"call", "schedule", "bars", "bar", "done", "refused"}
  /\ door \in {"schedule", "bars", "bar", "done"} =>
       /\ \E call \in Calls : request = call.request /\ schedule = call.schedule
       /\ RequestAccepted(request) /\ ClosureAccepted(request.deps)
  /\ door \in {"bars", "bar", "done"} => ScheduleAccepted(request, schedule)
  /\ door \in {"bar", "done"} =>
       /\ supply \in Supplies(LabelsOwed(request, schedule)) /\ BarsAccepted(request, schedule, supply)
       /\ prepared = [key \in RequiredPairs(request) |->
                        Placed(request, schedule, key, FrameOf(supply, key))]
       /\ read > 0 =>
            /\ read <= Len(TestIntervals(request, schedule)) /\ ContextTime(Now)
            /\ context = [symbol \in Range(request.symbols) |-> ContextOf(symbol, Now)]
  /\ door = "done" => read = Len(TestIntervals(request, schedule))
  /\ read \in Nat /\ (door \notin {"bar", "done"} => read = 0)

\* Behind the last door everything a reader relies on has been checked.
LEMMA DoorsOpened ==
  ASSUME DoorsInv, door \in {"bar", "done"}
  PROVE  Opened
<1>1. PICK call \in Calls : request = call.request /\ schedule = call.schedule
  BY DEF DoorsInv
<1>2. /\ RequestAccepted(request) /\ ClosureAccepted(request.deps) /\ ScheduleAccepted(request, schedule)
      /\ supply \in Supplies(LabelsOwed(request, schedule)) /\ BarsAccepted(request, schedule, supply)
      /\ prepared = [key \in RequiredPairs(request) |->
                       Placed(request, schedule, key, FrameOf(supply, key))]
  BY DEF DoorsInv
<1>3. CallTyped(call) /\ SessionsApart(schedule)
  BY <1>1, PreflightAssumption
<1>4. \A entry \in Range(supply) : FrameTyped(entry.frame)
  <2>1. RequestAccepted(call.request) /\ ClosureAccepted(call.request.deps)
        /\ ScheduleAccepted(call.request, call.schedule)
    BY <1>1, <1>2
  <2>2. supply \in Supplies(LabelsOwed(call.request, call.schedule))
    BY <1>1, <1>2
  <2> QED BY <2>1, <2>2, PreflightAssumption
<1>5. Accepted(schedule) /\ WindowFits(request, schedule)
  <2>1. schedule.intervals \in Seq(Interval) /\ schedule.rows \in Seq(ContextRow)
    BY <1>1, <1>3 DEF CallTyped
  <2>2. SoundClock(schedule) /\ Grouped(schedule) /\ WindowFits(request, schedule)
        /\ \A row \in Range(schedule.rows) : SoundRow(schedule, row)
    BY <1>2 DEF ScheduleAccepted
  <2> QED BY <1>3, <2>1, <2>2 DEF Accepted
<1>6. request.window.testStart \in Int /\ request.window.testEnd \in Int /\ request.tail \in Int
  BY <1>1, <1>3 DEF CallTyped
<1>7. ASSUME NEW key \in RequiredPairs(request) PROVE FrameTyped(FrameOf(supply, key))
  <2>1. \E entry \in Range(supply) : Key(entry) = key
    BY <1>2 DEF BarsAccepted
  <2>2. (CHOOSE entry \in Range(supply) : Key(entry) = key) \in Range(supply)
    BY <2>1
  <2> QED BY <1>4, <2>2 DEF FrameOf
<1> QED BY <1>2, <1>5, <1>6, <1>7 DEF Opened

\* The doors keep what they have checked.
LEMMA DoorsKeep == DoorsInv /\ [DoorsNext]_preflightVars => DoorsInv'
<1> SUFFICES ASSUME DoorsInv, [DoorsNext]_preflightVars PROVE DoorsInv'
  OBVIOUS
<1>1. ASSUME UNCHANGED preflightVars PROVE DoorsInv'
  BY <1>1 DEF DoorsInv, preflightVars, Now, ContextTime, ContextOf, FramesAt
<1>2. ASSUME TurnAway PROVE DoorsInv'
  BY <1>2 DEF TurnAway, DoorsInv
<1>3. CASE ValidateRequest
  <2>1. PICK call \in Calls :
          IF RequestAccepted(call.request) /\ ClosureAccepted(call.request.deps)
          THEN /\ door' = "schedule"
               /\ request' = call.request /\ schedule' = call.schedule
               /\ UNCHANGED <<supply, prepared, context, read>>
          ELSE TurnAway
    BY <1>3 DEF ValidateRequest
  <2>2. CASE RequestAccepted(call.request) /\ ClosureAccepted(call.request.deps)
    <3>1. door' = "schedule" /\ request' = call.request /\ schedule' = call.schedule
      BY <2>1, <2>2
    <3>2. RequestAccepted(request') /\ ClosureAccepted((request').deps)
      BY <2>2, <3>1
    <3>3. read' = 0
      BY <1>3, <2>1, <2>2 DEF ValidateRequest, DoorsInv
    <3> QED BY <3>1, <3>2, <3>3 DEF DoorsInv
  <2> QED BY <1>2, <2>1, <2>2
<1>4. CASE ValidateSchedule
  <2>1. CASE ScheduleAccepted(request, schedule)
    <3>1. door' = "bars" /\ request' = request /\ schedule' = schedule /\ door = "schedule"
      BY <1>4, <2>1 DEF ValidateSchedule
    <3>2. ScheduleAccepted(request', schedule')
      BY <2>1, <3>1
    <3>3. /\ \E call \in Calls : request' = call.request /\ schedule' = call.schedule
          /\ RequestAccepted(request') /\ ClosureAccepted((request').deps)
      BY <3>1 DEF DoorsInv
    <3>4. read' = 0
      BY <1>4, <2>1, <3>1 DEF ValidateSchedule, DoorsInv
    <3> QED BY <3>1, <3>2, <3>3, <3>4 DEF DoorsInv
  <2> QED BY <1>2, <1>4, <2>1 DEF ValidateSchedule
<1>5. CASE PrepareBars
  <2>1. PICK bars \in Supplies(LabelsOwed(request, schedule)) :
          IF BarsAccepted(request, schedule, bars)
          THEN /\ door' = "bar"
               /\ supply' = bars
               /\ prepared' = [key \in RequiredPairs(request) |->
                                 Placed(request, schedule, key, FrameOf(bars, key))]
               /\ UNCHANGED <<request, schedule, context, read>>
          ELSE TurnAway
    BY <1>5 DEF PrepareBars
  <2>2. CASE BarsAccepted(request, schedule, bars)
    <3>1. /\ door' = "bar" /\ supply' = bars /\ request' = request /\ schedule' = schedule
          /\ context' = context /\ read' = read
          /\ prepared' = [key \in RequiredPairs(request) |->
                            Placed(request, schedule, key, FrameOf(bars, key))]
      BY <2>1, <2>2
    <3>2. door = "bars"
      BY <1>5 DEF PrepareBars
    <3>3. read' = 0
      BY <3>1, <3>2 DEF DoorsInv
    <3>4. /\ \E call \in Calls : request' = call.request /\ schedule' = call.schedule
          /\ RequestAccepted(request') /\ ClosureAccepted((request').deps)
          /\ ScheduleAccepted(request', schedule')
      BY <3>1, <3>2 DEF DoorsInv
    <3>5. /\ supply' \in Supplies(LabelsOwed(request', schedule'))
          /\ BarsAccepted(request', schedule', supply')
          /\ prepared' = [key \in RequiredPairs(request') |->
                            Placed(request', schedule', key, FrameOf(supply', key))]
      BY <2>2, <3>1
    <3> QED BY <3>1, <3>3, <3>4, <3>5 DEF DoorsInv
  <2> QED BY <1>2, <2>1, <2>2
<1>6. CASE NextClose
  <2>1. PICK now : now = TestIntervals(request, schedule)[read + 1].close
    OBVIOUS
  <2>2. door = "bar" /\ read < Len(TestIntervals(request, schedule))
    BY <1>6 DEF NextClose
  <2>3. Len(TestIntervals(request, schedule)) \in Nat
    BY <2>2, DoorsOpened, LastTested
  <2>4. CASE ContextTime(now)
    <3>1. /\ read' = read + 1 /\ door' = door /\ request' = request /\ schedule' = schedule
          /\ supply' = supply /\ prepared' = prepared
          /\ context' = [symbol \in Range(request.symbols) |-> ContextOf(symbol, now)]
      BY <1>6, <2>1, <2>4 DEF NextClose
    <3>2. read' \in Nat /\ read' <= Len(TestIntervals(request', schedule'))
      BY <2>2, <2>3, <3>1 DEF DoorsInv
    <3>3. Now' = now
      BY <2>1, <3>1 DEF Now
    <3>4. ContextTime(Now)'
      BY <2>4, <3>1, <3>3 DEF ContextTime
    <3>5. \A symbol : ContextOf(symbol, Now)' = ContextOf(symbol, now)
      BY <3>1, <3>3 DEF ContextOf, FramesAt
    <3>6. context' = [symbol \in Range((request').symbols) |-> ContextOf(symbol, Now)']
      BY <3>1, <3>5
    <3> QED BY <2>2, <3>1, <3>2, <3>4, <3>6 DEF DoorsInv
  <2> QED BY <1>2, <1>6, <2>1, <2>4 DEF NextClose
<1>7. CASE Finish
  <2>1. door = "bar" /\ door' = "done" /\ read = Len(TestIntervals(request, schedule))
        /\ UNCHANGED <<request, schedule, supply, prepared, context, read>>
    BY <1>7 DEF Finish
  <2> QED BY <2>1 DEF DoorsInv, Now, ContextTime, ContextOf, FramesAt
<1>8. CASE ReplayEnded
  BY <1>1, <1>8 DEF ReplayEnded
<1> QED BY <1>1, <1>3, <1>4, <1>5, <1>6, <1>7, <1>8 DEF DoorsNext

\* A replay begins with nothing checked.
LEMMA DoorsStart == DoorsInit => DoorsInv
<1> SUFFICES ASSUME DoorsInit PROVE DoorsInv
  OBVIOUS
<1>1. door = "call" /\ read = 0
  BY DEF DoorsInit
<1> QED BY <1>1 DEF DoorsInv

\* What was shown last was what the schedule had released.
LEMMA ShownAsReleased == DoorsInv => ReadsAreScheduled
<1> SUFFICES ASSUME DoorsInv, door \in {"bar", "done"}, read > 0, NEW symbol \in Range(request.symbols)
             PROVE  /\ \A key \in PairsRead(request, symbol) :
                         ReadAsScheduled(key, context[symbol].frames[key], Now)
                    /\ \A tf \in request.deps.timeframes \ {BaseFrame} : GateIsNamed(symbol, tf, Now)
                    /\ door = "done" => CausalFrames(symbol) = context[symbol].frames
                    /\ door = "done" => \A axis \in request.deps.timeframes :
                         LET asked == Observations(axis)
                             whole == prepared[<<symbol, axis>>]
                         IN  /\ Rising([n \in DOMAIN asked |-> asked[n].at])
                             /\ \A n \in DOMAIN asked :
                                  /\ whole[asked[n].ordinal].label = asked[n].label
                                  /\ asked[n].label \in Released(axis, asked[n].at)
  BY DEF ReadsAreScheduled
<1>1. Opened
  BY DoorsOpened
<1>2. PICK t : t = Now
  OBVIOUS
<1>3. /\ read \in Nat /\ read <= Len(TestIntervals(request, schedule)) /\ ContextTime(t)
      /\ context[symbol] = ContextOf(symbol, t)
  BY <1>2 DEF DoorsInv
<1>4. PICK c \in 1..Len(schedule.intervals) : t = schedule.intervals[c].close
  <2>1. Len(TestIntervals(request, schedule)) \in Nat
    BY <1>1, LastTested
  <2>2. read \in 1..Len(TestIntervals(request, schedule))
    BY <1>3, <2>1
  <2>3. t = TestIntervals(request, schedule)[read].close
    BY <1>2 DEF Now
  <2> QED BY <1>1, <2>2, <2>3, LastTested
<1>5. t \in Int /\ t <= request.window.testEnd
  <2>1. t \in Int
    BY <1>1, <1>4, Clock DEF Opened
  <2> QED BY <1>3, <2>1 DEF ContextTime
<1>6. ASSUME NEW key \in PairsRead(request, symbol)
      PROVE  context[symbol].frames[key] = Cut(prepared[key], VisibleRows(schedule, key[2], t))
  BY <1>3, <1>6 DEF ContextOf, FramesAt
<1>7. ASSUME NEW key \in PairsRead(request, symbol)
      PROVE  ReadAsScheduled(key, context[symbol].frames[key], t)
  <2>1. key \in RequiredPairs(request)
    BY <1>1, PairsPrepared
  <2>2. ReadAsScheduled(key, Cut(prepared[key], VisibleRows(schedule, key[2], t)), t)
    BY <1>1, <1>4, <1>5, <2>1, ReadThere
  <2> QED BY <1>6, <2>2
<1>8. ASSUME NEW tf \in request.deps.timeframes \ {BaseFrame} PROVE GateIsNamed(symbol, tf, t)
  <2>1. PICK frame : frame = Cut(prepared[<<symbol, tf>>], VisibleRows(schedule, tf, t))
    OBVIOUS
  <2>2. /\ Fresh(schedule, tf, t) <=>
              {row \in Range(schedule.rows) : row.timeframe = tf /\ row.fresh = t} # {}
        /\ \A row \in Range(schedule.rows) : row.timeframe = tf /\ row.fresh = t =>
              frame[Len(frame)].label = row.label /\ frame[Len(frame)].bar # None
    BY <1>1, <1>5, <2>1, GateThere
  <2>3. context[symbol].fresh[tf] = Fresh(schedule, tf, t)
    BY <1>3 DEF ContextOf
  <2>4. context[symbol].frames[<<symbol, tf>>] = frame
    <3>1. <<symbol, tf>> \in PairsRead(request, symbol)
      BY <1>1, PairsPrepared
    <3>2. PICK key : key = <<symbol, tf>>
      OBVIOUS
    <3>4. key[2] = tf
      BY <3>2
    <3>3. context[symbol].frames[key] = Cut(prepared[key], VisibleRows(schedule, key[2], t))
      BY <1>6, <3>1, <3>2
    <3> QED BY <2>1, <3>2, <3>3, <3>4
  <2> QED BY <2>2, <2>3, <2>4 DEF GateIsNamed
<1>9. ASSUME door = "done" PROVE CausalFrames(symbol) = context[symbol].frames
  <2>1. read = Len(TestIntervals(request, schedule))
    BY <1>9 DEF DoorsInv
  <2>2. t = request.window.testEnd
    BY <1>1, <1>2, <2>1, LastTested DEF Now
  <2> QED BY <1>3, <2>2 DEF CausalFrames, ContextOf
<1>10. ASSUME NEW axis \in request.deps.timeframes
       PROVE  LET asked == Observations(axis)
                  whole == prepared[<<symbol, axis>>]
              IN  /\ Rising([n \in DOMAIN asked |-> asked[n].at])
                  /\ \A n \in DOMAIN asked :
                       /\ whole[asked[n].ordinal].label = asked[n].label
                       /\ asked[n].label \in Released(axis, asked[n].at)
  BY <1>1, ObservedThere
<1> QED BY <1>2, <1>7, <1>8, <1>9, <1>10

\* A position counted in the schedule finds its row in every prepared frame:
\* at every close of the test range a strategy reads exactly the rows the
\* schedule has released, with none of their intervals still open, may decide
\* where the schedule says, and the graded factor is asked about rows its own
\* frame carries (validate_schedule, prepare_portfolio_bars,
\* build_scheduled_context, _observations).
THEOREM ReadsScheduled == DoorsSpec => []ReadsAreScheduled
<1>1. DoorsInit => DoorsInv
  BY DoorsStart
<1>2. DoorsInv /\ [DoorsNext]_preflightVars => DoorsInv'
  BY DoorsKeep
<1>3. DoorsInv => ReadsAreScheduled
  BY ShownAsReleased
<1> QED BY <1>1, <1>2, <1>3, PTL DEF DoorsSpec

-----------------------------------------------------------------------------
(* The lens. *)

\* The fractions a lens ranks: their denominators are positive.
Ratios == Int \X (Nat \ {0})

\* A return is such a fraction, whatever the sign of the price it starts from.
LEMMA RatioTyped ==
  ASSUME NEW ahead \in Int, NEW base \in Int, base # 0
  PROVE  Ratio(ahead, base) \in Ratios
<1>1. -ahead \in Int /\ (base < 0 => -base \in Nat \ {0}) /\ (~ base < 0 => base \in Nat \ {0})
  OBVIOUS
<1> QED BY <1>1 DEF Ratio, Ratios

\* Two fractions are either the same or one is below the other.
LEMMA OneOfThree ==
  ASSUME NEW a \in Ratios, NEW b \in Ratios
  PROVE  /\ Below(a, b) \/ Same(a, b) \/ Below(b, a)
         /\ ~ (Below(a, b) /\ Same(a, b)) /\ ~ (Below(a, b) /\ Below(b, a))
         /\ Same(a, b) <=> Same(b, a)
         /\ Same(a, a) /\ ~ Below(a, a)
<1>1. a[1] * b[2] \in Int /\ b[1] * a[2] \in Int /\ a[1] * a[2] \in Int
  BY DEF Ratios
<1> QED BY <1>1 DEF Below, Same

\* Comparing fractions is transitive, and strict where either comparison is.
LEMMA NotAbove ==
  ASSUME NEW a \in Ratios, NEW b \in Ratios, NEW c \in Ratios,
         Below(a, b) \/ Same(a, b), Below(b, c) \/ Same(b, c)
  PROVE  /\ Below(a, c) \/ Same(a, c)
         /\ Below(a, b) \/ Below(b, c) => Below(a, c)
         /\ Same(a, b) /\ Same(b, c) => Same(a, c)
<1>1. PICK p \in Int, q \in Nat \ {0} : a = <<p, q>>
  BY DEF Ratios
<1>2. PICK r \in Int, s \in Nat \ {0} : b = <<r, s>>
  BY DEF Ratios
<1>3. PICK t \in Int, u \in Nat \ {0} : c = <<t, u>>
  BY DEF Ratios
<1>4. /\ Below(a, b) <=> p * s < r * q
      /\ Same(a, b) <=> p * s = r * q
      /\ Below(b, c) <=> r * u < t * s
      /\ Same(b, c) <=> r * u = t * s
      /\ Below(a, c) <=> p * u < t * q
      /\ Same(a, c) <=> p * u = t * q
  BY <1>1, <1>2, <1>3 DEF Below, Same
<1>5. /\ p * s \in Int /\ r * q \in Int /\ r * u \in Int /\ t * s \in Int /\ p * u \in Int /\ t * q \in Int
  OBVIOUS
<1>6. /\ p * s < r * q <=> (p * s) * u < (r * q) * u
      /\ p * s = r * q <=> (p * s) * u = (r * q) * u
  BY <1>5, ProductGrows
<1>7. /\ r * u < t * s <=> (r * u) * q < (t * s) * q
      /\ r * u = t * s <=> (r * u) * q = (t * s) * q
  BY <1>5, ProductGrows
<1>8. /\ p * u < t * q <=> (p * u) * s < (t * q) * s
      /\ p * u = t * q <=> (p * u) * s = (t * q) * s
  BY <1>5, ProductGrows
<1>9. (p * s) * u = (p * u) * s /\ (r * q) * u = (r * u) * q /\ (t * s) * q = (t * q) * s
  OBVIOUS
<1>10. PICK A \in Int, B \in Int, C \in Int : A = (p * u) * s /\ B = (r * u) * q /\ C = (t * q) * s
  BY <1>5
<1>11. /\ Below(a, b) <=> A < B
       /\ Same(a, b) <=> A = B
       /\ Below(b, c) <=> B < C
       /\ Same(b, c) <=> B = C
       /\ Below(a, c) <=> A < C
       /\ Same(a, c) <=> A = C
  BY <1>4, <1>6, <1>7, <1>8, <1>9, <1>10
<1> QED BY <1>11

\* A list's positions are totally ordered by value, then by position.
LEMMA PrecedesOrders ==
  ASSUME NEW N \in Nat, NEW v \in [1..N -> Ratios]
  PROVE  /\ \A a \in 1..N : ~ Precedes(v, a, a)
         /\ \A a, b \in 1..N : a # b => Precedes(v, a, b) \/ Precedes(v, b, a)
         /\ \A a, b, c \in 1..N : Precedes(v, a, b) /\ Precedes(v, b, c) => Precedes(v, a, c)
<1>1. \A a \in 1..N : ~ Precedes(v, a, a)
  BY OneOfThree DEF Precedes
<1>2. ASSUME NEW a \in 1..N, NEW b \in 1..N, a # b PROVE Precedes(v, a, b) \/ Precedes(v, b, a)
  <2>1. a < b \/ b < a
    BY <1>2
  <2> QED BY <2>1, OneOfThree DEF Precedes
<1>3. ASSUME NEW a \in 1..N, NEW b \in 1..N, NEW c \in 1..N, Precedes(v, a, b), Precedes(v, b, c)
      PROVE  Precedes(v, a, c)
  <2>1. v[a] \in Ratios /\ v[b] \in Ratios /\ v[c] \in Ratios
    OBVIOUS
  <2>2. /\ Below(v[a], v[b]) \/ Same(v[a], v[b])
        /\ Below(v[b], v[c]) \/ Same(v[b], v[c])
    BY <1>3 DEF Precedes
  <2>3. /\ Below(v[a], v[b]) \/ Below(v[b], v[c]) => Below(v[a], v[c])
        /\ Same(v[a], v[b]) /\ Same(v[b], v[c]) => Same(v[a], v[c])
    BY <2>1, <2>2, NotAbove
  <2>4. CASE Below(v[a], v[b]) \/ Below(v[b], v[c])
    BY <2>3, <2>4 DEF Precedes
  <2>5. CASE ~ Below(v[a], v[b]) /\ ~ Below(v[b], v[c])
    <3>1. a < b /\ b < c /\ Same(v[a], v[b]) /\ Same(v[b], v[c])
      BY <1>3, <2>5 DEF Precedes
    <3>2. a < c
      BY <3>1
    <3> QED BY <2>3, <3>1, <3>2 DEF Precedes
  <2> QED BY <2>4, <2>5
<1> QED BY <1>1, <1>2, <1>3

\* What a value beats, equals and is beaten by.
Beaten(v, p) == {q \in DOMAIN v : Below(v[q], v[p])}
Equal(v, p) == {q \in DOMAIN v : Same(v[q], v[p])}
Beating(v, p) == {q \in DOMAIN v : Below(v[p], v[q])}

\* A standing is a difference of two counts.
LEMMA StandingCounts ==
  ASSUME NEW D, IsFiniteSet(D), NEW v \in [D -> Ratios], NEW p \in D
  PROVE  /\ Cardinality(Beaten(v, p)) \in Nat /\ Cardinality(Beating(v, p)) \in Nat
         /\ Standing(v, p) = Cardinality(Beaten(v, p)) - Cardinality(Beating(v, p))
<1> DEFINE up == [q \in D |-> IF Below(v[q], v[p]) THEN 1 ELSE 0]
           down == [q \in D |-> IF Below(v[p], v[q]) THEN 1 ELSE 0]
           sign == [q \in D |-> Sign(v[p], v[q])]
<1>1. up \in [D -> Int] /\ down \in [D -> Int]
  OBVIOUS
<1>2. sign \in [D -> Int]
  BY DEF Sign
<1>3. \A q \in D : sign[q] = up[q] - down[q]
  <2> SUFFICES ASSUME NEW q \in D PROVE sign[q] = up[q] - down[q]
    OBVIOUS
  <2>1. ~ (Below(v[q], v[p]) /\ Below(v[p], v[q]))
    BY OneOfThree
  <2> QED BY <2>1 DEF Sign
<1>4. Beaten(v, p) \in SUBSET D /\ Beating(v, p) \in SUBSET D
  BY DEF Beaten, Beating
<1>5. /\ \A q \in Beaten(v, p) : up[q] = 1
      /\ \A q \in D \ Beaten(v, p) : up[q] = 0
  BY DEF Beaten
<1>6. /\ \A q \in Beating(v, p) : down[q] = 1
      /\ \A q \in D \ Beating(v, p) : down[q] = 0
  BY DEF Beating
<1>7. Standing(v, p) = SumFunction(sign)
  BY DEF Standing
<1> HIDE DEF up, down, sign
<1>8. SumFunction(up) = Cardinality(Beaten(v, p)) /\ Cardinality(Beaten(v, p)) \in Nat
  BY <1>1, <1>4, <1>5, CountWhere
<1>9. SumFunction(down) = Cardinality(Beating(v, p)) /\ Cardinality(Beating(v, p)) \in Nat
  BY <1>1, <1>4, <1>6, CountWhere
<1>10. SumFunction(sign) = SumFunction(up) - SumFunction(down)
  BY <1>1, <1>2, <1>3, FunSumMinus
<1> QED BY <1>7, <1>8, <1>9, <1>10

\* For every value that beats another there is one that is beaten.
LEMMA StandingsCancel ==
  ASSUME NEW D, IsFiniteSet(D), NEW v \in [D -> Ratios],
         NEW st \in [D -> Int], \A p \in D : st[p] = Standing(v, p)
  PROVE  SumFunction(st) = 0
<1> DEFINE P == {x \in D \X D : Below(v[x[2]], v[x[1]])}
           winner == [x \in P |-> x[1]]
           loser == [x \in P |-> x[2]]
           up == [p \in D |-> Cardinality(Beaten(v, p))]
           down == [p \in D |-> Cardinality(Beating(v, p))]
<1>1. IsFiniteSet(P)
  <2>1. IsFiniteSet(D \X D)
    BY FS_Product
  <2>2. P \subseteq D \X D
    OBVIOUS
  <2> HIDE DEF P
  <2> QED BY <2>1, <2>2, FS_Subset
<1>2. up \in [D -> Int] /\ down \in [D -> Int]
  BY StandingCounts
<1>3. ASSUME NEW p \in D PROVE up[p] = Cardinality({x \in P : winner[x] = p})
  <2> DEFINE e == [q \in Beaten(v, p) |-> <<p, q>>]
  <2>1. Beaten(v, p) \subseteq D
    BY DEF Beaten
  <2>2. IsFiniteSet(Beaten(v, p))
    BY <2>1, FS_Subset
  <2>3. \A s, t \in Beaten(v, p) : e[s] = e[t] => s = t
    OBVIOUS
  <2>4. {e[q] : q \in Beaten(v, p)} = {x \in P : winner[x] = p}
    BY <2>1 DEF Beaten
  <2>5. Cardinality({e[q] : q \in Beaten(v, p)}) = Cardinality(Beaten(v, p))
    <3> HIDE DEF e
    <3> QED BY <2>2, <2>3, CountImage
  <2>6. up[p] = Cardinality(Beaten(v, p))
    OBVIOUS
  <2> HIDE DEF e, P, winner, up
  <2> QED BY <2>4, <2>5, <2>6
<1>4. ASSUME NEW p \in D PROVE down[p] = Cardinality({x \in P : loser[x] = p})
  <2> DEFINE e == [q \in Beating(v, p) |-> <<q, p>>]
  <2>1. Beating(v, p) \subseteq D
    BY DEF Beating
  <2>2. IsFiniteSet(Beating(v, p))
    BY <2>1, FS_Subset
  <2>3. \A s, t \in Beating(v, p) : e[s] = e[t] => s = t
    OBVIOUS
  <2>4. {e[q] : q \in Beating(v, p)} = {x \in P : loser[x] = p}
    BY <2>1 DEF Beating
  <2>5. Cardinality({e[q] : q \in Beating(v, p)}) = Cardinality(Beating(v, p))
    <3> HIDE DEF e
    <3> QED BY <2>2, <2>3, CountImage
  <2>6. down[p] = Cardinality(Beating(v, p))
    OBVIOUS
  <2> HIDE DEF e, P, loser, down
  <2> QED BY <2>4, <2>5, <2>6
<1>5. (\A x \in P : winner[x] \in D) /\ (\A x \in P : loser[x] \in D)
  OBVIOUS
<1>6. \A p \in D : st[p] = up[p] - down[p]
  <2>1. \A p \in D : Standing(v, p) = Cardinality(Beaten(v, p)) - Cardinality(Beating(v, p))
    BY StandingCounts
  <2> QED BY <2>1
<1> HIDE DEF P, winner, loser, up, down
<1>7. SumFunction(up) = Cardinality(P)
  BY <1>1, <1>2, <1>3, <1>5, CountByPart
<1>8. SumFunction(down) = Cardinality(P)
  BY <1>1, <1>2, <1>4, <1>5, CountByPart
<1>9. SumFunction(st) = SumFunction(up) - SumFunction(down)
  BY <1>2, <1>6, FunSumMinus
<1>10. Cardinality(P) \in Nat
  BY <1>1, FS_CardinalityType
<1> QED BY <1>7, <1>8, <1>9, <1>10

\* Ranks are counted from one; a run of equal values spans its count, and
\* twice its average is what a value beats less what beats it, above the mean.
LEMMA RankAverages ==
  ASSUME NEW N \in Nat, NEW v \in [1..N -> Ratios], NEW p \in 1..N
  PROVE  AverageRanks(v)[p] = N + 1 + Standing(v, p)
<1> DEFINE D == 1..N
           R == {x \in D \X D : Precedes(v, x[1], x[2])}
           ahead(n) == {m \in D : Precedes(v, m, n)}
           rank == [n \in D |-> Cardinality(ahead(n))]
           order == Ascending(v)
           B == Cardinality(Beaten(v, p))
           E == Cardinality(Equal(v, p))
           A == Cardinality(Beating(v, p))
           run == {n \in DOMAIN order : Same(v[order[n]], v[p])}
<1>1. DOMAIN v = D /\ IsFiniteSet(D) /\ Cardinality(D) = N
  BY FS_Interval, 1 \in Int
<1>2. /\ \A n \in D : rank[n] \in 0..(N - 1)
      /\ \A m, n \in D : rank[m] = rank[n] => m = n
      /\ \A k \in 0..(N - 1) : \E n \in D : rank[n] = k
  <2>1. \A m, n \in D : <<m, n>> \in R <=> Precedes(v, m, n)
    OBVIOUS
  <2>2. TotallyOrders(R, D)
    <3> HIDE DEF R
    <3> QED BY <2>1, PrecedesOrders DEF TotallyOrders
  <2>3. CountsBefore(rank, R, D)
    <3>1. \A n \in D : {m \in D : <<m, n>> \in R} = ahead(n)
      <4> HIDE DEF R
      <4> QED BY <2>1
    <3>2. \A n \in D : rank[n] = Cardinality(ahead(n))
      OBVIOUS
    <3>3. ASSUME NEW n \in D PROVE rank[n] = Cardinality({m \in D : <<m, n>> \in R})
      <4>1. {m \in D : <<m, n>> \in R} = ahead(n) /\ rank[n] = Cardinality(ahead(n))
        BY <3>1, <3>2
      <4> HIDE DEF R, ahead
      <4> QED BY <4>1
    <3>4. DOMAIN rank = D
      OBVIOUS
    <3> HIDE DEF R, rank, D
    <3> QED BY <3>3, <3>4 DEF CountsBefore
  <2> HIDE DEF R, rank, D
  <2> QED BY <1>1, <2>2, <2>3, OrderOnto
<1>3. DOMAIN order = D /\ \A k \in D : order[k] \in D /\ rank[order[k]] = k - 1
  <2>1. order = [k \in D |-> CHOOSE n \in D : Cardinality(ahead(n)) = k - 1]
    BY <1>1 DEF Ascending
  <2>2. ASSUME NEW k \in D PROVE order[k] \in D /\ rank[order[k]] = k - 1
    <3>1. k - 1 \in 0..(N - 1)
      OBVIOUS
    <3>2. \E n \in D : rank[n] = k - 1
      <4> HIDE DEF rank, D
      <4> QED BY <1>2, <3>1
    <3>3. \E n \in D : Cardinality(ahead(n)) = k - 1
      BY <3>2
    <3>4. order[k] = CHOOSE n \in D : Cardinality(ahead(n)) = k - 1
      BY <2>1
    <3>5. order[k] \in D /\ Cardinality(ahead(order[k])) = k - 1
      <4> HIDE DEF ahead, D, order
      <4> QED BY <3>3, <3>4
    <3> QED BY <3>5
  <2>3. DOMAIN order = D
    <3> HIDE DEF order, D
    <3> QED BY <2>1
  <2> QED BY <2>2, <2>3
<1>4. \A n \in D : rank[n] + 1 \in D /\ order[rank[n] + 1] = n
  <2> SUFFICES ASSUME NEW n \in D PROVE rank[n] + 1 \in D /\ order[rank[n] + 1] = n
    OBVIOUS
  <2>1. PICK k : k = rank[n]
    OBVIOUS
  <2>2. k \in 0..(N - 1)
    <3> HIDE DEF rank, D
    <3> QED BY <1>2, <2>1
  <2>3. k + 1 \in D /\ (k + 1) - 1 = k
    BY <2>2
  <2>4. order[k + 1] \in D /\ rank[order[k + 1]] = rank[n]
    <3> HIDE DEF rank, order, D
    <3> QED BY <1>3, <2>1, <2>3
  <2> HIDE DEF rank, order, D
  <2> QED BY <1>2, <2>1, <2>3, <2>4
<1>5. /\ Beaten(v, p) \subseteq D /\ Equal(v, p) \subseteq D /\ Beating(v, p) \subseteq D /\ p \in Equal(v, p)
      /\ Equal(v, p) \subseteq Nat
  BY <1>1, OneOfThree DEF Beaten, Equal, Beating
<1>6. /\ IsFiniteSet(Beaten(v, p)) /\ IsFiniteSet(Equal(v, p)) /\ IsFiniteSet(Beating(v, p))
      /\ B \in Nat /\ E \in Nat /\ A \in Nat
  BY <1>1, <1>5, FS_Subset, FS_CardinalityType
<1>7. \A q \in Equal(v, p) : ahead(q) = Beaten(v, p) \cup {m \in Equal(v, p) : m < q}
  <2> SUFFICES ASSUME NEW q \in Equal(v, p)
               PROVE  ahead(q) = Beaten(v, p) \cup {m \in Equal(v, p) : m < q}
    OBVIOUS
  <2>1. q \in D /\ Same(v[q], v[p]) /\ Same(v[p], v[q])
    BY <1>1, OneOfThree DEF Equal
  <2>2. ASSUME NEW m \in D
        PROVE  /\ Below(v[m], v[q]) <=> Below(v[m], v[p])
               /\ Same(v[m], v[q]) <=> Same(v[m], v[p])
    <3>1. v[m] \in Ratios /\ v[q] \in Ratios /\ v[p] \in Ratios
      BY <2>1
    <3>2. Below(v[m], v[q]) => Below(v[m], v[p])
      BY <2>1, <3>1, NotAbove
    <3>3. Below(v[m], v[p]) => Below(v[m], v[q])
      BY <2>1, <3>1, NotAbove
    <3>4. Same(v[m], v[q]) => Same(v[m], v[p])
      BY <2>1, <3>1, NotAbove
    <3>5. Same(v[m], v[p]) => Same(v[m], v[q])
      BY <2>1, <3>1, NotAbove
    <3> QED BY <3>2, <3>3, <3>4, <3>5
  <2>3. \A m \in D : Precedes(v, m, q) <=> Below(v[m], v[p]) \/ (Same(v[m], v[p]) /\ m < q)
    BY <2>2 DEF Precedes
  <2> QED BY <1>1, <2>3 DEF Beaten, Equal
<1>8. \A q \in Equal(v, p) : /\ rank[q] = B + Cardinality({m \in Equal(v, p) : m < q})
                             /\ Cardinality({m \in Equal(v, p) : m < q}) \in 0..(E - 1)
  <2> SUFFICES ASSUME NEW q \in Equal(v, p)
               PROVE  /\ rank[q] = B + Cardinality({m \in Equal(v, p) : m < q})
                      /\ Cardinality({m \in Equal(v, p) : m < q}) \in 0..(E - 1)
    OBVIOUS
  <2> DEFINE less == {m \in Equal(v, p) : m < q}
  <2>1. less \subseteq Equal(v, p) \ {q} /\ q \in Nat
    BY <1>5
  <2>2. IsFiniteSet(Equal(v, p) \ {q}) /\ Cardinality(Equal(v, p) \ {q}) = E - 1
    BY <1>6, FS_RemoveElement
  <2>3. IsFiniteSet(less) /\ Cardinality(less) <= E - 1 /\ Cardinality(less) \in Nat
    <3> HIDE DEF less
    <3> QED BY <2>1, <2>2, FS_Subset, FS_CardinalityType
  <2>4. Beaten(v, p) \cap less = {}
    BY <1>1, OneOfThree DEF Beaten, Equal
  <2>5. Cardinality(Beaten(v, p) \cup less) = B + Cardinality(less) - Cardinality({})
    <3> HIDE DEF less
    <3> QED BY <1>6, <2>3, <2>4, FS_Union
  <2>6. Cardinality({}) = 0
    BY FS_EmptySet
  <2>7. rank[q] = Cardinality(Beaten(v, p) \cup less)
    BY <1>5, <1>7
  <2>8. rank[q] = B + Cardinality(less) /\ Cardinality(less) \in 0..(E - 1)
    <3> HIDE DEF less, B, E, rank
    <3> QED BY <1>6, <2>3, <2>5, <2>6, <2>7
  <2> QED BY <2>8
<1>9. run = {rank[q] + 1 : q \in Equal(v, p)}
  <2>1. ASSUME NEW n \in run PROVE n \in {rank[q] + 1 : q \in Equal(v, p)}
    <3>1. n \in D /\ order[n] \in D /\ rank[order[n]] = n - 1 /\ Same(v[order[n]], v[p])
      <4> HIDE DEF order, rank
      <4> QED BY <1>3
    <3>2. order[n] \in Equal(v, p)
      BY <1>1, <3>1 DEF Equal
    <3>3. n = rank[order[n]] + 1
      <4> HIDE DEF order, rank
      <4> QED BY <3>1
    <3> HIDE DEF order, rank
    <3> QED BY <3>2, <3>3
  <2>2. ASSUME NEW q \in Equal(v, p) PROVE rank[q] + 1 \in run
    <3>1. q \in D /\ Same(v[q], v[p])
      BY <1>1 DEF Equal
    <3> HIDE DEF order, rank
    <3> QED BY <1>3, <1>4, <3>1
  <2> HIDE DEF run, rank
  <2> QED BY <2>1, <2>2
<1>10. \A n \in run : n \in Nat /\ B + 1 <= n /\ n <= B + E
  <2> SUFFICES ASSUME NEW q \in Equal(v, p)
               PROVE  rank[q] + 1 \in Nat /\ B + 1 <= rank[q] + 1 /\ rank[q] + 1 <= B + E
    BY <1>9
  <2>1. PICK c \in 0..(E - 1) : rank[q] = B + c
    BY <1>8
  <2> HIDE DEF rank, B, E
  <2> QED BY <1>6, <2>1
<1>11. B + 1 \in run
  <2>1. Min(Equal(v, p)) \in Equal(v, p) /\ \A q \in Equal(v, p) : Min(Equal(v, p)) <= q
    BY <1>5, <1>6, NatMin
  <2>2. {m \in Equal(v, p) : m < Min(Equal(v, p))} = {}
    BY <1>5, <2>1
  <2>3. rank[Min(Equal(v, p))] = B + 0
    <3> HIDE DEF rank, B, E
    <3> QED BY <1>8, <2>1, <2>2, FS_EmptySet
  <2>4. rank[Min(Equal(v, p))] + 1 = B + 1
    <3> HIDE DEF rank, B
    <3> QED BY <1>6, <2>3
  <2> HIDE DEF rank, B, run
  <2> QED BY <1>9, <2>1, <2>4
<1>12. B + E \in run
  <2>1. Max(Equal(v, p)) \in Equal(v, p) /\ \A q \in Equal(v, p) : q <= Max(Equal(v, p))
    BY <1>5, <1>6, IntMax
  <2>2. {m \in Equal(v, p) : m < Max(Equal(v, p))} = Equal(v, p) \ {Max(Equal(v, p))}
    BY <1>5, <2>1
  <2>3. Cardinality(Equal(v, p) \ {Max(Equal(v, p))}) = E - 1
    BY <1>6, <2>1, FS_RemoveElement
  <2>4. rank[Max(Equal(v, p))] = B + (E - 1)
    <3> HIDE DEF rank, B, E
    <3> QED BY <1>8, <2>1, <2>2, <2>3
  <2>5. rank[Max(Equal(v, p))] + 1 = B + E
    <3> HIDE DEF rank, B, E
    <3> QED BY <1>6, <2>4
  <2> HIDE DEF rank, B, E, run
  <2> QED BY <1>9, <2>1, <2>5
<1>13. Min(run) = B + 1 /\ Max(run) = B + E
  <2>1. IsFiniteSet(run) /\ run \subseteq Nat
    <3>1. run \subseteq D /\ D \subseteq Nat
      <4> HIDE DEF order
      <4> QED BY <1>3
    <3> HIDE DEF run, D
    <3> QED BY <1>1, <3>1, FS_Subset
  <2> HIDE DEF run, B, E
  <2>2. Min(run) \in run /\ \A n \in run : Min(run) <= n
    BY <1>11, <2>1, NatMin
  <2>3. Max(run) \in run /\ \A n \in run : n <= Max(run)
    <3>1. run # {} /\ \A n \in run : n \in Int
      BY <1>11, <2>1
    <3> QED BY <2>1, <3>1, IntMax
  <2>4. Min(run) \in Nat /\ Max(run) \in Nat
    BY <2>1, <2>2, <2>3
  <2>5. B + 1 <= Min(run) /\ Min(run) <= B + 1
    BY <1>10, <1>11, <2>2
  <2>6. Max(run) <= B + E /\ B + E <= Max(run)
    BY <1>10, <1>12, <2>3
  <2> QED BY <1>6, <2>4, <2>5, <2>6
<1>14. N = B + E + A
  <2>1. D = (Beaten(v, p) \cup Equal(v, p)) \cup Beating(v, p)
    BY <1>1, OneOfThree DEF Beaten, Equal, Beating
  <2>2. Beaten(v, p) \cap Equal(v, p) = {} /\ (Beaten(v, p) \cup Equal(v, p)) \cap Beating(v, p) = {}
    BY <1>1, OneOfThree DEF Beaten, Equal, Beating
  <2>3. /\ IsFiniteSet(Beaten(v, p) \cup Equal(v, p))
        /\ Cardinality(Beaten(v, p) \cup Equal(v, p)) = B + E - Cardinality(Beaten(v, p) \cap Equal(v, p))
    BY <1>6, FS_Union
  <2>4. Cardinality((Beaten(v, p) \cup Equal(v, p)) \cup Beating(v, p))
          = Cardinality(Beaten(v, p) \cup Equal(v, p)) + A
              - Cardinality((Beaten(v, p) \cup Equal(v, p)) \cap Beating(v, p))
    BY <1>6, <2>3, FS_Union
  <2>5. Cardinality({}) = 0
    BY FS_EmptySet
  <2> HIDE DEF B, E, A, D
  <2>6. /\ Cardinality(Beaten(v, p) \cap Equal(v, p)) = 0
        /\ Cardinality((Beaten(v, p) \cup Equal(v, p)) \cap Beating(v, p)) = 0
    BY <2>2, <2>5, Zenon
  <2>7. Cardinality(D) = (B + E) + A
    BY <1>6, <2>1, <2>3, <2>4, <2>6
  <2> QED BY <1>1, <2>7
<1>15. AverageRanks(v)[p] = Min(run) + Max(run)
  BY <1>1 DEF AverageRanks
<1>16. Standing(v, p) = B - A
  BY <1>1, StandingCounts
<1> HIDE DEF run, B, E, A
<1> QED BY <1>6, <1>13, <1>14, <1>15, <1>16

\* A list's sums: standings are integers, and so are agreements.
LEMMA StandingTyped ==
  ASSUME NEW D, IsFiniteSet(D), NEW v \in [D -> Ratios]
  PROVE  \A p \in D : Standing(v, p) \in Int
<1>1. ASSUME NEW p \in D PROVE Standing(v, p) \in Int
  <2>1. /\ Cardinality(Beaten(v, p)) \in Nat /\ Cardinality(Beating(v, p)) \in Nat
        /\ Standing(v, p) = Cardinality(Beaten(v, p)) - Cardinality(Beating(v, p))
    BY StandingCounts
  <2> QED BY <2>1
<1> QED BY <1>1

LEMMA AgreementTyped ==
  ASSUME NEW D, IsFiniteSet(D), NEW a \in [D -> Ratios], NEW b \in [D -> Ratios]
  PROVE  Agreement(a, b) \in Int
<1> DEFINE terms == [p \in D |-> Standing(a, p) * Standing(b, p)]
<1>1. \A p \in D : Standing(a, p) \in Int /\ Standing(b, p) \in Int
  BY StandingTyped
<1>2. terms \in [D -> Int]
  BY <1>1
<1>3. Agreement(a, b) = SumFunction(terms)
  BY DEF Agreement
<1> HIDE DEF terms
<1> QED BY <1>2, <1>3, FunSumInt

\* A list agrees with itself by a sum of squares: nothing, only where nothing
\* beats anything.
LEMMA NoAgreement ==
  ASSUME NEW D, IsFiniteSet(D), NEW v \in [D -> Ratios]
  PROVE  Agreement(v, v) = 0 <=> \A p \in D : Standing(v, p) = 0
<1> DEFINE squares == [p \in D |-> Standing(v, p) * Standing(v, p)]
<1>1. \A p \in D : Standing(v, p) \in Int
  BY StandingTyped
<1>2. \A x \in Int : x * x \in Nat /\ (x * x = 0 <=> x = 0)
  <2> SUFFICES ASSUME NEW x \in Int PROVE x * x \in Nat /\ (x * x = 0 <=> x = 0)
    OBVIOUS
  <2>1. CASE x = 0
    BY <2>1
  <2>2. CASE x > 0
    BY <2>2
  <2>3. CASE x < 0
    <3>1. x * x > 0 /\ x * x \in Int
      BY <2>3
    <3> QED BY <2>3, <3>1
  <2> QED BY <2>1, <2>2, <2>3
<1>3. \A p \in D : squares[p] = Standing(v, p) * Standing(v, p)
  OBVIOUS
<1>4. \A p \in D : squares[p] \in Nat /\ (squares[p] = 0 <=> Standing(v, p) = 0)
  BY <1>1, <1>2, <1>3
<1>5. squares \in [D -> Nat] /\ squares \in [D -> Int]
  BY <1>4, Nat \subseteq Int
<1>6. Agreement(v, v) = SumFunction(squares)
  BY DEF Agreement
<1> HIDE DEF squares
<1>7. SumFunction(squares) = 0 => \A p \in D : squares[p] = 0
  BY <1>5, SumNatZero
<1>8. (\A p \in D : squares[p] = 0) => SumFunction(squares) = 0
  BY <1>5, FunSumZero
<1> QED BY <1>4, <1>6, <1>7, <1>8

\* The ranks' mean is N + 1, so a gap is a standing.
LEMMA GapsStand ==
  ASSUME NEW N \in Nat \ {0}, NEW v \in [1..N -> Ratios]
  PROVE  /\ AverageRanks(v) \in [1..N -> Int]
         /\ DOMAIN Gaps(AverageRanks(v)) = 1..N
         /\ \A p \in 1..N : Gaps(AverageRanks(v))[p] = Standing(v, p)
<1> DEFINE D == 1..N
           ranks == AverageRanks(v)
           st == [p \in D |-> Standing(v, p)]
           mean == [p \in D |-> N + 1]
<1>1. IsFiniteSet(D) /\ Cardinality(D) = N
  BY FS_Interval, 1 \in Int
<1>2. \A p \in D : Standing(v, p) \in Int
  BY <1>1, StandingTyped
<1>3. \A p \in D : ranks[p] = N + 1 + Standing(v, p)
  BY RankAverages
<1>4. DOMAIN ranks = D
  BY DEF AverageRanks
<1>5. ranks \in [D -> Int]
  <2>1. ranks = [p \in D |-> ranks[p]]
    BY <1>4 DEF AverageRanks
  <2>2. \A p \in D : ranks[p] \in Int
    BY <1>2, <1>3
  <2> HIDE DEF ranks, D
  <2> QED BY <2>1, <2>2
<1>6. st \in [D -> Int] /\ mean \in [D -> Int] /\ N + 1 \in Int
  BY <1>2
<1>7. \A p \in D : st[p] = ranks[p] - mean[p]
  BY <1>2, <1>3
<1>8. /\ \A p \in D : mean[p] = N + 1
      /\ \A p \in D : st[p] = Standing(v, p)
  OBVIOUS
<1> HIDE DEF D, ranks, st, mean
<1>9. SumFunction(st) = 0
  BY <1>1, <1>6, <1>8, StandingsCancel DEF D
<1>10. SumFunction(mean) = (N + 1) * N
  BY <1>1, <1>6, <1>8, SumConstant
<1>11. SumFunction(st) = SumFunction(ranks) - SumFunction(mean)
  <2>1. \A f, g, h \in [D -> Int] :
          (\A p \in D : h[p] = f[p] - g[p]) => SumFunction(h) = SumFunction(f) - SumFunction(g)
    BY <1>1, FunSumMinus
  <2>2. ranks \in [D -> Int] /\ mean \in [D -> Int] /\ st \in [D -> Int]
    BY <1>5, <1>6
  <2> QED BY <1>7, <2>1, <2>2
<1>12. SumFunction(ranks) \in Int
  BY <1>1, <1>5, FunSumInt
<1>13. SumFunction(ranks) = (N + 1) * N
  BY <1>9, <1>10, <1>11, <1>12
<1>14. ((N + 1) * N) \div N = N + 1
  OBVIOUS
<1>15. Len(ranks) = N
  BY <1>5, LenProperties, SeqDef DEF D
<1>16. /\ DOMAIN Gaps(ranks) = D
       /\ \A p \in D : Gaps(ranks)[p] = ranks[p] - (N + 1)
  BY <1>4, <1>13, <1>14, <1>15 DEF Gaps
<1>17. \A p \in D : Gaps(ranks)[p] = Standing(v, p)
  BY <1>2, <1>3, <1>16 DEF ranks, D
<1> QED BY <1>5, <1>16, <1>17 DEF ranks, D

\* Every value has the same rank exactly where nothing beats anything.
LEMMA FlatRanks ==
  ASSUME NEW N \in Nat, NEW v \in [1..N -> Ratios]
  PROVE  Cardinality(Range(AverageRanks(v))) < 2 <=> Agreement(v, v) = 0
<1> DEFINE D == 1..N
           ranks == AverageRanks(v)
           st == [p \in D |-> Standing(v, p)]
<1>1. IsFiniteSet(D) /\ Cardinality(D) = N
  BY FS_Interval, 1 \in Int
<1>2. DOMAIN ranks = D
  BY DEF AverageRanks
<1>3. Range(ranks) = {ranks[p] : p \in D}
  BY <1>2 DEF Range
<1>4. IsFiniteSet(Range(ranks))
  <2> HIDE DEF ranks, D
  <2>1. ranks \in Surjection(D, Range(ranks))
    <3>1. ranks \in [D -> Range(ranks)]
      BY <1>3 DEF ranks, D, AverageRanks
    <3> QED BY <1>3, <3>1 DEF Surjection
  <2> QED BY <1>1, <2>1, FS_Surjection
<1>5. Agreement(v, v) = 0 <=> \A p \in D : Standing(v, p) = 0
  BY <1>1, NoAgreement
<1>6. CASE N = 0
  <2>1. D = {}
    BY <1>6
  <2>2. Range(ranks) = {}
    BY <1>3, <2>1
  <2>3. Cardinality(Range(ranks)) = 0
    BY <2>2, FS_EmptySet
  <2> QED BY <1>5, <2>1, <2>3
<1>7. CASE N # 0
  <2>1. 1 \in D /\ N \in Nat \ {0}
    BY <1>7
  <2>2. /\ \A p \in D : ranks[p] = N + 1 + Standing(v, p)
        /\ \A p \in D : Standing(v, p) \in Int
    BY <1>1, RankAverages, StandingTyped
  <2>3. ASSUME Cardinality(Range(ranks)) < 2 PROVE \A p \in D : Standing(v, p) = 0
    <3> SUFFICES ASSUME NEW p \in D PROVE Standing(v, p) = 0
      OBVIOUS
    <3>1. \A q \in D : ranks[q] = ranks[p]
      <4> SUFFICES ASSUME NEW q \in D, ranks[q] # ranks[p] PROVE FALSE
        OBVIOUS
      <4> DEFINE two == {ranks[p], ranks[q]}
      <4>1. two \subseteq Range(ranks)
        BY <1>3
      <4>2. IsFiniteSet({ranks[p]}) /\ Cardinality({ranks[p]}) = 1
        BY FS_Singleton
      <4>3. two = {ranks[p]} \cup {ranks[q]} /\ ranks[q] \notin {ranks[p]}
        OBVIOUS
      <4>4. Cardinality(two) = 2
        <5> HIDE DEF ranks, D, two
        <5>1. Cardinality({ranks[p]} \cup {ranks[q]}) = Cardinality({ranks[p]}) + 1
          BY <4>2, <4>3, FS_AddElement
        <5> QED BY <4>2, <4>3, <5>1
      <4>5. Cardinality(two) <= Cardinality(Range(ranks)) /\ Cardinality(Range(ranks)) \in Nat
        <5> HIDE DEF ranks, D, two
        <5> QED BY <1>4, <4>1, FS_Subset, FS_CardinalityType
      <4> HIDE DEF ranks, D, two
      <4> QED BY <2>3, <4>4, <4>5
    <3>2. \A q \in D : Standing(v, q) = Standing(v, p)
      <4> SUFFICES ASSUME NEW q \in D PROVE Standing(v, q) = Standing(v, p)
        OBVIOUS
      <4>1. ranks[q] = N + 1 + Standing(v, q) /\ ranks[p] = N + 1 + Standing(v, p) /\ ranks[q] = ranks[p]
        BY <2>2, <3>1
      <4>2. Standing(v, q) \in Int /\ Standing(v, p) \in Int
        BY <2>2
      <4> HIDE DEF ranks
      <4> QED BY <4>1, <4>2
    <3>3. st \in [D -> Int] /\ \A q \in D : st[q] = Standing(v, q)
      BY <2>2
    <3>4. \A q \in D : st[q] = Standing(v, p)
      BY <3>2
    <3> HIDE DEF st
    <3>5. SumFunction(st) = 0
      BY <1>1, <3>3, StandingsCancel
    <3>6. SumFunction(st) = Standing(v, p) * N
      BY <1>1, <2>2, <3>3, <3>4, SumConstant
    <3>7. PICK c \in Int : c = Standing(v, p)
      BY <2>2
    <3>8. c * N = 0
      BY <3>5, <3>6, <3>7
    <3>9. c = 0
      BY <2>1, <3>8, ProductGrows
    <3> QED BY <3>7, <3>9
  <2>4. ASSUME \A p \in D : Standing(v, p) = 0 PROVE Cardinality(Range(ranks)) < 2
    <3>1. \A p \in D : ranks[p] = N + 1
      BY <2>2, <2>4
    <3>2. Range(ranks) = {N + 1}
      <4> HIDE DEF ranks
      <4> QED BY <1>3, <2>1, <3>1
    <3>3. Cardinality({N + 1}) = 1
      BY FS_Singleton
    <3> QED BY <3>2, <3>3
  <2> QED BY <1>5, <2>3, <2>4
<1> QED BY <1>6, <1>7

\* The coefficient of two lists of as many values: none of too few pairs or of
\* a side that never differs, otherwise their agreement over their spread.
LEMMA Correlated ==
  ASSUME NEW N \in Nat, NEW a \in [1..N -> Ratios], NEW b \in [1..N -> Ratios]
  PROVE  RankCorrelation(a, b)
           = IF N < MinPairs \/ Agreement(a, a) * Agreement(b, b) = 0 THEN None
             ELSE <<Agreement(a, b), Agreement(a, a) * Agreement(b, b)>>
<1> DEFINE D == 1..N
<1>1. IsFiniteSet(D)
  BY FS_Interval, 1 \in Int
<1>2. Len(a) = N
  BY LenProperties, SeqDef
<1>3. Agreement(a, a) \in Int /\ Agreement(b, b) \in Int
  BY <1>1, AgreementTyped
<1>4. Agreement(a, a) * Agreement(b, b) = 0 <=> Agreement(a, a) = 0 \/ Agreement(b, b) = 0
  <2>1. PICK x \in Int, y \in Int : x = Agreement(a, a) /\ y = Agreement(b, b)
    BY <1>3
  <2>2. x * y = 0 <=> x = 0 \/ y = 0
    <3>1. CASE y > 0
      BY <3>1, ProductGrows
    <3>2. CASE y = 0
      BY <3>2
    <3>3. CASE y < 0
      <4>1. -y \in Nat \ {0} /\ x * (-y) = -(x * y) /\ x * y \in Int
        BY <3>3
      <4>2. x = 0 <=> x * (-y) = 0 * (-y)
        BY <4>1, ProductGrows
      <4> QED BY <3>3, <4>1, <4>2
    <3> QED BY <3>1, <3>2, <3>3
  <2> QED BY <2>1, <2>2
<1>5. /\ Cardinality(Range(AverageRanks(a))) < 2 <=> Agreement(a, a) = 0
      /\ Cardinality(Range(AverageRanks(b))) < 2 <=> Agreement(b, b) = 0
  BY FlatRanks
<1>6. CASE Agreement(a, a) = 0 \/ Agreement(b, b) = 0 \/ N < MinPairs
  <2>1. RankCorrelation(a, b) = None
    BY <1>2, <1>5, <1>6 DEF RankCorrelation
  <2> QED BY <1>4, <1>6, <2>1
<1>7. CASE Agreement(a, a) # 0 /\ Agreement(b, b) # 0 /\ ~ (N < MinPairs)
  <2>1. N # 0
    <3> SUFFICES ASSUME N = 0 PROVE FALSE
      OBVIOUS
    <3>1. \A p \in D : Standing(a, p) = 0
      OBVIOUS
    <3> QED BY <1>1, <1>7, <3>1, NoAgreement
  <2>2. /\ DOMAIN Gaps(AverageRanks(a)) = D /\ DOMAIN Gaps(AverageRanks(b)) = D
        /\ \A p \in D : Gaps(AverageRanks(a))[p] = Standing(a, p)
        /\ \A p \in D : Gaps(AverageRanks(b))[p] = Standing(b, p)
    BY <2>1, GapsStand
  <2>3. /\ Product(Gaps(AverageRanks(a)), Gaps(AverageRanks(b))) = Agreement(a, b)
        /\ Product(Gaps(AverageRanks(a)), Gaps(AverageRanks(a))) = Agreement(a, a)
        /\ Product(Gaps(AverageRanks(b)), Gaps(AverageRanks(b))) = Agreement(b, b)
    <3>1. /\ [p \in D |-> Gaps(AverageRanks(a))[p] * Gaps(AverageRanks(b))[p]]
               = [p \in D |-> Standing(a, p) * Standing(b, p)]
          /\ [p \in D |-> Gaps(AverageRanks(a))[p] * Gaps(AverageRanks(a))[p]]
               = [p \in D |-> Standing(a, p) * Standing(a, p)]
          /\ [p \in D |-> Gaps(AverageRanks(b))[p] * Gaps(AverageRanks(b))[p]]
               = [p \in D |-> Standing(b, p) * Standing(b, p)]
      BY <2>2
    <3>2. DOMAIN a = D /\ DOMAIN b = D
      OBVIOUS
    <3> QED BY <2>2, <3>1, <3>2, Zenon DEF Product, Agreement
  <2>4. RankCorrelation(a, b)
          = <<Product(Gaps(AverageRanks(a)), Gaps(AverageRanks(b))),
              Product(Gaps(AverageRanks(a)), Gaps(AverageRanks(a)))
                * Product(Gaps(AverageRanks(b)), Gaps(AverageRanks(b)))>>
    BY <1>2, <1>5, <1>7, Zenon DEF RankCorrelation
  <2> QED BY <1>4, <1>7, <2>3, <2>4
<1> QED BY <1>6, <1>7

\* A list of values numbered by I, drawn from values by D.
Drawn(a, v, e, I, D) ==
  /\ NamesOnce(e, I, D) /\ IsFiniteSet(I) /\ IsFiniteSet(D)
  /\ v \in [D -> Ratios] /\ a \in [I -> Ratios]
  /\ \A k \in I : a[k] = v[e[k]]

\* Standings and agreements do not depend on how the values are numbered.
LEMMA Renumbered ==
  ASSUME NEW e, NEW I, NEW D, NEW a, NEW v, Drawn(a, v, e, I, D), NEW b, NEW w, Drawn(b, w, e, I, D)
  PROVE  Agreement(a, b) = Agreement(v, w)
<1>0. /\ NamesOnce(e, I, D) /\ IsFiniteSet(I) /\ IsFiniteSet(D)
      /\ v \in [D -> Ratios] /\ a \in [I -> Ratios] /\ w \in [D -> Ratios] /\ b \in [I -> Ratios]
      /\ \A k \in I : a[k] = v[e[k]] /\ b[k] = w[e[k]]
  BY DEF Drawn
<1>1. \A f \in [D -> Int], g \in [I -> Int] :
        (\A l \in I : g[l] = f[e[l]]) => SumFunction(f) = SumFunction(g)
  BY <1>0, FunSumRenamed
<1>2. ASSUME NEW x \in [D -> Ratios], NEW y \in [I -> Ratios], \A k \in I : y[k] = x[e[k]], NEW k \in I
      PROVE  Standing(y, k) = Standing(x, e[k])
  <2>0. \A l \in I : e[l] \in D
    BY <1>0 DEF NamesOnce
  <2> DEFINE f == [q \in D |-> Sign(x[e[k]], x[q])]
             g == [l \in I |-> Sign(y[k], y[l])]
  <2>1. f \in [D -> Int] /\ g \in [I -> Int]
    BY DEF Sign
  <2>2. \A l \in I : g[l] = f[e[l]]
    BY <1>2, <2>0
  <2>3. Standing(y, k) = SumFunction(g) /\ Standing(x, e[k]) = SumFunction(f)
    BY DEF Standing
  <2> HIDE DEF f, g
  <2>4. SumFunction(f) = SumFunction(g)
    BY <1>1, <2>1, <2>2
  <2> QED BY <2>3, <2>4
<1> DEFINE f == [n \in D |-> Standing(v, n) * Standing(w, n)]
           g == [k \in I |-> Standing(a, k) * Standing(b, k)]
<1>3. \A k \in I : Standing(a, k) = Standing(v, e[k]) /\ Standing(b, k) = Standing(w, e[k])
  <2>1. (\A k \in I : a[k] = v[e[k]]) /\ (\A k \in I : b[k] = w[e[k]]) /\ a \in [I -> Ratios] /\ b \in [I -> Ratios]
    BY <1>0
  <2>2. \A k \in I : Standing(a, k) = Standing(v, e[k])
    BY <1>0, <1>2, <2>1
  <2>3. \A k \in I : Standing(b, k) = Standing(w, e[k])
    BY <1>0, <1>2, <2>1
  <2> QED BY <2>2, <2>3
<1>4. \A n \in D : Standing(v, n) \in Int /\ Standing(w, n) \in Int
  BY <1>0, StandingTyped
<1>5. f \in [D -> Int]
  BY <1>4
<1>6. g \in [I -> Int] /\ \A k \in I : g[k] = f[e[k]]
  BY <1>0, <1>3, <1>4 DEF NamesOnce
<1>7. Agreement(a, b) = SumFunction(g) /\ Agreement(v, w) = SumFunction(f)
  BY <1>0 DEF Agreement
<1> HIDE DEF f, g
<1>8. SumFunction(f) = SumFunction(g)
  BY <1>1, <1>5, <1>6
<1> QED BY <1>7, <1>8

\* The rows a list of margins has a pair of, and what an estimate of them is.
PairedRows(horizon, margins, asked, closes) ==
  {n \in DOMAIN asked : /\ Number(margins[n])
                        /\ asked[n] + horizon \in DOMAIN closes /\ closes[asked[n]] # 0}
Compared(e, horizon, margins, asked, closes) ==
  LET rows    == PairedRows(horizon, margins, asked, closes)
      factor  == [n \in rows |-> <<margins[n].value, 1>>]
      returns == [n \in rows |-> Ratio(closes[asked[n] + horizon], closes[asked[n]])]
      spread  == Agreement(factor, factor) * Agreement(returns, returns)
  IN  /\ e.horizon = horizon /\ e.observations = Cardinality(rows)
      /\ e.correlation = IF Cardinality(rows) < MinPairs \/ spread = 0 THEN None
                         ELSE <<Agreement(factor, returns), spread>>

Sample == [horizon : Nat, correlation : (Int \X Int) \cup {None}, observations : Nat]

LEMMA EstimateCompares ==
  ASSUME NEW asked \in Seq(Nat \ {0}), NEW closes \in Seq(Int), NEW margins \in Seq(Margin),
         Len(margins) = Len(asked), NEW horizon \in Nat
  PROVE  /\ Compared(Estimate(horizon, margins, asked, closes), horizon, margins, asked, closes)
         /\ Estimate(horizon, margins, asked, closes) \in Sample
<1> DEFINE M == DOMAIN margins
           Outcome(n) == ForwardReturn(closes, asked[n], horizon)
           survives == {n \in M : Number(margins[n]) /\ Outcome(n) # None}
           ids == [n \in M |-> n]
           pairs == Kept(ids, survives)
           rows == PairedRows(horizon, margins, asked, closes)
           factor == [n \in rows |-> <<margins[n].value, 1>>]
           returns == [n \in rows |-> Ratio(closes[asked[n] + horizon], closes[asked[n]])]
           a == [p \in DOMAIN pairs |-> <<margins[pairs[p]].value, 1>>]
           b == [p \in DOMAIN pairs |-> Outcome(pairs[p])]
           N == Cardinality(rows)
           I == 1..N
<1>1. M = 1..Len(asked) /\ DOMAIN asked = M /\ IsFiniteSet(M) /\ Len(asked) \in Nat
  <2>1. Len(asked) \in Nat /\ DOMAIN asked = 1..Len(asked) /\ DOMAIN margins = 1..Len(margins)
    BY LenProperties
  <2>2. IsFiniteSet(1..Len(asked))
    BY <2>1, FS_Interval, 1 \in Int
  <2> QED BY <2>1, <2>2
<1>2. \A n \in M : /\ asked[n] \in Nat \ {0} /\ margins[n] \in Margin
                   /\ asked[n] + horizon \in DOMAIN closes <=> ~ (asked[n] + horizon > Len(closes))
                   /\ asked[n] + horizon \in DOMAIN closes =>
                        closes[asked[n]] \in Int /\ closes[asked[n] + horizon] \in Int
  <2> SUFFICES ASSUME NEW n \in M
               PROVE  /\ asked[n] \in Nat \ {0} /\ margins[n] \in Margin
                      /\ asked[n] + horizon \in DOMAIN closes <=> ~ (asked[n] + horizon > Len(closes))
                      /\ asked[n] + horizon \in DOMAIN closes =>
                           closes[asked[n]] \in Int /\ closes[asked[n] + horizon] \in Int
    OBVIOUS
  <2>1. asked[n] \in Nat \ {0} /\ margins[n] \in Margin
    BY <1>1, ElementOfSeq
  <2>2. Len(closes) \in Nat /\ DOMAIN closes = 1..Len(closes)
    BY LenProperties
  <2>3. \A i \in 1..Len(closes) : closes[i] \in Int
    BY ElementOfSeq
  <2>4. PICK i \in Nat \ {0} : i = asked[n]
    BY <2>1
  <2> QED BY <2>1, <2>2, <2>3, <2>4
<1>3. \A n \in M : asked[n] + horizon \in DOMAIN closes /\ closes[asked[n]] # 0 =>
        /\ Outcome(n) = Ratio(closes[asked[n] + horizon], closes[asked[n]])
        /\ Ratio(closes[asked[n] + horizon], closes[asked[n]]) \in Ratios
  BY <1>2, RatioTyped DEF ForwardReturn
<1>4. \A x \in Ratios : x # None
  BY LensAssumption DEF Ratios
<1>5. \A n \in M : Outcome(n) # None <=> asked[n] + horizon \in DOMAIN closes /\ closes[asked[n]] # 0
  BY <1>2, <1>3, <1>4 DEF ForwardReturn
<1>6. survives = rows /\ rows \subseteq M
  BY <1>1, <1>5 DEF PairedRows
<1>7. IsFiniteSet(rows) /\ N \in Nat
  BY <1>1, <1>6, FS_Subset, FS_CardinalityType
<1>8. /\ factor \in [rows -> Ratios] /\ returns \in [rows -> Ratios]
      /\ \A n \in rows : factor[n] = <<margins[n].value, 1>> /\ returns[n] = Outcome(n)
  <2>1. \A n \in rows : /\ margins[n].value \in Int /\ Outcome(n) \in Ratios
                        /\ Outcome(n) = Ratio(closes[asked[n] + horizon], closes[asked[n]])
    BY <1>1, <1>2, <1>3 DEF PairedRows, Margin
  <2> QED BY <2>1 DEF Ratios
<1>9. /\ DOMAIN pairs = 1..N
      /\ \E e \in [1..N -> rows] : NamesOnce(e, 1..N, rows) /\ \A k \in 1..N : pairs[k] = e[k]
  <2>1. ids \in Seq(M) /\ DOMAIN ids = M
    BY <1>1, SeqDef
  <2>2. \A n \in M : ids[n] = n
    OBVIOUS
  <2> HIDE DEF ids, rows, survives
  <2>3. rows \in SUBSET DOMAIN ids /\ pairs = Kept(ids, rows)
    BY <1>6, <2>1
  <2>4. /\ Kept(ids, rows) \in Seq(M) /\ Len(Kept(ids, rows)) = N
        /\ \E e \in [1..Len(Kept(ids, rows)) -> rows] :
             /\ \A k \in 1..Len(Kept(ids, rows)) : Kept(ids, rows)[k] = ids[e[k]]
             /\ \A i \in rows : \E k \in 1..Len(Kept(ids, rows)) : e[k] = i
             /\ \A k, l \in 1..Len(Kept(ids, rows)) : k < l => e[k] < e[l]
    BY <2>1, <2>3, KeptInOrder
  <2>5. DOMAIN Kept(ids, rows) = 1..N
    BY <2>4, LenProperties
  <2>6. PICK e \in [1..N -> rows] : /\ \A k \in 1..N : Kept(ids, rows)[k] = ids[e[k]]
                                    /\ \A i \in rows : \E k \in 1..N : e[k] = i
                                    /\ \A k, l \in 1..N : k < l => e[k] < e[l]
    BY <2>4
  <2>7. \A k, l \in 1..N : e[k] = e[l] => k = l
    <3> SUFFICES ASSUME NEW k \in 1..N, NEW l \in 1..N, e[k] = e[l], k # l PROVE FALSE
      OBVIOUS
    <3>1. k < l \/ l < k
      OBVIOUS
    <3>2. e[k] \in Int /\ e[k] = e[l]
      BY <1>1, <1>6
    <3>3. e[k] < e[l] \/ e[l] < e[k]
      BY <2>6, <3>1
    <3> QED BY <3>2, <3>3
  <2>8. \A k \in 1..N : Kept(ids, rows)[k] = e[k]
    BY <1>6, <2>2, <2>6
  <2> HIDE DEF pairs
  <2>9. NamesOnce(e, 1..N, rows)
    BY <2>6, <2>7 DEF NamesOnce
  <2> QED BY <2>3, <2>5, <2>8, <2>9
<1>10. PICK e : NamesOnce(e, I, rows) /\ \A k \in I : e[k] \in rows /\ pairs[k] = e[k]
  BY <1>9
<1>11. /\ a \in [I -> Ratios] /\ b \in [I -> Ratios]
       /\ \A k \in I : a[k] = factor[e[k]] /\ b[k] = returns[e[k]]
  <2>1. \A k \in I : e[k] \in rows /\ pairs[k] = e[k]
    BY <1>10
  <2>2. DOMAIN a = I /\ DOMAIN b = I
    BY <1>9
  <2>3. \A k \in I : a[k] = <<margins[pairs[k]].value, 1>> /\ b[k] = Outcome(pairs[k])
    BY <1>9
  <2>4. a = [k \in I |-> a[k]] /\ b = [k \in I |-> b[k]]
    BY <1>9
  <2> HIDE DEF Outcome, a, b, pairs, factor, returns, rows, I
  <2>5. \A k \in I : a[k] = factor[e[k]] /\ b[k] = returns[e[k]]
    <3> SUFFICES ASSUME NEW k \in I PROVE a[k] = factor[e[k]] /\ b[k] = returns[e[k]]
      OBVIOUS
    <3>1. e[k] \in rows /\ pairs[k] = e[k]
      BY <2>1
    <3>2. a[k] = <<margins[e[k]].value, 1>> /\ b[k] = Outcome(e[k])
      BY <2>3, <3>1
    <3>3. factor[e[k]] = <<margins[e[k]].value, 1>> /\ returns[e[k]] = Outcome(e[k])
      BY <1>8, <3>1
    <3> QED BY <3>2, <3>3
  <2>6. \A k \in I : a[k] \in Ratios /\ b[k] \in Ratios
    BY <1>8, <2>1, <2>5
  <2> QED BY <2>4, <2>5, <2>6
<1>12. Len(pairs) = N
  <2>1. \A k \in 1..N : pairs[k] \in rows
    BY <1>10
  <2>2. pairs = [k \in 1..N |-> pairs[k]]
    <3>1. pairs = [k \in DOMAIN pairs |-> pairs[k]]
      BY DEF Kept
    <3>2. DOMAIN pairs = 1..N
      BY <1>9
    <3> HIDE DEF pairs, rows, N
    <3> QED BY <3>1, <3>2
  <2>3. pairs \in [1..N -> rows]
    <3> HIDE DEF pairs, rows, N
    <3> QED BY <2>1, <2>2
  <2> HIDE DEF pairs, rows
  <2> QED BY <1>7, <2>3, LenProperties, SeqDef
<1>13. /\ Estimate(horizon, margins, asked, closes).horizon = horizon
       /\ Estimate(horizon, margins, asked, closes).observations = N
       /\ Estimate(horizon, margins, asked, closes).correlation = RankCorrelation(a, b)
       /\ Estimate(horizon, margins, asked, closes)
            = [horizon |-> horizon, correlation |-> RankCorrelation(a, b), observations |-> N]
  BY <1>12 DEF Estimate
<1> HIDE DEF M, Outcome, survives, ids, pairs, rows, factor, returns, a, b, I
<1>14. /\ Agreement(a, b) = Agreement(factor, returns)
       /\ Agreement(a, a) = Agreement(factor, factor)
       /\ Agreement(b, b) = Agreement(returns, returns)
  <2>1. Drawn(a, factor, e, I, rows) /\ Drawn(b, returns, e, I, rows)
    <3>1. IsFiniteSet(I)
      BY <1>7, FS_Interval, 1 \in Int DEF I
    <3> QED BY <1>7, <1>8, <1>10, <1>11, <3>1 DEF Drawn
  <2> QED BY <2>1, Renumbered
<1>15. RankCorrelation(a, b) = IF N < MinPairs \/ Agreement(a, a) * Agreement(b, b) = 0 THEN None
                               ELSE <<Agreement(a, b), Agreement(a, a) * Agreement(b, b)>>
  BY <1>7, <1>11, Correlated DEF I
<1>16. Compared(Estimate(horizon, margins, asked, closes), horizon, margins, asked, closes)
  BY <1>13, <1>14, <1>15 DEF Compared, rows, factor, returns, N
<1>17. Estimate(horizon, margins, asked, closes) \in Sample
  <2>1. /\ Agreement(factor, returns) \in Int /\ Agreement(factor, factor) \in Int
        /\ Agreement(returns, returns) \in Int
    BY <1>7, <1>8, AgreementTyped
  <2>2. RankCorrelation(a, b) \in (Int \X Int) \cup {None}
    BY <1>14, <1>15, <2>1
  <2> HIDE DEF N
  <2> QED BY <1>7, <1>13, <2>2 DEF Sample
<1> QED BY <1>16, <1>17

\* A case's keys: each play symbol is one of the case's symbols.
LEMMA KeysTyped ==
  ASSUME case \in Cases
  PROVE  /\ Len(Keys) \in Nat /\ DOMAIN Keys = 1..Len(Keys)
         /\ \A k \in DOMAIN Keys : Keys[k][2] \in Range(case.symbols)
<1> DEFINE P == Len(case.plays)
           S == Len(case.symbols)
           T == {Keys[k] : k \in 1..(P * S)}
<1>1. P \in Nat /\ S \in Nat /\ DOMAIN case.symbols = 1..S
  <2>1. case.plays \in Seq(Range(case.plays)) /\ case.symbols \in Seq(Range(case.symbols))
    BY LensAssumption
  <2> QED BY <2>1, LenProperties
<1>2. P * S \in Nat
  <2>1. \A p, q \in Nat : p * q \in Nat
    OBVIOUS
  <2> HIDE DEF P, S
  <2> QED BY <1>1, <2>1
<1>3. /\ Keys = [k \in 1..(P * S) |-> Keys[k]]
      /\ \A k \in 1..(P * S) : Keys[k][2] = case.symbols[((k - 1) % S) + 1]
  BY DEF Keys
<1>4. Keys \in [1..(P * S) -> T]
  <2>1. \A k \in 1..(P * S) : Keys[k] \in T
    OBVIOUS
  <2> HIDE DEF T, P, S
  <2> QED BY <1>3, <2>1
<1>5. Len(Keys) = P * S /\ DOMAIN Keys = 1..(P * S)
  <2> HIDE DEF T, P, S
  <2> QED BY <1>2, <1>4, LenProperties, SeqDef
<1>6. ASSUME NEW k \in 1..(P * S) PROVE Keys[k][2] \in Range(case.symbols)
  <2>1. S > 0
    <3> SUFFICES ASSUME S = 0 PROVE FALSE
      BY <1>1
    <3>1. P * S = 0
      BY <1>1
    <3> QED BY <3>1
  <2>2. ((k - 1) % S) + 1 \in 1..S
    <3> HIDE DEF P, S
    <3> QED BY <1>1, <1>2, <2>1
  <2>3. case.symbols[((k - 1) % S) + 1] \in Range(case.symbols)
    <3> HIDE DEF P, S
    <3> QED BY <1>1, <2>2 DEF Range
  <2> QED BY <1>3, <2>3
<1> HIDE DEF P, S
<1> QED BY <1>2, <1>5, <1>6

\* What is recorded of a play symbol: nothing, or an estimate per horizon of
\* the margins its factor gave the rows it was asked about.
Recorded(answer, made, asked, closes) ==
  IF answer = None THEN made = Ungraded
  ELSE /\ answer \in Seq(Margin) /\ Len(answer) = Len(asked)
       /\ \A h \in DOMAIN Horizons :
            made[h] = Estimate(Horizons[h], answer, asked, closes) /\ EstimateAccepted(made[h])

GradesInv ==
  /\ answers \in Seq(Seq(Margin) \cup {None}) /\ estimates \in Seq([DOMAIN Horizons -> Sample])
  /\ Len(answers) = Len(estimates)
  /\ lens = "idle" => estimates = <<>>
  /\ lens = "sliced" => Len(estimates) = Len(Keys)
  /\ lens \in {"grading", "sliced"} =>
       /\ case \in Cases /\ Len(estimates) <= Len(Keys)
       /\ \A k \in 1..Len(estimates) :
            Recorded(answers[k], estimates[k], case.asked, case.closes[Keys[k][2]])

\* One more play symbol is recorded.
LEMMA RecordsOne ==
  ASSUME GradesInv, lens = "grading", Len(estimates) < Len(Keys),
         NEW answer \in Seq(Margin) \cup {None}, NEW made \in [DOMAIN Horizons -> Sample],
         Recorded(answer, made, case.asked, case.closes[NextKey[2]]),
         answers' = Append(answers, answer), estimates' = Append(estimates, made),
         UNCHANGED <<case, lens>>
  PROVE  GradesInv'
<1>1. PICK n \in Nat : n = Len(estimates) /\ n = Len(answers)
  BY LenProperties DEF GradesInv
<1>2. /\ answers' \in Seq(Seq(Margin) \cup {None}) /\ estimates' \in Seq([DOMAIN Horizons -> Sample])
      /\ Len(answers') = n + 1 /\ Len(estimates') = n + 1
      /\ answers'[n + 1] = answer /\ estimates'[n + 1] = made
      /\ \A k \in 1..n : answers'[k] = answers[k] /\ estimates'[k] = estimates[k]
  BY <1>1, AppendProperties DEF GradesInv
<1>3. case' = case /\ Keys' = Keys /\ lens' = lens
  BY DEF Keys
<1>4. Len(Keys) \in Nat /\ case \in Cases
  BY KeysTyped DEF GradesInv
<1>5. ASSUME NEW k \in 1..(n + 1)
      PROVE  Recorded(answers'[k], estimates'[k], case.asked, case.closes[Keys[k][2]])
  <2>1. CASE k = n + 1
    BY <1>1, <1>2, <2>1 DEF NextKey
  <2>2. CASE k # n + 1
    <3>1. k \in 1..n
      BY <2>2
    <3>2. Recorded(answers[k], estimates[k], case.asked, case.closes[Keys[k][2]])
      BY <1>1, <3>1 DEF GradesInv
    <3> QED BY <1>2, <3>1, <3>2
  <2> QED BY <2>1, <2>2
<1>6. n + 1 <= Len(Keys)
  BY <1>1, <1>4
<1> QED BY <1>2, <1>3, <1>4, <1>5, <1>6 DEF GradesInv

LEMMA LensStarts == ASSUME LensInit PROVE GradesInv
<1>1. <<>> \in Seq(Seq(Margin) \cup {None}) /\ <<>> \in Seq([DOMAIN Horizons -> Sample]) /\ Len(<<>>) = 0
  OBVIOUS
<1> QED BY <1>1 DEF LensInit, GradesInv

LEMMA LensSteps == ASSUME GradesInv, [LensNext]_lensVars PROVE GradesInv'
<1>1. CASE Open
  <2>1. estimates' = <<>> /\ estimates' = estimates /\ answers' = answers /\ case' \in Cases /\ lens' = "grading"
    BY <1>1 DEF Open, GradesInv
  <2>2. Len(estimates') = 0
    BY <2>1
  <2>3. (Len(Keys) \in Nat)'
    <3>1. (case \in Cases)'
      BY <2>1
    <3> QED BY <3>1, KeysTyped, PTL
  <2> QED BY <2>1, <2>2, <2>3 DEF GradesInv
<1>2. ASSUME RefuseLens PROVE GradesInv'
  <2>1. <<>> \in Seq(Seq(Margin) \cup {None}) /\ <<>> \in Seq([DOMAIN Horizons -> Sample]) /\ Len(<<>>) = 0
    OBVIOUS
  <2> QED BY <1>2, <2>1 DEF RefuseLens, GradesInv
<1>3. CASE Undeclared
  BY <1>2, <1>3 DEF Undeclared
<1>4. CASE Skip
  <2>1. Ungraded \in [DOMAIN Horizons -> Sample]
    <3>1. \A h \in DOMAIN Horizons : Horizons[h] \in Nat
      BY LensAssumption, LenProperties, ElementOfSeq
    <3> QED BY <3>1 DEF Ungraded, Sample
  <2>2. Recorded(None, Ungraded, case.asked, case.closes[NextKey[2]])
    BY DEF Recorded
  <2> QED BY <1>4, <2>1, <2>2, RecordsOne DEF Skip
<1>5. CASE Grade
  <2>1. PICK returned \in Answers :
          IF ~ MarginsAccepted(returned, Len(case.asked)) THEN RefuseLens
          ELSE LET made == [n \in DOMAIN Horizons |->
                              Estimate(Horizons[n], returned.margins, case.asked, case.closes[NextKey[2]])]
               IN  IF \E e \in Range(made) : ~ EstimateAccepted(e) THEN RefuseLens
                   ELSE /\ estimates' = Append(estimates, made)
                        /\ answers' = Append(answers, returned.margins)
                        /\ UNCHANGED <<case, lens>>
    BY <1>5 DEF Grade
  <2> DEFINE made == [n \in DOMAIN Horizons |->
                        Estimate(Horizons[n], returned.margins, case.asked, case.closes[NextKey[2]])]
  <2>2. CASE ~ RefuseLens
    <3>1. /\ MarginsAccepted(returned, Len(case.asked)) /\ \A e \in Range(made) : EstimateAccepted(e)
          /\ estimates' = Append(estimates, made) /\ answers' = Append(answers, returned.margins)
          /\ UNCHANGED <<case, lens>>
      BY <2>1, <2>2
    <3>2. /\ returned.margins \in Seq(Margin) /\ Len(returned.margins) = Len(case.asked)
          /\ returned.margins # None
      BY <3>1, LensAssumption DEF MarginsAccepted
    <3>3. /\ lens = "grading" /\ Len(estimates) < Len(Keys) /\ case \in Cases
      BY <1>5 DEF Grade, GradesInv
    <3>4. case.asked \in Seq(Nat \ {0}) /\ case.closes[NextKey[2]] \in Seq(Int)
      <4>1. Len(estimates) + 1 \in DOMAIN Keys
        <5>1. Len(estimates) \in Nat
          BY LenProperties DEF GradesInv
        <5>2. Len(Keys) \in Nat /\ DOMAIN Keys = 1..Len(Keys)
          BY <3>3, KeysTyped
        <5> QED BY <3>3, <5>1, <5>2
      <4>2. NextKey[2] \in Range(case.symbols)
        BY <3>3, <4>1, KeysTyped DEF NextKey
      <4> QED BY <3>3, <4>2, LensAssumption
    <3>5. \A h \in DOMAIN Horizons : Horizons[h] \in Nat
      BY LensAssumption, LenProperties, ElementOfSeq
    <3>6. \A h \in DOMAIN Horizons :
            Estimate(Horizons[h], returned.margins, case.asked, case.closes[NextKey[2]]) \in Sample
      BY <3>2, <3>4, <3>5, EstimateCompares
    <3>7. made \in [DOMAIN Horizons -> Sample]
      BY <3>6
    <3>8. \A h \in DOMAIN Horizons :
            /\ made[h] = Estimate(Horizons[h], returned.margins, case.asked, case.closes[NextKey[2]])
            /\ made[h] \in Range(made)
      BY DEF Range
    <3> HIDE DEF made
    <3>9. Recorded(returned.margins, made, case.asked, case.closes[NextKey[2]])
      BY <3>1, <3>2, <3>8 DEF Recorded
    <3> QED BY <3>1, <3>2, <3>3, <3>7, <3>9, RecordsOne
  <2> QED BY <1>2, <2>2
<1>6. CASE Slices
  <2>1. Keys' = Keys
    BY <1>6 DEF Slices, Keys
  <2> QED BY <1>6, <2>1 DEF Slices, GradesInv
<1>7. CASE LensEnded \/ UNCHANGED lensVars
  <2>1. UNCHANGED lensVars /\ Keys' = Keys
    BY <1>7 DEF LensEnded, lensVars, Keys
  <2> QED BY <2>1 DEF lensVars, GradesInv
<1> QED BY <1>1, <1>3, <1>4, <1>5, <1>6, <1>7 DEF LensNext

\* What is recorded compares: the property of a sliced lens.
LEMMA RecordedCompares == ASSUME GradesInv PROVE EstimatesCompare
<1> SUFFICES ASSUME lens = "sliced", NEW k \in DOMAIN Keys, NEW h \in DOMAIN Horizons
             PROVE  LET e == estimates[k][h]
                    IN  IF answers[k] = None THEN e = Ungraded[h]
                        ELSE LET closes  == case.closes[Keys[k][2]]
                                 rows    == Paired(k, Horizons[h])
                                 margins == [n \in rows |-> <<answers[k][n].value, 1>>]
                                 returns == [n \in rows |-> Ratio(closes[case.asked[n] + Horizons[h]], closes[case.asked[n]])]
                                 spread  == Agreement(margins, margins) * Agreement(returns, returns)
                             IN  /\ e.horizon = Horizons[h] /\ e.observations = Cardinality(rows)
                                 /\ (e.correlation = None) <=> (Cardinality(rows) < MinPairs \/ spread = 0)
                                 /\ e.correlation # None =>
                                      /\ e.correlation = <<Agreement(margins, returns), spread>>
                                      /\ e.correlation[1] * e.correlation[1] <= spread
  BY DEF EstimatesCompare
<1>1. /\ case \in Cases
      /\ Recorded(answers[k], estimates[k], case.asked, case.closes[Keys[k][2]])
  BY KeysTyped DEF GradesInv
<1>2. CASE answers[k] = None
  BY <1>1, <1>2 DEF Recorded
<1>3. CASE answers[k] # None
  <2> DEFINE closes == case.closes[Keys[k][2]]
             e == estimates[k][h]
             rows == Paired(k, Horizons[h])
             margins == [n \in rows |-> <<answers[k][n].value, 1>>]
             returns == [n \in rows |-> Ratio(closes[case.asked[n] + Horizons[h]], closes[case.asked[n]])]
             spread == Agreement(margins, margins) * Agreement(returns, returns)
  <2>1. /\ answers[k] \in Seq(Margin) /\ Len(answers[k]) = Len(case.asked)
        /\ e = Estimate(Horizons[h], answers[k], case.asked, closes) /\ EstimateAccepted(e)
    BY <1>1, <1>3 DEF Recorded
  <2>2. case.asked \in Seq(Nat \ {0}) /\ closes \in Seq(Int)
    BY <1>1, KeysTyped, LensAssumption
  <2>3. Horizons[h] \in Nat
    BY LensAssumption, LenProperties, ElementOfSeq
  <2>4. Compared(e, Horizons[h], answers[k], case.asked, closes)
    <3> HIDE DEF closes, e
    <3> QED BY <2>1, <2>2, <2>3, EstimateCompares
  <2>5. PairedRows(Horizons[h], answers[k], case.asked, closes) = rows
    BY DEF PairedRows, Paired
  <2>6. /\ e.horizon = Horizons[h] /\ e.observations = Cardinality(rows)
        /\ e.correlation = IF Cardinality(rows) < MinPairs \/ spread = 0 THEN None
                           ELSE <<Agreement(margins, returns), spread>>
    <3> HIDE DEF rows, closes, e
    <3> QED BY <2>4, <2>5 DEF Compared
  <2>7. <<Agreement(margins, returns), spread>> # None
    <3>1. \A n \in rows : /\ n \in DOMAIN case.asked /\ case.asked[n] \in Nat \ {0}
                          /\ case.asked[n] + Horizons[h] \in DOMAIN closes /\ closes[case.asked[n]] # 0
                          /\ closes[case.asked[n]] \in Int /\ closes[case.asked[n] + Horizons[h]] \in Int
                          /\ answers[k][n].value \in Int
      <4> SUFFICES ASSUME NEW n \in rows
                   PROVE  /\ n \in DOMAIN case.asked /\ case.asked[n] \in Nat \ {0}
                          /\ case.asked[n] + Horizons[h] \in DOMAIN closes /\ closes[case.asked[n]] # 0
                          /\ closes[case.asked[n]] \in Int /\ closes[case.asked[n] + Horizons[h]] \in Int
                          /\ answers[k][n].value \in Int
        OBVIOUS
      <4>1. /\ n \in DOMAIN case.asked
            /\ case.asked[n] + Horizons[h] \in DOMAIN closes /\ closes[case.asked[n]] # 0
        BY DEF Paired
      <4>2. case.asked[n] \in Nat \ {0} /\ answers[k][n] \in Margin
        BY <2>1, <2>2, <4>1, LenProperties, ElementOfSeq
      <4>3. Len(closes) \in Nat /\ DOMAIN closes = 1..Len(closes) /\ \A i \in 1..Len(closes) : closes[i] \in Int
        BY <2>2, LenProperties, ElementOfSeq
      <4>4. PICK i \in Nat \ {0}, j \in Nat : i = case.asked[n] /\ j = Horizons[h]
        BY <2>3, <4>2
      <4>5. i \in 1..Len(closes) /\ i + j \in 1..Len(closes)
        BY <4>1, <4>3, <4>4
      <4> HIDE DEF rows, closes
      <4> QED BY <4>1, <4>2, <4>3, <4>4, <4>5 DEF Margin
    <3>2. margins \in [rows -> Ratios] /\ returns \in [rows -> Ratios]
      <4>1. \A n \in rows : <<answers[k][n].value, 1>> \in Ratios
        BY <3>1 DEF Ratios
      <4>2. \A n \in rows : Ratio(closes[case.asked[n] + Horizons[h]], closes[case.asked[n]]) \in Ratios
        BY <3>1, RatioTyped
      <4> HIDE DEF rows, closes
      <4> QED BY <4>1, <4>2
    <3>3. IsFiniteSet(rows)
      <4>1. IsFiniteSet(DOMAIN case.asked)
        <5>1. DOMAIN case.asked = 1..Len(case.asked) /\ Len(case.asked) \in Int
          BY <2>2, LenProperties
        <5> QED BY <5>1, FS_Interval, 1 \in Int
      <4>2. rows \subseteq DOMAIN case.asked
        BY DEF Paired
      <4> QED BY <4>1, <4>2, FS_Subset
    <3> HIDE DEF rows, margins, returns
    <3>4. /\ Agreement(margins, returns) \in Int /\ Agreement(margins, margins) \in Int
          /\ Agreement(returns, returns) \in Int
      BY <3>2, <3>3, AgreementTyped
    <3> QED BY <3>4, LensAssumption
  <2>8. /\ (e.correlation = None) <=> (Cardinality(rows) < MinPairs \/ spread = 0)
        /\ e.correlation # None =>
             /\ e.correlation = <<Agreement(margins, returns), spread>>
             /\ e.correlation[1] * e.correlation[1] <= spread
    <3> HIDE DEF rows, margins, returns, spread, e
    <3> QED BY <2>1, <2>6, <2>7 DEF EstimateAccepted
  <2> QED BY <1>3, <2>6, <2>8
<1> QED BY <1>2, <1>3

\* A lens compares the margins with the returns they came before, whatever the
\* plays, the factors, the series and the horizons.
THEOREM EstimatesAgree == LensSpec => []EstimatesCompare
<1>1. LensInit => GradesInv
  BY LensStarts
<1>2. GradesInv /\ [LensNext]_lensVars => GradesInv'
  BY LensSteps
<1>3. GradesInv => EstimatesCompare
  BY RecordedCompares
<1> QED BY <1>1, <1>2, <1>3, PTL DEF LensSpec
=============================================================================
