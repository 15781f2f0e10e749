--------------------------- MODULE BatchSyncProofs --------------------------
(***************************************************************************)
(* The syncs' calls, for every venue, limit, page and list: a cache is     *)
(* written only with whole answers, only a detached window opens a hole,   *)
(* and a call that returned left nothing of its window out.                *)
(***************************************************************************)
EXTENDS BatchSyncProperties, SequenceTheorems, FiniteLemmas

\* A request is for some of the symbols its call wants.
Requests == [from : Periods, symbols : Seq(Symbols) \ {<<>>}]

\* What a request stages.
Progress ==
  [token : Nat \ {0}, attempt : Nat, seen : SUBSET (Nat \ {0}), rows : SUBSET (Symbols \X Periods),
   present : SUBSET Symbols, todo : Seq(Symbols), again : BOOLEAN]

\* What the variables hold.  The cache has nothing the venue did not have.
SyncTyped ==
  /\ clock \in Periods
  /\ venue \in [Symbols -> SUBSET (1..clock)]
  /\ held \in [Symbols -> SUBSET Periods] /\ \A s \in Symbols : held[s] \subseteq venue[s]
  /\ call.wanted \subseteq Symbols /\ call.start \in Periods /\ call.end \in 1..clock
  /\ call.full \in BOOLEAN /\ call.mode \in {"single", "multi"}
  /\ queue \in Seq(Requests) /\ got \in Progress
  /\ \A i \in DOMAIN queue : ToSet(queue[i].symbols) \subseteq call.wanted
  /\ pc \in {"idle", "get", "commit"} /\ (pc = "idle" <=> queue = <<>>)
  /\ outcome = "returned" => pc = "idle"

\* How the rows of the request in progress are staged: none but its own, all
\* before the page its token stands for, and at the end every one.
Rank(row) == Cardinality({q \in Matching : Before(q, row)})
Behind(row, token) == Rank(row) \in 0..(token - 1) * PageSize - 1
Staging ==
  /\ pc = "get" =>
       /\ got.rows \subseteq Matching /\ got.todo = <<>>
       /\ \A t \in got.seen \cup {got.token} :
            \A row \in Matching : Behind(row, t) => row \in got.rows
  /\ pc = "commit" =>
       /\ got.rows = Matching
       /\ got.todo # <<>> /\ ToSet(got.todo) \subseteq ToSet(Head(queue).symbols)

\* A start from which a symbol can be asked without leaving its window out.
FitsFor(s, from, start, full) ==
  \/ from = start /\ (held[s] = {} \/ full \/ from <= Latest(held[s]))
  \/ held[s] # {} /\ Earliest(held[s]) <= start /\ from <= Latest(held[s])
Fits(s, from) == FitsFor(s, from, call.start, call.full)
Reaching ==
  \A i \in DOMAIN queue : \A s \in ToSet(queue[i].symbols) : Fits(s, queue[i].from)

\* Every symbol wanted has been served, or is still to be.
Served(s) ==
  \E from \in Periods :
    /\ venue[s] \cap (from..call.end) \subseteq held[s]
    /\ \/ from = call.start
       \/ held[s] # {} /\ Earliest(held[s]) <= call.start /\ from <= Latest(held[s])
ToCome(s) ==
  \/ pc = "commit" /\ s \in ToSet(got.todo)
  \/ \E i \in DOMAIN queue : (pc = "get" \/ i > 1) /\ s \in ToSet(queue[i].symbols)
NoneDropped == \A s \in call.wanted : Served(s) \/ ToCome(s)

SyncInv == SyncTyped /\ Staging /\ Reaching /\ NoneDropped

-----------------------------------------------------------------------------
(* Numbers, sequences, pages. *)

\* Earliest and latest are of the set and bound it.
LEMMA Extremes ==
  ASSUME NEW S, S \subseteq Periods, S # {}
  PROVE  /\ Earliest(S) \in S /\ \A c \in S : Earliest(S) <= c
         /\ Latest(S) \in S /\ \A c \in S : c <= Latest(S)
<1>1. IsFiniteSet(S) /\ S \subseteq Nat /\ \A s \in S : s <= Horizon /\ Horizon \in Nat
  <2>1. IsFiniteSet(1..Horizon) /\ Horizon \in Nat
    BY SyncAssumption, FS_Interval
  <2>2. IsFiniteSet(S)
    BY <2>1, FS_Subset DEF Periods
  <2> QED BY <2>1, <2>2 DEF Periods
<1>2. \E b \in S : \A c \in S : b <= c
  BY <1>1, NatMin
<1>3. \E b \in S : \A c \in S : c <= b
  <2> QED BY <1>1, NatMax
<1> QED BY <1>2, <1>3 DEF Earliest, Latest

\* What is kept of a sequence is what it has at those positions.
LEMMA KeptRange ==
  ASSUME NEW S, NEW seq \in Seq(S), NEW at \in SUBSET DOMAIN seq
  PROVE  Kept(seq, at) \in Seq(S) /\ ToSet(Kept(seq, at)) = {seq[i] : i \in at}
<1> DEFINE kept == Kept(seq, at)
<1>1. kept \in Seq(S)
  BY KeptInOrder
<1>2. PICK e \in [1..Len(kept) -> at] :
        /\ \A k \in 1..Len(kept) : kept[k] = seq[e[k]]
        /\ \A i \in at : \E k \in 1..Len(kept) : e[k] = i
  BY KeptInOrder
<1> HIDE DEF kept
<1>3. ToSet(kept) = {kept[k] : k \in 1..Len(kept)}
  BY <1>1 DEF ToSet
<1>4. {kept[k] : k \in 1..Len(kept)} = {seq[i] : i \in at}
  BY <1>2
<1> QED BY <1>1, <1>3, <1>4 DEF kept

\* A quotient is the last multiple that fits.
LEMMA Quotient ==
  \A a \in Nat, m \in Nat \ {0} : a \div m \in Nat /\ (a \div m) * m <= a /\ a < (a \div m) * m + m
  OBVIOUS

\* The chunks of a group ask from its start for its symbols, each in one.
Chunked(all, from, group) ==
  /\ all \in Seq(Requests)
  /\ \A i \in DOMAIN all : all[i].from = from /\ ToSet(all[i].symbols) \subseteq ToSet(group)
  /\ \A s \in ToSet(group) : \E i \in DOMAIN all : s \in ToSet(all[i].symbols)

LEMMA ChunksCover ==
  ASSUME NEW from \in Periods, NEW group \in Seq(Symbols)
  PROVE  Chunked(Chunks(from, group), from, group)
<1> DEFINE L == Len(group)
           M == MaxSymbols
           n == ChunkCount(group)
           lo(i) == (i - 1) * M + 1
           hi(i) == IF i * M < L THEN i * M ELSE L
           part(i) == SubSeq(group, lo(i), hi(i))
           all == Chunks(from, group)
<1>1. L \in Nat /\ M \in Nat \ {0} /\ DOMAIN group = 1..L /\ \A j \in 1..L : group[j] \in Symbols
  BY SyncAssumption
<1>2. n \in Nat /\ n * M <= L + M - 1 /\ L - 1 < n * M
  <2>1. L + M - 1 \in Nat
    BY <1>1
  <2>2. (L + M - 1) \div M \in Nat /\ ((L + M - 1) \div M) * M <= L + M - 1
        /\ L + M - 1 < ((L + M - 1) \div M) * M + M
    BY <1>1, <2>1, Quotient
  <2>3. n = (L + M - 1) \div M
    BY DEF ChunkCount
  <2>4. n \in Nat /\ n * M <= L + M - 1 /\ L + M - 1 < n * M + M
    <3> HIDE DEF n
    <3> QED BY <2>2, <2>3
  <2>5. n * M \in Nat
    BY <1>1, <2>4
  <2> DEFINE p == n * M
  <2> HIDE DEF n, p, L, M
  <2>6. p \in Nat /\ p <= L + M - 1 /\ L + M - 1 < p + M
    BY <2>4, <2>5 DEF p
  <2>7. L - 1 < p
    BY <1>1, <2>6
  <2> QED BY <2>4, <2>7 DEF p
<1> HIDE DEF n
<1>3. ASSUME NEW i \in 1..n
      PROVE  lo(i) \in Nat /\ 1 <= lo(i) /\ lo(i) <= hi(i) /\ hi(i) \in Nat /\ hi(i) <= L
  <2>1. i \in Nat /\ i - 1 \in Nat /\ i <= n /\ M \in Nat
    BY <1>1, <1>2
  <2>2. i * M \in Nat /\ i * M <= n * M /\ n * M \in Nat
    BY <1>2, <2>1, TimesGrows
  <2>3. (i - 1) * M \in Nat /\ i * M = (i - 1) * M + M
    BY <1>1, <2>1
  <2> DEFINE a == (i - 1) * M
             b == i * M
             c == n * M
  <2> HIDE DEF a, b, c, L, M
  <2>4. a \in Nat /\ b = a + M /\ b <= c /\ c \in Nat /\ c <= L + M - 1 /\ M \in Nat \ {0} /\ L \in Nat
    BY <1>1, <1>2, <2>2, <2>3 DEF a, b, c
  <2>5. a + 1 <= L /\ a + 1 <= b
    BY <2>4
  <2> QED BY <2>4, <2>5 DEF a, b
<1>4. all = [i \in 1..n |-> [from |-> from, symbols |-> part(i)]]
  BY DEF Chunks, n
<1>5. ASSUME NEW i \in 1..n
      PROVE  /\ part(i) \in Seq(Symbols) \ {<<>>}
             /\ ToSet(part(i)) = {group[j] : j \in lo(i)..hi(i)}
  <2> DEFINE a == lo(i)
             b == hi(i)
  <2>1. a \in Nat /\ 1 <= a /\ a <= b /\ b \in Nat /\ b <= L
    BY <1>3
  <2> HIDE DEF a, b
  <2>2. \A j \in a..b : j \in 1..L
    BY <1>1, <2>1
  <2>3. \A j \in a..b : group[j] \in Symbols
    <3> HIDE DEF L
    <3> QED BY <1>1, <2>2
  <2>4. /\ SubSeq(group, a, b) \in Seq(Symbols) /\ Len(SubSeq(group, a, b)) = b - a + 1
        /\ \A k \in 1..b - a + 1 : SubSeq(group, a, b)[k] = group[a + k - 1]
    BY <2>1, <2>3, SubSeqProperties
  <2>5. SubSeq(group, a, b) # <<>>
    BY <2>1, <2>4
  <2> DEFINE q == SubSeq(group, a, b)
  <2>6. DOMAIN q = 1..b - a + 1
    <3> HIDE DEF q
    <3>1. q \in Seq(Symbols) /\ Len(q) = b - a + 1
      BY <2>4 DEF q
    <3> QED BY <3>1
  <2>7. ToSet(q) = {group[j] : j \in a..b}
    <3>1. \A k \in 1..b - a + 1 : a + k - 1 \in a..b
      BY <2>1
    <3>2. \A j \in a..b : j - a + 1 \in 1..b - a + 1 /\ a + (j - a + 1) - 1 = j
      BY <2>1
    <3>3. \A k \in DOMAIN q : q[k] = group[a + k - 1]
      BY <2>4, <2>6
    <3>4. \A k \in DOMAIN q : q[k] \in {group[j] : j \in a..b}
      BY <3>1, <3>3, <2>6
    <3>5. \A j \in a..b : group[j] = q[j - a + 1] /\ j - a + 1 \in DOMAIN q
      <4> SUFFICES ASSUME NEW j \in a..b PROVE group[j] = q[j - a + 1] /\ j - a + 1 \in DOMAIN q
        OBVIOUS
      <4> DEFINE k == j - a + 1
      <4>1. k \in DOMAIN q /\ a + k - 1 = j
        BY <2>6, <3>2
      <4> HIDE DEF k, q
      <4>2. q[k] = group[a + k - 1]
        BY <4>1, <3>3
      <4> QED BY <4>1, <4>2 DEF k
    <3> HIDE DEF q
    <3>6. ToSet(q) = {q[k] : k \in DOMAIN q}
      BY DEF ToSet
    <3> QED BY <3>4, <3>5, <3>6
  <2> QED BY <2>4, <2>5, <2>7 DEF a, b
<1>6. all \in Seq(Requests) /\ DOMAIN all = 1..n
  <2> HIDE DEF part
  <2>1. \A i \in 1..n : [from |-> from, symbols |-> part(i)] \in Requests
    <3> SUFFICES ASSUME NEW i \in 1..n PROVE [from |-> from, symbols |-> part(i)] \in Requests
      OBVIOUS
    <3>1. part(i) \in Seq(Symbols) \ {<<>>}
      BY <1>5
    <3> DEFINE S == Seq(Symbols) \ {<<>>}
               q == part(i)
    <3>2. q \in S
      BY <3>1
    <3> HIDE DEF S, q
    <3>3. [from |-> from, symbols |-> q] \in [from : Periods, symbols : S]
      BY <3>2
    <3> QED BY <3>3 DEF S, q, Requests
  <2> HIDE DEF all
  <2> QED BY <1>2, <1>4, <2>1
<1>7. \A i \in 1..n : all[i].from = from /\ all[i].symbols = part(i)
  <2> HIDE DEF part, all
  <2> QED BY <1>4
<1>8. \A i \in 1..n : ToSet(part(i)) \subseteq ToSet(group)
  <2> SUFFICES ASSUME NEW i \in 1..n, NEW j \in lo(i)..hi(i) PROVE group[j] \in ToSet(group)
    <3> HIDE DEF part, lo, hi
    <3> QED BY <1>5
  <2>1. j \in 1..L
    <3> HIDE DEF lo, hi
    <3> QED BY <1>1, <1>3
  <2> QED BY <1>1, <2>1 DEF ToSet
<1>9. \A s \in ToSet(group) : \E i \in 1..n : s \in ToSet(part(i))
  <2> SUFFICES ASSUME NEW j \in 1..L PROVE \E i \in 1..n : group[j] \in ToSet(part(i))
    BY <1>1 DEF ToSet
  <2> DEFINE q == (j - 1) \div M
             i == q + 1
  <2>1. q \in Nat /\ q * M <= j - 1 /\ j - 1 < q * M + M /\ q * M \in Nat
    <3>1. j - 1 \in Nat
      BY <1>1
    <3>2. q \in Nat /\ q * M <= j - 1 /\ j - 1 < q * M + M
      BY <1>1, <3>1, Quotient
    <3> HIDE DEF q
    <3> QED BY <1>1, <3>2
  <2> HIDE DEF q
  <2>2. (q + 1) * M = q * M + M
    BY <1>1, <2>1
  <2>3. q + 1 <= n
    <3> SUFFICES ASSUME n <= q PROVE FALSE
      BY <1>2, <2>1
    <3>1. n * M <= q * M /\ n * M \in Nat
      BY <1>1, <1>2, <2>1, TimesGrows
    <3> DEFINE a == n * M
               b == q * M
    <3> HIDE DEF a, b, L
    <3>2. a \in Nat /\ b \in Nat /\ a <= b /\ b <= j - 1 /\ L - 1 < a
      BY <1>2, <2>1, <3>1 DEF a, b
    <3> QED BY <1>1, <3>2
  <2>4. i \in 1..n
    BY <1>2, <2>1, <2>3
  <2>5. lo(i) <= j /\ j <= hi(i)
    <3> DEFINE b == q * M
    <3>1. lo(i) = b + 1 /\ (i * M = b + M)
      BY <2>1, <2>2
    <3>2. b \in Nat /\ b <= j - 1 /\ j - 1 < b + M
      BY <2>1
    <3> HIDE DEF b, lo, i, L, M
    <3>3. b + 1 <= j /\ j <= b + M /\ j <= L
      BY <1>1, <3>2
    <3> QED BY <3>1, <3>3
  <2>6. j \in lo(i)..hi(i)
    <3> HIDE DEF lo, hi, i
    <3> QED BY <1>1, <1>3, <2>4, <2>5
  <2> HIDE DEF i, lo, hi, part
  <2> QED BY <1>5, <2>4, <2>6
<1> HIDE DEF part, all
<1>10. \A i \in DOMAIN all : all[i].from = from /\ ToSet(all[i].symbols) \subseteq ToSet(group)
  BY <1>6, <1>7, <1>8
<1>11. \A s \in ToSet(group) : \E i \in DOMAIN all : s \in ToSet(all[i].symbols)
  BY <1>6, <1>7, <1>9
<1>12. Chunked(all, from, group)
  BY <1>6, <1>10, <1>11 DEF Chunked
<1> QED BY <1>12 DEF all

\* The distinct names of a list are symbols.
LEMMA WantedTyped == ASSUME NEW list \in Lists PROVE Wanted(list) \in Seq(Symbols)
<1> DEFINE names == [i \in DOMAIN list |-> Upper[list[i]]]
           at == {i \in DOMAIN names : names[i] # None /\ \A j \in 1..i - 1 : names[j] # names[i]}
           wanted == Kept(names, at)
<1>1. list \in Seq(DOMAIN Upper)
  BY SyncAssumption
<1>2. names \in Seq(Symbols \cup {None})
  <2>1. DOMAIN list = 1..Len(list) /\ Len(list) \in Nat /\ \A i \in 1..Len(list) : list[i] \in DOMAIN Upper
    BY <1>1
  <2>2. \A i \in 1..Len(list) : Upper[list[i]] \in Symbols \cup {None}
    BY <2>1, SyncAssumption
  <2> QED BY <2>1, <2>2
<1>3. at \in SUBSET DOMAIN names /\ \A i \in at : names[i] # None
  <2> HIDE DEF names
  <2> QED OBVIOUS
<1>4. wanted \in Seq(Symbols \cup {None}) /\ ToSet(wanted) = {names[i] : i \in at}
  <2> HIDE DEF names, at
  <2> QED BY <1>2, <1>3, KeptRange
<1>5. ToSet(wanted) \subseteq Symbols
  <2>1. \A i \in at : names[i] \in Symbols
    <3> HIDE DEF names, at
    <3>1. \A i \in DOMAIN names : names[i] \in Symbols \cup {None}
      BY <1>2
    <3> QED BY <1>3, <3>1
  <2> HIDE DEF names, at, wanted
  <2> QED BY <1>4, <2>1
<1>6. wanted \in Seq(Symbols)
  <2> HIDE DEF wanted
  <2>1. \A i \in 1..Len(wanted) : wanted[i] \in Symbols
    <3>1. \A i \in DOMAIN wanted : wanted[i] \in ToSet(wanted)
      BY DEF ToSet
    <3>2. DOMAIN wanted = 1..Len(wanted)
      BY <1>4
    <3> QED BY <1>5, <3>1, <3>2
  <2>2. wanted = [i \in 1..Len(wanted) |-> wanted[i]] /\ Len(wanted) \in Nat
    BY <1>4
  <2> QED BY <2>1, <2>2
<1>7. Wanted(list) = wanted
  BY DEF Wanted
<1> HIDE DEF wanted
<1> QED BY <1>6, <1>7

\* What a call must make of its symbols: requests for them alone, each from a
\* start that fits them, and one for every symbol.
Covers(all, wanted, start, full) ==
  /\ all \in Seq(Requests)
  /\ \A i \in DOMAIN all :
       /\ ToSet(all[i].symbols) \subseteq ToSet(wanted)
       /\ \A s \in ToSet(all[i].symbols) : FitsFor(s, all[i].from, start, full)
  /\ \A s \in ToSet(wanted) : \E i \in DOMAIN all : s \in ToSet(all[i].symbols)

\* Chunks of two parts of what is wanted cover it.
LEMMA TwoPartsCover ==
  ASSUME NEW wanted \in Seq(Symbols), NEW start, NEW full,
         NEW all, NEW all1 \in Seq(Requests), NEW all2 \in Seq(Requests), all = all1 \o all2,
         NEW part1, NEW part2, part1 \cup part2 = ToSet(wanted),
         \A i \in DOMAIN all1 :
           /\ ToSet(all1[i].symbols) \subseteq part1
           /\ \A s \in ToSet(all1[i].symbols) : FitsFor(s, all1[i].from, start, full),
         \A s \in part1 : \E i \in DOMAIN all1 : s \in ToSet(all1[i].symbols),
         \A i \in DOMAIN all2 :
           /\ ToSet(all2[i].symbols) \subseteq part2
           /\ \A s \in ToSet(all2[i].symbols) : FitsFor(s, all2[i].from, start, full),
         \A s \in part2 : \E i \in DOMAIN all2 : s \in ToSet(all2[i].symbols)
  PROVE  Covers(all, wanted, start, full)
<1> DEFINE m == Len(all1)
           n == Len(all2)
<1>1. /\ all \in Seq(Requests) /\ Len(all) = m + n
      /\ \A i \in 1..m + n : all[i] = IF i <= m THEN all1[i] ELSE all2[i - m]
  BY ConcatProperties
<1>2. /\ m \in Nat /\ n \in Nat /\ DOMAIN all1 = 1..m /\ DOMAIN all2 = 1..n
      /\ DOMAIN all = 1..m + n
  BY <1>1
<1> HIDE DEF m, n
<1>3. \A i \in DOMAIN all :
        \/ i \in DOMAIN all1 /\ all[i] = all1[i]
        \/ i - m \in DOMAIN all2 /\ all[i] = all2[i - m]
  BY <1>1, <1>2
<1>4. /\ \A i \in DOMAIN all1 : i \in DOMAIN all /\ all[i] = all1[i]
      /\ \A i \in DOMAIN all2 : i + m \in DOMAIN all /\ all[i + m] = all2[i]
  BY <1>1, <1>2
<1>5. \A i \in DOMAIN all :
       /\ ToSet(all[i].symbols) \subseteq ToSet(wanted)
       /\ \A s \in ToSet(all[i].symbols) : FitsFor(s, all[i].from, start, full)
  <2> SUFFICES ASSUME NEW i \in DOMAIN all
               PROVE  /\ ToSet(all[i].symbols) \subseteq ToSet(wanted)
                      /\ \A s \in ToSet(all[i].symbols) : FitsFor(s, all[i].from, start, full)
    OBVIOUS
  <2>1. CASE i \in DOMAIN all1 /\ all[i] = all1[i]
    BY <2>1
  <2>2. CASE i - m \in DOMAIN all2 /\ all[i] = all2[i - m]
    <3> DEFINE k == i - m
    <3>1. k \in DOMAIN all2 /\ all[i] = all2[k]
      BY <2>2
    <3> HIDE DEF k
    <3> QED BY <3>1
  <2> QED BY <1>3, <2>1, <2>2
<1>6. \A s \in ToSet(wanted) : \E i \in DOMAIN all : s \in ToSet(all[i].symbols)
  <2> SUFFICES ASSUME NEW s \in ToSet(wanted) PROVE \E i \in DOMAIN all : s \in ToSet(all[i].symbols)
    OBVIOUS
  <2>1. CASE s \in part1
    BY <1>4, <2>1
  <2>2. CASE s \in part2
    <3>1. PICK i \in DOMAIN all2 : s \in ToSet(all2[i].symbols)
      BY <2>2
    <3>2. i + m \in DOMAIN all /\ all[i + m] = all2[i]
      BY <1>4
    <3> QED BY <3>1, <3>2
  <2> QED BY <2>1, <2>2
<1> QED BY <1>1, <1>5, <1>6 DEF Covers

\* The start the warm symbols share is a period at or before each one's last bar.
LEMMA SharedStartFits ==
  ASSUME held \in [Symbols -> SUBSET Periods], NEW warm \in Seq(Symbols), warm # <<>>,
         \A s \in ToSet(warm) : held[s] # {}
  PROVE  SharedStart(warm) \in Periods /\ \A s \in ToSet(warm) : SharedStart(warm) <= Latest(held[s])
<1> DEFINE ends == {Latest(held[s]) : s \in ToSet(warm)}
<1>1. ToSet(warm) \subseteq Symbols /\ ToSet(warm) # {}
  <2>1. DOMAIN warm = 1..Len(warm) /\ Len(warm) \in Nat /\ Len(warm) # 0
        /\ \A i \in 1..Len(warm) : warm[i] \in Symbols
    OBVIOUS
  <2>2. 1 \in DOMAIN warm
    BY <2>1
  <2>3. ToSet(warm) = {warm[i] : i \in DOMAIN warm}
    BY DEF ToSet
  <2> QED BY <2>1, <2>2, <2>3
<1>2. \A s \in ToSet(warm) : Latest(held[s]) \in Periods
  <2> SUFFICES ASSUME NEW s \in ToSet(warm) PROVE Latest(held[s]) \in Periods
    OBVIOUS
  <2>1. held[s] \subseteq Periods /\ held[s] # {}
    BY <1>1
  <2> QED BY <2>1, Extremes
<1>3. ends \subseteq Periods /\ ends # {}
  BY <1>1, <1>2
<1>4. Earliest(ends) \in ends /\ \A c \in ends : Earliest(ends) <= c
  <2> HIDE DEF ends
  <2> QED BY <1>3, Extremes
<1>5. SharedStart(warm) = Earliest(ends)
  BY DEF SharedStart
<1>6. \A s \in ToSet(warm) : Latest(held[s]) \in ends
  OBVIOUS
<1> HIDE DEF ends
<1> QED BY <1>3, <1>4, <1>5, <1>6

\* The multi-symbol sync asks for every symbol, the warm from where they share.
LEMMA BatchesCover ==
  ASSUME held \in [Symbols -> SUBSET Periods], NEW wanted \in Seq(Symbols),
         NEW start \in Periods, NEW full \in BOOLEAN
  PROVE  Covers(Batches(wanted, start, full), wanted, start, full)
<1> DEFINE at == {i \in DOMAIN wanted : ~full /\ IsWarm(wanted[i], start)}
           warm == Kept(wanted, at)
           cold == Kept(wanted, DOMAIN wanted \ at)
           all1 == IF warm = <<>> THEN <<>> ELSE Chunks(SharedStart(warm), warm)
           all2 == Chunks(start, cold)
<1>1. at \in SUBSET DOMAIN wanted /\ DOMAIN wanted \ at \in SUBSET DOMAIN wanted
  OBVIOUS
<1>2. warm \in Seq(Symbols) /\ ToSet(warm) = {wanted[i] : i \in at}
  <2> HIDE DEF at
  <2> QED BY <1>1, KeptRange
<1>3. cold \in Seq(Symbols) /\ ToSet(cold) = {wanted[i] : i \in DOMAIN wanted \ at}
  <2> HIDE DEF at
  <2> QED BY <1>1, KeptRange
<1>4. /\ \A s \in ToSet(warm) : s \in Symbols /\ held[s] # {} /\ start >= Earliest(held[s])
      /\ \A s \in ToSet(cold) : s \in Symbols /\ (full \/ held[s] = {} \/ ~(start >= Earliest(held[s])))
  <2>1. \A i \in DOMAIN wanted : wanted[i] \in Symbols
    OBVIOUS
  <2>2. \A i \in at : wanted[i] \in Symbols /\ held[wanted[i]] # {} /\ start >= Earliest(held[wanted[i]])
    BY <2>1 DEF IsWarm
  <2>3. \A i \in DOMAIN wanted \ at :
          wanted[i] \in Symbols /\ (full \/ held[wanted[i]] = {} \/ ~(start >= Earliest(held[wanted[i]])))
    BY <2>1 DEF IsWarm
  <2> HIDE DEF at, warm, cold
  <2> QED BY <1>2, <1>3, <2>2, <2>3
<1>5. ToSet(warm) \cup ToSet(cold) = ToSet(wanted)
  <2>1. ToSet(wanted) = {wanted[i] : i \in DOMAIN wanted}
    BY DEF ToSet
  <2> HIDE DEF at, warm, cold
  <2> QED BY <1>1, <1>2, <1>3, <2>1
<1>6. /\ all1 \in Seq(Requests)
      /\ \A i \in DOMAIN all1 :
           /\ ToSet(all1[i].symbols) \subseteq ToSet(warm)
           /\ \A s \in ToSet(all1[i].symbols) : FitsFor(s, all1[i].from, start, full)
      /\ \A s \in ToSet(warm) : \E i \in DOMAIN all1 : s \in ToSet(all1[i].symbols)
  <2> HIDE DEF warm, at
  <2>1. CASE warm = <<>>
    <3>1. all1 = <<>> /\ ToSet(warm) = {}
      BY <2>1 DEF ToSet
    <3> HIDE DEF all1
    <3>2. all1 \in Seq(Requests) /\ DOMAIN all1 = {}
      BY <3>1
    <3> QED BY <3>1, <3>2
  <2>2. CASE warm # <<>>
    <3> DEFINE from == SharedStart(warm)
    <3>1. from \in Periods /\ \A s \in ToSet(warm) : from <= Latest(held[s])
      BY <1>2, <1>4, <2>2, SharedStartFits
    <3>2. all1 = Chunks(from, warm)
      BY <2>2
    <3> HIDE DEF from, all1
    <3>3. /\ all1 \in Seq(Requests)
          /\ \A i \in DOMAIN all1 : all1[i].from = from /\ ToSet(all1[i].symbols) \subseteq ToSet(warm)
          /\ \A s \in ToSet(warm) : \E i \in DOMAIN all1 : s \in ToSet(all1[i].symbols)
      <4> DEFINE made == Chunks(from, warm)
      <4>1. /\ made \in Seq(Requests)
            /\ \A i \in DOMAIN made : made[i].from = from /\ ToSet(made[i].symbols) \subseteq ToSet(warm)
            /\ \A s \in ToSet(warm) : \E i \in DOMAIN made : s \in ToSet(made[i].symbols)
        <5>1. Chunked(made, from, warm)
          BY <1>2, <3>1, ChunksCover
        <5> QED BY <5>1 DEF Chunked
      <4> HIDE DEF made
      <4> QED BY <3>2, <4>1 DEF made
    <3>4. \A s \in ToSet(warm) : FitsFor(s, from, start, full)
      <4> SUFFICES ASSUME NEW s \in ToSet(warm) PROVE FitsFor(s, from, start, full)
        OBVIOUS
      <4>1. held[s] # {} /\ start >= Earliest(held[s]) /\ from <= Latest(held[s])
        BY <1>4, <3>1
      <4>2. held[s] \subseteq Periods
        BY <1>4
      <4>3. Earliest(held[s]) \in Nat /\ start \in Nat
        BY <4>1, <4>2, Extremes DEF Periods
      <4>4. Earliest(held[s]) <= start
        BY <4>1, <4>3
      <4> QED BY <4>1, <4>4 DEF FitsFor
    <3> QED BY <3>3, <3>4
  <2> QED BY <2>1, <2>2
<1>7. /\ all2 \in Seq(Requests)
      /\ \A i \in DOMAIN all2 :
           /\ ToSet(all2[i].symbols) \subseteq ToSet(cold)
           /\ \A s \in ToSet(all2[i].symbols) : FitsFor(s, all2[i].from, start, full)
      /\ \A s \in ToSet(cold) : \E i \in DOMAIN all2 : s \in ToSet(all2[i].symbols)
  <2> HIDE DEF cold, at, all2
  <2>1. /\ all2 \in Seq(Requests)
        /\ \A i \in DOMAIN all2 : all2[i].from = start /\ ToSet(all2[i].symbols) \subseteq ToSet(cold)
        /\ \A s \in ToSet(cold) : \E i \in DOMAIN all2 : s \in ToSet(all2[i].symbols)
    <3> DEFINE made == Chunks(start, cold)
    <3>1. /\ made \in Seq(Requests)
          /\ \A i \in DOMAIN made : made[i].from = start /\ ToSet(made[i].symbols) \subseteq ToSet(cold)
          /\ \A s \in ToSet(cold) : \E i \in DOMAIN made : s \in ToSet(made[i].symbols)
      <4>1. Chunked(made, start, cold)
        BY <1>3, ChunksCover
      <4> QED BY <4>1 DEF Chunked
    <3>2. all2 = made
      BY DEF all2
    <3> HIDE DEF made
    <3> QED BY <3>1, <3>2
  <2>2. \A s \in ToSet(cold) : FitsFor(s, start, start, full)
    <3> SUFFICES ASSUME NEW s \in ToSet(cold) PROVE FitsFor(s, start, start, full)
      OBVIOUS
    <3>1. full \/ held[s] = {} \/ ~(start >= Earliest(held[s]))
      BY <1>4
    <3>2. held[s] = {} \/ full \/ start <= Latest(held[s])
      <4> SUFFICES ASSUME held[s] # {}, ~(start >= Earliest(held[s])) PROVE start <= Latest(held[s])
        BY <3>1
      <4>1. held[s] \subseteq Periods
        BY <1>4
      <4>2. Earliest(held[s]) <= Latest(held[s]) /\ Earliest(held[s]) \in Nat /\ Latest(held[s]) \in Nat /\ start \in Nat
        BY <4>1, Extremes DEF Periods
      <4> QED BY <4>2
    <3> QED BY <3>2 DEF FitsFor
  <2> QED BY <2>1, <2>2
<1>8. Batches(wanted, start, full) = all1 \o all2
  BY DEF Batches
<1> HIDE DEF all1, all2, warm, cold
<1> QED BY <1>5, <1>6, <1>7, <1>8, TwoPartsCover

\* The single-symbol sync asks for its symbol.
LEMMA ResumedCovers ==
  ASSUME held \in [Symbols -> SUBSET Periods], NEW wanted \in Seq(Symbols), Len(wanted) = 1,
         NEW start \in Periods, NEW full \in BOOLEAN
  PROVE  Covers(Resumed(Head(wanted), start, full), wanted, start, full)
<1> DEFINE s == Head(wanted)
           from == IF ~full /\ IsWarm(s, start) THEN Latest(held[s]) ELSE start
           all == <<[from |-> from, symbols |-> <<s>>]>>
<1>1. s \in Symbols /\ wanted = <<s>>
  <2>1. wanted # <<>>
    <3> SUFFICES ASSUME wanted = <<>> PROVE FALSE
      OBVIOUS
    <3>1. Len(wanted) = 0
      OBVIOUS
    <3> QED BY <3>1
  <2> QED BY <2>1
<1> HIDE DEF s
<1>2. ToSet(<<s>>) = {s} /\ <<s>> \in Seq(Symbols) \ {<<>>}
  BY <1>1 DEF ToSet
<1>3. held[s] \subseteq Periods
  BY <1>1
<1>4. from \in Periods /\ FitsFor(s, from, start, full)
  <2>1. CASE ~full /\ IsWarm(s, start)
    <3>1. from = Latest(held[s])
      BY <2>1
    <3>2. held[s] # {} /\ start >= Earliest(held[s])
      BY <2>1 DEF IsWarm
    <3>3. Latest(held[s]) \in Periods /\ Earliest(held[s]) \in Periods
      BY <1>3, <3>2, Extremes
    <3>4. Earliest(held[s]) <= start /\ Latest(held[s]) <= Latest(held[s])
      BY <3>2, <3>3 DEF Periods
    <3> QED BY <3>1, <3>2, <3>3, <3>4 DEF FitsFor
  <2>2. CASE ~(~full /\ IsWarm(s, start))
    <3>1. from = start
      BY <2>2
    <3>2. held[s] = {} \/ full \/ start <= Latest(held[s])
      <4> SUFFICES ASSUME held[s] # {}, ~full, ~(start >= Earliest(held[s])) PROVE start <= Latest(held[s])
        BY <2>2 DEF IsWarm
      <4>1. Earliest(held[s]) <= Latest(held[s]) /\ Earliest(held[s]) \in Nat /\ Latest(held[s]) \in Nat /\ start \in Nat
        BY <1>3, Extremes DEF Periods
      <4> QED BY <4>1
    <3> QED BY <3>1, <3>2 DEF FitsFor
  <2> QED BY <2>1, <2>2
<1> HIDE DEF from
<1>5. all \in Seq(Requests) /\ DOMAIN all = {1} /\ all[1].from = from /\ all[1].symbols = <<s>>
  <2>1. [from |-> from, symbols |-> <<s>>] \in Requests
    BY <1>2, <1>4 DEF Requests
  <2>2. DOMAIN all = 1..1 /\ all[1] = [from |-> from, symbols |-> <<s>>]
    OBVIOUS
  <2>3. all \in Seq(Requests)
    BY <2>1
  <2> QED BY <2>2, <2>3
<1>6. ToSet(wanted) = {s}
  BY <1>1, <1>2
<1>7. Resumed(s, start, full) = all
  BY DEF Resumed, from
<1> HIDE DEF all
<1>8. Covers(all, wanted, start, full)
  BY <1>2, <1>4, <1>5, <1>6 DEF Covers
<1> QED BY <1>7, <1>8 DEF s

-----------------------------------------------------------------------------
(* The pages of a request. *)

\* The rows that answer the request in progress, and how many come before one.
LEMMA RowsRanked ==
  ASSUME SyncTyped, queue # <<>>
  PROVE  /\ Matching \subseteq Symbols \X Periods /\ IsFiniteSet(Matching)
         /\ Cardinality(Matching) \in Nat
         /\ \A row \in Matching : Rank(row) \in Nat /\ Rank(row) < Cardinality(Matching)
<1> DEFINE M == Matching
           asked == ToSet(Head(queue).symbols)
<1>1. Head(queue) \in Requests /\ call.end \in Periods
  <2>1. Head(queue) \in Requests
    BY DEF SyncTyped
  <2>2. call.end \in Nat /\ 1 <= call.end /\ call.end <= clock /\ clock \in Nat /\ clock <= Horizon /\ Horizon \in Nat
    BY SyncAssumption DEF SyncTyped, Periods
  <2> QED BY <2>1, <2>2 DEF Periods
<1>2. asked \subseteq Symbols /\ Head(queue).from \in Periods
  <2> DEFINE q == Head(queue)
  <2>1. q.symbols \in Seq(Symbols) /\ q.from \in Periods
    BY <1>1 DEF Requests
  <2> HIDE DEF q
  <2>2. \A i \in DOMAIN q.symbols : q.symbols[i] \in Symbols
    BY <2>1
  <2> QED BY <2>1, <2>2 DEF ToSet, q
<1>3. Head(queue).from .. call.end \subseteq Periods
  BY <1>1, <1>2, SyncAssumption DEF Periods
<1>4. M \subseteq Symbols \X Periods
  BY <1>2, <1>3 DEF Matching
<1>5. IsFiniteSet(Symbols \X Periods)
  <2>1. IsFiniteSet(Periods)
    BY SyncAssumption, FS_Interval DEF Periods
  <2> QED BY <2>1, SyncAssumption, FS_Product
<1>6. IsFiniteSet(M) /\ Cardinality(M) \in Nat
  BY <1>4, <1>5, FS_Subset, FS_CardinalityType
<1> HIDE DEF M
<1>7. ASSUME NEW row \in M
      PROVE  LET before == {q \in M : Before(q, row)}
             IN Cardinality(before) \in Nat /\ Cardinality(before) < Cardinality(M)
  <2> DEFINE before == {q \in M : Before(q, row)}
             rest == M \ {row}
  <2>1. row[1] \in Nat /\ row[2] \in Nat
    <3>1. row \in Symbols \X Periods
      BY <1>4
    <3>2. row[1] \in Symbols /\ row[2] \in Periods
      BY <3>1
    <3>3. Symbols \subseteq Nat /\ Periods \subseteq Nat
      BY SyncAssumption DEF Periods
    <3> QED BY <3>2, <3>3
  <2>2. ~ Before(row, row)
    BY <2>1 DEF Before
  <2>3. before \subseteq rest
    BY <2>2
  <2>4. IsFiniteSet(rest) /\ Cardinality(rest) = Cardinality(M) - 1
    BY <1>6, FS_RemoveElement
  <2> HIDE DEF before, rest
  <2>5. Cardinality(before) \in Nat /\ Cardinality(before) <= Cardinality(rest)
    BY <2>3, <2>4, FS_Subset, FS_CardinalityType
  <2>6. Cardinality(before) < Cardinality(M)
    BY <1>6, <2>4, <2>5
  <2> QED BY <2>5, <2>6 DEF before
<1> QED BY <1>4, <1>6, <1>7 DEF M, Rank

\* A page brings what comes next of a request's rows, and the last one the rest.
LEMMA PageStages ==
  ASSUME SyncTyped, Staging, pc = "get"
  PROVE  /\ Page(got.token) \subseteq Matching /\ got.rows \subseteq Matching
         /\ \A row \in Matching :
              Rank(row) < got.token * PageSize => row \in got.rows \cup Page(got.token)
         /\ NextToken(got.token) = None => got.rows \cup Page(got.token) = Matching
         /\ NextToken(got.token) # None => NextToken(got.token) = got.token + 1
<1> DEFINE t == got.token
           size == PageSize
<1>1. t \in Nat \ {0} /\ size \in Nat \ {0}
  BY SyncAssumption DEF SyncTyped, Progress
<1>2. queue # <<>>
  BY DEF SyncTyped
<1>3. got.rows \subseteq Matching
      /\ \A row \in Matching : Rank(row) \in 0..(t - 1) * size - 1 => row \in got.rows
  BY DEF Staging, Behind
<1>4. \A row \in Matching : Rank(row) \in Nat /\ Rank(row) < Cardinality(Matching)
  BY <1>2, RowsRanked
<1>5. Cardinality(Matching) \in Nat
  BY <1>2, RowsRanked
<1>6. Page(t) = {r \in Matching : Rank(r) \in (t - 1) * size .. t * size - 1}
  BY DEF Page, Rank
<1> HIDE DEF t, size
<1>7. (t - 1) * size \in Nat /\ t * size \in Nat
  <2>1. t - 1 \in Nat
    BY <1>1
  <2> QED BY <1>1, <2>1
<1>8. \A row \in Matching : Rank(row) < t * size => row \in got.rows \cup Page(t)
  <2> SUFFICES ASSUME NEW row \in Matching, Rank(row) < t * size PROVE row \in got.rows \cup Page(t)
    OBVIOUS
  <2> DEFINE r == Rank(row)
             a == (t - 1) * size
             b == t * size
  <2>1. r \in Nat /\ a \in Nat /\ b \in Nat /\ r < b
    BY <1>4, <1>7
  <2>2. CASE r < a
    <3> HIDE DEF r, a, b
    <3>1. r \in 0..a - 1
      BY <2>1, <2>2
    <3> QED BY <1>3, <3>1 DEF r, a
  <2>3. CASE ~ (r < a)
    <3> HIDE DEF r, a, b
    <3>1. r \in a..b - 1
      BY <2>1, <2>3
    <3> QED BY <1>6, <3>1 DEF r, a, b
  <2> QED BY <2>2, <2>3
<1>9. Page(t) \subseteq Matching
  BY <1>6
<1>10. NextToken(t) = IF Cardinality(Matching) > t * size THEN t + 1 ELSE None
  BY DEF NextToken, size
<1>11. NextToken(t) # None => NextToken(t) = t + 1
  BY <1>10
<1>12. ASSUME NextToken(t) = None PROVE got.rows \cup Page(t) = Matching
  <2>1. ~ (Cardinality(Matching) > t * size)
    <3>1. t + 1 # None
      BY <1>1, SyncAssumption
    <3> QED BY <1>10, <1>12, <3>1
  <2>2. \A row \in Matching : Rank(row) < t * size
    BY <1>4, <1>5, <1>7, <2>1
  <2> QED BY <1>3, <1>8, <1>9, <2>2
<1> QED BY <1>3, <1>8, <1>9, <1>11, <1>12 DEF t, size

-----------------------------------------------------------------------------
(* Every action preserves the invariant. *)

\* A request starts with nothing staged.
LEMMA NothingStaged ==
  /\ Nothing \in Progress
  /\ Nothing.rows = {} /\ Nothing.todo = <<>> /\ Nothing.token = 1 /\ Nothing.seen = {}
<1>1. <<>> \in Seq(Symbols)
  OBVIOUS
<1> QED BY <1>1 DEF Nothing, Progress

\* The rows of a request are the same while it is.
LEMMA SameRows ==
  ASSUME Head(queue)' = Head(queue), call' = call, venue' = venue
  PROVE  Matching' = Matching /\ \A row, t : Behind(row, t)' = Behind(row, t)
<1>1. Matching' = Matching
  BY DEF Matching
<1> QED BY <1>1 DEF Behind, Rank, Before

\* No row comes before the first page.
LEMMA NoneBehind == \A row : ~ Behind(row, 1)'
<1>1. (1 - 1) * PageSize - 1 = -1
  BY SyncAssumption
<1>2. \A x : x \notin 0..-1
  OBVIOUS
<1> QED BY <1>1, <1>2 DEF Behind

\* An exception loses what was staged and keeps what was committed.
LEMMA FailKeeps == ASSUME SyncInv, Fail PROVE SyncInv'
<1>1. /\ pc' = "idle" /\ outcome' = "failed" /\ call' = NoCall /\ queue' = <<>> /\ got' = Nothing
      /\ clock' = clock /\ venue' = venue /\ held' = held
  BY DEF Fail
<1>2. SyncTyped'
  <2>1. clock \in Periods /\ venue \in [Symbols -> SUBSET (1..clock)]
        /\ held \in [Symbols -> SUBSET Periods] /\ \A s \in Symbols : held[s] \subseteq venue[s]
    BY DEF SyncInv, SyncTyped
  <2>2. 1 \in Periods /\ 1 \in 1..clock
    BY <2>1, SyncAssumption DEF Periods
  <2>3. NoCall.wanted = {} /\ NoCall.start = 1 /\ NoCall.end = 1 /\ NoCall.full = FALSE /\ NoCall.mode = "multi"
    BY DEF NoCall
  <2>4. <<>> \in Seq(Requests) /\ DOMAIN <<>> = {}
    OBVIOUS
  <2> QED BY <1>1, <2>1, <2>2, <2>3, <2>4, NothingStaged DEF SyncTyped
<1>3. Staging'
  BY <1>1 DEF Staging
<1>4. Reaching'
  <2>1. DOMAIN queue' = {}
    BY <1>1
  <2> QED BY <2>1 DEF Reaching
<1>5. NoneDropped'
  BY <1>1 DEF NoneDropped, NoCall
<1> QED BY <1>2, <1>3, <1>4, <1>5 DEF SyncInv

\* A 429 that is slept through changes only how often the page was tried.
LEMMA LimitedKeeps == ASSUME SyncInv, Limited PROVE SyncInv'
<1>1. CASE Fail
  BY <1>1, FailKeeps
<1>2. CASE ~ Fail
  <2>1. /\ pc = "get" /\ got' = [got EXCEPT !.attempt = @ + 1]
        /\ clock' = clock /\ venue' = venue /\ held' = held /\ call' = call
        /\ queue' = queue /\ pc' = pc /\ outcome' = outcome
    BY <1>2 DEF Limited
  <2>2. got \in Progress
    BY DEF SyncInv, SyncTyped
  <2>3. got' \in Progress /\ got'.rows = got.rows /\ got'.todo = got.todo /\ got'.token = got.token
        /\ got'.seen = got.seen
    <3> DEFINE attempt == got.attempt + 1
    <3>1. got.attempt \in Nat
      BY <2>2 DEF Progress
    <3>2. attempt \in Nat /\ got' = [got EXCEPT !.attempt = attempt]
      BY <2>1, <3>1
    <3> HIDE DEF attempt
    <3> QED BY <2>2, <3>2 DEF Progress
  <2>4. SyncTyped'
    BY <2>1, <2>3 DEF SyncInv, SyncTyped
  <2>5. Matching' = Matching /\ \A row, t : Behind(row, t)' = Behind(row, t)
    BY <2>1, SameRows
  <2>6. Staging'
    BY <2>1, <2>3, <2>5 DEF SyncInv, Staging
  <2>7. Reaching'
    BY <2>1 DEF SyncInv, Reaching, Fits, FitsFor
  <2>8. NoneDropped'
    BY <2>1, <2>3 DEF SyncInv, NoneDropped, Served, ToCome
  <2> QED BY <2>4, <2>6, <2>7, <2>8 DEF SyncInv
<1> QED BY <1>1, <1>2

\* What Answer does when the call goes on.
LEMMA AnswerStages ==
  ASSUME SyncInv, pc = "get", NEW named \in Named, NEW stray \in Stray,
         NEW next \in {NextToken(got.token)} \cup got.seen, Answer(named, stray, next), ~ Fail
  PROVE  /\ got' \in Progress
         /\ clock' = clock /\ venue' = venue /\ held' = held /\ call' = call
         /\ queue' = queue /\ outcome' = outcome
         /\ got'.rows = got.rows \cup Page(got.token)
         /\ next = None => pc' = "commit" /\ got'.todo = Head(queue).symbols
         /\ next # None => /\ pc' = "get" /\ got'.todo = got.todo /\ got'.token = next
                           /\ got'.seen = got.seen \cup {next}
<1> DEFINE asked == ToSet(Head(queue).symbols)
           page == {row \in Page(got.token) \cup stray : row[1] \in asked}
           names == named \cap asked
           staged == Staged(page, names)
<1>1. got \in Progress /\ queue # <<>> /\ Head(queue) \in Requests
  BY DEF SyncInv, SyncTyped
<1>2. asked \subseteq Symbols /\ Head(queue).symbols \in Seq(Symbols)
  <2> DEFINE q == Head(queue)
  <2>1. q.symbols \in Seq(Symbols)
    BY <1>1 DEF Requests
  <2> HIDE DEF q
  <2>2. \A i \in DOMAIN q.symbols : q.symbols[i] \in Symbols
    BY <2>1
  <2> QED BY <2>1, <2>2 DEF ToSet, q
<1>3. page = Page(got.token)
  <2>1. \A row \in Page(got.token) : row[1] \in asked
    BY DEF Page, Matching
  <2>2. \A row \in stray : row[1] \notin asked
    BY DEF Stray
  <2> HIDE DEF asked
  <2> QED BY <2>1, <2>2
<1>4. page \in SUBSET (Symbols \X Periods)
  <2>1. page \subseteq Matching
    BY <1>3 DEF Page
  <2> HIDE DEF page
  <2> QED BY <1>1, <2>1, RowsRanked DEF SyncInv
<1>5. {row[1] : row \in page} \in SUBSET Symbols /\ names \in SUBSET Symbols
  <2>1. \A row \in page : row[1] \in Symbols
    <3> HIDE DEF page
    <3> QED BY <1>4
  <2> HIDE DEF page, asked
  <2> QED BY <1>2, <2>1
<1> HIDE DEF page, names, asked
<1>6. staged \in Progress /\ staged.rows = got.rows \cup page /\ staged.todo = got.todo
      /\ staged.token = got.token /\ staged.seen = got.seen
  BY <1>1, <1>4, <1>5 DEF Staged, Progress
<1> HIDE DEF staged
<1>7. CASE next = None
  <2>1. /\ got' = [staged EXCEPT !.todo = Head(queue).symbols, !.token = 1, !.seen = {}]
        /\ pc' = "commit" /\ UNCHANGED <<clock, venue, held, call, queue, outcome>>
    BY <1>7 DEF Answer, staged, page, names, asked
  <2> DEFINE symbols == Head(queue).symbols
  <2>2. symbols \in Seq(Symbols) /\ got' = [staged EXCEPT !.todo = symbols, !.token = 1, !.seen = {}]
    BY <1>2, <2>1
  <2> HIDE DEF symbols
  <2>3. got' \in Progress /\ got'.rows = staged.rows /\ got'.todo = symbols
    <3> DEFINE seen == {}
               token == 1
    <3>1. got' = [staged EXCEPT !.todo = symbols, !.token = token, !.seen = seen]
      BY <2>2
    <3>2. token \in Nat \ {0} /\ seen \in SUBSET (Nat \ {0})
      OBVIOUS
    <3> HIDE DEF token, seen
    <3> QED BY <1>6, <2>2, <3>1, <3>2 DEF Progress
  <2> QED BY <1>3, <1>6, <1>7, <2>1, <2>3 DEF symbols
<1>8. CASE next # None
  <2>1. ~ Repeated(next)
    BY <1>8 DEF Answer
  <2>2. /\ got' = [staged EXCEPT !.token = next, !.seen = @ \cup {next},
                                 !.again = @ \/ next \in got.seen]
        /\ UNCHANGED <<clock, venue, held, call, queue, pc, outcome>>
    BY <1>8, <2>1 DEF Answer, staged, page, names, asked
  <2>3. next \in Nat \ {0}
    <3>1. got.token \in Nat \ {0} /\ got.seen \subseteq Nat \ {0}
      BY <1>1 DEF Progress
    <3>2. CASE next \in got.seen
      BY <3>1, <3>2
    <3>3. CASE next = NextToken(got.token)
      <4>1. next = got.token + 1
        BY <1>8, <3>3, PageStages DEF SyncInv
      <4> QED BY <3>1, <4>1
    <3> QED BY <3>2, <3>3
  <2>4. (staged.again \/ next \in got.seen) \in BOOLEAN
    OBVIOUS
  <2>5. got' \in Progress /\ got'.rows = staged.rows /\ got'.todo = staged.todo /\ got'.token = next
        /\ got'.seen = staged.seen \cup {next}
    <3> DEFINE again == staged.again \/ next \in got.seen
               seen == staged.seen \cup {next}
    <3>1. got' = [staged EXCEPT !.token = next, !.seen = seen, !.again = again]
      BY <2>2
    <3>2. again \in BOOLEAN /\ seen \in SUBSET (Nat \ {0})
      BY <1>6, <2>3, <2>4 DEF Progress
    <3> HIDE DEF again, seen
    <3>3. got' \in Progress /\ got'.rows = staged.rows /\ got'.todo = staged.todo /\ got'.token = next
          /\ got'.seen = seen
      BY <1>6, <2>3, <3>1, <3>2 DEF Progress
    <3> QED BY <3>3 DEF seen
  <2> QED BY <1>3, <1>6, <1>8, <2>2, <2>5
<1> QED BY <1>7, <1>8

\* A page keeps the rows of the pages before it, and the last page completes them.
LEMMA AnswerKeeps ==
  ASSUME SyncInv, pc = "get", NEW named \in Named, NEW stray \in Stray,
         NEW next \in {NextToken(got.token)} \cup got.seen, Answer(named, stray, next)
  PROVE  SyncInv'
<1>1. CASE Fail
  BY <1>1, FailKeeps
<1>2. CASE ~ Fail
  <2> DEFINE page == Page(got.token)
  <2>1. /\ got' \in Progress
        /\ clock' = clock /\ venue' = venue /\ held' = held /\ call' = call
        /\ queue' = queue /\ outcome' = outcome
        /\ got'.rows = got.rows \cup page
        /\ next = None => pc' = "commit" /\ got'.todo = Head(queue).symbols
        /\ next # None => /\ pc' = "get" /\ got'.todo = got.todo /\ got'.token = next
                          /\ got'.seen = got.seen \cup {next}
    BY <1>2, AnswerStages
  <2>2. SyncTyped /\ Staging
    BY DEF SyncInv
  <2>3. SyncTyped'
    BY <2>1, <2>2 DEF SyncTyped
  <2>4. Matching' = Matching /\ \A row, t : Behind(row, t)' = Behind(row, t)
    BY <2>1, SameRows
  <2>5. /\ page \subseteq Matching /\ got.rows \subseteq Matching
        /\ \A row \in Matching : Rank(row) < got.token * PageSize => row \in got.rows \cup page
        /\ NextToken(got.token) = None => got.rows \cup page = Matching
        /\ NextToken(got.token) # None => NextToken(got.token) = got.token + 1
    BY <2>2, PageStages
  <2>6. got.token \in Nat \ {0} /\ got.seen \subseteq Nat \ {0} /\ None \notin Nat
    BY <2>2, SyncAssumption DEF SyncTyped, Progress
  <2> HIDE DEF page
  <2>7. CASE next = None
    <3>1. NextToken(got.token) = None
      BY <2>6, <2>7
    <3>2. got'.rows = Matching' /\ pc' = "commit" /\ got'.todo = Head(queue).symbols /\ queue' = queue
      BY <2>1, <2>4, <2>5, <2>7, <3>1
    <3>3. got'.todo # <<>>
      <4>1. Head(queue) \in Requests
        BY <2>2 DEF SyncTyped
      <4> QED BY <3>2, <4>1 DEF Requests
    <3>4. Staging'
      <4>1. ToSet(got'.todo) \subseteq ToSet(Head(queue').symbols)
        BY <3>2
      <4> QED BY <3>2, <3>3, <4>1 DEF Staging
    <3>5. NoneDropped'
      <4> SUFFICES ASSUME NEW s \in call.wanted PROVE (Served(s) \/ ToCome(s))'
        BY <2>1 DEF NoneDropped
      <4>1. CASE Served(s)
        BY <2>1, <4>1 DEF Served
      <4>2. CASE ToCome(s)
        <5>1. PICK i \in DOMAIN queue : s \in ToSet(queue[i].symbols)
          BY <4>2 DEF ToCome
        <5>2. CASE i > 1
          BY <2>1, <5>1, <5>2 DEF ToCome
        <5>3. CASE ~ (i > 1)
          <6>1. i = 1
            BY <2>2, <5>1, <5>3 DEF SyncTyped
          <6>2. s \in ToSet(got'.todo)
            BY <3>2, <5>1, <6>1
          <6> QED BY <3>2, <6>2 DEF ToCome
        <5> QED BY <5>2, <5>3
      <4> QED BY <4>1, <4>2 DEF SyncInv, NoneDropped
    <3>6. Reaching'
      BY <2>1 DEF SyncInv, Reaching, Fits, FitsFor
    <3> QED BY <2>3, <3>4, <3>5, <3>6 DEF SyncInv
  <2>8. CASE next # None
    <3>1. /\ pc' = "get" /\ got'.todo = got.todo /\ got'.token = next /\ got'.seen = got.seen \cup {next}
      BY <2>1, <2>8
    <3>2. \A t \in got.seen \cup {got.token} :
            \A row \in Matching : Behind(row, t) => row \in got.rows
      BY <2>2 DEF Staging
    <3>3. \A row \in Matching : Behind(row, next) => row \in got.rows \cup page
      <4>1. CASE next \in got.seen
        BY <3>2, <4>1
      <4>2. CASE next = NextToken(got.token)
        <5>1. next - 1 = got.token
          BY <2>5, <2>6, <2>8, <4>2
        <5> SUFFICES ASSUME NEW row \in Matching, Behind(row, next) PROVE row \in got.rows \cup page
          OBVIOUS
        <5>2. Rank(row) \in 0..got.token * PageSize - 1 /\ got.token * PageSize \in Nat
          BY <2>6, <5>1, SyncAssumption DEF Behind
        <5>3. Rank(row) < got.token * PageSize
          BY <5>2
        <5> QED BY <2>5, <5>3
      <4> QED BY <4>1, <4>2
    <3>4. \A t \in got'.seen \cup {got'.token} :
            \A row \in Matching' : Behind(row, t)' => row \in got'.rows
      <4> SUFFICES ASSUME NEW t \in got.seen \cup {next}, NEW row \in Matching, Behind(row, t)
                   PROVE  row \in got.rows \cup page
        BY <2>1, <2>4, <3>1
      <4>1. CASE t = next
        BY <3>3, <4>1
      <4>2. CASE t \in got.seen
        BY <3>2, <4>2
      <4> QED BY <4>1, <4>2
    <3>5. Staging'
      <4>1. got'.rows \subseteq Matching' /\ got'.todo = <<>>
        BY <2>1, <2>2, <2>4, <2>5, <3>1 DEF Staging
      <4>2. pc' # "commit"
        BY <3>1
      <4> QED BY <3>4, <4>1, <4>2 DEF Staging
    <3>6. NoneDropped'
      <4> SUFFICES ASSUME NEW s \in call.wanted PROVE (Served(s) \/ ToCome(s))'
        BY <2>1 DEF NoneDropped
      <4>1. CASE Served(s)
        BY <2>1, <4>1 DEF Served
      <4>2. CASE ToCome(s)
        BY <2>1, <3>1, <4>2 DEF ToCome
      <4> QED BY <4>1, <4>2 DEF SyncInv, NoneDropped
    <3>7. Reaching'
      BY <2>1 DEF SyncInv, Reaching, Fits, FitsFor
    <3> QED BY <2>3, <3>5, <3>6, <3>7 DEF SyncInv
  <2> QED BY <2>7, <2>8
<1> QED BY <1>1, <1>2

\* A call that starts asks for all it wants, from starts that fit.
LEMMA StartKeeps ==
  ASSUME SyncInv, NEW mode \in {"single", "multi"}, NEW list \in Lists, NEW start \in Periods,
         NEW end \in Periods, NEW full \in BOOLEAN, Call(mode, list, start, end, full)
  PROVE  SyncInv'
<1> DEFINE wanted == Wanted(list)
           todo == IF mode = "single" THEN Resumed(Head(wanted), start, full)
                   ELSE Batches(wanted, start, full)
<1>1. /\ start <= end /\ end <= clock
      /\ mode = "single" => Len(wanted) = 1
      /\ call' = [mode |-> mode, wanted |-> ToSet(wanted), start |-> start, end |-> end, full |-> full]
      /\ queue' = todo /\ got' = Nothing
      /\ todo = <<>> => pc' = "idle" /\ outcome' = "returned"
      /\ todo # <<>> => pc' = "get" /\ outcome' = "running"
      /\ clock' = clock /\ venue' = venue /\ held' = held
  BY DEF Call
<1>2. clock \in Periods /\ venue \in [Symbols -> SUBSET (1..clock)]
      /\ held \in [Symbols -> SUBSET Periods] /\ \A s \in Symbols : held[s] \subseteq venue[s]
  BY DEF SyncInv, SyncTyped
<1>3. wanted \in Seq(Symbols)
  BY WantedTyped
<1> HIDE DEF wanted
<1>4. Covers(todo, wanted, start, full)
  <2>1. CASE mode = "single"
    BY <1>1, <1>2, <1>3, <2>1, ResumedCovers
  <2>2. CASE mode # "single"
    BY <1>1, <1>2, <1>3, <2>2, BatchesCover
  <2> QED BY <2>1, <2>2
<1> HIDE DEF todo
<1>5. PICK all : all = todo
  OBVIOUS
<1>6. /\ all \in Seq(Requests)
      /\ \A i \in DOMAIN all :
           /\ ToSet(all[i].symbols) \subseteq ToSet(wanted)
           /\ \A s \in ToSet(all[i].symbols) : FitsFor(s, all[i].from, start, full)
      /\ \A s \in ToSet(wanted) : \E i \in DOMAIN all : s \in ToSet(all[i].symbols)
  BY <1>4, <1>5 DEF Covers
<1>7. /\ start <= end /\ end <= clock /\ queue' = all /\ got' = Nothing
      /\ all = <<>> => pc' = "idle" /\ outcome' = "returned"
      /\ all # <<>> => pc' = "get" /\ outcome' = "running"
      /\ clock' = clock /\ venue' = venue /\ held' = held
  BY <1>1, <1>5
<1>8. /\ call'.mode = mode /\ call'.wanted = ToSet(wanted) /\ call'.start = start
      /\ call'.end = end /\ call'.full = full
  BY <1>1
<1>9. ToSet(wanted) \subseteq Symbols
  <2>1. \A i \in DOMAIN wanted : wanted[i] \in Symbols
    BY <1>3
  <2> QED BY <2>1 DEF ToSet
<1>10. SyncTyped'
  <2>1. end \in 1..clock
    BY <1>7, <1>2 DEF Periods
  <2>2. queue' \in Seq(Requests) /\ got' \in Progress
    BY <1>7, <1>6, NothingStaged
  <2>3. \A i \in DOMAIN queue' : ToSet(queue'[i].symbols) \subseteq call'.wanted
    BY <1>7, <1>6, <1>8
  <2>4. pc' \in {"idle", "get", "commit"} /\ (pc' = "idle" <=> queue' = <<>>)
        /\ (outcome' = "returned" => pc' = "idle")
    <3>1. CASE all = <<>>
      BY <1>7, <3>1
    <3>2. CASE all # <<>>
      BY <1>7, <3>2
    <3> QED BY <3>1, <3>2
  <2> QED BY <1>7, <1>2, <1>8, <1>9, <2>1, <2>2, <2>3, <2>4 DEF SyncTyped
<1>11. Staging'
  <2>1. pc' # "commit" /\ got'.rows = {} /\ got'.todo = <<>> /\ got'.token = 1 /\ got'.seen = {}
    BY <1>7, NothingStaged
  <2>2. \A t \in got'.seen \cup {got'.token} : \A row : ~ Behind(row, t)'
    BY <2>1, NoneBehind
  <2> QED BY <2>1, <2>2 DEF Staging
<1>12. Reaching'
  <2> SUFFICES ASSUME NEW i \in DOMAIN all, NEW s \in ToSet(all[i].symbols)
               PROVE  FitsFor(s, all[i].from, start, full)'
    BY <1>7, <1>8 DEF Reaching, Fits
  <2>1. FitsFor(s, all[i].from, start, full)
    BY <1>6
  <2> QED BY <1>7, <2>1 DEF FitsFor
<1>13. NoneDropped'
  <2> SUFFICES ASSUME NEW s \in ToSet(wanted) PROVE ToCome(s)'
    BY <1>8 DEF NoneDropped
  <2>1. PICK i \in DOMAIN all : s \in ToSet(all[i].symbols)
    BY <1>6
  <2>2. all # <<>>
    BY <2>1
  <2>3. pc' = "get" /\ queue' = all
    BY <1>7, <2>2
  <2> QED BY <2>1, <2>3 DEF ToCome
<1> QED BY <1>10, <1>11, <1>12, <1>13 DEF SyncInv

\* More bars begin no later and end no earlier.
LEMMA MoreBars ==
  ASSUME NEW bars, NEW more, bars # {}, bars \subseteq more, more \subseteq Periods
  PROVE  /\ Earliest(more) <= Earliest(bars) /\ Latest(bars) <= Latest(more) /\ more # {}
         /\ {Earliest(bars), Earliest(more), Latest(bars), Latest(more)} \subseteq Nat
<1>1. bars \subseteq Periods /\ more # {}
  OBVIOUS
<1>2. Earliest(bars) \in bars /\ Latest(bars) \in bars
  BY <1>1, Extremes
<1>3. /\ Earliest(more) \in more /\ \A c \in more : Earliest(more) <= c
      /\ Latest(more) \in more /\ \A c \in more : c <= Latest(more)
  BY <1>1, Extremes
<1>4. Earliest(bars) \in more /\ Latest(bars) \in more
  BY <1>2
<1>5. Earliest(more) <= Earliest(bars) /\ Latest(bars) <= Latest(more)
  BY <1>3, <1>4
<1>6. Periods \subseteq Nat
  BY SyncAssumption DEF Periods
<1>7. {Earliest(bars), Earliest(more), Latest(bars), Latest(more)} \subseteq Nat
  BY <1>3, <1>4, <1>6
<1> QED BY <1>1, <1>5, <1>7

\* A bar past the clock leaves every cache as it was.
LEMMA TickKeeps == ASSUME SyncInv, Tick PROVE SyncInv' /\ \A s \in Symbols : Unbroken(s) => Unbroken(s)'
<1>1. /\ clock < Horizon /\ pc = "idle" /\ clock' = clock + 1
      /\ held' = held /\ call' = call /\ queue' = queue /\ got' = got /\ pc' = pc /\ outcome' = outcome
  BY DEF Tick
<1>2. PICK traded : venue' = [s \in Symbols |-> venue[s] \cup IF s \in traded THEN {clock + 1} ELSE {}]
  BY DEF Tick
<1>3. SyncTyped
  BY DEF SyncInv
<1>4. clock \in Nat /\ 1 <= clock /\ clock' \in Periods
  BY <1>1, <1>3, SyncAssumption DEF SyncTyped, Periods
<1>5. \A s \in Symbols : /\ venue[s] \subseteq venue'[s] /\ venue[s] \subseteq 1..clock
                         /\ venue'[s] \subseteq venue[s] \cup {clock + 1}
  BY <1>2, <1>3 DEF SyncTyped
<1>6. SyncTyped'
  <2>1. 1..clock \subseteq 1..clock' /\ clock + 1 \in 1..clock'
    BY <1>1, <1>4
  <2>2. venue' \in [Symbols -> SUBSET (1..clock')]
    BY <1>2, <1>5, <2>1
  <2>3. \A s \in Symbols : held[s] \subseteq venue'[s]
    BY <1>3, <1>5 DEF SyncTyped
  <2>4. call.end \in 1..clock'
    BY <1>3, <2>1 DEF SyncTyped
  <2> QED BY <1>1, <1>3, <1>4, <2>2, <2>3, <2>4 DEF SyncTyped
<1>7. Staging'
  BY <1>1 DEF Staging
<1>8. Reaching'
  BY <1>1 DEF SyncInv, Reaching, Fits, FitsFor
<1>9. NoneDropped'
  <2> SUFFICES ASSUME NEW s \in call.wanted PROVE Served(s)'
    BY <1>1 DEF NoneDropped
  <2>1. ~ ToCome(s)
    <3>1. queue = <<>>
      BY <1>1, <1>3 DEF SyncTyped
    <3>2. DOMAIN queue = {}
      BY <3>1
    <3> QED BY <1>1, <3>2 DEF ToCome
  <2>2. Served(s)
    BY <2>1 DEF SyncInv, NoneDropped
  <2>3. PICK from \in Periods :
          /\ venue[s] \cap (from..call.end) \subseteq held[s]
          /\ \/ from = call.start
             \/ held[s] # {} /\ Earliest(held[s]) <= call.start /\ from <= Latest(held[s])
    BY <2>2 DEF Served
  <2>4. s \in Symbols /\ call.end \in 1..clock
    BY <1>3 DEF SyncTyped
  <2>5. clock + 1 \notin from..call.end
    BY <1>4, <2>4 DEF Periods
  <2>6. venue'[s] \cap (from..call.end) \subseteq held[s]
    BY <1>5, <2>3, <2>4, <2>5
  <2> QED BY <1>1, <2>3, <2>6 DEF Served
<1>10. ASSUME NEW s \in Symbols, Unbroken(s) PROVE Unbroken(s)'
  <2> SUFFICES ASSUME NEW b \in venue'[s], NEW a \in held[s], NEW c \in held[s], a <= b, b <= c
               PROVE  b \in held[s]
    BY <1>1 DEF Unbroken
  <2>1. c \in 1..clock
    BY <1>3 DEF SyncTyped
  <2>2. b # clock + 1
    BY <1>4, <2>1
  <2>3. b \in venue[s]
    BY <1>5, <2>2
  <2> QED BY <1>10, <2>3 DEF Unbroken
<1> QED BY <1>6, <1>7, <1>8, <1>9, <1>10 DEF SyncInv

\* A commit writes what the venue has of the window asked for.
LEMMA CommitWrites ==
  ASSUME SyncInv, Commit
  PROVE  \E s \in Symbols, from \in Periods :
           /\ s = Head(got.todo) /\ from = Head(queue).from /\ s \in ToSet(Head(queue).symbols)
           /\ held' = [held EXCEPT ![s] = held[s] \cup (venue[s] \cap (from..call.end))]
           /\ queue # <<>> /\ Head(queue) = queue[1] /\ 1 \in DOMAIN queue
           /\ s \in call.wanted /\ Fits(s, from)
<1> DEFINE s == Head(got.todo)
           q == Head(queue)
           from == q.from
           end == call.end
<1>1. SyncTyped /\ Staging /\ pc = "commit" /\ held' = [held EXCEPT ![s] = @ \cup RowsOf(s)]
  BY DEF SyncInv, Commit
<1>2. queue # <<>> /\ q = queue[1] /\ 1 \in DOMAIN queue /\ q \in Requests
  <2>1. queue \in Seq(Requests) /\ queue # <<>>
    BY <1>1 DEF SyncTyped
  <2> QED BY <2>1
<1>3. got.rows = Matching /\ got.todo # <<>> /\ ToSet(got.todo) \subseteq ToSet(q.symbols)
      /\ got.todo \in Seq(Symbols)
  BY <1>1 DEF Staging, SyncTyped, Progress
<1>4. s \in ToSet(q.symbols) /\ s \in Symbols
  <2> DEFINE todo == got.todo
  <2>1. todo \in Seq(Symbols) /\ todo # <<>> /\ ToSet(todo) \subseteq ToSet(q.symbols)
    BY <1>3
  <2> HIDE DEF todo, q
  <2>2. 1 \in DOMAIN todo /\ Head(todo) = todo[1] /\ Head(todo) \in Symbols
    BY <2>1
  <2>3. Head(todo) \in ToSet(todo)
    BY <2>2 DEF ToSet
  <2> QED BY <2>1, <2>2, <2>3 DEF todo
<1>5. from \in Periods /\ end \in Periods
  <2>1. from \in Periods
    BY <1>2 DEF Requests
  <2>2. end \in 1..clock /\ clock \in Periods
    BY <1>1 DEF SyncTyped
  <2> QED BY <2>1, <2>2, SyncAssumption DEF Periods
<1>6. from..end \subseteq Periods
  BY <1>5, SyncAssumption DEF Periods
<1>7. RowsOf(s) = venue[s] \cap (from..end)
  <2>1. \A b : <<s, b>> \in Matching <=> b \in from..end /\ b \in venue[s]
    <3> SUFFICES ASSUME NEW b PROVE <<s, b>> \in Matching <=> b \in from..end /\ b \in venue[s]
      OBVIOUS
    <3> DEFINE asked == ToSet(q.symbols)
               window == from..end
    <3>1. s \in asked
      BY <1>4
    <3>2. Matching = {row \in asked \X window : row[2] \in venue[row[1]]}
      BY DEF Matching
    <3> HIDE DEF asked, window, s
    <3> QED BY <3>1, <3>2 DEF window
  <2>2. RowsOf(s) = {b \in Periods : <<s, b>> \in Matching}
    BY <1>3 DEF RowsOf
  <2> HIDE DEF s, from, end
  <2> QED BY <1>6, <2>1, <2>2
<1>8. Fits(s, from)
  <2>1. \A i \in DOMAIN queue : \A t \in ToSet(queue[i].symbols) : Fits(t, queue[i].from)
    BY DEF SyncInv, Reaching
  <2> HIDE DEF s
  <2> QED BY <1>2, <1>4, <2>1
<1>9. s \in call.wanted
  <2>1. ToSet(queue[1].symbols) \subseteq call.wanted
    BY <1>1, <1>2 DEF SyncTyped
  <2> HIDE DEF s
  <2> QED BY <1>2, <1>4, <2>1
<1>10. held' = [held EXCEPT ![s] = held[s] \cup (venue[s] \cap (from..end))]
  <2> HIDE DEF s, from, end
  <2> QED BY <1>1, <1>7
<1> HIDE DEF s
<1> QED BY <1>2, <1>4, <1>5, <1>8, <1>9, <1>10 DEF s

\* A sequence is its head and then its tail.
LEMMA TailFollows ==
  ASSUME NEW S, NEW seq \in Seq(S), seq # <<>>
  PROVE  /\ Tail(seq) \in Seq(S) /\ (Tail(seq) # <<>> <=> Len(seq) > 1)
         /\ 1 \in DOMAIN seq /\ Head(seq) = seq[1]
         /\ \A i \in DOMAIN Tail(seq) : i + 1 \in DOMAIN seq /\ Tail(seq)[i] = seq[i + 1]
         /\ \A j \in DOMAIN seq : j # 1 => j - 1 \in DOMAIN Tail(seq) /\ Tail(seq)[j - 1] = seq[j]
<1> DEFINE rest == Tail(seq)
           n == Len(seq)
<1>1. /\ rest \in Seq(S) /\ Len(rest) = n - 1 /\ n \in Nat \ {0}
      /\ \A i \in 1..Len(rest) : rest[i] = seq[i + 1]
  BY EmptySeq, HeadTailProperties
<1>2. DOMAIN rest = 1..Len(rest) /\ DOMAIN seq = 1..n
  BY <1>1, LenProperties
<1>3. Head(seq) = seq[1]
  OBVIOUS
<1> HIDE DEF rest, n
<1>4. Len(<<>>) = 0 /\ (Len(rest) = 0 => rest = <<>>)
  BY <1>1, EmptySeq
<1>5. rest # <<>> <=> n > 1
  BY <1>1, <1>4
<1>6. \A i \in DOMAIN rest : i + 1 \in DOMAIN seq /\ rest[i] = seq[i + 1]
  BY <1>1, <1>2
<1>7. \A j \in DOMAIN seq : j # 1 => j - 1 \in DOMAIN rest /\ rest[j - 1] = seq[j]
  <2> SUFFICES ASSUME NEW j \in 1..n, j # 1 PROVE j - 1 \in 1..Len(rest) /\ rest[j - 1] = seq[j]
    BY <1>2
  <2>1. j - 1 \in 1..Len(rest) /\ (j - 1) + 1 = j
    BY <1>1
  <2> QED BY <1>1, <2>1
<1>8. 1 \in DOMAIN seq
  BY <1>1, <1>2
<1> QED BY <1>1, <1>3, <1>5, <1>6, <1>7, <1>8 DEF rest, n

\* A request is left behind when its last symbol is committed.
LEMMA CommitMovesOn ==
  ASSUME SyncInv, Commit
  PROVE  /\ clock' = clock /\ venue' = venue /\ call' = call
         /\ got' \in Progress /\ queue' \in Seq(Requests)
         /\ \A i \in DOMAIN queue' : \E j \in DOMAIN queue : queue'[i] = queue[j]
         /\ \/ /\ queue' = queue /\ pc' = "commit" /\ outcome' = outcome
               /\ got'.rows = got.rows /\ got'.todo = Tail(got.todo) /\ got'.todo # <<>>
            \/ /\ queue' = Tail(queue) /\ got' = Nothing /\ Tail(got.todo) = <<>>
               /\ \A j \in DOMAIN queue : j # 1 => j - 1 \in DOMAIN queue' /\ queue'[j - 1] = queue[j]
               /\ queue' = <<>> => pc' = "idle" /\ outcome' = "returned"
               /\ queue' # <<>> => pc' = "get" /\ outcome' = outcome
<1>1. SyncTyped /\ Staging /\ pc = "commit" /\ clock' = clock /\ venue' = venue /\ call' = call
  BY DEF SyncInv, Commit
<1>2. queue \in Seq(Requests) /\ queue # <<>> /\ got \in Progress
  BY <1>1 DEF SyncTyped
<1>3. got.todo \in Seq(Symbols) /\ got.todo # <<>>
  BY <1>1, <1>2 DEF Staging, Progress
<1>4. Tail(got.todo) \in Seq(Symbols) /\ (Tail(got.todo) # <<>> <=> Len(got.todo) > 1)
  BY <1>3, TailFollows
<1>5. /\ Tail(queue) \in Seq(Requests) /\ (Tail(queue) # <<>> <=> Len(queue) > 1)
      /\ \A i \in DOMAIN Tail(queue) : i + 1 \in DOMAIN queue /\ Tail(queue)[i] = queue[i + 1]
      /\ \A j \in DOMAIN queue : j # 1 => j - 1 \in DOMAIN Tail(queue) /\ Tail(queue)[j - 1] = queue[j]
  BY <1>2, TailFollows
<1> DEFINE rest == Tail(queue)
           left == Tail(got.todo)
<1>6. CASE Len(got.todo) > 1
  <2>1. got' = [got EXCEPT !.todo = left] /\ queue' = queue /\ pc' = pc /\ outcome' = outcome
    BY <1>6 DEF Commit
  <2>2. left \in Seq(Symbols) /\ left # <<>>
    BY <1>4, <1>6
  <2> HIDE DEF left
  <2>3. got' \in Progress /\ got'.rows = got.rows /\ got'.todo = left
    BY <1>2, <2>1, <2>2 DEF Progress
  <2> QED BY <1>1, <1>2, <2>1, <2>2, <2>3 DEF left
<1>7. CASE ~ (Len(got.todo) > 1)
  <2>1. /\ got' = Nothing /\ queue' = rest
        /\ Len(queue) > 1 => pc' = "get" /\ outcome' = outcome
        /\ ~ (Len(queue) > 1) => pc' = "idle" /\ outcome' = "returned"
    BY <1>7 DEF Commit
  <2>2. left = <<>>
    BY <1>4, <1>7
  <2>3. /\ rest = <<>> => pc' = "idle" /\ outcome' = "returned"
        /\ rest # <<>> => pc' = "get" /\ outcome' = outcome
    BY <1>5, <2>1
  <2>4. /\ \A j \in DOMAIN queue : j # 1 => j - 1 \in DOMAIN rest /\ rest[j - 1] = queue[j]
        /\ \A i \in DOMAIN rest : \E j \in DOMAIN queue : rest[i] = queue[j]
        /\ rest \in Seq(Requests)
    BY <1>5
  <2> HIDE DEF rest, left
  <2> QED BY <1>1, <2>1, <2>2, <2>3, <2>4, NothingStaged DEF rest, left
<1> QED BY <1>6, <1>7

\* A commit leaves the symbols to come fitting their requests.
LEMMA CommitKeeps == ASSUME SyncInv, Commit PROVE SyncInv'
<1>1. PICK s \in Symbols, from \in Periods :
        /\ s = Head(got.todo) /\ from = Head(queue).from /\ s \in ToSet(Head(queue).symbols)
        /\ held' = [held EXCEPT ![s] = held[s] \cup (venue[s] \cap (from..call.end))]
        /\ queue # <<>> /\ Head(queue) = queue[1] /\ 1 \in DOMAIN queue
        /\ s \in call.wanted /\ Fits(s, from)
  BY CommitWrites
<1>2. SyncTyped /\ Staging /\ pc = "commit"
  BY DEF SyncInv, Commit
<1>3. /\ clock' = clock /\ venue' = venue /\ call' = call
      /\ got' \in Progress /\ queue' \in Seq(Requests)
      /\ \A i \in DOMAIN queue' : \E j \in DOMAIN queue : queue'[i] = queue[j]
  BY CommitMovesOn
<1>4. \/ /\ queue' = queue /\ pc' = "commit" /\ outcome' = outcome
         /\ got'.rows = got.rows /\ got'.todo = Tail(got.todo) /\ got'.todo # <<>>
      \/ /\ queue' = Tail(queue) /\ got' = Nothing /\ Tail(got.todo) = <<>>
         /\ \A j \in DOMAIN queue : j # 1 => j - 1 \in DOMAIN queue' /\ queue'[j - 1] = queue[j]
         /\ queue' = <<>> => pc' = "idle" /\ outcome' = "returned"
         /\ queue' # <<>> => pc' = "get" /\ outcome' = outcome
  BY CommitMovesOn
<1> DEFINE window == venue[s] \cap (from..call.end)
<1>5. window \subseteq venue[s] /\ venue[s] \subseteq Periods /\ \A b \in window : from <= b
  <2>1. venue[s] \subseteq 1..clock /\ clock \in Periods
    BY <1>2 DEF SyncTyped
  <2> QED BY <2>1, SyncAssumption DEF Periods
<1>6. /\ held'[s] = held[s] \cup window /\ \A t \in Symbols : t # s => held'[t] = held[t]
      /\ \A t \in Symbols : held[t] \subseteq held'[t] /\ held'[t] \subseteq venue[t]
      /\ held' \in [Symbols -> SUBSET Periods] /\ \A t \in Symbols : held'[t] \subseteq Periods
  <2>1. held \in [Symbols -> SUBSET Periods] /\ \A t \in Symbols : held[t] \subseteq venue[t]
    BY <1>2 DEF SyncTyped
  <2>2. held' = [held EXCEPT ![s] = held[s] \cup window]
    BY <1>1
  <2>3. window \subseteq Periods
    BY <1>5
  <2> HIDE DEF window
  <2> QED BY <1>5, <2>1, <2>2, <2>3
<1> HIDE DEF window
<1>7. \A t \in Symbols : held[t] # {} =>
        /\ held'[t] # {} /\ Earliest(held'[t]) <= Earliest(held[t]) /\ Latest(held[t]) <= Latest(held'[t])
        /\ {Earliest(held[t]), Earliest(held'[t]), Latest(held[t]), Latest(held'[t])} \subseteq Nat
  BY <1>6, MoreBars
<1>8. call.start \in Nat /\ call.wanted \subseteq Symbols
  BY <1>2 DEF SyncTyped, Periods
<1>9. SyncTyped'
  <2>1. \A i \in DOMAIN queue' : ToSet(queue'[i].symbols) \subseteq call'.wanted
    BY <1>2, <1>3 DEF SyncTyped
  <2>2. pc' \in {"idle", "get", "commit"} /\ (pc' = "idle" <=> queue' = <<>>)
        /\ (outcome' = "returned" => pc' = "idle")
    <3>1. outcome # "returned"
      BY <1>2 DEF SyncTyped
    <3>2. CASE queue' = <<>>
      BY <1>1, <1>4, <3>1, <3>2
    <3>3. CASE queue' # <<>>
      BY <1>4, <3>1, <3>3
    <3> QED BY <3>2, <3>3
  <2> QED BY <1>2, <1>3, <1>6, <2>1, <2>2 DEF SyncTyped
<1>10. Staging'
  <2>1. CASE pc' = "commit"
    <3>1. /\ queue' = queue /\ got'.rows = got.rows /\ got'.todo = Tail(got.todo) /\ got'.todo # <<>>
      BY <1>4, <2>1
    <3>2. Matching' = Matching
      BY <1>3, <3>1, SameRows
    <3>3. got.rows = Matching /\ got.todo # <<>> /\ ToSet(got.todo) \subseteq ToSet(Head(queue).symbols)
      BY <1>2 DEF Staging
    <3>4. ToSet(got'.todo) \subseteq ToSet(got.todo)
      <4> DEFINE todo == got.todo
      <4>1. todo \in Seq(Symbols) /\ todo # <<>>
        BY <1>2, <3>3 DEF SyncTyped, Progress
      <4> HIDE DEF todo
      <4>4. \A i \in DOMAIN Tail(todo) : i + 1 \in DOMAIN todo /\ Tail(todo)[i] = todo[i + 1]
        BY <4>1, TailFollows
      <4>5. ToSet(Tail(todo)) \subseteq ToSet(todo)
        BY <4>4 DEF ToSet
      <4> QED BY <3>1, <4>5 DEF todo
    <3>5. ToSet(got'.todo) \subseteq ToSet(Head(queue').symbols)
      BY <3>1, <3>3, <3>4
    <3> QED BY <2>1, <3>1, <3>2, <3>3, <3>5 DEF Staging
  <2>2. CASE pc' # "commit"
    <3>1. got' = Nothing
      BY <1>4, <2>2
    <3>2. got'.rows = {} /\ got'.todo = <<>> /\ got'.token = 1 /\ got'.seen = {}
      BY <3>1, NothingStaged
    <3>3. \A t \in got'.seen \cup {got'.token} : \A row : ~ Behind(row, t)'
      BY <3>2, NoneBehind
    <3> QED BY <2>2, <3>2, <3>3 DEF Staging
  <2> QED BY <2>1, <2>2
<1>11. ASSUME NEW t \in Symbols, NEW f \in Periods, Fits(t, f) PROVE Fits(t, f)'
  <2>1. Fits(t, f)' <=> \/ f = call.start /\ (held'[t] = {} \/ call.full \/ f <= Latest(held'[t]))
                        \/ held'[t] # {} /\ Earliest(held'[t]) <= call.start /\ f <= Latest(held'[t])
    BY <1>3 DEF Fits, FitsFor
  <2>2. \/ f = call.start /\ (held[t] = {} \/ call.full \/ f <= Latest(held[t]))
        \/ held[t] # {} /\ Earliest(held[t]) <= call.start /\ f <= Latest(held[t])
    BY <1>11 DEF Fits, FitsFor
  <2>3. f \in Nat
    BY DEF Periods
  <2>4. CASE held[t] # {}
    <3>1. /\ held'[t] # {} /\ Earliest(held'[t]) <= Earliest(held[t]) /\ Latest(held[t]) <= Latest(held'[t])
          /\ Earliest(held[t]) \in Nat /\ Earliest(held'[t]) \in Nat
          /\ Latest(held[t]) \in Nat /\ Latest(held'[t]) \in Nat
      BY <1>7, <2>4
    <3>2. f <= Latest(held[t]) => f <= Latest(held'[t])
      BY <2>3, <3>1
    <3>3. Earliest(held[t]) <= call.start => Earliest(held'[t]) <= call.start
      BY <1>8, <3>1
    <3> QED BY <2>1, <2>2, <2>4, <3>1, <3>2, <3>3
  <2>5. CASE held[t] = {}
    <3>1. f = call.start
      BY <2>2, <2>5
    <3>2. CASE held'[t] = {}
      BY <2>1, <3>1, <3>2
    <3>3. CASE held'[t] # {}
      <4>1. t = s /\ held'[t] = window
        BY <1>6, <2>5, <3>3
      <4>2. from = call.start
        BY <1>1, <2>5, <4>1 DEF Fits, FitsFor
      <4>3. Latest(held'[t]) \in held'[t]
        BY <1>6, <3>3, Extremes
      <4>4. f <= Latest(held'[t])
        BY <1>5, <3>1, <4>1, <4>2, <4>3
      <4> QED BY <2>1, <3>1, <4>4
    <3> QED BY <3>2, <3>3
  <2> QED BY <2>4, <2>5
<1>12. Reaching'
  <2>0. PICK left : left = queue'
    OBVIOUS
  <2> SUFFICES ASSUME NEW i \in DOMAIN left, NEW t \in ToSet(left[i].symbols)
               PROVE  Fits(t, left[i].from)'
    BY <2>0 DEF Reaching
  <2>1. PICK j \in DOMAIN queue : left[i] = queue[j]
    BY <1>3, <2>0
  <2>2. PICK r \in Requests : r = queue[j]
    BY <1>2 DEF SyncTyped
  <2>3. t \in call.wanted
    BY <1>2, <2>1, <2>2 DEF SyncTyped
  <2>4. Fits(t, r.from)
    BY <2>1, <2>2 DEF SyncInv, Reaching
  <2>5. r.from \in Periods
    BY DEF Requests
  <2>6. Fits(t, r.from)'
    BY <1>8, <1>11, <2>3, <2>4, <2>5
  <2>7. left[i].from = r.from
    BY <2>1, <2>2
  <2> QED BY <2>6, <2>7
<1>13. NoneDropped'
  <2> SUFFICES ASSUME NEW t \in call.wanted PROVE (Served(t) \/ ToCome(t))'
    BY <1>3 DEF NoneDropped
  <2>0. t \in Symbols
    BY <1>8
  <2>1. CASE Served(t)
    <3>1. PICK f \in Periods :
            /\ venue[t] \cap (f..call.end) \subseteq held[t]
            /\ \/ f = call.start
               \/ held[t] # {} /\ Earliest(held[t]) <= call.start /\ f <= Latest(held[t])
      BY <2>1 DEF Served
    <3>2. venue[t] \cap (f..call.end) \subseteq held'[t]
      BY <1>6, <2>0, <3>1
    <3>3. \/ f = call.start
          \/ held'[t] # {} /\ Earliest(held'[t]) <= call.start /\ f <= Latest(held'[t])
      <4>1. CASE f = call.start
        BY <4>1
      <4>2. CASE held[t] # {} /\ Earliest(held[t]) <= call.start /\ f <= Latest(held[t])
        <5>1. /\ held'[t] # {} /\ Earliest(held'[t]) <= Earliest(held[t]) /\ Latest(held[t]) <= Latest(held'[t])
              /\ Earliest(held[t]) \in Nat /\ Earliest(held'[t]) \in Nat
              /\ Latest(held[t]) \in Nat /\ Latest(held'[t]) \in Nat /\ f \in Nat
          BY <1>7, <2>0, <4>2 DEF Periods
        <5> QED BY <1>8, <4>2, <5>1
      <4> QED BY <3>1, <4>1, <4>2
    <3>4. Served(t)'
      BY <1>3, <3>2, <3>3 DEF Served
    <3> QED BY <3>4
  <2>2. CASE t = s
    <3>1. venue[s] \cap (from..call.end) \subseteq held'[s]
      BY <1>6 DEF window
    <3>2. \/ from = call.start
          \/ held'[s] # {} /\ Earliest(held'[s]) <= call.start /\ from <= Latest(held'[s])
      <4>1. Fits(s, from)'
        BY <1>1, <1>11
      <4> QED BY <1>3, <4>1 DEF Fits, FitsFor
    <3>3. Served(s)'
      BY <1>3, <3>1, <3>2 DEF Served
    <3> QED BY <2>2, <3>3
  <2>3. CASE ToCome(t) /\ t # s
    <3>1. CASE t \in ToSet(got.todo)
      <4> DEFINE todo == got.todo
      <4>1. todo \in Seq(Symbols) /\ todo # <<>>
        BY <1>2 DEF SyncTyped, Progress, Staging
      <4>2. s = Head(todo) /\ t \in ToSet(todo)
        BY <1>1, <3>1
      <4> HIDE DEF todo
      <4>4. /\ Head(todo) = todo[1]
            /\ \A j \in DOMAIN todo : j # 1 => j - 1 \in DOMAIN Tail(todo) /\ Tail(todo)[j - 1] = todo[j]
        BY <4>1, TailFollows
      <4>5. PICK i \in DOMAIN todo : t = todo[i]
        BY <4>2 DEF ToSet
      <4>6. i # 1
        BY <2>3, <4>2, <4>4, <4>5
      <4>7. i - 1 \in DOMAIN Tail(todo) /\ Tail(todo)[i - 1] = t
        BY <4>4, <4>5, <4>6
      <4>8. t \in ToSet(Tail(todo))
        BY <4>7 DEF ToSet
      <4>9. Tail(got.todo) # <<>>
        <5>1. ToSet(<<>>) = {}
          BY DEF ToSet
        <5> QED BY <4>8, <5>1 DEF todo
      <4>10. pc' = "commit" /\ got'.todo = Tail(got.todo)
        BY <1>4, <4>9
      <4>11. ToCome(t)'
        BY <4>8, <4>10 DEF ToCome, todo
      <4> QED BY <4>11
    <3>2. CASE t \notin ToSet(got.todo)
      <4>1. PICK j \in DOMAIN queue : j > 1 /\ j # 1 /\ t \in ToSet(queue[j].symbols)
        BY <1>2, <2>3, <3>2 DEF ToCome
      <4>2. CASE queue' = queue /\ pc' = "commit"
        BY <4>1, <4>2 DEF ToCome
      <4>3. CASE ~ (queue' = queue /\ pc' = "commit")
        <5>1. j - 1 \in DOMAIN queue' /\ queue'[j - 1] = queue[j]
          BY <1>4, <4>1, <4>3
        <5>2. queue' # <<>>
          BY <5>1
        <5>3. pc' = "get"
          BY <1>4, <4>3, <5>2
        <5>4. t \in ToSet(queue'[j - 1].symbols)
          BY <4>1, <5>1
        <5>5. ToCome(t)'
          BY <5>1, <5>3, <5>4 DEF ToCome
        <5> QED BY <5>5
      <4> QED BY <4>2, <4>3
    <3> QED BY <3>1, <3>2
  <2> QED BY <2>1, <2>2, <2>3 DEF SyncInv, NoneDropped
<1> QED BY <1>9, <1>10, <1>12, <1>13 DEF SyncInv

-----------------------------------------------------------------------------
(* The theorems. *)

\* Before the first call nothing is cached, queued or staged.
LEMMA SyncInvFirst == SyncInit => SyncInv
<1> SUFFICES ASSUME SyncInit PROVE SyncInv
  OBVIOUS
<1>1. /\ clock = 1 /\ venue = [s \in Symbols |-> IF s \in Liquid THEN {1} ELSE {}]
      /\ held = [s \in Symbols |-> {}] /\ call = NoCall /\ queue = <<>> /\ got = Nothing
      /\ pc = "idle" /\ outcome = "returned"
  BY DEF SyncInit
<1>2. 1 \in Periods /\ 1 \in 1..1
  BY SyncAssumption DEF Periods
<1>3. NoCall.wanted = {} /\ NoCall.start = 1 /\ NoCall.end = 1 /\ NoCall.full = FALSE /\ NoCall.mode = "multi"
  BY DEF NoCall
<1>4. queue \in Seq(Requests) /\ DOMAIN queue = {}
  BY <1>1
<1>5. SyncTyped
  <2>1. venue \in [Symbols -> SUBSET (1..1)] /\ \A s \in Symbols : held[s] = {}
    BY <1>1
  <2>2. held \in [Symbols -> SUBSET Periods]
    BY <1>1
  <2> QED BY <1>1, <1>2, <1>3, <1>4, <2>1, <2>2, NothingStaged DEF SyncTyped
<1>6. Staging
  BY <1>1 DEF Staging
<1>7. Reaching
  BY <1>4 DEF Reaching
<1>8. NoneDropped
  BY <1>1, <1>3 DEF NoneDropped
<1> QED BY <1>5, <1>6, <1>7, <1>8 DEF SyncInv

\* Every step keeps it.
LEMMA SyncInvStep == SyncInv /\ [SyncNext]_syncVars => SyncInv'
<1> SUFFICES ASSUME SyncInv, [SyncNext]_syncVars PROVE SyncInv'
  OBVIOUS
<1>1. CASE Tick
  BY <1>1, TickKeeps
<1>2. CASE Start
  BY <1>2, StartKeeps DEF Start
<1>3. CASE Limited
  BY <1>3, LimitedKeeps
<1>4. CASE Broken
  BY <1>4, FailKeeps DEF Broken
<1>5. CASE pc = "get" /\ \E named \in Named, stray \in Stray, next \in {NextToken(got.token)} \cup got.seen :
                          Answer(named, stray, next)
  BY <1>5, AnswerKeeps
<1>6. CASE Commit
  BY <1>6, CommitKeeps
<1>7. CASE CommitFails
  BY <1>7, FailKeeps DEF CommitFails
<1>8. CASE UNCHANGED syncVars
  <2>1. /\ clock' = clock /\ venue' = venue /\ held' = held /\ call' = call
        /\ queue' = queue /\ got' = got /\ pc' = pc /\ outcome' = outcome
    BY <1>8 DEF syncVars
  <2>2. Matching' = Matching /\ \A row, t : Behind(row, t)' = Behind(row, t)
    BY <2>1, SameRows
  <2>3. SyncTyped'
    BY <2>1 DEF SyncInv, SyncTyped
  <2>4. Staging'
    BY <2>1, <2>2 DEF SyncInv, Staging
  <2>5. Reaching'
    BY <2>1 DEF SyncInv, Reaching, Fits, FitsFor
  <2>6. NoneDropped'
    BY <2>1 DEF SyncInv, NoneDropped, Served, ToCome
  <2> QED BY <2>3, <2>4, <2>5, <2>6 DEF SyncInv
<1> QED BY <1>1, <1>2, <1>3, <1>4, <1>5, <1>6, <1>7, <1>8 DEF SyncNext, Step

\* Nothing but a commit writes a cache.
LEMMA OnlyCommitWrites ==
  ASSUME [SyncNext]_syncVars, ~ Commit PROVE held' = held
<1>1. CASE Tick
  BY <1>1 DEF Tick
<1>2. CASE Start
  BY <1>2 DEF Start, Call
<1>3. CASE Limited
  BY <1>3 DEF Limited, Fail
<1>4. CASE Broken
  BY <1>4 DEF Broken, Fail
<1>5. CASE \E named \in Named, stray \in Stray, next \in {NextToken(got.token)} \cup got.seen :
             Answer(named, stray, next)
  BY <1>5 DEF Answer, Fail
<1>6. CASE CommitFails
  BY <1>6 DEF CommitFails, Fail
<1>7. CASE UNCHANGED syncVars
  BY <1>7 DEF syncVars
<1> QED BY <1>1, <1>2, <1>3, <1>4, <1>5, <1>6, <1>7 DEF SyncNext, Step

\* Nothing but a period's end gives the venue bars.
LEMMA OnlyTickAdds == ASSUME [SyncNext]_syncVars, ~ Tick PROVE venue' = venue
<1>1. CASE Start
  BY <1>1 DEF Start, Call
<1>2. CASE Limited
  BY <1>2 DEF Limited, Fail
<1>3. CASE Broken
  BY <1>3 DEF Broken, Fail
<1>4. CASE \E named \in Named, stray \in Stray, next \in {NextToken(got.token)} \cup got.seen :
             Answer(named, stray, next)
  BY <1>4 DEF Answer, Fail
<1>5. CASE Commit
  BY <1>5 DEF Commit
<1>6. CASE CommitFails
  BY <1>6 DEF CommitFails, Fail
<1>7. CASE UNCHANGED syncVars
  BY <1>7 DEF syncVars
<1> QED BY <1>1, <1>2, <1>3, <1>4, <1>5, <1>6, <1>7 DEF SyncNext, Step

\* The invariant holds in every state of every call.
THEOREM SyncInvariant == SyncSpec => []SyncInv
<1> QED BY SyncInvFirst, SyncInvStep, PTL DEF SyncSpec

\* A symbol's cache is written only with all the venue has of the window its
\* request asked for, whatever the number of its pages and their retries.
THEOREM WritesWhole == SyncSpec => WritesAreWhole
<1>1. SyncInv /\ [SyncNext]_syncVars =>
        [\A s \in Symbols :
           held'[s] # held[s] =>
             held'[s] = held[s] \cup (venue[s] \cap (Head(queue).from..call.end))]_syncVars
  <2> SUFFICES ASSUME SyncInv, [SyncNext]_syncVars, NEW s \in Symbols, held'[s] # held[s]
               PROVE  held'[s] = held[s] \cup (venue[s] \cap (Head(queue).from..call.end))
    OBVIOUS
  <2>1. Commit
    BY OnlyCommitWrites
  <2>2. PICK t \in Symbols, from \in Periods :
          /\ from = Head(queue).from
          /\ held' = [held EXCEPT ![t] = held[t] \cup (venue[t] \cap (from..call.end))]
    BY <2>1, CommitWrites
  <2>3. held \in [Symbols -> SUBSET Periods]
    BY DEF SyncInv, SyncTyped
  <2> QED BY <2>2, <2>3
<1> QED BY <1>1, SyncInvariant, PTL DEF SyncSpec, WritesAreWhole

\* Bars that touch what is cached, added whole between two periods, leave no hole.
LEMMA TouchingFills ==
  ASSUME NEW bars, NEW all, bars \subseteq all, all \subseteq Periods,
         NEW from \in Periods, NEW end \in Periods,
         \A b \in all : (\E a, c \in bars : a <= b /\ b <= c) => b \in bars,
         bars = {} \/ (from <= Latest(bars) /\ end >= Earliest(bars)),
         NEW b \in all, NEW a, NEW c,
         a \in bars \cup (all \cap (from..end)), c \in bars \cup (all \cap (from..end)),
         a <= b, b <= c
  PROVE  b \in bars \cup (all \cap (from..end))
<1>1. from \in Nat /\ end \in Nat /\ all \subseteq Nat
  BY DEF Periods
<1>2. a \in Nat /\ b \in Nat /\ c \in Nat
  BY <1>1
<1>3. CASE from <= b /\ b <= end
  BY <1>1, <1>2, <1>3
<1>4. CASE bars = {}
  <2>1. from <= a /\ c <= end
    BY <1>4
  <2>2. from <= b /\ b <= end
    BY <1>1, <1>2, <2>1
  <2> QED BY <1>3, <2>2
<1>5. CASE bars # {}
  <2>1. /\ Earliest(bars) \in bars /\ Latest(bars) \in bars
        /\ from <= Latest(bars) /\ end >= Earliest(bars)
    BY <1>5, Extremes
  <2>2. Earliest(bars) \in Nat /\ Latest(bars) \in Nat
    BY <1>1, <2>1
  <2>3. CASE ~ (from <= b)
    <3>1. a \in bars
      BY <1>1, <1>2, <2>3
    <3>2. b <= Latest(bars)
      BY <1>1, <1>2, <2>1, <2>2, <2>3
    <3> QED BY <2>1, <3>1, <3>2
  <2>4. CASE ~ (b <= end)
    <3>1. c \in bars
      BY <1>1, <1>2, <2>4
    <3>2. Earliest(bars) <= b
      BY <1>1, <1>2, <2>1, <2>2, <2>4
    <3> QED BY <2>1, <3>1, <3>2
  <2> QED BY <1>3, <2>3, <2>4
<1> QED BY <1>4, <1>5

\* A sync opens a hole in a cache only when its window does not touch what is
\* cached; no shared start, interrupted batch or retry of one does.
THEOREM HolesDetached == SyncSpec => HolesNeedADetachedWindow
<1>1. SyncInv /\ [SyncNext]_syncVars =>
        [\A s \in Symbols :
           Unbroken(s) /\ ~Unbroken(s)' =>
             /\ s \in call.wanted
             /\ \/ call.full /\ call.start > Latest(held[s])
                \/ call.end < Earliest(held[s])]_syncVars
  <2> SUFFICES ASSUME SyncInv, [SyncNext]_syncVars, NEW s \in Symbols, Unbroken(s), ~Unbroken(s)'
               PROVE  /\ s \in call.wanted
                      /\ \/ call.full /\ call.start > Latest(held[s])
                         \/ call.end < Earliest(held[s])
    OBVIOUS
  <2>1. ~ Tick
    BY TickKeeps
  <2>2. venue' = venue
    BY <2>1, OnlyTickAdds
  <2>3. held'[s] # held[s]
    <3> SUFFICES ASSUME held'[s] = held[s] PROVE FALSE
      OBVIOUS
    <3> QED BY <2>2 DEF Unbroken
  <2>4. Commit
    BY <2>3, OnlyCommitWrites
  <2>5. PICK t \in Symbols, from \in Periods :
          /\ t \in call.wanted /\ Fits(t, from)
          /\ held' = [held EXCEPT ![t] = held[t] \cup (venue[t] \cap (from..call.end))]
    BY <2>4, CommitWrites
  <2>6. /\ held \in [Symbols -> SUBSET Periods] /\ held[s] \subseteq venue[s] /\ venue[s] \subseteq 1..clock
        /\ clock \in Periods /\ call.end \in 1..clock /\ call.start \in Periods
    BY DEF SyncInv, SyncTyped
  <2>7. t = s /\ held'[s] = held[s] \cup (venue[s] \cap (from..call.end))
    BY <2>3, <2>5, <2>6
  <2>8. venue[s] \subseteq Periods /\ call.end \in Periods
    BY <2>6, SyncAssumption DEF Periods
  <2>9. SUFFICES ASSUME held[s] = {} \/ (from <= Latest(held[s]) /\ call.end >= Earliest(held[s]))
                 PROVE  FALSE
    <3>1. CASE held[s] = {}
      BY <2>9, <3>1
    <3>2. CASE held[s] # {}
      <4>1. /\ Earliest(held[s]) \in Nat /\ Latest(held[s]) \in Nat /\ from \in Nat
            /\ call.end \in Nat /\ call.start \in Nat
        <5>1. held[s] \subseteq Periods
          BY <2>6
        <5>2. Earliest(held[s]) \in Periods /\ Latest(held[s]) \in Periods
          BY <3>2, <5>1, Extremes
        <5> QED BY <2>6, <2>8, <5>2 DEF Periods
      <4>2. \/ from = call.start /\ (call.full \/ from <= Latest(held[s]))
            \/ Earliest(held[s]) <= call.start /\ from <= Latest(held[s])
        BY <2>5, <2>7, <3>2 DEF Fits, FitsFor
      <4>3. CASE from <= Latest(held[s])
        BY <2>5, <2>7, <2>9, <4>1, <4>3
      <4>4. CASE ~ (from <= Latest(held[s]))
        BY <2>5, <2>7, <4>1, <4>2, <4>4
      <4> QED BY <4>3, <4>4
    <3> QED BY <3>1, <3>2
  <2>10. PICK b \in venue[s], a \in held'[s], c \in held'[s] : a <= b /\ b <= c /\ b \notin held'[s]
    BY <2>2 DEF Unbroken
  <2>11. \A x \in venue[s] : (\E y, z \in held[s] : y <= x /\ x <= z) => x \in held[s]
    BY DEF Unbroken
  <2> DEFINE bars == held[s]
             all == venue[s]
             end == call.end
  <2>12. /\ bars \subseteq all /\ all \subseteq Periods /\ end \in Periods
         /\ \A x \in all : (\E y, z \in bars : y <= x /\ x <= z) => x \in bars
         /\ bars = {} \/ (from <= Latest(bars) /\ end >= Earliest(bars))
         /\ b \in all /\ a \in bars \cup (all \cap (from..end)) /\ c \in bars \cup (all \cap (from..end))
    BY <2>6, <2>7, <2>8, <2>9, <2>10, <2>11
  <2>13. b \notin bars \cup (all \cap (from..end))
    BY <2>7, <2>10
  <2> HIDE DEF bars, all, end
  <2> QED BY <2>10, <2>12, <2>13, TouchingFills
<1> QED BY <1>1, SyncInvariant, PTL DEF SyncSpec, HolesNeedADetachedWindow

\* A call that returned left every symbol it was asked for with every bar the
\* venue had of the window.
THEOREM ReturnedCurrent == SyncSpec => []ReturnedIsCurrent
<1>1. SyncInv => ReturnedIsCurrent
  <2> SUFFICES ASSUME SyncInv, outcome = "returned", NEW s \in call.wanted, Unbroken(s),
                      NEW b \in venue[s] \cap (call.start..call.end)
               PROVE  b \in held[s]
    BY DEF ReturnedIsCurrent
  <2>1. pc = "idle" /\ queue = <<>> /\ s \in Symbols
    BY DEF SyncInv, SyncTyped
  <2>2. DOMAIN queue = {}
    BY <2>1
  <2>3. ~ ToCome(s)
    BY <2>1, <2>2 DEF ToCome
  <2>4. Served(s)
    BY <2>3 DEF SyncInv, NoneDropped
  <2>5. PICK from \in Periods :
          /\ venue[s] \cap (from..call.end) \subseteq held[s]
          /\ \/ from = call.start
             \/ held[s] # {} /\ Earliest(held[s]) <= call.start /\ from <= Latest(held[s])
    BY <2>4 DEF Served
  <2>6. held[s] \subseteq Periods /\ call.start \in Nat /\ call.end \in Nat /\ from \in Nat /\ b \in Nat
        /\ call.start <= b /\ b <= call.end /\ b \in venue[s]
    BY <2>1 DEF SyncInv, SyncTyped, Periods
  <2>7. CASE from <= b
    BY <2>5, <2>6, <2>7
  <2>8. CASE ~ (from <= b)
    <3>1. held[s] # {} /\ Earliest(held[s]) <= call.start /\ from <= Latest(held[s])
      BY <2>5, <2>6, <2>8
    <3>2. Earliest(held[s]) \in held[s] /\ Latest(held[s]) \in held[s]
      BY <2>6, <3>1, Extremes
    <3>3. Earliest(held[s]) \in Nat /\ Latest(held[s]) \in Nat
      BY <2>6, <3>2 DEF Periods
    <3>4. Earliest(held[s]) <= b /\ b <= Latest(held[s])
      BY <2>6, <2>8, <3>1, <3>3
    <3> QED BY <2>6, <3>2, <3>4 DEF Unbroken
  <2> QED BY <2>7, <2>8
<1> QED BY <1>1, SyncInvariant, PTL
=============================================================================
