---------------------------- MODULE FiniteLemmas ----------------------------
(***************************************************************************)
(* Facts about sums over finite sets, about what is selected of a sequence *)
(* and about what holds along one.  The community library defines a sum as *)
(* a fold, and the fold by a CHOOSE over functions; these lemmas show that *)
(* the sum is what its reader expects, by induction on subsets (a minimal  *)
(* counterexample), which needs no theorem that takes an operator.         *)
(***************************************************************************)
EXTENDS Selection, Integers, Sequences, FiniteSets, FiniteSetsExt, Functions, FiniteSetTheorems, TLAPS

\* The element the library's folds take first.
Pick(s) == CHOOSE x \in s : TRUE

\* g maps every subset of S to the sum of f over it.
IsSummation(g, f, S) ==
  g = [s \in SUBSET S |-> IF s = {} THEN 0 ELSE f[Pick(s)] + g[s \ {Pick(s)}]]

\* The element the library's folds pick belongs to the set.
LEMMA PickInSet == ASSUME NEW s, s # {} PROVE Pick(s) \in s
  BY DEF Pick

\* A finite set stays finite when an element joins it.
LEMMA AddFinite == \A S, x : IsFiniteSet(S) => IsFiniteSet(S \cup {x})
  BY FS_AddElement

\* A sum is the fold the library defines it as.
LEMMA SumUnfold ==
  ASSUME NEW f, NEW S
  PROVE  SumFunctionOnSet(f, S) = (CHOOSE g : IsSummation(g, f, S))[S]
  BY Zenon DEF SumFunctionOnSet, FoldFunctionOnSet, MapThenFoldSet, IsSummation, Pick

\* A family of subsets of a finite set that is not empty has a minimal member:
\* the induction every lemma below argues by.
LEMMA SubsetInduction ==
  ASSUME NEW S, IsFiniteSet(S), NEW Bad, Bad \subseteq SUBSET S, Bad # {}
  PROVE  \E s \in Bad : \A t \in Bad : ~ (t \subseteq s /\ t # s)
<1>1. IsWellFoundedOn(StrictSubsetOrdering(S), FiniteSubsetsOf(S))
  BY FS_StrictSubsetOrderingWellFounded
<1>2. FiniteSubsetsOf(S) = SUBSET S
  BY FS_FiniteSubsetsOfFinite
<1>3. \E s \in Bad : \A t \in Bad : ~ (<<t, s>> \in StrictSubsetOrdering(S))
  BY <1>1, <1>2, WFMin
<1>4. \A s, t \in SUBSET S : t \subseteq s /\ t # s => <<t, s>> \in StrictSubsetOrdering(S)
  BY DEF StrictSubsetOrdering
<1> QED BY <1>3, <1>4

\* What a summation says at one subset.
LEMMA SummationAt ==
  ASSUME NEW f, NEW S, NEW g, IsSummation(g, f, S), NEW s \in SUBSET S
  PROVE  /\ s = {} => g[s] = 0
         /\ s # {} => g[s] = f[Pick(s)] + g[s \ {Pick(s)}]
  BY Zenon DEF IsSummation

\* Two summations agree wherever both are defined.
LEMMA SummationUnique ==
  ASSUME NEW f, NEW S, IsFiniteSet(S), NEW U \in SUBSET S,
         NEW g, IsSummation(g, f, U), NEW h, IsSummation(h, f, S)
  PROVE  \A s \in SUBSET U : g[s] = h[s]
<1> DEFINE Bad == {s \in SUBSET U : g[s] # h[s]}
<1>1. SUFFICES ASSUME Bad # {} PROVE FALSE
  OBVIOUS
<1>2. PICK s \in Bad : \A t \in Bad : ~ (t \subseteq s /\ t # s)
  <2>1. IsFiniteSet(U) /\ Bad \subseteq SUBSET U
    BY FS_Subset
  <2> HIDE DEF Bad
  <2> QED BY <1>1, <2>1, SubsetInduction
<1>3. s # {}
  <2>1. s \in SUBSET U /\ s \in SUBSET S /\ g[s] # h[s]
    BY <1>2
  <2> HIDE DEF Bad
  <2>2. \A t \in SUBSET U : t = {} => g[t] = 0
    BY SummationAt
  <2>3. \A t \in SUBSET S : t = {} => h[t] = 0
    BY SummationAt
  <2> QED BY <2>1, <2>2, <2>3
<1>4. Pick(s) \in s
  BY <1>3, PickInSet
<1>5. g[s \ {Pick(s)}] = h[s \ {Pick(s)}]
  BY <1>2, <1>4
<1>6. g[s] = f[Pick(s)] + g[s \ {Pick(s)}] /\ h[s] = f[Pick(s)] + h[s \ {Pick(s)}]
  BY <1>2, <1>3, SummationAt
<1> QED BY <1>2, <1>5, <1>6

\* Every finite set has a summation.
LEMMA SummationExists ==
  ASSUME NEW f, NEW S, IsFiniteSet(S)
  PROVE  \E g : IsSummation(g, f, S)
<1> DEFINE Bad == {T \in SUBSET S : ~ \E g : IsSummation(g, f, T)}
<1>1. SUFFICES ASSUME Bad # {} PROVE FALSE
  <2>1. S \in SUBSET S
    OBVIOUS
  <2> QED BY <2>1
<1>2. PICK T \in Bad : \A t \in Bad : ~ (t \subseteq T /\ t # T)
  <2>1. Bad \subseteq SUBSET S
    OBVIOUS
  <2> HIDE DEF Bad
  <2> QED BY <1>1, <2>1, SubsetInduction
<1> DEFINE Below(u) == CHOOSE g : IsSummation(g, f, u)
           G == [s \in SUBSET T |->
                   IF s = {} THEN 0
                   ELSE f[Pick(s)] + Below(s \ {Pick(s)})[s \ {Pick(s)}]]
<1>3. \A u \in SUBSET T : u # T => IsSummation(Below(u), f, u)
  <2>1. \A u \in SUBSET T : u # T => \E g : IsSummation(g, f, u)
    BY <1>2
  <2> QED BY <2>1
<1>4. ASSUME NEW s \in SUBSET T, s # {}
      PROVE  G[s \ {Pick(s)}] = Below(s \ {Pick(s)})[s \ {Pick(s)}]
  <2> DEFINE u == s \ {Pick(s)}
             v == u \ {Pick(u)}
  <2>1. Pick(s) \in s /\ u \in SUBSET T /\ u # T
    BY <1>4, PickInSet
  <2>2. IsSummation(Below(u), f, u)
    BY <1>3, <2>1
  <2>3. CASE u = {}
    <3>1. Below(u)[u] = 0
      BY <2>2, <2>3, SummationAt
    <3>2. G[u] = 0
      BY <2>1, <2>3
    <3> QED BY <3>1, <3>2
  <2>4. CASE u # {}
    <3>1. Pick(u) \in u /\ v \in SUBSET u /\ v \in SUBSET T /\ v # T
      BY <2>1, <2>4, PickInSet
    <3>2. Below(u)[u] = f[Pick(u)] + Below(u)[v]
      <4> HIDE DEF Below, u
      <4> QED BY <2>2, <2>4, SummationAt
    <3>3. IsSummation(Below(v), f, v)
      BY <1>3, <3>1
    <3>4. Below(v)[v] = Below(u)[v]
      <4>1. IsFiniteSet(u)
        BY <2>1, <1>2, FS_Subset
      <4> HIDE DEF Below, v, u
      <4>2. \A w \in SUBSET v : Below(v)[w] = Below(u)[w]
        BY <2>2, <3>1, <3>3, <4>1, SummationUnique
      <4> QED BY <4>2
    <3>5. G[u] = f[Pick(u)] + Below(v)[v]
      BY <2>1, <2>4
    <3> QED BY <3>2, <3>4, <3>5
  <2> QED BY <2>3, <2>4
<1>5. IsSummation(G, f, T)
  <2>1. ASSUME NEW s \in SUBSET T
        PROVE  G[s] = IF s = {} THEN 0 ELSE f[Pick(s)] + G[s \ {Pick(s)}]
    <3>1. G[s] = IF s = {} THEN 0 ELSE f[Pick(s)] + Below(s \ {Pick(s)})[s \ {Pick(s)}]
      OBVIOUS
    <3>2. s # {} => G[s \ {Pick(s)}] = Below(s \ {Pick(s)})[s \ {Pick(s)}]
      BY <1>4
    <3> HIDE DEF G, Below
    <3> QED BY <3>1, <3>2
  <2>2. DOMAIN G = SUBSET T /\ G = [s \in DOMAIN G |-> G[s]]
    OBVIOUS
  <2> HIDE DEF G
  <2> QED BY <2>1, <2>2, Zenon DEF IsSummation
<1> QED BY <1>2, <1>5

\* The recursive equation of the sum: nothing at the empty set, else the picked
\* element plus the rest.
LEMMA SumStep ==
  ASSUME NEW f, NEW S, IsFiniteSet(S)
  PROVE  /\ S = {} => SumFunctionOnSet(f, S) = 0
         /\ S # {} => SumFunctionOnSet(f, S)
                       = f[Pick(S)] + SumFunctionOnSet(f, S \ {Pick(S)})
<1> DEFINE T == S \ {Pick(S)}
           g == CHOOSE h : IsSummation(h, f, S)
           h == CHOOSE k : IsSummation(k, f, T)
<1>1. IsFiniteSet(T) /\ T \in SUBSET S /\ S \in SUBSET S
  BY FS_Subset
<1>2. IsSummation(g, f, S) /\ IsSummation(h, f, T)
  BY <1>1, SummationExists
<1>3. SumFunctionOnSet(f, S) = g[S] /\ SumFunctionOnSet(f, T) = h[T]
  BY SumUnfold
<1> HIDE DEF g, h
<1>4. h[T] = g[T]
  <2> HIDE DEF T
  <2> QED BY <1>1, <1>2, SummationUnique
<1> QED BY <1>1, <1>2, <1>3, <1>4, SummationAt

\* A sum of integers is an integer.
LEMMA SumInt ==
  ASSUME NEW f, NEW S, IsFiniteSet(S), \A s \in S : f[s] \in Int
  PROVE  SumFunctionOnSet(f, S) \in Int
<1> DEFINE Bad == {T \in SUBSET S : SumFunctionOnSet(f, T) \notin Int}
<1>1. SUFFICES ASSUME Bad # {} PROVE FALSE
  <2>1. S \in SUBSET S
    OBVIOUS
  <2> QED BY <2>1
<1>2. PICK T \in Bad : \A t \in Bad : ~ (t \subseteq T /\ t # T)
  <2>1. Bad \subseteq SUBSET S
    OBVIOUS
  <2> HIDE DEF Bad
  <2> QED BY <1>1, <2>1, SubsetInduction
<1>3. IsFiniteSet(T)
  BY <1>2, FS_Subset
<1>4. T # {} /\ SumFunctionOnSet(f, T) = f[Pick(T)] + SumFunctionOnSet(f, T \ {Pick(T)})
  <2>1. SumFunctionOnSet(f, T) \notin Int
    BY <1>2
  <2>2. T = {} => SumFunctionOnSet(f, T) = 0
    BY <1>3, SumStep
  <2>3. T # {}
    BY <2>1, <2>2
  <2> QED BY <1>3, <2>3, SumStep
<1>5. Pick(T) \in T
  BY <1>4, PickInSet
<1>6. SumFunctionOnSet(f, T \ {Pick(T)}) \in Int
  BY <1>2, <1>5
<1> QED BY <1>2, <1>4, <1>5, <1>6

\* Any element may be summed first.
LEMMA SumRemove ==
  ASSUME NEW f, NEW S, IsFiniteSet(S), \A s \in S : f[s] \in Int, NEW x \in S
  PROVE  SumFunctionOnSet(f, S) = f[x] + SumFunctionOnSet(f, S \ {x})
<1> DEFINE F(T) == SumFunctionOnSet(f, T)
           Bad == {T \in SUBSET S : \E y \in T : F(T) # f[y] + F(T \ {y})}
<1>1. SUFFICES ASSUME Bad # {} PROVE FALSE
  <2>1. S \in SUBSET S
    OBVIOUS
  <2> QED BY <2>1
<1>2. PICK T \in Bad : \A t \in Bad : ~ (t \subseteq T /\ t # T)
  <2>1. Bad \subseteq SUBSET S
    OBVIOUS
  <2> HIDE DEF Bad
  <2> QED BY <1>1, <2>1, SubsetInduction
<1>3. PICK y \in T : F(T) # f[y] + F(T \ {y})
  BY <1>2
<1> DEFINE p == Pick(T)
<1>4. p \in T /\ F(T) = f[p] + F(T \ {p})
  <2>1. IsFiniteSet(T)
    BY <1>2, FS_Subset
  <2> QED BY <1>3, <2>1, PickInSet, SumStep
<1>5. p # y
  BY <1>3, <1>4
<1>6. F(T \ {p}) = f[y] + F((T \ {p}) \ {y})
  BY <1>2, <1>3, <1>4, <1>5
<1>7. F(T \ {y}) = f[p] + F((T \ {y}) \ {p})
  BY <1>2, <1>3, <1>4, <1>5
<1>8. (T \ {p}) \ {y} = (T \ {y}) \ {p}
  OBVIOUS
<1>9. F((T \ {y}) \ {p}) \in Int /\ f[y] \in Int /\ f[p] \in Int
  <2> DEFINE R == (T \ {y}) \ {p}
  <2>1. R \in SUBSET S
    BY <1>2
  <2>2. IsFiniteSet(R)
    BY <2>1, FS_Subset
  <2> QED BY <1>2, <1>3, <1>4, <2>1, <2>2, SumInt
<1>10. \A a, b, c \in Int : a + (b + c) = b + (a + c)
  OBVIOUS
<1>11. F(T) = f[p] + (f[y] + F((T \ {y}) \ {p}))
  BY <1>4, <1>6, <1>8
<1>12. f[y] + F(T \ {y}) = f[y] + (f[p] + F((T \ {y}) \ {p}))
  BY <1>7
<1> HIDE DEF F, p
<1> QED BY <1>3, <1>9, <1>10, <1>11, <1>12, Zenon

\* A sum depends only on the values over its set.
LEMMA SumSame ==
  ASSUME NEW f, NEW g, NEW S, IsFiniteSet(S), \A s \in S : f[s] = g[s]
  PROVE  SumFunctionOnSet(f, S) = SumFunctionOnSet(g, S)
<1> DEFINE Bad == {T \in SUBSET S : SumFunctionOnSet(f, T) # SumFunctionOnSet(g, T)}
<1>1. SUFFICES ASSUME Bad # {} PROVE FALSE
  <2>1. S \in SUBSET S
    OBVIOUS
  <2> QED BY <2>1
<1>2. PICK T \in Bad : \A t \in Bad : ~ (t \subseteq T /\ t # T)
  <2>1. Bad \subseteq SUBSET S
    OBVIOUS
  <2> HIDE DEF Bad
  <2> QED BY <1>1, <2>1, SubsetInduction
<1>3. IsFiniteSet(T)
  BY <1>2, FS_Subset
<1>4. T # {}
  BY <1>2, <1>3, SumStep
<1>5. Pick(T) \in T
  BY <1>4, PickInSet
<1>6. SumFunctionOnSet(f, T \ {Pick(T)}) = SumFunctionOnSet(g, T \ {Pick(T)})
  BY <1>2, <1>5
<1>7. f[Pick(T)] = g[Pick(T)]
  BY <1>2, <1>5
<1> QED BY <1>2, <1>3, <1>4, <1>6, <1>7, SumStep

\* A sum splits over a subset and the rest.
LEMMA SumSplit ==
  ASSUME NEW f, NEW S, IsFiniteSet(S), \A s \in S : f[s] \in Int, NEW T \in SUBSET S
  PROVE  SumFunctionOnSet(f, S) = SumFunctionOnSet(f, T) + SumFunctionOnSet(f, S \ T)
<1> DEFINE F(U) == SumFunctionOnSet(f, U)
           Bad == {U \in SUBSET T : F(S) # F(U) + F(S \ U)}
<1>1. SUFFICES ASSUME Bad # {} PROVE FALSE
  <2>1. T \in SUBSET T
    OBVIOUS
  <2> QED BY <2>1
<1>2. PICK U \in Bad : \A t \in Bad : ~ (t \subseteq U /\ t # U)
  <2>1. Bad \subseteq SUBSET T /\ IsFiniteSet(T)
    BY FS_Subset
  <2> HIDE DEF Bad
  <2> QED BY <1>1, <2>1, SubsetInduction
<1>3. \A R \in SUBSET S : IsFiniteSet(R) /\ F(R) \in Int
  BY FS_Subset, SumInt
<1>4. U # {}
  <2>1. F({}) = 0 /\ S \ {} = S
    BY FS_EmptySet, SumStep
  <2>2. F(S) = 0 + F(S)
    BY <1>3
  <2>3. F(S) # F(U) + F(S \ U)
    BY <1>2
  <2> HIDE DEF F
  <2> QED BY <2>1, <2>2, <2>3, Zenon
<1>5. PICK x : x \in U
  BY <1>4
<1> DEFINE V == U \ {x}
<1>6. F(S) = F(V) + F(S \ V)
  BY <1>2, <1>5
<1>7. F(U) = f[x] + F(V)
  BY <1>2, <1>3, <1>5, SumRemove
<1>8. F(S \ V) = f[x] + F((S \ V) \ {x})
  <2> DEFINE W == S \ V
  <2>1. x \in W /\ W \in SUBSET S /\ IsFiniteSet(W) /\ \A s \in W : f[s] \in Int
    BY <1>2, <1>3, <1>5
  <2> HIDE DEF W
  <2>2. SumFunctionOnSet(f, W) = f[x] + SumFunctionOnSet(f, W \ {x})
    BY <2>1, SumRemove
  <2> QED BY <2>2 DEF W
<1>9. (S \ V) \ {x} = S \ U
  BY <1>2, <1>5
<1>10. f[x] \in Int /\ F(V) \in Int /\ F(S \ U) \in Int
  BY <1>2, <1>3, <1>5
<1>11. F(S) # F(U) + F(S \ U)
  BY <1>2
<1>12. \A a, b, c \in Int : b + (a + c) = (a + b) + c
  OBVIOUS
<1>13. F(S) = F(V) + (f[x] + F(S \ U)) /\ F(U) + F(S \ U) = (f[x] + F(V)) + F(S \ U)
  BY <1>6, <1>7, <1>8, <1>9
<1> HIDE DEF F, V
<1> QED BY <1>10, <1>11, <1>12, <1>13, Zenon

\* A sum of zeros is zero.
LEMMA SumZero ==
  ASSUME NEW f, NEW S, IsFiniteSet(S), \A s \in S : f[s] = 0
  PROVE  SumFunctionOnSet(f, S) = 0
<1> DEFINE Bad == {T \in SUBSET S : SumFunctionOnSet(f, T) # 0}
<1>1. SUFFICES ASSUME Bad # {} PROVE FALSE
  <2>1. S \in SUBSET S
    OBVIOUS
  <2> QED BY <2>1
<1>2. PICK T \in Bad : \A t \in Bad : ~ (t \subseteq T /\ t # T)
  <2>1. Bad \subseteq SUBSET S
    OBVIOUS
  <2> HIDE DEF Bad
  <2> QED BY <1>1, <2>1, SubsetInduction
<1>3. IsFiniteSet(T)
  BY <1>2, FS_Subset
<1>4. T # {}
  BY <1>2, <1>3, SumStep
<1>5. Pick(T) \in T
  BY <1>4, PickInSet
<1>6. SumFunctionOnSet(f, T \ {Pick(T)}) = 0 /\ f[Pick(T)] = 0
  BY <1>2, <1>5
<1>7. SumFunctionOnSet(f, T) = 0 + 0
  BY <1>3, <1>4, <1>6, SumStep
<1> QED BY <1>2, <1>7

\* A nonempty set of naturals holds its minimum.
LEMMA NatMin ==
  \A S : IsFiniteSet(S) /\ S \subseteq Nat /\ S # {}
         => Min(S) \in S /\ \A s \in S : Min(S) <= s
<1> SUFFICES ASSUME NEW S
             PROVE  IsFiniteSet(S) /\ S \subseteq Nat /\ S # {}
                    => Min(S) \in S /\ \A s \in S : Min(S) <= s
  OBVIOUS
<1> DEFINE under(x) == {s \in S : s < x}
           unders == {under(x) : x \in S}
<1>1. ASSUME IsFiniteSet(S), S # {}
      PROVE  \E u \in unders : \A t \in unders : ~ (t \subseteq u /\ t # u)
  <2>1. unders \subseteq SUBSET S /\ unders # {}
    BY <1>1
  <2> HIDE DEF unders
  <2> QED BY <1>1, <2>1, SubsetInduction
<1>2. HAVE IsFiniteSet(S) /\ S \subseteq Nat /\ S # {}
<1>3. PICK u \in unders : \A t \in unders : ~ (t \subseteq u /\ t # u)
  BY <1>1, <1>2
<1>4. PICK x \in S : u = under(x)
  BY <1>3
<1>5. ASSUME NEW y \in S, y < x PROVE FALSE
  <2>1. under(y) \subseteq u /\ y \in u /\ y \notin under(y)
    <3>1. \A s \in S : s < y => s < x
      BY <1>2, <1>5
    <3>2. ~ (y < y)
      BY <1>2
    <3> QED BY <1>4, <1>5, <3>1, <3>2
  <2>2. under(y) \in unders /\ under(y) # u
    BY <2>1
  <2> QED BY <1>3, <2>1, <2>2
<1>6. \A y \in S : x <= y
  BY <1>2, <1>5
<1> QED BY <1>6 DEF Min

\* A sum of naturals is not negative.
LEMMA SumNat ==
  ASSUME NEW f, NEW S, IsFiniteSet(S), \A s \in S : f[s] \in Nat
  PROVE  SumFunctionOnSet(f, S) \in Nat
<1> DEFINE Bad == {U \in SUBSET S : SumFunctionOnSet(f, U) \notin Nat}
<1>1. SUFFICES ASSUME Bad # {} PROVE FALSE
  <2>1. S \in SUBSET S
    OBVIOUS
  <2> QED BY <2>1
<1>2. PICK U \in Bad : \A t \in Bad : ~ (t \subseteq U /\ t # U)
  <2>1. Bad \subseteq SUBSET S
    OBVIOUS
  <2> HIDE DEF Bad
  <2> QED BY <1>1, <2>1, SubsetInduction
<1>3. IsFiniteSet(U)
  BY <1>2, FS_Subset
<1>4. U # {}
  <2>1. U = {} => SumFunctionOnSet(f, U) = 0
    BY <1>3, SumStep
  <2>2. SumFunctionOnSet(f, U) \notin Nat
    BY <1>2
  <2> QED BY <2>1, <2>2
<1>5. Pick(U) \in U
  BY <1>4, PickInSet
<1>6. SumFunctionOnSet(f, U \ {Pick(U)}) \in Nat /\ f[Pick(U)] \in Nat
  BY <1>2, <1>5
<1> QED BY <1>2, <1>3, <1>4, <1>6, SumStep

\* The sum of a difference is the difference of the sums.
LEMMA SumMinus ==
  ASSUME NEW f, NEW g, NEW h, NEW S, IsFiniteSet(S),
         \A s \in S : f[s] \in Int /\ g[s] \in Int /\ h[s] = f[s] - g[s]
  PROVE  SumFunctionOnSet(h, S) = SumFunctionOnSet(f, S) - SumFunctionOnSet(g, S)
<1> DEFINE F(U) == SumFunctionOnSet(f, U)
           G(U) == SumFunctionOnSet(g, U)
           H(U) == SumFunctionOnSet(h, U)
           Bad == {U \in SUBSET S : H(U) # F(U) - G(U)}
<1>1. SUFFICES ASSUME Bad # {} PROVE FALSE
  <2>1. S \in SUBSET S
    OBVIOUS
  <2> QED BY <2>1
<1>2. PICK U \in Bad : \A t \in Bad : ~ (t \subseteq U /\ t # U)
  <2>1. Bad \subseteq SUBSET S
    OBVIOUS
  <2> HIDE DEF Bad
  <2> QED BY <1>1, <2>1, SubsetInduction
<1>3. IsFiniteSet(U) /\ U \in SUBSET S
  BY <1>2, FS_Subset
<1>4. CASE U = {}
  <2>1. F(U) = 0 /\ G(U) = 0 /\ H(U) = 0
    BY <1>3, <1>4, SumStep
  <2> HIDE DEF F, G, H
  <2>2. H(U) = F(U) - G(U)
    BY <2>1
  <2> QED BY <1>2, <2>2 DEF F, G, H
<1>5. CASE U # {}
  <2>1. PICK x : x \in U
    BY <1>5
  <2> DEFINE V == U \ {x}
  <2>2. \A s \in U : f[s] \in Int /\ g[s] \in Int /\ h[s] \in Int
    BY <1>3
  <2>3. F(U) = f[x] + F(V) /\ G(U) = g[x] + G(V) /\ H(U) = h[x] + H(V)
    BY <1>3, <2>1, <2>2, SumRemove
  <2>4. H(V) = F(V) - G(V)
    BY <1>2, <2>1
  <2>5. F(V) \in Int /\ G(V) \in Int
    <3>1. IsFiniteSet(V) /\ \A s \in V : f[s] \in Int /\ g[s] \in Int
      BY <1>3, <2>2, FS_Subset
    <3> HIDE DEF V
    <3> QED BY <3>1, SumInt
  <2>6. f[x] \in Int /\ g[x] \in Int /\ h[x] = f[x] - g[x]
    BY <1>3, <2>1
  <2> HIDE DEF F, G, H, V
  <2>7. H(U) = F(U) - G(U)
    BY <2>3, <2>4, <2>5, <2>6
  <2> QED BY <1>2, <2>7 DEF F, G, H
<1> QED BY <1>4, <1>5

\* A sum over the image of an injection is a sum over its domain.
LEMMA SumImage ==
  ASSUME NEW S, IsFiniteSet(S), NEW e, \A s, t \in S : e[s] = e[t] => s = t,
         NEW f, NEW g, \A s \in S : f[e[s]] \in Int /\ g[s] = f[e[s]]
  PROVE  SumFunctionOnSet(f, {e[s] : s \in S}) = SumFunctionOnSet(g, S)
<1> DEFINE Im(U) == {e[s] : s \in U}
           F(U) == SumFunctionOnSet(f, U)
           G(U) == SumFunctionOnSet(g, U)
           Bad == {U \in SUBSET S : F(Im(U)) # G(U)}
<1>1. SUFFICES ASSUME Bad # {} PROVE FALSE
  <2>1. S \in SUBSET S
    OBVIOUS
  <2> QED BY <2>1
<1>2. PICK U \in Bad : \A t \in Bad : ~ (t \subseteq U /\ t # U)
  <2>1. Bad \subseteq SUBSET S
    OBVIOUS
  <2> HIDE DEF Bad
  <2> QED BY <1>1, <2>1, SubsetInduction
<1>3. IsFiniteSet(U) /\ U \in SUBSET S /\ IsFiniteSet(Im(U))
  <2>1. IsFiniteSet(U) /\ U \in SUBSET S
    BY <1>2, FS_Subset
  <2> DEFINE d == [s \in U |-> e[s]]
  <2>2. d \in Surjection(U, Im(U))
    BY DEF Surjection
  <2>3. IsFiniteSet(Im(U))
    BY <2>1, <2>2, FS_Surjection
  <2> QED BY <2>1, <2>3
<1>4. CASE U = {}
  <2>1. Im(U) = {}
    BY <1>4
  <2>2. F(Im(U)) = 0 /\ G(U) = 0
    BY <1>3, <1>4, <2>1, SumStep
  <2> QED BY <1>2, <2>2
<1>5. CASE U # {}
  <2>1. PICK x : x \in U
    BY <1>5
  <2> DEFINE V == U \ {x}
             W == Im(U)
  <2>2. Im(V) = W \ {e[x]} /\ e[x] \in W
    BY <1>3, <2>1
  <2>3. G(U) = g[x] + G(V)
    <3>1. \A s \in U : g[s] \in Int
      BY <1>3
    <3> QED BY <1>3, <2>1, <3>1, SumRemove
  <2>4. F(W) = f[e[x]] + F(W \ {e[x]})
    <3>1. IsFiniteSet(W) /\ \A y \in W : f[y] \in Int
      BY <1>3
    <3> HIDE DEF W
    <3> QED BY <2>2, <3>1, SumRemove
  <2>5. F(Im(V)) = G(V)
    BY <1>2, <2>1
  <2>6. g[x] = f[e[x]]
    BY <1>3, <2>1
  <2>7. F(W) = G(U)
    <3> HIDE DEF F, G, V, W, Im
    <3> QED BY <2>2, <2>3, <2>4, <2>5, <2>6
  <2> QED BY <1>2, <2>7
<1> QED BY <1>4, <1>5

-----------------------------------------------------------------------------
(* The same facts of SumFunction, the form the models use. *)

\* The sum of an integer function over a finite domain is an integer.
LEMMA FunSumInt ==
  ASSUME NEW S, IsFiniteSet(S), NEW f \in [S -> Int]
  PROVE  SumFunction(f) \in Int
<1>1. DOMAIN f = S /\ \A s \in S : f[s] \in Int
  OBVIOUS
<1> QED BY <1>1, SumInt DEF SumFunction

\* The sum of a function that is zero everywhere is zero.
LEMMA FunSumZero ==
  ASSUME NEW S, IsFiniteSet(S), NEW f \in [S -> Int], \A s \in S : f[s] = 0
  PROVE  SumFunction(f) = 0
<1>1. DOMAIN f = S
  OBVIOUS
<1> QED BY <1>1, SumZero DEF SumFunction

\* Changing a function at one point changes its sum by the difference there.
LEMMA FunSumUpdate ==
  ASSUME NEW S, IsFiniteSet(S), NEW f \in [S -> Int], NEW g \in [S -> Int],
         NEW x \in S, \A s \in S \ {x} : f[s] = g[s]
  PROVE  SumFunction(g) = (SumFunction(f) - f[x]) + g[x]
<1> DEFINE T == S \ {x}
<1>1. DOMAIN f = S /\ DOMAIN g = S /\ \A s \in S : f[s] \in Int /\ g[s] \in Int
  OBVIOUS
<1>2. IsFiniteSet(T) /\ \A s \in T : f[s] \in Int /\ f[s] = g[s]
  BY <1>1, FS_Subset
<1>3. SumFunctionOnSet(f, S) = f[x] + SumFunctionOnSet(f, T)
  BY <1>1, SumRemove
<1>4. SumFunctionOnSet(g, S) = g[x] + SumFunctionOnSet(g, T)
  BY <1>1, SumRemove
<1> HIDE DEF T
<1>5. SumFunctionOnSet(f, T) = SumFunctionOnSet(g, T)
  BY <1>2, SumSame
<1>6. SumFunctionOnSet(f, T) \in Int
  BY <1>2, SumInt
<1> DEFINE a == f[x]
           b == g[x]
           c == SumFunctionOnSet(f, T)
           p == SumFunctionOnSet(f, S)
           q == SumFunctionOnSet(g, S)
<1>7. a \in Int /\ b \in Int /\ c \in Int /\ p = a + c /\ q = b + c
  BY <1>1, <1>3, <1>4, <1>5, <1>6
<1>8. q = (p - a) + b
  <2> HIDE DEF a, b, c, p, q
  <2> QED BY <1>7
<1> QED BY <1>1, <1>8 DEF SumFunction

\* One new point adds its value to the sum.
LEMMA FunSumExtend ==
  ASSUME NEW S, IsFiniteSet(S), NEW x, x \notin S, NEW f \in [S -> Int],
         NEW g \in [S \cup {x} -> Int], \A s \in S : f[s] = g[s]
  PROVE  SumFunction(g) = SumFunction(f) + g[x]
<1> DEFINE T == S \cup {x}
<1>1. DOMAIN f = S /\ DOMAIN g = T
  OBVIOUS
<1>2. IsFiniteSet(T) /\ x \in T /\ T \ {x} = S /\ \A s \in T : g[s] \in Int
  BY FS_AddElement
<1> HIDE DEF T
<1>3. SumFunctionOnSet(g, T) = g[x] + SumFunctionOnSet(g, S)
  BY <1>2, SumRemove
<1>4. SumFunctionOnSet(g, S) = SumFunctionOnSet(f, S)
  BY SumSame
<1>5. SumFunctionOnSet(f, S) \in Int /\ g[x] \in Int
  BY <1>2, SumInt
<1>6. \A a, b \in Int : a + b = b + a
  OBVIOUS
<1>7. SumFunctionOnSet(g, T) = SumFunctionOnSet(f, S) + g[x]
  BY <1>3, <1>4, <1>5, <1>6, Zenon
<1> QED BY <1>1, <1>7 DEF SumFunction

\* The sum of a function is the sum of its two restrictions.
LEMMA FunSumSplit ==
  ASSUME NEW S, IsFiniteSet(S), NEW T \in SUBSET S, NEW f \in [S -> Int],
         NEW g \in [T -> Int], NEW h \in [S \ T -> Int],
         \A s \in T : g[s] = f[s], \A s \in S \ T : h[s] = f[s]
  PROVE  SumFunction(f) = SumFunction(g) + SumFunction(h)
<1> DEFINE U == S \ T
<1>1. DOMAIN f = S /\ DOMAIN g = T /\ DOMAIN h = U /\ \A s \in S : f[s] \in Int
  OBVIOUS
<1>2. IsFiniteSet(T) /\ IsFiniteSet(U) /\ (\A s \in T : g[s] = f[s]) /\ \A s \in U : h[s] = f[s]
  BY FS_Subset
<1>3. SumFunctionOnSet(f, S) = SumFunctionOnSet(f, T) + SumFunctionOnSet(f, U)
  BY <1>1, SumSplit
<1> HIDE DEF U
<1>4. SumFunctionOnSet(g, T) = SumFunctionOnSet(f, T)
  BY <1>2, SumSame
<1>5. SumFunctionOnSet(h, U) = SumFunctionOnSet(f, U)
  BY <1>2, SumSame
<1> QED BY <1>1, <1>3, <1>4, <1>5 DEF SumFunction

\* A function that is zero off a subset sums to what the subset holds.
LEMMA FunSumPart ==
  ASSUME NEW S, IsFiniteSet(S), NEW T \in SUBSET S, NEW f \in [S -> Int],
         NEW g \in [T -> Int], \A s \in T : g[s] = f[s], \A s \in S \ T : f[s] = 0
  PROVE  SumFunction(f) = SumFunction(g)
<1> DEFINE h == [s \in S \ T |-> 0]
<1>1. h \in [S \ T -> Int] /\ (\A s \in S \ T : h[s] = f[s]) /\ (\A s \in S \ T : h[s] = 0)
  OBVIOUS
<1>2. IsFiniteSet(T) /\ IsFiniteSet(S \ T)
  BY FS_Subset
<1> HIDE DEF h
<1>3. SumFunction(h) = 0
  BY <1>1, <1>2, FunSumZero
<1>4. SumFunction(f) = SumFunction(g) + SumFunction(h)
  BY <1>1, FunSumSplit
<1>5. SumFunction(g) \in Int
  BY <1>2, FunSumInt
<1> QED BY <1>3, <1>4, <1>5

\* The sum of a difference of functions is the difference of their sums.
LEMMA FunSumMinus ==
  ASSUME NEW S, IsFiniteSet(S), NEW f \in [S -> Int], NEW g \in [S -> Int],
         NEW h \in [S -> Int], \A s \in S : h[s] = f[s] - g[s]
  PROVE  SumFunction(h) = SumFunction(f) - SumFunction(g)
<1>1. DOMAIN f = S /\ DOMAIN g = S /\ DOMAIN h = S
      /\ \A s \in S : f[s] \in Int /\ g[s] \in Int /\ h[s] = f[s] - g[s]
  OBVIOUS
<1> QED BY <1>1, SumMinus DEF SumFunction

\* The sum of a function over an injection's image, read at the injection.
LEMMA FunSumImage ==
  ASSUME NEW S, IsFiniteSet(S), NEW e, \A s, t \in S : e[s] = e[t] => s = t,
         NEW T, T = {e[s] : s \in S}, NEW f \in [T -> Int],
         NEW g \in [S -> Int], \A s \in S : g[s] = f[e[s]]
  PROVE  SumFunction(f) = SumFunction(g)
<1>1. DOMAIN f = T /\ DOMAIN g = S /\ \A s \in S : f[e[s]] \in Int
  OBVIOUS
<1>2. SumFunctionOnSet(f, {e[s] : s \in S}) = SumFunctionOnSet(g, S)
  BY <1>1, SumImage
<1> QED BY <1>1, <1>2 DEF SumFunction

\* The sum of a function into the naturals is a natural.
LEMMA FunSumNat ==
  ASSUME NEW S, IsFiniteSet(S), NEW f \in [S -> Nat]
  PROVE  SumFunction(f) \in Nat
<1>1. DOMAIN f = S /\ \A s \in S : f[s] \in Nat
  OBVIOUS
<1> QED BY <1>1, SumNat DEF SumFunction

\* A nonempty set of naturals with a bound holds its maximum.
LEMMA NatMax ==
  ASSUME NEW S, S \subseteq Nat, S # {}, NEW b \in Nat, \A s \in S : s <= b
  PROVE  Max(S) \in S /\ \A s \in S : s <= Max(S)
<1> DEFINE gaps == {b - s : s \in S}
<1>1. gaps \subseteq 0..b
  OBVIOUS
<1>2. IsFiniteSet(gaps)
  BY <1>1, FS_Interval, FS_Subset, 0 \in Int, b \in Int
<1>3. gaps \subseteq Nat /\ gaps # {}
  <2>1. PICK s \in S : TRUE
    OBVIOUS
  <2>2. b - s \in gaps
    BY <2>1
  <2> HIDE DEF gaps
  <2> QED BY <1>1, <2>2
<1>4. Min(gaps) \in gaps /\ \A g \in gaps : Min(gaps) <= g
  <2> HIDE DEF gaps
  <2> QED BY <1>2, <1>3, NatMin
<1>5. PICK s \in S : Min(gaps) = b - s
  BY <1>4
<1>6. \A t \in S : b - s <= b - t
  BY <1>4, <1>5
<1>7. \A t \in S : s >= t
  BY <1>6
<1> QED BY <1>7 DEF Max

\* A finite set's cardinality is a sum of ones.
LEMMA CountIsSum ==
  ASSUME NEW S, IsFiniteSet(S), NEW f \in [S -> Int], \A s \in S : f[s] = 1
  PROVE  Cardinality(S) = SumFunction(f)
<1> DEFINE Bad == {U \in SUBSET S : Cardinality(U) # SumFunctionOnSet(f, U)}
<1>1. DOMAIN f = S /\ \A s \in S : f[s] \in Int
  OBVIOUS
<1>2. Bad = {}
  <2> SUFFICES ASSUME Bad # {} PROVE FALSE
    OBVIOUS
  <2>1. PICK U \in Bad : \A V \in Bad : ~ (V \subseteq U /\ V # U)
    <3>1. Bad \subseteq SUBSET S
      OBVIOUS
    <3> HIDE DEF Bad
    <3> QED BY <3>1, SubsetInduction
  <2>2. U \subseteq S /\ IsFiniteSet(U) /\ \A s \in U : f[s] \in Int
    BY <1>1, FS_Subset
  <2>3. U # {}
    BY FS_EmptySet, SumZero
  <2>4. PICK x \in U : TRUE
    BY <2>3
  <2>5. Cardinality(U \ {x}) = SumFunctionOnSet(f, U \ {x})
    <3>1. U \ {x} \subseteq S /\ U \ {x} \subseteq U /\ U \ {x} # U
      BY <2>2
    <3> QED BY <2>1, <3>1
  <2>6. SumFunctionOnSet(f, U) = f[x] + SumFunctionOnSet(f, U \ {x})
    BY <2>2, SumRemove
  <2>7. Cardinality(U \ {x}) = Cardinality(U) - 1 /\ Cardinality(U) \in Nat
    BY <2>2, FS_RemoveElement, FS_CardinalityType
  <2>8. f[x] = 1 /\ Cardinality(U) # SumFunctionOnSet(f, U)
    BY <2>2
  <2> QED BY <2>5, <2>6, <2>7, <2>8
<1>3. Cardinality(S) = SumFunctionOnSet(f, S)
  BY <1>2
<1> QED BY <1>1, <1>3 DEF SumFunction

\* The sums over the parts that a key divides a set into add up to the whole.
LEMMA SumByPart ==
  ASSUME NEW S, IsFiniteSet(S), NEW f, \A s \in S : f[s] \in Int,
         NEW key, NEW K, IsFiniteSet(K), \A s \in S : key[s] \in K,
         NEW g \in [K -> Int], \A k \in K : g[k] = SumFunctionOnSet(f, {s \in S : key[s] = k})
  PROVE  SumFunction(g) = SumFunctionOnSet(f, S)
<1> DEFINE In(U) == {s \in S : key[s] \in U}
           Bad == {U \in SUBSET K : SumFunctionOnSet(g, U) # SumFunctionOnSet(f, In(U))}
<1>1. DOMAIN g = K /\ \A k \in K : g[k] \in Int
  OBVIOUS
<1>2. Bad = {}
  <2> SUFFICES ASSUME Bad # {} PROVE FALSE
    OBVIOUS
  <2>1. PICK U \in Bad : \A V \in Bad : ~ (V \subseteq U /\ V # U)
    <3>1. Bad \subseteq SUBSET K
      OBVIOUS
    <3> HIDE DEF Bad
    <3> QED BY <3>1, SubsetInduction
  <2>2. U \subseteq K /\ IsFiniteSet(U) /\ \A k \in U : g[k] \in Int
    BY <1>1, FS_Subset
  <2>3. U # {}
    <3>1. SumFunctionOnSet(g, {}) = 0 /\ SumFunctionOnSet(f, {}) = 0
      BY FS_EmptySet, SumZero
    <3>2. In({}) = {}
      OBVIOUS
    <3> QED BY <3>1, <3>2
  <2>4. PICK x \in U : TRUE
    BY <2>3
  <2> DEFINE V == U \ {x}
             T == {s \in S : key[s] = x}
  <2>5. SumFunctionOnSet(g, V) = SumFunctionOnSet(f, In(V))
    <3>1. V \in SUBSET K /\ V \subseteq U /\ V # U
      BY <2>2
    <3> HIDE DEF V
    <3> QED BY <2>1, <3>1
  <2>6. SumFunctionOnSet(g, U) = g[x] + SumFunctionOnSet(g, V)
    BY <2>2, SumRemove
  <2>7. T \in SUBSET In(U) /\ In(U) \ T = In(V) /\ In(U) \subseteq S
    OBVIOUS
  <2>8. IsFiniteSet(In(U)) /\ \A s \in In(U) : f[s] \in Int
    BY <2>7, FS_Subset
  <2>9. SumFunctionOnSet(f, In(U)) = SumFunctionOnSet(f, T) + SumFunctionOnSet(f, In(V))
    <3> HIDE DEF In, T, V
    <3>1. SumFunctionOnSet(f, In(U)) = SumFunctionOnSet(f, T) + SumFunctionOnSet(f, In(U) \ T)
      BY <2>7, <2>8, SumSplit
    <3> QED BY <2>7, <3>1
  <2>10. g[x] = SumFunctionOnSet(f, T)
    BY <2>2
  <2>11. SumFunctionOnSet(g, U) # SumFunctionOnSet(f, In(U))
    OBVIOUS
  <2> HIDE DEF In, T, V
  <2> QED BY <2>5, <2>6, <2>9, <2>10, <2>11
<1>3. SumFunctionOnSet(g, K) = SumFunctionOnSet(f, In(K))
  <2>1. K \in SUBSET K
    OBVIOUS
  <2> QED BY <1>2, <2>1
<1>4. In(K) = S
  OBVIOUS
<1> QED BY <1>1, <1>3, <1>4 DEF SumFunction

\* So do the cardinalities of the parts.
LEMMA CountByPart ==
  ASSUME NEW S, IsFiniteSet(S), NEW key, NEW K, IsFiniteSet(K), \A s \in S : key[s] \in K,
         NEW g \in [K -> Int], \A k \in K : g[k] = Cardinality({s \in S : key[s] = k})
  PROVE  SumFunction(g) = Cardinality(S)
<1> DEFINE f == [s \in S |-> 1]
<1>1. f \in [S -> Int] /\ \A s \in S : f[s] = 1 /\ f[s] \in Int
  OBVIOUS
<1> HIDE DEF f
<1>2. ASSUME NEW k \in K PROVE g[k] = SumFunctionOnSet(f, {s \in S : key[s] = k})
  <2> DEFINE T == {s \in S : key[s] = k}
             h == [s \in T |-> 1]
  <2>1. T \subseteq S /\ IsFiniteSet(T) /\ h \in [T -> Int] /\ DOMAIN h = T
        /\ \A s \in T : h[s] = 1 /\ h[s] = f[s]
    BY <1>1, FS_Subset
  <2>2. g[k] = Cardinality(T)
    OBVIOUS
  <2> HIDE DEF T, h
  <2>3. Cardinality(T) = SumFunctionOnSet(h, T)
    BY <2>1, CountIsSum DEF SumFunction
  <2>4. SumFunctionOnSet(h, T) = SumFunctionOnSet(f, T)
    BY <2>1, SumSame
  <2> QED BY <2>2, <2>3, <2>4 DEF T
<1>3. SumFunction(g) = SumFunctionOnSet(f, S)
  BY <1>1, <1>2, SumByPart
<1>4. Cardinality(S) = SumFunctionOnSet(f, S)
  BY <1>1, CountIsSum DEF SumFunction
<1> QED BY <1>3, <1>4

\* An injection's image is as large as its domain.
LEMMA CountImage ==
  ASSUME NEW S, IsFiniteSet(S), NEW e, \A s, t \in S : e[s] = e[t] => s = t
  PROVE  IsFiniteSet({e[s] : s \in S}) /\ Cardinality({e[s] : s \in S}) = Cardinality(S)
<1> DEFINE T == {e[s] : s \in S}
           f == [s \in S |-> e[s]]
<1>1. f \in [S -> T] /\ (\A t \in T : \E s \in S : f[s] = t) /\ \A s, t \in S : f[s] = f[t] => s = t
  OBVIOUS
<1> HIDE DEF T, f
<1>2. f \in Surjection(S, T) /\ f \in Injection(S, T)
  BY <1>1 DEF Surjection, Injection, IsInjective
<1>3. IsFiniteSet(T) /\ Cardinality(T) = Cardinality(S)
  BY <1>2, FS_Surjection
<1> QED BY <1>3 DEF T

\* A nonempty finite set of integers has a maximum.
LEMMA IntMax ==
  ASSUME NEW S, IsFiniteSet(S), \A s \in S : s \in Int, S # {}
  PROVE  Max(S) \in S /\ \A s \in S : s <= Max(S)
<1> DEFINE Bad == {U \in SUBSET S : U # {} /\ ~ \E m \in U : \A s \in U : s <= m}
<1>1. Bad = {}
  <2> SUFFICES ASSUME Bad # {} PROVE FALSE
    OBVIOUS
  <2>1. PICK U \in Bad : \A V \in Bad : ~ (V \subseteq U /\ V # U)
    <3>1. Bad \subseteq SUBSET S
      OBVIOUS
    <3>2. \E W \in Bad : \A V \in Bad : ~ (V \subseteq W /\ V # W)
      <4> HIDE DEF Bad
      <4> QED BY <3>1, SubsetInduction
    <3> QED BY <3>2
  <2>2. U \subseteq Int /\ U # {} /\ ~ \E m \in U : \A s \in U : s <= m
    OBVIOUS
  <2>3. PICK x \in U : TRUE
    BY <2>2
  <2>4. CASE U \ {x} = {}
    BY <2>2, <2>3, <2>4
  <2>5. CASE U \ {x} # {}
    <3>1. U \ {x} \in SUBSET S /\ U \ {x} \subseteq U /\ U \ {x} # U
      BY <2>3
    <3>2. PICK m \in U \ {x} : \A s \in U \ {x} : s <= m
      BY <2>1, <2>5, <3>1
    <3>3. m \in Int /\ x \in Int /\ \A s \in U : s = x \/ s <= m
      BY <2>2, <2>3, <3>2
    <3>4. CASE x <= m
      BY <2>2, <3>2, <3>3, <3>4
    <3>5. CASE m < x
      <4>1. \A s \in U : s <= x
        BY <2>2, <3>3, <3>5
      <4> QED BY <2>2, <2>3, <4>1
    <3> QED BY <3>3, <3>4, <3>5
  <2> QED BY <2>4, <2>5
<1>2. PICK m \in S : \A s \in S : s <= m
  BY <1>1
<1>3. \A s \in S : m >= s
  BY <1>2
<1>4. Max(S) \in S /\ \A s \in S : Max(S) >= s
  BY <1>3 DEF Max
<1> QED BY <1>4

\* A sum is at most as many times a bound on its terms as it has terms.
LEMMA SumBound ==
  ASSUME NEW S, IsFiniteSet(S), NEW f \in [S -> Int], NEW b \in Int, \A s \in S : f[s] <= b
  PROVE  SumFunction(f) <= b * Cardinality(S)
<1> DEFINE F(U) == SumFunctionOnSet(f, U)
           C(U) == Cardinality(U)
           Bad == {U \in SUBSET S : ~ (F(U) <= b * C(U))}
<1>1. DOMAIN f = S /\ \A s \in S : f[s] \in Int
  OBVIOUS
<1>2. Bad = {}
  <2> SUFFICES ASSUME Bad # {} PROVE FALSE
    OBVIOUS
  <2>1. PICK U \in Bad : \A V \in Bad : ~ (V \subseteq U /\ V # U)
    <3>1. Bad \subseteq SUBSET S
      OBVIOUS
    <3> HIDE DEF Bad
    <3> QED BY <3>1, SubsetInduction
  <2>2. U \subseteq S /\ IsFiniteSet(U) /\ \A s \in U : f[s] \in Int
    BY <1>1, FS_Subset
  <2>3. U # {}
    <3>1. F({}) = 0 /\ C({}) = 0
      BY FS_EmptySet, SumZero
    <3> QED BY <3>1
  <2>4. PICK x \in U : TRUE
    BY <2>3
  <2>5. F(U \ {x}) <= b * C(U \ {x})
    <3>1. U \ {x} \subseteq S /\ U \ {x} \subseteq U /\ U \ {x} # U
      BY <2>2
    <3> QED BY <2>1, <3>1
  <2>6. F(U) = f[x] + F(U \ {x}) /\ F(U) \in Int /\ F(U \ {x}) \in Int
    <3>1. IsFiniteSet(U \ {x}) /\ \A s \in U \ {x} : f[s] \in Int
      BY <2>2, FS_Subset
    <3> QED BY <2>2, <3>1, SumRemove, SumInt
  <2>7. C(U \ {x}) = C(U) - 1 /\ C(U) \in Nat
    BY <2>2, FS_RemoveElement, FS_CardinalityType
  <2>8. f[x] <= b /\ f[x] \in Int
    BY <2>2
  <2>9. ~ (F(U) <= b * C(U))
    BY <2>1
  <2>10. b * C(U \ {x}) = b * C(U) - b /\ b * C(U) \in Int
    BY <2>7
  <2> HIDE DEF F, C, Bad
  <2> QED BY <2>5, <2>6, <2>8, <2>9, <2>10
<1>3. S \in SUBSET S
  OBVIOUS
<1>4. F(S) <= b * C(S)
  BY <1>2, <1>3
<1> QED BY <1>1, <1>4 DEF SumFunction

\* Differences between successive values add up to the last less the first.
LEMMA Telescope ==
  ASSUME NEW T, IsFiniteSet(T), T # {}, \A s \in T : s \in Nat,
         NEW v \in [T -> Int], NEW start \in Int, NEW f \in [T -> Int],
         \A s \in T : LET earlier == {x \in T : x < s}
                      IN  f[s] = v[s] - (IF earlier = {} THEN start ELSE v[Max(earlier)])
  PROVE  SumFunction(f) = v[Max(T)] - start
<1> DEFINE UpTo(s) == {x \in T : x <= s}
           Before(s) == {x \in T : x < s}
           Bad == {s \in T : SumFunctionOnSet(f, UpTo(s)) # v[s] - start}
<1>1. DOMAIN f = T /\ \A s \in T : f[s] \in Int /\ v[s] \in Int
  OBVIOUS
<1>2. \A s \in T : /\ UpTo(s) \subseteq T /\ s \in UpTo(s) /\ UpTo(s) \ {s} = Before(s)
                   /\ Before(s) \subseteq T
  OBVIOUS
<1>3. \A s \in T : IsFiniteSet(UpTo(s)) /\ IsFiniteSet(Before(s))
  BY <1>2, FS_Subset
<1>4. \A s \in T : f[s] = v[s] - (IF Before(s) = {} THEN start ELSE v[Max(Before(s))])
  OBVIOUS
<1>5. ASSUME NEW s \in T
      PROVE  SumFunctionOnSet(f, UpTo(s)) = f[s] + SumFunctionOnSet(f, Before(s))
  <2>1. \A x \in UpTo(s) : f[x] \in Int
    BY <1>1, <1>2
  <2>2. IsFiniteSet(UpTo(s)) /\ s \in UpTo(s) /\ UpTo(s) \ {s} = Before(s)
    BY <1>2, <1>3
  <2> HIDE DEF UpTo, Before
  <2>3. SumFunctionOnSet(f, UpTo(s)) = f[s] + SumFunctionOnSet(f, UpTo(s) \ {s})
    BY <2>1, <2>2, SumRemove
  <2> QED BY <2>2, <2>3
<1>6. ASSUME NEW s \in T, Before(s) # {}
      PROVE  LET p == Max(Before(s)) IN p \in T /\ p < s /\ Before(s) = UpTo(p)
  <2> DEFINE p == Max(Before(s))
  <2>1. \A x \in Before(s) : x \in Int
    OBVIOUS
  <2>2. p \in Before(s) /\ \A x \in Before(s) : x <= p
    <3>1. IsFiniteSet(Before(s))
      BY <1>3
    <3> HIDE DEF Before
    <3> QED BY <1>6, <2>1, <3>1, IntMax
  <2> HIDE DEF p
  <2>3. p \in T /\ p < s /\ p \in Nat
    BY <2>2
  <2>4. \A x \in T : x < s <=> x <= p
    <3>1. SUFFICES ASSUME NEW x \in T PROVE x < s <=> x <= p
      OBVIOUS
    <3>2. x \in Nat /\ s \in Nat
      OBVIOUS
    <3>3. x < s => x <= p
      BY <2>2
    <3> HIDE DEF Before, UpTo
    <3> QED BY <2>3, <3>2, <3>3
  <2>5. Before(s) = UpTo(p)
    BY <2>4
  <2> QED BY <2>3, <2>5 DEF p
<1>7. Bad = {}
  <2> SUFFICES ASSUME Bad # {} PROVE FALSE
    OBVIOUS
  <2>1. IsFiniteSet(Bad) /\ Bad \subseteq Nat /\ Bad \subseteq T
    BY FS_Subset
  <2>2. PICK s \in Bad : \A x \in Bad : s <= x
    <3> HIDE DEF Bad
    <3> QED BY <2>1, NatMin
  <2>3. s \in T /\ s \in Nat /\ SumFunctionOnSet(f, UpTo(s)) # v[s] - start
    BY <2>1, <2>2
  <2>4. CASE Before(s) = {}
    <3>1. SumFunctionOnSet(f, {}) = 0
      BY FS_EmptySet, SumZero
    <3>2. f[s] = v[s] - start /\ f[s] \in Int
      BY <1>1, <1>4, <2>3, <2>4
    <3> HIDE DEF UpTo, Before, Bad
    <3> QED BY <1>5, <2>3, <2>4, <3>1, <3>2
  <2>5. CASE Before(s) # {}
    <3> DEFINE p == Max(Before(s))
    <3>1. p \in T /\ p < s /\ Before(s) = UpTo(p)
      BY <1>6, <2>3, <2>5
    <3>2. f[s] = v[s] - v[p]
      BY <1>4, <2>3, <2>5
    <3> HIDE DEF p
    <3>3. p \notin Bad
      <4>1. p \in Nat /\ ~ (s <= p)
        BY <2>3, <3>1
      <4> HIDE DEF Bad
      <4> QED BY <2>2, <4>1
    <3>4. SumFunctionOnSet(f, UpTo(p)) = v[p] - start
      BY <3>1, <3>3
    <3>5. v[s] \in Int /\ v[p] \in Int
      BY <1>1, <2>3, <3>1
    <3> HIDE DEF UpTo, Before, Bad
    <3>6. SumFunctionOnSet(f, UpTo(s)) = f[s] + SumFunctionOnSet(f, UpTo(p))
      BY <1>5, <2>3, <3>1
    <3> QED BY <2>3, <3>2, <3>4, <3>5, <3>6
  <2> QED BY <2>4, <2>5
<1>8. Max(T) \in T /\ \A x \in T : x <= Max(T)
  <2>1. \A x \in T : x \in Int
    OBVIOUS
  <2> QED BY <2>1, IntMax
<1>9. UpTo(Max(T)) = T
  BY <1>8
<1>10. SumFunctionOnSet(f, T) = v[Max(T)] - start
  <2>1. SumFunctionOnSet(f, UpTo(Max(T))) = v[Max(T)] - start
    BY <1>7, <1>8
  <2> QED BY <1>9, <2>1
<1> QED BY <1>1, <1>10 DEF SumFunction

\* More times the same is no less.
LEMMA TimesGrows ==
  ASSUME NEW i \in Nat, NEW j \in Nat, i <= j, NEW m \in Nat
  PROVE  i * m \in Nat /\ j * m \in Nat /\ i * m <= j * m
<1>1. PICK d \in Nat : j = i + d
  <2>1. j - i \in Nat /\ j = i + (j - i)
    OBVIOUS
  <2> QED BY <2>1
<1>2. j * m = i * m + d * m /\ d * m \in Nat /\ i * m \in Nat
  BY <1>1
<1> HIDE <1>1
<1> QED BY <1>2

\* Ranks number the positions of a finite set from one on.
LEMMA RankOnto ==
  ASSUME NEW at, IsFiniteSet(at), at \subseteq Nat
  PROVE  /\ \A i \in at : Cardinality({j \in at : j <= i}) \in 1..Cardinality(at)
         /\ \A i, j \in at : Cardinality({h \in at : h <= i}) = Cardinality({h \in at : h <= j}) => i = j
         /\ \A k \in 1..Cardinality(at) : \E i \in at : Cardinality({j \in at : j <= i}) = k
<1> DEFINE upTo(i) == {j \in at : j <= i}
           rank == [i \in at |-> Cardinality(upTo(i))]
           n == Cardinality(at)
<1>1. n \in Nat /\ \A i \in at : IsFiniteSet(upTo(i)) /\ Cardinality(upTo(i)) \in Nat
                                /\ Cardinality(upTo(i)) <= n
  BY FS_CardinalityType, FS_Subset
<1>2. ASSUME NEW i \in at PROVE Cardinality(upTo(i)) \in 1..n
  <2>1. i \in upTo(i)
    OBVIOUS
  <2>2. Cardinality(upTo(i)) # 0
    <3> HIDE DEF upTo
    <3> QED BY <1>1, <2>1, FS_EmptySet
  <2> QED BY <1>1, <2>2
<1>3. ASSUME NEW i \in at, NEW j \in at, Cardinality(upTo(i)) = Cardinality(upTo(j)) PROVE i = j
  <2>1. ASSUME NEW a \in at, NEW b \in at, a < b, Cardinality(upTo(a)) = Cardinality(upTo(b)) PROVE FALSE
    <3>1. upTo(a) \in SUBSET upTo(b) /\ b \in upTo(b) /\ b \notin upTo(a)
      <4>1. a \in Nat /\ b \in Nat /\ \A h \in at : h \in Nat
        OBVIOUS
      <4>2. \A h \in at : h <= a => h <= b
        BY <2>1, <4>1
      <4>3. b <= b /\ ~ (b <= a)
        BY <2>1, <4>1
      <4> QED BY <4>2, <4>3
    <3>2. upTo(a) = upTo(b)
      <4> HIDE DEF upTo
      <4> QED BY <1>1, <2>1, <3>1, FS_Subset
    <3> QED BY <3>1, <3>2
  <2>2. i \in Nat /\ j \in Nat
    OBVIOUS
  <2>3. i < j \/ j < i \/ i = j
    BY <2>2
  <2> HIDE DEF upTo
  <2> QED BY <1>3, <2>1, <2>3
<1>4. rank \in Injection(at, 1..n)
  <2>1. rank \in [at -> 1..n]
    BY <1>2
  <2>2. \A a, b \in at : rank[a] = rank[b] => a = b
    BY <1>3
  <2> HIDE DEF rank
  <2> QED BY <2>1, <2>2 DEF Injection, IsInjective
<1>5. IsFiniteSet(1..n) /\ Cardinality(1..n) = n
  BY <1>1, FS_Interval
<1>6. rank \in Surjection(at, 1..n)
  <2> HIDE DEF rank
  <2> QED BY <1>4, <1>5, FS_Injection
<1>7. \A k \in 1..n : \E i \in at : rank[i] = k
  <2> HIDE DEF rank
  <2> QED BY <1>6 DEF Surjection
<1> QED BY <1>2, <1>3, <1>7

\* What is kept of a sequence stands at the positions given, in their order.
LEMMA KeptInOrder ==
  ASSUME NEW S, NEW seq \in Seq(S), NEW at \in SUBSET DOMAIN seq
  PROVE  /\ Kept(seq, at) \in Seq(S) /\ Len(Kept(seq, at)) = Cardinality(at)
         /\ \E e \in [1..Len(Kept(seq, at)) -> at] :
              /\ \A k \in 1..Len(Kept(seq, at)) : Kept(seq, at)[k] = seq[e[k]]
              /\ \A i \in at : \E k \in 1..Len(Kept(seq, at)) : e[k] = i
              /\ \A k, l \in 1..Len(Kept(seq, at)) : k < l => e[k] < e[l]
<1> DEFINE n == Cardinality(at)
           upTo(i) == {j \in at : j <= i}
           chosen(k) == CHOOSE i \in at : Cardinality(upTo(i)) = k
           e == [k \in 1..n |-> chosen(k)]
<1>1. DOMAIN seq = 1..Len(seq) /\ Len(seq) \in Nat
  OBVIOUS
<1>2. IsFiniteSet(at) /\ at \subseteq Nat /\ n \in Nat
  <2>1. IsFiniteSet(1..Len(seq))
    BY <1>1, FS_Interval
  <2>2. IsFiniteSet(at)
    BY <1>1, <2>1, FS_Subset
  <2> QED BY <1>1, <2>2, FS_CardinalityType
<1>3. ASSUME NEW k \in 1..n PROVE chosen(k) \in at /\ Cardinality(upTo(chosen(k))) = k
  <2>1. \E i \in at : Cardinality(upTo(i)) = k
    BY <1>2, RankOnto, ZenonT(30)
  <2> HIDE DEF upTo
  <2> QED BY <2>1
<1>4. ASSUME NEW i \in at PROVE \E k \in 1..n : chosen(k) = i
  <2> DEFINE k == Cardinality(upTo(i))
  <2>1. k \in 1..n
    BY <1>2, RankOnto
  <2>2. chosen(k) \in at /\ Cardinality(upTo(chosen(k))) = k
    <3> HIDE DEF k, chosen
    <3> QED BY <1>3, <2>1
  <2>3. chosen(k) = i
    <3> HIDE DEF chosen
    <3> QED BY <1>2, <2>2, RankOnto
  <2> QED BY <2>1, <2>3
<1>5. ASSUME NEW k \in 1..n, NEW l \in 1..n, k < l PROVE chosen(k) < chosen(l)
  <2>1. /\ chosen(k) \in at /\ Cardinality(upTo(chosen(k))) = k
        /\ chosen(l) \in at /\ Cardinality(upTo(chosen(l))) = l
    <3> HIDE DEF chosen, upTo, n
    <3> QED BY <1>3
  <2>2. PICK a \in at, b \in at : a = chosen(k) /\ b = chosen(l)
    BY <2>1
  <2> HIDE DEF chosen
  <2>3. a \in Nat /\ b \in Nat /\ \A j \in at : j \in Nat
    BY <1>2
  <2>4. ASSUME b <= a PROVE FALSE
    <3>1. upTo(b) \subseteq upTo(a)
      BY <2>3, <2>4
    <3>2. IsFiniteSet(upTo(a))
      BY <1>2, FS_Subset
    <3>3. Cardinality(upTo(b)) <= Cardinality(upTo(a))
      <4> HIDE DEF upTo
      <4> QED BY <3>1, <3>2, FS_Subset
    <3> HIDE DEF upTo
    <3>4. l <= k
      BY <2>1, <2>2, <3>3
    <3> QED BY <1>2, <1>5, <3>4
  <2> QED BY <2>2, <2>3, <2>4
<1>6. Kept(seq, at) = [k \in 1..n |-> seq[chosen(k)]]
  BY DEF Kept
<1> HIDE DEF chosen
<1>7. ASSUME NEW k \in 1..n PROVE chosen(k) \in DOMAIN seq /\ seq[chosen(k)] \in S
  <2>1. chosen(k) \in DOMAIN seq
    BY <1>3
  <2> QED BY <1>1, <2>1
<1>8. Kept(seq, at) \in Seq(S) /\ Len(Kept(seq, at)) = n
  <2> HIDE DEF n
  <2> QED BY <1>2, <1>6, <1>7
<1>9. e \in [1..n -> at] /\ \A k \in 1..n : e[k] = chosen(k)
  <2> HIDE DEF n
  <2> QED BY <1>3
<1> HIDE DEF e, n
<1>10. \A k \in 1..n : Kept(seq, at)[k] = seq[e[k]]
  BY <1>6, <1>9
<1>11. \A i \in at : \E k \in 1..n : e[k] = i
  BY <1>4, <1>9
<1>12. \A k, l \in 1..n : k < l => e[k] < e[l]
  BY <1>5, <1>9
<1>13. Len(Kept(seq, at)) = Cardinality(at)
  BY <1>8 DEF n
<1> QED BY <1>8, <1>9, <1>10, <1>11, <1>12, <1>13

\* What holds of neighbours and passes on holds of any two.
LEMMA Chained ==
  ASSUME NEW n \in Nat, NEW R,
         \A i \in 2..n : <<i - 1, i>> \in R,
         \A i, j, k \in 1..n : <<i, j>> \in R /\ <<j, k>> \in R => <<i, k>> \in R
  PROVE  \A i, j \in 1..n : i < j => <<i, j>> \in R
<1> DEFINE Broken == {j \in 1..n : \E i \in 1..n : i < j /\ <<i, j>> \notin R}
<1>1. ASSUME Broken # {} PROVE FALSE
  <2>1. IsFiniteSet(Broken) /\ Broken \subseteq Nat
    <3>1. IsFiniteSet(1..n)
      BY FS_Interval
    <3>2. Broken \in SUBSET (1..n)
      OBVIOUS
    <3>3. \A j \in Broken : j \in Nat
      BY <3>2
    <3> HIDE DEF Broken
    <3> QED BY <3>1, <3>2, <3>3, FS_Subset
  <2>2. PICK j \in Broken : \A k \in Broken : j <= k
    <3> HIDE DEF Broken
    <3> QED BY <1>1, <2>1, NatMin
  <2>3. PICK i \in 1..n : i < j /\ <<i, j>> \notin R
    OBVIOUS
  <2>4. j \in 2..n /\ j - 1 \in 1..n /\ j - 1 < j /\ i <= j - 1
    BY <2>3
  <2>5. <<j - 1, j>> \in R
    BY <2>4
  <2>6. j - 1 \notin Broken
    <3> HIDE DEF Broken
    <3> QED BY <2>2, <2>4
  <2>7. CASE i = j - 1
    BY <2>3, <2>5, <2>7
  <2>8. CASE i < j - 1
    <3>1. <<i, j - 1>> \in R
      BY <2>4, <2>6, <2>8
    <3> QED BY <2>3, <2>4, <2>5, <3>1
  <2> QED BY <2>4, <2>7, <2>8
<1> QED BY <1>1

\* A sum of one value.
LEMMA SumConstant ==
  ASSUME NEW S, IsFiniteSet(S), NEW c \in Int, NEW f \in [S -> Int], \A s \in S : f[s] = c
  PROVE  SumFunction(f) = c * Cardinality(S)
<1> DEFINE zero == [s \in S |-> 0]
           less == [s \in S |-> -c]
<1>1. zero \in [S -> Int] /\ less \in [S -> Int]
  OBVIOUS
<1>2. SumFunction(zero) = 0
  BY <1>1, FunSumZero
<1>3. SumFunction(less) = SumFunction(zero) - SumFunction(f)
  <2>1. \A s \in S : less[s] = zero[s] - f[s]
    OBVIOUS
  <2> HIDE DEF zero, less
  <2> QED BY <1>1, <2>1, FunSumMinus
<1>4. SumFunction(f) \in Int /\ Cardinality(S) \in Nat
  BY FunSumInt, FS_CardinalityType
<1>5. SumFunction(f) <= c * Cardinality(S)
  BY SumBound
<1>6. SumFunction(less) <= (-c) * Cardinality(S)
  <2>1. -c \in Int /\ \A s \in S : less[s] <= -c
    OBVIOUS
  <2> HIDE DEF less
  <2> QED BY <1>1, <2>1, SumBound
<1>7. (-c) * Cardinality(S) = -(c * Cardinality(S)) /\ c * Cardinality(S) \in Int
  BY <1>4
<1> QED BY <1>2, <1>3, <1>4, <1>5, <1>6, <1>7

\* A sum of naturals is zero only where all of them are.
LEMMA SumNatZero ==
  ASSUME NEW S, IsFiniteSet(S), NEW f \in [S -> Nat], SumFunction(f) = 0
  PROVE  \A s \in S : f[s] = 0
<1> SUFFICES ASSUME NEW x \in S PROVE f[x] = 0
  OBVIOUS
<1>1. SumFunction(f) = SumFunctionOnSet(f, S)
  BY DEF SumFunction, SumFunctionOnSet, FoldFunction
<1>2. SumFunctionOnSet(f, S) = f[x] + SumFunctionOnSet(f, S \ {x})
  BY SumRemove
<1>3. SumFunctionOnSet(f, S \ {x}) \in Nat
  BY FS_RemoveElement, SumNat
<1> QED BY <1>1, <1>2, <1>3

\* R orders S strictly and totally; rank counts the elements before each.
TotallyOrders(R, S) ==
  /\ \A a \in S : <<a, a>> \notin R
  /\ \A a, b \in S : a # b => <<a, b>> \in R \/ <<b, a>> \in R
  /\ \A a, b, c \in S : <<a, b>> \in R /\ <<b, c>> \in R => <<a, c>> \in R
CountsBefore(rank, R, S) ==
  /\ DOMAIN rank = S
  /\ \A a \in S : rank[a] = Cardinality({m \in S : <<m, a>> \in R})

\* Such an order on a finite set gives every number below its size to one
\* element.
LEMMA OrderOnto ==
  ASSUME NEW S, IsFiniteSet(S), NEW R, TotallyOrders(R, S), NEW rank, CountsBefore(rank, R, S)
  PROVE  /\ \A a \in S : rank[a] \in 0..(Cardinality(S) - 1)
         /\ \A a, b \in S : rank[a] = rank[b] => a = b
         /\ \A k \in 0..(Cardinality(S) - 1) : \E a \in S : rank[a] = k
<1> DEFINE under == [a \in S |-> {m \in S : <<m, a>> \in R}]
<1>0. /\ \A a \in S : <<a, a>> \notin R
      /\ \A a, b \in S : a # b => <<a, b>> \in R \/ <<b, a>> \in R
      /\ \A a, b, c \in S : <<a, b>> \in R /\ <<b, c>> \in R => <<a, c>> \in R
      /\ \A a \in S : under[a] \subseteq S /\ \A m \in S : m \in under[a] <=> <<m, a>> \in R
      /\ \A a \in S : rank[a] = Cardinality(under[a])
  BY DEF TotallyOrders, CountsBefore
<1> HIDE DEF under
<1>1. Cardinality(S) \in Nat
  BY FS_CardinalityType
<1>2. \A a \in S : /\ IsFiniteSet(under[a]) /\ under[a] \subseteq S /\ a \notin under[a]
                   /\ rank[a] \in Nat /\ rank[a] < Cardinality(S)
  <2> SUFFICES ASSUME NEW a \in S
               PROVE  /\ IsFiniteSet(under[a]) /\ under[a] \subseteq S /\ a \notin under[a]
                      /\ rank[a] \in Nat /\ rank[a] < Cardinality(S)
    OBVIOUS
  <2>1. under[a] \subseteq S /\ a \notin under[a]
    BY <1>0
  <2>2. IsFiniteSet(under[a])
    BY <2>1, FS_Subset
  <2>3. Cardinality(under[a]) <= Cardinality(S) /\ (Cardinality(under[a]) = Cardinality(S) => under[a] = S)
    BY <2>1, FS_Subset
  <2>4. Cardinality(under[a]) \in Nat
    BY <2>2, FS_CardinalityType
  <2>5. Cardinality(under[a]) # Cardinality(S)
    BY <2>1, <2>3
  <2>6. rank[a] = Cardinality(under[a])
    BY <1>0
  <2> QED BY <1>1, <2>1, <2>2, <2>3, <2>4, <2>5, <2>6
<1>3. \A a, b \in S : <<a, b>> \in R => rank[a] < rank[b]
  <2> SUFFICES ASSUME NEW a \in S, NEW b \in S, <<a, b>> \in R PROVE rank[a] < rank[b]
    OBVIOUS
  <2>1. under[a] \subseteq under[b] /\ a \in under[b] /\ a \notin under[a]
    BY <1>0
  <2>2. Cardinality(under[a]) <= Cardinality(under[b])
        /\ (Cardinality(under[a]) = Cardinality(under[b]) => under[a] = under[b])
    BY <1>2, <2>1, FS_Subset
  <2>3. rank[a] = Cardinality(under[a]) /\ rank[b] = Cardinality(under[b])
    BY <1>0
  <2>4. rank[a] \in Nat /\ rank[b] \in Nat
    BY <1>2
  <2> QED BY <2>1, <2>2, <2>3, <2>4
<1>4. \A a, b \in S : rank[a] = rank[b] => a = b
  <2> SUFFICES ASSUME NEW a \in S, NEW b \in S, rank[a] = rank[b], a # b PROVE FALSE
    OBVIOUS
  <2>1. rank[a] < rank[b] \/ rank[b] < rank[a]
    BY <1>0, <1>3
  <2>2. rank[a] \in Nat /\ rank[b] \in Nat
    BY <1>2
  <2> QED BY <2>1, <2>2
<1>5. \A k \in 0..(Cardinality(S) - 1) : \E a \in S : rank[a] = k
  <2> DEFINE image == {rank[a] : a \in S}
             all == 0..(Cardinality(S) - 1)
  <2>1. Cardinality(image) = Cardinality(S)
    <3> QED BY <1>4, CountImage
  <2>2. IsFiniteSet(all) /\ Cardinality(all) = Cardinality(S)
    <3>1. 0 \in Int /\ Cardinality(S) - 1 \in Int
      BY <1>1
    <3>2. IsFiniteSet(all) /\ Cardinality(all) = IF 0 > Cardinality(S) - 1 THEN 0 ELSE (Cardinality(S) - 1) - 0 + 1
      BY <3>1, FS_Interval
    <3> QED BY <1>1, <3>2
  <2>3. image \subseteq all
    <3>1. \A a \in S : rank[a] \in Nat /\ rank[a] < Cardinality(S)
      BY <1>2
    <3> QED BY <1>1, <3>1
  <2>4. image = all
    <3> HIDE DEF image, all
    <3> QED BY <2>1, <2>2, <2>3, FS_Subset
  <2> QED BY <2>4
<1>6. \A a \in S : rank[a] \in 0..(Cardinality(S) - 1)
  <2>1. \A a \in S : rank[a] \in Nat /\ rank[a] < Cardinality(S)
    BY <1>2
  <2> QED BY <1>1, <2>1
<1> QED BY <1>4, <1>5, <1>6

\* A product grows with a factor, where the other is positive.
LEMMA ProductGrows ==
  ASSUME NEW x \in Int, NEW y \in Int, NEW m \in Nat \ {0}
  PROVE  /\ x * m \in Int /\ y * m \in Int
         /\ x < y <=> x * m < y * m
         /\ x = y <=> x * m = y * m
<1>1. x * m \in Int /\ y * m \in Int
  OBVIOUS
<1>2. ASSUME NEW a \in Int, NEW b \in Int, a < b PROVE a * m < b * m
  <2>1. PICK d \in Nat \ {0} : b = a + d
    <3>1. b - a \in Nat \ {0} /\ b = a + (b - a)
      BY <1>2
    <3> QED BY <3>1
  <2>2. b * m = a * m + d * m /\ a * m \in Int
    BY <2>1
  <2>3. d * m > 0 /\ d * m \in Int
    BY <2>1
  <2> QED BY <2>2, <2>3
<1>3. x < y \/ x = y \/ y < x
  OBVIOUS
<1>4. CASE x < y
  <2>1. x * m < y * m
    BY <1>2, <1>4
  <2> QED BY <1>1, <1>4, <2>1
<1>5. CASE x = y
  BY <1>1, <1>5
<1>6. CASE y < x
  <2>1. y * m < x * m
    BY <1>2, <1>6
  <2> QED BY <1>1, <1>6, <2>1
<1> QED BY <1>3, <1>4, <1>5, <1>6

\* A sum of ones and zeros counts the ones.
LEMMA CountWhere ==
  ASSUME NEW S, IsFiniteSet(S), NEW T \in SUBSET S, NEW f \in [S -> Int],
         \A s \in T : f[s] = 1, \A s \in S \ T : f[s] = 0
  PROVE  SumFunction(f) = Cardinality(T) /\ Cardinality(T) \in Nat
<1> DEFINE one == [s \in T |-> 1]
<1>1. IsFiniteSet(T)
  BY FS_Subset
<1>2. one \in [T -> Int] /\ \A s \in T : one[s] = 1
  OBVIOUS
<1>3. \A s \in T : one[s] = f[s]
  OBVIOUS
<1> HIDE DEF one
<1>4. SumFunction(f) = SumFunction(one)
  BY <1>2, <1>3, FunSumPart
<1>5. Cardinality(T) = SumFunction(one)
  BY <1>1, <1>2, CountIsSum
<1> QED BY <1>1, <1>4, <1>5, FS_CardinalityType

\* e names every member of T once, by a member of S.
NamesOnce(e, S, T) ==
  /\ e \in [S -> T]
  /\ \A s, t \in S : e[s] = e[t] => s = t
  /\ \A x \in T : \E s \in S : e[s] = x

\* A sum over a set, by the names of its members.
LEMMA FunSumRenamed ==
  ASSUME NEW S, IsFiniteSet(S), NEW T, NEW e, NamesOnce(e, S, T)
  PROVE  \A f \in [T -> Int], g \in [S -> Int] :
           (\A s \in S : g[s] = f[e[s]]) => SumFunction(f) = SumFunction(g)
<1> SUFFICES ASSUME NEW f \in [T -> Int], NEW g \in [S -> Int], \A s \in S : g[s] = f[e[s]]
             PROVE  SumFunction(f) = SumFunction(g)
  OBVIOUS
<1> DEFINE U == {e[s] : s \in S}
<1>1. U = T
  BY DEF NamesOnce
<1>2. \A s, t \in S : e[s] = e[t] => s = t
  BY DEF NamesOnce
<1>3. \A s \in S : f[e[s]] \in Int /\ g[s] = f[e[s]]
  BY DEF NamesOnce
<1>4. SumFunctionOnSet(f, {e[s] : s \in S}) = SumFunctionOnSet(g, S)
  BY <1>2, <1>3, SumImage
<1>5. DOMAIN f = T /\ DOMAIN g = S
  OBVIOUS
<1> QED BY <1>1, <1>4, <1>5, Zenon DEF SumFunction, U

(* Recursion over finite depths. *)

\* A set of numbers that is not empty has a least.
LEMMA LeastNat ==
  ASSUME NEW A, A \subseteq Nat, NEW a \in A
  PROVE  \E n \in A : \A k \in A : n <= k
<1> DEFINE low == {k \in A : k <= a}
<1>1. IsFiniteSet(0..a)
  BY FS_Interval
<1>2. IsFiniteSet(low) /\ low \subseteq Nat /\ low # {}
  <2>1. a \in Nat /\ \A k \in low : k \in Nat /\ k <= a
    OBVIOUS
  <2>2. a \in low
    BY <2>1
  <2>3. low \subseteq 0..a
    <3> HIDE DEF low
    <3> QED BY <2>1
  <2> QED BY <1>1, <2>1, <2>2, <2>3, FS_Subset
<1>3. PICK n \in low : \A k \in low : n <= k
  BY <1>2, NatMin
<1> QED BY <1>3

\* F gives a value to each member of S from the values of those below it,
\* which are of a lower rank; and f is a function that has these values.
Descends(S, rank, below, V, F) ==
  /\ rank \in [S -> Nat] /\ below \in [S -> SUBSET S]
  /\ \A x \in S : \A y \in below[x] : rank[y] < rank[x]
  /\ \A x \in S : \A h \in [below[x] -> V] : F[x][h] \in V
Follows(f, S, below, V, F) ==
  f \in [S -> V] /\ \A x \in S : f[x] = F[x][[y \in below[x] |-> f[y]]]

\* What is defined by such a recursion exists.
LEMMA Recursion ==
  ASSUME NEW S, NEW rank, NEW below, NEW V, NEW F, Descends(S, rank, below, V, F)
  PROVE  \E f : Follows(f, S, below, V, F)
<1>0. /\ rank \in [S -> Nat] /\ below \in [S -> SUBSET S]
      /\ \A x \in S : \A y \in below[x] : rank[y] < rank[x]
      /\ \A x \in S : \A h \in [below[x] -> V] : F[x][h] \in V
  BY DEF Descends
<1> USE <1>0
<1> DEFINE Upto(n) == {x \in S : rank[x] < n}
           Solves(g, n) == /\ g \in [Upto(n) -> V]
                           /\ \A x \in Upto(n) : g[x] = F[x][[y \in below[x] |-> g[y]]]
<1>1. ASSUME NEW n \in Nat, NEW m \in Nat, n <= m, NEW g, Solves(g, n), NEW h, Solves(h, m)
      PROVE  \A x \in Upto(n) : g[x] = h[x]
  <2> DEFINE bad == {x \in Upto(n) : g[x] # h[x]}
             ranks == {rank[x] : x \in bad}
  <2>1. SUFFICES ASSUME bad # {} PROVE FALSE
    OBVIOUS
  <2>2. PICK z \in bad : TRUE
    BY <2>1
  <2>3. ranks \subseteq Nat /\ rank[z] \in ranks
    BY <2>2
  <2>4. PICK k \in ranks : \A j \in ranks : k <= j
    BY <2>3, LeastNat
  <2>5. PICK x \in bad : rank[x] = k
    BY <2>4
  <2>6. \A y \in below[x] : y \in Upto(n) /\ y \in Upto(m) /\ g[y] = h[y]
    <3>1. x \in S /\ rank[x] < n /\ rank[x] < m /\ rank[x] \in Nat
      BY <1>1, <2>5
    <3>2. SUFFICES ASSUME NEW y \in below[x] PROVE y \in Upto(n) /\ y \in Upto(m) /\ g[y] = h[y]
      OBVIOUS
    <3>3. y \in S /\ rank[y] < rank[x] /\ rank[y] \in Nat
      BY <3>1
    <3>4. y \in Upto(n) /\ y \in Upto(m)
      BY <1>1, <3>1, <3>3
    <3>5. y \notin bad
      <4>1. y \in bad => rank[y] \in ranks
        OBVIOUS
      <4> HIDE DEF bad, ranks
      <4> QED BY <2>4, <2>5, <3>3, <3>1, <4>1
    <3> QED BY <3>4, <3>5
  <2>7. [y \in below[x] |-> g[y]] = [y \in below[x] |-> h[y]]
    BY <2>6
  <2>8. x \in Upto(n) /\ x \in Upto(m)
    BY <1>1, <2>5
  <2>9. g[x] = h[x]
    BY <2>7, <2>8, <1>1
  <2> QED BY <2>5, <2>9
<1>2. ASSUME NEW n \in Nat PROVE \E g : Solves(g, n)
  <2> DEFINE bad == {k \in Nat : ~ \E g : Solves(g, k)}
  <2>1. SUFFICES ASSUME bad # {} PROVE FALSE
    BY Zenon
  <2>2. PICK k \in bad : \A j \in bad : k <= j
    BY <2>1, LeastNat
  <2>3. k \in Nat /\ ~ \E g : Solves(g, k)
    BY <2>2
  <2>4. CASE k = 0
    <3>1. Upto(0) = {}
      OBVIOUS
    <3>2. Solves([x \in {} |-> x], 0)
      BY <3>1
    <3> QED BY <2>3, <2>4, <3>2
  <2>5. CASE k # 0
    <3>1. k - 1 \in Nat /\ k - 1 < k
      BY <2>3, <2>5
    <3>2. PICK g : Solves(g, k - 1)
      <4>1. k - 1 \notin bad
        <5> HIDE DEF bad
        <5> QED BY <2>2, <2>3, <3>1
      <4>2. k - 1 \in Nat /\ k - 1 \notin bad => \E g : Solves(g, k - 1)
        BY Zenon
      <4> QED BY <3>1, <4>1, <4>2, Zenon
    <3> DEFINE h == [x \in Upto(k) |-> F[x][[y \in below[x] |-> g[y]]]]
    <3>3. \A x \in Upto(k) : \A y \in below[x] : y \in Upto(k - 1) /\ y \in Upto(k)
      BY <3>1, <2>3
    <3>4. \A x \in Upto(k) : [y \in below[x] |-> g[y]] \in [below[x] -> V]
      BY <3>2, <3>3
    <3>5. h \in [Upto(k) -> V]
      BY <3>4
    <3>6. \A y \in Upto(k - 1) : y \in Upto(k) /\ h[y] = g[y]
      BY <3>1, <3>2, <2>3
    <3>7. \A x \in Upto(k) : [y \in below[x] |-> g[y]] = [y \in below[x] |-> h[y]]
      BY <3>3, <3>6
    <3>8. Solves(h, k)
      BY <3>5, <3>7
    <3> QED BY <2>3, <3>8
  <2> QED BY <2>4, <2>5
<1> DEFINE G(n) == CHOOSE g : Solves(g, n)
<1>3. \A n \in Nat : Solves(G(n), n)
  BY <1>2
<1> DEFINE f == [x \in S |-> G(rank[x] + 1)[x]]
<1>4. ASSUME NEW x \in S
      PROVE  f[x] \in V /\ f[x] = F[x][[y \in below[x] |-> f[y]]]
  <2> DEFINE g == G(rank[x] + 1)
  <2>1. rank[x] \in Nat /\ rank[x] + 1 \in Nat /\ Solves(g, rank[x] + 1) /\ x \in Upto(rank[x] + 1)
    <3>1. rank[x] \in Nat /\ rank[x] + 1 \in Nat /\ x \in Upto(rank[x] + 1)
      OBVIOUS
    <3>2. Solves(g, rank[x] + 1)
      BY <1>3, <3>1, Zenon
    <3> QED BY <3>1, <3>2, Zenon
  <2>2. ASSUME NEW y \in below[x] PROVE f[y] = g[y]
    <3>1. y \in S /\ rank[y] \in Nat /\ rank[y] + 1 \in Nat /\ rank[y] + 1 <= rank[x] + 1
      BY <2>1
    <3>2. y \in Upto(rank[y] + 1)
      BY <3>1
    <3>3. Solves(G(rank[y] + 1), rank[y] + 1)
      BY <3>1, <1>3, Zenon
    <3> HIDE DEF Solves, Upto, G
    <3>4. G(rank[y] + 1)[y] = g[y]
      BY <1>1, <2>1, <3>1, <3>2, <3>3
    <3> QED BY <3>1, <3>4
  <2>3. [y \in below[x] |-> f[y]] = [y \in below[x] |-> g[y]]
    <3> HIDE DEF f, g
    <3> QED BY <2>2
  <2>4. g[x] \in V /\ g[x] = F[x][[y \in below[x] |-> g[y]]]
    BY <2>1
  <2> QED BY <2>3, <2>4
<1>5. Follows(f, S, below, V, F)
  <2> HIDE DEF f
  <2>1. f \in [S -> V]
    <3>1. DOMAIN f = S /\ f = [x \in S |-> f[x]]
      BY DEF f
    <3> QED BY <1>4, <3>1
  <2> QED BY <1>4, <2>1 DEF Follows
<1> QED BY <1>5

\* B gives each member of S a value from the values of all of S, and looks at
\* those of lower members only.
Looks(S, rank, below, V, B) ==
  /\ rank \in [S -> Nat] /\ below \in [S -> SUBSET S] /\ V # {}
  /\ \A x \in S : \A y \in below[x] : rank[y] < rank[x]
  /\ \A x \in S : \A h \in [S -> V] : B[x][h] \in V
  /\ \A x \in S : \A h, g \in [S -> V] :
       (\A y \in below[x] : h[y] = g[y]) => B[x][h] = B[x][g]

\* What is so defined exists.
LEMMA Solved ==
  ASSUME NEW S, NEW rank, NEW below, NEW V, NEW B, Looks(S, rank, below, V, B)
  PROVE  \E f \in [S -> V] : \A x \in S : f[x] = B[x][f]
<1>1. PICK v : v \in V
  BY DEF Looks
<1> DEFINE whole(x, h) == [y \in S |-> IF y \in below[x] THEN h[y] ELSE v]
           F == [x \in S |-> [h \in [below[x] -> V] |-> B[x][whole(x, h)]]]
<1>2. \A x \in S : \A h \in [below[x] -> V] : whole(x, h) \in [S -> V]
  BY <1>1
<1>3. \A x \in S : \A h \in [below[x] -> V] : F[x][h] = B[x][whole(x, h)]
  OBVIOUS
<1>4. Descends(S, rank, below, V, F)
  <2> HIDE DEF whole, F
  <2> QED BY <1>2, <1>3 DEF Descends, Looks
<1>5. PICK f : Follows(f, S, below, V, F)
  BY <1>4, Recursion
<1>6. f \in [S -> V]
  BY <1>5 DEF Follows
<1>7. ASSUME NEW x \in S PROVE f[x] = B[x][f]
  <2> DEFINE h == [y \in below[x] |-> f[y]]
  <2>1. below[x] \subseteq S
    BY DEF Looks
  <2>2. h \in [below[x] -> V]
    BY <1>6, <2>1
  <2>3. f[x] = F[x][h]
    BY <1>5 DEF Follows
  <2>4. f[x] = B[x][whole(x, h)]
    BY <1>3, <2>2, <2>3
  <2>5. \A y \in below[x] : whole(x, h)[y] = f[y]
    BY <2>1
  <2>6. whole(x, h) \in [S -> V]
    BY <1>2, <2>2
  <2> HIDE DEF whole, h
  <2> QED BY <1>6, <2>4, <2>5, <2>6 DEF Looks
<1> QED BY <1>6, <1>7
=============================================================================
