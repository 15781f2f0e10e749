------------------------- MODULE RankLensProperties -------------------------
(***************************************************************************)
(* What an estimate says, told without ranks: by comparing pairs.          *)
(***************************************************************************)
EXTENDS RankLens

Sign(a, b) == IF Below(b, a) THEN 1 ELSE IF Below(a, b) THEN -1 ELSE 0

\* How many of the values a value beats, less those that beat it.
Standing(values, p) == SumFunction([q \in DOMAIN values |-> Sign(values[p], values[q])])
Agreement(a, b) == SumFunction([p \in DOMAIN a |-> Standing(a, p) * Standing(b, p)])

\* The rows a play symbol has a pair of at a horizon: margins that are
\* numbers, and returns from a price that is not zero to one the series holds.
Paired(k, horizon) ==
  LET closes == case.closes[Keys[k][2]]
  IN  {n \in DOMAIN case.asked :
         /\ Number(answers[k][n])
         /\ case.asked[n] + horizon \in DOMAIN closes
         /\ closes[case.asked[n]] # 0}

\* An estimate is the agreement of the margins with the returns they came
\* before, pair against pair: its count is the pairs that exist, it is null
\* exactly where there are too few or one side never differs, it lies in
\* [-1, 1], and no order two equal margins arrived in can move it; and a play
\* that grades nothing reports no sample at all (_estimate,
\* _rank_correlation, _average_ranks, _ungraded).
EstimatesCompare ==
  lens = "sliced" =>
    \A k \in DOMAIN Keys : \A h \in DOMAIN Horizons :
      LET e == estimates[k][h]
      IN  IF answers[k] = None THEN e = Ungraded[h]
          ELSE LET closes  == case.closes[Keys[k][2]]
                   rows    == Paired(k, Horizons[h])
                   margins == [n \in rows |-> <<answers[k][n].value, 1>>]
                   returns == [n \in rows |-> Ratio(closes[case.asked[n] + Horizons[h]], closes[case.asked[n]])]
                   spread  == Agreement(margins, margins) * Agreement(returns, returns)
               IN  /\ e.horizon = Horizons[h] /\ e.observations = Cardinality(rows)
                   /\ (e.correlation = None) <=> (Cardinality(rows) < MinPairs \/ spread = 0)
                   /\ e.correlation # None =>
                        /\ e.correlation = <<Agreement(margins, returns), spread>>
                        /\ e.correlation[1] * e.correlation[1] <= spread
=============================================================================
