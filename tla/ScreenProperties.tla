-------------------------- MODULE ScreenProperties --------------------------
(* What a row of a screen may say. *)
EXTENDS Screen

\* The first symbol's turn ends, with a row.
TurnEnds == screen # None /\ unscreened' # unscreened
Added == report'[Len(report')]

\* A quotient by zero below a negation: the planner takes the comparison for
\* false and negates it, the evaluator for unknown.
NegatedQuotient ==
  /\ \E e \in Parts[screen.conditions] : e.kind = "group" /\ e.key = "not"
  /\ \E e \in Parts[screen.conditions] : e.kind = "math" /\ PlanExpr[<<e, facts>>].value = NaN

\* A row that was written without bars is the row that any bars would have
\* given: a settled verdict is the evaluator's whatever the terms give, NaN
\* or not, and a symbol is set aside for its facts only when no value of a
\* term decides it, and for facts it really lacks (plan_symbol, before
\* group_verdict).
SettledAsEvaluated ==
  [][TurnEnds /\ turn = "plan" =>
       LET Verdict(reading) == GroupVerdict[<<screen.conditions, facts, reading>>]
       IN  IF Added.matched = None
           THEN /\ \A reading \in Readings : Verdict(reading) = None
                /\ Plan.missing # {} /\ \A name \in Plan.missing : facts[name] = None
           ELSE \/ NegatedQuotient
                \/ \A reading \in Readings : Added.matched = (Verdict(reading) = TRUE)]_screenVars

\* A row read from bars is read from frames that were loaded, and either says
\* that a sync failed or was read from frames refreshed in its own turn, the
\* source of a derived one included: no reference, however deep its symbol or
\* timeframe is inherited, is missing or silently stale (run_screen,
\* expression_reference_pairs, build_context).
StaleRowsSaySo ==
  [][TurnEnds /\ Added.priced =>
       \A p \in Reads[<<screen.conditions, <<Added.symbol, screen.tf>>>>] :
         /\ p \in Loaded(screen, Added.symbol)
         /\ Source(p[2]) \in served /\ ~Added.noted =>
              p \in fresh /\ <<p[1], Source(p[2])>> \in fresh]_screenVars
=============================================================================
