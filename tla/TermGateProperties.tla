------------------------- MODULE TermGateProperties -------------------------
(* What a verdict of the gate is worth. *)
EXTENDS TermGate

\* The argument sets the gate owes a term, said without enumerating them:
\* every combination of choices, with at most one range off its default, and
\* that one at an end.
Resting(t, a) == IF a \in DOMAIN t.defaults THEN t.defaults[a] ELSE t.args[a].low
Values(t, a) ==
  CASE t.args[a].kind = "choice" -> t.args[a].values
    [] t.args[a].kind = "condition" -> {Condition}
    [] OTHER -> {Resting(t, a), t.args[a].low, t.args[a].high}
Mandated(t) ==
  {f \in [DOMAIN t.args -> UNION {Values(t, a) : a \in DOMAIN t.args}] :
     /\ \A a \in DOMAIN f : f[a] \in Values(t, a)
     /\ \A a, c \in ArgsOf(t, "range") : f[a] = Resting(t, a) \/ f[c] = Resting(t, c) \/ a = c}

\* The rows a half of the frame has beyond the probes it is given.
Crowded(i) ==
  IF i < rows \div 2 THEN rows \div 2 > ProbeCount ELSE rows - 1 - rows \div 2 > ProbeCount

Peeks(b, i) == b.reads[i] # None /\ b.reads[i] > i /\ b.reads[i] < rows

\* CHECKED is proof: the term was called with every argument set its schema
\* mandates, each gave a number at some row that can disagree, none changed
\* the frame, and none reads a later row anywhere below the last row, but for
\* the rows a half too long for its probes leaves between them; the other
\* exits never read as a pass (verify_term, arg_sets, probe_rows).
CheckedIsCausal ==
  verdict # None /\ verdict.status = "checked" =>
    /\ DOMAIN done = Mandated(term) /\ Mandated(term) # {}
    /\ \A s \in DOMAIN done :
         /\ done[s].whole = {}
         /\ \E i \in 0..rows - 2 : Value(done[s], i, rows) # None
         /\ \A i \in 0..rows - 2 : Peeks(done[s], i) => Crowded(i)
    /\ verdict.checked = Cardinality(Mandated(term))

\* A verdict says what happened.  A term is refused for look-ahead only when a
\* row of it reads a later one, and for a write only when it wrote; VACUOUS
\* means that every mandated set was tried, none at fault, and one was NaN at
\* every probe, so that a peek reachable under another set is never hidden
\* behind it; and the count is of the sets that passed (verify_term).
VerdictIsDeserved ==
  verdict # None =>
    LET passed == {s \in DOMAIN done : SetCause(done[s]) = None /\ Numbers(done[s]) # {}}
        wrote(b) == "scribbles" \in b.whole \/ \E i \in ProbeRows(rows) : "scribbles" \in b.prefix[i]
    IN /\ verdict.cause = "lookahead" =>
            \E s \in DOMAIN done : \E i \in 0..rows - 2 : Peeks(done[s], i)
       /\ verdict.cause = "mutation" => \E s \in DOMAIN done : wrote(done[s])
       /\ verdict.status = "vacuous" /\ rows > 1 =>
            /\ DOMAIN done = Mandated(term)
            /\ \E s \in DOMAIN done : Numbers(done[s]) = {}
            /\ \A s \in DOMAIN done : SetCause(done[s]) = None
       /\ verdict.checked = Cardinality(passed)
=============================================================================
