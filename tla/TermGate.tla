------------------------------ MODULE TermGate ------------------------------
(***************************************************************************)
(* The causality gate a vocabulary's terms pass one by one: verify_term,   *)
(* arg_sets and probe_rows (strategies/rules/verify.py).                   *)
(*                                                                         *)
(* A row is its position in the frame.  What the code under test computes  *)
(* is a behaviour per argument set: reads[i] is the last row its value at  *)
(* row i is computed from, None where that value is NaN whatever follows;  *)
(* over a frame that ends before reads[i] the value is NaN too.  Values    *)
(* computed from different rows are different numbers.                     *)
(***************************************************************************)
EXTENDS Absent, Integers, FiniteSets

CONSTANTS
  Terms,           \* what a vocabulary may hold
  Behaviours,      \* what a callable may do with one argument set
  FrameSizes,      \* how many rows the frame may have
  Condition,       \* SYNTHETIC_CONDITION
  ProbeCount,      \* PROBE_COUNT and WARMUP_PROBE_COUNT
  MaxArgSets       \* MAX_ARG_SETS

VARIABLES
  term,     \* the term under test, None between two
  rows,     \* the frame's length
  todo,     \* the argument sets still to verify
  done,     \* what the callable did with each set it was called with
  checked,  \* sets fully verified
  vacuous,  \* whether a set was NaN at every probe
  verdict   \* the TermVerdict, None while the term is under test

gateVars == <<term, rows, todo, done, checked, vacuous, verdict>>

Causes == {"lookahead", "uncallable", "schema", "unenumerable", "mutation", "gate_error"}
Faults == {"raises", "scribbles", "columns", "unreadable", "short", "relabelled"}

ASSUME GateAssumption ==
  /\ \A t \in Terms : \A a \in DOMAIN t.args :
       t.args[a].kind \in {"choice", "condition", "range", "odd"}
  /\ FrameSizes \subseteq Nat /\ ProbeCount \in Nat \ {0} /\ MaxArgSets \in Nat
  /\ \A b \in Behaviours :
       /\ b.whole \subseteq Faults
       /\ \A n \in FrameSizes : \A i \in 0..n - 1 : b.reads[i] \in Nat \cup {None}
  /\ None \notin Nat /\ None \notin Causes
  /\ None \notin [status : {"exempt", "vacuous", "failed", "checked"},
                  cause : Causes \cup {None}, checked : Nat]

-----------------------------------------------------------------------------
(* What is tried. *)

ArgsOf(t, kind) == {a \in DOMAIN t.args : t.args[a].kind = kind}

\* The cross product of the choices; an enumeration without members has none.
Combos(t) ==
  {c \in [ArgsOf(t, "choice") -> UNION {t.args[a].values : a \in ArgsOf(t, "choice")}] :
     \A a \in DOMAIN c : c[a] \in t.args[a].values}

\* A combination over the defaults over the low bound of an argument that has
\* no default, and the condition for every argument that takes one.
Base(t, c) ==
  [a \in DOMAIN t.args |->
     CASE t.args[a].kind = "condition" -> Condition
       [] t.args[a].kind = "choice" -> c[a]
       [] t.args[a].kind = "range" /\ a \in DOMAIN t.defaults -> t.defaults[a]
       [] OTHER -> t.args[a].low]

\* Mutant: only the low end of a range is tried.
LowEnds(t, base) == {[base EXCEPT ![a] = t.args[a].low] : a \in ArgsOf(t, "range")}

\* Each end of each range, one at a time, and each candidate once.
Ends(t, base) ==
  UNION {{[base EXCEPT ![a] = t.args[a].low], [base EXCEPT ![a] = t.args[a].high]} :
           a \in ArgsOf(t, "range")}
ArgSets(t) == UNION {{Base(t, c)} \cup Ends(t, Base(t, c)) : c \in Combos(t)}

Unenumerable(t) ==
  \/ ArgsOf(t, "odd") # {}
  \/ ArgSets(t) = {} \/ Cardinality(ArgSets(t)) > MaxArgSets

-----------------------------------------------------------------------------
(* Where it is compared. *)

\* Python's round of a / b, ties to even.
Rounded(a, b) ==
  LET q == a \div b  twice == 2 * (a % b)
  IN IF twice > b \/ (twice = b /\ q % 2 = 1) THEN q + 1 ELSE q

Spread(lo, hi, count) ==
  IF hi < lo THEN {}
  ELSE LET gaps == IF count > 1 THEN count - 1 ELSE 1
       IN {lo + Rounded(k * (hi - lo), gaps) : k \in 0..count - 1}

Least(a, b) == IF a < b THEN a ELSE b

\* Mutant: the warm-up is not probed.
SettledRows(n) == IF n < 2 THEN {} ELSE Spread(n \div 2, n - 2, ProbeCount)

\* The settled half and the warm-up, and never the last row.
ProbeRows(n) ==
  IF n < 2 THEN {}
  ELSE Spread(n \div 2, n - 2, ProbeCount)
       \cup Spread(0, Least(n \div 2 - 1, n - 2), ProbeCount)

\* The value at row i over the first n rows: which row it comes from.
Value(b, i, n) == IF b.reads[i] = None \/ b.reads[i] >= n THEN None ELSE b.reads[i]

\* A callable that writes into the frame may disagree with itself.
Disagrees(b, i) == Value(b, i, rows) # Value(b, i, i + 1) \/ "scribbles" \in b.prefix[i]

-----------------------------------------------------------------------------
(* One argument set. *)

\* Over the whole frame: the first of these that the callable does decides.
WholeFaults == <<"raises", "scribbles", "columns", "unreadable", "short", "relabelled">>
WholeCauses == <<"uncallable", "mutation", "schema", "gate_error", "schema", "schema">>
WholeCause(b) ==
  IF b.whole = {} THEN None
  ELSE WholeCauses[CHOOSE k \in 1..6 : /\ WholeFaults[k] \in b.whole
                                       /\ \A j \in 1..k - 1 : WholeFaults[j] \notin b.whole]

\* Mutant: the frame is compared only where the values agree.
RowCauseLate(b, i) ==
  CASE "raises" \in b.prefix[i] -> "uncallable"
    [] "relabelled" \in b.prefix[i] -> "schema"
    [] Disagrees(b, i) -> "lookahead"
    [] "scribbles" \in b.prefix[i] -> "mutation"
    [] OTHER -> None

\* Over the prefix that ends at row i, then against the whole frame.
RowCause(b, i) ==
  IF "raises" \in b.prefix[i] THEN "uncallable"
  ELSE IF "relabelled" \in b.prefix[i] THEN "schema"
  ELSE IF "scribbles" \in b.prefix[i] THEN "mutation"
  ELSE IF Disagrees(b, i) THEN "lookahead"
  ELSE None

\* The cause the set is refused for, None when it is not: the whole frame's,
\* or that of the first probe row that has one.
SetCause(b) ==
  LET bad == {i \in ProbeRows(rows) : RowCause(b, i) # None}
  IN IF WholeCause(b) # None THEN WholeCause(b)
     ELSE IF bad = {} THEN None
     ELSE RowCause(b, CHOOSE i \in bad : \A j \in bad : i <= j)

Numbers(b) == {i \in ProbeRows(rows) : Value(b, i, rows) # None}

-----------------------------------------------------------------------------
(* One term. *)

Verdict(status, cause, count) == [status |-> status, cause |-> cause, checked |-> count]

\* An exemption, a frame too short and a schema that cannot be enumerated are
\* verdicts before anything is called.
Begin(t, n) ==
  /\ term = None
  /\ term' = t /\ rows' = n
  /\ done' = << >> /\ checked' = 0 /\ vacuous' = FALSE
  /\ IF t.window_required \/ t.end_anchored
     THEN verdict' = Verdict("exempt", None, 0) /\ todo' = {}
     ELSE IF ProbeRows(n) = {}
     THEN verdict' = Verdict("vacuous", None, 0) /\ todo' = {}
     ELSE IF Unenumerable(t)
     THEN verdict' = Verdict("failed", "unenumerable", 0) /\ todo' = {}
     ELSE verdict' = None /\ todo' = ArgSets(t)

\* Mutant: a vacuous set ends the term.
EndedByVacuous(args, b) == IF Numbers(b) = {} THEN {} ELSE todo \ {args}

\* A vacuous set is carried on from: a later one may look ahead.
Remaining(args, b) == todo \ {args}

Verify(args, b) ==
  /\ term # None /\ verdict = None /\ args \in todo
  /\ done' = [s \in DOMAIN done \cup {args} |-> IF s = args THEN b ELSE done[s]]
  /\ IF SetCause(b) # None
     THEN /\ verdict' = Verdict("failed", SetCause(b), checked)
          /\ todo' = {}
          /\ UNCHANGED <<checked, vacuous>>
     ELSE /\ todo' = Remaining(args, b)
          /\ checked' = IF Numbers(b) # {} THEN checked + 1 ELSE checked
          /\ vacuous' = (vacuous \/ Numbers(b) = {})
          /\ UNCHANGED verdict
  /\ UNCHANGED <<term, rows>>

Conclude ==
  /\ term # None /\ verdict = None /\ todo = {}
  /\ verdict' = Verdict(IF vacuous THEN "vacuous" ELSE "checked", None, checked)
  /\ UNCHANGED <<term, rows, todo, done, checked, vacuous>>

\* The vocabulary's next term starts afresh.
NextTerm ==
  /\ verdict # None
  /\ term' = None /\ rows' = 0 /\ todo' = {} /\ done' = << >>
  /\ checked' = 0 /\ vacuous' = FALSE /\ verdict' = None

GateInit ==
  /\ term = None /\ rows = 0 /\ todo = {} /\ done = << >>
  /\ checked = 0 /\ vacuous = FALSE /\ verdict = None

GateNext ==
  \/ \E t \in Terms, n \in FrameSizes : Begin(t, n)
  \/ \E args \in todo, b \in Behaviours : Verify(args, b)
  \/ Conclude
  \/ NextTerm

GateSpec == GateInit /\ [][GateNext]_gateVars
=============================================================================
