------------------------------- MODULE Screen -------------------------------
(***************************************************************************)
(* A one-shot screen: the universe it is resolved to (screen/universe.py), *)
(* the planner that reads only facts (screen/planner.py), the runner       *)
(* (screen/runner.py), and the evaluator it must agree with on the last    *)
(* row (rules/frame_eval.py, rules/arithmetic.py).                         *)
(*                                                                         *)
(* Symbols are numbers.  An operand is a number, a fact, a term read from  *)
(* bars, or arithmetic over operands; a term is opaque but for the frames  *)
(* it and its own operand read, and for what it gave in the last two rows. *)
(* Numbers are whole; both evaluators share apply_math, so what a quotient *)
(* rounds to plays no part.                                                *)
(***************************************************************************)
EXTENDS Absent, Selection, Integers, Sequences, FiniteSetsExt, Functions

CONSTANTS
  Screens,     \* validated specs: tf and conditions
  Expressions, \* the conditions of each, and all that is below them
  HeightOf,    \* how deep an expression goes
  Watchlists, NamedLists,  \* the spellings a caller hands over
  TickerOf,    \* what each spelling names, None for an empty one
  Tickers,     \* the well-formed names
  Cap,         \* cap on named symbols
  Facts,       \* what there is to know of a symbol
  FactSheets,  \* what may be known of it: each fact a number, or None
  Providers,   \* the source timeframes a run may have providers for
  TermNames,
  Readings,    \* each term's last two values, the end-anchored ones equal
  BarCounts,   \* how many bars the screen's own frame may have
  MinLookback

VARIABLES
  screen,   \* the spec of the run in progress, or None
  served,   \* the timeframes it has providers for
  unscreened, \* the symbols still to screen, in order
  facts,    \* the facts of the symbol in its turn
  turn,     \* what is next for it: plan, derive or read
  fresh,    \* the frames refreshed in this turn
  noted,    \* its sync_note is not empty
  report,   \* the rows
  errors, skipped

screenVars == <<screen, served, unscreened, facts, turn, fresh, noted, report, errors, skipped>>

Driving == "15m"
Higher == {"1h", "4h", "1d", "1w"}
Timeframes == {Driving} \cup Higher
Derived == [tf \in {"4h", "1w"} |-> IF tf = "4h" THEN "1h" ELSE "1d"]
Source(tf) == IF tf \in DOMAIN Derived THEN Derived[tf] ELSE tf

(* Expressions: operands, and what is judged over them. *)

Quantity == Int \cup {NaN}
Operands == {e \in Expressions : e.kind \in {"number", "fact", "term", "math"}}
Judged == {e \in Expressions : e.kind \in {"condition", "group"}}
Groups == {e \in Judged : e.kind = "group"}
Folds == {"+", "-", "*", "/", "min", "max"}
Crosses == {"crosses_above", "crosses_below"}

Children(e) == CASE e.kind = "math" -> Range(e.args)
                 [] e.kind = "term" -> {e.of} \ {None}
                 [] e.kind = "group" -> Range(e.items)
                 [] e.kind = "condition" -> {e.lhs, e.rhs}
                 [] OTHER -> {}

\* An expression and all below it.
Parts[e \in Expressions] == {e} \cup UNION {Parts[o] : o \in Children(e)}

\* What the validator lets pass: a cross has a series on its left.
WellFormed(e) ==
  CASE e.kind = "number" -> e.value \in Int
    [] e.kind = "fact" -> e.name \in Facts
    [] e.kind = "term" -> /\ e.name \in TermNames /\ e.of \in Operands \cup {None}
                          /\ e.sym \in Nat \cup {None} /\ e.tf \in Timeframes \cup {None}
    [] e.kind = "math" -> /\ e.args \in Seq(Operands) /\ e.args # <<>>
                          /\ e.op \in Folds \/ (e.op = "abs" /\ Len(e.args) = 1)
    [] e.kind = "condition" -> /\ e.lhs \in Operands /\ e.rhs \in Operands
                               /\ e.op \in {">", "<", ">=", "<="} \cup Crosses
                               /\ e.op \in Crosses => \E t \in Parts[e.lhs] : t.kind = "term"
    [] e.kind = "group" -> /\ e.items \in Seq(Judged) /\ e.items # <<>>
                           /\ e.key \in {"all", "any"} \/ (e.key = "not" /\ Len(e.items) = 1)

ASSUME ScreenAssumption ==
  /\ None \notin Int \cup {NaN} \cup BOOLEAN /\ NaN \notin Int \cup BOOLEAN
  /\ None \notin Screens \cup FactSheets \cup Expressions
  /\ Expressions = Operands \cup Judged /\ HeightOf \in [Expressions -> Nat]
  /\ \A e \in Expressions : WellFormed(e) /\ \A o \in Children(e) : HeightOf[o] < HeightOf[e]
  /\ \A spec \in Screens : spec.conditions \in Groups /\ spec.tf \in Timeframes
  /\ FactSheets \subseteq [Facts -> Int \cup {None}]
  /\ Readings # {} /\ Readings \subseteq [TermNames -> Quantity \X Quantity]
  /\ Tickers \subseteq Nat /\ \A named \in NamedLists : named \in Seq(DOMAIN TickerOf)
  /\ \A list \in Watchlists : list \in Seq({name \in DOMAIN TickerOf : TickerOf[name] \in Nat})

(* Arithmetic, shared by planner and evaluator. *)

Combine(op, a, b) ==
  IF op \in {"min", "max"}
  THEN IF NaN \in {a, b} THEN IF a = NaN THEN b ELSE a
       ELSE IF (a < b) = (op = "min") THEN a ELSE b
  ELSE IF NaN \in {a, b} \/ (op = "/" /\ b = 0) THEN NaN
  ELSE CASE op = "+" -> a + b
         [] op = "-" -> a - b
         [] op = "*" -> a * b
         [] op = "/" -> IF b < 0 THEN (-a) \div (-b) ELSE a \div b
ApplyMath(op, args) ==
  LET folded[i \in DOMAIN args] ==
        IF i = 1 THEN args[1] ELSE Combine(op, folded[i - 1], args[i])
  IN  IF op = "abs" THEN IF args[1] # NaN /\ args[1] < 0 THEN -args[1] ELSE args[1]
      ELSE folded[Len(args)]

\* A comparison with NaN is false.
Compare(op, a, b) ==
  /\ NaN \notin {a, b}
  /\ CASE op = ">" -> a > b [] op = "<" -> a < b [] op = ">=" -> a >= b [] op = "<=" -> a <= b

(* The planner: what the facts alone decide. *)

Known(value) == [value |-> value, technical |-> FALSE, missing |-> {}]
Joint(plans) ==
  [technical |-> \E i \in DOMAIN plans : plans[i].technical,
   missing |-> UNION {plans[i].missing : i \in DOMAIN plans}]
Unknown(joint) == [value |-> None, technical |-> joint.technical, missing |-> joint.missing]

FactValue(name, sheet) ==
  IF sheet[name] = None THEN [Known(None) EXCEPT !.missing = {name}] ELSE Known(sheet[name])

\* An extremum passes over what is missing, and is known if anything is.
PlanMath(op, plans) ==
  LET joint == Joint(plans)
      value == ApplyMath(op, [i \in DOMAIN plans |->
                                IF plans[i].value = None THEN NaN ELSE plans[i].value])
  IN  IF \A i \in DOMAIN plans : plans[i].value # None THEN [Unknown(joint) EXCEPT !.value = value]
      ELSE IF joint.technical \/ op \notin {"min", "max"} \/ value = NaN THEN Unknown(joint)
      ELSE Known(value)

PlanLeaf(e, sheet) ==
  CASE e.kind = "number" -> Known(e.value)
    [] e.kind = "fact" -> FactValue(e.name, sheet)
    [] e.kind = "term" -> [Known(None) EXCEPT !.technical = TRUE]

PlanExpr[node \in Operands \X FactSheets] ==
  LET e == node[1] IN
  IF e.kind # "math" THEN PlanLeaf(e, node[2])
  ELSE PlanMath(e.op, [i \in DOMAIN e.args |-> PlanExpr[<<e.args[i], node[2]>>]])

PlanCondition(c, sheet) ==
  LET lhs == PlanExpr[<<c.lhs, sheet>>]
      rhs == PlanExpr[<<c.rhs, sheet>>]
  IN IF None \in {lhs.value, rhs.value} \/ c.op \in Crosses THEN Unknown(Joint(<<lhs, rhs>>))
     ELSE Known(Compare(c.op, lhs.value, rhs.value))

\* Mutant: a group with an unknown child is decided by the others.
ReduceKnown(key, plans) ==
  LET known == {plans[i].value : i \in DOMAIN plans} \ {None} IN
  CASE key = "not" -> IF plans[1].value = None THEN plans[1] ELSE Known(~plans[1].value)
    [] known = {} -> Unknown(Joint(plans))
    [] key = "all" -> Known(FALSE \notin known)
    [] key = "any" -> Known(TRUE \in known)

ReduceGroup(key, plans) ==
  LET known == {plans[i].value : i \in DOMAIN plans} IN
  IF key = "not" THEN IF plans[1].value = None THEN plans[1] ELSE Known(~plans[1].value)
  ELSE IF key = "all" /\ FALSE \in known THEN Known(FALSE)
  ELSE IF key = "any" /\ TRUE \in known THEN Known(TRUE)
  ELSE IF None \notin known THEN Known(key = "all")
  ELSE Unknown(Joint(plans))

PlanGroup[node \in Judged \X FactSheets] ==
  LET e == node[1] IN
  IF e.kind = "condition" THEN PlanCondition(e, node[2])
  ELSE ReduceGroup(e.key, [i \in DOMAIN e.items |-> PlanGroup[<<e.items[i], node[2]>>]])

(* The evaluator: the last row, with what the terms gave there. *)

SeriesMath(op, parts) ==
  [k \in 1..2 |-> ApplyMath(op, [i \in DOMAIN parts |-> parts[i][k]])]

SeriesLeaf(e, sheet, reading) ==
  LET fact == IF sheet[e.name] = None THEN NaN ELSE sheet[e.name]
  IN  CASE e.kind = "number" -> <<e.value, e.value>>
        [] e.kind = "fact" -> <<fact, fact>>
        [] e.kind = "term" -> reading[e.name]

Series[node \in Operands \X FactSheets \X Readings] ==
  LET e == node[1] IN
  IF e.kind # "math" THEN SeriesLeaf(e, node[2], node[3])
  ELSE SeriesMath(e.op, [i \in DOMAIN e.args |-> Series[<<e.args[i], node[2], node[3]>>]])

\* The last of two values, or of both when the comparison is a cross.
ConditionVerdict(c, sheet, reading) ==
  LET lhs == Series[<<c.lhs, sheet, reading>>]
      rhs == Series[<<c.rhs, sheet, reading>>]
      read == {lhs[2], rhs[2]} \cup (IF c.op \in Crosses THEN {lhs[1], rhs[1]} ELSE {})
  IN IF NaN \in read THEN None
     ELSE CASE c.op = "crosses_above" -> lhs[1] <= rhs[1] /\ lhs[2] > rhs[2]
            [] c.op = "crosses_below" -> lhs[1] >= rhs[1] /\ lhs[2] < rhs[2]
            [] OTHER -> Compare(c.op, lhs[2], rhs[2])

\* Kleene's connectives, over nullable booleans.
Reduce(key, parts) ==
  CASE key = "not" -> IF None \in parts THEN None ELSE FALSE \in parts
    [] key = "all" -> IF FALSE \in parts THEN FALSE ELSE IF None \in parts THEN None ELSE TRUE
    [] key = "any" -> IF TRUE \in parts THEN TRUE ELSE IF None \in parts THEN None ELSE FALSE

GroupVerdict[node \in Judged \X FactSheets \X Readings] ==
  LET e == node[1] IN
  IF e.kind = "condition" THEN ConditionVerdict(e, node[2], node[3])
  ELSE Reduce(e.key, {GroupVerdict[<<o, node[2], node[3]>>] : o \in Range(e.items)})

(* The frames a screen mentions, loads and reads; a missing sym or tf is the *)
(* one around it.                                                            *)

Inherit(value, inherited) == IF value = None THEN inherited ELSE value

SymOf(e) == IF e.kind = "term" THEN e.sym ELSE None
TfOf(e) == IF e.kind = "term" THEN e.tf ELSE None

ReferencedTimeframes(spec) ==
  {spec.tf} \cup ({TfOf(e) : e \in Parts[spec.conditions]} \ {None})
MaxLookback(spec) ==
  Max({MinLookback} \cup {e.n : e \in {x \in Parts[spec.conditions] : x.kind = "term"}})

\* The symbol, None while it is the screened one, and the timeframe that are
\* in scope below an expression.
Scopes == (Nat \cup {None}) \X Timeframes

\* Mutant: an operand starts from the screen's timeframe again.
Rescoped(e, scope) == <<Inherit(SymOf(e), scope[1]), scope[2]>>

Scoped(e, scope) == <<Inherit(SymOf(e), scope[1]), Inherit(TfOf(e), scope[2])>>

\* The pairs of an explicit symbol, in lexical scope.
ReferencePairs[node \in Expressions \X Scopes] ==
  LET e == node[1]
      scope == node[2]
      own == <<Inherit(SymOf(e), scope[1]), Inherit(TfOf(e), scope[2])>>
  IN  (IF own[1] = None THEN {} ELSE {own})
        \cup UNION {ReferencePairs[<<o, Scoped(e, scope)>>] : o \in Children(e)}
References(spec) == ReferencePairs[<<spec.conditions, <<None, spec.tf>>>>]

\* What build_context loads for a symbol, and what the evaluator then reads.
Loaded(spec, s) ==
  {<<s, tf>> : tf \in {Driving} \cup (Higher \cap ReferencedTimeframes(spec))} \cup References(spec)

Reads[node \in Expressions \X (Nat \X Timeframes)] ==
  LET e == node[1]
      pair == node[2]
      native == <<Inherit(SymOf(e), pair[1]), Inherit(TfOf(e), pair[2])>>
  IN  {native} \cup UNION {Reads[<<o, native>>] : o \in Children(e)}

\* Symbol resolution: named symbols are checked and capped, watched ones are not.
Spelled(names) == {TickerOf[names[i]] : i \in DOMAIN names}
ValidateSymbols(named) == Spelled(named) \ {None}
ListRefused(named) ==
  ValidateSymbols(named) \notin SUBSET Tickers \/ Cardinality(ValidateSymbols(named)) > Cap
ResolveUniverse(watched, named) == Spelled(watched) \cup ValidateSymbols(named)

(* The run. *)

Plan == PlanGroup[<<screen.conditions, facts>>]

ScreenInit ==
  /\ screen = None /\ served = {} /\ unscreened = <<>> /\ facts = None /\ turn = "plan"
  /\ fresh = {} /\ noted = FALSE /\ report = <<>> /\ errors = 0 /\ skipped = 0

\* A surface resolves its symbols and runs the screen, or refuses the list.
RunScreen ==
  /\ screen = None
  /\ \E spec \in Screens, watched \in Watchlists, named \in NamedLists, p \in SUBSET Providers :
       /\ ~ListRefused(named)
       /\ screen' = spec /\ served' = p
       /\ unscreened' = LET all == ResolveUniverse(watched, named) IN SortedBy(all, [n \in all |-> n])
  /\ UNCHANGED <<facts, turn, fresh, noted, report, errors, skipped>>

RefuseNames ==
  /\ screen = None
  /\ \E named \in NamedLists : ListRefused(named)
  /\ UNCHANGED screenVars

\* The next symbol's turn, with what is known of it.
NextSymbol ==
  /\ screen # None /\ unscreened # <<>> /\ facts = None
  /\ \E sheet \in FactSheets : facts' = sheet
  /\ UNCHANGED <<screen, served, unscreened, turn, fresh, noted, report, errors, skipped>>

\* priced: the row has a last close.
EndTurn(matched, priced) ==
  /\ report' = Append(report, [symbol |-> Head(unscreened), matched |-> matched,
                           priced |-> priced, noted |-> noted])
  /\ skipped' = IF matched = None THEN skipped + 1 ELSE skipped
  /\ unscreened' = Tail(unscreened) /\ facts' = None /\ turn' = "plan" /\ fresh' = {} /\ noted' = FALSE
  /\ UNCHANGED <<screen, served>>

\* Facts settle the verdict, or leave nothing that bars could settle.
SettleByFacts ==
  /\ facts # None /\ turn = "plan"
  /\ ~(Plan.value = None /\ Plan.technical)
  /\ EndTurn(Plan.value, FALSE)
  /\ UNCHANGED errors

SyncPairs(s) == {<<s, tf>> : tf \in ReferencedTimeframes(screen)} \cup References(screen)

\* Fetches one pair after another; a failure costs a note.
Sync ==
  /\ facts # None /\ turn = "plan"
  /\ Plan.value = None /\ Plan.technical
  /\ LET asked == {p \in SyncPairs(Head(unscreened)) : Source(p[2]) \in served}
     IN \E failed \in SUBSET asked :
          /\ fresh' = {<<p[1], Source(p[2])>> : p \in asked \ failed}
          /\ errors' = errors + Cardinality(failed)
          /\ noted' = (failed # {})
  /\ turn' = "derive"
  /\ UNCHANGED <<screen, served, unscreened, facts, report, skipped>>

Derive ==
  /\ turn = "derive"
  /\ LET due == {p \in SyncPairs(Head(unscreened)) : p[2] \in DOMAIN Derived}
     IN \E failed \in SUBSET due :
          /\ fresh' = fresh \cup {p \in due \ failed : <<p[1], Source(p[2])>> \in fresh}
          /\ errors' = errors + Cardinality(failed)
          /\ noted' = (noted \/ failed # {})
  /\ turn' = "read"
  /\ UNCHANGED <<screen, served, unscreened, facts, report, skipped>>

\* The context is built and the last row read, unless something raises.
ReadLastRow ==
  /\ turn = "read"
  /\ \E bars \in BarCounts :
       IF bars < MaxLookback(screen) THEN EndTurn(None, FALSE)
       ELSE \E reading \in Readings :
              LET verdict == GroupVerdict[<<screen.conditions, facts, reading>>] IN
              IF verdict = None /\ Plan.missing # {} THEN EndTurn(None, TRUE)
              ELSE EndTurn(verdict = TRUE, TRUE)
  /\ UNCHANGED errors

Raise ==
  /\ turn = "read"
  /\ EndTurn(None, FALSE)
  /\ errors' = errors + 1

\* Matches first.
FinishRun ==
  /\ screen # None /\ unscreened = <<>>
  /\ LET matched == {n \in DOMAIN report : report[n].matched = TRUE}
     IN report' = Kept(report, matched) \o Kept(report, DOMAIN report \ matched)
  /\ UNCHANGED <<screen, served, unscreened, facts, turn, fresh, noted, errors, skipped>>

ScreenNext ==
  \/ RunScreen \/ RefuseNames \/ NextSymbol \/ SettleByFacts
  \/ Sync \/ Derive \/ ReadLastRow \/ Raise \/ FinishRun

ScreenSpec == ScreenInit /\ [][ScreenNext]_screenVars
=============================================================================
