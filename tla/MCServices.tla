----------------------------- MODULE MCServices -----------------------------
(* The components around the replay that share no state with one another,    *)
(* each at a small instance: one run takes up one of them and steps it.      *)
EXTENDS CompileProperties, BatchSyncProperties, TermGateProperties, BoundaryProperties,
        PreflightProperties, RegistryProperties, RankLensProperties, ScreenProperties

VARIABLE task  \* the component this run is about

-----------------------------------------------------------------------------
(* A compile. *)

\* A response that used 3 prompt and 1 output tokens and cost 2, by what its
\* usage reports: all of it; the bill only; the counters only, with and
\* without cache subsets; cache subsets beyond the prompt; a bad prompt
\* beside the bill; a bad output count; no usage.
Body(cost, prompt, output, cacheRead, cacheWrite) ==
  [usedPrompt |-> 3, usedOutput |-> 1, charged |-> 2,
   cost |-> cost, prompt |-> prompt, output |-> output, read |-> cacheRead, write |-> cacheWrite]
TestBodies ==
  {Body(2, 3, 1, 1, 0), Body(2, None, None, 0, 0), Body(None, 3, 1, 0, 0), Body(None, 3, 1, 1, 2),
   Body(None, 3, 1, 2, 2), Body(2, None, 1, 1, 0), Body(None, 3, None, None, None),
   Body(None, None, None, 0, 0)}

\* A spec that fails, one the normalizer spoils, one the caller refuses, one
\* that is rewritten, and one that passes as it is.
TestCandidates == {"bad", "spoiled", "unwelcome", "rewritten", "good"}
TestNormalized ==
  [c \in TestCandidates |-> CASE c = "spoiled" -> "bad" [] c = "rewritten" -> "good" [] OTHER -> c]
-----------------------------------------------------------------------------
(* A sync: one symbol that does not trade in every period, a list with a     *)
(* blank and a repeated name, requests of two symbols and pages of three rows. *)

SyncLists == {<<"A">>, <<"b", "", "a", "B", "c">>}
SyncNames ==
  [n \in {"A", "a", "B", "b", "", "c"} |->
     CASE n \in {"A", "a"} -> 1 [] n \in {"B", "b"} -> 2 [] n = "c" -> 3 [] n = "" -> None]

-----------------------------------------------------------------------------
(* The gate: terms whose schema is refused, too wide, or crosses choices with *)
(* ranges and defaults; callables that are honest, late, silent, or at flaw. *)

Choice(values) == [kind |-> "choice", values |-> values]
Span(low, high) == [kind |-> "range", low |-> low, high |-> high]
TermOf(args, defaults) ==
  [args |-> args, defaults |-> defaults, window_required |-> FALSE, end_anchored |-> FALSE]
TestTerms ==
  {TermOf(<<>>, <<>>),
   TermOf([field |-> Choice({11, 12}), n |-> Span(1, 3)], [n |-> 1]),
   TermOf([n |-> Span(1, 3), m |-> Span(1, 2)], [m |-> 2]),
   TermOf([when |-> [kind |-> "condition"], n |-> Span(1, 3)], [n |-> 2]),
   TermOf([field |-> Choice({})], <<>>),
   TermOf([n |-> [kind |-> "odd"]], <<>>),
   TermOf([a \in {"k", "m", "n"} |-> Span(1, 9)], [a \in {"k", "m", "n"} |-> 2]),
   [TermOf(<<>>, <<>>) EXCEPT !.end_anchored = TRUE],
   [TermOf(<<>>, <<>>) EXCEPT !.window_required = TRUE]}

Rows == 0..5
Honest == [i \in Rows |-> i]
Silent == [i \in Rows |-> None]
Late == [i \in Rows |-> i + 1]
Clean == [i \in Rows |-> {}]
Behaviour(reads, whole, prefix) == [reads |-> reads, whole |-> whole, prefix |-> prefix]
FaultAt(i, flaw) == [Clean EXCEPT ![i] = {flaw}]
TestBehaviours ==
  {Behaviour(reads, {}, Clean) :
     reads \in {Silent, [Silent EXCEPT ![5] = 5], Late, [Honest EXCEPT ![0] = None],
                [Honest EXCEPT ![0] = 2, ![1] = 2]}
               \cup {[Honest EXCEPT ![i] = i + 1] : i \in {0, 1, 3}}}
  \cup {Behaviour(Honest, {flaw}, Clean) :
          flaw \in {"raises", "scribbles", "columns", "unreadable", "short", "relabelled"}}
  \cup {Behaviour(Honest, {"scribbles", "short"}, Clean), Behaviour(Late, {"raises", "columns"}, Clean)}
  \cup {Behaviour(Honest, {}, FaultAt(i, flaw)) :
          i \in {0, 2}, flaw \in {"raises", "relabelled", "scribbles"}}
  \cup {Behaviour([Honest EXCEPT ![2] = 3], {}, FaultAt(2, "scribbles"))}

-----------------------------------------------------------------------------
(* A screen: facts beside a term; a negated quotient beside a term on 4h over *)
(* another symbol's; an extremum of a fact and a term.                        *)

Num(v) == [kind |-> "number", value |-> v]
Fact(name) == [kind |-> "fact", name |-> name]
Math(op, a, b) == [kind |-> "math", op |-> op, args |-> <<a, b>>]
Reading(sym, tf, of, n) ==
  [kind |-> "term", name |-> "t", sym |-> sym, tf |-> tf, of |-> of, n |-> n]
If(a, op, b) == [kind |-> "condition", lhs |-> a, op |-> op, rhs |-> b]
Group(key, items) == [kind |-> "group", key |-> key, items |-> items]

X == Fact("x")
Y == Fact("y")
Term == Reading(None, None, None, 2)
Deep == Reading(None, "4h", Reading(9, None, None, 5), 2)
TestScreens ==
  {[tf |-> "1d", conditions |-> Group("any", <<If(X, "<", Num(1)), If(Term, ">", Num(1))>>)],
   [tf |-> "1h", conditions |->
      Group("all", <<If(Math("min", X, Num(2)), ">", Num(1)),
                     Group("not", <<Group("any", <<If(Math("/", Y, X), ">=", Num(1)),
                                                   If(Deep, "crosses_above", X)>>)>>)>>)],
   [tf |-> "1d", conditions |->
      Group("all", <<If(Math("/", Y, X), "<", Math("max", X, Num(1))),
                     If(Math("min", Term, Y), "<=", Num(1))>>)]}
TestReadings == [{"t"} -> {<<NaN, 2>>, <<NaN, NaN>>, <<0, 2>>, <<2, 0>>, <<1, 1>>}]
TestSheets == [{"x", "y"} -> {None, 0, 2}]
ScreenNames ==
  [n \in {"A", "a", "b", "c", "", "?"} |->
     CASE n \in {"A", "a"} -> 2 [] n = "b" -> 1 [] n = "c" -> 3 [] n = "?" -> 0 [] n = "" -> None]

RECURSIVE Under(_)
Under(e) == {e} \cup UNION {Under(o) : o \in Children(e)}
TestExpressions == UNION {Under(spec.conditions) : spec \in TestScreens}
TestHeights == [e \in TestExpressions |-> Cardinality(Under(e))]
TestWatchlists == {<<"A">>}
TestNamedLists == {<<"b", "", "a">>, <<"?">>, <<"a", "b", "c">>}

-----------------------------------------------------------------------------
(* A registry: composites 1, 2 and 4, where 4 is 2 under another identity;    *)
(* rules 3, a stranger 5 of its name, and 6 of another grammar.               *)

TestNameOf == <<1, 2, 3, 2, 3, 4>>
TestDigestOf == <<14, 13, 12, 13, 99, 11>>
MemberLists == {<<>>, <<2>>, <<3>>, <<4>>, <<2, 3>>, <<4, 3>>, <<1>>, <<5>>, <<3, 6>>, <<2, 6>>}
TestBundles ==
  {[top |-> <<1, 2, 3, 6>>, members |-> <<a, b, c, d, <<>>, <<>>>>] :
     a \in MemberLists, b \in MemberLists, c \in {<<>>, <<1>>}, d \in {<<>>, <<1>>, <<3>>}}
  \cup {[top |-> t, members |-> <<<<2>>, <<3>>, <<>>, <<>>, <<>>, <<>>>>] : t \in {<<1, 2>>, <<1, 2, 4>>}}

Params(spec, blocks) == [spec |-> spec, blocks |-> blocks]
Member(strategy, params, saved) == [strategy |-> strategy, params |-> params, saved |-> saved]
Hour == [axis |-> "1h", pairs |-> {<<"SPY", "1d">>}]
Week == [axis |-> "1w", pairs |-> {}]
Plain == Params(None, <<>>)
OnHour == Member(3, Params(Hour, <<>>), FALSE)
Nested == Params(None, <<Member(2, Params(None, <<OnHour>>), FALSE)>>)
TestPlays ==
  {<<1, Params(None, <<OnHour>>)>>, <<1, Nested>>, <<3, Params(Week, <<>>)>>, <<3, Plain>>,
   <<4, Plain>>, <<4, Params(Hour, <<>>)>>,
   <<1, Params(None, <<Member(4, Plain, FALSE), OnHour>>)>>,
   <<2, Params(None, <<Member(3, Plain, TRUE), OnHour>>)>>}
TestRequests ==
  {<<[strategy |-> p[1], digest |-> <<15 - p[1], p[2]>>, params |-> p[2]]>> : p \in TestPlays}
  \cup {<<[strategy |-> 9, digest |-> None, params |-> Plain]>>,
        <<[strategy |-> 1, digest |-> <<12, Nested>>, params |-> Nested]>>}

\* Every params of a play, and of a block of one.
TestSettings ==
  LET played == {p[2] : p \in TestPlays}
      In(settings) == UNION {{b.params : b \in ToSet(p.blocks)} : p \in settings}
  IN  played \cup In(played) \cup In(In(played))
TestDepths[p \in TestSettings] ==
  IF p.blocks = <<>> THEN 0 ELSE 1 + Max({TestDepths[b.params] : b \in ToSet(p.blocks)})

TestGrammars == [o \in 1..6 |-> IF o = 6 THEN "house" ELSE "core"]
TestSpecs == [o \in 1..6 |-> IF o = 6 THEN Hour ELSE None]

-----------------------------------------------------------------------------
(* A replay's doors, over MCPreflight's calendar. *)

INSTANCE MCPreflight

-----------------------------------------------------------------------------
(* The lens: every series of four closes over three prices after a first, or  *)
(* two symbols on an axis that is declared or not, asked about nothing or     *)
(* four rows; at each row margins that tie, differ or are missing, or an      *)
(* answer that is no sequence of margins.                                     *)

MarginOf(kind, value) == [kind |-> kind, value |-> value]
SomeMargins == {MarginOf("none", 0), MarginOf("number", 0), MarginOf("number", 1)}
MarginAnswers ==
  {[kind |-> "sequence", margins |-> m] :
     m \in [1..4 -> SomeMargins] \cup {<<MarginOf("number", 1)>>}
           \cup {[n \in 1..4 |-> MarginOf(kind, 1)] : kind \in {"flag", "infinite"}}}
  \cup {[kind |-> "text", margins |-> <<>>]}
GradedPlay(factor, axis) == [factor |-> factor, axis |-> axis, declared |-> {"15m", "1d"}]
LensCases ==
  {[plays |-> <<GradedPlay(FALSE, None), GradedPlay(TRUE, "15m")>>, symbols |-> <<1>>,
    asked |-> <<1, 2, 3, 4>>, closes |-> <<<<2>> \o c>>] : c \in [1..4 -> {0, 2, 3}]}
  \cup {[plays |-> <<GradedPlay(TRUE, axis)>>, symbols |-> <<1, 2>>,
         asked |-> asked, closes |-> <<<<1, 2, 3, 2, 6>>, <<2, -1, 2, 0, 1>>>>] :
           axis \in {"1d", "1h"}, asked \in {<<>>, <<1, 2, 3, 4>>}}

TwoHorizons == <<1, 2>>

-----------------------------------------------------------------------------
(* The boundary: five strategies, one of them of any making, over bars that   *)
(* stand still, swing to either level or gap beyond both, and a night.        *)

Measure(kind, size) == [kind |-> kind, size |-> size]
Atr == Measure("atr", 1)
Exits(exit, timeStop, breakevenAt, trailing) ==
  [exit |-> exit, time_stop |-> timeStop, breakeven_at |-> breakevenAt, trailing |-> trailing]
RulePlay(sides, stop, target, exits) ==
  [sides |-> sides, stop |-> stop, target |-> target, exits |-> exits]
Both == {"long", "short"}
BoundaryPlays ==
  {None,
   RulePlay(Both, Measure("percent", 10), Measure("rr", 3), Exits(TRUE, None, 1, Atr)),
   RulePlay(Both, Atr, Measure("percent", 50), Exits(FALSE, 4, 1, None)),
   RulePlay({"short"}, Measure("percent", 20), Measure("rr", 3),
            Exits(FALSE, 2, None, Measure("percent", 5))),
   RulePlay(Both, Atr, Measure("rr", 4), Exits(FALSE, None, 2, Atr))}

Bar(open, high, low, last) == [open |-> open, high |-> high, low |-> low, close |-> last]
BoundaryBars ==
  {Bar(20, 20, 20, 20), Bar(20, 23, 19, 22), Bar(21, 25, 21, 24), Bar(20, 21, 17, 18),
   Bar(18, 19, 15, 16), Bar(26, 27, 25, 26)}

Raises(what) == [kind |-> "raises", what |-> what]
Foreign == [kind |-> "foreign"]
SignalList(items) == [kind |-> "sequence", items |-> items]
SignalOf(direction, entry, stop, target) ==
  [kind |-> "signal", sound |-> TRUE, direction |-> direction,
   entry_ref |-> entry, stop |-> stop, target |-> target]
Sound == SignalOf("long", 20, 15, 25)
BoundaryReturns ==
  {Raises("exception"), Raises("assigns"), Foreign}
  \cup {SignalList(items) :
          items \in {<<>>, <<Sound>>, <<SignalOf("short", 20, 25, 15), Sound>>, <<Foreign>>,
                     <<Sound, SignalOf("long", 21, 15, 25)>>, <<SignalOf("short", 20, 15, 25)>>,
                     <<SignalOf("short", 20, 25, 0)>>, <<[Sound EXCEPT !.sound = FALSE]>>}}
Levels(action, stop, target) ==
  [kind |-> "decision", action |-> action, stop |-> stop, target |-> target]
BoundaryDecisions ==
  {Raises("exception"), Raises("assigns"), Foreign, Levels("exit", None, None), Levels("exit", 19, None)}
  \cup {Levels("hold", stop, target) :
          stop \in {None, 0, 14, 17, 19, 21, 24}, target \in {None, 0, 16, 19, 22, 28}}

BoundaryCloses == <<1, 2, 3, 6>>
BoundaryRanges == {NaN, 0, 1, 2, 21}

-----------------------------------------------------------------------------
(* One component at a time. *)

Tasks == {"compile", "sync", "gate", "screen", "registry", "doors", "lens", "boundary"}

MCInit ==
  /\ task \in Tasks
  /\ Init /\ SyncInit /\ GateInit /\ ScreenInit /\ RegistryInit /\ DoorsInit /\ LensInit
  /\ BoundaryInit /\ (task # "boundary" => play = None)

\* A step of the task leaves every other component where it began.
Only(name) ==
  /\ task = name
  /\ name # "compile" => UNCHANGED vars
  /\ name # "sync" => UNCHANGED syncVars
  /\ name # "gate" => UNCHANGED gateVars
  /\ name # "screen" => UNCHANGED screenVars
  /\ name # "registry" => UNCHANGED registryVars
  /\ name # "doors" => UNCHANGED preflightVars
  /\ name # "lens" => UNCHANGED lensVars
  /\ name # "boundary" => UNCHANGED boundaryVars
  /\ UNCHANGED task

MCNext ==
  \/ Only("compile") /\ Next
  \/ Only("sync") /\ SyncNext
  \/ Only("gate") /\ GateNext
  \/ Only("screen") /\ ScreenNext
  \/ Only("registry") /\ RegistryNext
  \/ Only("doors") /\ DoorsNext
  \/ Only("lens") /\ LensNext
  \/ Only("boundary") /\ BoundaryNext

MCVars ==
  <<task, vars, syncVars, gateVars, screenVars, registryVars, preflightVars, lensVars,
    boundaryVars>>

\* Fair where the sync is: see BatchSync's FairSpec.
MCSpec ==
  /\ MCInit /\ [][MCNext]_MCVars
  /\ WF_MCVars(Only("sync") /\ Step)
=============================================================================
