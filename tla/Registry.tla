------------------------------ MODULE Registry ------------------------------
(***************************************************************************)
(* The frozen registry and the preflight of a replay (engine/registry.py,  *)
(* engine/replay.py): a bundle of definitions is proven closed and acyclic *)
(* before anything is built, a request's plays are bound to it by digest,  *)
(* what they read is united into one closure, and only then are runtimes   *)
(* built, each from the definition objects its composite captured.         *)
(*                                                                         *)
(* A definition is an object, with a name and a digest; two objects may    *)
(* share both.  A play's digest is the pair that it is taken over.  What   *)
(* raises inside a computed set is None among its members.                 *)
(***************************************************************************)
EXTENDS Absent, Selection, Integers, FiniteSets, SequencesExt

CONSTANTS
  Objects,     \* definition objects
  NameOf, DigestOf,  \* of each object, numbers
  Composites,  \* the objects that are composites; the others are rules
  GrammarOf,   \* vocabulary_factory
  BoundSpec,   \* the spec a rules definition binds, or None
  Bundles,     \* what is offered: the top objects, and each object's members
  Requests,    \* the plays of a request: strategy, digest, params
  Settings,    \* the params of a play or of a block
  DepthOf,     \* how deep the blocks of params nest
  Own          \* the symbol a play trades

VARIABLES
  bundle,     \* the bundle offered
  phase,      \* idle, walk, search, frozen, bound, closed or built
  stack,      \* of the walk: objects; of the search: names, entered or left
  seen,       \* objects the walk has met
  edges,      \* member names of each name met
  onPath, finished,
  resolution, \* why it was refused, or None
  plays,      \* the request
  closure,    \* ReplayDependencies
  built       \* what the runtimes read, and under which grammars

registryVars ==
  <<bundle, phase, stack, seen, edges, onPath, finished, resolution, plays, closure, built>>
searching == <<stack, seen, edges, onPath, finished>>

ASSUME RegistryAssumption ==
  /\ IsFiniteSet(Objects) /\ NameOf \in [Objects -> Nat] /\ DigestOf \in [Objects -> Nat]
  /\ None \notin Bundles
  /\ None \notin {"unknown_member", "member_digest_mismatch", "member_cycle"}
  /\ \A b \in Bundles : b.top \in Seq(Objects) /\ b.members \in [Objects -> Seq(Objects)]
  /\ DepthOf \in [Settings -> Nat]
  /\ \A params \in Settings : \A block \in ToSet(params.blocks) :
       block.params \in Settings /\ DepthOf[block.params] < DepthOf[params]
  /\ \A request \in Requests : \A play \in ToSet(request) : play.params \in Settings

BaseAxis == "15m"
LiveAxes == {"15m", "1h", "4h", "1d", "1w"}
ReplayAxes == LiveAxes \ {"1w"}

Top == ToSet(bundle.top)
Members(o) == ToSet(bundle.members[o])
Names(objects) == {NameOf[o] : o \in objects}
Registered(name) == CHOOSE o \in Top : NameOf[o] = name

RegistryInit ==
  /\ bundle = None /\ phase = "idle"
  /\ stack = <<>> /\ seen = {} /\ edges = <<>> /\ onPath = {} /\ finished = {}
  /\ resolution = None /\ plays = <<>> /\ closure = {} /\ built = None

RefuseAs(why) ==
  /\ phase' = "refused" /\ resolution' = why
  /\ UNCHANGED <<bundle, plays, closure, built>>

\* Sorted by digest; one definition per name, one name per digest.
Freeze ==
  /\ phase = "idle"
  /\ \E b \in Bundles :
       LET objects == ToSet(b.top) IN
       /\ bundle' = b
       /\ IF Cardinality(Names(objects)) = Len(b.top)
             /\ Cardinality({DigestOf[o] : o \in objects}) = Len(b.top)
          THEN /\ phase' = "walk" /\ resolution' = None
               /\ stack' = SortedBy(objects, DigestOf)
          ELSE /\ phase' = "refused" /\ resolution' = "duplicate_value"
               /\ UNCHANGED stack
  /\ UNCHANGED <<seen, edges, onPath, finished, plays, closure, built>>

\* Mutant: a definition is known by its name.
MetByName(o) == \E p \in seen : NameOf[p] = NameOf[o]

Met(o) == o \in seen

\* A captured member is the definition the bundle registers under its name.
Unbound(m) == NameOf[m] \notin Names(Top)
Mismatched(m) == DigestOf[Registered(NameOf[m])] # DigestOf[m]

\* One definition off the stack of _definition_graph.
Walk ==
  /\ phase = "walk" /\ stack # <<>>
  /\ LET o == stack[Len(stack)]
         members == bundle.members[o]
         bad == {n \in DOMAIN members : Unbound(members[n]) \/ Mismatched(members[n])}
     IN IF Met(o) THEN /\ stack' = Front(stack)
                       /\ UNCHANGED <<bundle, phase, seen, edges, resolution, plays, closure, built>>
        ELSE IF bad # {}
        THEN /\ RefuseAs(IF Unbound(members[Min(bad)]) THEN "unknown_member" ELSE "member_digest_mismatch")
             /\ UNCHANGED <<stack, seen, edges>>
        ELSE /\ seen' = seen \cup {o}
             /\ edges' = [n \in DOMAIN edges \cup {NameOf[o]} |->
                            (IF n \in DOMAIN edges THEN edges[n] ELSE {})
                              \cup (IF n = NameOf[o] THEN Names(Members(o)) ELSE {})]
             /\ stack' = Front(stack) \o members
             /\ UNCHANGED <<bundle, phase, resolution, plays, closure, built>>
  /\ UNCHANGED <<onPath, finished>>

\* The next root of the search, in name order; the last one ends it.
Root ==
  /\ phase \in {"walk", "search"} /\ stack = <<>>
  /\ LET left == DOMAIN edges \ finished IN
     IF left = {} THEN phase' = "frozen" /\ UNCHANGED <<stack, onPath>>
     ELSE /\ phase' = "search" /\ onPath' = {}
          /\ stack' = <<[name |-> Min(left), leaving |-> FALSE]>>
  /\ UNCHANGED <<bundle, seen, edges, finished, resolution, plays, closure, built>>

\* One name off the stack of _require_acyclic_and_closed.
Search ==
  /\ phase = "search" /\ stack # <<>>
  /\ LET top == stack[Len(stack)]
         names == SortedBy(edges[top.name], [m \in edges[top.name] |-> m])
         entered == [n \in DOMAIN names |-> [name |-> names[n], leaving |-> FALSE]]
     IN IF top.leaving
        THEN /\ onPath' = onPath \ {top.name} /\ finished' = finished \cup {top.name}
             /\ stack' = Front(stack)
             /\ UNCHANGED <<bundle, phase, resolution, plays, closure, built>>
        ELSE IF top.name \notin finished /\ top.name \in onPath
        THEN RefuseAs("member_cycle") /\ UNCHANGED <<stack, onPath, finished>>
        ELSE /\ IF top.name \in finished THEN stack' = Front(stack) /\ UNCHANGED onPath
                ELSE /\ stack' = Append(Front(stack), [name |-> top.name, leaving |-> TRUE]) \o entered
                     /\ onPath' = onPath \cup {top.name}
             /\ UNCHANGED <<bundle, phase, resolution, plays, closure, built, finished>>
  /\ UNCHANGED <<seen, edges>>

\* validate_registry: a play is the definition it names, bound to its params.
Bind ==
  /\ phase = "frozen"
  /\ \E request \in Requests :
       /\ plays' = request
       /\ IF \E i \in DOMAIN request : request[i].strategy \notin Names(Top)
          THEN phase' = "refused" /\ resolution' = "unknown_strategy"
          ELSE IF \E i \in DOMAIN request :
                    request[i].digest
                      # <<DigestOf[Registered(request[i].strategy)], request[i].params>>
          THEN phase' = "refused" /\ resolution' = "definition_digest_mismatch"
          ELSE phase' = "bound" /\ UNCHANGED resolution
  /\ UNCHANGED <<bundle, stack, seen, edges, onPath, finished, closure, built>>

\* What one spec reads: its own timeframe, and the pairs its nodes name.
SpecReads(spec) == IF spec = None THEN {} ELSE {<<Own, spec.axis>>} \cup spec.pairs

\* The spec a rules definition runs, unless it is given twice.
TwoSpecs(o, params) == BoundSpec[o] # None /\ params.spec # None
EffectiveSpec(o, params) == IF BoundSpec[o] # None THEN BoundSpec[o] ELSE params.spec

\* Blocks that still hold a saved configuration are passed over.
MemberBlocks(params) == {params.blocks[i] : i \in {j \in DOMAIN params.blocks : ~params.blocks[j].saved}}
Bound(o, name) == {m \in Members(o) : NameOf[m] = name}
MemberOf(o, name) == CHOOSE m \in Bound(o, name) : TRUE

\* Mutant: a member may be read under another grammar.
AnyGrammar(o, m) == TRUE

OneGrammar(o, m) == GrammarOf[m] = GrammarOf[o]

\* What is asked of each composite in turn: a definition, and its params.
Nodes == Objects \X Settings

\* dependencies(params): what a play reads.
Dependencies[node \in Nodes] ==
  LET o == node[1]
      params == node[2]
      blocks == MemberBlocks(params)
  IN  IF o \notin Composites
      THEN IF TwoSpecs(o, params) THEN {None}
           ELSE {<<Own, BaseAxis>>} \cup SpecReads(EffectiveSpec(o, params))
      ELSE IF \E b \in blocks : Bound(o, b.strategy) = {} \/ ~OneGrammar(o, MemberOf(o, b.strategy))
      THEN {None}
      ELSE {<<Own, BaseAxis>>}
             \cup UNION {Dependencies[<<MemberOf(o, b.strategy), b.params>>] : b \in blocks}

NodeOf(play) == <<Registered(play.strategy), play.params>>

\* dependencies_for: the union over the plays, on timeframes a replay has.
Close ==
  /\ phase = "bound"
  /\ LET all == {<<Own, BaseAxis>>} \cup UNION {Dependencies[NodeOf(plays[i])] : i \in DOMAIN plays}
     IN IF None \in all \/ \E p \in all \ {None} : p[2] \notin ReplayAxes
        THEN RefuseAs("dependencies")
        ELSE /\ phase' = "closed" /\ closure' = all
             /\ UNCHANGED <<bundle, resolution, plays, built>>
  /\ UNCHANGED searching

\* A fresh runtime, its members built from the objects it captured: the
\* frames, and the grammars of its rules.
Runtime[node \in Nodes] ==
  LET o == node[1]
      params == node[2]
      blocks == ToSet(params.blocks)
      Part(b) == Runtime[<<MemberOf(o, b.strategy), b.params>>]
  IN  IF o \notin Composites
      THEN [reads |-> IF TwoSpecs(o, params) THEN {None}
                      ELSE {<<Own, BaseAxis>>} \cup SpecReads(EffectiveSpec(o, params)),
            grammars |-> {GrammarOf[o]}]
      ELSE IF \E b \in blocks : b.saved \/ Bound(o, b.strategy) = {}
      THEN [reads |-> {None}, grammars |-> {}]
      ELSE [reads |-> {<<Own, BaseAxis>>} \cup UNION {Part(b).reads : b \in blocks},
            grammars |-> UNION {Part(b).grammars : b \in blocks}]

Build ==
  /\ phase = "closed"
  /\ built' = [i \in DOMAIN plays |-> Runtime[NodeOf(plays[i])]]
  /\ phase' = "built"
  /\ UNCHANGED <<bundle, resolution, plays, closure, stack, seen, edges, onPath, finished>>

\* The frame a graded play is observed on; a composite is not graded.
Graded(o) == o \notin Composites
Axis(o, params) ==
  IF EffectiveSpec(o, params) = None THEN BaseAxis ELSE EffectiveSpec(o, params).axis

RegistryEnded == phase \in {"refused", "built"} /\ UNCHANGED registryVars

RegistryNext == Freeze \/ Walk \/ Root \/ Search \/ Bind \/ Close \/ Build \/ RegistryEnded

RegistrySpec == RegistryInit /\ [][RegistryNext]_registryVars
=============================================================================
