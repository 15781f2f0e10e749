------------------------- MODULE RegistryProperties -------------------------
(* What a frozen bundle, and a request that passed its preflight, promise. *)
EXTENDS Registry

\* The objects reached through members: those in every set that holds the
\* bundle's own and its members' members.
Reached ==
  {o \in Objects : \A S \in SUBSET Objects : Top \subseteq S /\ (\A p \in S : Members(p) \subseteq S)
                                             => o \in S}

\* The names reached from an object's members.
NamesBelow(o, reached) ==
  {n \in Names(reached) :
     \A N \in SUBSET Names(reached) :
       /\ Names(Members(o)) \subseteq N
       /\ \A p \in reached : NameOf[p] \in N => Names(Members(p)) \subseteq N
       => n \in N}

Closed(reached) ==
  \A o \in reached : ~Unbound(o) /\ ~Mismatched(o)
Acyclic(reached) == \A o \in reached : NameOf[o] \notin NamesBelow(o, reached)

\* A bundle is frozen only if it is closed and finite: every object reached
\* through captured members is the registered definition of its name, by
\* digest, whichever object it is, and no name is reached from its own
\* members.  And it is refused for a member only if one of these fails, so
\* that two trees over a shared member are no cycle (_definition_graph,
\* _require_acyclic_and_closed).
FrozenIsClosed ==
  bundle # None /\ resolution # "duplicate_value" =>
    LET reached == Reached
    IN /\ phase \in {"frozen", "bound", "closed", "built"} => Closed(reached) /\ Acyclic(reached)
       /\ resolution \in {"unknown_member", "member_digest_mismatch"} => ~Closed(reached)
       /\ resolution = "member_cycle" => Closed(reached) /\ ~Acyclic(reached)

\* Somewhere among its blocks is one whose saved configuration was not inlined.
Unresolved[params \in Settings] ==
  \E block \in ToSet(params.blocks) : block.saved \/ Unresolved[block.params]

\* A runtime built after the preflight never lacks a member, reads no frame
\* outside the closure the bars were prepared for, at any depth, speaks one
\* grammar, its definition's, and is graded on a frame in the closure; it is
\* only refused for a block whose saved configuration was never inlined,
\* which the dependencies pass over (dependencies_for, composite_definition,
\* CompositeStrategy, _graded_axis).
RuntimeStaysInClosure ==
  phase = "built" =>
    \A i \in DOMAIN plays :
      LET o == Registered(plays[i].strategy)
          params == plays[i].params
      IN /\ IF None \in built[i].reads THEN Unresolved[params]
            ELSE built[i].reads \subseteq closure /\ built[i].grammars \subseteq {GrammarOf[o]}
         /\ Graded(o) => <<Own, Axis(o, params)>> \in closure
=============================================================================
