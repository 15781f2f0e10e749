----------------------------- MODULE VoteTrees -----------------------------
(***************************************************************************)
(* The vote trees of a composite spec (strategies/composite/spec.py): per  *)
(* side a tree of groups, all or any of their items, an item being a block *)
(* or a group.  Groups are numbered so that a group comes after the groups *)
(* inside it; the root is the last one.  A side without a tree is <<>>.    *)
(***************************************************************************)
EXTENDS Integers, Sequences

CONSTANTS
  Members,  \* the block ids
  Trees     \* per side: its groups, [key, blocks, groups]

Sides == {"long", "short"}

\* What _check_tree admits: nonempty groups over known blocks.
ASSUME TreeAssumption ==
  /\ Trees \in [Sides -> Seq([key : {"all", "any"}, blocks : SUBSET Members, groups : SUBSET Nat])]
  /\ \A side \in Sides : \A i \in DOMAIN Trees[side] :
       /\ Trees[side][i].groups \subseteq 1..(i - 1)
       /\ Trees[side][i].blocks # {} \/ Trees[side][i].groups # {}

HasTree(side) == Trees[side] # <<>>

\* Does the side's tree pass on the live blocks?  (eval_tree)
Passes(side, live) ==
  LET holds[i \in DOMAIN Trees[side]] ==
        LET group == Trees[side][i] IN
        IF group.key = "all"
        THEN group.blocks \subseteq live /\ \A j \in group.groups : holds[j]
        ELSE group.blocks \cap live # {} \/ \E j \in group.groups : holds[j]
  IN holds[Len(Trees[side])]

\* The blocks the side's tree speaks of.  (tree_block_ids)
BlockIds(side) ==
  LET ids[i \in DOMAIN Trees[side]] ==
        Trees[side][i].blocks \cup UNION {ids[j] : j \in Trees[side][i].groups}
  IN ids[Len(Trees[side])]
=============================================================================
