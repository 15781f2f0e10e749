---------------------------- MODULE AtomicStore ----------------------------
(***************************************************************************)
(* What the bar cache promises its writers: a writer asks for a batch to   *)
(* be merged into one pair; the batch is merged into what the pair holds   *)
(* at that instant, whole and once, or dropped.                            *)
(***************************************************************************)
EXTENDS Frames

CONSTANTS Procs, Pairs

VARIABLES
  frame,  \* the bars of every pair
  asked   \* per writer: the request it has made, if any, as a set

vars == <<frame, asked>>

Init ==
  /\ frame = [q \in Pairs |-> NoBars]
  /\ asked = [p \in Procs |-> {}]

Ask(p) ==
  /\ asked[p] = {}
  /\ asked' = [asked EXCEPT ![p] = asked'[p]]
  /\ UNCHANGED frame

Drop(p) ==
  /\ asked' = [asked EXCEPT ![p] = {}]
  /\ UNCHANGED frame

Commit(p) ==
  \E r \in asked[p] :
    /\ frame' = [frame EXCEPT ![r.pair] = MergeFrames(@, r.batch)]
    /\ asked' = [asked EXCEPT ![p] = {}]

Next == \E p \in Procs : Ask(p) \/ Drop(p) \/ Commit(p)

Spec == Init /\ [][Next]_vars
=============================================================================
