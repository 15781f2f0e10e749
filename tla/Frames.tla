------------------------------- MODULE Frames -------------------------------
(***************************************************************************)
(* A cached frame: a function from the labels of its bars to what the bars *)
(* say.                                                                    *)
(***************************************************************************)
EXTENDS Integers, FiniteSetsExt

NoBars == [l \in {} |-> 0]
FirstLabel(frame) == Min(DOMAIN frame)
LastLabel(frame)  == Max(DOMAIN frame)

From(frame, label) == [l \in {m \in DOMAIN frame : m >= label} |-> frame[l]]

\* Two frames as one, the newer copy of a duplicate label winning.
MergeFrames(old, new) ==
  [l \in DOMAIN old \cup DOMAIN new |-> IF l \in DOMAIN new THEN new[l] ELSE old[l]]
=============================================================================
