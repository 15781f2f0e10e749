---------------------------- MODULE MCComposite ----------------------------
(* A small composite for TLC, over sessions 1, 2 and 5. *)
EXTENDS CompositeProperties, TLC

\* A training bar, an hour's last bar that runs late, an early close, and an
\* IC tail.  A base bar is 2 ticks, an hour 4, a four-hour bucket 16 or, over
\* a clock change, 12.
TestOpens    == <<2, 4, 6, 22, 24, 42, 44>>
TestCloses   == <<4, 6, 9, 24, 26, 44, 46>>
TestSessions == <<1, 1, 1, 2, 2, 5, 5>>
TestPeriods ==
  [tf \in {"1h", "4h"} |->
     IF tf = "1h" THEN (0 :> 4) @@ (4 :> 8) @@ (20 :> 24) @@ (24 :> 28)
     ELSE (0 :> 12) @@ (12 :> 24)]

\* long: a and one of b, c; short: c, or a and b.
Group(key, blocks, groups) == [key |-> key, blocks |-> blocks, groups |-> groups]
TestTrees ==
  [side \in {"long", "short"} |->
     IF side = "long"
     THEN <<Group("any", {"b", "c"}, {}), Group("all", {"a"}, {1})>>
     ELSE <<Group("all", {"a", "b"}, {}), Group("any", {"c"}, {1})>>]
TestFrames == ("a" :> "15m") @@ ("b" :> "1h") @@ ("c" :> "1d")
=============================================================================
