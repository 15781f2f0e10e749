------------------------------- MODULE Absent -------------------------------
(* What stands for Python's None and for a number that is none, each one     *)
(* value in all the modules a run joins.                                     *)
CONSTANTS None, NaN
=============================================================================
