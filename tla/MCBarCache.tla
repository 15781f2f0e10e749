----------------------------- MODULE MCBarCache -----------------------------
(* Small caches for TLC. *)
EXTENDS BarCacheProperties, TLC

Interchangeable == Permutations(Procs)
=============================================================================
