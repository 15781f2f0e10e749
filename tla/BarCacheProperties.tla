------------------------- MODULE BarCacheProperties -------------------------
(***************************************************************************)
(* What makes the bar cache correct, stated over module BarCache.          *)
(***************************************************************************)
EXTENDS BarCache

\* The upsert a process has under way.
AskOf(p) == IF pc[p] \in {"waiting", "holding", "merged"}
              THEN {[pair |-> pair[p], batch |-> batch[p]]} ELSE {}

\* The upserts of all processes, fetched or derived, take effect one at a time
\* and whole: locking, merging into a temporary file and replacing it implement
\* a store that merges each batch into what the pair holds at that instant, so
\* no writer's bars are lost to another's (the reason of upsert's docstring).
Store == INSTANCE AtomicStore WITH frame <- disk, asked <- [p \in Procs |-> AskOf(p)]

ImplementsStore == Store!Spec

\* A lock belongs to a process that is inside its upsert, never to one that
\* returned, failed or died (file_lock's finally, and the kernel).
LockHasAWriter ==
  \A q \in Pairs, p \in Procs :
    lock[q] = p => pair[p] = q /\ pc[p] \in {"holding", "merged", "written"}

\* Every sync comes to its end: written, timed out or abandoned.
SyncEnds == \A p \in Procs : pc[p] # "idle" ~> pc[p] = "idle"

-----------------------------------------------------------------------------
(* What one syncing process keeps, and concurrent ones do not. *)

\* Only the last cached bar may be a copy taken while it was forming: the next
\* fetch starts by fetching it again.
OnlyLastIsForming ==
  \A l \in DOMAIN disk["source"] :
    disk["source"][l] = Forming => l = LastLabel(disk["source"])

\* Resuming at the last cached bar leaves no hole: between the first and the
\* last cached bar every bar the provider served on time is cached, however far
\* back the requested windows start and however long the cache was left alone.
NoHole ==
  \A l \in onTime :
    disk["source"] # NoBars
      /\ FirstLabel(disk["source"]) <= l /\ l <= LastLabel(disk["source"])
    => l \in DOMAIN disk["source"]

\* The on-time bars of a bucket, in the source now and in its derived bar.
SourceNow(b)  == [l \in {m \in DOMAIN disk["source"] \cap onTime : BucketOf(m) = b}
                    |-> disk["source"][l]]
DerivedOf(b) == LET bar == disk["derived"][b]
                IN  [l \in DOMAIN bar \cap onTime |-> bar[l]]

\* Re-deriving only a trailing window is enough: every derived bar between the
\* first and the last is made of exactly the bars its bucket holds.
InnerBucketsCurrent ==
  \A b \in DOMAIN disk["derived"] :
    b > FirstLabel(disk["derived"]) /\ b < LastLabel(disk["derived"])
      => DerivedOf(b) = SourceNow(b)

-----------------------------------------------------------------------------
(* What the documentation says and the code does not do. *)

\* "Newest copy of a duplicate ts winning": a bar cached once it had closed is
\* never replaced by a copy taken while it was forming.
FinalStays ==
  [][\A l \in DOMAIN disk["source"] :
       disk["source"][l] = Final => disk["source"]'[l] = Final]_vars

\* "A still-forming bucket is never published."
OnlyClosedBuckets ==
  \A b \in DOMAIN disk["derived"] :
    \A l \in DOMAIN disk["derived"][b] : disk["derived"][b][l] = Final

\* A source whose history now begins earlier than the derived bars do is derived
\* again, or "the derived frame would keep a hole no later cycle could fill":
\* what a derive has just written leaves no earlier bucket stale.
DeriveCatchesUp ==
  \A p \in Procs :
    pc[p] = "written" /\ pair[p] = "derived" =>
      \A b \in DOMAIN disk["derived"] :
        b < LastLabel(disk["derived"]) => DerivedOf(b) = SourceNow(b)
=============================================================================
