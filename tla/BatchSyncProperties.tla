------------------------ MODULE BatchSyncProperties ------------------------
(* What must hold of the syncs' calls, whatever the venue answers. *)
EXTENDS BatchSync

Unbroken(s) == \A b \in venue[s] : (\E a, c \in held[s] : a <= b /\ b <= c) => b \in held[s]

\* A symbol's cache is written only with all the venue has of the window its
\* request asked for: the rows of every page, and none of a request that
\* stopped before its last page (fetch_bars_multi returns after all pages,
\* _commit_batch writes after it returns).
WritesAreWhole ==
  [][\A s \in Symbols :
       held'[s] # held[s] =>
         held'[s] = held[s] \cup (venue[s] \cap (Head(queue).from..call.end))]_syncVars

\* A sync opens a hole in a cache, which no later incremental sync would
\* fill, only when its window does not touch what is cached: a full one
\* begins past the cache's end, or a full or backfilling one ends before its
\* beginning.  The shared start of the warm symbols, an interrupted batch and
\* a retried one never do (the window fetch_incremental and
\* fetch_incremental_multi choose).
HolesNeedADetachedWindow ==
  [][\A s \in Symbols :
       Unbroken(s) /\ ~Unbroken(s)' =>
         /\ s \in call.wanted
         /\ \/ call.full /\ call.start > Latest(held[s])
            \/ call.end < Earliest(held[s])]_syncVars

\* A call that returned left every symbol it was asked for with every bar the
\* venue had of the window, the symbols an earlier call failed on included,
\* unless a detached window had broken its cache before; no symbol is dropped
\* on the way to a request, a chunk or a commit.
ReturnedIsCurrent ==
  outcome = "returned" =>
    \A s \in call.wanted : Unbroken(s) => venue[s] \cap (call.start..call.end) \subseteq held[s]

\* Every call ends, whatever the limiter and the tokens do: a single-symbol
\* fetch alone can page for ever, and only behind a venue that gave it a
\* token twice (fetch_bars trusts next_page_token).
CallsEnd == (pc # "idle") ~> (pc = "idle" \/ (call.mode = "single" /\ got.again))
=============================================================================
