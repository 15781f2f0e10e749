----------------------------- MODULE BatchSync -----------------------------
(***************************************************************************)
(* A sync that fetches from the provider and commits to the cache:         *)
(* fetch_incremental_multi and _commit_batch, fetch_incremental            *)
(* (data/sync.py), and under them AlpacaProvider's paginated fetches and   *)
(* its retries (data/alpaca.py).                                           *)
(*                                                                         *)
(* Symbols are numbers, in the order the venue lists them, and a bar is    *)
(* the number of its period.  A call is made of logical requests, a        *)
(* request of pages, and a page of attempts; nothing of a request is       *)
(* written before its last page is in.                                     *)
(***************************************************************************)
EXTENDS Absent, Selection, Naturals, FiniteSets, Sequences, SequencesExt

CONSTANTS
  Symbols,       \* the venue's symbols, numbered
  Liquid,        \* those that trade in every period
  Lists,         \* the symbol lists callers hand over, as their spellings
  Upper,         \* what each spelling names, upper-cased; None for an empty one
  Horizon,       \* bound: the last period
  MaxSymbols,    \* max_symbols_per_request
  PageSize,      \* rows the venue puts on a page
  Max429Retries  \* _MAX_429_RETRIES

VARIABLES
  clock,    \* the last period the venue knows
  venue,    \* the bars it has of each symbol
  held,     \* the bars the cache holds of each symbol
  call,     \* the call in progress, or the last one if it returned
  queue,    \* its logical requests still to complete, the first in progress
  got,      \* what the request in progress has staged
  pc,       \* idle, get or commit
  outcome   \* how the last call ended

syncVars == <<clock, venue, held, call, queue, got, pc, outcome>>

Periods == 1..Horizon

ASSUME SyncAssumption ==
  /\ IsFiniteSet(Symbols) /\ Symbols \subseteq Nat /\ Liquid \subseteq Symbols
  /\ \A list \in Lists : list \in Seq(DOMAIN Upper)
  /\ \A name \in DOMAIN Upper : Upper[name] \in Symbols \cup {None}
  /\ {Horizon, MaxSymbols, PageSize} \subseteq Nat \ {0} /\ Max429Retries \in Nat
  /\ None \notin Nat

Earliest(bars) == CHOOSE b \in bars : \A c \in bars : b <= c
Latest(bars) == CHOOSE b \in bars : \A c \in bars : c <= b

\* The distinct non-empty names of a list, upper-cased, in their order.
Wanted(list) ==
  LET names == [i \in DOMAIN list |-> Upper[list[i]]]
  IN Kept(names, {i \in DOMAIN names : names[i] # None /\ \A j \in 1..i - 1 : names[j] # names[i]})

\* A cached span that begins at or before the start asked for.
IsWarm(s, start) == held[s] # {} /\ start >= Earliest(held[s])

\* Mutant: a last chunk of fewer symbols is not asked for.
FullChunks(group) == Len(group) \div MaxSymbols

\* One logical request after another for a group, MaxSymbols to a request.
ChunkCount(group) == (Len(group) + MaxSymbols - 1) \div MaxSymbols
Chunks(from, group) ==
  [i \in 1..ChunkCount(group) |->
     [from |-> from,
      symbols |-> SubSeq(group, (i - 1) * MaxSymbols + 1,
                         IF i * MaxSymbols < Len(group) THEN i * MaxSymbols ELSE Len(group))]]

\* Mutant: the warm symbols share the latest of their last bars.
LatestStart(warm) == Latest({Latest(held[s]) : s \in ToSet(warm)})

\* The warm symbols share the earliest of their last bars, the cold ones the
\* start of the call.
SharedStart(warm) == Earliest({Latest(held[s]) : s \in ToSet(warm)})
Batches(wanted, start, full) ==
  LET resumable == {i \in DOMAIN wanted : ~full /\ IsWarm(wanted[i], start)}
      warm == Kept(wanted, resumable)
      cold == Kept(wanted, DOMAIN wanted \ resumable)
  IN (IF warm = <<>> THEN <<>> ELSE Chunks(SharedStart(warm), warm))
     \o Chunks(start, cold)

\* The single-symbol sync resumes from the last cached bar.
Resumed(s, start, full) ==
  <<[from |-> IF ~full /\ IsWarm(s, start) THEN Latest(held[s]) ELSE start, symbols |-> <<s>>]>>

Nothing == [token |-> 1, attempt |-> 0, seen |-> {}, rows |-> {}, present |-> {},
            todo |-> <<>>, again |-> FALSE]
NoCall == [mode |-> "multi", wanted |-> {}, start |-> 1, end |-> 1, full |-> FALSE]

-----------------------------------------------------------------------------
(* The venue (external). *)

\* A period ends; a symbol that did not trade has no bar of it.  A period that
\* ends during a call lies beyond the call's end, so it can as well end
\* before the next one.
Tick ==
  /\ clock < Horizon /\ pc = "idle"
  /\ clock' = clock + 1
  /\ \E traded \in {Liquid \cup quiet : quiet \in SUBSET (Symbols \ Liquid)} :
       venue' = [s \in Symbols |-> venue[s] \cup IF s \in traded THEN {clock + 1} ELSE {}]
  /\ UNCHANGED <<held, call, queue, got, pc, outcome>>

\* The rows that answer the request in progress, in the venue's order, and
\* those of the page a token stands for.
Matching ==
  {row \in ToSet(Head(queue).symbols) \X (Head(queue).from..call.end) : row[2] \in venue[row[1]]}
Before(q, r) == q[1] < r[1] \/ (q[1] = r[1] /\ q[2] < r[2])
Page(token) ==
  LET matching == Matching IN
  {r \in matching : Cardinality({q \in matching : Before(q, r)}) \in
                    (token - 1) * PageSize .. token * PageSize - 1}
NextToken(token) == IF Cardinality(Matching) > token * PageSize THEN token + 1 ELSE None

-----------------------------------------------------------------------------
(* The call. *)

Call(mode, list, start, end, full) ==
  LET wanted == Wanted(list)
      todo == IF mode = "single" THEN Resumed(Head(wanted), start, full)
              ELSE Batches(wanted, start, full)
  IN /\ pc = "idle"
     /\ start <= end /\ end <= clock
     /\ mode = "single" => Len(wanted) = 1
     /\ call' = [mode |-> mode, wanted |-> ToSet(wanted), start |-> start, end |-> end, full |-> full]
     /\ queue' = todo
     /\ got' = Nothing
     /\ IF todo = <<>> THEN pc' = "idle" /\ outcome' = "returned"
                       ELSE pc' = "get" /\ outcome' = "running"
     /\ UNCHANGED <<clock, venue, held>>

\* An exception leaves the call: what was staged is lost, what was committed
\* stays.
Fail ==
  /\ pc' = "idle" /\ outcome' = "failed"
  /\ call' = NoCall /\ queue' = <<>> /\ got' = Nothing
  /\ UNCHANGED <<clock, venue, held>>

\* A 429: slept through, but for the last one.
Limited ==
  /\ pc = "get"
  /\ IF got.attempt = Max429Retries
     THEN Fail
     ELSE /\ got' = [got EXCEPT !.attempt = @ + 1]
          /\ UNCHANGED <<clock, venue, held, call, queue, pc, outcome>>

\* No credentials, no answer in time, another error status, or a payload one
\* of the shape checks refuses.
Broken == pc = "get" /\ Fail

\* Mutant: a page replaces what is staged.
StagedAnew(page, named) ==
  [got EXCEPT !.rows = page, !.present = @ \cup {row[1] : row \in page} \cup named, !.attempt = 0]

\* A page's rows and names, beside those of the pages before it.
Staged(page, named) ==
  [got EXCEPT !.rows = @ \cup page, !.present = @ \cup {row[1] : row \in page} \cup named,
              !.attempt = 0]

\* Mutant: no fetch looks at the tokens it has seen.
Unrepeated(next) == FALSE

\* The multi-symbol fetch refuses a repeated token, the single one trusts it.
Repeated(next) == next \in got.seen /\ call.mode = "multi"

\* A page, with the symbols it names besides those it has rows for, the rows
\* of symbols nobody asked for, and the venue's next token: its own, or one
\* it has given before.  Rows and names outside the request are skipped.
Answer(named, stray, next) ==
  LET asked == ToSet(Head(queue).symbols)
      staged == Staged({row \in Page(got.token) \cup stray : row[1] \in asked}, named \cap asked)
  IN /\ pc = "get"
     /\ IF next = None
        THEN /\ got' = [staged EXCEPT !.todo = Head(queue).symbols, !.token = 1, !.seen = {}]
             /\ pc' = "commit"
             /\ UNCHANGED <<clock, venue, held, call, queue, outcome>>
        ELSE IF Repeated(next)
        THEN Fail
        ELSE /\ got' = [staged EXCEPT !.token = next, !.seen = @ \cup {next},
                                      !.again = @ \/ next \in got.seen]
             /\ UNCHANGED <<clock, venue, held, call, queue, pc, outcome>>

\* Every symbol of the batch must have been named by some page; then each one
\* with rows is upserted under its pair's lock, in the order of the request.
Omitted == call.mode = "multi" /\ ToSet(Head(queue).symbols) \ got.present # {}
RowsOf(s) == {b \in Periods : <<s, b>> \in got.rows}
Commit ==
  LET s == Head(got.todo) IN
  /\ pc = "commit" /\ ~Omitted
  /\ held' = [held EXCEPT ![s] = @ \cup RowsOf(s)]
  /\ IF Len(got.todo) > 1
     THEN got' = [got EXCEPT !.todo = Tail(@)] /\ UNCHANGED <<queue, pc, outcome>>
     ELSE /\ got' = Nothing
          /\ queue' = Tail(queue)
          /\ IF Len(queue) > 1 THEN pc' = "get" /\ UNCHANGED outcome
                               ELSE pc' = "idle" /\ outcome' = "returned"
  /\ UNCHANGED <<clock, venue, call>>

\* A symbol nobody named, rows validate_bars refuses, or an upsert that times
\* out on its lock or cannot write.
CommitFails == pc = "commit" /\ Fail

-----------------------------------------------------------------------------
SyncInit ==
  /\ clock = 1
  /\ venue = [s \in Symbols |-> IF s \in Liquid THEN {1} ELSE {}]
  /\ held = [s \in Symbols |-> {}]
  /\ call = NoCall /\ queue = <<>> /\ got = Nothing
  /\ pc = "idle" /\ outcome = "returned"

\* The symbols a page may be the first to name, and the stray rows it may carry.
Named == SUBSET (ToSet(Head(queue).symbols) \ got.present)
Stray == {{}, (Symbols \ ToSet(Head(queue).symbols)) \X {call.end}}

Step ==
  \/ Limited
  \/ Broken
  \/ /\ pc = "get"
     /\ \E named \in Named, stray \in Stray, next \in {NextToken(got.token)} \cup got.seen :
          Answer(named, stray, next)
  \/ Commit
  \/ CommitFails

Start ==
  \E mode \in {"single", "multi"}, list \in Lists, start, end \in Periods, full \in BOOLEAN :
    Call(mode, list, start, end, full)

SyncNext == Tick \/ Start \/ Step

SyncSpec == SyncInit /\ [][SyncNext]_syncVars

\* A call runs on its caller's thread until it returns or raises, the
\* client's timeout bounds every answer, and the limiter's sleeps end.
FairSpec == SyncSpec /\ WF_syncVars(Step)
=============================================================================
