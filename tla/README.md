# Nakagai in TLA+

Nakagai replays trading strategies over historical bars against one cash account, and keeps the
bars in a local parquet cache that several processes share. This directory holds TLA+ models of
the parts of it where *order* matters, the TLC configurations that check them on small instances,
and theorems about them that TLAPS checks for every instance.

Run inside this directory:

    tlasany M.tla                              parse a module
    tlc -workers 2 -config X.cfg M             model-check (runs are listed below)
    tlapm M.tla                                check the proofs of a module

## 1. Inventory of the system

Source paths are below `src/nakagai/`.

### Replay: one account, one chronology

| Component | State it keeps | Operations | Correct when |
|---|---|---|---|
| **Cash account ledger** `engine/portfolio.py` | settled cash, T+1 credits, open positions, one reservation per key, trades, rejections, ordinals | `settle_due propose reserve open observe adjust close reject snapshot` | cash is conserved through every outcome, sale proceeds are spendable on the next scheduled session and not before, slots are never oversold, one position per play and symbol |
| **Replay chronology** `engine/execution.py` | the interval, the signals waiting for the next open, marks, per-key runtimes | the steps of `run()`, numbered there 1 to 12, then `_close_window()` | every signal comes to exactly one end, fills use the next open only, an exit never sees a price after itself, marks come once per instant |
| **Contract types** `engine/portfolio_types.py` | immutable values | validation, `brackets_protectively`, `FeeSpec.charge` | a malformed request is refused before it runs; a finished result is never refused by its own types |
| **Strategy boundary** `strategies/base.py`, `strategies/risk.py` | runtime state a strategy hands back | `call_on_bar`, `call_manage`, `strategy_operation`, `_validated_signal`, `validate_management_decision` | a stop only tightens, a bracket brackets the close, the rules the repository ships are never refused |
| **Exchange schedule** `engine/schedule.py` | sorted sessions and close instants | `validate_schedule`, lookups by position | ordered, unique, nothing overlaps; every position counted in it finds its row |
| **Contexts** `engine/context.py`, `strategies/util.py` | visible prefixes of the prepared frames | availability, freshness; with a schedule, and from labels for the live scanner | no bar is readable before its close; a play decides where it is graded; both doors show the same |
| **Bars, replay entry** `engine/bars.py`, `engine/replay.py` | the prepared frames | the doors of `_replay`: request, schedule, registry, bars | what passed can be read by position, without a label compared again |
| **Benchmark, metrics, statistics, IC** `engine/benchmark.py`, `metrics.py`, `ic.py`, `stats.py` | none | projections of a finished replay | they align with the marks; slices sum to the portfolio |
| **Registry** `engine/registry.py` | the definition graph | member walk, cycle search, closure of reads, runtimes | a frozen bundle is closed and acyclic; a runtime reads nothing undeclared |
| **Identities** `engine/canonical.py` | none | digests | |
| **Windows** `engine/windows.py` | none | walk-forward folds | train never overlaps test |

`run()` drives everything. At each regular open it settles cash, freezes equity, leaves positions
that gapped, funds waiting signals in canonical order, then at the close protects, observes,
manages, marks, and asks each strategy for a signal that will wait for the next open. The ledger
does not choose an order: it *refuses* (`LedgerError`) a caller that breaks one, and the whole
replay is then lost. The hard behaviour is the ordering: which of twelve steps sees which state.

### Data: one cache, several processes

| Component | State it keeps | Operations | Correct when |
|---|---|---|---|
| **Bar cache, file lock** `data/cache.py`, `filelock.py` | one parquet file and one lock file per symbol and interval | `load coverage upsert`, `file_lock` with a deadline | an upsert is atomic and loses no other writer's bars; a lock always comes back |
| **Incremental sync** `data/sync.py` | none of its own; reads coverage, fetches, upserts | `fetch_incremental`, `fetch_incremental_multi`, `derive_incremental` | forming bars are replaced, history has no hole, derived bars agree with their source |
| **Resampling** `data/resample.py` | none | `resample_bars` | only covered buckets are published |
| **Provider** `data/alpaca.py` | pace of the last call | paginated HTTP with 429 retries | a request is whole or nothing; retries and pages end |

Sync reads the cache *before* it fetches, and takes the lock only inside `upsert`. Everything read
before the lock may be stale when it is used. Any process may fail, time out or die at any step.

### Strategies, screens, model calls

| Component | State it keeps | Correct when |
|---|---|---|
| **Composite strategies** `strategies/composite/` | newest vote per side and member, last evaluation per side | a setup fires once, on the edge, and on live votes only |
| **Rule strategies** `strategies/rules/strategy.py` | a ratchet per position | the stop is the tightest level its life called for |
| **Rule verification** `strategies/rules/verify.py` | verdict per term | CHECKED is proof that no probed row reads a later one |
| **Grammar, evaluator, Pine** `strategies/rules/` | none | pure evaluation of a grammar over floats |
| **Catalog, ICT, indicators** `strategies/` | none | numerical |
| **Screens** `screen/` | what a run has synced so far | a row written without bars is the row any bars would give; a stale one says so |
| **Model compilers** `nlbuilder/`, `screen/compiler.py`, `model.py` | attempts, billing evidence | bounded retries; the bill a result reports is the provider's, or says it is not known |

`PROJECT.json` lists each with its status; the hazards there are the behaviours a test would
hardly reach, each at its line with the properties that watch it.

## 2. Modules and the code they model

    SignalLifecycle   promise: what becomes of a signal        AtomicStore   promise: a keyed store
            ^ implemented by                                          ^ implemented by
    Ledger <- Replay <- ReplayProperties <- Results <- MCReplay   Frames <- BarCache <- BarCacheProperties <- MCBarCache
                              ^                                                           ^
               FiniteLemmas <- ReplayProofs <- ResultProofs                      BarCacheProofs

    Confluence   promise: which setups votes call for
            ^ implemented by
    VoteTrees, Contexts <- Composite <- CompositeProperties <- MCComposite
                                                ^
                                         CompositeProofs

    Absent <- Compile, BatchSync, TermGate, Boundary, Preflight, RankLens, Screen   None and NaN, the values that are none
    Selection <- BatchSync, Preflight, RankLens, Registry, Screen           what is selected of a sequence, and a sort

    BatchSync <- BatchSyncProperties <- BatchSyncProofs
    Preflight <- LiveDoor <- PreflightProperties <--+- RequestProofs
    RankLens  <- RankLensProperties              <--'
    Compile   <- CompileProperties   <--.
    TermGate  <- TermGateProperties  <--+- RuleProofs
    Boundary  <- BoundaryProperties  <--|
    Registry  <- RegistryProperties  <--|
    Screen    <- ScreenProperties    <--'

`MCServices` extends all eight properties modules, so that its run and their theorems speak
of one definition (`MCPreflight` has the calendar). Modules extended together name their specifications
apart: `SyncSpec`, `GateSpec`, `BoundarySpec`, `DoorsSpec`, `LensSpec`, `RegistrySpec`, `ScreenSpec`. Every proof
module uses `FiniteLemmas`.

### Ledger and Replay

`Ledger` holds `_Ledger`'s attributes as variables and one operator per method. `_record_trade` and
`_record_rejection` become sets `trades` and `rejections`. `Replay` composes it with the
chronology: `phase` is the position inside `run()`, `visit` the keys a loop of a step has still
to visit, and each action is one whole iteration of such a loop.

| `run()` | Phase | Action |
|---|---|---|
| opening anchor | `anchor` | `OpeningMark` |
| 1 settle | `settle` | `SettleAtOpen` |
| 2 freeze equity and bars | `freeze` | `Freeze` |
| 3 gap exits | `gap` | `GapExit` |
| 4-6 reserve, fill | `fund`, `fill` | `Fund`, `Fill` |
| 7 protect | `protect` | `Protect` |
| 8 observe | `observe` | `ObserveSurvivors` |
| 9 manage | `manage` | `Manage` |
| 10 close mark | `mark` | `CloseMark` |
| 11-12 evaluate, record | `evaluate` | `RecordSignal`, `Evaluated` |
| window end | `expire`, `liquidate`, `final` | `Expire`, `Liquidate`, `FinalMark` |
| an exception leaves `run()` | `aborted` | `AbortAtMark`, `AbortAtFill` |

Time is an integer; `ts \div TicksPerDay` is the exchange date of `tz_convert().date()`. The test
window is `OpenTs[1]` to `CloseTs[NTest]`; intervals after `NTest` are the IC tail, whose first
open a last signal may already name.

What is abstracted: money is an integer and the basis-point part of slippage is left out (the
fixed part remains, with its direction); fees keep their per-fill and per-share parts. The
bars of an interval are any member of `Bars`, chosen when they are read; a strategy answers with
any member of `SignalShapes` or `Decisions` the boundary accepts. Refused outputs abort
before anything changes; they are module `Boundary`'s. An interval closes on the exchange date of its own
session (part of `ScheduleAssumption`). `MaxSignals` bounds the signals of a run. R-multiples,
identifiers and wording are left out.

`Results` is `_finalize_result` over what a finished replay leaves: the curve on the scheduled
instants, cohorts, slices, drawdowns, daily returns (`Cohort`, `Slice`, `Drawdown`, `DailyReturn`),
and every check that may still refuse it, in order (`FinalizeRefusal`). Ratios stay pairs of
integers. The basket's value and the pooled moments of sixty sessions are left out.

### BarCache

`Frames` is the algebra of a parquet frame: labels to bars, merged with the newer copy
winning. `BarCache` holds each pair's file and lock, and for each process its
place in the code and its locals.

| Code | Action |
|---|---|
| `fetch_incremental`: coverage and start | `PlanFetch` |
| provider's answer, empty ones included | `Fetch` |
| `derive_incremental`: load | `LoadSource`, then `Derive` |
| `file_lock` taken; deadline passed | `Acquire`; `TimeOut` |
| `upsert`: merge to a temporary file; `os.replace` | `WriteTmp`; `Replace` |
| leaving `file_lock` | `Release` |
| provider error, write failure, crash | `Abandon` |
| the market (external) | `Tick`, `LateArrival` |

A bar is `Forming` or `Final`. Of a batch the model follows one symbol: the batch's
common start is any point up to this symbol's last bar, which is all `ResumePoints` says. Labels
stand for period keys, so the relabelling of weeks and the daily canonicalisation are outside the
model. Windows end now, and a full sync asks from the earliest period. Outside the repository and
taken from how it is used: `os.replace` is atomic, the kernel frees a lock whose owner dies, and
the provider serves any part of what it has, late bars included.

### Contexts and Composite

`Contexts` is the schedule as a strategy meets it. A schedule carries, for each higher frame, a
set of rows (`labels`, any subset of what `validate_schedule` lets it carry) and says of each when
it is released and the one close at which it is fresh.

| Code | Definition |
|---|---|
| `_require_session_coverage`, `_require_daily_semantics` | `Schedulable` |
| `available_at`; `fresh_context_at` | `AvailableAt`; `FreshAt` |
| `visible_rows`, `_scheduled_freshness` | `Visible`, `Newest`, `Fresh` |
| the gate of `RuleStrategy.on_bar` | `Decides` |
| `_observations` of `ic.py` | `Observations` |
| the close after `now`, inside the test range | `NextClose` |

`Composite` adds `on_bar`: at each close the members that may answer vote on any subset of the
sides, the newest vote of a member replaces its last, trees are evaluated on what is live, and an
edge becomes a setup which `rr_signal` may decline. The members' rules are abstracted to a free
choice, which covers members with and without a frame. `cast`, `decided` and `setups` are history.
The trees are folded with recursive functions over numbered groups (`VoteTrees`), groups before
the groups that contain them, so that no operator is RECURSIVE. Left out: label
anchors (`:00`, Eastern midnight), which only name a row; what `ClockAssumption` adds to the code,
that sessions do not touch, holds of any exchange and is not checked by `validate_schedule`.

### Compile

One action per way a round of `compile_strategy` or `compile_screen` can go; the two loops differ
in one branch, a reply that was cut off, which is `Unreadable` for the screen compiler only.

| Code | Action |
|---|---|
| no key: an unattempted reply | `Refused` |
| the caller's callable raises | `Raised` |
| transport failure in `openrouter_complete` | `NotDelivered` |
| HTTP failure, no readable content | `Failed` |
| `not_expressible` | `Inexpressible` |
| not one JSON object; cut off | `Unreadable` |
| a spec: check, normalize, check, validate | `Answered` |

Each response is billed by `Billed` (`_add_usage` over `_billing_evidence`) before it is read, in
the same action. `meter` is the provider, which the compiler never sees: the calls that reached
it, what they cost, the tokens they used. Outside the repository and assumed of it
(`BodyAssumption`): a valid cost, prompt or output count is true. Cache counts need not be. A
caller's callable either keeps to the contract of `ModelReply` or raises. Messages and prompts are
not modelled; the validators are sets of candidates.

### BatchSync

A call of `fetch_incremental_multi` or `fetch_incremental`, its logical requests, their pages and
each page's attempts, over a venue whose symbols need not trade in every period.

| Code | Action |
|---|---|
| the call: distinct names, warm and cold, shared start, chunks | `Start` (`Call`, `Batches`) |
| a 429, slept through or raised | `Limited` |
| any other failure of an answer | `Broken` |
| a page: rows, names, next token; strangers skipped; a repeated token | `Answer` |
| `_commit_batch`: one symbol's upsert; omitted, invalid or timed out | `Commit`; `CommitFails` |
| the market (external) | `Tick` |

Pacing only spends time. What `upsert` does under its lock is `BarCache`'s. A list keeps its order
through every selection (`Kept`), as the comprehensions over `wanted` do.

### TermGate

`verify_vocabulary`, one term at a time: `Begin` (exempt, too short, not enumerable), `Verify` (one
argument set: the whole frame, then each probe row), `Conclude`, `NextTerm`. A callable is a
behaviour per argument set: the row each of its values is computed from, and what it does wrong
over the whole frame and over each prefix. `ArgSets` and `ProbeRows` are the code's enumeration.

### Screen

`RunScreen` and `RefuseNames` resolve the universe; then a symbol at a time `NextSymbol`,
`SettleByFacts` (the planner), `Sync`, `Derive`, `ReadLastRow`, and `Raise` for whatever one of them
throws; `FinishRun` orders the rows. `PlanGroup` is the planner over facts, `GroupVerdict` the evaluator
over the last row: two translations of two files, which the property compares. A term is opaque
but for the frames it reads and its last two values. Planner, evaluator and the two walks for frames
(`ReferencePairs`, `Reads`) recur through the expressions: they are recursive functions over
`Expressions`, the conditions of all screens with everything below them, and `HeightOf` says that an
expression, which is data, is of finite height. `WellFormed` is what the validator lets pass of one.

### Registry

`Freeze` (duplicates), `Walk` (members by identity), `Root` and `Search` (the colouring search with
its explicit stack), `Bind` (plays by digest), `Close` (the union of what plays declare), `Build`
(runtimes, through nested composites). Definitions are objects with a name and a digest, and two
may share both. What a play declares and what its runtime reads recur through the blocks of its params:
they are recursive functions over definition and params, and `DepthOf` says that params, which are
data, nest to a finite depth. `SortedBy` is a sort by a key no two members share.

### Preflight, LiveDoor

`ValidateRequest`, `ValidateSchedule`, `PrepareBars` are the doors of `_replay`, each with every accepting
condition of its file; a replay is refused whole, so the wording of a refusal is left out. Then
`NextClose` builds each symbol's context by position, at each close of the test range, and `Finish`
reads the lens's views. Instants are integers and the wall clock is they, shifted once
(`Change`, `Shift`). `LiveDoor` is the other door, `build_context` for a caller without a schedule:
it knows labels only. `bisect` is the library's halving, a recursive function of its two ends;
a comprehension with a condition is a selection of positions (`Kept`).

### RankLens

`_ic_map`: `Open`, `Undeclared` (an axis outside the closure refuses the replay), `Skip` (ungraded),
`Grade` (a factor's answer validated, forward returns, ranks, coefficient), `Slices`. Coefficients
are exact pairs, before the root and the rounding. A return is a fraction over a positive number, since
nothing keeps a close from being negative; a sort is told by counts (`Ascending`), which is what can be
reasoned about.

### Boundary

One position behind the strategy boundary, from the signal to the exit.

| Code | Action |
|---|---|
| `call_on_bar`: the strategy, its faults, every signal validated | `Evaluate` |
| the next open: both geometry gates, protective levels inside the bar | `Trade` (`FilledAt`, `Hit`) |
| `call_manage`: the strategy, its faults, the decision validated and applied | `Manage` |
| the window's end | `CloseWindow` |

The strategy is a rule strategy, whose conditions match when they like (`RuleSignals`,
`RuleDecision`, with `rr_signal` and `stop_target`), or any other, which returns or raises anything of
`Returns` and `Decisions`. The average true range is any of `Ranges`, also nothing and zero. A
percentage is cut to a whole number. Names, tags, symbol and confidence of a signal are one flag.

## 3. What the runs check

The modules ending in `Proofs` are never model-checked and the `MC` modules are never proved about;
both extend the same modules, so they speak of the same definitions.

| Run | Instance | Question |
|---|---|---|
| `ReplayLong` | 2 plays of 1 symbol, longs, no slot contention; sessions 1, 2, 5 (a weekend), one IC tail interval; ordinary bar, a bar through both levels, a gap down, a gap over the target; 3 signals | Is a signal ever lost, told twice or filled late? Does every signal end? Does a long whose levels exceed the slippage ever abort a replay? |
| `ReplayMixed` | 1 play of 2 symbols, one slot, shorts beside longs, `Slip` 2 against prices of 1 and 2; no tail, so the last close has no open after it; 3 signals | Is cash conserved, also by negative credits and by replays that abort? Are slots given in order? Does the replay implement the abstract lifecycle? |
| `ReplayEdge` | 1 key, 8 shapes of bar, per-share fees, four intervals over two sessions; an equity of 194, which one short's gap from 18 to 38 takes to exactly zero | Is T+1 exact? Do excursions include the exit? Does the ledger ever refuse its caller? Does a finished replay's result add up, and what may still refuse it? |
| `ReplayShortGap` | 1 short, a gap of twice the collateral, four daily sessions | expected violation, see 6 |
| `BarCacheSerial` | 1 process, 6 periods in buckets of 2, lookbacks 0, 1 and 5, late bars, failures and crashes anywhere | Is resuming at the last bar, and deriving from the last bucket, enough? |
| `BarCacheShared` | 2 processes, 3 periods | Does the locked upsert implement an atomic store? Does a lock always come back, does every sync end? |
| `BarCacheStale`, `BarCacheForming`, `BarCacheWiden` | 1 or 2 processes, 4 periods | expected violations, see 6 |
| `CompositeVotes` | 3 members on the base, hourly and daily frames, a nested tree on each side; 7 intervals over sessions 1, 2, 5: a training bar, a bar that runs late over an hour's end, an early close, an IC tail; every subset of context rows; 3 votes | Does the gate open exactly where the lens observes? Is a setup announced exactly when the history of votes completes a tree? |
| `CompositeGap` | the same | expected violation, see 6 |
| `Services` | the eight components below, one at a time | see below |

`Services` is one run over components that share no state: `task` picks one in the initial state,
and every step is a step of that one (`Only`). Its state space is the sum of theirs, not the product.
One run asks eight separate questions:

| Task | Instance | Question |
|---|---|---|
| `compile` | 3 rounds; 8 usage bodies; 5 candidates, of which the normalizer spoils one and rewrites another | Is the reported bill the provider's? Does `attempts` count the calls? Is the accepted spec valid as returned? |
| `sync` | 3 symbols, one of which may not trade; 3 periods; two symbols to a request, three rows to a page, one retry; names repeated and blank | What is in the cache after failures and retries, and does a call end? |
| `gate` | 9 terms, 23 behaviours, frames of 1, 4 and 6 rows, 2 probes to a half, at most 6 argument sets | What does a verdict prove? |
| `screen` | 3 screens, 3 symbols, a watchlist and lists beyond the cap; facts that are missing, 0 and 2; terms that are NaN in either row | When may a row be written without bars, and is a stale one told apart? |
| `registry` | 6 objects: two of one definition, a stranger of the same name, another grammar; 602 bundles; 10 requests | Is a frozen bundle closed, and a runtime inside its closure? |
| `doors` | 3 sessions of 10 intervals and 11 context rows, with an early close, an interval left out, an interval over an hour's end and a clock change; every single perturbation of a row or an interval; prints outside the sessions | Is what is read by position what was scheduled? Would labels show the same? |
| `lens` | 5 closes over 3 prices, or two symbols, one with a zero and a negative close; 4 rows; margins that tie, differ or are missing; horizons 1 and 2, 3 pairs | What does a coefficient compare? |
| `boundary` | 5 strategies, 6 bars, 4 intervals with a night, a range of nothing, 0, 1, 2 or more than the price | Which levels may a position rely on, and is a rule strategy ever refused? |

### The properties

Signals. `SignalsAccounted`: at every instant each signal ever emitted is in exactly one of five
places; what waits is eligible at the coming open and nothing outlives its open. `RefusalsAreTimely`: each reason is given at the instant it belongs to; in particular the
window's end rejects only the last close's signals. `EverySignalResolves` (liveness).
`ImplementsLifecycle`: projected on signals, a replay is a behaviour of `SignalLifecycle`, in which
a filled key was free and a slot was left. `CapacityIsInOrder`: no later candidate takes
a slot at the open where an earlier one was refused it.

Cash. `CashConserved`: settled and unsettled cash plus the cost of what is reserved or open is the
starting equity plus the trades' net results. `SettledIsTPlusOne` recomputes settled cash from the
trades alone, without the credit list. `CallerKeepsOrder`: `run()` never meets the
ledger's two ordering refusals. `LiquidationIsMarked`: leaving at the marked price does not
move equity. `ReplayNeverAborts`, checked where it is true (longs whose levels exceed the slippage).

Results. `ResultReconciles`: the lenses of a reported result, which never read each other, add up;
a gain of the curve is the trades' net, slices and directions sum to the whole, daily returns chain
start to end. `ResultNeverRefused`: what the chronology finished is refused for one reason only, an
account at zero or below before the last session, which `metrics.py:511` calls reachable.

Bars. `NoGapAtProtect` is what the docstring of `_protect` claims and its code relies on.
`ExcursionCoversExit` is what metrics rely on; `ResultNeverRefused` includes that marks follow the
schedule.

Cache. `ImplementsStore` says each upsert takes effect at one instant on what the pair
holds *then*, or not at all. `LockHasAWriter`, `SyncEnds`. For one process,
`OnlyLastIsForming`, `NoHole` and `InnerBucketsCurrent` say that the three incremental shortcuts
lose nothing. Bars served late are excluded from the last two: the code cannot know of them.

Composites. `DecidedIsObserved`: the rows and closes at which plays decide are those the
information coefficient grades them on, computed in another module from another reading of the
schedule; only a frame's first row is decided by nobody, since `on_bar` wants two. It would fail
if a row could be released late enough to hide a fresh one, or a fresh one not yet be readable.
`ImplementsConfluence`: with one vote kept per member and one flag per side, the composite
announces what the *whole* history of votes calls for, also after `rr_signal` declined.

Syncs. `WritesAreWhole`: a symbol is written with all the venue has of its request's window or not at
all. `HolesNeedADetachedWindow`: shared starts, interrupted batches and retries open no hole; a full
sync past the cache's end, or a window that ends before its beginning, may. `ReturnedIsCurrent`: a
call that returned left nothing out. `CallsEnd` (liveness): except behind a token a single fetch was
given twice, which it trusts.

Verdicts and screens. `CheckedIsCausal` states the argument sets and the rows a CHECKED term was
compared on without the code's enumeration; `VerdictIsDeserved` the reverse. `SettledAsEvaluated`
compares planner and evaluator under every reading, but for `NegatedQuotient` (section 6).
`StaleRowsSaySo` follows each frame a row was read from back to a refresh in the same turn.

Registry and doors. `FrozenIsClosed` states what is reached, by objects and by names, as least sets, without a walk.
`RuntimeStaysInClosure`: frames and grammars of every runtime built, at any depth.
`ReadsAreScheduled`: after the doors, every row read has the label, the bar and the closed intervals
the schedule says. `LiveDoorAgrees`: the labels alone give the same rows and the same gate, but where
the newest bucket spans a clock change (`fresh_bar` says so) or a day is not listed at all.

Lens and boundary. `EstimatesCompare` tells a rank coefficient as the agreement of pairs, without
ranks. `ManagedWithinLevels`: a survivor stands strictly between its levels, a stop never loosens, a
rule strategy is never refused, and its stop is the tightest level the closes of its life called for.

Compilers. `BillIsSound`, `AttemptsAreCalls`, `ResultIsUsable` compare the result with the
provider's meter and the two validators after any sequence of rounds.

Each property has a mutant of the code that violates it, named in `PROJECT.json` and kept next to
the definition it would replace.

### Bounds, and why they are enough

The replay's steps look one interval back (an intent) and one session back (a credit), at
most two keys compete for one thing, and no step compares more than two prices of a bar. Three
or four intervals with a same-session boundary and a session boundary, two keys, and bars for each
order of open, levels and extremes meet every case of the code; all actions and all their
disjuncts occur in the passing runs. `MaxSignals` (2 or 3) lets a signal follow the end of an
earlier one on the same key. For the cache, a hole needs three labels, a bucket between two others
six periods, and a race two processes; `BarCacheShared` has no history longer than three
because locking does not look at it. `Interchangeable` symmetry is used in `BarCacheStale`
only, where nothing is a liveness property and processes are model values.
For composites, a vote can be live, expired or replaced within three votes (`MaxCasts`), and five
closes with a gap between sessions let a window of two bars end inside a session and
across one. For a compile, evidence joins replies two at a time and the last round is the only
special one: three rounds show a first, a middle and a last. For a sync, three symbols make two
chunks, four rows two pages, and a hole needs three periods (`Horizon`). The gate treats a set, a row
and a term alone; a half longer than its probes, one as long and one empty are all there are, and
frames of 6, 4 and 1 rows are those. A cycle may pass an object of the same name, share a member and
stand beside a second root with four registered names. The doors look at one row and its neighbours, so one
perturbation at a time reaches each condition from both sides; combinations are out. A coefficient
needs one pair more than the fewest, ties on either side and a horizon beyond the series. A
position's decision depends on its levels, one close and the time since its entry; two survived
closes let a breakeven and a trailing level compete, in either order.

Deadlock is checked in every run. A finished replay or composite stutters by `Finished`, a compile
that has returned by `Returned`, the others by their `Ended`; the cache can always start another
sync, the gate take another term, and a screen that is through repeats its last sort, which
changes nothing.

### Fairness

`Replay!FairSpec` has weak fairness of `Next`: `run()` is one thread with no waiting in it, so it
takes its next step. `BarCache!FairSpec` has weak fairness of `Advance(p)`, for each process: one
that has *started* a sync goes on, since the only wait, the poll in `file_lock`, sleeps and looks
again until the deadline. Starting a sync, the market, late bars, failures and crashes are not
fair: `SyncEnds` may not rely on another process ever letting go. The deadline is `TimeOut`, always
enabled while the lock is taken. `BatchSync!FairSpec`, and `MCSpec` for the run, has weak fairness of
`Step`: a call runs on its caller's thread, every answer comes or times out, and the limiter's
sleeps are finite. Which step that is, a page, a failure, a repeated token, is the venue's choice.

## 4. What is proved

For every set of plays and symbols, every schedule, cost, capacity, bars and strategies
within the assumptions, and for every number of processes and any length of history:

| Theorem | States |
|---|---|
| `ReplayProofs!TypeCorrect` | `Spec => []TypeOK` |
| `ReplayProofs!Conservation` | `Spec => []CashConserved` |
| `ReplayProofs!Inductive` | `Spec => []IInv`, the invariant behind both |
| `ReplayProofs!OrderKept` | `Spec => []CallerKeepsOrder` |
| `ReplayProofs!SettlesTPlusOne` | `Spec => []SettledIsTPlusOne` |
| `ReplayProofs!ExitsAreMarked` | `Spec => [][...]_vars`, the step property `LiquidationIsMarked` |
| `ReplayProofs!LongsNeverAbort` | `SolventLongs => (Spec => []ReplayNeverAborts)` |
| `ResultProofs!SignalsInductive`, `NoSignalLost`, `RefusalsInTime` | `Spec => []SignalInv`, `[]SignalsAccounted`, `[]RefusalsAreTimely` |
| `ResultProofs!LifecycleImplemented` | `Spec => ImplementsLifecycle`, the refinement |
| `ResultProofs!CapacityInOrder` | `Spec => []CapacityIsInOrder` |
| `ResultProofs!NoGapReachesProtect`, `ExcursionsCovered` | `Spec => []NoGapAtProtect`, `[]ExcursionCoversExit` |
| `ResultProofs!NeverRefused`, `Reconciles` | `Spec => []ResultNeverRefused`, `[]ResultReconciles` |
| `BarCacheProofs!LocksComeBack` | `Spec => []LockHasAWriter` |
| `BarCacheProofs!StoreImplemented` | `Spec => ImplementsStore`, the refinement |
| `BarCacheProofs!OnlyLastForming`, `NoHoleLeft`, `InnerBucketsStayCurrent` | with one process, `Spec => []OnlyLastIsForming`, `[]NoHole`, `[]InnerBucketsCurrent` |
| `BatchSyncProofs!SyncInvariant` | `SyncSpec => []SyncInv`, the invariant behind the next three |
| `BatchSyncProofs!WritesWhole`, `HolesDetached` | `SyncSpec => WritesAreWhole`, `HolesNeedADetachedWindow`, two step properties |
| `BatchSyncProofs!ReturnedCurrent` | `SyncSpec => []ReturnedIsCurrent` |
| `RuleProofs!CheckedCausal`, `VerdictDeserved` | `GateSpec => []CheckedIsCausal`, `[]VerdictIsDeserved` |
| `RuleProofs!LevelsManaged` | `BoundarySpec => []ManagedWithinLevels` |
| `RuleProofs!FrozenClosed`, `RuntimeClosed` | `RegistrySpec => []FrozenIsClosed`, `[]RuntimeStaysInClosure` |
| `RuleProofs!RowsSettled`, `StaleRowsTold` | `ScreenSpec => SettledAsEvaluated`, `StaleRowsSaySo`, two step properties |
| `RequestProofs!ReadsScheduled` | `DoorsSpec => []ReadsAreScheduled` |
| `RequestProofs!EstimatesAgree` | `LensSpec => []EstimatesCompare` |
| `CompositeProofs!GateIsObservation` | `Spec => []DecidedIsObserved` |
| `CompositeProofs!ConfluenceImplemented` | `Spec => ImplementsConfluence`, the refinement |
| `RuleProofs!BillSound`, `CallsCounted`, `SpecUsable` | `Spec => []BillIsSound`, `[]AttemptsAreCalls`, `[]ResultIsUsable` |

Assumptions, each named in the module that declares its constants and evaluated by TLC on every
run: `AccountAssumption` and `NoneAssumption` (finite sets of plays and symbols, natural
costs, `None` is not a value of the types it stands beside), `ScheduleAssumption` (what `validate_schedule`
establishes), `EnvironmentAssumption` (what bar preparation and the strategy boundary
establish: positive prices, a low below a high), `CacheAssumption`, `TreeAssumption` (what
`_check_tree` admits), `ClockAssumption` and `PeriodAssumption` (ordered intervals; period ends of
one frame at least a base bar apart), `CompositeAssumption`, `BodyAssumption`, `CompileAssumption`,
`SyncAssumption` (finitely many symbols in an order, positive limits, a name's symbol or none),
`GateAssumption` (each argument of one of the kinds a schema has, at least one probe to a half) and
`BoundaryAssumption` (risk and exits as `validate_risk` and `_check_exits` admit them, positive prices,
no negative range, and whole numbers where another strategy returned numbers) and
`PreflightAssumption`: lengths in order, instants that are integers and rows of the types
`ReplaySchedule` asks for, a frame with a bar for every label, a clock that changes by less than a
bucket and no less than a base bar, away from midnight; `LensAssumption` (sequences of whole closes,
positions and horizons, and margins that have a number); `RegistryAssumption` (finitely many definitions,
names and digests in an order, params that nest to a finite depth); `ScreenAssumption` (expressions as
`_check_expr`, `_check_condition` and `_check_group` let them pass, each of a finite height, facts and terms that are numbers or none); and `SessionsApart`, that a session ends before the next
one opens. `validate_schedule` admits a session that opens at the very instant the last one ended; the
calendar every schedule's identity names, XNYS, has none. There, a daily row and the next session's first
interval would meet at one close.

**Replay.** `CashConserved` is not inductive: closing a position needs to know that its proceeds
are booked once, and filling one that its reservation is. `IInv` adds, besides types, that

  - a reservation and a position are of the key they are filed under, priced and charged as `propose`
    and `open` do it, and never both of one key (`Booked`),
  - trades carry ordinals below the counter, so a new trade and a new credit are really new and a
    sum over a *set* grows by exactly the new element (`Fresh`),
  - only the phases between `Fund` and `Fill` hold a reservation, and the keys a step has still to
    visit hold positions where the step dereferences one (`Visiting`).

`ReplayProofs` proves first each ledger operation well typed and that it preserves the
account's part, and then has one lemma per action. What is needed of sums
over sets and functions is in `FiniteLemmas`, from the definition of the community modules' fold.
The library's induction theorems take an operator as a parameter, which the provers cannot
instantiate, so the lemmas that need induction argue by a smallest counterexample instead.

Every further theorem about the replay rests on `IInv` and adds what its own property lacks:

  - *Order and settlement.* `Punctual`: once a session's settlement has run, no credit due by it
    remains, and every credit raised during it is due strictly later. `CreditsAreTrades`: the credits are
    those of the trades closed in a session not yet settled, one each; so the credit list and the
    recomputation of `SettledIsTPlusOne` from the trades take the same terms from the same sum. Both are
    where the schedule's order of sessions enters.
  - *Marks.* `LiquidationIsMarked` compares two sums over the positions. They differ in one term, and
    that term is what the exit pays out: a position's value at a price is its collateral plus what it has
    gained, for longs and shorts, whatever the fees.
  - *Solvency.* `Solvent`: nothing the account holds can take its cash below zero. Its hypothesis
    `SolventLongs` says every signal is a long whose stop, and every bar's low, is at least `Slip + FeePerFill
    + FeePerShare + 1`, so that one share sold there pays for itself. `ReplayLong` is such an
    instance; without the hypothesis the property is false, which `ReplayShortGap` shows.
  - *Signals.* `SignalInv`: a seated intent names the coming open (`SeatsAreCurrent`), the five places
    an ordinal can be in partition `0..signalOrdinal - 1` (`OnePlace`), and no two records are of one signal
    (`Distinct`). A step does one of seven things to the places (a signal is seated or refused at birth; a seat
    becomes a reservation or a rejection, a reservation a position, a position a trade; or nothing
    moves), and each maps to the step of `SignalLifecycle` of that name, or to a stutter. The lifecycle's
    guards, a free key and a slot left, come from `Visiting`.
  - *Capacity.* `CapacityInv` relates the fills and refusals of one open to the keys still to be funded:
    what was filled is before all of them in funding order, and once one was refused the slots stay full.
  - *Levels.* `LevelsHold` carries "inside the levels" from the gap exits through the fills to the
    loop of `_protect`. `Excursions`: after the bar is observed, a position has seen all of it.
  - *Refusals.* `ReportInv`: every row is, or will be, one its type accepts (`RowsAccepted`: a reservation
    is a position to come, an open position a trade to come); ordinals are the counts (`Numbered`);
    marks are the schedule's instants so far (`Marked`). What then remains is `daily_return`, after a session
    that ended at zero or below.
  - *Lenses.* `LensInv`: a trade's net is its gross less both fees (`Reckoned`); positions past and present
    have not been held longer than slots times time (`TimeKept`, which needs that slots are never
    oversold, `SlotsKept`); liquidation reaches every position at the prices of the last close mark
    (`Closing`). At the end the account is cash, so conservation *is* the first lens's claim. Slices
    and directions are one sum cut into parts (`SumByPart`, `CountByPart`), the daily returns a
    telescope (`Telescope`), and the post-close mark repeats the last.

**Cache.** `CInv` is `Shaped` (what each process's locals are at each point of its code) and
`Exclusive` (a lock belongs to the process inside the upsert, and the file merged under it is the
merge of what the pair holds *now*). `Exclusive` is what makes `Replace` map to the store's
`Commit`; every other step maps to `Ask`, `Drop` or a stutter.

The last three theorems have the hypothesis `OneWriter`, which `BarCacheSerial` satisfies and without which
`BarCacheStale` refutes the first. `SerialInv` follows a sync from its plan to its replace: a request
reaches from the last cached bar past it (`Planned`), its answer leaves out no bar served on time in
between and has none but the last forming (`Fetched`), and a derivation holds every bucket from the last
derived one on (`Deriving`). Each is about the file as it is *now*, which nobody else changes.

**Boundary.** `BInv` says that what a position holds at an open close was signalled, filled strictly inside
its levels, and is `Standing`: the close is strictly between the live levels and the stop no looser
than the signalled one. For a rule strategy it says more: its stop is the `Tightest` of the signalled
one and of every level the closes of its life called for (`CalledFor`), and no time stop is overdue. The
step that matters is that a rule's decision is never refused. `EvenFacts` shows that a breakeven stop is
behind the close it was earned at, `RatchetFacts` that a ratchet only tightens, and `RuleDecides` that
`manage` replaces the stop only when the ratchet is behind the deciding close, which is what
`validate_management_decision` asks. Nothing is assumed of any other
strategy but that its numbers are numbers: what it returns is validated or refused.

**Syncs.** `SyncInv` has three parts beside the types. `Staging`: of the request in progress, every row the
venue has behind the page's token is staged, and nothing else of the window is; hence a request at its
last page has all of them, and a commit of it is whole. `Reaching`: no request of a call leaves a piece of
a symbol's window out: it starts where the call does, past no end of a cache unless the sync is full, or
no later than the last cached bar of a symbol cached from the call's start on. `NoneDropped`: a symbol the call wants is behind it, with nothing of the
window left out, or in a request still to come. The invariant is entered at `Start`, which is where the
work is: `WantedTyped`, `SharedStartFits` and `ChunksCover` show that distinct names, warm and cold
symbols, the shared start and the chunks of a list lose no symbol and start none too late (`KeptRange`:
a selection of a list has exactly the selected values). `TouchingFills` is the argument for
`HolesDetached`: what a window brings, united with a cache it touches, has no gap the cache had not.

**Gate.** `GateInv` says of the term under test (`UnderTest`) that the sets called and the sets to come
are together the mandated ones, apart, and that none called so far is at fault; `CheckedIsCausal` and
`VerdictIsDeserved` ride along. `ArgSetsMandated` shows that the code's enumeration, defaults first and
each end of each range after, makes exactly the sets `Mandated` describes. That probes decide is about
rounding: the probes of a half are its rounded equal parts, so where a half has no more rows than probes
they are all its rows (`RoundedNear`, `SpreadCovers`, `ProbesCover`). `DifferByPeeking` shows that a
value can differ between a frame and its prefix only by reading a row the prefix lacks, and
`CauseDeserved` goes through the faults in the order the code looks for them.

**Registry.** `FreezeInv` follows the two searches. The walk: each object met has its members' names among
its edges and its members met or on the stack, each of them bound by digest; so at its end what was
met is exactly what is reached (`ReachedLeast`, `WholeGraph`). The colouring search: finished names have only
finished ones below them and are not below themselves (`FinishedInv`); and the names to be left, from the bottom of the stack
to its top, are a path, each an ancestor of all that is pushed above it (`SearchInv`). Hence a name entered
while it is on the path is below itself, which is a cycle, and an end with nothing left is the absence
of one. TLC found `FreezeInv` invariant on the instance of `Services` before it was proved.

`BuildInv` carries the closure to the runtimes. The work is that two functions recursive over params
are what their definitions say (`Recursion`: by least depth, a recursion over members of a lower rank
has a solution, so the CHOOSE behind it is one), and then, again by least depth (`AllCovered`), that where
dependencies are not refused the runtime reads a part of them in the definition's grammar, or lacks a member
only for a block whose saved configuration was never inlined.

**Screen.** Nothing is assumed of a tree but its shape and its height. The functions over expressions are
what their definitions say (`SolvedFromBelow`: a recursion that descends in height has one solution), and
what holds of an expression when it holds of all below it holds of all (`FromBelow`). Two claims go up that way:

  - `Settled`, of operands: a plan with a value has the value of the evaluated series, in both rows and
    under every reading, and a plan without one and without a term is NaN for lack of a fact. The case that
    is not routine is an extremum over known and missing facts (`MathAgrees`): both sides skip what is
    missing, one as an absent value, the other as NaN.
  - `Decided`, of what is judged: a plan's verdict is the evaluator's, or the evaluator has none
    (`Bears`), with equality where no quotient by zero lies below, and for a verdict of true where no
    negation does (`Exact`, `Affirmed`). `GroupBears` is the reduction: it is where a NaN comparison,
    false to the planner and unknown to the evaluator, is shown to be harmless except below a `not`.

For the frames, `ReadsNamed` shows that a pair the evaluator reads is either the screened symbol's in a
timeframe the screen mentions or one of the reference pairs, whatever it inherits from the terms
around it. The invariant is `ScreenInv`: its part `TurnFresh` says that behind the syncs every pair
asked for is fresh with its source, or the row carries a note.

**Doors.** `DoorsInv` says that what each door checked still stands at the doors behind it, and that the
last context is the one of the last close. The work is in what the doors' conditions come to:

  - `bisect` counts: the halving has a solution, the number of keys at most x, and only one, since a
    smallest range on which another differed would differ on one of its halves (`BisectCounts`).
  - The wall clock never goes back past a session (`Chained` lifts neighbours to all pairs), a bucket's end
    and the close it is released at are less than a base bar apart across a clock change, and a daily row
    is released and fresh by the session after it.
  - Along one frame labels and releases rise together (`RowsTurn`). So the rows visible at a close are a
    prefix, the count of releases is its length, and a frame whose index starts with the required
    labels, or was placed on them, is cut exactly there (`ReleasedFirst`, `CutPrepared`).
  - A label names one row, and its intervals are closed once it is released (`RowNamed`), whichever
    frame it is of; a fresh row is the last one visible.
  - The lens asks at the closes some row of the axis is fresh at, each once and rising; its frames are
    those of the last close.

**Lens.** Nothing is assumed of plays, factors or prices. A stable sort's positions are counted by
`Precedes`, a strict total order because the fractions compared have positive denominators
(`PrecedesOrders`, `OrderOnto`); a run of ties spans its count from the last value it beats on, so twice the average
of its ends is the number of values and one more, plus what it beats, less what beats it (`RankAverages`).
What is beaten and what beats cancel over a list (`StandingsCancel`): the mean rank is that number, a
gap is a standing, and a spread is zero exactly where nothing beats anything (`GapsStand`, `FlatRanks`).
That last is the claim in the docstring of `_rank_correlation` that two distinct ranks make its division
safe. Surviving pairs are then numbered back to their rows (`Renumbered`), and `GradesInv` says each
estimate made is of its own play symbol's closes.

**Composite.** `GateIsObservation` is about prefixes. Along one frame availability and freshness
both rise strictly with the row, and a row is fresh no earlier than it is released and less than a base bar
later; so the row fresh at a close is the newest released there. This is the argument in the
docstring of `_scheduled_freshness`, for any set of rows a schedule may carry, and it needs
`PeriodAssumption`. `ConfluenceImplemented` rests on `VotesAreNewest` (a remembered vote is the
newest of the history, so a member has a vote inside the window iff that one is) and
`FlagsAreComplete` (the flag is what the promise calls complete at the last close).

**Compile.** The invariant is `Grounded`, which holds *between* rounds: while no reply has come all
is zero, and afterwards `all_provider` means that costs sum to what was charged and
`all_rate_table` that counts sum to what was used. `ArrivedIsHonest` shows that `_billing_evidence` claims no more
than the body bears out, `BilledIsSound` that `_add_usage` preserves it.

## 5. What is only model-checked

  - liveness (`EverySignalResolves`, `SyncEnds`, `CallsEnd`): temporal reasoning under fairness, and `ENABLED`,
    are out of the prover's reach;
  - what a recursive definition computes for every input, for want of induction over data, except where
    a constant bounds the depth of the data (`DepthOf`, `HeightOf`) and least depth takes its place;
  - of `Services`: `LiveDoorAgrees` restates a whole call against a reference, over sorted sequences;
    TLC's enumeration of the calls is what stands behind it.

Every safety property, step property and refinement of the replay, the cache and its syncs, the
composites, the compiles, the causality gate, the strategy boundary, the registry, the screen, the
replay's doors and the lens is a theorem.

## 6. Where code and documentation disagree

Each is a run that TLC ends with a counterexample; `PROJECT.json` quotes the lines.

  - `ReplayShortGap`: a snapshot requires `settled_cash >= 0`, and `close()` with `settle_due` can
    make it negative when a short loses more than its collateral. A valid replay is refused at
    its next mark.
  - `BarCacheStale`: "newest copy of a duplicate ts winning" is the newest *upsert*. A fetch made
    while a bar forms and upserted last puts the forming copy back over the closed one.
  - `BarCacheForming`: "a still-forming bucket is never published" is decided from the label of the
    last source bar, which may be forming itself.
  - `CompositeGap`: "a vote cast on bar i stays live through bar i + window_bars - 1" (and "votes
    live N bars", in the text shown to the user) counts bars; the code counts wall time. A vote of
    a session's last close is dead at the next session's first.
  - `BarCacheWiden`: history widened inside the first derived bucket does not start earlier than
    that bucket's label, so it is never derived again.

Met while modelling, stated in no run, and visible in the models:

  - `arithmetic.py:1` promises one arithmetic contract. The planner settles a comparison with a
    quotient by zero as false, hence true below a `not` (`planner.py:121`), and a test says so
    (`tests/test_screen_planner.py:89`); the evaluator calls it unknown (`frame_eval.py:381`). `NegatedQuotient` is that exception.
  - The time stop is described in 15-minute bars (`rules/spec.py:1055`) and counts wall time
    (`rules/strategy.py:230`), as `TimedOut` does: a night counts.
  - A trailing level on the close itself (a range of zero) holds the old stop
    (`rules/strategy.py:263`), also when a breakeven at the same close would have raised it;
    `CalledFor` leaves such closes out.
  - The crossed-levels check of `validate_management_decision` cannot fire behind the protective
    exits: a survivor's close lies between its live levels, so what protects it on one side cannot
    cross the other.
  - The context door speaks of times inside the test range and accepts closes before it
    (`context.py:223`); the model accepts what the code accepts.
  - The live gate of a session stays open while its first driving bar is the newest
    (`util.py:104`), where `util.py:5` says once.

## 7. What is not modelled

Components with status `not_modelled` or `partly` in `PROJECT.json` say why. In short: indicators,
annualised and pooled statistics and the benchmark basket are floating-point functions of bars;
canonical serialisation and digests have no behaviour, and a digest is an opaque value wherever it
is compared; the rule grammar, its validation and its vectorised evaluator are modelled only where
a screen and a registry read their trees; Pine is a compiler into a language outside this
repository; walk-forward windows are calendar arithmetic without state. Strategy code itself is
always a free choice within what it may return.

## 8. Plan

Done: the replay and its results, the cache and its syncs, contexts behind both doors, composites,
compiles, the causality gate, screens, registry, preflight, the lens and the strategy boundary; their
runs, and the theorems above. Next, in order of what they decide:

  1. Theorems: `LiveDoorAgrees` (what is read by label is what is read by position).
  2. `Contexts` composed with `Replay`: which runtime is asked at which close, one context per key.
  3. Weeks: the relabelling of period keys in the cache and in `_resume_from`.
  4. Walk-forward windows against a reference definition, and margins of group trees
     (`margins.py`) against the verdict they grade.
