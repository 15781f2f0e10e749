-------------------------- MODULE ReplayProperties --------------------------
(***************************************************************************)
(* What makes a replay's account and event stream correct, stated over     *)
(* module Replay.                                                          *)
(***************************************************************************)
EXTENDS Replay

\* The shape of every variable.
TypeOK ==
  /\ settled \in Int
  /\ credits \subseteq Credits
  /\ positions \in [Keys -> Positions \cup {None}]
  /\ reserved \in [Keys -> Proposals \cup {None}]
  /\ trades \subseteq Trades
  /\ rejections \subseteq Rejections
  /\ tradeOrdinal \in Nat
  /\ rejectionOrdinal \in Nat
  /\ phase \in Phases
  /\ now \in 1..NTest
  /\ bars \in [Symbols -> Bars]
  /\ visit \subseteq Keys
  /\ frozen \in Int
  /\ pending \in [Keys -> Intents \cup {None}]
  /\ signalOrdinal \in Nat
  /\ marks \in Seq(Nat \X Int)
  /\ refusal \in Refusals

-----------------------------------------------------------------------------
(* Signals. *)

PendingOrdinals  == {pending[k].ordinal : k \in PendingKeys}
ReservedOrdinals == {reserved[k].intent.ordinal : k \in ReservedKeys}
HeldOrdinals     == {positions[k].intent.ordinal : k \in HeldKeys}
TradedOrdinals   == {t.position.intent.ordinal : t \in trades}
RejectedOrdinals == {r.intent.ordinal : r \in rejections}

\* An intent is eligible at exactly one open and never outlives it: from the
\* fills of an interval to its close nothing an earlier close decided is still
\* seated, and what is seated before them is eligible at this very open.
SeatedIsFresh ==
  \A k \in PendingKeys :
    /\ phase \in {"settle", "freeze", "gap"} =>
         pending[k].eligible = OpenTs[now] /\ pending[k].ts = CloseTs[now - 1]
    /\ phase \in {"fund", "fill"} => k \in visit
    /\ phase \in {"protect", "observe", "manage"} => FALSE
    /\ phase \in {"evaluate", "mark", "expire"} => pending[k].ts = CloseTs[now]

\* Every signal a strategy ever emitted is in exactly one place: seated,
\* holding cash, open, traded or rejected.  None is lost between two steps of
\* the chronology (_fund, _record_signal, _close_window) and none is told twice;
\* and a seated one is fresh, so that its seat is never held to the window's end.
SignalsAccounted ==
  /\ PendingOrdinals \cup ReservedOrdinals \cup HeldOrdinals
       \cup TradedOrdinals \cup RejectedOrdinals = 0..(signalOrdinal - 1)
  /\ PendingOrdinals \cap
       (ReservedOrdinals \cup HeldOrdinals \cup TradedOrdinals \cup RejectedOrdinals) = {}
  /\ ReservedOrdinals \cap (HeldOrdinals \cup TradedOrdinals \cup RejectedOrdinals) = {}
  /\ HeldOrdinals \cap (TradedOrdinals \cup RejectedOrdinals) = {}
  /\ TradedOrdinals \cap RejectedOrdinals = {}
  /\ \A r1, r2 \in rejections : r1.intent.ordinal = r2.intent.ordinal => r1 = r2
  /\ \A t1, t2 \in trades : t1.position.intent.ordinal = t2.position.intent.ordinal => t1 = t2
  /\ SeatedIsFresh

\* Only the final close's signals can meet the end of the window, and the
\* account refuses an occupied key only at the deciding close, never at the
\* open: by then a seated intent's key is free.
RefusalsAreTimely ==
  \A r \in rejections :
    /\ r.reason = "window_ended" => r.intent.ts = TestEnd
    /\ r.reason \in {"position_occupied", "pending_intent_occupied"} => r.ts = r.intent.ts
    /\ r.reason \in {"invalid_protective_geometry", "zero_quantity", "portfolio_capacity",
                     "unsettled_cash"} => r.ts = r.intent.eligible

\* The signals of a replay live the abstract life: the chronology seats a
\* signal only on a free key, fills only inside the capacity, and never fills a
\* key that already holds a position.  A reservation holds its slot already.
Lifecycle == INSTANCE SignalLifecycle WITH
  born    <- signalOrdinal,
  seat    <- [k \in Keys |-> IF pending[k] = None THEN None ELSE pending[k].ordinal],
  slot    <- [k \in Keys |-> IF positions[k] # None THEN positions[k].intent.ordinal
                             ELSE IF reserved[k] # None THEN reserved[k].intent.ordinal
                             ELSE None],
  traded  <- TradedOrdinals,
  refused <- RejectedOrdinals

ImplementsLifecycle == Lifecycle!Spec

-----------------------------------------------------------------------------
(* Cash. *)

EntryCost(p) == p.qty * p.entry + p.fee

\* What each key has drawn from settled cash: its reservation, then its entry.
CommittedAt(k) ==
  (IF positions[k] # None THEN EntryCost(positions[k]) ELSE 0)
    + (IF reserved[k] # None THEN reserved[k].required ELSE 0)

CommittedCash == SumFunction([k \in Keys |-> CommittedAt(k)])

\* No cent is made or lost: settled and unsettled cash plus what the open
\* positions cost is the starting equity plus every trade's net result.
CashConserved ==
  settled + Unsettled + CommittedCash
    = StartingEquity + SumFunction([t \in trades |-> t.net])

\* The session today's events belong to, before its settlement has run.
SettledThrough ==
  IF phase = "settle" /\ now > 1 THEN DateOf(OpenTs[now - 1])
  ELSE IF phase \in {"anchor", "settle"} THEN 0
  ELSE DateOf(OpenTs[now])

\* What a trade has done to settled cash: its cost left at the fill, and its
\* proceeds are back only from a later session on.
SettledEffect(t) ==
  IF DateOf(t.exitTs) < SettledThrough THEN t.net ELSE - EntryCost(t.position)

\* T+1 from the trades alone: the cash a fill can spend holds the proceeds of
\* exactly the closes of earlier sessions, recomputed without the credit list.
SettledIsTPlusOne ==
  settled + CommittedCash
    = StartingEquity + SumFunction([t \in trades |-> SettledEffect(t)])

\* A position that leaves at the price the account is marked at leaves the
\* account's equity where it was: the slippage and fees the mark assumed are
\* the ones the close charges (_liquidation_value against close).
LiquidationIsMarked ==
  [][ /\ phase = "gap" => Equity(OpenPrices)' = Equity(OpenPrices)
      /\ phase \in {"manage", "liquidate"} => Equity(ClosePrices)' = Equity(ClosePrices)
    ]_vars

\* No snapshot ever meets an unsettled due credit or a dangling reservation:
\* the order of settling, reserving and marking is the caller's to get right
\* (the comments of snapshot), and run() gets it right.
CallerKeepsOrder == refusal \notin {"reservation_outstanding", "settlement_not_applied"}

\* An account of longs whose levels stay above the slippage never refuses a
\* mark or a fill: the replay reaches its end.
ReplayNeverAborts == phase # "aborted"

\* What every LedgerSnapshot asserts of the account it marks.
SettledNonnegative == phase \in {"freeze", "mark", "final"} => settled >= 0

\* A capacity refusal is final for its open: no later candidate in funding
\* order is filled at the open an earlier one was refused a slot at.
Fills == {positions[k] : k \in HeldKeys} \cup {t.position : t \in trades}

CapacityIsInOrder ==
  \A r \in rejections, p \in Fills :
    r.reason = "portfolio_capacity" /\ p.entryTs = r.ts => IntentBefore(p.intent, r.intent)

-----------------------------------------------------------------------------
(* Protection. *)

\* A gap reason cannot reach step 7 (the docstring of _protect): after the
\* fills every open price lies strictly inside the live levels.
NoGapAtProtect ==
  phase = "protect" =>
    \A k \in visit : ProtectiveExit(positions[k], BarOf(k)).reason \notin GapReasons

\* What a trade paid at its exit, before slippage.
RawExit(t) == IF t.position.intent.dir = "long" THEN t.exit + Slip ELSE t.exit - Slip

\* A trade's excursion covers the price it left at, whichever step closed it.
ExcursionCoversExit ==
  \A t \in trades : t.position.lowest <= RawExit(t) /\ RawExit(t) <= t.position.highest

-----------------------------------------------------------------------------
(* Progress. *)

\* Every signal comes to its end, as a trade or as a rejection, unless the
\* whole replay is abandoned: nothing crosses the reporting window.
EverySignalResolves ==
  \A o \in 0..(MaxSignals - 1) :
    o < signalOrdinal ~> (o \in TradedOrdinals \cup RejectedOrdinals \/ phase = "aborted")
=============================================================================
