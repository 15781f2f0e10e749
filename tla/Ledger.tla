------------------------------- MODULE Ledger -------------------------------
(***************************************************************************)
(* The one cash account a replay settles through: class _Ledger of         *)
(* engine/portfolio.py.  Its state is the settled cash, the unsettled      *)
(* credits, the open positions and the outstanding reservations, together  *)
(* with the trades and rejections it has issued.  The module defines the   *)
(* account's pricing rules and one operation per method; Replay composes   *)
(* them into the chronology that drives the account.                       *)
(*                                                                         *)
(* Money and prices are integers.  Slippage is the per-share floor         *)
(* SlippageSpec.min_per_share, its basis-point term left out.  Credits,    *)
(* trades and rejections are sets: each element carries an ordinal of its  *)
(* own, so a set keeps what the code's lists keep.                         *)
(***************************************************************************)
EXTENDS Integers, FiniteSets, FiniteSetsExt

CONSTANTS
  Plays,           \* play ranks, in the request's canonical (priority, play_id) order
  Symbols,         \* symbol ranks, in uppercase order
  Priority,        \* Priority[play], what funding is ordered by first
  MaxOpen,         \* account.max_open_positions
  StartingEquity,  \* account.starting_equity
  RiskNum,         \* account.risk_pct is RiskNum / RiskDen
  RiskDen,
  Slip,            \* slippage per share
  FeePerFill,      \* FeeSpec.per_fill
  FeePerShare,     \* FeeSpec.per_share
  Sessions,        \* the exchange sessions the schedule carries
  TicksPerDay,     \* timestamps are ticks; a day is this many
  None             \* Python's None

ASSUME AccountAssumption ==
  /\ Plays \subseteq Nat /\ IsFiniteSet(Plays)
  /\ Symbols \subseteq Nat /\ IsFiniteSet(Symbols)
  /\ Priority \in [Plays -> Int]
  /\ MaxOpen \in Nat
  /\ StartingEquity \in Nat \ {0}
  /\ RiskNum \in Nat /\ RiskDen \in Nat \ {0}
  /\ Slip \in Nat /\ FeePerFill \in Nat /\ FeePerShare \in Nat
  /\ Sessions \subseteq Nat /\ IsFiniteSet(Sessions) /\ Sessions # {}
  /\ TicksPerDay \in Nat \ {0}

VARIABLES
  settled,          \* _settled
  credits,          \* _credits
  positions,        \* _positions: a position per key, or None
  reserved,         \* _reserved: a proposal per key, or None
  trades,           \* the trades close() returned
  rejections,       \* the rejections reject() returned
  tradeOrdinal,     \* _trade_ordinal
  rejectionOrdinal  \* _rejection_ordinal

ledgerVars == <<settled, credits, positions, reserved, trades, rejections,
                tradeOrdinal, rejectionOrdinal>>

Keys == Plays \X Symbols
Directions == {"long", "short"}
SymbolOf(k) == k[2]

ExitReasons == {"stop_gap", "target_gap", "stop", "target", "manage", "end_of_window"}
RejectionReasons ==
  {"invalid_protective_geometry", "zero_quantity", "position_occupied", "portfolio_capacity",
   "unsettled_cash", "pending_intent_occupied", "window_ended"}
Refusals ==  \* the account's own, raised as LedgerError
  {"none", "reservation_outstanding", "settlement_not_applied", "nonpositive_fill",
   "negative_settled_cash"}

\* The records the account keeps.
Intents ==
  [key: Keys, dir: Directions, stop: Int, target: Int,
   ordinal: Nat, ts: Nat, eligible: Nat]
Proposals ==
  [intent: Intents, rawOpen: Int, fill: Int, qty: Nat, fee: Int, required: Int]
Positions ==
  [intent: Intents, qty: Nat, entryTs: Nat, entry: Int, fee: Int, collateral: Int,
   stop: Int, target: Int, lowest: Int, highest: Int]
Trades ==
  [ordinal: Nat, position: Positions, exit: Int, exitTs: Nat, net: Int, reason: ExitReasons]
Credits == [trade: Nat, amount: Int, settles: Sessions \cup {None}]
Rejections == [ordinal: Nat, intent: Intents, ts: Nat, reason: RejectionReasons]

ASSUME NoneAssumption ==
  None \notin Int /\ None \notin Intents /\ None \notin Proposals /\ None \notin Positions

HeldKeys == {k \in Keys : positions[k] # None}
ReservedKeys == {k \in Keys : reserved[k] # None}

-----------------------------------------------------------------------------
(* Prices, fees and sizes. *)

EntryFill(dir, ref) == IF dir = "long" THEN ref + Slip ELSE ref - Slip
ExitFill(dir, ref)  == IF dir = "long" THEN ref - Slip ELSE ref + Slip
Charge(qty) == FeePerFill + FeePerShare * qty

Brackets(dir, price, stop, target) ==
  IF dir = "long" THEN stop < price /\ price < target
                  ELSE target < price /\ price < stop

Distance(a, b) == IF a < b THEN b - a ELSE a - b

RiskQuantity(equity, fill, stop) ==
  LET risk   == Distance(fill, stop)
      budget == RiskNum * equity
  IN  IF risk <= 0 \/ budget <= 0 THEN 0 ELSE budget \div (RiskDen * risk)

\* A price at or beyond a level, on the side the level watches.
AtStop(dir, price, stop)     == IF dir = "long" THEN price <= stop ELSE price >= stop
AtTarget(dir, price, target) == IF dir = "long" THEN price >= target ELSE price <= target
Worst(dir, bar) == IF dir = "long" THEN bar.low ELSE bar.high
Best(dir, bar)  == IF dir = "long" THEN bar.high ELSE bar.low

\* The raw level a bar triggered and why: gaps first, then the stop before
\* the target.
ProtectiveExit(p, bar) ==
  LET dir == p.intent.dir
  IN  IF AtStop(dir, bar.open, p.stop)
        THEN [reason |-> "stop_gap", at |-> bar.open]
      ELSE IF AtTarget(dir, bar.open, p.target)
        THEN [reason |-> "target_gap", at |-> bar.open]
      ELSE IF AtStop(dir, Worst(dir, bar), p.stop)
        THEN [reason |-> "stop", at |-> p.stop]
      ELSE IF AtTarget(dir, Best(dir, bar), p.target)
        THEN [reason |-> "target", at |-> p.target]
      ELSE [reason |-> "none", at |-> bar.open]

AnyReason == {"stop_gap", "target_gap", "stop", "target"}  \* mutant: no filter at step 3
GapReasons == {"stop_gap", "target_gap"}

\* The date a timestamp falls on, and the session its proceeds settle on:
\* the next one the schedule carries, or none at all.
DateOf(ts) == ts \div TicksPerDay

NextCalendarDay(ts) == DateOf(ts) + 1  \* mutant: weekends and holidays settle

SettlementSession(ts) ==
  LET later == {s \in Sessions : s > DateOf(ts)}
  IN  IF later = {} THEN None ELSE Min(later)

-----------------------------------------------------------------------------
(* The one canonical order: play priority, symbol, signal ordinal. *)

IntentBefore(a, b) ==
  LET pa == Priority[a.key[1]]
      pb == Priority[b.key[1]]
  IN  \/ pa < pb
      \/ pa = pb /\ a.key[2] < b.key[2]
      \/ pa = pb /\ a.key[2] = b.key[2] /\ a.ordinal < b.ordinal

FirstOf(k, visit, intentOf) ==
  k \in visit /\ \A j \in visit \ {k} : IntentBefore(intentOf[k], intentOf[j])

-----------------------------------------------------------------------------
(* Reading the account. *)

AmountOf(cs) == SumFunction([c \in cs |-> c.amount])
Unsettled == AmountOf(credits)

\* Mutant: a mark that forgets the exit fee.
LiquidationWithoutFee(p, mark) ==
  IF p.intent.dir = "long"
    THEN p.qty * ExitFill(p.intent.dir, mark)
    ELSE p.collateral + (p.entry - ExitFill(p.intent.dir, mark)) * p.qty

LiquidationValue(p, mark) ==
  LET fill == ExitFill(p.intent.dir, mark)
  IN  IF p.intent.dir = "long"
        THEN p.qty * fill - Charge(p.qty)
        ELSE p.collateral + (p.entry - fill) * p.qty - Charge(p.qty)

Equity(marks) ==
  settled + Unsettled
    + SumFunction([k \in HeldKeys |-> LiquidationValue(positions[k], marks[SymbolOf(k)])])

DueBy(session) == {c \in credits : c.settles # None /\ c.settles <= session}

\* Why the account cannot be marked at ts against `marks`, or "none".
SnapshotRefusal(ts, marks) ==
  IF ReservedKeys # {} THEN "reservation_outstanding"
  ELSE IF DueBy(DateOf(ts)) # {} THEN "settlement_not_applied"
  ELSE IF \E k \in HeldKeys : ExitFill(positions[k].intent.dir, marks[SymbolOf(k)]) <= 0
    THEN "nonpositive_fill"
  ELSE IF settled < 0 THEN "negative_settled_cash"
  ELSE "none"

-----------------------------------------------------------------------------
(* Settling. *)

\* Mutants: a credit waits one session too long; every credit is spendable.
SettleOverdue(session) ==
  LET due == {c \in DueBy(session) : c.settles < session}
  IN  /\ settled' = settled + AmountOf(due)
      /\ credits' = credits \ due
      /\ UNCHANGED <<positions, reserved, trades, rejections, tradeOrdinal, rejectionOrdinal>>

SettleAll(session) ==
  /\ settled' = settled + Unsettled
  /\ credits' = {}
  /\ UNCHANGED <<positions, reserved, trades, rejections, tradeOrdinal, rejectionOrdinal>>

SettleDue(session) ==
  /\ settled' = settled + AmountOf(DueBy(session))
  /\ credits' = credits \ DueBy(session)
  /\ UNCHANGED <<positions, reserved, trades, rejections, tradeOrdinal, rejectionOrdinal>>

-----------------------------------------------------------------------------
(* Pricing and committing. *)

Propose(intent, rawOpen, frozenEquity) ==
  LET fill == EntryFill(intent.dir, rawOpen)
      qty  == RiskQuantity(frozenEquity, fill, intent.stop)
  IN  [intent   |-> intent,
       rawOpen  |-> rawOpen,
       fill     |-> fill,
       qty      |-> qty,
       fee      |-> Charge(qty),
       required |-> qty * fill + Charge(qty)]

\* Mutant: a capacity test off by one.
CapacityPlusOne(p) ==
  IF ~ Brackets(p.intent.dir, p.rawOpen, p.intent.stop, p.intent.target)
    THEN "invalid_protective_geometry"
  ELSE IF p.qty <= 0 THEN "zero_quantity"
  ELSE IF Cardinality(HeldKeys) + Cardinality(ReservedKeys) > MaxOpen
    THEN "portfolio_capacity"
  ELSE IF settled < p.required THEN "unsettled_cash"
  ELSE "accepted"

\* The account rules, in the order they refuse.
Verdict(p) ==
  IF ~ Brackets(p.intent.dir, p.rawOpen, p.intent.stop, p.intent.target)
    THEN "invalid_protective_geometry"
  ELSE IF ~ Brackets(p.intent.dir, p.fill, p.intent.stop, p.intent.target)
    THEN "invalid_protective_geometry"
  ELSE IF p.qty <= 0 THEN "zero_quantity"
  ELSE IF positions[p.intent.key] # None THEN "position_occupied"
  ELSE IF Cardinality(HeldKeys) + Cardinality(ReservedKeys) >= MaxOpen
    THEN "portfolio_capacity"
  ELSE IF settled < p.required THEN "unsettled_cash"
  ELSE "accepted"

\* reserve() on a proposal every rule accepts: the cash leaves at once.
Reserve(p) ==
  /\ Verdict(p) = "accepted"
  /\ reserved[p.intent.key] = None
  /\ settled' = settled - p.required
  /\ reserved' = [reserved EXCEPT ![p.intent.key] = p]
  /\ UNCHANGED <<credits, positions, trades, rejections, tradeOrdinal, rejectionOrdinal>>

\* open(): the reservation becomes a position, protected from its fill on.
Open(p, ts) ==
  LET k == p.intent.key IN
  /\ reserved[k] = p
  /\ reserved' = [reserved EXCEPT ![k] = None]
  /\ positions' = [positions EXCEPT ![k] =
       [intent     |-> p.intent,
        qty        |-> p.qty,
        entryTs    |-> ts,
        entry      |-> p.fill,
        fee        |-> p.fee,
        collateral |-> IF p.intent.dir = "long" THEN 0 ELSE p.qty * p.fill,
        stop       |-> p.intent.stop,
        target     |-> p.intent.target,
        lowest     |-> p.fill,
        highest    |-> p.fill]]
  /\ UNCHANGED <<settled, credits, trades, rejections, tradeOrdinal, rejectionOrdinal>>

Observed(p, high, low) ==
  [p EXCEPT !.highest = IF high > @ THEN high ELSE @,
            !.lowest  = IF low < @ THEN low ELSE @]

Adjusted(p, stop, target) ==
  [p EXCEPT !.stop   = IF stop = None THEN @ ELSE stop,
            !.target = IF target = None THEN @ ELSE target]

GrossPnl(p, fill) ==
  IF p.intent.dir = "long" THEN (fill - p.entry) * p.qty ELSE (p.entry - fill) * p.qty

\* Mutant: a short is credited like a sale.
CreditAsSale(p, fill) == p.qty * fill - Charge(p.qty)

CreditFor(p, fill) ==
  IF p.intent.dir = "long"
    THEN p.qty * fill - Charge(p.qty)
    ELSE p.collateral + GrossPnl(p, fill) - Charge(p.qty)

\* close(): position p, as last observed and adjusted, leaves at `fill`.
Close(p, fill, ts, reason) ==
  LET k == p.intent.key IN
  /\ positions[k] # None
  /\ ts > p.entryTs
  /\ trades' = trades \cup
       {[ordinal |-> tradeOrdinal, position |-> p, exit |-> fill, exitTs |-> ts,
         net |-> GrossPnl(p, fill) - (p.fee + Charge(p.qty)), reason |-> reason]}
  /\ positions' = [positions EXCEPT ![k] = None]
  /\ credits' = credits \cup
       {[trade |-> tradeOrdinal, amount |-> CreditFor(p, fill),
         settles |-> SettlementSession(ts)]}
  /\ tradeOrdinal' = tradeOrdinal + 1
  /\ UNCHANGED <<settled, reserved, rejections, rejectionOrdinal>>

\* reject(): a declined signal is recorded and nothing else moves.
Reject(intent, reason, ts) ==
  /\ rejections' = rejections \cup
       {[ordinal |-> rejectionOrdinal, intent |-> intent, ts |-> ts, reason |-> reason]}
  /\ rejectionOrdinal' = rejectionOrdinal + 1
  /\ UNCHANGED <<settled, credits, positions, reserved, trades, tradeOrdinal>>

LedgerInit ==
  /\ settled = StartingEquity
  /\ credits = {}
  /\ positions = [k \in Keys |-> None]
  /\ reserved = [k \in Keys |-> None]
  /\ trades = {}
  /\ rejections = {}
  /\ tradeOrdinal = 0
  /\ rejectionOrdinal = 0
=============================================================================
