---------------------------- MODULE ReplayProofs ----------------------------
(***************************************************************************)
(* The cash of a replay, in two parts.  The account (class _Ledger): every *)
(* operator of Ledger and Replay yields a value of its type, every method  *)
(* keeps the account well formed and conserves cash, one lemma per method  *)
(* and layer.  The chronology that drives it (class _PortfolioRuntime):    *)
(* every step keeps the account's invariant, one lemma per action; every   *)
(* settlement is applied before the account is read; a close at the mark   *)
(* leaves the equity alone; settled cash is T+1; and longs whose levels    *)
(* and market stay above the slippage are never refused.                   *)
(***************************************************************************)
EXTENDS ReplayProperties, FiniteLemmas, TLAPS

\* The records the account has made so far are finitely many.
Books == IsFiniteSet(credits) /\ IsFiniteSet(trades)

\* Integer division of naturals yields a natural.
LEMMA DivNat == \A a \in Nat, b \in Nat \ {0} : a \div b \in Nat
  OBVIOUS

\* A product of positive naturals is positive.
LEMMA TimesPos == \A a, b \in Nat \ {0} : a * b \in Nat \ {0}
  OBVIOUS

\* There are finitely many (play, symbol) keys.
LEMMA KeysFinite == IsFiniteSet(Keys)
  BY AccountAssumption, FS_Product DEF Keys

\* A key is a play and a symbol.
LEMMA KeyParts == \A k \in Keys : k[1] \in Plays /\ SymbolOf(k) \in Symbols
  BY DEF Keys, SymbolOf

\* _settlement_session names a scheduled session or none.
LEMMA SettlementTyped == \A ts : SettlementSession(ts) \in Sessions \cup {None}
<1> SUFFICES ASSUME NEW ts PROVE SettlementSession(ts) \in Sessions \cup {None}
  OBVIOUS
<1> DEFINE later == {s \in Sessions : s > DateOf(ts)}
<1>1. later \subseteq Sessions /\ later \subseteq Nat /\ IsFiniteSet(later)
  BY AccountAssumption, FS_Subset
<1>2. later # {} => Min(later) \in later
  <2> HIDE DEF later
  <2> QED BY <1>1, NatMin
<1>3. SettlementSession(ts) = IF later = {} THEN None ELSE Min(later)
  BY Zenon DEF SettlementSession
<1> HIDE DEF later
<1> QED BY <1>1, <1>2, <1>3

\* FeeSpec charges a natural amount for a natural quantity.
LEMMA ChargeTyped == \A q \in Nat : Charge(q) \in Nat
  BY AccountAssumption DEF Charge

\* _entry_fill and _exit_fill of an integer price are integers.
LEMMA FillTyped ==
  \A dir, ref : ref \in Int => EntryFill(dir, ref) \in Int /\ ExitFill(dir, ref) \in Int
  BY AccountAssumption DEF EntryFill, ExitFill

\* _bars_at gives every runtime a bar of positive prices.
LEMMA BarTyped ==
  ASSUME bars \in [Symbols -> Bars], NEW k \in Keys
  PROVE  /\ BarOf(k) \in Bars
         /\ BarOf(k).open \in Nat \ {0} /\ BarOf(k).high \in Nat \ {0}
         /\ BarOf(k).low \in Nat \ {0} /\ BarOf(k).close \in Nat \ {0}
<1>1. BarOf(k) \in Bars
  BY KeyParts DEF BarOf
<1> QED BY <1>1, EnvironmentAssumption

\* The prices _mark passes on are positive.
LEMMA PricesTyped ==
  ASSUME bars \in [Symbols -> Bars]
  PROVE  OpenPrices \in [Symbols -> Nat \ {0}] /\ ClosePrices \in [Symbols -> Nat \ {0}]
  BY EnvironmentAssumption DEF OpenPrices, ClosePrices

\* _liquidation_value is an integer.
LEMMA LiquidationTyped ==
  ASSUME NEW p \in Positions, NEW mark \in Int
  PROVE  LiquidationValue(p, mark) \in Int
<1>1. p.qty \in Nat /\ p.collateral \in Int /\ p.entry \in Int
  BY DEF Positions
<1>2. ExitFill(p.intent.dir, mark) \in Int /\ Charge(p.qty) \in Nat
  BY <1>1, FillTyped, ChargeTyped
<1> QED BY <1>1, <1>2 DEF LiquidationValue

\* The amount of finitely many credits is an integer.
LEMMA AmountTyped ==
  ASSUME NEW cs, IsFiniteSet(cs), cs \subseteq Credits
  PROVE  AmountOf(cs) \in Int
<1>1. [c \in cs |-> c.amount] \in [cs -> Int]
  BY DEF Credits
<1> HIDE DEF Credits
<1> QED BY <1>1, FunSumInt DEF AmountOf

\* The equity of a snapshot is an integer.
LEMMA EquityTyped ==
  ASSUME TypeOK, Books, NEW m \in [Symbols -> Nat \ {0}]
  PROVE  Equity(m) \in Int
<1>1. \A k \in HeldKeys : positions[k] \in Positions /\ m[SymbolOf(k)] \in Int
  BY KeyParts DEF HeldKeys, TypeOK
<1>2. [k \in HeldKeys |-> LiquidationValue(positions[k], m[SymbolOf(k)])] \in [HeldKeys -> Int]
  BY <1>1, LiquidationTyped
<1>3. IsFiniteSet(HeldKeys)
  BY KeysFinite, FS_Subset DEF HeldKeys
<1>4. SumFunction([k \in HeldKeys |-> LiquidationValue(positions[k], m[SymbolOf(k)])]) \in Int
  BY <1>2, <1>3, FunSumInt
<1>5. Unsettled \in Int
  BY AmountTyped DEF Unsettled, TypeOK, Books
<1>6. settled \in Int
  BY DEF TypeOK
<1> QED BY <1>4, <1>5, <1>6 DEF Equity

\* _record_signal makes a well-formed intent.
LEMMA IntentTyped ==
  ASSUME TypeOK, NEW k \in Keys, NEW s \in SignalShapes
  PROVE  IntentFrom(k, s) \in Intents
<1>1. s.dir \in Directions /\ s.stop \in Int /\ s.target \in Int
  BY EnvironmentAssumption
<1>2. signalOrdinal \in Nat /\ now \in 1..Len(OpenTs) /\ NTest \in 1..Len(OpenTs)
  BY ScheduleAssumption DEF TypeOK
<1>3. CloseTs[now] \in Nat
  BY <1>2, ScheduleAssumption
<1>4. EligibleAfter(now) \in Nat
  BY <1>2, ScheduleAssumption, SMTT(30) DEF EligibleAfter, NBase
<1> QED BY <1>1, <1>2, <1>3, <1>4 DEF IntentFrom, Intents

\* _risk_quantity is a natural.
LEMMA QuantityTyped ==
  \A equity, fill, stop : equity \in Int /\ fill \in Int /\ stop \in Int
     => RiskQuantity(equity, fill, stop) \in Nat
<1> SUFFICES ASSUME NEW equity \in Int, NEW fill \in Int, NEW stop \in Int
             PROVE  RiskQuantity(equity, fill, stop) \in Nat
  OBVIOUS
<1> DEFINE risk == Distance(fill, stop)
           budget == RiskNum * equity
<1>1. risk \in Int /\ budget \in Int
  BY AccountAssumption DEF Distance
<1>2. RiskQuantity(equity, fill, stop)
        = IF risk <= 0 \/ budget <= 0 THEN 0 ELSE budget \div (RiskDen * risk)
  BY DEF RiskQuantity
<1> HIDE DEF risk, budget
<1>3. CASE risk <= 0 \/ budget <= 0
  BY <1>2, <1>3
<1>4. CASE ~ (risk <= 0 \/ budget <= 0)
  <2>1. RiskDen * risk \in Nat \ {0}
    BY <1>1, <1>4, AccountAssumption, TimesPos
  <2>2. budget \div (RiskDen * risk) \in Nat
    BY <1>1, <1>4, <2>1, DivNat
  <2> QED BY <1>2, <1>4, <2>2
<1> QED BY <1>3, <1>4

\* propose() makes a well-formed proposal.
LEMMA ProposalTyped ==
  ASSUME NEW i \in Intents, NEW o \in Int, NEW e \in Int
  PROVE  Propose(i, o, e) \in Proposals
<1> DEFINE fill == EntryFill(i.dir, o)
           qty == RiskQuantity(e, fill, i.stop)
<1>1. i.stop \in Int
  BY DEF Intents
<1>2. fill \in Int /\ qty \in Nat
  BY <1>1, FillTyped, QuantityTyped
<1>3. Charge(qty) \in Nat
  BY <1>2, ChargeTyped
<1>4. Propose(i, o, e) = [intent |-> i, rawOpen |-> o, fill |-> fill, qty |-> qty,
                          fee |-> Charge(qty), required |-> qty * fill + Charge(qty)]
  BY DEF Propose
<1> HIDE DEF fill, qty
<1> QED BY <1>2, <1>3, <1>4 DEF Proposals

\* observe() leaves a position.
LEMMA ObservedTyped ==
  ASSUME NEW p \in Positions, NEW h \in Int, NEW l \in Int
  PROVE  Observed(p, h, l) \in Positions
  BY DEF Observed, Positions

\* adjust() leaves a position.
LEMMA AdjustedTyped ==
  ASSUME NEW p \in Positions, NEW d \in Decisions
  PROVE  Adjusted(p, d.stop, d.target) \in Positions
<1>1. d.stop \in Int \cup {None} /\ d.target \in Int \cup {None}
  BY EnvironmentAssumption
<1> QED BY <1>1 DEF Adjusted, Positions

\* _protective_exit triggers at an integer level.
LEMMA HitTyped ==
  ASSUME NEW p \in Positions, bars \in [Symbols -> Bars], NEW k \in Keys
  PROVE  ProtectiveExit(p, BarOf(k)).at \in Int
<1>1. p.stop \in Int /\ p.target \in Int
  BY DEF Positions
<1>2. BarOf(k).open \in Int
  BY BarTyped
<1>3. ProtectiveExit(p, BarOf(k)).at \in {BarOf(k).open, p.stop, p.target}
  BY DEF ProtectiveExit
<1> QED BY <1>1, <1>2, <1>3

\* close() computes integers.
LEMMA ProfitTyped ==
  ASSUME NEW p \in Positions, NEW fill \in Int
  PROVE  GrossPnl(p, fill) \in Int /\ CreditFor(p, fill) \in Int
<1>1. p.qty \in Nat /\ p.entry \in Int /\ p.collateral \in Int
  BY DEF Positions
<1>2. Charge(p.qty) \in Nat
  BY <1>1, ChargeTyped
<1>3. GrossPnl(p, fill) \in Int
  BY <1>1 DEF GrossPnl
<1> QED BY <1>1, <1>2, <1>3 DEF CreditFor

-----------------------------------------------------------------------------
\* The account's part of the type invariant, its books finite.
AccountOK ==
  /\ settled \in Int
  /\ credits \subseteq Credits
  /\ positions \in [Keys -> Positions \cup {None}]
  /\ reserved \in [Keys -> Proposals \cup {None}]
  /\ trades \subseteq Trades
  /\ rejections \subseteq Rejections
  /\ tradeOrdinal \in Nat
  /\ rejectionOrdinal \in Nat
  /\ IsFiniteSet(credits)
  /\ IsFiniteSet(trades)

\* The run's part.
RunOK ==
  /\ phase \in Phases
  /\ now \in 1..NTest
  /\ bars \in [Symbols -> Bars]
  /\ visit \subseteq Keys
  /\ frozen \in Int
  /\ pending \in [Keys -> Intents \cup {None}]
  /\ signalOrdinal \in Nat
  /\ marks \in Seq(Nat \X Int)
  /\ refusal \in Refusals

\* The type invariant, with the finiteness of the books, splits into the
\* account's part and the run's.
LEMMA TypeParts == TypeOK /\ Books <=> AccountOK /\ RunOK
  BY DEF TypeOK, Books, AccountOK, RunOK

\* An account nothing touches stays well formed.
LEMMA AccountUnchanged == AccountOK /\ UNCHANGED ledgerVars => AccountOK'
  BY DEF AccountOK, ledgerVars

\* settle_due() keeps the account well formed.
LEMMA SettleDueTyped ==
  ASSUME AccountOK, NEW session, SettleDue(session)
  PROVE  AccountOK'
<1>1. DueBy(session) \subseteq credits
  BY DEF DueBy
<1>2. IsFiniteSet(DueBy(session)) /\ IsFiniteSet(credits \ DueBy(session))
  BY <1>1, FS_Subset DEF AccountOK
<1>3. AmountOf(DueBy(session)) \in Int
  BY <1>1, <1>2, AmountTyped DEF AccountOK
<1>4. settled' \in Int /\ credits' \subseteq Credits /\ IsFiniteSet(credits')
  BY <1>2, <1>3 DEF SettleDue, AccountOK
<1> QED BY <1>4 DEF SettleDue, AccountOK

\* reserve() keeps the account well formed.
LEMMA ReserveTyped ==
  ASSUME AccountOK, NEW p \in Proposals, Reserve(p)
  PROVE  AccountOK'
<1>1. p.intent \in Intents /\ p.required \in Int
  BY DEF Proposals
<1>2. p.intent.key \in Keys
  BY <1>1 DEF Intents
<1> QED BY <1>1, <1>2 DEF Reserve, AccountOK

\* open() keeps the account well formed and leaves a position at its key.
LEMMA OpenTyped ==
  ASSUME AccountOK, NEW p \in Proposals, NEW ts \in Nat, Open(p, ts)
  PROVE  AccountOK' /\ positions'[p.intent.key] \in Positions
<1>1. p.intent \in Intents /\ p.qty \in Nat /\ p.fill \in Int /\ p.fee \in Int
  BY DEF Proposals
<1>2. p.intent.key \in Keys /\ p.intent.stop \in Int /\ p.intent.target \in Int
  BY <1>1 DEF Intents
<1>3. p.qty * p.fill \in Int
  BY <1>1
<1> DEFINE opened ==
       [intent     |-> p.intent,
        qty        |-> p.qty,
        entryTs    |-> ts,
        entry      |-> p.fill,
        fee        |-> p.fee,
        collateral |-> IF p.intent.dir = "long" THEN 0 ELSE p.qty * p.fill,
        stop       |-> p.intent.stop,
        target     |-> p.intent.target,
        lowest     |-> p.fill,
        highest    |-> p.fill]
<1>4. opened \in Positions
  BY <1>1, <1>2, <1>3 DEF Positions
<1>5. positions' = [positions EXCEPT ![p.intent.key] = opened]
  BY DEF Open
<1> HIDE DEF opened
<1>6. positions' \in [Keys -> Positions \cup {None}]
  BY <1>4, <1>5 DEF AccountOK
<1>7. reserved' \in [Keys -> Proposals \cup {None}]
  BY DEF Open, AccountOK
<1>8. positions'[p.intent.key] \in Positions
  BY <1>2, <1>4, <1>5 DEF AccountOK
<1> QED BY <1>6, <1>7, <1>8 DEF Open, AccountOK

\* close() keeps the account well formed.
LEMMA CloseTyped ==
  ASSUME AccountOK, NEW p \in Positions, NEW fill \in Int, NEW ts \in Nat,
         NEW reason \in ExitReasons, Close(p, fill, ts, reason)
  PROVE  AccountOK'
<1>1. p.intent.key \in Keys /\ p.qty \in Nat /\ p.fee \in Int
  BY DEF Positions, Intents
<1>2. GrossPnl(p, fill) \in Int /\ CreditFor(p, fill) \in Int /\ Charge(p.qty) \in Nat
  BY <1>1, ProfitTyped, ChargeTyped
<1> DEFINE t == [ordinal |-> tradeOrdinal, position |-> p, exit |-> fill, exitTs |-> ts,
                 net |-> GrossPnl(p, fill) - (p.fee + Charge(p.qty)), reason |-> reason]
           c == [trade |-> tradeOrdinal, amount |-> CreditFor(p, fill),
                 settles |-> SettlementSession(ts)]
<1>3. t \in Trades
  BY <1>1, <1>2 DEF Trades, AccountOK
<1>4. c \in Credits
  BY <1>2, SettlementTyped DEF Credits, AccountOK
<1>5. /\ trades' = trades \cup {t}
      /\ credits' = credits \cup {c}
      /\ positions' = [positions EXCEPT ![p.intent.key] = None]
      /\ tradeOrdinal' = tradeOrdinal + 1
      /\ UNCHANGED <<settled, reserved, rejections, rejectionOrdinal>>
  BY DEF Close
<1> HIDE DEF t, c
<1>6. IsFiniteSet(trades') /\ IsFiniteSet(credits')
  <2>1. IsFiniteSet(trades) /\ IsFiniteSet(credits)
    BY DEF AccountOK
  <2>2. IsFiniteSet(trades \cup {t}) /\ IsFiniteSet(credits \cup {c})
    BY <2>1, AddFinite
  <2> QED BY <1>5, <2>2
<1>7. credits' \subseteq Credits /\ trades' \subseteq Trades
  BY <1>3, <1>4, <1>5 DEF AccountOK
<1>8. positions' \in [Keys -> Positions \cup {None}]
  BY <1>5 DEF AccountOK
<1>10. tradeOrdinal' \in Nat
  BY <1>5 DEF AccountOK
<1>9. /\ settled' \in Int /\ reserved' \in [Keys -> Proposals \cup {None}]
      /\ rejections' \subseteq Rejections /\ rejectionOrdinal' \in Nat
  BY <1>5 DEF AccountOK
<1> QED BY <1>6, <1>7, <1>8, <1>9, <1>10 DEF AccountOK

\* reject() keeps the account well formed.
LEMMA RejectTyped ==
  ASSUME AccountOK, NEW i \in Intents, NEW reason \in RejectionReasons, NEW ts \in Nat,
         Reject(i, reason, ts)
  PROVE  AccountOK'
<1>1. [ordinal |-> rejectionOrdinal, intent |-> i, ts |-> ts, reason |-> reason] \in Rejections
  BY DEF Rejections, AccountOK
<1>2. rejections' \subseteq Rejections /\ rejectionOrdinal' \in Nat
  BY <1>1 DEF Reject, AccountOK
<1> QED BY <1>2 DEF Reject, AccountOK

\* Every instant the run stamps an event with is a timestamp.
LEMMA ClockTyped ==
  ASSUME RunOK
  PROVE  /\ OpenTs[now] \in Nat /\ CloseTs[now] \in Nat
         /\ TestStart \in Nat /\ TestEnd \in Nat
<1>1. now \in 1..Len(OpenTs) /\ NTest \in 1..Len(OpenTs) /\ 1 \in 1..Len(OpenTs)
  BY ScheduleAssumption DEF RunOK
<1> QED BY <1>1, ScheduleAssumption, SMTT(30) DEF TestStart, TestEnd

\* _mark appends a timestamp and an equity.
LEMMA MarkTyped ==
  ASSUME AccountOK, RunOK, NEW ts \in Nat, NEW m \in [Symbols -> Nat \ {0}], Mark(ts, m)
  PROVE  marks' \in Seq(Nat \X Int)
<1>1. Equity(m) \in Int
  BY EquityTyped, TypeParts
<1>2. <<ts, Equity(m)>> \in Nat \X Int
  BY <1>1
<1> QED BY <1>2 DEF Mark, RunOK

\* _settle_out keeps the account well formed.
LEMMA SettleOutTyped ==
  ASSUME AccountOK, NEW p \in Positions, NEW ref \in Int, NEW ts \in Nat,
         NEW reason \in ExitReasons, SettleOut(p, ref, ts, reason)
  PROVE  AccountOK'
<1>1. ExitFill(p.intent.dir, ref) \in Int
  BY FillTyped
<1> QED BY <1>1, CloseTyped DEF SettleOut

-----------------------------------------------------------------------------
\* A key's position and reservation are its own, priced as propose() and
\* open() priced them, and a key never has both.
Booked ==
  /\ \A k \in HeldKeys :
       /\ positions[k].intent.key = k
       /\ positions[k].fee = Charge(positions[k].qty)
       /\ positions[k].collateral = IF positions[k].intent.dir = "long" THEN 0
                                    ELSE positions[k].qty * positions[k].entry
  /\ \A k \in ReservedKeys :
       /\ reserved[k].intent.key = k
       /\ reserved[k].fee = Charge(reserved[k].qty)
       /\ reserved[k].required = reserved[k].qty * reserved[k].fill + reserved[k].fee
  /\ ReservedKeys \cap HeldKeys = {}

\* The next trade ordinal is unused.
Fresh ==
  /\ \A c \in credits : c.trade < tradeOrdinal
  /\ \A t \in trades : t.ordinal < tradeOrdinal

\* The account's inductive invariant.
AccountInv == AccountOK /\ Booked /\ Fresh /\ CashConserved

-----------------------------------------------------------------------------

\* What a key has drawn from cash is an integer.
LEMMA CostTyped ==
  \A p \in Positions \cup {None}, r \in Proposals \cup {None} :
    (IF p # None THEN EntryCost(p) ELSE 0) + (IF r # None THEN r.required ELSE 0) \in Int
<1> SUFFICES ASSUME NEW p \in Positions \cup {None}, NEW r \in Proposals \cup {None}
             PROVE  (IF p # None THEN EntryCost(p) ELSE 0)
                      + (IF r # None THEN r.required ELSE 0) \in Int
  OBVIOUS
<1>1. p # None => EntryCost(p) \in Int
  BY DEF EntryCost, Positions
<1>2. r # None => r.required \in Int
  BY DEF Proposals
<1> QED BY <1>1, <1>2

\* Committed cash is an integer.
LEMMA CommittedTyped ==
  ASSUME AccountOK
  PROVE  /\ [k \in Keys |-> CommittedAt(k)] \in [Keys -> Int]
         /\ CommittedCash \in Int
<1>1. ASSUME NEW k \in Keys PROVE CommittedAt(k) \in Int
  <2>1. positions[k] \in Positions \cup {None} /\ reserved[k] \in Proposals \cup {None}
    BY DEF AccountOK
  <2> QED BY <2>1, CostTyped DEF CommittedAt
<1>2. [k \in Keys |-> CommittedAt(k)] \in [Keys -> Int]
  BY <1>1
<1> QED BY <1>2, KeysFinite, FunSumInt DEF CommittedCash

\* A step that touches one key changes committed cash by that key's difference.
LEMMA CommittedUpdate ==
  ASSUME AccountOK, AccountOK', NEW k \in Keys,
         \A j \in Keys \ {k} : positions'[j] = positions[j] /\ reserved'[j] = reserved[j]
  PROVE  CommittedCash' = (CommittedCash - CommittedAt(k)) + CommittedAt(k)'
<1> DEFINE f == [j \in Keys |-> CommittedAt(j)]
           g == [j \in Keys |-> CommittedAt(j)']
<1>1. f \in [Keys -> Int]
  BY CommittedTyped
<1>2. g \in [Keys -> Int]
  <2>1. ASSUME NEW j \in Keys PROVE CommittedAt(j)' \in Int
    <3>1. positions'[j] \in Positions \cup {None} /\ reserved'[j] \in Proposals \cup {None}
      BY DEF AccountOK
    <3> QED BY <3>1, CostTyped DEF CommittedAt
  <2> QED BY <2>1
<1>3. \A j \in Keys \ {k} : f[j] = g[j]
  BY DEF CommittedAt, EntryCost
<1>4. f[k] = CommittedAt(k) /\ g[k] = CommittedAt(k)'
  OBVIOUS
<1>5. CommittedCash = SumFunction(f) /\ CommittedCash' = SumFunction(g)
  BY DEF CommittedCash
<1> HIDE DEF f, g
<1>6. SumFunction(g) = (SumFunction(f) - f[k]) + g[k]
  BY <1>1, <1>2, <1>3, KeysFinite, FunSumUpdate
<1> QED BY <1>4, <1>5, <1>6

\* Committed cash depends only on what each key has drawn.
LEMMA CommittedSame ==
  ASSUME \A k \in Keys : CommittedAt(k)' = CommittedAt(k)
  PROVE  CommittedCash' = CommittedCash
<1>1. [k \in Keys |-> CommittedAt(k)'] = [k \in Keys |-> CommittedAt(k)]
  OBVIOUS
<1> QED BY <1>1 DEF CommittedCash

\* The net results of finitely many trades sum to an integer.
LEMMA TradeSumTyped ==
  ASSUME AccountOK
  PROVE  /\ [t \in trades |-> t.net] \in [trades -> Int]
         /\ SumFunction([t \in trades |-> t.net]) \in Int
<1>1. [t \in trades |-> t.net] \in [trades -> Int]
  BY DEF AccountOK, Trades
<1> QED BY <1>1, FunSumInt DEF AccountOK

\* settle_due() moves cash from unsettled to settled and loses none.
LEMMA SettleDueInv ==
  ASSUME AccountInv, NEW session, SettleDue(session)
  PROVE  AccountInv'
<1> DEFINE due == DueBy(session)
           rest == credits \ due
<1>1. AccountOK /\ AccountOK' /\ Booked /\ Fresh /\ CashConserved
  BY SettleDueTyped DEF AccountInv
<1>2. due \in SUBSET credits /\ IsFiniteSet(credits)
  BY <1>1 DEF DueBy, AccountOK
<1>3. /\ [c \in credits |-> c.amount] \in [credits -> Int]
      /\ [c \in due |-> c.amount] \in [due -> Int]
      /\ [c \in rest |-> c.amount] \in [rest -> Int]
  BY <1>1, <1>2 DEF AccountOK, Credits
<1>4. AmountOf(credits) = AmountOf(due) + AmountOf(rest)
  <2> HIDE DEF due
  <2> QED BY <1>2, <1>3, FunSumSplit DEF AmountOf
<1>5. AmountOf(due) \in Int /\ AmountOf(rest) \in Int
  BY <1>2, <1>3, FS_Subset, FunSumInt DEF AmountOf
<1>6. settled' = settled + AmountOf(due) /\ credits' = rest
      /\ UNCHANGED <<positions, reserved, trades, rejections, tradeOrdinal, rejectionOrdinal>>
  BY DEF SettleDue
<1>7. Unsettled = AmountOf(credits) /\ Unsettled' = AmountOf(rest)
  BY <1>6 DEF Unsettled
<1>8. CommittedCash' = CommittedCash
  BY <1>6, CommittedSame DEF CommittedAt
<1> HIDE DEF due, rest
<1>9. CashConserved'
  <2>1. settled \in Int /\ CommittedCash \in Int /\ SumFunction([t \in trades |-> t.net]) \in Int
    BY <1>1, CommittedTyped, TradeSumTyped DEF AccountOK
  <2>2. SumFunction([t \in trades |-> t.net])' = SumFunction([t \in trades |-> t.net])
    BY <1>6
  <2> QED BY <1>1, <1>4, <1>5, <1>6, <1>7, <1>8, <2>1, <2>2 DEF CashConserved
<1>10. Booked' /\ Fresh'
  BY <1>1, <1>6 DEF Booked, Fresh, HeldKeys, ReservedKeys, rest
<1> QED BY <1>1, <1>9, <1>10 DEF AccountInv

\* reserve() moves the required cash from settled to the key.
LEMMA ReserveInv ==
  ASSUME AccountInv, NEW p \in Proposals, Reserve(p), p.fee = Charge(p.qty),
         p.required = p.qty * p.fill + p.fee
  PROVE  AccountInv'
<1> DEFINE k == p.intent.key
<1>1. AccountOK /\ AccountOK' /\ Booked /\ Fresh /\ CashConserved
  BY ReserveTyped DEF AccountInv
<1>2. p.required \in Int /\ k \in Keys
  BY DEF Proposals, Intents
<1>3. /\ positions[k] = None /\ reserved[k] = None
      /\ settled' = settled - p.required
      /\ reserved' = [reserved EXCEPT ![k] = p]
      /\ UNCHANGED <<credits, positions, trades, rejections, tradeOrdinal, rejectionOrdinal>>
  BY DEF Reserve, Verdict
<1> HIDE DEF k
<1>4. reserved'[k] = p /\ p # None
  BY <1>1, <1>2, <1>3, NoneAssumption DEF AccountOK
<1>5. CommittedAt(k) = 0 /\ CommittedAt(k)' = p.required
  BY <1>2, <1>3, <1>4 DEF CommittedAt
<1>6. CommittedCash' = (CommittedCash - 0) + p.required
  <2>1. \A j \in Keys \ {k} : positions'[j] = positions[j] /\ reserved'[j] = reserved[j]
    BY <1>1, <1>3 DEF AccountOK
  <2> QED BY <1>1, <1>2, <1>5, <2>1, CommittedUpdate
<1>7. CashConserved'
  <2>1. settled \in Int /\ CommittedCash \in Int /\ Unsettled \in Int
    BY <1>1, CommittedTyped, AmountTyped DEF AccountOK, Unsettled
  <2>2. /\ Unsettled' = Unsettled
        /\ SumFunction([t \in trades |-> t.net])' = SumFunction([t \in trades |-> t.net])
    BY <1>3 DEF Unsettled
  <2> QED BY <1>1, <1>2, <1>3, <1>6, <2>1, <2>2 DEF CashConserved
<1>8. Booked'
  <2>1. HeldKeys' = HeldKeys /\ ReservedKeys' = ReservedKeys \cup {k}
    BY <1>1, <1>2, <1>3, <1>4 DEF HeldKeys, ReservedKeys, AccountOK
  <2>2. k \notin HeldKeys /\ \A j \in ReservedKeys : j # k /\ reserved'[j] = reserved[j]
    BY <1>1, <1>3 DEF HeldKeys, ReservedKeys, AccountOK
  <2> QED BY <1>1, <1>3, <1>4, <2>1, <2>2 DEF Booked, k
<1>9. Fresh'
  BY <1>1, <1>3 DEF Fresh
<1> QED BY <1>1, <1>7, <1>8, <1>9 DEF AccountInv

\* open() turns a reservation into a position of the same cost.
LEMMA OpenInv ==
  ASSUME AccountInv, NEW p \in Proposals, NEW ts \in Nat, Open(p, ts)
  PROVE  AccountInv'
<1> DEFINE k == p.intent.key
<1>1. AccountOK /\ AccountOK' /\ Booked /\ Fresh /\ CashConserved
  BY OpenTyped DEF AccountInv
<1>2. p # None /\ k \in Keys /\ p.required \in Int
  BY NoneAssumption DEF Proposals, Intents
<1>3. /\ reserved[k] = p
      /\ reserved' = [reserved EXCEPT ![k] = None]
      /\ positions' = [positions EXCEPT ![k] = positions'[k]]
      /\ positions'[k].intent = p.intent /\ positions'[k].qty = p.qty
      /\ positions'[k].entry = p.fill /\ positions'[k].fee = p.fee
      /\ positions'[k].collateral = IF p.intent.dir = "long" THEN 0 ELSE p.qty * p.fill
      /\ UNCHANGED <<settled, credits, trades, rejections, tradeOrdinal, rejectionOrdinal>>
  BY <1>1, <1>2 DEF Open, AccountOK
<1> HIDE DEF k
<1>4. k \in ReservedKeys /\ k \notin HeldKeys /\ positions[k] = None
  BY <1>1, <1>2, <1>3 DEF Booked, ReservedKeys, HeldKeys
<1>5. p.fee = Charge(p.qty) /\ p.required = p.qty * p.fill + p.fee
  BY <1>1, <1>3, <1>4 DEF Booked
<1>6. positions'[k] # None /\ reserved'[k] = None
  <2>1. positions'[k] \in Positions
    BY <1>1, OpenTyped DEF k
  <2> QED BY <1>1, <1>2, <1>3, <2>1, NoneAssumption DEF AccountOK
<1>7. CommittedAt(k) = 0 + p.required /\ CommittedAt(k)' = (p.qty * p.fill + p.fee) + 0
  BY <1>2, <1>3, <1>4, <1>6 DEF CommittedAt, EntryCost
<1>8. CommittedCash' = (CommittedCash - CommittedAt(k)) + CommittedAt(k)'
  <2>1. \A j \in Keys \ {k} : positions'[j] = positions[j] /\ reserved'[j] = reserved[j]
    BY <1>1, <1>3 DEF AccountOK
  <2> QED BY <1>1, <1>2, <2>1, CommittedUpdate
<1>9. CashConserved'
  <2>1. CommittedCash \in Int
    BY <1>1, CommittedTyped
  <2>2. CommittedCash' = CommittedCash
    BY <1>2, <1>5, <1>7, <1>8, <2>1
  <2>3. /\ Unsettled' = Unsettled
        /\ SumFunction([t \in trades |-> t.net])' = SumFunction([t \in trades |-> t.net])
    BY <1>3 DEF Unsettled
  <2> QED BY <1>1, <1>3, <2>2, <2>3 DEF CashConserved
<1>10. Booked'
  <2>1. HeldKeys' = HeldKeys \cup {k} /\ ReservedKeys' = ReservedKeys \ {k}
    BY <1>1, <1>2, <1>3, <1>6 DEF HeldKeys, ReservedKeys, AccountOK
  <2>2. /\ \A j \in HeldKeys : j # k /\ positions'[j] = positions[j]
        /\ \A j \in ReservedKeys \ {k} : reserved'[j] = reserved[j]
    BY <1>1, <1>3, <1>4 DEF HeldKeys, ReservedKeys, AccountOK
  <2>3. positions'[k].intent.key = k
    BY <1>3 DEF k
  <2> QED BY <1>1, <1>3, <1>5, <2>1, <2>2, <2>3 DEF Booked
<1>11. Fresh'
  BY <1>1, <1>3 DEF Fresh
<1> QED BY <1>1, <1>9, <1>10, <1>11 DEF AccountInv

\* Two states of one position: what its cost is computed from is the same.
SameEntry(p, q) ==
  /\ p.intent = q.intent /\ p.qty = q.qty /\ p.entry = q.entry
  /\ p.fee = q.fee /\ p.collateral = q.collateral

\* What close() credits, less what the entry cost, is the trade's net result,
\* for a long and for a short.
LEMMA CloseArithmetic ==
  ASSUME NEW p \in Positions, NEW fill \in Int, p.fee = Charge(p.qty),
         p.collateral = IF p.intent.dir = "long" THEN 0 ELSE p.qty * p.entry
  PROVE  CreditFor(p, fill) - EntryCost(p) = GrossPnl(p, fill) - (p.fee + Charge(p.qty))
<1>1. p.qty \in Nat /\ p.entry \in Int
  BY DEF Positions
<1> DEFINE q == p.qty
           e == p.entry
           c == Charge(p.qty)
           qe == q * e
           qf == q * fill
<1>2. q \in Int /\ e \in Int /\ c \in Int /\ qe \in Int /\ qf \in Int
  BY <1>1, ChargeTyped
<1>3. (fill - e) * q = qf - qe /\ (e - fill) * q = qe - qf
  BY <1>2
<1>4. EntryCost(p) = qe + c
  BY DEF EntryCost
<1>5. CASE p.intent.dir = "long"
  <2>1. CreditFor(p, fill) = qf - c /\ GrossPnl(p, fill) = qf - qe
    BY <1>3, <1>5 DEF CreditFor, GrossPnl
  <2> HIDE DEF qe, qf, c
  <2> QED BY <1>2, <1>4, <2>1 DEF c
<1>6. CASE p.intent.dir # "long"
  <2>1. GrossPnl(p, fill) = qe - qf
    BY <1>3, <1>6 DEF GrossPnl
  <2>2. CreditFor(p, fill) = qe + (qe - qf) - c
    BY <1>6, <2>1 DEF CreditFor
  <2> HIDE DEF qe, qf, c
  <2> QED BY <1>2, <1>4, <2>1, <2>2 DEF c
<1> QED BY <1>5, <1>6

\* close() adds exactly its credit to what is unsettled.
LEMMA CloseUnsettled ==
  ASSUME AccountInv, NEW p \in Positions, NEW fill \in Int, NEW ts \in Nat,
         NEW reason \in ExitReasons, Close(p, fill, ts, reason)
  PROVE  Unsettled' = Unsettled + CreditFor(p, fill)
<1> DEFINE c == [trade |-> tradeOrdinal, amount |-> CreditFor(p, fill),
                 settles |-> SettlementSession(ts)]
           f == [u \in credits |-> u.amount]
           g == [u \in credits \cup {c} |-> u.amount]
<1>1. AccountOK /\ AccountOK' /\ Fresh
  BY CloseTyped DEF AccountInv
<1>2. credits' = credits \cup {c}
  BY DEF Close
<1>3. c \notin credits /\ c.amount = CreditFor(p, fill)
  BY <1>1 DEF Fresh, AccountOK
<1> HIDE DEF c
<1>4. f \in [credits -> Int] /\ g \in [credits \cup {c} -> Int] /\ IsFiniteSet(credits)
  BY <1>1, <1>2 DEF AccountOK, Credits
<1>5. (\A u \in credits : f[u] = g[u]) /\ g[c] = c.amount
  OBVIOUS
<1>6. Unsettled = SumFunction(f) /\ Unsettled' = SumFunction(g)
  BY <1>2 DEF Unsettled, AmountOf
<1> HIDE DEF f, g
<1>7. SumFunction(g) = SumFunction(f) + g[c]
  BY <1>3, <1>4, <1>5, FunSumExtend
<1> QED BY <1>3, <1>5, <1>6, <1>7

\* close() turns a position's cost into a credit and a net result that balance.
LEMMA CloseInv ==
  ASSUME AccountInv, NEW p \in Positions, NEW fill \in Int, NEW ts \in Nat,
         NEW reason \in ExitReasons, SameEntry(p, positions[p.intent.key]),
         Close(p, fill, ts, reason)
  PROVE  AccountInv'
<1> DEFINE k == p.intent.key
           t == [ordinal |-> tradeOrdinal, position |-> p, exit |-> fill, exitTs |-> ts,
                 net |-> GrossPnl(p, fill) - (p.fee + Charge(p.qty)), reason |-> reason]
           c == [trade |-> tradeOrdinal, amount |-> CreditFor(p, fill),
                 settles |-> SettlementSession(ts)]
           net(T) == SumFunction([u \in T |-> u.net])
<1>1. AccountOK /\ AccountOK' /\ Booked /\ Fresh /\ CashConserved
  BY CloseTyped DEF AccountInv
<1>2. /\ positions[k] # None
      /\ trades' = trades \cup {t}
      /\ credits' = credits \cup {c}
      /\ positions' = [positions EXCEPT ![k] = None]
      /\ tradeOrdinal' = tradeOrdinal + 1
      /\ UNCHANGED <<settled, reserved, rejections, rejectionOrdinal>>
  BY DEF Close
<1>3. k \in Keys /\ p.qty \in Nat /\ p.entry \in Int /\ p.fee \in Int
  BY DEF Positions, Intents
<1>4. /\ GrossPnl(p, fill) \in Int /\ CreditFor(p, fill) \in Int
      /\ Charge(p.qty) \in Nat /\ EntryCost(p) \in Int
  BY <1>3, ProfitTyped, ChargeTyped DEF EntryCost
<1>5. t \notin trades /\ c \notin credits /\ t.net = GrossPnl(p, fill) - (p.fee + Charge(p.qty))
      /\ c.amount = CreditFor(p, fill) /\ t.ordinal = tradeOrdinal /\ c.trade = tradeOrdinal
  BY <1>1 DEF Fresh, AccountOK
<1>6. k \in HeldKeys /\ k \notin ReservedKeys /\ reserved[k] = None
  BY <1>1, <1>2, <1>3 DEF Booked, HeldKeys, ReservedKeys
<1>7. p.fee = Charge(p.qty) /\ p.collateral = IF p.intent.dir = "long" THEN 0 ELSE p.qty * p.entry
  BY <1>1, <1>6 DEF Booked, SameEntry
<1>8. CreditFor(p, fill) - EntryCost(p) = t.net
  BY <1>5, <1>7, CloseArithmetic
<1>9. CommittedAt(k) = EntryCost(p) + 0
  BY <1>2, <1>6 DEF CommittedAt, EntryCost, SameEntry
<1> HIDE DEF k, t, c
<1>10. positions'[k] = None /\ CommittedAt(k)' = 0 + 0
  BY <1>1, <1>2, <1>3, <1>6 DEF CommittedAt, AccountOK
<1>11. CommittedCash' = (CommittedCash - EntryCost(p)) + 0
  <2>1. \A j \in Keys \ {k} : positions'[j] = positions[j] /\ reserved'[j] = reserved[j]
    BY <1>1, <1>2 DEF AccountOK
  <2>2. CommittedCash' = (CommittedCash - CommittedAt(k)) + CommittedAt(k)'
    BY <1>1, <1>3, <2>1, CommittedUpdate
  <2> QED BY <1>4, <1>9, <1>10, <2>2
<1>12. net(trades)' = net(trades) + t.net
  <2> DEFINE f == [u \in trades |-> u.net]
             g == [u \in trades \cup {t} |-> u.net]
  <2>1. f \in [trades -> Int] /\ g \in [trades \cup {t} -> Int] /\ IsFiniteSet(trades)
    BY <1>1, <1>2 DEF AccountOK, Trades
  <2>2. \A u \in trades : f[u] = g[u]
    OBVIOUS
  <2>3. g[t] = t.net
    OBVIOUS
  <2>4. net(trades) = SumFunction(f) /\ net(trades)' = SumFunction(g)
    BY <1>2
  <2>5. t \notin trades
    BY <1>5
  <2> HIDE DEF f, g
  <2>6. SumFunction(g) = SumFunction(f) + g[t]
    BY <2>1, <2>2, <2>5, FunSumExtend
  <2> QED BY <2>3, <2>4, <2>6
<1>13. Unsettled' = Unsettled + c.amount
  BY <1>5, CloseUnsettled
<1>14. CashConserved'
  <2> DEFINE s == settled
             u == Unsettled
             m == CommittedCash
             n == net(trades)
             a == c.amount
             e == EntryCost(p)
             r == t.net
  <2>1. s \in Int /\ u \in Int /\ m \in Int /\ n \in Int /\ a \in Int /\ e \in Int /\ r \in Int
    BY <1>1, <1>4, <1>5, <1>8, CommittedTyped, AmountTyped, TradeSumTyped DEF AccountOK, Unsettled
  <2>2. s + u + m = StartingEquity + n /\ a - e = r
    BY <1>1, <1>5, <1>8 DEF CashConserved
  <2>3. s + (u + a) + ((m - e) + 0) = StartingEquity + (n + r)
    <3>1. StartingEquity \in Int
      BY AccountAssumption
    <3> HIDE DEF s, u, m, n, a, e, r
    <3> QED BY <2>1, <2>2, <3>1
  <2>4. settled' = s /\ Unsettled' = u + a /\ CommittedCash' = (m - e) + 0 /\ net(trades)' = n + r
    BY <1>2, <1>11, <1>12, <1>13
  <2> QED BY <2>3, <2>4 DEF CashConserved
<1>15. Booked'
  <2>1. HeldKeys' = HeldKeys \ {k} /\ ReservedKeys' = ReservedKeys
    BY <1>1, <1>2, <1>3, <1>10 DEF HeldKeys, ReservedKeys, AccountOK
  <2>2. \A j \in HeldKeys \ {k} : positions'[j] = positions[j]
    BY <1>1, <1>2 DEF HeldKeys, AccountOK
  <2> QED BY <1>1, <1>2, <2>1, <2>2 DEF Booked
<1>16. Fresh'
  <2>1. tradeOrdinal \in Nat /\ tradeOrdinal' = tradeOrdinal + 1
    BY <1>1, <1>2 DEF AccountOK
  <2>2. \A u \in credits : u.trade \in Nat /\ u.trade < tradeOrdinal
    BY <1>1 DEF Fresh, AccountOK, Credits
  <2>3. \A u \in trades : u.ordinal \in Nat /\ u.ordinal < tradeOrdinal
    BY <1>1 DEF Fresh, AccountOK, Trades
  <2>4. \A u \in credits' : u.trade < tradeOrdinal'
    BY <1>2, <1>5, <2>1, <2>2
  <2>5. \A u \in trades' : u.ordinal < tradeOrdinal'
    BY <1>2, <1>5, <2>1, <2>3
  <2> QED BY <2>4, <2>5 DEF Fresh
<1> QED BY <1>1, <1>14, <1>15, <1>16 DEF AccountInv

\* reject() moves no cash.
LEMMA RejectInv ==
  ASSUME AccountInv, NEW i \in Intents, NEW reason \in RejectionReasons, NEW ts \in Nat,
         Reject(i, reason, ts)
  PROVE  AccountInv'
<1>1. AccountOK /\ AccountOK' /\ Booked /\ Fresh /\ CashConserved
  BY RejectTyped DEF AccountInv
<1>2. UNCHANGED <<settled, credits, positions, reserved, trades, tradeOrdinal>>
  BY DEF Reject
<1>3. CommittedCash' = CommittedCash
  BY <1>2, CommittedSame DEF CommittedAt
<1>4. CashConserved'
  BY <1>1, <1>2, <1>3 DEF CashConserved, Unsettled
<1>5. Booked' /\ Fresh'
  BY <1>1, <1>2 DEF Booked, Fresh, HeldKeys, ReservedKeys
<1> QED BY <1>1, <1>4, <1>5 DEF AccountInv

\* A step that changes only what positions have seen, or the levels they are
\* protected at, moves no cash and opens or closes none.
LEMMA RepositionInv ==
  ASSUME AccountInv, positions' \in [Keys -> Positions \cup {None}],
         \A k \in Keys : positions[k] = None => positions'[k] = None,
         \A k \in HeldKeys : positions'[k] # None /\ SameEntry(positions'[k], positions[k]),
         UNCHANGED <<settled, credits, reserved, trades, rejections, tradeOrdinal,
                     rejectionOrdinal>>
  PROVE  AccountInv' /\ HeldKeys' = HeldKeys
<1>1. AccountOK /\ AccountOK' /\ Booked /\ Fresh /\ CashConserved
  BY DEF AccountInv, AccountOK
<1>2. CommittedCash' = CommittedCash
  <2>1. ASSUME NEW k \in Keys PROVE CommittedAt(k)' = CommittedAt(k)
    <3>1. CASE positions[k] = None
      BY <3>1 DEF CommittedAt
    <3>2. CASE positions[k] # None
      <4>1. positions'[k] # None /\ EntryCost(positions'[k]) = EntryCost(positions[k])
        BY <3>2 DEF HeldKeys, SameEntry, EntryCost
      <4> QED BY <3>2, <4>1 DEF CommittedAt
    <3> QED BY <3>1, <3>2
  <2> QED BY <2>1, CommittedSame
<1>3. CashConserved'
  BY <1>1, <1>2 DEF CashConserved, Unsettled
<1>4. HeldKeys' = HeldKeys /\ ReservedKeys' = ReservedKeys
  BY DEF HeldKeys, ReservedKeys
<1>5. Booked'
  BY <1>1, <1>4 DEF Booked, SameEntry
<1>6. Fresh'
  BY <1>1 DEF Fresh
<1> QED BY <1>1, <1>3, <1>4, <1>5, <1>6 DEF AccountInv

-----------------------------------------------------------------------------

\* A step that leaves the account alone keeps its invariant.
LEMMA StutterInv ==
  ASSUME AccountInv, UNCHANGED ledgerVars
  PROVE  AccountInv' /\ HeldKeys' = HeldKeys /\ ReservedKeys' = ReservedKeys
<1>1. CommittedCash' = CommittedCash
  BY CommittedSame DEF CommittedAt, ledgerVars
<1>2. AccountOK' /\ CashConserved'
  BY <1>1, AccountUnchanged DEF AccountInv, CashConserved, Unsettled, ledgerVars
<1>3. HeldKeys' = HeldKeys /\ ReservedKeys' = ReservedKeys
  BY DEF HeldKeys, ReservedKeys, ledgerVars
<1>4. Booked' /\ Fresh'
  BY <1>3 DEF AccountInv, Booked, Fresh, ledgerVars
<1> QED BY <1>2, <1>3, <1>4 DEF AccountInv

\* A held key has a position of its own.
LEMMA HeldPosition ==
  ASSUME AccountInv, NEW k \in HeldKeys
  PROVE  k \in Keys /\ positions[k] \in Positions /\ positions[k].intent.key = k
  BY DEF AccountInv, AccountOK, Booked, HeldKeys

\* observe() changes nothing a position's cost is computed from.
LEMMA ObservedSame ==
  ASSUME NEW p \in Positions, NEW h, NEW l
  PROVE  SameEntry(Observed(p, h, l), p)
  BY DEF Observed, SameEntry, Positions

\* adjust() changes nothing a position's cost is computed from.
LEMMA AdjustedSame ==
  ASSUME NEW p \in Positions, NEW s, NEW t
  PROVE  SameEntry(Adjusted(p, s, t), p)
  BY DEF Adjusted, SameEntry, Positions

\* _settle_out of a held key balances the books and frees that key alone.
LEMMA SettleOutInv ==
  ASSUME AccountInv, NEW k \in HeldKeys, NEW p \in Positions, SameEntry(p, positions[k]),
         NEW ref \in Int, NEW ts \in Nat, NEW reason \in ExitReasons,
         SettleOut(p, ref, ts, reason)
  PROVE  AccountInv' /\ HeldKeys' = HeldKeys \ {k} /\ ReservedKeys' = ReservedKeys
<1>1. k \in Keys /\ p.intent.key = k
  BY HeldPosition DEF SameEntry
<1>2. ExitFill(p.intent.dir, ref) \in Int /\ Close(p, ExitFill(p.intent.dir, ref), ts, reason)
  BY FillTyped DEF SettleOut
<1>3. AccountInv'
  BY <1>1, <1>2, CloseInv
<1>4. positions' = [positions EXCEPT ![k] = None] /\ UNCHANGED reserved
  BY <1>1, <1>2 DEF Close
<1>5. HeldKeys' = HeldKeys \ {k} /\ ReservedKeys' = ReservedKeys
  BY <1>1, <1>4 DEF HeldKeys, ReservedKeys, AccountInv, AccountOK
<1> QED BY <1>3, <1>5

-----------------------------------------------------------------------------

\* What the chronology adds: a step visits only keys that still have what it
\* acts on, and a reservation lives from one candidate's verdict to its fill.
Visiting ==
  /\ \A k \in PendingKeys : pending[k].key = k
  /\ phase \in {"gap", "protect", "manage", "liquidate"} => visit \subseteq HeldKeys
  /\ phase \in {"fund", "fill", "expire"} => visit \subseteq PendingKeys
  /\ phase # "fill" => ReservedKeys = {}
  /\ \A j, k \in ReservedKeys : j = k

\* The inductive invariant of the replay.
IInv == AccountInv /\ RunOK /\ Visiting

\* What an intrabar exit has seen leaves a position of the same entry.
LEMMA SeenTyped ==
  ASSUME NEW p \in Positions, bars \in [Symbols -> Bars], NEW k \in Keys
  PROVE  /\ SeenByExit(p, BarOf(k), ProtectiveExit(p, BarOf(k))) \in Positions
         /\ SameEntry(SeenByExit(p, BarOf(k), ProtectiveExit(p, BarOf(k))), p)
<1> DEFINE hit     == ProtectiveExit(p, BarOf(k))
           opened  == Observed(p, BarOf(k).open, BarOf(k).open)
           leveled == Observed(opened, hit.at, hit.at)
           adverse == Worst(p.intent.dir, BarOf(k))
           lived   == Observed(leveled, adverse, adverse)
           seen    == SeenByExit(p, BarOf(k), hit)
<1>1. BarOf(k).open \in Int /\ adverse \in Int /\ hit.at \in Int
  BY BarTyped, HitTyped DEF Worst
<1>2. opened \in Positions /\ SameEntry(opened, p)
  BY <1>1, ObservedTyped, ObservedSame
<1>3. leveled \in Positions /\ SameEntry(leveled, opened)
  <2> HIDE DEF opened, hit
  <2> QED BY <1>1, <1>2, ObservedTyped, ObservedSame
<1>4. lived \in Positions /\ SameEntry(lived, leveled)
  <2> HIDE DEF leveled, adverse
  <2> QED BY <1>1, <1>3, ObservedTyped, ObservedSame
<1>5. seen = lived \/ seen = leveled
  BY DEF SeenByExit
<1>6. seen \in Positions /\ SameEntry(seen, p)
  <2> HIDE DEF opened, leveled, lived, seen
  <2> QED BY <1>2, <1>3, <1>4, <1>5 DEF SameEntry
<1> QED BY <1>6

\* A seated intent sits under its own key.
LEMMA PendingIntent ==
  ASSUME RunOK, Visiting, NEW k \in PendingKeys
  PROVE  k \in Keys /\ pending[k] \in Intents /\ pending[k].key = k
  BY DEF RunOK, Visiting, PendingKeys

\* pop() empties one seat and no other.
LEMMA UnseatPending ==
  ASSUME RunOK, NEW k \in Keys, Unseat(k)
  PROVE  /\ pending' \in [Keys -> Intents \cup {None}]
         /\ PendingKeys' = PendingKeys \ {k}
         /\ \A j \in PendingKeys \ {k} : pending'[j] = pending[j]
  BY DEF RunOK, Unseat, PendingKeys

\* The invariant survives _gap_exits.
LEMMA GapExitInv == ASSUME IInv, NEW k \in Keys, GapExit(k) PROVE IInv'
<1> DEFINE p == positions[k]
           hit == ProtectiveExit(p, BarOf(k))
<1>1. AccountInv /\ RunOK /\ Visiting /\ phase = "gap" /\ k \in visit /\ k \in HeldKeys
  BY DEF IInv, GapExit, NextPosition, FirstOf, Visiting
<1>2. p \in Positions /\ hit.at \in Int /\ OpenTs[now] \in Nat
  BY <1>1, HeldPosition, HitTyped, ClockTyped DEF RunOK
<1>3. AccountInv' /\ HeldKeys \ {k} \subseteq HeldKeys' /\ ReservedKeys' = ReservedKeys
  <2>1. CASE LeavesAtOpen(hit)
    <3>1. SettleOut(Observed(p, hit.at, hit.at), hit.at, OpenTs[now], hit.reason)
      BY <2>1 DEF GapExit
    <3>2. hit.reason \in ExitReasons
      BY <2>1 DEF LeavesAtOpen, GapReasons, ExitReasons
    <3>3. Observed(p, hit.at, hit.at) \in Positions /\ SameEntry(Observed(p, hit.at, hit.at), p)
      BY <1>2, ObservedTyped, ObservedSame
    <3> HIDE DEF hit
    <3> QED BY <1>1, <1>2, <3>1, <3>2, <3>3, SettleOutInv
  <2>2. CASE ~ LeavesAtOpen(hit)
    <3>1. UNCHANGED ledgerVars
      BY <2>2 DEF GapExit
    <3> QED BY <1>1, <3>1, StutterInv
  <2> QED BY <2>1, <2>2
<1>4. visit' = visit \ {k} /\ UNCHANGED <<phase, now, bars, frozen, pending, signalOrdinal, marks, refusal>>
  BY DEF GapExit
<1>5. RunOK'
  BY <1>1, <1>4 DEF RunOK
<1>6. Visiting'
  BY <1>1, <1>3, <1>4 DEF Visiting, PendingKeys
<1> QED BY <1>3, <1>5, <1>6 DEF IInv

\* The invariant survives _fund, up to its verdict.
LEMMA FundInv == ASSUME IInv, NEW k \in Keys, Fund(k) PROVE IInv'
<1> DEFINE p == ProposalFor(k)
<1>1. AccountInv /\ RunOK /\ Visiting /\ phase = "fund" /\ k \in visit /\ k \in PendingKeys
      /\ ReservedKeys = {}
  BY DEF IInv, Fund, NextIntent, FirstOf, Visiting
<1>2. pending[k] \in Intents /\ pending[k].key = k /\ OpenTs[now] \in Nat
  BY <1>1, PendingIntent, ClockTyped
<1>3. p \in Proposals /\ p.intent = pending[k] /\ p.fee = Charge(p.qty)
      /\ p.required = p.qty * p.fill + p.fee
  <2>1. BarOf(k).open \in Int /\ frozen \in Int
    BY <1>1, BarTyped DEF RunOK
  <2>2. p \in Proposals
    BY <1>2, <2>1, ProposalTyped DEF ProposalFor
  <2> QED BY <2>2 DEF ProposalFor, Propose
<1> HIDE DEF p
<1>4. /\ visit' = visit \ {k}
      /\ UNCHANGED <<now, bars, frozen, signalOrdinal, marks, refusal>>
      /\ Unseat(k)
      /\ \/ Verdict(p) = "accepted" /\ Reserve(p) /\ phase' = "fill"
         \/ Verdict(p) # "accepted" /\ Reject(pending[k], Verdict(p), OpenTs[now]) /\ phase' = phase
  BY DEF Fund, p
<1>5. /\ pending' \in [Keys -> Intents \cup {None}]
      /\ PendingKeys' = PendingKeys \ {k}
      /\ \A j \in PendingKeys \ {k} : pending'[j] = pending[j]
  BY <1>1, <1>4, UnseatPending
<1>6. CASE Verdict(p) = "accepted"
  <2>1. Reserve(p) /\ phase' = "fill"
    BY <1>4, <1>6
  <2>2. AccountInv'
    BY <1>1, <1>3, <2>1, ReserveInv
  <2>3. ReservedKeys' = {k}
    BY <1>1, <1>2, <1>3, <2>1, NoneAssumption DEF Reserve, ReservedKeys, AccountInv, AccountOK
  <2>4. RunOK'
    BY <1>1, <1>4, <1>5, <2>1 DEF RunOK, Phases
  <2>5. Visiting'
    BY <1>1, <1>4, <1>5, <2>1, <2>3 DEF Visiting
  <2> QED BY <2>2, <2>4, <2>5 DEF IInv
<1>7. CASE Verdict(p) # "accepted"
  <2>1. Reject(pending[k], Verdict(p), OpenTs[now]) /\ phase' = phase
    BY <1>4, <1>7
  <2>2. Verdict(p) \in RejectionReasons
    BY <1>7 DEF Verdict, RejectionReasons
  <2>3. AccountInv'
    BY <1>1, <1>2, <2>1, <2>2, RejectInv
  <2>4. ReservedKeys' = {}
    BY <1>1, <2>1 DEF Reject, ReservedKeys
  <2>5. RunOK'
    BY <1>1, <1>4, <1>5, <2>1 DEF RunOK
  <2>6. Visiting'
    BY <1>1, <1>4, <1>5, <2>1, <2>4 DEF Visiting
  <2> QED BY <2>3, <2>5, <2>6 DEF IInv
<1> QED BY <1>6, <1>7

\* The invariant survives _fund, filling what it accepted.
LEMMA FillInv == ASSUME IInv, NEW k \in Keys, Fill(k) PROVE IInv'
<1>1. AccountInv /\ RunOK /\ Visiting /\ phase = "fill" /\ k \in ReservedKeys
  BY DEF IInv, Fill, ReservedKeys
<1>2. reserved[k] \in Proposals /\ reserved[k].intent.key = k /\ OpenTs[now] \in Nat
  BY <1>1, ClockTyped DEF AccountInv, AccountOK, Booked, ReservedKeys
<1>3. Open(reserved[k], OpenTs[now])
  BY DEF Fill
<1>4. AccountInv'
  BY <1>1, <1>2, <1>3, OpenInv
<1>5. ReservedKeys' = {}
  <2>1. reserved' = [reserved EXCEPT ![k] = None]
    BY <1>2, <1>3 DEF Open
  <2> QED BY <1>1, <2>1 DEF Visiting, ReservedKeys, AccountInv, AccountOK
<1>6. /\ phase' = "fund"
      /\ UNCHANGED <<now, bars, visit, frozen, pending, signalOrdinal, marks, refusal>>
  BY DEF Fill
<1>7. RunOK'
  BY <1>1, <1>6 DEF RunOK, Phases
<1>8. Visiting'
  BY <1>1, <1>5, <1>6 DEF Visiting, PendingKeys
<1> QED BY <1>4, <1>7, <1>8 DEF IInv

\* The invariant survives _protect.
LEMMA ProtectInv == ASSUME IInv, NEW k \in Keys, Protect(k) PROVE IInv'
<1> DEFINE p == positions[k]
           hit == ProtectiveExit(p, BarOf(k))
<1>1. AccountInv /\ RunOK /\ Visiting /\ phase = "protect" /\ k \in visit /\ k \in HeldKeys
  BY DEF IInv, Protect, NextPosition, FirstOf, Visiting
<1>2. p \in Positions /\ hit.at \in Int /\ CloseTs[now] \in Nat
  BY <1>1, HeldPosition, HitTyped, ClockTyped DEF RunOK
<1>3. AccountInv' /\ HeldKeys \ {k} \subseteq HeldKeys' /\ ReservedKeys' = ReservedKeys
  <2>1. CASE hit.reason \in {"stop", "target"}
    <3> DEFINE q == SeenByExit(p, BarOf(k), hit)
    <3>1. SettleOut(q, hit.at, CloseTs[now], hit.reason)
      BY <2>1 DEF Protect
    <3>2. hit.reason \in ExitReasons
      BY <2>1 DEF ExitReasons
    <3>3. q \in Positions /\ SameEntry(q, p)
      BY <1>1, <1>2, SeenTyped DEF RunOK
    <3> HIDE DEF hit, q
    <3> QED BY <1>1, <1>2, <3>1, <3>2, <3>3, SettleOutInv
  <2>2. CASE hit.reason \notin {"stop", "target"}
    <3>1. UNCHANGED ledgerVars
      BY <2>2 DEF Protect
    <3> QED BY <1>1, <3>1, StutterInv
  <2> QED BY <2>1, <2>2
<1>4. visit' = visit \ {k} /\ UNCHANGED <<phase, now, bars, frozen, pending, signalOrdinal, marks, refusal>>
  BY DEF Protect
<1>5. RunOK'
  BY <1>1, <1>4 DEF RunOK
<1>6. Visiting'
  BY <1>1, <1>3, <1>4 DEF Visiting, PendingKeys
<1> QED BY <1>3, <1>5, <1>6 DEF IInv

\* The invariant survives _protect, observing the survivors.
LEMMA ObserveInv == ASSUME IInv, ObserveSurvivors PROVE IInv'
<1>1. AccountInv /\ RunOK /\ Visiting /\ phase = "observe"
  BY DEF IInv, ObserveSurvivors
<1>2. ASSUME NEW k \in Keys, positions[k] # None
      PROVE  /\ positions'[k] = Observed(positions[k], BarOf(k).high, BarOf(k).low)
             /\ positions'[k] \in Positions /\ SameEntry(positions'[k], positions[k])
  <2>1. positions[k] \in Positions
    BY <1>1, <1>2 DEF AccountInv, AccountOK
  <2>2. BarOf(k).high \in Int /\ BarOf(k).low \in Int
    BY <1>1, BarTyped DEF RunOK
  <2>3. positions'[k] = Observed(positions[k], BarOf(k).high, BarOf(k).low)
    BY <1>2 DEF ObserveSurvivors
  <2> QED BY <2>1, <2>2, <2>3, ObservedTyped, ObservedSame
<1>3. \A k \in Keys : positions[k] = None => positions'[k] = None
  BY DEF ObserveSurvivors
<1>4. positions' \in [Keys -> Positions \cup {None}]
  <2>1. positions' = [k \in Keys |-> positions'[k]]
    BY DEF ObserveSurvivors
  <2>2. \A k \in Keys : positions'[k] \in Positions \cup {None}
    BY <1>2, <1>3
  <2> QED BY <2>1, <2>2
<1>5. \A k \in HeldKeys : positions'[k] # None /\ SameEntry(positions'[k], positions[k])
  BY <1>2, NoneAssumption DEF HeldKeys
<1>6. /\ phase' = "manage" /\ visit' = HeldKeys
      /\ UNCHANGED <<settled, credits, reserved, trades, rejections, tradeOrdinal,
                     rejectionOrdinal>>
      /\ UNCHANGED <<now, bars, frozen, pending, signalOrdinal, marks, refusal>>
  BY DEF ObserveSurvivors
<1>7. AccountInv' /\ HeldKeys' = HeldKeys
  BY <1>1, <1>3, <1>4, <1>5, <1>6, RepositionInv
<1>8. RunOK'
  BY <1>1, <1>6 DEF RunOK, Phases, HeldKeys
<1>9. Visiting'
  BY <1>1, <1>6, <1>7 DEF Visiting, PendingKeys, ReservedKeys
<1> QED BY <1>7, <1>8, <1>9 DEF IInv

\* The invariant survives _manage.
LEMMA ManageInv ==
  ASSUME IInv, NEW k \in Keys, NEW d \in Decisions, Manage(k, d) PROVE IInv'
<1> DEFINE p == Adjusted(positions[k], d.stop, d.target)
<1>1. AccountInv /\ RunOK /\ Visiting /\ phase = "manage" /\ k \in visit /\ k \in HeldKeys
  BY DEF IInv, Manage, NextPosition, FirstOf, Visiting
<1>2. positions[k] \in Positions /\ BarOf(k).close \in Int /\ CloseTs[now] \in Nat
  BY <1>1, HeldPosition, BarTyped, ClockTyped DEF RunOK
<1>3. p \in Positions /\ SameEntry(p, positions[k])
  BY <1>2, AdjustedTyped, AdjustedSame
<1>4. /\ visit' = visit \ {k}
      /\ UNCHANGED <<phase, now, bars, frozen, pending, signalOrdinal, marks, refusal>>
      /\ \/ SettleOut(p, BarOf(k).close, CloseTs[now], "manage")
         \/ /\ positions' = [positions EXCEPT ![k] = p]
            /\ UNCHANGED <<settled, credits, reserved, trades, rejections, tradeOrdinal,
                           rejectionOrdinal>>
  BY DEF Manage
<1> HIDE DEF p
<1>5. AccountInv' /\ HeldKeys \ {k} \subseteq HeldKeys' /\ ReservedKeys' = ReservedKeys
  <2>1. CASE SettleOut(p, BarOf(k).close, CloseTs[now], "manage")
    <3>1. "manage" \in ExitReasons
      BY DEF ExitReasons
    <3> QED BY <1>1, <1>2, <1>3, <2>1, <3>1, SettleOutInv
  <2>2. CASE /\ positions' = [positions EXCEPT ![k] = p]
             /\ UNCHANGED <<settled, credits, reserved, trades, rejections, tradeOrdinal,
                            rejectionOrdinal>>
    <3>1. positions \in [Keys -> Positions \cup {None}] /\ \A j \in HeldKeys : positions[j] \in Positions
      BY <1>1 DEF AccountInv, AccountOK, HeldKeys
    <3>2. positions' \in [Keys -> Positions \cup {None}]
      BY <1>3, <2>2, <3>1
    <3>3. \A j \in Keys : positions[j] = None => positions'[j] = None
      BY <1>1, <2>2, <3>1 DEF HeldKeys
    <3>4. ASSUME NEW j \in HeldKeys
          PROVE  positions'[j] # None /\ SameEntry(positions'[j], positions[j])
      <4>1. CASE j = k
        BY <1>1, <1>3, <2>2, <3>1, <4>1, NoneAssumption
      <4>2. CASE j # k
        <5>1. positions'[j] = positions[j] /\ positions[j] # None
          BY <2>2, <3>1, <4>2 DEF HeldKeys
        <5> QED BY <5>1 DEF SameEntry
      <4> QED BY <4>1, <4>2
    <3>5. AccountInv' /\ HeldKeys' = HeldKeys
      BY <1>1, <2>2, <3>2, <3>3, <3>4, RepositionInv
    <3> QED BY <2>2, <3>5 DEF ReservedKeys
  <2> QED BY <1>4, <2>1, <2>2
<1>6. RunOK'
  BY <1>1, <1>4 DEF RunOK
<1>7. Visiting'
  BY <1>1, <1>4, <1>5 DEF Visiting, PendingKeys
<1> QED BY <1>5, <1>6, <1>7 DEF IInv

\* The invariant survives _record_signal.
LEMMA RecordSignalInv ==
  ASSUME IInv, NEW k \in Keys, NEW s \in SignalShapes, RecordSignal(k, s) PROVE IInv'
<1> DEFINE i == IntentFrom(k, s)
<1>1. AccountInv /\ RunOK /\ Visiting /\ phase = "evaluate" /\ ReservedKeys = {}
  BY DEF IInv, RecordSignal, Visiting
<1>2. i \in Intents /\ i.key = k /\ CloseTs[now] \in Nat
  BY <1>1, IntentTyped, TypeParts, ClockTyped DEF AccountInv, IntentFrom
<1>3. /\ signalOrdinal' = signalOrdinal + 1
      /\ UNCHANGED <<phase, now, bars, visit, frozen, marks, refusal>>
      /\ \/ \E reason \in RejectionReasons : Reject(i, reason, CloseTs[now]) /\ UNCHANGED pending
         \/ pending' = [pending EXCEPT ![k] = i] /\ UNCHANGED ledgerVars
  BY DEF RecordSignal, RejectionReasons
<1> HIDE DEF i
<1>4. AccountInv' /\ ReservedKeys' = {}
  <2>1. CASE \E reason \in RejectionReasons : Reject(i, reason, CloseTs[now])
    <3>1. PICK reason \in RejectionReasons : Reject(i, reason, CloseTs[now])
      BY <2>1
    <3>2. AccountInv'
      BY <1>1, <1>2, <3>1, RejectInv
    <3> QED BY <1>1, <3>1, <3>2 DEF Reject, ReservedKeys
  <2>2. CASE UNCHANGED ledgerVars
    BY <1>1, <2>2, StutterInv
  <2> QED BY <1>3, <2>1, <2>2
<1>5. pending' \in [Keys -> Intents \cup {None}] /\ \A j \in PendingKeys' : pending'[j].key = j
  BY <1>1, <1>2, <1>3 DEF RunOK, Visiting, PendingKeys
<1>6. signalOrdinal' \in Nat
  BY <1>1, <1>3 DEF RunOK
<1>7. RunOK'
  BY <1>1, <1>3, <1>5, <1>6 DEF RunOK
<1>8. Visiting'
  BY <1>1, <1>3, <1>4, <1>5 DEF Visiting
<1> QED BY <1>4, <1>7, <1>8 DEF IInv

\* The invariant survives _evaluate, moving on.
LEMMA EvaluatedInv == ASSUME IInv, NEW k \in Keys, Evaluated(k) PROVE IInv'
<1>1. AccountInv' /\ ReservedKeys' = ReservedKeys
  BY StutterInv DEF IInv, Evaluated
<1>2. RunOK'
  BY DEF IInv, Evaluated, RunOK
<1>3. Visiting'
  BY <1>1 DEF IInv, Evaluated, Visiting, PendingKeys
<1> QED BY <1>1, <1>2, <1>3 DEF IInv

\* The invariant survives a step that has visited everything.
LEMMA FinishStepInv == ASSUME IInv, FinishStep PROVE IInv'
<1>1. AccountInv' /\ HeldKeys' = HeldKeys /\ ReservedKeys' = ReservedKeys
  BY StutterInv DEF IInv, FinishStep
<1>2. visit' \subseteq Keys /\ phase' \in Phases
  BY DEF FinishStep, Phases, Eligible, PendingKeys, HeldKeys
<1>3. RunOK'
  BY <1>2 DEF IInv, FinishStep, RunOK
<1>4. Visiting'
  <2>1. UNCHANGED pending /\ phase # "fill" /\ phase' # "fill" /\ Visiting /\ visit = {}
    BY DEF IInv, FinishStep
  <2>2. PendingKeys' = PendingKeys /\ Eligible \subseteq PendingKeys
    BY <2>1 DEF PendingKeys, Eligible
  <2>3. phase' \in {"gap", "protect", "manage", "liquidate"} => visit' \subseteq HeldKeys
    BY DEF FinishStep
  <2>4. phase' \in {"fund", "fill", "expire"} => visit' \subseteq PendingKeys
    BY <2>2 DEF FinishStep
  <2> QED BY <1>1, <2>1, <2>2, <2>3, <2>4 DEF Visiting
<1> QED BY <1>1, <1>3, <1>4 DEF IInv

\* The invariant survives the close mark of run().
LEMMA CloseMarkInv == ASSUME IInv, CloseMark PROVE IInv'
<1>1. AccountInv' /\ ReservedKeys' = ReservedKeys
  BY StutterInv DEF IInv, CloseMark
<1>2. marks' \in Seq(Nat \X Int)
  <2>1. CloseTs[now] \in Nat /\ ClosePrices \in [Symbols -> Nat \ {0}]
    BY ClockTyped, PricesTyped DEF IInv, RunOK
  <2> QED BY <2>1, MarkTyped DEF IInv, AccountInv, CloseMark
<1>3. now' \in 1..NTest
  <2>1. now \in 1..NTest /\ NTest \in Nat
    BY ScheduleAssumption DEF IInv, RunOK
  <2>2. (now < NTest /\ now' = now + 1) \/ now' = now
    BY DEF CloseMark
  <2> QED BY <2>1, <2>2
<1>4. bars' \in [Symbols -> Bars] /\ visit' \subseteq Keys /\ phase' \in Phases
  BY DEF IInv, CloseMark, RunOK, PendingKeys, Phases
<1>5. RunOK'
  <2>1. UNCHANGED <<frozen, pending, signalOrdinal, refusal>>
    BY DEF CloseMark
  <2> QED BY <1>2, <1>3, <1>4, <2>1 DEF IInv, RunOK
<1>6. Visiting'
  <2>1. phase = "mark" /\ UNCHANGED pending /\ phase' \in {"settle", "expire"}
        /\ (phase' = "expire" => visit' = PendingKeys)
    BY DEF CloseMark
  <2> QED BY <1>1, <2>1 DEF IInv, Visiting, PendingKeys
<1> QED BY <1>1, <1>5, <1>6 DEF IInv

\* The invariant survives the expiry sweep of _close_window.
LEMMA ExpireInv == ASSUME IInv, NEW k \in Keys, Expire(k) PROVE IInv'
<1>1. AccountInv /\ RunOK /\ Visiting /\ phase = "expire" /\ k \in PendingKeys
      /\ ReservedKeys = {} /\ visit \subseteq PendingKeys
  BY DEF IInv, Expire, NextIntent, FirstOf, Visiting
<1>2. pending[k] \in Intents /\ TestEnd \in Nat /\ "window_ended" \in RejectionReasons
  BY <1>1, PendingIntent, ClockTyped DEF RejectionReasons
<1>3. /\ Reject(pending[k], "window_ended", TestEnd) /\ Unseat(k)
      /\ visit' = visit \ {k}
      /\ UNCHANGED <<phase, now, bars, frozen, signalOrdinal, marks, refusal>>
  BY DEF Expire
<1>4. AccountInv' /\ ReservedKeys' = {}
  BY <1>1, <1>2, <1>3, RejectInv DEF Reject, ReservedKeys
<1>5. /\ pending' \in [Keys -> Intents \cup {None}]
      /\ PendingKeys' = PendingKeys \ {k}
      /\ \A j \in PendingKeys \ {k} : pending'[j] = pending[j]
  BY <1>1, <1>3, UnseatPending
<1>6. RunOK'
  BY <1>1, <1>3, <1>5 DEF RunOK
<1>7. Visiting'
  BY <1>1, <1>3, <1>4, <1>5 DEF Visiting
<1> QED BY <1>4, <1>6, <1>7 DEF IInv

\* The invariant survives the liquidation of _close_window.
LEMMA LiquidateInv == ASSUME IInv, NEW k \in Keys, Liquidate(k) PROVE IInv'
<1>1. AccountInv /\ RunOK /\ Visiting /\ phase = "liquidate" /\ k \in visit /\ k \in HeldKeys
  BY DEF IInv, Liquidate, NextPosition, FirstOf, Visiting
<1>2. positions[k] \in Positions /\ BarOf(k).close \in Int /\ TestEnd \in Nat
      /\ "end_of_window" \in ExitReasons /\ SameEntry(positions[k], positions[k])
  BY <1>1, HeldPosition, BarTyped, ClockTyped DEF RunOK, ExitReasons, SameEntry
<1>3. /\ SettleOut(positions[k], BarOf(k).close, TestEnd, "end_of_window")
      /\ visit' = visit \ {k}
      /\ UNCHANGED <<phase, now, bars, frozen, pending, signalOrdinal, marks, refusal>>
  BY DEF Liquidate
<1>4. AccountInv' /\ HeldKeys' = HeldKeys \ {k} /\ ReservedKeys' = ReservedKeys
  BY <1>1, <1>2, <1>3, SettleOutInv
<1>5. RunOK'
  BY <1>1, <1>3 DEF RunOK
<1>6. Visiting'
  BY <1>1, <1>3, <1>4 DEF Visiting, PendingKeys
<1> QED BY <1>4, <1>5, <1>6 DEF IInv

\* The invariant survives the last mark of _close_window.
LEMMA FinalMarkInv == ASSUME IInv, FinalMark PROVE IInv'
<1>1. AccountInv' /\ ReservedKeys' = ReservedKeys
  BY StutterInv DEF IInv, FinalMark
<1>2. marks' \in Seq(Nat \X Int)
  <2>1. TestEnd \in Nat /\ ClosePrices \in [Symbols -> Nat \ {0}]
    BY ClockTyped, PricesTyped DEF IInv, RunOK
  <2> QED BY <2>1, MarkTyped DEF IInv, AccountInv, FinalMark
<1>3. RunOK'
  BY <1>2 DEF IInv, FinalMark, RunOK, Phases
<1>4. Visiting'
  BY <1>1 DEF IInv, FinalMark, Visiting, PendingKeys
<1> QED BY <1>1, <1>3, <1>4 DEF IInv

\* The invariant survives the opening mark of run().
LEMMA OpeningMarkInv == ASSUME IInv, OpeningMark PROVE IInv'
<1>1. AccountInv' /\ ReservedKeys' = ReservedKeys
  BY StutterInv DEF IInv, OpeningMark
<1>2. marks' \in Seq(Nat \X Int)
  <2>1. TestStart \in Nat /\ OpenPrices \in [Symbols -> Nat \ {0}]
    BY ClockTyped, PricesTyped DEF IInv, RunOK
  <2> QED BY <2>1, MarkTyped DEF IInv, AccountInv, OpeningMark
<1>3. RunOK'
  BY <1>2 DEF IInv, OpeningMark, RunOK, Phases
<1>4. Visiting'
  BY <1>1 DEF IInv, OpeningMark, Visiting, PendingKeys
<1> QED BY <1>1, <1>3, <1>4 DEF IInv

\* The invariant survives the settlement of run().
LEMMA SettleAtOpenInv == ASSUME IInv, SettleAtOpen PROVE IInv'
<1>1. SettleDue(DateOf(OpenTs[now]))
  BY DEF SettleAtOpen
<1>2. AccountInv'
  BY <1>1, SettleDueInv DEF IInv
<1>3. ReservedKeys' = ReservedKeys
  BY <1>1 DEF SettleDue, ReservedKeys
<1>4. RunOK'
  BY DEF IInv, SettleAtOpen, RunOK, Phases
<1>5. Visiting'
  BY <1>3 DEF IInv, SettleAtOpen, Visiting, PendingKeys
<1> QED BY <1>2, <1>4, <1>5 DEF IInv

\* The invariant survives _freeze.
LEMMA FreezeInv == ASSUME IInv, Freeze PROVE IInv'
<1>1. AccountInv' /\ HeldKeys' = HeldKeys /\ ReservedKeys' = ReservedKeys
  BY StutterInv DEF IInv, Freeze
<1>2. frozen' \in Int
  <2>1. OpenPrices \in [Symbols -> Nat \ {0}] /\ TypeOK /\ Books
    BY PricesTyped, TypeParts DEF IInv, AccountInv, RunOK
  <2> QED BY <2>1, EquityTyped DEF Freeze
<1>3. RunOK'
  BY <1>2 DEF IInv, Freeze, RunOK, Phases, HeldKeys
<1>4. Visiting'
  BY <1>1 DEF IInv, Freeze, Visiting, PendingKeys
<1> QED BY <1>1, <1>3, <1>4 DEF IInv

\* The invariant survives an abandoned replay.
LEMMA AbortInv ==
  ASSUME IInv, NEW reason \in Refusals, Abort(reason), phase # "fill" PROVE IInv'
<1>1. AccountInv' /\ ReservedKeys' = ReservedKeys
  BY StutterInv DEF IInv, Abort
<1>2. RunOK'
  BY DEF IInv, Abort, RunOK, Phases
<1>3. Visiting'
  BY <1>1 DEF IInv, Abort, Visiting, PendingKeys
<1> QED BY <1>1, <1>2, <1>3 DEF IInv

\* The invariant survives a stuttering step.
LEMMA StopInv == ASSUME IInv, UNCHANGED vars PROVE IInv'
<1>1. AccountInv' /\ HeldKeys' = HeldKeys /\ ReservedKeys' = ReservedKeys
  BY StutterInv DEF IInv, vars
<1>2. UNCHANGED <<phase, now, bars, visit, frozen, pending, signalOrdinal, marks, refusal>>
  BY DEF vars, runVars
<1>3. RunOK' /\ Visiting'
  BY <1>1, <1>2 DEF IInv, RunOK, Visiting, PendingKeys
<1> QED BY <1>1, <1>3 DEF IInv

-----------------------------------------------------------------------------

\* A new replay satisfies the invariant.
LEMMA InitInv == Init => IInv
<1> SUFFICES ASSUME Init PROVE IInv
  OBVIOUS
<1>1. /\ settled = StartingEquity /\ credits = {} /\ trades = {} /\ rejections = {}
      /\ positions = [k \in Keys |-> None] /\ reserved = [k \in Keys |-> None]
      /\ pending = [k \in Keys |-> None]
      /\ tradeOrdinal = 0 /\ rejectionOrdinal = 0
  BY DEF Init, LedgerInit
<1>2. HeldKeys = {} /\ ReservedKeys = {} /\ PendingKeys = {}
  BY <1>1 DEF HeldKeys, ReservedKeys, PendingKeys
<1>3. AccountOK
  BY <1>1, AccountAssumption, FS_EmptySet DEF AccountOK
<1>4. CashConserved
  <2>1. CommittedCash = 0
    <3>1. \A k \in Keys : CommittedAt(k) = 0
      BY <1>1 DEF CommittedAt
    <3> QED BY <3>1, KeysFinite, FunSumZero DEF CommittedCash
  <2>2. Unsettled = 0
    <3>1. Unsettled = SumFunction([c \in {} |-> c.amount])
      BY <1>1 DEF Unsettled, AmountOf
    <3> QED BY <3>1, FS_EmptySet, FunSumZero
  <2>3. SumFunction([t \in trades |-> t.net]) = 0
    <3> DEFINE f == [t \in trades |-> t.net]
    <3>1. f \in [{} -> Int] /\ IsFiniteSet({})
      BY <1>1, FS_EmptySet
    <3> HIDE DEF f
    <3>2. SumFunction(f) = 0
      BY <3>1, FunSumZero
    <3> QED BY <3>2 DEF f
  <2> QED BY <1>1, <2>1, <2>2, <2>3, AccountAssumption DEF CashConserved
<1>5. Booked /\ Fresh
  BY <1>1, <1>2 DEF Booked, Fresh
<1>6. RunOK
  <2>1. 1 \in 1..NTest
    BY ScheduleAssumption
  <2> QED BY <1>1, <2>1 DEF Init, RunOK, Phases, Refusals
<1>7. Visiting
  BY <1>2 DEF Init, Visiting
<1> QED BY <1>3, <1>4, <1>5, <1>6, <1>7 DEF IInv, AccountInv

\* Every step of the chronology keeps the invariant.
LEMMA NextInv == IInv /\ [Next]_vars => IInv'
<1> SUFFICES ASSUME IInv, [Next]_vars PROVE IInv'
  OBVIOUS
<1>1. CASE OpeningMark
  BY <1>1, OpeningMarkInv
<1>2. CASE SettleAtOpen
  BY <1>2, SettleAtOpenInv
<1>3. CASE Freeze
  BY <1>3, FreezeInv
<1>4. CASE ObserveSurvivors
  BY <1>4, ObserveInv
<1>5. CASE FinishStep
  BY <1>5, FinishStepInv
<1>6. CASE CloseMark
  BY <1>6, CloseMarkInv
<1>7. CASE FinalMark
  BY <1>7, FinalMarkInv
<1>8. CASE AbortAtMark
  <2>1. SnapshotRefusal(MarkDue.at, MarkDue.prices) \in Refusals
    BY DEF SnapshotRefusal, Refusals
  <2> QED BY <1>8, <2>1, AbortInv DEF AbortAtMark
<1>9. CASE Finished \/ UNCHANGED vars
  BY <1>9, StopInv DEF Finished
<1>10. ASSUME NEW k \in Keys,
              \/ GapExit(k) \/ Fund(k) \/ Fill(k) \/ Protect(k) \/ Evaluated(k)
              \/ Expire(k) \/ Liquidate(k) \/ AbortAtFill(k)
       PROVE  IInv'
  <2>1. CASE AbortAtFill(k)
    <3>1. "nonpositive_fill" \in Refusals
      BY DEF Refusals
    <3> QED BY <2>1, <3>1, AbortInv DEF AbortAtFill
  <2> QED BY <1>10, <2>1, GapExitInv, FundInv, FillInv, ProtectInv, EvaluatedInv, ExpireInv,
             LiquidateInv
<1>11. ASSUME NEW k \in Keys, NEW d \in Decisions, Manage(k, d) PROVE IInv'
  BY <1>11, ManageInv
<1>12. ASSUME NEW k \in Keys, NEW s \in SignalShapes, RecordSignal(k, s) PROVE IInv'
  BY <1>12, RecordSignalInv
<1> QED BY <1>1, <1>2, <1>3, <1>4, <1>5, <1>6, <1>7, <1>8, <1>9, <1>10, <1>11, <1>12 DEF Next

\* The invariant holds throughout every replay, for any request, any schedule,
\* any market and any strategy.
THEOREM Inductive == Spec => []IInv
  BY InitInv, NextInv, PTL DEF Spec

\* Every replay keeps every variable in its type, whatever the request, the
\* schedule, the market and the strategies.
THEOREM TypeCorrect == Spec => []TypeOK
<1>1. IInv => TypeOK
  BY TypeParts DEF IInv, AccountInv
<1> QED BY <1>1, Inductive, PTL

\* No replay makes or loses cash: settled, unsettled and committed cash add up to
\* the starting equity plus the net of every trade, through every reservation,
\* fill, close and settlement of _Ledger.
THEOREM Conservation == Spec => []CashConserved
<1>1. IInv => CashConserved
  BY DEF IInv, AccountInv
<1> QED BY <1>1, Inductive, PTL

-----------------------------------------------------------------------------
(* Order: run() applies every settlement before it reads the account, and  *)
(* holds no reservation when it does.                                      *)

\* The phases that follow the settlement of an open.
Settled == Phases \ {"anchor", "settle", "done", "aborted"}

\* After an open's settlement nothing is due by that session, and the sweeps
\* of the window's end run at its last interval.
Punctual ==
  /\ phase = "anchor" => credits = {}
  /\ phase \in Settled => \A c \in credits : c.settles # None => c.settles > DateOf(OpenTs[now])
  /\ phase \in {"expire", "liquidate", "final"} => now = NTest
  /\ CallerKeepsOrder

\* An interval closes on the session it opens on.
LEMMA SameSession ==
  ASSUME RunOK
  PROVE  /\ DateOf(CloseTs[now]) = DateOf(OpenTs[now]) /\ DateOf(OpenTs[now]) \in Nat
         /\ DateOf(TestEnd) = DateOf(OpenTs[NTest])
<1>1. now \in 1..Len(OpenTs) /\ NTest \in 1..Len(OpenTs)
  BY ScheduleAssumption DEF RunOK
<1> QED BY <1>1, ScheduleAssumption, AccountAssumption DEF TestEnd

\* Proceeds never settle on the session of their own close.
LEMMA SettlesLater ==
  \A ts : DateOf(ts) \in Nat /\ SettlementSession(ts) # None
    => SettlementSession(ts) > DateOf(ts)
<1> SUFFICES ASSUME NEW ts, DateOf(ts) \in Nat, SettlementSession(ts) # None
             PROVE  SettlementSession(ts) > DateOf(ts)
  OBVIOUS
<1> DEFINE later == {s \in Sessions : s > DateOf(ts)}
<1>1. later \subseteq Nat /\ IsFiniteSet(later)
  BY AccountAssumption, FS_Subset
<1>4. \A s \in later : s > DateOf(ts)
  OBVIOUS
<1>2. SettlementSession(ts) = IF later = {} THEN None ELSE Min(later)
  BY Zenon DEF SettlementSession
<1>3. later # {} => Min(later) \in later
  <2> HIDE DEF later
  <2> QED BY <1>1, NatMin
<1> HIDE DEF later
<1> QED BY <1>2, <1>3, <1>4

\* A close at a session adds no credit that session could settle.
LEMMA CloseNotDue ==
  ASSUME AccountOK, NEW p \in Positions, NEW ref, NEW ts, NEW reason,
         SettleOut(p, ref, ts, reason), DateOf(ts) \in Nat,
         \A c \in credits : c.settles # None => c.settles > DateOf(ts)
  PROVE  \A c \in credits' : c.settles # None => c.settles > DateOf(ts)
<1> DEFINE new == [trade |-> tradeOrdinal, amount |-> CreditFor(p, ExitFill(p.intent.dir, ref)),
                   settles |-> SettlementSession(ts)]
<1>1. credits' = credits \cup {new}
  BY DEF SettleOut, Close
<1>2. new.settles = SettlementSession(ts)
  OBVIOUS
<1> HIDE DEF new
<1> QED BY <1>1, <1>2, SettlesLater

\* A step that touches no credit, stays in its interval and neither starts nor
\* ends the replay keeps the account punctual.
LEMMA QuietPunctual ==
  ASSUME Punctual, phase \in Settled, phase' \in Settled,
         UNCHANGED <<credits, now, refusal>>,
         phase' \in {"expire", "liquidate", "final"} => now = NTest
  PROVE  Punctual'
  BY DEF Punctual, CallerKeepsOrder, Settled

\* A step that closes a position at an instant of the interval's session does.
LEMMA ClosePunctual ==
  ASSUME IInv, Punctual, phase \in Settled, UNCHANGED <<phase, now, refusal>>,
         NEW p \in Positions, NEW ref, NEW ts, NEW reason, SettleOut(p, ref, ts, reason),
         DateOf(ts) = DateOf(OpenTs[now])
  PROVE  Punctual'
<1>1. DateOf(ts) \in Nat
  BY SameSession DEF IInv
<1>2. \A c \in credits : c.settles # None => c.settles > DateOf(ts)
  BY DEF Punctual
<1>3. AccountOK
  BY DEF IInv, AccountInv
<1>4. \A c \in credits' : c.settles # None => c.settles > DateOf(ts)
  BY <1>1, <1>2, <1>3, CloseNotDue
<1>5. phase' = phase /\ now' = now /\ refusal' = refusal
  OBVIOUS
<1>6. DateOf(OpenTs[now])' = DateOf(ts)
  BY <1>5
<1> QED BY <1>4, <1>5, <1>6 DEF Settled, Punctual, CallerKeepsOrder

\* No mark is refused for a due credit or an outstanding reservation.
LEMMA MarkInOrder ==
  ASSUME IInv, Punctual, phase \in {"anchor", "freeze", "mark", "final"}
  PROVE  SnapshotRefusal(MarkDue.at, MarkDue.prices)
           \notin {"reservation_outstanding", "settlement_not_applied"}
<1>1. ReservedKeys = {}
  BY DEF IInv, Visiting
<1>2. DueBy(DateOf(MarkDue.at)) = {}
  <2>1. CASE phase = "anchor"
    BY <2>1 DEF Punctual, DueBy
  <2>2. CASE phase \in {"freeze", "mark", "final"}
    <3>1. DateOf(MarkDue.at) = DateOf(OpenTs[now]) /\ DateOf(OpenTs[now]) \in Nat
      <4>1. CASE phase = "freeze"
        BY <4>1, SameSession DEF MarkDue, IInv
      <4>2. CASE phase = "mark"
        BY <4>2, SameSession DEF MarkDue, IInv
      <4>3. CASE phase = "final"
        BY <4>3, SameSession DEF MarkDue, IInv, Punctual
      <4> QED BY <2>2, <4>1, <4>2, <4>3
    <3>2. \A c \in credits : c.settles # None => c.settles \in Nat /\ c.settles > DateOf(OpenTs[now])
      BY <2>2, AccountAssumption DEF Punctual, Settled, Phases, IInv, AccountInv, AccountOK, Credits
    <3> HIDE DEF MarkDue
    <3> QED BY <3>1, <3>2 DEF DueBy
  <2> QED BY <2>1, <2>2
<1> QED BY <1>1, <1>2 DEF SnapshotRefusal

\* settle_due() leaves nothing due by the session it is given.
LEMMA SettlePunctual == ASSUME IInv, Punctual, SettleAtOpen PROVE Punctual'
<1>1. \A c \in credits : c.settles # None => c.settles \in Nat
  BY AccountAssumption DEF IInv, AccountInv, AccountOK, Credits
<1>2. DateOf(OpenTs[now]) \in Nat
  BY SameSession DEF IInv
<1>3. /\ credits' = credits \ DueBy(DateOf(OpenTs[now]))
      /\ phase' = "freeze" /\ UNCHANGED <<now, refusal>>
  BY DEF SettleAtOpen, SettleDue
<1> QED BY <1>1, <1>2, <1>3 DEF Punctual, CallerKeepsOrder, DueBy

\* What manage() leaves of a position it does not close.
Moved(k) ==
  \E d \in Decisions : /\ ValidDecision(positions[k], BarOf(k).close, d)
                       /\ positions' = [positions EXCEPT ![k] = Adjusted(positions[k], d.stop, d.target)]

\* The four steps that may close a position do so through close(), at a price of
\* the bar or a level and at an instant of the session they are in, or touch no
\* cash.
LEMMA ClosingStep ==
  ASSUME IInv, Punctual, NEW k \in Keys,
         GapExit(k) \/ Protect(k) \/ Liquidate(k) \/ \E d \in Decisions : Manage(k, d)
  PROVE  /\ phase \in Settled /\ UNCHANGED <<phase, now, refusal>>
         /\ \/ UNCHANGED <<settled, credits, reserved, trades>> /\ (UNCHANGED positions \/ Moved(k))
            \/ \E p \in Positions, ref \in Int, ts \in Nat, reason \in ExitReasons :
                 /\ SettleOut(p, ref, ts, reason)
                 /\ ref \in {ProtectiveExit(positions[k], BarOf(k)).at, BarOf(k).close}
                 /\ DateOf(ts) = DateOf(OpenTs[now])
                 /\ k \in HeldKeys /\ SameEntry(p, positions[k])
<1> DEFINE q == positions[k]
           hit == ProtectiveExit(q, BarOf(k))
           Closes == \E p \in Positions, ref \in Int, ts \in Nat, reason \in ExitReasons :
                       /\ SettleOut(p, ref, ts, reason)
                       /\ ref \in {hit.at, BarOf(k).close}
                       /\ DateOf(ts) = DateOf(OpenTs[now])
                       /\ k \in HeldKeys /\ SameEntry(p, q)
           Quiet == UNCHANGED <<settled, credits, reserved, trades>> /\ (UNCHANGED positions \/ Moved(k))
<1>1. /\ k \in HeldKeys /\ phase \in {"gap", "protect", "manage", "liquidate"}
      /\ UNCHANGED <<phase, now, refusal>>
  BY DEF GapExit, Protect, Manage, Liquidate, NextPosition, FirstOf, IInv, Visiting
<1>2. /\ q \in Positions /\ hit.at \in Int /\ BarOf(k).close \in Int
      /\ OpenTs[now] \in Nat /\ CloseTs[now] \in Nat /\ TestEnd \in Nat
      /\ bars \in [Symbols -> Bars]
  BY <1>1, HeldPosition, HitTyped, BarTyped, ClockTyped, SMTT(30) DEF IInv, RunOK
<1>3. /\ DateOf(CloseTs[now]) = DateOf(OpenTs[now])
      /\ phase = "liquidate" => DateOf(TestEnd) = DateOf(OpenTs[now])
  BY SameSession DEF IInv, Punctual
<1>4. ASSUME GapExit(k) PROVE Quiet \/ Closes
  <2> DEFINE p == Observed(q, hit.at, hit.at)
  <2>1. p \in Positions /\ SameEntry(p, q)
    <3> HIDE DEF q, hit
    <3> QED BY <1>2, ObservedTyped, ObservedSame
  <2>2. \/ SettleOut(p, hit.at, OpenTs[now], hit.reason) /\ LeavesAtOpen(hit)
        \/ UNCHANGED ledgerVars
    BY <1>4 DEF GapExit
  <2>3. LeavesAtOpen(hit) => hit.reason \in ExitReasons
    BY DEF LeavesAtOpen, GapReasons, ExitReasons
  <2> HIDE DEF p, hit, q
  <2> QED BY <1>1, <1>2, <2>1, <2>2, <2>3 DEF ledgerVars
<1>5. ASSUME Protect(k) PROVE Quiet \/ Closes
  <2> DEFINE p == SeenByExit(q, BarOf(k), hit)
  <2>1. p \in Positions /\ SameEntry(p, q)
    BY <1>2, SeenTyped
  <2>2. \/ SettleOut(p, hit.at, CloseTs[now], hit.reason) /\ hit.reason \in {"stop", "target"}
        \/ UNCHANGED ledgerVars
    BY <1>5 DEF Protect
  <2>3. hit.reason \in {"stop", "target"} => hit.reason \in ExitReasons
    BY DEF ExitReasons
  <2> HIDE DEF p, hit, q
  <2> QED BY <1>1, <1>2, <1>3, <2>1, <2>2, <2>3 DEF ledgerVars
<1>6. ASSUME NEW d \in Decisions, Manage(k, d) PROVE Quiet \/ Closes
  <2> DEFINE p == Adjusted(q, d.stop, d.target)
  <2>1. p \in Positions /\ SameEntry(p, q)
    BY <1>2, AdjustedTyped, AdjustedSame
  <2>2. \/ SettleOut(p, BarOf(k).close, CloseTs[now], "manage")
        \/ Quiet
    BY <1>6 DEF Manage, Moved
  <2>3. "manage" \in ExitReasons
    BY DEF ExitReasons
  <2> HIDE DEF p, hit, q
  <2> QED BY <1>1, <1>2, <1>3, <2>1, <2>2, <2>3
<1>7. ASSUME Liquidate(k) PROVE Quiet \/ Closes
  <2>1. SettleOut(q, BarOf(k).close, TestEnd, "end_of_window") /\ phase = "liquidate"
    BY <1>7 DEF Liquidate
  <2>2. "end_of_window" \in ExitReasons /\ SameEntry(q, q)
    BY DEF ExitReasons, SameEntry
  <2> HIDE DEF hit, q
  <2> QED BY <1>1, <1>2, <1>3, <2>1, <2>2
<1>8. phase \in Settled
  BY <1>1 DEF Settled, Phases
<1> HIDE DEF Closes, Quiet
<1>9. Quiet \/ Closes
  BY <1>4, <1>5, <1>6, <1>7
<1> QED BY <1>1, <1>8, <1>9 DEF Closes, Quiet

\* Every step of the chronology keeps the account punctual.
LEMMA NextPunctual == IInv /\ Punctual /\ [Next]_vars => Punctual'
<1> SUFFICES ASSUME IInv, Punctual, [Next]_vars PROVE Punctual'
  OBVIOUS
<1> USE DEF Settled, Phases
<1>1. CASE OpeningMark
  BY <1>1 DEF OpeningMark, Punctual, CallerKeepsOrder, ledgerVars
<1>2. CASE SettleAtOpen
  BY <1>2, SettlePunctual
<1>3. CASE Freeze
  BY <1>3, QuietPunctual DEF Freeze, ledgerVars
<1>4. CASE ObserveSurvivors
  BY <1>4, QuietPunctual DEF ObserveSurvivors
<1>5. CASE FinishStep
  <2>1. phase \in Settled /\ phase' \in Settled /\ UNCHANGED <<credits, now, refusal>>
    BY <1>5 DEF FinishStep, ledgerVars
  <2>2. phase' \in {"expire", "liquidate", "final"} => phase \in {"expire", "liquidate", "final"}
    BY <1>5 DEF FinishStep
  <2> QED BY <2>1, <2>2, QuietPunctual DEF Punctual
<1>6. CASE CloseMark
  BY <1>6, QuietPunctual DEF CloseMark, ledgerVars, Punctual, CallerKeepsOrder
<1>7. CASE FinalMark
  BY <1>7 DEF FinalMark, ledgerVars, Punctual, CallerKeepsOrder
<1>8. CASE AbortAtMark
  <2>1. phase' = "aborted" /\ refusal' = SnapshotRefusal(MarkDue.at, MarkDue.prices)
    BY <1>8 DEF AbortAtMark, Abort
  <2> QED BY <1>8, <2>1, MarkInOrder DEF AbortAtMark, Punctual, CallerKeepsOrder
<1>9. CASE Finished \/ UNCHANGED vars
  BY <1>9 DEF Finished, vars, runVars, ledgerVars, Punctual, CallerKeepsOrder
<1>10. ASSUME NEW k \in Keys,
              GapExit(k) \/ Protect(k) \/ Liquidate(k) \/ \E d \in Decisions : Manage(k, d)
       PROVE  Punctual'
  <2>1. phase \in Settled /\ UNCHANGED <<phase, now, refusal>>
    BY <1>10, ClosingStep
  <2>2. CASE UNCHANGED <<credits, trades>>
    BY <2>1, <2>2, QuietPunctual DEF Punctual
  <2>3. CASE \E p \in Positions, ref \in Int, ts \in Nat, reason \in ExitReasons :
               /\ SettleOut(p, ref, ts, reason)
               /\ DateOf(ts) = DateOf(OpenTs[now])
    BY <2>1, <2>3, ClosePunctual
  <2> QED BY <1>10, <2>2, <2>3, ClosingStep
<1>11. ASSUME NEW k \in Keys, Fund(k) \/ Fill(k) \/ Evaluated(k) \/ Expire(k) PROVE Punctual'
  <2>1. phase \in Settled /\ phase' \in Settled /\ UNCHANGED <<credits, now, refusal>>
    BY <1>11 DEF Fund, Fill, Evaluated, Expire, Reserve, Open, Reject, ledgerVars
  <2>2. phase' = phase \/ phase' \in {"fill", "fund"}
    BY <1>11 DEF Fund, Fill, Evaluated, Expire
  <2> QED BY <2>1, <2>2, QuietPunctual DEF Punctual
<1>12. ASSUME NEW k \in Keys, AbortAtFill(k) PROVE Punctual'
  BY <1>12 DEF AbortAtFill, Abort, Punctual, CallerKeepsOrder
<1>13. ASSUME NEW k \in Keys, NEW s \in SignalShapes, RecordSignal(k, s) PROVE Punctual'
  <2>1. phase = "evaluate" /\ UNCHANGED <<phase, credits, now, refusal>>
    BY <1>13 DEF RecordSignal, Reject, ledgerVars
  <2> QED BY <2>1, QuietPunctual
<1> QED BY <1>1, <1>2, <1>3, <1>4, <1>5, <1>6, <1>7, <1>8, <1>9, <1>10, <1>11, <1>12, <1>13
       DEF Next

\* Settlement order holds throughout every replay.
LEMMA PunctualInductive == Spec => []Punctual
<1>1. Init => Punctual
  BY DEF Init, LedgerInit, Punctual, CallerKeepsOrder, Settled
<1> QED BY <1>1, NextPunctual, Inductive, PTL DEF Spec

\* No snapshot of any replay meets a due credit that was not settled or a
\* reservation that was not filled: the two states snapshot() refuses as the
\* caller's mistake, run() cannot reach.
THEOREM OrderKept == Spec => []CallerKeepsOrder
<1>1. Punctual => CallerKeepsOrder
  BY DEF Punctual
<1> QED BY <1>1, PunctualInductive, PTL

-----------------------------------------------------------------------------
(* Marks: a close at the mark leaves the equity where it was. *)

\* What the positions of the keys S are worth at the marks m.
Worth(S, m) == SumFunction([k \in S |-> LiquidationValue(positions[k], m[SymbolOf(k)])])

\* The values of the open positions are integers.
LEMMA WorthTyped ==
  ASSUME AccountInv, NEW m \in [Symbols -> Nat \ {0}], NEW S \in SUBSET HeldKeys
  PROVE  /\ [k \in S |-> LiquidationValue(positions[k], m[SymbolOf(k)])] \in [S -> Int]
         /\ IsFiniteSet(S)
<1>1. \A k \in S : positions[k] \in Positions /\ m[SymbolOf(k)] \in Int
  BY HeldPosition, KeyParts DEF HeldKeys
<1>2. IsFiniteSet(S)
  BY KeysFinite, FS_Subset DEF HeldKeys
<1> QED BY <1>1, <1>2, LiquidationTyped

\* What an open position is worth depends only on its entry.
LEMMA SameWorth ==
  ASSUME NEW p, NEW q, SameEntry(p, q), NEW mark
  PROVE  LiquidationValue(p, mark) = LiquidationValue(q, mark)
  BY DEF SameEntry, LiquidationValue

\* close() credits what the mark said the position was worth.
LEMMA CreditIsWorth ==
  ASSUME NEW p \in Positions, NEW ref \in Int
  PROVE  CreditFor(p, ExitFill(p.intent.dir, ref)) = LiquidationValue(p, ref)
<1>1. p.qty \in Nat /\ p.collateral \in Int /\ p.entry \in Int
  BY DEF Positions
<1>2. ExitFill(p.intent.dir, ref) \in Int /\ Charge(p.qty) \in Nat
  BY <1>1, FillTyped, ChargeTyped
<1> QED BY <1>1, <1>2 DEF CreditFor, LiquidationValue, GrossPnl

\* A position that leaves at its mark takes nothing from the equity.
LEMMA CloseAtMark ==
  ASSUME AccountInv, NEW k \in HeldKeys, NEW p \in Positions, SameEntry(p, positions[k]),
         NEW ref \in Int, NEW ts \in Nat, NEW reason \in ExitReasons,
         SettleOut(p, ref, ts, reason), NEW m \in [Symbols -> Nat \ {0}], m[SymbolOf(k)] = ref
  PROVE  Equity(m)' = Equity(m)
<1> DEFINE f == [j \in HeldKeys |-> LiquidationValue(positions[j], m[SymbolOf(j)])]
           S == HeldKeys \ {k}
           g == [j \in S |-> LiquidationValue(positions[j], m[SymbolOf(j)])]
           credit == CreditFor(p, ExitFill(p.intent.dir, ref))
<1>1. /\ HeldKeys' = S /\ AccountInv'
      /\ p.intent.key = k /\ positions \in [Keys -> Positions \cup {None}]
  BY SettleOutInv, HeldPosition DEF SameEntry, AccountInv, AccountOK
<1>2. ExitFill(p.intent.dir, ref) \in Int
  BY FillTyped
<1>3. Unsettled' = Unsettled + credit /\ settled' = settled
  <2>1. Close(p, ExitFill(p.intent.dir, ref), ts, reason)
    BY DEF SettleOut
  <2> QED BY <1>2, <2>1, CloseUnsettled DEF Close
<1>4. \A j \in S : positions'[j] = positions[j]
  BY <1>1 DEF SettleOut, Close, HeldKeys
<1>5. [j \in HeldKeys |-> LiquidationValue(positions[j], m[SymbolOf(j)])]' = g
  BY <1>1, <1>4 DEF LiquidationValue
<1>6. f[k] = credit
  BY CreditIsWorth, SameWorth
<1>7. SumFunction(f) = SumFunction(g) + f[k]
  <2>1. HeldKeys = S \cup {k} /\ k \notin S
    OBVIOUS
  <2>2. f \in [HeldKeys -> Int] /\ g \in [S -> Int] /\ IsFiniteSet(S)
    BY WorthTyped
  <2>3. \A j \in S : g[j] = f[j]
    OBVIOUS
  <2> HIDE DEF f, g, S
  <2>4. f \in [S \cup {k} -> Int]
    BY <2>1, <2>2
  <2> QED BY <2>1, <2>2, <2>3, <2>4, FunSumExtend
<1>8. Equity(m) = settled + Unsettled + SumFunction(f) /\ Equity(m)' = settled' + Unsettled' + SumFunction(g)
  BY <1>5 DEF Equity
<1>9. /\ settled \in Int /\ Unsettled \in Int /\ SumFunction(g) \in Int /\ credit \in Int
  <2>1. g \in [S -> Int] /\ IsFiniteSet(S)
    BY WorthTyped
  <2>2. SumFunction(g) \in Int
    BY <2>1, FunSumInt
  <2> QED BY <1>2, <2>2, AmountTyped, ProfitTyped DEF AccountInv, AccountOK, Unsettled
<1> HIDE DEF f, g, S, credit
<1> QED BY <1>3, <1>6, <1>7, <1>8, <1>9

\* Positions that keep their entries keep the equity.
LEMMA RepositionMark ==
  ASSUME UNCHANGED <<settled, credits>>, HeldKeys' = HeldKeys, NEW m,
         \A k \in HeldKeys : SameEntry(positions'[k], positions[k])
  PROVE  Equity(m)' = Equity(m)
<1>1. \A k \in HeldKeys : LiquidationValue(positions'[k], m[SymbolOf(k)])
                            = LiquidationValue(positions[k], m[SymbolOf(k)])
  BY SameWorth
<1>2. [k \in HeldKeys |-> LiquidationValue(positions[k], m[SymbolOf(k)])]'
        = [k \in HeldKeys |-> LiquidationValue(positions[k], m[SymbolOf(k)])]
  BY <1>1 DEF LiquidationValue
<1> QED BY <1>2 DEF Equity, Unsettled

\* No exit at the open moves the equity the open is marked at.
LEMMA GapAtMark ==
  ASSUME IInv, NEW k \in Keys, GapExit(k), NEW m, m = OpenPrices
  PROVE  Equity(m)' = Equity(m)
<1> DEFINE q == positions[k]
           hit == ProtectiveExit(q, BarOf(k))
           p == Observed(q, hit.at, hit.at)
<1>1. /\ k \in HeldKeys /\ q \in Positions /\ AccountInv /\ RunOK
      /\ m \in [Symbols -> Nat \ {0}] /\ m[SymbolOf(k)] = BarOf(k).open
  BY HeldPosition, PricesTyped, KeyParts DEF GapExit, NextPosition, FirstOf, IInv, Visiting, RunOK,
       OpenPrices, BarOf
<1>2. CASE LeavesAtOpen(hit)
  <2>1. hit.at = BarOf(k).open /\ hit.reason \in ExitReasons
    BY <1>2 DEF ProtectiveExit, LeavesAtOpen, GapReasons, ExitReasons
  <2>2. BarOf(k).open \in Int /\ OpenTs[now] \in Nat
    BY <1>1, BarTyped, ClockTyped DEF RunOK
  <2>3. SettleOut(p, hit.at, OpenTs[now], hit.reason)
    BY <1>2 DEF GapExit
  <2>4. p \in Positions /\ SameEntry(p, q)
    <3> HIDE DEF q, hit
    <3> QED BY <1>1, <2>1, <2>2, ObservedTyped, ObservedSame
  <2> HIDE DEF hit, p
  <2> QED BY <1>1, <2>1, <2>2, <2>3, <2>4, CloseAtMark
<1>3. CASE ~ LeavesAtOpen(hit)
  BY <1>3 DEF GapExit, ledgerVars, Equity, Unsettled, HeldKeys
<1> QED BY <1>2, <1>3

\* Nor does a close manage() asks for, or one the window's end makes, move the
\* equity its close is marked at.
LEMMA ManageAtMark ==
  ASSUME IInv, NEW k \in Keys, NEW d \in Decisions, Manage(k, d), NEW m, m = ClosePrices
  PROVE  Equity(m)' = Equity(m)
<1> DEFINE p == Adjusted(positions[k], d.stop, d.target)
<1>1. /\ k \in HeldKeys /\ positions[k] \in Positions /\ AccountInv /\ RunOK
      /\ positions \in [Keys -> Positions \cup {None}]
      /\ m \in [Symbols -> Nat \ {0}] /\ m[SymbolOf(k)] = BarOf(k).close
  BY HeldPosition, PricesTyped, KeyParts DEF Manage, NextPosition, FirstOf, IInv, Visiting, RunOK,
       ClosePrices, BarOf, AccountInv, AccountOK
<1>2. /\ p \in Positions /\ SameEntry(p, positions[k])
      /\ BarOf(k).close \in Int /\ CloseTs[now] \in Nat /\ "manage" \in ExitReasons
  BY <1>1, AdjustedTyped, AdjustedSame, BarTyped, ClockTyped DEF ExitReasons, RunOK
<1>3. \/ SettleOut(p, BarOf(k).close, CloseTs[now], "manage")
      \/ positions' = [positions EXCEPT ![k] = p] /\ UNCHANGED <<settled, credits>>
  BY DEF Manage
<1> HIDE DEF p
<1>4. CASE SettleOut(p, BarOf(k).close, CloseTs[now], "manage")
  BY <1>1, <1>2, <1>4, CloseAtMark
<1>5. CASE positions' = [positions EXCEPT ![k] = p] /\ UNCHANGED <<settled, credits>>
  <2>1. HeldKeys' = HeldKeys /\ \A j \in HeldKeys : SameEntry(positions'[j], positions[j])
    BY <1>1, <1>2, <1>5, NoneAssumption DEF HeldKeys, SameEntry
  <2> QED BY <1>5, <2>1, RepositionMark
<1> QED BY <1>3, <1>4, <1>5

\* The liquidation of _close_window.
LEMMA LiquidateAtMark ==
  ASSUME IInv, NEW k \in Keys, Liquidate(k), NEW m, m = ClosePrices
  PROVE  Equity(m)' = Equity(m)
<1>1. /\ k \in HeldKeys /\ positions[k] \in Positions /\ AccountInv /\ RunOK
      /\ m \in [Symbols -> Nat \ {0}] /\ m[SymbolOf(k)] = BarOf(k).close
      /\ SettleOut(positions[k], BarOf(k).close, TestEnd, "end_of_window")
  BY HeldPosition, PricesTyped, KeyParts DEF Liquidate, NextPosition, FirstOf, IInv, Visiting, RunOK,
       ClosePrices, BarOf
<1>2. /\ BarOf(k).close \in Int /\ TestEnd \in Nat /\ "end_of_window" \in ExitReasons
      /\ SameEntry(positions[k], positions[k])
  BY <1>1, BarTyped, ClockTyped DEF ExitReasons, RunOK, SameEntry
<1> QED BY <1>1, <1>2, CloseAtMark

\* Every exit a step makes at the price the account is marked at leaves the
\* equity where it was: what _liquidation_value assumed of slippage and fees is
\* what close() charges, for longs and shorts.
THEOREM ExitsAreMarked == Spec => LiquidationIsMarked
<1> DEFINE Marked == /\ phase = "gap" => Equity(OpenPrices)' = Equity(OpenPrices)
                     /\ phase \in {"manage", "liquidate"} =>
                          Equity(ClosePrices)' = Equity(ClosePrices)
<1>1. IInv /\ [Next]_vars => [Marked]_vars
  <2> SUFFICES ASSUME IInv, Next, phase \in {"gap", "manage", "liquidate"}
               PROVE  Marked
    BY DEF Marked
  <2>1. bars' = bars
    BY DEF Next, OpeningMark, SettleAtOpen, Freeze, ObserveSurvivors, FinishStep, CloseMark,
         FinalMark, AbortAtMark, Finished, GapExit, Fund, Fill, Protect, Evaluated, Expire, Liquidate,
         AbortAtFill, Abort, Manage, RecordSignal, vars, runVars
  <2>2. OpenPrices' = OpenPrices /\ ClosePrices' = ClosePrices
    BY <2>1 DEF OpenPrices, ClosePrices
  <2>3. \/ UNCHANGED ledgerVars
        \/ \E k \in Keys : GapExit(k) /\ phase = "gap"
        \/ \E k \in Keys : Liquidate(k) /\ phase = "liquidate"
        \/ \E k \in Keys, d \in Decisions : Manage(k, d) /\ phase = "manage"
    BY DEF Next, OpeningMark, SettleAtOpen, Freeze, ObserveSurvivors, FinishStep, CloseMark,
         FinalMark, AbortAtMark, Finished, GapExit, Fund, Fill, Protect, Evaluated, Expire, Liquidate,
         AbortAtFill, Abort, Manage, RecordSignal, vars
  <2>4. CASE UNCHANGED ledgerVars
    BY <2>2, <2>4 DEF Equity, Unsettled, HeldKeys, ledgerVars
  <2>5. CASE \E k \in Keys : GapExit(k) /\ phase = "gap"
    <3>1. PICK m : m = OpenPrices
      OBVIOUS
    <3>2. Equity(m)' = Equity(m)
      BY <2>5, <3>1, GapAtMark
    <3> QED BY <2>2, <2>5, <3>1, <3>2
  <2>6. CASE \/ \E k \in Keys : Liquidate(k) /\ phase = "liquidate"
             \/ \E k \in Keys, d \in Decisions : Manage(k, d) /\ phase = "manage"
    <3>1. PICK m : m = ClosePrices
      OBVIOUS
    <3>2. Equity(m)' = Equity(m)
      BY <2>6, <3>1, LiquidateAtMark, ManageAtMark
    <3> QED BY <2>2, <2>6, <3>1, <3>2
  <2> QED BY <2>3, <2>4, <2>5, <2>6
<1>2. LiquidationIsMarked <=> [][Marked]_vars
  BY DEF LiquidationIsMarked
<1> HIDE DEF Marked
<1> QED BY <1>1, <1>2, Inductive, PTL DEF Spec

-----------------------------------------------------------------------------
(* T+1: the settled cash is the trades' own account of what has settled. *)

\* The credit a trade left, and the trades whose proceeds are still out.
CreditOf(t) ==
  [trade |-> t.ordinal, amount |-> t.net + EntryCost(t.position),
   settles |-> SettlementSession(t.exitTs)]

PastBy(session, t) == DateOf(t.exitTs) < session
Outstanding == {t \in trades : ~ PastBy(SettledThrough, t)}

\* The credits are those of the trades still out, one each.
CreditsAreTrades ==
  /\ credits = {CreditOf(t) : t \in Outstanding}
  /\ \A t, u \in trades : t.ordinal = u.ordinal => t = u
  /\ phase = "anchor" => trades = {}

\* A later timestamp falls on no earlier date.
LEMMA DateMono == \A a, b \in Nat : a <= b => DateOf(a) \in Nat /\ DateOf(a) <= DateOf(b)
<1> SUFFICES ASSUME NEW a \in Nat, NEW b \in Nat, a <= b
             PROVE  DateOf(a) \in Nat /\ DateOf(a) <= DateOf(b)
  OBVIOUS
<1> DEFINE n == TicksPerDay
           q == a \div n
           r == b \div n
<1>1. n \in Nat \ {0} /\ q \in Nat /\ r \in Nat
  BY AccountAssumption, DivNat
<1>2. n * q <= a /\ b < n * (r + 1)
  BY <1>1
<1>3. ~ (r + 1 <= q)
  <2> SUFFICES ASSUME r + 1 <= q PROVE FALSE
    OBVIOUS
  <2> HIDE DEF n, q, r
  <2>1. n * (r + 1) <= n * q
    BY <1>1
  <2> QED BY <1>1, <1>2, <2>1
<1> HIDE DEF n, q, r
<1>4. q <= r
  BY <1>1, <1>3
<1> QED BY <1>1, <1>4 DEF DateOf, q, r, n

\* A credit falls due by a session exactly when its close was on an earlier one.
LEMMA DueIffPast ==
  ASSUME NEW t \in Trades, NEW d \in Sessions
  PROVE  (CreditOf(t).settles # None /\ CreditOf(t).settles <= d) <=> PastBy(d, t)
<1> DEFINE later == {s \in Sessions : s > DateOf(t.exitTs)}
           s == SettlementSession(t.exitTs)
<1>1. t.exitTs \in Nat /\ DateOf(t.exitTs) \in Nat /\ d \in Nat
  BY DateMono, AccountAssumption DEF Trades
<1>2. s = IF later = {} THEN None ELSE Min(later)
  BY Zenon DEF SettlementSession
<1>3. later \subseteq Nat /\ IsFiniteSet(later)
  BY AccountAssumption, FS_Subset
<1>4. later # {} => Min(later) \in later /\ \A x \in later : Min(later) <= x
  <2> HIDE DEF later
  <2> QED BY <1>3, NatMin
<1>5. CreditOf(t).settles = s
  BY DEF CreditOf
<1>6. DateOf(t.exitTs) < d => s # None /\ s <= d
  <2> SUFFICES ASSUME DateOf(t.exitTs) < d PROVE s # None /\ s <= d
    OBVIOUS
  <2>1. d \in later
    BY <1>1
  <2> HIDE DEF later, s
  <2>2. s = Min(later) /\ Min(later) \in later /\ Min(later) <= d
    BY <1>2, <1>4, <2>1
  <2>3. s \in Nat
    BY <1>3, <2>2
  <2> QED BY <2>2, <2>3, NoneAssumption
<1>7. s # None => s \in Nat /\ DateOf(t.exitTs) < s
  BY <1>1, <1>2, <1>3, <1>4
<1> HIDE DEF later, s
<1> QED BY <1>1, <1>5, <1>6, <1>7 DEF PastBy

\* Settlement moves on with the sessions.
LEMMA SettledThroughTyped ==
  ASSUME RunOK
  PROVE  /\ SettledThrough \in Nat
         /\ SettledThrough <= DateOf(OpenTs[now])
         /\ DateOf(OpenTs[now]) \in Sessions
<1>1. now \in 1..Len(OpenTs)
  BY ScheduleAssumption DEF RunOK
<1>2. DateOf(OpenTs[now]) \in Sessions /\ DateOf(OpenTs[now]) \in Nat /\ OpenTs[now] \in Nat
  <2>1. DateOf(OpenTs[now]) \in Sessions /\ OpenTs[now] \in Nat
    BY <1>1, ScheduleAssumption
  <2> QED BY <2>1, AccountAssumption
<1>3. CASE now > 1
  <2>1. PICK m \in 1..(Len(OpenTs) - 1) : now = m + 1 /\ now - 1 = m
    BY <1>1, <1>3, ScheduleAssumption
  <2>2. m \in 1..Len(OpenTs)
    BY <2>1, ScheduleAssumption
  <2>3. /\ OpenTs[m] < CloseTs[m] /\ CloseTs[m] <= OpenTs[m + 1]
        /\ OpenTs[m] \in Nat /\ CloseTs[m] \in Nat
    BY <2>1, <2>2, ScheduleAssumption, SMTT(30)
  <2>4. OpenTs[now - 1] \in Nat /\ OpenTs[now - 1] <= OpenTs[now]
    BY <1>2, <2>1, <2>3
  <2>5. DateOf(OpenTs[now - 1]) \in Nat /\ DateOf(OpenTs[now - 1]) <= DateOf(OpenTs[now])
    BY <1>2, <2>4, DateMono
  <2> QED BY <1>2, <2>5 DEF SettledThrough
<1>4. CASE ~ (now > 1)
  BY <1>2, <1>4 DEF SettledThrough
<1> QED BY <1>2, <1>3, <1>4

\* A step within a settled interval stays settled through the same session.
LEMMA SettledThroughKept ==
  ASSUME now' = now, phase \notin {"anchor", "settle"}, phase' \notin {"anchor", "settle"}
  PROVE  SettledThrough' = SettledThrough
  BY DEF SettledThrough

\* A step that closes nothing keeps the credits when nothing settles.
LEMMA CreditsKept ==
  ASSUME CreditsAreTrades, UNCHANGED <<credits, trades>>, phase' # "anchor",
         SettledThrough' = SettledThrough \/ trades = {}
  PROVE  CreditsAreTrades'
<1>1. Outstanding' = Outstanding
  BY DEF Outstanding, PastBy
<1> QED BY <1>1 DEF CreditsAreTrades, CreditOf, EntryCost

\* settle_due() settles exactly the closes of earlier sessions.
LEMMA CreditsSettle == ASSUME IInv, CreditsAreTrades, SettleAtOpen PROVE CreditsAreTrades'
<1> DEFINE d == DateOf(OpenTs[now])
           past == SettledThrough
<1>1. /\ past \in Nat /\ past <= d /\ d \in Sessions /\ d \in Nat
      /\ \A t \in trades : t \in Trades
  BY SettledThroughTyped, AccountAssumption DEF IInv, AccountInv, AccountOK
<1>2. /\ credits' = credits \ DueBy(d) /\ trades' = trades /\ phase' = "freeze"
      /\ SettledThrough' = d
  BY DEF SettleAtOpen, SettleDue, SettledThrough
<1>3. \A t \in trades : DateOf(t.exitTs) \in Nat
  BY <1>1, DateMono DEF Trades
<1> HIDE DEF d, past
<1>4. Outstanding' = {t \in Outstanding : ~ PastBy(d, t)}
  BY <1>1, <1>2, <1>3 DEF Outstanding, PastBy, past
<1>5. \A c \in credits : c \in DueBy(d) <=> c.settles # None /\ c.settles <= d
  BY DEF DueBy
<1>6. \A t \in Outstanding : CreditOf(t) \in credits /\ (CreditOf(t) \in DueBy(d) <=> PastBy(d, t))
  BY <1>1, <1>5, DueIffPast DEF Outstanding, CreditsAreTrades
<1>7. \A c \in credits : \E t \in Outstanding : c = CreditOf(t)
  BY DEF CreditsAreTrades
<1>8. credits' = {CreditOf(t) : t \in Outstanding'}
  BY <1>2, <1>4, <1>6, <1>7
<1> QED BY <1>2, <1>8 DEF CreditsAreTrades, CreditOf, EntryCost

\* A close leaves a trade still out, and its credit.
LEMMA CreditsClose ==
  ASSUME IInv, CreditsAreTrades, phase \in Settled, UNCHANGED <<phase, now>>,
         NEW k \in HeldKeys, NEW p \in Positions, SameEntry(p, positions[k]), NEW ref \in Int,
         NEW ts \in Nat, NEW reason \in ExitReasons, SettleOut(p, ref, ts, reason),
         DateOf(ts) = DateOf(OpenTs[now])
  PROVE  CreditsAreTrades'
<1> DEFINE fill == ExitFill(p.intent.dir, ref)
           t == [ordinal |-> tradeOrdinal, position |-> p, exit |-> fill, exitTs |-> ts,
                 net |-> GrossPnl(p, fill) - (p.fee + Charge(p.qty)), reason |-> reason]
           c == [trade |-> tradeOrdinal, amount |-> CreditFor(p, fill),
                 settles |-> SettlementSession(ts)]
<1>1. /\ trades' = trades \cup {t} /\ credits' = credits \cup {c}
  BY DEF SettleOut, Close
<1>2. /\ fill \in Int /\ p.fee = Charge(p.qty)
      /\ p.collateral = IF p.intent.dir = "long" THEN 0 ELSE p.qty * p.entry
  BY FillTyped DEF IInv, AccountInv, Booked, SameEntry
<1>3. CreditFor(p, fill) = t.net + EntryCost(p)
  <2>1. /\ CreditFor(p, fill) - EntryCost(p) = t.net
    BY <1>2, CloseArithmetic
  <2>2. CreditFor(p, fill) \in Int /\ EntryCost(p) \in Int /\ t.net \in Int
    BY <1>2, <2>1, ProfitTyped DEF EntryCost, Positions
  <2> HIDE DEF t, fill
  <2> QED BY <2>1, <2>2
<1>4. CreditOf(t) = c
  BY <1>3 DEF CreditOf
<1>5. /\ t.ordinal = tradeOrdinal /\ t.exitTs = ts
      /\ \A u \in trades : u.ordinal # tradeOrdinal
  BY DEF IInv, AccountInv, Fresh, AccountOK, Trades
<1> HIDE DEF t, c, fill
<1>6. SettledThrough = DateOf(ts) /\ SettledThrough' = SettledThrough /\ DateOf(ts) \in Nat
  BY SettledThroughTyped, AccountAssumption DEF SettledThrough, Settled, IInv
<1>7. Outstanding' = Outstanding \cup {t}
  BY <1>1, <1>5, <1>6 DEF Outstanding, PastBy
<1>8. credits' = {CreditOf(u) : u \in Outstanding'}
  BY <1>1, <1>4, <1>7 DEF CreditsAreTrades
<1>9. \A u, v \in trades' : u.ordinal = v.ordinal => u = v
  BY <1>1, <1>5 DEF CreditsAreTrades
<1> QED BY <1>8, <1>9 DEF CreditsAreTrades, CreditOf, EntryCost, Settled

\* Every step of the chronology keeps the credits those of the trades.
LEMMA CreditsNext == IInv /\ Punctual /\ CreditsAreTrades /\ [Next]_vars => CreditsAreTrades'
<1> SUFFICES ASSUME IInv, Punctual, CreditsAreTrades, [Next]_vars PROVE CreditsAreTrades'
  OBVIOUS
<1>1. CASE OpeningMark \/ (AbortAtMark /\ phase = "anchor")
  <2>1. trades = {} /\ UNCHANGED <<credits, trades>> /\ phase' # "anchor"
    BY <1>1 DEF OpeningMark, AbortAtMark, Abort, ledgerVars, CreditsAreTrades
  <2> QED BY <2>1, CreditsKept
<1>2. CASE SettleAtOpen
  BY <1>2, CreditsSettle
<1>3. CASE CloseMark
  <2>1. UNCHANGED <<credits, trades>> /\ phase' # "anchor"
    BY <1>3 DEF CloseMark, ledgerVars
  <2>2. now \in 1..NTest /\ NTest \in Nat
    BY ScheduleAssumption DEF IInv, RunOK
  <2>3. now + 1 > 1 /\ (now + 1) - 1 = now
    BY <2>2
  <2>4. SettledThrough' = SettledThrough
    BY <1>3, <2>3 DEF CloseMark, SettledThrough
  <2> QED BY <2>1, <2>4, CreditsKept
<1>4. ASSUME NEW k \in Keys,
             GapExit(k) \/ Protect(k) \/ Liquidate(k) \/ \E d \in Decisions : Manage(k, d)
      PROVE  CreditsAreTrades'
  <2>1. phase \in Settled /\ UNCHANGED <<phase, now, refusal>>
    BY <1>4, ClosingStep
  <2>2. CASE UNCHANGED <<credits, trades>>
    BY <2>1, <2>2, CreditsKept, SettledThroughKept DEF Settled
  <2>3. CASE \E p \in Positions, ref \in Int, ts \in Nat, reason \in ExitReasons :
               /\ SettleOut(p, ref, ts, reason)
               /\ DateOf(ts) = DateOf(OpenTs[now])
               /\ k \in HeldKeys /\ SameEntry(p, positions[k])
    BY <2>1, <2>3, CreditsClose
  <2> QED BY <1>4, <2>2, <2>3, ClosingStep
<1>5. CASE /\ UNCHANGED <<credits, trades, now>>
           /\ phase \notin {"anchor", "settle"} /\ phase' \notin {"anchor", "settle"}
  BY <1>5, CreditsKept, SettledThroughKept
<1>6. CASE UNCHANGED vars
  BY <1>6 DEF vars, runVars, ledgerVars, CreditsAreTrades, Outstanding, SettledThrough, CreditOf,
       EntryCost, PastBy
<1>7. ASSUME Freeze \/ ObserveSurvivors \/ FinishStep \/ FinalMark
             \/ (AbortAtMark /\ phase # "anchor")
      PROVE  /\ UNCHANGED <<credits, trades, now>>
             /\ phase \notin {"anchor", "settle"} /\ phase' \notin {"anchor", "settle"}
  BY <1>7 DEF Freeze, ObserveSurvivors, FinishStep, FinalMark, AbortAtMark, Abort, ledgerVars
<1>8. ASSUME NEW k \in Keys, Fund(k) \/ Fill(k) \/ Evaluated(k) \/ Expire(k) \/ AbortAtFill(k)
                             \/ \E s \in SignalShapes : RecordSignal(k, s)
      PROVE  /\ UNCHANGED <<credits, trades, now>>
             /\ phase \notin {"anchor", "settle"} /\ phase' \notin {"anchor", "settle"}
  BY <1>8 DEF Fund, Fill, Evaluated, Expire, AbortAtFill, Abort, RecordSignal, Reserve, Open, Reject,
       ledgerVars
<1> QED BY <1>1, <1>2, <1>3, <1>4, <1>5, <1>6, <1>7, <1>8 DEF Next, Finished

\* What is unsettled is what the trades still out have to bring.
LEMMA UnsettledIsOut ==
  ASSUME IInv, CreditsAreTrades
  PROVE  Unsettled = SumFunction([t \in Outstanding |-> t.net + EntryCost(t.position)])
<1> DEFINE e == [t \in Outstanding |-> CreditOf(t)]
           f == [c \in credits |-> c.amount]
           g == [t \in Outstanding |-> t.net + EntryCost(t.position)]
<1>1. /\ Outstanding \subseteq trades /\ IsFiniteSet(Outstanding)
      /\ \A t \in Outstanding : t \in Trades
  BY FS_Subset DEF Outstanding, IInv, AccountInv, AccountOK
<1>2. f \in [credits -> Int]
  BY DEF IInv, AccountInv, AccountOK, Credits
<1>3. g \in [Outstanding -> Int]
  <2>1. \A t \in Trades : t.net \in Int /\ t.position.qty \in Nat /\ t.position.entry \in Int
                          /\ t.position.fee \in Int
    BY DEF Trades, Positions
  <2>2. \A t \in Trades : t.net + EntryCost(t.position) \in Int
    BY <2>1 DEF EntryCost
  <2> QED BY <1>1, <2>2
<1>4. \A t, u \in Outstanding : e[t] = e[u] => t = u
  BY <1>1 DEF CreditOf, CreditsAreTrades
<1>5. credits = {e[t] : t \in Outstanding}
  BY DEF CreditsAreTrades
<1>6. \A t \in Outstanding : g[t] = f[e[t]]
  BY <1>5 DEF CreditOf
<1>7. Unsettled = SumFunction(f)
  BY DEF Unsettled, AmountOf
<1> HIDE DEF e, f, g
<1>8. SumFunction(f) = SumFunction(g)
  BY <1>1, <1>2, <1>3, <1>4, <1>5, <1>6, FunSumImage
<1> QED BY <1>7, <1>8 DEF g

\* With cash conserved, the settled cash is then T+1.
LEMMA TPlusOneHolds == ASSUME IInv, CreditsAreTrades PROVE SettledIsTPlusOne
<1> DEFINE net == [t \in trades |-> t.net]
           out == [t \in trades |-> IF t \in Outstanding THEN t.net + EntryCost(t.position) ELSE 0]
           effect == [t \in trades |-> SettledEffect(t)]
           g == [t \in Outstanding |-> t.net + EntryCost(t.position)]
<1>1. Outstanding \in SUBSET trades /\ IsFiniteSet(trades) /\ trades \subseteq Trades
  BY DEF Outstanding, IInv, AccountInv, AccountOK
<1>2. \A t \in trades : t.net \in Int /\ EntryCost(t.position) \in Int
  BY <1>1 DEF Trades, Positions, EntryCost
<1>3. /\ net \in [trades -> Int] /\ out \in [trades -> Int] /\ effect \in [trades -> Int]
      /\ g \in [Outstanding -> Int]
  BY <1>1, <1>2 DEF SettledEffect
<1>4. \A t \in trades : effect[t] = net[t] - out[t]
  BY <1>2 DEF SettledEffect, Outstanding, PastBy
<1>5. /\ \A t \in Outstanding : g[t] = out[t]
      /\ \A t \in trades \ Outstanding : out[t] = 0
  BY <1>1
<1>6. Unsettled = SumFunction(g)
  BY UnsettledIsOut
<1>7. /\ SettledIsTPlusOne <=> settled + CommittedCash = StartingEquity + SumFunction(effect)
      /\ settled + Unsettled + CommittedCash = StartingEquity + SumFunction(net)
  BY DEF SettledIsTPlusOne, IInv, AccountInv, CashConserved
<1> HIDE DEF net, out, effect, g
<1>8. SumFunction(effect) = SumFunction(net) - SumFunction(out)
  BY <1>1, <1>3, <1>4, FunSumMinus
<1>9. SumFunction(out) = SumFunction(g)
  BY <1>1, <1>3, <1>5, FunSumPart
<1>10. /\ settled \in Int /\ Unsettled \in Int /\ CommittedCash \in Int /\ StartingEquity \in Int
       /\ SumFunction(net) \in Int
  BY <1>1, <1>3, CommittedTyped, AmountTyped, FunSumInt, AccountAssumption
     DEF IInv, AccountInv, AccountOK, Unsettled
<1>11. SumFunction(out) = Unsettled
  BY <1>6, <1>9
<1>12. settled + CommittedCash = StartingEquity + (SumFunction(net) - Unsettled)
  BY <1>7, <1>10
<1> QED BY <1>7, <1>8, <1>11, <1>12

\* The credits are those of the trades still out, throughout every replay.
LEMMA CreditsInductive == Spec => []CreditsAreTrades
<1>1. Init => CreditsAreTrades
  BY DEF Init, LedgerInit, CreditsAreTrades, Outstanding
<1> QED BY <1>1, CreditsNext, Inductive, PunctualInductive, PTL DEF Spec

\* T+1: at every moment of every replay the settled cash holds the proceeds of
\* exactly the closes of earlier sessions, for any calendar of sessions, any
\* overnight gap, weekend or holiday, and wherever the replay stops.
THEOREM SettlesTPlusOne == Spec => []SettledIsTPlusOne
<1>1. IInv /\ CreditsAreTrades => SettledIsTPlusOne
  BY TPlusOneHolds
<1> QED BY <1>1, Inductive, CreditsInductive, PTL

-----------------------------------------------------------------------------
(* Solvency: what keeps an account of longs from ever refusing a mark. *)

\* A price a share can be sold at and still pay the slippage and every fee of a
\* one-share close.
Floor == Slip + FeePerFill + FeePerShare + 1

\* The replays whose strategies are long only, whose stops and whose market stay
\* at or above that price.
SolventLongs ==
  /\ \A s \in SignalShapes : s.dir = "long" /\ s.stop >= Floor
  /\ \A b \in Bars : b.low >= Floor

LongAbove(i, stop) == i.dir = "long" /\ stop >= Floor

\* Nothing the account holds can take its cash below zero, and nothing it
\* waits for can be refused a price.
Solvent ==
  /\ settled >= 0
  /\ \A c \in credits : c.amount >= 0
  /\ \A k \in PendingKeys : LongAbove(pending[k], pending[k].stop)
  /\ \A k \in ReservedKeys : LongAbove(reserved[k].intent, reserved[k].intent.stop) /\ reserved[k].qty > 0
  /\ \A k \in HeldKeys : LongAbove(positions[k].intent, positions[k].stop) /\ positions[k].qty > 0
  /\ phase # "aborted"

\* The floor is above the slippage.
LEMMA FloorTyped == Floor \in Nat /\ Floor > Slip /\ Slip \in Nat
  BY AccountAssumption DEF Floor

\* A bar of a solvent market prints nothing below the floor.
LEMMA BarAbove ==
  ASSUME SolventLongs, bars \in [Symbols -> Bars], NEW k \in Keys
  PROVE  /\ BarOf(k).open \in Nat /\ BarOf(k).open >= Floor
         /\ BarOf(k).close \in Nat /\ BarOf(k).close >= Floor
<1>1. BarOf(k) \in Bars /\ BarOf(k).low \in Nat /\ BarOf(k).open \in Nat /\ BarOf(k).close \in Nat
  BY BarTyped
<1>2. BarOf(k).low <= BarOf(k).open /\ BarOf(k).low <= BarOf(k).close
  BY <1>1, EnvironmentAssumption
<1> QED BY <1>1, <1>2, FloorTyped DEF SolventLongs

\* No level triggers below the floor: a gap leaves at the open, a stop at the
\* stop, a target above the open.
LEMMA HitAbove ==
  ASSUME SolventLongs, bars \in [Symbols -> Bars], NEW k \in Keys, NEW p \in Positions,
         LongAbove(p.intent, p.stop)
  PROVE  /\ ProtectiveExit(p, BarOf(k)).at \in Int /\ ProtectiveExit(p, BarOf(k)).at >= Floor
         /\ Priced(p, ProtectiveExit(p, BarOf(k)))
<1>1. p.stop \in Int /\ p.target \in Int /\ p.intent.dir = "long" /\ p.stop >= Floor
  BY DEF Positions, LongAbove
<1>2. BarOf(k).open \in Nat /\ BarOf(k).open >= Floor
  BY BarAbove
<1>3. ProtectiveExit(p, BarOf(k)).at \in Int /\ ProtectiveExit(p, BarOf(k)).at >= Floor
  BY <1>1, <1>2, FloorTyped DEF ProtectiveExit, AtTarget
<1> QED BY <1>1, <1>3, FloorTyped DEF Priced, ExitFill

\* A long sold at or above the floor brings in cash.
LEMMA CreditAbove ==
  ASSUME NEW p \in Positions, p.intent.dir = "long", p.qty > 0, NEW ref \in Int, ref >= Floor
  PROVE  CreditFor(p, ExitFill(p.intent.dir, ref)) >= 0
<1> DEFINE q == p.qty
           x == ref - Slip - FeePerShare
<1>1. q \in Nat /\ q >= 1
  BY DEF Positions
<1>2. FeePerFill \in Nat /\ FeePerShare \in Nat /\ Slip \in Nat
  BY AccountAssumption
<1>3. x \in Nat /\ x >= FeePerFill
  BY <1>2 DEF Floor
<1>4. CreditFor(p, ExitFill(p.intent.dir, ref)) = q * (x + FeePerShare) - (FeePerFill + FeePerShare * q)
  <2>1. ref - Slip = x + FeePerShare
    BY <1>2
  <2> HIDE DEF x
  <2> QED BY <2>1 DEF CreditFor, ExitFill, Charge
<1> HIDE DEF q, x
<1>5. q * (x + FeePerShare) = q * x + FeePerShare * q
  BY <1>1, <1>2, <1>3
<1>6. q * x >= x /\ q * x \in Nat /\ FeePerShare * q \in Nat
  <2>1. PICK m \in Nat : q = m + 1
    <3>1. q - 1 \in Nat /\ q = (q - 1) + 1
      BY <1>1
    <3> QED BY <3>1
  <2>2. m * x \in Nat /\ FeePerShare * q \in Nat
    BY <1>1, <1>2, <1>3
  <2>3. q * x = m * x + x
    BY <1>3, <2>1
  <2>4. q * x >= x /\ q * x \in Nat
    BY <1>3, <2>2, <2>3
  <2> QED BY <2>2, <2>4
<1> DEFINE a == q * x
           b == FeePerShare * q
<1>7. a >= x /\ a \in Nat /\ b \in Nat /\ CreditFor(p, ExitFill(p.intent.dir, ref)) = (a + b) - (FeePerFill + b)
  BY <1>4, <1>5, <1>6
<1> HIDE DEF a, b
<1> QED BY <1>2, <1>3, <1>7

\* No mark of a solvent account is refused.
LEMMA NoMarkRefused ==
  ASSUME SolventLongs, IInv, Punctual, Solvent, phase \in {"anchor", "freeze", "mark", "final"}
  PROVE  SnapshotRefusal(MarkDue.at, MarkDue.prices) = "none"
<1>1. \A k \in HeldKeys : ~ (ExitFill(positions[k].intent.dir, MarkDue.prices[SymbolOf(k)]) <= 0)
  <2> TAKE k \in HeldKeys
  <2>1. /\ BarOf(k).open \in Nat /\ BarOf(k).open >= Floor
        /\ BarOf(k).close \in Nat /\ BarOf(k).close >= Floor
    BY BarAbove DEF HeldKeys, IInv, RunOK
  <2>2. MarkDue.prices[SymbolOf(k)] \in {BarOf(k).open, BarOf(k).close}
    BY KeyParts DEF MarkDue, OpenPrices, ClosePrices, BarOf, HeldKeys
  <2>3. positions[k].intent.dir = "long"
    BY DEF Solvent, LongAbove
  <2> HIDE DEF MarkDue
  <2> QED BY <2>1, <2>2, <2>3, FloorTyped DEF ExitFill
<1>2. ~ (settled < 0)
  BY DEF Solvent, IInv, AccountInv, AccountOK
<1>3. SnapshotRefusal(MarkDue.at, MarkDue.prices)
        \notin {"reservation_outstanding", "settlement_not_applied"}
  BY MarkInOrder
<1> QED BY <1>1, <1>2, <1>3 DEF SnapshotRefusal

\* No fill of a solvent account is refused.
LEMMA NoFillRefused ==
  ASSUME SolventLongs, IInv, Solvent, NEW k \in Keys
  PROVE  ~ AbortAtFill(k)
<1> SUFFICES ASSUME AbortAtFill(k) PROVE FALSE
  OBVIOUS
<1>1. bars \in [Symbols -> Bars]
  BY DEF IInv, RunOK
<1>2. BarOf(k).open \in Nat /\ BarOf(k).open >= Floor /\ BarOf(k).close \in Nat /\ BarOf(k).close >= Floor
  BY <1>1, BarAbove
<1>3. k \in HeldKeys => /\ positions[k] \in Positions /\ LongAbove(positions[k].intent, positions[k].stop)
                        /\ Priced(positions[k], ProtectiveExit(positions[k], BarOf(k)))
  BY <1>1, HeldPosition, HitAbove DEF Solvent, IInv
<1>4. CASE phase \in {"gap", "protect"}
  BY <1>3, <1>4 DEF AbortAtFill, NextPosition, FirstOf, IInv, Visiting
<1>5. CASE phase = "manage"
  <2>1. k \in HeldKeys /\ ExitFill(positions[k].intent.dir, BarOf(k).close) <= 0
    BY <1>5 DEF AbortAtFill, NextPosition, FirstOf, IInv, Visiting
  <2> QED BY <1>2, <1>3, <2>1, FloorTyped DEF ExitFill, LongAbove
<1>6. CASE phase = "fund"
  <2>1. k \in PendingKeys /\ ProposalFor(k).fill <= 0
    BY <1>6 DEF AbortAtFill, IInv, Visiting
  <2>2. pending[k].dir = "long"
    BY <2>1 DEF Solvent, LongAbove
  <2>3. ProposalFor(k).fill = BarOf(k).open + Slip
    BY <2>2 DEF ProposalFor, Propose, EntryFill
  <2> QED BY <1>2, <2>1, <2>3, FloorTyped
<1> QED BY <1>4, <1>5, <1>6 DEF AbortAtFill

\* Settling what is due takes no cash away.
LEMMA SolventSettle == ASSUME IInv, Solvent, SettleAtOpen PROVE Solvent'
<1> DEFINE due == DueBy(DateOf(OpenTs[now]))
<1>1. /\ settled' = settled + AmountOf(due) /\ credits' \subseteq credits /\ phase' = "freeze"
      /\ UNCHANGED <<pending, reserved, positions>>
  BY DEF SettleAtOpen, SettleDue
<1>2. due \subseteq credits /\ IsFiniteSet(due)
  BY FS_Subset DEF DueBy, IInv, AccountInv, AccountOK
<1>3. [c \in due |-> c.amount] \in [due -> Nat]
  <2> SUFFICES ASSUME NEW c \in due PROVE c.amount \in Nat
    OBVIOUS
  <2>1. c \in credits /\ c \in Credits
    BY <1>2 DEF IInv, AccountInv, AccountOK
  <2> QED BY <2>1 DEF Solvent, Credits
<1> HIDE DEF due
<1>4. AmountOf(due) \in Nat
  BY <1>2, <1>3, FunSumNat DEF AmountOf
<1>5. settled' >= 0
  BY <1>1, <1>4 DEF Solvent, IInv, AccountInv, AccountOK
<1> QED BY <1>1, <1>5 DEF Solvent, PendingKeys, ReservedKeys, HeldKeys

\* A reservation spends only settled cash.
LEMMA SolventFund == ASSUME IInv, Solvent, NEW k \in Keys, Fund(k) PROVE Solvent'
<1> DEFINE p == ProposalFor(k)
<1>1. /\ Unseat(k) /\ k \in PendingKeys /\ phase' \in {"fund", "fill"} /\ RunOK /\ Visiting
      /\ UNCHANGED <<credits, positions>>
  BY DEF Fund, NextIntent, FirstOf, IInv, Visiting, Reserve, Reject
<1>2. /\ p.intent = pending[k] /\ p.intent.key = k /\ LongAbove(p.intent, p.intent.stop)
  BY <1>1, PendingIntent DEF ProposalFor, Propose, Solvent
<1>3. PendingKeys' = PendingKeys \ {k} /\ \A j \in PendingKeys' : pending'[j] = pending[j]
  BY <1>1, UnseatPending
<1> HIDE DEF p
<1>4. CASE Verdict(p) = "accepted"
  <2>1. settled' = settled - p.required /\ reserved' = [reserved EXCEPT ![k] = p]
    BY <1>2, <1>4 DEF Fund, Reserve, p
  <2>2. ~ (settled < p.required) /\ ~ (p.qty <= 0)
    BY <1>4 DEF Verdict
  <2>3. settled \in Int /\ p.required \in Int /\ p.qty \in Int
    <3>1. pending[k] \in Intents /\ BarOf(k).open \in Int /\ frozen \in Int
      BY <1>1, PendingIntent, BarTyped DEF RunOK
    <3>2. p \in Proposals
      BY <3>1, ProposalTyped DEF p, ProposalFor
    <3> QED BY <3>2 DEF Proposals, IInv, AccountInv, AccountOK
  <2>4. settled' >= 0 /\ p.qty > 0
    BY <2>1, <2>2, <2>3
  <2>5. \A j \in ReservedKeys' : (j \in ReservedKeys /\ reserved'[j] = reserved[j]) \/ reserved'[j] = p
    BY <2>1 DEF ReservedKeys, IInv, AccountInv, AccountOK
  <2> QED BY <1>1, <1>2, <1>3, <2>4, <2>5 DEF Solvent, HeldKeys
<1>5. CASE Verdict(p) # "accepted"
  <2>1. UNCHANGED <<settled, reserved>>
    BY <1>5 DEF Fund, Reject, p
  <2> QED BY <1>1, <1>3, <2>1 DEF Solvent, HeldKeys, ReservedKeys
<1> QED BY <1>4, <1>5

\* A fill opens a position at or above the floor.
LEMMA SolventFill == ASSUME IInv, Solvent, NEW k \in Keys, Fill(k) PROVE Solvent'
<1>1. /\ k \in ReservedKeys /\ reserved[k].intent.key = k /\ phase' = "fund"
      /\ UNCHANGED <<settled, credits, pending>>
  BY DEF Fill, Open, ReservedKeys, IInv, AccountInv, Booked
<1>2. reserved' = [reserved EXCEPT ![k] = None]
  BY <1>1 DEF Fill, Open
<1>3. /\ \A j \in Keys \ {k} : positions'[j] = positions[j]
      /\ positions'[k].intent = reserved[k].intent /\ positions'[k].qty = reserved[k].qty
      /\ positions'[k].stop = reserved[k].intent.stop
  BY <1>1 DEF Fill, Open, IInv, AccountInv, AccountOK
<1>4. \A j \in HeldKeys' : LongAbove(positions'[j].intent, positions'[j].stop) /\ positions'[j].qty > 0
  BY <1>1, <1>3 DEF Solvent, HeldKeys
<1>5. \A j \in ReservedKeys' : j \in ReservedKeys /\ reserved'[j] = reserved[j]
  BY <1>2 DEF ReservedKeys, IInv, AccountInv, AccountOK
<1> QED BY <1>1, <1>4, <1>5 DEF Solvent, PendingKeys

\* Steps that may close a position credit no less than zero, and a replacement
\* stop only tightens.
LEMMA SolventClosing ==
  ASSUME SolventLongs, IInv, Punctual, Solvent, NEW k \in Keys,
         GapExit(k) \/ Protect(k) \/ Liquidate(k) \/ \E d \in Decisions : Manage(k, d)
  PROVE  Solvent'
<1>1. /\ phase' = phase /\ UNCHANGED pending /\ k \in HeldKeys
  BY DEF GapExit, Protect, Liquidate, Manage, NextPosition, FirstOf, IInv, Visiting
<1>2. /\ positions[k] \in Positions /\ LongAbove(positions[k].intent, positions[k].stop)
      /\ positions[k].qty > 0 /\ positions \in [Keys -> Positions \cup {None}]
      /\ bars \in [Symbols -> Bars]
  BY <1>1, HeldPosition DEF Solvent, IInv, AccountInv, AccountOK, RunOK
<1>3. ASSUME NEW p \in Positions, NEW ref \in Int, NEW ts \in Nat, NEW reason \in ExitReasons,
             SettleOut(p, ref, ts, reason), SameEntry(p, positions[k]),
             ref \in {ProtectiveExit(positions[k], BarOf(k)).at, BarOf(k).close}
      PROVE  Solvent'
  <2> DEFINE c == [trade |-> tradeOrdinal, amount |-> CreditFor(p, ExitFill(p.intent.dir, ref)),
                   settles |-> SettlementSession(ts)]
  <2>1. ref >= Floor
    BY <1>2, <1>3, HitAbove, BarAbove
  <2>2. c.amount >= 0
    BY <1>2, <1>3, <2>1, CreditAbove DEF SameEntry, LongAbove
  <2>3. credits' = credits \cup {c} /\ UNCHANGED <<settled, reserved>>
    BY <1>3 DEF SettleOut, Close
  <2> HIDE DEF c
  <2>4. \A j \in HeldKeys' : j \in HeldKeys /\ positions'[j] = positions[j]
    BY <1>2, <1>3 DEF SettleOut, Close, HeldKeys
  <2> QED BY <1>1, <2>2, <2>3, <2>4 DEF Solvent, PendingKeys, ReservedKeys
<1>4. ASSUME UNCHANGED <<settled, credits, reserved>>, UNCHANGED positions \/ Moved(k)
      PROVE  Solvent'
  <2>1. CASE UNCHANGED positions
    BY <1>1, <1>4, <2>1 DEF Solvent, PendingKeys, ReservedKeys, HeldKeys
  <2>2. ASSUME NEW d \in Decisions, ValidDecision(positions[k], BarOf(k).close, d),
               positions' = [positions EXCEPT ![k] = Adjusted(positions[k], d.stop, d.target)]
        PROVE  Solvent'
    <3> DEFINE p == Adjusted(positions[k], d.stop, d.target)
    <3>1. p.intent = positions[k].intent /\ p.qty = positions[k].qty
          /\ p.stop = IF d.stop = None THEN positions[k].stop ELSE d.stop
      BY <1>2 DEF Adjusted, Positions
    <3>2. d.stop # None => d.stop \in Int /\ positions[k].stop <= d.stop
      BY <1>2, <2>2, EnvironmentAssumption DEF ValidDecision, LongAbove
    <3>3. positions[k].stop \in Int /\ Floor \in Int
      BY <1>2, FloorTyped DEF Positions
    <3>4. LongAbove(p.intent, p.stop) /\ p.qty > 0
      BY <1>2, <3>1, <3>2, <3>3 DEF LongAbove
    <3> HIDE DEF p
    <3>5. \A j \in HeldKeys' : (j \in HeldKeys /\ positions'[j] = positions[j]) \/ positions'[j] = p
      BY <1>2, <2>2 DEF HeldKeys, p
    <3> QED BY <1>1, <1>4, <3>4, <3>5 DEF Solvent, PendingKeys, ReservedKeys
  <2> QED BY <1>4, <2>1, <2>2 DEF Moved
<1> QED BY <1>3, <1>4, ClosingStep

\* Step 8 changes no level.
LEMMA SolventObserve == ASSUME IInv, Solvent, ObserveSurvivors PROVE Solvent'
<1>1. /\ phase' = "manage" /\ UNCHANGED <<settled, credits, reserved, pending>>
      /\ \A k \in Keys : positions'[k] = IF positions[k] = None THEN None
                                         ELSE Observed(positions[k], BarOf(k).high, BarOf(k).low)
  BY DEF ObserveSurvivors
<1>2. ASSUME NEW k \in HeldKeys'
      PROVE  LongAbove(positions'[k].intent, positions'[k].stop) /\ positions'[k].qty > 0
  <2>1. k \in HeldKeys /\ positions'[k] = Observed(positions[k], BarOf(k).high, BarOf(k).low)
    BY <1>1 DEF HeldKeys
  <2>2. positions[k] \in Positions
    BY <2>1, HeldPosition DEF IInv
  <2>3. /\ positions'[k].intent = positions[k].intent /\ positions'[k].stop = positions[k].stop
        /\ positions'[k].qty = positions[k].qty
    BY <2>1, <2>2 DEF Observed, Positions
  <2> QED BY <2>1, <2>3 DEF Solvent
<1> QED BY <1>1, <1>2 DEF Solvent, PendingKeys, ReservedKeys

\* A signal of a solvent replay is seated with its stop at or above the floor.
LEMMA SolventRecord ==
  ASSUME SolventLongs, IInv, Solvent, NEW k \in Keys, NEW s \in SignalShapes, RecordSignal(k, s)
  PROVE  Solvent'
<1>1. /\ phase' = "evaluate" /\ UNCHANGED <<settled, credits, reserved, positions>>
      /\ pending' = pending \/ pending' = [pending EXCEPT ![k] = IntentFrom(k, s)]
      /\ pending \in [Keys -> Intents \cup {None}]
  BY DEF RecordSignal, Reject, ledgerVars, IInv, RunOK
<1>2. LongAbove(IntentFrom(k, s), IntentFrom(k, s).stop)
  BY DEF IntentFrom, LongAbove, SolventLongs
<1>3. \A j \in PendingKeys' : (j \in PendingKeys /\ pending'[j] = pending[j]) \/ pending'[j] = IntentFrom(k, s)
  BY <1>1 DEF PendingKeys
<1> QED BY <1>1, <1>2, <1>3 DEF Solvent, ReservedKeys, HeldKeys

\* Every step of a solvent replay keeps it solvent.
LEMMA SolventNext ==
  ASSUME SolventLongs
  PROVE  IInv /\ Punctual /\ Solvent /\ [Next]_vars => Solvent'
<1> SUFFICES ASSUME IInv, Punctual, Solvent, [Next]_vars PROVE Solvent'
  OBVIOUS
<1>1. ~ AbortAtMark
  BY NoMarkRefused DEF AbortAtMark
<1>2. ASSUME OpeningMark \/ Freeze \/ FinishStep \/ CloseMark \/ FinalMark \/ Finished \/ UNCHANGED vars
      PROVE  Solvent'
  <2>1. UNCHANGED <<settled, credits, reserved, positions, pending>> /\ phase' # "aborted"
    BY <1>2 DEF OpeningMark, Freeze, FinishStep, CloseMark, FinalMark, Finished, vars, runVars,
         ledgerVars, Solvent
  <2> QED BY <2>1 DEF Solvent, PendingKeys, ReservedKeys, HeldKeys
<1>3. ASSUME NEW k \in Keys, Evaluated(k) \/ Expire(k) PROVE Solvent'
  <2>1. /\ UNCHANGED <<settled, credits, reserved, positions>> /\ phase' # "aborted"
        /\ UNCHANGED pending \/ Unseat(k)
    BY <1>3 DEF Evaluated, Expire, Reject, ledgerVars
  <2>2. \A j \in PendingKeys' : j \in PendingKeys /\ pending'[j] = pending[j]
    BY <2>1, UnseatPending DEF PendingKeys, IInv
  <2> QED BY <2>1, <2>2 DEF Solvent, ReservedKeys, HeldKeys
<1> QED BY <1>1, <1>2, <1>3, NoFillRefused, SolventSettle, SolventFund, SolventFill, SolventClosing,
           SolventObserve, SolventRecord DEF Next

\* An account of longs whose stops and whose market stay above the slippage and
\* the fees never refuses a mark or a fill: whatever it holds, however many fees
\* it pays and whenever its proceeds settle, the replay is never abandoned.  The
\* hypothesis is the longs' own; what a short does to the account without it is
\* the finding of the run ReplayShortGap.
THEOREM LongsNeverAbort == SolventLongs => (Spec => []ReplayNeverAborts)
<1> SUFFICES ASSUME SolventLongs PROVE Spec => []ReplayNeverAborts
  OBVIOUS
<1>1. Init => Solvent
  <2> SUFFICES ASSUME Init PROVE Solvent
    OBVIOUS
  <2>1. PendingKeys = {} /\ ReservedKeys = {} /\ HeldKeys = {}
    BY DEF Init, LedgerInit, PendingKeys, ReservedKeys, HeldKeys
  <2> QED BY <2>1, AccountAssumption DEF Init, LedgerInit, Solvent
<1>2. IInv /\ Punctual /\ Solvent /\ [Next]_vars => Solvent'
  BY SolventNext
<1>3. Solvent => ReplayNeverAborts
  BY DEF Solvent, ReplayNeverAborts
<1> QED BY <1>1, <1>2, <1>3, Inductive, PunctualInductive, PTL DEF Spec
=============================================================================
