---------------------------- MODULE ResultProofs ----------------------------
(***************************************************************************)
(* What a replay does with its signals and what becomes of them.           *)
(* The life of a signal: each step of the chronology does at most one      *)
(* thing to one signal, and the seven things it may do are all the first   *)
(* proofs need to know of it; from them follow that every signal is in one *)
(* place, that the replay implements SignalLifecycle, and that refusals    *)
(* and capacity keep their order.                                          *)
(* The positions, the trades they become and the result made of them: what *)
(* _gap_exits, _fund and _protect leave between a bar's open and the live  *)
(* levels; what a position has seen of the price it leaves at; why the     *)
(* rows, marks and ordinals _finalize_result is handed give it no reason   *)
(* to refuse; and why its lenses agree with one another.                   *)
(***************************************************************************)
EXTENDS ReplayProofs, Results, SequenceTheorems

\* Two states of one filled signal.
SameFill(p, q) == p.intent = q.intent /\ p.entryTs = q.entryTs

\* The open positions are those of S, each as it was filled.
Holds(S) == HeldKeys' = S /\ \A k \in S : SameFill(positions'[k], positions[k])

\* What a step may do to the signals.
Stays ==
  /\ UNCHANGED <<pending, reserved, trades, rejections, signalOrdinal>>
  /\ Holds(HeldKeys)

SeatedAt(k) ==
  /\ phase = "evaluate" /\ positions[k] = None /\ pending[k] = None
  /\ \E i \in Intents :
       /\ i.key = k /\ i.ordinal = signalOrdinal
       /\ i.ts = CloseTs[now] /\ i.eligible = EligibleAfter(now)
       /\ pending' = [pending EXCEPT ![k] = i]
  /\ signalOrdinal' = signalOrdinal + 1
  /\ UNCHANGED <<positions, reserved, trades, rejections>>

RefusedAtBirth(k) ==
  /\ phase = "evaluate" /\ (positions[k] # None \/ pending[k] # None)
  /\ \E r \in Rejections :
       /\ r.intent.ordinal = signalOrdinal /\ r.ts = r.intent.ts
       /\ r.reason \in {"position_occupied", "pending_intent_occupied"}
       /\ rejections' = rejections \cup {r}
  /\ signalOrdinal' = signalOrdinal + 1
  /\ UNCHANGED <<positions, pending, reserved, trades>>

ReservedAt(k) ==
  /\ phase = "fund" /\ pending[k] # None /\ positions[k] = None
  /\ Cardinality(HeldKeys) < MaxOpen
  /\ \E p \in Proposals :
       p.intent = pending[k] /\ reserved' = [reserved EXCEPT ![k] = p]
  /\ Unseat(k)
  /\ UNCHANGED <<positions, trades, rejections, signalOrdinal>>

RefusedAt(k) ==
  /\ phase \in {"fund", "expire"} /\ pending[k] # None
  /\ \E r \in Rejections :
       /\ r.intent = pending[k]
       /\ IF phase = "expire" THEN r.reason = "window_ended"
          ELSE r.reason = Verdict(ProposalFor(k)) /\ r.ts = OpenTs[now]
       /\ rejections' = rejections \cup {r}
  /\ Unseat(k)
  /\ UNCHANGED <<positions, reserved, trades, signalOrdinal>>

FilledAt(k) ==
  /\ phase = "fill" /\ reserved[k] # None
  /\ reserved' = [reserved EXCEPT ![k] = None]
  /\ positions'[k].intent = reserved[k].intent /\ positions'[k].entryTs = OpenTs[now]
  /\ HeldKeys' = HeldKeys \cup {k}
  /\ \A j \in HeldKeys : positions'[j] = positions[j]
  /\ UNCHANGED <<pending, trades, rejections, signalOrdinal>>

TradedAt(k) ==
  /\ phase \in {"gap", "protect", "manage", "liquidate"} /\ k \in HeldKeys
  /\ \E t \in Trades : SameFill(t.position, positions[k]) /\ trades' = trades \cup {t}
  /\ Holds(HeldKeys \ {k})
  /\ UNCHANGED <<pending, reserved, rejections, signalOrdinal>>

\* The step does one of the seven.
SignalStep ==
  \/ Stays
  \/ \E k \in Keys : \/ SeatedAt(k) \/ RefusedAtBirth(k) \/ ReservedAt(k) \/ RefusedAt(k)
                     \/ FilledAt(k) \/ TradedAt(k)

-----------------------------------------------------------------------------

\* A step that leaves the account, the seats and the count alone leaves every
\* signal where it is.
LEMMA QuietStays ==
  ASSUME UNCHANGED <<positions, reserved, trades, rejections, pending, signalOrdinal>>
  PROVE  Stays
  BY DEF Stays, Holds, SameFill, HeldKeys

\* observe() and adjust() leave a fill what it was.
LEMMA SameFillKept ==
  ASSUME NEW p \in Positions
  PROVE  /\ \A h, l : SameFill(Observed(p, h, l), p)
         /\ \A s, t : SameFill(Adjusted(p, s, t), p)
  BY DEF SameFill, Observed, Adjusted, Positions

\* So does what an intrabar exit has seen.
LEMMA SeenFill ==
  ASSUME NEW p \in Positions, bars \in [Symbols -> Bars], NEW k \in Keys
  PROVE  SameFill(SeenByExit(p, BarOf(k), ProtectiveExit(p, BarOf(k))), p)
<1> DEFINE hit     == ProtectiveExit(p, BarOf(k))
           opened  == Observed(p, BarOf(k).open, BarOf(k).open)
           leveled == Observed(opened, hit.at, hit.at)
           adverse == Worst(p.intent.dir, BarOf(k))
           lived   == Observed(leveled, adverse, adverse)
           seen    == SeenByExit(p, BarOf(k), hit)
<1>1. BarOf(k).open \in Int /\ adverse \in Int /\ hit.at \in Int
  BY BarTyped, HitTyped DEF Worst
<1>2. opened \in Positions /\ SameFill(opened, p)
  BY <1>1, ObservedTyped, SameFillKept
<1>3. leveled \in Positions /\ SameFill(leveled, opened)
  <2> HIDE DEF opened, hit
  <2> QED BY <1>1, <1>2, ObservedTyped, SameFillKept
<1>4. SameFill(lived, leveled)
  <2> HIDE DEF leveled, adverse
  <2> QED BY <1>1, <1>3, SameFillKept
<1>5. seen = lived \/ seen = leveled
  BY DEF SeenByExit
<1>6. SameFill(seen, p)
  <2> HIDE DEF opened, leveled, lived, seen
  <2> QED BY <1>2, <1>3, <1>4, <1>5 DEF SameFill
<1> QED BY <1>6

\* _settle_out trades one signal out.
LEMMA SettleOutTrades ==
  ASSUME AccountInv, NEW k \in HeldKeys, NEW p \in Positions, SameFill(p, positions[k]),
         NEW ref \in Int, NEW ts \in Nat, NEW reason \in ExitReasons,
         SettleOut(p, ref, ts, reason), UNCHANGED <<pending, signalOrdinal>>,
         phase \in {"gap", "protect", "manage", "liquidate"}
  PROVE  TradedAt(k)
<1> DEFINE fill == ExitFill(p.intent.dir, ref)
           t == [ordinal |-> tradeOrdinal, position |-> p, exit |-> fill, exitTs |-> ts,
                 net |-> GrossPnl(p, fill) - (p.fee + Charge(p.qty)), reason |-> reason]
<1>1. k \in Keys /\ p.intent.key = k
  BY HeldPosition DEF SameFill
<1>2. fill \in Int /\ Close(p, fill, ts, reason)
  BY FillTyped DEF SettleOut
<1>3. t \in Trades
  <2>1. p.qty \in Nat /\ p.fee \in Int
    BY DEF Positions
  <2>2. GrossPnl(p, fill) \in Int /\ Charge(p.qty) \in Nat
    BY <1>2, <2>1, ProfitTyped, ChargeTyped
  <2>3. tradeOrdinal \in Nat
    BY DEF AccountInv, AccountOK
  <2> HIDE DEF fill
  <2> QED BY <1>2, <2>1, <2>2, <2>3 DEF Trades
<1>4. /\ trades' = trades \cup {t} /\ positions' = [positions EXCEPT ![k] = None]
      /\ UNCHANGED <<reserved, rejections>>
  BY <1>1, <1>2 DEF Close
<1>5. t.position = p
  OBVIOUS
<1> HIDE DEF t
<1>6. Holds(HeldKeys \ {k})
  BY <1>1, <1>4 DEF Holds, SameFill, HeldKeys, AccountInv, AccountOK
<1> QED BY <1>3, <1>4, <1>5, <1>6 DEF TradedAt

\* _gap_exits trades a signal out or leaves it.
LEMMA GapExitStep == ASSUME IInv, NEW k \in Keys, GapExit(k) PROVE SignalStep
<1> DEFINE p == positions[k]
           hit == ProtectiveExit(p, BarOf(k))
<1>1. AccountInv /\ RunOK /\ phase = "gap" /\ k \in HeldKeys /\ UNCHANGED <<pending, signalOrdinal>>
  BY DEF IInv, GapExit, NextPosition, FirstOf, Visiting
<1>2. p \in Positions /\ hit.at \in Int /\ OpenTs[now] \in Nat
  BY <1>1, HeldPosition, HitTyped, ClockTyped DEF RunOK
<1>3. CASE LeavesAtOpen(hit)
  <2>1. SettleOut(Observed(p, hit.at, hit.at), hit.at, OpenTs[now], hit.reason)
    BY <1>3 DEF GapExit
  <2>2. hit.reason \in ExitReasons
    BY <1>3 DEF LeavesAtOpen, GapReasons, ExitReasons
  <2>3. Observed(p, hit.at, hit.at) \in Positions /\ SameFill(Observed(p, hit.at, hit.at), p)
    BY <1>2, ObservedTyped, SameFillKept
  <2> HIDE DEF hit
  <2>4. TradedAt(k)
    BY <1>1, <1>2, <2>1, <2>2, <2>3, SettleOutTrades
  <2> QED BY <2>4 DEF SignalStep
<1>4. CASE ~ LeavesAtOpen(hit)
  BY <1>1, <1>4, QuietStays DEF GapExit, ledgerVars, SignalStep
<1> QED BY <1>3, <1>4

\* _fund reserves for a signal or refuses it.
LEMMA FundStep == ASSUME IInv, NEW k \in Keys, Fund(k) PROVE ReservedAt(k) \/ RefusedAt(k)
<1> DEFINE p == ProposalFor(k)
<1>1. AccountInv /\ RunOK /\ Visiting /\ phase = "fund" /\ k \in PendingKeys /\ ReservedKeys = {}
      /\ UNCHANGED signalOrdinal /\ Unseat(k)
  BY DEF IInv, Fund, NextIntent, FirstOf, Visiting
<1>2. pending[k] \in Intents /\ pending[k] # None /\ pending[k].key = k /\ OpenTs[now] \in Nat
  BY <1>1, PendingIntent, ClockTyped DEF PendingKeys
<1>3. p \in Proposals /\ p.intent = pending[k]
  <2>1. BarOf(k).open \in Int /\ frozen \in Int
    BY <1>1, BarTyped DEF RunOK
  <2> QED BY <1>2, <2>1, ProposalTyped DEF ProposalFor, Propose
<1> HIDE DEF p
<1>4. CASE Verdict(p) = "accepted" /\ Reserve(p)
  <2>1. reserved' = [reserved EXCEPT ![k] = p] /\ UNCHANGED <<positions, trades, rejections>>
    BY <1>2, <1>3, <1>4 DEF Reserve
  <2>2. positions[k] = None /\ ~ (Cardinality(HeldKeys) + Cardinality(ReservedKeys) >= MaxOpen)
    BY <1>2, <1>3, <1>4 DEF Verdict
  <2>3. Cardinality(ReservedKeys) = 0 /\ Cardinality(HeldKeys) \in Nat
    BY <1>1, KeysFinite, FS_EmptySet, FS_Subset, FS_CardinalityType DEF HeldKeys
  <2>4. Cardinality(HeldKeys) < MaxOpen
    BY <2>2, <2>3, AccountAssumption
  <2> QED BY <1>1, <1>2, <1>3, <2>1, <2>2, <2>4 DEF ReservedAt
<1>5. CASE Verdict(p) # "accepted" /\ Reject(pending[k], Verdict(p), OpenTs[now])
  <2> DEFINE r == [ordinal |-> rejectionOrdinal, intent |-> pending[k], ts |-> OpenTs[now],
                   reason |-> Verdict(p)]
  <2>1. Verdict(p) \in RejectionReasons
    BY <1>5 DEF Verdict, RejectionReasons
  <2>2. r \in Rejections
    BY <1>1, <1>2, <2>1 DEF Rejections, AccountInv, AccountOK
  <2>3. rejections' = rejections \cup {r} /\ UNCHANGED <<positions, reserved, trades>>
    BY <1>5 DEF Reject
  <2>4. r.intent = pending[k] /\ r.reason = Verdict(ProposalFor(k)) /\ r.ts = OpenTs[now]
    BY DEF p
  <2> HIDE DEF r
  <2> QED BY <1>1, <1>2, <2>2, <2>3, <2>4 DEF RefusedAt
<1> QED BY <1>4, <1>5 DEF Fund, p

\* _fund fills the signal it reserved for.
LEMMA FillStep == ASSUME IInv, NEW k \in Keys, Fill(k) PROVE FilledAt(k)
<1> DEFINE p == reserved[k]
<1>1. AccountInv /\ phase = "fill" /\ k \in ReservedKeys /\ k \notin HeldKeys
  BY DEF IInv, Fill, ReservedKeys, AccountInv, Booked
<1>2. p \in Proposals /\ p.intent.key = k /\ p # None
  BY <1>1 DEF AccountInv, AccountOK, Booked, ReservedKeys
<1>3. Open(p, OpenTs[now]) /\ UNCHANGED <<pending, signalOrdinal>>
  BY DEF Fill
<1>4. /\ reserved' = [reserved EXCEPT ![k] = None]
      /\ positions' = [positions EXCEPT ![k] = positions'[k]]
      /\ positions'[k].intent = p.intent /\ positions'[k].entryTs = OpenTs[now]
      /\ UNCHANGED <<trades, rejections>>
  BY <1>1, <1>2, <1>3 DEF Open, AccountInv, AccountOK
<1>5. positions'[k] # None
  <2>1. OpenTs[now] \in Nat /\ AccountOK
    BY ClockTyped DEF IInv, AccountInv
  <2>2. positions'[k] \in Positions
    BY <1>2, <1>3, <2>1, OpenTyped
  <2> QED BY <2>2, NoneAssumption
<1>6. HeldKeys' = HeldKeys \cup {k} /\ \A j \in HeldKeys : positions'[j] = positions[j]
  BY <1>1, <1>4, <1>5 DEF HeldKeys, AccountInv, AccountOK
<1> QED BY <1>1, <1>2, <1>3, <1>4, <1>6 DEF FilledAt

\* _protect trades a signal out or leaves it.
LEMMA ProtectStep == ASSUME IInv, NEW k \in Keys, Protect(k) PROVE SignalStep
<1> DEFINE p == positions[k]
           hit == ProtectiveExit(p, BarOf(k))
           q == SeenByExit(p, BarOf(k), hit)
<1>1. AccountInv /\ RunOK /\ phase = "protect" /\ k \in HeldKeys /\ UNCHANGED <<pending, signalOrdinal>>
  BY DEF IInv, Protect, NextPosition, FirstOf, Visiting
<1>2. p \in Positions /\ hit.at \in Int /\ CloseTs[now] \in Nat
  BY <1>1, HeldPosition, HitTyped, ClockTyped DEF RunOK
<1>3. CASE hit.reason \in {"stop", "target"}
  <2>1. SettleOut(q, hit.at, CloseTs[now], hit.reason)
    BY <1>3 DEF Protect
  <2>2. hit.reason \in ExitReasons
    BY <1>3 DEF ExitReasons
  <2>3. q \in Positions /\ SameFill(q, p)
    BY <1>1, <1>2, SeenTyped, SeenFill DEF RunOK
  <2> HIDE DEF hit, q
  <2>4. TradedAt(k)
    BY <1>1, <1>2, <2>1, <2>2, <2>3, SettleOutTrades
  <2> QED BY <2>4 DEF SignalStep
<1>4. CASE hit.reason \notin {"stop", "target"}
  BY <1>1, <1>4, QuietStays DEF Protect, ledgerVars, SignalStep
<1> QED BY <1>3, <1>4

\* observe() of the survivors moves no signal.
LEMMA ObserveStep == ASSUME IInv, ObserveSurvivors PROVE Stays
<1>1. AccountInv /\ AccountOK /\ RunOK
  BY DEF IInv, AccountInv
<1>2. ASSUME NEW k \in Keys
      PROVE  positions'[k] = IF positions[k] = None THEN None
                             ELSE Observed(positions[k], BarOf(k).high, BarOf(k).low)
  BY DEF ObserveSurvivors
<1>3. ASSUME NEW k \in HeldKeys
      PROVE  positions'[k] # None /\ SameFill(positions'[k], positions[k])
  <2>1. k \in Keys /\ positions[k] \in Positions /\ positions[k] # None
    BY <1>1 DEF HeldKeys, AccountOK
  <2>2. BarOf(k).high \in Int /\ BarOf(k).low \in Int
    BY <1>1, <2>1, BarTyped DEF RunOK
  <2>3. Observed(positions[k], BarOf(k).high, BarOf(k).low) \in Positions
    BY <2>1, <2>2, ObservedTyped
  <2> QED BY <1>2, <2>1, <2>3, SameFillKept, NoneAssumption
<1>4. HeldKeys' = HeldKeys
  BY <1>2, <1>3 DEF HeldKeys
<1> QED BY <1>3, <1>4 DEF Stays, Holds, ObserveSurvivors

\* _manage trades a signal out or leaves it.
LEMMA ManageStep ==
  ASSUME IInv, NEW k \in Keys, NEW d \in Decisions, Manage(k, d) PROVE SignalStep
<1> DEFINE p == Adjusted(positions[k], d.stop, d.target)
<1>1. AccountInv /\ RunOK /\ phase = "manage" /\ k \in HeldKeys /\ UNCHANGED <<pending, signalOrdinal>>
  BY DEF IInv, Manage, NextPosition, FirstOf, Visiting
<1>2. positions[k] \in Positions /\ BarOf(k).close \in Int /\ CloseTs[now] \in Nat
  BY <1>1, HeldPosition, BarTyped, ClockTyped DEF RunOK
<1>3. p \in Positions /\ SameFill(p, positions[k])
  BY <1>2, AdjustedTyped, SameFillKept
<1>4. \/ SettleOut(p, BarOf(k).close, CloseTs[now], "manage")
      \/ positions' = [positions EXCEPT ![k] = p] /\ UNCHANGED <<reserved, trades, rejections>>
  BY DEF Manage
<1> HIDE DEF p
<1>5. CASE SettleOut(p, BarOf(k).close, CloseTs[now], "manage")
  <2>1. "manage" \in ExitReasons
    BY DEF ExitReasons
  <2>2. TradedAt(k)
    BY <1>1, <1>2, <1>3, <1>5, <2>1, SettleOutTrades
  <2> QED BY <2>2 DEF SignalStep
<1>6. CASE positions' = [positions EXCEPT ![k] = p] /\ UNCHANGED <<reserved, trades, rejections>>
  <2>1. p # None /\ positions \in [Keys -> Positions \cup {None}]
    BY <1>1, <1>3, NoneAssumption DEF AccountInv, AccountOK
  <2>2. Holds(HeldKeys)
    BY <1>1, <1>3, <1>6, <2>1 DEF Holds, HeldKeys, SameFill
  <2> QED BY <1>1, <1>6, <2>2 DEF Stays, SignalStep
<1> QED BY <1>4, <1>5, <1>6

\* _record_signal seats a new signal or refuses it at birth.
LEMMA RecordStep ==
  ASSUME IInv, NEW k \in Keys, NEW s \in SignalShapes, RecordSignal(k, s)
  PROVE  SeatedAt(k) \/ RefusedAtBirth(k)
<1> DEFINE i == IntentFrom(k, s)
           r(why) == [ordinal |-> rejectionOrdinal, intent |-> i, ts |-> CloseTs[now], reason |-> why]
<1>1. AccountInv /\ RunOK /\ phase = "evaluate" /\ signalOrdinal' = signalOrdinal + 1
  BY DEF IInv, RecordSignal
<1>2. /\ i \in Intents /\ CloseTs[now] \in Nat /\ i.key = k /\ i.ordinal = signalOrdinal
      /\ i.ts = CloseTs[now] /\ i.eligible = EligibleAfter(now)
  BY <1>1, IntentTyped, TypeParts, ClockTyped DEF AccountInv, IntentFrom
<1>3. \/ /\ positions[k] = None /\ pending[k] = None /\ UNCHANGED ledgerVars
         /\ pending' = [pending EXCEPT ![k] = i]
      \/ \E why \in {"position_occupied", "pending_intent_occupied"} :
           /\ positions[k] # None \/ pending[k] # None
           /\ rejections' = rejections \cup {r(why)}
           /\ UNCHANGED <<positions, reserved, trades, pending>>
  BY DEF RecordSignal, Reject
<1>4. ASSUME NEW why \in {"position_occupied", "pending_intent_occupied"}
      PROVE  /\ r(why) \in Rejections /\ r(why).intent = i /\ r(why).ts = CloseTs[now]
             /\ r(why).reason = why
  BY <1>1, <1>2 DEF Rejections, RejectionReasons, AccountInv, AccountOK
<1> HIDE DEF i, r
<1>5. CASE /\ positions[k] = None /\ pending[k] = None /\ UNCHANGED ledgerVars
           /\ pending' = [pending EXCEPT ![k] = i]
  BY <1>1, <1>2, <1>5 DEF SeatedAt, ledgerVars
<1>6. ASSUME NEW why \in {"position_occupied", "pending_intent_occupied"},
             positions[k] # None \/ pending[k] # None,
             rejections' = rejections \cup {r(why)},
             UNCHANGED <<positions, reserved, trades, pending>>
      PROVE  RefusedAtBirth(k)
  BY <1>1, <1>2, <1>4, <1>6 DEF RefusedAtBirth
<1> QED BY <1>3, <1>5, <1>6

\* The sweep of _close_window refuses a seated signal.
LEMMA ExpireStep == ASSUME IInv, NEW k \in Keys, Expire(k) PROVE RefusedAt(k)
<1> DEFINE r == [ordinal |-> rejectionOrdinal, intent |-> pending[k], ts |-> TestEnd,
                 reason |-> "window_ended"]
<1>1. AccountInv /\ RunOK /\ Visiting /\ phase = "expire" /\ k \in PendingKeys
  BY DEF IInv, Expire, NextIntent, FirstOf, Visiting
<1>2. pending[k] \in Intents /\ pending[k] # None /\ TestEnd \in Nat
  BY <1>1, PendingIntent, ClockTyped DEF PendingKeys
<1>3. r \in Rejections
  BY <1>1, <1>2 DEF Rejections, RejectionReasons, AccountInv, AccountOK
<1>4. /\ rejections' = rejections \cup {r} /\ Unseat(k)
      /\ UNCHANGED <<positions, reserved, trades, signalOrdinal>>
  BY DEF Expire, Reject
<1>5. r.intent = pending[k] /\ r.reason = "window_ended"
  OBVIOUS
<1> HIDE DEF r
<1> QED BY <1>1, <1>2, <1>3, <1>4, <1>5 DEF RefusedAt

\* The liquidation of _close_window trades a signal out.
LEMMA LiquidateStep == ASSUME IInv, NEW k \in Keys, Liquidate(k) PROVE TradedAt(k)
<1>1. AccountInv /\ RunOK /\ phase = "liquidate" /\ k \in HeldKeys /\ UNCHANGED <<pending, signalOrdinal>>
  BY DEF IInv, Liquidate, NextPosition, FirstOf, Visiting
<1>2. positions[k] \in Positions /\ BarOf(k).close \in Int /\ TestEnd \in Nat
      /\ "end_of_window" \in ExitReasons /\ SameFill(positions[k], positions[k])
  BY <1>1, HeldPosition, BarTyped, ClockTyped DEF RunOK, ExitReasons, SameFill
<1>3. SettleOut(positions[k], BarOf(k).close, TestEnd, "end_of_window")
  BY DEF Liquidate
<1> QED BY <1>1, <1>2, <1>3, SettleOutTrades

\* Each step of the chronology does one of the seven to one signal, or nothing.
LEMMA EveryStep == IInv /\ [Next]_vars => SignalStep
<1> SUFFICES ASSUME IInv, [Next]_vars PROVE SignalStep
  OBVIOUS
<1>1. CASE \/ OpeningMark \/ SettleAtOpen \/ Freeze \/ FinishStep \/ CloseMark \/ FinalMark
           \/ AbortAtMark \/ Finished \/ (\E k \in Keys : Evaluated(k) \/ AbortAtFill(k))
           \/ UNCHANGED vars
  BY <1>1, QuietStays DEF OpeningMark, SettleAtOpen, SettleDue, Freeze, FinishStep, CloseMark,
       FinalMark, AbortAtMark, Abort, Finished, Evaluated, AbortAtFill, ledgerVars, vars, runVars,
       SignalStep
<1>2. CASE ObserveSurvivors
  BY <1>2, ObserveStep DEF SignalStep
<1>3. ASSUME NEW k \in Keys, GapExit(k) \/ Fund(k) \/ Fill(k) \/ Protect(k) \/ Expire(k) \/ Liquidate(k)
      PROVE  SignalStep
  BY <1>3, GapExitStep, FundStep, FillStep, ProtectStep, ExpireStep, LiquidateStep DEF SignalStep
<1>4. ASSUME NEW k \in Keys, NEW d \in Decisions, Manage(k, d) PROVE SignalStep
  BY <1>4, ManageStep
<1>5. ASSUME NEW k \in Keys, NEW s \in SignalShapes, RecordSignal(k, s) PROVE SignalStep
  BY <1>5, RecordStep DEF SignalStep
<1> QED BY <1>1, <1>2, <1>3, <1>4, <1>5 DEF Next

-----------------------------------------------------------------------------
(* What is seated, and where every signal is. *)

\* A seat outlives no open: what is waiting before the fills of an interval is
\* eligible at its open, the fills leave nothing seated, and what is seated from
\* then on was decided at its close.
SeatsAreCurrent ==
  /\ phase = "anchor" => PendingKeys = {}
  /\ phase \in {"settle", "freeze", "gap"} =>
       \A k \in PendingKeys : pending[k].eligible = OpenTs[now] /\ pending[k].ts = CloseTs[now - 1]
  /\ phase \in {"fund", "fill"} =>
       PendingKeys \subseteq visit /\ \A k \in PendingKeys : pending[k].eligible = OpenTs[now]
  /\ phase \in {"protect", "observe", "manage", "liquidate", "final", "done"} => PendingKeys = {}
  /\ phase \in {"evaluate", "mark"} =>
       \A k \in PendingKeys : pending[k].ts = CloseTs[now] /\ pending[k].eligible = EligibleAfter(now)
  /\ phase = "expire" =>
       PendingKeys \subseteq visit /\ \A k \in PendingKeys : pending[k].ts = CloseTs[now]

\* Past a close that is not the window's last, the next open is the one its
\* signals wait for.
LEMMA NextOpen ==
  ASSUME RunOK, now < NTest
  PROVE  /\ EligibleAfter(now) = OpenTs[now + 1] /\ (now + 1) - 1 = now
         /\ CloseTs[now] <= OpenTs[now + 1] /\ OpenTs[now] < CloseTs[now]
         /\ OpenTs[now] \in Nat /\ CloseTs[now] \in Nat /\ OpenTs[now + 1] \in Nat
<1>1. now \in Nat /\ now \in 1..(Len(OpenTs) - 1) /\ now + 1 \in 1..Len(OpenTs) /\ now < Len(OpenTs)
      /\ now \in 1..Len(OpenTs)
  BY ScheduleAssumption DEF RunOK
<1> QED BY <1>1, ScheduleAssumption, SMTT(30) DEF EligibleAfter, NBase

\* The close mark opens the next interval or the window's end.
LEMMA CloseMarkSeats == ASSUME IInv, SeatsAreCurrent, CloseMark PROVE SeatsAreCurrent'
<1>1. UNCHANGED pending /\ PendingKeys' = PendingKeys /\ RunOK
      /\ \A k \in PendingKeys : pending[k].ts = CloseTs[now] /\ pending[k].eligible = EligibleAfter(now)
  BY DEF IInv, CloseMark, SeatsAreCurrent, PendingKeys
<1>2. CASE now < NTest /\ now' = now + 1 /\ phase' = "settle"
  BY <1>1, <1>2, NextOpen DEF SeatsAreCurrent
<1>3. CASE phase' = "expire" /\ visit' = PendingKeys /\ now' = now
  BY <1>1, <1>3 DEF SeatsAreCurrent
<1> QED BY <1>2, <1>3 DEF CloseMark

\* Every step of the chronology keeps the seats current.
LEMMA SeatsStep == IInv /\ SeatsAreCurrent /\ [Next]_vars => SeatsAreCurrent'
<1> SUFFICES ASSUME IInv, SeatsAreCurrent, [Next]_vars PROVE SeatsAreCurrent'
  OBVIOUS
<1>1. CASE OpeningMark
  BY <1>1 DEF OpeningMark, SeatsAreCurrent, PendingKeys
<1>2. CASE SettleAtOpen \/ Freeze
  BY <1>2 DEF SettleAtOpen, Freeze, SeatsAreCurrent, PendingKeys
<1>3. CASE ObserveSurvivors
  BY <1>3 DEF ObserveSurvivors, SeatsAreCurrent, PendingKeys
<1>4. CASE FinishStep
  <2>1. UNCHANGED <<pending, now>> /\ PendingKeys' = PendingKeys /\ visit = {}
    BY <1>4 DEF FinishStep, PendingKeys
  <2>2. CASE phase = "gap" /\ phase' = "fund" /\ visit' = Eligible
    BY <2>1, <2>2 DEF SeatsAreCurrent, Eligible
  <2>3. CASE phase \in {"fund", "protect", "expire", "liquidate"}
             /\ phase' \in {"protect", "observe", "liquidate", "final"}
    BY <2>1, <2>3 DEF SeatsAreCurrent
  <2>4. CASE phase \in {"manage", "evaluate"} /\ phase' \in {"evaluate", "mark"}
    BY <2>1, <2>4 DEF SeatsAreCurrent
  <2> QED BY <1>4, <2>2, <2>3, <2>4 DEF FinishStep
<1>5. CASE CloseMark
  BY <1>5, CloseMarkSeats
<1>6. CASE FinalMark
  BY <1>6 DEF FinalMark, SeatsAreCurrent, PendingKeys
<1>7. CASE AbortAtMark \/ \E k \in Keys : AbortAtFill(k)
  BY <1>7 DEF AbortAtMark, AbortAtFill, Abort, SeatsAreCurrent
<1>8. CASE Finished \/ UNCHANGED vars
  BY <1>8 DEF Finished, vars, runVars, SeatsAreCurrent, PendingKeys
<1>9. ASSUME NEW k \in Keys, GapExit(k) \/ Fill(k) \/ Protect(k) \/ Evaluated(k) \/ Liquidate(k)
      PROVE  SeatsAreCurrent'
  <2>1. /\ UNCHANGED <<pending, now>> /\ PendingKeys' = PendingKeys
        /\ \/ UNCHANGED phase /\ phase \notin {"fund", "fill", "expire"}
           \/ phase = "fill" /\ phase' = "fund" /\ UNCHANGED visit
    BY <1>9 DEF GapExit, Fill, Protect, Evaluated, Liquidate, PendingKeys
  <2> QED BY <2>1 DEF SeatsAreCurrent
<1>10. ASSUME NEW k \in Keys, NEW d \in Decisions, Manage(k, d) PROVE SeatsAreCurrent'
  BY <1>10 DEF Manage, SeatsAreCurrent, PendingKeys
<1>11. ASSUME NEW k \in Keys, Fund(k) \/ Expire(k) PROVE SeatsAreCurrent'
  <2>1. /\ Unseat(k) /\ visit' = visit \ {k} /\ now' = now
        /\ \/ phase = "fund" /\ phase' \in {"fund", "fill"}
           \/ phase = "expire" /\ phase' = "expire"
    BY <1>11 DEF Fund, Expire
  <2>2. PendingKeys' = PendingKeys \ {k} /\ \A j \in PendingKeys \ {k} : pending'[j] = pending[j]
    BY <2>1, UnseatPending DEF IInv
  <2> QED BY <2>1, <2>2 DEF SeatsAreCurrent
<1>12. ASSUME NEW k \in Keys, NEW s \in SignalShapes, RecordSignal(k, s) PROVE SeatsAreCurrent'
  <2>1. phase = "evaluate" /\ phase' = "evaluate" /\ now' = now
    BY <1>12 DEF RecordSignal
  <2>2. CASE SeatedAt(k)
    <3>1. PICK i \in Intents : /\ i.ts = CloseTs[now] /\ i.eligible = EligibleAfter(now)
                               /\ pending' = [pending EXCEPT ![k] = i]
      BY <2>2 DEF SeatedAt
    <3>2. EligibleAfter(now)' = EligibleAfter(now)
      BY <2>1 DEF EligibleAfter
    <3>3. \A j \in PendingKeys' : j = k \/ (j \in PendingKeys /\ pending'[j] = pending[j])
      BY <3>1 DEF PendingKeys, IInv, RunOK
    <3>4. pending'[k] = i
      BY <3>1 DEF IInv, RunOK
    <3> QED BY <2>1, <3>1, <3>2, <3>3, <3>4 DEF SeatsAreCurrent
  <2>3. CASE RefusedAtBirth(k)
    BY <2>1, <2>3 DEF RefusedAtBirth, SeatsAreCurrent, PendingKeys, EligibleAfter
  <2> QED BY <1>12, <2>2, <2>3, RecordStep
<1> QED BY <1>1, <1>2, <1>3, <1>4, <1>5, <1>6, <1>7, <1>8, <1>9, <1>10, <1>11, <1>12 DEF Next

\* Every ordinal up to the next is in exactly one of five places.
Places(P, R, H, T, X, n) ==
  /\ P \cup R \cup H \cup T \cup X = 0..(n - 1)
  /\ P \cap (R \cup H \cup T \cup X) = {}
  /\ R \cap (H \cup T \cup X) = {}
  /\ H \cap (T \cup X) = {}
  /\ T \cap X = {}

OnePlace == Places(PendingOrdinals, ReservedOrdinals, HeldOrdinals, TradedOrdinals,
                   RejectedOrdinals, signalOrdinal)

\* No two records are of one signal, and a seated key has nothing else.
Distinct ==
  /\ \A j, k \in PendingKeys : pending[j].ordinal = pending[k].ordinal => j = k
  /\ \A j, k \in HeldKeys : positions[j].intent.ordinal = positions[k].intent.ordinal => j = k
  /\ \A r1, r2 \in rejections : r1.intent.ordinal = r2.intent.ordinal => r1 = r2
  /\ \A t1, t2 \in trades : t1.position.intent.ordinal = t2.position.intent.ordinal => t1 = t2
  /\ PendingKeys \cap (HeldKeys \cup ReservedKeys) = {}

\* What the proofs about signals add to the replay's invariant.
SignalInv == SeatsAreCurrent /\ OnePlace /\ Distinct

\* The next ordinal enters one place.
LEMMA PlacesBorn ==
  ASSUME NEW P, NEW R, NEW H, NEW T, NEW X, NEW n \in Nat, NEW m, m = n + 1,
         Places(P, R, H, T, X, n)
  PROVE  /\ n \notin P /\ n \notin X
         /\ Places(P \cup {n}, R, H, T, X, m)
         /\ Places(P, R, H, T, X \cup {n}, m)
<1>1. 0..(m - 1) = (0..(n - 1)) \cup {n} /\ n \notin 0..(n - 1)
  OBVIOUS
<1> QED BY <1>1 DEF Places

\* An ordinal moves from its seat to the reservation or to the rejections.
LEMMA PlacesUnseat ==
  ASSUME NEW P, NEW R, NEW H, NEW T, NEW X, NEW n, Places(P, R, H, T, X, n), NEW o \in P
  PROVE  /\ Places(P \ {o}, R \cup {o}, H, T, X, n)
         /\ Places(P \ {o}, R, H, T, X \cup {o}, n)
  BY DEF Places

\* An ordinal moves from the reservation to a position, or on to the trades.
LEMMA PlacesFill ==
  ASSUME NEW P, NEW R, NEW H, NEW T, NEW X, NEW n, Places(P, R, H, T, X, n)
  PROVE  /\ \A o \in R : Places(P, R \ {o}, H \cup {o}, T, X, n)
         /\ \A o \in H : Places(P, R, H \ {o}, T \cup {o}, X, n)
  BY DEF Places

\* A step that touches no signal moves none.
LEMMA StaysPlaced ==
  ASSUME IInv, Stays, OnePlace, Distinct
  PROVE  OnePlace' /\ Distinct'
<1>1. /\ UNCHANGED <<pending, reserved, trades, rejections, signalOrdinal>>
      /\ PendingKeys' = PendingKeys /\ ReservedKeys' = ReservedKeys /\ HeldKeys' = HeldKeys
      /\ \A k \in HeldKeys : positions'[k].intent = positions[k].intent
  BY DEF Stays, Holds, SameFill, PendingKeys, ReservedKeys
<1>2. HeldOrdinals' = HeldOrdinals
  BY <1>1 DEF HeldOrdinals
<1>3. /\ PendingOrdinals' = PendingOrdinals /\ ReservedOrdinals' = ReservedOrdinals
      /\ TradedOrdinals' = TradedOrdinals /\ RejectedOrdinals' = RejectedOrdinals
  BY <1>1 DEF PendingOrdinals, ReservedOrdinals, TradedOrdinals, RejectedOrdinals
<1>4. OnePlace'
  BY <1>1, <1>2, <1>3 DEF OnePlace
<1> QED BY <1>1, <1>4 DEF Distinct

\* A seated signal takes the next ordinal.
LEMMA SeatedPlaced ==
  ASSUME IInv, NEW k \in Keys, SeatedAt(k), OnePlace, Distinct
  PROVE  OnePlace' /\ Distinct'
<1> DEFINE n == signalOrdinal
<1>1. PICK i \in Intents : i.ordinal = n /\ pending' = [pending EXCEPT ![k] = i]
  BY DEF SeatedAt
<1>2. /\ k \notin PendingKeys \cup HeldKeys \cup ReservedKeys /\ n \in Nat /\ n' = n + 1
      /\ UNCHANGED <<positions, reserved, trades, rejections>>
      /\ pending \in [Keys -> Intents \cup {None}]
  BY DEF SeatedAt, IInv, RunOK, Visiting, PendingKeys, HeldKeys
<1>3. /\ PendingKeys' = PendingKeys \cup {k} /\ pending'[k] = i
      /\ \A j \in PendingKeys : pending'[j] = pending[j]
      /\ HeldKeys' = HeldKeys /\ ReservedKeys' = ReservedKeys
  BY <1>1, <1>2, NoneAssumption DEF PendingKeys, HeldKeys, ReservedKeys
<1>4. PendingOrdinals' = PendingOrdinals \cup {n}
  <2>1. \A j \in PendingKeys : j # k
    BY <1>2
  <2>2. PendingOrdinals' = {pending'[j].ordinal : j \in PendingKeys'}
    BY DEF PendingOrdinals
  <2> QED BY <1>1, <1>3, <2>1, <2>2 DEF PendingOrdinals
<1>5. /\ ReservedOrdinals' = ReservedOrdinals /\ HeldOrdinals' = HeldOrdinals
      /\ TradedOrdinals' = TradedOrdinals /\ RejectedOrdinals' = RejectedOrdinals
  BY <1>2, <1>3 DEF HeldOrdinals, ReservedOrdinals, TradedOrdinals, RejectedOrdinals
<1>6. OnePlace' /\ n \notin PendingOrdinals
  <2>1. n \in Nat /\ n' = n + 1
    BY <1>2
  <2> QED BY <1>4, <1>5, <2>1, PlacesBorn DEF OnePlace
<1>7. \A j \in PendingKeys : pending[j].ordinal # n
  BY <1>6 DEF PendingOrdinals
<1> QED BY <1>1, <1>2, <1>3, <1>6, <1>7 DEF Distinct

\* So does one refused at birth.
LEMMA BornRefusedPlaced ==
  ASSUME IInv, NEW k \in Keys, RefusedAtBirth(k), OnePlace, Distinct
  PROVE  OnePlace' /\ Distinct'
<1> DEFINE n == signalOrdinal
<1>1. PICK r \in Rejections : r.intent.ordinal = n /\ rejections' = rejections \cup {r}
  BY DEF RefusedAtBirth
<1>2. /\ n \in Nat /\ n' = n + 1 /\ UNCHANGED <<positions, pending, reserved, trades>>
      /\ PendingKeys' = PendingKeys /\ HeldKeys' = HeldKeys /\ ReservedKeys' = ReservedKeys
  BY DEF RefusedAtBirth, IInv, RunOK, PendingKeys, HeldKeys, ReservedKeys
<1>3. RejectedOrdinals' = RejectedOrdinals \cup {n}
  BY <1>1 DEF RejectedOrdinals
<1>4. /\ ReservedOrdinals' = ReservedOrdinals /\ HeldOrdinals' = HeldOrdinals
      /\ TradedOrdinals' = TradedOrdinals /\ PendingOrdinals' = PendingOrdinals
  BY <1>2 DEF HeldOrdinals, ReservedOrdinals, TradedOrdinals, PendingOrdinals
<1>5. OnePlace' /\ n \notin RejectedOrdinals
  BY <1>2, <1>3, <1>4, PlacesBorn DEF OnePlace
<1>6. \A q \in rejections : q.intent.ordinal # n
  BY <1>5 DEF RejectedOrdinals
<1> QED BY <1>1, <1>2, <1>5, <1>6 DEF Distinct

\* An intent that leaves its seat takes one ordinal out of the seated.
LEMMA UnseatedPlaced ==
  ASSUME IInv, NEW k \in PendingKeys, Unseat(k), Distinct
  PROVE  /\ pending[k].ordinal \in PendingOrdinals
         /\ PendingOrdinals' = PendingOrdinals \ {pending[k].ordinal}
         /\ PendingKeys' = PendingKeys \ {k}
         /\ \A i, j \in PendingKeys' : pending'[i].ordinal = pending'[j].ordinal => i = j
<1>1. PendingKeys' = PendingKeys \ {k} /\ \A j \in PendingKeys \ {k} : pending'[j] = pending[j]
  BY UnseatPending DEF IInv, PendingKeys
<1>2. \A j \in PendingKeys \ {k} : pending[j].ordinal # pending[k].ordinal
  BY DEF Distinct
<1>3. PendingOrdinals' = {pending[j].ordinal : j \in PendingKeys \ {k}}
  BY <1>1 DEF PendingOrdinals
<1> QED BY <1>1, <1>2, <1>3 DEF PendingOrdinals, Distinct

\* A reserved signal moves from its seat to the reservation.
LEMMA ReservedPlaced ==
  ASSUME IInv, NEW k \in Keys, ReservedAt(k), OnePlace, Distinct
  PROVE  OnePlace' /\ Distinct'
<1> DEFINE o == pending[k].ordinal
<1>1. PICK p \in Proposals : p.intent = pending[k] /\ reserved' = [reserved EXCEPT ![k] = p]
  BY DEF ReservedAt
<1>2. /\ k \in PendingKeys /\ Unseat(k) /\ ReservedKeys = {} /\ positions[k] = None
      /\ UNCHANGED <<positions, trades, rejections, signalOrdinal>> /\ HeldKeys' = HeldKeys
      /\ reserved \in [Keys -> Proposals \cup {None}] /\ signalOrdinal \in Nat
  BY DEF ReservedAt, PendingKeys, IInv, Visiting, HeldKeys, AccountInv, AccountOK, RunOK
<1>3. ReservedKeys' = {k} /\ reserved'[k] = p
  BY <1>1, <1>2, NoneAssumption DEF ReservedKeys
<1>4. ReservedOrdinals' = ReservedOrdinals \cup {o}
  BY <1>1, <1>2, <1>3 DEF ReservedOrdinals
<1>5. /\ o \in PendingOrdinals /\ PendingOrdinals' = PendingOrdinals \ {o}
      /\ PendingKeys' = PendingKeys \ {k}
      /\ \A i, j \in PendingKeys' : pending'[i].ordinal = pending'[j].ordinal => i = j
  BY <1>2, UnseatedPlaced
<1>6. /\ HeldOrdinals' = HeldOrdinals /\ TradedOrdinals' = TradedOrdinals
      /\ RejectedOrdinals' = RejectedOrdinals
  BY <1>2 DEF HeldOrdinals, TradedOrdinals, RejectedOrdinals
<1> HIDE DEF o
<1>7. OnePlace'
  BY <1>2, <1>4, <1>5, <1>6, PlacesUnseat DEF OnePlace
<1> QED BY <1>2, <1>3, <1>5, <1>7 DEF Distinct

\* A refused one moves from its seat to the rejections.
LEMMA RefusedPlaced ==
  ASSUME IInv, NEW k \in Keys, RefusedAt(k), OnePlace, Distinct
  PROVE  OnePlace' /\ Distinct'
<1> DEFINE o == pending[k].ordinal
<1>1. PICK r \in Rejections : r.intent = pending[k] /\ rejections' = rejections \cup {r}
  BY DEF RefusedAt
<1>2. /\ k \in PendingKeys /\ Unseat(k) /\ signalOrdinal \in Nat
      /\ UNCHANGED <<positions, reserved, trades, signalOrdinal>>
      /\ HeldKeys' = HeldKeys /\ ReservedKeys' = ReservedKeys
  BY DEF RefusedAt, PendingKeys, HeldKeys, ReservedKeys, IInv, RunOK
<1>3. RejectedOrdinals' = RejectedOrdinals \cup {o}
  BY <1>1 DEF RejectedOrdinals
<1>4. /\ o \in PendingOrdinals /\ PendingOrdinals' = PendingOrdinals \ {o}
      /\ PendingKeys' = PendingKeys \ {k}
      /\ \A i, j \in PendingKeys' : pending'[i].ordinal = pending'[j].ordinal => i = j
  BY <1>2, UnseatedPlaced
<1>5. /\ HeldOrdinals' = HeldOrdinals /\ TradedOrdinals' = TradedOrdinals
      /\ ReservedOrdinals' = ReservedOrdinals
  BY <1>2 DEF HeldOrdinals, TradedOrdinals, ReservedOrdinals
<1>6. r.intent.ordinal = o
  BY <1>1
<1> HIDE DEF o
<1>7. OnePlace' /\ o \notin RejectedOrdinals
  <2>1. OnePlace'
    BY <1>2, <1>3, <1>4, <1>5, PlacesUnseat DEF OnePlace
  <2>2. o \notin RejectedOrdinals
    BY <1>4 DEF OnePlace, Places
  <2> QED BY <2>1, <2>2
<1>8. \A q \in rejections : q.intent.ordinal # o
  BY <1>7 DEF RejectedOrdinals
<1> QED BY <1>1, <1>2, <1>4, <1>6, <1>7, <1>8 DEF Distinct

\* A filled one moves from the reservation to its position.
LEMMA FilledPlaced ==
  ASSUME IInv, NEW k \in Keys, FilledAt(k), OnePlace, Distinct
  PROVE  OnePlace' /\ Distinct'
<1> DEFINE o == reserved[k].intent.ordinal
<1>1. /\ reserved' = [reserved EXCEPT ![k] = None]
      /\ positions'[k].intent = reserved[k].intent
      /\ HeldKeys' = HeldKeys \cup {k} /\ \A j \in HeldKeys : positions'[j] = positions[j]
      /\ UNCHANGED <<pending, trades, rejections, signalOrdinal>> /\ PendingKeys' = PendingKeys
  BY DEF FilledAt, PendingKeys
<1>2. /\ k \in ReservedKeys /\ k \notin HeldKeys /\ \A j \in ReservedKeys : j = k
      /\ reserved \in [Keys -> Proposals \cup {None}]
  BY DEF FilledAt, ReservedKeys, IInv, Visiting, AccountInv, AccountOK, Booked
<1>3. ReservedKeys' = {} /\ ReservedKeys = {k}
  BY <1>1, <1>2 DEF ReservedKeys
<1>4. ReservedOrdinals = {o} /\ ReservedOrdinals' = {}
  BY <1>3 DEF ReservedOrdinals
<1>5. HeldOrdinals' = HeldOrdinals \cup {o}
  <2>1. HeldOrdinals' = {positions'[j].intent.ordinal : j \in HeldKeys \cup {k}}
    BY <1>1 DEF HeldOrdinals
  <2> QED BY <1>1, <1>2, <2>1 DEF HeldOrdinals
<1>6. /\ PendingOrdinals' = PendingOrdinals /\ TradedOrdinals' = TradedOrdinals
      /\ RejectedOrdinals' = RejectedOrdinals
  BY <1>1 DEF PendingOrdinals, TradedOrdinals, RejectedOrdinals
<1> HIDE DEF o
<1>7. OnePlace' /\ o \notin HeldOrdinals
  <2>1. ReservedOrdinals' = ReservedOrdinals \ {o} /\ o \in ReservedOrdinals
    BY <1>4
  <2>2. OnePlace'
    BY <1>1, <1>5, <1>6, <2>1, PlacesFill DEF OnePlace
  <2>3. o \notin HeldOrdinals
    BY <2>1 DEF OnePlace, Places
  <2> QED BY <2>2, <2>3
<1>8. \A j \in HeldKeys : positions[j].intent.ordinal # o
  BY <1>7 DEF HeldOrdinals
<1>9. positions'[k].intent.ordinal = o
  BY <1>1 DEF o
<1>10. \A i, j \in HeldKeys' : positions'[i].intent.ordinal = positions'[j].intent.ordinal => i = j
  <2>1. \A i \in HeldKeys' : i = k \/ (i \in HeldKeys /\ positions'[i] = positions[i])
    BY <1>1
  <2> QED BY <1>8, <1>9, <2>1 DEF Distinct
<1>11. PendingKeys' \cap (HeldKeys' \cup ReservedKeys') = {}
  BY <1>1, <1>2, <1>3 DEF Distinct
<1> QED BY <1>1, <1>7, <1>10, <1>11 DEF Distinct

\* A traded one moves from its position to the trades.
LEMMA TradedPlaced ==
  ASSUME IInv, NEW k \in Keys, TradedAt(k), OnePlace, Distinct
  PROVE  OnePlace' /\ Distinct'
<1> DEFINE o == positions[k].intent.ordinal
<1>1. PICK t \in Trades : SameFill(t.position, positions[k]) /\ trades' = trades \cup {t}
  BY DEF TradedAt
<1>2. /\ k \in HeldKeys /\ HeldKeys' = HeldKeys \ {k}
      /\ \A j \in HeldKeys \ {k} : positions'[j].intent = positions[j].intent
      /\ UNCHANGED <<pending, reserved, rejections, signalOrdinal>>
      /\ PendingKeys' = PendingKeys /\ ReservedKeys' = ReservedKeys
  BY DEF TradedAt, Holds, SameFill, PendingKeys, ReservedKeys
<1>3. t.position.intent.ordinal = o
  BY <1>1 DEF SameFill
<1>4. TradedOrdinals' = TradedOrdinals \cup {o}
  BY <1>1, <1>3 DEF TradedOrdinals
<1>5. HeldOrdinals' = HeldOrdinals \ {o} /\ o \in HeldOrdinals
  <2>1. HeldOrdinals' = {positions'[j].intent.ordinal : j \in HeldKeys \ {k}}
    BY <1>2 DEF HeldOrdinals
  <2>2. \A j \in HeldKeys \ {k} : positions[j].intent.ordinal # o
    BY <1>2 DEF Distinct
  <2> QED BY <1>2, <2>1, <2>2 DEF HeldOrdinals
<1>6. /\ PendingOrdinals' = PendingOrdinals /\ ReservedOrdinals' = ReservedOrdinals
      /\ RejectedOrdinals' = RejectedOrdinals
  BY <1>2 DEF PendingOrdinals, ReservedOrdinals, RejectedOrdinals
<1> HIDE DEF o
<1>7. OnePlace' /\ o \notin TradedOrdinals
  <2>1. OnePlace'
    BY <1>2, <1>4, <1>5, <1>6, PlacesFill DEF OnePlace
  <2>2. o \notin TradedOrdinals
    BY <1>5 DEF OnePlace, Places
  <2> QED BY <2>1, <2>2
<1>8. \A u \in trades : u.position.intent.ordinal # o
  BY <1>7 DEF TradedOrdinals
<1>9. \A i, j \in HeldKeys' : positions'[i].intent.ordinal = positions'[j].intent.ordinal => i = j
  BY <1>2 DEF Distinct
<1> QED BY <1>1, <1>2, <1>3, <1>7, <1>8, <1>9 DEF Distinct

\* A new replay has no signal.
LEMMA SignalInit == Init => SignalInv
<1> SUFFICES ASSUME Init PROVE SignalInv
  OBVIOUS
<1>1. /\ trades = {} /\ rejections = {} /\ signalOrdinal = 0 /\ phase = "anchor"
      /\ PendingKeys = {} /\ ReservedKeys = {} /\ HeldKeys = {}
  BY DEF Init, LedgerInit, PendingKeys, ReservedKeys, HeldKeys
<1>2. OnePlace
  <2>1. 0..(0 - 1) = {}
    OBVIOUS
  <2> QED BY <1>1, <2>1 DEF OnePlace, Places, PendingOrdinals, ReservedOrdinals, HeldOrdinals,
                            TradedOrdinals, RejectedOrdinals
<1>3. SeatsAreCurrent
  BY <1>1 DEF SeatsAreCurrent
<1>4. Distinct
  BY <1>1 DEF Distinct
<1> QED BY <1>2, <1>3, <1>4 DEF SignalInv

\* Every step of the chronology keeps every signal in its one place.
LEMMA SignalNext == IInv /\ SignalInv /\ [Next]_vars => SignalInv'
<1> SUFFICES ASSUME IInv, SignalInv, [Next]_vars PROVE SignalInv'
  OBVIOUS
<1>1. SeatsAreCurrent'
  BY SeatsStep DEF SignalInv
<1>2. SignalStep
  BY EveryStep
<1>3. OnePlace' /\ Distinct'
  BY <1>2, StaysPlaced, SeatedPlaced, BornRefusedPlaced, ReservedPlaced, RefusedPlaced,
     FilledPlaced, TradedPlaced DEF SignalInv, SignalStep
<1> QED BY <1>1, <1>3 DEF SignalInv

\* The invariant of the signals holds throughout every replay.
THEOREM SignalsInductive == Spec => []SignalInv
  BY SignalInit, SignalNext, Inductive, PTL DEF Spec

\* No replay loses a signal or tells one twice: each is seated, holding cash,
\* open, traded or rejected, and a seated one is of the close just past, whatever
\* _fund, _record_signal and _close_window decide and in whatever order prices
\* make them.
THEOREM NoSignalLost == Spec => []SignalsAccounted
<1>1. SignalInv => SignalsAccounted
  BY DEF SignalInv, OnePlace, Places, Distinct, SeatsAreCurrent, SignalsAccounted, SeatedIsFresh
<1> QED BY <1>1, SignalsInductive, PTL

-----------------------------------------------------------------------------
(* When a signal is refused. *)

\* At the open a candidate is refused only for its geometry, its size, the
\* portfolio's capacity or the cash: its key is free.
LEMMA VerdictAtOpen ==
  ASSUME IInv, SignalInv, phase = "fund", NEW k \in PendingKeys
  PROVE  Verdict(ProposalFor(k)) \in {"accepted", "invalid_protective_geometry", "zero_quantity",
                                      "portfolio_capacity", "unsettled_cash"}
<1>1. ProposalFor(k).intent = pending[k] /\ pending[k].key = k
  BY PendingIntent DEF IInv, ProposalFor, Propose
<1>2. positions[k] = None
  BY PendingIntent DEF IInv, SignalInv, Distinct, HeldKeys, PendingKeys
<1> QED BY <1>1, <1>2 DEF Verdict

\* A step refuses a signal at its moment.
LEMMA RefusedInTime ==
  ASSUME IInv, SignalInv, Punctual, [Next]_vars, RefusalsAreTimely
  PROVE  RefusalsAreTimely'
<1> DEFINE Timely(r) ==
       /\ r.reason = "window_ended" => r.intent.ts = TestEnd
       /\ r.reason \in {"position_occupied", "pending_intent_occupied"} => r.ts = r.intent.ts
       /\ r.reason \in {"invalid_protective_geometry", "zero_quantity", "portfolio_capacity",
                        "unsettled_cash"} => r.ts = r.intent.eligible
<1>1. ASSUME NEW k \in Keys, RefusedAtBirth(k)
      PROVE  \E r : Timely(r) /\ rejections' = rejections \cup {r}
  BY <1>1 DEF RefusedAtBirth
<1>2. ASSUME NEW k \in Keys, RefusedAt(k)
      PROVE  \E r : Timely(r) /\ rejections' = rejections \cup {r}
  <2>1. PICK r \in Rejections :
          /\ r.intent = pending[k]
          /\ IF phase = "expire" THEN r.reason = "window_ended"
             ELSE r.reason = Verdict(ProposalFor(k)) /\ r.ts = OpenTs[now]
          /\ rejections' = rejections \cup {r}
    BY <1>2 DEF RefusedAt
  <2>2. k \in PendingKeys /\ phase \in {"fund", "expire"} /\ r.reason \in RejectionReasons
    BY <1>2 DEF RefusedAt, PendingKeys, Rejections
  <2>3. CASE phase = "expire"
    <3>1. pending[k].ts = CloseTs[now] /\ now = NTest
      BY <2>2, <2>3 DEF SignalInv, SeatsAreCurrent, Punctual
    <3>2. Timely(r)
      BY <2>1, <2>3, <3>1 DEF TestEnd
    <3> QED BY <2>1, <3>2
  <2>4. CASE phase = "fund"
    <3>1. pending[k].eligible = OpenTs[now]
      BY <2>2, <2>4 DEF SignalInv, SeatsAreCurrent
    <3>2. r.reason \in {"accepted", "invalid_protective_geometry", "zero_quantity",
                        "portfolio_capacity", "unsettled_cash"}
      BY <2>1, <2>2, <2>4, VerdictAtOpen
    <3>3. Timely(r)
      BY <2>1, <2>4, <3>1, <3>2
    <3> QED BY <2>1, <3>3
  <2> QED BY <2>2, <2>3, <2>4
<1>3. \A r \in rejections : Timely(r)
  BY DEF RefusalsAreTimely
<1> HIDE DEF Timely
<1>4. UNCHANGED rejections \/ \E r : Timely(r) /\ rejections' = rejections \cup {r}
  BY <1>1, <1>2, EveryStep DEF SignalStep, Stays, SeatedAt, ReservedAt, FilledAt, TradedAt
<1>5. \A r \in rejections' : Timely(r)
  BY <1>3, <1>4
<1> QED BY <1>5 DEF RefusalsAreTimely, Timely, TestEnd

\* Every refusal comes at its moment: a key already taken is refused at the
\* deciding close and never at the open, the account's own rules speak at the
\* one open the intent is eligible at, and the window's end expires only what
\* its last close decided.
THEOREM RefusalsInTime == Spec => []RefusalsAreTimely
<1>1. Init => RefusalsAreTimely
  BY DEF Init, LedgerInit, RefusalsAreTimely
<1> QED BY <1>1, RefusedInTime, PunctualInductive, SignalsInductive, Inductive, PTL DEF Spec

-----------------------------------------------------------------------------
(* The replay implements the abstract life of its signals. *)

\* A signal whose key is free takes the abstract seat.
LEMMA SeatRefines ==
  ASSUME IInv, NEW k \in Keys, SeatedAt(k) PROVE Lifecycle!Seat(k)
<1> DEFINE seat == [j \in Keys |-> IF pending[j] = None THEN None ELSE pending[j].ordinal]
<1>1. PICK i \in Intents : i.ordinal = signalOrdinal /\ pending' = [pending EXCEPT ![k] = i]
  BY DEF SeatedAt
<1>2. /\ positions[k] = None /\ pending[k] = None /\ reserved[k] = None /\ i # None
      /\ UNCHANGED <<positions, reserved, trades, rejections>> /\ signalOrdinal' = signalOrdinal + 1
      /\ pending \in [Keys -> Intents \cup {None}]
  BY NoneAssumption DEF SeatedAt, IInv, Visiting, ReservedKeys, RunOK
<1>3. seat' = [seat EXCEPT ![k] = signalOrdinal]
  BY <1>1, <1>2
<1>4. TradedOrdinals' = TradedOrdinals /\ RejectedOrdinals' = RejectedOrdinals
  BY <1>2 DEF TradedOrdinals, RejectedOrdinals
<1> QED BY <1>2, <1>3, <1>4 DEF Lifecycle!Seat

\* A signal the account refuses at its deciding close is refused at birth.
LEMMA BirthRefines ==
  ASSUME IInv, NEW k \in Keys, RefusedAtBirth(k) PROVE Lifecycle!RefuseAtBirth(k)
<1>1. PICK r \in Rejections : /\ r.intent.ordinal = signalOrdinal
                              /\ rejections' = rejections \cup {r}
  BY DEF RefusedAtBirth
<1>2. RejectedOrdinals' = RejectedOrdinals \cup {signalOrdinal}
  BY <1>1 DEF RejectedOrdinals
<1>3. /\ positions[k] # None \/ pending[k] # None
      /\ UNCHANGED <<positions, pending, reserved, trades>> /\ signalOrdinal' = signalOrdinal + 1
      /\ TradedOrdinals' = TradedOrdinals
  BY DEF RefusedAtBirth, TradedOrdinals
<1>4. /\ positions[k] # None => positions[k].intent.ordinal # None
      /\ pending[k] # None => pending[k].ordinal # None
  BY NoneAssumption, SMTT(30) DEF IInv, AccountInv, AccountOK, RunOK, Positions, Intents
<1> QED BY <1>2, <1>3, <1>4 DEF Lifecycle!RefuseAtBirth

\* A reservation is the abstract fill: the seat empties and the slot is taken.
LEMMA ReserveRefines ==
  ASSUME IInv, NEW k \in Keys, ReservedAt(k) PROVE Lifecycle!Fill(k)
<1> DEFINE seat == [j \in Keys |-> IF pending[j] = None THEN None ELSE pending[j].ordinal]
           slot == [j \in Keys |-> IF positions[j] # None THEN positions[j].intent.ordinal
                                   ELSE IF reserved[j] # None THEN reserved[j].intent.ordinal
                                   ELSE None]
<1>1. PICK p \in Proposals : p.intent = pending[k] /\ reserved' = [reserved EXCEPT ![k] = p]
  BY DEF ReservedAt
<1>2. /\ pending[k] # None /\ positions[k] = None /\ Unseat(k)
      /\ Cardinality(HeldKeys) < MaxOpen /\ \A j \in Keys : reserved[j] = None
      /\ UNCHANGED <<positions, trades, rejections, signalOrdinal>>
      /\ pending \in [Keys -> Intents \cup {None}] /\ reserved \in [Keys -> Proposals \cup {None}]
      /\ pending[k].ordinal # None /\ p # None
  BY NoneAssumption DEF ReservedAt, IInv, Visiting, ReservedKeys, RunOK, AccountInv, AccountOK, Intents
<1>3. seat' = [seat EXCEPT ![k] = None]
  BY <1>2 DEF Unseat
<1>4. slot' = [slot EXCEPT ![k] = seat[k]]
  BY <1>1, <1>2
<1>5. {j \in Keys : slot[j] # None} = HeldKeys
  <2>1. \A j \in Keys : positions[j] # None => positions[j].intent.ordinal # None
    BY NoneAssumption DEF IInv, AccountInv, AccountOK, Positions, Intents
  <2> QED BY <1>2, <2>1 DEF HeldKeys
<1>6. TradedOrdinals' = TradedOrdinals /\ RejectedOrdinals' = RejectedOrdinals
  BY <1>2 DEF TradedOrdinals, RejectedOrdinals
<1>7. seat[k] # None /\ slot[k] = None
  BY <1>2
<1>8. Lifecycle!Occupied = HeldKeys
  BY <1>5 DEF Lifecycle!Occupied
<1>9. Lifecycle!Cardinality(HeldKeys) = Cardinality(HeldKeys)
  BY Zenon DEF Lifecycle!Cardinality, Cardinality
<1> QED BY <1>2, <1>3, <1>4, <1>6, <1>7, <1>8, <1>9 DEF Lifecycle!Fill

\* A refusal at the open, or at the window's end, empties the seat.
LEMMA RefuseRefines ==
  ASSUME IInv, NEW k \in Keys, RefusedAt(k) PROVE Lifecycle!Refuse(k)
<1> DEFINE seat == [j \in Keys |-> IF pending[j] = None THEN None ELSE pending[j].ordinal]
<1>1. PICK r \in Rejections : r.intent = pending[k] /\ rejections' = rejections \cup {r}
  BY DEF RefusedAt
<1>2. /\ pending[k] # None /\ Unseat(k) /\ pending[k].ordinal # None
      /\ UNCHANGED <<positions, reserved, trades, signalOrdinal>>
      /\ pending \in [Keys -> Intents \cup {None}]
  BY NoneAssumption DEF RefusedAt, IInv, RunOK, Intents
<1>3. seat' = [seat EXCEPT ![k] = None] /\ seat[k] = pending[k].ordinal
  BY <1>2 DEF Unseat
<1>4. RejectedOrdinals' = RejectedOrdinals \cup {pending[k].ordinal}
  BY <1>1 DEF RejectedOrdinals
<1>5. TradedOrdinals' = TradedOrdinals
  BY <1>2 DEF TradedOrdinals
<1> QED BY <1>2, <1>3, <1>4, <1>5 DEF Lifecycle!Refuse

\* A close empties the slot and records the trade.
LEMMA TradeRefines ==
  ASSUME IInv, NEW k \in Keys, TradedAt(k) PROVE Lifecycle!TradeOut(k)
<1> DEFINE o == positions[k].intent.ordinal
           slot == [j \in Keys |-> IF positions[j] # None THEN positions[j].intent.ordinal
                                   ELSE IF reserved[j] # None THEN reserved[j].intent.ordinal
                                   ELSE None]
<1>1. PICK t \in Trades : SameFill(t.position, positions[k]) /\ trades' = trades \cup {t}
  BY DEF TradedAt
<1>2. /\ k \in HeldKeys /\ HeldKeys' = HeldKeys \ {k} /\ reserved[k] = None
      /\ \A j \in HeldKeys \ {k} : positions'[j].intent = positions[j].intent
      /\ UNCHANGED <<pending, reserved, rejections, signalOrdinal>>
  BY DEF TradedAt, Holds, SameFill, IInv, AccountInv, Booked, ReservedKeys, HeldKeys
<1>3. /\ \A j \in Keys \ {k} : (positions'[j] # None <=> positions[j] # None)
      /\ \A j \in Keys \ {k} : positions[j] # None => positions'[j].intent = positions[j].intent
      /\ positions[k] # None /\ positions'[k] = None
  BY <1>2 DEF HeldKeys
<1>4. slot' = [slot EXCEPT ![k] = None]
  BY <1>2, <1>3
<1>5. slot[k] = o /\ o # None
  BY <1>3, NoneAssumption DEF IInv, AccountInv, AccountOK, Positions, Intents
<1>6. TradedOrdinals' = TradedOrdinals \cup {o}
  BY <1>1 DEF TradedOrdinals, SameFill
<1>7. RejectedOrdinals' = RejectedOrdinals
  BY <1>2 DEF RejectedOrdinals
<1> HIDE DEF o
<1> QED BY <1>2, <1>4, <1>5, <1>6, <1>7 DEF Lifecycle!TradeOut

\* What stays stays on the abstract portfolio too, and a reserved slot is the
\* slot its fill takes.
LEMMA StaysRefines ==
  ASSUME IInv, Stays \/ \E k \in Keys : FilledAt(k) PROVE UNCHANGED Lifecycle!vars
<1> DEFINE slot == [j \in Keys |-> IF positions[j] # None THEN positions[j].intent.ordinal
                                   ELSE IF reserved[j] # None THEN reserved[j].intent.ordinal
                                   ELSE None]
<1>1. /\ UNCHANGED <<pending, trades, rejections, signalOrdinal>>
      /\ TradedOrdinals' = TradedOrdinals /\ RejectedOrdinals' = RejectedOrdinals
  BY DEF Stays, FilledAt, TradedOrdinals, RejectedOrdinals
<1>2. CASE Stays
  <2>1. /\ \A j \in Keys : (positions'[j] # None <=> positions[j] # None)
        /\ \A j \in Keys : positions[j] # None => positions'[j].intent = positions[j].intent
        /\ UNCHANGED reserved
    BY <1>2 DEF Stays, Holds, HeldKeys, SameFill
  <2>2. slot' = slot
    BY <2>1
  <2> QED BY <1>1, <2>2 DEF Lifecycle!vars
<1>3. ASSUME NEW k \in Keys, FilledAt(k) PROVE UNCHANGED Lifecycle!vars
  <2>1. /\ k \in ReservedKeys /\ k \notin HeldKeys
        /\ reserved \in [Keys -> Proposals \cup {None}]
    BY <1>3 DEF FilledAt, ReservedKeys, IInv, AccountInv, AccountOK, Booked
  <2>2. /\ positions[k] = None /\ reserved[k] # None /\ positions'[k] # None
        /\ positions'[k].intent = reserved[k].intent
        /\ \A j \in Keys \ {k} : reserved'[j] = reserved[j] /\ (positions'[j] # None <=> positions[j] # None)
        /\ \A j \in Keys \ {k} : positions[j] # None => positions'[j] = positions[j]
    BY <1>3, <2>1 DEF FilledAt, HeldKeys
  <2>3. slot' = slot
    BY <2>2
  <2> QED BY <1>1, <2>3 DEF Lifecycle!vars
<1> QED BY <1>2, <1>3

\* The replay implements the abstract portfolio: whatever the market, the
\* strategies and the cash do, a signal is seated only on a free key, filled only
\* inside the capacity, refused or traded out once, and never comes back.  The
\* abstract fill is the reservation; the ledger's open() is a stutter of it.
THEOREM LifecycleImplemented == Spec => ImplementsLifecycle
<1>1. Init => Lifecycle!Init
  BY DEF Init, LedgerInit, Lifecycle!Init, TradedOrdinals, RejectedOrdinals
<1>2. IInv /\ [Next]_vars => [Lifecycle!Next]_(Lifecycle!vars)
  BY EveryStep, SeatRefines, BirthRefines, ReserveRefines, RefuseRefines, TradeRefines, StaysRefines
     DEF SignalStep, Lifecycle!Next
<1> QED BY <1>1, <1>2, Inductive, PTL DEF Spec, ImplementsLifecycle, Lifecycle!Spec

-----------------------------------------------------------------------------
(* Capacity is granted in funding order. *)

Caps == {r \in rejections : r.reason = "portfolio_capacity"}
BeforeFills == {"anchor", "settle", "freeze", "gap"}

\* Until its fills an interval has filled nothing and refused nothing for
\* capacity; from then on what it filled comes before what is still waiting,
\* and a capacity refusal means the portfolio is full.
CapacityInv ==
  /\ CapacityIsInOrder
  /\ \A p \in Fills : p.entryTs <= OpenTs[now] /\ (phase \in BeforeFills => p.entryTs < OpenTs[now])
  /\ \A r \in Caps : r.ts <= OpenTs[now]
       /\ (phase \in BeforeFills \cup {"fill"} => r.ts < OpenTs[now])
       /\ (phase = "fund" /\ r.ts = OpenTs[now] => Cardinality(HeldKeys) >= MaxOpen)
  /\ phase \in {"fund", "fill"} =>
       \A j \in visit :
         /\ \A p \in Fills : p.entryTs = OpenTs[now] => IntentBefore(p.intent, pending[j])
         /\ \A k \in ReservedKeys : IntentBefore(reserved[k].intent, pending[j])

\* Fills and refusals carry timestamps.
LEMMA FillsTyped ==
  ASSUME IInv
  PROVE  (\A p \in Fills : p.entryTs \in Nat) /\ \A r \in Caps : r.ts \in Nat
<1>1. /\ \A k \in HeldKeys : positions[k] \in Positions
      /\ \A t \in trades : t.position \in Positions
      /\ \A r \in rejections : r.ts \in Nat
  BY DEF IInv, AccountInv, AccountOK, HeldKeys, Trades, Rejections
<1> QED BY <1>1 DEF Fills, Caps, Positions

\* A step fills no signal but the reserved one.
LEMMA FillsFrom ==
  ASSUME IInv, [Next]_vars
  PROVE  \A p \in Fills' :
           \/ \E q \in Fills : SameFill(p, q)
           \/ \E k \in Keys : /\ FilledAt(k)
                              /\ p.intent = reserved[k].intent /\ p.entryTs = OpenTs[now]
<1> DEFINE From(p) == \/ \E q \in Fills : SameFill(p, q)
                      \/ \E k \in Keys : /\ FilledAt(k)
                                         /\ p.intent = reserved[k].intent /\ p.entryTs = OpenTs[now]
<1> SUFFICES \A p \in Fills' : From(p)
  OBVIOUS
<1>1. ASSUME NEW k \in HeldKeys' PROVE From(positions'[k])
  <2>1. \/ k \in HeldKeys /\ SameFill(positions'[k], positions[k])
        \/ /\ FilledAt(k) /\ k \in Keys
           /\ positions'[k].intent = reserved[k].intent /\ positions'[k].entryTs = OpenTs[now]
    <3>1. CASE Stays \/ \E j \in Keys : TradedAt(j)
      BY <3>1 DEF Stays, TradedAt, Holds
    <3>2. CASE \E j \in Keys : SeatedAt(j) \/ RefusedAtBirth(j) \/ ReservedAt(j) \/ RefusedAt(j)
      BY <3>2 DEF SeatedAt, RefusedAtBirth, ReservedAt, RefusedAt, HeldKeys, SameFill
    <3>3. CASE \E j \in Keys : FilledAt(j)
      BY <3>3 DEF FilledAt, SameFill
    <3> QED BY <3>1, <3>2, <3>3, EveryStep DEF SignalStep
  <2> QED BY <2>1 DEF Fills
<1>2. ASSUME NEW t \in trades' PROVE From(t.position)
  <2>1. \/ t \in trades
        \/ \E k \in HeldKeys : SameFill(t.position, positions[k])
    BY EveryStep DEF SignalStep, Stays, SeatedAt, RefusedAtBirth, ReservedAt, RefusedAt, FilledAt,
         TradedAt
  <2>2. CASE t \in trades
    <3>1. t.position \in Fills /\ SameFill(t.position, t.position)
      BY <2>2 DEF Fills, SameFill
    <3> QED BY <3>1
  <2>3. CASE \E k \in HeldKeys : SameFill(t.position, positions[k])
    BY <2>3 DEF Fills
  <2> QED BY <2>1, <2>2, <2>3
<1> HIDE DEF From
<1> QED BY <1>1, <1>2 DEF Fills

\* A step refuses no signal for capacity but the candidate being funded.
LEMMA CapsFrom ==
  ASSUME IInv, [Next]_vars
  PROVE  \A r \in Caps' : r \in Caps
           \/ \E k \in Keys : /\ RefusedAt(k) /\ phase = "fund"
                              /\ r.intent = pending[k] /\ r.ts = OpenTs[now]
                              /\ Verdict(ProposalFor(k)) = "portfolio_capacity"
  BY EveryStep DEF SignalStep, Stays, SeatedAt, RefusedAtBirth, ReservedAt, RefusedAt, FilledAt,
       TradedAt, Caps

\* A step outside the fills, within its interval, keeps the order.
LEMMA CapacityQuiet ==
  ASSUME IInv, [Next]_vars, CapacityInv, phase \notin {"fund", "fill"}, phase' \notin {"fund", "fill"},
         now' = now, phase' \in BeforeFills => phase \in BeforeFills
  PROVE  CapacityInv'
<1>1. \A p \in Fills' : \E q \in Fills : SameFill(p, q)
  BY FillsFrom DEF FilledAt
<1>2. \A r \in Caps' : r \in Caps
  BY CapsFrom
<1>3. CapacityIsInOrder'
  <2>1. \A r \in Caps, p \in Fills : p.entryTs = r.ts => IntentBefore(p.intent, r.intent)
    BY DEF CapacityInv, CapacityIsInOrder, Caps
  <2>2. \A r \in Caps', p \in Fills' : p.entryTs = r.ts => IntentBefore(p.intent, r.intent)
    BY <1>1, <1>2, <2>1 DEF SameFill
  <2> QED BY <2>2 DEF CapacityIsInOrder, Caps
<1>4. \A p \in Fills' : p.entryTs <= OpenTs[now]' /\ (phase' \in BeforeFills => p.entryTs < OpenTs[now]')
  BY <1>1 DEF CapacityInv, SameFill
<1>5. \A r \in Caps' : r.ts <= OpenTs[now]' /\ (phase' \in BeforeFills => r.ts < OpenTs[now]')
  BY <1>2 DEF CapacityInv
<1> QED BY <1>3, <1>4, <1>5 DEF CapacityInv

\* The next open comes after everything the interval filled or refused.
LEMMA CapacityNextOpen == ASSUME IInv, CapacityInv, CloseMark PROVE CapacityInv'
<1>1. CASE now' = now /\ phase' = "expire"
  BY <1>1, CapacityQuiet DEF CloseMark, BeforeFills, Next
<1>2. CASE now < NTest /\ now' = now + 1 /\ phase' = "settle"
  <2>1. /\ Fills' = Fills /\ Caps' = Caps /\ UNCHANGED <<positions, trades, rejections>>
    BY DEF CloseMark, ledgerVars, Fills, Caps, HeldKeys
  <2>2. CapacityIsInOrder'
    BY <2>1 DEF CapacityInv, CapacityIsInOrder
  <2>3. OpenTs[now] \in Nat /\ OpenTs[now]' \in Nat /\ OpenTs[now] < OpenTs[now]'
    BY <1>2, NextOpen DEF IInv
  <2>4. \A p \in Fills : p.entryTs < OpenTs[now]'
    BY <2>3, FillsTyped DEF CapacityInv
  <2>5. \A r \in Caps : r.ts < OpenTs[now]'
    BY <2>3, FillsTyped DEF CapacityInv
  <2>6. \A r \in Caps', p \in Fills' : p.entryTs < OpenTs[now]' /\ r.ts < OpenTs[now]'
    BY <2>1, <2>4, <2>5
  <2> QED BY <1>2, <2>1, <2>2, <2>3, <2>4, <2>5, FillsTyped DEF CapacityInv
<1> QED BY <1>1, <1>2 DEF CloseMark

\* A candidate that is reserved for comes before all that wait.
LEMMA CapacityReserve ==
  ASSUME IInv, CapacityInv, NEW k \in Keys, Fund(k), Verdict(ProposalFor(k)) = "accepted"
  PROVE  CapacityInv'
<1>1. /\ phase = "fund" /\ phase' = "fill" /\ now' = now /\ visit' = visit \ {k} /\ Unseat(k)
      /\ \A j \in visit \ {k} : IntentBefore(pending[k], pending[j])
  BY DEF Fund, NextIntent, FirstOf
<1>2. ReservedAt(k)
  BY <1>1, FundStep DEF RefusedAt, Rejections, RejectionReasons
<1>3. PICK p \in Proposals : p.intent = pending[k] /\ reserved' = [reserved EXCEPT ![k] = p]
  BY <1>2 DEF ReservedAt
<1>4. /\ Cardinality(HeldKeys) < MaxOpen /\ UNCHANGED <<positions, trades, rejections>>
      /\ ReservedKeys = {} /\ reserved \in [Keys -> Proposals \cup {None}]
      /\ visit \subseteq PendingKeys
  BY <1>1, <1>2 DEF ReservedAt, IInv, Visiting, AccountInv, AccountOK
<1>5. ReservedKeys' = {k} /\ reserved'[k].intent = pending[k]
  BY <1>3, <1>4, NoneAssumption DEF ReservedKeys
<1>6. Fills' = Fills /\ Caps' = Caps /\ OpenTs[now]' = OpenTs[now]
  BY <1>1, <1>4 DEF Fills, Caps, HeldKeys
<1>7. CapacityIsInOrder'
  BY <1>4, <1>6 DEF CapacityInv, CapacityIsInOrder
<1>8. \A r \in Caps : r.ts < OpenTs[now]
  <2>1. Cardinality(HeldKeys) \in Nat
    BY KeysFinite, FS_Subset, FS_CardinalityType DEF HeldKeys
  <2>2. OpenTs[now] \in Nat /\ \A r \in Caps : r.ts \in Nat
    BY ClockTyped, FillsTyped DEF IInv
  <2> QED BY <1>1, <1>4, <2>1, <2>2, AccountAssumption DEF CapacityInv
<1>9. \A j \in visit' : j # k /\ pending'[j] = pending[j]
  BY <1>1, <1>4, UnseatPending DEF IInv
<1>10. \A q \in Fills : q.entryTs <= OpenTs[now]
  BY DEF CapacityInv
<1>11. \A j \in visit' : /\ \A q \in Fills : q.entryTs = OpenTs[now] => IntentBefore(q.intent, pending'[j])
                         /\ IntentBefore(reserved'[k].intent, pending'[j])
  BY <1>1, <1>5, <1>9 DEF CapacityInv
<1>12. \A r \in Caps : r.ts <= OpenTs[now]
  BY DEF CapacityInv
<1>13. \A q \in Fills' : q.entryTs <= OpenTs[now]' /\ (phase' \in BeforeFills => q.entryTs < OpenTs[now]')
  BY <1>1, <1>6, <1>10 DEF BeforeFills
<1>14. \A r \in Caps' : /\ r.ts <= OpenTs[now]'
                        /\ phase' \in BeforeFills \cup {"fill"} => r.ts < OpenTs[now]'
                        /\ phase' = "fund" /\ r.ts = OpenTs[now]' => Cardinality(HeldKeys') >= MaxOpen
  BY <1>1, <1>6, <1>8, <1>12
<1>15. \A j \in visit' :
        /\ \A q \in Fills' : q.entryTs = OpenTs[now]' => IntentBefore(q.intent, pending'[j])
        /\ \A i \in ReservedKeys' : IntentBefore(reserved'[i].intent, pending'[j])
  <2> TAKE j \in visit'
  <2>1. \A q \in Fills' : q.entryTs = OpenTs[now]' => IntentBefore(q.intent, pending'[j])
    BY <1>6, <1>11
  <2>2. \A i \in ReservedKeys' : IntentBefore(reserved'[i].intent, pending'[j])
    <3>1. IntentBefore(reserved'[k].intent, pending'[j])
      BY <1>11
    <3> QED BY <1>5, <3>1
  <2> QED BY <2>1, <2>2
<1> QED BY <1>7, <1>13, <1>14, <1>15 DEF CapacityInv

\* One that is refused finds every fill of this open before it.
LEMMA CapacityRefuse ==
  ASSUME IInv, [Next]_vars, CapacityInv, NEW k \in Keys, Fund(k),
         Verdict(ProposalFor(k)) # "accepted"
  PROVE  CapacityInv'
<1>1. /\ phase = "fund" /\ phase' = "fund" /\ now' = now /\ visit' = visit \ {k} /\ Unseat(k)
      /\ k \in visit /\ UNCHANGED <<positions, reserved, trades>>
      /\ rejections' = rejections \cup {[ordinal |-> rejectionOrdinal, intent |-> pending[k],
                                         ts |-> OpenTs[now], reason |-> Verdict(ProposalFor(k))]}
  BY DEF Fund, NextIntent, FirstOf, Reject
<1>2. Fills' = Fills /\ HeldKeys' = HeldKeys /\ OpenTs[now]' = OpenTs[now]
  BY <1>1 DEF Fills, HeldKeys
<1>3. ReservedKeys = {} /\ ReservedKeys' = {} /\ k \in PendingKeys
  BY <1>1 DEF IInv, Visiting, ReservedKeys
<1>4. \A r \in Caps' : r \in Caps
        \/ (r.intent = pending[k] /\ r.ts = OpenTs[now] /\ Cardinality(HeldKeys) >= MaxOpen)
  <2>1. ASSUME Verdict(ProposalFor(k)) = "portfolio_capacity" PROVE Cardinality(HeldKeys) >= MaxOpen
    <3>1. Cardinality(ReservedKeys) = 0 /\ Cardinality(HeldKeys) \in Nat
      BY <1>3, KeysFinite, FS_EmptySet, FS_Subset, FS_CardinalityType DEF HeldKeys
    <3>2. Cardinality(HeldKeys) + Cardinality(ReservedKeys) >= MaxOpen
      BY <2>1 DEF Verdict
    <3> QED BY <3>1, <3>2
  <2> QED BY <1>1, <2>1 DEF Caps
<1>5. CapacityIsInOrder'
  <2>1. \A r \in Caps, p \in Fills : p.entryTs = r.ts => IntentBefore(p.intent, r.intent)
    BY DEF CapacityInv, CapacityIsInOrder, Caps
  <2>2. \A p \in Fills : p.entryTs = OpenTs[now] => IntentBefore(p.intent, pending[k])
    BY <1>1 DEF CapacityInv
  <2>3. \A r \in Caps', p \in Fills' : p.entryTs = r.ts => IntentBefore(p.intent, r.intent)
    BY <1>2, <1>4, <2>1, <2>2
  <2> QED BY <2>3 DEF CapacityIsInOrder, Caps
<1>6. \A j \in visit' : j \in visit /\ pending'[j] = pending[j]
  BY <1>1, <1>3, UnseatPending DEF IInv, Visiting
<1>7. \A r \in Caps' : r.ts <= OpenTs[now]
        /\ (r.ts = OpenTs[now] => Cardinality(HeldKeys) >= MaxOpen)
  BY <1>1, <1>4, ClockTyped DEF CapacityInv, IInv
<1>8. \A p \in Fills : p.entryTs <= OpenTs[now]
  BY DEF CapacityInv
<1>9. \A j \in visit', p \in Fills : p.entryTs = OpenTs[now] => IntentBefore(p.intent, pending'[j])
  BY <1>1, <1>6 DEF CapacityInv
<1> QED BY <1>1, <1>2, <1>3, <1>5, <1>7, <1>8, <1>9 DEF CapacityInv, BeforeFills

\* The fill takes the place its reservation had.
LEMMA CapacityFill ==
  ASSUME IInv, [Next]_vars, CapacityInv, NEW k \in Keys, Fill(k)
  PROVE  CapacityInv'
<1>1. /\ phase = "fill" /\ phase' = "fund" /\ UNCHANGED <<now, visit, pending, rejections>>
      /\ FilledAt(k) /\ k \in ReservedKeys
  BY FillStep DEF Fill, Open, ReservedKeys
<1>2. ReservedKeys' = {} /\ Caps' = Caps /\ OpenTs[now]' = OpenTs[now]
  BY <1>1 DEF IInv, Visiting, AccountInv, AccountOK, FilledAt, ReservedKeys, Caps
<1>3. \A r \in Caps : r.ts < OpenTs[now] /\ r.ts <= OpenTs[now] /\ r.ts # OpenTs[now]
  BY <1>1, FillsTyped, ClockTyped DEF CapacityInv, IInv
<1>4. \A p \in Fills' : \/ \E q \in Fills : SameFill(p, q)
                        \/ p.intent = reserved[k].intent /\ p.entryTs = OpenTs[now]
  BY <1>1, FillsFrom DEF FilledAt, ReservedKeys, IInv, Visiting
<1>5. \A r \in Caps', p \in Fills' : p.entryTs = r.ts => IntentBefore(p.intent, r.intent)
  <2>1. \A r \in Caps, p \in Fills : p.entryTs = r.ts => IntentBefore(p.intent, r.intent)
    BY DEF CapacityInv, CapacityIsInOrder, Caps
  <2> QED BY <1>2, <1>3, <1>4, <2>1 DEF SameFill
<1>6. \A p \in Fills' : p.entryTs <= OpenTs[now]
  BY <1>4, ClockTyped DEF CapacityInv, SameFill, IInv
<1>7. \A j \in visit, p \in Fills' : p.entryTs = OpenTs[now] => IntentBefore(p.intent, pending[j])
  BY <1>1, <1>4 DEF CapacityInv, SameFill
<1>8. CapacityIsInOrder'
  BY <1>5 DEF CapacityIsInOrder, Caps
<1> QED BY <1>1, <1>2, <1>3, <1>6, <1>7, <1>8 DEF CapacityInv, BeforeFills

\* Every step of the chronology grants capacity in order.
LEMMA CapacityNext == IInv /\ CapacityInv /\ [Next]_vars => CapacityInv'
<1> SUFFICES ASSUME IInv, CapacityInv, [Next]_vars PROVE CapacityInv'
  OBVIOUS
<1>1. CASE UNCHANGED vars
  BY <1>1 DEF vars, ledgerVars, runVars, CapacityInv, CapacityIsInOrder, Fills, Caps, HeldKeys,
       ReservedKeys
<1>2. CASE phase = "fill"
  <2>1. (\E k \in Keys : Fill(k)) \/ UNCHANGED vars
    BY <1>2 DEF Next, OpeningMark, SettleAtOpen, Freeze, ObserveSurvivors, FinishStep, CloseMark,
         FinalMark, AbortAtMark, Finished, GapExit, Fund, Protect, Evaluated, Expire, Liquidate,
         AbortAtFill, Manage, RecordSignal
  <2> QED BY <1>1, <2>1, CapacityFill
<1>3. CASE phase = "fund"
  <2>1. \/ \E k \in Keys : Fund(k)
        \/ UNCHANGED <<ledgerVars, now>> /\ phase' \in {"protect", "aborted"}
        \/ UNCHANGED vars
    BY <1>3 DEF Next, OpeningMark, SettleAtOpen, Freeze, ObserveSurvivors, FinishStep, CloseMark,
         FinalMark, AbortAtMark, Finished, GapExit, Fill, Protect, Evaluated, Expire, Liquidate,
         AbortAtFill, Abort, Manage, RecordSignal
  <2>2. ASSUME UNCHANGED <<ledgerVars, now>>, phase' \in {"protect", "aborted"} PROVE CapacityInv'
    BY <2>2 DEF ledgerVars, CapacityInv, CapacityIsInOrder, Fills, Caps, HeldKeys, BeforeFills
  <2> QED BY <1>1, <2>1, <2>2, CapacityReserve, CapacityRefuse
<1>4. CASE phase \notin {"fund", "fill"}
  <2>1. \/ CloseMark
        \/ /\ phase = "gap" /\ phase' = "fund" /\ UNCHANGED <<ledgerVars, now>>
        \/ /\ now' = now /\ phase' \notin {"fund", "fill"}
           /\ phase' \in BeforeFills => phase \in BeforeFills
        \/ UNCHANGED vars
    BY <1>4 DEF Next, OpeningMark, SettleAtOpen, Freeze, ObserveSurvivors, FinishStep,
         FinalMark, AbortAtMark, Finished, GapExit, Fund, Fill, Protect, Evaluated, Expire, Liquidate,
         AbortAtFill, Abort, Manage, RecordSignal, BeforeFills
  <2>2. ASSUME phase = "gap", phase' = "fund", UNCHANGED <<ledgerVars, now>> PROVE CapacityInv'
    <3>1. /\ Fills' = Fills /\ Caps' = Caps /\ ReservedKeys' = {} /\ OpenTs[now]' = OpenTs[now]
          /\ CapacityIsInOrder'
      BY <2>2 DEF ledgerVars, Fills, Caps, HeldKeys, ReservedKeys, IInv, Visiting, CapacityInv,
           CapacityIsInOrder
    <3>2. /\ \A p \in Fills : p.entryTs <= OpenTs[now] /\ p.entryTs # OpenTs[now]
          /\ \A r \in Caps : r.ts <= OpenTs[now] /\ r.ts # OpenTs[now]
      BY <2>2, FillsTyped, ClockTyped DEF CapacityInv, BeforeFills, IInv
    <3> QED BY <2>2, <3>1, <3>2 DEF CapacityInv, BeforeFills
  <2> QED BY <1>1, <1>4, <2>1, <2>2, CapacityNextOpen, CapacityQuiet
<1> QED BY <1>2, <1>3, <1>4

\* Capacity goes in funding order at every open: once a candidate was refused a
\* slot, no later one is filled there, however the fills, the exits of the open
\* and the refusals interleave.
THEOREM CapacityInOrder == Spec => []CapacityIsInOrder
<1>1. Init => CapacityInv
  <2> SUFFICES ASSUME Init PROVE CapacityInv
    OBVIOUS
  <2>1. trades = {} /\ rejections = {} /\ HeldKeys = {} /\ phase = "anchor"
    BY DEF Init, LedgerInit, HeldKeys
  <2>2. Fills = {} /\ Caps = {}
    BY <2>1 DEF Fills, Caps
  <2> QED BY <2>1, <2>2 DEF CapacityInv, CapacityIsInOrder
<1>2. CapacityInv => CapacityIsInOrder
  BY DEF CapacityInv
<1> QED BY <1>1, <1>2, CapacityNext, Inductive, PTL DEF Spec

-----------------------------------------------------------------------------
\* No level of key k's position is beyond this interval's open.
Inside(k) == ProtectiveExit(positions[k], BarOf(k)).reason \notin GapReasons

\* Step 3 leaves every position it has visited inside its levels; the fills of
\* steps 4 to 6 enter inside theirs; and step 7 starts from there.
LevelsHold ==
  /\ phase = "gap" => \A k \in HeldKeys \ visit : Inside(k)
  /\ phase \in {"fund", "fill"} => \A k \in HeldKeys : Inside(k)
  /\ phase = "fill" => \A k \in ReservedKeys :
       LET i == reserved[k].intent IN Brackets(i.dir, BarOf(k).open, i.stop, i.target)
  /\ phase = "protect" => \A k \in visit : Inside(k)

\* _protective_exit names no gap exactly when the levels bracket the open.
LEMMA InsideBrackets ==
  ASSUME NEW p, p.intent.dir \in Directions, p.stop \in Int, p.target \in Int,
         NEW bar, bar.open \in Int
  PROVE  ProtectiveExit(p, bar).reason \notin GapReasons
           <=> Brackets(p.intent.dir, bar.open, p.stop, p.target)
  BY DEF ProtectiveExit, GapReasons, Brackets, AtStop, AtTarget, Directions

\* The levels of a position whose state and bar do not change.
LEMMA InsideKept ==
  ASSUME NEW k, positions'[k] = positions[k], bars' = bars, Inside(k)
  PROVE  Inside(k)'
  BY DEF Inside, BarOf

\* A position step 3 has visited is gone, or inside its levels.
LEMMA LevelsGap ==
  ASSUME IInv, LevelsHold, NEW k \in Keys, GapExit(k)
  PROVE  LevelsHold'
<1>1. /\ phase = "gap" /\ phase' = "gap" /\ bars' = bars /\ visit' = visit \ {k} /\ k \in HeldKeys
      /\ positions \in [Keys -> Positions \cup {None}]
  BY DEF GapExit, NextPosition, FirstOf, IInv, Visiting, AccountInv, AccountOK
<1>2. CASE LeavesAtOpen(ProtectiveExit(positions[k], BarOf(k)))
  <2>1. positions' = [positions EXCEPT ![k] = None]
    BY <1>1, <1>2, HeldPosition, ObservedSame DEF GapExit, SettleOut, Close, IInv, SameEntry
  <2>2. \A j \in HeldKeys' : j \in HeldKeys \ {k} /\ positions'[j] = positions[j]
    BY <1>1, <2>1 DEF HeldKeys
  <2> QED BY <1>1, <2>2, InsideKept DEF LevelsHold
<1>3. CASE ~ LeavesAtOpen(ProtectiveExit(positions[k], BarOf(k)))
  <2>1. positions' = positions /\ HeldKeys' = HeldKeys
    BY <1>3 DEF GapExit, ledgerVars, HeldKeys
  <2>2. Inside(k)
    BY <1>3 DEF Inside, LeavesAtOpen
  <2> QED BY <1>1, <2>1, <2>2, InsideKept DEF LevelsHold
<1> QED BY <1>2, <1>3

\* A reservation is made only inside the levels of the open it fills at.
LEMMA LevelsFund ==
  ASSUME IInv, LevelsHold, NEW k \in Keys, Fund(k)
  PROVE  LevelsHold'
<1> DEFINE p == ProposalFor(k)
<1>1. /\ phase = "fund" /\ bars' = bars /\ positions' = positions /\ HeldKeys' = HeldKeys
      /\ k \in PendingKeys /\ ReservedKeys = {}
      /\ reserved \in [Keys -> Proposals \cup {None}]
  BY DEF Fund, Reserve, Reject, HeldKeys, NextIntent, FirstOf, IInv, Visiting, AccountInv, AccountOK
<1>2. \A j \in HeldKeys' : Inside(j)'
  BY <1>1, InsideKept DEF LevelsHold
<1>3. p.intent = pending[k] /\ p.intent.key = k /\ p.rawOpen = BarOf(k).open
  BY <1>1, PendingIntent DEF ProposalFor, Propose, IInv
<1>4. CASE Verdict(p) = "accepted"
  <2>1. phase' = "fill" /\ reserved' = [reserved EXCEPT ![k] = p]
    BY <1>3, <1>4 DEF Fund, Reserve
  <2>2. ReservedKeys' \subseteq {k}
    BY <1>1, <2>1 DEF ReservedKeys
  <2>3. Brackets(p.intent.dir, BarOf(k).open, p.intent.stop, p.intent.target)
    BY <1>3, <1>4 DEF Verdict
  <2>4. reserved'[k] = p /\ BarOf(k)' = BarOf(k)
    BY <1>1, <2>1 DEF BarOf
  <2> HIDE DEF p
  <2> QED BY <1>2, <2>1, <2>2, <2>3, <2>4 DEF LevelsHold
<1>5. CASE Verdict(p) # "accepted"
  <2>1. phase' = "fund"
    BY <1>1, <1>5 DEF Fund
  <2> QED BY <1>2, <2>1 DEF LevelsHold
<1> QED BY <1>4, <1>5

\* A fill enters at the levels its reservation was accepted with.
LEMMA LevelsFill ==
  ASSUME IInv, LevelsHold, NEW k \in Keys, Fill(k)
  PROVE  LevelsHold'
<1> DEFINE i == reserved[k].intent
<1>1. /\ phase = "fill" /\ phase' = "fund" /\ bars' = bars /\ k \in ReservedKeys
      /\ reserved[k] \in Proposals /\ i.key = k /\ positions \in [Keys -> Positions \cup {None}]
      /\ BarOf(k).open \in Int
  BY BarTyped DEF Fill, ReservedKeys, IInv, AccountInv, AccountOK, Booked, RunOK
<1>2. i \in Intents /\ i.dir \in Directions /\ i.stop \in Int /\ i.target \in Int
  BY <1>1 DEF Proposals, Intents
<1>3. /\ positions'[k].intent = i /\ positions'[k].stop = i.stop /\ positions'[k].target = i.target
      /\ \A j \in Keys \ {k} : positions'[j] = positions[j]
  BY <1>1 DEF Fill, Open
<1>4. Inside(k)'
  <2>1. Brackets(i.dir, BarOf(k).open, i.stop, i.target) /\ BarOf(k)' = BarOf(k)
    BY <1>1 DEF LevelsHold, BarOf
  <2> HIDE DEF i
  <2>2. ProtectiveExit(positions'[k], BarOf(k)).reason \notin GapReasons
    BY <1>1, <1>2, <1>3, <2>1, InsideBrackets
  <2> QED BY <2>1, <2>2 DEF Inside
<1>5. \A j \in HeldKeys' \ {k} : j \in HeldKeys /\ Inside(j)'
  BY <1>1, <1>3, InsideKept DEF LevelsHold, HeldKeys
<1> QED BY <1>1, <1>4, <1>5 DEF LevelsHold

\* An intrabar exit leaves the positions still to visit alone.
LEMMA LevelsProtect ==
  ASSUME IInv, LevelsHold, NEW k \in Keys, Protect(k)
  PROVE  LevelsHold'
<1>1. /\ phase = "protect" /\ phase' = "protect" /\ bars' = bars /\ visit' = visit \ {k}
      /\ k \in HeldKeys /\ visit \subseteq Keys
      /\ positions \in [Keys -> Positions \cup {None}] /\ bars \in [Symbols -> Bars]
  BY DEF Protect, NextPosition, FirstOf, IInv, Visiting, AccountInv, AccountOK, RunOK
<1> DEFINE hit  == ProtectiveExit(positions[k], BarOf(k))
           seen == SeenByExit(positions[k], BarOf(k), hit)
<1>2. seen.intent.key = k
  BY <1>1, HeldPosition, SeenTyped DEF IInv, SameEntry
<1>3. positions' = [positions EXCEPT ![k] = None] \/ positions' = positions
  <2>1. SettleOut(seen, hit.at, CloseTs[now], hit.reason) \/ UNCHANGED ledgerVars
    BY DEF Protect
  <2> HIDE DEF hit, seen
  <2> QED BY <1>2, <2>1 DEF SettleOut, Close, ledgerVars
<1>4. \A j \in visit' : positions'[j] = positions[j]
  BY <1>1, <1>3
<1> QED BY <1>1, <1>4, InsideKept DEF LevelsHold

\* Every step of the chronology keeps the levels.
LEMMA LevelsNext == IInv /\ LevelsHold /\ [Next]_vars => LevelsHold'
<1> SUFFICES ASSUME IInv, LevelsHold, [Next]_vars PROVE LevelsHold'
  OBVIOUS
<1>1. \/ \E k \in Keys : GapExit(k) \/ Fund(k) \/ Fill(k) \/ Protect(k)
      \/ FinishStep
      \/ UNCHANGED vars
      \/ phase' = "gap" /\ visit' = HeldKeys /\ UNCHANGED ledgerVars
      \/ phase' \notin {"gap", "fund", "fill", "protect"}
  BY DEF Next, OpeningMark, SettleAtOpen, Freeze, ObserveSurvivors, CloseMark, FinalMark,
       AbortAtMark, Finished, Evaluated, Expire, Liquidate, AbortAtFill, Abort, Manage, RecordSignal
<1>2. CASE FinishStep
  <2>1. UNCHANGED <<positions, bars>> /\ HeldKeys' = HeldKeys /\ visit = {}
    BY <1>2 DEF FinishStep, ledgerVars, HeldKeys
  <2>2. \/ phase = "gap" /\ phase' = "fund"
        \/ phase = "fund" /\ phase' = "protect" /\ visit' = HeldKeys
        \/ phase' \notin {"gap", "fund", "fill", "protect"}
    BY <1>2 DEF FinishStep
  <2> QED BY <2>1, <2>2, InsideKept DEF LevelsHold
<1>3. CASE UNCHANGED vars
  BY <1>3 DEF vars, runVars, ledgerVars, LevelsHold, HeldKeys, ReservedKeys, Inside, BarOf
<1>4. CASE phase' = "gap" /\ visit' = HeldKeys /\ UNCHANGED ledgerVars
  BY <1>4 DEF LevelsHold, ledgerVars, HeldKeys
<1>5. CASE phase' \notin {"gap", "fund", "fill", "protect"}
  BY <1>5 DEF LevelsHold
<1> QED BY <1>1, <1>2, <1>3, <1>4, <1>5, LevelsGap, LevelsFund, LevelsFill, LevelsProtect

\* The docstring of _protect: a gap reason cannot reach step 7.  Whatever the
\* bar, the levels and the fills of the open, every open price step 7 meets lies
\* strictly inside the levels of the position it is tested on.
THEOREM NoGapReachesProtect == Spec => []NoGapAtProtect
<1>1. Init => LevelsHold
  BY DEF Init, LevelsHold
<1>2. LevelsHold => NoGapAtProtect
  BY DEF LevelsHold, NoGapAtProtect, Inside
<1> QED BY <1>1, <1>2, LevelsNext, Inductive, PTL DEF Spec

-----------------------------------------------------------------------------
(* What a position has seen of the price it left at. *)

\* A position's excursion covers a price.
Covers(p, x) == p.lowest <= x /\ x <= p.highest

\* From step 8 on every open position has lived through the whole bar.
LivedPhases == {"manage", "evaluate", "mark", "expire", "liquidate"}

Excursions ==
  /\ ExcursionCoversExit
  /\ phase \in LivedPhases =>
       \A k \in HeldKeys : /\ positions[k].lowest <= BarOf(k).low
                           /\ BarOf(k).high <= positions[k].highest

\* observe() covers both prices it is given, and all it covered before.
LEMMA ObservedCovers ==
  ASSUME NEW p \in Positions, NEW h \in Int, NEW l \in Int
  PROVE  /\ Observed(p, h, l).lowest <= l /\ h <= Observed(p, h, l).highest
         /\ \A x \in Int : Covers(p, x) => Covers(Observed(p, h, l), x)
  BY DEF Observed, Positions, Covers

\* An intrabar exit has seen the level that triggered it.
LEMMA SeenCovers ==
  ASSUME NEW p \in Positions, bars \in [Symbols -> Bars], NEW k \in Keys
  PROVE  Covers(SeenByExit(p, BarOf(k), ProtectiveExit(p, BarOf(k))),
                ProtectiveExit(p, BarOf(k)).at)
<1> DEFINE hit     == ProtectiveExit(p, BarOf(k))
           opened  == Observed(p, BarOf(k).open, BarOf(k).open)
           leveled == Observed(opened, hit.at, hit.at)
           adverse == Worst(p.intent.dir, BarOf(k))
           lived   == Observed(leveled, adverse, adverse)
           seen    == SeenByExit(p, BarOf(k), hit)
<1>1. BarOf(k).open \in Int /\ adverse \in Int /\ hit.at \in Int
  BY BarTyped, HitTyped DEF Worst
<1>2. opened \in Positions
  BY <1>1, ObservedTyped
<1>3. leveled \in Positions /\ Covers(leveled, hit.at)
  <2> HIDE DEF opened, hit
  <2> QED BY <1>1, <1>2, ObservedTyped, ObservedCovers DEF Covers
<1>4. Covers(lived, hit.at)
  <2> HIDE DEF leveled, adverse, hit
  <2> QED BY <1>1, <1>3, ObservedCovers
<1>5. seen = lived \/ seen = leveled
  BY DEF SeenByExit
<1>6. Covers(seen, hit.at)
  <2> HIDE DEF seen, lived, leveled, hit
  <2> QED BY <1>3, <1>4, <1>5
<1> QED BY <1>6

\* A close at a price the position has seen adds a trade whose excursion covers
\* the price before slippage.
LEMMA CloseCovers ==
  ASSUME AccountInv, ExcursionCoversExit, NEW k \in HeldKeys, NEW p \in Positions,
         SameEntry(p, positions[k]), NEW ref \in Int, NEW ts, NEW reason,
         SettleOut(p, ref, ts, reason), Covers(p, ref)
  PROVE  /\ ExcursionCoversExit'
         /\ positions' = [positions EXCEPT ![k] = None]
<1> DEFINE t == [ordinal |-> tradeOrdinal, position |-> p, exit |-> ExitFill(p.intent.dir, ref),
                 exitTs |-> ts, net |-> GrossPnl(p, ExitFill(p.intent.dir, ref)) - (p.fee + Charge(p.qty)),
                 reason |-> reason]
<1>1. p.intent.key = k
  BY HeldPosition DEF SameEntry
<1>2. trades' = trades \cup {t} /\ positions' = [positions EXCEPT ![k] = None]
  BY <1>1 DEF SettleOut, Close
<1>3. RawExit(t) = ref /\ t.position = p
  BY AccountAssumption DEF RawExit, ExitFill
<1> HIDE DEF t
<1>4. ExcursionCoversExit'
  BY <1>2, <1>3 DEF ExcursionCoversExit, Covers, RawExit
<1> QED BY <1>2, <1>4

\* What an empty seat leaves of the positions that lived through the bar.
LEMMA LivedKept ==
  ASSUME Excursions, ExcursionCoversExit', phase' \in LivedPhases => phase \in LivedPhases,
         bars' = bars, \A k \in HeldKeys' : k \in HeldKeys /\ positions'[k] = positions[k]
  PROVE  Excursions'
  BY DEF Excursions, BarOf

\* The close lies within the bar, and so within what a survivor has lived through.
LEMMA LivedCovers ==
  ASSUME IInv, Excursions, phase \in LivedPhases, NEW k \in HeldKeys
  PROVE  Covers(positions[k], BarOf(k).close)
<1>1. BarOf(k) \in Bars /\ positions[k] \in Positions
  BY BarTyped, HeldPosition DEF IInv, RunOK
<1>2. /\ BarOf(k).low \in Int /\ BarOf(k).high \in Int /\ BarOf(k).close \in Int
      /\ BarOf(k).low <= BarOf(k).close /\ BarOf(k).close <= BarOf(k).high
  BY <1>1, EnvironmentAssumption
<1>3. positions[k].lowest \in Int /\ positions[k].highest \in Int
  BY <1>1 DEF Positions
<1> QED BY <1>2, <1>3 DEF Excursions, Covers

\* A position that leaves has seen the price it leaves at, whichever step closes it.
LEMMA ExcursionsExit ==
  ASSUME IInv, Excursions, NEW k \in Keys, GapExit(k) \/ Protect(k) \/ Liquidate(k)
  PROVE  Excursions'
<1> DEFINE q == positions[k]
           hit == ProtectiveExit(q, BarOf(k))
<1>1. /\ k \in HeldKeys /\ q \in Positions /\ AccountInv /\ bars \in [Symbols -> Bars]
      /\ phase \in {"gap", "protect", "liquidate"} /\ phase' = phase /\ bars' = bars
      /\ positions \in [Keys -> Positions \cup {None}]
  BY HeldPosition DEF GapExit, Protect, Liquidate, NextPosition, FirstOf, IInv, Visiting,
       AccountInv, AccountOK, RunOK
<1>2. hit.at \in Int /\ BarOf(k).close \in Int
  BY <1>1, HitTyped, BarTyped
<1>3. \/ UNCHANGED ledgerVars
      \/ \E p \in Positions, ref \in Int : \E ts, reason :
           SameEntry(p, q) /\ Covers(p, ref) /\ SettleOut(p, ref, ts, reason)
  <2>1. CASE GapExit(k)
    <3> DEFINE p == Observed(q, hit.at, hit.at)
    <3>1. p \in Positions /\ SameEntry(p, q) /\ Covers(p, hit.at)
      <4> HIDE DEF hit, q
      <4> QED BY <1>1, <1>2, ObservedTyped, ObservedSame, ObservedCovers DEF Covers
    <3>2. UNCHANGED ledgerVars \/ SettleOut(p, hit.at, OpenTs[now], hit.reason)
      BY <2>1 DEF GapExit
    <3> HIDE DEF p, hit, q
    <3> QED BY <1>2, <3>1, <3>2
  <2>2. CASE Protect(k)
    <3> DEFINE p == SeenByExit(q, BarOf(k), hit)
    <3>1. p \in Positions /\ SameEntry(p, q) /\ Covers(p, hit.at)
      BY <1>1, SeenTyped, SeenCovers
    <3>2. UNCHANGED ledgerVars \/ SettleOut(p, hit.at, CloseTs[now], hit.reason)
      BY <2>2 DEF Protect
    <3> HIDE DEF p, hit, q
    <3> QED BY <1>2, <3>1, <3>2
  <2>3. CASE Liquidate(k)
    <3>1. SameEntry(q, q) /\ Covers(q, BarOf(k).close)
      BY <1>1, <2>3, LivedCovers DEF Liquidate, LivedPhases, SameEntry
    <3>2. SettleOut(q, BarOf(k).close, TestEnd, "end_of_window")
      BY <2>3 DEF Liquidate
    <3> HIDE DEF hit, q
    <3> QED BY <1>1, <1>2, <3>1, <3>2
  <2> QED BY <2>1, <2>2, <2>3
<1> HIDE DEF hit
<1>4. CASE UNCHANGED ledgerVars
  BY <1>1, <1>4, LivedKept DEF ledgerVars, Excursions, ExcursionCoversExit, HeldKeys, RawExit
<1>5. ASSUME NEW p \in Positions, NEW ref \in Int, NEW ts, NEW reason,
             SameEntry(p, q), Covers(p, ref), SettleOut(p, ref, ts, reason)
      PROVE  Excursions'
  <2>1. ExcursionCoversExit' /\ positions' = [positions EXCEPT ![k] = None]
    BY <1>1, <1>5, CloseCovers DEF Excursions
  <2>2. \A j \in HeldKeys' : j \in HeldKeys /\ positions'[j] = positions[j]
    BY <1>1, <2>1 DEF HeldKeys
  <2> QED BY <1>1, <2>1, <2>2, LivedKept
<1> QED BY <1>3, <1>4, <1>5

\* manage() may move a position's levels before it closes it; what the position
\* has seen stays.
LEMMA ExcursionsManage ==
  ASSUME IInv, Excursions, NEW k \in Keys, NEW d \in Decisions, Manage(k, d)
  PROVE  Excursions'
<1> DEFINE p == Adjusted(positions[k], d.stop, d.target)
<1>1. /\ k \in HeldKeys /\ positions[k] \in Positions /\ AccountInv
      /\ phase = "manage" /\ phase' = "manage" /\ bars' = bars
      /\ positions \in [Keys -> Positions \cup {None}] /\ BarOf(k).close \in Int
  BY HeldPosition, BarTyped DEF Manage, NextPosition, FirstOf, IInv, Visiting, AccountInv, AccountOK,
       RunOK
<1>2. /\ p \in Positions /\ SameEntry(p, positions[k])
      /\ p.lowest = positions[k].lowest /\ p.highest = positions[k].highest
  <2>1. p \in Positions
    BY <1>1, AdjustedTyped
  <2>2. SameEntry(p, positions[k])
    BY <1>1, AdjustedSame
  <2>3. p.lowest = positions[k].lowest /\ p.highest = positions[k].highest
    BY <1>1 DEF Adjusted, Positions
  <2> QED BY <2>1, <2>2, <2>3
<1>3. Covers(p, BarOf(k).close)
  BY <1>1, <1>2, LivedCovers DEF Covers, LivedPhases
<1>4. \/ SettleOut(p, BarOf(k).close, CloseTs[now], "manage")
      \/ positions' = [positions EXCEPT ![k] = p] /\ trades' = trades
  BY DEF Manage
<1> HIDE DEF p
<1>5. CASE SettleOut(p, BarOf(k).close, CloseTs[now], "manage")
  <2>1. ExcursionCoversExit' /\ positions' = [positions EXCEPT ![k] = None]
    BY <1>1, <1>2, <1>3, <1>5, CloseCovers DEF Excursions
  <2>2. \A j \in HeldKeys' : j \in HeldKeys /\ positions'[j] = positions[j]
    BY <1>1, <2>1 DEF HeldKeys
  <2> QED BY <1>1, <2>1, <2>2, LivedKept DEF LivedPhases
<1>6. CASE positions' = [positions EXCEPT ![k] = p] /\ trades' = trades
  <2>1. \A j \in HeldKeys' : /\ j \in HeldKeys
                             /\ positions'[j].lowest = positions[j].lowest
                             /\ positions'[j].highest = positions[j].highest
    BY <1>1, <1>2, <1>6 DEF HeldKeys
  <2>2. ExcursionCoversExit'
    BY <1>6 DEF Excursions, ExcursionCoversExit, RawExit
  <2> QED BY <1>1, <2>1, <2>2 DEF Excursions, LivedPhases, BarOf
<1> QED BY <1>4, <1>5, <1>6

\* Step 8 shows every survivor its whole bar.
LEMMA ExcursionsObserve == ASSUME IInv, Excursions, ObserveSurvivors PROVE Excursions'
<1>1. /\ phase' = "manage" /\ bars' = bars /\ trades' = trades
      /\ \A k \in Keys : positions'[k] = IF positions[k] = None THEN None
                                         ELSE Observed(positions[k], BarOf(k).high, BarOf(k).low)
  BY DEF ObserveSurvivors
<1>2. ASSUME NEW k \in HeldKeys'
      PROVE  positions'[k].lowest <= BarOf(k).low /\ BarOf(k).high <= positions'[k].highest
  <2>1. k \in HeldKeys /\ positions'[k] = Observed(positions[k], BarOf(k).high, BarOf(k).low)
    BY <1>1, <1>2 DEF HeldKeys
  <2>2. positions[k] \in Positions /\ BarOf(k).high \in Int /\ BarOf(k).low \in Int
    BY <2>1, HeldPosition, BarTyped DEF IInv, RunOK
  <2> QED BY <2>1, <2>2, ObservedCovers
<1>3. ExcursionCoversExit'
  BY <1>1 DEF Excursions, ExcursionCoversExit, RawExit
<1> QED BY <1>1, <1>2, <1>3 DEF Excursions, BarOf

\* Every step of the chronology keeps the excursions.
LEMMA ExcursionsNext == IInv /\ Excursions /\ [Next]_vars => Excursions'
<1> SUFFICES ASSUME IInv, Excursions, [Next]_vars PROVE Excursions'
  OBVIOUS
<1>1. \/ \E k \in Keys : GapExit(k) \/ Protect(k) \/ Liquidate(k)
      \/ \E k \in Keys, d \in Decisions : Manage(k, d)
      \/ ObserveSurvivors
      \/ trades' = trades /\ phase' \notin LivedPhases
      \/ /\ UNCHANGED <<trades, positions, bars>>
         /\ phase' \in LivedPhases => phase \in LivedPhases
  <2>1. CASE CloseMark \/ FinishStep
    BY <2>1 DEF CloseMark, FinishStep, ledgerVars, LivedPhases
  <2>2. CASE OpeningMark \/ SettleAtOpen \/ Freeze \/ FinalMark \/ AbortAtMark
    BY <2>2 DEF OpeningMark, SettleAtOpen, SettleDue, Freeze, FinalMark, AbortAtMark, Abort,
         ledgerVars, LivedPhases
  <2>3. CASE Finished \/ UNCHANGED vars
    BY <2>3 DEF Finished, vars, runVars, ledgerVars, LivedPhases
  <2>4. ASSUME NEW k \in Keys, Fund(k) \/ Fill(k) \/ AbortAtFill(k)
        PROVE  trades' = trades /\ phase' \notin LivedPhases
    BY <2>4 DEF Fund, Reserve, Reject, Fill, Open, AbortAtFill, Abort, ledgerVars, LivedPhases
  <2>5. ASSUME NEW k \in Keys, NEW s \in SignalShapes, RecordSignal(k, s)
        PROVE  /\ UNCHANGED <<trades, positions, bars>>
               /\ phase' \in LivedPhases => phase \in LivedPhases
    BY <2>5 DEF RecordSignal, Reject, ledgerVars, LivedPhases
  <2>6. ASSUME NEW k \in Keys, Evaluated(k) \/ Expire(k)
        PROVE  /\ UNCHANGED <<trades, positions, bars>>
               /\ phase' \in LivedPhases => phase \in LivedPhases
    BY <2>6 DEF Evaluated, Expire, Reject, ledgerVars, LivedPhases
  <2> QED BY <2>1, <2>2, <2>3, <2>4, <2>5, <2>6 DEF Next
<1>2. CASE trades' = trades /\ phase' \notin LivedPhases
  BY <1>2 DEF Excursions, ExcursionCoversExit, RawExit
<1>3. CASE /\ UNCHANGED <<trades, positions, bars>>
           /\ phase' \in LivedPhases => phase \in LivedPhases
  BY <1>3, LivedKept DEF Excursions, ExcursionCoversExit, RawExit, HeldKeys
<1> QED BY <1>1, <1>2, <1>3, ExcursionsExit, ExcursionsManage, ExcursionsObserve

\* Every trade's excursion covers the price it left at: through the gap that
\* opens beyond a level, the intrabar exit that has not seen the whole bar, the
\* close manage() asks for and the window's end.
THEOREM ExcursionsCovered == Spec => []ExcursionCoversExit
<1>1. Init => Excursions
  BY DEF Init, LedgerInit, Excursions, ExcursionCoversExit, LivedPhases
<1>2. Excursions => ExcursionCoversExit
  BY DEF Excursions
<1> QED BY <1>1, <1>2, ExcursionsNext, Inductive, PTL DEF Spec

-----------------------------------------------------------------------------
(* What a finished replay reports: the rows, the marks and the ordinals the *)
(* result types may still refuse.                                          *)

\* A position its trade row will accept.
RowReady(p) ==
  /\ p.intent.ts <= p.entryTs
  /\ p.qty > 0 /\ p.entry > 0
  /\ p.intent.stop > 0 /\ p.stop > 0 /\ p.intent.target > 0 /\ p.target > 0
  /\ Brackets(p.intent.dir, p.entry, p.intent.stop, p.intent.target)

\* A reservation that will fill into one.
FillReady(p) ==
  /\ p.intent.ts <= OpenTs[now]
  /\ p.qty > 0 /\ p.fill > 0
  /\ p.intent.stop > 0 /\ p.intent.target > 0
  /\ Brackets(p.intent.dir, p.fill, p.intent.stop, p.intent.target)

\* A seated intent that may be reserved: decided before the open it waits for.
SeatReady(i) ==
  /\ i.stop > 0 /\ i.target > 0
  /\ phase \in {"settle", "freeze", "gap", "fund", "fill"} => i.ts <= OpenTs[now]

\* Every row recorded is acceptable and every one to come will be; past the last
\* close mark every open position has a price it can be liquidated at.
RowsAccepted ==
  /\ \A k \in PendingKeys : SeatReady(pending[k])
  /\ \A k \in ReservedKeys : FillReady(reserved[k])
  /\ \A k \in HeldKeys : RowReady(positions[k])
  /\ \A t \in trades : TradeAccepted(t)
  /\ \A r \in rejections : RejectionAccepted(r)
  /\ phase \in {"expire", "liquidate"} =>
       \A k \in HeldKeys : ExitFill(positions[k].intent.dir, BarOf(k).close) > 0

\* Observing keeps a position ready, and so does adjusting it to a price.
LEMMA ReadyKept ==
  ASSUME NEW p \in Positions, RowReady(p)
  PROVE  /\ \A h, l \in Int : RowReady(Observed(p, h, l))
         /\ \A d \in Decisions : RowReady(Adjusted(p, d.stop, d.target))
<1>1. \A h, l \in Int : RowReady(Observed(p, h, l))
  BY DEF RowReady, Observed, Positions
<1>2. ASSUME NEW d \in Decisions PROVE RowReady(Adjusted(p, d.stop, d.target))
  <2>1. (d.stop # None => d.stop > 0) /\ (d.target # None => d.target > 0)
    BY EnvironmentAssumption
  <2> QED BY <2>1 DEF RowReady, Adjusted, Positions
<1> QED BY <1>1, <1>2

\* So is what an intrabar exit has seen.
LEMMA SeenReady ==
  ASSUME NEW p \in Positions, RowReady(p), bars \in [Symbols -> Bars], NEW k \in Keys
  PROVE  RowReady(SeenByExit(p, BarOf(k), ProtectiveExit(p, BarOf(k))))
<1> DEFINE hit     == ProtectiveExit(p, BarOf(k))
           opened  == Observed(p, BarOf(k).open, BarOf(k).open)
           leveled == Observed(opened, hit.at, hit.at)
           adverse == Worst(p.intent.dir, BarOf(k))
           lived   == Observed(leveled, adverse, adverse)
           seen    == SeenByExit(p, BarOf(k), hit)
<1>1. BarOf(k).open \in Int /\ adverse \in Int /\ hit.at \in Int
  BY BarTyped, HitTyped DEF Worst
<1>2. opened \in Positions /\ RowReady(opened)
  BY <1>1, ObservedTyped, ReadyKept
<1>3. leveled \in Positions /\ RowReady(leveled)
  <2> HIDE DEF opened, hit
  <2> QED BY <1>1, <1>2, ObservedTyped, ReadyKept
<1>4. RowReady(lived)
  <2> HIDE DEF leveled, adverse
  <2> QED BY <1>1, <1>3, ReadyKept
<1>5. seen = lived \/ seen = leveled
  BY DEF SeenByExit
<1>6. RowReady(seen)
  <2> HIDE DEF seen, lived, leveled
  <2> QED BY <1>3, <1>4, <1>5
<1> QED BY <1>6

\* A position that leaves at a positive price leaves an acceptable row.
LEMMA RowsClose ==
  ASSUME IInv, RowsAccepted, NEW k \in HeldKeys, NEW p \in Positions,
         SameEntry(p, positions[k]), RowReady(p), NEW ref \in Int, NEW ts \in Nat, NEW reason,
         SettleOut(p, ref, ts, reason), ExitFill(p.intent.dir, ref) > 0,
         UNCHANGED <<phase, now, bars, pending>>
  PROVE  RowsAccepted'
<1> DEFINE t == [ordinal |-> tradeOrdinal, position |-> p, exit |-> ExitFill(p.intent.dir, ref),
                 exitTs |-> ts, net |-> GrossPnl(p, ExitFill(p.intent.dir, ref)) - (p.fee + Charge(p.qty)),
                 reason |-> reason]
<1>1. p.intent.key = k
  BY HeldPosition DEF SameEntry, IInv
<1>2. /\ trades' = trades \cup {t} /\ positions' = [positions EXCEPT ![k] = None]
      /\ ts > p.entryTs /\ UNCHANGED <<reserved, rejections>>
  BY <1>1 DEF SettleOut, Close
<1>3. p.entryTs \in Nat
  BY DEF Positions
<1>4. TradeAccepted(t)
  BY <1>2, <1>3 DEF TradeAccepted, RowReady
<1> HIDE DEF t
<1>5. \A j \in HeldKeys' : j \in HeldKeys /\ positions'[j] = positions[j]
  BY <1>2 DEF HeldKeys, IInv, AccountInv, AccountOK
<1> QED BY <1>2, <1>4, <1>5 DEF RowsAccepted, PendingKeys, ReservedKeys, SeatReady, FillReady, BarOf

\* A step that records nothing, empties seats at most and keeps the positions
\* keeps the rows acceptable.
LEMMA RowsQuiet ==
  ASSUME RowsAccepted, UNCHANGED <<reserved, positions, trades, rejections, bars, now>>,
         \A k \in PendingKeys' : k \in PendingKeys /\ pending'[k] = pending[k],
         phase' \in {"settle", "freeze", "gap", "fund", "fill"} =>
           phase \in {"settle", "freeze", "gap", "fund", "fill"} \/ PendingKeys = {},
         phase' \in {"expire", "liquidate"} => phase \in {"expire", "liquidate"}
  PROVE  RowsAccepted'
  BY DEF RowsAccepted, SeatReady, FillReady, ReservedKeys, HeldKeys, BarOf

\* Steps 3 and 7 close only what is priced.
LEMMA RowsProtective ==
  ASSUME IInv, RowsAccepted, NEW k \in Keys, GapExit(k) \/ Protect(k)
  PROVE  RowsAccepted'
<1> DEFINE q == positions[k]
           hit == ProtectiveExit(q, BarOf(k))
<1>1. /\ k \in HeldKeys /\ q \in Positions /\ RowReady(q) /\ bars \in [Symbols -> Bars]
      /\ phase \notin {"expire", "liquidate"}
      /\ UNCHANGED <<phase, now, bars, pending>>
  BY HeldPosition DEF GapExit, Protect, NextPosition, FirstOf, IInv, Visiting, RowsAccepted, RunOK
<1>2. /\ hit.at \in Int /\ OpenTs[now] \in Nat /\ CloseTs[now] \in Nat
  BY <1>1, HitTyped, ClockTyped DEF IInv
<1>3. Priced(q, hit)
  BY DEF GapExit, Protect
<1>4. CASE GapExit(k)
  <2> DEFINE p == Observed(q, hit.at, hit.at)
  <2>1. p \in Positions /\ SameEntry(p, q) /\ RowReady(p) /\ p.intent.dir = q.intent.dir
    <3> HIDE DEF hit, q
    <3> QED BY <1>1, <1>2, ObservedTyped, ObservedSame, ReadyKept DEF SameEntry
  <2>2. \/ UNCHANGED ledgerVars
        \/ SettleOut(p, hit.at, OpenTs[now], hit.reason) /\ hit.reason # "none"
    BY <1>4 DEF GapExit, LeavesAtOpen, GapReasons
  <2> HIDE DEF p, hit
  <2>3. CASE UNCHANGED ledgerVars
    BY <1>1, <2>3, RowsQuiet DEF ledgerVars, PendingKeys
  <2>4. CASE SettleOut(p, hit.at, OpenTs[now], hit.reason) /\ hit.reason # "none"
    BY <1>1, <1>2, <1>3, <2>1, <2>4, RowsClose DEF Priced
  <2> QED BY <2>2, <2>3, <2>4
<1>5. CASE Protect(k)
  <2> DEFINE p == SeenByExit(q, BarOf(k), hit)
  <2>1. p \in Positions /\ SameEntry(p, q) /\ RowReady(p) /\ p.intent.dir = q.intent.dir
    BY <1>1, SeenTyped, SeenReady DEF SameEntry
  <2>2. \/ UNCHANGED ledgerVars
        \/ SettleOut(p, hit.at, CloseTs[now], hit.reason) /\ hit.reason # "none"
    BY <1>5 DEF Protect
  <2> HIDE DEF p, hit
  <2>3. CASE UNCHANGED ledgerVars
    BY <1>1, <2>3, RowsQuiet DEF ledgerVars, PendingKeys
  <2>4. CASE SettleOut(p, hit.at, CloseTs[now], hit.reason) /\ hit.reason # "none"
    BY <1>1, <1>2, <1>3, <2>1, <2>4, RowsClose DEF Priced
  <2> QED BY <2>2, <2>3, <2>4
<1> QED BY <1>4, <1>5

\* manage() closes at a price above zero, or adjusts to one.
LEMMA RowsManage ==
  ASSUME IInv, RowsAccepted, NEW k \in Keys, NEW d \in Decisions, Manage(k, d)
  PROVE  RowsAccepted'
<1> DEFINE q == positions[k]
           p == Adjusted(q, d.stop, d.target)
<1>1. /\ k \in HeldKeys /\ q \in Positions /\ RowReady(q) /\ bars \in [Symbols -> Bars]
      /\ phase = "manage" /\ positions \in [Keys -> Positions \cup {None}]
      /\ UNCHANGED <<phase, now, bars, pending>>
  BY HeldPosition DEF Manage, NextPosition, FirstOf, IInv, Visiting, RowsAccepted, RunOK, AccountInv, AccountOK
<1>2. BarOf(k).close \in Int /\ CloseTs[now] \in Nat
  BY <1>1, BarTyped, ClockTyped DEF IInv
<1>3. p \in Positions /\ SameEntry(p, q) /\ RowReady(p)
  BY <1>1, AdjustedTyped, AdjustedSame, ReadyKept
<1>4. \/ ExitFill(p.intent.dir, BarOf(k).close) > 0 /\ SettleOut(p, BarOf(k).close, CloseTs[now], "manage")
      \/ positions' = [positions EXCEPT ![k] = p] /\ UNCHANGED <<reserved, trades, rejections>>
  BY DEF Manage
<1> HIDE DEF p
<1>5. CASE ExitFill(p.intent.dir, BarOf(k).close) > 0 /\ SettleOut(p, BarOf(k).close, CloseTs[now], "manage")
  BY <1>1, <1>2, <1>3, <1>5, RowsClose
<1>6. CASE positions' = [positions EXCEPT ![k] = p] /\ UNCHANGED <<reserved, trades, rejections>>
  <2>1. \A j \in HeldKeys' : (j \in HeldKeys /\ positions'[j] = positions[j]) \/ positions'[j] = p
    BY <1>1, <1>6 DEF HeldKeys
  <2> QED BY <1>1, <1>3, <1>6, <2>1 DEF RowsAccepted, PendingKeys, ReservedKeys, SeatReady, FillReady
<1> QED BY <1>4, <1>5, <1>6

\* The last close mark priced what is liquidated.
LEMMA RowsLiquidate ==
  ASSUME IInv, RowsAccepted, NEW k \in Keys, Liquidate(k) PROVE RowsAccepted'
<1>1. /\ k \in HeldKeys /\ positions[k] \in Positions /\ phase = "liquidate"
      /\ UNCHANGED <<phase, now, bars, pending>>
      /\ SettleOut(positions[k], BarOf(k).close, TestEnd, "end_of_window")
  BY HeldPosition DEF Liquidate, NextPosition, FirstOf, IInv, Visiting
<1>2. BarOf(k).close \in Int /\ TestEnd \in Nat /\ SameEntry(positions[k], positions[k])
  BY <1>1, BarTyped, ClockTyped DEF IInv, RunOK, SameEntry
<1>3. RowReady(positions[k]) /\ ExitFill(positions[k].intent.dir, BarOf(k).close) > 0
  BY <1>1 DEF RowsAccepted
<1> QED BY <1>1, <1>2, <1>3, RowsClose

\* Step 8 changes nothing a row checks.
LEMMA RowsObserve == ASSUME IInv, RowsAccepted, ObserveSurvivors PROVE RowsAccepted'
<1>1. /\ phase' = "manage" /\ UNCHANGED <<reserved, trades, rejections, pending, now>>
      /\ \A k \in Keys : positions'[k] = IF positions[k] = None THEN None
                                         ELSE Observed(positions[k], BarOf(k).high, BarOf(k).low)
  BY DEF ObserveSurvivors
<1>2. ASSUME NEW k \in HeldKeys' PROVE RowReady(positions'[k])
  <2>1. k \in HeldKeys /\ positions'[k] = Observed(positions[k], BarOf(k).high, BarOf(k).low)
    BY <1>1 DEF HeldKeys
  <2>2. positions[k] \in Positions /\ RowReady(positions[k])
    BY <2>1, HeldPosition DEF IInv, RowsAccepted
  <2>3. BarOf(k).high \in Int /\ BarOf(k).low \in Int
    BY <2>1, BarTyped DEF IInv, RunOK, HeldKeys
  <2> QED BY <2>1, <2>2, <2>3, ReadyKept
<1> QED BY <1>1, <1>2 DEF RowsAccepted, PendingKeys, ReservedKeys, SeatReady, FillReady

\* The verdict accepts what a row will, and a refusal comes after the decision.
LEMMA RowsFund == ASSUME IInv, RowsAccepted, NEW k \in Keys, Fund(k) PROVE RowsAccepted'
<1> DEFINE p == ProposalFor(k)
<1>1. /\ phase = "fund" /\ k \in visit /\ k \in PendingKeys /\ Unseat(k) /\ RunOK /\ Visiting
      /\ phase' \in {"fund", "fill"} /\ UNCHANGED <<positions, trades, now, bars>>
      /\ SeatReady(pending[k])
  BY DEF Fund, NextIntent, FirstOf, IInv, Visiting, Reserve, Reject, RowsAccepted
<1>2. p.intent = pending[k] /\ p.intent.key = k /\ p.fill > 0
  BY <1>1, PendingIntent DEF ProposalFor, Propose, Fund
<1>3. PendingKeys' = PendingKeys \ {k} /\ \A j \in PendingKeys' : pending'[j] = pending[j]
  BY <1>1, UnseatPending
<1>4. \A j \in PendingKeys' : SeatReady(pending[j])'
  BY <1>1, <1>3 DEF RowsAccepted, SeatReady
<1> HIDE DEF p
<1>5. CASE Verdict(p) = "accepted"
  <2>1. reserved' = [reserved EXCEPT ![k] = p] /\ UNCHANGED rejections
    BY <1>2, <1>5 DEF Fund, Reserve, p
  <2>2. ~ (p.qty <= 0) /\ Brackets(p.intent.dir, p.fill, p.intent.stop, p.intent.target)
    BY <1>5 DEF Verdict
  <2>3. p.qty \in Int
    <3>1. pending[k] \in Intents /\ BarOf(k).open \in Int /\ frozen \in Int
      BY <1>1, PendingIntent, BarTyped DEF RunOK
    <3>2. p \in Proposals
      BY <3>1, ProposalTyped DEF p, ProposalFor
    <3> QED BY <3>2 DEF Proposals
  <2>4. FillReady(p)
    BY <1>1, <1>2, <2>2, <2>3 DEF FillReady, SeatReady
  <2>5. \A j \in ReservedKeys' : (j \in ReservedKeys /\ reserved'[j] = reserved[j]) \/ reserved'[j] = p
    BY <2>1 DEF ReservedKeys, IInv, AccountInv, AccountOK
  <2> QED BY <1>1, <1>4, <2>1, <2>4, <2>5 DEF RowsAccepted, HeldKeys, FillReady
<1>6. CASE Verdict(p) # "accepted"
  <2>1. Reject(pending[k], Verdict(p), OpenTs[now])
    BY <1>6 DEF Fund, p
  <2>2. UNCHANGED reserved /\ \A r \in rejections' : r \in rejections \/ RejectionAccepted(r)
    BY <1>1, <2>1 DEF Reject, RejectionAccepted, SeatReady
  <2> QED BY <1>1, <1>4, <2>2 DEF RowsAccepted, HeldKeys, ReservedKeys, FillReady
<1> QED BY <1>5, <1>6

\* A reservation fills into a position its row will accept.
LEMMA RowsFill == ASSUME IInv, RowsAccepted, NEW k \in Keys, Fill(k) PROVE RowsAccepted'
<1>1. /\ k \in ReservedKeys /\ reserved[k].intent.key = k /\ phase = "fill" /\ phase' = "fund"
      /\ UNCHANGED <<pending, trades, rejections, now, bars>> /\ FillReady(reserved[k])
  BY DEF Fill, Open, ReservedKeys, IInv, AccountInv, Booked, RowsAccepted
<1>2. reserved' = [reserved EXCEPT ![k] = None]
  BY <1>1 DEF Fill, Open
<1>3. /\ \A j \in Keys \ {k} : positions'[j] = positions[j]
      /\ positions'[k].intent = reserved[k].intent /\ positions'[k].qty = reserved[k].qty
      /\ positions'[k].entryTs = OpenTs[now] /\ positions'[k].entry = reserved[k].fill
      /\ positions'[k].stop = reserved[k].intent.stop /\ positions'[k].target = reserved[k].intent.target
  BY <1>1 DEF Fill, Open, IInv, AccountInv, AccountOK
<1>4. \A j \in HeldKeys' : RowReady(positions'[j])
  BY <1>1, <1>3 DEF RowsAccepted, HeldKeys, RowReady, FillReady
<1>5. \A j \in ReservedKeys' : j \in ReservedKeys /\ reserved'[j] = reserved[j]
  BY <1>2 DEF ReservedKeys, IInv, AccountInv, AccountOK
<1> QED BY <1>1, <1>4, <1>5 DEF RowsAccepted, PendingKeys, SeatReady, FillReady

\* A signal is priced when it is decided, and refused no earlier.
LEMMA RowsRecord ==
  ASSUME IInv, RowsAccepted, NEW k \in Keys, NEW s \in SignalShapes, RecordSignal(k, s)
  PROVE  RowsAccepted'
<1> DEFINE i == IntentFrom(k, s)
<1>1. /\ phase' = phase /\ phase = "evaluate" /\ UNCHANGED <<reserved, positions, trades, now, bars>>
      /\ pending \in [Keys -> Intents \cup {None}]
  BY DEF RecordSignal, Reject, ledgerVars, IInv, RunOK
<1>2. i.stop > 0 /\ i.target > 0 /\ i.ts = CloseTs[now] /\ CloseTs[now] \in Nat
  BY EnvironmentAssumption, ClockTyped DEF IntentFrom, IInv
<1>3. \/ pending' = pending \/ pending' = [pending EXCEPT ![k] = i]
  BY DEF RecordSignal
<1>4. \/ UNCHANGED rejections
      \/ \E reason : Reject(i, reason, CloseTs[now])
  BY DEF RecordSignal, ledgerVars
<1> HIDE DEF i
<1>5. \A r \in rejections' : r \in rejections \/ RejectionAccepted(r)
  BY <1>2, <1>4 DEF Reject, RejectionAccepted
<1>6. \A j \in PendingKeys' : (j \in PendingKeys /\ pending'[j] = pending[j]) \/ pending'[j] = i
  BY <1>1, <1>3 DEF PendingKeys
<1> QED BY <1>1, <1>2, <1>5, <1>6 DEF RowsAccepted, SeatReady, FillReady, ReservedKeys, HeldKeys

\* What expires was decided at the window's last close.
LEMMA RowsExpire ==
  ASSUME IInv, SignalInv, Punctual, RowsAccepted, NEW k \in Keys, Expire(k) PROVE RowsAccepted'
<1>1. /\ phase = "expire" /\ k \in PendingKeys /\ Unseat(k) /\ RunOK
      /\ UNCHANGED <<reserved, positions, trades, phase, now, bars>>
      /\ Reject(pending[k], "window_ended", TestEnd)
  BY DEF Expire, NextIntent, FirstOf, IInv, Visiting, Reject
<1>2. pending[k].ts = TestEnd /\ TestEnd \in Nat
  BY <1>1, ClockTyped DEF SignalInv, SeatsAreCurrent, Punctual, TestEnd
<1>3. \A r \in rejections' : r \in rejections \/ RejectionAccepted(r)
  BY <1>1, <1>2 DEF Reject, RejectionAccepted
<1>4. \A j \in PendingKeys' : j \in PendingKeys /\ pending'[j] = pending[j]
  BY <1>1, UnseatPending
<1> QED BY <1>1, <1>3, <1>4 DEF RowsAccepted, SeatReady, FillReady, ReservedKeys, HeldKeys, BarOf

\* The close mark prices every open position; the next open is later than what
\* this close decided.
LEMMA RowsCloseMark ==
  ASSUME IInv, SignalInv, RowsAccepted, CloseMark PROVE RowsAccepted'
<1>1. /\ UNCHANGED <<reserved, positions, trades, rejections, pending>> /\ phase = "mark"
      /\ ReservedKeys = {} /\ ReservedKeys' = {} /\ HeldKeys' = HeldKeys /\ PendingKeys' = PendingKeys
  BY DEF CloseMark, ledgerVars, IInv, Visiting, ReservedKeys, HeldKeys, PendingKeys
<1>2. CASE now < NTest /\ now' = now + 1 /\ phase' = "settle"
  <2>1. \A k \in PendingKeys : pending[k].ts <= OpenTs[now + 1]
    BY <1>1, <1>2, NextOpen DEF SignalInv, SeatsAreCurrent, IInv
  <2> QED BY <1>1, <1>2, <2>1 DEF RowsAccepted, SeatReady
<1>3. CASE phase' = "expire" /\ UNCHANGED <<now, bars>>
  <2>1. \A k \in HeldKeys : ExitFill(positions[k].intent.dir, BarOf(k).close) > 0
    <3> TAKE k \in HeldKeys
    <3>1. ~ (ExitFill(positions[k].intent.dir, ClosePrices[SymbolOf(k)]) <= 0)
      BY DEF CloseMark, Mark, SnapshotRefusal
    <3>2. ClosePrices[SymbolOf(k)] = BarOf(k).close /\ BarOf(k).close \in Int
      BY KeyParts, BarTyped DEF ClosePrices, BarOf, HeldKeys, IInv, RunOK
    <3>3. ExitFill(positions[k].intent.dir, BarOf(k).close) \in Int
      BY <3>2, AccountAssumption DEF ExitFill
    <3> QED BY <3>1, <3>2, <3>3
  <2> QED BY <1>1, <1>3, <2>1 DEF RowsAccepted, SeatReady, BarOf
<1> QED BY <1>2, <1>3 DEF CloseMark

\* Every step of the chronology keeps the rows acceptable.
LEMMA RowsNext ==
  IInv /\ SignalInv /\ Punctual /\ RowsAccepted /\ [Next]_vars => RowsAccepted'
<1> SUFFICES ASSUME IInv, SignalInv, Punctual, RowsAccepted, [Next]_vars PROVE RowsAccepted'
  OBVIOUS
<1>1. ASSUME \/ OpeningMark \/ SettleAtOpen \/ Freeze \/ FinishStep \/ FinalMark
             \/ AbortAtMark \/ Finished \/ (\E k \in Keys : Evaluated(k) \/ AbortAtFill(k))
             \/ UNCHANGED vars
      PROVE  RowsAccepted'
  <2>1. UNCHANGED <<reserved, positions, trades, rejections, bars, now, pending>>
    BY <1>1 DEF OpeningMark, SettleAtOpen, SettleDue, Freeze, FinishStep, FinalMark,
         AbortAtMark, Abort, Finished, Evaluated, AbortAtFill, ledgerVars, vars, runVars
  <2>2. /\ phase' \in {"settle", "freeze", "gap", "fund", "fill"} =>
             phase \in {"anchor", "settle", "freeze", "gap", "fund", "fill"}
        /\ phase' \in {"expire", "liquidate"} => phase \in {"expire", "liquidate"}
    BY <1>1 DEF OpeningMark, SettleAtOpen, Freeze, FinishStep, FinalMark,
         AbortAtMark, Abort, Finished, Evaluated, AbortAtFill, vars, runVars
  <2>3. phase = "anchor" => PendingKeys = {}
    BY DEF SignalInv, SeatsAreCurrent
  <2> QED BY <2>1, <2>2, <2>3, RowsQuiet DEF PendingKeys
<1> QED BY <1>1, RowsObserve, RowsProtective, RowsManage, RowsLiquidate, RowsFund, RowsFill,
           RowsRecord, RowsExpire, RowsCloseMark DEF Next

-----------------------------------------------------------------------------
(* The ordinals of the recorded events. *)

\* n events numbered from zero.
Counted(rows, n) ==
  IsFiniteSet(rows) /\ Cardinality(rows) = n /\ {r.ordinal : r \in rows} = 0..(n - 1)

Numbered == Counted(trades, tradeOrdinal) /\ Counted(rejections, rejectionOrdinal)

\* One more event takes the next ordinal.
LEMMA CountOne ==
  ASSUME NEW S, NEW n \in Nat, Counted(S, n), NEW x, x.ordinal = n
  PROVE  Counted(S \cup {x}, n + 1)
<1>1. \A y \in S : y.ordinal \in 0..(n - 1)
  BY DEF Counted
<1>2. x \notin S
  BY <1>1
<1>3. IsFiniteSet(S \cup {x}) /\ Cardinality(S \cup {x}) = n + 1
  BY <1>2, FS_AddElement DEF Counted
<1>4. {y.ordinal : y \in S \cup {x}} = {y.ordinal : y \in S} \cup {n}
  OBVIOUS
<1>5. 0..(n - 1) \cup {n} = 0..((n + 1) - 1)
  OBVIOUS
<1> QED BY <1>3, <1>4, <1>5 DEF Counted

\* A step issues no event, or one trade, or one rejection.
LEMMA EventStep ==
  ASSUME [Next]_vars
  PROVE  /\ \/ UNCHANGED <<trades, tradeOrdinal>>
            \/ \E t : t.ordinal = tradeOrdinal /\ trades' = trades \cup {t} /\ tradeOrdinal' = tradeOrdinal + 1
         /\ \/ UNCHANGED <<rejections, rejectionOrdinal>>
            \/ \E r : r.ordinal = rejectionOrdinal /\ rejections' = rejections \cup {r}
                        /\ rejectionOrdinal' = rejectionOrdinal + 1
<1> DEFINE Traded == \E t : t.ordinal = tradeOrdinal /\ trades' = trades \cup {t} /\ tradeOrdinal' = tradeOrdinal + 1
           Refused == \E r : r.ordinal = rejectionOrdinal /\ rejections' = rejections \cup {r}
                               /\ rejectionOrdinal' = rejectionOrdinal + 1
<1>1. \A p, ref, ts, reason : SettleOut(p, ref, ts, reason) => Traded /\ UNCHANGED <<rejections, rejectionOrdinal>>
  BY DEF SettleOut, Close
<1>2. \A i, reason, ts : Reject(i, reason, ts) => Refused /\ UNCHANGED <<trades, tradeOrdinal>>
  BY DEF Reject
<1> HIDE DEF Traded, Refused
<1>3. ASSUME NEW k \in Keys, GapExit(k) \/ Protect(k) \/ Liquidate(k) \/ \E d \in Decisions : Manage(k, d)
      PROVE  Traded \/ UNCHANGED <<trades, tradeOrdinal>>
  BY <1>1, <1>3 DEF GapExit, Protect, Liquidate, Manage, ledgerVars
<1>4. ASSUME NEW k \in Keys, GapExit(k) \/ Protect(k) \/ Liquidate(k) \/ \E d \in Decisions : Manage(k, d)
      PROVE  UNCHANGED <<rejections, rejectionOrdinal>>
  BY <1>1, <1>4 DEF GapExit, Protect, Liquidate, Manage, ledgerVars
<1>5. ASSUME NEW k \in Keys, Fund(k) \/ Expire(k) \/ \E s \in SignalShapes : RecordSignal(k, s)
      PROVE  Refused \/ UNCHANGED <<rejections, rejectionOrdinal>>
  BY <1>2, <1>5 DEF Fund, Expire, RecordSignal, Reserve, ledgerVars
<1>6. ASSUME NEW k \in Keys, Fund(k) \/ Expire(k) \/ \E s \in SignalShapes : RecordSignal(k, s)
      PROVE  UNCHANGED <<trades, tradeOrdinal>>
  BY <1>2, <1>6 DEF Fund, Expire, RecordSignal, Reserve, ledgerVars
<1>7. ASSUME \/ OpeningMark \/ SettleAtOpen \/ Freeze \/ ObserveSurvivors \/ FinishStep \/ CloseMark \/ FinalMark
             \/ AbortAtMark \/ Finished \/ (\E k \in Keys : Fill(k) \/ Evaluated(k) \/ AbortAtFill(k))
             \/ UNCHANGED vars
      PROVE  UNCHANGED <<trades, tradeOrdinal, rejections, rejectionOrdinal>>
  BY <1>7 DEF OpeningMark, SettleAtOpen, SettleDue, Freeze, ObserveSurvivors, FinishStep, CloseMark,
       FinalMark, AbortAtMark, Abort, Finished, Fill, Open, Evaluated, AbortAtFill, ledgerVars, vars, runVars
<1>8. \/ /\ Traded \/ UNCHANGED <<trades, tradeOrdinal>>
         /\ UNCHANGED <<rejections, rejectionOrdinal>>
      \/ /\ Refused \/ UNCHANGED <<rejections, rejectionOrdinal>>
         /\ UNCHANGED <<trades, tradeOrdinal>>
  BY <1>3, <1>4, <1>5, <1>6, <1>7 DEF Next
<1> QED BY <1>8 DEF Traded, Refused

\* Every step of the chronology numbers what it records.
LEMMA NumberedNext == IInv /\ Numbered /\ [Next]_vars => Numbered'
<1> SUFFICES ASSUME IInv, Numbered, [Next]_vars PROVE Numbered'
  OBVIOUS
<1>1. tradeOrdinal \in Nat /\ rejectionOrdinal \in Nat
  BY DEF IInv, AccountInv, AccountOK
<1>2. Counted(trades, tradeOrdinal)'
  <2>1. CASE UNCHANGED <<trades, tradeOrdinal>>
    BY <2>1 DEF Numbered, Counted
  <2>2. CASE \E t : t.ordinal = tradeOrdinal /\ trades' = trades \cup {t} /\ tradeOrdinal' = tradeOrdinal + 1
    <3>1. PICK t : t.ordinal = tradeOrdinal /\ trades' = trades \cup {t} /\ tradeOrdinal' = tradeOrdinal + 1
      BY <2>2
    <3>2. Counted(trades \cup {t}, tradeOrdinal + 1)
      BY <1>1, <3>1, CountOne DEF Numbered
    <3> QED BY <3>1, <3>2
  <2> QED BY <2>1, <2>2, EventStep
<1>3. Counted(rejections, rejectionOrdinal)'
  <2>1. CASE UNCHANGED <<rejections, rejectionOrdinal>>
    BY <2>1 DEF Numbered, Counted
  <2>2. CASE \E r : r.ordinal = rejectionOrdinal /\ rejections' = rejections \cup {r}
                      /\ rejectionOrdinal' = rejectionOrdinal + 1
    <3>1. PICK r : r.ordinal = rejectionOrdinal /\ rejections' = rejections \cup {r}
                     /\ rejectionOrdinal' = rejectionOrdinal + 1
      BY <2>2
    <3>2. Counted(rejections \cup {r}, rejectionOrdinal + 1)
      BY <1>1, <3>1, CountOne DEF Numbered
    <3> QED BY <3>1, <3>2
  <2> QED BY <2>1, <2>2, EventStep
<1> QED BY <1>2, <1>3 DEF Numbered

-----------------------------------------------------------------------------
(* The marks, one per scheduled instant. *)

\* The instant of the n-th mark.
InstantOf(n) == IF n = 1 THEN TestStart ELSE IF n = NTest + 2 THEN TestEnd ELSE CloseTs[n - 1]

\* The phases of an interval, before its close mark.
Running == Phases \ {"anchor", "expire", "liquidate", "final", "done", "aborted"}

\* The anchor and the closes so far are marked, on their instants; the anchor
\* finds the account untouched.
Marked ==
  /\ phase = "anchor" => now = 1 /\ marks = <<>> /\ settled = StartingEquity /\ credits = {} /\ HeldKeys = {}
  /\ phase \in Running => Len(marks) = now
  /\ phase \in {"expire", "liquidate", "final"} => Len(marks) = NTest + 1 /\ now = NTest
  /\ phase = "done" => Len(marks) = NTest + 2
  /\ Len(marks) <= NTest + 2
  /\ \A n \in 1..Len(marks) : marks[n][1] = InstantOf(n)
  /\ Len(marks) > 0 => EquityAt(1) = StartingEquity

\* An account that holds nothing is worth its settled cash.
LEMMA EmptyEquity ==
  ASSUME credits = {}, HeldKeys = {}, settled \in Int
  PROVE  Equity(OpenPrices) = settled
<1>1. SumFunction([c \in {} |-> c.amount]) = 0
  BY FS_EmptySet, FunSumZero, Zenon
<1>2. SumFunction([k \in {} |-> LiquidationValue(positions[k], OpenPrices[SymbolOf(k)])]) = 0
  BY FS_EmptySet, FunSumZero, Zenon
<1> QED BY <1>1, <1>2 DEF Equity, Unsettled, AmountOf

\* One more mark, on its instant.
LEMMA MarkOne ==
  ASSUME IInv, Marked, NEW ts, NEW equity, marks' = Append(marks, <<ts, equity>>),
         Len(marks) <= NTest + 1, ts = InstantOf(Len(marks) + 1),
         Len(marks) = 0 => equity = StartingEquity
  PROVE  /\ Len(marks') = Len(marks) + 1 /\ Len(marks') <= NTest + 2
         /\ \A n \in 1..Len(marks') : marks'[n][1] = InstantOf(n)
         /\ EquityAt(1)' = StartingEquity
<1>1. marks \in Seq(Nat \X Int) /\ Len(marks) \in Nat /\ NTest \in Nat
  BY ScheduleAssumption DEF IInv, RunOK
<1>2. /\ Len(marks') = Len(marks) + 1
      /\ \A n \in 1..Len(marks) : marks'[n] = marks[n]
      /\ marks'[Len(marks) + 1] = <<ts, equity>>
  BY <1>1
<1>3. ASSUME NEW n \in 1..Len(marks') PROVE marks'[n][1] = InstantOf(n)
  <2>1. CASE n \in 1..Len(marks)
    BY <1>2, <2>1 DEF Marked
  <2>2. CASE n = Len(marks) + 1
    BY <1>2, <2>2
  <2> QED BY <1>1, <1>2, <2>1, <2>2
<1>4. EquityAt(1)' = StartingEquity
  <2>1. CASE Len(marks) = 0
    BY <1>2, <2>1 DEF EquityAt
  <2>2. CASE Len(marks) > 0
    BY <1>1, <1>2, <2>2 DEF EquityAt, Marked
  <2> QED BY <1>1, <2>1, <2>2
<1> QED BY <1>1, <1>2, <1>3, <1>4

\* Every step of the chronology keeps the marks on their instants.
LEMMA MarkedNext == IInv /\ Marked /\ [Next]_vars => Marked'
<1> SUFFICES ASSUME IInv, Marked, [Next]_vars PROVE Marked'
  OBVIOUS
<1>0. now \in 1..NTest /\ NTest \in Nat \ {0} /\ Len(marks) \in Nat
  BY ScheduleAssumption DEF IInv, RunOK
<1>1. CASE OpeningMark
  <2>1. /\ marks' = Append(marks, <<TestStart, Equity(OpenPrices)>>)
        /\ phase = "anchor" /\ phase' = "settle" /\ now' = now
    BY <1>1 DEF OpeningMark, Mark
  <2>2. marks = <<>> /\ Len(marks) = 0 /\ Equity(OpenPrices) = StartingEquity
    BY <2>1, EmptyEquity DEF Marked, IInv, AccountInv, AccountOK
  <2>3. TestStart = InstantOf(Len(marks) + 1)
    BY <2>2 DEF InstantOf
  <2>4. /\ Len(marks') = Len(marks) + 1 /\ Len(marks') <= NTest + 2
        /\ \A n \in 1..Len(marks') : marks'[n][1] = InstantOf(n)
        /\ EquityAt(1)' = StartingEquity
    BY <1>0, <2>1, <2>2, <2>3, MarkOne
  <2>5. now = 1
    BY <2>1 DEF Marked
  <2> QED BY <2>1, <2>2, <2>4, <2>5 DEF Marked, Running
<1>2. CASE CloseMark
  <2>1. /\ marks' = Append(marks, <<CloseTs[now], Equity(ClosePrices)>>) /\ phase = "mark"
        /\ \/ now < NTest /\ now' = now + 1 /\ phase' = "settle"
           \/ now = NTest /\ now' = now /\ phase' = "expire"
    BY <1>2 DEF CloseMark, Mark
  <2>2. Len(marks) = now
    BY <2>1 DEF Marked, Running, Phases
  <2>3. CloseTs[now] = InstantOf(Len(marks) + 1)
    BY <1>0, <2>2 DEF InstantOf
  <2>4. /\ Len(marks') = Len(marks) + 1 /\ Len(marks') <= NTest + 2
        /\ \A n \in 1..Len(marks') : marks'[n][1] = InstantOf(n)
        /\ EquityAt(1)' = StartingEquity
    BY <1>0, <2>1, <2>2, <2>3, MarkOne
  <2> QED BY <1>0, <2>1, <2>2, <2>4 DEF Marked, Running, InstantOf
<1>3. CASE FinalMark
  <2>1. /\ marks' = Append(marks, <<TestEnd, Equity(ClosePrices)>>)
        /\ phase = "final" /\ phase' = "done"
    BY <1>3 DEF FinalMark, Mark
  <2>2. Len(marks) = NTest + 1
    BY <2>1 DEF Marked
  <2>3. TestEnd = InstantOf(Len(marks) + 1)
    BY <1>0, <2>2 DEF InstantOf
  <2>4. /\ Len(marks') = Len(marks) + 1 /\ Len(marks') <= NTest + 2
        /\ \A n \in 1..Len(marks') : marks'[n][1] = InstantOf(n)
        /\ EquityAt(1)' = StartingEquity
    BY <1>0, <2>1, <2>2, <2>3, MarkOne
  <2> QED BY <1>0, <2>1, <2>2, <2>4 DEF Marked, Running, InstantOf
<1>4. ASSUME UNCHANGED <<marks, now>>, phase' # "anchor",
             phase' = "done" => phase = "done",
             phase' \in Running => phase \in Running,
             phase' \in {"expire", "liquidate", "final"} => phase \in {"expire", "liquidate", "final"}
      PROVE  Marked'
  BY <1>4 DEF Marked, InstantOf, EquityAt
<1>5. CASE UNCHANGED vars \/ Finished
  BY <1>5 DEF Finished, vars, runVars, ledgerVars, Marked, InstantOf, EquityAt, HeldKeys
<1>6. ASSUME \/ SettleAtOpen \/ Freeze \/ ObserveSurvivors \/ FinishStep
             \/ AbortAtMark \/ (\E k \in Keys : AbortAtFill(k))
      PROVE  Marked'
  <2>1. UNCHANGED <<marks, now>>
    BY <1>6 DEF SettleAtOpen, Freeze, ObserveSurvivors, FinishStep, AbortAtMark, Abort, AbortAtFill
  <2>2. /\ phase' \in Running => phase \in Running
        /\ phase' # "anchor" /\ phase' # "done"
        /\ phase' \in {"expire", "liquidate", "final"} => phase \in {"expire", "liquidate", "final"}
    BY <1>6 DEF SettleAtOpen, Freeze, ObserveSurvivors, FinishStep, AbortAtMark, Abort, AbortAtFill,
         Running, Phases
  <2> QED BY <1>4, <2>1, <2>2
<1>7. ASSUME NEW k \in Keys,
             \/ GapExit(k) \/ Fund(k) \/ Fill(k) \/ Protect(k) \/ Evaluated(k)
             \/ Expire(k) \/ Liquidate(k) \/ (\E d \in Decisions : Manage(k, d))
             \/ (\E s \in SignalShapes : RecordSignal(k, s))
      PROVE  Marked'
  <2>1. UNCHANGED <<marks, now>>
    BY <1>7 DEF GapExit, Fund, Fill, Protect, Evaluated, Expire, Liquidate, Manage, RecordSignal
  <2>2. /\ phase' \in Running => phase \in Running
        /\ phase' # "anchor" /\ phase' # "done"
        /\ phase' \in {"expire", "liquidate", "final"} => phase \in {"expire", "liquidate", "final"}
    BY <1>7 DEF GapExit, Fund, Fill, Protect, Evaluated, Expire, Liquidate, Manage, RecordSignal,
         Running, Phases
  <2> QED BY <1>4, <2>1, <2>2
<1> QED BY <1>1, <1>2, <1>3, <1>5, <1>6, <1>7 DEF Next

\* Every row, ordinal and mark is as the result types want it, always.
ReportInv == RowsAccepted /\ Numbered /\ Marked

\* Before the anchor there is no row, no ordinal and no mark.
LEMMA ReportInit == Init => ReportInv
<1> SUFFICES ASSUME Init PROVE ReportInv
  OBVIOUS
<1>1. /\ PendingKeys = {} /\ ReservedKeys = {} /\ HeldKeys = {} /\ trades = {} /\ rejections = {}
      /\ tradeOrdinal = 0 /\ rejectionOrdinal = 0 /\ phase = "anchor" /\ now = 1 /\ marks = <<>>
      /\ settled = StartingEquity /\ credits = {}
  BY DEF Init, LedgerInit, PendingKeys, ReservedKeys, HeldKeys
<1>2. RowsAccepted
  BY <1>1 DEF RowsAccepted
<1>3. Numbered
  <2>1. Counted({}, 0)
    BY FS_EmptySet DEF Counted
  <2> QED BY <1>1, <2>1 DEF Numbered
<1>4. Marked
  BY <1>1, ScheduleAssumption DEF Marked, Running
<1> QED BY <1>2, <1>3, <1>4 DEF ReportInv

\* The report's invariant, throughout every replay.
LEMMA ReportInductive == Spec => []ReportInv
<1>1. IInv /\ SignalInv /\ Punctual /\ ReportInv /\ [Next]_vars => ReportInv'
  BY RowsNext, NumberedNext, MarkedNext DEF ReportInv
<1> QED BY <1>1, ReportInit, Inductive, SignalsInductive, PunctualInductive, PTL DEF Spec

-----------------------------------------------------------------------------
(* The schedule over which the curve is sampled. *)

\* The interval that opens later opens no earlier.
LEMMA OpensInOrder ==
  \A m, n \in 1..Len(OpenTs) : m <= n => OpenTs[m] <= OpenTs[n]
<1> DEFINE Bad == {n \in 1..Len(OpenTs) : \E m \in 1..Len(OpenTs) : m <= n /\ OpenTs[m] > OpenTs[n]}
<1>1. \A n \in 1..Len(OpenTs) : OpenTs[n] \in Nat /\ CloseTs[n] \in Nat
  BY ScheduleAssumption
<1>2. Bad = {}
  <2> SUFFICES ASSUME Bad # {} PROVE FALSE
    OBVIOUS
  <2>1. IsFiniteSet(Bad) /\ Bad \subseteq Nat
    <3>1. IsFiniteSet(1..Len(OpenTs))
      BY FS_Interval, ScheduleAssumption
    <3> QED BY <3>1, FS_Subset
  <2>2. PICK n \in Bad : \A j \in Bad : n <= j
    <3> HIDE DEF Bad
    <3> QED BY <2>1, NatMin
  <2>3. PICK m \in 1..Len(OpenTs) : m <= n /\ OpenTs[m] > OpenTs[n]
    OBVIOUS
  <2>4. n \in 1..Len(OpenTs) /\ m < n
    BY <1>1, <2>3
  <2>5. n - 1 \in 1..(Len(OpenTs) - 1) /\ n - 1 \in 1..Len(OpenTs) /\ m <= n - 1 /\ n - 1 \notin Bad
    BY <2>2, <2>4
  <2>6. OpenTs[m] <= OpenTs[n - 1]
    BY <1>1, <2>5, SMTT(30)
  <2>7. OpenTs[n - 1] <= OpenTs[n]
    <3>1. (n - 1) + 1 = n
      BY <2>4
    <3>2. OpenTs[n - 1] < CloseTs[n - 1] /\ CloseTs[n - 1] <= OpenTs[(n - 1) + 1]
      BY <2>5, ScheduleAssumption
    <3> QED BY <1>1, <2>4, <2>5, <3>1, <3>2, SMTT(30)
  <2>8. OpenTs[m] \in Nat /\ OpenTs[n - 1] \in Nat /\ OpenTs[n] \in Nat
    BY <1>1, <2>4, <2>5
  <2> QED BY <2>3, <2>6, <2>7, <2>8
<1> QED BY <1>1, <1>2

\* The curve's own instants are the scheduled ones.
LEMMA Scheduled ==
  /\ Len(ScheduledMarks) = NTest + 2
  /\ \A n \in 1..(NTest + 2) : ScheduledMarks[n] = InstantOf(n)
<1>1. NTest \in Nat \ {0} /\ NTest <= Len(CloseTs) /\ CloseTs \in Seq(Nat)
  BY ScheduleAssumption
<1> DEFINE body == SubSeq(CloseTs, 1, NTest)
<1>2. Len(body) = NTest /\ body \in Seq(Nat) /\ \A n \in 1..NTest : body[n] = CloseTs[n]
  BY <1>1
<1>3. ScheduledMarks = (<<TestStart>> \o body) \o <<TestEnd>>
  BY DEF ScheduledMarks
<1> HIDE DEF body
<1>5. TestStart \in Nat /\ TestEnd \in Nat
  BY ScheduleAssumption DEF TestStart, TestEnd
<1> DEFINE first == <<TestStart>>
           last  == <<TestEnd>>
           head  == first \o body
<1>6. first \in Seq(Nat) /\ last \in Seq(Nat) /\ Len(first) = 1 /\ Len(last) = 1
      /\ first[1] = TestStart /\ last[1] = TestEnd
  BY <1>5
<1> HIDE DEF first, last
<1>7. /\ Len(head) = 1 + NTest /\ head \in Seq(Nat)
      /\ \A n \in 1..(1 + NTest) : head[n] = IF n <= 1 THEN first[n] ELSE body[n - 1]
  <2>1. /\ head \in Seq(Nat) /\ Len(head) = Len(first) + Len(body)
        /\ \A n \in 1..(Len(first) + Len(body)) :
             head[n] = IF n <= Len(first) THEN first[n] ELSE body[n - Len(first)]
    BY <1>2, <1>6, ConcatProperties
  <2> HIDE DEF head
  <2> QED BY <1>2, <1>6, <2>1
<1>8. ScheduledMarks = head \o last
  BY <1>3 DEF first, last
<1> HIDE DEF head
<1>9. /\ Len(ScheduledMarks) = NTest + 2
      /\ \A n \in 1..(NTest + 2) :
           ScheduledMarks[n] = IF n <= 1 + NTest THEN head[n] ELSE last[n - (1 + NTest)]
  <2>1. /\ Len(head \o last) = Len(head) + Len(last)
        /\ \A n \in 1..(Len(head) + Len(last)) :
             (head \o last)[n] = IF n <= Len(head) THEN head[n] ELSE last[n - Len(head)]
    BY <1>6, <1>7, ConcatProperties
  <2>2. Len(head) = 1 + NTest /\ Len(last) = 1 /\ (1 + NTest) + 1 = NTest + 2
    BY <1>1, <1>6, <1>7
  <2> QED BY <1>8, <2>1, <2>2
<1>10. ASSUME NEW n \in 1..(NTest + 2) PROVE ScheduledMarks[n] = InstantOf(n)
  <2>1. CASE n = 1
    <3>1. n \in 1..(1 + NTest) /\ n <= 1 /\ n <= 1 + NTest
      BY <1>1, <2>1
    <3>2. ScheduledMarks[n] = first[1]
      BY <1>7, <1>9, <2>1, <3>1
    <3> QED BY <1>6, <2>1, <3>2 DEF InstantOf
  <2>2. CASE n \in 2..(NTest + 1)
    <3>1. n - 1 \in 1..NTest /\ n # 1 /\ n # NTest + 2
      BY <1>1, <2>2
    <3>2. head[n] = body[n - 1] /\ n <= 1 + NTest
      BY <1>1, <1>7, <2>2, n \in 1..(1 + NTest), ~ (n <= 1), SMTT(30)
    <3> QED BY <1>1, <1>2, <1>9, <2>2, <3>1, <3>2 DEF InstantOf
  <2>3. CASE n = NTest + 2
    <3>1. n - (1 + NTest) = 1 /\ ~ (n <= 1 + NTest) /\ n # 1
      BY <1>1, <2>3
    <3> QED BY <1>6, <1>9, <2>3, <3>1 DEF InstantOf
  <2> QED BY <1>1, <2>1, <2>2, <2>3
<1> QED BY <1>9, <1>10

\* A finished replay's marks are the schedule's, in order.
LEMMA CurveAligned ==
  ASSUME IInv, Marked, phase = "done"
  PROVE  /\ Aligned /\ Len(marks) = NTest + 2
         /\ \A n \in 1..(NTest + 2) : marks[n][1] = InstantOf(n)
         /\ StartingMark = StartingEquity
<1>1. Len(marks) = NTest + 2 /\ \A n \in 1..(NTest + 2) : marks[n][1] = InstantOf(n)
  BY DEF Marked
<1>2. NTest \in Nat
  BY ScheduleAssumption
<1> QED BY <1>1, <1>2, Scheduled DEF Aligned, Marked, StartingMark

\* The instants of the curve never step back.
LEMMA InstantsInOrder ==
  ASSUME NEW n \in 2..(NTest + 2)
  PROVE  InstantOf(n) >= InstantOf(n - 1)
<1>1. NTest \in 1..Len(OpenTs) /\ NTest \in Nat \ {0} /\ n \in Nat
  BY ScheduleAssumption
<1>2. \A m \in 1..NTest : m \in 1..Len(OpenTs) /\ OpenTs[m] \in Nat /\ CloseTs[m] \in Nat /\ OpenTs[m] < CloseTs[m]
  BY <1>1, ScheduleAssumption
<1>3. CASE n = 2
  <2>1. CloseTs[1] >= OpenTs[1] /\ InstantOf(n - 1) = OpenTs[1] /\ InstantOf(n) = CloseTs[1]
    BY <1>1, <1>2, <1>3 DEF InstantOf, TestStart
  <2> QED BY <2>1
<1>4. CASE n \in 3..(NTest + 1)
  <2>1. n - 2 \in 1..NTest /\ n - 1 \in 1..NTest /\ n - 2 \in 1..(Len(OpenTs) - 1) /\ (n - 2) + 1 = n - 1
        /\ (n - 1) - 1 = n - 2
    BY <1>1, <1>4
  <2>2. CloseTs[n - 2] <= OpenTs[n - 1]
    BY <2>1, ScheduleAssumption
  <2>3. CloseTs[n - 2] <= CloseTs[n - 1]
    BY <1>2, <2>1, <2>2
  <2>4. InstantOf(n) = CloseTs[n - 1] /\ InstantOf(n - 1) = CloseTs[n - 2]
    BY <1>1, <1>4, <2>1 DEF InstantOf
  <2> QED BY <2>3, <2>4
<1>5. CASE n = NTest + 2 /\ n # 2
  <2>1. InstantOf(n) = CloseTs[NTest] /\ InstantOf(n - 1) = CloseTs[NTest] /\ CloseTs[NTest] \in Nat
    <3>1. n - 1 = NTest + 1 /\ n - 1 # 1 /\ (n - 1) - 1 = NTest
      BY <1>1, <1>5
    <3> QED BY <1>1, <1>2, <1>5, <3>1 DEF InstantOf, TestEnd
  <2> QED BY <2>1
<1> QED BY <1>1, <1>3, <1>4, <1>5

\* Every session of the window holds a mark; its marks are its closes, and no
\* mark of a session before the last is the post-close one.
LEMMA SessionMarks ==
  ASSUME IInv, Marked, phase = "done", NEW s \in TestSessions
  PROVE  /\ MarksIn(s) # {} /\ MarksIn(s) \subseteq 2..(NTest + 2)
         /\ s \in Nat /\ s <= DateOf(OpenTs[NTest])
         /\ s < DateOf(OpenTs[NTest]) =>
              \A m \in MarksIn(s) : m - 1 \in 1..(NTest - 1) /\ DateOf(OpenTs[m - 1]) = s
<1>1. PICK i \in 1..NTest : s = DateOf(OpenTs[i])
  BY DEF TestSessions
<1>2. NTest \in 1..Len(OpenTs) /\ NTest \in Nat \ {0}
  BY ScheduleAssumption
<1>3. \A m \in 1..NTest : /\ m \in 1..Len(OpenTs) /\ OpenTs[m] \in Nat /\ CloseTs[m] \in Nat /\ OpenTs[m] < CloseTs[m]
                          /\ DateOf(CloseTs[m]) = DateOf(OpenTs[m])
  BY <1>2, ScheduleAssumption
<1>4. /\ Len(marks) = NTest + 2
      /\ \A n \in 1..(NTest + 2) : marks[n][1] = InstantOf(n)
  BY CurveAligned
<1>5. CloseTs[i] \in ClosesOf(s)
  BY <1>1 DEF ClosesOf
<1>6. \A m \in 1..NTest : InstantOf(m + 1) = CloseTs[m]
  BY <1>2 DEF InstantOf
<1>7. i + 1 \in MarksIn(s)
  <2>1. i + 1 \in 1..(NTest + 2) /\ marks[i + 1][1] = CloseTs[i]
    BY <1>2, <1>4, <1>6
  <2> QED BY <1>4, <1>5, <2>1 DEF MarksIn
<1>8. s \in Nat /\ s <= DateOf(OpenTs[NTest])
  <2>1. OpenTs[i] <= OpenTs[NTest]
    BY <1>2, <1>3, OpensInOrder
  <2>2. OpenTs[i] \in Nat /\ OpenTs[NTest] \in Nat
    BY <1>2, <1>3
  <2> QED BY <1>1, <2>1, <2>2, DateMono
<1>9. ASSUME NEW m \in MarksIn(s)
      PROVE  m \in 2..(NTest + 2) /\ (s < DateOf(OpenTs[NTest]) =>
               m - 1 \in 1..(NTest - 1) /\ DateOf(OpenTs[m - 1]) = s)
  <2>1. m \in 1..(NTest + 2) /\ InstantOf(m) \in ClosesOf(s)
    BY <1>4 DEF MarksIn
  <2>2. PICK j \in 1..NTest : DateOf(OpenTs[j]) = s /\ InstantOf(m) = CloseTs[j]
    BY <2>1 DEF ClosesOf
  <2>3. m # 1
    <3>1. OpenTs[1] <= OpenTs[j] /\ OpenTs[1] \in Nat
      BY <1>2, <1>3, OpensInOrder
    <3>2. TestStart # CloseTs[j]
      BY <1>3, <3>1 DEF TestStart
    <3> QED BY <2>2, <3>2 DEF InstantOf
  <2>4. ASSUME s < DateOf(OpenTs[NTest]) PROVE m - 1 \in 1..(NTest - 1) /\ DateOf(OpenTs[m - 1]) = s
    <3>1. m # NTest + 2
      <4>1. DateOf(CloseTs[j]) = s /\ DateOf(CloseTs[NTest]) = DateOf(OpenTs[NTest])
        BY <1>2, <1>3, <2>2
      <4>2. CloseTs[j] # TestEnd
        BY <1>8, <2>4, <4>1 DEF TestEnd
      <4> QED BY <2>2, <2>3, <4>2 DEF InstantOf
    <3>2. m - 1 \in 1..NTest /\ (m - 1) + 1 = m
      BY <1>2, <2>1, <2>3, <3>1
    <3>3. CloseTs[m - 1] = CloseTs[j]
      BY <1>6, <2>2, <3>2
    <3>4. DateOf(OpenTs[m - 1]) = s
      BY <1>3, <2>2, <3>2, <3>3
    <3>5. m - 1 # NTest
      BY <1>8, <2>4, <3>4
    <3> QED BY <1>2, <3>2, <3>4, <3>5
  <2> QED BY <1>2, <2>1, <2>3, <2>4
<1> QED BY <1>7, <1>8, <1>9

\* A session whose return has no honest denominator follows one that left the
\* account at zero or below.
LEMMA RuinedBefore ==
  ASSUME IInv, Marked, phase = "done", NEW s \in TestSessions, PreviousEquity(s) <= 0
  PROVE  \E n \in 1..(NTest - 1) : EquityAt(n + 1) <= 0 /\ DateOf(OpenTs[n]) < DateOf(OpenTs[NTest])
<1> DEFINE earlier == {e \in TestSessions : e < s}
           last == Max(earlier)
<1>1. \A e \in TestSessions : e \in Nat
  BY SessionMarks
<1>2. s \in Nat /\ s <= DateOf(OpenTs[NTest])
  BY SessionMarks
<1>3. NTest \in Nat \ {0} /\ DateOf(OpenTs[NTest]) \in Nat
  <2>1. NTest \in 1..Len(OpenTs) /\ NTest \in Nat \ {0}
    BY ScheduleAssumption
  <2> QED BY <2>1, ScheduleAssumption, AccountAssumption
<1>4. earlier # {}
  <2>1. ~ (StartingMark <= 0)
    BY CurveAligned, AccountAssumption
  <2> QED BY <2>1 DEF PreviousEquity
<1>5. last \in earlier
  <2>1. \A e \in earlier : e \in TestSessions /\ e < s
    OBVIOUS
  <2>2. earlier \subseteq Nat /\ \A e \in earlier : e <= s
    <3> SUFFICES ASSUME NEW e \in earlier PROVE e \in Nat /\ e <= s
      OBVIOUS
    <3>1. e \in Nat /\ e < s /\ s \in Nat
      BY <1>1, <1>2, <2>1
    <3> QED BY <3>1
  <2> HIDE DEF earlier
  <2> QED BY <1>2, <1>4, <2>2, NatMax
<1>6. last \in TestSessions /\ last < s /\ last \in Nat
  BY <1>1, <1>5
<1>7. PreviousEquity(s) = SessionEquity(last)
  BY <1>4 DEF PreviousEquity
<1> HIDE DEF last, earlier
<1> DEFINE m == Max(MarksIn(last))
<1>8. m \in MarksIn(last)
  <2>1. MarksIn(last) # {} /\ MarksIn(last) \subseteq 2..(NTest + 2)
    BY <1>6, SessionMarks
  <2>2. MarksIn(last) \subseteq Nat /\ \A n \in MarksIn(last) : n <= NTest + 2
    BY <1>3, <2>1
  <2> QED BY <1>3, <2>1, <2>2, NatMax
<1>9. last < DateOf(OpenTs[NTest])
  BY <1>2, <1>3, <1>6
<1>10. m - 1 \in 1..(NTest - 1) /\ DateOf(OpenTs[m - 1]) = last
  BY <1>6, <1>8, <1>9, SessionMarks
<1>11. EquityAt(m) <= 0
  BY <1>7 DEF SessionEquity
<1> HIDE DEF m
<1>12. (m - 1) + 1 = m
  <2>1. m \in 2..(NTest + 2)
    BY <1>6, <1>8, SessionMarks
  <2> QED BY <1>3, <2>1
<1> QED BY <1>9, <1>10, <1>11, <1>12

\* Nothing else refuses a finished replay.
LEMMA OnlyRuinRefuses ==
  ASSUME IInv, ReportInv PROVE ResultNeverRefused
<1> SUFFICES ASSUME phase = "done" PROVE ResultNeverRefused
  BY DEF ResultNeverRefused
<1>1. (\A t \in trades : TradeAccepted(t)) /\ (\A r \in rejections : RejectionAccepted(r))
  BY DEF ReportInv, RowsAccepted
<1>2. Aligned /\ Len(marks) = NTest + 2 /\ StartingMark = StartingEquity
      /\ \A n \in 1..(NTest + 2) : marks[n][1] = InstantOf(n)
  BY CurveAligned DEF ReportInv
<1>3. Attributed
  BY DEF Attributed, IInv, AccountInv, AccountOK, Trades, Positions, Rejections, Intents
<1>4. ~ (StartingMark <= 0)
  BY <1>2, AccountAssumption
<1>5. \A s \in TestSessions : MarksIn(s) # {}
  BY SessionMarks DEF ReportInv
<1>6. Contiguous(trades) /\ Contiguous(rejections)
  BY DEF Contiguous, ReportInv, Numbered, Counted
<1>7. ~ \E n \in 2..Len(marks) : marks[n][1] < marks[n - 1][1]
  <2> SUFFICES ASSUME NEW n \in 2..(NTest + 2) PROVE ~ (marks[n][1] < marks[n - 1][1])
    BY <1>2
  <2>1. NTest \in Nat
    BY ScheduleAssumption
  <2>2. n \in 1..(NTest + 2) /\ n - 1 \in 1..(NTest + 2)
    BY <2>1
  <2>3. InstantOf(n) >= InstantOf(n - 1)
    BY InstantsInOrder
  <2>4. InstantOf(n) \in Nat /\ InstantOf(n - 1) \in Nat
    <3>1. \A j \in 1..(NTest + 2) : InstantOf(j) \in Nat
      <4> TAKE j \in 1..(NTest + 2)
      <4>1. TestStart \in Nat /\ TestEnd \in Nat
        BY ClockTyped DEF IInv
      <4>2. j # 1 /\ j # NTest + 2 => j - 1 \in 1..NTest
        BY <2>1
      <4>3. \A i \in 1..NTest : CloseTs[i] \in Nat
        BY ScheduleAssumption
      <4> QED BY <4>1, <4>2, <4>3 DEF InstantOf
    <3> QED BY <2>2, <3>1
  <2> QED BY <1>2, <2>2, <2>3, <2>4
<1>8. FinalizeRefusal = IF \E s \in TestSessions : PreviousEquity(s) <= 0 THEN "daily_return" ELSE "none"
  BY <1>1, <1>2, <1>3, <1>4, <1>5, <1>6, <1>7 DEF FinalizeRefusal
<1>9. ASSUME NEW s \in TestSessions, PreviousEquity(s) <= 0
      PROVE  \E n \in 1..(NTest - 1) : EquityAt(n + 1) <= 0 /\ DateOf(OpenTs[n]) < DateOf(OpenTs[NTest])
  BY <1>9, RuinedBefore DEF ReportInv
<1> QED BY <1>8, <1>9 DEF ResultNeverRefused

\* A replay that reaches its end is reported, for every schedule, market and set
\* of strategies: no row, instant, session, attribution or ordinal the account
\* and the marks leave is one the result types refuse.  The one refusal left is
\* the one the code names, a session that ends at zero or below before the last.
THEOREM NeverRefused == Spec => []ResultNeverRefused
<1>1. IInv /\ ReportInv => ResultNeverRefused
  BY OnlyRuinRefuses
<1> QED BY <1>1, Inductive, ReportInductive, PTL

-----------------------------------------------------------------------------
(* What the lenses of a reported result say of each other. *)

\* The instant the chronology has reached.
Instant ==
  IF phase \in {"anchor", "settle", "freeze", "gap", "fund", "fill"} THEN OpenTs[now] ELSE CloseTs[now]

\* A trade's result is what its fills and its fees make it.
Reckoned == \A t \in trades : t.net = GrossPnl(t.position, t.exit) - Fees(t)

\* No more positions than slots, and one to spare for a reservation.
SlotsKept ==
  /\ Cardinality(HeldKeys) <= MaxOpen
  /\ ReservedKeys # {} => Cardinality(HeldKeys) < MaxOpen

\* Ticks the open positions have been held so far.
HeldSoFar == SumFunction([k \in HeldKeys |-> Instant - positions[k].entryTs])

\* Positions past and present have not been held longer than the slots allow.
TimeKept == phase # "aborted" => Held + HeldSoFar <= MaxOpen * (Instant - TestStart)

\* The end of the window: liquidation visits every position, at the prices of
\* the last close mark, and the post-close mark finds cash alone.
Closing ==
  /\ phase = "liquidate" => HeldKeys \subseteq visit
  /\ phase \in {"final", "done"} => HeldKeys = {}
  /\ phase \in {"expire", "liquidate", "final"} => Equity(ClosePrices) = EquityAt(NTest + 1)
  /\ phase = "done" =>
       now = NTest /\ \A n \in {NTest + 1, NTest + 2} : EquityAt(n) = settled + Unsettled

LensInv == Reckoned /\ SlotsKept /\ TimeKept /\ Closing

\* A step that issues a trade issues one, at the instant reached, and moves
\* neither the clock nor any other position.
LEMMA TradeStep ==
  ASSUME IInv, Punctual, [Next]_vars
  PROVE  \/ UNCHANGED trades
         \/ \E t : /\ t.ordinal = tradeOrdinal /\ trades' = trades \cup {t}
                   /\ t.exitTs = Instant /\ t.net = GrossPnl(t.position, t.exit) - Fees(t)
                   /\ UNCHANGED <<phase, now>>
<1> DEFINE Traded(ts) ==
      \E t : /\ t.ordinal = tradeOrdinal /\ trades' = trades \cup {t}
             /\ t.exitTs = ts /\ t.net = GrossPnl(t.position, t.exit) - Fees(t)
<1>1. \A p, ref, ts, reason : SettleOut(p, ref, ts, reason) => Traded(ts)
  <2> SUFFICES ASSUME NEW p, NEW ref, NEW ts, NEW reason, SettleOut(p, ref, ts, reason) PROVE Traded(ts)
    OBVIOUS
  <2> DEFINE fill == ExitFill(p.intent.dir, ref)
             t == [ordinal |-> tradeOrdinal, position |-> p, exit |-> fill, exitTs |-> ts,
                   net |-> GrossPnl(p, fill) - (p.fee + Charge(p.qty)), reason |-> reason]
  <2>1. trades' = trades \cup {t}
    BY DEF SettleOut, Close
  <2>2. t.ordinal = tradeOrdinal /\ t.exitTs = ts /\ t.net = GrossPnl(t.position, t.exit) - Fees(t)
    BY DEF Fees
  <2> QED BY <2>1, <2>2
<1> HIDE DEF Traded
<1>2. ASSUME NEW k \in Keys, GapExit(k)
      PROVE  (Traded(Instant) /\ UNCHANGED <<phase, now>>) \/ UNCHANGED trades
  BY <1>1, <1>2 DEF GapExit, Instant, ledgerVars
<1>3. ASSUME NEW k \in Keys, Protect(k)
      PROVE  (Traded(Instant) /\ UNCHANGED <<phase, now>>) \/ UNCHANGED trades
  BY <1>1, <1>3 DEF Protect, Instant, ledgerVars
<1>4. ASSUME NEW k \in Keys, NEW d \in Decisions, Manage(k, d)
      PROVE  (Traded(Instant) /\ UNCHANGED <<phase, now>>) \/ UNCHANGED trades
  BY <1>1, <1>4 DEF Manage, Instant
<1>5. ASSUME NEW k \in Keys, Liquidate(k)
      PROVE  (Traded(Instant) /\ UNCHANGED <<phase, now>>) \/ UNCHANGED trades
  <2>1. phase = "liquidate" /\ now = NTest
    BY <1>5 DEF Liquidate, Punctual
  <2>2. TestEnd = Instant
    BY <2>1 DEF TestEnd, Instant
  <2> QED BY <1>1, <1>5, <2>2 DEF Liquidate
<1>6. ASSUME NEW k \in Keys, Fund(k) \/ Expire(k) \/ \E s \in SignalShapes : RecordSignal(k, s)
      PROVE  UNCHANGED trades
  BY <1>6 DEF Fund, Expire, RecordSignal, Reserve, Reject, ledgerVars
<1>7. ASSUME \/ OpeningMark \/ SettleAtOpen \/ Freeze \/ ObserveSurvivors \/ FinishStep \/ CloseMark \/ FinalMark
             \/ AbortAtMark \/ Finished \/ (\E k \in Keys : Fill(k) \/ Evaluated(k) \/ AbortAtFill(k))
             \/ UNCHANGED vars
      PROVE  UNCHANGED trades
  BY <1>7 DEF OpeningMark, SettleAtOpen, SettleDue, Freeze, ObserveSurvivors, FinishStep, CloseMark,
       FinalMark, AbortAtMark, Abort, Finished, Fill, Open, Evaluated, AbortAtFill, ledgerVars, vars, runVars
<1>8. (Traded(Instant) /\ UNCHANGED <<phase, now>>) \/ UNCHANGED trades
  BY <1>2, <1>3, <1>4, <1>5, <1>6, <1>7 DEF Next
<1> QED BY <1>8 DEF Traded

\* Every trade is reckoned by close() and by nothing else.
LEMMA ReckonedNext == IInv /\ Punctual /\ Reckoned /\ [Next]_vars => Reckoned'
<1> SUFFICES ASSUME IInv, Punctual, Reckoned, [Next]_vars PROVE Reckoned'
  OBVIOUS
<1>1. CASE UNCHANGED trades
  BY <1>1 DEF Reckoned, Fees, Charge, GrossPnl
<1>2. CASE ~ UNCHANGED trades
  <2>1. PICK t : trades' = trades \cup {t} /\ t.net = GrossPnl(t.position, t.exit) - Fees(t)
    BY <1>2, TradeStep
  <2> QED BY <2>1 DEF Reckoned, Fees, Charge, GrossPnl
<1> QED BY <1>1, <1>2

\* A reservation takes a slot that was free, and its fill is the only step that
\* adds a position.
LEMMA SlotsNext == IInv /\ SlotsKept /\ [Next]_vars => SlotsKept'
<1> SUFFICES ASSUME IInv, SlotsKept, [Next]_vars PROVE SlotsKept'
  OBVIOUS
<1>1. IsFiniteSet(HeldKeys) /\ Cardinality(HeldKeys) \in Nat /\ MaxOpen \in Nat
  BY KeysFinite, FS_Subset, FS_CardinalityType, AccountAssumption DEF HeldKeys
<1>2. ASSUME HeldKeys' \subseteq HeldKeys
      PROVE  Cardinality(HeldKeys') \in Nat /\ Cardinality(HeldKeys') <= Cardinality(HeldKeys)
  BY <1>1, <1>2, FS_Subset, FS_CardinalityType
<1>3. ASSUME HeldKeys' \subseteq HeldKeys, UNCHANGED reserved PROVE SlotsKept'
  BY <1>1, <1>2, <1>3 DEF SlotsKept, ReservedKeys
<1>4. ASSUME NEW k \in Keys, ReservedAt(k) PROVE SlotsKept'
  BY <1>1, <1>4 DEF ReservedAt, SlotsKept, HeldKeys
<1>5. ASSUME NEW k \in Keys, FilledAt(k) PROVE SlotsKept'
  <2>1. k \in ReservedKeys /\ HeldKeys' = HeldKeys \cup {k} /\ reserved' = [reserved EXCEPT ![k] = None]
    BY <1>5 DEF FilledAt, ReservedKeys
  <2>2. ReservedKeys' = {}
    BY <2>1 DEF IInv, Visiting, ReservedKeys, AccountInv, AccountOK
  <2>3. Cardinality(HeldKeys \cup {k}) <= Cardinality(HeldKeys) + 1
    BY <1>1, FS_AddElement, SMTT(30)
  <2> QED BY <1>1, <2>1, <2>2, <2>3, FS_AddElement, FS_CardinalityType DEF SlotsKept
<1>6. Stays => HeldKeys' \subseteq HeldKeys /\ UNCHANGED reserved
  BY DEF Stays, Holds
<1>7. ASSUME NEW k \in Keys, SeatedAt(k) \/ RefusedAtBirth(k) \/ RefusedAt(k)
      PROVE  HeldKeys' \subseteq HeldKeys /\ UNCHANGED reserved
  BY <1>7 DEF SeatedAt, RefusedAtBirth, RefusedAt, HeldKeys
<1>8. ASSUME NEW k \in Keys, TradedAt(k)
      PROVE  HeldKeys' \subseteq HeldKeys /\ UNCHANGED reserved
  BY <1>8 DEF TradedAt, Holds
<1>9. SignalStep
  BY EveryStep
<1> QED BY <1>3, <1>4, <1>5, <1>6, <1>7, <1>8, <1>9 DEF SignalStep

\* The chronology never turns back.
LEMMA InstantStep ==
  ASSUME IInv, [Next]_vars, phase' # "aborted"
  PROVE  /\ phase # "aborted" /\ Instant' >= Instant /\ Instant \in Nat /\ Instant' \in Nat
         /\ phase = "fill" => Instant' = Instant
<1>1. /\ now \in Nat /\ now \in 1..Len(OpenTs) /\ OpenTs[now] \in Nat /\ CloseTs[now] \in Nat /\ OpenTs[now] < CloseTs[now]
      /\ phase \in Phases
  BY ClockTyped, ScheduleAssumption DEF IInv, RunOK
<1>2. ASSUME UNCHANGED now, phase' \in {"anchor", "settle", "freeze", "gap", "fund", "fill"}
                             => phase \in {"anchor", "settle", "freeze", "gap", "fund", "fill"}
      PROVE  Instant' >= Instant /\ Instant \in Nat /\ Instant' \in Nat
  BY <1>1, <1>2 DEF Instant
<1>3. ASSUME CloseMark
      PROVE  Instant' >= Instant /\ Instant \in Nat /\ Instant' \in Nat
  <2>1. CASE UNCHANGED now /\ phase' = "expire"
    BY <1>2, <2>1
  <2>2. CASE now < NTest /\ now' = now + 1 /\ phase' = "settle"
    <3>1. now \in 1..(Len(OpenTs) - 1) /\ now + 1 \in 1..Len(OpenTs)
      BY <1>1, <2>2, ScheduleAssumption
    <3>2. CloseTs[now] <= OpenTs[now + 1] /\ OpenTs[now + 1] \in Nat
      BY <3>1, ScheduleAssumption
    <3> QED BY <1>1, <1>3, <2>2, <3>2 DEF Instant, CloseMark
  <2> QED BY <1>3, <2>1, <2>2 DEF CloseMark
<1>4. ~ CloseMark =>
        /\ UNCHANGED now
        /\ phase' \in {"anchor", "settle", "freeze", "gap", "fund", "fill"}
             => phase \in {"anchor", "settle", "freeze", "gap", "fund", "fill"}
  <2>1. CASE OpeningMark \/ SettleAtOpen \/ Freeze \/ ObserveSurvivors \/ FinishStep \/ FinalMark \/ Finished \/ UNCHANGED vars
    BY <2>1 DEF OpeningMark, SettleAtOpen, Freeze, ObserveSurvivors, FinishStep, FinalMark, Finished, vars, runVars
  <2>2. ASSUME AbortAtMark \/ \E k \in Keys : AbortAtFill(k) PROVE FALSE
    BY <2>2 DEF AbortAtMark, AbortAtFill, Abort
  <2>3. ASSUME NEW k \in Keys, \/ GapExit(k) \/ Fund(k) \/ Fill(k) \/ Protect(k) \/ Evaluated(k) \/ Expire(k)
                               \/ Liquidate(k) \/ (\E d \in Decisions : Manage(k, d))
                               \/ \E s \in SignalShapes : RecordSignal(k, s)
        PROVE /\ UNCHANGED now
              /\ phase' \in {"anchor", "settle", "freeze", "gap", "fund", "fill"}
                   => phase \in {"anchor", "settle", "freeze", "gap", "fund", "fill"}
    BY <2>3 DEF GapExit, Fund, Fill, Protect, Evaluated, Expire, Liquidate, Manage, RecordSignal
  <2> QED BY <2>1, <2>2, <2>3 DEF Next
<1>5. phase # "aborted"
  <2>1. phase = "aborted" => UNCHANGED phase
    BY DEF Next, OpeningMark, SettleAtOpen, Freeze, ObserveSurvivors, FinishStep, FinalMark, Finished, vars, runVars,
         GapExit, Fund, Fill, Protect, Evaluated, Expire, Liquidate, Manage, RecordSignal, CloseMark,
         AbortAtMark, AbortAtFill
  <2> QED BY <2>1
<1>6. phase = "fill" => ~ CloseMark /\ phase' \in {"fill", "fund"}
  BY DEF Next, OpeningMark, SettleAtOpen, Freeze, ObserveSurvivors, FinishStep, FinalMark, Finished, vars, runVars,
       GapExit, Fund, Fill, Protect, Evaluated, Expire, Liquidate, Manage, RecordSignal, CloseMark,
       AbortAtMark, AbortAtFill
<1>7. phase = "fill" => Instant' = Instant
  BY <1>4, <1>6 DEF Instant
<1> QED BY <1>2, <1>3, <1>4, <1>5, <1>7

\* What the two sums of held time range over.
LEMMA HeldTyped ==
  ASSUME IInv
  PROVE  /\ IsFiniteSet(trades) /\ [t \in trades |-> t.exitTs - t.position.entryTs] \in [trades -> Int]
         /\ IsFiniteSet(HeldKeys) /\ \A k \in HeldKeys : k \in Keys /\ positions[k].entryTs \in Nat
         /\ Instant \in Nat /\ TestStart \in Nat
         /\ [k \in HeldKeys |-> Instant - positions[k].entryTs] \in [HeldKeys -> Int]
         /\ Held \in Int /\ HeldSoFar \in Int
<1>1. IsFiniteSet(trades) /\ \A t \in trades : t.exitTs \in Nat /\ t.position.entryTs \in Nat
  BY DEF IInv, AccountInv, AccountOK, Trades, Positions
<1>2. IsFiniteSet(HeldKeys)
  BY KeysFinite, FS_Subset DEF HeldKeys
<1>3. \A k \in HeldKeys : k \in Keys /\ positions[k].entryTs \in Nat
  BY HeldPosition DEF IInv, Positions
<1>4. Instant \in Nat /\ TestStart \in Nat
  BY ClockTyped DEF IInv, Instant
<1> DEFINE f == [t \in trades |-> t.exitTs - t.position.entryTs]
           g == [k \in HeldKeys |-> Instant - positions[k].entryTs]
<1>5. f \in [trades -> Int]
  BY <1>1
<1>6. g \in [HeldKeys -> Int]
  BY <1>3, <1>4
<1>7. Held = SumFunction(f) /\ HeldSoFar = SumFunction(g)
  BY DEF Held, HeldSoFar
<1>8. SumFunction(f) \in Int /\ SumFunction(g) \in Int
  <2> HIDE DEF f, g
  <2> QED BY <1>1, <1>2, <1>5, <1>6, FunSumInt
<1> QED BY <1>1, <1>2, <1>3, <1>4, <1>5, <1>6, <1>7, <1>8

\* Time passes for every open position alike, and there are no more than slots.
LEMMA TimePasses ==
  ASSUME IInv, IInv', SlotsKept, TimeKept, [Next]_vars, phase' # "aborted",
         UNCHANGED trades, HeldKeys' = HeldKeys,
         \A k \in HeldKeys : positions'[k].entryTs = positions[k].entryTs
  PROVE  TimeKept'
<1> DEFINE f == [k \in HeldKeys |-> Instant - positions[k].entryTs]
           g == [k \in HeldKeys |-> Instant' - positions[k].entryTs]
           d == Instant' - Instant
           h == [k \in HeldKeys |-> d]
           n == Cardinality(HeldKeys)
<1>1. /\ phase # "aborted" /\ d \in Nat /\ Instant' = Instant + d
      /\ Instant \in Nat /\ Instant' \in Nat /\ TestStart \in Nat
  <2>1. phase # "aborted" /\ Instant' >= Instant /\ Instant \in Nat /\ Instant' \in Nat
    BY InstantStep
  <2>2. TestStart \in Nat
    BY HeldTyped
  <2>3. \A a, b \in Nat : b >= a => b - a \in Nat /\ b = a + (b - a)
    OBVIOUS
  <2>4. d \in Nat /\ Instant' = Instant + d
    BY <2>1, <2>3
  <2> HIDE DEF d
  <2> QED BY <2>1, <2>2, <2>4
<1>2. /\ IsFiniteSet(HeldKeys) /\ f \in [HeldKeys -> Int] /\ g \in [HeldKeys -> Int] /\ h \in [HeldKeys -> Int]
      /\ \A k \in HeldKeys : h[k] = g[k] - f[k] /\ h[k] <= d
  <2>1. IsFiniteSet(HeldKeys) /\ \A k \in HeldKeys : positions[k].entryTs \in Nat
    BY HeldTyped
  <2>2. d \in Int /\ d <= d /\ \A e \in Nat : d = (Instant' - e) - (Instant - e)
    <3>1. \A a, b, c, e \in Nat : b = a + c => c <= c /\ c = (b - e) - (a - e)
      OBVIOUS
    <3> HIDE DEF d
    <3> QED BY <1>1, <3>1
  <2>3. \A e \in Nat : Instant - e \in Int /\ Instant' - e \in Int
    BY <1>1
  <2>4. /\ f \in [HeldKeys -> Int] /\ g \in [HeldKeys -> Int] /\ h \in [HeldKeys -> Int]
        /\ \A k \in HeldKeys : h[k] = d /\ h[k] = g[k] - f[k]
    <3> HIDE DEF d
    <3> QED BY <2>1, <2>2, <2>3
  <2> HIDE DEF d, f, g, h
  <2> QED BY <2>1, <2>2, <2>4
<1>3. Held' = Held /\ Held \in Int
  BY HeldTyped DEF Held
<1>4. HeldSoFar = SumFunction(f) /\ HeldSoFar' = SumFunction(g)
  <2>1. \A k \in HeldKeys : Instant' - positions'[k].entryTs = Instant' - positions[k].entryTs
    OBVIOUS
  <2>2. g = [k \in HeldKeys' |-> Instant' - positions'[k].entryTs]
    BY <2>1
  <2> QED BY <2>2 DEF HeldSoFar
<1>5. n \in Nat /\ n <= MaxOpen /\ MaxOpen \in Nat
  BY <1>2, FS_CardinalityType, AccountAssumption DEF SlotsKept
<1> HIDE DEF f, g, h, n
<1>6. SumFunction(h) = SumFunction(g) - SumFunction(f)
  BY <1>2, FunSumMinus
<1>7. SumFunction(h) <= d * n
  <2> HIDE DEF d
  <2> QED BY <1>1, <1>2, SumBound DEF n
<1>8. SumFunction(f) \in Int /\ SumFunction(g) \in Int /\ SumFunction(h) \in Int
  BY <1>2, FunSumInt
<1>9. d * n <= d * MaxOpen
  <2> DEFINE e == MaxOpen - n
  <2>1. e \in Nat /\ MaxOpen = n + e
    BY <1>5
  <2>2. d * e \in Nat /\ d * n \in Nat /\ d * MaxOpen = d * n + d * e
    <3> HIDE DEF d, e
    <3> QED BY <1>1, <1>5, <2>1
  <2> HIDE DEF d, e
  <2> QED BY <2>2
<1>10. MaxOpen * (Instant' - TestStart) = MaxOpen * (Instant - TestStart) + d * MaxOpen
       /\ MaxOpen * (Instant - TestStart) \in Int /\ d * MaxOpen \in Int /\ d * n \in Int
  <2> DEFINE a == Instant - TestStart
             b == Instant' - TestStart
  <2>1. a \in Int /\ b = a + d
    BY <1>1
  <2> HIDE DEF a, b, d
  <2>2. MaxOpen * b = MaxOpen * a + d * MaxOpen /\ MaxOpen * a \in Int /\ d * MaxOpen \in Int /\ d * n \in Int
    BY <1>1, <1>5, <2>1
  <2> QED BY <2>2 DEF a, b
<1>11. Held + HeldSoFar <= MaxOpen * (Instant - TestStart)
  BY <1>1 DEF TimeKept
<1>12. Held' + HeldSoFar' <= MaxOpen * (Instant' - TestStart)
  <2> DEFINE u == MaxOpen * (Instant - TestStart)
             v == MaxOpen * (Instant' - TestStart)
             w == d * MaxOpen
             x == d * n
  <2>1. v = u + w /\ u \in Int /\ w \in Int /\ x \in Int /\ x <= w /\ SumFunction(h) <= x
        /\ Held + SumFunction(f) <= u
    BY <1>4, <1>7, <1>9, <1>10, <1>11
  <2> HIDE DEF u, v, w, x, d
  <2>2. Held + SumFunction(g) <= v
    BY <1>3, <1>6, <1>8, <2>1
  <2> QED BY <1>3, <1>4, <2>2 DEF v
<1> QED BY <1>12 DEF TimeKept, TestStart

\* A fill starts a position's time at nought.
LEMMA TimeFills ==
  ASSUME IInv, TimeKept, [Next]_vars, phase' # "aborted", NEW k \in Keys, FilledAt(k)
  PROVE  TimeKept'
<1> DEFINE f == [j \in HeldKeys |-> Instant - positions[j].entryTs]
           g == [j \in HeldKeys \cup {k} |-> Instant - positions'[j].entryTs]
<1>1. /\ phase = "fill" /\ HeldKeys' = HeldKeys \cup {k} /\ UNCHANGED trades
      /\ positions'[k].entryTs = OpenTs[now] /\ \A j \in HeldKeys : positions'[j] = positions[j]
      /\ k \in ReservedKeys
  BY DEF FilledAt, ReservedKeys
<1>2. phase # "aborted" /\ Instant' = Instant /\ Instant = OpenTs[now]
  BY <1>1, InstantStep DEF Instant
<1>3. k \notin HeldKeys
  BY <1>1 DEF IInv, AccountInv, Booked
<1>4. /\ IsFiniteSet(HeldKeys) /\ f \in [HeldKeys -> Int] /\ Instant \in Nat
      /\ \A j \in HeldKeys : positions[j].entryTs \in Nat
  BY HeldTyped
<1>5. Held' = Held /\ HeldSoFar = SumFunction(f) /\ Held \in Int /\ HeldSoFar \in Int
  BY <1>1, HeldTyped DEF Held, HeldSoFar
<1>6. HeldSoFar' = SumFunction(g)
  BY <1>1, <1>2 DEF HeldSoFar
<1>7. g \in [HeldKeys \cup {k} -> Int] /\ g[k] = 0 /\ \A j \in HeldKeys : f[j] = g[j]
  BY <1>1, <1>2, <1>3, <1>4
<1> HIDE DEF f, g
<1>8. SumFunction(g) = SumFunction(f) + g[k]
  <2>1. IsFiniteSet(HeldKeys) /\ f \in [HeldKeys -> Int] /\ g \in [HeldKeys \cup {k} -> Int]
    BY <1>4, <1>7
  <2>2. \A j \in HeldKeys : f[j] = g[j]
    BY <1>7
  <2> QED BY <1>3, <2>1, <2>2, FunSumExtend
<1>9. HeldSoFar' = HeldSoFar
  BY <1>5, <1>6, <1>7, <1>8
<1> QED BY <1>2, <1>5, <1>9 DEF TimeKept, TestStart

\* An exit turns the time so far into the trade's.
LEMMA TimeEnds ==
  ASSUME IInv, IInv', SignalInv, Punctual, TimeKept, [Next]_vars, phase' # "aborted",
         NEW k \in Keys, TradedAt(k)
  PROVE  TimeKept'
<1> DEFINE o == positions[k].intent.ordinal
<1>1. PICK u \in Trades : SameFill(u.position, positions[k]) /\ trades' = trades \cup {u}
  BY DEF TradedAt
<1>2. k \in HeldKeys /\ HeldKeys' = HeldKeys \ {k}
      /\ \A j \in HeldKeys \ {k} : SameFill(positions'[j], positions[j])
  BY DEF TradedAt, Holds
<1>3. u \notin trades
  <2>1. o \in HeldOrdinals
    BY <1>2 DEF HeldOrdinals
  <2>2. HeldOrdinals \cap TradedOrdinals = {}
    BY DEF SignalInv, OnePlace, Places
  <2>3. u \in trades => o \in TradedOrdinals
    BY <1>1 DEF TradedOrdinals, SameFill
  <2> QED BY <2>1, <2>2, <2>3
<1>4. PICK t : /\ t.ordinal = tradeOrdinal /\ trades' = trades \cup {t}
               /\ t.exitTs = Instant /\ UNCHANGED <<phase, now>>
  BY <1>1, <1>3, TradeStep
<1>5. t = u
  BY <1>1, <1>3, <1>4
<1>6. Instant' = Instant /\ phase # "aborted" /\ Instant \in Nat
  BY <1>4, HeldTyped DEF Instant
<1> DEFINE F == [x \in trades |-> x.exitTs - x.position.entryTs]
           G == [x \in trades \cup {u} |-> x.exitTs - x.position.entryTs]
           rest == HeldKeys \ {k}
           f == [j \in HeldKeys |-> Instant - positions[j].entryTs]
           g == [j \in rest |-> Instant - positions'[j].entryTs]
<1>7. /\ IsFiniteSet(trades) /\ F \in [trades -> Int] /\ Held = SumFunction(F) /\ Held \in Int
      /\ IsFiniteSet(HeldKeys) /\ f \in [HeldKeys -> Int] /\ HeldSoFar = SumFunction(f) /\ HeldSoFar \in Int
      /\ \A j \in HeldKeys : positions[j].entryTs \in Nat
  BY HeldTyped DEF Held, HeldSoFar
<1>8. u.exitTs \in Nat /\ u.position.entryTs = positions[k].entryTs /\ u.exitTs = Instant
  BY <1>1, <1>4, <1>5, <1>6 DEF SameFill
<1>9. Held' = SumFunction(G)
  BY <1>1 DEF Held
<1>10. G \in [trades \cup {u} -> Int] /\ G[u] = f[k] /\ \A x \in trades : F[x] = G[x]
  <2>1. G[u] = u.exitTs - u.position.entryTs /\ f[k] = Instant - positions[k].entryTs
    BY <1>2
  <2>2. \A x \in trades : F[x] = G[x] /\ F[x] \in Int
    BY <1>7
  <2>3. f[k] \in Int
    BY <1>2, <1>7
  <2>4. \A x \in trades \cup {u} : G[x] \in Int
    BY <1>8, <2>1, <2>2, <2>3
  <2>5. G \in [trades \cup {u} -> Int]
    BY <2>4
  <2> QED BY <1>8, <2>1, <2>2, <2>5
<1>11. HeldSoFar' = SumFunction(g)
  BY <1>2, <1>6 DEF HeldSoFar
<1>12. g \in [rest -> Int] /\ IsFiniteSet(rest) /\ k \notin rest /\ HeldKeys = rest \cup {k}
       /\ \A j \in rest : g[j] = f[j]
  <2>1. \A j \in rest : positions'[j].entryTs = positions[j].entryTs
    BY <1>2 DEF SameFill
  <2>2. \A j \in rest : g[j] = f[j] /\ g[j] \in Int
    BY <1>6, <1>7, <2>1
  <2> QED BY <1>2, <1>7, <2>2, FS_Subset
<1> HIDE DEF F, G, f, g, rest
<1>13. SumFunction(G) = SumFunction(F) + G[u]
  <2>1. IsFiniteSet(trades) /\ F \in [trades -> Int] /\ G \in [trades \cup {u} -> Int]
    BY <1>7, <1>10
  <2>2. \A x \in trades : F[x] = G[x]
    BY <1>10
  <2> QED BY <1>3, <2>1, <2>2, FunSumExtend
<1>14. SumFunction(f) = SumFunction(g) + f[k]
  <2>1. f \in [rest \cup {k} -> Int]
    BY <1>7, <1>12
  <2> QED BY <1>12, <2>1, FunSumExtend
<1>15. SumFunction(g) \in Int /\ f[k] \in Int
  BY <1>2, <1>7, <1>12, FunSumInt
<1>16. Held' + HeldSoFar' = Held + HeldSoFar
  BY <1>7, <1>9, <1>10, <1>11, <1>13, <1>14, <1>15
<1> QED BY <1>6, <1>16 DEF TimeKept, TestStart

\* The time in positions stays within the slots.
LEMMA TimeNext ==
  IInv /\ SignalInv /\ Punctual /\ SlotsKept /\ TimeKept /\ [Next]_vars => TimeKept'
<1> SUFFICES ASSUME IInv, SignalInv, Punctual, SlotsKept, TimeKept, [Next]_vars, phase' # "aborted"
             PROVE  TimeKept'
  BY DEF TimeKept
<1>1. IInv'
  BY NextInv
<1>2. ASSUME NEW k \in Keys, FilledAt(k) PROVE TimeKept'
  BY <1>2, TimeFills
<1>3. ASSUME NEW k \in Keys, TradedAt(k) PROVE TimeKept'
  BY <1>1, <1>3, TimeEnds
<1>4. ASSUME UNCHANGED trades, Holds(HeldKeys) PROVE TimeKept'
  <2>1. HeldKeys' = HeldKeys /\ \A k \in HeldKeys : positions'[k].entryTs = positions[k].entryTs
    BY <1>4 DEF Holds, SameFill
  <2> QED BY <1>1, <1>4, <2>1, TimePasses
<1>5. ASSUME NEW k \in Keys, SeatedAt(k) \/ RefusedAtBirth(k) \/ ReservedAt(k) \/ RefusedAt(k)
      PROVE  UNCHANGED trades /\ Holds(HeldKeys)
  BY <1>5 DEF SeatedAt, RefusedAtBirth, ReservedAt, RefusedAt, Holds, HeldKeys, SameFill
<1>6. Stays => UNCHANGED trades /\ Holds(HeldKeys)
  BY DEF Stays
<1>7. SignalStep
  BY EveryStep
<1> QED BY <1>2, <1>3, <1>4, <1>5, <1>6, <1>7 DEF SignalStep

\* A step that moves neither cash, positions nor bars leaves the marked equity.
LEMMA EquityStays ==
  ASSUME UNCHANGED <<settled, credits, positions, bars>>
  PROVE  Equity(ClosePrices)' = Equity(ClosePrices) /\ HeldKeys' = HeldKeys
<1>1. HeldKeys' = HeldKeys /\ ClosePrices' = ClosePrices /\ Unsettled' = Unsettled
  BY DEF HeldKeys, ClosePrices, Unsettled, AmountOf
<1>2. [k \in HeldKeys |-> LiquidationValue(positions[k], ClosePrices[SymbolOf(k)])]'
        = [k \in HeldKeys |-> LiquidationValue(positions[k], ClosePrices[SymbolOf(k)])]
  BY <1>1 DEF LiquidationValue, ExitFill, Charge, SymbolOf
<1> QED BY <1>1, <1>2 DEF Equity

\* An account without positions is worth its cash, whatever the prices.
LEMMA CashAlone ==
  ASSUME IInv, HeldKeys = {}
  PROVE  Equity(ClosePrices) = settled + Unsettled
<1>1. SumFunction([k \in {} |-> LiquidationValue(positions[k], ClosePrices[SymbolOf(k)])]) = 0
  BY FS_EmptySet, FunSumZero, Zenon
<1>2. settled + Unsettled \in Int
  BY AmountTyped DEF IInv, AccountInv, AccountOK, Unsettled
<1>3. Equity(ClosePrices) = settled + Unsettled + 0
  BY <1>1 DEF Equity
<1> QED BY <1>2, <1>3

\* The window closes at the equity of its last close mark.
LEMMA ClosingNext == IInv /\ Punctual /\ Marked /\ Closing /\ [Next]_vars => Closing'
<1> SUFFICES ASSUME IInv, Punctual, Marked, Closing, [Next]_vars PROVE Closing'
  OBVIOUS
<1>1. now \in 1..NTest /\ NTest \in Nat \ {0} /\ Len(marks) \in Nat /\ marks \in Seq(Nat \X Int)
  BY ScheduleAssumption DEF IInv, RunOK
<1>2. CASE CloseMark
  <2>1. CASE phase' = "settle"
    BY <2>1 DEF Closing
  <2>2. CASE phase' # "settle"
    <3>1. /\ marks' = Append(marks, <<CloseTs[now], Equity(ClosePrices)>>) /\ phase = "mark"
          /\ phase' = "expire" /\ now = NTest /\ UNCHANGED <<settled, credits, positions, bars>>
      BY <1>2, <2>2 DEF CloseMark, Mark, ledgerVars
    <3>2. Len(marks) = NTest
      BY <3>1 DEF Marked, Running, Phases
    <3>3. marks'[NTest + 1] = <<CloseTs[now], Equity(ClosePrices)>>
      BY <1>1, <3>1, <3>2
    <3>4. Equity(ClosePrices)' = EquityAt(NTest + 1)'
      <4>1. Equity(ClosePrices)' = Equity(ClosePrices)
        BY <3>1, EquityStays
      <4>2. EquityAt(NTest + 1)' = Equity(ClosePrices)
        <5> DEFINE e == Equity(ClosePrices)
        <5>1. marks'[NTest + 1] = <<CloseTs[now], e>>
          BY <3>3
        <5> HIDE DEF e
        <5>2. marks'[NTest + 1][2] = e
          BY <5>1
        <5> QED BY <5>2 DEF EquityAt, e
      <4> QED BY <4>1, <4>2
    <3> QED BY <3>1, <3>4 DEF Closing
  <2> QED BY <2>1, <2>2
<1>3. ASSUME NEW k \in Keys, Expire(k) PROVE Closing'
  <2>1. UNCHANGED <<settled, credits, positions, bars, marks, phase>> /\ phase = "expire"
    BY <1>3 DEF Expire, Reject
  <2> QED BY <2>1, EquityStays DEF Closing, EquityAt
<1>4. CASE FinishStep
  <2>1. UNCHANGED <<settled, credits, positions, bars, marks, now>> /\ visit = {}
    BY <1>4 DEF FinishStep, ledgerVars
  <2>2. /\ phase' \notin {"expire", "done"}
        /\ phase' = "liquidate" => phase = "expire" /\ visit' = HeldKeys
        /\ phase' = "final" => phase = "liquidate"
    BY <1>4 DEF FinishStep
  <2> QED BY <2>1, <2>2, EquityStays DEF Closing, EquityAt
<1>5. ASSUME NEW k \in Keys, Liquidate(k) PROVE Closing'
  <2>1. /\ phase = "liquidate" /\ phase' = "liquidate" /\ visit' = visit \ {k}
        /\ UNCHANGED <<bars, marks>> /\ HeldKeys \subseteq visit
    BY <1>5 DEF Liquidate, Closing
  <2>2. PICK m : m = ClosePrices
    OBVIOUS
  <2>3. Equity(m)' = Equity(m)
    BY <1>5, <2>2, LiquidateAtMark
  <2>4. ClosePrices' = m
    BY <2>1, <2>2 DEF ClosePrices
  <2>5. Equity(ClosePrices)' = Equity(ClosePrices)
    BY <2>2, <2>3, <2>4 DEF Equity
  <2>6. HeldKeys' \subseteq visit \ {k}
    <3>1. SettleOut(positions[k], BarOf(k).close, TestEnd, "end_of_window") /\ k \in visit
      BY <1>5 DEF Liquidate, NextPosition, FirstOf
    <3>2. k \in HeldKeys /\ positions[k].intent.key = k
      BY <2>1, <3>1, HeldPosition DEF IInv, Visiting
    <3>3. positions' = [positions EXCEPT ![k] = None]
      BY <3>1, <3>2 DEF SettleOut, Close
    <3> QED BY <2>1, <3>3 DEF HeldKeys, IInv, AccountInv, AccountOK
  <2>7. Equity(ClosePrices) = EquityAt(NTest + 1)
    BY <2>1 DEF Closing
  <2> QED BY <2>1, <2>5, <2>6, <2>7 DEF Closing, EquityAt
<1>6. CASE FinalMark
  <2>1. /\ marks' = Append(marks, <<TestEnd, Equity(ClosePrices)>>) /\ phase = "final" /\ phase' = "done"
        /\ UNCHANGED <<settled, credits, positions, bars, now>>
    BY <1>6 DEF FinalMark, Mark, ledgerVars
  <2>2. Len(marks) = NTest + 1 /\ now = NTest /\ HeldKeys = {} /\ Equity(ClosePrices) = EquityAt(NTest + 1)
    BY <2>1 DEF Marked, Closing
  <2>3. Equity(ClosePrices) = settled + Unsettled
    BY <2>2, CashAlone
  <2>4. marks'[NTest + 2] = <<TestEnd, Equity(ClosePrices)>> /\ marks'[NTest + 1] = marks[NTest + 1]
    BY <1>1, <2>1, <2>2
  <2>5. EquityAt(NTest + 2)' = settled + Unsettled /\ EquityAt(NTest + 1)' = settled + Unsettled
    <3> DEFINE e == Equity(ClosePrices)
               c == settled + Unsettled
    <3>1. e = c /\ marks[NTest + 1][2] = e
      BY <2>2, <2>3 DEF EquityAt
    <3>2. marks'[NTest + 2] = <<TestEnd, e>> /\ marks'[NTest + 1] = marks[NTest + 1]
      BY <2>4
    <3> HIDE DEF e, c
    <3>3. marks'[NTest + 2][2] = c /\ marks'[NTest + 1][2] = c
      BY <3>1, <3>2
    <3> QED BY <3>3 DEF EquityAt, c
  <2>6. Unsettled' = Unsettled /\ HeldKeys' = {}
    BY <2>1, <2>2 DEF Unsettled, AmountOf, HeldKeys
  <2> QED BY <2>1, <2>2, <2>5, <2>6 DEF Closing
<1>7. CASE UNCHANGED vars \/ Finished
  <2>1. UNCHANGED <<settled, credits, positions, bars, marks, now, phase, visit>>
    BY <1>7 DEF Finished, vars, runVars, ledgerVars
  <2>2. Unsettled' = Unsettled
    BY <2>1 DEF Unsettled, AmountOf
  <2> QED BY <2>1, <2>2, EquityStays DEF Closing, EquityAt
<1>8. ASSUME phase' \notin {"expire", "liquidate", "final", "done"} PROVE Closing'
  BY <1>8 DEF Closing
<1>9. ASSUME OpeningMark \/ SettleAtOpen \/ Freeze \/ ObserveSurvivors \/ AbortAtMark
             \/ \E k \in Keys : \/ GapExit(k) \/ Fund(k) \/ Fill(k) \/ Protect(k) \/ Evaluated(k) \/ AbortAtFill(k)
                                \/ (\E d \in Decisions : Manage(k, d)) \/ \E s \in SignalShapes : RecordSignal(k, s)
      PROVE phase' \notin {"expire", "liquidate", "final", "done"}
  BY <1>9 DEF OpeningMark, SettleAtOpen, Freeze, ObserveSurvivors, AbortAtMark, Abort, GapExit, Fund, Fill, Protect,
       Evaluated, AbortAtFill, Manage, RecordSignal
<1> QED BY <1>2, <1>3, <1>4, <1>5, <1>6, <1>7, <1>8, <1>9 DEF Next

\* What the lenses share holds before the first mark,
LEMMA LensInit == Init => LensInv
<1> SUFFICES ASSUME Init PROVE LensInv
  OBVIOUS
<1>1. /\ ReservedKeys = {} /\ HeldKeys = {} /\ trades = {} /\ phase = "anchor" /\ now = 1
  BY DEF Init, LedgerInit, ReservedKeys, HeldKeys
<1>2. Cardinality(HeldKeys) = 0 /\ MaxOpen \in Nat
  BY <1>1, FS_EmptySet, AccountAssumption
<1>3. Held = 0 /\ HeldSoFar = 0
  <2>1. SumFunction([t \in {} |-> t.exitTs - t.position.entryTs]) = 0
    BY FS_EmptySet, FunSumZero, Zenon
  <2>2. SumFunction([k \in {} |-> Instant - positions[k].entryTs]) = 0
    BY FS_EmptySet, FunSumZero, Zenon
  <2> QED BY <1>1, <2>1, <2>2 DEF Held, HeldSoFar
<1>4. Instant = TestStart /\ TestStart \in Nat
  BY <1>1, ScheduleAssumption DEF Instant, TestStart
<1>5. TimeKept
  BY <1>2, <1>3, <1>4 DEF TimeKept
<1> QED BY <1>1, <1>2, <1>5 DEF LensInv, Reckoned, SlotsKept, Closing

\* and at every step to the last.
LEMMA LensInductive == Spec => []LensInv
<1>1. IInv /\ SignalInv /\ Punctual /\ ReportInv /\ LensInv /\ [Next]_vars => LensInv'
  BY ReckonedNext, SlotsNext, TimeNext, ClosingNext DEF LensInv, ReportInv
<1> QED BY <1>1, LensInit, Inductive, SignalsInductive, PunctualInductive, ReportInductive, PTL DEF Spec

-----------------------------------------------------------------------------
(* The lenses, one by one. *)

\* The curve starts at the request's equity and ends at the cash of an account
\* that holds nothing, which is what its trades made of it.
LEMMA CurveGains ==
  ASSUME IInv, Marked, LensInv, phase = "done"
  PROVE  /\ StartingMark = StartingEquity /\ StartingEquity \in Int
         /\ EndingMark = EquityAt(NTest + 1) /\ EndingMark \in Int
         /\ SumFunction([t \in trades |-> t.net]) \in Int
         /\ EndingMark - StartingMark = SumFunction([t \in trades |-> t.net])
<1> DEFINE s == settled
           u == Unsettled
           n == SumFunction([t \in trades |-> t.net])
<1>1. Len(marks) = NTest + 2 /\ StartingMark = StartingEquity
  BY CurveAligned
<1>2. HeldKeys = {} /\ ReservedKeys = {} /\ \A m \in {NTest + 1, NTest + 2} : EquityAt(m) = s + u
  BY DEF LensInv, Closing, IInv, Visiting
<1>3. s \in Int /\ u \in Int /\ n \in Int /\ StartingEquity \in Int
  BY AmountTyped, TradeSumTyped, AccountAssumption DEF IInv, AccountInv, AccountOK, Unsettled
<1>4. CommittedCash = 0
  <2> DEFINE c == [k \in Keys |-> CommittedAt(k)]
  <2>1. \A k \in Keys : CommittedAt(k) = 0 + 0
    BY <1>2 DEF CommittedAt, HeldKeys, ReservedKeys
  <2>2. c \in [Keys -> Int] /\ \A k \in Keys : c[k] = 0
    BY <2>1
  <2> HIDE DEF c
  <2>3. SumFunction(c) = 0
    BY <2>2, KeysFinite, FunSumZero
  <2> QED BY <2>3 DEF CommittedCash, c
<1>5. EndingMark = s + u /\ EquityAt(NTest + 1) = s + u
  BY <1>1, <1>2 DEF EndingMark
<1>6. s + u + 0 = StartingEquity + n
  BY <1>4 DEF IInv, AccountInv, CashConserved
<1> HIDE DEF s, u, n
<1>7. EndingMark \in Int /\ EndingMark - StartingMark = n
  BY <1>1, <1>3, <1>5, <1>6
<1> QED BY <1>1, <1>3, <1>5, <1>7 DEF n

\* What one trade adds to each field of a cohort.
Fields == {"n", "wins", "profit", "loss", "preCost", "fees"}
Share(field, t) ==
  CASE field = "n"       -> 1
    [] field = "wins"    -> IF t.net > 0 THEN 1 ELSE 0
    [] field = "profit"  -> IF t.net > 0 THEN t.net ELSE 0
    [] field = "loss"    -> IF t.net < 0 THEN - t.net ELSE 0
    [] field = "preCost" -> GrossPnl(t.position, t.exit)
    [] field = "fees"    -> Fees(t)
Shares(field) == [t \in trades |-> Share(field, t)]

\* The terms of every lens's sums are integers.
LEMMA SharesTyped ==
  ASSUME IInv
  PROVE  /\ IsFiniteSet(trades)
         /\ \A t \in trades : /\ t.net \in Int /\ Fees(t) \in Int /\ GrossPnl(t.position, t.exit) \in Int
                              /\ t.position.intent.key \in Keys /\ t.position.intent.dir \in Directions
         /\ \A field \in Fields : Shares(field) \in [trades -> Int]
<1>1. IsFiniteSet(trades) /\ trades \subseteq Trades
  BY DEF IInv, AccountInv, AccountOK
<1>2. ASSUME NEW t \in trades
      PROVE /\ t.net \in Int /\ Fees(t) \in Int /\ GrossPnl(t.position, t.exit) \in Int
            /\ t.position.intent.key \in Keys /\ t.position.intent.dir \in Directions
  <2>1. /\ t.net \in Int /\ t.exit \in Int /\ t.position \in Positions /\ t.position.qty \in Nat
        /\ t.position.fee \in Int /\ t.position.intent \in Intents
    BY <1>1 DEF Trades, Positions
  <2>2. GrossPnl(t.position, t.exit) \in Int /\ Charge(t.position.qty) \in Nat
    BY <2>1, ProfitTyped, ChargeTyped
  <2> QED BY <2>1, <2>2 DEF Fees, Intents
<1>3. ASSUME NEW field \in Fields, NEW t \in trades PROVE Share(field, t) \in Int
  BY <1>2, <1>3 DEF Share, Fields
<1> QED BY <1>1, <1>2, <1>3 DEF Shares

\* Every field of a cohort is the sum of what its trades add to it.
LEMMA CohortIsSum ==
  ASSUME IInv, NEW rows \in SUBSET trades, NEW field \in Fields
  PROVE  Cohort(rows)[field] = SumFunctionOnSet(Shares(field), rows)
<1> DEFINE w == [t \in rows |-> Share(field, t)]
           wins == {t \in rows : t.net > 0}
           losses == {t \in rows : t.net < 0}
<1>1. /\ IsFiniteSet(rows) /\ IsFiniteSet(wins) /\ IsFiniteSet(losses)
      /\ wins \in SUBSET rows /\ losses \in SUBSET rows
      /\ \A t \in rows : t.net \in Int /\ Share(field, t) \in Int /\ Shares(field)[t] = Share(field, t)
  BY SharesTyped, FS_Subset DEF Shares
<1>2. w \in [rows -> Int] /\ DOMAIN w = rows /\ \A t \in rows : w[t] = Share(field, t)
  BY <1>1
<1> HIDE DEF w
<1>3. SumFunction(w) = SumFunctionOnSet(Shares(field), rows)
  <2>1. \A t \in rows : w[t] = Shares(field)[t]
    BY <1>1, <1>2
  <2>2. SumFunctionOnSet(w, rows) = SumFunctionOnSet(Shares(field), rows)
    BY <1>1, <2>1, SumSame
  <2> QED BY <1>2, <2>2 DEF SumFunction
<1>4. CASE field = "n"
  <2>1. \A t \in rows : w[t] = 1
    BY <1>2, <1>4 DEF Share
  <2>2. Cardinality(rows) = SumFunction(w)
    BY <1>1, <1>2, <2>1, CountIsSum
  <2> QED BY <1>3, <1>4, <2>2 DEF Cohort
<1>5. CASE field = "wins"
  <2> DEFINE g == [t \in wins |-> 1]
  <2>1. g \in [wins -> Int] /\ \A t \in wins : g[t] = 1
    OBVIOUS
  <2>2. (\A t \in wins : w[t] = 1) /\ \A t \in rows \ wins : w[t] = 0
    BY <1>2, <1>5 DEF Share
  <2>3. Cohort(rows).wins = Cardinality(wins)
    BY DEF Cohort
  <2> HIDE DEF g, wins
  <2>4. Cardinality(wins) = SumFunction(g)
    BY <1>1, <2>1, CountIsSum
  <2>5. SumFunction(w) = SumFunction(g)
    <3>1. \A t \in wins : g[t] = w[t]
      BY <2>1, <2>2
    <3> QED BY <1>1, <1>2, <2>1, <2>2, <3>1, FunSumPart
  <2> QED BY <1>3, <1>5, <2>3, <2>4, <2>5
<1>6. CASE field = "profit"
  <2> DEFINE g == [t \in wins |-> t.net]
  <2>1. g \in [wins -> Int] /\ \A t \in wins : g[t] = t.net
    BY <1>1
  <2>2. (\A t \in wins : w[t] = t.net) /\ \A t \in rows \ wins : w[t] = 0
    BY <1>1, <1>2, <1>6 DEF Share
  <2>3. Cohort(rows).profit = SumFunction(g)
    BY DEF Cohort
  <2> HIDE DEF g, wins
  <2>4. SumFunction(w) = SumFunction(g)
    <3>1. \A t \in wins : g[t] = w[t]
      BY <2>1, <2>2
    <3> QED BY <1>1, <1>2, <2>1, <2>2, <3>1, FunSumPart
  <2> QED BY <1>3, <1>6, <2>3, <2>4
<1>7. CASE field = "loss"
  <2> DEFINE g == [t \in losses |-> - t.net]
  <2>1. g \in [losses -> Int] /\ \A t \in losses : g[t] = - t.net
    BY <1>1
  <2>2. (\A t \in losses : w[t] = - t.net) /\ \A t \in rows \ losses : w[t] = 0
    BY <1>1, <1>2, <1>7 DEF Share
  <2>3. Cohort(rows).loss = SumFunction(g)
    BY DEF Cohort
  <2> HIDE DEF g, losses
  <2>4. SumFunction(w) = SumFunction(g)
    <3>1. \A t \in losses : g[t] = w[t]
      BY <2>1, <2>2
    <3> QED BY <1>1, <1>2, <2>1, <2>2, <3>1, FunSumPart
  <2> QED BY <1>3, <1>7, <2>3, <2>4
<1>8. CASE field = "preCost"
  <2>1. w = [t \in rows |-> GrossPnl(t.position, t.exit)]
    BY <1>8 DEF w, Share
  <2> QED BY <1>3, <1>8, <2>1 DEF Cohort
<1>9. CASE field = "fees"
  <2>1. w = [t \in rows |-> Fees(t)]
    BY <1>9 DEF w, Share
  <2> QED BY <1>3, <1>9, <2>1 DEF Cohort
<1> QED BY <1>4, <1>5, <1>6, <1>7, <1>8, <1>9 DEF Fields

\* The slices partition the trades, and so do the two directions.
LEMMA CohortsPartition ==
  ASSUME IInv, NEW field \in Fields
  PROVE  /\ SumFunction([k \in Keys |-> Slice(k).cohort[field]]) = Cohort(trades)[field]
         /\ DirectionCohort("long")[field] + DirectionCohort("short")[field] = Cohort(trades)[field]
<1> DEFINE f == Shares(field)
           key == [t \in trades |-> t.position.intent.key]
           g == [k \in Keys |-> Slice(k).cohort[field]]
           Of(k) == {t \in trades : key[t] = k}
           long == {t \in trades : t.position.intent.dir = "long"}
           short == {t \in trades : t.position.intent.dir = "short"}
<1>1. /\ IsFiniteSet(trades) /\ (\A t \in trades : f[t] \in Int) /\ IsFiniteSet(Keys)
      /\ \A t \in trades : key[t] \in Keys /\ key[t] = t.position.intent.key
  BY SharesTyped, KeysFinite
<1>2. ASSUME NEW k \in Keys
      PROVE  g[k] = SumFunctionOnSet(f, Of(k)) /\ g[k] \in Int
  <2>1. Of(k) = {t \in trades : t.position.intent.key = k} /\ Of(k) \in SUBSET trades
    BY <1>1
  <2>2. g[k] = Cohort(Of(k))[field]
    BY <2>1 DEF Slice
  <2>3. IsFiniteSet(Of(k)) /\ \A t \in Of(k) : f[t] \in Int
    BY <1>1, <2>1, FS_Subset
  <2> HIDE DEF f, g, Of
  <2>4. g[k] = SumFunctionOnSet(f, Of(k))
    BY <2>1, <2>2, CohortIsSum DEF f
  <2> QED BY <2>3, <2>4, SumInt
<1>3. SumFunction(g) = SumFunctionOnSet(f, trades)
  <2>1. g \in [Keys -> Int] /\ \A k \in Keys : g[k] = SumFunctionOnSet(f, {t \in trades : key[t] = k})
    BY <1>2
  <2> HIDE DEF f, g, key
  <2> QED BY <1>1, <2>1, SumByPart
<1>4. Cohort(trades)[field] = SumFunctionOnSet(f, trades)
  <2>1. trades \in SUBSET trades
    OBVIOUS
  <2> QED BY <2>1, CohortIsSum
<1>5. long \in SUBSET trades /\ short \in SUBSET trades /\ trades \ long = short
  BY SharesTyped DEF Directions
<1>6. /\ DirectionCohort("long")[field] = SumFunctionOnSet(f, long)
      /\ DirectionCohort("short")[field] = SumFunctionOnSet(f, short)
  <2>1. DirectionCohort("long") = Cohort(long) /\ DirectionCohort("short") = Cohort(short)
    BY DEF DirectionCohort
  <2> HIDE DEF long, short
  <2> QED BY <1>5, <2>1, CohortIsSum
<1>7. SumFunctionOnSet(f, trades) = SumFunctionOnSet(f, long) + SumFunctionOnSet(f, trades \ long)
  <2> HIDE DEF f, long
  <2> QED BY <1>1, <1>5, SumSplit
<1> QED BY <1>3, <1>4, <1>5, <1>6, <1>7

\* Net is the trades' results, before costs less fees or profits less losses.
LEMMA NetIsSum ==
  ASSUME IInv, Reckoned
  PROVE  LET whole == Cohort(trades)
             net == SumFunction([t \in trades |-> t.net])
         IN  /\ Net(whole) = net
             /\ whole.profit - whole.loss = net
             /\ whole.profit \in Int /\ whole.loss \in Int
<1> DEFINE h == [t \in trades |-> t.net]
           F(field) == Shares(field)
           whole == Cohort(trades)
<1>1. /\ IsFiniteSet(trades) /\ h \in [trades -> Int]
      /\ \A field \in Fields : F(field) \in [trades -> Int]
  BY SharesTyped
<1>2. ASSUME NEW field \in Fields
      PROVE  whole[field] = SumFunction(F(field)) /\ SumFunction(F(field)) \in Int
  <2>1. trades \in SUBSET trades /\ DOMAIN F(field) = trades
    BY <1>1
  <2>2. whole[field] = SumFunctionOnSet(F(field), trades)
    BY <2>1, CohortIsSum
  <2> QED BY <1>1, <2>1, <2>2, FunSumInt DEF SumFunction
<1>3. \A t \in trades : h[t] = F("preCost")[t] - F("fees")[t]
  BY DEF Shares, Share, Reckoned
<1>4. \A t \in trades : h[t] = F("profit")[t] - F("loss")[t]
  BY SharesTyped DEF Shares, Share
<1>5. {"preCost", "fees", "profit", "loss"} \subseteq Fields
  BY DEF Fields
<1> HIDE DEF h, F, whole
<1>6. SumFunction(h) = SumFunction(F("preCost")) - SumFunction(F("fees"))
  BY <1>1, <1>3, <1>5, FunSumMinus
<1>7. SumFunction(h) = SumFunction(F("profit")) - SumFunction(F("loss"))
  BY <1>1, <1>4, <1>5, FunSumMinus
<1>8. /\ whole["preCost"] = SumFunction(F("preCost")) /\ whole["fees"] = SumFunction(F("fees"))
      /\ whole["profit"] = SumFunction(F("profit")) /\ whole["loss"] = SumFunction(F("loss"))
      /\ whole["profit"] \in Int /\ whole["loss"] \in Int
  BY <1>2, <1>5
<1> QED BY <1>6, <1>7, <1>8 DEF Net, whole, h

\* Every signal is a trade or a rejection of some key, for some reason.
LEMMA SignalsInSlices ==
  ASSUME IInv, SignalInv, Numbered, LensInv, phase = "done"
  PROVE  signalOrdinal = Cardinality(trades)
           + SumFunction([k \in Keys |-> SumFunction(Slice(k).rejections)])
<1> DEFINE e == [t \in trades |-> t.position.intent.ordinal]
           d == [r \in rejections |-> r.intent.ordinal]
           key == [r \in rejections |-> r.intent.key]
           Of(k) == {r \in rejections : key[r] = k}
           g == [k \in Keys |-> SumFunction(Slice(k).rejections)]
<1>1. /\ IsFiniteSet(trades) /\ IsFiniteSet(rejections) /\ signalOrdinal \in Nat
      /\ rejections \subseteq Rejections
  BY DEF Numbered, Counted, IInv, RunOK, AccountInv, AccountOK
<1>2. PendingOrdinals = {} /\ ReservedOrdinals = {} /\ HeldOrdinals = {}
  BY DEF SignalInv, SeatsAreCurrent, LensInv, Closing, IInv, Visiting, PendingOrdinals, ReservedOrdinals,
       HeldOrdinals
<1>3. TradedOrdinals \cup RejectedOrdinals = 0..(signalOrdinal - 1) /\ TradedOrdinals \cap RejectedOrdinals = {}
  BY <1>2 DEF SignalInv, OnePlace, Places
<1>4. TradedOrdinals = {e[t] : t \in trades} /\ RejectedOrdinals = {d[r] : r \in rejections}
  BY DEF TradedOrdinals, RejectedOrdinals
<1>5. /\ \A t, u \in trades : e[t] = e[u] => t = u
      /\ \A r, s \in rejections : d[r] = d[s] => r = s
  BY DEF SignalInv, Distinct
<1>6. /\ IsFiniteSet(TradedOrdinals) /\ Cardinality(TradedOrdinals) = Cardinality(trades)
      /\ IsFiniteSet(RejectedOrdinals) /\ Cardinality(RejectedOrdinals) = Cardinality(rejections)
  <2> HIDE DEF e, d
  <2> QED BY <1>1, <1>4, <1>5, CountImage
<1>7. Cardinality(0..(signalOrdinal - 1)) = signalOrdinal
  BY <1>1, FS_Interval
<1>8. signalOrdinal = Cardinality(trades) + Cardinality(rejections)
  <2>1. Cardinality(TradedOrdinals \cup RejectedOrdinals)
          = Cardinality(TradedOrdinals) + Cardinality(RejectedOrdinals)
    <3>1. Cardinality(TradedOrdinals \cap RejectedOrdinals) = 0
      BY <1>3, FS_EmptySet
    <3>2. Cardinality(TradedOrdinals) \in Nat /\ Cardinality(RejectedOrdinals) \in Nat
      BY <1>6, FS_CardinalityType
    <3>3. Cardinality(TradedOrdinals \cup RejectedOrdinals)
            = Cardinality(TradedOrdinals) + Cardinality(RejectedOrdinals)
                - Cardinality(TradedOrdinals \cap RejectedOrdinals)
      BY <1>6, FS_Union
    <3> QED BY <3>1, <3>2, <3>3
  <2> QED BY <1>3, <1>6, <1>7, <2>1
<1>9. ASSUME NEW k \in Keys PROVE g[k] = Cardinality(Of(k)) /\ g[k] \in Int
  <2> DEFINE why == [r \in Of(k) |-> r.reason]
             c == Slice(k).rejections
  <2>1. IsFiniteSet(Of(k)) /\ Cardinality(Of(k)) \in Nat
    BY <1>1, FS_Subset, FS_CardinalityType
  <2>2. \A r \in Of(k) : why[r] \in RejectionReasons
    BY <1>1 DEF Rejections
  <2>3. IsFiniteSet(RejectionReasons)
    <3>1. RejectionReasons =
            {"invalid_protective_geometry"} \cup {"zero_quantity"} \cup {"position_occupied"}
              \cup {"portfolio_capacity"} \cup {"unsettled_cash"} \cup {"pending_intent_occupied"}
              \cup {"window_ended"}
      BY DEF RejectionReasons
    <3> QED BY <3>1, AddFinite, FS_Singleton
  <2>4. ASSUME NEW why0 \in RejectionReasons
        PROVE  c[why0] = Cardinality({r \in Of(k) : why[r] = why0}) /\ c[why0] \in Int
    <3>1. {r \in Of(k) : why[r] = why0} = {r \in rejections : r.intent.key = k /\ r.reason = why0}
      OBVIOUS
    <3>2. c[why0] = Cardinality({r \in rejections : r.intent.key = k /\ r.reason = why0})
      BY DEF Slice
    <3>3. IsFiniteSet({r \in rejections : r.intent.key = k /\ r.reason = why0})
      BY <1>1, FS_Subset
    <3> DEFINE X == {r \in rejections : r.intent.key = k /\ r.reason = why0}
    <3>4. c[why0] = Cardinality(X) /\ Cardinality(X) \in Int
      <4> HIDE DEF c
      <4> QED BY <3>2, <3>3, FS_CardinalityType
    <3> HIDE DEF c, X
    <3> QED BY <3>1, <3>4 DEF X
  <2>5. c \in [RejectionReasons -> Int]
    <3>1. c = [x \in RejectionReasons |-> c[x]]
      BY DEF Slice
    <3> HIDE DEF c
    <3> QED BY <2>4, <3>1
  <2>6. g[k] = SumFunction(c)
    OBVIOUS
  <2> HIDE DEF c, why, g, Of
  <2>7. SumFunction(c) = Cardinality(Of(k))
    BY <2>1, <2>2, <2>3, <2>4, <2>5, CountByPart
  <2> QED BY <2>1, <2>6, <2>7
<1>10. SumFunction(g) = Cardinality(rejections)
  <2>1. \A r \in rejections : key[r] \in Keys
    BY <1>1 DEF Rejections, Intents
  <2>2. g \in [Keys -> Int] /\ \A k \in Keys : g[k] = Cardinality({r \in rejections : key[r] = k})
    BY <1>9
  <2> HIDE DEF g, key
  <2> QED BY <1>1, <2>1, <2>2, KeysFinite, CountByPart
<1> QED BY <1>8, <1>10

\* No position was held longer than the slots allow.
LEMMA HeldWithinSlots ==
  ASSUME IInv, LensInv, phase = "done"
  PROVE  Held <= MaxOpen * Elapsed
<1>1. HeldKeys = {} /\ now = NTest
  BY DEF LensInv, Closing
<1>2. HeldSoFar = 0
  <2>1. SumFunction([k \in {} |-> Instant - positions[k].entryTs]) = 0
    BY FS_EmptySet, FunSumZero, Zenon
  <2> QED BY <1>1, <2>1 DEF HeldSoFar
<1>3. Instant = TestEnd
  BY <1>1 DEF Instant, TestEnd
<1>4. Held + 0 <= MaxOpen * (Instant - TestStart) /\ Held \in Int
  BY <1>2, HeldTyped DEF LensInv, TimeKept
<1> QED BY <1>3, <1>4 DEF Elapsed

\* The days of a finished replay chain its start to its end: the sessions are
\* days up to the last, and the last one's last mark is the post-close one.
LEMMA DaysChain ==
  ASSUME IInv, Marked, phase = "done"
  PROVE  StartingMark + SumFunction([s \in TestSessions |-> DailyReturn(s)[1]]) = EndingMark
<1> DEFINE v == [s \in TestSessions |-> SessionEquity(s)]
           f == [s \in TestSessions |-> DailyReturn(s)[1]]
           end == DateOf(OpenTs[NTest])
           Earlier(s) == {x \in TestSessions : x < s}
<1>1. /\ NTest \in Nat \ {0} /\ NTest \in 1..NTest /\ end \in Nat /\ end \in TestSessions
      /\ Len(marks) = NTest + 2 /\ StartingMark \in Int
      /\ \A n \in 1..(NTest + 2) : EquityAt(n) \in Int
  <2>1. NTest \in 1..Len(OpenTs) /\ NTest \in Nat \ {0} /\ NTest \in 1..NTest
    BY ScheduleAssumption
  <2>2. end \in Nat
    BY <2>1, ScheduleAssumption, AccountAssumption
  <2>3. Len(marks) = NTest + 2 /\ StartingMark = StartingEquity
    BY CurveAligned
  <2>4. \A n \in 1..(NTest + 2) : EquityAt(n) \in Int
    BY <2>3 DEF IInv, RunOK, EquityAt
  <2>5. 1 \in 1..(NTest + 2)
    BY <2>1
  <2> QED BY <2>1, <2>2, <2>3, <2>4, <2>5 DEF TestSessions, StartingMark
<1>2. \A s \in TestSessions : s \in Nat /\ s <= end
  BY SessionMarks
<1>3. IsFiniteSet(TestSessions)
  <2>1. TestSessions \subseteq 0..end
    BY <1>1, <1>2
  <2>2. 0 \in Int /\ end \in Int
    BY <1>1
  <2> HIDE DEF end
  <2>3. IsFiniteSet(0..end)
    BY <2>2, FS_Interval
  <2> QED BY <2>1, <2>3, FS_Subset
<1>4. ASSUME NEW s \in TestSessions
      PROVE  Max(MarksIn(s)) \in MarksIn(s) /\ (\A n \in MarksIn(s) : n <= Max(MarksIn(s)))
             /\ MarksIn(s) \subseteq 2..(NTest + 2)
  <2>1. MarksIn(s) # {} /\ MarksIn(s) \subseteq 2..(NTest + 2)
    BY SessionMarks
  <2>2. MarksIn(s) \subseteq Nat /\ \A n \in MarksIn(s) : n <= NTest + 2
    BY <1>1, <2>1
  <2> QED BY <1>1, <2>1, <2>2, NatMax
<1>5. v \in [TestSessions -> Int]
  <2>1. ASSUME NEW s \in TestSessions PROVE SessionEquity(s) \in Int
    <3>1. Max(MarksIn(s)) \in 1..(NTest + 2)
      BY <1>1, <1>4
    <3> QED BY <1>1, <3>1 DEF SessionEquity
  <2> QED BY <2>1
<1>6. \A s \in TestSessions :
        f[s] = v[s] - (IF Earlier(s) = {} THEN StartingMark ELSE v[Max(Earlier(s))])
  <2> SUFFICES ASSUME NEW s \in TestSessions
               PROVE  f[s] = v[s] - (IF Earlier(s) = {} THEN StartingMark ELSE v[Max(Earlier(s))])
    OBVIOUS
  <2>1. f[s] = SessionEquity(s) - PreviousEquity(s)
    BY DEF DailyReturn
  <2>2. PreviousEquity(s) = IF Earlier(s) = {} THEN StartingMark ELSE SessionEquity(Max(Earlier(s)))
    BY DEF PreviousEquity
  <2>3. Earlier(s) # {} => Max(Earlier(s)) \in TestSessions
    <3> SUFFICES ASSUME Earlier(s) # {} PROVE Max(Earlier(s)) \in TestSessions
      OBVIOUS
    <3>1. IsFiniteSet(Earlier(s)) /\ (\A x \in Earlier(s) : x \in Int) /\ Earlier(s) \subseteq TestSessions
      BY <1>2, <1>3, FS_Subset
    <3> HIDE DEF Earlier
    <3> QED BY <3>1, IntMax
  <2> HIDE DEF Earlier
  <2> QED BY <2>1, <2>2, <2>3
<1>7. f \in [TestSessions -> Int]
  <2>1. ASSUME NEW s \in TestSessions PROVE f[s] \in Int
    <3>1. Earlier(s) # {} => Max(Earlier(s)) \in TestSessions
      <4> SUFFICES ASSUME Earlier(s) # {} PROVE Max(Earlier(s)) \in TestSessions
        OBVIOUS
      <4>1. IsFiniteSet(Earlier(s)) /\ (\A x \in Earlier(s) : x \in Int) /\ Earlier(s) \subseteq TestSessions
        BY <1>2, <1>3, FS_Subset
      <4> HIDE DEF Earlier
      <4> QED BY <4>1, IntMax
    <3>2. v[s] \in Int /\ (Earlier(s) # {} => v[Max(Earlier(s))] \in Int)
      BY <1>5, <3>1
    <3>3. f[s] = v[s] - (IF Earlier(s) = {} THEN StartingMark ELSE v[Max(Earlier(s))])
      BY <1>6
    <3> HIDE DEF v, f, Earlier
    <3> QED BY <1>1, <3>2, <3>3
  <2>2. f = [s \in TestSessions |-> f[s]]
    OBVIOUS
  <2> HIDE DEF f
  <2> QED BY <2>1, <2>2
<1>8. Max(TestSessions) = end
  <2>1. (\A s \in TestSessions : s \in Int) /\ TestSessions # {}
    BY <1>1, <1>2
  <2>2. Max(TestSessions) \in TestSessions /\ \A s \in TestSessions : s <= Max(TestSessions)
    BY <1>3, <2>1, IntMax
  <2>3. Max(TestSessions) \in Nat /\ Max(TestSessions) <= end /\ end <= Max(TestSessions)
    BY <1>1, <1>2, <2>2
  <2> HIDE DEF end
  <2> QED BY <1>1, <2>3
<1>9. v[end] = EndingMark
  <2>1. NTest + 2 \in MarksIn(end)
    <3>1. marks[NTest + 2][1] = CloseTs[NTest] /\ NTest + 2 \in 1..Len(marks)
      <4>1. marks[NTest + 2][1] = InstantOf(NTest + 2) /\ NTest + 2 # 1 /\ NTest + 2 \in 1..(NTest + 2)
        BY <1>1, CurveAligned
      <4> QED BY <1>1, <4>1 DEF InstantOf, TestEnd
    <3>2. CloseTs[NTest] \in ClosesOf(end)
      BY <1>1 DEF ClosesOf
    <3> HIDE DEF end
    <3> QED BY <3>1, <3>2 DEF MarksIn
  <2> DEFINE m == Max(MarksIn(end))
  <2>2. m \in 2..(NTest + 2) /\ NTest + 2 <= m
    BY <1>1, <1>4, <2>1
  <2>3. v[end] = EquityAt(m)
    BY <1>1 DEF SessionEquity
  <2> HIDE DEF m, v, end
  <2>4. m = NTest + 2
    BY <1>1, <2>2
  <2> QED BY <1>1, <2>3, <2>4 DEF EndingMark
<1>10. SumFunction(f) = v[end] - StartingMark
  <2>1. \A s \in TestSessions : s \in Nat
    BY <1>2
  <2>2. \A s \in TestSessions : LET earlier == {x \in TestSessions : x < s}
                                IN  f[s] = v[s] - (IF earlier = {} THEN StartingMark ELSE v[Max(earlier)])
    BY <1>6
  <2>3. TestSessions # {} /\ StartingMark \in Int
    BY <1>1
  <2> DEFINE T == TestSessions
             start == StartingMark
  <2> HIDE DEF f, v, end, Earlier, T, start
  <2>4. SumFunction(f) = v[Max(T)] - start
    <3>1. IsFiniteSet(T) /\ T # {} /\ (\A s \in T : s \in Nat) /\ start \in Int
      BY <1>3, <2>1, <2>3 DEF T, start
    <3>2. v \in [T -> Int] /\ f \in [T -> Int]
      BY <1>5, <1>7 DEF T
    <3>3. \A s \in T : LET earlier == {x \in T : x < s}
                       IN  f[s] = v[s] - (IF earlier = {} THEN start ELSE v[Max(earlier)])
      BY <2>2 DEF T, start
    <3> QED BY <3>1, <3>2, <3>3, Telescope
  <2> QED BY <1>8, <2>4 DEF T, start
<1>11. v[end] \in Int
  BY <1>1, <1>5
<1> HIDE DEF v, end
<1> QED BY <1>1, <1>9, <1>10, <1>11

\* The post-close mark repeats the last close's: it is no deeper than that one.
LEMMA LastNoDeeper ==
  ASSUME IInv, Marked, LensInv, phase = "done"
  PROVE  \E n \in 1..(Len(marks) - 1) : ~ Deeper(Drawdown(Len(marks)), Drawdown(n))
<1> DEFINE n == NTest + 1
           points == {EquityAt(m) : m \in 1..n}
           all == {EquityAt(m) : m \in 1..(n + 1)}
           peak == Max(points)
<1>1. /\ NTest \in Nat \ {0} /\ n \in Nat \ {0} /\ Len(marks) = n + 1 /\ n + 1 = NTest + 2
      /\ EquityAt(n + 1) = EquityAt(n)
  <2>1. NTest \in Nat \ {0}
    BY ScheduleAssumption
  <2>2. Len(marks) = NTest + 2
    BY CurveAligned
  <2>3. EquityAt(NTest + 1) = settled + Unsettled /\ EquityAt(NTest + 2) = settled + Unsettled
    BY DEF LensInv, Closing
  <2>4. (NTest + 1) + 1 = NTest + 2
    BY <2>1
  <2> QED BY <2>1, <2>2, <2>3, <2>4
<1> HIDE DEF n
<1>2. \A m \in 1..(n + 1) : EquityAt(m) \in Int
  BY <1>1 DEF IInv, RunOK, EquityAt
<1>3. all = points
  <2>1. points \subseteq all
    BY <1>1
  <2>2. ASSUME NEW m \in 1..(n + 1) PROVE EquityAt(m) \in points
    <3>1. CASE m \in 1..n
      BY <3>1
    <3>2. CASE m = n + 1
      <4>1. n \in 1..n
        BY <1>1
      <4> QED BY <1>1, <3>2, <4>1
    <3> QED BY <1>1, <3>1, <3>2
  <2>3. all \subseteq points
    BY <2>2
  <2> QED BY <2>1, <2>3
<1>4. peak \in Int
  <2> DEFINE at == [m \in 1..n |-> EquityAt(m)]
  <2>1. IsFiniteSet(1..n)
    BY <1>1, FS_Interval
  <2>2. IsFiniteSet(points)
    <3>1. at \in Surjection(1..n, points)
      BY DEF Surjection
    <3> HIDE DEF at, points
    <3> QED BY <2>1, <3>1, FS_Surjection
  <2>3. points # {} /\ \A x \in points : x \in Int
    BY <1>1, <1>2
  <2> HIDE DEF points
  <2>4. peak \in points
    BY <2>2, <2>3, IntMax
  <2> QED BY <2>3, <2>4
<1>5. Drawdown(n) = <<peak - EquityAt(n), peak>>
  BY DEF Drawdown
<1>6. Drawdown(n + 1) = <<peak - EquityAt(n), peak>>
  <2>1. Drawdown(n + 1) = <<Max(all) - EquityAt(n + 1), Max(all)>>
    BY DEF Drawdown
  <2> HIDE DEF all, points
  <2> QED BY <1>1, <1>3, <2>1
<1>7. EquityAt(n) \in Int
  BY <1>1, <1>2
<1> HIDE DEF all, points, peak
<1>8. ~ Deeper(Drawdown(n + 1), Drawdown(n))
  <2>1. \A a, b \in Int : ~ (a * b > a * b)
    OBVIOUS
  <2> DEFINE gap == peak - EquityAt(n)
  <2>2. gap \in Int /\ Drawdown(n) = <<gap, peak>> /\ Drawdown(n + 1) = <<gap, peak>>
    BY <1>4, <1>5, <1>6, <1>7
  <2> HIDE DEF gap
  <2>3. ~ (gap * peak > gap * peak)
    BY <1>4, <2>1, <2>2
  <2> QED BY <2>2, <2>3 DEF Deeper
<1>9. n \in 1..(Len(marks) - 1)
  BY <1>1
<1> QED BY <1>1, <1>8, <1>9

\* The lenses of a finished replay agree.
LEMMA LensesAgree == ASSUME IInv, SignalInv, ReportInv, LensInv PROVE ResultReconciles
<1> SUFFICES ASSUME phase = "done" PROVE ResultReconciles
  BY DEF ResultReconciles, Reported
<1> DEFINE whole == Cohort(trades)
           Over(field) == SumFunction([k \in Keys |-> Slice(k).cohort[field]])
           net == SumFunction([t \in trades |-> t.net])
<1>1. Marked /\ Numbered /\ Reckoned
  BY DEF ReportInv, LensInv
<1>2. /\ StartingMark = StartingEquity /\ StartingMark \in Int /\ EndingMark \in Int
      /\ EndingMark - StartingMark = net /\ net \in Int
  BY <1>1, CurveGains
<1>3. /\ Net(whole) = net /\ whole.profit - whole.loss = net
      /\ whole.profit \in Int /\ whole.loss \in Int
  BY <1>1, NetIsSum
<1>4. DOMAIN whole = Fields
  BY DEF Cohort, Fields
<1>5. \A field \in Fields : /\ Over(field) = whole[field]
                            /\ DirectionCohort("long")[field] + DirectionCohort("short")[field] = whole[field]
  BY CohortsPartition
<1>6. signalOrdinal = whole.n + SumFunction([k \in Keys |-> SumFunction(Slice(k).rejections)])
  <2>1. whole.n = Cardinality(trades)
    BY DEF Cohort
  <2> HIDE DEF whole
  <2> QED BY <1>1, <2>1, SignalsInSlices
<1>7. Held <= MaxOpen * Elapsed
  BY HeldWithinSlots
<1>8. StartingMark + SumFunction([s \in TestSessions |-> DailyReturn(s)[1]]) = EndingMark
  BY <1>1, DaysChain
<1>9. \E n \in 1..(Len(marks) - 1) : ~ Deeper(Drawdown(Len(marks)), Drawdown(n))
  BY <1>1, LastNoDeeper
<1> HIDE DEF whole, Over, net
<1>10. ProfitFactorState(whole) = "infinite" => EndingMark > StartingMark
  <2> SUFFICES ASSUME ProfitFactorState(whole) = "infinite" PROVE EndingMark > StartingMark
    OBVIOUS
  <2>1. ~ (whole.loss > 0) /\ whole.profit > 0
    BY DEF ProfitFactorState
  <2> QED BY <1>2, <1>3, <2>1
<1>11. EndingMark - StartingMark = Net(whole) /\ Net(whole) = whole.profit - whole.loss
  BY <1>2, <1>3
<1>12. \A field \in DOMAIN whole :
         /\ Over(field) = whole[field]
         /\ DirectionCohort("long")[field] + DirectionCohort("short")[field] = whole[field]
  BY <1>4, <1>5
<1> QED BY <1>2, <1>6, <1>7, <1>8, <1>9, <1>10, <1>11, <1>12, Zenon DEF ResultReconciles, whole, Over

\* A reported result reconciles across its lenses, for every schedule, market
\* and set of strategies: the curve's gain is the trades' net result however it
\* is summed, every signal is in some slice, no capacity is exceeded in time, the
\* daily returns chain the start to the end, and the post-close mark is never
\* the only deepest.
THEOREM Reconciles == Spec => []ResultReconciles
<1>1. IInv /\ SignalInv /\ ReportInv /\ LensInv => ResultReconciles
  BY LensesAgree
<1> QED BY <1>1, Inductive, SignalsInductive, ReportInductive, LensInductive, PTL
=============================================================================
