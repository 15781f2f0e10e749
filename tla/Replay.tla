------------------------------- MODULE Replay -------------------------------
(***************************************************************************)
(* One portfolio replay: class _PortfolioRuntime of engine/execution.py,   *)
(* driving the account of module Ledger through every test interval.       *)
(*                                                                         *)
(* `phase` is the step of the chronology the run has reached and `visit`   *)
(* the keys that step has still to visit; a step visits them in the code's *)
(* canonical order, one action per key.  The market (the bars) and the     *)
(* strategies (signals, management decisions) are the environment: any     *)
(* bar of Bars, any signal of SignalShapes and any decision of Decisions   *)
(* that the strategy boundary accepts.                                     *)
(***************************************************************************)
EXTENDS Ledger, Sequences

CONSTANTS
  OpenTs, CloseTs,  \* the scheduled base intervals from test_start on, IC tail included
  NTest,            \* how many of them the test window holds
  Bars,             \* the bars the market may print
  SignalShapes,     \* the (direction, stop, target) a strategy may propose
  Decisions,        \* the decisions manage() may return
  MaxSignals        \* bound: signals per replay

NBase == Len(OpenTs)

ASSUME ScheduleAssumption ==
  /\ OpenTs \in Seq(Nat) /\ CloseTs \in Seq(Nat) /\ Len(CloseTs) = Len(OpenTs)
  /\ NTest \in 1..Len(OpenTs)
  /\ \A n \in 1..Len(OpenTs) :
       /\ OpenTs[n] < CloseTs[n]
       /\ DateOf(CloseTs[n]) = DateOf(OpenTs[n])
       /\ DateOf(OpenTs[n]) \in Sessions
  /\ \A n \in 1..(Len(OpenTs) - 1) : CloseTs[n] <= OpenTs[n + 1]

ASSUME EnvironmentAssumption ==
  /\ \A b \in Bars :
       /\ b \in [open: Nat \ {0}, high: Nat \ {0}, low: Nat \ {0}, close: Nat \ {0}]
       /\ b.low <= b.open /\ b.open <= b.high /\ b.low <= b.close /\ b.close <= b.high
  /\ SignalShapes \subseteq [dir: Directions, stop: Nat \ {0}, target: Nat \ {0}]
  /\ \A d \in Decisions :
       /\ d \in [stop: Int \cup {None}, target: Int \cup {None}, exit: BOOLEAN]
       /\ d.stop # None => d.stop > 0
       /\ d.target # None => d.target > 0
  /\ [stop |-> None, target |-> None, exit |-> FALSE] \in Decisions  \* HOLD
  /\ MaxSignals \in Nat

VARIABLES
  phase,          \* the chronology step
  now,            \* the test interval being replayed
  bars,           \* its raw bar per symbol
  visit,          \* keys the current step has still to visit
  frozen,         \* the equity frozen at this open
  pending,        \* _pending: an intent per key, or None
  signalOrdinal,  \* _signal_ordinal
  marks,          \* _marks, as <<timestamp, equity>>
  refusal         \* why the replay was abandoned, or "none"

runVars == <<phase, now, bars, visit, frozen, pending, signalOrdinal, marks, refusal>>
vars == <<ledgerVars, runVars>>

Phases == {"anchor", "settle", "freeze", "gap", "fund", "fill", "protect", "observe",
           "manage", "evaluate", "mark", "expire", "liquidate", "final", "done", "aborted"}

BarOf(k) == bars[SymbolOf(k)]
OpenPrices  == [s \in Symbols |-> bars[s].open]
ClosePrices == [s \in Symbols |-> bars[s].close]
TestStart == OpenTs[1]
TestEnd   == CloseTs[NTest]

PendingKeys == {k \in Keys : pending[k] # None}
PositionIntents == [k \in HeldKeys |-> positions[k].intent]

\* Where a step's visit goes next: positions and intents in canonical order.
NextPosition(k) == FirstOf(k, visit, PositionIntents)
AnyIntent(k) == k \in visit  \* mutant: dictionary order
NextIntent(k) == FirstOf(k, visit, pending)

-----------------------------------------------------------------------------

\* An exception leaves run(): nothing of the replay survives.
Abort(reason) ==
  /\ phase' = "aborted"
  /\ refusal' = reason
  /\ UNCHANGED <<ledgerVars, now, bars, visit, frozen, pending, signalOrdinal, marks>>

\* Append a mark of the whole account.
Mark(ts, prices) ==
  /\ SnapshotRefusal(ts, prices) = "none"
  /\ marks' = Append(marks, <<ts, Equity(prices)>>)

\* The opening anchor, before any event.
OpeningMark ==
  /\ phase = "anchor"
  /\ Mark(TestStart, OpenPrices)
  /\ phase' = "settle"
  /\ UNCHANGED <<ledgerVars, now, bars, visit, frozen, pending, signalOrdinal, refusal>>

\* Step 1: what is due becomes spendable before anything is priced.
SettleAtOpen ==
  /\ phase = "settle"
  /\ SettleDue(DateOf(OpenTs[now]))
  /\ phase' = "freeze"
  /\ UNCHANGED <<now, bars, visit, frozen, pending, signalOrdinal, marks, refusal>>

\* Step 2: the equity every candidate at this open is sized from.
Freeze ==
  /\ phase = "freeze"
  /\ SnapshotRefusal(OpenTs[now], OpenPrices) = "none"
  /\ frozen' = Equity(OpenPrices)
  /\ phase' = "gap"
  /\ visit' = HeldKeys
  /\ UNCHANGED <<ledgerVars, now, bars, pending, signalOrdinal, marks, refusal>>

\* The one door a position leaves by, at its slipped fill.
SettleOut(p, ref, ts, reason) ==
  Close(p, ExitFill(p.intent.dir, ref), ts, reason)

Priced(p, hit) == hit.reason = "none" \/ ExitFill(p.intent.dir, hit.at) > 0

\* Only a level the open is already beyond closes a position at the open.
StopGapOnly(hit) == hit.reason = "stop_gap"  \* mutant
LeavesAtOpen(hit) == hit.reason \in GapReasons

\* Step 3: a position this open is already beyond a level of leaves at the open.
GapExit(k) ==
  /\ phase = "gap"
  /\ NextPosition(k)
  /\ LET p   == positions[k]
         hit == ProtectiveExit(p, BarOf(k))
     IN  /\ Priced(p, hit)
         /\ IF LeavesAtOpen(hit)
              THEN SettleOut(Observed(p, hit.at, hit.at), hit.at, OpenTs[now], hit.reason)
              ELSE UNCHANGED ledgerVars
  /\ visit' = visit \ {k}
  /\ UNCHANGED <<phase, now, bars, frozen, pending, signalOrdinal, marks, refusal>>

Eligible == {k \in PendingKeys : pending[k].eligible = OpenTs[now]}

\* The intent leaves its pending seat.
SeatKept(k) == UNCHANGED pending  \* mutant: a refused intent keeps its seat
Unseat(k) == pending' = [pending EXCEPT ![k] = None]

ProposalFor(k) == Propose(pending[k], BarOf(k).open, frozen)

\* Steps 4 to 6: an eligible intent leaves its seat whatever the account decides.
Fund(k) ==
  /\ phase = "fund"
  /\ NextIntent(k)
  /\ \A j \in visit : ProposalFor(j).fill > 0
  /\ LET p == ProposalFor(k)
     IN  \/ /\ Verdict(p) = "accepted"
            /\ Reserve(p)
            /\ phase' = "fill"
         \/ /\ Verdict(p) # "accepted"
            /\ Reject(pending[k], Verdict(p), OpenTs[now])
            /\ phase' = phase
  /\ Unseat(k)
  /\ visit' = visit \ {k}
  /\ UNCHANGED <<now, bars, frozen, signalOrdinal, marks, refusal>>

\* An accepted candidate fills before the next one is considered.
Fill(k) ==
  /\ phase = "fill"
  /\ reserved[k] # None
  /\ Open(reserved[k], OpenTs[now])
  /\ phase' = "fund"
  /\ UNCHANGED <<now, bars, visit, frozen, pending, signalOrdinal, marks, refusal>>

\* Mutant: the triggered level is not observed.
SeenOpenOnly(p, bar, hit) == Observed(p, bar.open, bar.open)

\* What an intrabar exit is allowed to have seen: the open, the level that
\* triggered and, for a target, the adverse extreme.
SeenByExit(p, bar, hit) ==
  LET opened  == Observed(p, bar.open, bar.open)
      leveled == Observed(opened, hit.at, hit.at)
      adverse == Worst(p.intent.dir, bar)
  IN  IF hit.reason = "target" THEN Observed(leveled, adverse, adverse) ELSE leveled

\* Step 7: intrabar exits, positions filled at this very open included.
Protect(k) ==
  /\ phase = "protect"
  /\ NextPosition(k)
  /\ LET p   == positions[k]
         hit == ProtectiveExit(p, BarOf(k))
     IN  /\ Priced(p, hit)
         /\ IF hit.reason \in {"stop", "target"}
              THEN SettleOut(SeenByExit(p, BarOf(k), hit), hit.at, CloseTs[now], hit.reason)
              ELSE UNCHANGED ledgerVars
  /\ visit' = visit \ {k}
  /\ UNCHANGED <<phase, now, bars, frozen, pending, signalOrdinal, marks, refusal>>

\* Step 8: the survivors lived through the whole bar.
ObserveSurvivors ==
  /\ phase = "observe"
  /\ positions' = [k \in Keys |->
       IF positions[k] = None THEN None
       ELSE Observed(positions[k], BarOf(k).high, BarOf(k).low)]
  /\ phase' = "manage"
  /\ visit' = HeldKeys
  /\ UNCHANGED <<settled, credits, reserved, trades, rejections, tradeOrdinal,
                 rejectionOrdinal, now, bars, frozen, pending, signalOrdinal, marks, refusal>>

\* The strategy boundary: a replacement stop may only tighten, each
\* replacement protects the deciding close, and the pair opens outward.
ValidDecision(p, close, d) ==
  LET long   == p.intent.dir = "long"
      stop   == IF d.stop = None THEN p.stop ELSE d.stop
      target == IF d.target = None THEN p.target ELSE d.target
  IN  /\ d.stop # None => IF long THEN p.stop <= d.stop /\ d.stop < close
                                  ELSE p.stop >= d.stop /\ d.stop > close
      /\ d.target # None => IF long THEN d.target > close ELSE d.target < close
      /\ (d.stop # None \/ d.target # None) =>
           IF long THEN stop < target ELSE target < stop

\* Step 10: the replacement lands before a requested close.
Manage(k, d) ==
  /\ phase = "manage"
  /\ NextPosition(k)
  /\ ValidDecision(positions[k], BarOf(k).close, d)
  /\ LET p == Adjusted(positions[k], d.stop, d.target)
     IN  \/ /\ d.exit
            /\ ExitFill(p.intent.dir, BarOf(k).close) > 0
            /\ SettleOut(p, BarOf(k).close, CloseTs[now], "manage")
         \/ /\ ~ d.exit
            /\ positions' = [positions EXCEPT ![k] = p]
            /\ UNCHANGED <<settled, credits, reserved, trades, rejections, tradeOrdinal,
                           rejectionOrdinal>>
  /\ visit' = visit \ {k}
  /\ UNCHANGED <<phase, now, bars, frozen, pending, signalOrdinal, marks, refusal>>

\* Mutant: a signal on a session's last close waits for an open that never comes.
EligibleAtClose(n) == CloseTs[n]

\* The next scheduled open, or this very close past the schedule's end.
EligibleAfter(n) == IF n < NBase THEN OpenTs[n + 1] ELSE CloseTs[n]

\* The runtime whose turn it is, in canonical (play, symbol) order.
NextRuntime(k) ==
  /\ k \in visit
  /\ \A j \in visit \ {k} : k[1] < j[1] \/ (k[1] = j[1] /\ k[2] < j[2])

IntentFrom(k, s) ==
  [key |-> k, dir |-> s.dir, stop |-> s.stop, target |-> s.target,
   ordinal |-> signalOrdinal, ts |-> CloseTs[now], eligible |-> EligibleAfter(now)]

\* Mutant: the account is not asked whether it holds the key.
RecordWithoutHolds(k, s) ==
  /\ phase = "evaluate"
  /\ NextRuntime(k)
  /\ signalOrdinal < MaxSignals
  /\ Brackets(s.dir, BarOf(k).close, s.stop, s.target)
  /\ signalOrdinal' = signalOrdinal + 1
  /\ pending[k] = None
  /\ pending' = [pending EXCEPT ![k] = IntentFrom(k, s)]
  /\ UNCHANGED <<ledgerVars, phase, now, bars, visit, frozen, marks, refusal>>

\* Steps 11 and 12: one more signal of the runtime being evaluated takes its
\* ordinal, then its seat or its refusal.
RecordSignal(k, s) ==
  /\ phase = "evaluate"
  /\ NextRuntime(k)
  /\ signalOrdinal < MaxSignals
  /\ Brackets(s.dir, BarOf(k).close, s.stop, s.target)
  /\ signalOrdinal' = signalOrdinal + 1
  /\ \/ /\ positions[k] # None
        /\ Reject(IntentFrom(k, s), "position_occupied", CloseTs[now])
        /\ UNCHANGED pending
     \/ /\ positions[k] = None /\ pending[k] # None
        /\ Reject(IntentFrom(k, s), "pending_intent_occupied", CloseTs[now])
        /\ UNCHANGED pending
     \/ /\ positions[k] = None /\ pending[k] = None
        /\ pending' = [pending EXCEPT ![k] = IntentFrom(k, s)]
        /\ UNCHANGED ledgerVars
  /\ UNCHANGED <<phase, now, bars, visit, frozen, marks, refusal>>

\* The runtime being evaluated has no further signal at this close.
Evaluated(k) ==
  /\ phase = "evaluate"
  /\ NextRuntime(k)
  /\ visit' = visit \ {k}
  /\ UNCHANGED <<ledgerVars, phase, now, bars, frozen, pending, signalOrdinal, marks, refusal>>

\* A step that has visited everything hands over to the next one.
FinishStep ==
  /\ visit = {}
  /\ \/ phase = "gap"       /\ phase' = "fund"      /\ visit' = Eligible
     \/ phase = "fund"      /\ phase' = "protect"   /\ visit' = HeldKeys
     \/ phase = "protect"   /\ phase' = "observe"   /\ UNCHANGED visit
     \/ phase = "manage"    /\ phase' = "evaluate"  /\ visit' = Keys
     \/ phase = "evaluate"  /\ phase' = "mark"      /\ UNCHANGED visit
     \/ phase = "expire"    /\ phase' = "liquidate" /\ visit' = HeldKeys
     \/ phase = "liquidate" /\ phase' = "final"     /\ UNCHANGED visit
  /\ UNCHANGED <<ledgerVars, now, bars, frozen, pending, signalOrdinal, marks, refusal>>

\* The close mark; then the next interval prints, or the window ends.
CloseMark ==
  /\ phase = "mark"
  /\ Mark(CloseTs[now], ClosePrices)
  /\ \/ /\ now < NTest
        /\ now' = now + 1
        /\ bars' \in [Symbols -> Bars]
        /\ phase' = "settle"
        /\ UNCHANGED visit
     \/ /\ now = NTest
        /\ phase' = "expire"
        /\ visit' = PendingKeys
        /\ UNCHANGED <<now, bars>>
  /\ UNCHANGED <<ledgerVars, frozen, pending, signalOrdinal, refusal>>

\* Mutant: the sweep clears the seats and records nothing.
ExpireSilently(k) ==
  /\ phase = "expire"
  /\ NextIntent(k)
  /\ Unseat(k)
  /\ visit' = visit \ {k}
  /\ UNCHANGED <<ledgerVars, phase, now, bars, frozen, signalOrdinal, marks, refusal>>

\* The window-end sweep: every pending intent expires, in funding order.
Expire(k) ==
  /\ phase = "expire"
  /\ NextIntent(k)
  /\ Reject(pending[k], "window_ended", TestEnd)
  /\ Unseat(k)
  /\ visit' = visit \ {k}
  /\ UNCHANGED <<phase, now, bars, frozen, signalOrdinal, marks, refusal>>

\* Then every position leaves at the final close.
Liquidate(k) ==
  /\ phase = "liquidate"
  /\ NextPosition(k)
  /\ SettleOut(positions[k], BarOf(k).close, TestEnd, "end_of_window")
  /\ visit' = visit \ {k}
  /\ UNCHANGED <<phase, now, bars, frozen, pending, signalOrdinal, marks, refusal>>

FinalMark ==
  /\ phase = "final"
  /\ Mark(TestEnd, ClosePrices)
  /\ phase' = "done"
  /\ UNCHANGED <<ledgerVars, now, bars, visit, frozen, pending, signalOrdinal, refusal>>

\* The mark the current phase is about to take, of whichever kind.
MarkDue ==
  [at     |-> CASE phase = "anchor" -> TestStart
                [] phase = "freeze" -> OpenTs[now]
                [] phase = "mark"   -> CloseTs[now]
                [] phase = "final"  -> TestEnd,
   prices |-> IF phase \in {"anchor", "freeze"} THEN OpenPrices ELSE ClosePrices]

\* A mark the account refuses, wherever one is taken.
AbortAtMark ==
  /\ phase \in {"anchor", "freeze", "mark", "final"}
  /\ SnapshotRefusal(MarkDue.at, MarkDue.prices) # "none"
  /\ Abort(SnapshotRefusal(MarkDue.at, MarkDue.prices))

\* A fill slippage takes to zero or below is refused, not printed.
AbortAtFill(k) ==
  /\ \/ /\ phase \in {"gap", "protect"}
        /\ NextPosition(k)
        /\ ~ Priced(positions[k], ProtectiveExit(positions[k], BarOf(k)))
     \/ /\ phase = "fund"
        /\ k \in visit
        /\ ProposalFor(k).fill <= 0
     \/ /\ phase = "manage"
        /\ NextPosition(k)
        /\ ExitFill(positions[k].intent.dir, BarOf(k).close) <= 0
        /\ \E d \in Decisions : d.exit /\ ValidDecision(positions[k], BarOf(k).close, d)
  /\ Abort("nonpositive_fill")

Finished == phase \in {"done", "aborted"} /\ UNCHANGED vars

Init ==
  /\ LedgerInit
  /\ phase = "anchor"
  /\ now = 1
  /\ bars \in [Symbols -> Bars]
  /\ visit = {}
  /\ frozen = 0
  /\ pending = [k \in Keys |-> None]
  /\ signalOrdinal = 0
  /\ marks = <<>>
  /\ refusal = "none"

Next ==
  \/ OpeningMark \/ SettleAtOpen \/ Freeze \/ ObserveSurvivors
  \/ FinishStep \/ CloseMark \/ FinalMark \/ AbortAtMark \/ Finished
  \/ \E k \in Keys :
       \/ GapExit(k) \/ Fund(k) \/ Fill(k) \/ Protect(k) \/ Evaluated(k)
       \/ Expire(k) \/ Liquidate(k) \/ AbortAtFill(k)
       \/ \E d \in Decisions : Manage(k, d)
       \/ \E s \in SignalShapes : RecordSignal(k, s)

Spec == Init /\ [][Next]_vars

\* The replay is one thread running one loop to its end.
FairSpec == Spec /\ WF_vars(Next)
=============================================================================
