--------------------------- MODULE SignalLifecycle ---------------------------
(***************************************************************************)
(* What a replay promises about signals, with no market, no cash and no    *)
(* clock: every signal is born with the next ordinal and is seated or      *)
(* refused at once; a seated signal is filled or refused; a filled one is  *)
(* traded out.  A play symbol holds at most one seat or one position, and  *)
(* the portfolio at most MaxOpen positions.                                *)
(***************************************************************************)
EXTENDS Integers, FiniteSets

CONSTANTS Keys, MaxOpen, None

VARIABLES
  born,     \* how many signals were emitted
  seat,     \* the ordinal pending for a key, or None
  slot,     \* the ordinal holding a key's position, or None
  traded,   \* ordinals that became trades
  refused   \* ordinals that became rejections

vars == <<born, seat, slot, traded, refused>>

Init ==
  /\ born = 0
  /\ seat = [k \in Keys |-> None]
  /\ slot = [k \in Keys |-> None]
  /\ traded = {}
  /\ refused = {}

Occupied == {k \in Keys : slot[k] # None}

Seat(k) ==
  /\ seat[k] = None /\ slot[k] = None
  /\ seat' = [seat EXCEPT ![k] = born]
  /\ born' = born + 1
  /\ UNCHANGED <<slot, traded, refused>>

RefuseAtBirth(k) ==
  /\ seat[k] # None \/ slot[k] # None
  /\ refused' = refused \cup {born}
  /\ born' = born + 1
  /\ UNCHANGED <<seat, slot, traded>>

Fill(k) ==
  /\ seat[k] # None /\ slot[k] = None
  /\ Cardinality(Occupied) < MaxOpen
  /\ slot' = [slot EXCEPT ![k] = seat[k]]
  /\ seat' = [seat EXCEPT ![k] = None]
  /\ UNCHANGED <<born, traded, refused>>

Refuse(k) ==
  /\ seat[k] # None
  /\ refused' = refused \cup {seat[k]}
  /\ seat' = [seat EXCEPT ![k] = None]
  /\ UNCHANGED <<born, slot, traded>>

TradeOut(k) ==
  /\ slot[k] # None
  /\ traded' = traded \cup {slot[k]}
  /\ slot' = [slot EXCEPT ![k] = None]
  /\ UNCHANGED <<born, seat, refused>>

Next == \E k \in Keys : Seat(k) \/ RefuseAtBirth(k) \/ Fill(k) \/ Refuse(k) \/ TradeOut(k)

Spec == Init /\ [][Next]_vars
=============================================================================
