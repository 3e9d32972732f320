----------------------------- MODULE PairedTrade -----------------------------
(***************************************************************************)
(* What one arbitrage promises, whatever orders it takes: contracts are    *)
(* bought on one venue, then hedged on the other and never beyond what was *)
(* bought, then the excess is sold; a trade that ends unbalanced has       *)
(* raised the alarm.  ArbExecution implements it where the venues answer   *)
(* truthfully.                                                             *)
(***************************************************************************)
EXTENDS Integers, TLAPS

CONSTANT Qty          \* contracts the opportunity suggests

VARIABLES
    phase,
    bought,    \* contracts of the primary
    hedged,    \* contracts of the secondary, over all its orders
    sold,      \* contracts of the primary sold again
    alarm      \* a critical incident has been raised

vars == <<phase, bought, hedged, sold, alarm>>

TypeOK ==
    /\ phase \in {"opening", "hedging", "closing", "over"}
    /\ bought \in 0..Qty /\ hedged \in 0..Qty /\ sold \in 0..Qty
    /\ alarm \in BOOLEAN

Init ==
    /\ phase = "opening"
    /\ bought = 0 /\ hedged = 0 /\ sold = 0
    /\ alarm = FALSE

Buy ==
    /\ phase = "opening"
    /\ bought' \in (bought + 1)..Qty
    /\ UNCHANGED <<phase, hedged, sold, alarm>>

\* From here on the primary is over.
StartHedge ==
    /\ phase = "opening" /\ bought > 0
    /\ phase' = "hedging"
    /\ UNCHANGED <<bought, hedged, sold, alarm>>

Hedge ==
    /\ phase = "hedging"
    /\ hedged' \in (hedged + 1)..bought
    /\ UNCHANGED <<phase, bought, sold, alarm>>

Alarm ==
    /\ bought > 0
    /\ alarm' = TRUE
    /\ UNCHANGED <<phase, bought, hedged, sold>>

\* From here on both sides are over, and an operator knows.
StartUnwind ==
    /\ phase \in {"opening", "hedging"}
    /\ bought > hedged /\ alarm
    /\ phase' = "closing"
    /\ UNCHANGED <<bought, hedged, sold, alarm>>

\* A sell that is still working may fill after the trade has ended.
Sell ==
    /\ phase \in {"closing", "over"}
    /\ sold' \in (sold + 1)..(bought - hedged)
    /\ UNCHANGED <<phase, bought, hedged, alarm>>

End ==
    /\ phase # "over"
    /\ phase' = "over"
    /\ alarm' \in {alarm, TRUE}
    /\ bought = hedged + sold \/ alarm'
    /\ UNCHANGED <<bought, hedged, sold>>

Next == Buy \/ StartHedge \/ Hedge \/ Alarm \/ StartUnwind \/ Sell \/ End

Spec == Init /\ [][Next]_vars
-----------------------------------------------------------------------------
\* What the trade promises: nothing is hedged or sold that was not bought, and once
\* it is over it is balanced or an operator has been told.
Promise ==
    /\ hedged + sold <= bought
    /\ phase = "over" => (bought = hedged + sold \/ alarm)

\* Nothing is sold before the trade closes, and closing it has raised the alarm.
IInv ==
    /\ TypeOK
    /\ hedged + sold <= bought
    /\ phase \in {"opening", "hedging"} => sold = 0
    /\ phase = "opening" => hedged = 0
    /\ phase = "closing" => alarm = TRUE
    /\ phase = "over" => bought = hedged + sold \/ alarm = TRUE

\* The promise holds for every size.
THEOREM PromiseHolds == ASSUME Qty \in Nat PROVE Spec => []Promise
<1>1. Init => IInv
  <2> SUFFICES ASSUME Init PROVE IInv
    OBVIOUS
  <2>1. /\ phase = "opening" /\ bought \in 0..Qty /\ hedged \in 0..Qty /\ sold \in 0..Qty
        /\ hedged + sold <= bought /\ hedged = 0 /\ sold = 0
    BY DEF Init
  <2>2. alarm \in BOOLEAN
    BY DEF Init
  <2>. QED
    BY <2>1, <2>2 DEF IInv, TypeOK
<1>2. IInv /\ [Next]_vars => IInv'
  <2> SUFFICES ASSUME IInv, [Next]_vars PROVE IInv'
    OBVIOUS
  <2>1. bought \in Nat /\ hedged \in Nat /\ sold \in Nat /\ bought <= Qty /\ hedged <= bought
    BY DEF IInv, TypeOK
  <2>2. CASE Buy
    BY <2>1, <2>2 DEF Buy, TypeOK, IInv
  <2>3. CASE StartHedge \/ StartUnwind \/ Alarm
    BY <2>1, <2>3 DEF StartHedge, StartUnwind, Alarm, TypeOK, IInv
  <2>4. CASE Hedge
    <3>1. PICK h \in (hedged + 1)..bought : hedged' = h
      BY <2>4 DEF Hedge
    <3>2. sold = 0 /\ phase = "hedging" /\ UNCHANGED <<phase, bought, sold, alarm>>
      BY <2>4 DEF Hedge, IInv
    <3>3. h \in 0..Qty /\ h + sold <= bought
      BY <2>1, <3>1, <3>2
    <3>4. TypeOK'
      BY <3>1, <3>2, <3>3 DEF IInv, TypeOK
    <3>. QED
      BY <3>1, <3>2, <3>3, <3>4 DEF IInv
  <2>5. CASE Sell
    <3>1. PICK x \in (sold + 1)..(bought - hedged) : sold' = x
      BY <2>5 DEF Sell
    <3>2. phase \in {"closing", "over"} /\ UNCHANGED <<phase, bought, hedged, alarm>>
      BY <2>5 DEF Sell
    <3>3. x \in 0..Qty /\ hedged + x <= bought /\ bought # hedged + sold
      BY <2>1, <3>1
    <3>4. TypeOK'
      BY <3>1, <3>2, <3>3 DEF IInv, TypeOK
    <3>5. alarm' = TRUE
      BY <3>2, <3>3 DEF IInv
    <3>. QED
      BY <3>1, <3>2, <3>3, <3>4, <3>5 DEF IInv
  <2>6. CASE End
    BY <2>1, <2>6 DEF End, TypeOK, IInv
  <2>7. CASE UNCHANGED vars
    BY <2>7 DEF vars, TypeOK, IInv
  <2>. QED
    BY <2>2, <2>3, <2>4, <2>5, <2>6, <2>7 DEF Next
<1>3. IInv => Promise
  BY DEF IInv, Promise
<1>. QED
  BY <1>1, <1>2, <1>3, PTL DEF Spec

=============================================================================
