--------------------------- MODULE StrandsProofs ---------------------------
(***************************************************************************)
(* Theorems about the records of an execution and about the reconciler of  *)
(* stranded positions, for every size, number of crashes, set of faults    *)
(* and ceiling.                                                            *)
(***************************************************************************)
EXTENDS Strands, FiniteSetTheorems, TLAPS

\* What the venues did follows the order in which the engine sends: a secondary
\* only after a primary that is filled, a second attempt only after a first one
\* that is over, and nothing is sold beside a first attempt with life in it.
SentInOrder ==
    /\ venue["S1"] # "unsent" => venue["P"] = "filled"
    /\ venue["S2"] # "unsent" => venue["S1"] = "dead"
    /\ sold > 0 => venue["P"] = "filled" /\ venue["S1"] \in {"unsent", "dead"}

\* The engine takes no order for filled or dead that is not, and knows no order
\* that was not sent.
Believes ==
    \A l \in Legs : /\ mem[l] = "filled" => venue[l] = "filled"
                    /\ mem[l] = "dead" => venue[l] \in {"unsent", "dead"}
                    /\ mem[l] \in {"submitted", "doubt"} => venue[l] # "unsent"

\* While the engine trades nobody else writes.
Trading ==
    /\ at[1] # "gone" => boot = "up" /\ poller = "idle" /\ age = 0
    /\ at[1] \in {"send", "save", "decide", "recover", "unwind"} =>
          sold = 0 /\ ~evidence /\ ~sentinel
    /\ row = "filled" => at[1] = "gone"

\* Where the coroutine stands says what has been sent and what it believes.
Control ==
    /\ at = <<"send", "P">> \/ at = <<"save", "P">> =>
          \A l \in Legs : /\ rec[l] = "none"
                          /\ l # "P" \/ at[1] = "send" => mem[l] = "none" /\ venue[l] = "unsent"
    /\ at = <<"send", "S1">> \/ at = <<"save", "S1">> =>
          mem["P"] = "filled" /\ (at[1] = "send" => venue["S1"] = "unsent") /\ venue["S2"] = "unsent"
    /\ at = <<"send", "S2">> \/ at = <<"save", "S2">> =>
          mem["P"] = "filled" /\ mem["S1"] = "dead" /\ (at[1] = "send" => venue["S2"] = "unsent")
    /\ \A l \in Legs : at = <<"save", l>> => mem[l] # "none" /\ venue[l] # "unsent"
    /\ at = <<"send", "S1">> /\ ~blocked => rec["P"] # "none"
    /\ at = <<"send", "S2">> /\ ~blocked => rec["S1"] # "none" /\ venue["S1"] = "dead"
    /\ at[1] \in {"decide", "recover", "unwind"} /\ mem["P"] = "filled" => mem["S1"] # "none"
    /\ at[1] \notin {"send", "gone"} => mem["P"] # "none"
    /\ at[1] = "unwind" => mem["P"] = "filled"
    /\ at[1] \in {"evidence", "mark"} => sold > 0
    /\ at[1] = "mark" => sold = Size
    /\ at[1] \in {"recover", "unwind", "evidence", "mark"} => history = "recovering"
    /\ at[1] = "record" /\ history = "filled" =>
          sold = 0 /\ mem["P"] = "filled" /\ Hedge = "filled"

\* An order has a row only if the one before it has, and an arb with a row has
\* one of its primary.  With that one alone it is pending, unless the sweep has
\* closed it or the poller, for good, found the primary dead.
RowsFollow ==
    /\ venue["S1"] # "unsent" \/ rec["S1"] # "none" \/ row # "none" => rec["P"] # "none"
    /\ venue["S2"] # "unsent" \/ rec["S2"] # "none" => rec["S1"] # "none"
    /\ rec["S1"] = "none" =>
          \/ row \in {"none", "pending", "closed"}
          \/ row = "failed" /\ rec["P"] = "dead" /\ poller = "idle"

\* An unwind that is claimed has sold.
ClaimsAreTrue ==
    /\ evidence => sold > 0
    /\ sentinel => sold > 0 /\ (age = 0 => sold = Size)

RecordsInv ==
    TypeOK /\ SentInOrder /\ Believes /\ Trading /\ Control /\ RowsFollow
           /\ ClaimsAreTrue /\ FilledIsPaired

\* What is about to be traded, and what the cumulative cap is a multiple of,
\* fits the ceiling of an autonomous order.
PlansFit ==
    /\ cycle.at = "act" => \A l \in Lots : cycle.plan[l] # "none" => tracked[l] <= MaxAuto(l)
    /\ \A l \in Lots : maxSeen[l] <= MaxAuto(l)

\* The account of a lot misses the orders whose answer was lost and nothing else:
\* a lot that is tracked has no absence and one that is not has one at most, so
\* the account is never dropped.
AccountsAreKept ==
    \A l \in Lots : /\ submitted[l] <= Mult * maxSeen[l]
                    /\ sent[l] <= submitted[l] + lost[l] * maxSeen[l]
                    /\ capAbsent[l] <= 1
                    /\ tracked[l] > 0 => capAbsent[l] = 0

IInv == RecordsInv /\ StrandsTypeOK /\ PlansFit /\ AccountsAreKept /\ OneIncidentPerLot

USE RecordsAssumption, StrandsAssumption

-----------------------------------------------------------------------------
(* Every step of the engine, the venues, the start-up and the upkeep keeps   *)
(* the records' part of the invariant.                                       *)
LEMMA RecordsStay ==
    ASSUME RecordsInv, Work \/ Crash \/ UNCHANGED vars
    PROVE  RecordsInv'
<1> USE DEF RecordsInv
<1>a. /\ \A l \in Legs : at = <<"send", l>> => at[1] = "send" /\ at[2] = l
      /\ \A l \in Legs : at = <<"save", l>> => at[1] = "save" /\ at[2] = l
      /\ \A s \in STRING : at = <<s>> => at[1] = s
  OBVIOUS
<1>b. {<<"send", "S1">>, <<"send", "S2">>} \subseteq {"send", "save"} \X Legs
  BY DEF Legs
<1>c. {<<"decide">>, <<"record">>, <<"gone">>} \subseteq
        {<<s>> : s \in {"decide", "recover", "unwind", "evidence", "mark", "record", "gone"}}
  OBVIOUS
<1>1. ASSUME NEW l \in Legs, Place(l) PROVE RecordsInv'
  <2>1. TypeOK'
    BY <1>1 DEF Place, TypeOK, OrderStatus, records, upkeep
  <2>2. SentInOrder' /\ Believes' /\ ClaimsAreTrue'
    BY <1>1, <1>a DEF Place, TypeOK, SentInOrder, Believes, Trading, Control, ClaimsAreTrue, RowsFollow, Legs, records, upkeep
  <2>3. Trading' /\ FilledIsPaired'
    BY <1>1, <1>a DEF Place, TypeOK, Trading, FilledIsPaired, Legs, records, upkeep
  <2>4. Control'
    BY <1>1, <1>a DEF Place, TypeOK, Trading, Control, RowsFollow, Legs, Hedge, Secondary, records, upkeep
  <2>5. RowsFollow'
    BY <1>1, <1>a DEF Place, TypeOK, Control, RowsFollow, Legs, records, upkeep
  <2>6. QED BY <2>1, <2>2, <2>3, <2>4, <2>5
<1>2. ASSUME NEW l \in Legs, PlaceBlocked(l) PROVE RecordsInv'
  <2>0. at' \in {<<"send", "S2">>, <<"decide">>}
    BY <1>2 DEF PlaceBlocked
  <2>1. TypeOK'
    BY <1>2, <1>b, <2>0 DEF PlaceBlocked, TypeOK, OrderStatus, records, upkeep
  <2>2. SentInOrder' /\ Believes' /\ ClaimsAreTrue'
    BY <1>2, <1>a DEF PlaceBlocked, TypeOK, SentInOrder, Believes, Trading, Control, ClaimsAreTrue, RowsFollow, Legs, records, upkeep
  <2>3. Trading' /\ FilledIsPaired'
    BY <1>2, <1>a DEF PlaceBlocked, TypeOK, Trading, FilledIsPaired, Bought, Legs, records, upkeep
  <2>4. Control'
    BY <1>2, <1>a DEF PlaceBlocked, TypeOK, Trading, Control, RowsFollow, Legs, Hedge, Secondary, records, upkeep
  <2>5. RowsFollow'
    BY <1>2, <1>a DEF PlaceBlocked, TypeOK, Control, RowsFollow, Legs, records, upkeep
  <2>6. QED BY <2>1, <2>2, <2>3, <2>4, <2>5
<1>3. ASSUME NEW l \in Legs, Save(l) PROVE RecordsInv'
  <2>0. AfterOrder(l) \in {<<"send", "S1">>, <<"send", "S2">>, <<"decide">>}
    BY DEF AfterOrder
  <2>0a. /\ mem[l] \in OrderStatus \cup {"doubt"} /\ Saved(mem[l]) \in OrderStatus
         /\ mem[l] # "none" => Saved(mem[l]) # "none"
    BY DEF Saved, TypeOK, OrderStatus
  <2>1. TypeOK'
    <3>1. at' \in ({"send", "save"} \X Legs)
              \cup {<<s>> : s \in {"decide", "recover", "unwind", "evidence", "mark", "record", "gone"}}
      BY <1>3, <1>b, <1>c, <2>0 DEF Save
    <3>2. row' \in RowStatus /\ rec' \in [Legs -> OrderStatus]
      BY <1>3, <2>0a DEF Save, WriteFails, TypeOK, RowStatus
    <3>3. QED BY <1>3, <3>1, <3>2 DEF Save, WriteFails, TypeOK, upkeep
  <2>2. SentInOrder' /\ Believes' /\ ClaimsAreTrue'
    BY <1>3, <1>a DEF Save, WriteFails, SentInOrder, Believes, ClaimsAreTrue, Legs, upkeep
  <2>3. Trading' /\ FilledIsPaired'
    BY <1>3, <1>a, <2>0 DEF Save, WriteFails, TypeOK, Trading, FilledIsPaired, Bought, Legs, upkeep
  <2>4. Control'
    <3>1. CASE l = "P"
      BY <1>3, <1>a, <3>1 DEF Save, Saved, WriteFails, AfterOrder, TypeOK, Trading, Believes, Control, RowsFollow, Legs, Hedge, Secondary, upkeep
    <3>2. CASE l = "S1"
      BY <1>3, <1>a, <3>2 DEF Save, Saved, WriteFails, AfterOrder, TypeOK, Trading, Believes, Control, RowsFollow, Legs, Hedge, Secondary, upkeep
    <3>3. CASE l = "S2"
      BY <1>3, <1>a, <3>3 DEF Save, Saved, WriteFails, AfterOrder, TypeOK, Trading, Believes, Control, RowsFollow, Legs, Hedge, Secondary, upkeep
    <3>4. QED BY <3>1, <3>2, <3>3 DEF Legs
  <2>5. RowsFollow'
    <3>1. CASE l = "P"
      BY <1>3, <1>a, <2>0a, <3>1 DEF Save, WriteFails, TypeOK, Trading, Control, RowsFollow, Legs, upkeep
    <3>2. CASE l = "S1"
      BY <1>3, <1>a, <2>0a, <3>2 DEF Save, WriteFails, TypeOK, Trading, Control, RowsFollow, Legs, upkeep
    <3>3. CASE l = "S2"
      BY <1>3, <1>a, <2>0a, <3>3 DEF Save, WriteFails, TypeOK, Trading, Control, RowsFollow, Legs, upkeep
    <3>4. QED BY <3>1, <3>2, <3>3 DEF Legs
  <2>6. QED BY <2>1, <2>2, <2>3, <2>4, <2>5
<1>4. ASSUME Decide PROVE RecordsInv'
  <2>1. TypeOK'
    BY <1>4 DEF Decide, TypeOK, OrderStatus, RowStatus, Legs, PairStatus, Hedge, Secondary, Survives, records, upkeep
  <2>2. SentInOrder' /\ Believes' /\ ClaimsAreTrue'
    BY <1>4, <1>a DEF Decide, TypeOK, SentInOrder, Believes, Trading, Control, ClaimsAreTrue, RowsFollow, Legs, PairStatus, Hedge, Secondary, Survives, records, upkeep
  <2>3. Trading' /\ FilledIsPaired'
    BY <1>4, <1>a DEF Decide, TypeOK, Trading, Control, FilledIsPaired, Bought, SentInOrder, Believes, Legs, PairStatus, Hedge, Secondary, Survives, records, upkeep
  <2>4. Control'
    BY <1>4, <1>a DEF Decide, TypeOK, Trading, Control, RowsFollow, Legs, Hedge, Secondary, PairStatus, Hedge, Secondary, Survives, records, upkeep
  <2>5. RowsFollow'
    BY <1>4, <1>a DEF Decide, TypeOK, Trading, Control, RowsFollow, Legs, PairStatus, Hedge, Secondary, Survives, records, upkeep
  <2>6. QED BY <2>1, <2>2, <2>3, <2>4, <2>5
<1>5. ASSUME Recover PROVE RecordsInv'
  <2> DEFINE Alive == {l \in {"P", Secondary} : mem[l] = "submitted" /\ venue[l] # "filled"}
  <2>0. PICK dies \in SUBSET Alive :
          /\ venue' = [l \in Legs |-> IF l \in dies THEN "dead" ELSE venue[l]]
          /\ mem' = [l \in Legs |-> IF l \in dies THEN "doubt" ELSE mem[l]]
          /\ rec' = [l \in Legs |-> IF l \in dies THEN "dead" ELSE rec[l]]
    BY <1>5 DEF Recover
  <2>d. dies \subseteq Legs /\ \A l \in dies : mem[l] = "submitted" /\ venue[l] \in {"working", "dead"}
    BY DEF Secondary, TypeOK, Believes, Legs
  <2>1. TypeOK'
    BY <1>5, <2>0, <2>d DEF Recover, TypeOK, OrderStatus, upkeep
  <2> HIDE DEF Alive
  <2>2. SentInOrder' /\ Believes' /\ ClaimsAreTrue'
    BY <1>5, <1>a, <2>0, <2>d DEF Recover, TypeOK, SentInOrder, Believes, Trading, ClaimsAreTrue, Legs, upkeep
  <2>3. Trading' /\ FilledIsPaired'
    BY <1>5, <1>a, <2>0, <2>d DEF Recover, TypeOK, Trading, FilledIsPaired, Legs, upkeep
  <2>4. Control'
    BY <1>5, <1>a, <2>0, <2>d DEF Recover, TypeOK, Trading, Control, Hedge, Legs, upkeep
  <2>5. RowsFollow'
    BY <1>5, <1>a, <2>0, <2>d DEF Recover, TypeOK, Trading, SentInOrder, Believes, RowsFollow, Legs, upkeep
  <2>6. QED BY <2>1, <2>2, <2>3, <2>4, <2>5
<1>6. ASSUME VerifyFirst PROVE RecordsInv'
  <2>1. TypeOK'
    BY <1>6 DEF VerifyFirst, TypeOK, OrderStatus, RowStatus, Legs, Hedge, Secondary, Reported, records, upkeep
  <2>2. SentInOrder' /\ Believes' /\ ClaimsAreTrue'
    BY <1>6, <1>a DEF VerifyFirst, TypeOK, SentInOrder, Believes, Trading, Control, ClaimsAreTrue, RowsFollow, Legs, Hedge, Secondary, Reported, records, upkeep
  <2>3. Trading' /\ FilledIsPaired'
    BY <1>6, <1>a DEF VerifyFirst, TypeOK, Trading, Control, FilledIsPaired, Bought, SentInOrder, Believes, Legs, Hedge, Secondary, Reported, records, upkeep
  <2>4. Control'
    BY <1>6, <1>a DEF VerifyFirst, TypeOK, Trading, Control, RowsFollow, Legs, Hedge, Secondary, Hedge, Secondary, Reported, records, upkeep
  <2>5. RowsFollow'
    BY <1>6, <1>a DEF VerifyFirst, TypeOK, Trading, Control, RowsFollow, Legs, Hedge, Secondary, Reported, records, upkeep
  <2>6. QED BY <2>1, <2>2, <2>3, <2>4, <2>5
<1>7. ASSUME Unwind PROVE RecordsInv'
  <2>1. TypeOK'
    BY <1>7 DEF Unwind, TypeOK, OrderStatus, RowStatus, Legs, Hedge, Secondary, records, upkeep
  <2>2. SentInOrder' /\ Believes' /\ ClaimsAreTrue'
    BY <1>7, <1>a DEF Unwind, TypeOK, SentInOrder, Believes, Trading, Control, ClaimsAreTrue, RowsFollow, Legs, Hedge, Secondary, records, upkeep
  <2>3. Trading' /\ FilledIsPaired'
    BY <1>7, <1>a DEF Unwind, TypeOK, Trading, Control, FilledIsPaired, Bought, SentInOrder, Believes, Legs, Hedge, Secondary, records, upkeep
  <2>4. Control'
    BY <1>7, <1>a DEF Unwind, TypeOK, Trading, Control, RowsFollow, Legs, Hedge, Secondary, Hedge, Secondary, records, upkeep
  <2>5. RowsFollow'
    BY <1>7, <1>a DEF Unwind, TypeOK, Trading, Control, RowsFollow, Legs, Hedge, Secondary, records, upkeep
  <2>6. QED BY <2>1, <2>2, <2>3, <2>4, <2>5
<1>8. ASSUME WriteEvidence PROVE RecordsInv'
  <2>1. TypeOK'
    BY <1>8 DEF WriteEvidence, TypeOK, OrderStatus, RowStatus, Legs, Unwound, upkeep
  <2>2. SentInOrder' /\ Believes' /\ ClaimsAreTrue'
    BY <1>8, <1>a DEF WriteEvidence, TypeOK, SentInOrder, Believes, Trading, Control, ClaimsAreTrue, RowsFollow, Legs, Unwound, upkeep
  <2>3. Trading' /\ FilledIsPaired'
    BY <1>8, <1>a DEF WriteEvidence, TypeOK, Trading, Control, FilledIsPaired, Bought, SentInOrder, Believes, Legs, Unwound, upkeep
  <2>4. Control'
    BY <1>8, <1>a DEF WriteEvidence, TypeOK, Trading, Control, RowsFollow, Legs, Hedge, Secondary, Unwound, upkeep
  <2>5. RowsFollow'
    BY <1>8, <1>a DEF WriteEvidence, TypeOK, Trading, Control, RowsFollow, Legs, Unwound, upkeep
  <2>6. QED BY <2>1, <2>2, <2>3, <2>4, <2>5
<1>9. ASSUME Mark PROVE RecordsInv'
  <2>1. TypeOK'
    <3>1. row' \in RowStatus /\ sentinel' \in BOOLEAN
      BY <1>9 DEF Mark, TypeOK, RowStatus, MarkReconciled
    <3>2. QED BY <1>9, <1>c, <3>1 DEF Mark, TypeOK, upkeep
  <2>2. SentInOrder' /\ Believes' /\ ClaimsAreTrue'
    BY <1>9, <1>a DEF Mark, TypeOK, SentInOrder, Believes, Trading, Control, ClaimsAreTrue, RowsFollow, Legs, MarkReconciled, HasOpenOrders, StillOpen, upkeep
  <2>3. Trading' /\ FilledIsPaired'
    BY <1>9, <1>a DEF Mark, TypeOK, Trading, Control, FilledIsPaired, Bought, SentInOrder, Believes, Legs, MarkReconciled, HasOpenOrders, StillOpen, upkeep
  <2>4. Control'
    BY <1>9, <1>a DEF Mark, TypeOK, Trading, Control, RowsFollow, Legs, Hedge, Secondary, MarkReconciled, HasOpenOrders, StillOpen, upkeep
  <2>5. RowsFollow'
    BY <1>9, <1>a DEF Mark, TypeOK, Trading, Control, RowsFollow, Legs, MarkReconciled, HasOpenOrders, StillOpen, upkeep
  <2>6. QED BY <2>1, <2>2, <2>3, <2>4, <2>5
<1>10. ASSUME Record PROVE RecordsInv'
  <2>0. Saved(mem["P"]) \in OrderStatus /\ Saved(Hedge) \in OrderStatus \ {"none"}
    BY DEF Saved, Hedge, Secondary, TypeOK, OrderStatus, Legs
  <2>1. TypeOK'
    <3>1. row' \in RowStatus /\ rec' \in [Legs -> OrderStatus]
      BY <1>10, <2>0 DEF Record, WriteFails, TypeOK
    <3>2. QED BY <1>10, <1>c, <3>1 DEF Record, WriteFails, TypeOK, OrderStatus, upkeep
  <2>2. SentInOrder' /\ Believes' /\ ClaimsAreTrue'
    BY <1>10, <1>a DEF Record, TypeOK, SentInOrder, Believes, Trading, Control, ClaimsAreTrue, RowsFollow, Legs, Saved, Hedge, Secondary, WriteFails, upkeep
  <2>3. Trading' /\ FilledIsPaired'
    BY <1>10, <1>a DEF Record, TypeOK, Trading, Control, FilledIsPaired, Bought, SentInOrder, Believes, Legs, Saved, Hedge, Secondary, WriteFails, upkeep
  <2>4. Control'
    BY <1>10, <1>a DEF Record, TypeOK, Trading, Control, RowsFollow, Legs, Hedge, Secondary, Saved, Hedge, Secondary, WriteFails, upkeep
  <2>5. RowsFollow'
    <3>1. CASE mem["S2"] = "filled"
      <4>1. venue["S2"] = "filled" /\ Secondary = "S2"
        BY <3>1 DEF Believes, Legs, Secondary
      <4>2. QED
        BY <1>10, <1>a, <2>0, <3>1, <4>1 DEF Record, TypeOK, Trading, Control, RowsFollow, Legs, Saved, WriteFails, upkeep
    <3>2. CASE mem["S2"] # "filled"
      <4>1. Secondary = "S1"
        BY <3>2 DEF Secondary
      <4>2. QED
        BY <1>10, <1>a, <2>0, <4>1 DEF Record, TypeOK, Trading, Control, RowsFollow, Legs, Saved, WriteFails, upkeep
    <3>3. QED BY <3>1, <3>2
  <2>6. QED BY <2>1, <2>2, <2>3, <2>4, <2>5
<1>11. ASSUME NEW l \in Legs, VenueEnds(l) PROVE RecordsInv'
  <2>1. TypeOK'
    BY <1>11 DEF VenueEnds, TypeOK, OrderStatus, RowStatus, Legs, records, upkeep
  <2>2. SentInOrder' /\ Believes' /\ ClaimsAreTrue'
    BY <1>11, <1>a DEF VenueEnds, TypeOK, SentInOrder, Believes, Trading, Control, ClaimsAreTrue, RowsFollow, Legs, records, upkeep
  <2>3. Trading' /\ FilledIsPaired'
    BY <1>11, <1>a DEF VenueEnds, TypeOK, Trading, Control, FilledIsPaired, Bought, SentInOrder, Believes, Legs, records, upkeep
  <2>4. Control'
    BY <1>11, <1>a DEF VenueEnds, TypeOK, Trading, Control, RowsFollow, Legs, Hedge, Secondary, records, upkeep
  <2>5. RowsFollow'
    BY <1>11, <1>a DEF VenueEnds, TypeOK, Trading, Control, RowsFollow, Legs, records, upkeep
  <2>6. QED BY <2>1, <2>2, <2>3, <2>4, <2>5
<1>12. ASSUME BootOrders PROVE RecordsInv'
  <2>1. TypeOK'
    BY <1>12 DEF BootOrders, TypeOK, OrderStatus, RowStatus, Legs, Reported, trading
  <2>2. SentInOrder' /\ Believes' /\ ClaimsAreTrue'
    BY <1>12, <1>a DEF BootOrders, TypeOK, SentInOrder, Believes, Trading, Control, ClaimsAreTrue, RowsFollow, Legs, Reported, trading
  <2>3. Trading' /\ FilledIsPaired'
    BY <1>12, <1>a DEF BootOrders, TypeOK, Trading, Control, FilledIsPaired, Bought, SentInOrder, Believes, Legs, Reported, trading
  <2>4. Control'
    BY <1>12, <1>a DEF BootOrders, TypeOK, Trading, Control, RowsFollow, Legs, Hedge, Secondary, Reported, trading
  <2>5. RowsFollow'
    BY <1>12, <1>a DEF BootOrders, TypeOK, Trading, Control, RowsFollow, Legs, Reported, trading
  <2>6. QED BY <2>1, <2>2, <2>3, <2>4, <2>5
<1>13. ASSUME BootHalf PROVE RecordsInv'
  <2>1. TypeOK'
    <3>1. half' \in BOOLEAN
      BY <1>13 DEF BootHalf, HalfRecorded, TypeOK
    <3>2. QED BY <1>13, <3>1 DEF BootHalf, TypeOK, trading
  <2>2. SentInOrder' /\ Believes' /\ ClaimsAreTrue'
    BY <1>13, <1>a DEF BootHalf, TypeOK, SentInOrder, Believes, Trading, Control, ClaimsAreTrue, RowsFollow, Legs, trading
  <2>3. Trading' /\ FilledIsPaired'
    BY <1>13, <1>a DEF BootHalf, TypeOK, Trading, Control, FilledIsPaired, Bought, SentInOrder, Believes, Legs, trading
  <2>4. Control'
    BY <1>13, <1>a DEF BootHalf, TypeOK, Trading, Control, RowsFollow, Legs, Hedge, Secondary, trading
  <2>5. RowsFollow'
    BY <1>13, <1>a DEF BootHalf, TypeOK, Trading, Control, RowsFollow, Legs, trading
  <2>6. QED BY <2>1, <2>2, <2>3, <2>4, <2>5
<1>14. ASSUME BootHistory PROVE RecordsInv'
  <2>1. TypeOK'
    BY <1>14 DEF BootHistory, TypeOK, OrderStatus, RowStatus, Legs, trading, records
  <2>2. SentInOrder' /\ Believes' /\ ClaimsAreTrue'
    BY <1>14, <1>a DEF BootHistory, TypeOK, SentInOrder, Believes, Trading, Control, ClaimsAreTrue, RowsFollow, Legs, trading, records
  <2>3. Trading' /\ FilledIsPaired'
    BY <1>14, <1>a DEF BootHistory, TypeOK, Trading, Control, FilledIsPaired, Bought, SentInOrder, Believes, Legs, trading, records
  <2>4. Control'
    BY <1>14, <1>a DEF BootHistory, TypeOK, Trading, Control, RowsFollow, Legs, Hedge, Secondary, trading, records
  <2>5. RowsFollow'
    BY <1>14, <1>a DEF BootHistory, TypeOK, Trading, Control, RowsFollow, Legs, trading, records
  <2>6. QED BY <2>1, <2>2, <2>3, <2>4, <2>5
<1>15. ASSUME Age PROVE RecordsInv'
  <2>1. TypeOK'
    BY <1>15 DEF Age, TypeOK, OrderStatus, RowStatus, Legs, trading, records
  <2>2. SentInOrder' /\ Believes' /\ ClaimsAreTrue'
    BY <1>15, <1>a DEF Age, TypeOK, SentInOrder, Believes, Trading, Control, ClaimsAreTrue, RowsFollow, Legs, trading, records
  <2>3. Trading' /\ FilledIsPaired'
    BY <1>15, <1>a DEF Age, TypeOK, Trading, Control, FilledIsPaired, Bought, SentInOrder, Believes, Legs, trading, records
  <2>4. Control'
    BY <1>15, <1>a DEF Age, TypeOK, Trading, Control, RowsFollow, Legs, Hedge, Secondary, trading, records
  <2>5. RowsFollow'
    BY <1>15, <1>a DEF Age, TypeOK, Trading, Control, RowsFollow, Legs, trading, records
  <2>6. QED BY <2>1, <2>2, <2>3, <2>4, <2>5
<1>16. ASSUME PollerReads PROVE RecordsInv'
  <2>1. TypeOK'
    BY <1>16 DEF PollerReads, TypeOK, OrderStatus, RowStatus, Legs, RowEnded, trading, records
  <2>2. SentInOrder' /\ Believes' /\ ClaimsAreTrue'
    BY <1>16, <1>a DEF PollerReads, TypeOK, SentInOrder, Believes, Trading, Control, ClaimsAreTrue, RowsFollow, Legs, RowEnded, trading, records
  <2>3. Trading' /\ FilledIsPaired'
    BY <1>16, <1>a DEF PollerReads, TypeOK, Trading, Control, FilledIsPaired, Bought, SentInOrder, Believes, Legs, RowEnded, trading, records
  <2>4. Control'
    BY <1>16, <1>a DEF PollerReads, TypeOK, Trading, Control, RowsFollow, Legs, Hedge, Secondary, RowEnded, trading, records
  <2>5. RowsFollow'
    BY <1>16, <1>a DEF PollerReads, TypeOK, Trading, Control, RowsFollow, Legs, RowEnded, trading, records
  <2>6. QED BY <2>1, <2>2, <2>3, <2>4, <2>5
<1>17. ASSUME PollerWrites PROVE RecordsInv'
  <2> DEFINE status == DerivedStatus(rec')
             filled == {l \in Legs : rec'[l] = "filled"}
             known  == {l \in Legs : rec'[l] # "none"}
  <2> HIDE DEF status, filled, known
  <2>0. /\ rec' \in [Legs -> OrderStatus]
        /\ \A l \in Legs : /\ rec'[l] = "none" <=> rec[l] = "none"
                           /\ rec'[l] = "filled" => venue[l] = "filled"
    <3>1. \A l \in Legs : "none" \notin Reported(l) /\ ("filled" \in Reported(l) => venue[l] = "filled")
      BY DEF Reported
    <3>2. QED BY <1>17, <3>1 DEF PollerWrites
  <2>s. status \in {"", "failed", "filled", "recovering"}
    BY DEF DerivedStatus, status
  <2>a. rec'["S1"] = "none" => status = "" \/ (status = "failed" /\ rec'["P"] = "dead")
    <3>1. SUFFICES ASSUME rec'["S1"] = "none" PROVE status = "" \/ (status = "failed" /\ rec'["P"] = "dead")
      OBVIOUS
    <3>2. known = {} \/ known = {"P"}
      BY <2>0, <3>1 DEF RowsFollow, Legs, known
    <3>3. Cardinality({"P"}) = 1
      BY FS_Singleton
    <3>4. CASE known = {}
      BY <2>0, <3>4 DEF DerivedStatus, status, known
    <3>5. CASE known = {"P"} /\ filled = {}
      BY <2>0, <3>1, <3>5 DEF DerivedStatus, StillOpen, OrderStatus, Legs, status, known, filled
    <3>6. CASE known = {"P"} /\ filled # {}
      <4>1. Cardinality(known) < 2
        BY <3>3, <3>6
      <4>2. QED BY <4>1, <3>6 DEF DerivedStatus, status, known, filled
    <3>7. QED BY <3>2, <3>4, <3>5, <3>6
  <2>b. ASSUME status = "filled"
        PROVE  rec'["P"] = "filled" /\ rec'["S1"] = "filled" /\ venue["S2"] # "filled"
    <3>1. rec'["S1"] # "none"
      BY <2>a, <2>b
    <3>2. rec'["P"] # "none"
      BY <2>0, <3>1 DEF RowsFollow, Legs
    <3>3. known = filled
      BY <2>b DEF DerivedStatus, status, known, filled
    <3>4. QED BY <2>0, <3>1, <3>2, <3>3 DEF SentInOrder, Legs, known, filled
  <2>r. row' = row \/ (row' = status /\ status # "")
    BY <1>17 DEF PollerWrites, status
  <2>h. history' \in RowStatus
    BY <1>17, <2>s DEF PollerWrites, TypeOK, RowStatus, status
  <2>u. UNCHANGED trading /\ UNCHANGED <<sentinel, evidence, half, boot, age, crashes, faults>>
        /\ poller' = "idle" /\ poller # "idle"
    BY <1>17 DEF PollerWrites
  <2>g. at[1] = "gone"
    BY <2>u DEF Trading
  <2>1. TypeOK'
    BY <2>0, <2>s, <2>r, <2>h, <2>u DEF TypeOK, RowStatus, trading
  <2>2. SentInOrder' /\ Believes' /\ ClaimsAreTrue'
    BY <2>u DEF SentInOrder, Believes, ClaimsAreTrue, trading
  <2>3. Trading' /\ FilledIsPaired'
    <3>1. Trading'
      BY <2>u, <2>g DEF Trading, trading
    <3>2. status = "filled" => venue["P"] = "filled" /\ venue["S1"] = "filled" /\ venue["S2"] # "filled" /\ sold = 0
      BY <2>0, <2>b DEF SentInOrder, TypeOK, Legs
    <3>3. CASE row' = row
      BY <2>u, <3>1, <3>3 DEF FilledIsPaired, Bought, trading
    <3>4. CASE row' = status
      BY <2>u, <3>1, <3>2, <3>4 DEF FilledIsPaired, Bought, trading
    <3>5. QED BY <2>r, <3>3, <3>4
  <2>4. Control'
    BY <2>u, <2>g, <1>a DEF Control, trading
  <2>5. RowsFollow'
    BY <2>0, <2>a, <2>r, <2>u DEF RowsFollow, Legs, trading, PollerWrites, TypeOK, Believes
  <2>6. QED BY <2>1, <2>2, <2>3, <2>4, <2>5
<1>18. ASSUME AutoResolve PROVE RecordsInv'
  <2>1. TypeOK'
    BY <1>18 DEF AutoResolve, TypeOK, OrderStatus, RowStatus, Legs, MarkReconciled, HasOpenOrders, StillOpen, trading, upkeep
  <2>2. SentInOrder' /\ Believes' /\ ClaimsAreTrue'
    BY <1>18, <1>a DEF AutoResolve, TypeOK, SentInOrder, Believes, Trading, Control, ClaimsAreTrue, RowsFollow, Legs, MarkReconciled, HasOpenOrders, StillOpen, trading, upkeep
  <2>3. Trading' /\ FilledIsPaired'
    BY <1>18, <1>a DEF AutoResolve, TypeOK, Trading, Control, FilledIsPaired, Bought, SentInOrder, Believes, Legs, MarkReconciled, HasOpenOrders, StillOpen, trading, upkeep
  <2>4. Control'
    BY <1>18, <1>a DEF AutoResolve, TypeOK, Trading, Control, RowsFollow, Legs, Hedge, Secondary, MarkReconciled, HasOpenOrders, StillOpen, trading, upkeep
  <2>5. RowsFollow'
    BY <1>18, <1>a DEF AutoResolve, TypeOK, Trading, Control, RowsFollow, Legs, MarkReconciled, HasOpenOrders, StillOpen, trading, upkeep
  <2>6. QED BY <2>1, <2>2, <2>3, <2>4, <2>5
<1>19. ASSUME Crash PROVE RecordsInv'
  <2>1. TypeOK'
    <3>1. at' \in {<<s>> : s \in {"decide", "recover", "unwind", "evidence", "mark", "record", "gone"}}
      BY <1>19 DEF Crash
    <3>2. crashes' \in 0..MaxCrashes
      BY <1>19 DEF Crash, TypeOK
    <3>3. QED BY <1>19, <3>1, <3>2 DEF Crash, TypeOK, OrderStatus, RowStatus, records
  <2>2. SentInOrder' /\ Believes' /\ ClaimsAreTrue'
    BY <1>19, <1>a DEF Crash, TypeOK, SentInOrder, Believes, Trading, Control, ClaimsAreTrue, RowsFollow, Legs, records
  <2>3. Trading' /\ FilledIsPaired'
    BY <1>19, <1>a DEF Crash, TypeOK, Trading, Control, FilledIsPaired, Bought, SentInOrder, Believes, Legs, records
  <2>4. Control'
    BY <1>19, <1>a DEF Crash, TypeOK, Trading, Control, RowsFollow, Legs, Hedge, Secondary, records
  <2>5. RowsFollow'
    BY <1>19, <1>a DEF Crash, TypeOK, Trading, Control, RowsFollow, Legs, records
  <2>6. QED BY <2>1, <2>2, <2>3, <2>4, <2>5
<1>20. ASSUME UNCHANGED vars PROVE RecordsInv'
  BY <1>20 DEF vars, TypeOK, SentInOrder, Believes, Trading, Control, RowsFollow,
     ClaimsAreTrue, FilledIsPaired, Bought, Hedge, Secondary
<1> QED BY <1>1, <1>2, <1>3, <1>4, <1>5, <1>6, <1>7, <1>8, <1>9, <1>10, <1>11, <1>12, <1>13, <1>14, <1>15, <1>16, <1>17, <1>18, <1>19, <1>20 DEF Work, Engine, Boot, Upkeep

-----------------------------------------------------------------------------
(* The cycle of the reconciler.                                             *)

\* Every step of a cycle keeps the invariant.
LEMMA CycleStays ==
    ASSUME IInv, Cycle
    PROVE  IInv'
<1> USE DEF IInv
<1>a. /\ tracked \in [Lots -> Nat] /\ submitted \in [Lots -> Nat] /\ maxSeen \in [Lots -> Nat]
      /\ moved \in [Lots -> Int] /\ strands \in [Lots -> Nat] /\ unread \in [Lots -> Nat]
      /\ capAbsent \in [Lots -> 0..2] /\ sent \in [Lots -> Nat] /\ lost \in [Lots -> 0..MaxLost]
      /\ flickers \in [Lots -> 0..MaxFlickers] /\ absent \in 0..AbsentCycles-1
      /\ cycle.at = "judge" => cycle \in [at : {"judge"}, failed : SUBSET Lots, new : SUBSET Lots]
      /\ cycle.at = "act" =>
            cycle \in [at : {"act"}, failed : SUBSET Lots, plan : [Lots -> Plans]]
  BY DEF StrandsTypeOK, ResetCycles, Idle
\* What the account holds is a whole number, and so is its size.
<1>b. ASSUME NEW l \in Lots PROVE Held(l) \in Int /\ SizeOf(Held(l)) \in Nat
  BY <1>a DEF RecordsInv, TypeOK, Held, SizeOf, Bought, Lots
\* The cap of a smaller lot is the smaller one.
<1>c. ASSUME NEW a \in Nat, NEW b \in Nat, NEW m \in Nat, a <= b PROVE m * a <= m * b
  <2>1. b - a \in Nat
    BY <1>c
  <2>2. m * (b - a) >= 0
    BY <2>1
  <2>3. m * b = m * a + m * (b - a)
    OBVIOUS
  <2>4. m * a \in Int /\ m * b \in Int /\ m * (b - a) \in Int
    BY <2>1
  <2>5. QED BY <2>2, <2>3, <2>4
<1>1. ASSUME NEW failed \in SUBSET Lots, Observe(failed) PROVE IInv'
  <2>1. PICK missed \in SUBSET {l \in Lots \ failed : Missable(l)} :
          LET view == [l \in Lots |-> IF l \in missed THEN 0 ELSE SizeOf(Held(l))]
              gone == {l \in Lots \ failed : Absences(l, view[l] > 0) >= ResetCycles}
          IN  /\ tracked' = [l \in Lots |-> IF l \in failed THEN tracked[l] ELSE view[l]]
              /\ capAbsent' = [l \in Lots |-> CASE l \in failed -> capAbsent[l]
                                                [] l \in gone -> 0
                                                [] OTHER -> Absences(l, view[l] > 0)]
              /\ submitted' = [l \in Lots |-> IF l \in gone THEN 0 ELSE submitted[l]]
              /\ maxSeen' = [l \in Lots |-> IF l \in gone THEN 0 ELSE maxSeen[l]]
              /\ flickers' = [l \in Lots |-> CASE l \in failed -> flickers[l]
                                               [] l \in missed -> flickers[l] + 1
                                               [] OTHER -> 0]
              /\ cycle' = [at |-> "judge", failed |-> failed,
                           new |-> {l \in Lots \ failed : view[l] > 0 /\ tracked[l] = 0}]
    BY <1>1 DEF Observe
  <2> DEFINE view == [l \in Lots |-> IF l \in missed THEN 0 ELSE SizeOf(Held(l))]
             gone == {l \in Lots \ failed : Absences(l, view[l] > 0) >= ResetCycles}
  <2>2. UNCHANGED <<vars, moved, sent, lost, absent, strands, unread>>
    BY <1>1 DEF Observe
  <2>3. RecordsInv'
    BY <2>2, RecordsStay
  <2>v. view \in [Lots -> Nat]
    BY <1>b
  <2> HIDE DEF view
  <2>4. tracked' \in [Lots -> Nat] /\ \A l \in Lots : l \notin failed => tracked'[l] = view[l]
    BY <2>1, <2>v, <1>a DEF view
  \* No lot is absent often enough.
  <2>a. \A l \in Lots : /\ Absences(l, view[l] > 0) \in 0..1
                        /\ view[l] > 0 => Absences(l, view[l] > 0) = 0
    <3>1. ASSUME NEW l \in Lots
          PROVE  /\ Absences(l, view[l] > 0) \in 0..1
                 /\ view[l] > 0 => Absences(l, view[l] > 0) = 0
      <4>1. capAbsent[l] \in 0..1 /\ (tracked[l] > 0 => capAbsent[l] = 0)
        BY <1>a DEF AccountsAreKept
      <4>2. QED BY <4>1 DEF Absences
    <3>2. QED BY <3>1
  <2>g. gone = {}
    BY <2>a DEF ResetCycles
  <2>5. flickers' \in [Lots -> 0..MaxFlickers]
    <3>1. ASSUME NEW l \in Lots
          PROVE  (CASE l \in failed -> flickers[l] [] l \in missed -> flickers[l] + 1 [] OTHER -> 0)
                     \in 0..MaxFlickers
      BY <1>a DEF Missable
    <3>2. QED BY <2>1, <3>1
  <2>c. /\ submitted' = submitted /\ maxSeen' = maxSeen
        /\ capAbsent' = [l \in Lots |-> IF l \in failed THEN capAbsent[l]
                                       ELSE Absences(l, view[l] > 0)]
    <3>1. /\ submitted' = [l \in Lots |-> IF l \in gone THEN 0 ELSE submitted[l]]
          /\ maxSeen' = [l \in Lots |-> IF l \in gone THEN 0 ELSE maxSeen[l]]
          /\ capAbsent' = [l \in Lots |-> CASE l \in failed -> capAbsent[l]
                                            [] l \in gone -> 0
                                            [] OTHER -> Absences(l, view[l] > 0)]
      BY <2>1 DEF view
    <3>2. QED BY <1>a, <2>g, <3>1
  <2>6. cycle' \in [at : {"judge"}, failed : SUBSET Lots, new : SUBSET Lots]
    BY <2>1
  <2>7. cycle'.at = "judge"
    BY <2>1
  <2>8. capAbsent' \in [Lots -> 0..1] /\ AccountsAreKept'
    BY <1>a, <2>2, <2>4, <2>a, <2>c, <2>1 DEF AccountsAreKept
  <2>9. StrandsTypeOK'
    BY <1>a, <2>2, <2>3, <2>4, <2>5, <2>6, <2>8, <2>c DEF StrandsTypeOK, ResetCycles, RecordsInv
  <2>10. QED BY <2>2, <2>3, <2>7, <2>8, <2>9, <2>c DEF PlansFit, OneIncidentPerLot
<1>2. ASSUME Judge PROVE IInv'
  <2>1. PICK loaded \in BOOLEAN :
        \E p \in Decisions("P", cycle.failed, loaded), q \in Decisions("S", cycle.failed, loaded) :
        LET decision == [l \in Lots |-> IF l = "P" THEN p ELSE q] IN
        LET asked == {l \in cycle.new : /\ decision[l] \in {"none", "manual"}
                                       /\ ~(Paired(l, loaded) /\ tracked[l] <= Size)}
        IN \E missed \in SUBSET {l \in asked : Unread(l)} :
        LET wanted == {l \in asked : ~Open(l) \/ l \in missed}
        IN \E written \in IF "page_fails" \in faults THEN SUBSET wanted ELSE {wanted} :
          /\ strands' = [l \in Lots |-> strands[l] + (IF l \in written THEN 1 ELSE 0)]
          /\ unread' = [l \in Lots |-> unread[l] + (IF l \in missed THEN 1 ELSE 0)]
          /\ cycle' = [at |-> "act", failed |-> cycle.failed,
                       plan |-> [l \in Lots |-> IF /\ AutoClose /\ ~Paired(l, loaded)
                                                   /\ decision[l] \in {"close", "complete"}
                                                THEN decision[l] ELSE "none"]]
    BY <1>2 DEF Judge
  <2>p. PICK p \in Decisions("P", cycle.failed, loaded), q \in Decisions("S", cycle.failed, loaded) :
        LET decision == [l \in Lots |-> IF l = "P" THEN p ELSE q] IN
        LET asked == {l \in cycle.new : /\ decision[l] \in {"none", "manual"}
                                       /\ ~(Paired(l, loaded) /\ tracked[l] <= Size)}
        IN \E missed \in SUBSET {l \in asked : Unread(l)} :
        LET wanted == {l \in asked : ~Open(l) \/ l \in missed}
        IN \E written \in IF "page_fails" \in faults THEN SUBSET wanted ELSE {wanted} :
          /\ strands' = [l \in Lots |-> strands[l] + (IF l \in written THEN 1 ELSE 0)]
          /\ unread' = [l \in Lots |-> unread[l] + (IF l \in missed THEN 1 ELSE 0)]
          /\ cycle' = [at |-> "act", failed |-> cycle.failed,
                       plan |-> [l \in Lots |-> IF /\ AutoClose /\ ~Paired(l, loaded)
                                                   /\ decision[l] \in {"close", "complete"}
                                                THEN decision[l] ELSE "none"]]
    BY <2>1
  <2> DEFINE decision == [l \in Lots |-> IF l = "P" THEN p ELSE q]
             asked == {l \in cycle.new : /\ decision[l] \in {"none", "manual"}
                                        /\ ~(Paired(l, loaded) /\ tracked[l] <= Size)}
  <2>d. \A l \in Lots : decision[l] \in Decisions(l, cycle.failed, loaded)
    BY DEF Lots
  <2>m. PICK missed \in SUBSET {l \in asked : Unread(l)} :
          \E written \in SUBSET {l \in asked : ~Open(l) \/ l \in missed} :
          /\ strands' = [l \in Lots |-> strands[l] + (IF l \in written THEN 1 ELSE 0)]
          /\ unread' = [l \in Lots |-> unread[l] + (IF l \in missed THEN 1 ELSE 0)]
          /\ cycle' = [at |-> "act", failed |-> cycle.failed,
                       plan |-> [l \in Lots |-> IF /\ AutoClose /\ ~Paired(l, loaded)
                                                   /\ decision[l] \in {"close", "complete"}
                                                THEN decision[l] ELSE "none"]]
    BY <2>p
  <2> HIDE DEF decision, asked
  <2>0. PICK written \in SUBSET {l \in asked : ~Open(l) \/ l \in missed} :
          /\ strands' = [l \in Lots |-> strands[l] + (IF l \in written THEN 1 ELSE 0)]
          /\ unread' = [l \in Lots |-> unread[l] + (IF l \in missed THEN 1 ELSE 0)]
          /\ cycle' = [at |-> "act", failed |-> cycle.failed,
                       plan |-> [l \in Lots |-> IF /\ AutoClose /\ ~Paired(l, loaded)
                                                   /\ decision[l] \in {"close", "complete"}
                                                THEN decision[l] ELSE "none"]]
    BY <2>m
  <2>2. cycle.at = "judge" /\ UNCHANGED <<vars, moved, tracked, accounts, absent, flickers>>
    BY <1>2 DEF Judge
  <2>3. RecordsInv'
    BY <2>2, RecordsStay
  <2>4. /\ strands' \in [Lots -> Nat] /\ unread' \in [Lots -> Nat]
        /\ OneIncidentPerLot'
    <3>1. \A l \in Lots : l \in written => strands[l] = 0 \/ l \in missed
      BY <1>a, <2>0 DEF Open
    <3>2. QED BY <1>a, <2>0, <3>1 DEF OneIncidentPerLot
  <2>5. \A l \in Lots : cycle'.plan[l] # "none" => decision[l] \in {"close", "complete"}
    BY <2>0
  <2>6. \A l \in Lots : decision[l] \in {"close", "complete"} => tracked[l] <= MaxAuto(l)
    BY <2>d DEF Decisions
  <2>7. cycle' \in [at : {"act"}, failed : SUBSET Lots, plan : [Lots -> Plans]]
    BY <1>a, <2>0, <2>2 DEF Plans
  <2>8. StrandsTypeOK'
    BY <1>a, <2>2, <2>3, <2>4, <2>7 DEF StrandsTypeOK, ResetCycles, RecordsInv, accounts
  <2>9. PlansFit' /\ AccountsAreKept'
    BY <2>2, <2>5, <2>6 DEF PlansFit, AccountsAreKept, accounts
  <2>10. QED BY <2>3, <2>4, <2>8, <2>9
<1>3. ASSUME NEW l \in Lots, Spare(l) \/ NothingSent(l) \/ Send(l) \/ SendUnanswered(l) PROVE IInv'
  <2>1. cycle.at = "act" /\ cycle.plan[l] # "none" /\ Done(l)
        /\ UNCHANGED <<vars, tracked, capAbsent, absent, flickers, strands, unread>>
    BY <1>3 DEF Spare, NothingSent, Send, SendUnanswered, Attempt, accounts
  <2>2. RecordsInv'
    BY <2>1, RecordsStay
  <2>3. /\ cycle' \in [at : {"act"}, failed : SUBSET Lots, plan : [Lots -> Plans]]
        /\ \A k \in Lots : cycle'.plan[k] # "none" => cycle.plan[k] # "none"
    BY <1>a, <2>1 DEF Done, Plans
  <2>4. tracked[l] \in Nat /\ tracked[l] <= MaxAuto(l) /\ maxSeen[l] <= MaxAuto(l)
    BY <1>a, <2>1 DEF PlansFit
  <2>5. /\ CapBase(l) \in Nat /\ CapBase(l) <= MaxAuto(l)
        /\ maxSeen[l] <= CapBase(l) /\ tracked[l] <= CapBase(l)
    BY <1>a, <2>4 DEF CapBase
  <2>6. /\ maxSeen' \in [Lots -> Nat] /\ \A k \in Lots : maxSeen'[k] <= MaxAuto(k)
        /\ maxSeen' = maxSeen \/ maxSeen' = [maxSeen EXCEPT ![l] = CapBase(l)]
    BY <1>a, <1>3, <2>5 DEF Spare, NothingSent, Send, SendUnanswered, Attempt, accounts, PlansFit
  <2>7. /\ submitted' \in [Lots -> Nat] /\ sent' \in [Lots -> Nat] /\ lost' \in [Lots -> 0..MaxLost]
        /\ AccountsAreKept'
    <3> DEFINE m == maxSeen[l]
               n == CapBase(l)
    <3>1. /\ m \in Nat /\ n \in Nat /\ m <= n /\ lost[l] \in Nat /\ lost[l] + 1 \in Nat
          /\ submitted[l] \in Nat /\ sent[l] \in Nat /\ tracked[l] \in Nat /\ tracked[l] <= n
          /\ submitted[l] <= Mult * m /\ sent[l] <= submitted[l] + lost[l] * m
      BY <1>a, <2>4, <2>5 DEF AccountsAreKept
    <3>m. ASSUME NEW k \in Nat PROVE (k + 1) * n = k * n + n
      BY <3>1
    <3> HIDE DEF m, n
    <3>2. /\ Mult * m <= Mult * n /\ lost[l] * m <= lost[l] * n
          /\ (lost[l] + 1) * n = lost[l] * n + n
          /\ Mult * m \in Nat /\ Mult * n \in Nat /\ lost[l] * m \in Nat /\ lost[l] * n \in Nat
          /\ (lost[l] + 1) * n \in Nat
      BY <1>c, <3>1, <3>m
    <3>a. ASSUME NEW a \in Nat, NEW b \in Nat, NEW c \in Nat, NEW d \in Nat, a <= d + b, b <= c
          PROVE  a <= d + c
      BY <3>a
    <3>b. submitted[l] <= Mult * n
      BY <3>1, <3>2, <3>a
    <3>c. sent[l] <= submitted[l] + lost[l] * n
      BY <3>1, <3>2, <3>a
    <3>3. submitted[l] <= Mult * n /\ sent[l] <= submitted[l] + lost[l] * n
      BY <3>b, <3>c
    <3>4. CASE UNCHANGED <<submitted, sent, lost>>
      <4>1. CASE maxSeen' = maxSeen
        BY <1>a, <2>1, <3>4, <4>1 DEF AccountsAreKept
      <4>2. CASE maxSeen' = [maxSeen EXCEPT ![l] = n]
        BY <1>a, <2>1, <3>3, <3>4, <4>2 DEF AccountsAreKept
      <4>3. QED BY <2>6, <4>1, <4>2 DEF n
    <3>5. CASE Send(l)
      <4>1. /\ submitted' = [submitted EXCEPT ![l] = @ + tracked[l]]
            /\ sent' = [sent EXCEPT ![l] = @ + tracked[l]] /\ lost' = lost
            /\ maxSeen' = [maxSeen EXCEPT ![l] = n]
            /\ submitted[l] + tracked[l] <= Mult * n
        BY <3>5 DEF Send, Attempt, Trades, CapAllows, n
      <4>2. sent[l] + tracked[l] <= (submitted[l] + tracked[l]) + lost[l] * n
        BY <3>1, <3>2, <3>3
      <4>3. QED BY <1>a, <2>1, <3>1, <4>1, <4>2 DEF AccountsAreKept
    <3>6. CASE SendUnanswered(l)
      <4>1. /\ submitted' = submitted /\ lost' = [lost EXCEPT ![l] = @ + 1]
            /\ sent' = [sent EXCEPT ![l] = @ + tracked[l]] /\ lost[l] < MaxLost
            /\ maxSeen' = [maxSeen EXCEPT ![l] = n]
        BY <3>6 DEF SendUnanswered, Attempt, Trades, n
      <4>2. sent[l] + tracked[l] <= submitted[l] + (lost[l] + 1) * n
        BY <3>1, <3>2, <3>3
      <4>3. QED BY <1>a, <2>1, <3>1, <3>3, <4>1, <4>2 DEF AccountsAreKept
    <3>7. QED BY <1>3, <3>4, <3>5, <3>6 DEF Spare, NothingSent, accounts
  <2>8. moved' \in [Lots -> Int]
    <3>1. tracked[l] \in Int /\ -tracked[l] \in Int /\ Other(l) \in Lots
      BY <2>4 DEF Other, Lots
    <3>2. CASE moved' = moved
      BY <1>a, <3>2
    <3>3. CASE Trades(l)
      BY <1>a, <3>1, <3>3 DEF Trades
    <3>4. QED BY <1>3, <3>2, <3>3 DEF Spare, NothingSent, Send, SendUnanswered
  <2>9. StrandsTypeOK'
    BY <1>a, <2>1, <2>2, <2>3, <2>6, <2>7, <2>8 DEF StrandsTypeOK, ResetCycles, RecordsInv
  <2>10. PlansFit' /\ OneIncidentPerLot'
    BY <2>1, <2>3, <2>6 DEF PlansFit, OneIncidentPerLot
  <2>11. QED BY <2>2, <2>7, <2>9, <2>10
<1>4. ASSUME Sweep PROVE IInv'
  <2>1. /\ cycle' = Idle
        /\ row' = row \/ (row' = "closed" /\ Listed)
        /\ absent' \in 0..AbsentCycles-1
    <3>1. absent \in Nat /\ absent <= AbsentCycles - 1 /\ 0 \in 0..AbsentCycles-1
      BY <1>a
    <3>2. CASE ~Listed
      BY <1>4, <3>1, <3>2 DEF Sweep
    <3>3. CASE Listed /\ (FilledLots = {} \/ FilledLots \cap cycle.failed # {})
      BY <1>a, <1>4, <3>3 DEF Sweep
    <3>4. CASE Listed /\ FilledLots # {} /\ FilledLots \cap cycle.failed = {}
      <4>1. CASE ~\A l \in FilledLots : Flat(l)
        BY <1>4, <3>1, <3>4, <4>1 DEF Sweep
      <4>2. CASE (\A l \in FilledLots : Flat(l)) /\ absent + 1 < AbsentCycles
        <5>1. absent' = absent + 1 /\ row' = row /\ cycle' = Idle
          BY <1>4, <3>4, <4>2 DEF Sweep
        <5>2. absent + 1 \in 0..AbsentCycles-1
          BY <3>1, <4>2
        <5>3. QED BY <5>1, <5>2
      <4>3. CASE (\A l \in FilledLots : Flat(l)) /\ ~(absent + 1 < AbsentCycles)
        BY <1>4, <3>1, <3>4, <4>3 DEF Sweep
      <4>4. QED BY <4>1, <4>2, <4>3
    <3>5. QED BY <3>2, <3>3, <3>4
  <2>2. UNCHANGED <<trading, history, rec, sentinel, evidence, half, upkeep,
                    moved, tracked, submitted, maxSeen, capAbsent, sent, lost, flickers, strands, unread>>
    BY <1>4 DEF Sweep, accounts
  <2>3. RecordsInv'
    BY <2>1, <2>2 DEF RecordsInv, TypeOK, RowStatus, SentInOrder, Believes, Trading, Control, RowsFollow,
       ClaimsAreTrue, FilledIsPaired, Bought, Hedge, Secondary, Listed, RowEnded, trading, upkeep
  <2>4. StrandsTypeOK'
    BY <1>a, <2>1, <2>2, <2>3 DEF StrandsTypeOK, ResetCycles, RecordsInv
  <2>5. QED BY <2>1, <2>2, <2>3, <2>4 DEF PlansFit, AccountsAreKept, OneIncidentPerLot, Idle
<1>5. QED BY <1>1, <1>2, <1>3, <1>4 DEF Cycle

-----------------------------------------------------------------------------
(* The theorems.                                                            *)

\* Whichever of the faults occur and wherever the process crashes, the rows, the
\* engine and the venues stay related as the invariant says.  So every variable
\* keeps its type; a row says filled only when both sides are held, and an arb is
\* marked reconciled only after its unwind has sold: by the engine all of it; the
\* orders really sent for a lot exceed the multiple of its size by no more than
\* one size for each answer that was lost; and a lot has one open incident, and
\* one more for each time the open one was not found.
THEOREM RecordsAreTrue ==
    StrandsSpec => [](/\ IInv /\ StrandsTypeOK
                      /\ FilledIsPaired /\ ReconciledWasSold
                      /\ VolumeCap /\ OneIncidentPerLot)
<1>1. StrandsInit => IInv
  <2>1. SUFFICES ASSUME StrandsInit PROVE IInv
    OBVIOUS
  <2>2. <<"send", "P">> \in {"send", "save"} \X Legs
    BY DEF Legs
  <2>3. RecordsInv
    <3>1. TypeOK
      <4>1. at \in {"send", "save"} \X Legs
        BY <2>1, <2>2 DEF StrandsInit, Init
      <4>2. 0 \in 0..Size /\ 0 \in 0..MaxCrashes
        OBVIOUS
      <4>3. /\ venue \in [Legs -> {"unsent", "working", "filled", "dead"}]
            /\ mem \in [Legs -> OrderStatus \cup {"doubt"}] /\ rec \in [Legs -> OrderStatus]
        BY <2>1 DEF StrandsInit, Init, OrderStatus
      <4>4. sold \in 0..Size /\ crashes \in 0..MaxCrashes /\ age \in 0..2
        BY <2>1, <4>2 DEF StrandsInit, Init
      <4>5. QED BY <2>1, <4>1, <4>3, <4>4 DEF StrandsInit, Init, TypeOK, RowStatus
    <3>2. at[1] = "send" /\ at[2] = "P"
      BY <2>1 DEF StrandsInit, Init
    <3>3. QED
      BY <2>1, <3>1, <3>2 DEF StrandsInit, Init, RecordsInv, SentInOrder, Believes, Trading, Control,
         RowsFollow, ClaimsAreTrue, FilledIsPaired, Legs
  <2>4. StrandsTypeOK
    BY <2>1, <2>3 DEF StrandsInit, StrandsTypeOK, RecordsInv, ResetCycles, NoLot
  <2>5. AccountsAreKept
    BY <2>1 DEF StrandsInit, AccountsAreKept, NoLot
  <2>6. QED
    BY <2>1, <2>3, <2>4, <2>5 DEF StrandsInit, IInv, PlansFit, OneIncidentPerLot, NoLot, Idle, MaxAuto
<1>2. IInv /\ [StrandsNext]_allVars => IInv'
  <2>1. SUFFICES ASSUME IInv, [StrandsNext]_allVars PROVE IInv'
    OBVIOUS
  <2>2. CASE Work /\ UNCHANGED reconciler
    <3>1. RecordsInv'
      BY <2>1, <2>2, RecordsStay DEF IInv
    <3>2. QED
      BY <2>1, <2>2, <3>1 DEF IInv, RecordsInv, StrandsTypeOK, PlansFit, AccountsAreKept,
         OneIncidentPerLot, reconciler, accounts
  <2>3. CASE Restart
    <3>1. RecordsInv'
      BY <2>1, <2>3, RecordsStay DEF IInv, Restart
    <3>2. StrandsTypeOK'
      BY <2>1, <2>3, <3>1 DEF IInv, RecordsInv, StrandsTypeOK, ResetCycles, Restart, NoLot
    <3>3. AccountsAreKept'
      BY <2>3 DEF AccountsAreKept, Restart, NoLot
    <3>4. QED
      BY <2>1, <2>3, <3>1, <3>2, <3>3 DEF IInv, PlansFit, OneIncidentPerLot, Restart, NoLot, Idle, MaxAuto
  <2>4. CASE Cycle
    BY <2>1, <2>4, CycleStays
  <2>5. CASE UNCHANGED allVars
    <3>1. RecordsInv'
      BY <2>1, <2>5, RecordsStay DEF IInv, allVars
    <3>2. QED
      BY <2>1, <2>5, <3>1 DEF IInv, RecordsInv, StrandsTypeOK, PlansFit, AccountsAreKept,
         OneIncidentPerLot, allVars, reconciler, accounts
  <2>6. QED BY <2>1, <2>2, <2>3, <2>4, <2>5 DEF StrandsNext
<1>3. IInv => /\ StrandsTypeOK /\ FilledIsPaired /\ ReconciledWasSold
              /\ VolumeCap /\ OneIncidentPerLot
  <2>1. SUFFICES ASSUME IInv PROVE VolumeCap
    BY DEF IInv, RecordsInv, ClaimsAreTrue, ReconciledWasSold
  <2>2. SUFFICES ASSUME NEW l \in Lots
                 PROVE  sent[l] <= (Mult + lost[l]) * maxSeen[l] /\ maxSeen[l] <= MaxAuto(l)
    BY DEF VolumeCap
  <2>3. maxSeen[l] \in Nat /\ lost[l] \in Nat /\ sent[l] \in Nat /\ submitted[l] \in Nat
    BY <2>1 DEF IInv, StrandsTypeOK
  <2>4. /\ submitted[l] <= Mult * maxSeen[l] /\ sent[l] <= submitted[l] + lost[l] * maxSeen[l]
        /\ maxSeen[l] <= MaxAuto(l)
    BY <2>1 DEF IInv, AccountsAreKept, PlansFit
  <2>5. ASSUME NEW a \in Nat, NEW b \in Nat, NEW n \in Nat PROVE (a + b) * n = a * n + b * n
    OBVIOUS
  <2>6. /\ (Mult + lost[l]) * maxSeen[l] = Mult * maxSeen[l] + lost[l] * maxSeen[l]
        /\ Mult * maxSeen[l] \in Nat /\ lost[l] * maxSeen[l] \in Nat
        /\ (Mult + lost[l]) * maxSeen[l] \in Nat
    BY <2>3, <2>5
  <2>7. QED BY <2>3, <2>4, <2>6
<1>4. QED BY <1>1, <1>2, <1>3, PTL DEF StrandsSpec

\* A start-up that can write incidents opens the one of every recorded arb,
\* neither reconciled nor closed, that holds more of one side: with the rows up to
\* date what list_half_recorded_arbs looks for and what the venues hold agree.
THEOREM StartUpPages == StrandsSpec => BootPages
<1>1. ASSUME IInv, TrueRows, row \notin {"none", "closed"}, Excess, ~sentinel
      PROVE  HalfRecorded
  <2>1. /\ venue \in [Legs -> {"unsent", "working", "filled", "dead"}]
        /\ rec \in [Legs -> OrderStatus] /\ sold \in Nat
    BY <1>1 DEF IInv, RecordsInv, TypeOK
  <2>2. SentInOrder /\ RowsFollow
    BY <1>1 DEF IInv, RecordsInv
  <2>3. venue["P"] = "filled"
    BY <1>1, <2>1, <2>2 DEF Excess, Bought, SentInOrder
  <2>4. rec["P"] = "filled"
    BY <1>1, <2>2, <2>3 DEF TrueRows, Recorded, RowsFollow, Legs
  <2>5. CASE rec["S1"] = "none"
    <3>1. Recorded = {"P"}
      BY <2>2, <2>4, <2>5 DEF RowsFollow, Recorded, Legs
    <3>2. row = "pending"
      BY <1>1, <2>2, <2>4, <2>5 DEF RowsFollow
    <3>3. Cardinality({"P"}) = 1
      BY FS_Singleton
    <3>4. QED BY <3>1, <3>2, <3>3 DEF HalfRecorded
  <2>6. CASE rec["S1"] # "none"
    <3>1. SUFFICES ASSUME Recorded \subseteq FilledLegs PROVE FALSE
      BY <1>1, <2>4 DEF HalfRecorded, FilledLegs, Legs
    <3>2. rec["S1"] = "filled"
      BY <2>6, <3>1 DEF Recorded, FilledLegs, Legs
    <3>3. venue["S1"] = "filled"
      BY <1>1, <3>2 DEF TrueRows, Recorded, Legs
    <3>4. venue["S2"] = "unsent" /\ sold = 0
      BY <2>1, <2>2, <3>3 DEF SentInOrder, Legs
    <3>5. QED BY <1>1, <2>3, <3>3, <3>4 DEF Excess, Bought
  <2>7. QED BY <2>5, <2>6
<1>2. ASSUME IInv, [StrandsNext]_allVars
      PROVE  [boot = "half" /\ boot' = "history" /\ "page_fails" \notin faults
               /\ TrueRows /\ row \notin {"none", "closed"} /\ Excess
                => half' \/ sentinel]_vars
  <2>1. SUFFICES ASSUME boot = "half", boot' = "history", "page_fails" \notin faults,
                        TrueRows, row \notin {"none", "closed"}, Excess, ~sentinel
                 PROVE  half' = TRUE
    OBVIOUS
  <2>2. HalfRecorded
    BY <1>1, <1>2, <2>1
  <2>3. BootHalf
    <3>1. ~(\E l \in Legs : VenueEnds(l)) /\ ~Engine
      BY <2>1 DEF VenueEnds, Engine, Place, PlaceBlocked, Save, Decide, Recover, VerifyFirst, Unwind,
         WriteEvidence, Mark, Record, upkeep
    <3>2. ~BootOrders /\ ~BootHistory /\ ~Upkeep
      BY <2>1 DEF BootOrders, BootHistory, Upkeep, Age, PollerReads, PollerWrites, AutoResolve, upkeep
    <3>3. ~Restart
      BY <2>1 DEF Restart, Crash
    <3>4. ~Cycle
      BY <2>1 DEF Cycle, Observe, Judge, Spare, NothingSent, Send, SendUnanswered, Attempt,
         Sweep, vars, upkeep
    <3>5. ~UNCHANGED allVars
      BY <2>1 DEF allVars, vars
    <3>6. QED BY <1>2, <3>1, <3>2, <3>3, <3>4, <3>5 DEF StrandsNext, Work, Boot
  <2>4. QED BY <2>1, <2>2, <2>3 DEF BootHalf
<1>3. QED BY <1>2, RecordsAreTrue, PTL DEF StrandsSpec, BootPages
=============================================================================
