------------------------ MODULE ExposureLimitsProofs ------------------------
(***************************************************************************)
(* MarketCap, ArmStopsNew and SharedCaps for any number of callers,        *)
(* canonical ids and manual positions.  MarketCap is not inductive: what   *)
(* keeps it is what an execution still has to book (Fits), and that only   *)
(* one execution of a canonical id is under way (LockIsExclusive).  Nor is *)
(* SharedCaps: what keeps it is the sum of what all executions still have  *)
(* to book (TotalFits, PlatformFits).                                      *)
(***************************************************************************)
EXTENDS ExposureLimits, FiniteSetTheorems, WellFoundedInduction, TLAPS

Holds(t) == call[t].at \notin {"none", "lock"}

LockIsExclusive ==
    \A t, u \in Callers : Holds(t) /\ Holds(u) /\ call[t].k = call[u].k => t = u

\* Stages at which an execution has been checked and has not booked yet.
Requoted == {"primary", "secondary", "naked", "record"}
Pending == {"gate", "requote"} \cup Requoted

\* What it may book: the requote has moved the cost, or is still to come.
Limit(t) == MaxPosition + (IF call[t].at \in Requoted THEN 2 * Slip ELSE 0)

Fits ==
    \A t \in Callers : call[t].at \in Pending =>
      /\ Pair(call[t].cost) <= Limit(t)
      /\ open[call[t].k] + Pair(call[t].cost) <= Limit(t) + entered[call[t].k]

\* Nobody is past the gate with a primary already sent under the armed switch.
ArmIsFresh ==
    \A t \in Callers : ~armed \/ call[t].at \in {"requote", "primary"} => late[t] = 0

IInv ==
    /\ TypeOK
    /\ LockIsExclusive
    /\ Fits
    /\ MarketCap
    /\ ArmIsFresh
    /\ ArmStopsNew

Stages == {"lock", "gate", "both", "p", "s"} \cup {"requote"} \cup Requoted
Calls == [at : Stages, k : Canonicals, manual : BOOLEAN, cost : [Legs -> Nat]]

\* What is booked of a pair is no more than its cost.
Amounts(c) ==
    /\ Pair(c) \in Nat
    /\ \A X \in SUBSET Legs : Amount(c, X) \in Nat /\ Amount(c, X) <= Pair(c)

\* A step of one execution that books nothing: it ends, takes the free lock, or
\* moves on with a cost that still fits.
LEMMA MoveIsSafe ==
    ASSUME IInv, NEW t \in Callers,
           NEW c \in {NoCall} \cup Calls, call' = [call EXCEPT ![t] = c],
           c.at \notin {"none", "lock"} =>
             (Holds(t) /\ c.k = call[t].k) \/ LockIsFree(c.k),
           c.at \in Pending =>
             LET most == MaxPosition + (IF c.at \in Requoted THEN 2 * Slip ELSE 0) IN
             /\ Pair(c.cost) <= most
             /\ open[c.k] + Pair(c.cost) <= most + entered[c.k],
           c.at \in {"requote", "primary"} => ~armed \/ call[t].at \in {"requote", "primary"},
           late' = late, UNCHANGED <<exposures, armed, entered>>
    PROVE  LockIsExclusive' /\ Fits' /\ MarketCap' /\ ArmIsFresh' /\ ArmStopsNew'
                            /\ call' \in [Callers -> {NoCall} \cup Calls]
<1>. USE DEF IInv, exposures
<1>1. call \in [Callers -> {NoCall} \cup Calls]
  BY DEF TypeOK, Calls, Stages, Requoted
<1>2. call'[t] = c /\ \A u \in Callers : u # t => call'[u] = call[u]
  BY <1>1
<1>3. call' \in [Callers -> {NoCall} \cup Calls]
  BY <1>1
<1>4. LockIsExclusive'
  BY <1>2 DEF LockIsExclusive, Holds, LockIsFree
<1>5. Fits'
  BY <1>2 DEF Fits, Limit
<1>6. MarketCap'
  BY DEF MarketCap
<1>7. ArmIsFresh'
  BY <1>2 DEF ArmIsFresh
<1>8. ArmStopsNew'
  BY DEF ArmStopsNew
<1>. QED
  BY <1>3, <1>4, <1>5, <1>6, <1>7, <1>8

\* The inductive invariant of RiskManager's callers holds at every await of
\* execute_opportunity, and with it: the accounts of RiskManager and the calls
\* keep their types: no account is ever negative.  However many callers there are, and
\* whatever is queued and entered by hand, the account of a canonical id stays
\* within the limit that check_trade read, give or take one requote and what was
\* entered by hand; and a caller sends at most one primary after the kill switch
\* was armed.
THEOREM CallersAreCapped == Spec => [](IInv /\ TypeOK /\ MarketCap /\ ArmStopsNew)
<1>1. Init => IInv
  <2>1. ASSUME Init PROVE TypeOK
    <3>1. late = [t \in Callers |-> 0]
      BY <2>1 DEF Init
    <3>2. late \in [Callers -> 0..2]
      BY <3>1
    <3>. QED
      BY <2>1, <3>2 DEF Init, TypeOK
  <2>2. ASSUME Init, NEW t \in Callers PROVE call[t].at = "none" /\ late[t] = 0
    BY <2>2 DEF Init, NoCall
  <2>3. ASSUME Init PROVE MarketCap
    BY <2>3, LimitsAssumption DEF Init, MarketCap
  <2>. QED
    BY <2>1, <2>2, <2>3 DEF IInv, LockIsExclusive, Holds, Fits, Pending, Requoted, ArmIsFresh,
       ArmStopsNew
<1>2. IInv /\ [Next]_vars => IInv'
  <2>. SUFFICES ASSUME IInv, [Next]_vars PROVE IInv'
    OBVIOUS
  <2>. USE LimitsAssumption
  <2>0. /\ call \in [Callers -> {NoCall} \cup Calls]
        /\ open \in [Canonicals -> Nat] /\ plat \in [Platforms -> Nat]
        /\ entered \in [Canonicals -> Nat] /\ late \in [Callers -> 0..2] /\ armed \in BOOLEAN
    BY DEF IInv, TypeOK, Calls, Stages, Requoted
  <2>a. ASSUME NEW t \in Callers, Leave(t), late' = late,
               UNCHANGED <<exposures, manual, armed, entered>>
        PROVE  IInv'
    <3>1. NoCall.at = "none"
      BY DEF NoCall
    <3>2. LockIsExclusive' /\ Fits' /\ MarketCap' /\ ArmIsFresh' /\ ArmStopsNew'
                              /\ call' \in [Callers -> {NoCall} \cup Calls]
      BY <2>a, <3>1, MoveIsSafe DEF Leave, Pending, Requoted
    <3>. QED
      BY <2>a, <3>2 DEF IInv, TypeOK, exposures, Calls, Stages, Requoted
  <2>b. ASSUME NEW t \in Callers, NEW at \in Stages, call[t] # NoCall, GoTo(t, at),
               at # "lock" => Holds(t) \/ LockIsFree(call[t].k),
               at \in Pending =>
                 LET most == MaxPosition + (IF at \in Requoted THEN 2 * Slip ELSE 0) IN
                 /\ Pair(call[t].cost) <= most
                 /\ open[call[t].k] + Pair(call[t].cost) <= most + entered[call[t].k],
               at \in {"requote", "primary"} => ~armed \/ call[t].at \in {"requote", "primary"},
               late' = late, UNCHANGED <<exposures, manual, armed, entered>>
        PROVE  IInv'
    <3>. DEFINE c == [call[t] EXCEPT !.at = at]
    <3>1. call[t] \in Calls
      BY <2>0, <2>b
    <3>2. c \in Calls /\ c.at = at /\ c.k = call[t].k /\ c.cost = call[t].cost
      BY <3>1 DEF Calls
    <3>3. call' = [call EXCEPT ![t] = c]
      BY <2>b DEF GoTo
    <3>4. LockIsExclusive' /\ Fits' /\ MarketCap' /\ ArmIsFresh' /\ ArmStopsNew'
                              /\ call' \in [Callers -> {NoCall} \cup Calls]
      <4>. HIDE DEF c
      <4>. QED BY <2>b, <3>2, <3>3, MoveIsSafe
    <3>. QED
      BY <2>b, <3>4 DEF IInv, TypeOK, exposures, Calls, Stages, Requoted
  <2>1. ASSUME NEW t \in Callers, Call(t) PROVE IInv'
    <3>1. PICK k \in Canonicals, m \in BOOLEAN, c \in [Legs -> Costs] :
            call' = [call EXCEPT ![t] = [at |-> "lock", k |-> k, manual |-> m, cost |-> c]]
      BY <2>1 DEF Call
    <3>2. [at |-> "lock", k |-> k, manual |-> m, cost |-> c] \in Calls
      BY <3>1 DEF Calls, Stages
    <3>3. LockIsExclusive' /\ Fits' /\ MarketCap' /\ ArmIsFresh' /\ ArmStopsNew'
                              /\ call' \in [Callers -> {NoCall} \cup Calls]
      BY <2>1, <3>1, <3>2, MoveIsSafe DEF Call, Pending, Requoted
    <3>. QED
      BY <2>1, <3>3 DEF Call, IInv, TypeOK, exposures, Calls, Stages, Requoted
  <2>2. ASSUME NEW t \in Callers, Enter(t) PROVE IInv'
    <3>1. CASE Leave(t)
      BY <2>2, <3>1, <2>a DEF Enter
    <3>2. CASE Approved(call[t].k, call[t].cost) /\ GoTo(t, "gate")
      <4>1. /\ Pair(call[t].cost) \in Nat
            /\ Pair(call[t].cost) <= MaxPosition
            /\ open[call[t].k] + Pair(call[t].cost) <= MaxPosition + entered[call[t].k]
        BY <2>0, <2>2, <3>2 DEF Enter, At, Approved, Pair, Calls, Legs, NoCall
      <4>. QED
        BY <2>2, <3>2, <4>1, <2>b DEF Enter, At, NoCall, Pending, Requoted, Stages
    <3>. QED
      BY <2>2, <3>1, <3>2 DEF Enter
  <2>3. ASSUME NEW t \in Callers, PassGate(t) PROVE IInv'
    <3>1. CASE Leave(t)
      BY <2>3, <3>1, <2>a DEF PassGate
    <3>2. CASE ~armed /\ GoTo(t, "requote")
      BY <2>3, <3>2, <2>b DEF PassGate, Gate, At, NoCall, Stages, IInv, Fits, Limit, Pending,
         Requoted, Holds
    <3>. QED
      BY <2>3, <3>1, <3>2 DEF PassGate, Gate
  <2>4. ASSUME NEW t \in Callers, QueueManual(t) PROVE IInv'
    <3>1. call[t] \in Calls
      BY <2>0, <2>4 DEF QueueManual, At, NoCall
    <3>2. manual' \in [ManualIds -> {NoManual} \cup
                      [status : {"awaiting-entry", "entered", "closed", "cancelled"},
                       k : Canonicals, cost : [Legs -> Nat]]]
      BY <2>4, <3>1 DEF QueueManual, Calls, IInv, TypeOK
    <3>3. LockIsExclusive' /\ Fits' /\ MarketCap' /\ ArmIsFresh' /\ ArmStopsNew'
                              /\ call' \in [Callers -> {NoCall} \cup Calls]
      <4>1. NoCall.at = "none"
        BY DEF NoCall
      <4>. QED
        BY <2>4, <4>1, MoveIsSafe DEF QueueManual, Leave, Pending, Requoted
    <3>. QED
      BY <2>4, <3>2, <3>3 DEF QueueManual, IInv, TypeOK, exposures, Calls, Stages, Requoted
  <2>5. ASSUME NEW t \in Callers, Requote(t) PROVE IInv'
    <3>1. CASE Leave(t)
      BY <2>5, <3>1, <2>a DEF Requote
    <3>2. ASSUME NEW p \in Near(call[t].cost["p"]), NEW s \in Near(call[t].cost["s"]),
                 call' = [call EXCEPT ![t] = [@ EXCEPT !.at = "primary",
                             !.cost = [x \in Legs |-> IF x = "p" THEN p ELSE s]]]
          PROVE  IInv'
      <4>. DEFINE n == [x \in Legs |-> IF x = "p" THEN p ELSE s]
                  c == [call[t] EXCEPT !.at = "primary", !.cost = n]
      <4>1. /\ call[t] \in Calls /\ call[t].at = "requote" /\ Holds(t)
            /\ call[t].cost["p"] \in Nat /\ call[t].cost["s"] \in Nat
        <5>0. call[t].at = "requote"
          BY <2>5 DEF Requote, At
        <5>1. call[t] \in Calls /\ call[t].at = "requote" /\ Holds(t)
          BY <2>0, <5>0 DEF NoCall, Holds
        <5>2. call[t].cost \in [Legs -> Nat] /\ "p" \in Legs /\ "s" \in Legs
          BY <5>1 DEF Calls, Legs
        <5>. QED BY <5>1, <5>2
      <4>2. p \in Nat /\ s \in Nat /\ p <= call[t].cost["p"] + Slip /\ s <= call[t].cost["s"] + Slip
        BY <3>2, <4>1 DEF Near
      <4>3. n \in [Legs -> Nat] /\ Pair(n) = p + s
        BY <4>2 DEF Pair, Legs
      <4>4. /\ Pair(call[t].cost) <= MaxPosition
            /\ open[call[t].k] + Pair(call[t].cost) <= MaxPosition + entered[call[t].k]
        BY <4>1 DEF IInv, Fits, Limit, Pending, Requoted
      <4>5. Pair(n) <= Pair(call[t].cost) + 2 * Slip /\ Pair(call[t].cost) \in Nat /\ Pair(n) \in Nat
        BY <4>1, <4>2, <4>3 DEF Pair
      <4>6. open[call[t].k] \in Nat /\ entered[call[t].k] \in Nat
        BY <2>0, <4>1 DEF Calls
      <4>7. /\ Pair(n) <= MaxPosition + 2 * Slip
            /\ open[call[t].k] + Pair(n) <= MaxPosition + 2 * Slip + entered[call[t].k]
        <5>. HIDE DEF n
        <5>. QED BY <4>4, <4>5, <4>6
      <4>8. c \in Calls /\ c.at = "primary" /\ c.k = call[t].k /\ c.cost = n
        <5>. HIDE DEF n
        <5>. QED BY <4>1, <4>3 DEF Calls, Stages, Requoted
      <4>9. call' = [call EXCEPT ![t] = c]
        BY <3>2
      <4>10. LockIsExclusive' /\ Fits' /\ MarketCap' /\ ArmIsFresh' /\ ArmStopsNew'
                              /\ call' \in [Callers -> {NoCall} \cup Calls]
        <5>. HIDE DEF n, c
        <5>. QED BY <2>5, <4>1, <4>7, <4>8, <4>9, MoveIsSafe DEF Requote, Requoted
      <4>. QED
        BY <2>5, <4>10 DEF Requote, IInv, TypeOK, exposures, Calls, Stages, Requoted
    <3>. QED
      BY <2>5, <3>1, <3>2 DEF Requote
  <2>6. ASSUME NEW t \in Callers, Primary(t) PROVE IInv'
    <3>1. /\ call[t] \in Calls /\ call[t].at = "primary" /\ late[t] = 0
          /\ Pair(call[t].cost) <= MaxPosition + 2 * Slip
          /\ open[call[t].k] + Pair(call[t].cost) <= MaxPosition + 2 * Slip + entered[call[t].k]
      BY <2>0, <2>6 DEF Primary, At, NoCall, IInv, Fits, Limit, Pending, Requoted, ArmIsFresh
    <3>2. /\ \A u \in Callers : u # t => call'[u] = call[u]
          /\ call' \in [Callers -> {NoCall} \cup Calls]
          /\ \/ call'[t].at = "none"
             \/ call'[t].at = "secondary" /\ call'[t].k = call[t].k /\ call'[t].cost = call[t].cost
      <4>1. CASE Leave(t)
        BY <2>0, <4>1 DEF Leave, NoCall
      <4>2. CASE GoTo(t, "secondary")
        BY <2>0, <3>1, <4>2 DEF GoTo, Calls, Stages, Requoted
      <4>. QED
        BY <2>6, <4>1, <4>2 DEF Primary
    <3>3. /\ late' \in [Callers -> 0..2] /\ late'[t] <= 1
          /\ \A u \in Callers : u # t => late'[u] = late[u]
          /\ ~armed => late'[t] = 0
      BY <2>0, <2>6, <3>1 DEF Primary
    <3>4. TypeOK'
      BY <2>6, <3>2, <3>3 DEF Primary, IInv, TypeOK, exposures, Calls, Stages, Requoted
    <3>5. LockIsExclusive'
      BY <3>1, <3>2 DEF IInv, LockIsExclusive, Holds
    <3>6. Fits'
      BY <2>6, <3>1, <3>2 DEF Primary, exposures, IInv, Fits, Limit, Pending, Requoted
    <3>7. MarketCap'
      BY <2>6 DEF Primary, exposures, IInv, MarketCap
    <3>8. ArmIsFresh' /\ ArmStopsNew'
      BY <2>6, <3>2, <3>3 DEF Primary, IInv, ArmIsFresh, ArmStopsNew
    <3>. QED
      BY <3>4, <3>5, <3>6, <3>7, <3>8 DEF IInv
  <2>7. ASSUME NEW t \in Callers, Secondary(t) PROVE IInv'
    <3>1. /\ call[t].at = "secondary" /\ call[t] # NoCall /\ Holds(t)
          /\ Pair(call[t].cost) <= MaxPosition + 2 * Slip
          /\ open[call[t].k] + Pair(call[t].cost) <= MaxPosition + 2 * Slip + entered[call[t].k]
      BY <2>7 DEF Secondary, At, NoCall, Holds, IInv, Fits, Limit, Pending, Requoted
    <3>2. \A at \in {"naked", "record"} : GoTo(t, at) => IInv'
      BY <2>7, <3>1, <2>b DEF Secondary, Stages, Pending, Requoted
    <3>. QED
      BY <2>7, <3>2 DEF Secondary
  <2>8. ASSUME NEW t \in Callers, NEW X \in SUBSET Legs, Record(t, X) PROVE IInv'
    <3>. DEFINE k == call[t].k
                c == call[t].cost
    <3>1. /\ call[t] \in Calls /\ call[t].at \in {"naked", "record"}
          /\ Pair(c) <= MaxPosition + 2 * Slip
          /\ open[k] + Pair(c) <= MaxPosition + 2 * Slip + entered[k]
      BY <2>0, <2>8 DEF Record, At, NoCall, IInv, Fits, Limit, Pending, Requoted
    <3>2. k \in Canonicals /\ c \in [Legs -> Nat]
      BY <3>1 DEF Calls
    <3>3. Amounts(c)
      BY <3>2 DEF Amounts, Amount, Pair, Legs
    <3>4. /\ open' \in [Canonicals -> Nat] /\ plat' \in [Platforms -> Nat]
          /\ open'[k] <= open[k] + Pair(c)
          /\ \A i \in Canonicals : i # k => open'[i] = open[i]
      <4>1. /\ open' = [open EXCEPT ![k] = @ + Amount(c, X)]
            /\ plat' = [v \in Platforms |-> plat[v] + Share(k, v, c, X)]
        BY <2>8 DEF Record, record_trade
      <4>2. Amount(c, X) \in Nat /\ Amount(c, X) <= Pair(c) /\ Pair(c) \in Nat
        BY <3>3 DEF Amounts
      <4>3. \A v \in Platforms : Share(k, v, c, X) \in Nat
        BY <3>3 DEF Amounts, Share
      <4>. HIDE DEF k, c
      <4>4. open' \in [Canonicals -> Nat] /\ plat' \in [Platforms -> Nat]
        <5>1. open' \in [Canonicals -> Nat]
          BY <2>0, <3>2, <4>1, <4>2
        <5>2. \A v \in Platforms : plat[v] + Share(k, v, c, X) \in Nat
          BY <2>0, <4>3
        <5>. QED BY <4>1, <5>1, <5>2
      <4>5. open[k] \in Nat /\ open'[k] = open[k] + Amount(c, X)
        BY <2>0, <3>2, <4>1
      <4>. QED BY <2>0, <3>2, <4>1, <4>2, <4>4, <4>5
    <3>5. /\ \A u \in Callers : u # t => call'[u] = call[u]
          /\ call' \in [Callers -> {NoCall} \cup Calls]
          /\ call'[t].at = "none" \/ (call'[t].at \in {"both", "p", "s"} /\ call'[t].k = call[t].k)
      <4>1. CASE Leave(t)
        BY <2>0, <4>1 DEF Leave, NoCall
      <4>2. ASSUME NEW at \in {"both", "p", "s"}, GoTo(t, at) PROVE <3>5
        BY <2>0, <3>1, <4>2 DEF GoTo, Calls, Stages, Requoted
      <4>. QED
        BY <2>8, <4>1, <4>2 DEF Record
    <3>6. UNCHANGED <<manual, armed, entered, late>>
      BY <2>8 DEF Record
    <3>7. TypeOK'
      BY <3>4, <3>5, <3>6 DEF IInv, TypeOK, Calls, Stages, Requoted
    <3>8. LockIsExclusive'
      BY <3>1, <3>5 DEF IInv, LockIsExclusive, Holds
    <3>9. \A u \in Callers : u # t /\ call[u].at \in Pending => call[u].k # k
      BY <3>1 DEF IInv, LockIsExclusive, Holds, Pending, Requoted
    <3>10. Fits'
      <4>1. call'[t].at \notin Pending
        BY <3>5 DEF Pending, Requoted
      <4>2. ASSUME NEW u \in Callers, u # t, call[u].at \in Pending
            PROVE  open'[call[u].k] = open[call[u].k]
        <5>1. call[u] \in Calls
          BY <2>0, <4>2 DEF NoCall, Pending, Requoted
        <5>. QED BY <3>4, <3>9, <4>2, <5>1 DEF Calls
      <4>. QED BY <3>5, <3>6, <4>1, <4>2 DEF IInv, Fits, Limit
    <3>11. MarketCap'
      <4>1. open[k] + Pair(c) <= MaxPosition + 2 * Slip + entered[k]
        BY <3>1
      <4>2. entered' = entered /\ entered[k] \in Nat
        BY <2>0, <3>2, <3>6
      <4>3. \A i \in Canonicals : open'[i] \in Nat /\ open[i] \in Nat
        BY <2>0, <3>4
      <4>4. Pair(c) \in Nat
        BY <3>3 DEF Amounts
      <4>. HIDE DEF k, c
      <4>5. open'[k] <= MaxPosition + 2 * Slip + entered[k]
        BY <3>2, <3>4, <4>1, <4>2, <4>3, <4>4
      <4>. QED BY <3>4, <4>2, <4>5 DEF IInv, MarketCap
    <3>12. ArmIsFresh' /\ ArmStopsNew'
      BY <3>5, <3>6 DEF IInv, ArmIsFresh, ArmStopsNew
    <3>. QED
      BY <3>7, <3>8, <3>10, <3>11, <3>12 DEF IInv
  <2>9. ASSUME NEW t \in Callers, Recover(t) PROVE IInv'
    <3>. DEFINE k == call[t].k
                X == Recovering[call[t].at]
    <3>1. PICK c \in [X -> 0..(MaxCost + 2 * Slip)] : release_trade(k, c, X)
      BY <2>9 DEF Recover
    <3>2. \A Y \in SUBSET X : Amount(c, Y) \in Nat
      <4>1. \A x \in X : c[x] \in Nat
        BY <3>1
      <4>. HIDE DEF X
      <4>. QED BY <4>1 DEF Amount
    <3>3. /\ open' = [open EXCEPT ![k] = Less(@, Amount(c, X))]
          /\ plat' = [v \in Platforms |-> Less(plat[v], Share(k, v, c, X))]
      BY <3>1 DEF release_trade
    <3>4. /\ open' \in [Canonicals -> Nat] /\ plat' \in [Platforms -> Nat]
          /\ \A i \in Canonicals : open'[i] <= open[i]
      <4>1. Amount(c, X) \in Nat /\ \A v \in Platforms : Share(k, v, c, X) \in Nat
        BY <3>2 DEF Share
      <4>. HIDE DEF k, X
      <4>2. \A v \in Platforms : Less(plat[v], Share(k, v, c, X)) \in Nat
        BY <2>0, <4>1 DEF Less
      <4>3. \A i \in Canonicals : Less(open[i], Amount(c, X)) \in Nat
                                  /\ Less(open[i], Amount(c, X)) <= open[i]
        BY <2>0, <4>1 DEF Less
      <4>4. open' \in [Canonicals -> Nat] /\ \A i \in Canonicals : open'[i] <= open[i]
        <5>1. open' = [i \in Canonicals |-> IF i = k THEN Less(open[k], Amount(c, X)) ELSE open[i]]
          BY <2>0, <3>3
        <5>. QED BY <2>0, <4>3, <5>1
      <4>. QED BY <3>3, <4>2, <4>4
    <3>5. /\ \A u \in Callers : u # t => call'[u] = call[u]
          /\ call' \in [Callers -> {NoCall} \cup Calls] /\ call'[t].at = "none"
      BY <2>0, <2>9 DEF Recover, Leave, NoCall
    <3>6. UNCHANGED <<manual, armed, entered, late>>
      BY <2>9 DEF Recover
    <3>7. TypeOK'
      BY <3>4, <3>5, <3>6 DEF IInv, TypeOK, Calls, Stages, Requoted
    <3>8. LockIsExclusive'
      BY <3>5 DEF IInv, LockIsExclusive, Holds
    <3>9. Fits'
      <4>1. ASSUME NEW u \in Callers, call'[u].at \in Pending
            PROVE  /\ Pair(call[u].cost) <= Limit(u) /\ u # t
                   /\ open'[call[u].k] + Pair(call[u].cost) <= Limit(u) + entered[call[u].k]
        <5>1. u # t /\ call[u].at \in Pending
          BY <3>5, <4>1 DEF Pending, Requoted
        <5>2. call[u] \in Calls
          BY <2>0, <5>1 DEF NoCall, Pending, Requoted
        <5>3. call[u].k \in Canonicals /\ Pair(call[u].cost) \in Nat /\ Limit(u) \in Nat
          <6>1. call[u].cost["p"] \in Nat /\ call[u].cost["s"] \in Nat
            BY <5>2 DEF Calls, Legs
          <6>. QED BY <5>2, <6>1 DEF Calls, Pair, Limit
        <5>. QED BY <2>0, <3>4, <5>1, <5>3 DEF IInv, Fits
      <4>. QED BY <3>5, <3>6, <4>1 DEF Fits, Limit
    <3>10. MarketCap'
      BY <2>0, <3>4, <3>6 DEF IInv, MarketCap
    <3>11. ArmIsFresh' /\ ArmStopsNew'
      BY <3>5, <3>6 DEF IInv, ArmIsFresh, ArmStopsNew
    <3>. QED
      BY <3>7, <3>8, <3>9, <3>10, <3>11 DEF IInv
  <2>10. ASSUME NEW m \in ManualIds, MarkEntered(m) PROVE IInv'
    <3>. DEFINE k == manual[m].k
                c == manual[m].cost
    <3>1. k \in Canonicals /\ c \in [Legs -> Nat]
      BY <2>10 DEF MarkEntered, IInv, TypeOK, NoManual
    <3>2. /\ Pair(c) \in Nat /\ Amount(c, Legs) = Pair(c)
          /\ \A v \in Platforms : Share(k, v, c, Legs) \in Nat
      <4>1. c["p"] \in Nat /\ c["s"] \in Nat
        BY <3>1 DEF Legs
      <4>. QED BY <4>1 DEF Pair, Amount, Share, Legs
    <3>3. UNCHANGED <<call, armed, late>>
      BY <2>10 DEF MarkEntered
    <3>4. manual' \in [ManualIds -> {NoManual} \cup
                      [status : {"awaiting-entry", "entered", "closed", "cancelled"},
                       k : Canonicals, cost : [Legs -> Nat]]]
      BY <2>10 DEF MarkEntered, IInv, TypeOK, NoManual
    <3>5. CASE UNCHANGED <<exposures, entered>>
      BY <3>3, <3>4, <3>5 DEF exposures, IInv, TypeOK, LockIsExclusive, Holds, Fits, Limit,
         MarketCap, ArmIsFresh, ArmStopsNew
    <3>. SUFFICES ASSUME record_trade(k, c, Legs), entered' = [entered EXCEPT ![k] = @ + Pair(c)]
                  PROVE  IInv'
      BY <2>10, <3>5 DEF MarkEntered
    <3>6. /\ open' \in [Canonicals -> Nat] /\ plat' \in [Platforms -> Nat]
          /\ entered' \in [Canonicals -> Nat]
      <4>1. /\ open' = [open EXCEPT ![k] = @ + Pair(c)]
            /\ plat' = [v \in Platforms |-> plat[v] + Share(k, v, c, Legs)]
        BY <3>2 DEF record_trade
      <4>. HIDE DEF k, c
      <4>2. \A v \in Platforms : plat[v] + Share(k, v, c, Legs) \in Nat
        BY <2>0, <3>2
      <4>3. open' \in [Canonicals -> Nat] /\ entered' \in [Canonicals -> Nat]
        BY <2>0, <3>1, <3>2, <4>1
      <4>. QED BY <4>1, <4>2, <4>3
    <3>7. \A i \in Canonicals : open'[i] - open[i] = entered'[i] - entered[i]
      <4>1. open' = [open EXCEPT ![k] = @ + Pair(c)]
        BY <3>2 DEF record_trade
      <4>. HIDE DEF k, c
      <4>. QED BY <2>0, <3>1, <3>2, <4>1
    <3>8. TypeOK'
      BY <3>3, <3>4, <3>6 DEF IInv, TypeOK
    <3>9. LockIsExclusive' /\ ArmIsFresh' /\ ArmStopsNew'
      BY <3>3 DEF IInv, LockIsExclusive, Holds, ArmIsFresh, ArmStopsNew
    <3>10. Fits'
      <4>1. ASSUME NEW u \in Callers, call[u].at \in Pending
            PROVE  /\ Pair(call[u].cost) <= Limit(u)
                   /\ open'[call[u].k] + Pair(call[u].cost) <= Limit(u) + entered'[call[u].k]
        <5>1. call[u] \in Calls
          BY <2>0, <4>1 DEF NoCall, Pending, Requoted
        <5>2. call[u].k \in Canonicals /\ Pair(call[u].cost) \in Nat /\ Limit(u) \in Nat
          <6>1. call[u].cost["p"] \in Nat /\ call[u].cost["s"] \in Nat
            BY <5>1 DEF Calls, Legs
          <6>. QED BY <5>1, <6>1 DEF Calls, Pair, Limit
        <5>3. /\ Pair(call[u].cost) <= Limit(u)
              /\ open[call[u].k] + Pair(call[u].cost) <= Limit(u) + entered[call[u].k]
          BY <4>1 DEF IInv, Fits
        <5>. QED BY <2>0, <3>6, <3>7, <5>2, <5>3
      <4>. QED BY <3>3, <4>1 DEF Fits, Limit
    <3>11. MarketCap'
      BY <2>0, <3>6, <3>7 DEF IInv, MarketCap
    <3>. QED
      BY <3>8, <3>9, <3>10, <3>11 DEF IInv
  <2>11. ASSUME NEW m \in ManualIds, NEW status \in {"closed", "cancelled"}, NEW from,
                from \subseteq {"awaiting-entry", "entered", "closed", "cancelled"}, End(m, status, from)
         PROVE  IInv'
    <3>. DEFINE k == manual[m].k
                c == manual[m].cost
    <3>1. k \in Canonicals /\ c \in [Legs -> Nat]
      BY <2>11 DEF End, IInv, TypeOK, NoManual
    <3>2. /\ Pair(c) \in Nat /\ Amount(c, Legs) = Pair(c)
          /\ \A v \in Platforms : Share(k, v, c, Legs) \in Nat
      <4>1. c["p"] \in Nat /\ c["s"] \in Nat
        BY <3>1 DEF Legs
      <4>. QED BY <4>1 DEF Pair, Amount, Share, Legs
    <3>3. UNCHANGED <<call, armed, late>>
      BY <2>11 DEF End
    <3>4. manual' \in [ManualIds -> {NoManual} \cup
                      [status : {"awaiting-entry", "entered", "closed", "cancelled"},
                       k : Canonicals, cost : [Legs -> Nat]]]
      BY <2>11 DEF End, IInv, TypeOK, NoManual
    <3>5. /\ open' = [open EXCEPT ![k] = Less(@, Pair(c))]
          /\ plat' = [v \in Platforms |-> Less(plat[v], Share(k, v, c, Legs))]
          /\ entered' = entered \/ entered' = [entered EXCEPT ![k] = Less(@, Pair(c))]
      BY <2>11, <3>2 DEF End, release_trade
    <3>6. /\ open' \in [Canonicals -> Nat] /\ plat' \in [Platforms -> Nat]
          /\ entered' \in [Canonicals -> Nat]
      <4>. HIDE DEF k, c
      <4>1. \A v \in Platforms : Less(plat[v], Share(k, v, c, Legs)) \in Nat
        BY <2>0, <3>2 DEF Less
      <4>2. \A i \in Canonicals : Less(open[i], Pair(c)) \in Nat /\ Less(entered[i], Pair(c)) \in Nat
        BY <2>0, <3>2 DEF Less
      <4>3. open' \in [Canonicals -> Nat] /\ entered' \in [Canonicals -> Nat]
        BY <2>0, <3>5, <4>2
      <4>. QED BY <3>5, <4>1, <4>3
    <3>7. \A i \in Canonicals : \/ open'[i] = 0
                                \/ open'[i] - open[i] <= entered'[i] - entered[i]
      <4>. HIDE DEF k, c
      <4>1. open[k] \in Nat /\ entered[k] \in Nat
        BY <2>0, <3>1
      <4>2. open'[k] = Less(open[k], Pair(c)) /\ \A i \in Canonicals : i # k => open'[i] = open[i]
        BY <2>0, <3>1, <3>5
      <4>3. /\ entered'[k] = entered[k] \/ entered'[k] = Less(entered[k], Pair(c))
            /\ \A i \in Canonicals : i # k => entered'[i] = entered[i]
        BY <2>0, <3>1, <3>5
      <4>4. open'[k] = 0 \/ open'[k] - open[k] <= entered'[k] - entered[k]
        BY <3>2, <4>1, <4>2, <4>3 DEF Less
      <4>. QED BY <2>0, <4>2, <4>3, <4>4
    <3>8. TypeOK'
      BY <3>3, <3>4, <3>6 DEF IInv, TypeOK
    <3>9. LockIsExclusive' /\ ArmIsFresh' /\ ArmStopsNew'
      BY <3>3 DEF IInv, LockIsExclusive, Holds, ArmIsFresh, ArmStopsNew
    <3>10. Fits'
      <4>1. ASSUME NEW u \in Callers, call[u].at \in Pending
            PROVE  /\ Pair(call[u].cost) <= Limit(u)
                   /\ open'[call[u].k] + Pair(call[u].cost) <= Limit(u) + entered'[call[u].k]
        <5>1. call[u] \in Calls
          BY <2>0, <4>1 DEF NoCall, Pending, Requoted
        <5>2. call[u].k \in Canonicals /\ Pair(call[u].cost) \in Nat /\ Limit(u) \in Nat
          <6>1. call[u].cost["p"] \in Nat /\ call[u].cost["s"] \in Nat
            BY <5>1 DEF Calls, Legs
          <6>. QED BY <5>1, <6>1 DEF Calls, Pair, Limit
        <5>3. /\ Pair(call[u].cost) <= Limit(u)
              /\ open[call[u].k] + Pair(call[u].cost) <= Limit(u) + entered[call[u].k]
          BY <4>1 DEF IInv, Fits
        <5>4. /\ open[call[u].k] \in Nat /\ open'[call[u].k] \in Nat
              /\ entered[call[u].k] \in Nat /\ entered'[call[u].k] \in Nat
          BY <2>0, <3>6, <5>2
        <5>5. \/ open'[call[u].k] = 0
              \/ open'[call[u].k] - open[call[u].k] <= entered'[call[u].k] - entered[call[u].k]
          BY <3>7, <5>2
        <5>. QED BY <5>2, <5>3, <5>4, <5>5
      <4>. QED BY <3>3, <4>1 DEF Fits, Limit
    <3>11. MarketCap'
      BY <2>0, <3>6, <3>7 DEF IInv, MarketCap
    <3>. QED
      BY <3>8, <3>9, <3>10, <3>11 DEF IInv
  <2>12. CASE Trip
    BY <2>0, <2>12 DEF Trip, IInv, TypeOK, exposures, LockIsExclusive, Holds, Fits, Limit,
       MarketCap, ArmIsFresh, ArmStopsNew
  <2>13. CASE Reset
    <3>1. \A t \in Callers : late'[t] = 0
      BY <2>13 DEF Reset
    <3>2. ArmIsFresh' /\ ArmStopsNew'
      BY <3>1 DEF ArmIsFresh, ArmStopsNew
    <3>3. late' \in [Callers -> 0..2]
      <4>1. late' = [t \in Callers |-> 0]
        BY <2>13 DEF Reset
      <4>. QED BY <4>1
    <3>5. TypeOK'
      BY <2>13, <3>3 DEF Reset, exposures, IInv, TypeOK
    <3>4. LockIsExclusive' /\ Fits' /\ MarketCap'
      BY <2>13 DEF Reset, exposures, IInv, LockIsExclusive, Holds, Fits, Limit, MarketCap
    <3>. QED
      BY <3>2, <3>5, <3>4 DEF IInv
  <2>14. CASE UNCHANGED vars
    BY <2>14 DEF vars, IInv, TypeOK, exposures, LockIsExclusive, Holds, Fits, Limit,
       MarketCap, ArmIsFresh, ArmStopsNew
  <2>. QED
    BY <2>1, <2>2, <2>3, <2>4, <2>5, <2>6, <2>7, <2>8, <2>9, <2>10, <2>11, <2>12, <2>13, <2>14
       DEF Next, Execute, MarkClosed, Cancel
<1>3. IInv => TypeOK /\ MarketCap /\ ArmStopsNew
  BY DEF IInv
<1>. QED
  BY <1>1, <1>2, <1>3, PTL DEF Spec

-----------------------------------------------------------------------------
(* Sums over finite sets.  MapThenSumSet is a recursive function on the      *)
(* subsets of the set, which takes a chosen element from each; no induction  *)
(* theorem with an operator as parameter can be used for it, but one on a set *)
(* of subsets can: each fact below is that its subsets are all subsets.       *)

SumOf(f, S) == MapThenSumSet(LAMBDA k : f[k], S)

Picked(s)     == CHOOSE x \in s : TRUE
Adds(f, h, s) == IF s = {} THEN 0 ELSE f[Picked(s)] + h[s \ {Picked(s)}]
Summing(f, S) == CHOOSE h : h = [s \in SUBSET S |-> Adds(f, h, s)]

\* A set that holds every subset whose subsets with one element less it holds
\* has all subsets.
LEMMA SetInduction ==
    ASSUME NEW S, IsFiniteSet(S), NEW P,
           \A T \in SUBSET S : (\A x \in T : T \ {x} \in P) => T \in P
    PROVE  SUBSET S \subseteq P
<1>. DEFINE D == (SUBSET S) \ P
           R == StrictSubsetOrdering(S)
<1>1. SUFFICES ASSUME D # {} PROVE FALSE
  OBVIOUS
<1>2. D \subseteq FiniteSubsetsOf(S)
  BY FS_FiniteSubsetsOfFinite
<1>3. IsWellFoundedOn(R, FiniteSubsetsOf(S))
  BY FS_StrictSubsetOrderingWellFounded
<1>. HIDE DEF R, D
<1>4. PICK T \in D : \A U \in D : ~(<<U, T>> \in R)
  BY <1>1, <1>2, <1>3, WFMin
<1>5. ASSUME NEW x \in T PROVE T \ {x} \in P
  <2>1. T \in SUBSET S /\ T \ {x} \in SUBSET S /\ T \ {x} # T
    BY <1>5 DEF D
  <2>2. <<T \ {x}, T>> \in R
    BY <2>1 DEF R, StrictSubsetOrdering
  <2>. QED BY <1>4, <2>1, <2>2 DEF D
<1>6. T \in SUBSET S /\ T \notin P
  BY DEF D
<1>. QED BY <1>5, <1>6

\* The function that takes the sum exists, and the order it takes the elements in
\* does not matter.
LEMMA SumAdds ==
    ASSUME NEW S, IsFiniteSet(S), NEW f \in [S -> Int]
    PROVE  /\ Summing(f, S)[{}] = 0
           /\ \A T \in SUBSET S :
                /\ Summing(f, S)[T] \in Int
                /\ \A x \in T : Summing(f, S)[T] = f[x] + Summing(f, S)[T \ {x}]
<1>0. Summing(f, S) = [s \in SUBSET S |-> Adds(f, Summing(f, S), s)]
  <2>. DEFINE L(n) == {s \in SUBSET S : Cardinality(s) <= n}
             D == {n \in Nat : ~\E h : h = [s \in L(n) |-> Adds(f, h, s)]}
             R == OpToRel(<, Nat)
  <2>1. ASSUME NEW s \in SUBSET S
        PROVE  /\ Cardinality(s) \in Nat
               /\ Cardinality(s) = 0 <=> s = {}
               /\ s # {} => Picked(s) \in s /\ s \ {Picked(s)} \in SUBSET S
                            /\ Cardinality(s \ {Picked(s)}) = Cardinality(s) - 1
    <3>1. IsFiniteSet(s) /\ Cardinality(s) \in Nat /\ (Cardinality(s) = 0 <=> s = {})
      BY FS_Subset, FS_CardinalityType, FS_EmptySet
    <3>2. s # {} => Picked(s) \in s
      BY DEF Picked
    <3>3. s # {} => Cardinality(s \ {Picked(s)}) = Cardinality(s) - 1
      BY <3>1, <3>2, FS_RemoveElement
    <3>. QED BY <3>1, <3>2, <3>3
  <2>a. \A n, s : s \in L(n) <=> s \in SUBSET S /\ Cardinality(s) <= n
    OBVIOUS
  <2>b. \A n : n \in D <=> n \in Nat /\ ~\E h : h = [s \in L(n) |-> Adds(f, h, s)]
    OBVIOUS
  <2>. HIDE DEF L, D
  <2>2. D = {}
    <3>1. SUFFICES ASSUME D # {} PROVE FALSE
      OBVIOUS
    <3>2. PICK n \in D : \A m \in D : n <= m
      <4>1. IsWellFoundedOn(R, Nat)
        BY NatLessThanWellFounded
      <4>2. \A y, x \in Nat : y < x => <<y, x>> \in R
        BY DEF OpToRel
      <4>3. D \in SUBSET Nat
        BY <2>b
      <4>. HIDE DEF R
      <4>4. PICK x \in D : \A y \in D : ~(<<y, x>> \in R)
        BY <3>1, <4>1, <4>3, WFMin
      <4>5. x \in Nat /\ \A y \in D : y \in Nat /\ ~(y < x)
        BY <4>2, <4>3, <4>4
      <4>6. \A y \in D : x <= y
        BY <4>5
      <4>. QED BY <4>4, <4>6
    <3>3. CASE n = 0
      <4>1. \A s \in L(0) : s = {}
        <5>1. ASSUME NEW s \in L(0) PROVE s = {}
          <6>1. s \in SUBSET S /\ Cardinality(s) <= 0
            BY <2>a, <5>1
          <6>2. Cardinality(s) \in Nat
            BY <2>1, <6>1
          <6>3. Cardinality(s) = 0
            BY <6>1, <6>2
          <6>. QED BY <2>1, <6>1, <6>3
        <5>. QED BY <5>1
      <4>. DEFINE h == [s \in L(0) |-> 0]
      <4>2. h = [s \in L(0) |-> Adds(f, h, s)]
        BY <4>1 DEF Adds
      <4>. QED BY <2>b, <3>2, <3>3, <4>2
    <3>4. CASE n # 0
      <4>1. n - 1 \in Nat /\ n - 1 \notin D
        BY <2>b, <3>2, <3>4
      <4>2. PICK g : g = [s \in L(n - 1) |-> Adds(f, g, s)]
        BY <2>b, <4>1
      <4>. DEFINE h == [s \in L(n) |-> Adds(f, g, s)]
      <4>3. ASSUME NEW s \in L(n) PROVE h[s] = Adds(f, h, s)
        <5>1. CASE s = {}
          BY <4>3, <5>1 DEF Adds
        <5>2. CASE s # {}
          <6>. DEFINE u == s \ {Picked(s)}
          <6>1. u \in L(n - 1) /\ u \in L(n)
            <7>1. s \in SUBSET S /\ Cardinality(s) <= n /\ n \in Nat
              BY <2>a, <2>b, <3>2, <4>3
            <7>2. u \in SUBSET S /\ Cardinality(u) = Cardinality(s) - 1 /\ Cardinality(s) \in Nat
              BY <2>1, <5>2, <7>1
            <7>3. Cardinality(u) <= n - 1 /\ Cardinality(u) <= n
              BY <7>1, <7>2
            <7>. QED BY <2>a, <7>2, <7>3
          <6>2. h[u] = Adds(f, g, u)
            BY <6>1
          <6>3. g[u] = Adds(f, g, u)
            BY <4>2, <6>1
          <6>4. h[s] = f[Picked(s)] + g[u]
            BY <4>3, <5>2 DEF Adds
          <6>. QED BY <5>2, <6>2, <6>3, <6>4 DEF Adds
        <5>. QED BY <5>1, <5>2
      <4>. DEFINE h2 == [s \in L(n) |-> Adds(f, h, s)]
      <4>4. h = h2
        BY <4>3
      <4>. QED BY <2>b, <3>2, <4>4
    <3>. QED BY <3>3, <3>4
  <2>3. Cardinality(S) \in Nat /\ L(Cardinality(S)) = SUBSET S
    BY <2>a, FS_Subset, FS_CardinalityType
  <2>4. \E h : h = [s \in SUBSET S |-> Adds(f, h, s)]
    <3>1. Cardinality(S) \notin D
      BY <2>2
    <3>2. \E h : h = [s \in L(Cardinality(S)) |-> Adds(f, h, s)]
      BY <2>b, <2>3, <3>1
    <3>. QED BY <2>3, <3>2
  <2>. QED BY <2>4 DEF Summing
<1>. DEFINE h == Summing(f, S)
           P == {T \in SUBSET S : h[T] \in Int /\ \A x \in T : h[T \ {x}] \in Int /\ h[T] = f[x] + h[T \ {x}]}
<1>1. ASSUME NEW T \in SUBSET S
      PROVE  h[T] = IF T = {} THEN 0 ELSE f[Picked(T)] + h[T \ {Picked(T)}]
  <2>1. h = [s \in SUBSET S |-> Adds(f, h, s)]
    BY <1>0
  <2>. HIDE DEF h
  <2>2. h[T] = Adds(f, h, T)
    BY <2>1
  <2>. QED BY <2>2 DEF Adds
<1>2. \A T : T # {} => Picked(T) \in T
  BY DEF Picked
<1>x. \A T : T \in P <=> T \in SUBSET S /\ h[T] \in Int
                    /\ \A x \in T : h[T \ {x}] \in Int /\ h[T] = f[x] + h[T \ {x}]
  OBVIOUS
<1>. HIDE DEF h, P
<1>3. ASSUME NEW T \in SUBSET S, \A x \in T : T \ {x} \in P PROVE T \in P
  <2>1. CASE T = {}
    <3>1. h[T] = 0
      BY <1>1, <2>1
    <3>. QED BY <1>x, <2>1, <3>1
  <2>2. CASE T # {}
    <3>. DEFINE c == Picked(T)
    <3>1. c \in T /\ h[T] = f[c] + h[T \ {c}] /\ T \ {c} \in P
      BY <1>1, <1>2, <1>3, <2>2
    <3>. HIDE DEF c
    <3>2. h[T] \in Int
      <4>1. h[T \ {c}] \in Int /\ f[c] \in Int
        BY <1>x, <3>1
      <4>. QED BY <3>1, <4>1
    <3>3. ASSUME NEW x \in T, x # c PROVE h[T] = f[x] + h[T \ {x}]
      <4>1. x \in T \ {c} /\ c \in T \ {x} /\ T \ {x} \in P /\ T \ {c} \in P
        BY <1>3, <3>1, <3>3
      <4>2. h[T \ {c}] = f[x] + h[(T \ {c}) \ {x}] /\ h[T \ {x}] = f[c] + h[(T \ {x}) \ {c}]
        BY <1>x, <4>1
      <4>3. (T \ {c}) \ {x} = (T \ {x}) \ {c}
        OBVIOUS
      <4>4. f[c] \in Int /\ f[x] \in Int /\ h[T \ {x}] \in Int /\ h[T \ {c}] \in Int
        BY <1>x, <3>3, <4>1
      <4>5. h[(T \ {x}) \ {c}] \in Int
        BY <1>x, <4>1
      <4>6. h[(T \ {c}) \ {x}] = h[(T \ {x}) \ {c}]
        BY <4>3
      <4>. QED BY <3>1, <4>2, <4>4, <4>5, <4>6
    <3>4. \A x \in T : h[T \ {x}] \in Int
      BY <1>x, <1>3
    <3>. QED BY <1>x, <3>1, <3>2, <3>3, <3>4
  <2>. QED BY <2>1, <2>2
<1>4. SUBSET S \subseteq P
  <2>1. \A T \in SUBSET S : (\A x \in T : T \ {x} \in P) => T \in P
    BY <1>3
  <2>. QED BY <2>1, SetInduction
<1>5. h[{}] = 0
  BY <1>1
<1>. QED BY <1>x, <1>4, <1>5 DEF h

\* A sum is an integer, moves with each of its elements, is monotone and additive,
\* and at most the number of its elements times the largest.
LEMMA SumFacts ==
    ASSUME NEW S, IsFiniteSet(S)
    PROVE  /\ \A f \in [S -> Int] : SumOf(f, S) \in Int
           /\ \A f \in [S -> Nat] : SumOf(f, S) \in Nat
           /\ \A f, g \in [S -> Int], x \in S :
                (\A y \in S \ {x} : g[y] = f[y]) => SumOf(g, S) = SumOf(f, S) - f[x] + g[x]
           /\ \A f, g \in [S -> Int] : (\A y \in S : f[y] <= g[y]) => SumOf(f, S) <= SumOf(g, S)
           /\ \A f, g, e \in [S -> Int] :
                (\A y \in S : e[y] = f[y] + g[y]) => SumOf(e, S) = SumOf(f, S) + SumOf(g, S)
           /\ \A f \in [S -> Int], n \in Int :
                (\A y \in S : f[y] <= n) => SumOf(f, S) <= Cardinality(S) * n
<1>1. \A f : SumOf(f, S) = Summing(f, S)[S]
  BY DEF SumOf, MapThenSumSet, MapThenFoldSet, Summing, Adds, Picked
<1>2. ASSUME NEW f \in [S -> Int], NEW T \in SUBSET S
      PROVE  /\ Summing(f, S)[{}] = 0 /\ Summing(f, S)[T] \in Int
             /\ \A x \in T : /\ Summing(f, S)[T] = f[x] + Summing(f, S)[T \ {x}]
                            /\ Summing(f, S)[T \ {x}] \in Int /\ f[x] \in Int
  <2>1. \A x \in T : T \ {x} \in SUBSET S
    OBVIOUS
  <2>. QED BY <2>1, SumAdds
<1>3. ASSUME NEW f \in [S -> Int], NEW g \in [S -> Int], NEW T \in SUBSET S,
             \A y \in T : f[y] <= g[y]
      PROVE  Summing(f, S)[T] <= Summing(g, S)[T]
  <2>. DEFINE P == {U \in SUBSET S : (\A y \in U : f[y] <= g[y]) => Summing(f, S)[U] <= Summing(g, S)[U]}
  <2>1. ASSUME NEW U \in SUBSET S, \A x \in U : U \ {x} \in P PROVE U \in P
    <3>1. SUFFICES ASSUME \A y \in U : f[y] <= g[y] PROVE Summing(f, S)[U] <= Summing(g, S)[U]
      OBVIOUS
    <3>2. CASE U = {}
      BY <1>2, <3>2
    <3>3. CASE U # {}
      <4>1. PICK x \in U : TRUE
        BY <3>3
      <4>2. Summing(f, S)[U \ {x}] <= Summing(g, S)[U \ {x}]
        BY <2>1, <3>1
      <4>3. /\ Summing(f, S)[U] = f[x] + Summing(f, S)[U \ {x}]
            /\ Summing(f, S)[U \ {x}] \in Int /\ f[x] \in Int
        BY <1>2
      <4>4. /\ Summing(g, S)[U] = g[x] + Summing(g, S)[U \ {x}]
            /\ Summing(g, S)[U \ {x}] \in Int /\ g[x] \in Int
        BY <1>2
      <4>5. f[x] <= g[x]
        BY <3>1
      <4>. QED BY <4>2, <4>3, <4>4, <4>5
    <3>. QED BY <3>2, <3>3
  <2>2. \A U \in SUBSET S : (\A x \in U : U \ {x} \in P) => U \in P
    BY <2>1
  <2>. HIDE DEF P
  <2>3. SUBSET S \subseteq P
    BY <2>2, SetInduction
  <2>. QED BY <1>3, <2>3 DEF P
<1>4. ASSUME NEW f \in [S -> Int], NEW g \in [S -> Int], NEW e \in [S -> Int],
             \A y \in S : e[y] = f[y] + g[y]
      PROVE  Summing(e, S)[S] = Summing(f, S)[S] + Summing(g, S)[S]
  <2>. DEFINE P == {U \in SUBSET S : Summing(e, S)[U] = Summing(f, S)[U] + Summing(g, S)[U]}
  <2>1. ASSUME NEW U \in SUBSET S, \A x \in U : U \ {x} \in P PROVE U \in P
    <3>1. CASE U = {}
      BY <1>2, <3>1
    <3>2. CASE U # {}
      <4>1. PICK x \in U : TRUE
        BY <3>2
      <4>2. Summing(e, S)[U \ {x}] = Summing(f, S)[U \ {x}] + Summing(g, S)[U \ {x}]
        BY <2>1
      <4>3. e[x] = f[x] + g[x]
        BY <1>4
      <4>4. /\ Summing(f, S)[U] = f[x] + Summing(f, S)[U \ {x}]
            /\ Summing(f, S)[U \ {x}] \in Int /\ f[x] \in Int
        BY <1>2
      <4>5. /\ Summing(g, S)[U] = g[x] + Summing(g, S)[U \ {x}]
            /\ Summing(g, S)[U \ {x}] \in Int /\ g[x] \in Int
        BY <1>2
      <4>6. /\ Summing(e, S)[U] = e[x] + Summing(e, S)[U \ {x}]
            /\ Summing(e, S)[U \ {x}] \in Int /\ e[x] \in Int
        BY <1>2
      <4>7. Summing(e, S)[U] = Summing(f, S)[U] + Summing(g, S)[U]
        BY <4>2, <4>3, <4>4, <4>5, <4>6
      <4>. QED BY <4>7
    <3>. QED BY <3>1, <3>2
  <2>2. \A U \in SUBSET S : (\A x \in U : U \ {x} \in P) => U \in P
    BY <2>1
  <2>. HIDE DEF P
  <2>3. SUBSET S \subseteq P
    BY <2>2, SetInduction
  <2>. QED BY <2>3 DEF P
<1>5. ASSUME NEW f \in [S -> Int], NEW n \in Int, \A y \in S : f[y] <= n
      PROVE  Summing(f, S)[S] <= Cardinality(S) * n
  <2>. DEFINE P == {U \in SUBSET S : Summing(f, S)[U] <= Cardinality(U) * n}
  <2>1. ASSUME NEW U \in SUBSET S, \A x \in U : U \ {x} \in P PROVE U \in P
    <3>0. IsFiniteSet(U) /\ Cardinality(U) \in Nat
      BY FS_Subset, FS_CardinalityType
    <3>1. CASE U = {}
      BY <1>2, <3>1, FS_EmptySet
    <3>2. CASE U # {}
      <4>1. PICK x \in U : TRUE
        BY <3>2
      <4>2. Summing(f, S)[U \ {x}] <= Cardinality(U \ {x}) * n
        BY <2>1
      <4>3. Cardinality(U \ {x}) = Cardinality(U) - 1
        BY <3>0, FS_RemoveElement
      <4>4. f[x] <= n /\ f[x] \in Int /\ Summing(f, S)[U \ {x}] \in Int
            /\ Summing(f, S)[U] = f[x] + Summing(f, S)[U \ {x}]
        BY <1>2, <1>5
      <4>5. Summing(f, S)[U] <= n + (Cardinality(U) - 1) * n
        BY <3>0, <4>2, <4>3, <4>4
      <4>6. n + (Cardinality(U) - 1) * n = Cardinality(U) * n
        BY <3>0
      <4>. QED BY <4>5, <4>6
    <3>. QED BY <3>1, <3>2
  <2>2. \A U \in SUBSET S : (\A x \in U : U \ {x} \in P) => U \in P
    BY <2>1
  <2>. HIDE DEF P
  <2>3. SUBSET S \subseteq P
    BY <2>2, SetInduction
  <2>. QED BY <2>3 DEF P
<1>6. ASSUME NEW f \in [S -> Int], NEW g \in [S -> Int], NEW x \in S, \A y \in S \ {x} : g[y] = f[y]
      PROVE  Summing(g, S)[S] = Summing(f, S)[S] - f[x] + g[x]
  <2>1. /\ Summing(f, S)[S \ {x}] <= Summing(g, S)[S \ {x}]
        /\ Summing(g, S)[S \ {x}] <= Summing(f, S)[S \ {x}]
    <3>1. S \ {x} \in SUBSET S /\ \A y \in S \ {x} : f[y] \in Int
      OBVIOUS
    <3>2. \A y \in S \ {x} : f[y] <= g[y] /\ g[y] <= f[y]
      BY <1>6, <3>1
    <3>. QED BY <1>3, <3>1, <3>2
  <2>2. S \in SUBSET S
    OBVIOUS
  <2>3. /\ Summing(f, S)[S] = f[x] + Summing(f, S)[S \ {x}]
        /\ Summing(f, S)[S \ {x}] \in Int /\ f[x] \in Int
    BY <1>2, <2>2
  <2>4. /\ Summing(g, S)[S] = g[x] + Summing(g, S)[S \ {x}]
        /\ Summing(g, S)[S \ {x}] \in Int /\ g[x] \in Int
    BY <1>2, <2>2
  <2>. QED BY <2>1, <2>3, <2>4
<1>7. S \in SUBSET S
  OBVIOUS
<1>8. ASSUME NEW f \in [S -> Nat] PROVE Summing(f, S)[S] \in Nat
  <2>. DEFINE z == [y \in S |-> 0]
  <2>1. z \in [S -> Int] /\ f \in [S -> Int] /\ \A y \in S : z[y] = 0 /\ z[y] <= f[y]
    OBVIOUS
  <2>. HIDE DEF z
  <2>2. Summing(z, S)[S] = Summing(z, S)[S] + Summing(z, S)[S]
    BY <1>4, <2>1
  <2>3. Summing(z, S)[S] \in Int /\ Summing(f, S)[S] \in Int
    BY <1>2, <1>7, <2>1
  <2>4. Summing(z, S)[S] <= Summing(f, S)[S]
    BY <1>3, <1>7, <2>1
  <2>. QED BY <2>2, <2>3, <2>4
<1>9. \A f, g \in [S -> Int] : (\A y \in S : f[y] <= g[y]) => SumOf(f, S) <= SumOf(g, S)
  BY <1>1, <1>3, <1>7
<1>10. \A f, g, e \in [S -> Int] :
         (\A y \in S : e[y] = f[y] + g[y]) => SumOf(e, S) = SumOf(f, S) + SumOf(g, S)
  BY <1>1, <1>4
<1>11. \A f, g \in [S -> Int], x \in S :
         (\A y \in S \ {x} : g[y] = f[y]) => SumOf(g, S) = SumOf(f, S) - f[x] + g[x]
  BY <1>1, <1>6
<1>12. \A f \in [S -> Int], n \in Int :
         (\A y \in S : f[y] <= n) => SumOf(f, S) <= Cardinality(S) * n
  BY <1>1, <1>5
<1>13. (\A f \in [S -> Int] : SumOf(f, S) \in Int) /\ \A f \in [S -> Nat] : SumOf(f, S) \in Nat
  BY <1>1, <1>2, <1>7, <1>8
<1>. QED BY <1>9, <1>10, <1>11, <1>12, <1>13

-----------------------------------------------------------------------------
(* The limits across canonical ids.                                         *)

\* What is booked of a canonical id beyond what was entered by hand.
Free == [k \in Canonicals |-> Less(open[k], entered[k])]

\* What an execution that was checked may still book, in all and on one platform.
Owes(c) == IF c.at \in Pending
           THEN Pair(c.cost) + (IF c.at \in Requoted THEN 0 ELSE 2 * Slip)
           ELSE 0
OwesOn(c, v) == IF c.at \in Pending /\ v \in {First[c.k], Second[c.k]}
                THEN Share(c.k, v, c.cost, Legs) + (IF c.at \in Requoted THEN 0 ELSE Slip)
                ELSE 0
Owed      == [t \in Callers |-> Owes(call[t])]
OwedOn(v) == [t \in Callers |-> OwesOn(call[t], v)]

Positions == [status : {"awaiting-entry", "entered", "closed", "cancelled"},
              k : Canonicals, cost : [Legs -> Nat]]

\* The positions entered by hand: of a canonical id, of all, and on one platform.
IsEntered(m)  == manual[m].status = "entered"
EnteredOf(k)  == [m \in ManualIds |-> IF IsEntered(m) /\ manual[m].k = k
                                      THEN Pair(manual[m].cost) ELSE 0]
EnteredAll    == [m \in ManualIds |-> IF IsEntered(m) THEN Pair(manual[m].cost) ELSE 0]
EnteredOn(v)  == [m \in ManualIds |-> IF IsEntered(m)
                                      THEN Share(manual[m].k, v, manual[m].cost, Legs) ELSE 0]

FreeTotal == SumOf(Free, Canonicals)
FreeOn(v) == Less(plat[v], SumOf(EnteredOn(v), ManualIds))

\* The costs of an execution: those of the quotes it was checked with, moved by at
\* most one requote.
CostFits(c) ==
    \A x \in Legs : /\ c.at \in {"lock", "gate", "requote"} => c.cost[x] <= MaxCost
                    /\ c.at \in Requoted => c.cost[x] <= MaxCost + Slip
CostsFit == \A t \in Callers : CostFits(call[t])

\* `entered` is the cost of the positions that are entered.
EnteredIs ==
    /\ \A k \in Canonicals : entered[k] = SumOf(EnteredOf(k), ManualIds)
    /\ SumOf(entered, Canonicals) = SumOf(EnteredAll, ManualIds)

\* What is booked and what may still be booked, together, is within the limits and
\* one unbooked trade of each further caller.
TotalBound == MaxTotal + Cardinality(Callers) * 2 * Slip
              + (Cardinality(Callers) - 1) * 2 * MaxCost
PlatformBound == MaxPlatform + Cardinality(Callers) * Slip
                 + (Cardinality(Callers) - 1) * MaxCost
TotalFits    == FreeTotal + SumOf(Owed, Callers) <= TotalBound
PlatformFits == \A v \in Platforms : FreeOn(v) + SumOf(OwedOn(v), Callers) <= PlatformBound

SInv == CostsFit /\ EnteredIs /\ TotalFits /\ PlatformFits

\* The sums are natural numbers.
Sums ==
    /\ Free \in [Canonicals -> Nat] /\ FreeTotal \in Nat
    /\ Owed \in [Callers -> Nat] /\ SumOf(Owed, Callers) \in Nat
    /\ EnteredAll \in [ManualIds -> Nat] /\ SumOf(EnteredAll, ManualIds) \in Nat
    /\ SumOf(entered, Canonicals) \in Nat
    /\ \A k \in Canonicals : EnteredOf(k) \in [ManualIds -> Nat]
    /\ \A v \in Platforms :
         /\ EnteredOn(v) \in [ManualIds -> Nat] /\ SumOf(EnteredOn(v), ManualIds) \in Nat
         /\ OwedOn(v) \in [Callers -> Nat] /\ SumOf(OwedOn(v), Callers) \in Nat
         /\ FreeOn(v) \in Nat

\* However many callers execute, and whatever is queued and entered by hand: the
\* exposure across canonical ids, and on each platform, stays within the limits that
\* check_trade read, plus for each further caller one trade checked before the others
\* were booked, one requote for each, and what was entered by hand.
THEOREM SharedLimitsHold == Spec => []SharedCaps
<1>. USE LimitsAssumption
<1>1. MaxCost \in Nat /\ \A n \in Costs : n <= MaxCost
  <2>. DEFINE P == {T \in SUBSET Costs : T # {} => \E n \in T : \A c \in T : n >= c}
  <2>1. ASSUME NEW T \in SUBSET Costs, \A x \in T : T \ {x} \in P PROVE T \in P
    <3>1. SUFFICES ASSUME T # {} PROVE \E n \in T : \A c \in T : n >= c
      OBVIOUS
    <3>2. PICK x \in T : TRUE
      BY <3>1
    <3>3. CASE T \ {x} = {}
      <4>1. T = {x} /\ x \in Nat
        BY <3>2, <3>3
      <4>. QED BY <4>1
    <3>4. CASE T \ {x} # {}
      <4>1. PICK n \in T \ {x} : \A c \in T \ {x} : n >= c
        BY <2>1, <3>2, <3>4
      <4>2. n \in Nat /\ x \in Nat /\ \A c \in T : c \in Nat
        BY <3>2, <4>1
      <4>. QED BY <3>2, <4>1, <4>2
    <3>. QED BY <3>3, <3>4
  <2>2. \A T \in SUBSET Costs : (\A x \in T : T \ {x} \in P) => T \in P
    BY <2>1
  <2>. HIDE DEF P
  <2>3. SUBSET Costs \subseteq P
    BY <2>2, SetInduction
  <2>4. \E n \in Costs : \A c \in Costs : n >= c
    BY <2>3 DEF P
  <2>5. MaxCost \in Costs /\ \A c \in Costs : MaxCost >= c
    BY <2>4 DEF MaxCost
  <2>6. MaxCost \in Nat /\ \A c \in Costs : c \in Nat
    BY <2>5
  <2>. QED BY <2>5, <2>6
<1>2. Cardinality(Callers) \in Nat /\ Cardinality(Callers) >= 1
  BY FS_CardinalityType, FS_EmptySet
<1>3. ASSUME NEW k \in Canonicals, NEW v \in Platforms, NEW c \in [Legs -> Nat], NEW X \in SUBSET Legs
      PROVE  /\ Share(k, v, c, X) = IF "p" \in X /\ First[k] = v THEN c["p"]
                                    ELSE IF "s" \in X /\ Second[k] = v THEN c["s"] ELSE 0
             /\ Share(k, v, c, X) \in Nat
             /\ Share(k, v, c, X) <= Share(k, v, c, Legs)
             /\ Share(k, v, c, Legs) <= Pair(c)
             /\ v \notin {First[k], Second[k]} => Share(k, v, c, X) = 0
             /\ Amount(c, X) \in Nat /\ Amount(c, X) <= Pair(c) /\ Amount(c, Legs) = Pair(c)
             /\ Pair(c) \in Nat /\ c["p"] \in Nat /\ c["s"] \in Nat
  <2>1. c["p"] \in Nat /\ c["s"] \in Nat /\ First[k] # Second[k]
    BY DEF Legs
  <2>2. \A Y \in SUBSET Legs : /\ "p" \in {x \in Y : Platform(k, x) = v} <=> "p" \in Y /\ First[k] = v
                               /\ "s" \in {x \in Y : Platform(k, x) = v} <=> "s" \in Y /\ Second[k] = v
    BY DEF Platform
  <2>3. \A Y \in SUBSET Legs : Share(k, v, c, Y) = IF "p" \in Y /\ First[k] = v THEN c["p"]
                                    ELSE IF "s" \in Y /\ Second[k] = v THEN c["s"] ELSE 0
    BY <2>1, <2>2 DEF Share, Amount
  <2>4. "p" \in Legs /\ "s" \in Legs /\ Legs \in SUBSET Legs
    BY DEF Legs
  <2>5. Amount(c, X) \in Nat /\ Amount(c, X) <= Pair(c) /\ Amount(c, Legs) = Pair(c) /\ Pair(c) \in Nat
    BY <2>1, <2>4 DEF Amount, Pair
  <2>6. Share(k, v, c, X) \in Nat /\ Share(k, v, c, X) <= Share(k, v, c, Legs)
    BY <2>1, <2>3, <2>4
  <2>7. Share(k, v, c, Legs) <= Pair(c)
    BY <2>1, <2>3, <2>4 DEF Pair
  <2>8. v \notin {First[k], Second[k]} => Share(k, v, c, X) = 0
    BY <2>3
  <2>. QED BY <2>1, <2>3, <2>5, <2>6, <2>7, <2>8
<1>4. TypeOK => Sums
  <2>. SUFFICES ASSUME TypeOK PROVE Sums
    OBVIOUS
  <2>1. \A a, b \in Nat : Less(a, b) \in Nat
    BY DEF Less
  <2>2. Free \in [Canonicals -> Nat]
    BY <2>1 DEF TypeOK, Free
  <2>3. ASSUME NEW t \in Callers, NEW v \in Platforms
        PROVE  Owes(call[t]) \in Nat /\ OwesOn(call[t], v) \in Nat
    <3>1. CASE call[t].at \in Pending
      <4>1. call[t] \in Calls
        BY <3>1 DEF TypeOK, Calls, Stages, Pending, Requoted, NoCall
      <4>2. call[t].k \in Canonicals /\ call[t].cost \in [Legs -> Nat]
        BY <4>1 DEF Calls
      <4>3. Legs \in SUBSET Legs
        OBVIOUS
      <4>4. Pair(call[t].cost) \in Nat /\ Share(call[t].k, v, call[t].cost, Legs) \in Nat
        BY <1>3, <4>2, <4>3
      <4>. QED BY <4>4 DEF Owes, OwesOn
    <3>2. CASE call[t].at \notin Pending
      BY <3>2 DEF Owes, OwesOn
    <3>. QED BY <3>1, <3>2
  <2>4. Owed \in [Callers -> Nat] /\ \A v \in Platforms : OwedOn(v) \in [Callers -> Nat]
    <3>1. Platforms = {} => Callers = {} \/ \A t \in Callers : call[t].at \notin Pending
      BY DEF TypeOK, Pending, Requoted, NoCall
    <3>2. \A t \in Callers : Owes(call[t]) \in Nat
      BY <2>3, <3>1 DEF Owes
    <3>. QED BY <2>3, <3>2 DEF Owed, OwedOn
  <2>5. ASSUME NEW m \in ManualIds, IsEntered(m)
        PROVE  /\ manual[m].k \in Canonicals /\ manual[m].cost \in [Legs -> Nat]
               /\ Pair(manual[m].cost) \in Nat
               /\ \A v \in Platforms : Share(manual[m].k, v, manual[m].cost, Legs) \in Nat
    <3>1. manual[m].k \in Canonicals /\ manual[m].cost \in [Legs -> Nat]
      BY <2>5 DEF TypeOK, IsEntered, NoManual
    <3>2. Legs \in SUBSET Legs /\ First[manual[m].k] \in Platforms
      BY <3>1
    <3>. QED BY <1>3, <3>1, <3>2
  <2>6. /\ EnteredAll \in [ManualIds -> Nat]
        /\ \A k \in Canonicals : EnteredOf(k) \in [ManualIds -> Nat]
        /\ \A v \in Platforms : EnteredOn(v) \in [ManualIds -> Nat]
    BY <2>5 DEF EnteredAll, EnteredOf, EnteredOn
  <2>7. entered \in [Canonicals -> Nat] /\ \A v \in Platforms : plat[v] \in Nat
    BY DEF TypeOK
  <2>8. \A v \in Platforms : SumOf(EnteredOn(v), ManualIds) \in Nat
    BY <2>6, SumFacts
  <2>9. \A v \in Platforms : FreeOn(v) \in Nat
    BY <2>1, <2>7, <2>8 DEF FreeOn
  <2>10. FreeTotal \in Nat /\ SumOf(entered, Canonicals) \in Nat
    BY <2>2, <2>7, SumFacts DEF FreeTotal
  <2>11. SumOf(Owed, Callers) \in Nat /\ \A v \in Platforms : SumOf(OwedOn(v), Callers) \in Nat
    BY <2>4, SumFacts
  <2>12. SumOf(EnteredAll, ManualIds) \in Nat
    BY <2>6, SumFacts
  <2>. QED BY <2>2, <2>4, <2>6, <2>8, <2>9, <2>10, <2>11, <2>12 DEF Sums
<1>5. TotalBound = MaxTotal + 2 * Slip + (Cardinality(Callers) * (2 * MaxCost + 2 * Slip)
                                          - (2 * MaxCost + 2 * Slip))
      /\ PlatformBound = MaxPlatform + Slip + (Cardinality(Callers) * (MaxCost + Slip)
                                               - (MaxCost + Slip))
      /\ TotalBound \in Nat /\ PlatformBound \in Nat
  <2>. DEFINE M == Cardinality(Callers) - 1
  <2>1. M \in Nat /\ Cardinality(Callers) = M + 1
    BY <1>2
  <2>. HIDE DEF M
  <2>2. M * MaxCost \in Nat /\ M * Slip \in Nat
    BY <1>1, <2>1
  <2>3. TotalBound = MaxTotal + 2 * Slip + 2 * (M * Slip) + 2 * (M * MaxCost)
    BY <1>1, <2>1 DEF TotalBound
  <2>4. PlatformBound = MaxPlatform + Slip + M * Slip + M * MaxCost
    BY <1>1, <2>1 DEF PlatformBound
  <2>5. /\ Cardinality(Callers) * (2 * MaxCost + 2 * Slip)
             = 2 * (M * MaxCost) + 2 * (M * Slip) + (2 * MaxCost + 2 * Slip)
        /\ Cardinality(Callers) * (MaxCost + Slip) = M * MaxCost + M * Slip + (MaxCost + Slip)
    BY <1>1, <2>1
  <2>. QED BY <1>1, <2>2, <2>3, <2>4, <2>5
<1>6. TypeOK /\ Init => SInv
  <2>. SUFFICES ASSUME TypeOK, Init PROVE SInv
    OBVIOUS
  <2>0. Sums
    BY <1>4
  <2>1. \A S, f : IsFiniteSet(S) /\ f \in [S -> Nat] /\ (\A x \in S : f[x] = 0) => SumOf(f, S) = 0
    <3>1. SUFFICES ASSUME NEW S, NEW f \in [S -> Nat], IsFiniteSet(S), \A x \in S : f[x] <= 0
                   PROVE  SumOf(f, S) = 0
      OBVIOUS
    <3>2. SumOf(f, S) \in Nat /\ Cardinality(S) \in Nat
      BY <3>1, SumFacts, FS_CardinalityType
    <3>3. f \in [S -> Int]
      BY <3>1
    <3>4. SumOf(f, S) <= Cardinality(S) * 0
      BY <3>1, <3>3, SumFacts
    <3>. QED BY <3>2, <3>4
  <2>2. /\ \A t \in Callers : call[t] = NoCall
        /\ \A m \in ManualIds : manual[m] = NoManual
        /\ \A k \in Canonicals : entered[k] = 0 /\ open[k] = 0
        /\ \A v \in Platforms : plat[v] = 0
    BY DEF Init
  <2>3. CostsFit
    BY <2>2 DEF CostsFit, CostFits, NoCall, Requoted
  <2>4. \A m \in ManualIds : ~IsEntered(m)
    BY <2>2 DEF IsEntered, NoManual
  <2>5. /\ \A k \in Canonicals : SumOf(EnteredOf(k), ManualIds) = 0
        /\ SumOf(EnteredAll, ManualIds) = 0
    <3>1. /\ \A k \in Canonicals, m \in ManualIds : EnteredOf(k)[m] = 0
          /\ \A m \in ManualIds : EnteredAll[m] = 0
      BY <2>4 DEF EnteredOf, EnteredAll
    <3>. QED BY <2>0, <2>1, <3>1 DEF Sums
  <2>6. SumOf(entered, Canonicals) = 0
    BY <2>1, <2>2 DEF TypeOK
  <2>7. FreeTotal = 0 /\ SumOf(Owed, Callers) = 0
    <3>1. (\A k \in Canonicals : Free[k] = 0) /\ (\A t \in Callers : Owed[t] = 0)
      BY <2>2 DEF Free, Less, Owed, Owes, NoCall, Pending, Requoted
    <3>. QED BY <2>0, <2>1, <3>1 DEF Sums, FreeTotal
  <2>8. \A v \in Platforms : FreeOn(v) = 0 /\ SumOf(OwedOn(v), Callers) = 0
    <3>1. \A v \in Platforms, t \in Callers : OwedOn(v)[t] = 0
      BY <2>2 DEF OwedOn, OwesOn, NoCall, Pending, Requoted
    <3>2. \A v \in Platforms : SumOf(OwedOn(v), Callers) = 0
      BY <2>0, <2>1, <3>1 DEF Sums
    <3>. QED BY <2>0, <2>2, <3>2 DEF Sums, FreeOn, Less
  <2>. QED
    BY <1>5, <2>2, <2>3, <2>5, <2>6, <2>7, <2>8 DEF SInv, EnteredIs, TotalFits, PlatformFits
<1>7. TypeOK /\ SInv => SharedCaps
  <2>. SUFFICES ASSUME TypeOK, SInv PROVE SharedCaps
    OBVIOUS
  <2>0. Sums
    BY <1>4
  <2>1. TotalCap
    <3>. DEFINE e == [k \in Canonicals |-> Free[k] + entered[k]]
    <3>1. /\ open \in [Canonicals -> Int] /\ entered \in [Canonicals -> Int]
          /\ Free \in [Canonicals -> Int]
          /\ e \in [Canonicals -> Int]
          /\ \A k \in Canonicals : open[k] <= e[k] /\ e[k] = Free[k] + entered[k]
      <4>1. \A k \in Canonicals : open[k] \in Nat /\ entered[k] \in Nat /\ Free[k] \in Nat
                                  /\ open[k] <= Free[k] + entered[k]
        BY <2>0 DEF TypeOK, Sums, Free, Less
      <4>. QED BY <2>0, <4>1 DEF TypeOK, Sums
    <3>. HIDE DEF e
    <3>2. SumOf(open, Canonicals) <= SumOf(e, Canonicals)
      BY <3>1, SumFacts
    <3>3. SumOf(e, Canonicals) = FreeTotal + SumOf(entered, Canonicals)
      <4>1. \A f, g, h \in [Canonicals -> Int] :
              (\A k \in Canonicals : h[k] = f[k] + g[k])
                => SumOf(h, Canonicals) = SumOf(f, Canonicals) + SumOf(g, Canonicals)
        BY SumFacts
      <4>. QED BY <3>1, <4>1 DEF FreeTotal
    <3>4. SumOf(open, Canonicals) \in Int
      BY <3>1, SumFacts
    <3>5. SumOf(open, Canonicals) <= TotalBound + SumOf(entered, Canonicals)
      BY <1>5, <2>0, <3>2, <3>3, <3>4 DEF Sums, SInv, TotalFits
    <3>. QED BY <3>5 DEF TotalCap, Total, SumOf, TotalBound
  <2>2. ASSUME NEW v \in Platforms
        PROVE  plat[v] <= PlatformBound + SumOf(entered, Canonicals)
    <3>1. SumOf(EnteredOn(v), ManualIds) <= SumOf(EnteredAll, ManualIds)
      <4>1. /\ EnteredOn(v) \in [ManualIds -> Int] /\ EnteredAll \in [ManualIds -> Int]
            /\ \A m \in ManualIds : EnteredOn(v)[m] <= EnteredAll[m]
        <5>1. ASSUME NEW m \in ManualIds, IsEntered(m)
              PROVE  Share(manual[m].k, v, manual[m].cost, Legs) <= Pair(manual[m].cost)
          <6>1. manual[m].k \in Canonicals /\ manual[m].cost \in [Legs -> Nat]
            BY <5>1 DEF TypeOK, IsEntered, NoManual
          <6>. QED BY <1>3, <6>1
        <5>2. \A m \in ManualIds : EnteredOn(v)[m] <= EnteredAll[m]
          BY <5>1 DEF EnteredOn, EnteredAll
        <5>. QED BY <2>0, <5>2 DEF Sums
      <4>. QED BY <4>1, SumFacts
    <3>2. plat[v] \in Nat /\ plat[v] <= FreeOn(v) + SumOf(EnteredOn(v), ManualIds)
      BY <2>0 DEF TypeOK, Sums, FreeOn, Less
    <3>. QED BY <1>5, <2>0, <3>1, <3>2 DEF Sums, SInv, PlatformFits, EnteredIs
  <2>3. PlatformCap
    BY <2>2 DEF PlatformCap, SumOf, PlatformBound
  <2>. QED BY <2>1, <2>3 DEF SharedCaps
<1>8. IInv /\ IInv' /\ SInv /\ [Next]_vars => SInv'
  <2>. SUFFICES ASSUME IInv, IInv', SInv, [Next]_vars PROVE SInv'
    OBVIOUS
  <2>1. Sums /\ Sums'
    <3>1. Sums' 
      BY <1>4, PTL DEF IInv
    <3>. QED BY <1>4, <3>1 DEF IInv
  <2>2. /\ call \in [Callers -> {NoCall} \cup Calls]
        /\ open \in [Canonicals -> Nat] /\ plat \in [Platforms -> Nat]
        /\ entered \in [Canonicals -> Nat]
        /\ open' \in [Canonicals -> Nat] /\ plat' \in [Platforms -> Nat]
        /\ entered' \in [Canonicals -> Nat]
    BY DEF IInv, TypeOK, Calls, Stages, Requoted
  <2>3. \A a, b \in Nat : Less(a, b) \in Nat /\ (a <= b => Less(a, b) = 0)
                          /\ (a > b => Less(a, b) = a - b)
    BY DEF Less
  <2>4. ASSUME NEW t \in Callers, NEW c, call' = [call EXCEPT ![t] = c], CostFits(c),
               FreeTotal' + Owes(c) <= FreeTotal + Owes(call[t]),
               \A v \in Platforms : FreeOn(v)' + OwesOn(c, v) <= FreeOn(v) + OwesOn(call[t], v)
        PROVE  CostsFit' /\ TotalFits' /\ PlatformFits'
    <3>1. call'[t] = c /\ \A u \in Callers : u # t => call'[u] = call[u]
      BY <2>2, <2>4
    <3>2. CostsFit'
      BY <2>4, <3>1 DEF SInv, CostsFit
    <3>3. \A f, g \in [Callers -> Int] : (\A u \in Callers \ {t} : g[u] = f[u])
               => SumOf(g, Callers) = SumOf(f, Callers) - f[t] + g[t]
      BY SumFacts
    <3>4. TotalFits'
      <4>1. Owed'[t] = Owes(c) /\ Owed[t] = Owes(call[t]) /\ \A u \in Callers : u # t => Owed'[u] = Owed[u]
        BY <3>1 DEF Owed
      <4>2. Owed \in [Callers -> Int] /\ Owed' \in [Callers -> Int]
        BY <2>1 DEF Sums
      <4>3. SumOf(Owed, Callers)' = SumOf(Owed, Callers) - Owes(call[t]) + Owes(c)
        BY <3>3, <4>1, <4>2
      <4>4. Owes(c) \in Int /\ Owes(call[t]) \in Int /\ FreeTotal \in Int /\ FreeTotal' \in Int
            /\ SumOf(Owed, Callers) \in Int
        BY <2>1, <4>1, <4>2 DEF Sums
      <4>5. FreeTotal + SumOf(Owed, Callers) <= TotalBound
        BY DEF SInv, TotalFits
      <4>. QED BY <1>5, <2>4, <4>3, <4>4, <4>5 DEF TotalFits
    <3>5. ASSUME NEW v \in Platforms
          PROVE  FreeOn(v)' + SumOf(OwedOn(v), Callers)' <= PlatformBound
      <4>1. OwedOn(v)'[t] = OwesOn(c, v) /\ OwedOn(v)[t] = OwesOn(call[t], v)
            /\ \A u \in Callers : u # t => OwedOn(v)'[u] = OwedOn(v)[u]
        BY <3>1 DEF OwedOn
      <4>2. OwedOn(v) \in [Callers -> Int] /\ OwedOn(v)' \in [Callers -> Int]
        BY <2>1 DEF Sums
      <4>3. SumOf(OwedOn(v), Callers)'
              = SumOf(OwedOn(v), Callers) - OwesOn(call[t], v) + OwesOn(c, v)
        BY <3>3, <4>1, <4>2
      <4>4. OwesOn(c, v) \in Int /\ OwesOn(call[t], v) \in Int /\ FreeOn(v) \in Int
            /\ FreeOn(v)' \in Int /\ SumOf(OwedOn(v), Callers) \in Int
        BY <2>1, <4>1, <4>2 DEF Sums
      <4>5. FreeOn(v) + SumOf(OwedOn(v), Callers) <= PlatformBound
        BY DEF SInv, PlatformFits
      <4>. QED BY <1>5, <2>4, <4>3, <4>4, <4>5
    <3>6. PlatformFits'
      BY <3>5 DEF PlatformFits
    <3>. QED BY <3>2, <3>4, <3>6
  <2>5. ASSUME entered' = entered,
               \A m \in ManualIds : /\ IsEntered(m)' <=> IsEntered(m)
                                    /\ IsEntered(m) => manual'[m] = manual[m]
        PROVE  /\ EnteredIs'
               /\ \A v \in Platforms :
                    SumOf(EnteredOn(v), ManualIds)' = SumOf(EnteredOn(v), ManualIds)
    <3>1. EnteredAll' = EnteredAll
      BY <2>5 DEF EnteredAll
    <3>2. \A k \in Canonicals : EnteredOf(k)' = EnteredOf(k)
      BY <2>5 DEF EnteredOf
    <3>3. \A v \in Platforms : EnteredOn(v)' = EnteredOn(v)
      BY <2>5 DEF EnteredOn
    <3>. QED BY <2>5, <3>1, <3>2, <3>3 DEF SInv, EnteredIs
  <2>6. ASSUME entered' = entered, NEW k, NEW a \in Nat,
               \A i \in Canonicals : open'[i] <= open[i] + (IF i = k THEN a ELSE 0)
        PROVE  FreeTotal' <= FreeTotal + a
    <3>. DEFINE g == [i \in Canonicals |-> Free[i] + (IF i = k THEN a ELSE 0)]
    <3>1. /\ Free \in [Canonicals -> Int] /\ Free' \in [Canonicals -> Int]
          /\ g \in [Canonicals -> Int]
          /\ \A i \in Canonicals : g[i] = Free[i] + (IF i = k THEN a ELSE 0)
      BY <2>1 DEF Sums
    <3>. HIDE DEF g
    <3>2. ASSUME NEW i \in Canonicals PROVE Free'[i] <= g[i]
      <4>1. /\ open[i] \in Nat /\ open'[i] \in Nat /\ entered[i] \in Nat /\ entered'[i] = entered[i]
        BY <2>2, <2>6
      <4>2. Free[i] = Less(open[i], entered[i]) /\ Free'[i] = Less(open'[i], entered[i])
        BY <4>1 DEF Free
      <4>. QED BY <2>6, <3>1, <4>1, <4>2 DEF Less
    <3>3. SumOf(Free', Canonicals) <= SumOf(g, Canonicals)
      BY <3>1, <3>2, SumFacts
    <3>4. SumOf(g, Canonicals) <= FreeTotal + a
      <4>1. SumOf(Free, Canonicals) \in Int
        BY <3>1, SumFacts
      <4>2. CASE k \in Canonicals
        <5>1. SumOf(g, Canonicals) = SumOf(Free, Canonicals) - Free[k] + g[k]
          <6>1. \A i \in Canonicals \ {k} : g[i] = Free[i]
            BY <3>1
          <6>. QED BY <3>1, <4>2, <6>1, SumFacts
        <5>2. Free[k] \in Int /\ g[k] = Free[k] + a
          BY <3>1, <4>2
        <5>. QED BY <4>1, <5>1, <5>2 DEF FreeTotal
      <4>3. CASE k \notin Canonicals
        <5>1. \A i \in Canonicals : g[i] <= Free[i]
          BY <3>1, <4>3
        <5>2. SumOf(g, Canonicals) <= SumOf(Free, Canonicals) /\ SumOf(g, Canonicals) \in Int
          BY <3>1, <5>1, SumFacts
        <5>. QED BY <4>1, <5>2 DEF FreeTotal
      <4>. QED BY <4>2, <4>3
    <3>5. SumOf(g, Canonicals) \in Int /\ SumOf(Free', Canonicals) \in Int
      BY <3>1, SumFacts
    <3>. QED BY <2>1, <3>3, <3>4, <3>5 DEF Sums, FreeTotal
  <2>7. ASSUME NEW t \in Callers, NEW c, call' = [call EXCEPT ![t] = c], CostFits(c),
               NEW k, NEW a \in Nat, NEW b \in [Platforms -> Nat],
               a + Owes(c) <= Owes(call[t]),
               \A v \in Platforms : b[v] + OwesOn(c, v) <= OwesOn(call[t], v),
               \A i \in Canonicals : open'[i] <= open[i] + (IF i = k THEN a ELSE 0),
               \A v \in Platforms : plat'[v] <= plat[v] + b[v],
               entered' = entered,
               \A m \in ManualIds : /\ IsEntered(m)' <=> IsEntered(m)
                                    /\ IsEntered(m) => manual'[m] = manual[m]
        PROVE  SInv'
    <3>1. /\ EnteredIs'
          /\ \A v \in Platforms :
                    SumOf(EnteredOn(v), ManualIds)' = SumOf(EnteredOn(v), ManualIds)
      BY <2>5, <2>7
    <3>2. FreeTotal' <= FreeTotal + a
      BY <2>6, <2>7
    <3>3. ASSUME NEW v \in Platforms PROVE FreeOn(v)' <= FreeOn(v) + b[v] /\ b[v] \in Nat
      <4>1. b[v] \in Nat /\ plat[v] \in Nat /\ plat'[v] \in Nat
            /\ SumOf(EnteredOn(v), ManualIds) \in Nat
        BY <2>1, <2>2, <2>7 DEF Sums
      <4>. QED BY <2>7, <3>1, <4>1 DEF FreeOn, Less
    <3>4. call'[t] = c /\ Owes(c) = Owed'[t] /\ Owes(call[t]) = Owed[t]
      BY <2>2, <2>7 DEF Owed
    <3>5. /\ Owes(c) \in Nat /\ Owes(call[t]) \in Nat /\ FreeTotal \in Nat /\ FreeTotal' \in Nat
          /\ \A v \in Platforms : FreeOn(v) \in Nat /\ FreeOn(v)' \in Nat
                                  /\ OwesOn(c, v) \in Nat /\ OwesOn(call[t], v) \in Nat
      <4>1. \A v \in Platforms : OwesOn(c, v) = OwedOn(v)'[t] /\ OwesOn(call[t], v) = OwedOn(v)[t]
        BY <3>4 DEF OwedOn
      <4>. QED BY <2>1, <3>4, <4>1 DEF Sums
    <3>6. FreeTotal' + Owes(c) <= FreeTotal + Owes(call[t])
      BY <2>7, <3>2, <3>5
    <3>7. \A v \in Platforms : FreeOn(v)' + OwesOn(c, v) <= FreeOn(v) + OwesOn(call[t], v)
      BY <2>7, <3>3, <3>5
    <3>. QED BY <2>4, <2>7, <3>1, <3>6, <3>7 DEF SInv
  <2>8. ASSUME NEW t \in Callers, NEW c, call' = [call EXCEPT ![t] = c], CostFits(c),
               Owes(c) <= Owes(call[t]),
               \A v \in Platforms : OwesOn(c, v) <= OwesOn(call[t], v),
               \A k \in Canonicals : open'[k] <= open[k],
               \A v \in Platforms : plat'[v] <= plat[v],
               entered' = entered,
               \A m \in ManualIds : /\ IsEntered(m)' <=> IsEntered(m)
                                    /\ IsEntered(m) => manual'[m] = manual[m]
        PROVE  SInv'
    <3>. DEFINE b == [v \in Platforms |-> 0]
    <3>1. b \in [Platforms -> Nat] /\ \A v \in Platforms : b[v] = 0
      OBVIOUS
    <3>2. call'[t] = c
      BY <2>2, <2>8
    <3>3. /\ Owes(c) \in Nat /\ Owes(call[t]) \in Nat
          /\ \A v \in Platforms : OwesOn(c, v) \in Nat /\ OwesOn(call[t], v) \in Nat
      <4>1. Owes(c) = Owed'[t] /\ Owes(call[t]) = Owed[t]
            /\ \A v \in Platforms : OwesOn(c, v) = OwedOn(v)'[t] /\ OwesOn(call[t], v) = OwedOn(v)[t]
        BY <3>2 DEF Owed, OwedOn
      <4>. QED BY <2>1, <4>1 DEF Sums
    <3>. HIDE DEF b
    <3>4. 0 + Owes(c) <= Owes(call[t])
          /\ \A v \in Platforms : b[v] + OwesOn(c, v) <= OwesOn(call[t], v)
      BY <2>8, <3>1, <3>3
    <3>5. /\ \A i \in Canonicals : open'[i] <= open[i] + (IF i = call[t].k THEN 0 ELSE 0)
          /\ \A v \in Platforms : plat'[v] <= plat[v] + b[v]
      BY <2>2, <2>8, <3>1
    <3>. QED BY <2>7, <2>8, <3>1, <3>4, <3>5
  <2>9. /\ Owes(NoCall) = 0 /\ \A v \in Platforms : OwesOn(NoCall, v) = 0
        /\ CostFits(NoCall)
        /\ \A t \in Callers : Owes(call[t]) \in Nat
        /\ \A t \in Callers, v \in Platforms : OwesOn(call[t], v) \in Nat
    <3>1. Owes(NoCall) = 0 /\ CostFits(NoCall) /\ \A v \in Platforms : OwesOn(NoCall, v) = 0
      BY DEF Owes, OwesOn, CostFits, NoCall, Pending, Requoted
    <3>2. ASSUME NEW t \in Callers
          PROVE  Owes(call[t]) = Owed[t] /\ \A v \in Platforms : OwesOn(call[t], v) = OwedOn(v)[t]
      BY DEF Owed, OwedOn
    <3>. QED BY <2>1, <3>1, <3>2 DEF Sums
  <2>10. ASSUME NEW t \in Callers, Leave(t), UNCHANGED <<exposures, entered>>,
                \A m \in ManualIds : /\ IsEntered(m)' <=> IsEntered(m)
                                     /\ IsEntered(m) => manual'[m] = manual[m]
         PROVE  SInv'
    <3>1. /\ call' = [call EXCEPT ![t] = NoCall]
          /\ Owes(NoCall) <= Owes(call[t])
          /\ \A v \in Platforms : OwesOn(NoCall, v) <= OwesOn(call[t], v)
      BY <2>9, <2>10 DEF Leave
    <3>2. /\ \A k \in Canonicals : open'[k] <= open[k]
          /\ \A v \in Platforms : plat'[v] <= plat[v]
      BY <2>2, <2>10 DEF exposures
    <3>. QED BY <2>8, <2>9, <2>10, <3>1, <3>2
  <2>11. ASSUME NEW t \in Callers, call[t] # NoCall, NEW at \in Stages, GoTo(t, at),
                at \in Pending => call[t].at \in Pending,
                at \in Requoted <=> call[t].at \in Requoted, at # "lock",
                call[t].at \in {"gate", "requote"} \/ at \notin {"gate", "requote"},
                UNCHANGED <<exposures, manual, entered>>
         PROVE  SInv'
    <3>. DEFINE c == [call[t] EXCEPT !.at = at]
    <3>1. call[t] \in Calls
      BY <2>2, <2>11
    <3>2. c \in Calls /\ c.at = at /\ c.k = call[t].k /\ c.cost = call[t].cost
      BY <3>1 DEF Calls
    <3>3. call' = [call EXCEPT ![t] = c]
      BY <2>11 DEF GoTo
    <3>. HIDE DEF c
    <3>4. CostFits(c)
      BY <2>11, <3>2 DEF SInv, CostsFit, CostFits, Pending, Requoted
    <3>5. Owes(c) <= Owes(call[t]) /\ \A v \in Platforms : OwesOn(c, v) <= OwesOn(call[t], v)
      <4>1. CASE at \in Pending
        <5>1. Owes(c) = Owes(call[t]) /\ \A v \in Platforms : OwesOn(c, v) = OwesOn(call[t], v)
          BY <2>11, <3>2, <4>1 DEF Owes, OwesOn
        <5>. QED BY <2>9, <5>1
      <4>2. CASE at \notin Pending
        <5>1. Owes(c) = 0 /\ \A v \in Platforms : OwesOn(c, v) = 0
          BY <3>2, <4>2 DEF Owes, OwesOn
        <5>. QED BY <2>9, <5>1
      <4>. QED BY <4>1, <4>2
    <3>6. /\ \A k \in Canonicals : open'[k] <= open[k]
          /\ \A v \in Platforms : plat'[v] <= plat[v]
      BY <2>2, <2>11 DEF exposures
    <3>7. \A m \in ManualIds : (IsEntered(m)' <=> IsEntered(m)) /\ manual'[m] = manual[m]
      BY <2>11 DEF IsEntered
    <3>. QED BY <2>8, <2>11, <3>3, <3>4, <3>5, <3>6, <3>7
  <2>12. ASSUME NEW t \in Callers, Call(t) PROVE SInv'
    <3>1. PICK k \in Canonicals, m \in BOOLEAN, n \in [Legs -> Costs] :
            call' = [call EXCEPT ![t] = [at |-> "lock", k |-> k, manual |-> m, cost |-> n]]
      BY <2>12 DEF Call
    <3>. DEFINE c == [at |-> "lock", k |-> k, manual |-> m, cost |-> n]
    <3>2. CostFits(c)
      BY <1>1, <3>1 DEF CostFits, Requoted
    <3>3. c.at = "lock"
      OBVIOUS
    <3>. HIDE DEF c
    <3>4. Owes(c) = 0 /\ \A v \in Platforms : OwesOn(c, v) = 0
      BY <3>3 DEF Owes, OwesOn, Pending, Requoted
    <3>5. /\ Owes(c) <= Owes(call[t])
          /\ \A v \in Platforms : OwesOn(c, v) <= OwesOn(call[t], v)
      BY <2>9, <3>4
    <3>6. /\ \A i \in Canonicals : open'[i] <= open[i]
          /\ \A v \in Platforms : plat'[v] <= plat[v]
      BY <2>2, <2>12 DEF Call, exposures
    <3>7. call' = [call EXCEPT ![t] = c]
      BY <3>1 DEF c
    <3>8. entered' = entered
          /\ \A i \in ManualIds : (IsEntered(i)' <=> IsEntered(i)) /\ manual'[i] = manual[i]
      BY <2>12 DEF Call, IsEntered
    <3>. QED BY <2>8, <3>2, <3>5, <3>6, <3>7, <3>8
  <2>13. ASSUME NEW t \in Callers, Enter(t) PROVE SInv'
    <3>1. CASE Leave(t)
      BY <2>10, <2>13, <3>1 DEF Enter, IsEntered
    <3>2. CASE Approved(call[t].k, call[t].cost) /\ GoTo(t, "gate")
      <4>. DEFINE n == call[t].cost
                  k == call[t].k
      <4>1. call[t] \in Calls /\ call[t].at = "lock"
        BY <2>2, <2>13 DEF Enter, At, NoCall
      <4>2. k \in Canonicals /\ n \in [Legs -> Nat] /\ Legs \in SUBSET Legs
            /\ First[k] \in Platforms /\ Second[k] \in Platforms
        BY <4>1 DEF Calls
      <4>3. /\ call'[t].at = "gate" /\ call'[t].k = k /\ call'[t].cost = n
            /\ \A u \in Callers : u # t => call'[u] = call[u]
        BY <2>2, <3>2, <4>1 DEF GoTo, Calls
      <4>. HIDE DEF n, k
      <4>4. CostsFit'
        <5>1. CostFits(call[t])
          BY DEF SInv, CostsFit
        <5>2. CostFits(call'[t])
          BY <4>1, <4>3, <5>1 DEF CostFits, Requoted, n
        <5>3. \A u \in Callers : CostFits(call'[u])
          BY <4>3, <5>2 DEF SInv, CostsFit
        <5>. QED BY <5>3 DEF CostsFit, CostFits
      <4>5. /\ EnteredIs'
            /\ \A v \in Platforms :
                 SumOf(EnteredOn(v), ManualIds)' = SumOf(EnteredOn(v), ManualIds)
        BY <2>5, <2>13 DEF Enter, IsEntered
      <4>6. /\ FreeTotal' = FreeTotal
            /\ \A v \in Platforms : FreeOn(v)' = FreeOn(v)
        BY <2>13, <4>5 DEF Enter, exposures, FreeTotal, Free, FreeOn
      <4>7. ASSUME NEW u \in Callers, NEW v \in Platforms, u # t
            PROVE  Owed'[u] <= 2 * MaxCost + 2 * Slip /\ OwedOn(v)'[u] <= MaxCost + Slip
        <5>1. CASE call[u].at \notin Pending
          BY <1>1, <4>3, <4>7, <5>1 DEF Owed, OwedOn, Owes, OwesOn
        <5>2. CASE call[u].at \in Pending
          <6>1. call[u] \in Calls
            BY <2>2, <5>2 DEF NoCall, Pending, Requoted
          <6>2. /\ call[u].k \in Canonicals /\ call[u].cost \in [Legs -> Nat]
                /\ CostFits(call[u])
            BY <6>1 DEF Calls, SInv, CostsFit
          <6>. DEFINE w == call[u].cost
          <6>3. /\ w["p"] \in Nat /\ w["s"] \in Nat /\ Pair(w) = w["p"] + w["s"]
                /\ \/ Share(call[u].k, v, w, Legs) = w["p"]
                   \/ Share(call[u].k, v, w, Legs) = w["s"]
                   \/ Share(call[u].k, v, w, Legs) = 0
            BY <1>3, <4>2, <6>2 DEF Pair
          <6>4. LET most == IF call[u].at \in Requoted THEN MaxCost + Slip ELSE MaxCost IN
                w["p"] <= most /\ w["s"] <= most
            BY <5>2, <6>2 DEF CostFits, Pending, Legs
          <6>5. Owed'[u] = Owes(call[u]) /\ OwedOn(v)'[u] = OwesOn(call[u], v)
            BY <4>3, <4>7 DEF Owed, OwedOn
          <6>. HIDE DEF w
          <6>6. Owes(call[u]) = Pair(w) + (IF call[u].at \in Requoted THEN 0 ELSE 2 * Slip)
            BY <5>2 DEF Owes, w
          <6>7. OwesOn(call[u], v) \in {0, Share(call[u].k, v, w, Legs)
                                          + (IF call[u].at \in Requoted THEN 0 ELSE Slip)}
            BY <5>2 DEF OwesOn, w
          <6>. QED BY <1>1, <6>3, <6>4, <6>5, <6>6, <6>7
        <5>. QED BY <5>1, <5>2
      <4>8. ASSUME NEW f \in [Callers -> Nat], NEW most \in Nat,
                   \A u \in Callers : u # t => f[u] <= most
            PROVE  SumOf(f, Callers) <= Cardinality(Callers) * most - most + f[t]
        <5>. DEFINE g == [f EXCEPT ![t] = most]
        <5>1. /\ f \in [Callers -> Int] /\ g \in [Callers -> Int] /\ g[t] = most
              /\ \A u \in Callers : g[u] <= most /\ (u # t => f[u] = g[u])
          BY <4>8
        <5>. HIDE DEF g
        <5>2. SumOf(g, Callers) <= Cardinality(Callers) * most
          BY <5>1, SumFacts
        <5>3. SumOf(f, Callers) = SumOf(g, Callers) - g[t] + f[t]
          <6>1. \A u \in Callers \ {t} : f[u] = g[u]
            BY <5>1
          <6>. QED BY <5>1, <6>1, SumFacts
        <5>4. SumOf(g, Callers) \in Int /\ Cardinality(Callers) * most \in Int
          BY <1>2, <5>1, SumFacts
        <5>. QED BY <5>1, <5>2, <5>3, <5>4
      <4>9. TotalFits'
        <5>1. FreeTotal <= Total
          <6>1. /\ Free \in [Canonicals -> Int] /\ open \in [Canonicals -> Int]
                /\ \A i \in Canonicals : Free[i] <= open[i]
            <7>1. \A i \in Canonicals : open[i] \in Nat /\ entered[i] \in Nat
              BY <2>2
            <7>. QED BY <2>1, <2>2, <7>1 DEF Sums, Free, Less
          <6>2. SumOf(Free, Canonicals) <= SumOf(open, Canonicals)
            BY <6>1, SumFacts
          <6>. QED BY <6>2 DEF FreeTotal, Total, SumOf
        <5>2. Total \in Int
          <6>1. open \in [Canonicals -> Int]
            BY <2>2
          <6>2. SumOf(open, Canonicals) \in Int
            BY <6>1, SumFacts
          <6>. QED BY <6>2 DEF Total, SumOf
        <5>3. Total + Pair(n) <= MaxTotal /\ Pair(n) \in Nat
          BY <1>3, <3>2, <4>2 DEF Approved, n
        <5>4. Owed'[t] = Pair(n) + 2 * Slip
          BY <4>3 DEF Owed, Owes, Pending, Requoted
        <5>5. SumOf(Owed, Callers)' <= Cardinality(Callers) * (2 * MaxCost + 2 * Slip)
                - (2 * MaxCost + 2 * Slip) + Owed'[t]
          <6>1. 2 * MaxCost + 2 * Slip \in Nat /\ Owed' \in [Callers -> Nat]
            BY <1>1, <2>1 DEF Sums
          <6>2. \A u \in Callers : u # t => Owed'[u] <= 2 * MaxCost + 2 * Slip
            BY <4>2, <4>7
          <6>. QED BY <4>8, <6>1, <6>2
        <5>6. SumOf(Owed, Callers)' \in Nat /\ FreeTotal \in Nat
              /\ Cardinality(Callers) * (2 * MaxCost + 2 * Slip) \in Int
          BY <1>1, <1>2, <2>1 DEF Sums
        <5>7. FreeTotal + SumOf(Owed, Callers)' <= TotalBound
          BY <1>1, <1>5, <5>1, <5>2, <5>3, <5>4, <5>5, <5>6
        <5>. QED BY <4>6, <5>7 DEF TotalFits
      <4>10. ASSUME NEW v \in Platforms
             PROVE  FreeOn(v)' + SumOf(OwedOn(v), Callers)' <= PlatformBound
        <5>1. CASE v \notin {First[k], Second[k]}
          <6>1. OwedOn(v)'[t] = 0 /\ OwedOn(v)[t] = 0
            BY <4>1, <4>3, <5>1 DEF OwedOn, OwesOn, Pending, Requoted
          <6>2. \A u \in Callers : OwedOn(v)'[u] = OwedOn(v)[u]
            BY <4>3, <6>1 DEF OwedOn
          <6>3. OwedOn(v)' = OwedOn(v)
            BY <6>2 DEF OwedOn
          <6>. QED BY <4>6, <6>3 DEF SInv, PlatformFits
        <5>2. CASE v \in {First[k], Second[k]}
          <6>. DEFINE a == Share(k, v, n, Legs)
          <6>1. a \in Nat /\ plat[v] + a <= MaxPlatform /\ plat[v] \in Nat
            <7>1. plat[First[k]] + n["p"] <= MaxPlatform /\ plat[Second[k]] + n["s"] <= MaxPlatform
              BY <3>2 DEF Approved, Legs, Platform, n, k
            <7>2. "p" \in Legs /\ "s" \in Legs
              BY DEF Legs
            <7>4. a = IF "p" \in Legs /\ First[k] = v THEN n["p"]
                      ELSE IF "s" \in Legs /\ Second[k] = v THEN n["s"] ELSE 0
              BY <1>3, <4>2
            <7>. HIDE DEF a
            <7>3. (v = First[k] /\ a = n["p"]) \/ (v = Second[k] /\ a = n["s"])
              BY <5>2, <7>2, <7>4
            <7>5. n["p"] \in Nat /\ n["s"] \in Nat /\ plat[v] \in Nat
              BY <2>2, <4>2, <7>2
            <7>. QED BY <7>1, <7>3, <7>5
          <6>2. FreeOn(v) <= plat[v] /\ FreeOn(v) \in Nat
            BY <2>1, <6>1 DEF Sums, FreeOn, Less
          <6>3. OwedOn(v)'[t] = a + Slip
            BY <4>3, <5>2 DEF OwedOn, OwesOn, Pending, Requoted
          <6>. HIDE DEF a
          <6>4. SumOf(OwedOn(v), Callers)' <= Cardinality(Callers) * (MaxCost + Slip)
                  - (MaxCost + Slip) + OwedOn(v)'[t]
            <7>1. MaxCost + Slip \in Nat /\ OwedOn(v)' \in [Callers -> Nat]
              BY <1>1, <2>1 DEF Sums
            <7>. QED BY <4>7, <4>8, <7>1
          <6>5. SumOf(OwedOn(v), Callers)' \in Nat /\ Cardinality(Callers) * (MaxCost + Slip) \in Int
            BY <1>1, <1>2, <2>1 DEF Sums
          <6>. QED BY <1>1, <1>5, <4>6, <6>1, <6>2, <6>3, <6>4, <6>5
        <5>. QED BY <5>1, <5>2
      <4>. QED BY <4>4, <4>5, <4>9, <4>10 DEF SInv, PlatformFits
    <3>. QED BY <2>13, <3>1, <3>2 DEF Enter
  <2>14. ASSUME NEW t \in Callers, PassGate(t) PROVE SInv'
    <3>1. CASE Leave(t)
      BY <2>10, <2>14, <3>1 DEF PassGate, IsEntered
    <3>2. CASE GoTo(t, "requote")
      BY <2>11, <2>14, <3>2 DEF PassGate, Gate, At, NoCall, Stages, Pending, Requoted
    <3>. QED BY <2>14, <3>1, <3>2 DEF PassGate, Gate
  <2>15. ASSUME NEW t \in Callers, QueueManual(t) PROVE SInv'
    <3>1. PICK m \in ManualIds :
            /\ manual[m] = NoManual
            /\ manual' = [manual EXCEPT ![m] = [status |-> "awaiting-entry", k |-> call[t].k,
                                                cost |-> call[t].cost]]
      BY <2>15 DEF QueueManual
    <3>2. \A i \in ManualIds : /\ IsEntered(i)' <=> IsEntered(i)
                               /\ IsEntered(i) => manual'[i] = manual[i]
      BY <3>1 DEF IsEntered, NoManual, IInv, TypeOK
    <3>. QED BY <2>10, <2>15, <3>2 DEF QueueManual
  <2>16. ASSUME NEW t \in Callers, Requote(t) PROVE SInv'
    <3>1. CASE Leave(t)
      BY <2>10, <2>16, <3>1 DEF Requote, IsEntered
    <3>2. ASSUME NEW p \in Near(call[t].cost["p"]), NEW s \in Near(call[t].cost["s"]),
                 call' = [call EXCEPT ![t] = [@ EXCEPT !.at = "primary",
                             !.cost = [x \in Legs |-> IF x = "p" THEN p ELSE s]]]
          PROVE  SInv'
      <4>. DEFINE w == call[t].cost
                  n == [x \in Legs |-> IF x = "p" THEN p ELSE s]
                  c == [call[t] EXCEPT !.at = "primary", !.cost = n]
                  k == call[t].k
      <4>0. call[t].at = "requote" /\ UNCHANGED <<exposures, manual, entered>>
        BY <2>16 DEF Requote, At
      <4>1. call[t] \in Calls /\ call[t].at = "requote"
        BY <2>2, <4>0 DEF NoCall
      <4>2. k \in Canonicals /\ w \in [Legs -> Nat] /\ w["p"] \in Nat /\ w["s"] \in Nat
        <5>1. k \in Canonicals /\ w \in [Legs -> Nat] /\ "p" \in Legs /\ "s" \in Legs
          BY <4>1 DEF Calls, Legs
        <5>. QED BY <5>1
      <4>3. p \in Nat /\ s \in Nat /\ p <= w["p"] + Slip /\ s <= w["s"] + Slip
        BY <3>2, <4>2 DEF Near
      <4>4. n \in [Legs -> Nat] /\ n["p"] = p /\ n["s"] = s
        BY <4>3 DEF Legs
      <4>5. c.at = "primary" /\ c.k = k /\ c.cost = n
        <5>. HIDE DEF n
        <5>. QED BY <4>1 DEF Calls
      <4>6. call' = [call EXCEPT ![t] = c]
        BY <3>2
      <4>7. w["p"] <= MaxCost /\ w["s"] <= MaxCost
        BY <4>1 DEF SInv, CostsFit, CostFits, Legs
      <4>. HIDE DEF w, n, c, k
      <4>8. CostFits(c)
        <5>1. \A x \in Legs : n[x] <= MaxCost + Slip
          BY <1>1, <4>2, <4>3, <4>4, <4>7 DEF Legs
        <5>. QED BY <4>5, <5>1 DEF CostFits, Requoted
      <4>9. Owes(c) <= Owes(call[t])
        <5>1. Owes(c) = p + s /\ Owes(call[t]) = w["p"] + w["s"] + 2 * Slip
          <6>1. Owes(c) = Pair(n) + 0 /\ Owes(call[t]) = Pair(w) + 2 * Slip
            BY <4>1, <4>5 DEF Owes, Pending, Requoted, w
          <6>. QED BY <4>2, <4>3, <4>4, <6>1 DEF Pair
        <5>. QED BY <4>2, <4>3, <5>1
      <4>10. ASSUME NEW v \in Platforms PROVE OwesOn(c, v) <= OwesOn(call[t], v)
        <5>1. CASE v \notin {First[k], Second[k]}
          BY <4>1, <4>5, <5>1 DEF OwesOn, k
        <5>2. CASE v \in {First[k], Second[k]}
          <6>1. /\ OwesOn(c, v) = Share(k, v, n, Legs) + 0
                /\ OwesOn(call[t], v) = Share(k, v, w, Legs) + Slip
            BY <4>1, <4>5, <5>2 DEF OwesOn, Pending, Requoted, k, w
          <6>2. /\ Share(k, v, n, Legs) = IF "p" \in Legs /\ First[k] = v THEN n["p"]
                                    ELSE IF "s" \in Legs /\ Second[k] = v THEN n["s"] ELSE 0
                /\ Share(k, v, w, Legs) = IF "p" \in Legs /\ First[k] = v THEN w["p"]
                                    ELSE IF "s" \in Legs /\ Second[k] = v THEN w["s"] ELSE 0
            BY <1>3, <4>2, <4>4
          <6>. QED BY <4>2, <4>3, <4>4, <6>1, <6>2
        <5>. QED BY <5>1, <5>2
      <4>11. /\ \A i \in Canonicals : open'[i] <= open[i]
             /\ \A v \in Platforms : plat'[v] <= plat[v]
        BY <2>2, <4>0 DEF exposures
      <4>12. entered' = entered
             /\ \A i \in ManualIds : (IsEntered(i)' <=> IsEntered(i)) /\ manual'[i] = manual[i]
        BY <4>0 DEF IsEntered
      <4>. QED BY <2>8, <4>6, <4>8, <4>9, <4>10, <4>11, <4>12
    <3>. QED BY <2>16, <3>1, <3>2 DEF Requote
  <2>17. ASSUME NEW t \in Callers, Primary(t) PROVE SInv'
    <3>1. CASE Leave(t)
      BY <2>10, <2>17, <3>1 DEF Primary, IsEntered
    <3>2. CASE GoTo(t, "secondary")
      BY <2>11, <2>17, <3>2 DEF Primary, At, NoCall, Stages, Pending, Requoted
    <3>. QED BY <2>17, <3>1, <3>2 DEF Primary
  <2>18. ASSUME NEW t \in Callers, Secondary(t) PROVE SInv'
    <3>1. ASSUME NEW at \in {"naked", "record"}, GoTo(t, at) PROVE SInv'
      BY <2>11, <2>18, <3>1 DEF Secondary, At, NoCall, Stages, Pending, Requoted
    <3>. QED BY <2>18, <3>1 DEF Secondary
  <2>19. ASSUME NEW t \in Callers, NEW X \in SUBSET Legs, Record(t, X) PROVE SInv'
    <3>. DEFINE n == call[t].cost
                k == call[t].k
    <3>1. call[t] \in Calls /\ call[t].at \in {"naked", "record"}
      BY <2>2, <2>19 DEF Record, At, NoCall
    <3>2. k \in Canonicals /\ n \in [Legs -> Nat] /\ Legs \in SUBSET Legs /\ First[k] \in Platforms
      BY <3>1 DEF Calls
    <3>3. PICK c : call' = [call EXCEPT ![t] = c] /\ c.at \in {"none", "both", "p", "s"}
      <4>1. NoCall.at = "none"
        BY DEF NoCall
      <4>2. \A at \in {"both", "p", "s"} : [call[t] EXCEPT !.at = at].at = at
        BY <3>1 DEF Calls
      <4>3. Leave(t) \/ \E at \in {"both", "p", "s"} : GoTo(t, at)
        BY <2>19 DEF Record
      <4>. QED BY <4>1, <4>2, <4>3 DEF Leave, GoTo
    <3>4. /\ open' = [open EXCEPT ![k] = @ + Amount(n, X)]
          /\ plat' = [v \in Platforms |-> plat[v] + Share(k, v, n, X)]
      BY <2>19 DEF Record, record_trade
    <3>5. /\ Owes(c) = 0 /\ \A v \in Platforms : OwesOn(c, v) = 0
          /\ CostFits(c)
      BY <3>3 DEF Owes, OwesOn, CostFits, Pending, Requoted
    <3>6. /\ Owes(call[t]) = Pair(n) + 0
          /\ \A v \in Platforms : OwesOn(call[t], v) = IF v \in {First[k], Second[k]}
                                    THEN Share(k, v, n, Legs) + 0 ELSE 0
      BY <3>1 DEF Owes, OwesOn, Pending, Requoted
    <3>. HIDE DEF n, k
    <3>7. /\ Amount(n, X) \in Nat /\ Amount(n, X) <= Pair(n) /\ Pair(n) \in Nat
          /\ \A v \in Platforms :
               /\ Share(k, v, n, X) \in Nat /\ Share(k, v, n, Legs) \in Nat
               /\ Share(k, v, n, X) <= Share(k, v, n, Legs)
               /\ v \notin {First[k], Second[k]} => Share(k, v, n, X) = 0
      BY <1>3, <3>2
    <3>8. PICK a \in Nat, b \in [Platforms -> Nat] :
            a = Amount(n, X) /\ \A v \in Platforms : b[v] = Share(k, v, n, X)
      <4>1. [v \in Platforms |-> Share(k, v, n, X)] \in [Platforms -> Nat]
        BY <3>7
      <4>. QED BY <3>7, <4>1
    <3>9. a + Owes(c) <= Owes(call[t])
      BY <3>5, <3>6, <3>7, <3>8
    <3>10. \A v \in Platforms : b[v] + OwesOn(c, v) <= OwesOn(call[t], v)
      BY <3>5, <3>6, <3>7, <3>8
    <3>11. /\ \A i \in Canonicals : open'[i] <= open[i] + (IF i = k THEN a ELSE 0)
           /\ \A v \in Platforms : plat'[v] <= plat[v] + b[v]
      <4>1. \A i \in Canonicals : open[i] \in Nat
                                  /\ open'[i] = IF i = k THEN open[i] + Amount(n, X) ELSE open[i]
        BY <2>2, <3>4
      <4>2. \A v \in Platforms : plat[v] \in Nat /\ plat'[v] = plat[v] + b[v]
        BY <2>2, <3>4, <3>8
      <4>. QED BY <3>7, <3>8, <4>1, <4>2
    <3>12. entered' = entered
           /\ \A i \in ManualIds : (IsEntered(i)' <=> IsEntered(i)) /\ manual'[i] = manual[i]
      <4>1. manual' = manual /\ entered' = entered
        BY <2>19 DEF Record
      <4>. QED BY <4>1 DEF IsEntered
    <3>. QED BY <2>7, <3>3, <3>5, <3>9, <3>10, <3>11, <3>12
  <2>20. ASSUME NEW t \in Callers, Recover(t) PROVE SInv'
    <3>1. call[t].at \in {"both", "p", "s"}
      BY <2>20 DEF Recover, Recovering
    <3>2. call[t] \in Calls
      BY <2>2, <3>1 DEF NoCall
    <3>. DEFINE X == Recovering[call[t].at]
    <3>3. PICK n \in [X -> 0..(MaxCost + 2 * Slip)] : release_trade(call[t].k, n, X)
      BY <2>20 DEF Recover
    <3>. HIDE DEF X
    <3>4. Amount(n, X) \in Nat /\ \A v \in Platforms : Share(call[t].k, v, n, X) \in Nat
      <4>1. \A x \in X : n[x] \in Nat
        BY <1>1, <3>3
      <4>2. \A Y \in SUBSET X : Amount(n, Y) \in Nat
        BY <4>1 DEF Amount
      <4>. QED BY <4>2 DEF Share
    <3>5. \A a, b \in Nat : Less(a, b) <= a
      BY DEF Less
    <3>6. /\ \A k \in Canonicals : open'[k] <= open[k]
          /\ \A v \in Platforms : plat'[v] <= plat[v]
      <4>1. /\ \A k \in Canonicals : open[k] \in Nat
                 /\ open'[k] = IF k = call[t].k THEN Less(open[k], Amount(n, X)) ELSE open[k]
            /\ \A v \in Platforms : plat[v] \in Nat
                 /\ plat'[v] = Less(plat[v], Share(call[t].k, v, n, X))
        BY <2>2, <3>3 DEF release_trade
      <4>. QED BY <3>4, <3>5, <4>1
    <3>7. call' = [call EXCEPT ![t] = NoCall] /\ entered' = entered
          /\ \A i \in ManualIds : (IsEntered(i)' <=> IsEntered(i)) /\ manual'[i] = manual[i]
      BY <2>20 DEF Recover, Leave, IsEntered
    <3>8. Owes(NoCall) <= Owes(call[t])
          /\ \A v \in Platforms : OwesOn(NoCall, v) <= OwesOn(call[t], v)
      BY <2>9
    <3>. QED BY <2>8, <2>9, <3>6, <3>7, <3>8
  <2>a. ASSUME call' = call, FreeTotal' <= FreeTotal,
               \A v \in Platforms : FreeOn(v)' <= FreeOn(v), EnteredIs'
        PROVE  SInv'
    <3>1. CostsFit' /\ Owed' = Owed /\ \A v \in Platforms : OwedOn(v)' = OwedOn(v)
      BY <2>a DEF SInv, CostsFit, CostFits, Owed, Owes, OwedOn, OwesOn
    <3>2. TotalFits'
      BY <1>5, <2>1, <2>a, <3>1 DEF Sums, SInv, TotalFits
    <3>3. ASSUME NEW v \in Platforms
          PROVE  FreeOn(v)' + SumOf(OwedOn(v), Callers)' <= PlatformBound
      <4>1. FreeOn(v) + SumOf(OwedOn(v), Callers) <= PlatformBound
        BY DEF SInv, PlatformFits
      <4>. QED BY <1>5, <2>1, <2>a, <3>1, <4>1 DEF Sums
    <3>. QED BY <2>a, <3>1, <3>2, <3>3 DEF SInv, PlatformFits
  <2>b. ASSUME NEW m \in ManualIds, \A i \in ManualIds : i # m => manual'[i] = manual[i]
        PROVE  /\ SumOf(EnteredAll, ManualIds)'
                    = SumOf(EnteredAll, ManualIds) - EnteredAll[m] + EnteredAll'[m]
               /\ \A k \in Canonicals : SumOf(EnteredOf(k), ManualIds)'
                    = SumOf(EnteredOf(k), ManualIds) - EnteredOf(k)[m] + EnteredOf(k)'[m]
               /\ \A v \in Platforms : SumOf(EnteredOn(v), ManualIds)'
                    = SumOf(EnteredOn(v), ManualIds) - EnteredOn(v)[m] + EnteredOn(v)'[m]
    <3>1. \A f, g \in [ManualIds -> Int] : (\A i \in ManualIds \ {m} : g[i] = f[i])
            => SumOf(g, ManualIds) = SumOf(f, ManualIds) - f[m] + g[m]
      BY SumFacts
    <3>2. /\ EnteredAll \in [ManualIds -> Int] /\ EnteredAll' \in [ManualIds -> Int]
          /\ \A k \in Canonicals : /\ EnteredOf(k) \in [ManualIds -> Int]
                                   /\ EnteredOf(k)' \in [ManualIds -> Int]
          /\ \A v \in Platforms : /\ EnteredOn(v) \in [ManualIds -> Int]
                                  /\ EnteredOn(v)' \in [ManualIds -> Int]
      BY <2>1 DEF Sums
    <3>3. ASSUME NEW i \in ManualIds \ {m}
          PROVE  /\ EnteredAll'[i] = EnteredAll[i]
                 /\ \A k \in Canonicals : EnteredOf(k)'[i] = EnteredOf(k)[i]
                 /\ \A v \in Platforms : EnteredOn(v)'[i] = EnteredOn(v)[i]
      BY <2>b DEF EnteredAll, EnteredOf, EnteredOn, IsEntered
    <3>4. SumOf(EnteredAll, ManualIds)'
            = SumOf(EnteredAll, ManualIds) - EnteredAll[m] + EnteredAll'[m]
      BY <3>1, <3>2, <3>3
    <3>5. ASSUME NEW k \in Canonicals
          PROVE  SumOf(EnteredOf(k), ManualIds)'
                   = SumOf(EnteredOf(k), ManualIds) - EnteredOf(k)[m] + EnteredOf(k)'[m]
      BY <3>1, <3>2, <3>3
    <3>6. ASSUME NEW v \in Platforms
          PROVE  SumOf(EnteredOn(v), ManualIds)'
                   = SumOf(EnteredOn(v), ManualIds) - EnteredOn(v)[m] + EnteredOn(v)'[m]
      BY <3>1, <3>2, <3>3
    <3>. QED BY <3>4, <3>5, <3>6
  <2>21. ASSUME NEW m \in ManualIds, MarkEntered(m) PROVE SInv'
    <3>. DEFINE n == manual[m].cost
                k == manual[m].k
    <3>1. /\ manual[m].status \in {"awaiting-entry", "entered"}
          /\ manual' = [manual EXCEPT ![m].status = "entered"] /\ call' = call
      BY <2>21 DEF MarkEntered
    <3>2. manual[m] \in Positions /\ manual \in [ManualIds -> {NoManual} \cup Positions]
      BY <3>1 DEF IInv, TypeOK, NoManual, Positions
    <3>3. k \in Canonicals /\ n \in [Legs -> Nat] /\ Legs \in SUBSET Legs /\ First[k] \in Platforms
      BY <3>2 DEF Positions
    <3>4. /\ \A i \in ManualIds : i # m => manual'[i] = manual[i]
          /\ manual'[m].status = "entered" /\ manual'[m].k = k /\ manual'[m].cost = n
      BY <3>1, <3>2
    <3>5. CASE IsEntered(m)
      <4>1. manual'[m] = manual[m]
        BY <3>1, <3>2, <3>5 DEF IsEntered, Positions
      <4>2. \A i \in ManualIds : (IsEntered(i)' <=> IsEntered(i)) /\ manual'[i] = manual[i]
        BY <3>4, <4>1 DEF IsEntered
      <4>3. UNCHANGED <<exposures, entered>>
        BY <2>21, <3>5 DEF MarkEntered, IsEntered
      <4>4. EnteredIs' /\ \A v \in Platforms :
                    SumOf(EnteredOn(v), ManualIds)' = SumOf(EnteredOn(v), ManualIds)
        BY <2>5, <4>2, <4>3
      <4>5. FreeTotal' = FreeTotal /\ \A v \in Platforms : FreeOn(v)' = FreeOn(v)
        BY <4>3, <4>4 DEF exposures, FreeTotal, Free, FreeOn
      <4>6. FreeTotal' <= FreeTotal /\ \A v \in Platforms : FreeOn(v)' <= FreeOn(v)
        BY <2>1, <4>5 DEF Sums
      <4>. QED BY <2>a, <3>1, <4>4, <4>6
    <3>6. CASE ~IsEntered(m)
      <4>. HIDE DEF n, k
      <4>1. /\ EnteredAll[m] = 0 /\ EnteredAll'[m] = Pair(n)
            /\ \A i \in Canonicals : /\ EnteredOf(i)[m] = 0
                                     /\ EnteredOf(i)'[m] = IF i = k THEN Pair(n) ELSE 0
            /\ \A v \in Platforms : /\ EnteredOn(v)[m] = 0
                                    /\ EnteredOn(v)'[m] = Share(k, v, n, Legs)
        BY <3>4, <3>6 DEF EnteredAll, EnteredOf, EnteredOn, IsEntered
      <4>2. /\ open' = [open EXCEPT ![k] = @ + Amount(n, Legs)]
            /\ plat' = [v \in Platforms |-> plat[v] + Share(k, v, n, Legs)]
            /\ entered' = [entered EXCEPT ![k] = @ + Pair(n)]
        BY <2>21, <3>1, <3>6 DEF MarkEntered, IsEntered, record_trade, n, k
      <4>3. /\ Amount(n, Legs) = Pair(n) /\ Pair(n) \in Nat
            /\ \A v \in Platforms : Share(k, v, n, Legs) \in Nat
        BY <1>3, <3>3
      <4>4. ASSUME NEW i \in Canonicals
            PROVE  /\ entered'[i] = entered[i] + (IF i = k THEN Pair(n) ELSE 0)
                   /\ Free'[i] = Free[i]
        <5>1. /\ open[i] \in Nat /\ entered[i] \in Nat
              /\ open'[i] = open[i] + (IF i = k THEN Pair(n) ELSE 0)
              /\ entered'[i] = entered[i] + (IF i = k THEN Pair(n) ELSE 0)
          BY <2>2, <4>2, <4>3
        <5>. QED BY <4>3, <5>1 DEF Free, Less
      <4>5. EnteredIs'
        <5>1. \A i \in Canonicals : entered'[i] = SumOf(EnteredOf(i), ManualIds)'
          <6>1. \A i \in Canonicals : entered[i] = SumOf(EnteredOf(i), ManualIds) /\ entered[i] \in Nat
            BY <2>2 DEF SInv, EnteredIs
          <6>2. \A i \in Canonicals : SumOf(EnteredOf(i), ManualIds)'
                  = SumOf(EnteredOf(i), ManualIds) - EnteredOf(i)[m] + EnteredOf(i)'[m]
            BY <2>b, <3>4
          <6>. QED BY <4>1, <4>3, <4>4, <6>1, <6>2
        <5>2. SumOf(entered, Canonicals)' = SumOf(entered, Canonicals) + Pair(n)
          <6>1. /\ entered \in [Canonicals -> Int] /\ entered' \in [Canonicals -> Int]
                /\ \A i \in Canonicals \ {k} : entered'[i] = entered[i]
                /\ entered'[k] = entered[k] + Pair(n) /\ entered[k] \in Int
            BY <2>2, <3>3, <4>2
          <6>2. SumOf(entered', Canonicals) = SumOf(entered, Canonicals) - entered[k] + entered'[k]
            BY <3>3, <6>1, SumFacts
          <6>. QED BY <2>1, <4>3, <6>1, <6>2 DEF Sums
        <5>3. SumOf(EnteredAll, ManualIds)' = SumOf(EnteredAll, ManualIds) + Pair(n)
          <6>1. SumOf(EnteredAll, ManualIds)'
                  = SumOf(EnteredAll, ManualIds) - EnteredAll[m] + EnteredAll'[m]
            BY <2>b, <3>4
          <6>. QED BY <2>1, <4>1, <4>3, <6>1 DEF Sums
        <5>. QED BY <5>1, <5>2, <5>3 DEF SInv, EnteredIs
      <4>6. FreeTotal' = FreeTotal
        <5>1. Free' = Free
          BY <4>4 DEF Free
        <5>. QED BY <5>1 DEF FreeTotal
      <4>7. ASSUME NEW v \in Platforms PROVE FreeOn(v)' = FreeOn(v)
        <5>1. SumOf(EnteredOn(v), ManualIds)'
                = SumOf(EnteredOn(v), ManualIds) + Share(k, v, n, Legs)
          <6>1. SumOf(EnteredOn(v), ManualIds)'
                  = SumOf(EnteredOn(v), ManualIds) - EnteredOn(v)[m] + EnteredOn(v)'[m]
            BY <2>b, <3>4
          <6>2. SumOf(EnteredOn(v), ManualIds) \in Nat /\ Share(k, v, n, Legs) \in Nat
            BY <2>1, <4>3 DEF Sums
          <6>. QED BY <4>1, <6>1, <6>2
        <5>2. plat'[v] = plat[v] + Share(k, v, n, Legs) /\ plat[v] \in Nat
          BY <2>2, <4>2
        <5>. QED BY <2>1, <4>3, <5>1, <5>2 DEF Sums, FreeOn, Less
      <4>8. FreeTotal' <= FreeTotal /\ \A v \in Platforms : FreeOn(v)' <= FreeOn(v)
        BY <2>1, <4>6, <4>7 DEF Sums
      <4>. QED BY <2>a, <3>1, <4>5, <4>8
    <3>. QED BY <3>5, <3>6
  <2>22. ASSUME NEW m \in ManualIds, NEW status \in {"closed", "cancelled"},
                NEW from \in SUBSET {"awaiting-entry", "entered", "closed", "cancelled"},
                End(m, status, from)
         PROVE  SInv'
    <3>. DEFINE n == manual[m].cost
                k == manual[m].k
    <3>1. /\ manual[m].status \in {"awaiting-entry", "entered", "closed", "cancelled"}
          /\ manual' = [manual EXCEPT ![m].status = status] /\ call' = call
          /\ release_trade(k, n, Legs)
          /\ entered' = IF IsEntered(m) THEN [entered EXCEPT ![k] = Less(@, Pair(n))] ELSE entered
      BY <2>22 DEF End, IsEntered
    <3>2. manual[m] \in Positions /\ manual \in [ManualIds -> {NoManual} \cup Positions]
      BY <3>1 DEF IInv, TypeOK, NoManual, Positions
    <3>3. k \in Canonicals /\ n \in [Legs -> Nat] /\ Legs \in SUBSET Legs /\ First[k] \in Platforms
      BY <3>2 DEF Positions
    <3>4. /\ \A i \in ManualIds : i # m => manual'[i] = manual[i]
          /\ manual'[m].status = status
      BY <3>1, <3>2
    <3>. HIDE DEF n, k
    <3>5. /\ open' = [open EXCEPT ![k] = Less(@, Pair(n))]
          /\ plat' = [v \in Platforms |-> Less(plat[v], Share(k, v, n, Legs))]
          /\ Pair(n) \in Nat /\ \A v \in Platforms : Share(k, v, n, Legs) \in Nat
      BY <1>3, <3>1, <3>3 DEF release_trade
    <3>6. CASE IsEntered(m)
      <4>1. /\ EnteredAll[m] = Pair(n) /\ EnteredAll'[m] = 0
            /\ \A i \in Canonicals : /\ EnteredOf(i)[m] = IF i = k THEN Pair(n) ELSE 0
                                     /\ EnteredOf(i)'[m] = 0
            /\ \A v \in Platforms : /\ EnteredOn(v)[m] = Share(k, v, n, Legs)
                                    /\ EnteredOn(v)'[m] = 0
        BY <2>22, <3>4, <3>6 DEF EnteredAll, EnteredOf, EnteredOn, IsEntered, n, k
      <4>2. \A i \in Canonicals :
              /\ SumOf(EnteredOf(i), ManualIds)'
                   = SumOf(EnteredOf(i), ManualIds) - (IF i = k THEN Pair(n) ELSE 0)
              /\ SumOf(EnteredOf(i), ManualIds)' \in Nat
              /\ SumOf(EnteredOf(i), ManualIds) = entered[i]
        <5>1. ASSUME NEW i \in Canonicals
              PROVE  SumOf(EnteredOf(i), ManualIds) \in Nat /\ SumOf(EnteredOf(i), ManualIds)' \in Nat
          BY <2>1, SumFacts DEF Sums
        <5>2. \A i \in Canonicals : SumOf(EnteredOf(i), ManualIds)'
                = SumOf(EnteredOf(i), ManualIds) - EnteredOf(i)[m] + EnteredOf(i)'[m]
          BY <2>b, <3>4
        <5>3. \A i \in Canonicals : SumOf(EnteredOf(i), ManualIds) = entered[i]
          BY DEF SInv, EnteredIs
        <5>. QED BY <3>5, <4>1, <5>1, <5>2, <5>3
      <4>3. ASSUME NEW i \in Canonicals
            PROVE  /\ entered'[i] = entered[i] - (IF i = k THEN Pair(n) ELSE 0)
                   /\ entered'[i] = SumOf(EnteredOf(i), ManualIds)'
                   /\ Free'[i] <= Free[i]
        <5>1. /\ open[i] \in Nat /\ entered[i] \in Nat
              /\ open'[i] = IF i = k THEN Less(open[i], Pair(n)) ELSE open[i]
              /\ entered'[i] = IF i = k THEN Less(entered[i], Pair(n)) ELSE entered[i]
          BY <2>2, <3>1, <3>5, <3>6
        <5>2. entered[i] - (IF i = k THEN Pair(n) ELSE 0) \in Nat
          BY <4>2
        <5>3. entered'[i] = entered[i] - (IF i = k THEN Pair(n) ELSE 0)
          BY <3>5, <5>1, <5>2 DEF Less
        <5>4. Free[i] = Less(open[i], entered[i]) /\ Free'[i] = Less(open'[i], entered'[i])
          BY DEF Free
        <5>5. Less(open'[i], entered'[i]) <= Less(open[i], entered[i])
          BY <3>5, <5>1, <5>2, <5>3 DEF Less
        <5>. QED BY <4>2, <5>3, <5>4, <5>5
      <4>4. EnteredIs'
        <5>1. SumOf(entered, Canonicals)' = SumOf(entered, Canonicals) - Pair(n)
          <6>1. /\ entered \in [Canonicals -> Int] /\ entered' \in [Canonicals -> Int]
                /\ \A i \in Canonicals \ {k} : entered'[i] = entered[i]
                /\ entered'[k] = entered[k] - Pair(n) /\ entered[k] \in Int
            BY <2>2, <3>3, <3>5, <4>3
          <6>2. SumOf(entered', Canonicals) = SumOf(entered, Canonicals) - entered[k] + entered'[k]
            BY <3>3, <6>1, SumFacts
          <6>. QED BY <2>1, <3>5, <6>1, <6>2 DEF Sums
        <5>2. SumOf(EnteredAll, ManualIds)' = SumOf(EnteredAll, ManualIds) - Pair(n)
          <6>1. SumOf(EnteredAll, ManualIds)'
                  = SumOf(EnteredAll, ManualIds) - EnteredAll[m] + EnteredAll'[m]
            BY <2>b, <3>4
          <6>. QED BY <2>1, <3>5, <4>1, <6>1 DEF Sums
        <5>. QED BY <4>3, <5>1, <5>2 DEF SInv, EnteredIs
      <4>5. FreeTotal' <= FreeTotal
        <5>1. Free \in [Canonicals -> Int] /\ Free' \in [Canonicals -> Int]
          BY <2>1 DEF Sums
        <5>. QED BY <4>3, <5>1, SumFacts DEF FreeTotal
      <4>6. ASSUME NEW v \in Platforms PROVE FreeOn(v)' <= FreeOn(v)
        <5>1. SumOf(EnteredOn(v), ManualIds)'
                = SumOf(EnteredOn(v), ManualIds) - Share(k, v, n, Legs)
          <6>1. SumOf(EnteredOn(v), ManualIds)'
                  = SumOf(EnteredOn(v), ManualIds) - EnteredOn(v)[m] + EnteredOn(v)'[m]
            BY <2>b, <3>4
          <6>2. SumOf(EnteredOn(v), ManualIds) \in Nat /\ Share(k, v, n, Legs) \in Nat
            BY <2>1, <3>5 DEF Sums
          <6>. QED BY <4>1, <6>1, <6>2
        <5>2. plat'[v] = Less(plat[v], Share(k, v, n, Legs)) /\ plat[v] \in Nat
          BY <2>2, <3>5
        <5>3. SumOf(EnteredOn(v), ManualIds)' \in Nat /\ SumOf(EnteredOn(v), ManualIds) \in Nat
          BY <2>1 DEF Sums
        <5>. QED BY <3>5, <5>1, <5>2, <5>3 DEF FreeOn, Less
      <4>. QED BY <2>a, <3>1, <4>4, <4>5, <4>6
    <3>7. CASE ~IsEntered(m)
      <4>1. entered' = entered
            /\ \A i \in ManualIds : /\ IsEntered(i)' <=> IsEntered(i)
                                    /\ IsEntered(i) => manual'[i] = manual[i]
        BY <2>22, <3>1, <3>4, <3>7 DEF IsEntered
      <4>2. EnteredIs' /\ \A v \in Platforms :
                    SumOf(EnteredOn(v), ManualIds)' = SumOf(EnteredOn(v), ManualIds)
        BY <2>5, <4>1
      <4>3. \A a, b \in Nat : Less(a, b) \in Nat /\ Less(a, b) <= a
        BY DEF Less
      <4>4. FreeTotal' <= FreeTotal
        <5>1. \A i \in Canonicals : open'[i] <= open[i] + (IF i = k THEN 0 ELSE 0)
          <6>1. \A i \in Canonicals : open[i] \in Nat
                  /\ open'[i] = IF i = k THEN Less(open[i], Pair(n)) ELSE open[i]
            BY <2>2, <3>5
          <6>. QED BY <3>5, <6>1 DEF Less
        <5>2. FreeTotal' <= FreeTotal + 0
          BY <2>6, <4>1, <5>1
        <5>. QED BY <2>1, <5>2 DEF Sums
      <4>5. ASSUME NEW v \in Platforms PROVE FreeOn(v)' <= FreeOn(v)
        <5>1. plat'[v] <= plat[v] /\ plat'[v] \in Nat /\ plat[v] \in Nat
          BY <2>2, <3>5, <4>3
        <5>. QED BY <2>1, <4>2, <5>1 DEF Sums, FreeOn, Less
      <4>. QED BY <2>a, <3>1, <4>2, <4>4, <4>5
    <3>. QED BY <3>6, <3>7
  <2>23. CASE Trip \/ Reset \/ UNCHANGED vars
    BY <2>5, <2>23 DEF Trip, Reset, vars, exposures, IsEntered, SInv, CostsFit, CostFits, TotalFits,
       PlatformFits, FreeTotal, Free, FreeOn, Owed, Owes, OwedOn, OwesOn
  <2>. QED
    BY <2>12, <2>13, <2>14, <2>15, <2>16, <2>17, <2>18, <2>19, <2>20, <2>21, <2>22, <2>23
       DEF Next, Execute, MarkClosed, Cancel
<1>. QED
  BY <1>6, <1>7, <1>8, CallersAreCapped, PTL DEF Spec

=============================================================================
