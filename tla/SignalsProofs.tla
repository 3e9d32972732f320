--------------------------- MODULE SignalsProofs ---------------------------
(***************************************************************************)
(* Theorems about Signals, for all books, delays, thresholds and counts.   *)
(***************************************************************************)
EXTENDS Signals, TLAPS

BreakerStates ==
    {b \in [state : {"closed", "open", "half_open"}, failures : 0..FailureThreshold,
            successes : 0..HalfOpenMax - 1, since : 0..RecoveryTimeout] :
         b.state = "closed" <=> b.failures < FailureThreshold}

\* A stored price was held by its collector for no longer than a request or a
\* cycle of that venue lasts.
DelaysAreBounded == \A p \in Platforms : store[p].delay <= Delay(p)

\* A key whose last publish is forgotten has been scanned once more than it has
\* been seen since.
GapCounts ==
    /\ gap \in [Keys -> 0..Persistence]
    /\ \A k \in Keys : sincePublish[k] = -1 => gap[k] >= Smaller(stable[k] + 1, Persistence)

IInv == TypeOK /\ DelaysAreBounded /\ GapCounts

USE SignalsAssumption

-----------------------------------------------------------------------------
(***************************************************************************)
(* The inductive invariant holds in every reachable state, and with it the *)
(* type invariant.                                                         *)
(***************************************************************************)
THEOREM InvariantHolds == Spec => [](TypeOK /\ IInv)
<1>1. Init => IInv
  <2> SUFFICES ASSUME Init PROVE IInv
    OBVIOUS
  <2>1. NoBook \in Shown
    BY Zenon DEF Shown
  <2>2. breaker \in BreakerStates /\ breaker.state = "closed" /\ breaker.failures < FailureThreshold
    BY DEF Init, BreakerStates
  <2>3. store \in [Platforms -> [book : Shown, age : 0..TTL - 1,
                        delay : 0..(IF Cycle > Timeout THEN Cycle ELSE Timeout)]]
    BY <2>1 DEF Init, NoQuote
  <2>4. DelaysAreBounded /\ GapCounts
    <3>1. GapCounts
      BY DEF Init, GapCounts, Smaller
    <3>2. DelaysAreBounded
      BY DEF Init, DelaysAreBounded, Delay, NoQuote
    <3>3. QED BY <3>1, <3>2
  <2>5. /\ kalshi \in [at : {"idle", "unresolved", "read"}, book : Shown, delay : 0..Cycle]
        /\ poly \in [at : {"idle", "limiter", "sent"}, delay : 0..Timeout]
    BY <2>1 DEF Init
  <2>6. /\ stable \in [Keys -> 0..Persistence] /\ sincePublish \in [Keys -> -1..Republish]
        /\ kalshi.delay = 0
    BY DEF Init
  <2>7. {order, disabled} \subseteq BOOLEAN /\ outage \subseteq Hosts
    BY DEF Init
  <2>8. QED BY <2>2, <2>3, <2>4, <2>5, <2>6, <2>7 DEF IInv, TypeOK, BreakerStates
<1>2. IInv /\ [Next]_vars => IInv'
  <2> SUFFICES ASSUME IInv, [Next]_vars PROVE IInv'
    OBVIOUS
  <2> USE DEF IInv
  <2>b. breaker \in BreakerStates
    BY DEF TypeOK, BreakerStates
  \* The breaker stays what it should be, whichever answer it is told of and also
  \* when a success is followed by a failure of the same request.
  <2>s. /\ CanExecute => breaker' \in BreakerStates
        /\ Succeeded(breaker) \in BreakerStates
        /\ FailedAnywhere \subseteq BreakerStates
    <3>1. ASSUME NEW b \in BreakerStates PROVE Succeeded(b) \in BreakerStates
      <4>1. CASE b.state = "half_open" /\ b.successes + 1 >= HalfOpenMax
        <5>1. Succeeded(b) = [state |-> "closed", failures |-> 0, successes |-> 0, since |-> b.since]
          <6>1. Succeeded(b) = [b EXCEPT !.state = "closed", !.failures = 0, !.successes = 0]
            BY <4>1, <3>1 DEF Succeeded, BreakerStates
          <6>2. QED BY <6>1, <3>1 DEF BreakerStates
        <5>2. QED BY <5>1, <3>1 DEF BreakerStates
      <4>2. CASE b.state = "half_open" /\ b.successes + 1 < HalfOpenMax
        BY <4>2, <3>1 DEF Succeeded, BreakerStates
      <4>3. CASE b.state = "closed" /\ b.failures > 0
        BY <4>3, <3>1 DEF Succeeded, BreakerStates
      <4>4. CASE b.state = "open" \/ (b.state = "closed" /\ b.failures = 0)
        BY <4>4, <3>1 DEF Succeeded, BreakerStates
      <4>5. QED BY <4>1, <4>2, <4>3, <4>4, <3>1 DEF BreakerStates
    <3>2. ASSUME NEW b \in BreakerStates PROVE Failed(b) \in BreakerStates
      BY <3>2 DEF Failed, Smaller, BreakerStates
    <3>3. CanExecute => breaker' \in BreakerStates
      <4>1. CASE State = breaker.state
        BY <2>b, <4>1 DEF CanExecute
      <4>2. CASE State # breaker.state
        <5>1. State = "half_open" /\ breaker.state = "open"
          BY <2>b, <4>2 DEF State, BreakerStates
        <5>2. CanExecute => breaker' = [state |-> "half_open", failures |-> breaker.failures,
                                        successes |-> 0, since |-> 0]
          BY <2>b, <4>2, <5>1 DEF CanExecute, BreakerStates
        <5>3. QED BY <2>b, <5>1, <5>2 DEF BreakerStates
      <4>3. QED BY <4>1, <4>2
    <3>4. QED BY <2>b, <3>1, <3>2, <3>3 DEF FailedAnywhere
  <2>k. NoBook \in Shown /\ \A p \in Platforms : Books[p] \subseteq Shown
    <3>1. \A p \in Platforms : Books[p] \in {Books[q] : q \in Platforms}
      OBVIOUS
    <3>2. QED BY <3>1, Zenon DEF Shown
  <2>q. \A book \in Shown, delay \in Nat : Quote(book, delay) = [book |-> book, age |-> 0, delay |-> delay]
    BY DEF Quote
  <2>p. ASSUME NEW p \in Platforms, NEW book \in Shown, NEW delay \in 0..Delay(p), Put(p, book, delay)
        PROVE  /\ store' \in [Platforms -> [book : Shown, age : 0..TTL - 1,
                                delay : 0..(IF Cycle > Timeout THEN Cycle ELSE Timeout)]]
               /\ \A r \in Platforms : store'[r].delay <= Delay(r)
    BY <2>p DEF Put, Quote, Delay, TypeOK, DelaysAreBounded, Platforms
  <2>1. CASE KalshiBatch
    BY <2>1, <2>k DEF KalshiBatch, TypeOK, DelaysAreBounded, GapCounts, scanner, Platforms, NoBook
  <2>2. CASE KalshiSingle
    BY <2>2, <2>k DEF KalshiSingle, TypeOK, DelaysAreBounded, GapCounts, scanner, Platforms, NoBook
  <2>3. CASE KalshiPut
    BY <2>3, <2>k, <2>p DEF KalshiPut, TypeOK, DelaysAreBounded, GapCounts, scanner, Platforms, Delay
  <2>4. CASE PolyAsks
    BY <2>4, <2>b, <2>s
    DEF PolyAsks, BreakerStates, TypeOK, DelaysAreBounded, GapCounts, scanner
  <2>5. CASE PolySends
    BY <2>5 DEF PolySends, TypeOK, DelaysAreBounded, GapCounts, scanner
  <2>6. CASE PolyAnswered
    <3>1. CASE PolyBook
      BY <3>1, <2>b, <2>k, <2>p, <2>s
      DEF PolyBook, PolyReturns, BreakerStates, TypeOK, DelaysAreBounded, GapCounts, scanner,
          Platforms, Delay
    <3>2. CASE PolyFails
      BY <3>2, <2>b, <2>s
      DEF PolyFails, PolyReturns, BreakerStates, TypeOK, DelaysAreBounded, GapCounts, scanner
    <3>3. CASE PolyRefused
      BY <3>3 DEF PolyRefused, PolyReturns, TypeOK, DelaysAreBounded, GapCounts, scanner
    <3>4. CASE PolyGone
      BY <3>4 DEF PolyGone, PolyReturns, TypeOK, DelaysAreBounded, GapCounts, scanner
    <3>5. QED BY <2>6, <3>1, <3>2, <3>3, <3>4 DEF PolyAnswered
  <2>7. CASE OrderCall
    BY <2>7, <2>b, <2>s
    DEF OrderCall, collectors, BreakerStates, TypeOK, DelaysAreBounded, GapCounts, scanner
  <2>8. CASE OrderReturns
    BY <2>8, <2>b, <2>s
    DEF OrderReturns, collectors, BreakerStates, TypeOK, DelaysAreBounded, GapCounts, scanner
  <2>9. CASE Scan
    <3>1. /\ stable' \in [Keys -> 0..Persistence]
          /\ sincePublish' \in [Keys -> -1..Republish]
          /\ gap' \in [Keys -> 0..Persistence]
      BY <2>9 DEF Scan, Counted, Smaller, TypeOK, GapCounts
    <3>2. \A k \in Keys : sincePublish'[k] = -1 => gap'[k] >= Smaller(stable'[k] + 1, Persistence)
      BY <2>9 DEF Scan, Counted, Smaller, TypeOK, GapCounts
    <3>3. QED
      BY <2>9, <3>1, <3>2 DEF Scan, TypeOK, DelaysAreBounded, GapCounts, collectors
  <2>10. CASE Turn
    BY <2>10 DEF Turn, TypeOK, DelaysAreBounded, GapCounts, collectors, scanner
  <2>11. CASE Tick
    <3>1. store' \in [Platforms -> [book : Shown, age : 0..TTL - 1,
                        delay : 0..(IF Cycle > Timeout THEN Cycle ELSE Timeout)]]
      BY <2>11, <2>k DEF Tick, Aged, NoQuote, TypeOK
    <3>2. \A p \in Platforms : store'[p].delay <= Delay(p)
      BY <2>11 DEF Tick, Aged, NoQuote, DelaysAreBounded, TypeOK, Delay
    <3>3. GapCounts'
      BY <2>11 DEF Tick, GapCounts, Smaller, TypeOK
    <3>4. breaker' \in BreakerStates
      BY <2>11, <2>b DEF Tick, Smaller, BreakerStates
    <3>5. sincePublish' \in [Keys -> -1..Republish]
      BY <2>11 DEF Tick, Smaller, TypeOK
    <3>6. QED
      BY <2>11, <3>1, <3>2, <3>3, <3>4, <3>5
      DEF Tick, TypeOK, BreakerStates, DelaysAreBounded
  <2>12. CASE UNCHANGED vars
    BY <2>12 DEF vars, collectors, scanner, TypeOK, DelaysAreBounded, GapCounts
  <2>13. QED
    BY <2>1, <2>2, <2>3, <2>4, <2>5, <2>6, <2>7, <2>8, <2>9, <2>10, <2>11, <2>12 DEF Next
<1>3. IInv => TypeOK
  BY DEF IInv
<1>4. QED BY <1>1, <1>2, <1>3, PTL DEF Spec

(***************************************************************************)
(* No opportunity is published on prices older than the scanner's limits   *)
(* and the time their collector held them; and between two publishes of a  *)
(* key are the 30 s or the count of scans.  A key is published by a scan   *)
(* only, which finds it tradable and due.                                  *)
(***************************************************************************)
THEOREM PublishesAreSound == Spec => DataIsRecent /\ Respaced
<1>1. ASSUME IInv, [Next]_vars, NEW k \in Keys, Publishes(k)
      PROVE  /\ \E count \in [Keys -> 0..Persistence] :
                   /\ count[k] <= stable[k] + 1
                   /\ Tradable(k, count[k], FALSE)
             /\ ShouldPublish(k)
  <2>1. Scan
    <3>1. Tick => sincePublish'[k] # 0 \/ sincePublish[k] = 0
      BY <1>1 DEF Tick, Smaller, IInv, TypeOK
    <3>2. QED
      BY <1>1, <3>1 DEF Next, vars, Publishes, scanner, KalshiBatch, KalshiSingle, KalshiPut, PolyAsks,
         PolySends, PolyAnswered, PolyBook, PolyFails, PolyRefused, PolyGone, OrderCall,
         OrderReturns, Turn
  <2>2. PICK fits, held \in BOOLEAN :
           sincePublish' = [x \in Keys |->
               IF x \in {y \in Built(fits) : Tradable(y, Counted(Built(fits))[y], held)
                                                /\ ShouldPublish(y)} THEN 0
               ELSE IF x \in Built(fits) THEN sincePublish[x] ELSE -1]
    BY <2>1 DEF Scan
  <2>3. k \in Built(fits) /\ Tradable(k, Counted(Built(fits))[k], held) /\ ShouldPublish(k)
    BY <1>1, <2>2 DEF Publishes
  <2>4. /\ Counted(Built(fits)) \in [Keys -> 0..Persistence]
        /\ Counted(Built(fits))[k] <= stable[k] + 1
    BY <1>1 DEF Counted, Smaller, IInv, TypeOK
  <2>5. QED BY <1>1, <2>3, <2>4 DEF Tradable
<1>2. ASSUME IInv, [Next]_vars, NEW k \in Keys, Publishes(k), NEW p \in Platforms
      PROVE  DataAge(p) <= Delay(p) + IF Edge(k) >= PhantomEdge THEN PhantomAge ELSE MaxAge
  <2>1. Older(k) <= MaxAge /\ (Edge(k) >= PhantomEdge => Older(k) <= PhantomAge)
    BY <1>2, <1>1 DEF Tradable
  <2>2. store[p].age <= Older(k)
    BY <1>2 DEF Older, Keys, Platforms, IInv, TypeOK
  <2>3. /\ store[p].age \in Nat /\ store[p].delay \in Nat /\ Delay(p) \in Nat
        /\ store[p].delay <= Delay(p) /\ Older(k) \in Nat
    BY <1>2 DEF Older, Keys, Platforms, IInv, TypeOK, DelaysAreBounded, Delay
  <2>4. QED BY <2>1, <2>2, <2>3 DEF DataAge
<1>3. IInv /\ [Next]_vars =>
        [\A k \in Keys : Publishes(k) => \A p \in Platforms :
           DataAge(p) <= Delay(p) + IF Edge(k) >= PhantomEdge THEN PhantomAge ELSE MaxAge]_vars
  BY <1>2
<1>4. Spec => DataIsRecent
  BY <1>3, InvariantHolds, PTL DEF Spec, DataIsRecent
<1>5. ASSUME IInv, [Next]_vars, NEW k \in Keys, Publishes(k)
      PROVE  sincePublish[k] >= Republish \/ gap[k] >= Persistence
  <2>1. PICK count \in [Keys -> 0..Persistence] :
           count[k] <= stable[k] + 1 /\ Tradable(k, count[k], FALSE)
    BY <1>5, <1>1
  <2>2. stable[k] + 1 >= Persistence
    BY <2>1, <1>5 DEF Tradable, IInv, TypeOK
  <2>3. ShouldPublish(k)
    BY <1>5, <1>1
  <2>4. QED BY <2>2, <2>3, <1>5 DEF ShouldPublish, IInv, GapCounts, TypeOK, Smaller
<1>6. IInv /\ [Next]_vars =>
        [\A k \in Keys : Publishes(k) => sincePublish[k] >= Republish \/ gap[k] >= Persistence]_vars
  BY <1>5
<1>7. Spec => Respaced
  BY <1>6, InvariantHolds, PTL DEF Spec, Respaced
<1>8. QED BY <1>4, <1>7

=============================================================================
