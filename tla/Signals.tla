------------------------------ MODULE Signals ------------------------------
(***************************************************************************)
(* How a quote becomes an opportunity: the collectors of Kalshi and of     *)
(* Polymarket US, the PriceStore they write, and the ArbitrageScanner that *)
(* reads it, for one market traded at both venues.  The Polymarket US      *)
(* collector and the order adapter send through one PolymarketUSClient and *)
(* so through one circuit breaker, but to two hosts: quotes come from the  *)
(* gateway, orders go to the api.  Either can answer badly by itself.      *)
(*                                                                         *)
(* A book is the price of YES at a venue in steps of the edge floor:       *)
(* buying YES at y and NO at n earns what n's level is above y's.  Dead is *)
(* a quote without an ask (a Polymarket book without offers has one as     *)
(* long as it has a current or last price, and then is at that level),     *)
(* NoBook an answer that gives no price.  A quote has the age the program  *)
(* sees (now - timestamp) and the delay between the venue's answer and the *)
(* timestamp, which it does not see.                                       *)
(*                                                                         *)
(* Neither the store's lock nor the scanner's body is ever suspended while *)
(* it is held (no await inside), so a put and a scan are one step each.    *)
(***************************************************************************)
EXTENDS Integers

CONSTANTS
    Books,              \* [platform -> levels its book may show]
    Persistence,        \* ScannerConfig.persistence_scans
    MaxAge,             \* ScannerConfig.max_quote_age_seconds, in ticks
    PhantomEdge,        \* ScannerConfig.phantom_edge_threshold_cents, in levels
    PhantomAge,         \* ScannerConfig.phantom_edge_max_age_seconds, in ticks
    TTL,                \* PriceStore ttl, in ticks
    Republish,          \* the 30 s of _should_publish, in ticks
    FailureThreshold, HalfOpenMax, RecoveryTimeout,   \* CircuitBreaker
    Cycle,              \* bound: the longest bulk fetch of Kalshi, in ticks
    Timeout             \* bound: the longest request to Polymarket, in ticks

ASSUME SignalsAssumption ==
    /\ Persistence \in Nat \ {0} /\ FailureThreshold \in Nat \ {0}
    /\ HalfOpenMax \in Nat \ {0} /\ RecoveryTimeout \in Nat \ {0}
    /\ Republish \in Nat \ {0} /\ TTL \in Nat \ {0} /\ Cycle \in Nat \ {0}
    /\ MaxAge \in Nat /\ PhantomAge \in Nat /\ PhantomEdge \in Nat /\ Timeout \in Nat

VARIABLES
    kalshi,       \* the running fetch_markets of KalshiCollector
    poly,         \* the request of PolymarketUSCollector.fetch_markets
    order,        \* whether an order call of the same client is in flight
    breaker,      \* PolymarketUSClient.circuit
    disabled,     \* the slug is in PolymarketUSCollector._inactive_slugs
    store,        \* PriceStore._mem of the market
    stable,       \* ArbitrageScanner._stable_keys (capped at Persistence)
    sincePublish, \* the age of _recent_publish_time, -1 for no entry
    outage,       \* the hosts of Polymarket that answer badly, or too late
    gap           \* history: the scans since the last publish (capped)

collectors == <<kalshi, poly, disabled>>
scanner == <<stable, sincePublish, gap>>
vars == <<collectors, order, breaker, store, scanner, outage>>

Platforms == {"kalshi", "polymarket"}
Hosts == {"gateway", "api"}                             \* of Polymarket US
Keys == {k \in Platforms \X Platforms : k[1] # k[2]}     \* <<YES at, NO at>>
Dead == -1
NoBook == -2
NoQuote == [book |-> NoBook, age |-> 0, delay |-> 0]
Smaller(a, b) == IF a < b THEN a ELSE b
Quote(book, delay) == [book |-> book, age |-> 0, delay |-> delay]

Init ==
    /\ kalshi = [at |-> "idle", book |-> NoBook, delay |-> 0]
    /\ poly = [at |-> "idle", delay |-> 0]
    /\ breaker = [state |-> "closed", failures |-> 0, successes |-> 0, since |-> 0]
    /\ order = FALSE /\ disabled = FALSE /\ outage = {}
    /\ store = [p \in Platforms |-> NoQuote]
    /\ stable = [k \in Keys |-> 0]
    /\ sincePublish = [k \in Keys |-> -1]
    /\ gap = [k \in Keys |-> Persistence]

-----------------------------------------------------------------------------
(* The circuit breaker.  failures is capped at the threshold it is compared *)
(* with: it is only ever lowered in "closed", where it is below it.         *)

\* Mutant: an open breaker never moves to half-open.
StateNoHalfOpen == breaker.state

\* The `state` property, which can_execute reads and which moves the breaker.
State ==
    IF breaker.state = "open" /\ breaker.since >= RecoveryTimeout
    THEN "half_open" ELSE breaker.state

\* can_execute: the call goes ahead, and the breaker is as `state` left it.
CanExecute ==
    /\ State # "open"
    /\ breaker' = IF State = breaker.state THEN breaker
                  ELSE [breaker EXCEPT !.state = State, !.successes = 0, !.since = 0]

\* Mutant: closing forgets to reset the count of failures.
SucceededNoReset(b) ==
    CASE b.state = "half_open" /\ b.successes + 1 >= HalfOpenMax ->
             [b EXCEPT !.state = "closed", !.successes = 0]
      [] b.state = "half_open" /\ b.successes + 1 < HalfOpenMax ->
             [b EXCEPT !.successes = @ + 1]
      [] b.state = "closed" /\ b.failures > 0 -> [b EXCEPT !.failures = @ - 1]
      [] OTHER -> b

\* record_success.
Succeeded(b) ==
    CASE b.state = "half_open" /\ b.successes + 1 >= HalfOpenMax ->
             [b EXCEPT !.state = "closed", !.failures = 0, !.successes = 0]
      [] b.state = "half_open" /\ b.successes + 1 < HalfOpenMax ->
             [b EXCEPT !.successes = @ + 1]
      [] b.state = "closed" /\ b.failures > 0 -> [b EXCEPT !.failures = @ - 1]
      [] OTHER -> b

\* record_failure.
Failed(b) ==
    LET failures == Smaller(b.failures + 1, FailureThreshold) IN
    [state |-> IF b.state = "half_open" \/ failures = FailureThreshold
               THEN "open" ELSE b.state,
     failures |-> failures, successes |-> 0, since |-> 0]

\* A request fails before its status is read, or while its body is, when its
\* success is already recorded.
FailedAnywhere == {Failed(breaker), Failed(Succeeded(breaker))}

-----------------------------------------------------------------------------
(* The collectors.                                                          *)

Put(p, book, delay) ==
    store' = IF book = NoBook THEN store ELSE [store EXCEPT ![p] = Quote(book, delay)]

\* The bulk request of the market's batch is answered.  An error, a 429 or a
\* ticker the answer misses leaves it unresolved.
KalshiBatch ==
    /\ kalshi.at = "idle"
    /\ \E book \in Books["kalshi"] \cup {NoBook} :
           kalshi' = [at |-> IF book = NoBook THEN "unresolved" ELSE "read",
                      book |-> book, delay |-> 0]
    /\ UNCHANGED <<poly, disabled, order, breaker, store, scanner, outage>>

\* After all batches the unresolved tickers are asked for one by one.
KalshiSingle ==
    /\ kalshi.at = "unresolved"
    /\ \E book \in Books["kalshi"] \cup {NoBook} :
           kalshi' = [at |-> "read", book |-> book, delay |-> 0]
    /\ UNCHANGED <<poly, disabled, order, breaker, store, scanner, outage>>

\* The fetch ends: every market it holds is stamped now and put.
KalshiPut ==
    /\ kalshi.at = "read"
    /\ Put("kalshi", kalshi.book, kalshi.delay)
    /\ kalshi' = [at |-> "idle", book |-> NoBook, delay |-> 0]
    /\ UNCHANGED <<poly, disabled, order, breaker, scanner, outage>>

\* fetch_markets asks for the book: can_execute, then the rate limiter's wait.
PolyAsks ==
    /\ poly.at = "idle" /\ ~disabled
    /\ CanExecute
    /\ poly' = [at |-> "limiter", delay |-> 0]
    /\ UNCHANGED <<kalshi, disabled, order, store, scanner, outage>>

\* A token is there: the request is sent, whatever the breaker is by now.
PolySends ==
    /\ poly.at = "limiter"
    /\ poly' = [at |-> "sent", delay |-> 0]
    /\ UNCHANGED <<kalshi, disabled, order, breaker, store, scanner, outage>>

PolyReturns == poly.at = "sent" /\ poly' = [at |-> "idle", delay |-> 0]

\* The book arrives; one that is closed or empty makes no quote.
PolyBook ==
    /\ PolyReturns
    /\ breaker' = Succeeded(breaker)
    /\ \E book \in Books["polymarket"] \cup (IF "gateway" \in outage THEN {NoBook} ELSE {}) :
           Put("polymarket", book, poly.delay)
    /\ UNCHANGED <<kalshi, disabled, order, scanner, outage>>

\* A 5xx, a timeout, a broken connection or an unreadable body.
PolyFails ==
    /\ "gateway" \in outage /\ PolyReturns
    /\ breaker' \in FailedAnywhere
    /\ UNCHANGED <<kalshi, disabled, order, store, scanner, outage>>

\* A 429, also the third in a row, or a 4xx: the breaker is not told.
PolyRefused ==
    /\ "gateway" \in outage /\ PolyReturns
    /\ UNCHANGED <<kalshi, disabled, order, breaker, store, scanner, outage>>

\* A 404 or a 410: the slug is not asked for again while the process lives.
PolyGone ==
    /\ "gateway" \in outage /\ PolyReturns
    /\ disabled' = TRUE
    /\ UNCHANGED <<kalshi, order, breaker, store, scanner, outage>>

\* An order, a cancel or a status call of the adapter on the same client.
OrderCall ==
    /\ ~order /\ CanExecute
    /\ order' = TRUE
    /\ UNCHANGED <<collectors, store, scanner, outage>>

\* An order may fail while the quotes are well, as when the venue blocks it as
\* long as the client waits.
OrderReturns ==
    /\ order /\ order' = FALSE
    /\ \/ breaker' = Succeeded(breaker)
       \/ "api" \in outage /\ breaker' \in FailedAnywhere \cup {breaker}
    /\ UNCHANGED <<collectors, store, scanner, outage>>

-----------------------------------------------------------------------------
(* The scanner.                                                             *)

Edge(k) == store[k[2]].book - store[k[1]].book
Live(p) == store[p].book >= 0

\* The keys _build_cross_platform_opportunity returns something for.  fits
\* stands for what is not in the two levels: a confirmed row, a spread that is
\* narrow enough, and a size the balances allow.
Built(fits) ==
    {k \in Keys : fits /\ (\A p \in Platforms : Live(p)) /\ Edge(k) > 0}

\* Mutant: the age of the pair is that of its younger leg.
OlderYoung(k) == Smaller(store[k[1]].age, store[k[2]].age)
Older(k) == IF store[k[1]].age > store[k[2]].age THEN store[k[1]].age ELSE store[k[2]].age

\* _resolve_status = "tradable" for a key seen in count scans; held stands for
\* the gates on the row and on size (auto-trade, liquidity, confidence).
Tradable(k, count, held) ==
    /\ ~held
    /\ Older(k) <= MaxAge
    /\ count >= Persistence
    /\ Edge(k) >= PhantomEdge => Older(k) <= PhantomAge

\* _should_publish.
ShouldPublish(k) == sincePublish[k] = -1 \/ sincePublish[k] >= Republish

\* Mutant: the count of a key that is no longer there is kept.
CountedForEver(seen) ==
    [k \in Keys |-> Smaller(stable[k] + (IF k \in seen THEN 1 ELSE 0), Persistence)]
Counted(seen) ==
    [k \in Keys |-> IF k \in seen THEN Smaller(stable[k] + 1, Persistence) ELSE 0]

\* scan_once.
Scan ==
    \E fits, held \in BOOLEAN :
        LET seen == Built(fits)
            count == Counted(seen)
            out == {k \in seen : Tradable(k, count[k], held) /\ ShouldPublish(k)} IN
        /\ stable' = count
        /\ sincePublish' = [k \in Keys |-> IF k \in out THEN 0
                                           ELSE IF k \in seen THEN sincePublish[k] ELSE -1]
        /\ gap' = [k \in Keys |-> IF k \in out THEN 0
                                  ELSE Smaller(gap[k] + 1, Persistence)]
        /\ UNCHANGED <<collectors, order, breaker, store, outage>>

-----------------------------------------------------------------------------
\* A host of Polymarket stops answering well, or answers well again.
Turn ==
    /\ \E h \in Hosts : outage' = IF h \in outage THEN outage \ {h} ELSE outage \cup {h}
    /\ UNCHANGED <<collectors, order, breaker, store, scanner>>

\* Get drops a quote of the age of the TTL: it is as if it were not there.
Aged(q) == IF q = NoQuote \/ q.age + 1 >= TTL THEN NoQuote ELSE [q EXCEPT !.age = @ + 1]

Tick ==
    /\ kalshi.delay < Cycle /\ (poly.at = "sent" => poly.delay < Timeout)
    /\ kalshi' = IF kalshi.book = NoBook THEN kalshi ELSE [kalshi EXCEPT !.delay = @ + 1]
    /\ poly' = IF poly.at = "sent" THEN [poly EXCEPT !.delay = @ + 1] ELSE poly
    /\ breaker' = IF breaker.state # "open" THEN breaker
                  ELSE [breaker EXCEPT !.since = Smaller(@ + 1, RecoveryTimeout)]
    /\ store' = [p \in Platforms |-> Aged(store[p])]
    /\ sincePublish' = [k \in Keys |-> IF sincePublish[k] = -1 THEN -1
                                       ELSE Smaller(sincePublish[k] + 1, Republish)]
    /\ UNCHANGED <<order, disabled, stable, gap, outage>>

PolyAnswered == PolyBook \/ PolyFails \/ PolyRefused \/ PolyGone

Next ==
    \/ KalshiBatch \/ KalshiSingle \/ KalshiPut
    \/ PolyAsks \/ PolySends \/ PolyAnswered
    \/ OrderCall \/ OrderReturns
    \/ Scan \/ Turn \/ Tick

Spec == Init /\ [][Next]_vars

(***************************************************************************)
(* The collectors' loops are tasks that are never starved, requests have   *)
(* timeouts, and time passes.                                              *)
(***************************************************************************)
FairSpec ==
    /\ Spec
    /\ WF_vars(KalshiSingle) /\ WF_vars(KalshiPut)
    /\ WF_vars(PolyAsks) /\ WF_vars(PolySends) /\ WF_vars(PolyAnswered)
    /\ WF_vars(OrderReturns)
    /\ SF_vars(Tick)

-----------------------------------------------------------------------------
(* Properties.                                                              *)

Shown == {NoBook} \cup UNION {Books[p] : p \in Platforms}

(***************************************************************************)
(* The types, and what ties the breaker's fields and the quotes' together: *)
(* a closed breaker is below its threshold and an open one at it (so the   *)
(* cap on failures hides nothing), a stored quote is younger than the TTL, *)
(* and only a fetch that holds a price has a delay.                        *)
(***************************************************************************)
TypeOK ==
    /\ kalshi \in [at : {"idle", "unresolved", "read"}, book : Shown, delay : 0..Cycle]
    /\ kalshi.book = NoBook => kalshi.delay = 0
    /\ poly \in [at : {"idle", "limiter", "sent"}, delay : 0..Timeout]
    /\ breaker \in [state : {"closed", "open", "half_open"},
                    failures : 0..FailureThreshold,
                    successes : 0..HalfOpenMax - 1, since : 0..RecoveryTimeout]
    /\ breaker.state = "closed" <=> breaker.failures < FailureThreshold
    /\ store \in [Platforms -> [book : Shown, age : 0..TTL - 1,
                               delay : 0..(IF Cycle > Timeout THEN Cycle ELSE Timeout)]]
    /\ stable \in [Keys -> 0..Persistence]
    /\ sincePublish \in [Keys -> -1..Republish]
    /\ {order, disabled} \subseteq BOOLEAN /\ outage \subseteq Hosts

\* The step puts k into the subscribers' queues.
Publishes(k) == sincePublish[k] # 0 /\ sincePublish'[k] = 0

\* The age of what the venue said, not of the stamp.
DataAge(p) == store[p].age + store[p].delay
Delay(p) == IF p = "kalshi" THEN Cycle ELSE Timeout

(***************************************************************************)
(* How old the prices of a published opportunity may be: the limit the     *)
(* scanner applies to each leg, the tighter one for an edge too large to   *)
(* be believed, and the time the collector held the answer before it       *)
(* stamped it (scanner/arbitrage.py:659 and 732 on the timestamps of       *)
(* collectors/kalshi.py:503 and polymarket_us.py:484).                     *)
(***************************************************************************)
DataIsRecent ==
    [][\A k \in Keys : Publishes(k) => \A p \in Platforms :
           DataAge(p) <= Delay(p) + IF Edge(k) >= PhantomEdge THEN PhantomAge ELSE MaxAge]_vars

(***************************************************************************)
(* A pair that flickers cannot flood the executor: between two publishes   *)
(* of a key there are the 30 s of _should_publish, or as many scans as an  *)
(* opportunity must survive, although the entry of _recent_publish_time is *)
(* dropped as soon as the key is not seen.                                 *)
(***************************************************************************)
Respaced ==
    [][\A k \in Keys : Publishes(k) =>
           sincePublish[k] >= Republish \/ gap[k] >= Persistence]_vars

(***************************************************************************)
(* Once both hosts answer well for good the quotes of Polymarket come      *)
(* back, whatever the outages left the breaker in and although orders go   *)
(* on through the same client, unless a 404 has disabled the slug for      *)
(* good.  That the gateway is well is not enough: orders that fail again   *)
(* and again open the breaker the quotes wait for (retry.py:62).           *)
(***************************************************************************)
FeedRecovers ==
    <>[](outage = {}) =>
        []<>(disabled \/ (store["polymarket"].book # NoBook /\ store["polymarket"].age = 0))

=============================================================================
