# ARBITER: a TLA+ development

ARBITER (`src/arbiter/`) is a Python asyncio program that looks for arbitrages between prediction
markets (Kalshi, Polymarket US, Polymarket, ForecastEx), trades both legs with real money and cleans
up when one leg fails. This directory holds TLA+ models of the parts where interleavings, lost
answers and restarts decide whether money is at risk, the TLC runs that check them, and TLAPS proofs.

## 1. Inventory

    collectors -> PriceStore -> ArbitrageScanner -> AutoExecutor / RetryScheduler / operator
                                                        |
                                                        v
         SafetySupervisor <----- ExecutionEngine (RiskManager, gates, requote, live execution)
          (kill switch)   -----> |        |
                |                v        v
              Redis        venue adapters  ExecutionStore (Postgres)
                                 ^
       StrandedPositionReconciler, startup recovery, stuck-trade poller, settlement resolvers

Everything runs in one event loop: a handler is atomic between two awaits and anything may happen in
an await. The venues, Redis and Postgres are outside and fail on their own.

| component | state | operations | hard behaviour | correct when |
|---|---|---|---|---|
| live execution (`execution/engine.py`) | the two `Order`s, the attempt in progress, incidents, `_db_write_failed` | primary, IOC, requotes, FOK, decide, recover, unwind | orders that fill after the engine gave up on them | one hedge per primary; never sell what is paired; a naked leg is paged; ends |
| RiskManager (same file) | exposure per venue and canonical id | `check_trade`, `record_trade`, `release_trade` | checked long before it is booked | covers what is held, limits respected by concurrent executions |
| adapters (`execution/adapters/`) | the venue's orders, circuit breakers | place, get, cancel, list | answers lost, late or wrong | the engine is never told dead of a live order |
| SafetySupervisor (`safety/`) | `SafetyState`, lock, Redis key | `trip_kill`, `reset_kill`, `prepare_shutdown`, `restore_from_redis` | awaits under a lock, crash between arm and write | an arm is mirrored, survives restarts, muted implies armed |
| gates, requote, manual positions (`engine.py`) | recent signatures, manual positions | `execute_opportunity` before the first order | state read before many awaits | no order while armed, or past a limit |
| AutoExecutor | dedup buckets, cooldowns, loss streaks | `_consider_opportunity` | checks that go stale; errors without cooldown; rows written from stale copies | stops after its losses, rests after a naked round trip, obeys a hold but for what it had passed |
| RetryScheduler | queue, rejected cooldowns | `_handle_execution` | sleeps inside its only consumer; retries what may be alive | always comes back to its queue; never runs beside another execution of the market |
| StrandedPositionReconciler, MitigationEngine (`recovery/`) | tracked positions, cooldowns, cumulative caps | 30 s cycle: fetch, merge, net, decide, mitigate, sweep | runs beside executions it cannot see; orders whose answer is lost; look-ups that fail | never touches a leg in flight, stays within its cap but for orders it cannot know of |
| startup recovery, stuck-trade poller, settlement resolvers | the store's non-terminal orders and arbs | reconcile, poll, resolve | an error taken for an answer; a crash between two writes; several writers of one row | no position forgotten, no row says filled of a naked leg |
| market mapping (`mapping/`, `market_map.py`) | rows of `market_mappings`, the cache `MARKET_MAP` | validate, quarantine, release, promote, sync, retire, attach, expire, revalidate, operator actions, refresh | six background tasks and the operator write whole rows from copies read some awaits earlier; upsert is two statements and a cache write | one confirmed owner per venue pair; settled mappings end expired; the cache comes back to the table |
| ExecutionStore, PositionLedger | SQL rows | upserts, position transitions | updates without a status guard | a position settles once |
| collectors, PriceStore, scanner (`collectors/`, `utils/price_store.py`, `scanner/`) | last price per venue and id, counts of scans, times of publishing | `fetch_markets`, `put`, `scan_once` | answers stamped late, quotes that age between collectors and scanner, pairs that flicker, slugs disabled | what is published is recent, and not published again and again |
| `utils/retry.py` | circuit state, tokens | `record_*`, `can_execute`, `acquire` | one breaker for quotes and orders, answers that come after it opened | the feed comes back after an outage |
| RuntimeLock | lock file | `acquire`, `release` | unlink after unlock | one engine per host |
| lifecycle (`main.py`) | tasks | start, shutdown sequence | SIGTERM in any state, 5 s drain | the switch is armed before tasks stop; restored before they start |
| mapping discovery, profitability, readiness, audit, monitors, API, notifiers, auth, settings, analysis | caches and rows | data in, data out | parsing, float arithmetic, text matching | functional, left to tests |

`PROJECT.json` lists every component with its status and every hazard at its line.

## 2. Modules

| module | models |
|---|---|
| `ArbExecution` | one arbitrage in `_live_execution`, from the primary order to the end of the recovery, with the venues' truth beside the engine's belief |
| `MCArbExecution` | the sets of faults for TLC |
| `ArbExecutionProofs` | its theorems |
| `KillSwitch` | `SafetySupervisor`, its Redis mirror, `_db_write_failed`, shutdown, death and restart |
| `KillSwitchProofs` | its theorems |
| `ExposureLimits` | concurrent callers of `execute_opportunity` around one `RiskManager` and the armed switch, with the manual positions |
| `MCExposureLimits` | two canonical ids that share the Kalshi account |
| `ExposureLimitsProofs` | its theorems |
| `PairedTrade` | what one arbitrage promises, without its orders; `ArbExecution` is shown to implement it; its theorem |
| `ArbRecords` | the rows of one execution and everyone who writes them: the engine, the start-up after a crash, the poller of stuck trades, the AutoResolver |
| `Strands` | the reconciler of stranded positions over the rows and venues of `ArbRecords` (which it EXTENDS) |
| `StrandsProofs` | the theorems of both |
| `Automation` | AutoExecutor and RetryScheduler in front of the engine, and the writers of a mapping's `allow_auto_trade` |
| `AutomationProofs` | its theorems |
| `Mappings` | the rows that bind one venue pair, the scanner's cache, and all tasks and requests that write them |
| `MappingsProofs` | its theorem |
| `Signals` | the collectors of Kalshi and Polymarket US, the PriceStore, the scanner, and the circuit breaker that quotes and orders share, for one market at two venues |
| `MCSignals` | the books of the two venues |
| `SignalsProofs` | its theorems |

### ArbExecution

`venue[s]` is what order `s` really is (nothing, in flight, live, ended, refused, with quantity and
fills); `ord`, `last` and `leg` are the `Order` objects the engine holds: `order` while it is driven,
`order` of `_execute_with_fallbacks` after an attempt, and the two legs. Slot 0 is the primary, then
the secondary IOC, the requotes, the FOK, the resting sell and the market sell. `pc` names the await
at which the coroutine is suspended; between two actions of the engine the venues do what they like.

* `Place`, `Reply*`, `Poll*` are `_place_order_for_leg` and `_poll_submitted_to_terminal`: the answer,
  a late FAILED, the timeout with lookup and cancel by client id, the exception, one `get_order`, the
  deadline with its cancel and last read. A failed write of the store sets `dbFailed`, which turns
  every later placement into an ABORTED placeholder (`PlaceBlocked`); `DbFlips` is any other
  execution's failed write, or a reset.
* `PrimaryReturned`, `AttemptReturned`, `Requote`, `RequotesExhausted`, `FokReturned` are the body of
  `_live_execution` and `_execute_with_fallbacks`: when the chain goes on, stops, or takes an order.
* `Decide` is the status decision with its soft-naked incident and the booking.
* `Recover`, `CancelLeg`, `ChooseUnwind`, `Verify`, `RestSell` ... `MarketRaises` are
  `_recover_one_leg_risk` and `_smart_unwind`.

Prices, fees and books are abstracted to the choices they make: the walked book is in reach or not,
the depth halves the quantity or not. Orders are contracts. The markers the engine parses out of
error texts never reach the recovery without the ambiguity flag (a polled error is overwritten before,
`engine.py:2568`), so `amb` stands for both. The kill switch's `cancel_all` is `Expire`, which the
venue may do at any time, and an adapter's refusal while armed is `Refuse` with `Raised`.

Each adapter may mislead the engine in named ways (`FaultKinds`), each of them read off one adapter;
`Faults(s)` says which are possible for the order of slot `s`.

### KillSwitch

`call[t]` says what task `t` has called and at which await it stands (`wait` for the lock, `cancel`
for the venues and the alert, `persist` for Redis, `audit` for Postgres), `held` who has the lock.
`Main` runs the shutdown sequence, whose arm is not persisted and is cut off after 5 s
(`DrainTimesOut`, `main.py:744`). `Dies` at any moment clears what the process held; `Boots` restores
from Redis before any task runs, as `main.py` does. `DbWriteFails` is `_handle_db_failure`: the flag
at once, the trip as a task of its own. `promise` is a history variable: what the last `trip_kill` to
return had done.

### ExposureLimits

`call[t]` says what caller `t` executes and where it is suspended: waiting for the lock of the
canonical id, after `check_trade` (`gate`), after the trade gate (`requote`), before each leg, before
the booking, in the recovery. `open` and `plat` are `_open_positions` and `_platform_exposures`,
`manual` the manual positions, `armed` the switch. `Enter` is `check_trade` together with the refusals that do not
depend on exposure; `PassGate` reads the switch; `Requote` moves the cost by at most `Slip`
(`slippage_tolerance` times the quantity); `Record` and `Recover` book and release what
`ArbExecution` describes order by order, here by leg and in units of cost: which legs survive is any choice, and
the recovery releases any amount up to the price of the orders. `MarkEntered`, `MarkClosed` and
`Cancel` are `update_manual_position`. `entered` and `late` are history variables: the cost of the manual positions now
entered, and the primaries sent since the arm. `Gated` names the platforms whose adapter refuses
while armed. Dry-run executions, whose booking is that of a whole pair, are not told apart.

It abstracts the kill switch to armed or not; how the arm gets there, and survives, is `KillSwitch`.
These modules share their interfaces and no state: `ArbExecution` is one `primary ... record, recover` stretch of
`ExposureLimits`, `KillSwitch` its `Trip` and `Reset`.

### PairedTrade

Contracts are bought, then hedged and never beyond what was bought, then the excess is sold, and a
trade that ends unbalanced has raised the alarm. `ArbExecution` instantiates it as `Trade` with what
the venues really filled (`Bought`, `Hedged`, `Sold`), the stretch of the coroutine (`Phase`) and the
incidents (`paged`); `KeepsTrade` is its specification. The mapping reads the venues and not the
engine's beliefs, so the property says what the account holds.

### ArbRecords and Strands

`ArbRecords` is the same coroutine seen from Postgres. `venue` is what became of the primary and of
two attempts at the secondary, `mem` what the engine believes, `row` and `rec` the rows of
`execution_arbs` and `execution_orders`. `Engine` interleaves every venue call with every write
(`record_arb_stub_with_leg`, `upsert_order`, `record_arb`, `mark_naked_leg_reconciled`); a write may
fail and mute the engine. `Crash` falls between any two of them. `Boot...` are
`reconcile_non_terminal_orders`, `reconcile_half_recorded_arbs` and `load_execution_history`, in that
order, each of which a second crash may cut off from the next; an incident of theirs that cannot be
written is only logged (`recovery.py:329`). `PollerReads` and `PollerWrites` are
`list_stuck_arbs` with the look-up of its legs and the write that follows, whatever the row says by
then. `AutoResolve` closes by evidence and age. `age` stands for the two limits the queries look at
(2 h, 24 h).

`Strands` adds the positions: `Held(l)` is what the account holds in each of the two markets, from
the orders and from what the reconciler itself has traded. One cycle of `run_once` is `Observe` (the
venues' lists, each of which may fail or miss a lot; tracker and accounts), `Judge` (pairing,
decision, incident), then one order or row at a time: a lot is spared (`Spare`), its attempt ends
before anything is sent (`NothingSent`: the cap, or an adapter that raises early), its order is sent and
counted (`Send`), or sent and its answer lost (`SendUnanswered`), and `Sweep`.
`MitigationEngine.decide` may return anything within its ceiling. The active-arb gate looks at
`history`, which gets an execution when its legs are over.

The account of a lot is what the code keeps: `submitted`, which `_note_mitigation_submitted` raises
only after the adapter's await has returned (`stranded_reconciler.py:1791`, 1867, 2015; the `except`
branches 1828, 1889, 2039 count nothing), `maxSeen`, the base of the cap, and `capAbsent`, the count
that drops both at the third absence (463-475). A restart forgets all three. `sent`, `lost` and
`unread` are history variables: what was really sent, how many answers were lost, and how often
`_has_open_strand_incident` did not find an open incident, because `list_incidents` raised or because
it reads 500 (1486-1491). `MaxLost` bounds the last two.

### Automation

`auto` and `retry` say where the two consumers are suspended, each await of `_consider_opportunity`
and `_handle_execution` being a step; `held` is the engine's lock per canonical id; `row` the
`allow_auto_trade` of the database, `review` the copy a reviewer has read and will write back. Time
is counted in retry delays: each timer holds what is left, `Tick` takes one unit off all of them.
What an execution ends with is any result (`Finish`) or an exception (`Raise`). `losses`,
`sinceHold` and `nakedRest` are history variables.

### Mappings

`rows` has a record for each canonical id that claims one exact venue pair: `status`, `allow`, the
quarantine marker and the release streak, both of which live in `review_note`. `task[t]` says which
pass a task is in and at which await: the count of owners, the walk, `update_status`' read, the
INSERT, the expiry of the duplicates, the write of the cache, the three steps of a refresh. The passes
differ in what they decide for an id and in how old the copy is they decide from: `WalkBlind` (expire,
quarantine, settled, revalidate) look at no row, `WalkCopies` and `WalkFast` at the one the pass began
with, `GatePromote` and `GateRelease` read it again. From there on all go through `Holds`/`HoldsNote`,
`UpdateReads`, `Insert`, `Dedup`, `Mirror`, which are `update_status` and `upsert` statement by
statement. The operator's request (`OperatorAsks`, `OperatorHydrates`, `OperatorActs`) reads the row
if the cache has none, puts it there after the await, changes the cached row and writes the whole of it. A failed
count of owners reads as none (`CountOwners`). `DedupFails` is an upsert whose second statement raises; `torn` remembers it
until the next refresh.

What the gates conclude from scores, quotes, dates and reviewers is any subset of the rows read.
Passes with nothing to write are left out, and so the passes of one cycle are started one by one. The
resolution status of an id never changes (`Identical`); `Dated` are the ids whose event date is past.
`structural_fast_promote` reads counts, candidates and reviews in one step (the code reads the reviews
after it has walked the candidates). Seeding and the refresh at boot are one step: no task runs yet.
The order of the ids in a walk is free.

### Signals

`store` is `PriceStore._mem` of one market: a book, its age as the program computes it, and `delay`,
the time between the venue's answer and the timestamp, which no code sees. `kalshi` and `poly` say
where the two `fetch_markets` are suspended. Kalshi's reads the batches (`KalshiBatch`), asks one by
one for what they missed (`KalshiSingle`), and stamps everything when it is through (`KalshiPut`).
Polymarket's goes through `_request`: `PolyAsks` is `can_execute`, `PolySends` the end of the
limiter's wait, after which the breaker is not asked again, and the answer is a book, a failure the
breaker is told of, a refusal it is not (429, 4xx), or a 404 that disables the slug for good. A
request whose body cannot be read has told the breaker of a success and then of a failure
(`FailedAnywhere`). `OrderCall` and `OrderReturns` are the adapter's calls through the same client,
which go to another host: `outage` is the set of hosts that answer badly, the gateway of the quotes
and the api of the orders, and each turns by itself. That a healthy venue may block an order as long as
the client waits (10 s both, `polymarket_us.py:35` and 355) is an api that answers too late.
`breaker` is `CircuitBreaker`; its count of failures is capped at the threshold, above which the code
never tells counts apart. `Scan` is `scan_once` over both directions of the pair, in one step because
nothing in it suspends: the store's lock is never held across an await. Fees, sizes, spreads,
liquidity, confidence and the mapping's row may refuse any scan (`fits`, `held`); a price is a level,
and the difference of the levels is the edge. `gap` is a history variable.

## 3. Runs

| run | question | bounds |
|---|---|---|
| `arb_fallbacks` | Can a secondary that is slow, silent or in doubt fill twice, does the execution end, is every naked fill paged? | quantity 2, one requote |
| `arb_recovery` | With truthful but early answers: is only the excess sold, only against a dead leg, does the booking cover what is held, and is the whole the abstract trade? | quantity 3, two requotes |
| `arb_cancelled_fill` | A primary that ended half filled as CANCELLED: is it paged? **No** | quantity 2, one requote |
| `arb_doubtful_fok` | The FOK times out: does the unwind wait for it? **No** | quantity 2, one requote |
| `kill_switch` | Trips, resets, failed writes, shutdown, crashes in any order: mirror, restart, muting, lock | two callers and the shutdown |
| `exposure_limits` | How far can concurrent executions exceed each limit, and does an arm stop them? | two callers, two ids, three platforms, legs of cost 1 that move by 1, one manual position, limits 3 / 2 / 2 |
| `automation` | Scanner, executor, scheduler, operators and reviewers interleaved at every await: do losses, holds and rests stop a market, do executions exclude each other, do both consumers return? | one canonical id, delays of 1 to 3 units, queues of 1, one retry, two losses, counter up to 2 |
| `strands` | A crash at any point of an execution, then start-up, poller, resolver and reconciler over the same rows, while placements, queries, writes, views, answers and look-ups of incidents fail: what do the rows come to say, what is paged and how often, how much is really traded, which rows end? | 2 contracts, one crash, four sets of faults |
| `strands_flicker` | Does the sweep close only what has left the venues, if they never miss a lot twice in a row? **No** | 1 contract, no crash, no trading by the reconciler |
| `mappings` | Can the pair keep two owners, a settled mapping stay confirmed, the cache stay behind the table? | two ids, five tasks, two writers |
| `signals` | How old are the prices of what is published, how often is it published again, and do the quotes come back after outages of either host behind the one breaker? | one market, two venues, no edge, an edge and a phantom one, two scans, thresholds of 2, delays of one tick |
| `mappings_quarantine` | Is a quarantined mapping confirmed again by an operator only? **No** | two ids, validator and revalidation |

**Bounds.** A quantity of 2 is the smallest with a partial fill; 3 is the smallest at which both legs can be
partial, unequal and non-empty with a rest left to sell, so that the matched part and the excess
differ. One requote gives three attempts (IOC, requote, FOK), which is every pair of rungs; two
requotes let one requote follow another. Polls are not counted: a poll that changes nothing leaves
the state as it is. In the kill switch two callers already meet as trip/trip, trip/reset and
reset/reset, with the shutdown as a third; a fourth caller only waits. Orders are sent once per slot,
so nothing else grows. In `exposure_limits` two callers are the smallest number that passes one limit
together, and two ids that share a platform the smallest on which the limits by platform and in total are
read by executions that do not exclude each other; the limits leave room for one pair, or two lone
legs and a pair, and the mutants show that each is reached. 
In `automation` one canonical id is enough, for every property speaks of one and nothing but the
queues is shared; the delays are the smallest that keep the order of the code's (30 s, 60 s, naked
cooldown longest), two losses with a count of two reach the threshold and the cap of the backoff. In
`strands` two contracts allow a partial unwind; the crash may fall anywhere, the boot after it is
whole. A behaviour has one of four sets of faults, each of which may
also stay away: a crash and open incidents that are not found; a crash, a silent placement, a failing
query, failing writes of rows and of incidents and unreadable positions; lost answers; lots that an
answer misses (the theorems are for any set). `Mult` is 1, the code's floor (its default is 2.0), at
which the cap bites soonest; the two lots have different prices, so one is traded whole and of the
other only what a partial unwind leaves (`MaxAutoP` = 2, `MaxAutoS` = 1); one lost answer, one
unfound incident (`MaxLost`) and one missed view in a row (`MaxFlickers`) are the least that distinguish the
account from what was sent. With the positions unreadable in the second set, `PhantomEnds` speaks of the
others. `strands_flicker` needs none of
this: one contract, no trading. In `mappings` two ids are the smallest that compete; `MaxWrites` = 2 bounds
the passes, requests, holds, crashes and failed statements together, so that any two writers, or a
writer and a crash, a failure or a hold, meet at every await, while the settled sweep and the
refreshes are not bounded. The pipeline's passes are those of validator and discovery, and it is not in
the run's `Tasks`; revalidation is in `mappings_quarantine`. The operator confirms: the other actions
of the desk only take an owner away.

In `signals` a tick is about ten seconds, the order of the code's limits is kept (phantom 5 s below
one tick, quotes 15 s, breaker 30 s, republishing 30 s, TTL 30 s), and two scans, two failures and
two probes are the smallest that distinguish the first from the last. A book without an ask is not in
the run: it hides the pair, which `fits` does at any scan. `Cycle` and `Timeout` bound how
long an answer is held; the code has no bound on the first.

Deadlock checking is off where the system may stop: an execution ends (`done`, `raised`), and the
mapping tasks rest when nothing is left to write.

**Faults left out of a run, and why.** Every fault is modelled; a run of a property allows those under
which the code can keep it. With quantity 2, one requote and `answers_early` everywhere, each fault
added for one role breaks these properties and no other of HO = `HedgeOnce`, SOD =
`SubmitOnlyAfterDead`, NP = `NakedIsPaged`, MSP = `MatchedStaysPaired`, UOD = `UnwindOnlyAgainstDead`,
BC = `BookedCovers`:

| fault | of the primary | of the secondary | of the unwind |
|---|---|---|---|
| `timeout` | BC | MSP, UOD, BC | none |
| `raises_late` | none | MSP, UOD | MSP |
| `fails_late` | BC | HO, SOD, NP, MSP, UOD, BC | MSP |
| `poll_failed` | NP, MSP, UOD, BC | HO, SOD, NP, MSP, UOD, BC | MSP |
| `poll_unknown` | MSP | MSP, BC | MSP |
| `ended_as_cancelled` | NP, MSP, BC | HO, SOD, NP, MSP, BC | MSP |
| `partial_while_live`, `cancel_acks_ended` | MSP | MSP | none |
| `fok_partial` | none | MSP, BC | none |
| `cancel_lost` | MSP, UOD | MSP, UOD, BC | MSP |

`KeepsTrade` breaks in every entry that is not empty and under `raises_late` of the primary. (A primary
or an unwind is never sent fill-or-kill.)

A row is not a defect of its own: an engine that cannot reach a venue cannot be right about it. It
says what each guarantee rests on. Two entries contradict what the code says of itself and are runs
that end in a violation, with a finding each.

**Fairness.** `WF(Engine)`: the event loop runs a coroutine that can run. `WF(PollTimesOut)` and
`WF(RestCancel)` separately: the deadlines are wall-clock, so polling does not postpone them. `WF` of
accept-or-refuse: a request that left is taken or refused. Nothing makes an order fill or end; the
chain ends without it. `KillSwitch`: strong fairness of each task's step under the lock, since
asyncio.Lock serves waiters in order and every await under it is bounded (`cancel_all` by 5 s) or
returns or raises. `Automation`: weak fairness of every await that the event loop resumes and of the
clock, strong fairness of getting the engine's lock, which is an asyncio.Lock too. `Strands`: the
engine, the boot, the poller and the cycle of the reconciler go on; rows grow old; a live order ends
at its venue; and a cycle in which every venue answers comes again and again (strong fairness of
`Observe({})`; without it no sweep can conclude anything). `Mappings`: awaits are resumed, the settled sweep and the refresh of discovery
come back (`main.py:809`, `main.py:901`), and a process that ended is started again. `Signals`: the
collectors' loops are resumed and their requests have timeouts (weak fairness), and the clock goes on
(strong fairness of `Tick`, which waits for a request at its timeout). An order call returns in the end
(the client's timeout); that one is made, that a host turns well, and the scanner need no fairness.

**What the runs show.** Under lost answers, lost cancels, late acceptances and late exceptions of the
secondary at most one order of the chain ever fills and the next is sent only when those before are over; the
chain and the recovery always end; whoever ends with unequal legs knowing of a fill has raised a
critical incident. With truthful venues the recovery never sells a paired contract and the books
cover what is held. The kill switch's mirror follows it through every interleaving, with a reset that
may fail to clear Redis but a SET that does not fail (the code swallows a failed SET, see hazards). No limit
is exceeded by more than its known slack: by canonical id, one requote and what was entered by hand;
by platform and in total, also one leg or pair for every further caller. After an arm each caller sends at most
one primary; that one primary is real: `kalshi.py:228` has no armed check, although the repository's
README (line 194) says of all adapters that they have.

With truthful venues `ArbExecution` implements `PairedTrade`: it never hedges more than it bought nor
sells more than the difference, and ends balanced or with the alarm raised. The executor stops a
market after its losses whatever stale copies of the row are written, lets at most the one execution
through that had passed the row before a hold, leaves a market alone after a naked round trip, and
never overlaps with the scheduler; both consumers come back to their queues. Wherever a crash falls,
the start-up raises the incident of every recorded arb that is unbalanced, if incidents can be written; no row ever says `filled`
of an unpaired position; rows that bought nothing, or whose fills have left the venues, end. What a
process of the reconciler really sends for a lot exceeds the multiple of its size by at most one size
for each order whose answer was lost, and by nothing else: views that miss the lot and show it again
grant no new budget. A lot is paged once across restarts, and once more for each time its open incident
was not found. The rows of one venue pair have one owner but
for an upsert in progress or torn, settled mappings end expired, and the cache converges to the table.
What the scanner publishes is as recent as its limits say plus the time a collector held the answer;
that time is real for Kalshi (`kalshi.py:503` stamps after the last request), so the "fresh-from-the-book"
of `arbitrage.py:722` is true of the stamp and not of the price. A pair that flickers must survive the
count of scans again before it is published again. Whatever the outages of
quotes and orders leave in the breaker, Polymarket's quotes return once both hosts are well, except for a
slug that answered 404 once. A well gateway is not enough: orders that fail again and again at the api
open the breaker the quotes wait for.

**Findings.** (1) `engine.py:2221`: a CANCELLED order with fills counts as none, the pair is `failed`
and the recovery that a comment promises does not run. (2) `engine.py:2568`: a FOK in doubt is
dropped, against the docstring's "stops the chain dead". (3)
`stranded_reconciler.py:780`: a cycle in which a fetch fails neither counts as an absence nor ends the
streak of absences, so three single misses with sightings between them close the row of a held
position; the comment at 691 says a flicker cannot. (4) `revalidate_review_mappings.py:308`: the hourly
revalidation confirms and allows rows that carry the quarantine marker, which
`auto_promote.py:172` calls terminal for every promotion path.

**Seen on the way**, without a run: the hard stop of `stranded_reconciler.py:307` ("hard-stop at
max_cum_close_mult x the largest observed strand size") does not hold of orders whose answer is lost,
which nobody counts; the last term of `VolumeCap` is that excess. Kalshi's and ForecastEx's adapters return
a FAILED order, which is counted; Polymarket's raises, against its own "never raises across this
boundary" (`polymarket_us.py:397`). The reset of that account "only after the strand stays absent for
several consecutive cycles" (463) is never reached: the loop that counts absences goes over `_tracked`,
which has lost the lot at the first of them, and a lot that is seen again has its count popped (452);
the proof has it as `AccountsAreKept`. A breaker "opens after `failure_threshold` consecutive failures"
(`retry.py:26`), but a success only takes one failure off its count (60), so that failures between
successes add up. A trip that joins the shutdown arm is not persisted
(`supervisor.py:171`), against the docstring of `trip_kill`; in `KillSwitch` it is the promise
`joined`. Kalshi's `fetch_markets` catches every error of its requests, so its own breaker counts none
of them. `build_opportunity_for_canonical` says it skips the count of scans deliberately
(`arbitrage.py:263`), and what it builds keeps a count of 1 and so never passes `_resolve_status` as
tradable while `persistence_scans` is above 1.

## 4. Proofs

Every theorem is for all values of the constants and of the sets of faults, but for the hypotheses
named here. All invariants are proved by induction over `Next`: one lemma or step per action, the
actions that leave a part alone together.

### ArbExecutionProofs

| theorem | hypothesis | says |
|---|---|---|
| `InvariantHolds` | none | `TypeOK` and the inductive invariant `IInv` |
| `HedgesOnce` | `SecondaryIsHonest` | `HedgeOnce`, `SubmitOnlyAfterDead` |
| `NakedPositionsArePaged` | `SecondaryIsHonest`, `PrimaryIsFrank` | `NakedIsPaged` |
| `RecoveryStaysPaired` | `Truthful` | `MatchedStaysPaired`, `BookedCovers`, `UnwindOnlyAgainstDead` |
| `TradeIsKept` | `Truthful` | `KeepsTrade`: the engine implements `PairedTrade`, and so keeps its `Promise` |

The hypotheses are on the fault sets. `SecondaryIsHonest`: not `fails_late`, `poll_failed` or
`ended_as_cancelled` for the secondary; any fault of the primary and the unwind. `PrimaryIsFrank`:
not `poll_failed` or `ended_as_cancelled` for the primary. `Truthful`: nobody has a fault but
`answers_early`, so that orders still fill while the engine reads them. They are those of
`arb_fallbacks` and `arb_recovery`, whose runs check the same properties on small instances. By the
table of section 3 the first two leave out exactly the faults that break their properties, and
`Truthful` all that break `KeepsTrade` with the few that break nothing; `UnwindOnlyAgainstDead` and
`BookedCovers` need less.

`HedgeOnce` alone is not inductive: whether an attempt can still fill depends on what the engine
believes of it. `IInv` adds: what the engine holds of an order is never more than the venue filled
and a placeholder is empty and dead (`Believes`); a slot is used once and in order (`SentOnce`); each
`pc` fixes the order it drives (`Control`); no secondary asks for more than the primary filled
(`Sized`); and of all secondaries only the current one may have life in it, and not that one once it
was returned dead without doubt or the requote loop was entered (`ChainIsDead`). The last is where the
ambiguity flag does its work: a returned order that is not a fill and not in doubt is over and empty.

`NakedIsPaged` needs to know why the engine may end in silence. `NInv` adds: a working order is
short of its quantity (`WholeOrders`); a secondary asks for what the engine knows of the primary, not
for what the venue filled (`HedgesKnown`); an order with fills survives, one called FILLED is over
and whole, one still SUBMITTED is short (`ChainTells`); and an execution that ended without a page
knows of no fill or is `Balanced`: primary and last secondary over, equally filled, nothing sold
(`Alarmed`). That a FILLED secondary is over at the venue is what keeps a later fill from upsetting
a balance the engine has just declared.

`MatchedStaysPaired` relates the sales to what is bought and hedged at the venue while the engine
sizes the unwind from its own copies. `TInv` says when these agree: a returned leg is over and
reports its fill (`LegsTell`, from which a secondary starts only with something bought); a recovery
has something bought and an incident (`Rescues`); the unwind's quantity is exactly bought minus
hedged from its choice on, the market sell asks for what the resting sell left when it was cancelled,
and neither starts before its predecessor is dead (`Sells`); the reservation of the primary's leg is
whole until the unwind closes (`Reserved`). That makes `Sums` follow from the state, with
`hedged + sold <= bought`, and from it the three properties.

The refinement is a simulation step by step: a fill of the primary is `Buy`, the first secondary sent
`StartHedge`, a fill of a secondary `Hedge`, the resting sell `StartUnwind`, a fill of either sell
`Sell`, a raised incident `Alarm`, and the return or the exception `End`; everything else stutters.
`Sums` and `TInv` give the guards of the abstract actions. `Hedged` is a sum by recursion over the
chain, and no induction theorem can be used; `HedgedIsLast` finds the least slot at which the sum could
differ from its closed form (the least-element principle of the naturals) when at most one secondary
has filled, which `ChainIsDead` gives.

### PairedTrade

`PromiseHolds` gives the refinement its meaning: the abstract trade keeps hedge and sales within what
was bought, and ends balanced or alarmed.

### StrandsProofs

`RecordsAreTrue`: with `IInv`, the types (`StrandsTypeOK`), `FilledIsPaired`, `ReconciledWasSold`,
`VolumeCap` and `OneIncidentPerLot`, whichever of the faults of `FaultKinds` occur and wherever the
process crashes. The invariant
says in which order the venue's orders can have been sent (`SentInOrder`), that the engine takes no
order for filled or dead that is not (`Believes`), that nobody else writes while it trades
(`Trading`), what each await has sent and saved (`Control`), that an order has a row only if the one
before it has, and which status a row with its primary alone can have (`RowsFollow`), and that an
unwind that is claimed has sold (`ClaimsAreTrue`). For `VolumeCap`: what is about to be traded fits
the ceiling of an autonomous order (`PlansFit`); what the account says is within the cap, what was sent
is within the account and one size for each lost answer, and no lot is ever counted absent more than
once (`AccountsAreKept`), so that the account is not dropped while the process lives.

`StartUpPages`: `BootPages`, of a start-up that can write incidents, with the invariant of `RecordsAreTrue`: if the rows are up to date, an
excess on either side makes `HalfRecorded` true, by cases on how many orders have a row. The proof
found the property too strong: a row the sweep has closed is not looked at by
`list_half_recorded_arbs`, which no state of the run shows with an excess; `BootPages`
now leaves closed rows out.

### SignalsProofs

`InvariantHolds`: types, `DelaysAreBounded` (a stored price was held no longer than a request or a
cycle lasts) and `GapCounts` (a key whose publish is forgotten was scanned once more than it was seen
since). `PublishesAreSound` is `DataIsRecent` and `Respaced`. Both rest on its first step: whatever is
published in a step was tradable and due in that scan.

### KillSwitchProofs

`MutedEngineIsArmed`: the invariant, `TypeOK` and `MutedIsArmed`, whatever Redis does. `ArmReachesRedis`:
when Redis' SET does not fail (`RedisIsReliable`), `ArmIsPersisted` and `ArmSurvivesRestart`. The
invariant says what a lock holder has done by each await (`TripHolds`, `ResetHolds`), that only a trip
before its write leaves Redis behind (`RedisFollows`), and that a kept promise is in Redis and, when
the process runs, in memory (`PromiseIsKept`).

### ExposureLimitsProofs

`CallersAreCapped`: `TypeOK`, `MarketCap` and `ArmStopsNew`, for any number of callers, ids,
platforms and manual positions. `MarketCap` speaks of what is booked, so it is not inductive: `IInv`
adds that whoever has been checked and has not booked yet would still fit (`Fits`), and that it alone
holds its canonical id (`LockIsExclusive`), without which two could fit each by itself. `Fits` survives
the steps of the operator because entering by hand widens the bound by what it books, and a release
that is clamped leaves an empty account in which a single trade fits. `ArmStopsNew` needs that nobody
between gate and primary has sent one since the arm (`ArmIsFresh`).

`SharedLimitsHold`: `SharedCaps`, for the same. The limits across canonical ids are read without a lock,
so what bounds the exposure is a sum over the callers: `TotalFits` says that what is booked beyond the
positions entered by hand, plus what every checked execution may still book after its requote, is
within the limit and one trade of each further caller, and `PlatformFits` the same of one platform. An
approval adds a trade to that sum only when the account alone leaves room for it, and all others owe
at most one each (`CostsFit`); every other step moves an amount from owed to booked or gives it up.
`EnteredIs` ties `entered` to the positions that stand, so that what is closed was counted. The proof
needs facts about sums over finite sets (`SumFacts`): a sum is a recursive function on the subsets,
and its equations come from an induction over a *set* of subsets (`SetInduction`), which the provers
can instantiate, not over a predicate. It showed one assumption the property makes and the run did not:
with no caller at all its bound is below the limit, so `LimitsAssumption` asks for one, the engine's
own loop.

### AutomationProofs

`MarketsAreGuarded`: `TypeOK`, `LossStreakStops`, `OneAfterHold` and `OneExecution`;
`NakedMarketsRest`: `NakedMarketRests`. For every set of canonical ids, all delays, thresholds and
queue sizes. The invariant has one part per property. `RunnersHold`: who is at `run` is who holds the
lock. `HoldIsKept`: once something was begun after a hold, nobody else has passed the row.
`StreakCounts`: the losses since the last gain are in the executor's own streak, or the streak has
reached the threshold and the row is forbidden, or about to be, with nobody past it; this is what makes
a reviewer's stale write harmless to the count, for a write that allows the row starts both again.
`RestIsCooldown`: the rest after a naked round trip is within the cooldown, although failures of other
kinds and a shared counter set it too. That the backoff reaches its cap within `MaxCount` is the
assumption on the constants; that `2^n` is a number is had from the cardinality of a set of subsets.

### MappingsProofs

`OneOwnerHolds`: `TypeOK` and `OnePairOwner`, for any number of ids, tasks, operator's actions and
writes. Two confirmed rows appear with an INSERT only, whose task then stands at the expiry of the
others; what takes that task away is the expiry itself, its failure (`torn`) or the end of the process;
a refresh and a boot leave one active row. The invariant is inductive with the types alone: however
stale the copy a task writes, the second statement of its upsert works on the table as it is.

### Assumptions, and what is only checked

Assumptions on the constants: `ExecutionAssumption`, `KillSwitchAssumption`, `LimitsAssumption`,
`AutomationAssumption`, `MappingsAssumption`, `RecordsAssumption`, `StrandsAssumption` and
`SignalsAssumption`. Hypotheses on the environment: `SecondaryIsHonest`, `PrimaryIsFrank`, `Truthful`
and `RedisIsReliable`.

Only model-checked: all liveness (`FilledPrimarySettles`, `CallsReturn`, `ConsumersReturn`,
`NothingBoughtEnds`, `PhantomEnds`, `SettledExpires`, `CacheConverges`, `FeedRecovers`), which the
provers cannot do; and the four runs that end in a violation. Every safety property of a passing run
is stated by a theorem.

## 5. Not modelled

Everything of section 1 without a module in section 2; the reasons are in `PROJECT.json`. Within
`ArbExecution`: prices and P&L, gates before the primary, the order of the legs by venue, statistics,
the watchdogs outside the execution. Within `KillSwitch`: `allow_execution` and the one-leg handler,
which do not change the modelled state. Within `ExposureLimits`: the daily limits, the dedup window and
the other reasons to refuse, as refusals at any time; the trimming of old executions. Within
`Automation`: prices, depth and the dedup buckets (any opportunity may be rejected), the dashboard's
records. Within `ArbRecords` and `Strands`: partial fills of single orders (`ArbExecution` has them),
prices, the titles by which counterparts are found, ForecastEx's settlement resolver. Within
`Mappings`: pairs that share one venue only, what discovery and the reviewers compute, changes of the
resolution status, contract ids and their endpoints, the matcher across venues
(`fx_cross_platform_matcher`). Within `Signals`: ForecastEx (whose quotes have limits of their own), the
feeds `main.py` does not start, `retry_with_backoff`, the pruning and the Redis copy of the store. The closing of manual positions that were never entered releases
exposure of others (`engine.py:4239`); the model has it, and the two accounts are not claimed to
agree.

The HTTP handlers, the seeds, the parsing in the collectors, the discovery of mappings and the reports
are by far the larger part of the repository's lines: parsing, float arithmetic, text matching and an
external reviewer. Their data is their algorithm, so what a faithful model of them could tell apart is
what unit tests already see; the modules above take their results as any.

## 6. Plan

Done: `ArbExecution`, `KillSwitch`, `ExposureLimits`, `PairedTrade`, `ArbRecords`, `Strands`,
`Automation`, `Mappings`, `Signals`, their runs, and the theorems of section 4, which state every
safety property of the passing runs. Next, in order of what matters:

1. `UnwindOnlyAgainstDead` and `BookedCovers` under more faults than `Truthful` allows, as far as the
   table of section 3 leaves room (`poll_unknown` and `partial_while_live` for the first).
2. `HedgedIsLast` from `SetInduction`, as the sums of `ExposureLimitsProofs`.
3. `PositionLedger`, `RuntimeLock` (the window between unlock and unlink), ForecastEx's quotes.
