----------------------------- MODULE Automation -----------------------------
(***************************************************************************)
(* What drives the engine without an operator.  The scanner publishes an   *)
(* opportunity, the balance monitor approves it, the AutoExecutor takes it *)
(* from its queue, passes its gates one await after the other and calls    *)
(* the engine; the RetryScheduler takes the failed executions the engine   *)
(* publishes from its own queue and calls the engine again.  Meanwhile the *)
(* row of market_mappings that allows automatic trading is written by the  *)
(* AutoExecutor, by operators, and by reviewers that read the row and      *)
(* write it back later.                                                    *)
(*                                                                         *)
(* Time is counted in units of the retry delay (30 s).  A timer holds what *)
(* is left of a delay; Tick takes one unit off all of them.                *)
(***************************************************************************)
EXTENDS Integers, Sequences, FiniteSets

CONSTANTS Canonicals,
          Backoff1,          \* the first backoff of a failed canonical id, and
          BackoffCap,        \*   the ceiling of the following ones
          NakedCooldown,     \* NAKED_COOLDOWN_SECONDS
          LossThreshold,     \* loss_streak_disable_threshold
          RetryDelay, MaxRetries, RejectedCooldown,     \* RetrySchedulerConfig
          DedupWindow,       \* SIGNATURE_DEDUP_WINDOW_S
          Raises,            \* whether an execution may end with an exception
          QueueCap,          \* size of a subscriber's queue (100 in the code)
          MaxApproved,       \* bounds the approved queue (unbounded in the code)
          MaxCount           \* bounds the failure counter: its backoff is the cap

LeastOf(a, b) == IF a < b THEN a ELSE b
GreatestOf(a, b) == IF a > b THEN a ELSE b

ASSUME AutomationAssumption ==
    /\ IsFiniteSet(Canonicals)
    /\ {Backoff1, BackoffCap, NakedCooldown, RetryDelay, RejectedCooldown, DedupWindow} \subseteq Nat
    /\ LossThreshold \in Nat \ {0}
    /\ MaxRetries \in Nat /\ QueueCap \in Nat /\ MaxApproved \in Nat
    /\ MaxCount \in Nat \ {0} /\ Backoff1 * 2^(MaxCount - 1) >= BackoffCap
    /\ Raises \in BOOLEAN

VARIABLES
    armed,      \* SafetySupervisor.is_armed
    row,        \* allow_auto_trade of each row of market_mappings
    review,     \* a reviewer's copy of a row between its read and its write
    approved,   \* the queue of approved opportunities
    auto,       \* where the AutoExecutor's task is suspended
    failed_cooldown, failed_count, loss_streak,          \* AutoExecutor's state
    held,       \* who holds the engine's lock of the canonical id
    signature,  \* timer: the engine ignores a repeated opportunity
    retryQ,     \* published executions the scheduler has not yet taken
    retry,      \* where the RetryScheduler's task is suspended
    rejected,   \* timer: RetryScheduler._rejected_cooldowns
    losses,     \* losing trades of the AutoExecutor since the last gain, since the row
                \*   was last allowed, or since a write that forbids it was lost
    sinceHold,  \* its executions begun since the row was last forbidden
    nakedRest   \* timer: since the AutoExecutor last learnt of a naked round trip

mapping   == <<row, review>>
executor  == <<auto, failed_cooldown, failed_count, loss_streak>>
engine    == <<held, signature>>
scheduler == <<retry, rejected>>
account   == <<losses, sinceHold, nakedRest>>
vars == <<armed, row, review, approved, auto, failed_cooldown, failed_count, loss_streak,
          held, signature, retryQ, retry, rejected, losses, sinceHold, nakedRest>>

Idle == [at |-> "idle"]
Callers == {"auto", "retry"}

Published == [c : Canonicals, status : {"done", "failed", "recovering"}]

TypeOK ==
    /\ armed \in BOOLEAN
    /\ row \in [Canonicals -> BOOLEAN]
    /\ review \in {Idle} \cup [at : {"write"}, c : Canonicals, allow : BOOLEAN]
    /\ approved \in Seq(Canonicals)
    /\ auto \in {Idle} \cup [at : {"row", "preflight", "call", "run", "disable"},
                             c : Canonicals, cooling : BOOLEAN]
    /\ failed_cooldown \in [Canonicals -> Nat]
    /\ failed_count \in [Canonicals -> 0..MaxCount]
    /\ loss_streak \in [Canonicals -> 0..LossThreshold]
    /\ held \in [Canonicals -> {"none"} \cup Callers]
    /\ signature \in [Canonicals -> Nat]
    /\ retryQ \in Seq(Published)
    /\ retry \in {Idle} \cup [at : {"sleep", "call", "run"}, c : Canonicals,
                              attempt : 1..MaxRetries, wait : Nat]
    /\ rejected \in [Canonicals -> Nat]
    /\ losses \in [Canonicals -> Nat]
    /\ sinceHold \in [Canonicals -> Nat]
    /\ nakedRest \in [Canonicals -> Nat]

Init ==
    /\ armed = FALSE
    /\ row = [c \in Canonicals |-> TRUE]
    /\ review = Idle
    /\ approved = << >>
    /\ auto = Idle
    /\ failed_cooldown = [c \in Canonicals |-> 0]
    /\ failed_count = [c \in Canonicals |-> 0]
    /\ loss_streak = [c \in Canonicals |-> 0]
    /\ held = [c \in Canonicals |-> "none"]
    /\ signature = [c \in Canonicals |-> 0]
    /\ retryQ = << >>
    /\ retry = Idle
    /\ rejected = [c \in Canonicals |-> 0]
    /\ losses = [c \in Canonicals |-> 0]
    /\ sinceHold = [c \in Canonicals |-> 0]
    /\ nakedRest = [c \in Canonicals |-> 0]

-----------------------------------------------------------------------------
(* The row that allows automatic trading.                                   *)

Write(c, allow) ==
    /\ row' = [row EXCEPT ![c] = allow]
    /\ losses' = IF allow /\ ~row[c] THEN [losses EXCEPT ![c] = 0] ELSE losses
    /\ sinceHold' = IF allow # row[c] THEN [sinceHold EXCEPT ![c] = 0] ELSE sinceHold

\* An operator enables or holds the automatic trading of c.
OperatorWrite(c, allow) ==
    /\ Write(c, allow)
    /\ UNCHANGED <<armed, review, approved, executor, engine, retryQ,
                   scheduler, nakedRest>>

\* update_status: the whole row is read, and written back after an await.
ReviewRead(c) ==
    /\ review = Idle
    /\ review' = [at |-> "write", c |-> c, allow |-> row[c]]
    /\ UNCHANGED <<armed, row, approved, executor, engine, retryQ,
                   scheduler, account>>

ReviewWrite ==
    /\ review.at = "write"
    /\ Write(review.c, review.allow)
    /\ review' = Idle
    /\ UNCHANGED <<armed, approved, executor, engine, retryQ,
                   scheduler, nakedRest>>

Switch ==
    /\ armed' = ~armed
    /\ UNCHANGED <<mapping, approved, executor, engine, retryQ,
                   scheduler, account>>

-----------------------------------------------------------------------------
(* The AutoExecutor: _consider_opportunity, await by await.  The gates that *)
(* look at the opportunity or at past failures of its prices (quotes,       *)
(* depth, edge, size, conids, should_skip) may reject any opportunity.      *)

\* scan_once publishes c and alert_opportunity approves it.
Offer(c) ==
    /\ Len(approved) < MaxApproved
    /\ approved' = Append(approved, c)
    /\ UNCHANGED <<armed, mapping, executor, engine, retryQ, scheduler,
                   account>>

Take ==
    /\ auto = Idle
    /\ approved # << >>
    /\ approved' = Tail(approved)
    /\ LET c == Head(approved) IN
       \/ auto' = Idle
       \/ /\ ~armed
          /\ auto' = [at |-> "row", c |-> c, cooling |-> failed_cooldown[c] > 0]
    /\ UNCHANGED <<armed, mapping, failed_cooldown, failed_count, loss_streak,
                   engine, retryQ, scheduler, account>>

\* Mutant: the row is not looked at again once the opportunity was published.
RowAllowsAlways(c) == TRUE
RowAllows(c) == row[c]

\* The row is read, and the cooldown compared with the time the turn began.
ReadRow ==
    /\ auto.at = "row"
    /\ auto' \in {Idle} \cup (IF RowAllows(auto.c) /\ ~auto.cooling
                              THEN {[auto EXCEPT !.at = "preflight"]} ELSE {})
    /\ UNCHANGED <<armed, mapping, approved, failed_cooldown, failed_count, loss_streak,
                   engine, retryQ, scheduler, account>>

\* The pre-flight checks, and the probe of the engine's trade gate.
Preflight ==
    /\ auto.at = "preflight"
    /\ auto' \in {Idle} \cup (IF armed THEN {} ELSE {[auto EXCEPT !.at = "call"]})
    /\ UNCHANGED <<armed, mapping, approved, failed_cooldown, failed_count,
                   loss_streak, engine, retryQ, scheduler, account>>

\* Mutants: a naked round trip is paused like any failure; any fill that is not a
\* loss ends the streak of losses.
PauseWithoutFloor(n, status) == LeastOf(Backoff1 * 2^(n - 1), BackoffCap)
StreakEndedByAnyFill(status, pnl) == status = "done"

Pause(n, status) ==
    LET doubled == LeastOf(Backoff1 * 2^(n - 1), BackoffCap)
    IN IF status = "recovering" THEN GreatestOf(doubled, NakedCooldown) ELSE doubled
StreakEnded(status, pnl) == status = "done" /\ pnl = "gain"

\* What the AutoExecutor does with the result of an execution of c.
Learn(c, status, pnl) ==
    LET failure == status \in {"none", "failed", "recovering"}
        n       == LeastOf(failed_count[c] + 1, MaxCount)
        lost    == status = "recovering" /\ pnl = "loss"
        disable == lost /\ loss_streak[c] + 1 >= LossThreshold
    IN  /\ failed_count' = [failed_count EXCEPT ![c] = IF failure THEN n ELSE 0]
        /\ failed_cooldown' =
             [failed_cooldown EXCEPT ![c] = IF failure THEN Pause(n, status) ELSE 0]
        /\ loss_streak' =
             [loss_streak EXCEPT ![c] = IF disable \/ StreakEnded(status, pnl) THEN 0
                                        ELSE IF lost THEN @ + 1 ELSE @]
        /\ auto' = IF disable THEN [auto EXCEPT !.at = "disable"] ELSE Idle
        /\ losses' = [losses EXCEPT ![c] = IF status = "done" /\ pnl = "gain" THEN 0
                                           ELSE IF lost THEN @ + 1 ELSE @]
        /\ nakedRest' = [nakedRest EXCEPT ![c] = IF status = "recovering"
                                                 THEN NakedCooldown ELSE @]

\* _auto_disable_mapping.  When the write fails, the fallback changes a copy of the
\* row that nobody reads: the row stays, and the count of losses starts over.
Disable ==
    /\ auto.at = "disable"
    /\ auto' = Idle
    /\ \/ Write(auto.c, FALSE)
       \/ /\ losses' = [losses EXCEPT ![auto.c] = 0]
          /\ UNCHANGED <<row, sinceHold>>
    /\ UNCHANGED <<armed, review, approved, failed_cooldown, failed_count,
                   loss_streak, engine, retryQ, scheduler, nakedRest>>

-----------------------------------------------------------------------------
(* execute_opportunity: under the lock of the canonical id, once per        *)
(* DedupWindow.  What the orders do is ArbExecution's subject.              *)

Caller(t) == IF t = "auto" THEN auto ELSE retry

\* Mutant: the executions of one canonical id are not serialized.
FreeAlways(c) == TRUE
Free(c) == held[c] = "none"

\* The arb goes on to the venues.
Begin(t) ==
    /\ Caller(t).at = "call"
    /\ LET c == Caller(t).c IN
       /\ Free(c) /\ signature[c] = 0 /\ ~armed
       /\ held' = [held EXCEPT ![c] = t]
       /\ signature' = [signature EXCEPT ![c] = DedupWindow]
       /\ sinceHold' = IF t = "auto" /\ ~row[c]
                       THEN [sinceHold EXCEPT ![c] = LeastOf(@ + 1, 2)] ELSE sinceHold
    /\ IF t = "auto" THEN auto' = [auto EXCEPT !.at = "run"] /\ UNCHANGED retry
                     ELSE retry' = [retry EXCEPT !.at = "run"] /\ UNCHANGED auto
    /\ UNCHANGED <<armed, mapping, approved, failed_cooldown, failed_count,
                   loss_streak, retryQ, rejected, losses, nakedRest>>

\* Mutant: the bound of the attempts is off by one.
SleepingOnceMore(n) == IF armed \/ n > MaxRetries + 1 THEN Idle
                       ELSE [retry EXCEPT !.at = "sleep", !.attempt = n, !.wait = RetryDelay]

\* The n-th attempt of one chain, or its end.
Sleeping(n) == IF armed \/ n > MaxRetries THEN Idle
               ELSE [retry EXCEPT !.at = "sleep", !.attempt = n, !.wait = RetryDelay]
RetryLearns(status) == retry' = IF status = "done" THEN Idle ELSE Sleeping(retry.attempt + 1)

\* The engine returns None: refused by the risk manager, seen before, or stopped by
\* a gate after the opportunity was noted as seen.
Refuse(t) ==
    /\ Caller(t).at = "call"
    /\ LET c == Caller(t).c IN
       /\ Free(c)
       /\ signature' \in {signature} \cup
            (IF signature[c] > 0 THEN {} ELSE {[signature EXCEPT ![c] = DedupWindow]})
       /\ IF t = "auto"
          THEN Learn(c, "none", "flat") /\ UNCHANGED retry
          ELSE /\ RetryLearns("none")
               /\ UNCHANGED <<auto, failed_cooldown, failed_count, loss_streak, losses,
                              nakedRest>>
    /\ UNCHANGED <<armed, mapping, approved, held, retryQ, rejected,
                   sinceHold>>

\* _publish_execution: a subscriber whose queue is full misses the execution.
Publish(q, e) == IF Len(q) < QueueCap THEN Append(q, e) ELSE q

Outcomes == {<<"done", "flat">>, <<"done", "gain">>, <<"failed", "flat">>,
             <<"recovering", "loss">>, <<"recovering", "flat">>, <<"recovering", "gain">>}

\* The execution ends, is published, and its caller goes on.
Finish(t) ==
    /\ Caller(t).at = "run"
    /\ \E o \in Outcomes :
         LET c == Caller(t).c
             e == [c |-> c, status |-> o[1]]
         IN  /\ retryQ' = Publish(retryQ, e)
             /\ IF t = "auto"
                THEN Learn(c, o[1], o[2]) /\ UNCHANGED retry
                ELSE /\ RetryLearns(o[1])
                     /\ UNCHANGED <<auto, failed_cooldown, failed_count, loss_streak,
                                    losses, nakedRest>>
    /\ held' = [held EXCEPT ![Caller(t).c] = "none"]
    /\ UNCHANGED <<armed, mapping, approved, signature, rejected,
                   sinceHold>>

\* Mutant: an exception leaves the lock behind.
ReleaseUnlessRaised(c) == held
Release(c) == [held EXCEPT ![c] = "none"]

\* The execution ends with the exception of its secondary order: nothing is
\* published, the AutoExecutor only counts it, the scheduler goes on.
Raise(t) ==
    /\ Raises
    /\ Caller(t).at = "run"
    /\ held' = Release(Caller(t).c)
    /\ IF t = "auto" THEN auto' = Idle /\ UNCHANGED retry
                     ELSE RetryLearns("raised") /\ UNCHANGED auto
    /\ UNCHANGED <<armed, mapping, approved, failed_cooldown, failed_count,
                   loss_streak, signature, retryQ, rejected, account>>

-----------------------------------------------------------------------------
(* The RetryScheduler.  The price of a canonical id does not move here, so  *)
(* the tuple of its cooldown is the id.                                     *)

RetryTake ==
    /\ retry = Idle
    /\ retryQ # << >>
    /\ retryQ' = Tail(retryQ)
    /\ LET e == Head(retryQ) IN
       IF e.status # "failed"
       THEN UNCHANGED scheduler
       ELSE /\ rejected' = [rejected EXCEPT ![e.c] = RejectedCooldown]
            /\ retry' = IF rejected[e.c] > 0 \/ armed \/ MaxRetries = 0 THEN Idle
                        ELSE [at |-> "sleep", c |-> e.c, attempt |-> 1,
                              wait |-> RetryDelay]
    /\ UNCHANGED <<armed, mapping, approved, executor, engine,
                   account>>

\* After its sleep a chain ends, or asks the engine again with fresh quotes.
RetryWake ==
    /\ retry.at = "sleep" /\ retry.wait = 0
    /\ retry' \in {Idle} \cup (IF armed THEN {} ELSE {[retry EXCEPT !.at = "call"]})
    /\ UNCHANGED <<armed, mapping, approved, executor, engine, retryQ,
                   rejected, account>>

-----------------------------------------------------------------------------
Less1(timer) == [c \in Canonicals |-> IF timer[c] > 0 THEN timer[c] - 1 ELSE 0]

Tick ==
    /\ failed_cooldown' = Less1(failed_cooldown)
    /\ signature' = Less1(signature)
    /\ rejected' = Less1(rejected)
    /\ nakedRest' = Less1(nakedRest)
    /\ retry' = IF retry.at = "sleep" /\ retry.wait > 0
                THEN [retry EXCEPT !.wait = @ - 1] ELSE retry
    /\ UNCHANGED <<armed, mapping, approved, auto, failed_count, loss_streak, held,
                   retryQ, losses, sinceHold>>

Execute(t) == Begin(t) \/ Refuse(t) \/ Finish(t) \/ Raise(t)

Next ==
    \/ \E c \in Canonicals : Offer(c) \/ ReviewRead(c)
                             \/ \E allow \in BOOLEAN : OperatorWrite(c, allow)
    \/ ReviewWrite \/ Switch
    \/ Take \/ ReadRow \/ Preflight \/ Disable
    \/ \E t \in Callers : Execute(t)
    \/ RetryTake \/ RetryWake \/ Tick

Spec == Init /\ [][Next]_vars

(***************************************************************************)
(* The tasks of the event loop are never starved, every wait of an         *)
(* execution has a timeout, time passes, and asyncio.Lock wakes its        *)
(* waiters in the order they came.                                         *)
(***************************************************************************)
FairSpec ==
    /\ Spec
    /\ WF_vars(Take) /\ WF_vars(ReadRow) /\ WF_vars(Preflight) /\ WF_vars(Disable)
    /\ \A t \in Callers : SF_vars(Begin(t) \/ Refuse(t)) /\ WF_vars(Finish(t) \/ Raise(t))
    /\ WF_vars(RetryTake) /\ WF_vars(RetryWake) /\ WF_vars(Tick)

-----------------------------------------------------------------------------
(* Properties.                                                              *)

\* A mapping stops trading after LossThreshold losses without a gain in between,
\* whoever writes its row meanwhile: only a write that allows it again starts over.
LossStreakStops == \A c \in Canonicals : losses[c] <= LossThreshold

\* When a row is forbidden, by an operator or by the streak, the AutoExecutor begins
\* at most the one execution whose gates it had already passed.
OneAfterHold == \A c \in Canonicals : sinceHold[c] <= 1

\* After a naked round trip it learnt of, the AutoExecutor leaves the market alone.
NakedMarketRests ==
    [][\A c \in Canonicals : held[c] = "none" /\ held'[c] = "auto" => nakedRest[c] = 0]_vars

\* Two executions of one canonical id never overlap.
OneExecution ==
    ~(auto.at = "run" /\ retry.at = "run" /\ auto.c = retry.c)

\* Both tasks come back to their queues, whatever an execution ends with.
ConsumersReturn ==
    /\ auto.at # "idle" ~> auto.at = "idle"
    /\ retry.at # "idle" ~> retry.at = "idle"

=============================================================================
