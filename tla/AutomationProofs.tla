--------------------------- MODULE AutomationProofs ---------------------------
(***************************************************************************)
(* Theorems about Automation, for every set of canonical ids, every delay, *)
(* threshold and size of the queues: the types, and the four safety        *)
(* properties of the drivers of the engine.                                *)
(***************************************************************************)
EXTENDS Automation, FiniteSetTheorems, TLAPS

\* The AutoExecutor's turn, once the row of c has let it through.
Passed(c) == auto.at \in {"preflight", "call"} /\ auto.c = c
\* And from there to the result.
Committed(c) == auto.at \in {"preflight", "call", "run"} /\ auto.c = c

\* Whoever runs an execution of a canonical id holds its lock.
RunnersHold ==
    \A t \in Callers, c \in Canonicals :
        held[c] = t <=> Caller(t).at = "run" /\ Caller(t).c = c

\* What was begun since the row was forbidden had passed the row before: there is
\* nobody left to begin another one.
HoldIsKept ==
    \A c \in Canonicals :
        /\ sinceHold[c] \in {0, 1}
        /\ sinceHold[c] = 1 => ~row[c] /\ ~Passed(c)

\* The losses are in the streak, or the streak has done its work.
StreakCounts ==
    \A c \in Canonicals :
        /\ loss_streak[c] < LossThreshold
        /\ \/ losses[c] <= loss_streak[c]
           \/ /\ losses[c] <= LossThreshold
              /\ \/ auto.at = "disable" /\ auto.c = c
                 \/ ~row[c] /\ ~Committed(c)

\* A rest after a naked round trip is within a cooldown, and whoever has passed
\* the cooldown is past the rest.
RestIsCooldown ==
    \A c \in Canonicals :
        /\ nakedRest[c] <= failed_cooldown[c]
        /\ Committed(c) \/ (auto.at = "row" /\ ~auto.cooling /\ auto.c = c) => nakedRest[c] = 0

IInv ==
    /\ TypeOK
    /\ RunnersHold
    /\ HoldIsKept
    /\ StreakCounts
    /\ RestIsCooldown

-----------------------------------------------------------------------------
\* A suspended AutoExecutor knows its market; so does the RetryScheduler.
LEMMA TurnFields ==
    ASSUME TypeOK
    PROVE  /\ auto.at # "idle" =>
                /\ auto.c \in Canonicals
                /\ auto \in [at : {"row", "preflight", "call", "run", "disable"},
                            c : Canonicals, cooling : BOOLEAN]
           /\ retry.at # "idle" =>
                /\ retry.c \in Canonicals
                /\ retry \in [at : {"sleep", "call", "run"}, c : Canonicals,
                             attempt : 1..MaxRetries, wait : Nat]
<1>1. /\ auto \in {Idle} \cup [at : {"row", "preflight", "call", "run", "disable"},
                                c : Canonicals, cooling : BOOLEAN]
      /\ retry \in {Idle} \cup [at : {"sleep", "call", "run"}, c : Canonicals,
                                 attempt : 1..MaxRetries, wait : Nat]
  BY DEF TypeOK
<1>2. Idle.at = "idle"
  BY DEF Idle
<1>3. ASSUME auto.at # "idle"
      PROVE  /\ auto \in [at : {"row", "preflight", "call", "run", "disable"},
                          c : Canonicals, cooling : BOOLEAN]
             /\ auto.c \in Canonicals
  BY <1>1, <1>2, <1>3
<1>4. ASSUME retry.at # "idle"
      PROVE  /\ retry \in [at : {"sleep", "call", "run"}, c : Canonicals,
                           attempt : 1..MaxRetries, wait : Nat]
             /\ retry.c \in Canonicals
  BY <1>1, <1>2, <1>4
<1>. QED
  BY <1>3, <1>4

\* A write of a row starts its counts over, or changes nothing.
LEMMA WriteIsSafe ==
    ASSUME IInv, NEW c \in Canonicals, NEW allow \in BOOLEAN, Write(c, allow),
           UNCHANGED <<armed, approved, failed_cooldown, failed_count, loss_streak,
                       held, signature, retryQ, retry, rejected, nakedRest>>,
           auto' = auto \/ (auto.at = "disable" /\ auto.c = c /\ auto' = Idle /\ ~allow),
           review' \in {Idle, review}
    PROVE  IInv'
<1> USE DEF IInv
<1>1. TypeOK'
  BY DEF TypeOK, Write, Idle
<1>2. RunnersHold'
  BY DEF RunnersHold, Caller, Idle, Callers
<1>3. /\ \A d \in Canonicals : d # c => row'[d] = row[d] /\ losses'[d] = losses[d]
                                              /\ sinceHold'[d] = sinceHold[d]
      /\ row'[c] = allow
      /\ allow # row[c] => sinceHold'[c] = 0
      /\ allow = row[c] => sinceHold'[c] = sinceHold[c]
      /\ losses'[c] = 0 \/ losses'[c] = losses[c]
      /\ allow /\ ~row[c] => losses'[c] = 0
  BY DEF Write, TypeOK
<1>4. HoldIsKept'
  <2> SUFFICES ASSUME NEW d \in Canonicals
               PROVE  /\ sinceHold'[d] \in {0, 1}
                      /\ sinceHold'[d] = 1 => ~row'[d] /\ ~Passed(d)'
    BY DEF HoldIsKept
  <2>1. Passed(d)' => Passed(d)
    BY DEF Passed, Idle
  <2>2. CASE d # c
    BY <1>3, <2>1, <2>2 DEF HoldIsKept
  <2>3. CASE d = c
    BY <1>3, <2>1, <2>3 DEF HoldIsKept
  <2>. QED
    BY <2>2, <2>3
<1>6. StreakCounts'
  <2> SUFFICES ASSUME NEW d \in Canonicals
               PROVE  /\ loss_streak'[d] < LossThreshold
                      /\ \/ losses'[d] <= loss_streak'[d]
                         \/ /\ losses'[d] <= LossThreshold
                            /\ \/ auto'.at = "disable" /\ auto'.c = d
                               \/ ~row'[d] /\ ~Committed(d)'
    BY DEF StreakCounts
  <2>1. /\ Committed(d)' => Committed(d)
        /\ auto' = Idle => ~Committed(d)'
        /\ auto.at = "disable" => ~Committed(d)
    BY DEF Committed, Idle
  <2>2. losses[d] \in Nat /\ loss_streak[d] \in Nat /\ LossThreshold \in Nat
    BY AutomationAssumption DEF TypeOK
  <2>3. /\ loss_streak'[d] = loss_streak[d] /\ loss_streak[d] < LossThreshold
        /\ \/ losses[d] <= loss_streak[d]
           \/ /\ losses[d] <= LossThreshold
              /\ \/ auto.at = "disable" /\ auto.c = d
                 \/ ~row[d] /\ ~Committed(d)
    BY DEF StreakCounts
  <2>4. CASE d # c
    BY <1>3, <2>1, <2>2, <2>3, <2>4
  <2>5. CASE d = c
    BY <1>3, <2>1, <2>2, <2>3, <2>5
  <2>. QED
    BY <2>4, <2>5
<1>5. RestIsCooldown'
  BY DEF RestIsCooldown, Committed, Idle
<1>. QED
  BY <1>1, <1>2, <1>4, <1>5, <1>6

\* What the AutoExecutor makes of a result: its pause covers the rest of the market,
\* and its streak the losses.
LEMMA LearnIsSafe ==
    ASSUME IInv, auto.at \in {"call", "run"}, NEW status, NEW pnl,
           Learn(auto.c, status, pnl),
           \/ auto.at = "call" /\ held' = held
           \/ auto.at = "run" /\ held' = [held EXCEPT ![auto.c] = "none"],
           signature' \in [Canonicals -> Nat], retryQ' \in Seq(Published),
           UNCHANGED <<armed, row, review, approved, retry, rejected, sinceHold>>
    PROVE  IInv'
<1> USE DEF IInv
<1> DEFINE c == auto.c
           n == LeastOf(failed_count[c] + 1, MaxCount)
           lost == status = "recovering" /\ pnl = "loss"
           disable == lost /\ loss_streak[c] + 1 >= LossThreshold
<1>1. c \in Canonicals /\ auto \in [at : {"row", "preflight", "call", "run", "disable"},
                                  c : Canonicals, cooling : BOOLEAN]
  BY TurnFields
<1>2. n \in 1..MaxCount
  <2>1. failed_count[c] \in 0..MaxCount /\ MaxCount \in Nat /\ MaxCount >= 1
    BY <1>1, AutomationAssumption DEF TypeOK
  <2>. QED
    BY <2>1 DEF LeastOf
<1>3. /\ Pause(n, status) \in Nat
      /\ status = "recovering" => Pause(n, status) >= NakedCooldown
  <2> HIDE DEF n
  <2>1. n - 1 \in Nat /\ IsFiniteSet(1..(n - 1)) /\ Cardinality(1..(n - 1)) = n - 1
    <3>1. n \in Nat /\ n >= 1 /\ 1 \in Int /\ n - 1 \in Int
      BY <1>2, AutomationAssumption
    <3>2. /\ IsFiniteSet(1..(n - 1))
          /\ Cardinality(1..(n - 1)) = IF 1 > n - 1 THEN 0 ELSE (n - 1) - 1 + 1
      BY <3>1, FS_Interval
    <3>. QED
      BY <3>1, <3>2
  <2>2. 2^(n - 1) \in Nat
    BY <2>1, FS_SUBSET, FS_CardinalityType
  <2>3. Backoff1 * 2^(n - 1) \in Nat /\ BackoffCap \in Nat /\ NakedCooldown \in Nat
    BY <2>2, AutomationAssumption
  <2>4. LeastOf(Backoff1 * 2^(n - 1), BackoffCap) \in Nat
    BY <2>3 DEF LeastOf
  <2>. QED
    BY <2>3, <2>4 DEF Pause, GreatestOf
<1>4. auto' = IF disable THEN [auto EXCEPT !.at = "disable"] ELSE Idle
  BY DEF Learn
<1>5. /\ auto' \in {Idle} \cup [at : {"disable"}, c : Canonicals, cooling : BOOLEAN]
      /\ auto'.at \in {"idle", "disable"}
      /\ auto'.at = "disable" <=> disable
      /\ auto'.at = "disable" => auto'.c = c
  BY <1>1, <1>4 DEF Idle
<1>6. /\ failed_cooldown' \in [Canonicals -> Nat]
      /\ \A d \in Canonicals \ {c} : failed_cooldown'[d] = failed_cooldown[d]
      /\ status = "recovering" => failed_cooldown'[c] >= NakedCooldown
  <2> HIDE DEF n
  <2>1. failed_cooldown' =
          [failed_cooldown EXCEPT ![c] = IF status \in {"none", "failed", "recovering"}
                                         THEN Pause(n, status) ELSE 0]
    BY DEF Learn, n
  <2>2. failed_cooldown \in [Canonicals -> Nat]
    BY DEF TypeOK
  <2>. QED
    BY <1>1, <1>3, <2>1, <2>2
<1>7. failed_count' \in [Canonicals -> 0..MaxCount]
  <2> HIDE DEF n
  <2>1. failed_count' = [failed_count EXCEPT ![c] = IF status \in {"none", "failed", "recovering"}
                                                    THEN n ELSE 0]
    BY DEF Learn, n
  <2>2. failed_count \in [Canonicals -> 0..MaxCount] /\ MaxCount \in Nat
    BY AutomationAssumption DEF TypeOK
  <2>. QED
    BY <1>1, <1>2, <2>1, <2>2
<1>8. /\ loss_streak \in [Canonicals -> 0..LossThreshold] /\ losses \in [Canonicals -> Nat]
      /\ loss_streak[c] \in Nat /\ LossThreshold \in Nat /\ loss_streak[c] < LossThreshold
      /\ \A d \in Canonicals \ {c} : loss_streak'[d] = loss_streak[d] /\ losses'[d] = losses[d]
      /\ loss_streak'[c] = IF disable \/ StreakEnded(status, pnl) THEN 0
                           ELSE IF lost THEN loss_streak[c] + 1 ELSE loss_streak[c]
      /\ losses'[c] = IF status = "done" /\ pnl = "gain" THEN 0
                      ELSE IF lost THEN losses[c] + 1 ELSE losses[c]
  <2>1. /\ loss_streak \in [Canonicals -> 0..LossThreshold] /\ losses \in [Canonicals -> Nat]
        /\ LossThreshold \in Nat /\ loss_streak[c] < LossThreshold
    BY <1>1, AutomationAssumption DEF TypeOK, StreakCounts
  <2>2. loss_streak' = [loss_streak EXCEPT ![c] = IF disable \/ StreakEnded(status, pnl) THEN 0
                                                  ELSE IF lost THEN loss_streak[c] + 1
                                                  ELSE loss_streak[c]]
    BY DEF Learn
  <2>3. losses' = [losses EXCEPT ![c] = IF status = "done" /\ pnl = "gain" THEN 0
                                        ELSE IF lost THEN losses[c] + 1 ELSE losses[c]]
    BY DEF Learn
  <2> HIDE DEF lost, disable
  <2>. QED
    BY <1>1, <2>1, <2>2, <2>3
<1>9. losses[c] <= loss_streak[c]
  BY <1>1 DEF StreakCounts, Committed
<1>10. /\ loss_streak' \in [Canonicals -> 0..LossThreshold] /\ losses' \in [Canonicals -> Nat]
       /\ loss_streak'[c] < LossThreshold
       /\ disable => losses'[c] <= LossThreshold
       /\ ~disable => losses'[c] <= loss_streak'[c]
  <2>1. losses[c] \in Nat
    BY <1>1, <1>8
  <2>2. /\ loss_streak'[c] \in 0..LossThreshold /\ loss_streak'[c] < LossThreshold
        /\ losses'[c] \in Nat
        /\ disable => losses'[c] <= LossThreshold
        /\ ~disable => losses'[c] <= loss_streak'[c]
    <3>1. StreakEnded(status, pnl) <=> status = "done" /\ pnl = "gain"
      BY DEF StreakEnded
    <3>2. CASE disable
      BY <1>8, <1>9, <2>1, <3>2
    <3>3. CASE ~disable /\ lost
      BY <1>8, <1>9, <2>1, <3>1, <3>3
    <3>4. CASE ~lost
      BY <1>8, <1>9, <2>1, <3>1, <3>4
    <3>. QED
      BY <3>2, <3>3, <3>4
  <2>3. (\E x : loss_streak' = [loss_streak EXCEPT ![c] = x]) /\ (\E x : losses' = [losses EXCEPT ![c] = x])
    BY DEF Learn
  <2>. QED
    BY <1>1, <1>8, <2>2, <2>3
<1>11. /\ nakedRest' \in [Canonicals -> Nat]
       /\ \A d \in Canonicals \ {c} : nakedRest'[d] = nakedRest[d]
       /\ nakedRest'[c] = IF status = "recovering" THEN NakedCooldown ELSE nakedRest[c]
  BY <1>1, AutomationAssumption DEF Learn, TypeOK
<1>12. TypeOK'
  <2>1. held' \in [Canonicals -> {"none"} \cup Callers]
    BY <1>1 DEF TypeOK
  <2>2. auto' \in {Idle} \cup [at : {"row", "preflight", "call", "run", "disable"},
                              c : Canonicals, cooling : BOOLEAN]
    BY <1>5
  <2>. QED
    BY <1>6, <1>7, <1>10, <1>11, <2>1, <2>2 DEF TypeOK
<1>13. RunnersHold'
  <2>1. \A d \in Canonicals : held[d] = "auto" <=> auto.at = "run" /\ auto.c = d
    BY DEF RunnersHold, Caller, Callers
  <2>2. \A d \in Canonicals : held[d] = "retry" <=> retry.at = "run" /\ retry.c = d
    BY DEF RunnersHold, Caller, Callers
  <2>3. \A d \in Canonicals : held'[d] # "auto" /\ (held'[d] = "retry" <=> held[d] = "retry")
    BY <1>1, <2>1 DEF TypeOK
  <2>. QED
    BY <1>5, <2>2, <2>3 DEF RunnersHold, Caller, Callers
<1>14. HoldIsKept'
  BY <1>5 DEF HoldIsKept, Passed
<1>15. StreakCounts'
  <2> SUFFICES ASSUME NEW d \in Canonicals
               PROVE  /\ loss_streak'[d] < LossThreshold
                      /\ \/ losses'[d] <= loss_streak'[d]
                         \/ /\ losses'[d] <= LossThreshold
                            /\ \/ auto'.at = "disable" /\ auto'.c = d
                               \/ ~row'[d] /\ ~Committed(d)'
    BY DEF StreakCounts
  <2>1. CASE d = c
    BY <1>5, <1>10, <2>1
  <2>2. CASE d # c
    BY <1>5, <1>8, <2>2 DEF StreakCounts, Committed
  <2>. QED
    BY <2>1, <2>2
<1>16. RestIsCooldown'
  <2> SUFFICES ASSUME NEW d \in Canonicals
               PROVE  nakedRest'[d] <= failed_cooldown'[d]
    BY <1>5 DEF RestIsCooldown, Committed
  <2>1. CASE d = c
    <3>1. nakedRest[c] = 0
      BY <1>1 DEF RestIsCooldown, Committed
    <3>2. failed_cooldown'[c] \in Nat /\ NakedCooldown \in Nat
      BY <1>1, <1>6, AutomationAssumption
    <3>. QED
      BY <1>6, <1>11, <2>1, <3>1, <3>2
  <2>2. CASE d # c
    BY <1>6, <1>11, <2>2 DEF RestIsCooldown
  <2>. QED
    BY <2>1, <2>2
<1>. QED
  BY <1>12, <1>13, <1>14, <1>15, <1>16

\* After an attempt the RetryScheduler is free or asleep before the next one.
LEMMA RetryGoesOn ==
    ASSUME TypeOK, retry.at # "idle", NEW status, RetryLearns(status)
    PROVE  /\ retry' \in {Idle} \cup [at : {"sleep", "call", "run"}, c : Canonicals,
                                      attempt : 1..MaxRetries, wait : Nat]
           /\ retry'.at # "run"
<1>1. /\ retry \in [at : {"sleep", "call", "run"}, c : Canonicals,
                    attempt : 1..MaxRetries, wait : Nat]
      /\ RetryDelay \in Nat /\ MaxRetries \in Nat
  BY TurnFields, AutomationAssumption
<1>2. \/ retry' = Idle
      \/ /\ retry.attempt + 1 <= MaxRetries
         /\ retry' = [retry EXCEPT !.at = "sleep", !.attempt = retry.attempt + 1, !.wait = RetryDelay]
  BY <1>1 DEF RetryLearns, Sleeping
<1>3. retry.attempt + 1 <= MaxRetries => retry.attempt + 1 \in 1..MaxRetries
  BY <1>1
<1>4. CASE retry' = Idle
  BY <1>4 DEF Idle
<1>5. CASE /\ retry.attempt + 1 <= MaxRetries
           /\ retry' = [retry EXCEPT !.at = "sleep", !.attempt = retry.attempt + 1, !.wait = RetryDelay]
  <2>1. retry.attempt + 1 \in 1..MaxRetries
    BY <1>3, <1>5
  <2>. QED
    BY <1>1, <1>5, <2>1
<1>. QED
  BY <1>2, <1>4, <1>5

\* A turn goes on as far as the row and the cooldown let it; everything else that
\* is counted rests.
LEMMA AccountsRest ==
    ASSUME IInv, UNCHANGED <<row, failed_cooldown, loss_streak, losses, sinceHold, nakedRest>>,
           \/ auto' = auto
           \/ /\ auto.at # "disable"
              /\ \A c \in Canonicals :
                    /\ Passed(c)' => Passed(c) \/ row[c]
                    /\ Committed(c)' => Committed(c) \/ row[c]
                    /\ Committed(c)' \/ (auto'.at = "row" /\ ~auto'.cooling /\ auto'.c = c)
                         => \/ Committed(c) \/ (auto.at = "row" /\ ~auto.cooling /\ auto.c = c)
                            \/ failed_cooldown[c] = 0
    PROVE  HoldIsKept' /\ StreakCounts' /\ RestIsCooldown'
<1>1. CASE auto' = auto
  BY <1>1 DEF IInv, HoldIsKept, StreakCounts, RestIsCooldown, Passed, Committed
<1>2. CASE auto' # auto
  <2>1. HoldIsKept'
    BY <1>2 DEF IInv, HoldIsKept
  <2>2. StreakCounts'
    BY <1>2 DEF IInv, StreakCounts
  <2>3. RestIsCooldown'
    <3>1. \A c \in Canonicals : nakedRest[c] \in Nat /\ nakedRest[c] <= failed_cooldown[c]
      BY DEF IInv, TypeOK, RestIsCooldown
    <3>2. \A c \in Canonicals : failed_cooldown[c] = 0 => nakedRest[c] = 0
      BY <3>1
    <3>. QED
      BY <1>2, <3>1, <3>2 DEF IInv, RestIsCooldown
  <2>. QED
    BY <2>1, <2>2, <2>3
<1>. QED
  BY <1>1, <1>2

\* An execution of c has the lock of c to itself from Begin to its end.
LEMMA LockMoves ==
    ASSUME IInv, NEW t \in Callers, NEW d \in Canonicals,
           \/ /\ held[d] = "none" /\ held' = [held EXCEPT ![d] = t]
              /\ Caller(t).at # "run" /\ Caller(t)'.at = "run" /\ Caller(t)'.c = d
           \/ /\ held' = [held EXCEPT ![d] = "none"]
              /\ Caller(t).at = "run" /\ Caller(t).c = d /\ Caller(t)'.at # "run",
           \A u \in Callers : u # t => Caller(u)' = Caller(u)
    PROVE  RunnersHold' /\ held' \in [Canonicals -> {"none"} \cup Callers]
<1>1. held \in [Canonicals -> {"none"} \cup Callers] /\ t # "none"
  BY DEF IInv, TypeOK, Callers
<1>2. held' \in [Canonicals -> {"none"} \cup Callers]
  BY <1>1
<1>3. ASSUME NEW u \in Callers, NEW c \in Canonicals
      PROVE  held'[c] = u <=> Caller(u)'.at = "run" /\ Caller(u)'.c = c
  <2>1. /\ held[c] = u <=> Caller(u).at = "run" /\ Caller(u).c = c
        /\ held[c] = t <=> Caller(t).at = "run" /\ Caller(t).c = c
        /\ u # "none"
    BY <1>3 DEF IInv, RunnersHold, Callers
  <2>2. CASE u = t
    BY <1>1, <1>3, <2>1, <2>2
  <2>3. CASE u # t
    BY <1>1, <1>3, <2>1, <2>3
  <2>. QED
    BY <2>2, <2>3
<1>. QED
  BY <1>2, <1>3 DEF RunnersHold

\* Init and every step of the drivers, of the writers of a row and of time keep
\* the invariant, and with it: every variable of the drivers keeps its type.
\* However the row is written meanwhile, and whether or not the write that
\* disables it succeeds, a market is stopped after LossThreshold losing round trips without a gain; holding a market
\* lets at most the one execution through that had passed the row; and the
\* AutoExecutor and the RetryScheduler never run the same canonical id together:
\* the lock has one holder, whoever runs holds it, and an exception releases it.
THEOREM MarketsAreGuarded ==
    Spec => [](IInv /\ TypeOK /\ LossStreakStops /\ OneAfterHold /\ OneExecution)
<1>1. Init => IInv
  <2> SUFFICES ASSUME Init PROVE IInv
    OBVIOUS
  <2>1. auto.at = "idle" /\ retry.at = "idle"
    BY DEF Init, Idle
  <2>2. TypeOK
    <3>1. /\ failed_count \in [Canonicals -> 0..MaxCount]
          /\ loss_streak \in [Canonicals -> 0..LossThreshold]
      BY AutomationAssumption DEF Init
    <3>2. /\ row \in [Canonicals -> BOOLEAN] /\ held \in [Canonicals -> {"none"} \cup Callers]
          /\ approved \in Seq(Canonicals) /\ retryQ \in Seq(Published)
      BY DEF Init
    <3>3. /\ failed_cooldown \in [Canonicals -> Nat] /\ signature \in [Canonicals -> Nat]
          /\ rejected \in [Canonicals -> Nat] /\ losses \in [Canonicals -> Nat]
          /\ sinceHold \in [Canonicals -> Nat] /\ nakedRest \in [Canonicals -> Nat]
      BY DEF Init
    <3>. QED
      BY <3>1, <3>2, <3>3 DEF Init, TypeOK
  <2>3. RunnersHold
    BY <2>1 DEF Init, RunnersHold, Caller, Callers
  <2>4. HoldIsKept
    BY DEF Init, HoldIsKept
  <2>5. StreakCounts
    BY AutomationAssumption DEF Init, StreakCounts
  <2>6. RestIsCooldown
    BY <2>1 DEF Init, RestIsCooldown, Committed
  <2>. QED
    BY <2>2, <2>3, <2>4, <2>5, <2>6 DEF IInv
<1>2. IInv /\ [Next]_vars => IInv'
  <2> SUFFICES ASSUME IInv, [Next]_vars PROVE IInv'
    OBVIOUS
  <2>1. ASSUME NEW c \in Canonicals, Offer(c) \/ ReviewRead(c) PROVE IInv'
    <3>1. UNCHANGED <<executor, engine, retryQ, scheduler, account, row, armed>>
      BY <2>1 DEF Offer, ReviewRead, mapping
    <3>2. approved' \in Seq(Canonicals)
      <4>1. approved \in Seq(Canonicals) /\ Append(approved, c) \in Seq(Canonicals)
        BY DEF IInv, TypeOK
      <4>. QED
        BY <2>1, <4>1 DEF Offer, ReviewRead
    <3>3. review' \in {Idle} \cup [at : {"write"}, c : Canonicals, allow : BOOLEAN]
      BY <2>1 DEF Offer, ReviewRead, IInv, TypeOK, mapping
    <3>4. TypeOK'
      BY <3>1, <3>2, <3>3 DEF IInv, TypeOK, executor, engine, scheduler, account
    <3>5. RunnersHold'
      BY <3>1 DEF IInv, RunnersHold, Caller, executor, engine, scheduler
    <3>. QED
      BY <3>1, <3>4, <3>5, AccountsRest DEF IInv, executor, account
  <2>2. ASSUME NEW c \in Canonicals, NEW allow \in BOOLEAN, OperatorWrite(c, allow) PROVE IInv'
    BY <2>2, WriteIsSafe DEF OperatorWrite, executor, engine, scheduler
  <2>3. CASE ReviewWrite
    <3>1. review.c \in Canonicals /\ review.allow \in BOOLEAN
      BY <2>3 DEF ReviewWrite, IInv, TypeOK, Idle
    <3>. QED
      BY <2>3, <3>1, WriteIsSafe DEF ReviewWrite, executor, engine, scheduler
  <2>4. CASE Switch
    <3>1. TypeOK' /\ RunnersHold'
      BY <2>4 DEF Switch, IInv, TypeOK, RunnersHold, Caller, mapping, executor, engine, scheduler, account
    <3>. QED
      BY <2>4, <3>1, AccountsRest DEF Switch, IInv, mapping, executor, account
  <2>5. CASE Take
    <3>1. /\ auto.at = "idle"
          /\ UNCHANGED <<armed, row, review, failed_cooldown, failed_count, loss_streak, held, signature,
                         retryQ, retry, rejected, losses, sinceHold, nakedRest>>
      BY <2>5 DEF Take, Idle, mapping, engine, scheduler, account
    <3>2. approved' \in Seq(Canonicals) /\ Head(approved) \in Canonicals
      BY <2>5 DEF Take, IInv, TypeOK
    <3> DEFINE cooling == failed_cooldown[Head(approved)] > 0
    <3>3. /\ cooling \in BOOLEAN
          /\ auto' = Idle \/ auto' = [at |-> "row", c |-> Head(approved), cooling |-> cooling]
      BY <2>5 DEF Take
    <3>7. ~auto'.cooling /\ auto'.at = "row" => failed_cooldown[auto'.c] = 0
      <4>1. failed_cooldown[Head(approved)] \in Nat
        BY <3>2 DEF IInv, TypeOK
      <4>2. ~cooling => failed_cooldown[Head(approved)] = 0
        BY <4>1
      <4> HIDE DEF cooling
      <4>. QED
        BY <3>3, <4>2 DEF Idle
    <3> HIDE DEF cooling
    <3>4. TypeOK'
      <4>1. auto' \in {Idle} \cup [at : {"row", "preflight", "call", "run", "disable"},
                                  c : Canonicals, cooling : BOOLEAN]
        BY <3>2, <3>3
      <4>. QED
        BY <3>1, <3>2, <4>1 DEF IInv, TypeOK
    <3>5. auto'.at \in {"idle", "row"}
      BY <3>3 DEF Idle
    <3>6. RunnersHold'
      BY <3>1, <3>5 DEF IInv, RunnersHold, Caller
    <3>. QED
      BY <3>1, <3>4, <3>5, <3>6, <3>7, AccountsRest DEF IInv, Passed, Committed
  <2>6. CASE ReadRow
    <3>1. /\ auto.at = "row" /\ auto' \in {Idle, [auto EXCEPT !.at = "preflight"]}
          /\ UNCHANGED <<armed, row, review, approved, failed_cooldown, failed_count, loss_streak, held,
                         signature, retryQ, retry, rejected, losses, sinceHold, nakedRest>>
          /\ auto' # Idle => row[auto.c] /\ ~auto.cooling
      BY <2>6 DEF ReadRow, RowAllows, mapping, engine, scheduler, account
    <3>2. auto \in [at : {"row", "preflight", "call", "run", "disable"}, c : Canonicals, cooling : BOOLEAN]
      BY <3>1, TurnFields DEF IInv
    <3>3. /\ auto' \in {Idle} \cup [at : {"row", "preflight", "call", "run", "disable"},
                                   c : Canonicals, cooling : BOOLEAN]
          /\ auto'.at \in {"idle", "preflight"}
          /\ auto'.at = "preflight" => auto' # Idle /\ auto'.c = auto.c
      BY <3>1, <3>2 DEF Idle
    <3>4. TypeOK'
      BY <3>1, <3>3 DEF IInv, TypeOK
    <3>5. RunnersHold'
      BY <3>1, <3>3 DEF IInv, RunnersHold, Caller
    <3>. QED
      BY <3>1, <3>3, <3>4, <3>5, AccountsRest DEF IInv, Passed, Committed
  <2>7. CASE Preflight
    <3>1. /\ auto.at = "preflight" /\ auto' \in {Idle, [auto EXCEPT !.at = "call"]}
          /\ UNCHANGED <<armed, row, review, approved, failed_cooldown, failed_count, loss_streak, held,
                         signature, retryQ, retry, rejected, losses, sinceHold, nakedRest>>
      BY <2>7 DEF Preflight, mapping, engine, scheduler, account
    <3>2. auto \in [at : {"row", "preflight", "call", "run", "disable"}, c : Canonicals, cooling : BOOLEAN]
      BY <3>1, TurnFields DEF IInv
    <3>3. /\ auto' \in {Idle} \cup [at : {"row", "preflight", "call", "run", "disable"},
                                   c : Canonicals, cooling : BOOLEAN]
          /\ auto'.at \in {"idle", "call"}
          /\ auto'.at = "call" => auto'.c = auto.c
      BY <3>1, <3>2 DEF Idle
    <3>4. TypeOK'
      BY <3>1, <3>3 DEF IInv, TypeOK
    <3>5. RunnersHold'
      BY <3>1, <3>3 DEF IInv, RunnersHold, Caller
    <3>. QED
      BY <3>1, <3>3, <3>4, <3>5, AccountsRest DEF IInv, Passed, Committed
  <2>8. CASE Disable
    <3>1. auto.at = "disable" /\ auto.c \in Canonicals /\ auto' = Idle
      BY <2>8, TurnFields DEF Disable, IInv
    <3>2. CASE Write(auto.c, FALSE)
      BY <2>8, <3>1, <3>2, WriteIsSafe DEF Disable, engine, scheduler
    <3>3. CASE /\ losses' = [losses EXCEPT ![auto.c] = 0]
               /\ UNCHANGED <<row, sinceHold>>
      <4>1. UNCHANGED <<armed, review, approved, failed_cooldown, failed_count, loss_streak, held,
                        signature, retryQ, retry, rejected, nakedRest>>
        BY <2>8 DEF Disable, engine, scheduler
      <4>2. /\ losses' \in [Canonicals -> Nat] /\ losses'[auto.c] = 0
            /\ \A d \in Canonicals \ {auto.c} : losses'[d] = losses[d]
        BY <3>1, <3>3 DEF IInv, TypeOK
      <4>3. auto'.at = "idle"
        BY <3>1 DEF Idle
      <4>4. TypeOK'
        BY <3>1, <3>3, <4>1, <4>2 DEF IInv, TypeOK
      <4>5. RunnersHold' /\ HoldIsKept' /\ RestIsCooldown'
        BY <3>1, <3>3, <4>1, <4>3
           DEF IInv, RunnersHold, Caller, HoldIsKept, RestIsCooldown, Passed, Committed
      <4>6. StreakCounts'
        <5> SUFFICES ASSUME NEW d \in Canonicals
                     PROVE  /\ loss_streak[d] < LossThreshold
                            /\ \/ losses'[d] <= loss_streak[d]
                               \/ losses'[d] <= LossThreshold /\ ~row[d] /\ ~Committed(d)'
          BY <3>3, <4>1 DEF StreakCounts
        <5>1. loss_streak[d] \in Nat
          BY DEF IInv, TypeOK
        <5>2. CASE d = auto.c
          BY <4>2, <5>1, <5>2 DEF IInv, StreakCounts
        <5>3. CASE d # auto.c
          BY <4>2, <4>3, <5>3 DEF IInv, StreakCounts, Committed
        <5>. QED
          BY <5>2, <5>3
      <4>. QED
        BY <4>4, <4>5, <4>6 DEF IInv
    <3>. QED
      BY <2>8, <3>2, <3>3 DEF Disable
  <2>9. ASSUME NEW t \in Callers, Begin(t) PROVE IInv'
    <3> DEFINE c == Caller(t).c
    <3>1. /\ Caller(t).at = "call"
          /\ c \in Canonicals
          /\ held[c] = "none" /\ held' = [held EXCEPT ![c] = t]
          /\ UNCHANGED <<armed, row, review, approved, failed_cooldown, failed_count, loss_streak,
                         retryQ, rejected, losses, nakedRest>>
      BY <2>9, TurnFields DEF Begin, Free, Caller, IInv, mapping
    <3>2. signature' \in [Canonicals -> Nat]
      <4>1. signature \in [Canonicals -> Nat] /\ DedupWindow \in Nat
        BY AutomationAssumption DEF IInv, TypeOK
      <4>2. signature' = [signature EXCEPT ![c] = DedupWindow]
        BY <2>9 DEF Begin
      <4>. QED
        BY <3>1, <4>1, <4>2
    <3>3. CASE t = "auto"
      <4>1. /\ auto' = [auto EXCEPT !.at = "run"] /\ retry' = retry
            /\ c = auto.c /\ auto.at = "call"
            /\ auto \in [at : {"row", "preflight", "call", "run", "disable"},
                         c : Canonicals, cooling : BOOLEAN]
        BY <2>9, <3>1, <3>3, TurnFields DEF Begin, Caller, IInv
      <4>2. /\ auto'.at = "run" /\ auto'.c = c
            /\ auto' \in [at : {"row", "preflight", "call", "run", "disable"},
                          c : Canonicals, cooling : BOOLEAN]
        BY <4>1
      <4>3. RunnersHold' /\ held' \in [Canonicals -> {"none"} \cup Callers]
        <5>1. Caller(t)'.at = "run" /\ Caller(t)'.c = c
          BY <3>3, <4>2 DEF Caller
        <5>2. \A u \in Callers : u # t => Caller(u)' = Caller(u)
          BY <3>3, <4>1 DEF Caller
        <5>. QED
          BY <3>1, <5>1, <5>2, LockMoves
      <4>4. sinceHold[c] = 0
        BY <3>1, <4>1 DEF IInv, HoldIsKept, Passed
      <4>5. /\ sinceHold \in [Canonicals -> Nat]
            /\ sinceHold' = IF ~row[c] THEN [sinceHold EXCEPT ![c] = LeastOf(@ + 1, 2)] ELSE sinceHold
        BY <2>9, <3>3 DEF Begin, IInv, TypeOK
      <4>6. /\ sinceHold' \in [Canonicals -> Nat]
            /\ \A d \in Canonicals \ {c} : sinceHold'[d] = sinceHold[d]
            /\ sinceHold'[c] \in {0, 1}
            /\ sinceHold'[c] = 1 => ~row[c]
        <5>1. LeastOf(sinceHold[c] + 1, 2) = 1
          BY <4>4 DEF LeastOf
        <5>. QED
          BY <3>1, <4>4, <4>5, <5>1
      <4>7. TypeOK'
        BY <3>1, <3>2, <4>1, <4>2, <4>3, <4>6 DEF IInv, TypeOK
      <4>8. HoldIsKept'
        <5> SUFFICES ASSUME NEW d \in Canonicals
                     PROVE  /\ sinceHold'[d] \in {0, 1}
                            /\ sinceHold'[d] = 1 => ~row[d] /\ ~Passed(d)'
          BY <3>1 DEF HoldIsKept
        <5>1. ~Passed(d)'
          BY <4>2 DEF Passed
        <5>2. CASE d = c
          BY <4>6, <5>1, <5>2
        <5>3. CASE d # c
          BY <4>6, <5>1, <5>3 DEF IInv, HoldIsKept
        <5>. QED
          BY <5>2, <5>3
      <4>9. \A d \in Canonicals : Committed(d)' <=> Committed(d)
        BY <4>1, <4>2 DEF Committed
      <4>10. StreakCounts' /\ RestIsCooldown'
        BY <3>1, <4>1, <4>2, <4>9 DEF IInv, StreakCounts, RestIsCooldown
      <4>. QED
        BY <4>3, <4>7, <4>8, <4>10 DEF IInv
    <3>4. CASE t = "retry"
      <4>1. /\ retry' = [retry EXCEPT !.at = "run"] /\ auto' = auto /\ sinceHold' = sinceHold
            /\ c = retry.c /\ retry.at = "call"
            /\ retry \in [at : {"sleep", "call", "run"}, c : Canonicals,
                          attempt : 1..MaxRetries, wait : Nat]
        BY <2>9, <3>1, <3>4, TurnFields DEF Begin, Caller, IInv
      <4>2. /\ retry'.at = "run" /\ retry'.c = c
            /\ retry' \in [at : {"sleep", "call", "run"}, c : Canonicals,
                           attempt : 1..MaxRetries, wait : Nat]
        BY <4>1
      <4>3. RunnersHold' /\ held' \in [Canonicals -> {"none"} \cup Callers]
        <5>1. Caller(t)'.at = "run" /\ Caller(t)'.c = c
          BY <3>4, <4>2 DEF Caller
        <5>2. \A u \in Callers : u # t => Caller(u)' = Caller(u)
          BY <3>4, <4>1 DEF Caller, Callers
        <5>. QED
          BY <3>1, <5>1, <5>2, LockMoves
      <4>4. TypeOK'
        BY <3>1, <3>2, <4>1, <4>2, <4>3 DEF IInv, TypeOK
      <4>. QED
        BY <3>1, <4>1, <4>3, <4>4, AccountsRest DEF IInv
    <3>. QED
      BY <3>3, <3>4 DEF Callers
  <2>10. ASSUME NEW t \in Callers, Refuse(t) PROVE IInv'
    <3>1. /\ Caller(t).at = "call" /\ Caller(t).c \in Canonicals
          /\ UNCHANGED <<armed, row, review, approved, held, retryQ, rejected, sinceHold>>
      BY <2>10, TurnFields DEF Refuse, Caller, IInv, mapping
    <3>2. signature' \in [Canonicals -> Nat]
      <4>1. signature \in [Canonicals -> Nat] /\ DedupWindow \in Nat
        BY AutomationAssumption DEF IInv, TypeOK
      <4>2. signature' = signature \/ signature' = [signature EXCEPT ![Caller(t).c] = DedupWindow]
        BY <2>10 DEF Refuse
      <4>. QED
        BY <3>1, <4>1, <4>2
    <3>3. CASE t = "auto"
      <4>1. Learn(auto.c, "none", "flat") /\ auto.at = "call" /\ retry' = retry
        BY <2>10, <3>1, <3>3 DEF Refuse, Caller
      <4>2. retryQ' \in Seq(Published)
        BY <3>1 DEF IInv, TypeOK
      <4>. QED
        BY <3>1, <3>2, <4>1, <4>2, LearnIsSafe
    <3>4. CASE t = "retry"
      <4>1. /\ RetryLearns("none") /\ retry.at = "call"
            /\ UNCHANGED <<auto, failed_cooldown, failed_count, loss_streak, losses, nakedRest>>
        BY <2>10, <3>1, <3>4 DEF Refuse, Caller
      <4>2. /\ retry' \in {Idle} \cup [at : {"sleep", "call", "run"}, c : Canonicals,
                                       attempt : 1..MaxRetries, wait : Nat]
            /\ retry'.at # "run"
        BY <4>1, RetryGoesOn DEF IInv
      <4>3. TypeOK'
        BY <3>1, <3>2, <4>1, <4>2 DEF IInv, TypeOK
      <4>4. RunnersHold'
        BY <3>1, <4>1, <4>2 DEF IInv, RunnersHold, Caller
      <4>. QED
        BY <3>1, <4>1, <4>3, <4>4, AccountsRest DEF IInv
    <3>. QED
      BY <3>3, <3>4 DEF Callers
  <2>11. ASSUME NEW t \in Callers, Finish(t) PROVE IInv'
    <3>1. /\ Caller(t).at = "run" /\ Caller(t).c \in Canonicals
          /\ held' = [held EXCEPT ![Caller(t).c] = "none"]
          /\ UNCHANGED <<armed, row, review, approved, signature, rejected, sinceHold>>
      BY <2>11, TurnFields DEF Finish, Caller, IInv, mapping
    <3>2. PICK o \in Outcomes :
            /\ retryQ' = Publish(retryQ, [c |-> Caller(t).c, status |-> o[1]])
            /\ IF t = "auto"
               THEN Learn(Caller(t).c, o[1], o[2]) /\ UNCHANGED retry
               ELSE /\ RetryLearns(o[1])
                    /\ UNCHANGED <<auto, failed_cooldown, failed_count, loss_streak,
                                   losses, nakedRest>>
      BY <2>11 DEF Finish
    <3>3. retryQ' \in Seq(Published) /\ signature' \in [Canonicals -> Nat]
      <4>1. o[1] \in {"done", "failed", "recovering"}
        BY <3>2 DEF Outcomes
      <4>2. [c |-> Caller(t).c, status |-> o[1]] \in Published
        BY <3>1, <4>1 DEF Published
      <4>3. retryQ \in Seq(Published) /\ signature \in [Canonicals -> Nat]
        BY DEF IInv, TypeOK
      <4>. QED
        BY <3>1, <3>2, <4>2, <4>3 DEF Publish
    <3>4. CASE t = "auto"
      <4>1. Learn(auto.c, o[1], o[2]) /\ auto.at = "run" /\ retry' = retry
        BY <3>1, <3>2, <3>4 DEF Caller
      <4>2. held' = [held EXCEPT ![auto.c] = "none"]
        BY <3>1, <3>4 DEF Caller
      <4>. QED
        BY <3>1, <3>3, <4>1, <4>2, LearnIsSafe
    <3>5. CASE t = "retry"
      <4>1. /\ RetryLearns(o[1]) /\ retry.at = "run"
            /\ UNCHANGED <<auto, failed_cooldown, failed_count, loss_streak, losses, nakedRest>>
        BY <3>1, <3>2, <3>5 DEF Caller
      <4>2. /\ retry' \in {Idle} \cup [at : {"sleep", "call", "run"}, c : Canonicals,
                                       attempt : 1..MaxRetries, wait : Nat]
            /\ retry'.at # "run"
        BY <4>1, RetryGoesOn DEF IInv
      <4>3. RunnersHold' /\ held' \in [Canonicals -> {"none"} \cup Callers]
        <5>1. Caller(t)'.at # "run"
          BY <3>5, <4>2 DEF Caller
        <5>2. \A u \in Callers : u # t => Caller(u)' = Caller(u)
          BY <3>5, <4>1 DEF Caller, Callers
        <5>. QED
          BY <3>1, <5>1, <5>2, LockMoves
      <4>4. TypeOK'
        BY <3>1, <3>3, <4>1, <4>2, <4>3 DEF IInv, TypeOK
      <4>. QED
        BY <3>1, <4>1, <4>3, <4>4, AccountsRest DEF IInv
    <3>. QED
      BY <3>4, <3>5 DEF Callers
  <2>12. ASSUME NEW t \in Callers, Raise(t) PROVE IInv'
    <3>1. /\ Caller(t).at = "run" /\ Caller(t).c \in Canonicals
          /\ held' = [held EXCEPT ![Caller(t).c] = "none"]
          /\ UNCHANGED <<armed, row, review, approved, failed_cooldown, failed_count, loss_streak,
                         signature, retryQ, rejected, losses, sinceHold, nakedRest>>
      BY <2>12, TurnFields DEF Raise, Release, Caller, IInv, mapping, account
    <3>2. /\ auto' = auto \/ (auto' = Idle /\ auto.at = "run")
          /\ retry' \in {Idle} \cup [at : {"sleep", "call", "run"}, c : Canonicals,
                                     attempt : 1..MaxRetries, wait : Nat]
          /\ t = "auto" => auto' = Idle /\ retry' = retry
          /\ t = "retry" => auto' = auto /\ retry'.at # "run"
      <4>1. CASE t = "auto"
        BY <2>12, <3>1, <4>1 DEF Raise, Caller, IInv, TypeOK
      <4>2. CASE t = "retry"
        <5>1. RetryLearns("raised") /\ auto' = auto /\ retry.at = "run"
          BY <2>12, <4>2 DEF Raise, Caller
        <5>2. /\ retry' \in {Idle} \cup [at : {"sleep", "call", "run"}, c : Canonicals,
                                         attempt : 1..MaxRetries, wait : Nat]
              /\ retry'.at # "run"
          BY <5>1, RetryGoesOn DEF IInv
        <5>3. t # "auto" /\ auto' = auto
          BY <4>2, <5>1
        <5>. QED
          BY <5>2, <5>3
      <4>. QED
        BY <4>1, <4>2 DEF Callers
    <3>5. Caller(t)'.at # "run" /\ \A u \in Callers : u # t => Caller(u)' = Caller(u)
      BY <3>2 DEF Caller, Callers, Idle
    <3>3. RunnersHold' /\ held' \in [Canonicals -> {"none"} \cup Callers]
      BY <3>1, <3>5, LockMoves
    <3>4. TypeOK'
      BY <3>1, <3>2, <3>3 DEF IInv, TypeOK
    <3>. QED
      BY <3>1, <3>2, <3>3, <3>4, AccountsRest DEF IInv, Passed, Committed, Idle
  <2>13. CASE RetryTake \/ RetryWake
    <3>1. UNCHANGED <<armed, row, review, approved, auto, failed_cooldown, failed_count, loss_streak,
                      held, signature, losses, sinceHold, nakedRest>>
      BY <2>13 DEF RetryTake, RetryWake, mapping, executor, engine, account
    <3>2. /\ retryQ' \in Seq(Published) /\ rejected' \in [Canonicals -> Nat]
          /\ retry.at # "run" /\ retry'.at # "run"
          /\ retry' \in {Idle} \cup [at : {"sleep", "call", "run"}, c : Canonicals,
                                     attempt : 1..MaxRetries, wait : Nat]
      <4>1. /\ retryQ \in Seq(Published) /\ rejected \in [Canonicals -> Nat]
            /\ RetryDelay \in Nat /\ RejectedCooldown \in Nat /\ MaxRetries \in Nat
        BY AutomationAssumption DEF IInv, TypeOK
      <4>2. CASE RetryTake
        <5> DEFINE e == Head(retryQ)
        <5>1. /\ retry = Idle /\ retry.at = "idle" /\ retryQ' \in Seq(Published)
              /\ e.c \in Canonicals
          <6>1. retry = Idle /\ retryQ # << >> /\ retryQ' = Tail(retryQ)
            BY <4>2 DEF RetryTake
          <6>2. e \in Published /\ retryQ' \in Seq(Published)
            BY <4>1, <6>1
          <6>. QED
            BY <6>1, <6>2 DEF Idle, Published
        <5>2. \/ retry' = Idle /\ rejected' = rejected
              \/ /\ rejected' = [rejected EXCEPT ![e.c] = RejectedCooldown]
                 /\ \/ retry' = Idle
                    \/ /\ MaxRetries # 0
                       /\ retry' = [at |-> "sleep", c |-> e.c, attempt |-> 1, wait |-> RetryDelay]
          BY <4>2, <5>1 DEF RetryTake, scheduler
        <5>3. rejected' \in [Canonicals -> Nat]
          BY <4>1, <5>1, <5>2
        <5>4. MaxRetries # 0 => 1 \in 1..MaxRetries
          BY <4>1
        <5> HIDE DEF e
        <5>5. \/ retry' = Idle
              \/ /\ retry'.at = "sleep"
                 /\ retry' \in [at : {"sleep", "call", "run"}, c : Canonicals,
                                attempt : 1..MaxRetries, wait : Nat]
          BY <4>1, <5>1, <5>2, <5>4
        <5>. QED
          BY <5>1, <5>3, <5>5 DEF Idle
      <4>3. CASE RetryWake
        <5>1. /\ retry.at = "sleep" /\ retry' \in {Idle, [retry EXCEPT !.at = "call"]}
              /\ UNCHANGED <<retryQ, rejected>>
          BY <4>3 DEF RetryWake
        <5>2. retry \in [at : {"sleep", "call", "run"}, c : Canonicals,
                         attempt : 1..MaxRetries, wait : Nat]
          BY <5>1, TurnFields DEF IInv
        <5>. QED
          BY <4>1, <5>1, <5>2 DEF Idle
      <4>. QED
        BY <2>13, <4>2, <4>3
    <3>3. TypeOK'
      BY <3>1, <3>2 DEF IInv, TypeOK
    <3>4. RunnersHold'
      BY <3>1, <3>2 DEF IInv, RunnersHold, Caller
    <3>. QED
      BY <3>1, <3>3, <3>4, AccountsRest DEF IInv
  <2>14. CASE Tick
    <3>1. /\ UNCHANGED <<armed, row, review, approved, auto, failed_count, loss_streak, held,
                         retryQ, losses, sinceHold>>
          /\ failed_cooldown' = Less1(failed_cooldown) /\ signature' = Less1(signature)
          /\ rejected' = Less1(rejected) /\ nakedRest' = Less1(nakedRest)
      BY <2>14 DEF Tick, mapping
    <3>2. ASSUME NEW timer \in [Canonicals -> Nat]
          PROVE  /\ Less1(timer) \in [Canonicals -> Nat]
                 /\ \A c \in Canonicals : Less1(timer)[c] = IF timer[c] > 0 THEN timer[c] - 1 ELSE 0
      BY DEF Less1
    <3>3. /\ failed_cooldown \in [Canonicals -> Nat] /\ signature \in [Canonicals -> Nat]
          /\ rejected \in [Canonicals -> Nat] /\ nakedRest \in [Canonicals -> Nat]
      BY DEF IInv, TypeOK
    <3>4. /\ retry' \in {Idle} \cup [at : {"sleep", "call", "run"}, c : Canonicals,
                                     attempt : 1..MaxRetries, wait : Nat]
          /\ retry'.at = retry.at
          /\ retry.at = "run" => retry' = retry
      <4>1. CASE retry.at = "sleep" /\ retry.wait > 0
        <5>1. /\ retry \in [at : {"sleep", "call", "run"}, c : Canonicals,
                            attempt : 1..MaxRetries, wait : Nat]
              /\ retry' = [retry EXCEPT !.wait = retry.wait - 1]
          BY <2>14, <4>1, TurnFields DEF Tick, IInv
        <5>2. retry.wait - 1 \in Nat
          BY <4>1, <5>1
        <5>. QED
          BY <4>1, <5>1, <5>2
      <4>2. CASE ~(retry.at = "sleep" /\ retry.wait > 0)
        BY <2>14, <4>2 DEF Tick, IInv, TypeOK
      <4>. QED
        BY <4>1, <4>2
    <3>5. TypeOK'
      <4>1. /\ failed_cooldown' \in [Canonicals -> Nat] /\ signature' \in [Canonicals -> Nat]
            /\ rejected' \in [Canonicals -> Nat] /\ nakedRest' \in [Canonicals -> Nat]
        BY <3>1, <3>2, <3>3
      <4>. QED
        BY <3>1, <3>4, <4>1 DEF IInv, TypeOK
    <3>6. RunnersHold'
      BY <3>1, <3>4 DEF IInv, RunnersHold, Caller
    <3>7. HoldIsKept' /\ StreakCounts'
      BY <3>1 DEF IInv, HoldIsKept, StreakCounts, Passed, Committed
    <3>8. RestIsCooldown'
      <4> SUFFICES ASSUME NEW c \in Canonicals
                   PROVE  /\ nakedRest'[c] <= failed_cooldown'[c]
                          /\ nakedRest[c] = 0 => nakedRest'[c] = 0
        BY <3>1 DEF IInv, RestIsCooldown, Committed
      <4>1. /\ nakedRest'[c] = IF nakedRest[c] > 0 THEN nakedRest[c] - 1 ELSE 0
            /\ failed_cooldown'[c] = IF failed_cooldown[c] > 0 THEN failed_cooldown[c] - 1 ELSE 0
            /\ nakedRest[c] \in Nat /\ failed_cooldown[c] \in Nat
        BY <3>1, <3>2, <3>3
      <4>2. nakedRest[c] <= failed_cooldown[c]
        BY DEF IInv, RestIsCooldown
      <4>. QED
        BY <4>1, <4>2
    <3>. QED
      BY <3>5, <3>6, <3>7, <3>8 DEF IInv
  <2>15. CASE UNCHANGED vars
    BY <2>15 DEF vars, IInv, TypeOK, RunnersHold, Caller, HoldIsKept, StreakCounts, RestIsCooldown, Passed, Committed
  <2>. QED
    BY <2>1, <2>2, <2>3, <2>4, <2>5, <2>6, <2>7, <2>8, <2>9, <2>10, <2>11, <2>12, <2>13, <2>14, <2>15
       DEF Next, Execute
<1>3. IInv => TypeOK
  BY DEF IInv
<1>4. IInv => LossStreakStops
  <2> SUFFICES ASSUME IInv, NEW c \in Canonicals PROVE losses[c] <= LossThreshold
    BY DEF LossStreakStops
  <2>1. losses[c] \in Nat /\ loss_streak[c] \in Nat /\ LossThreshold \in Nat
    BY AutomationAssumption DEF IInv, TypeOK
  <2>. QED
    BY <2>1 DEF IInv, StreakCounts
<1>5. IInv => OneAfterHold
  BY DEF IInv, HoldIsKept, OneAfterHold
<1>6. IInv => OneExecution
  <2> SUFFICES ASSUME IInv, auto.at = "run", retry.at = "run", auto.c = retry.c PROVE FALSE
    BY DEF OneExecution
  <2>1. auto.c \in Canonicals
    BY TurnFields DEF IInv
  <2>2. held[auto.c] = "auto" /\ held[auto.c] = "retry"
    BY <2>1 DEF IInv, RunnersHold, Caller, Callers
  <2>. QED
    BY <2>2
<1>. QED
  BY <1>1, <1>2, <1>3, <1>4, <1>5, <1>6, PTL DEF Spec

-----------------------------------------------------------------------------
\* The AutoExecutor begins nothing in a market before the rest after the last naked
\* round trip it learnt of is over, however short its backoff is.
THEOREM NakedMarketsRest == Spec => NakedMarketRests
<1>1. IInv /\ [Next]_vars => [\A c \in Canonicals : held[c] = "none" /\ held'[c] = "auto"
                                                   => nakedRest[c] = 0]_vars
  <2> SUFFICES ASSUME IInv, [Next]_vars, NEW c \in Canonicals,
                      held[c] = "none", held'[c] = "auto"
               PROVE  nakedRest[c] = 0
    OBVIOUS
  <2>1. PICK t \in Callers : Begin(t)
    <3>1. ~UNCHANGED vars /\ held' # held
      BY DEF vars
    <3>2. held'[c] # held[c] /\ held[c] = "none" /\ held'[c] # "none"
      OBVIOUS
    <3>3. held \in [Canonicals -> {"none"} \cup Callers]
      BY DEF IInv, TypeOK
    <3>4. ~(\E d : held' = [held EXCEPT ![d] = "none"])
      BY <3>2, <3>3
    <3>5. ASSUME NEW t \in Callers PROVE ~Refuse(t) /\ ~Finish(t) /\ ~Raise(t)
      BY <3>1, <3>4 DEF Refuse, Finish, Raise, Release
    <3>6. /\ ~Take /\ ~ReadRow /\ ~Preflight /\ ~Disable /\ ~RetryTake /\ ~RetryWake /\ ~Tick
          /\ ~ReviewWrite /\ ~Switch
          /\ \A d \in Canonicals : ~Offer(d) /\ ~ReviewRead(d)
          /\ \A d \in Canonicals, allow \in BOOLEAN : ~OperatorWrite(d, allow)
      BY <3>1 DEF Take, ReadRow, Preflight, Disable, RetryTake, RetryWake, Tick, ReviewWrite,
                  Switch, Offer, ReviewRead, OperatorWrite, engine
    <3>. QED
      BY <3>1, <3>5, <3>6 DEF Next, Execute
  <2>2. t = "auto" /\ auto.at = "call" /\ auto.c = c
    <3>1. /\ held' = [held EXCEPT ![Caller(t).c] = t] /\ Caller(t).at = "call"
          /\ held \in [Canonicals -> {"none"} \cup Callers]
      BY <2>1 DEF Begin, IInv, TypeOK
    <3>2. Caller(t).c = c /\ t = "auto"
      BY <3>1
    <3>. QED
      BY <3>1, <3>2 DEF Caller
  <2>. QED
    BY <2>2 DEF IInv, RestIsCooldown, Committed
<1>. QED
  BY <1>1, MarketsAreGuarded, PTL DEF Spec, NakedMarketRests

=============================================================================
