-------------------------- MODULE KillSwitchProofs --------------------------
(***************************************************************************)
(* Theorems about KillSwitch, for any set of tasks: its type invariant,    *)
(* that a durable arm is in Redis, that it outlives a restart, and that a  *)
(* muted engine is never left behind a disarmed switch.                    *)
(***************************************************************************)
EXTENDS KillSwitch, TLAPS

-----------------------------------------------------------------------------
(* What the holder of the lock has done so far.                             *)

\* The shutdown sequence makes one call only, and calls end with the process.
MainOnlyDrains == call[Main].op \in {"none", "shutdown"}
DeadIsIdle     == up = "down" => ~armed /\ \A t \in Tasks : call[t] = Idle
IdleIsBoth     == \A t \in Tasks : call[t].op = "none" <=> call[t].at = "none"

\* Inside trip_kill the switch is armed by that call, inside reset_kill it is not.
TripHolds  == \A t \in Tasks : held = t /\ call[t].op \in TripOps => armed /\ by = call[t].op
ResetHolds == \A t \in Tasks : held = t /\ call[t].op = "reset" => ~armed

\* Only a trip that has not yet come to its write leaves Redis behind.
RedisIsReliable == "set" \notin RedisFaults

RedisFollows ==
    RedisIsReliable /\ armed /\ by # "shutdown"
      => \/ redis
         \/ \E t \in Tasks : held = t /\ call[t].op = "trip" /\ call[t].at \in {"cancel", "persist"}

PromiseIsKept ==
    RedisIsReliable /\ promise = "armed" => redis /\ (up # "down" => armed)

\* The strengthening of the four invariants that the steps preserve.
IInv ==
    /\ TypeOK
    /\ MainOnlyDrains
    /\ DeadIsIdle
    /\ IdleIsBoth
    /\ TripHolds
    /\ ResetHolds
    /\ RedisFollows
    /\ PromiseIsKept
    /\ MutedIsArmed

-----------------------------------------------------------------------------
\* Going to sleep at the lock disturbs nothing.
LEMMA AskIsSafe ==
    ASSUME IInv, NEW t \in Tasks, NEW op \in {"trip", "shutdown", "reset"},
           Ask(t, op), UNCHANGED <<state, held, redis, promise>>,
           up # "down", up' \in {"running", "draining"},
           t = Main <=> op = "shutdown",
           dbFailed' = dbFailed \/ (dbFailed' = TRUE /\ op = "trip")
    PROVE  IInv'
<1> USE DEF IInv
<1>1. /\ call' \in [Tasks -> [op : {"none", "trip", "shutdown", "reset"},
                              at : {"none", "wait", "cancel", "persist", "audit"}]]
      /\ call'[t].op = op /\ call'[t].at = "wait"
      /\ \A u \in Tasks \ {t} : call'[u] = call[u]
  BY DEF Ask, TypeOK
<1>2. call[t].op = "none" /\ call[t].at = "none" /\ held # t
  <2>1. call[t].op = "none" /\ call[t].at = "none"
    BY DEF Ask, Idle
  <2>2. \A u \in Tasks : call[u].at \notin {"none", "wait"} <=> held = u
    BY DEF TypeOK
  <2>. QED
    BY <2>1, <2>2
<1>3. armed' = armed /\ by' = by /\ cooling' = cooling /\ held' = held /\ redis' = redis /\ promise' = promise
  BY DEF state
<1>4. TypeOK'
  BY <1>1, <1>2, <1>3 DEF TypeOK
<1>5. MainOnlyDrains' /\ DeadIsIdle' /\ IdleIsBoth'
  BY <1>1, KillSwitchAssumption DEF MainOnlyDrains, DeadIsIdle, IdleIsBoth
<1>6. TripHolds' /\ ResetHolds' 
  BY <1>1, <1>2, <1>3 DEF TripHolds, ResetHolds, TripOps
<1>7. RedisFollows'
  BY <1>1, <1>2, <1>3 DEF RedisFollows
<1>8. PromiseIsKept'
  BY <1>3 DEF PromiseIsKept
<1>9. MutedIsArmed'
  BY <1>1, <1>2, <1>3 DEF MutedIsArmed
<1>. QED
  BY <1>4, <1>5, <1>6, <1>7, <1>8, <1>9

\* A task that takes the lock, moves under it or lets go of it (`to` is "none"):
\* what is left to show of each such step is what it does to the switch, the
\* mirror and the flag.
LEMMA HolderMoves ==
    ASSUME IInv, NEW t \in Tasks,
           NEW op \in {"trip", "shutdown", "reset"},
           NEW from \in {"wait", "cancel", "persist", "audit"},
           NEW to \in {"none", "cancel", "persist", "audit"},
           At(t, op, from),
           \/ to = "none" /\ Leave(t)
           \/ to # "none" /\ GoTo(t, to)
    PROVE  /\ call' \in [Tasks -> [op : {"none", "trip", "shutdown", "reset"},
                                 at : {"none", "wait", "cancel", "persist", "audit"}]]
           /\ call'[t].op = (IF to = "none" THEN "none" ELSE op) /\ call'[t].at = to
           /\ \A u \in Tasks \ {t} : call'[u] = call[u]
           /\ held' = (IF to = "none" THEN Nobody ELSE t)
           /\ \A u \in Tasks : call'[u].at \notin {"none", "wait"} <=> held' = u
           /\ call[t].op = op /\ call[t].at = from /\ up # "down"
           /\ \A u \in Tasks \ {t} : held # u
           /\ MainOnlyDrains' /\ IdleIsBoth'
<1> USE DEF IInv
<1>1. call[t].op = op /\ call[t].at = from
  BY DEF At
<1>2. up # "down"
  BY <1>1 DEF DeadIsIdle, Idle
<1>3. \A u \in Tasks \ {t} : held # u
  BY KillSwitchAssumption DEF At
<1>4. held' = IF to = "none" THEN Nobody ELSE t
  BY DEF Leave, GoTo
<1>5. call' = [call EXCEPT ![t] = [op |-> IF to = "none" THEN "none" ELSE op, at |-> to]]
  <2>1. CASE to = "none"
    BY <2>1 DEF Leave, Idle
  <2>2. CASE to # "none"
    <3>1. [call[t] EXCEPT !.at = to] = [op |-> op, at |-> to]
      BY DEF At
    <3>2. call' = [call EXCEPT ![t] = [call[t] EXCEPT !.at = to]]
      BY <2>2 DEF GoTo, Leave
    <3>. QED
      BY <2>2, <3>1, <3>2
  <2>. QED
    BY <2>1, <2>2
<1>6. /\ call' \in [Tasks -> [op : {"none", "trip", "shutdown", "reset"},
                              at : {"none", "wait", "cancel", "persist", "audit"}]]
      /\ call'[t].op = (IF to = "none" THEN "none" ELSE op) /\ call'[t].at = to
      /\ \A u \in Tasks \ {t} : call'[u] = call[u]
  BY <1>5 DEF TypeOK
<1>7. \A u \in Tasks : call'[u].at \notin {"none", "wait"} <=> held' = u
  <2>1. \A u \in Tasks : call[u].at \notin {"none", "wait"} <=> held = u
    BY DEF TypeOK
  <2>. QED
    BY <1>3, <1>4, <1>6, <2>1, KillSwitchAssumption
<1>8. MainOnlyDrains' /\ IdleIsBoth'
  BY <1>1, <1>6, KillSwitchAssumption DEF MainOnlyDrains, IdleIsBoth
<1>. QED
  BY <1>1, <1>2, <1>3, <1>4, <1>6, <1>7, <1>8

\* trip_kill under the lock.
LEMMA TripIsSafe ==
    ASSUME IInv, NEW t \in Tasks, NEW op \in TripOps,
           \/ TripEnters(t, op) \/ TripCancels(t, op)
           \/ TripPersists(t, op) \/ TripReturns(t, op)
    PROVE  IInv'
<1> USE DEF IInv
<1>0. op \in {"trip", "shutdown"} /\ op \in {"trip", "shutdown", "reset"}
  BY DEF TripOps
<1>1. CASE TripEnters(t, op) /\ armed
  <2>1. At(t, op, "wait") /\ Leave(t)
    BY <1>1 DEF TripEnters
  <2>2. UNCHANGED <<up, armed, by, cooling, redis, dbFailed>>
    BY <1>1 DEF TripEnters, state
  <2>3. promise' = IF op = "trip" /\ promise = "none" THEN "joined" ELSE promise
    BY <1>1 DEF TripEnters
  <2>4. call[t].op = op /\ held = Nobody /\ held # t
    BY <2>1, KillSwitchAssumption, HolderMoves, <1>0 DEF At
  <2>. HIDE DEF IInv
  <2>5. /\ call' \in [Tasks -> [op : {"none", "trip", "shutdown", "reset"},
                                at : {"none", "wait", "cancel", "persist", "audit"}]]
        /\ call'[t].op = "none" /\ call'[t].at = "none"
        /\ \A u \in Tasks \ {t} : call'[u] = call[u]
        /\ held' = Nobody
        /\ \A u \in Tasks : call'[u].at \notin {"none", "wait"} <=> held' = u
        /\ call[t].at = "wait" /\ up # "down"
        /\ MainOnlyDrains' /\ IdleIsBoth'
    BY <1>0, <2>1, HolderMoves
  <2>. USE DEF IInv
  <2>6. TypeOK'
    BY <2>2, <2>3, <2>5 DEF TypeOK
  <2>7. DeadIsIdle' /\ TripHolds' /\ ResetHolds' /\ PromiseIsKept'
    BY <2>2, <2>3, <2>5, KillSwitchAssumption
       DEF DeadIsIdle, TripHolds, ResetHolds, PromiseIsKept
  <2>8. RedisFollows' /\ MutedIsArmed'
    BY <1>1, <2>2, <2>4, <2>5, KillSwitchAssumption DEF RedisFollows, MutedIsArmed, RedisIsReliable
  <2>. QED
    BY <2>5, <2>6, <2>7, <2>8
<1>2. CASE TripEnters(t, op) /\ ~armed
  <2>1. At(t, op, "wait") /\ GoTo(t, "cancel")
    BY <1>2 DEF TripEnters
  <2>2. UNCHANGED <<up, redis, dbFailed, promise>> /\ armed' = TRUE /\ by' = op /\ cooling' = TRUE
    BY <1>2 DEF TripEnters
  <2>. HIDE DEF IInv
  <2>5. /\ call' \in [Tasks -> [op : {"none", "trip", "shutdown", "reset"},
                                at : {"none", "wait", "cancel", "persist", "audit"}]]
        /\ call'[t].op = op /\ call'[t].at = "cancel"
        /\ held' = t
        /\ \A u \in Tasks : call'[u].at \notin {"none", "wait"} <=> held' = u
        /\ up # "down"
        /\ MainOnlyDrains' /\ IdleIsBoth'
    BY <1>0, <2>1, HolderMoves
  <2>. USE DEF IInv
  <2>6. TypeOK'
    BY <1>0, <2>2, <2>5 DEF TypeOK
  <2>7. DeadIsIdle' /\ TripHolds' /\ ResetHolds' /\ PromiseIsKept'
    BY <1>0, <1>2, <2>2, <2>5 DEF DeadIsIdle, TripHolds, ResetHolds, PromiseIsKept
  <2>8. RedisFollows' /\ MutedIsArmed'
    BY <1>0, <2>2, <2>5 DEF RedisFollows, MutedIsArmed
  <2>. QED
    BY <2>5, <2>6, <2>7, <2>8
<1>3. CASE TripCancels(t, op)
  <2>1. At(t, op, "cancel") /\ GoTo(t, "persist")
    BY <1>3 DEF TripCancels
  <2>2. UNCHANGED <<up, armed, by, cooling, redis, dbFailed, promise>>
    BY <1>3 DEF TripCancels, state
  <2>3. held = t
    BY <2>1 DEF At
  <2>. HIDE DEF IInv
  <2>5. /\ call' \in [Tasks -> [op : {"none", "trip", "shutdown", "reset"},
                                at : {"none", "wait", "cancel", "persist", "audit"}]]
        /\ call'[t].op = op /\ call'[t].at = "persist"
        /\ \A u \in Tasks \ {t} : call'[u] = call[u]
        /\ held' = t
        /\ \A u \in Tasks : call'[u].at \notin {"none", "wait"} <=> held' = u
        /\ up # "down" /\ call[t].op = op
        /\ MainOnlyDrains' /\ IdleIsBoth'
    BY <1>0, <2>1, HolderMoves
  <2>. USE DEF IInv
  <2>6. TypeOK'
    BY <1>0, <2>2, <2>5 DEF TypeOK
  <2>7. DeadIsIdle' /\ TripHolds' /\ ResetHolds' /\ PromiseIsKept'
    BY <1>0, <2>2, <2>3, <2>5 DEF DeadIsIdle, TripHolds, ResetHolds, PromiseIsKept
  <2>8. RedisFollows' /\ MutedIsArmed'
    BY <1>0, <2>2, <2>3, <2>5 DEF RedisFollows, MutedIsArmed, TripHolds
  <2>. QED
    BY <2>5, <2>6, <2>7, <2>8
<1>4. CASE TripPersists(t, op)
  <2>1. At(t, op, "persist") /\ GoTo(t, "audit")
    BY <1>4 DEF TripPersists
  <2>2. UNCHANGED <<up, armed, by, cooling, dbFailed, promise>>
    BY <1>4 DEF TripPersists, state
  <2>3. held = t
    BY <2>1 DEF At
  <2>4. /\ redis' = TRUE \/ redis' = redis
        /\ op = "trip" /\ RedisIsReliable => redis' = TRUE
    BY <1>4 DEF TripPersists, RedisIsReliable
  <2>. HIDE DEF IInv
  <2>5. /\ call' \in [Tasks -> [op : {"none", "trip", "shutdown", "reset"},
                                at : {"none", "wait", "cancel", "persist", "audit"}]]
        /\ call'[t].op = op /\ call'[t].at = "audit"
        /\ \A u \in Tasks \ {t} : call'[u] = call[u]
        /\ held' = t
        /\ \A u \in Tasks : call'[u].at \notin {"none", "wait"} <=> held' = u
        /\ up # "down" /\ call[t].op = op
        /\ MainOnlyDrains' /\ IdleIsBoth'
    BY <1>0, <2>1, HolderMoves
  <2>. USE DEF IInv
  <2>6. TypeOK'
    BY <1>0, <2>2, <2>4, <2>5 DEF TypeOK
  <2>7. DeadIsIdle' /\ TripHolds' /\ ResetHolds'
    BY <1>0, <2>2, <2>3, <2>5 DEF DeadIsIdle, TripHolds, ResetHolds
  <2>9. PromiseIsKept'
    <3>1. redis => redis'
      BY <2>4
    <3>. QED
      BY <2>2, <3>1 DEF PromiseIsKept, RedisIsReliable
  <2>8. RedisFollows' /\ MutedIsArmed'
    BY <1>0, <2>2, <2>3, <2>4, <2>5 DEF MutedIsArmed, RedisFollows, RedisIsReliable, TripHolds
  <2>. QED
    BY <2>5, <2>6, <2>7, <2>8, <2>9
<1>5. CASE TripReturns(t, op)
  <2>1. At(t, op, "audit") /\ Leave(t)
    BY <1>5 DEF TripReturns
  <2>2. /\ UNCHANGED <<up, armed, by, cooling, redis, dbFailed>>
        /\ promise' = IF op = "trip" THEN "armed" ELSE promise
    BY <1>5 DEF TripReturns, state
  <2>3. held = t
    BY <2>1 DEF At
  <2>. HIDE DEF IInv
  <2>5. /\ call' \in [Tasks -> [op : {"none", "trip", "shutdown", "reset"},
                                at : {"none", "wait", "cancel", "persist", "audit"}]]
        /\ call'[t].op = "none" /\ call'[t].at = "none"
        /\ \A u \in Tasks \ {t} : call'[u] = call[u]
        /\ held' = Nobody
        /\ \A u \in Tasks : call'[u].at \notin {"none", "wait"} <=> held' = u
        /\ up # "down" /\ call[t].op = op /\ call[t].at = "audit"
        /\ MainOnlyDrains' /\ IdleIsBoth'
    BY <1>0, <2>1, HolderMoves
  <2>. USE DEF IInv
  <2>4. armed /\ by = op
    BY <2>3, <2>5 DEF TripHolds
  <2>6. TypeOK'
    BY <2>2, <2>5 DEF TypeOK
  <2>7. DeadIsIdle' /\ TripHolds' /\ ResetHolds' /\ MutedIsArmed'
    BY <2>2, <2>4, <2>5, KillSwitchAssumption DEF DeadIsIdle, TripHolds, ResetHolds, MutedIsArmed
  <2>8. RedisIsReliable /\ op = "trip" => redis
    BY <2>3, <2>4, <2>5 DEF RedisFollows
  <2>9. RedisFollows' /\ PromiseIsKept'
    BY <1>0, <2>2, <2>4, <2>8 DEF RedisFollows, PromiseIsKept, RedisIsReliable
  <2>. QED
    BY <2>5, <2>6, <2>7, <2>9
<1>. QED
  BY <1>1, <1>2, <1>3, <1>4, <1>5 DEF TripEnters

\* reset_kill under the lock.
LEMMA ResetIsSafe ==
    ASSUME IInv, NEW t \in Tasks,
           ResetEnters(t) \/ ResetPersists(t) \/ ResetReturns(t)
    PROVE  IInv'
<1> USE DEF IInv
<1>1. CASE ResetEnters(t) /\ armed /\ cooling
  <2>1. At(t, "reset", "wait") /\ Leave(t) /\ UNCHANGED <<up, armed, by, cooling, redis, dbFailed, promise>>
    BY <1>1 DEF ResetEnters, state
  <2>2. held = Nobody
    BY <2>1 DEF At
  <2>. HIDE DEF IInv
  <2>3. /\ call' \in [Tasks -> [op : {"none", "trip", "shutdown", "reset"},
                                at : {"none", "wait", "cancel", "persist", "audit"}]]
        /\ call'[t].op = "none" /\ call'[t].at = "none"
        /\ \A u \in Tasks \ {t} : call'[u] = call[u]
        /\ held' = Nobody
        /\ \A u \in Tasks : call'[u].at \notin {"none", "wait"} <=> held' = u
        /\ up # "down"
        /\ MainOnlyDrains' /\ IdleIsBoth'
    BY <2>1, HolderMoves
  <2>. USE DEF IInv
  <2>4. TypeOK'
    BY <2>1, <2>3 DEF TypeOK
  <2>5. DeadIsIdle' /\ TripHolds' /\ ResetHolds' /\ PromiseIsKept' /\ MutedIsArmed'
    BY <1>1, <2>1, <2>3, KillSwitchAssumption
       DEF DeadIsIdle, TripHolds, ResetHolds, PromiseIsKept, MutedIsArmed
  <2>6. RedisFollows'
    BY <2>1, <2>2, <2>3, KillSwitchAssumption DEF RedisFollows, RedisIsReliable
  <2>. QED
    BY <2>3, <2>4, <2>5, <2>6
<1>2. CASE ResetEnters(t) /\ ~(armed /\ cooling)
  <2>1. /\ At(t, "reset", "wait") /\ GoTo(t, "persist")
        /\ UNCHANGED <<up, redis, dbFailed>>
        /\ armed' = FALSE /\ by' = "" /\ cooling' = FALSE /\ promise' = "none"
    BY <1>2 DEF ResetEnters
  <2>. HIDE DEF IInv
  <2>3. /\ call' \in [Tasks -> [op : {"none", "trip", "shutdown", "reset"},
                                at : {"none", "wait", "cancel", "persist", "audit"}]]
        /\ call'[t].op = "reset" /\ call'[t].at = "persist"
        /\ held' = t
        /\ \A u \in Tasks : call'[u].at \notin {"none", "wait"} <=> held' = u
        /\ up # "down"
        /\ MainOnlyDrains' /\ IdleIsBoth'
    BY <2>1, HolderMoves
  <2>. USE DEF IInv
  <2>4. TypeOK'
    BY <2>1, <2>3 DEF TypeOK
  <2>5. DeadIsIdle' /\ TripHolds' /\ ResetHolds' /\ PromiseIsKept' /\ MutedIsArmed' /\ RedisFollows'
    BY <2>1, <2>3
       DEF DeadIsIdle, TripHolds, ResetHolds, PromiseIsKept, MutedIsArmed, RedisFollows, TripOps
  <2>. QED
    BY <2>3, <2>4, <2>5
<1>3. CASE ResetPersists(t)
  <2>1. /\ At(t, "reset", "persist") /\ GoTo(t, "audit")
        /\ UNCHANGED <<up, armed, by, cooling, dbFailed, promise>>
        /\ redis' = FALSE \/ redis' = redis
    BY <1>3 DEF ResetPersists, state
  <2>2. held = t
    BY <2>1 DEF At
  <2>. HIDE DEF IInv
  <2>3. /\ call' \in [Tasks -> [op : {"none", "trip", "shutdown", "reset"},
                                at : {"none", "wait", "cancel", "persist", "audit"}]]
        /\ call'[t].op = "reset" /\ call'[t].at = "audit" /\ call[t].op = "reset"
        /\ \A u \in Tasks \ {t} : call'[u] = call[u]
        /\ held' = t
        /\ \A u \in Tasks : call'[u].at \notin {"none", "wait"} <=> held' = u
        /\ up # "down"
        /\ MainOnlyDrains' /\ IdleIsBoth'
    BY <2>1, HolderMoves
  <2>. USE DEF IInv
  <2>4. TypeOK'
    BY <2>1, <2>3 DEF TypeOK
  <2>5. ~armed
    BY <2>2, <2>3 DEF ResetHolds
  <2>6. DeadIsIdle' /\ TripHolds' /\ ResetHolds'
    BY <2>1, <2>3, <2>5 DEF DeadIsIdle, TripHolds, ResetHolds, TripOps
  <2>7. PromiseIsKept' /\ RedisFollows'
    BY <2>1, <2>3, <2>5 DEF PromiseIsKept, RedisFollows, RedisIsReliable
  <2>8. MutedIsArmed'
    BY <2>1, <2>2, <2>3 DEF MutedIsArmed
  <2>. QED
    BY <2>3, <2>4, <2>6, <2>7, <2>8
<1>4. CASE ResetReturns(t)
  <2>1. /\ At(t, "reset", "audit") /\ Leave(t) /\ dbFailed' = FALSE
        /\ UNCHANGED <<up, armed, by, cooling, redis, promise>>
    BY <1>4 DEF ResetReturns, state
  <2>2. held = t
    BY <2>1 DEF At
  <2>. HIDE DEF IInv
  <2>3. /\ call' \in [Tasks -> [op : {"none", "trip", "shutdown", "reset"},
                                at : {"none", "wait", "cancel", "persist", "audit"}]]
        /\ call'[t].op = "none" /\ call'[t].at = "none" /\ call[t].op = "reset"
        /\ held' = Nobody
        /\ \A u \in Tasks : call'[u].at \notin {"none", "wait"} <=> held' = u
        /\ up # "down"
        /\ MainOnlyDrains' /\ IdleIsBoth'
    BY <2>1, HolderMoves
  <2>. USE DEF IInv
  <2>4. TypeOK'
    BY <2>1, <2>3 DEF TypeOK
  <2>5. ~armed
    BY <2>2, <2>3 DEF ResetHolds
  <2>6. DeadIsIdle' /\ TripHolds' /\ ResetHolds' /\ PromiseIsKept' /\ MutedIsArmed' /\ RedisFollows'
    BY <2>1, <2>3, <2>5, KillSwitchAssumption
       DEF DeadIsIdle, TripHolds, ResetHolds, PromiseIsKept, MutedIsArmed, RedisFollows
  <2>. QED
    BY <2>3, <2>4, <2>6
<1>. QED
  BY <1>1, <1>2, <1>3, <1>4

-----------------------------------------------------------------------------
\* Every variable of SafetySupervisor keeps its type, the lock is held by exactly
\* the call that stands behind it, and a cooldown runs only while armed.  A write
\* of the store that failed is never forgotten behind a disarmed switch
\* (_handle_db_failure and reset_kill), whatever Redis does.
THEOREM MutedEngineIsArmed == Spec => [](IInv /\ TypeOK /\ MutedIsArmed)
<1>1. Init => IInv
  <2> SUFFICES ASSUME Init PROVE IInv
    OBVIOUS
  <2>1. \A t \in Tasks : call[t].op = "none" /\ call[t].at = "none" /\ held # t
    BY KillSwitchAssumption DEF Init, Idle
  <2>2. TypeOK
    BY KillSwitchAssumption, <2>1 DEF Init, TypeOK, Idle
  <2>. QED
    BY KillSwitchAssumption, <2>1, <2>2
       DEF Init, IInv, MainOnlyDrains, DeadIsIdle, IdleIsBoth, TripHolds, ResetHolds,
           RedisFollows, PromiseIsKept, MutedIsArmed, Idle, TripOps
<1>2. IInv /\ [Next]_vars => IInv'
  <2> SUFFICES ASSUME IInv, [Next]_vars PROVE IInv'
    OBVIOUS
  <2>0. up # "down" => up \in {"running", "draining"}
    BY DEF IInv, TypeOK
  <2>1. ASSUME NEW t \in Tasks, Trip(t) PROVE IInv'
    BY <2>1, <2>0, AskIsSafe DEF Trip
  <2>2. ASSUME NEW t \in Tasks, DbWriteFails(t) PROVE IInv'
    BY <2>2, <2>0, AskIsSafe DEF DbWriteFails
  <2>3. ASSUME NEW t \in Tasks, Reset(t) PROVE IInv'
    BY <2>3, <2>0, AskIsSafe DEF Reset
  <2>4. CASE Sigterm
    BY <2>4, AskIsSafe, KillSwitchAssumption DEF Sigterm
  <2>5. ASSUME NEW t \in Tasks, Holder(t) PROVE IInv'
    BY <2>5, TripIsSafe, ResetIsSafe DEF Holder
  \* The clock, and the process: the drain cut short, death and restart.
  <2>6. CASE CoolsDown \/ DrainTimesOut \/ Dies \/ Boots
    <3> USE DEF IInv
    <3>1. CASE CoolsDown
      <4>1. TypeOK'
        BY <3>1 DEF CoolsDown, TypeOK
      <4>2. MainOnlyDrains' /\ DeadIsIdle' /\ IdleIsBoth' /\ TripHolds' /\ ResetHolds'
        BY <3>1 DEF CoolsDown, MainOnlyDrains, DeadIsIdle, IdleIsBoth, TripHolds, ResetHolds
      <4>3. RedisFollows' /\ PromiseIsKept' /\ MutedIsArmed'
        BY <3>1 DEF CoolsDown, RedisFollows, PromiseIsKept, MutedIsArmed
      <4>. QED
        BY <4>1, <4>2, <4>3
    <3>2. CASE DrainTimesOut
      <4>1. /\ UNCHANGED <<up, armed, by, cooling, redis, dbFailed, promise>>
            /\ held' = IF held = Main THEN Nobody ELSE held
            /\ call' = [call EXCEPT ![Main] = [op |-> "none", at |-> "none"]]
            /\ up = "draining"
        BY <3>2 DEF DrainTimesOut, state, Idle
      <4>2. /\ call' \in [Tasks -> [op : {"none", "trip", "shutdown", "reset"},
                                    at : {"none", "wait", "cancel", "persist", "audit"}]]
            /\ call'[Main].op = "none" /\ call'[Main].at = "none"
            /\ \A u \in Tasks \ {Main} : call'[u] = call[u]
        BY <4>1, KillSwitchAssumption DEF TypeOK
      <4>3. \A u \in Tasks : call'[u].at \notin {"none", "wait"} <=> held' = u
        <5>1. \A u \in Tasks : call[u].at \notin {"none", "wait"} <=> held = u
          BY DEF TypeOK
        <5>. QED
          BY <4>1, <4>2, <5>1, KillSwitchAssumption
      <4>4. TypeOK'
        BY <4>1, <4>2, <4>3 DEF TypeOK
      <4>5. MainOnlyDrains' /\ DeadIsIdle' /\ IdleIsBoth'
        BY <4>1, <4>2 DEF MainOnlyDrains, DeadIsIdle, IdleIsBoth
      <4>6. TripHolds' /\ ResetHolds'
        BY <4>1, <4>2, KillSwitchAssumption DEF TripHolds, ResetHolds, TripOps
      <4>7. call[Main].op \notin {"trip", "reset"}
        BY DEF MainOnlyDrains
      <4>8. RedisFollows' /\ PromiseIsKept' /\ MutedIsArmed'
        BY <4>1, <4>2, <4>7, KillSwitchAssumption DEF RedisFollows, PromiseIsKept, MutedIsArmed
      <4>. QED
        BY <4>4, <4>5, <4>6, <4>8
    <3>3. CASE Dies
      <4>1. /\ up' = "down" /\ armed' = FALSE /\ by' = "" /\ cooling' = FALSE /\ dbFailed' = FALSE
            /\ held' = Nobody /\ UNCHANGED <<redis, promise>>
            /\ call' = [t \in Tasks |-> [op |-> "none", at |-> "none"]]
        BY <3>3 DEF Dies, Idle
      <4>2. \A u \in Tasks : call'[u] = Idle /\ call'[u].op = "none" /\ call'[u].at = "none" /\ held' # u
        BY <4>1, KillSwitchAssumption DEF Idle
      <4>3. TypeOK'
        BY <4>1, <4>2, KillSwitchAssumption DEF TypeOK
      <4>4. MainOnlyDrains' /\ DeadIsIdle' /\ IdleIsBoth' /\ TripHolds' /\ ResetHolds'
        BY <4>1, <4>2, KillSwitchAssumption DEF MainOnlyDrains, DeadIsIdle, IdleIsBoth, TripHolds, ResetHolds
      <4>5. RedisFollows' /\ PromiseIsKept' /\ MutedIsArmed'
        BY <4>1 DEF RedisFollows, PromiseIsKept, MutedIsArmed
      <4>. QED
        BY <4>3, <4>4, <4>5
    <3>4. CASE Boots
      <4>1. /\ up = "down" /\ up' = "running"
            /\ UNCHANGED <<held, call, redis, dbFailed, promise>>
            /\ \/ redis /\ armed' = TRUE /\ by' = "restore" /\ cooling' = TRUE
               \/ ~redis /\ UNCHANGED <<armed, by, cooling>>
        BY <3>4 DEF Boots, state
      <4>2. ~armed /\ \A u \in Tasks : call[u].op = "none" /\ call[u].at = "none" /\ held # u
        <5>1. ~armed /\ \A u \in Tasks : call[u].op = "none" /\ call[u].at = "none"
          BY <4>1 DEF DeadIsIdle, Idle
        <5>2. \A u \in Tasks : call[u].at \notin {"none", "wait"} <=> held = u
          BY DEF TypeOK
        <5>. QED
          BY <5>1, <5>2
      <4>3. TypeOK'
        <5>1. CASE armed' = TRUE /\ by' = "restore" /\ cooling' = TRUE
          BY <4>1, <5>1 DEF TypeOK
        <5>2. CASE UNCHANGED <<armed, by, cooling>>
          BY <4>1, <5>2 DEF TypeOK
        <5>. QED
          BY <4>1, <5>1, <5>2
      <4>4. MainOnlyDrains' /\ DeadIsIdle' /\ IdleIsBoth' /\ TripHolds' /\ ResetHolds'
        BY <4>1, <4>2 DEF MainOnlyDrains, DeadIsIdle, IdleIsBoth, TripHolds, ResetHolds, TripOps
      <4>5. RedisFollows' /\ PromiseIsKept'
        BY <4>1, <4>2 DEF RedisFollows, PromiseIsKept, RedisIsReliable
      <4>6. MutedIsArmed'
        BY <4>1, <4>2 DEF MutedIsArmed
      <4>. QED
        BY <4>3, <4>4, <4>5, <4>6
    <3>. QED
      BY <2>6, <3>1, <3>2, <3>3, <3>4
  <2>7. CASE UNCHANGED vars
    <3>1. UNCHANGED <<up, armed, by, cooling, held, call, redis, dbFailed, promise>>
      BY <2>7 DEF vars, state
    <3>. QED
      BY <3>1 DEF IInv, TypeOK, MainOnlyDrains, DeadIsIdle, IdleIsBoth, TripHolds, ResetHolds,
                  RedisFollows, PromiseIsKept, MutedIsArmed
  <2>. QED
    BY <2>1, <2>2, <2>3, <2>4, <2>5, <2>6, <2>7 DEF Next
<1>3. IInv => TypeOK /\ MutedIsArmed
  BY DEF IInv
<1>. QED
  BY <1>1, <1>2, <1>3, PTL DEF Spec

\* When Redis takes every write, trip_kill and reset_kill leave a durable arm in
\* it whenever the lock is free, however they interleave, and an arm that trip_kill
\* returned from is found again by restore_from_redis after every death of the
\* process.
THEOREM ArmReachesRedis ==
    ASSUME RedisIsReliable
    PROVE  Spec => [](ArmIsPersisted /\ ArmSurvivesRestart)
<1>1. IInv => ArmIsPersisted
  BY KillSwitchAssumption DEF IInv, RedisFollows, ArmIsPersisted
<1>2. IInv => ArmSurvivesRestart
  BY DEF IInv, PromiseIsKept, ArmSurvivesRestart
<1>. QED
  BY <1>1, <1>2, MutedEngineIsArmed, PTL

=============================================================================
