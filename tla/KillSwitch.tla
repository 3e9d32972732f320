----------------------------- MODULE KillSwitch -----------------------------
(***************************************************************************)
(* SafetySupervisor: the kill switch, its mirror in Redis, and the flag    *)
(* with which a failed write of the execution store mutes the engine.      *)
(*                                                                         *)
(* trip_kill and reset_kill run under _state_lock and await between their  *)
(* effects, so calls held behind one another and the process may die, or  *)
(* be told to stop, inside any of them.  SafetyState and the flag die with *)
(* the process; the Redis key does not.                                    *)
(***************************************************************************)
CONSTANTS Tasks,        \* the coroutines that call the supervisor
          Main,         \* the one that runs the shutdown sequence
          Nobody,       \* no task
          RedisFaults   \* which Redis commands may fail: subset of {"set", "delete"}

ASSUME KillSwitchAssumption ==
    /\ Main \in Tasks /\ Nobody \notin Tasks
    /\ RedisFaults \subseteq {"set", "delete"}

VARIABLES
    up,        \* the process
    armed,     \* _state.armed
    by,        \* _state.armed_by: who armed it, "" when disarmed
    cooling,   \* now < _state.cooldown_until
    held,      \* the task that holds _state_lock
    call,      \* what each task has called, and where it is suspended
    redis,     \* the key arbiter:kill_switch is set
    dbFailed,  \* engine._db_write_failed
    promise    \* what the last trip_kill to return had done: armed the switch
               \*   itself, or joined an arm it found; a reset ends it

state == <<armed, by, cooling>>
vars  == <<up, armed, by, cooling, held, call, redis, dbFailed, promise>>

Idle == [op |-> "none", at |-> "none"]

TypeOK ==
    /\ up \in {"running", "draining", "down"}
    /\ armed \in BOOLEAN
    /\ by \in {"", "trip", "shutdown", "restore"}
    /\ cooling \in BOOLEAN
    /\ held \in Tasks \cup {Nobody}
    /\ call \in [Tasks -> [op : {"none", "trip", "shutdown", "reset"},
                           at : {"none", "wait", "cancel", "persist", "audit"}]]
    /\ redis \in BOOLEAN
    /\ dbFailed \in BOOLEAN
    /\ promise \in {"none", "armed", "joined"}
    /\ armed <=> by # ""
    /\ cooling => armed
    /\ \A t \in Tasks : call[t].at \notin {"none", "wait"} <=> held = t

Init ==
    /\ up = "running"
    /\ armed = FALSE
    /\ by = ""
    /\ cooling = FALSE
    /\ held = Nobody
    /\ call = [t \in Tasks |-> Idle]
    /\ redis = FALSE
    /\ dbFailed = FALSE
    /\ promise = "none"

-----------------------------------------------------------------------------
(* The lock, and the step of a task that stands at a given await: `wait`    *)
(* until the lock is free, any other while it holds the lock.               *)

Ask(t, op) ==
    /\ call[t] = Idle
    /\ call' = [call EXCEPT ![t] = [op |-> op, at |-> "wait"]]

\* Mutant: nothing is serialised.
AtUnlocked(t, op, at) == call[t] = [op |-> op, at |-> at]

At(t, op, at) ==
    /\ call[t] = [op |-> op, at |-> at]
    /\ held = IF at = "wait" THEN Nobody ELSE t

GoTo(t, at) == call' = [call EXCEPT ![t].at = at] /\ held' = t
Leave(t)    == call' = [call EXCEPT ![t] = Idle] /\ held' = Nobody

-----------------------------------------------------------------------------
(* trip_kill, by an operator or a monitor (op "trip") or by prepare_shutdown *)
(* (op "shutdown", persist=False).                                           *)

Trip(t) ==
    /\ up # "down" /\ t # Main
    /\ Ask(t, "trip")
    /\ UNCHANGED <<up, state, held, redis, dbFailed, promise>>

\* _handle_db_failure: the flag goes up at once, and the first failure trips.
DbWriteFails(t) ==
    /\ up # "down" /\ t # Main
    /\ ~dbFailed
    /\ dbFailed' = TRUE
    /\ Ask(t, "trip")
    /\ UNCHANGED <<up, state, held, redis, promise>>

TripOps == {"trip", "shutdown"}

TripEnters(t, op) ==
    /\ At(t, op, "wait")
    /\ IF armed
       THEN /\ Leave(t)
            /\ promise' = IF op = "trip" /\ promise = "none" THEN "joined" ELSE promise
            /\ UNCHANGED state
       ELSE /\ armed' = TRUE /\ by' = op /\ cooling' = TRUE
            /\ GoTo(t, "cancel")
            /\ UNCHANGED promise
    /\ UNCHANGED <<up, redis, dbFailed>>

\* Every adapter's cancel_all, then the alert: both swallow their failures.
TripCancels(t, op) ==
    /\ At(t, op, "cancel")
    /\ GoTo(t, "persist")
    /\ UNCHANGED <<up, state, redis, dbFailed, promise>>

TripPersists(t, op) ==
    /\ At(t, op, "persist")
    /\ redis' \in IF op = "shutdown" THEN {redis}
                  ELSE IF "set" \in RedisFaults THEN {TRUE, redis} ELSE {TRUE}
    /\ GoTo(t, "audit")
    /\ UNCHANGED <<up, state, dbFailed, promise>>

TripReturns(t, op) ==
    /\ At(t, op, "audit")
    /\ Leave(t)
    /\ promise' = IF op = "trip" THEN "armed" ELSE promise
    /\ UNCHANGED <<up, state, redis, dbFailed>>

-----------------------------------------------------------------------------
(* reset_kill, by an operator.                                              *)

Reset(t) ==
    /\ up # "down" /\ t # Main
    /\ Ask(t, "reset")
    /\ UNCHANGED <<up, state, held, redis, dbFailed, promise>>

\* Mutant: a reset inside the cooldown waits for its end under the lock.
ResetEntersWaiting(t) ==
    /\ At(t, "reset", "wait")
    /\ ~(armed /\ cooling)
    /\ armed' = FALSE /\ by' = "" /\ cooling' = FALSE
    /\ promise' = "none"
    /\ GoTo(t, "persist")
    /\ UNCHANGED <<up, redis, dbFailed>>

\* Inside the cooldown the reset is refused with ValueError.
ResetEnters(t) ==
    /\ At(t, "reset", "wait")
    /\ IF armed /\ cooling
       THEN Leave(t) /\ UNCHANGED <<state, promise>>
       ELSE /\ armed' = FALSE /\ by' = "" /\ cooling' = FALSE
            /\ promise' = "none"
            /\ GoTo(t, "persist")
    /\ UNCHANGED <<up, redis, dbFailed>>

ResetPersists(t) ==
    /\ At(t, "reset", "persist")
    /\ redis' \in IF "delete" \in RedisFaults THEN {FALSE, redis} ELSE {FALSE}
    /\ GoTo(t, "audit")
    /\ UNCHANGED <<up, state, dbFailed, promise>>

\* Mutant: the flag stays up.
ResetReturnsMuted(t) ==
    /\ At(t, "reset", "audit")
    /\ Leave(t)
    /\ UNCHANGED <<up, state, redis, dbFailed, promise>>

\* Last of all the engine is unmuted.
ResetReturns(t) ==
    /\ At(t, "reset", "audit")
    /\ Leave(t)
    /\ dbFailed' = FALSE
    /\ UNCHANGED <<up, state, redis, promise>>

CoolsDown ==
    /\ cooling
    /\ cooling' = FALSE
    /\ UNCHANGED <<up, armed, by, held, call, redis, dbFailed, promise>>

-----------------------------------------------------------------------------
(* The process: run_shutdown_sequence, death and restart.                   *)

Sigterm ==
    /\ up = "running"
    /\ up' = "draining"
    /\ Ask(Main, "shutdown")
    /\ UNCHANGED <<state, held, redis, dbFailed, promise>>

\* wait_for(prepare_shutdown, 5 s): the call is cancelled wherever it stands.
\* Mutant: a cancelled holder does not release the lock.
DrainTimesOutHolding ==
    /\ up = "draining"
    /\ call[Main] # Idle
    /\ call' = [call EXCEPT ![Main] = Idle]
    /\ UNCHANGED <<up, state, held, redis, dbFailed, promise>>

DrainTimesOut ==
    /\ up = "draining"
    /\ call[Main] # Idle
    /\ call' = [call EXCEPT ![Main] = Idle]
    /\ held' = IF held = Main THEN Nobody ELSE held
    /\ UNCHANGED <<up, state, redis, dbFailed, promise>>

\* The process ends: after the drain, or killed at any moment.
Dies ==
    /\ up # "down"
    /\ up' = "down"
    /\ armed' = FALSE /\ by' = "" /\ cooling' = FALSE /\ dbFailed' = FALSE
    /\ held' = Nobody
    /\ call' = [t \in Tasks |-> Idle]
    /\ UNCHANGED <<redis, promise>>

\* Mutant: the supervisor boots disarmed.
BootsDisarmed ==
    /\ up = "down"
    /\ up' = "running"
    /\ UNCHANGED <<state, held, call, redis, dbFailed, promise>>

\* The supervisor is built and restore_from_redis awaited before any task runs.
Boots ==
    /\ up = "down"
    /\ up' = "running"
    /\ IF redis
       THEN armed' = TRUE /\ by' = "restore" /\ cooling' = TRUE
       ELSE UNCHANGED state
    /\ UNCHANGED <<held, call, redis, dbFailed, promise>>

-----------------------------------------------------------------------------
Holder(t) ==
    \/ \E op \in TripOps : \/ TripEnters(t, op) \/ TripCancels(t, op)
                           \/ TripPersists(t, op) \/ TripReturns(t, op)
    \/ ResetEnters(t) \/ ResetPersists(t) \/ ResetReturns(t)

Next ==
    \/ \E t \in Tasks : Trip(t) \/ DbWriteFails(t) \/ Reset(t) \/ Holder(t)
    \/ CoolsDown \/ Sigterm \/ DrainTimesOut \/ Dies \/ Boots

Spec == Init /\ [][Next]_vars

\* Every await under the lock ends: cancel_all is cut off after 5 s, and the
\* notifier, Redis and Postgres calls return or raise.
\* asyncio.Lock serves its waiters in order, so no task is passed over for ever.
FairSpec == Spec /\ \A t \in Tasks : SF_vars(Holder(t))

-----------------------------------------------------------------------------
(* Properties.                                                              *)

\* Between calls a durable arm (any but the one of the shutdown sequence) is in
\* Redis: concurrent arms and resets never leave the mirror behind the switch.
ArmIsPersisted == held = Nobody /\ armed /\ by # "shutdown" => redis

\* An arm that trip_kill made and returned from outlives every restart, clean
\* or not, until an operator resets it. A trip that joins the arm of the
\* shutdown sequence has made none (promise "joined") and is gone with it.
ArmSurvivesRestart == promise = "armed" /\ up = "running" => armed

\* A muted engine is never left behind a disarmed switch, where nothing tells
\* the operator to reset it: the switch is armed, or a trip or reset is due.
MutedIsArmed ==
    dbFailed => \/ armed
                \/ \E t \in Tasks : \/ call[t].op = "trip"
                                   \/ (call[t].op = "reset" /\ held = t)

\* Nobody waits at the lock forever: every call to the supervisor returns.
CallsReturn == \A t \in Tasks : call[t] # Idle ~> call[t] = Idle

=============================================================================
