--------------------------- MODULE ExposureLimits ---------------------------
(***************************************************************************)
(* Several callers of execute_opportunity (the engine's own loop, the auto *)
(* executor, the retry scheduler, the API) share one RiskManager and one   *)
(* kill switch.  check_trade reads the exposures when an execution takes   *)
(* the lock of its canonical id; record_trade adds to them when the legs   *)
(* are through, many awaits later; the switch is read in between.  Manual  *)
(* positions pass the same check when they are queued and are booked and   *)
(* released by the operator.                                               *)
(*                                                                         *)
(* Exposures are in units of cost; what happens to the orders themselves   *)
(* is ArbExecution's subject, here an execution ends with the legs it has  *)
(* to book.                                                                *)
(***************************************************************************)
EXTENDS Integers, FiniteSets, FiniteSetsExt

CONSTANTS Callers,
          Canonicals, First, Second,    \* the platforms of the primary and of
                                        \*   the secondary leg of a canonical id
          Platforms, Gated,             \* those whose adapter refuses orders
                                        \*   while the kill switch is armed
          Costs, Slip,                  \* the cost of a leg when it is checked, and
                                        \*   how far a requote or a walk may move it
          MaxPosition, MaxPlatform, MaxTotal,
          ManualIds                     \* bounds the manual positions queued

ASSUME LimitsAssumption ==
    /\ IsFiniteSet(Callers) /\ Callers # {}      \* the engine's own loop is one
    /\ IsFiniteSet(Canonicals) /\ IsFiniteSet(Platforms) /\ IsFiniteSet(ManualIds)
    /\ First \in [Canonicals -> Platforms] /\ Second \in [Canonicals -> Platforms]
    /\ \A k \in Canonicals : First[k] # Second[k]
    /\ Gated \subseteq Platforms
    /\ Costs \subseteq Nat \ {0} /\ IsFiniteSet(Costs) /\ Costs # {}
    /\ Slip \in Nat /\ MaxPosition \in Nat /\ MaxPlatform \in Nat /\ MaxTotal \in Nat

Legs == {"p", "s"}
Platform(k, x) == IF x = "p" THEN First[k] ELSE Second[k]
Pair(c) == c["p"] + c["s"]
MaxCost == CHOOSE n \in Costs : \A c \in Costs : n >= c

VARIABLES
    call,     \* what each caller executes and where it is suspended
    open,     \* RiskManager._open_positions
    plat,     \* RiskManager._platform_exposures
    manual,   \* the manual positions
    armed,    \* the kill switch
    entered,  \* cost of the manual positions of a canonical id now entered
    late      \* primary orders each caller has sent since the switch was armed

exposures == <<open, plat>>
vars == <<call, open, plat, manual, armed, entered, late>>

NoCall == [at |-> "none"]
NoManual == [status |-> "none"]

TypeOK ==
    /\ call \in [Callers -> {NoCall} \cup
                    [at : {"lock", "gate", "requote", "primary", "secondary", "naked",
                           "record", "both", "p", "s"},
                     k : Canonicals, manual : BOOLEAN, cost : [Legs -> Nat]]]
    /\ open \in [Canonicals -> Nat]
    /\ plat \in [Platforms -> Nat]
    /\ manual \in [ManualIds -> {NoManual} \cup
                    [status : {"awaiting-entry", "entered", "closed", "cancelled"},
                     k : Canonicals, cost : [Legs -> Nat]]]
    /\ armed \in BOOLEAN
    /\ entered \in [Canonicals -> Nat]
    /\ late \in [Callers -> 0..2]

Init ==
    /\ call = [t \in Callers |-> NoCall]
    /\ open = [k \in Canonicals |-> 0]
    /\ plat = [v \in Platforms |-> 0]
    /\ manual = [m \in ManualIds |-> NoManual]
    /\ armed = FALSE
    /\ entered = [k \in Canonicals |-> 0]
    /\ late = [t \in Callers |-> 0]

-----------------------------------------------------------------------------
(* RiskManager.                                                             *)

Total == MapThenSumSet(LAMBDA k : open[k], Canonicals)

\* Mutant: the exposure across canonical ids is not looked at.
ApprovedAnyTotal(k, c) ==
    /\ open[k] + Pair(c) <= MaxPosition
    /\ \A x \in Legs : plat[Platform(k, x)] + c[x] <= MaxPlatform

Approved(k, c) ==
    /\ open[k] + Pair(c) <= MaxPosition
    /\ \A x \in Legs : plat[Platform(k, x)] + c[x] <= MaxPlatform
    /\ Total + Pair(c) <= MaxTotal

\* Cost booked or released on some of the legs of k.
Amount(c, X) == (IF "p" \in X THEN c["p"] ELSE 0) + (IF "s" \in X THEN c["s"] ELSE 0)
Share(k, v, c, X) == Amount(c, {x \in X : Platform(k, x) = v})

record_trade(k, c, X) ==
    /\ open' = [open EXCEPT ![k] = @ + Amount(c, X)]
    /\ plat' = [v \in Platforms |-> plat[v] + Share(k, v, c, X)]

Less(a, b) == IF a > b THEN a - b ELSE 0

\* Mutant: what is released may exceed what is booked.
release_tradeUnclamped(k, c, X) ==
    /\ open' = [open EXCEPT ![k] = @ - Amount(c, X)]
    /\ plat' = [v \in Platforms |-> plat[v] - Share(k, v, c, X)]

\* Neither account goes below zero.
release_trade(k, c, X) ==
    /\ open' = [open EXCEPT ![k] = Less(@, Amount(c, X))]
    /\ plat' = [v \in Platforms |-> Less(plat[v], Share(k, v, c, X))]

-----------------------------------------------------------------------------
(* execute_opportunity.                                                     *)

Call(t) ==
    /\ call[t] = NoCall
    /\ \E k \in Canonicals, m \in BOOLEAN, c \in [Legs -> Costs] :
         call' = [call EXCEPT ![t] = [at |-> "lock", k |-> k, manual |-> m, cost |-> c]]
    /\ UNCHANGED <<exposures, manual, armed, entered, late>>

\* Mutant: the canonical id is not locked.
LockIsFreeAlways(k) == k \in Canonicals

\* A caller past "lock" holds the lock of its canonical id.
LockIsFree(k) == \A u \in Callers : call[u].at \notin {"none", "lock"} => call[u].k # k

At(t, at) == call[t].at = at
Leave(t)  == call' = [call EXCEPT ![t] = NoCall]
GoTo(t, at) == call' = [call EXCEPT ![t].at = at]

\* check_trade: over a limit, or refused for a reason of its own (edge, quote age,
\* daily limits, a signature seen a moment ago), it ends here.
Enter(t) ==
    /\ At(t, "lock") /\ LockIsFree(call[t].k)
    /\ Leave(t) \/ (Approved(call[t].k, call[t].cost) /\ GoTo(t, "gate"))
    /\ UNCHANGED <<exposures, manual, armed, entered, late>>

\* Mutant: the gate does not look at the kill switch.
GateAlways(t) == At(t, "gate") /\ (Leave(t) \/ GoTo(t, "requote"))

\* The mapping checks and the trade gate, of which the kill switch is the last.
Gate(t) == At(t, "gate") /\ (Leave(t) \/ (~armed /\ GoTo(t, "requote")))

PassGate(t) == /\ Gate(t)
               /\ UNCHANGED <<exposures, manual, armed, entered, late>>

\* An opportunity that needs a human is queued, without a reservation.
QueueManual(t) ==
    /\ At(t, "requote") /\ call[t].manual
    /\ \E m \in ManualIds :
         /\ manual[m] = NoManual
         /\ manual' = [manual EXCEPT ![m] = [status |-> "awaiting-entry", k |-> call[t].k,
                                             cost |-> call[t].cost]]
    /\ Leave(t)
    /\ UNCHANGED <<exposures, armed, entered, late>>

Near(c) == {n \in (c - Slip)..(c + Slip) : n > 0}

\* Fresh quotes move the cost of both legs within the tolerance; or they are
\* missing, stale, too far off or fail the audit.
Requote(t) ==
    /\ At(t, "requote")
    /\ \/ Leave(t)
       \/ /\ ~call[t].manual
          /\ \E p \in Near(call[t].cost["p"]), s \in Near(call[t].cost["s"]) :
               call' = [call EXCEPT ![t] = [@ EXCEPT !.at = "primary",
                           !.cost = [x \in Legs |-> IF x = "p" THEN p ELSE s]]]
    /\ UNCHANGED <<exposures, manual, armed, entered, late>>

Refused(t, x) == armed /\ Platform(call[t].k, x) \in Gated

\* The primary is skipped (balance, edge, depth), refused, or sent: then it
\* fills nothing and the execution ends, or something.
Primary(t) ==
    /\ At(t, "primary")
    /\ \/ Leave(t) /\ UNCHANGED late
       \/ /\ ~Refused(t, "p")
          /\ late' = IF armed THEN [late EXCEPT ![t] = IF @ < 2 THEN @ + 1 ELSE 2] ELSE late
          /\ Leave(t) \/ GoTo(t, "secondary")
    /\ UNCHANGED <<exposures, manual, armed, entered>>

\* The secondary is sent, or not: refused, skipped, or an exception.
Secondary(t) ==
    /\ At(t, "secondary")
    /\ GoTo(t, "naked") \/ (~Refused(t, "s") /\ GoTo(t, "record"))
    /\ UNCHANGED <<exposures, manual, armed, entered, late>>

\* The legs that survive are booked; unless the pair is whole or failed, the
\* recovery follows.
Record(t, X) ==
    /\ At(t, "record") \/ (At(t, "naked") /\ X \subseteq {"p"})
    /\ record_trade(call[t].k, call[t].cost, X)
    /\ \/ X \in {{}, Legs} /\ Leave(t)
       \/ X = Legs /\ GoTo(t, "both")
       \/ X = {"p"} /\ GoTo(t, "p")
       \/ X = {"s"} /\ GoTo(t, "s")
    /\ UNCHANGED <<manual, armed, entered, late>>

Recovering == [both |-> Legs, p |-> {"p"}, s |-> {"s"}]

\* The recovery releases what it cancelled and sold, at the prices of the orders.
Recover(t) ==
    /\ call[t].at \in DOMAIN Recovering
    /\ LET X == Recovering[call[t].at] IN
       \E c \in [X -> 0..(MaxCost + 2 * Slip)] :
         /\ \A x \in X : c[x] <= call[t].cost[x] + Slip
         /\ release_trade(call[t].k, c, X)
    /\ Leave(t)
    /\ UNCHANGED <<manual, armed, entered, late>>

-----------------------------------------------------------------------------
(* update_manual_position, by the operator.                                 *)

MarkEntered(m) ==
    /\ manual[m].status \in {"awaiting-entry", "entered"}
    /\ manual' = [manual EXCEPT ![m].status = "entered"]
    /\ IF manual[m].status = "entered"
       THEN UNCHANGED <<exposures, entered>>
       ELSE /\ record_trade(manual[m].k, manual[m].cost, Legs)
            /\ entered' = [entered EXCEPT ![manual[m].k] = @ + Pair(manual[m].cost)]
    /\ UNCHANGED <<call, armed, late>>

\* A position is closed or cancelled from any state but the other of the two,
\* and each time its cost is released.
End(m, status, from) ==
    /\ manual[m].status \in from
    /\ manual' = [manual EXCEPT ![m].status = status]
    /\ release_trade(manual[m].k, manual[m].cost, Legs)
    /\ entered' = IF manual[m].status = "entered"
                  THEN [entered EXCEPT ![manual[m].k] = Less(@, Pair(manual[m].cost))]
                  ELSE entered
    /\ UNCHANGED <<call, armed, late>>

MarkClosed(m) == End(m, "closed", {"awaiting-entry", "entered", "closed"})
Cancel(m)     == End(m, "cancelled", {"awaiting-entry", "entered", "cancelled"})

-----------------------------------------------------------------------------
Trip ==
    /\ ~armed
    /\ armed' = TRUE
    /\ UNCHANGED <<call, exposures, manual, entered, late>>

Reset ==
    /\ armed
    /\ armed' = FALSE
    /\ late' = [t \in Callers |-> 0]
    /\ UNCHANGED <<call, exposures, manual, entered>>

Execute(t) ==
    \/ Call(t) \/ Enter(t) \/ PassGate(t) \/ QueueManual(t) \/ Requote(t)
    \/ Primary(t) \/ Secondary(t) \/ (\E X \in SUBSET Legs : Record(t, X)) \/ Recover(t)

Next ==
    \/ \E t \in Callers : Execute(t)
    \/ \E m \in ManualIds : MarkEntered(m) \/ MarkClosed(m) \/ Cancel(m)
    \/ Trip \/ Reset

Spec == Init /\ [][Next]_vars

-----------------------------------------------------------------------------
(* Properties.                                                              *)

\* What check_trade approved for one canonical id is never exceeded by more than
\* one requote, whoever executes: only positions an operator enters by hand come
\* on top, for they are checked when queued and not when booked.
MarketCap ==
    \A k \in Canonicals : open[k] <= MaxPosition + 2 * Slip + entered[k]

TotalCap ==
    Total <= MaxTotal + Cardinality(Callers) * 2 * Slip
             + (Cardinality(Callers) - 1) * 2 * MaxCost
             + MapThenSumSet(LAMBDA k : entered[k], Canonicals)

\* Of each platform a trade takes one leg.
PlatformCap ==
    \A v \in Platforms :
      plat[v] <= MaxPlatform + Cardinality(Callers) * Slip
                 + (Cardinality(Callers) - 1) * MaxCost
                 + MapThenSumSet(LAMBDA k : entered[k], Canonicals)

\* The limits across canonical ids, in total and by platform, are checked without
\* a lock: each further caller can add one trade that was checked before the
\* others were booked, no more.
SharedCaps == TotalCap /\ PlatformCap

\* The kill switch stops the executions that come after it: each caller sends at
\* most the primary it had already taken through the gate.
ArmStopsNew == \A t \in Callers : late[t] <= 1

=============================================================================
