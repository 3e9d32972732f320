---------------------------- MODULE ArbExecution ----------------------------
(***************************************************************************)
(* One arbitrage taken through ExecutionEngine._live_execution: a primary  *)
(* order, then a chain of secondary orders (IOC, requotes, FOK) until one  *)
(* fills or the chain gives up, then the recovery of an unbalanced pair    *)
(* (cancel what is open, verify, sell the excess: rest at break-even, then *)
(* market).  The engine only sees answers; the venues hold the truth, and  *)
(* fill, expire or refuse an order at any moment in between.               *)
(*                                                                         *)
(* A slot is one order the engine may send: 0 is the primary, 1 the first  *)
(* secondary IOC, 1+i the i-th requote, then the FOK, the resting sell and *)
(* the market sell.  Quantities are contracts; prices are abstracted to    *)
(* the choices they decide (the walked book is affordable or it is not).   *)
(***************************************************************************)
EXTENDS Integers, FiniteSets

CONSTANTS SuggestedQty,     \* opp.suggested_qty
          Requotes,         \* SECONDARY_REQUOTE_MAX_ATTEMPTS
          PrimaryFaults,    \* how the adapter of each role may mislead the
          SecondaryFaults,  \*   engine: subsets of FaultKinds
          UnwindFaults

(***************************************************************************)
(*  timeout            no answer within execution_timeout_s                *)
(*  raises_late        the adapter raises though the venue took the order  *)
(*  fails_late         the adapter says FAILED though the venue took it    *)
(*  answers_early      the answer comes while the order is still working   *)
(*  poll_failed        a failed get_order sets status FAILED (kalshi)      *)
(*  poll_unknown       a failed get_order sets idempotency_ambiguous       *)
(*  ended_as_cancelled an order that ended half filled reads CANCELLED     *)
(*  partial_while_live an order half filled and working reads PARTIAL      *)
(*  fok_partial        the FOK may fill in part (ForecastEx sends an IOC)  *)
(*  cancel_lost        cancel_order fails and the order keeps working      *)
(*  cancel_acks_ended  cancel_order succeeds on an order that has ended    *)
(***************************************************************************)
FaultKinds == {"timeout", "raises_late", "fails_late", "answers_early",
               "poll_failed", "poll_unknown", "ended_as_cancelled",
               "partial_while_live", "fok_partial", "cancel_lost",
               "cancel_acks_ended"}

ASSUME ExecutionAssumption ==
    /\ SuggestedQty \in Nat \ {0}
    /\ Requotes \in Nat
    /\ PrimaryFaults \subseteq FaultKinds
    /\ SecondaryFaults \subseteq FaultKinds
    /\ UnwindFaults \subseteq FaultKinds

PRIMARY == 0
FIRST   == 1
FOK     == Requotes + 2
REST    == Requotes + 3
MARKET  == Requotes + 4

Slots       == PRIMARY..MARKET
Secondaries == FIRST..FOK
NoId        == -1           \* a synthetic order id: no venue order answers to it

Faults(s) == IF s = PRIMARY THEN PrimaryFaults
             ELSE IF s \in Secondaries THEN SecondaryFaults
             ELSE UnwindFaults

Legs == {"p", "s"}
Other(x) == IF x = "p" THEN "s" ELSE "p"

Status == {"PENDING", "SUBMITTED", "PARTIAL", "FILLED", "CANCELLED", "FAILED", "ABORTED"}
Surviving      == {"FILLED", "PARTIAL", "SUBMITTED"}
TerminalFailed == {"FAILED", "CANCELLED", "ABORTED"}

\* The Order record as the engine holds it.
Order == [id : Slots \cup {NoId}, status : Status, fill : 0..SuggestedQty,
          amb : BOOLEAN]
\* An order that no venue ever saw (SKIPPED, EDGE-LOST, EXCEPTION, DBFAIL).
Placeholder(status) == [id |-> NoId, status |-> status, fill |-> 0, amb |-> FALSE]
NoOrder == Placeholder("PENDING")

VARIABLES
    venue,     \* what each order really is at its venue
    pc,        \* where the coroutine is suspended
    slot,      \* the attempt in progress
    eff,       \* effective_qty
    ord,       \* the order _place_order_for_leg / _smart_unwind is driving
    last,      \* `order` of _execute_with_fallbacks: the last attempt returned
    leg,       \* primary_leg and secondary_leg
    dbFailed,  \* engine._db_write_failed
    todo,      \* legs the recovery has still to cancel
    uw,        \* the unwind: leg, quantity, and what the resting sell sold
    booked,    \* RiskManager exposure booked for each leg, in contracts
    open,      \* event types of the incidents of this arb still open
    paged      \* a critical incident was raised at some time

place == <<slot, eff, last>>
recovery == <<todo, uw, booked>>
alarms == <<open, paged>>
vars == <<venue, pc, slot, eff, ord, last, leg, dbFailed, todo, uw, booked, open, paged>>

Incidents == {"secondary_execution_exception", "soft_naked_leg",
              "one_leg_exposure", "one_leg_risk", "unwind_blocked",
              "late_fill_balanced", "auto_unwind_exception"}

TypeOK ==
    /\ venue \in [Slots -> [st : {"none", "flying", "live", "ended", "refused"},
                            want : 0..SuggestedQty, fill : 0..SuggestedQty]]
    /\ pc \in {"start", "place", "reply", "poll", "returned", "requote", "decide",
               "recover", "cancel", "verify", "unwind", "rest_reply", "rest_poll",
               "market", "market_reply", "done", "raised"}
    /\ slot \in PRIMARY..FOK
    /\ eff \in 0..SuggestedQty
    /\ ord \in Order
    /\ last \in Order
    /\ leg \in [Legs -> Order]
    /\ dbFailed \in BOOLEAN
    /\ todo \subseteq Legs
    /\ uw \in [leg : Legs, qty : 0..SuggestedQty, rested : 0..SuggestedQty]
    /\ booked \in [Legs -> 0..SuggestedQty]
    /\ open \subseteq Incidents
    /\ paged \in BOOLEAN

Init ==
    /\ venue = [s \in Slots |-> [st |-> "none", want |-> 0, fill |-> 0]]
    /\ pc = "start"
    /\ slot = PRIMARY
    /\ eff = 0
    /\ ord = NoOrder
    /\ last = NoOrder
    /\ leg = [x \in Legs |-> Placeholder("ABORTED")]
    /\ dbFailed = FALSE
    /\ todo = {}
    /\ uw = [leg |-> "p", qty |-> 0, rested |-> 0]
    /\ booked = [x \in Legs |-> 0]
    /\ open = {}
    /\ paged = FALSE

Raise(kind) == open' = open \cup {kind} /\ paged' = TRUE

-----------------------------------------------------------------------------
(* The venues (external): an order in flight is accepted or refused, a      *)
(* working order fills, ends, or waits.                                     *)

Accept(s) ==
    /\ venue[s].st = "flying"
    /\ venue' = [venue EXCEPT ![s].st = "live"]

Refuse(s) ==
    /\ venue[s].st = "flying"
    /\ venue' = [venue EXCEPT ![s].st = "refused"]

\* A FOK fills whole or not at all, unless the venue has no FOK.
Fill(s) ==
    /\ venue[s].st = "live"
    /\ \E k \in 1..(venue[s].want - venue[s].fill) :
         LET filled == venue[s].fill + k IN
         /\ s = FOK /\ "fok_partial" \notin SecondaryFaults => filled = venue[s].want
         /\ venue' = [venue EXCEPT ![s] =
                         [@ EXCEPT !.fill = filled,
                                   !.st = IF filled = venue[s].want THEN "ended" ELSE "live"]]

Expire(s) ==
    /\ venue[s].st = "live"
    /\ venue' = [venue EXCEPT ![s].st = "ended"]

Venue == /\ \E s \in Slots : Accept(s) \/ Refuse(s) \/ Fill(s) \/ Expire(s)
         /\ UNCHANGED <<pc, ord, leg, dbFailed, place, recovery, alarms>>

-----------------------------------------------------------------------------
(* The adapters: what an order can look like from the engine.               *)

\* The OrderStatus values an answer about a venue order v may carry.
StatusesOf(v, faults) ==
    IF v.st = "refused"      THEN {"FAILED"}
    ELSE IF v.fill = v.want  THEN {"FILLED"}
    ELSE IF v.fill = 0       THEN IF v.st = "live" THEN {"SUBMITTED"} ELSE {"CANCELLED"}
    ELSE IF v.st = "live"    THEN {"SUBMITTED"} \cup
                                  (IF "partial_while_live" \in faults THEN {"PARTIAL"} ELSE {})
    ELSE                          {"PARTIAL"} \cup
                                  (IF "ended_as_cancelled" \in faults THEN {"CANCELLED"} ELSE {})

\* adapter.get_order(o): the order as it may come back, v being the venue's.
\* Nothing ever clears idempotency_ambiguous, and a synthetic id proves nothing.
GetOrder(o, v, faults) ==
    IF o.id = NoId THEN {o}
    ELSE {[o EXCEPT !.status = st, !.fill = v.fill] : st \in StatusesOf(v, faults)}
         \cup (IF "poll_failed" \in faults THEN {[o EXCEPT !.status = "FAILED"]} ELSE {})
         \cup (IF "poll_unknown" \in faults THEN {[o EXCEPT !.amb = TRUE]} ELSE {})

\* adapter.cancel_order: whether it succeeded, and the venue order afterwards.
Cancel(v, faults) ==
    IF v.st = "live"
    THEN {[ok |-> TRUE, v |-> [v EXCEPT !.st = "ended"]]}
         \cup (IF "cancel_lost" \in faults THEN {[ok |-> FALSE, v |-> v]} ELSE {})
    ELSE {[ok |-> FALSE, v |-> v]}
         \cup (IF "cancel_acks_ended" \in faults THEN {[ok |-> TRUE, v |-> v]} ELSE {})

\* The place call can return: the order is over, or the venue answers early.
Answered(s) ==
    \/ venue[s].st \in {"ended", "refused"}
    \/ venue[s].st = "live" /\ (s = REST \/ "answers_early" \in Faults(s))

\* The place call can raise: a refusal may surface as OrderRejected.
Raised(s) == venue[s].st = "refused" \/ "raises_late" \in Faults(s)

Send(s, qty) == venue' = [venue EXCEPT ![s] = [st |-> "flying", want |-> qty, fill |-> 0]]

-----------------------------------------------------------------------------
(* _place_order_for_leg, for the order in `slot`.                           *)

\* The order is persisted and returned; a failed write sets _db_write_failed.
Return(o) ==
    /\ ord' = o
    /\ dbFailed' \in {dbFailed, TRUE}
    /\ pc' = "returned"

Place ==
    /\ pc = "place"
    /\ ~dbFailed
    /\ Send(slot, eff)
    /\ pc' = "reply"
    /\ UNCHANGED <<ord, leg, dbFailed, place, recovery, alarms>>

PlaceBlocked ==
    /\ pc = "place"
    /\ dbFailed
    /\ ord' = Placeholder("ABORTED")
    /\ pc' = "returned"
    /\ UNCHANGED <<venue, leg, dbFailed, place, recovery, alarms>>

\* The answer: a SUBMITTED order is polled, any other is returned.
Reply ==
    /\ pc = "reply"
    /\ Answered(slot)
    /\ \E st \in StatusesOf(venue[slot], Faults(slot)) :
         LET o == [id |-> slot, status |-> st, fill |-> venue[slot].fill, amb |-> FALSE]
         IN IF st = "SUBMITTED"
            THEN ord' = o /\ pc' = "poll" /\ UNCHANGED dbFailed
            ELSE Return(o)
    /\ UNCHANGED <<venue, leg, place, recovery, alarms>>

ReplyFailsLate ==
    /\ pc = "reply"
    /\ "fails_late" \in Faults(slot)
    /\ Return(Placeholder("FAILED"))
    /\ UNCHANGED <<venue, leg, place, recovery, alarms>>

\* asyncio.TimeoutError: look the order up by client id and cancel it; whatever
\* that says, the order stays idempotency_ambiguous under a synthetic id.
ReplyTimesOut ==
    /\ pc = "reply"
    /\ "timeout" \in Faults(slot)
    /\ \/ /\ venue[slot].st = "live"
          /\ \E c \in Cancel(venue[slot], Faults(slot)) :
               /\ venue' = [venue EXCEPT ![slot] = c.v]
               /\ Return([Placeholder(IF c.ok THEN "CANCELLED" ELSE "FAILED")
                            EXCEPT !.amb = TRUE])
       \/ /\ Return([Placeholder("FAILED") EXCEPT !.amb = TRUE])
          /\ UNCHANGED venue
    /\ UNCHANGED <<leg, place, recovery, alarms>>

\* An exception escapes: before the primary returned it ends the execution,
\* after that it becomes an ABORTED -EXCEPTION leg and a critical incident.
SecondaryRaised ==
    /\ leg' = [leg EXCEPT !["s"] = Placeholder("ABORTED")]
    /\ Raise("secondary_execution_exception")
    /\ pc' = "decide"

ReplyRaises ==
    /\ pc = "reply"
    /\ Raised(slot)
    /\ IF slot = PRIMARY
       THEN pc' = "raised" /\ UNCHANGED <<leg, alarms>>
       ELSE SecondaryRaised
    /\ UNCHANGED <<venue, ord, dbFailed, place, recovery>>

\* _poll_submitted_to_terminal: one get_order.
Poll ==
    /\ pc = "poll"
    /\ \E o \in GetOrder(ord, venue[slot], Faults(slot)) :
         IF o.status = "SUBMITTED"
         THEN ord' = o /\ UNCHANGED <<pc, dbFailed>>
         ELSE Return(o)
    /\ UNCHANGED <<venue, leg, place, recovery, alarms>>

\* Mutants: the deadline passes and the order is not cancelled; a read after the
\* cancel is believed whatever became of the cancel.
PollTimesOutNoCancel ==
    /\ pc = "poll"
    /\ \E o \in GetOrder(ord, venue[slot], Faults(slot)) : Return(o)
    /\ UNCHANGED <<venue, leg, place, recovery, alarms>>

PollTimesOutNoDoubt ==
    /\ pc = "poll"
    /\ \E c \in Cancel(venue[slot], Faults(slot)) :
         /\ venue' = [venue EXCEPT ![slot] = c.v]
         /\ \E o \in GetOrder(ord, c.v, Faults(slot)) : Return(o)
    /\ UNCHANGED <<leg, place, recovery, alarms>>

\* The poll deadline: cancel, read once more, and doubt all but a fill.
PollTimesOut ==
    /\ pc = "poll"
    /\ \E c \in Cancel(venue[slot], Faults(slot)) :
         /\ venue' = [venue EXCEPT ![slot] = c.v]
         /\ \E o \in GetOrder(ord, c.v, Faults(slot)) :
              Return([o EXCEPT !.amb = @ \/ (/\ o.status # "FILLED"
                                             /\ o.status = "SUBMITTED" \/ ~c.ok)])
    /\ UNCHANGED <<leg, place, recovery, alarms>>

\* While this execution is suspended another write fails (of another execution,
\* or of an incident), or an operator resets the kill switch.
DbFlips ==
    /\ pc \notin {"done", "raised"}
    /\ dbFailed' = ~dbFailed
    /\ UNCHANGED <<venue, pc, ord, leg, place, recovery, alarms>>

-----------------------------------------------------------------------------
(* _live_execution: the legs in sequence.                                   *)

\* Balance, profitability and depth gates: halve the quantity, skip, or go.
PreTrade ==
    /\ pc = "start"
    /\ \/ \E q \in 1..SuggestedQty : eff' = q /\ pc' = "place"
       \/ pc' = "done" /\ UNCHANGED eff
    /\ UNCHANGED <<venue, slot, last, ord, leg, dbFailed, recovery, alarms>>

\* The primary returned: no fill ends it; a fill sizes the secondary, whose
\* book is then walked (affordable, unaffordable, or the walk raises).
PrimaryReturned ==
    /\ pc = "returned" /\ slot = PRIMARY
    /\ \/ /\ ord.fill = 0
          /\ leg' = [p |-> ord, s |-> Placeholder("ABORTED")]
          /\ pc' = "decide"
          /\ UNCHANGED <<slot, eff, alarms>>
       \/ /\ ord.fill > 0
          /\ leg' = [leg EXCEPT !["p"] = ord]
          /\ eff' = ord.fill
          /\ slot' = FIRST
          /\ pc' \in {"place", "requote"}
          /\ UNCHANGED alarms
       \/ /\ ord.fill > 0
          /\ leg' = [p |-> ord, s |-> Placeholder("ABORTED")]
          /\ eff' = ord.fill
          /\ Raise("secondary_execution_exception")
          /\ pc' = "decide"
          /\ UNCHANGED slot
    /\ UNCHANGED <<venue, ord, last, dbFailed, recovery>>

\* Mutant: an attempt in doubt is retried like a dead one.
AttemptReturnedNoDoubt ==
    /\ pc = "returned" /\ slot \in FIRST..(FOK - 1)
    /\ IF ord.status \in {"FILLED", "PARTIAL"}
       THEN leg' = [leg EXCEPT !["s"] = ord] /\ pc' = "decide" /\ UNCHANGED last
       ELSE last' = ord /\ pc' = "requote" /\ UNCHANGED leg
    /\ UNCHANGED <<venue, slot, eff, ord, dbFailed, recovery, alarms>>

\* An IOC of the chain returned: a fill or an ambiguous order ends the chain.
AttemptReturned ==
    /\ pc = "returned" /\ slot \in FIRST..(FOK - 1)
    /\ IF ord.status \in {"FILLED", "PARTIAL"} \/ ord.amb
       THEN leg' = [leg EXCEPT !["s"] = ord] /\ pc' = "decide" /\ UNCHANGED last
       ELSE last' = ord /\ pc' = "requote" /\ UNCHANGED leg
    /\ UNCHANGED <<venue, slot, eff, ord, dbFailed, recovery, alarms>>

\* One turn of the requote loop: the re-walked book is in reach, or the turn
\* is lost.
Requote ==
    /\ pc = "requote" /\ slot < FOK - 1
    /\ slot' = slot + 1
    /\ pc' \in {"place", "requote"}
    /\ UNCHANGED <<venue, eff, ord, last, leg, dbFailed, recovery, alarms>>

\* The loop is over: the FOK is the last rung, unless nothing was ever sent.
RequotesExhausted ==
    /\ pc = "requote" /\ slot = FOK - 1
    /\ IF last = NoOrder
       THEN /\ leg' = [leg EXCEPT !["s"] = Placeholder("ABORTED")]
            /\ pc' = "decide"
            /\ UNCHANGED slot
       ELSE slot' = FOK /\ pc' = "place" /\ UNCHANGED leg
    /\ UNCHANGED <<venue, eff, ord, last, dbFailed, recovery, alarms>>

\* The FOK returned: unless it is FILLED the leg is the attempt before it.
FokReturned ==
    /\ pc = "returned" /\ slot = FOK
    /\ leg' = [leg EXCEPT !["s"] = IF ord.status = "FILLED" THEN ord ELSE last]
    /\ pc' = "decide"
    /\ UNCHANGED <<venue, ord, dbFailed, place, recovery, alarms>>

-----------------------------------------------------------------------------
(* The status of the pair, and what the risk manager books for it.          *)

\* Mutant: only a whole fill is exposure.
IsSurvivorWhole(o) == o.status = "FILLED" /\ o.fill > 0

\* A zero-fill FILLED order is no exposure; a working one may still fill.
IsSurvivor(o) == o.status \in Surviving /\ (o.status = "FILLED" => o.fill > 0)

\* One leg FILLED, the other accepted and short of its quantity.
SoftNaked(x) ==
    /\ leg[x].status = "FILLED"
    /\ leg[Other(x)].status = "SUBMITTED"
    /\ leg[Other(x)].fill < venue[leg[Other(x)].id].want

PairStatus ==
    IF \E x \in Legs : leg[x].status \in TerminalFailed
    THEN IF \E x \in Legs : IsSurvivor(leg[x]) THEN "recovering" ELSE "failed"
    ELSE IF (\E x \in Legs : leg[x].status = "PARTIAL") \/ (\E x \in Legs : SoftNaked(x))
         THEN "recovering"
         ELSE IF \A x \in Legs : leg[x].status = "FILLED" THEN "filled" ELSE "submitted"

\* Mutant: a pair that needs recovery is booked like one that failed.
BookedForDone(status) ==
    [x \in Legs |-> IF status \in {"failed", "recovering"} THEN 0 ELSE SuggestedQty]

\* A failed pair books nothing, a recovering one its only survivor if it has
\* one, any other the full split at the suggested quantity.
BookedFor(status) ==
    [x \in Legs |->
        IF \/ status = "failed"
           \/ /\ status = "recovering"
              /\ leg[x].status \notin Surviving
              /\ leg[Other(x)].status \in Surviving
        THEN 0 ELSE SuggestedQty]

Decide ==
    /\ pc = "decide"
    /\ IF leg["p"].fill > 0 /\ leg["s"].status \in {"SUBMITTED", "PARTIAL"}
       THEN Raise("soft_naked_leg")
       ELSE UNCHANGED alarms
    /\ booked' = BookedFor(PairStatus)
    /\ pc' = IF PairStatus = "recovering" THEN "recover" ELSE "done"
    /\ UNCHANGED <<venue, ord, leg, dbFailed, place, todo, uw>>

-----------------------------------------------------------------------------
(* _recover_one_leg_risk.                                                   *)

\* release_trade never takes a reservation below zero.
Release(x, n) == booked' = [booked EXCEPT ![x] = IF n < @ THEN @ - n ELSE 0]

Filled(x) == leg[x].status = "FILLED" /\ leg[x].fill > 0
HasFills(x) == leg[x].status \in {"FILLED", "PARTIAL"} /\ leg[x].fill > 0

Recover ==
    /\ pc = "recover"
    /\ Raise(IF Filled("p") # Filled("s") THEN "one_leg_exposure" ELSE "one_leg_risk")
    /\ todo' = {x \in Legs : leg[x].status \in {"SUBMITTED", "PARTIAL"}}
    /\ pc' = "cancel"
    /\ UNCHANGED <<venue, ord, leg, dbFailed, place, uw, booked>>

\* A successful cancel marks the leg CANCELLED whatever it had filled, and
\* releases the part the engine believes unfilled.
CancelLeg(x) ==
    /\ pc = "cancel" /\ x \in todo
    /\ todo' = todo \ {x}
    /\ \E c \in Cancel(venue[leg[x].id], Faults(leg[x].id)) :
         /\ venue' = [venue EXCEPT ![leg[x].id] = c.v]
         /\ IF c.ok
            THEN /\ leg' = [leg EXCEPT ![x].status = "CANCELLED"]
                 /\ Release(x, c.v.want - leg[x].fill)
            ELSE UNCHANGED <<leg, booked>>
    /\ UNCHANGED <<pc, ord, dbFailed, place, uw, alarms>>

\* The leg to sell and how much of it, from the fills the engine believes in.
Believed(x) == IF HasFills(x) THEN leg[x].fill ELSE 0

\* Mutants: the whole of the larger leg is sold; the primary is always taken to
\* be the larger one.
ChooseUnwindWhole ==
    /\ pc = "cancel" /\ todo = {}
    /\ IF Believed("p") = Believed("s")
       THEN pc' = "done" /\ UNCHANGED uw
       ELSE LET x == IF Believed("p") > Believed("s") THEN "p" ELSE "s"
            IN uw' = [leg |-> x, qty |-> Believed(x), rested |-> 0] /\ pc' = "unwind"
    /\ UNCHANGED <<venue, ord, leg, dbFailed, place, todo, booked, alarms>>

ChooseUnwindPrimary ==
    /\ pc = "cancel" /\ todo = {}
    /\ IF Believed("p") = Believed("s")
       THEN pc' = "done" /\ UNCHANGED uw
       ELSE /\ uw' = [leg |-> "p", qty |-> Believed("p") - Believed("s"), rested |-> 0]
            /\ pc' = "unwind"
    /\ UNCHANGED <<venue, ord, leg, dbFailed, place, todo, booked, alarms>>

ChooseUnwind ==
    /\ pc = "cancel" /\ todo = {}
    /\ IF Believed("p") = Believed("s")
       THEN pc' = "done" /\ UNCHANGED uw
       ELSE LET x == IF Believed("p") > Believed("s") THEN "p" ELSE "s"
                o == leg[Other(x)]
            IN /\ uw' = [leg |-> x, qty |-> Believed(x) - Believed(Other(x)), rested |-> 0]
               /\ pc' = IF o.fill = 0 /\ o.amb THEN "verify" ELSE "unwind"
    /\ UNCHANGED <<venue, ord, leg, dbFailed, place, todo, booked, alarms>>

\* Verify-before-unwind: a late fill shrinks or cancels the unwind, a proven
\* death lets it run, anything else blocks it.
Verify ==
    /\ pc = "verify"
    /\ LET x == Other(uw.leg) IN
       \E o \in (IF leg[x].id = NoId THEN {leg[x]}
                 ELSE GetOrder(leg[x], venue[leg[x].id], Faults(leg[x].id))) :
         /\ leg' = [leg EXCEPT ![x] = o]
         /\ CASE o.fill >= uw.qty ->
                   /\ open' = open \cup {"late_fill_balanced"}
                   /\ pc' = "done"
                   /\ UNCHANGED <<uw, paged>>
              [] o.fill \in 1..(uw.qty - 1) ->
                   /\ uw' = [uw EXCEPT !.qty = @ - o.fill]
                   /\ pc' = "unwind"
                   /\ UNCHANGED alarms
              [] o.fill = 0 /\ ~o.amb /\ o.status \in TerminalFailed ->
                   /\ pc' = "unwind"
                   /\ UNCHANGED <<uw, alarms>>
              [] OTHER ->
                   /\ Raise("unwind_blocked")
                   /\ pc' = "done"
                   /\ UNCHANGED uw
    /\ UNCHANGED <<venue, ord, dbFailed, place, todo, booked>>

-----------------------------------------------------------------------------
(* _smart_unwind: rest a sell at break-even, then sell at the market.       *)

RestSell ==
    /\ pc = "unwind"
    /\ Send(REST, uw.qty)
    /\ pc' = "rest_reply"
    /\ UNCHANGED <<ord, leg, dbFailed, place, recovery, alarms>>

\* The unwind closed `sold` contracts: release them, and resolve the recovery
\* incidents of the arb once anything at all was sold.
Close(sold) ==
    /\ pc' = "done"
    /\ IF sold > 0
       THEN /\ Release(uw.leg, sold)
            /\ open' = open \ {"one_leg_exposure", "soft_naked_leg"}
       ELSE UNCHANGED <<booked, open>>

RestReply ==
    /\ pc = "rest_reply"
    /\ \/ /\ Answered(REST)
          /\ \E st \in StatusesOf(venue[REST], UnwindFaults) :
               /\ ord' = [id |-> REST, status |-> st, fill |-> venue[REST].fill, amb |-> FALSE]
               /\ IF st = "FILLED"
                  THEN Close(uw.qty)
                  ELSE /\ pc' = IF st \in {"FAILED", "CANCELLED"} THEN "market" ELSE "rest_poll"
                       /\ UNCHANGED <<booked, open>>
       \/ /\ Raised(REST) \/ "fails_late" \in UnwindFaults
          /\ pc' = "market"
          /\ UNCHANGED <<ord, booked, open>>
    /\ UNCHANGED <<venue, leg, dbFailed, place, todo, uw, paged>>

RestPoll ==
    /\ pc = "rest_poll"
    /\ \E o \in GetOrder(ord, venue[REST], UnwindFaults) :
         /\ ord' = o
         /\ IF o.status = "FILLED"
            THEN Close(uw.qty)
            ELSE UNCHANGED <<pc, booked, open>>
    /\ UNCHANGED <<venue, leg, dbFailed, place, todo, uw, paged>>

\* Mutant: the resting sell has no deadline.
RestCancelNoDeadline ==
    /\ pc = "rest_poll"
    /\ ord.status # "SUBMITTED"
    /\ uw' = [uw EXCEPT !.rested = ord.fill]
    /\ pc' = "market"
    /\ UNCHANGED <<venue, ord, leg, dbFailed, place, todo, booked, alarms>>

\* The rest timed out or died: cancel, whatever comes of it, read once more
\* and send the market sell for what is believed unsold.
RestCancel ==
    /\ pc = "rest_poll"
    /\ \E c \in Cancel(venue[REST], UnwindFaults) :
         /\ venue' = [venue EXCEPT ![REST] = c.v]
         /\ \E o \in GetOrder(ord, c.v, UnwindFaults) :
              /\ ord' = o
              /\ IF o.status = "FILLED" \/ o.fill >= uw.qty
                 THEN Close(o.fill) /\ UNCHANGED uw
                 ELSE /\ uw' = [uw EXCEPT !.rested = o.fill]
                      /\ pc' = "market"
                      /\ UNCHANGED <<booked, open>>
    /\ UNCHANGED <<leg, dbFailed, place, todo, paged>>

MarketSell ==
    /\ pc = "market"
    /\ Send(MARKET, uw.qty - uw.rested)
    /\ pc' = "market_reply"
    /\ UNCHANGED <<ord, leg, dbFailed, place, recovery, alarms>>

\* The two sells are blended only when the market one sold something.
MarketReply ==
    /\ pc = "market_reply"
    /\ \/ Answered(MARKET) /\ Close(IF venue[MARKET].fill > 0
                                    THEN venue[MARKET].fill + uw.rested ELSE 0)
       \/ "fails_late" \in UnwindFaults /\ Close(0)
    /\ UNCHANGED <<venue, ord, leg, dbFailed, place, todo, uw, paged>>

\* _smart_unwind raised: the reservation is released and the position left to
\* an incident.
MarketRaises ==
    /\ pc = "market_reply"
    /\ Raised(MARKET)
    /\ Release(uw.leg, uw.qty)
    /\ Raise("auto_unwind_exception")
    /\ pc' = "done"
    /\ UNCHANGED <<venue, ord, leg, dbFailed, place, todo, uw>>

-----------------------------------------------------------------------------
Engine ==
    \/ PreTrade \/ Place \/ PlaceBlocked
    \/ Reply \/ ReplyFailsLate \/ ReplyTimesOut \/ ReplyRaises
    \/ Poll \/ PollTimesOut
    \/ PrimaryReturned \/ AttemptReturned \/ Requote \/ RequotesExhausted \/ FokReturned
    \/ Decide \/ Recover \/ (\E x \in Legs : CancelLeg(x)) \/ ChooseUnwind \/ Verify
    \/ RestSell \/ RestReply \/ RestPoll \/ RestCancel
    \/ MarketSell \/ MarketReply \/ MarketRaises

Next == Engine \/ Venue \/ DbFlips

Spec == Init /\ [][Next]_vars

\* The event loop runs what can run; a wait ends at its deadline (wall clock,
\* so it cannot be starved by the polls before it); a request in flight is
\* accepted or refused in the end.  Nothing makes an order fill or expire.
Fairness ==
    /\ WF_vars(Engine)
    /\ WF_vars(PollTimesOut)
    /\ WF_vars(RestCancel)
    /\ WF_vars((\E s \in Slots : Accept(s) \/ Refuse(s))
               /\ UNCHANGED <<pc, ord, leg, dbFailed, place, recovery, alarms>>)

FairSpec == Spec /\ Fairness

-----------------------------------------------------------------------------
(* Properties.                                                              *)

Bought == venue[PRIMARY].fill
Hedged == LET f[s \in 0..FOK] == IF s = 0 THEN 0 ELSE f[s - 1] + venue[s].fill IN f[FOK]
Sold   == venue[REST].fill + venue[MARKET].fill
\* Contracts really held on each leg.
Held(x) == (IF x = "p" THEN Bought ELSE Hedged) - (IF uw.leg = x THEN Sold ELSE 0)
Dead(s) == venue[s].st \in {"none", "ended", "refused"}

\* Retrying never stacks exposure: over all the attempts of the secondary, with
\* their late fills, at most one fills, and never beyond the primary.
HedgeOnce ==
    /\ \A s, t \in Secondaries : s # t => venue[s].fill = 0 \/ venue[t].fill = 0
    /\ \A s \in Secondaries : venue[s].fill <= Bought

\* The chain sends an order only when every earlier attempt is over at its
\* venue with no fill: an unproven attempt stops the chain.
SubmitOnlyAfterDead ==
    [][\A t \in Secondaries : venue[t].st = "none" /\ venue'[t].st # "none"
         => \A s \in Secondaries : Dead(s) /\ venue[s].fill = 0]_vars

\* The recovery sells only the excess of one leg over the other, counted at the
\* venues: the matched portion stays paired and no position goes short.
MatchedStaysPaired ==
    /\ uw.leg = "p" => Sold <= (IF Bought > Hedged THEN Bought - Hedged ELSE 0)
    /\ uw.leg = "s" => Sold <= (IF Hedged > Bought THEN Hedged - Bought ELSE 0)

\* The unwind starts only when nothing the engine sent for the other leg can
\* still fill.
UnwindOnlyAgainstDead ==
    [][venue[REST].st = "none" /\ venue'[REST].st # "none"
         => \A s \in PRIMARY..FOK : Dead(s)]_vars

\* A primary that fills is never left hanging: the execution comes to its end.
FilledPrimarySettles == Bought > 0 ~> pc \in {"done", "raised"}

\* An execution that knows of a fill of its primary and ends with unequal legs
\* has raised a critical incident.
NakedIsPaged ==
    pc = "done" /\ leg["p"].fill > 0 /\ Held("p") # Held("s") => paged

\* What the risk manager still books for a leg covers what is held on it, or
\* an incident is open that says otherwise.
BookedCovers == pc = "done" => \A x \in Legs : Held(x) <= booked[x] \/ open # {}

\* How far the trade of PairedTrade has come: an order for a leg starts it.
Phase ==
    IF pc \in {"done", "raised"} THEN "over"
    ELSE IF venue[REST].st # "none" THEN "closing"
    ELSE IF \E s \in Secondaries : venue[s].st # "none" THEN "hedging"
    ELSE "opening"

Trade == INSTANCE PairedTrade WITH
    Qty <- SuggestedQty, phase <- Phase,
    bought <- Bought, hedged <- Hedged, sold <- Sold, alarm <- paged

\* The chain of orders and the recovery keep the promise of a paired trade: the
\* primary is over before the hedge starts, the hedge before the unwind, nothing
\* is hedged or sold twice, and an unbalanced end has been paged.
KeepsTrade == Trade!Spec

=============================================================================
