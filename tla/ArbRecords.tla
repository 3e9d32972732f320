----------------------------- MODULE ArbRecords -----------------------------
(***************************************************************************)
(* The records of one live execution and everyone who writes them: the     *)
(* engine while it trades, the start-up recovery after a crash, the poller *)
(* of stuck trades and the AutoResolver.  ArbExecution has the trading in  *)
(* detail; here an order is filled whole or not at all, and what matters   *)
(* is the order of venue calls and database writes and where a crash falls *)
(* between them.                                                           *)
(*                                                                         *)
(* The orders of an execution are its primary P and two attempts at the    *)
(* secondary, S1 and S2: every attempt has a row of its own.               *)
(***************************************************************************)
EXTENDS Naturals, FiniteSets

CONSTANTS Size,        \* contracts of the execution; an unwind may sell part
          MaxCrashes,  \* bounds the crashes of the process
          FaultSets    \* which of the faults below may happen in one behaviour

FaultKinds == {"place_times_out",  \* a placement ends without an answer
               "query_fails",      \* get_order fails, and that reads FAILED
               "write_fails",      \* a write of the engine to Postgres fails
               "page_fails",       \* an incident is not written, which is only logged
               "process_dies",     \* a crash at any moment
               \* and of the reconciler (see Strands)
               "no_positions",     \* the positions cannot be read
               "lot_missed",       \* a venue's answer leaves out a lot it holds
               "answer_lost",      \* the adapter raises after the order was sent
               "unread"}           \* an open incident is not among those read

ASSUME RecordsAssumption ==
    /\ Size \in Nat \ {0} /\ MaxCrashes \in Nat
    /\ FaultSets \subseteq SUBSET FaultKinds

Legs == {"P", "S1", "S2"}

VARIABLES
    venue,      \* what became of each order at its venue
    sold,       \* contracts of the primary the unwind has sold
    at,         \* what the engine's coroutine does next; "gone" when it is over
    mem,        \* the engine's orders; "doubt" is dead with idempotency_ambiguous
    blocked,    \* engine._db_write_failed
    history,    \* the status of the execution in engine._executions
    row,        \* execution_arbs.status
    rec,        \* execution_orders.status of each order, "none" without a row
    sentinel,   \* NAKED_LEG_RECONCILED_SENTINEL is in recovery_notes
    evidence,   \* an "Auto-unwind closed" incident has been written
    half,       \* the half_recorded_arb incident is open
    boot,       \* what the start-up does next, "up" after it
    poller,     \* the status the poller of stuck trades has read
    age,        \* of the row: 0 young, 1 above two hours, 2 above 24 hours
    crashes,
    faults      \* what may go wrong in this behaviour

trading == <<venue, sold, at, mem, blocked>>
records == <<row, rec, sentinel, evidence, half>>
upkeep  == <<boot, poller, age, crashes, faults>>
vars == <<venue, sold, at, mem, blocked, history, row, rec, sentinel, evidence,
          half, boot, poller, age, crashes, faults>>

\* CANCELLED, FAILED and ABORTED are not told apart by anything below; pending
\* and partial orders do not occur, and SUBMITTED stands for every open one.
OrderStatus == {"none", "submitted", "filled", "dead"}
RowStatus == {"none", "pending", "recovering", "filled", "failed", "closed"}
RowEnded == {"filled", "failed", "closed"}         \* _TERMINAL_ARB_STATUSES

TypeOK ==
    /\ venue \in [Legs -> {"unsent", "working", "filled", "dead"}]
    /\ sold \in 0..Size
    /\ at \in ({"send", "save"} \X Legs)
              \cup {<<s>> : s \in {"decide", "recover", "unwind", "evidence",
                                   "mark", "record", "gone"}}
    /\ mem \in [Legs -> OrderStatus \cup {"doubt"}]
    /\ blocked \in BOOLEAN
    /\ history \in RowStatus /\ row \in RowStatus
    /\ rec \in [Legs -> OrderStatus]
    /\ sentinel \in BOOLEAN /\ evidence \in BOOLEAN /\ half \in BOOLEAN
    /\ boot \in {"orders", "half", "history", "up"}
    /\ poller \in {"idle", "pending", "recovering"}
    /\ age \in 0..2
    /\ crashes \in 0..MaxCrashes
    /\ faults \in FaultSets

Init ==
    /\ venue = [l \in Legs |-> "unsent"]
    /\ sold = 0
    /\ at = <<"send", "P">>
    /\ mem = [l \in Legs |-> "none"]
    /\ blocked = FALSE
    /\ history = "none"
    /\ row = "none"
    /\ rec = [l \in Legs |-> "none"]
    /\ sentinel = FALSE /\ evidence = FALSE /\ half = FALSE
    /\ boot = "up"
    /\ poller = "idle"
    /\ age = 0
    /\ crashes = 0
    /\ faults \in FaultSets

-----------------------------------------------------------------------------
(* The venues.                                                              *)

VenueEnds(l) ==
    /\ venue[l] = "working"
    /\ \E v \in {"filled", "dead"} : venue' = [venue EXCEPT ![l] = v]
    /\ UNCHANGED <<sold, at, mem, blocked, history, records, upkeep>>

\* What a look-up of an order may find; the placeholder of an order that was
\* never sent is dead and is not asked for.
Reported(l) ==
    {CASE venue[l] = "working" -> "submitted"
       [] venue[l] = "filled"  -> "filled"
       [] OTHER                -> "dead"}
    \cup (IF "query_fails" \in faults THEN {"dead"} ELSE {})

-----------------------------------------------------------------------------
(* The engine.                                                              *)

\* What comes after an order has been placed and its row written.
AfterOrder(l) ==
    CASE l = "P" /\ mem["P"] = "filled" -> <<"send", "S1">>
      [] l = "S1" /\ mem["S1"] = "dead" -> <<"send", "S2">>
      [] OTHER -> <<"decide">>

\* _place_order_for_leg up to its database write: the order reaches the venue,
\* is polled, and may still work when the engine stops waiting for it.
Place(l) ==
    /\ at = <<"send", l>> /\ ~blocked
    /\ \E v \in {"working", "filled", "dead"} :
          /\ venue' = [venue EXCEPT ![l] = v]
          /\ mem' \in {[mem EXCEPT ![l] = m] :
                        m \in {IF v = "working" THEN "submitted" ELSE v}
                              \cup (IF "place_times_out" \in faults
                                    THEN {"doubt"} ELSE {})}
    /\ at' = <<"save", l>>
    /\ UNCHANGED <<sold, blocked, history, records, upkeep>>

\* After a failed write: a local placeholder, nothing is sent or saved.
PlaceBlocked(l) ==
    /\ at = <<"send", l>> /\ blocked
    /\ mem' = [mem EXCEPT ![l] = "dead"]
    /\ at' = IF l = "S1" THEN <<"send", "S2">> ELSE <<"decide">>
    /\ UNCHANGED <<venue, sold, blocked, history, records, upkeep>>

Saved(m) == IF m = "doubt" THEN "dead" ELSE m

WriteFails ==
    /\ "write_fails" \in faults
    /\ blocked' = TRUE
    /\ UNCHANGED <<row, rec, sentinel>>

\* record_arb_stub_with_leg for the primary, upsert_order for an attempt.
Save(l) ==
    /\ at = <<"save", l>>
    /\ \/ /\ row' = IF row = "none" THEN "pending" ELSE row
          /\ rec' = [rec EXCEPT ![l] = Saved(mem[l])]
          /\ UNCHANGED <<blocked, sentinel>>
       \/ WriteFails
    /\ at' = AfterOrder(l)
    /\ UNCHANGED <<venue, sold, mem, history, evidence, half, upkeep>>

\* The secondary leg is its last attempt if that filled, and else its first;
\* after a primary without a fill it is a placeholder.
Secondary == IF mem["S2"] = "filled" THEN "S2" ELSE "S1"
Hedge == IF mem["S1"] = "none" THEN "dead" ELSE mem[Secondary]
Survives(m) == m \in {"filled", "submitted"}

PairStatus ==
    CASE mem["P"] = "filled" /\ Hedge = "filled" -> "filled"
      [] ~Survives(mem["P"]) /\ ~Survives(Hedge) -> "failed"
      [] OTHER -> "recovering"

Decide ==
    /\ at = <<"decide">>
    /\ history' = PairStatus
    /\ at' = IF PairStatus = "recovering" THEN <<"recover">> ELSE <<"record">>
    /\ UNCHANGED <<venue, sold, mem, blocked, records, upkeep>>

\* _recover_one_leg_risk: every open leg is cancelled; a leg the venue still
\* works dies, unless the cancel fails, and its row says so.
Recover ==
    /\ at = <<"recover">>
    /\ \E dies \in SUBSET {l \in {"P", Secondary} : mem[l] = "submitted" /\ venue[l] # "filled"} :
          /\ venue' = [l \in Legs |-> IF l \in dies THEN "dead" ELSE venue[l]]
          /\ mem' = [l \in Legs |-> IF l \in dies THEN "doubt" ELSE mem[l]]
          /\ rec' = [l \in Legs |-> IF l \in dies THEN "dead" ELSE rec[l]]
    /\ at' = IF mem["P"] = "filled" THEN <<"unwind">> ELSE <<"record">>
    /\ UNCHANGED <<sold, blocked, history, row, sentinel, evidence, half, upkeep>>

\* A secondary in doubt is looked up first: a late fill completes the pair,
\* anything else blocks the unwind.
VerifyFirst ==
    /\ at = <<"unwind">> /\ Hedge \in {"doubt", "submitted"}
    /\ mem' = IF "filled" \in Reported(Secondary) THEN [mem EXCEPT ![Secondary] = "filled"] ELSE mem
    /\ at' = <<"record">>
    /\ UNCHANGED <<venue, sold, blocked, history, records, upkeep>>

\* _smart_unwind sells all of the primary, a part of it or nothing.
Unwind ==
    /\ at = <<"unwind">> /\ Hedge = "dead"
    /\ sold' \in 0..Size
    /\ at' = IF sold' > 0 THEN <<"evidence">> ELSE <<"record">>
    /\ UNCHANGED <<venue, mem, blocked, history, records, upkeep>>

\* Mutant: any part of it is enough.
UnwoundInPart(n) == n > 0

Unwound(n) == n = Size          \* unwound_qty >= unwind_target * 0.99

\* The "Auto-unwind closed" incident is written.
WriteEvidence ==
    /\ at = <<"evidence">>
    /\ evidence' = TRUE
    /\ at' = IF Unwound(sold) THEN <<"mark">> ELSE <<"record">>
    /\ UNCHANGED <<venue, sold, mem, blocked, history, row, rec, sentinel, half, upkeep>>

StillOpen(legs) == \E l \in Legs : legs[l] = "submitted"
HasOpenOrders == StillOpen(rec)

\* mark_naked_leg_reconciled: the row is closed unless an order is open.
MarkReconciled ==
    /\ sentinel' = TRUE
    /\ row' = IF row = "none" \/ HasOpenOrders THEN row ELSE "closed"

\* The engine's own call of it; a failure is only logged, and without a row
\* there is nothing to update.
Mark ==
    /\ at = <<"mark">>
    /\ \/ row # "none" /\ MarkReconciled
       \/ (row = "none" \/ "write_fails" \in faults) /\ UNCHANGED <<row, sentinel>>
    /\ at' = <<"record">>
    /\ UNCHANGED <<venue, sold, mem, blocked, history, rec, evidence, half, upkeep>>

\* record_arb: the row and its two legs, whatever the row says by now.
Record ==
    /\ at = <<"record">>
    /\ \/ /\ row' = history
          /\ rec' = [rec EXCEPT !["P"] = Saved(mem["P"]), ![Secondary] = Saved(Hedge)]
          /\ UNCHANGED <<blocked, sentinel>>
       \/ WriteFails
    /\ at' = <<"gone">>
    /\ mem' = [l \in Legs |-> "none"]
    /\ UNCHANGED <<venue, sold, history, evidence, half, upkeep>>

Engine ==
    \/ \E l \in Legs : Place(l) \/ PlaceBlocked(l) \/ Save(l)
    \/ Decide \/ Recover \/ VerifyFirst \/ Unwind \/ WriteEvidence \/ Mark \/ Record

-----------------------------------------------------------------------------
(* Crash and start-up.                                                      *)

Crash ==
    /\ "process_dies" \in faults /\ crashes < MaxCrashes
    /\ crashes' = crashes + 1
    /\ at' = <<"gone">>
    /\ mem' = [l \in Legs |-> "none"]
    /\ blocked' = FALSE
    /\ history' = "none"
    /\ boot' = "orders"
    /\ poller' = "idle"
    /\ UNCHANGED <<venue, sold, records, age, faults>>

\* reconcile_non_terminal_orders: every open order is looked up.
BootOrders ==
    /\ boot = "orders"
    /\ rec' \in {r \in [Legs -> OrderStatus] :
                  \A l \in Legs : IF rec[l] = "submitted"
                                  THEN r[l] \in Reported(l) ELSE r[l] = rec[l]}
    /\ boot' = "half"
    /\ UNCHANGED <<trading, history, row, sentinel, evidence, half, poller, age, crashes, faults>>

Recorded == {l \in Legs : rec[l] # "none"}
FilledLegs == {l \in Legs : rec[l] = "filled"}

\* Mutant: the stub of an arb with one leg is not looked for.
HalfRecordedByFills ==
    /\ row # "none"
    /\ FilledLegs # {} /\ Recorded \ FilledLegs # {}
    /\ ~sentinel

\* list_half_recorded_arbs: a stub orphan or an asymmetric fill.
HalfRecorded ==
    \/ /\ row = "pending"
       /\ Cardinality(Recorded) < 2
    \/ /\ row # "none"
       /\ FilledLegs # {} /\ Recorded \ FilledLegs # {}
       /\ ~sentinel

\* reconcile_half_recorded_arbs: opens the incident, or resolves a stale one;
\* when the database refuses either, that is logged and the start-up goes on.
BootHalf ==
    /\ boot = "half"
    /\ \/ half' = HalfRecorded
       \/ "page_fails" \in faults /\ half' = half
    /\ boot' = "history"
    /\ UNCHANGED <<trading, history, row, rec, sentinel, evidence, poller, age, crashes, faults>>

\* load_execution_history into engine._executions.
BootHistory ==
    /\ boot = "history"
    /\ history' = row
    /\ boot' = "up"
    /\ UNCHANGED <<trading, records, poller, age, crashes, faults>>

Boot == BootOrders \/ BootHalf \/ BootHistory

-----------------------------------------------------------------------------
(* The upkeep of old rows.                                                  *)

\* An execution ends long before its row is some hours old.
Age ==
    /\ at = <<"gone">> /\ age < 2
    /\ age' = age + 1
    /\ UNCHANGED <<trading, history, records, boot, poller, crashes, faults>>

\* list_stuck_arbs: a row of 24 hours that has not ended.
PollerReads ==
    /\ boot = "up" /\ poller = "idle" /\ age = 2
    /\ row \notin RowEnded \cup {"none"}
    /\ poller' = row
    /\ UNCHANGED <<trading, history, records, boot, age, crashes, faults>>

\* Mutants: one recorded leg stands for the arb; an arb of one leg never ends.
DerivedStatusOfAny(legs) ==
    LET filled == {l \in Legs : legs[l] = "filled"}
        known  == {l \in Legs : legs[l] # "none"}
    IN  IF StillOpen(legs) \/ known = {} THEN ""
        ELSE IF filled = {} THEN "failed"
        ELSE IF filled = known THEN "filled" ELSE "recovering"

DerivedStatusOfTwo(legs) ==
    LET filled == {l \in Legs : legs[l] = "filled"}
        known  == {l \in Legs : legs[l] # "none"}
    IN  IF StillOpen(legs) \/ Cardinality(known) < 2 THEN ""
        ELSE IF filled = {} THEN "failed"
        ELSE IF filled = known THEN "filled" ELSE "recovering"

\* _derive_arb_status_from_legs; "" leaves the row alone.
DerivedStatus(legs) ==
    LET filled == {l \in Legs : legs[l] = "filled"}
        known  == {l \in Legs : legs[l] # "none"}
    IN  IF StillOpen(legs) \/ known = {} THEN ""
        ELSE IF filled = {} THEN "failed"
        ELSE IF Cardinality(known) < 2 THEN ""
        ELSE IF filled = known THEN "filled" ELSE "recovering"

\* Every order with a row is looked up, ended or not; rows that changed are
\* written, and the status of the arb if it is not the one that was read.
PollerWrites ==
    /\ poller # "idle"
    /\ rec' \in {r \in [Legs -> OrderStatus] :
                  \A l \in Legs : IF rec[l] = "none" THEN r[l] = "none"
                                                     ELSE r[l] \in Reported(l)}
    /\ LET status == DerivedStatus(rec') IN
         /\ row' = IF status \in {"", poller} THEN row ELSE status
         /\ history' = IF history = "none" THEN "none"
                       ELSE IF status = "" THEN poller ELSE status
    /\ poller' = "idle"
    /\ UNCHANGED <<trading, sentinel, evidence, half, boot, age, crashes, faults>>

\* AutoResolver._reconcile_one: an hour old, an auto-unwind incident whatever
\* part of its target it closed, and no open order.
AutoResolve ==
    /\ boot = "up" /\ HalfRecorded /\ age >= 1
    /\ evidence /\ ~HasOpenOrders
    /\ MarkReconciled
    /\ UNCHANGED <<trading, history, rec, evidence, half, upkeep>>

Upkeep == Age \/ PollerReads \/ PollerWrites \/ AutoResolve

-----------------------------------------------------------------------------

Work == Engine \/ (\E l \in Legs : VenueEnds(l)) \/ Boot \/ Upkeep

Next == Work \/ Crash

Spec == Init /\ [][Next]_vars

-----------------------------------------------------------------------------
(* Properties.                                                              *)

Bought(l) == IF venue[l] = "filled" THEN Size ELSE 0
Excess == Bought("P") # sold + Bought("S1") + Bought("S2")
TrueRows == \A l \in Recorded : rec[l] = "filled" <=> venue[l] = "filled"

\* A start-up whose look-ups brought the rows up to date opens the incident of
\* every recorded arb that holds more of one side, unless it is marked as
\* reconciled or closed because the venues hold none of it any more: wherever
\* the crash fell, the position is known before the process trades again, if the
\* incident can be written (a start-up that cannot write it trades all the same).
BootPages ==
    [][boot = "half" /\ boot' = "history" /\ "page_fails" \notin faults
       /\ TrueRows /\ row \notin {"none", "closed"} /\ Excess
         => half' \/ sentinel]_vars

\* A row says filled only when both sides are held: the reconciler of stranded
\* positions takes the fills of such rows as hedged and leaves them alone.
FilledIsPaired ==
    row = "filled" => sold = 0 /\ Bought("P") > 0 /\ Bought("P") = Bought("S1") + Bought("S2")

\* The engine marks an arb reconciled only when all of the excess was sold;
\* the AutoResolver does so an hour later when any of it was.
ReconciledWasSold == sentinel => sold > 0 /\ (age = 0 => sold = Size)

\* An arb that bought nothing does not stay pending: a day later it has failed.
NothingBoughtEnds ==
    []<>~(/\ row \in {"pending", "recovering"}
          /\ \A l \in Legs : venue[l] \in {"unsent", "dead"})
=============================================================================
