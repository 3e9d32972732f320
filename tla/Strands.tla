------------------------------- MODULE Strands -------------------------------
(***************************************************************************)
(* The reconciler of stranded positions, over the records of ArbRecords.   *)
(* Each cycle reads the lots the venues hold, tracks the ones no completed *)
(* arb explains, pages or trades on them as the mitigation engine decides, *)
(* and closes the rows whose fills no venue holds any more.  It shares the *)
(* venues and the database with the engine, and nothing stops the two from *)
(* working at the same time.                                               *)
(*                                                                         *)
(* The execution trades in two markets on two venues: the lot P is what    *)
(* the account holds in the market of the primary, S in the other one.     *)
(* Their prices and sizes in dollars are left out: the mitigation engine   *)
(* may decide anything, within its ceiling for an autonomous order, which  *)
(* is a number of contracts for each lot.                                  *)
(***************************************************************************)
EXTENDS ArbRecords, Integers

CONSTANTS MaxAutoP,       \* contracts of the lot P within max_autonomous_notional_usd
          MaxAutoS,       \* and of the lot S, which has another price
          Mult,           \* max_cum_close_mult
          AbsentCycles,   \* PHANTOM_ABSENT_CYCLES
          MaxFlickers,    \* answers in a row that miss a lot the venue holds
          MaxLost,        \* bounds lost and unread, for each lot of a process
          AutoClose       \* STRANDED_AUTO_CLOSE

ASSUME StrandsAssumption ==
    /\ MaxAutoP \in Nat /\ MaxAutoS \in Nat /\ Mult \in Nat
    /\ AbsentCycles \in Nat \ {0} /\ MaxFlickers \in Nat /\ MaxLost \in Nat
    /\ AutoClose \in BOOLEAN

Lots == {"P", "S"}
MaxAuto(l) == IF l = "P" THEN MaxAutoP ELSE MaxAutoS
Other(l) == IF l = "P" THEN "S" ELSE "P"
OrdersOf(l) == IF l = "P" THEN {"P"} ELSE {"S1", "S2"}

VARIABLES
    moved,      \* contracts the reconciler has bought less those it has sold
    tracked,    \* _tracked: the size of a lot when it was last seen, 0 if untracked
    cycle,      \* where run_once is suspended
    submitted,  \* _cum_close_submitted
    maxSeen,    \* _max_observed_qty
    capAbsent,  \* _cap_absent_cycles
    absent,     \* _phantom_absent of the execution's row
    flickers,   \* answers in a row that missed a lot the venue holds
    strands,    \* open stranded_position incidents of a lot
    sent,       \* history: contracts of the orders sent for a lot by this process
    lost,       \* history: those of its orders whose answer was lost
    unread      \* history: open incidents of a lot that the reconciler did not find

accounts == <<submitted, maxSeen, capAbsent, sent, lost>>
reconciler == <<moved, tracked, cycle, accounts, absent, flickers, strands, unread>>
allVars == <<vars, reconciler>>

Idle == [at |-> "idle"]
Plans == {"none", "close", "complete"}
ResetCycles == 3        \* the absences that end a lot's account

StrandsTypeOK ==
    /\ TypeOK
    /\ moved \in [Lots -> Int]
    /\ tracked \in [Lots -> Nat] /\ submitted \in [Lots -> Nat]
    /\ maxSeen \in [Lots -> Nat] /\ capAbsent \in [Lots -> 0..ResetCycles-1]
    /\ sent \in [Lots -> Nat] /\ lost \in [Lots -> 0..MaxLost]
    /\ cycle \in {Idle}
             \cup [at : {"judge"}, failed : SUBSET Lots, new : SUBSET Lots]
             \cup [at : {"act"}, failed : SUBSET Lots, plan : [Lots -> Plans]]
    /\ absent \in 0..AbsentCycles-1
    /\ flickers \in [Lots -> 0..MaxFlickers]
    /\ strands \in [Lots -> Nat] /\ unread \in [Lots -> Nat]

NoLot == [l \in Lots |-> 0]

StrandsInit ==
    /\ Init
    /\ moved = NoLot /\ tracked = NoLot /\ submitted = NoLot
    /\ maxSeen = NoLot /\ capAbsent = NoLot /\ sent = NoLot /\ lost = NoLot
    /\ cycle = Idle
    /\ absent = 0
    /\ flickers = NoLot
    /\ strands = NoLot /\ unread = NoLot

\* What the account holds; below zero it is short.
Held(l) ==
    (IF l = "P" THEN Bought("P") - sold ELSE Bought("S1") + Bought("S2")) + moved[l]

\* Mutant: a short lot keeps its sign.
SizeWithSign(n) == n

SizeOf(n) == IF n < 0 THEN -n ELSE n

-----------------------------------------------------------------------------
(* One cycle.                                                               *)

\* Mutant: being seen does not end the absences.
AbsencesEver(l, seen) == capAbsent[l] + (IF ~seen /\ tracked[l] > 0 THEN 1 ELSE 0)

\* An absence is counted when the lot leaves the tracker, so in the first cycle
\* that misses it and no other, and being seen ends the count.
Absences(l, seen) ==
    IF seen THEN 0 ELSE capAbsent[l] + (IF tracked[l] > 0 THEN 1 ELSE 0)

Missable(l) == "lot_missed" \in faults /\ Held(l) # 0 /\ flickers[l] < MaxFlickers

\* The venues are read.  A failed fetch keeps what was tracked; an answer may
\* miss a lot, though not many times in a row.  A lot that is gone leaves the
\* tracker, and after ResetCycles absences its account is dropped.
Observe(failed) ==
    /\ cycle.at = "idle" /\ boot = "up"
    /\ "no_positions" \in faults => failed = Lots
    /\ \E missed \in SUBSET {l \in Lots \ failed : Missable(l)} :
         LET view == [l \in Lots |-> IF l \in missed THEN 0 ELSE SizeOf(Held(l))]
             gone == {l \in Lots \ failed : Absences(l, view[l] > 0) >= ResetCycles}
         IN  /\ tracked' = [l \in Lots |-> IF l \in failed THEN tracked[l] ELSE view[l]]
             /\ capAbsent' = [l \in Lots |-> CASE l \in failed -> capAbsent[l]
                                               [] l \in gone -> 0
                                               [] OTHER -> Absences(l, view[l] > 0)]
             /\ submitted' = [l \in Lots |-> IF l \in gone THEN 0 ELSE submitted[l]]
             /\ maxSeen' = [l \in Lots |-> IF l \in gone THEN 0 ELSE maxSeen[l]]
             /\ flickers' = [l \in Lots |-> CASE l \in failed -> flickers[l]
                                              [] l \in missed -> flickers[l] + 1
                                              [] OTHER -> 0]
             /\ cycle' = [at |-> "judge", failed |-> failed,
                          new |-> {l \in Lots \ failed : view[l] > 0 /\ tracked[l] = 0}]
    /\ UNCHANGED <<vars, moved, sent, lost, absent, strands, unread>>

\* The fills of a completed arb hedge its lots, if they can be loaded.
Paired(l, loaded) == loaded /\ row = "filled" /\ \E o \in OrdersOf(l) : rec[o] = "filled"

\* Any decision of MitigationEngine.decide, or none when the view is incomplete.
Decisions(l, failed, loaded) ==
    IF failed # {} \/ tracked[l] = 0 THEN {"none"}
    ELSE IF Paired(l, loaded) /\ tracked[l] <= Size THEN {"paired"}
    ELSE {"hold", "manual"}
         \cup (IF tracked[l] <= MaxAuto(l) THEN {"close", "complete"} ELSE {})

\* Mutant: only the lots of this process are remembered.
OpenUnasked(l) == FALSE

\* _has_open_strand_incident asks the database.  list_incidents may raise, and
\* reads the 500 newest open incidents only: the answer may be wrongly that there
\* is none.
Open(l) == strands[l] > 0
Unread(l) == Open(l) /\ "unread" \in faults /\ unread[l] < MaxLost

\* Lots are classified and decided; a lot seen for the first time is paged
\* unless it is hedged, dealt with silently or found among the open incidents.
Judge ==
    /\ cycle.at = "judge"
    /\ \E loaded \in BOOLEAN :
         \E p \in Decisions("P", cycle.failed, loaded), q \in Decisions("S", cycle.failed, loaded) :
           LET decision == [l \in Lots |-> IF l = "P" THEN p ELSE q] IN
           LET asked == {l \in cycle.new : /\ decision[l] \in {"none", "manual"}
                                          /\ ~(Paired(l, loaded) /\ tracked[l] <= Size)}
           IN \E missed \in SUBSET {l \in asked : Unread(l)} :
           LET wanted == {l \in asked : ~Open(l) \/ l \in missed}
           IN \E written \in IF "page_fails" \in faults THEN SUBSET wanted ELSE {wanted} :
           /\ strands' = [l \in Lots |-> strands[l] + (IF l \in written THEN 1 ELSE 0)]
           /\ unread' = [l \in Lots |-> unread[l] + (IF l \in missed THEN 1 ELSE 0)]
           /\ cycle' = [at |-> "act", failed |-> cycle.failed,
                        plan |-> [l \in Lots |-> IF /\ AutoClose /\ ~Paired(l, loaded)
                                                    /\ decision[l] \in {"close", "complete"}
                                                 THEN decision[l] ELSE "none"]]
    /\ UNCHANGED <<vars, moved, tracked, accounts, absent, flickers>>

\* _is_part_of_active_arb: an execution the engine lists and that has not ended
\* otherwise than by filling.
ActiveArb == history \notin {"none", "failed", "closed"}

\* _cum_cap_allows.
CapBase(l) == IF maxSeen[l] > tracked[l] THEN maxSeen[l] ELSE tracked[l]
\* Mutant: what was sent before does not count.
CapAllowsEach(l) == tracked[l] <= Mult * CapBase(l)

CapAllows(l) == submitted[l] + tracked[l] <= Mult * CapBase(l)

Done(l) == cycle' = [cycle EXCEPT !.plan[l] = "none"]

\* The lot is left alone: its execution is active, its last attempt is recent,
\* or the price has moved.
Spare(l) ==
    /\ cycle.at = "act" /\ cycle.plan[l] # "none"
    /\ Done(l)
    /\ UNCHANGED <<vars, moved, tracked, accounts, absent, flickers, strands, unread>>

\* The attempt at the lot is on: the cap is asked and remembers the lot's size.
Attempt(l) ==
    /\ cycle.at = "act" /\ cycle.plan[l] # "none" /\ ~ActiveArb
    /\ maxSeen' = [maxSeen EXCEPT ![l] = CapBase(l)]
    /\ Done(l)
    /\ UNCHANGED <<vars, tracked, capAbsent, absent, flickers, strands, unread>>

\* The cap is reached, or the adapter raises before it sends anything.
NothingSent(l) ==
    /\ Attempt(l)
    /\ UNCHANGED <<moved, submitted, sent, lost>>

\* A close sells the lot, a completion buys as much in the other market; the
\* order fills or not, and the reconciler learns of it from the next view only.
Trades(l) ==
    LET signed == IF Held(l) < 0 THEN -tracked[l] ELSE tracked[l] IN
    /\ sent' = [sent EXCEPT ![l] = @ + tracked[l]]
    /\ \/ moved' = moved
       \/ cycle.plan[l] = "close" /\ moved' = [moved EXCEPT ![l] = @ - signed]
       \/ cycle.plan[l] = "complete" /\ moved' = [moved EXCEPT ![Other(l)] = @ + signed]

\* The adapter returns the order, filled or not, and _note_mitigation_submitted
\* counts it.
Send(l) ==
    /\ Attempt(l) /\ CapAllows(l)
    /\ Trades(l)
    /\ submitted' = [submitted EXCEPT ![l] = @ + tracked[l]]
    /\ lost' = lost

\* The order is sent and its answer lost: the adapter raises, which Polymarket's
\* does, and the exception is caught above the count.
SendUnanswered(l) ==
    /\ "answer_lost" \in faults /\ lost[l] < MaxLost
    /\ Attempt(l) /\ CapAllows(l)
    /\ Trades(l)
    /\ lost' = [lost EXCEPT ![l] = @ + 1]
    /\ submitted' = submitted

\* The lots in which the row says the execution has bought.
FilledLots == {l \in Lots : \E o \in OrdersOf(l) : rec[o] = "filled"}
\* Mutant: the stubs are left out.
ListedRecovering == row = "recovering" /\ age >= 1

Listed == row \notin RowEnded \cup {"none"} /\ age >= 1
Flat(l) == l \notin cycle.failed /\ tracked[l] = 0

\* _sweep_phantom_records: a row whose fills are absent from the venues in
\* AbsentCycles views is closed.
Sweep ==
    /\ cycle.at = "act" /\ \A l \in Lots : cycle.plan[l] = "none"
    /\ cycle' = Idle
    /\ CASE ~Listed -> absent' = 0 /\ row' = row
         [] Listed /\ (FilledLots = {} \/ FilledLots \cap cycle.failed # {}) ->
               UNCHANGED <<absent, row>>
         [] Listed /\ FilledLots # {} /\ FilledLots \cap cycle.failed = {} ->
               IF ~\A l \in FilledLots : Flat(l)
               THEN absent' = 0 /\ row' = row
               ELSE IF absent + 1 < AbsentCycles
                    THEN absent' = absent + 1 /\ row' = row
                    ELSE absent' = 0 /\ row' = "closed"
    /\ UNCHANGED <<trading, history, rec, sentinel, evidence, half, upkeep,
                   moved, tracked, accounts, flickers, strands, unread>>

Restart ==
    /\ Crash
    /\ tracked' = NoLot /\ submitted' = NoLot /\ maxSeen' = NoLot
    /\ capAbsent' = NoLot /\ sent' = NoLot /\ lost' = NoLot
    /\ cycle' = Idle
    /\ absent' = 0
    /\ UNCHANGED <<moved, flickers, strands, unread>>

Cycle ==
    \/ \E failed \in SUBSET Lots : Observe(failed)
    \/ Judge
    \/ \E l \in Lots : Spare(l) \/ NothingSent(l) \/ Send(l) \/ SendUnanswered(l)
    \/ Sweep

\* A cycle is over long before a row ages by an hour.
StrandsNext ==
    \/ Work /\ UNCHANGED reconciler /\ (age' = age \/ cycle.at = "idle")
    \/ Restart
    \/ Cycle

StrandsSpec == StrandsInit /\ [][StrandsNext]_allVars

\* The process is scheduled, venues end every order, time passes, the poller of
\* stuck trades runs every five minutes and the reconciler every 30 s; where the
\* positions can be read at all they can be read again and again.
StrandsFairSpec ==
    /\ StrandsSpec
    /\ WF_allVars(Engine /\ UNCHANGED reconciler)
    /\ WF_allVars(Boot /\ UNCHANGED reconciler)
    /\ \A l \in Legs : WF_allVars(VenueEnds(l) /\ UNCHANGED reconciler)
    /\ SF_allVars(Age /\ cycle.at = "idle" /\ UNCHANGED reconciler)
    /\ WF_allVars((PollerReads \/ PollerWrites) /\ UNCHANGED reconciler)
    /\ SF_allVars(Observe({})) /\ WF_allVars(Cycle)

-----------------------------------------------------------------------------
(* Properties.                                                              *)

\* The orders really sent for a lot since the process started stay within the
\* multiple of the largest size it was attempted at, and one such size for each
\* order whose answer was lost; and no size above the ceiling of an autonomous
\* order is attempted.  So it is although venues miss the lot and show it again,
\* which the debounce of the cap's reset is there for.
VolumeCap ==
    \A l \in Lots : /\ sent[l] <= (Mult + lost[l]) * maxSeen[l]
                    /\ maxSeen[l] <= MaxAuto(l)

\* A lot has one open incident however often the process restarts and the venues
\* miss the lot, and one more for each time the open one was not found when the
\* lot was to be paged.
OneIncidentPerLot == \A l \in Lots : strands[l] <= 1 + unread[l]

\* As long as a venue never misses a lot twice in a row the sweep closes a row
\* only when one of its fills has really left the venues.
FlickersCloseNothing ==
    [][cycle.at = "act" /\ cycle'.at = "idle" /\ row' # row /\ boot = boot'
         => \E l \in FilledLots : Held(l) = 0]_allVars

\* A row of some hours whose fills have left the venues does not stay open.
PhantomEnds ==
    []<>~(/\ "no_positions" \notin faults
          /\ boot = "up" /\ row \in {"pending", "recovering"} /\ age >= 1
          /\ FilledLots # {}
          /\ \A l \in FilledLots : Held(l) = 0)
=============================================================================
