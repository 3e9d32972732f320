------------------------- MODULE ArbExecutionProofs -------------------------
(***************************************************************************)
(* Theorems about ArbExecution, for any quantity, any number of requotes   *)
(* and any faults: its type invariant; when no adapter reports as dead a   *)
(* secondary that is not, that the fallback chain hedges once and sends an *)
(* order only when every earlier one is dead; when none calls a primary    *)
(* that filled dead either, that a naked position is paged; and when the   *)
(* adapters tell the truth, that the recovery sells what is in excess, the *)
(* books cover what is held, and the engine implements PairedTrade.        *)
(***************************************************************************)
EXTENDS ArbExecution, TLAPS, WellFoundedInduction

\* No answer about a secondary says dead and empty of an order that is neither.
SecondaryIsHonest ==
    SecondaryFaults \cap {"fails_late", "poll_failed", "ended_as_cancelled"} = {}

-----------------------------------------------------------------------------
(* The parts of the inductive invariant.                                    *)

VenueOK ==
    /\ venue \in [Slots -> [st : {"none", "flying", "live", "ended", "refused"},
                            want : 0..SuggestedQty, fill : 0..SuggestedQty]]
    /\ \A s \in Slots : /\ venue[s].fill <= venue[s].want
                        /\ venue[s].st \in {"none", "flying", "refused"} => venue[s].fill = 0
                        /\ venue[s].st = "none" => venue[s].want = 0

\* TypeOK without the venue.
EngineOK ==
    /\ pc \in {"start", "place", "reply", "poll", "returned", "requote", "decide",
               "recover", "cancel", "verify", "unwind", "rest_reply", "rest_poll",
               "market", "market_reply", "done", "raised"}
    /\ slot \in PRIMARY..FOK
    /\ eff \in 0..SuggestedQty
    /\ ord \in Order /\ last \in Order /\ leg \in [Legs -> Order]
    /\ dbFailed \in BOOLEAN
    /\ todo \subseteq Legs
    /\ uw \in [leg : Legs, qty : 0..SuggestedQty, rested : 0..SuggestedQty]
    /\ booked \in [Legs -> 0..SuggestedQty]
    /\ open \subseteq Incidents
    /\ paged \in BOOLEAN

\* An order the engine knows by its id was sent, and holds no more than the
\* venue filled; one it does not know by an id is dead and empty to it.
Matches(o) ==
    /\ o.id # NoId => venue[o.id].st # "none" /\ o.fill <= venue[o.id].fill
    /\ o.id = NoId => o.fill = 0 /\ o.status \notin Surviving

Believes == Matches(ord) /\ Matches(last) /\ \A x \in Legs : Matches(leg[x])

BeforeRest == {"start", "place", "reply", "poll", "returned", "requote", "decide",
               "recover", "cancel", "verify", "unwind"}

\* Every slot is sent at most once, in the order of the slots.
SentOnce ==
    /\ \A s \in (slot + 1)..FOK : venue[s].st = "none"
    /\ pc \in {"start", "place"} => venue[slot].st = "none"
    /\ pc = "reply" => venue[slot].st # "none"
    /\ pc = "poll" => venue[slot].st \notin {"none", "flying"}
    /\ pc \in BeforeRest => venue[REST].st = "none"
    /\ pc \in {"rest_reply", "rest_poll"} => venue[REST].st # "none"
    /\ pc \in BeforeRest \cup {"rest_reply", "rest_poll", "market"} => venue[MARKET].st = "none"

\* Where the coroutine stands says which order it drives and what is to be sold.
Control ==
    /\ pc = "start" => slot = PRIMARY
    /\ pc = "poll" => ord.id = slot
    /\ pc = "returned" => ord.id \in {NoId, slot}
    /\ pc = "requote" => slot \in FIRST..(FOK - 1)
    /\ pc = "cancel" => \A x \in todo : leg[x].status \in {"SUBMITTED", "PARTIAL"}
    /\ pc = "rest_poll" => ord.id = REST
    /\ pc \in BeforeRest \cup {"rest_reply", "rest_poll"} => uw.rested = 0
    /\ uw.rested <= uw.qty

\* No secondary asks for more than the primary filled.
Sized ==
    /\ slot >= FIRST => eff <= venue[PRIMARY].fill
    /\ \A t \in Secondaries : venue[t].want <= venue[PRIMARY].fill

Empty(t) == Dead(t) /\ venue[t].fill = 0

\* Of the secondaries only the one in `slot` can have filled or still fill, and
\* not even that one when the chain is about to move on.
ChainIsDead ==
    SecondaryIsHonest =>
      /\ \A t \in Secondaries \ {slot} : Empty(t)
      /\ pc = "requote" => Empty(slot)
      /\ /\ pc = "returned" /\ slot \in Secondaries
         /\ ord.status \notin {"FILLED", "PARTIAL"} /\ ~ord.amb
         => Empty(slot)

IInv ==
    /\ VenueOK
    /\ EngineOK
    /\ Believes
    /\ SentOnce
    /\ Control
    /\ Sized
    /\ ChainIsDead

USE ExecutionAssumption DEF PRIMARY, FIRST, FOK, REST, MARKET, Slots, Secondaries, NoId

-----------------------------------------------------------------------------
(* What a step does to the venues.                                          *)

\* An order once sent keeps its quantity and its fills.
VenueGrows ==
    \A s \in Slots : venue[s].st # "none" => /\ venue'[s].st # "none"
                                             /\ venue'[s].want = venue[s].want
                                             /\ venue[s].fill <= venue'[s].fill

\* Only orders at work change, and those that are dead stay dead.
VenueWorks ==
    \A s \in Slots : /\ venue'[s].st = "none" <=> venue[s].st = "none"
                     /\ venue[s].st \notin {"none", "flying"} => venue'[s].st \notin {"none", "flying"}
                     /\ venue'[s].want = venue[s].want
                     /\ venue[s].fill <= venue'[s].fill
                     /\ Dead(s) => venue'[s] = venue[s]

\* What VenueOK says of one order.
OrderOK(v) ==
    /\ v \in [st : {"none", "flying", "live", "ended", "refused"},
              want : 0..SuggestedQty, fill : 0..SuggestedQty]
    /\ v.fill <= v.want
    /\ v.st \in {"none", "flying", "refused"} => v.fill = 0
    /\ v.st = "none" => v.want = 0

\* The venues are in order when each order is, and the fields of an order are
\* numbers.
LEMMA VenueOrders ==
    /\ VenueOK <=> /\ venue = [s \in Slots |-> venue[s]]
                   /\ \A s \in Slots : OrderOK(venue[s])
    /\ \A v : OrderOK(v) => v.want \in Int /\ v.fill \in Int /\ 0 <= v.fill /\ v.fill <= v.want
<1>1. VenueOK <=> /\ venue = [s \in Slots |-> venue[s]]
                  /\ \A s \in Slots : OrderOK(venue[s])
  BY DEF VenueOK, OrderOK
<1>2. ASSUME NEW v, OrderOK(v)
      PROVE  v.want \in Int /\ v.fill \in Int /\ 0 <= v.fill /\ v.fill <= v.want
  BY <1>2 DEF OrderOK
<1>. QED
  BY <1>1, <1>2

\* A working order fills up to its quantity.
FilledTo(v, f, e) == [v EXCEPT !.fill = f, !.st = e]

\* One order changes.
LEMMA VenueChanges ==
    ASSUME VenueOK, NEW s \in Slots, NEW v, OrderOK(v),
           venue' = [venue EXCEPT ![s] = v]
    PROVE  /\ VenueOK'
           /\ venue'[s] = v
           /\ \A t \in Slots \ {s} : venue'[t] = venue[t]
<1>1. venue'[s] = v /\ \A t \in Slots \ {s} : venue'[t] = venue[t]
  BY DEF VenueOK
<1>2. venue' \in [Slots -> [st : {"none", "flying", "live", "ended", "refused"},
                            want : 0..SuggestedQty, fill : 0..SuggestedQty]]
  BY DEF VenueOK, OrderOK
<1>. QED
  BY <1>1, <1>2 DEF VenueOK, OrderOK

\* A slot that was never used takes an order; no other order is touched.
LEMMA SendIsSafe ==
    ASSUME VenueOK, NEW s \in Slots, NEW qty \in 0..SuggestedQty,
           venue[s].st = "none", Send(s, qty)
    PROVE  /\ VenueOK' /\ VenueGrows
           /\ venue'[s] = [st |-> "flying", want |-> qty, fill |-> 0]
           /\ \A t \in Slots \ {s} : venue'[t] = venue[t]
<1> DEFINE v == [st |-> "flying", want |-> qty, fill |-> 0]
<1>1. OrderOK(v)
  BY DEF OrderOK
<1>2. venue' = [venue EXCEPT ![s] = v]
  BY DEF Send
<1>. HIDE DEF v
<1>3. /\ VenueOK'
      /\ venue'[s] = v
      /\ \A t \in Slots \ {s} : venue'[t] = venue[t]
  BY <1>1, <1>2, VenueChanges
<1>4. \A t \in Slots : venue[t].fill \in Int
  BY VenueOrders
<1>5. VenueGrows
  BY <1>3, <1>4 DEF VenueGrows
<1>. QED
  BY <1>3, <1>5 DEF v

\* A cancel ends a working order or leaves the venue as it was.
LEMMA CancelIsSafe ==
    ASSUME VenueOK, NEW s \in Slots, NEW faults, NEW c \in Cancel(venue[s], faults),
           venue' = [venue EXCEPT ![s] = c.v]
    PROVE  /\ VenueOK' /\ VenueGrows /\ VenueWorks
           /\ venue'[s] = c.v /\ c.v.want = venue[s].want /\ c.v.fill = venue[s].fill
           /\ c.v = venue[s] \/ (venue[s].st = "live" /\ c.v.st = "ended")
           /\ \A t \in Slots \ {s} : venue'[t] = venue[t]
<1>1. OrderOK(venue[s])
  BY VenueOrders
<1>2. \/ c.v = venue[s]
      \/ venue[s].st = "live" /\ c.v = [venue[s] EXCEPT !.st = "ended"]
  BY DEF Cancel
<1>3. /\ c.v.want = venue[s].want /\ c.v.fill = venue[s].fill
      /\ c.v = venue[s] \/ (venue[s].st = "live" /\ c.v.st = "ended")
      /\ OrderOK(c.v)
  BY <1>1, <1>2 DEF OrderOK
<1>4. VenueOK' /\ venue'[s] = c.v /\ \A t \in Slots \ {s} : venue'[t] = venue[t]
  BY <1>3, VenueChanges
<1>5. \A t \in Slots : venue[t].fill \in Int
  BY VenueOrders
<1>6. VenueGrows
  BY <1>3, <1>4, <1>5 DEF VenueGrows
<1>7. VenueWorks
  BY <1>3, <1>4, <1>5 DEF VenueWorks, Dead
<1>. QED
  BY <1>3, <1>4, <1>6, <1>7

\* A step that leaves the venues alone.
LEMMA VenueRests ==
    ASSUME VenueOK, UNCHANGED venue
    PROVE  VenueOK' /\ VenueGrows /\ VenueWorks
<1>1. \A t \in Slots : venue[t].fill \in Int
  BY VenueOrders
<1>. QED
  BY <1>1 DEF VenueOK, VenueGrows, VenueWorks

\* What the engine believes of orders it does not touch stays covered.
LEMMA MatchesStay ==
    ASSUME VenueOK, VenueOK', VenueGrows, NEW o \in Order, Matches(o)
    PROVE  /\ o.id # NoId => venue'[o.id].st # "none" /\ o.fill <= venue'[o.id].fill
           /\ o.id = NoId => o.fill = 0 /\ o.status \notin Surviving
<1>1. o.id \in Slots \cup {NoId} /\ o.fill \in Int
  BY DEF Order
<1>2. \A t \in Slots : venue[t].fill \in Int /\ venue'[t].fill \in Int
  <2>1. \A t \in Slots : OrderOK(venue'[t])
    BY DEF VenueOK, OrderOK
  <2>. QED
    BY <2>1, VenueOrders
<1>. QED
  BY <1>1, <1>2 DEF VenueGrows, Matches

\* The slots are numbers, and those of the two sells are apart from the others.
LEMMA SlotFacts ==
    /\ PRIMARY..FOK \subseteq Slots /\ Secondaries \subseteq Slots /\ REST \in Slots /\ MARKET \in Slots
    /\ REST \notin PRIMARY..FOK /\ MARKET \notin PRIMARY..FOK /\ REST # MARKET
    /\ REST # NoId /\ NoId \notin Slots /\ PRIMARY \notin Secondaries
    /\ Secondaries = FIRST..FOK /\ Secondaries \subseteq PRIMARY..FOK
OBVIOUS

\* The three parts of the invariant that speak of the venues survive when only
\* orders at work change and the chain stands still.
LEMMA ChainStays ==
    ASSUME IInv, VenueOK', VenueGrows, VenueWorks, UNCHANGED <<slot, eff>>
    PROVE  /\ Sized'
           /\ \A s \in (slot + 1)..FOK : venue'[s].st = "none"
           /\ SecondaryIsHonest => \A t \in Secondaries \ {slot} : Empty(t)'
<1> USE DEF IInv
<1>1. \A s \in (slot + 1)..FOK : s \in Slots
  BY DEF EngineOK
<1>2. \A s \in (slot + 1)..FOK : venue'[s].st = "none"
  BY <1>1 DEF SentOnce, VenueWorks
<1>3. \A t \in Slots : venue[t].fill \in Int /\ venue'[t].fill \in Int /\ venue[t].want \in Int
  <2>1. \A t \in Slots : OrderOK(venue'[t])
    BY DEF VenueOK, OrderOK
  <2>. QED
    BY <2>1, VenueOrders
<1>4. venue[PRIMARY].fill <= venue'[PRIMARY].fill
  BY DEF VenueWorks
<1>5. slot' >= FIRST => eff' <= venue'[PRIMARY].fill
  BY <1>3, <1>4 DEF Sized, EngineOK
<1>6. \A t \in Secondaries : venue'[t].want <= venue'[PRIMARY].fill
  BY <1>3, <1>4 DEF Sized, VenueWorks
<1>7. SecondaryIsHonest => \A t \in Secondaries \ {slot} : Empty(t)'
  BY DEF ChainIsDead, VenueWorks, Empty, Dead
<1>. QED
  BY <1>2, <1>5, <1>6, <1>7 DEF Sized

\* A step that only the venues, or the flag of the store, take.
LEMMA EngineRests ==
    ASSUME IInv, VenueOK', VenueGrows, VenueWorks, dbFailed' \in BOOLEAN,
           UNCHANGED <<pc, ord, leg, slot, eff, last, todo, uw, booked, open, paged>>
    PROVE  IInv'
<1> USE DEF IInv
<1>1. EngineOK'
  BY DEF EngineOK
<1>2. Believes'
  <2>1. ord \in Order /\ last \in Order /\ \A x \in Legs : leg[x] \in Order
    BY DEF EngineOK
  <2>. QED
    BY <2>1, MatchesStay DEF Believes, Matches
<1>3. SentOnce'
  <2>1. slot \in Slots
    BY SlotFacts DEF EngineOK
  <2>. QED
    BY <2>1, ChainStays, SlotFacts DEF SentOnce, VenueWorks
<1>4. Control'
  BY DEF Control
<1>5. ChainIsDead'
  <2>1. \A t \in Slots : Empty(t) => Empty(t)'
    BY DEF Empty, Dead, VenueWorks
  <2>2. slot \in Slots
    BY SlotFacts DEF EngineOK
  <2>. QED
    BY <2>1, <2>2, ChainStays DEF ChainIsDead
<1>. QED
  BY <1>1, <1>2, <1>3, <1>4, <1>5, ChainStays

\* The venues accept, refuse, fill and end orders.
LEMMA VenueIsSafe == IInv /\ Venue => IInv'
<1> SUFFICES ASSUME IInv, NEW s \in Slots, Accept(s) \/ Refuse(s) \/ Fill(s) \/ Expire(s),
                    UNCHANGED <<pc, ord, leg, dbFailed, place, recovery, alarms>>
             PROVE  IInv'
  BY DEF Venue
\* A fill within its quantity leaves an order in order.
<1>0. ASSUME NEW v, OrderOK(v), NEW f \in Int, v.fill <= f, f <= v.want,
             NEW e \in {"none", "flying", "live", "ended", "refused"}, e \in {"live", "ended"}
      PROVE  /\ OrderOK(FilledTo(v, f, e))
             /\ FilledTo(v, f, e).st = e
             /\ FilledTo(v, f, e).want = v.want
             /\ FilledTo(v, f, e).fill = f
  <2>1. v \in [st : {"none", "flying", "live", "ended", "refused"},
               want : 0..SuggestedQty, fill : 0..SuggestedQty]
    BY <1>0 DEF OrderOK
  <2>2. f \in 0..SuggestedQty
    BY <1>0, <2>1
  <2>3. FilledTo(v, f, e) \in [st : {"none", "flying", "live", "ended", "refused"},
               want : 0..SuggestedQty, fill : 0..SuggestedQty]
    BY <2>1, <2>2 DEF FilledTo
  <2>4. FilledTo(v, f, e).st = e /\ FilledTo(v, f, e).want = v.want /\ FilledTo(v, f, e).fill = f
    BY <2>1 DEF FilledTo
  <2>5. OrderOK(FilledTo(v, f, e))
    BY <1>0, <2>3, <2>4 DEF OrderOK
  <2>. QED
    BY <2>4, <2>5
<1>1. UNCHANGED <<pc, ord, leg, slot, eff, last, todo, uw, booked, open, paged, dbFailed>>
  BY DEF place, recovery, alarms
<1>2. VenueOK /\ OrderOK(venue[s]) /\ \A t \in Slots : venue[t].fill \in Int
  BY VenueOrders DEF IInv
<1>3. \E v : /\ OrderOK(v) /\ venue' = [venue EXCEPT ![s] = v]
             /\ ~Dead(s) /\ v.st # "none"
             /\ venue[s].st # "flying" => v.st # "flying"
             /\ v.want = venue[s].want /\ venue[s].fill <= v.fill
  <2>1. CASE Accept(s)
    <3>. WITNESS [venue[s] EXCEPT !.st = "live"]
    <3>. QED
      BY <1>2, <2>1 DEF Accept, OrderOK, Dead
  <2>2. CASE Refuse(s)
    <3>. WITNESS [venue[s] EXCEPT !.st = "refused"]
    <3>. QED
      BY <1>2, <2>2 DEF Refuse, OrderOK, Dead
  <2>3. CASE Expire(s)
    <3>. WITNESS [venue[s] EXCEPT !.st = "ended"]
    <3>. QED
      BY <1>2, <2>3 DEF Expire, OrderOK, Dead
  <2>4. CASE Fill(s)
    <3>1. PICK k \in 1..(venue[s].want - venue[s].fill) :
            venue' = [venue EXCEPT ![s] =
                        [@ EXCEPT !.fill = venue[s].fill + k,
                                  !.st = IF venue[s].fill + k = venue[s].want THEN "ended" ELSE "live"]]
      BY <2>4 DEF Fill
    <3> DEFINE f == venue[s].fill + k
               e == IF f = venue[s].want THEN "ended" ELSE "live"
               w == FilledTo(venue[s], f, e)
    <3>2. f \in Int /\ venue[s].fill <= f /\ f <= venue[s].want /\ e \in {"live", "ended"}
          /\ e \in {"none", "flying", "live", "ended", "refused"}
      BY <1>2 DEF OrderOK
    <3>3. venue' = [venue EXCEPT ![s] = w]
      BY <3>1 DEF FilledTo
    <3>. HIDE DEF f, e
    <3>4. OrderOK(w) /\ w.st = e /\ w.want = venue[s].want /\ w.fill = f
      BY <1>2, <3>2, <1>0
    <3>. HIDE DEF w
    <3>. WITNESS w
    <3>. QED
      BY <2>4, <3>2, <3>3, <3>4 DEF Fill, Dead
  <2>. QED
    BY <2>1, <2>2, <2>3, <2>4
<1>4. PICK v : /\ OrderOK(v) /\ venue' = [venue EXCEPT ![s] = v]
               /\ ~Dead(s) /\ v.st # "none"
               /\ venue[s].st # "flying" => v.st # "flying"
               /\ v.want = venue[s].want /\ venue[s].fill <= v.fill
  BY <1>3
<1>5. VenueOK' /\ venue'[s] = v /\ \A t \in Slots \ {s} : venue'[t] = venue[t]
  BY <1>2, <1>4, VenueChanges
<1>6. VenueGrows /\ VenueWorks
  BY <1>2, <1>4, <1>5 DEF VenueGrows, VenueWorks, Dead
<1>7. dbFailed' \in BOOLEAN
  BY <1>1 DEF IInv, EngineOK
<1>. QED
  BY <1>1, <1>5, <1>6, <1>7, EngineRests

-----------------------------------------------------------------------------
(* What the engine is told.                                                 *)

\* The statuses of a venue order; one that is sent and reads dead is dead and
\* empty, unless the adapter may call a half-filled one CANCELLED.
LEMMA StatusIsSound ==
    ASSUME NEW v, OrderOK(v), NEW faults, NEW st \in StatusesOf(v, faults)
    PROVE  /\ st \in Status
           /\ /\ "ended_as_cancelled" \notin faults
              /\ v.st \notin {"none", "flying"}
              /\ st \notin {"FILLED", "PARTIAL", "SUBMITTED"}
              => v.st \in {"ended", "refused"} /\ v.fill = 0
BY DEF StatusesOf, Status, OrderOK

\* A read of an order keeps its id, and takes its fill from the venue or leaves
\* it; what it says dead, without a doubt, is.
LEMMA ReadIsSound ==
    ASSUME NEW o \in Order, NEW v, OrderOK(v), NEW faults, NEW r \in GetOrder(o, v, faults)
    PROVE  /\ r \in Order /\ r.id = o.id
           /\ r.fill = o.fill \/ r.fill = v.fill
           /\ o.id = NoId => r = o
           /\ /\ o.id # NoId /\ v.st \notin {"none", "flying"}
              /\ faults \cap {"poll_failed", "ended_as_cancelled"} = {}
              /\ r.status \notin {"FILLED", "PARTIAL", "SUBMITTED"} /\ ~r.amb
              => v.st \in {"ended", "refused"} /\ v.fill = 0
<1>1. CASE o.id = NoId
  BY <1>1 DEF GetOrder
<1>2. CASE o.id # NoId /\ \E st \in StatusesOf(v, faults) : r = [o EXCEPT !.status = st, !.fill = v.fill]
  <2>1. PICK st \in StatusesOf(v, faults) : r = [o EXCEPT !.status = st, !.fill = v.fill]
    BY <1>2
  <2>2. st \in Status /\ v.fill \in 0..SuggestedQty
    BY StatusIsSound DEF OrderOK
  <2>3. r \in Order /\ r.id = o.id /\ r.fill = v.fill /\ r.status = st
    BY <2>1, <2>2 DEF Order
  <2>. QED
    BY <1>2, <2>3, StatusIsSound
<1>3. CASE o.id # NoId /\ "poll_failed" \in faults /\ r = [o EXCEPT !.status = "FAILED"]
  BY <1>3 DEF Order, Status
<1>4. CASE o.id # NoId /\ r = [o EXCEPT !.amb = TRUE]
  BY <1>4 DEF Order
<1>. QED
  BY <1>1, <1>2, <1>3, <1>4 DEF GetOrder

\* A placeholder is an order without fills.
LEMMA PlaceholderIsOrder ==
    ASSUME NEW status \in Status, NEW amb \in BOOLEAN
    PROVE  /\ [Placeholder(status) EXCEPT !.amb = amb] \in Order
           /\ [Placeholder(status) EXCEPT !.amb = amb].id = NoId
           /\ [Placeholder(status) EXCEPT !.amb = amb].fill = 0
           /\ [Placeholder(status) EXCEPT !.amb = amb].status = status
           /\ [Placeholder(status) EXCEPT !.amb = amb].amb = amb
           /\ Placeholder(status) \in Order
           /\ Placeholder(status).id = NoId
           /\ Placeholder(status).fill = 0
           /\ Placeholder(status).status = status
           /\ ~Placeholder(status).amb
BY DEF Placeholder, Order

-----------------------------------------------------------------------------
(* _place_order_for_leg.                                                    *)

\* An attempt returns: the order is one of its slot or a placeholder, and dead
\* if the chain is to move on from it.
LEMMA ReturnIsSafe ==
    ASSUME IInv, VenueOK', VenueGrows, VenueWorks,
           pc \in {"place", "reply", "poll"},
           NEW o \in Order, o.id \in {NoId, slot},
           o.id # NoId => venue'[o.id].st # "none" /\ o.fill <= venue'[o.id].fill,
           o.id = NoId => o.fill = 0 /\ o.status \notin Surviving,
           /\ SecondaryIsHonest /\ slot \in Secondaries
           /\ o.status \notin {"FILLED", "PARTIAL"} /\ ~o.amb
           => Empty(slot)',
           Return(o),
           UNCHANGED <<leg, slot, eff, last, todo, uw, booked, open, paged>>
    PROVE  IInv'
<1> USE DEF IInv
<1>1. ord' = o /\ dbFailed' \in BOOLEAN /\ pc' = "returned"
  BY DEF Return, EngineOK
<1>2. EngineOK'
  BY <1>1 DEF EngineOK
<1>3. Believes'
  <2>1. last \in Order /\ \A x \in Legs : leg[x] \in Order
    BY DEF EngineOK
  <2>2. Matches(last)' /\ \A x \in Legs : Matches(leg[x])'
    BY <2>1, MatchesStay DEF Believes, Matches
  <2>3. Matches(ord)'
    BY <1>1 DEF Matches
  <2>. QED
    BY <2>2, <2>3 DEF Believes
<1>4. SentOnce'
  BY <1>1, ChainStays, SlotFacts DEF SentOnce, VenueWorks, BeforeRest
<1>5. Control'
  BY <1>1 DEF Control, BeforeRest
<1>6. ChainIsDead'
  BY <1>1, ChainStays DEF ChainIsDead
<1>. QED
  BY <1>2, <1>3, <1>4, <1>5, <1>6, ChainStays

\* The request is sent, or blocked by a failed write of the store.
LEMMA PlaceIsSafe ==
    ASSUME IInv, Place \/ PlaceBlocked
    PROVE  IInv'
<1> USE DEF IInv
<1>1. slot \in PRIMARY..FOK /\ slot \in Slots
  BY SlotFacts DEF EngineOK
<1>2. CASE Place
  <2>1. /\ pc = "place" /\ Send(slot, eff) /\ pc' = "reply"
        /\ UNCHANGED <<ord, leg, dbFailed, slot, eff, last, todo, uw, booked, open, paged>>
    BY <1>2 DEF Place, place, recovery, alarms
  <2>2. venue[slot].st = "none" /\ eff \in 0..SuggestedQty
    BY <2>1 DEF SentOnce, EngineOK
  <2>3. /\ VenueOK' /\ VenueGrows
        /\ venue'[slot] = [st |-> "flying", want |-> eff, fill |-> 0]
        /\ \A t \in Slots \ {slot} : venue'[t] = venue[t]
    BY <1>1, <2>1, <2>2, SendIsSafe
  <2>4. EngineOK'
    BY <2>1 DEF EngineOK
  <2>5. Believes'
    <3>1. ord \in Order /\ last \in Order /\ \A x \in Legs : leg[x] \in Order
      BY DEF EngineOK
    <3>. QED
      BY <2>1, <2>3, <3>1, MatchesStay DEF Believes, Matches
  <2>6. SentOnce'
    <3>1. \A s \in (slot + 1)..FOK : s \in Slots \ {slot}
      BY <1>1
    <3>. QED
      BY <1>1, <2>1, <2>3, <3>1, SlotFacts DEF SentOnce, BeforeRest
  <2>7. Control'
    BY <2>1 DEF Control, BeforeRest
  <2>8. Sized'
    <3>1. CASE slot = PRIMARY
      <4>1. \A t \in Secondaries : t \in (slot + 1)..FOK
        BY <3>1
      <4>2. \A t \in Secondaries : venue'[t].want = 0
        BY <2>3, <4>1, <3>1, SlotFacts DEF SentOnce, VenueOK
      <4>. QED
        BY <2>1, <2>3, <3>1, <4>2 DEF Sized
    <3>2. CASE slot # PRIMARY
      <4>1. slot \in Secondaries /\ slot >= FIRST /\ PRIMARY # slot
        BY <1>1, <3>2
      <4>2. venue'[PRIMARY] = venue[PRIMARY] /\ eff <= venue[PRIMARY].fill
        BY <2>3, <4>1, SlotFacts DEF Sized
      <4>. QED
        BY <2>1, <2>3, <4>1, <4>2, SlotFacts DEF Sized
    <3>. QED
      BY <3>1, <3>2
  <2>9. ChainIsDead'
    BY <2>1, <2>3, SlotFacts DEF ChainIsDead, Empty, Dead
  <2>. QED
    BY <2>3, <2>4, <2>5, <2>6, <2>7, <2>8, <2>9
<1>3. CASE PlaceBlocked
  <2> DEFINE o == Placeholder("ABORTED")
  <2>1. /\ pc = "place" /\ ord' = o /\ pc' = "returned" /\ dbFailed' = dbFailed
        /\ UNCHANGED <<venue, leg, slot, eff, last, todo, uw, booked, open, paged>>
    BY <1>3 DEF PlaceBlocked, place, recovery, alarms
  <2>2. o \in Order /\ o.id = NoId /\ o.fill = 0 /\ o.status = "ABORTED"
    BY PlaceholderIsOrder DEF Status
  <2>. HIDE DEF o
  <2>3. VenueOK' /\ VenueGrows /\ VenueWorks
    BY <2>1, VenueRests
  <2>4. Empty(slot)'
    BY <1>1, <2>1 DEF SentOnce, VenueOK, Empty, Dead
  <2>5. Return(o)
    BY <2>1 DEF Return
  <2>. QED
    BY <2>1, <2>2, <2>3, <2>4, <2>5, ReturnIsSafe DEF Surviving
<1>. QED
  BY <1>2, <1>3

\* An attempt goes on being polled.
LEMMA PollGoesOn ==
    ASSUME IInv, UNCHANGED venue, pc \in {"reply", "poll"},
           venue[slot].st \notin {"none", "flying"},
           NEW o \in Order, o.id = slot, o.fill <= venue[slot].fill,
           ord' = o, pc' = "poll",
           UNCHANGED <<dbFailed, leg, slot, eff, last, todo, uw, booked, open, paged>>
    PROVE  IInv'
<1> USE DEF IInv
<1>1. slot \in PRIMARY..FOK /\ slot \in Slots /\ slot # NoId
  BY SlotFacts DEF EngineOK
<1>2. VenueOK' /\ VenueGrows /\ VenueWorks
  BY VenueRests
<1>3. EngineOK'
  BY DEF EngineOK
<1>4. Believes'
  BY <1>1 DEF Believes, Matches
<1>5. SentOnce'
  BY DEF SentOnce, BeforeRest
<1>6. Control'
  BY DEF Control, BeforeRest
<1>7. ChainIsDead'
  BY DEF ChainIsDead, Empty, Dead
<1>. QED
  BY <1>2, <1>3, <1>4, <1>5, <1>6, <1>7, ChainStays

\* The answers to a request: a status, a failure, a timeout, an exception.
LEMMA ReplyIsSafe ==
    ASSUME IInv, Reply \/ ReplyFailsLate \/ ReplyTimesOut \/ ReplyRaises
    PROVE  IInv'
<1> USE DEF IInv
<1>1. /\ slot \in PRIMARY..FOK /\ slot \in Slots /\ slot # NoId
      /\ slot \in Secondaries => Faults(slot) = SecondaryFaults
  BY SlotFacts DEF EngineOK, Faults
<1>2. OrderOK(venue[slot]) /\ venue[slot].fill \in 0..SuggestedQty
  BY <1>1, VenueOrders DEF OrderOK
<1>3. CASE Reply
  <2>1. PICK st \in StatusesOf(venue[slot], Faults(slot)) :
          /\ pc = "reply" /\ Answered(slot)
          /\ LET o == [id |-> slot, status |-> st, fill |-> venue[slot].fill, amb |-> FALSE]
             IN IF st = "SUBMITTED" THEN ord' = o /\ pc' = "poll" /\ UNCHANGED dbFailed
                ELSE Return(o)
          /\ UNCHANGED <<venue, leg, slot, eff, last, todo, uw, booked, open, paged>>
    BY <1>3 DEF Reply, place, recovery, alarms
  <2> DEFINE o == [id |-> slot, status |-> st, fill |-> venue[slot].fill, amb |-> FALSE]
  <2>2. st \in Status
    BY <1>2, StatusIsSound
  <2>3. o \in Order /\ o.id = slot /\ o.fill = venue[slot].fill /\ o.status = st /\ o.amb = FALSE
    BY <1>1, <1>2, <2>2 DEF Order
  <2>4. venue[slot].st \notin {"none", "flying"}
    BY <2>1 DEF Answered
  <2>5. IF st = "SUBMITTED" THEN ord' = o /\ pc' = "poll" /\ UNCHANGED dbFailed ELSE Return(o)
    BY <2>1
  <2>. HIDE DEF o
  <2>6. o.fill <= venue[slot].fill
    BY <1>2, <2>3
  <2>7. CASE st = "SUBMITTED"
    BY <2>1, <2>3, <2>4, <2>5, <2>6, <2>7, PollGoesOn
  <2>8. CASE st # "SUBMITTED"
    <3>1. VenueOK' /\ VenueGrows /\ VenueWorks
      BY <2>1, VenueRests
    <3>2. SecondaryIsHonest /\ slot \in Secondaries /\ st \notin {"FILLED", "PARTIAL"} => Empty(slot)
      BY <1>1, <1>2, <2>4, <2>8, StatusIsSound DEF SecondaryIsHonest, Empty, Dead
    <3>3. Empty(slot) => Empty(slot)'
      BY <2>1 DEF Empty, Dead
    <3>4. Return(o) /\ venue'[o.id].st # "none" /\ o.fill <= venue'[o.id].fill
      BY <2>1, <2>3, <2>4, <2>5, <2>6, <2>8
    <3>. QED
      BY <1>1, <2>1, <2>3, <3>1, <3>2, <3>3, <3>4, ReturnIsSafe
  <2>. QED
    BY <2>7, <2>8
<1>4. CASE ReplyFailsLate
  <2> DEFINE o == Placeholder("FAILED")
  <2>1. /\ pc = "reply" /\ "fails_late" \in Faults(slot) /\ Return(o)
        /\ UNCHANGED <<venue, leg, slot, eff, last, todo, uw, booked, open, paged>>
    BY <1>4 DEF ReplyFailsLate, place, recovery, alarms
  <2>2. o \in Order /\ o.id = NoId /\ o.fill = 0 /\ o.status = "FAILED"
    BY PlaceholderIsOrder DEF Status
  <2>. HIDE DEF o
  <2>3. VenueOK' /\ VenueGrows /\ VenueWorks
    BY <2>1, VenueRests
  <2>4. ~(SecondaryIsHonest /\ slot \in Secondaries)
    BY <1>1, <2>1 DEF SecondaryIsHonest
  <2>. QED
    BY <2>1, <2>2, <2>3, <2>4, ReturnIsSafe DEF Surviving
<1>5. CASE ReplyTimesOut
  <2>1. /\ pc = "reply"
        /\ UNCHANGED <<leg, slot, eff, last, todo, uw, booked, open, paged>>
    BY <1>5 DEF ReplyTimesOut, place, recovery, alarms
  <2>2. /\ VenueOK' /\ VenueGrows /\ VenueWorks
        /\ \E status \in {"CANCELLED", "FAILED"} : Return([Placeholder(status) EXCEPT !.amb = TRUE])
    <3>1. CASE \E c \in Cancel(venue[slot], Faults(slot)) :
                 /\ venue' = [venue EXCEPT ![slot] = c.v]
                 /\ Return([Placeholder(IF c.ok THEN "CANCELLED" ELSE "FAILED") EXCEPT !.amb = TRUE])
      <4>1. PICK c \in Cancel(venue[slot], Faults(slot)) :
                 /\ venue' = [venue EXCEPT ![slot] = c.v]
                 /\ Return([Placeholder(IF c.ok THEN "CANCELLED" ELSE "FAILED") EXCEPT !.amb = TRUE])
        BY <3>1
      <4>2. VenueOK' /\ VenueGrows /\ VenueWorks
        BY <1>1, <4>1, CancelIsSafe
      <4>. QED
        BY <4>1, <4>2
    <3>2. CASE Return([Placeholder("FAILED") EXCEPT !.amb = TRUE]) /\ UNCHANGED venue
      BY <3>2, VenueRests
    <3>. QED
      BY <1>5, <3>1, <3>2 DEF ReplyTimesOut
  <2>3. PICK status \in {"CANCELLED", "FAILED"} : Return([Placeholder(status) EXCEPT !.amb = TRUE])
    BY <2>2
  <2> DEFINE o == [Placeholder(status) EXCEPT !.amb = TRUE]
  <2>4. o \in Order /\ o.id = NoId /\ o.fill = 0 /\ o.status = status /\ o.amb = TRUE
    BY PlaceholderIsOrder DEF Status
  <2>5. Return(o)
    BY <2>3
  <2>. HIDE DEF o
  <2>. QED
    BY <2>1, <2>2, <2>4, <2>5, ReturnIsSafe DEF Surviving
<1>6. CASE ReplyRaises
  <2>1. /\ UNCHANGED <<venue, ord, dbFailed, slot, eff, last, todo, uw, booked>>
        /\ pc = "reply"
        /\ \/ slot = PRIMARY /\ pc' = "raised" /\ UNCHANGED <<leg, open, paged>>
           \/ /\ leg' = [leg EXCEPT !["s"] = Placeholder("ABORTED")]
              /\ open' = open \cup {"secondary_execution_exception"} /\ paged' = TRUE
              /\ pc' = "decide"
    BY <1>6 DEF ReplyRaises, SecondaryRaised, Raise, place, recovery, alarms
  <2>2. VenueOK' /\ VenueGrows /\ VenueWorks
    BY <2>1, VenueRests
  <2>3. /\ Placeholder("ABORTED") \in Order
        /\ Placeholder("ABORTED").id = NoId /\ Placeholder("ABORTED").fill = 0
        /\ Placeholder("ABORTED").status \notin Surviving
    BY PlaceholderIsOrder DEF Status, Surviving
  <2>4. leg' \in [Legs -> Order] /\ \A x \in Legs : leg'[x] = leg[x] \/ leg'[x] = Placeholder("ABORTED")
    BY <2>1, <2>3 DEF EngineOK
  <2>5. EngineOK'
    BY <2>1, <2>4 DEF EngineOK, Incidents
  <2>6. Believes'
    BY <2>1, <2>3, <2>4 DEF Believes, Matches
  <2>7. SentOnce'
    BY <2>1 DEF SentOnce, BeforeRest
  <2>8. Control'
    BY <2>1 DEF Control, BeforeRest
  <2>9. ChainIsDead'
    BY <2>1 DEF ChainIsDead, Empty, Dead
  <2>. QED
    BY <2>1, <2>2, <2>5, <2>6, <2>7, <2>8, <2>9, ChainStays
<1>. QED
  BY <1>3, <1>4, <1>5, <1>6

\* _poll_submitted_to_terminal: a read, or the deadline.
LEMMA PollIsSafe ==
    ASSUME IInv, Poll \/ PollTimesOut
    PROVE  IInv'
<1> USE DEF IInv
<1>1. /\ slot \in PRIMARY..FOK /\ slot \in Slots /\ slot # NoId
      /\ slot \in Secondaries => Faults(slot) = SecondaryFaults
  BY SlotFacts DEF EngineOK, Faults
<1>2. OrderOK(venue[slot]) /\ venue[slot].fill \in 0..SuggestedQty
  BY <1>1, VenueOrders DEF OrderOK
<1>3. pc = "poll"
  BY DEF Poll, PollTimesOut
<1>4. ord \in Order /\ ord.id = slot /\ ord.fill <= venue[slot].fill
  BY <1>1, <1>3 DEF EngineOK, Control, Believes, Matches
<1>5. venue[slot].st \notin {"none", "flying"}
  BY <1>3 DEF SentOnce
<1>6. CASE Poll
  <2>1. PICK o \in GetOrder(ord, venue[slot], Faults(slot)) :
          /\ IF o.status = "SUBMITTED" THEN ord' = o /\ UNCHANGED <<pc, dbFailed>> ELSE Return(o)
          /\ UNCHANGED <<venue, leg, slot, eff, last, todo, uw, booked, open, paged>>
    BY <1>6 DEF Poll, place, recovery, alarms
  <2>2. o \in Order /\ o.id = slot /\ o.fill <= venue[slot].fill
    BY <1>2, <1>4, ReadIsSound
  <2>3. CASE o.status = "SUBMITTED"
    BY <1>3, <1>5, <2>1, <2>2, <2>3, PollGoesOn
  <2>4. CASE o.status # "SUBMITTED"
    <3>1. VenueOK' /\ VenueGrows /\ VenueWorks
      BY <2>1, VenueRests
    <3>2. SecondaryIsHonest /\ slot \in Secondaries /\ o.status \notin {"FILLED", "PARTIAL"} /\ ~o.amb
            => Empty(slot)
      BY <1>1, <1>2, <1>4, <1>5, <2>1, <2>4, ReadIsSound DEF SecondaryIsHonest, Empty, Dead
    <3>3. Empty(slot) => Empty(slot)'
      BY <2>1 DEF Empty, Dead
    <3>4. Return(o) /\ venue'[o.id].st # "none" /\ o.fill <= venue'[o.id].fill
      BY <1>5, <2>1, <2>2, <2>4
    <3>. QED
      BY <1>1, <1>3, <2>1, <2>2, <3>1, <3>2, <3>3, <3>4, ReturnIsSafe
  <2>. QED
    BY <2>3, <2>4
<1>7. CASE PollTimesOut
  <2>1. PICK c \in Cancel(venue[slot], Faults(slot)) :
          /\ venue' = [venue EXCEPT ![slot] = c.v]
          /\ \E o \in GetOrder(ord, c.v, Faults(slot)) :
               Return([o EXCEPT !.amb = @ \/ (/\ o.status # "FILLED"
                                              /\ o.status = "SUBMITTED" \/ ~c.ok)])
          /\ UNCHANGED <<leg, slot, eff, last, todo, uw, booked, open, paged>>
    BY <1>7 DEF PollTimesOut, place, recovery, alarms
  <2>2. /\ VenueOK' /\ VenueGrows /\ VenueWorks
        /\ venue'[slot] = c.v /\ c.v.fill = venue[slot].fill
    <3>1. slot \in Slots /\ c \in Cancel(venue[slot], Faults(slot)) /\ venue' = [venue EXCEPT ![slot] = c.v]
      BY <1>1, <2>1
    <3>2. VenueOK
      OBVIOUS
    <3>3. VenueOK' /\ VenueGrows /\ VenueWorks
      BY <3>1, <3>2, CancelIsSafe
    <3>4. venue'[slot] = c.v
      BY <3>1, <3>2 DEF VenueOK
    <3>5. c.v.fill = venue[slot].fill
      BY <3>1, <3>2, CancelIsSafe
    <3>. QED
      BY <3>3, <3>4, <3>5
  <2>3. PICK o \in GetOrder(ord, c.v, Faults(slot)) :
               Return([o EXCEPT !.amb = @ \/ (/\ o.status # "FILLED"
                                              /\ o.status = "SUBMITTED" \/ ~c.ok)])
    BY <2>1
  <2>4. OrderOK(c.v) /\ c.v.st \notin {"none", "flying"}
    BY <1>1, <1>5, <2>2 DEF VenueOK, OrderOK, VenueWorks
  <2>5. o \in Order /\ o.id = slot /\ o.fill <= venue[slot].fill
    BY <1>2, <1>4, <2>2, <2>4, ReadIsSound
  <2> DEFINE r == [o EXCEPT !.amb = @ \/ (/\ o.status # "FILLED"
                                          /\ o.status = "SUBMITTED" \/ ~c.ok)]
  <2>6. /\ r \in Order /\ r.id = slot /\ r.fill = o.fill /\ r.status = o.status
        /\ ~r.amb => ~o.amb /\ (o.status = "FILLED" \/ o.status # "SUBMITTED")
    BY <2>5 DEF Order
  <2>7. Return(r)
    BY <2>3
  <2>. HIDE DEF r
  <2>8. SecondaryIsHonest /\ slot \in Secondaries /\ r.status \notin {"FILLED", "PARTIAL"} /\ ~r.amb
          => Empty(slot)'
    <3>1. /\ Faults(slot) \cap {"poll_failed", "ended_as_cancelled"} = {}
          /\ o.status \notin {"FILLED", "PARTIAL", "SUBMITTED"} /\ ~o.amb
          => c.v.st \in {"ended", "refused"} /\ c.v.fill = 0
      BY <1>1, <1>4, <2>4, ReadIsSound
    <3>2. SecondaryIsHonest /\ slot \in Secondaries
            => Faults(slot) \cap {"poll_failed", "ended_as_cancelled"} = {}
      BY <1>1 DEF SecondaryIsHonest
    <3>. QED
      BY <2>1, <2>2, <2>6, <3>1, <3>2 DEF Empty, Dead
  <2>9. r.fill <= venue'[slot].fill /\ venue'[slot].st # "none"
    BY <2>2, <2>4, <2>5, <2>6
  <2>. QED
    BY <1>1, <1>3, <2>1, <2>2, <2>6, <2>7, <2>8, <2>9, ReturnIsSafe
<1>. QED
  BY <1>6, <1>7

-----------------------------------------------------------------------------
(* The legs in sequence.                                                    *)

\* PreTrade and the fallback chain between two attempts: the venues rest.
LEMMA ChainIsSafe ==
    ASSUME IInv, \/ PreTrade \/ PrimaryReturned \/ AttemptReturned
                 \/ Requote \/ RequotesExhausted \/ FokReturned
    PROVE  IInv'
<1> USE DEF IInv
<1>1. UNCHANGED <<venue, ord, dbFailed, todo, uw, booked>>
  BY DEF PreTrade, PrimaryReturned, AttemptReturned, Requote, RequotesExhausted, FokReturned,
         place, recovery
<1>2. VenueOK' /\ VenueGrows /\ VenueWorks
  BY <1>1, VenueRests
<1>3. /\ Placeholder("ABORTED") \in Order
      /\ Placeholder("ABORTED").id = NoId /\ Placeholder("ABORTED").fill = 0
      /\ Placeholder("ABORTED").status \notin Surviving
  BY PlaceholderIsOrder DEF Status, Surviving
<1>4. ord \in Order /\ last \in Order /\ leg \in [Legs -> Order] /\ Matches(ord) /\ Matches(last)
  BY DEF EngineOK, Believes
<1>5. CASE PreTrade
  <2>1. /\ UNCHANGED <<slot, last, leg, open, paged>> /\ pc = "start" /\ slot = PRIMARY
        /\ \/ \E q \in 1..SuggestedQty : eff' = q /\ pc' = "place"
           \/ pc' = "done" /\ UNCHANGED eff
    BY <1>5 DEF PreTrade, alarms, Control
  <2>2. EngineOK' /\ Believes'
    BY <1>1, <2>1 DEF EngineOK, Believes, Matches
  <2>3. SentOnce' /\ Control'
    BY <1>1, <2>1 DEF SentOnce, Control, BeforeRest
  <2>4. Sized' /\ ChainIsDead'
    BY <1>1, <2>1 DEF Sized, ChainIsDead, Empty, Dead
  <2>. QED
    BY <1>2, <2>2, <2>3, <2>4
<1>6. CASE PrimaryReturned
  <2>1. /\ pc = "returned" /\ slot = PRIMARY /\ UNCHANGED last
        /\ \/ slot' = PRIMARY /\ pc' = "decide"
           \/ slot' = FIRST /\ pc' \in {"place", "requote"} /\ ord.fill > 0
    BY <1>6 DEF PrimaryReturned
  <2>2. eff' = eff \/ eff' = ord.fill
    BY <1>6 DEF PrimaryReturned
  <2>3. leg' \in [Legs -> Order] /\ \A x \in Legs : leg'[x] \in {leg[x], ord, Placeholder("ABORTED")}
    BY <1>3, <1>4, <1>6 DEF PrimaryReturned, Legs
  <2>4. open' \subseteq Incidents /\ paged' \in BOOLEAN
    BY <1>6 DEF PrimaryReturned, alarms, Raise, EngineOK, Incidents
  <2>5. EngineOK'
    BY <1>1, <1>4, <2>1, <2>2, <2>3, <2>4 DEF EngineOK, Order
  <2>6. Believes'
    BY <1>1, <1>3, <1>4, <2>1, <2>3 DEF Believes, Matches
  <2>7. SentOnce' /\ Control'
    BY <1>1, <2>1 DEF SentOnce, Control, BeforeRest
  <2>8. Sized'
    <3>1. slot' >= FIRST => eff' = ord.fill /\ ord.fill <= venue[PRIMARY].fill
      BY <1>4, <1>6, <2>1 DEF PrimaryReturned, Control, Matches
    <3>. QED
      BY <1>1, <3>1 DEF Sized
  <2>9. ChainIsDead'
    BY <1>1, <2>1, SlotFacts DEF ChainIsDead, Empty, Dead
  <2>. QED
    BY <1>2, <2>5, <2>6, <2>7, <2>8, <2>9
<1>7. CASE AttemptReturned
  <2>1. /\ pc = "returned" /\ slot \in FIRST..(FOK - 1) /\ UNCHANGED <<slot, eff, open, paged>>
        /\ \/ leg' = [leg EXCEPT !["s"] = ord] /\ pc' = "decide" /\ UNCHANGED last
           \/ /\ ord.status \notin {"FILLED", "PARTIAL"} /\ ~ord.amb
              /\ last' = ord /\ pc' = "requote" /\ UNCHANGED leg
    BY <1>7 DEF AttemptReturned, alarms
  <2>2. leg' \in [Legs -> Order] /\ \A x \in Legs : leg'[x] \in {leg[x], ord}
    BY <1>4, <2>1
  <2>3. EngineOK' /\ Believes'
    BY <1>1, <1>4, <2>1, <2>2 DEF EngineOK, Believes, Matches
  <2>4. SentOnce' /\ Control'
    BY <1>1, <2>1 DEF SentOnce, Control, BeforeRest
  <2>5. Sized' /\ ChainIsDead'
    BY <1>1, <2>1 DEF Sized, ChainIsDead, Empty, Dead
  <2>. QED
    BY <1>2, <2>3, <2>4, <2>5
<1>8. CASE Requote
  <2>1. /\ pc = "requote" /\ slot < FOK - 1 /\ slot' = slot + 1 /\ pc' \in {"place", "requote"}
        /\ UNCHANGED <<eff, last, leg, open, paged>>
    BY <1>8 DEF Requote, alarms
  <2>2. slot \in FIRST..(FOK - 2) /\ slot' \in Secondaries
    BY <2>1 DEF Control
  <2>3. EngineOK' /\ Believes'
    BY <1>1, <2>1, <2>2 DEF EngineOK, Believes, Matches
  <2>4. SentOnce' /\ Control'
    BY <1>1, <2>1, <2>2 DEF SentOnce, Control, BeforeRest
  <2>5. Sized'
    BY <1>1, <2>1, <2>2 DEF Sized
  <2>6. Empty(slot')
    <3>1. slot' \in (slot + 1)..FOK /\ slot' \in Slots
      BY <2>1, <2>2
    <3>. QED
      BY <3>1 DEF SentOnce, VenueOK, Empty, Dead
  <2>7. ChainIsDead'
    BY <1>1, <2>1, <2>6 DEF ChainIsDead, Empty, Dead
  <2>. QED
    BY <1>2, <2>3, <2>4, <2>5, <2>7
<1>9. CASE RequotesExhausted
  <2>1. /\ pc = "requote" /\ slot = FOK - 1 /\ UNCHANGED <<eff, last, open, paged>>
        /\ \/ leg' = [leg EXCEPT !["s"] = Placeholder("ABORTED")] /\ pc' = "decide" /\ UNCHANGED slot
           \/ slot' = FOK /\ pc' = "place" /\ UNCHANGED leg
    BY <1>9 DEF RequotesExhausted, alarms
  <2>2. leg' \in [Legs -> Order] /\ \A x \in Legs : leg'[x] \in {leg[x], Placeholder("ABORTED")}
    BY <1>3, <1>4, <2>1
  <2>3. EngineOK' /\ Believes'
    BY <1>1, <1>3, <1>4, <2>1, <2>2 DEF EngineOK, Believes, Matches
  <2>4. SentOnce' /\ Control'
    BY <1>1, <2>1 DEF SentOnce, Control, BeforeRest
  <2>5. Sized' /\ ChainIsDead'
    BY <1>1, <2>1 DEF Sized, ChainIsDead, Empty, Dead
  <2>. QED
    BY <1>2, <2>3, <2>4, <2>5
<1>10. CASE FokReturned
  <2>1. /\ pc = "returned" /\ pc' = "decide" /\ UNCHANGED <<slot, eff, last, open, paged>>
        /\ leg' = [leg EXCEPT !["s"] = IF ord.status = "FILLED" THEN ord ELSE last]
    BY <1>10 DEF FokReturned, place, alarms
  <2>2. leg' \in [Legs -> Order] /\ \A x \in Legs : leg'[x] \in {leg[x], ord, last}
    BY <1>4, <2>1
  <2>3. EngineOK' /\ Believes'
    BY <1>1, <1>4, <2>1, <2>2 DEF EngineOK, Believes, Matches
  <2>4. SentOnce' /\ Control'
    BY <1>1, <2>1 DEF SentOnce, Control, BeforeRest
  <2>5. Sized' /\ ChainIsDead'
    BY <1>1, <2>1 DEF Sized, ChainIsDead, Empty, Dead
  <2>. QED
    BY <1>2, <2>3, <2>4, <2>5
<1>. QED
  BY <1>5, <1>6, <1>7, <1>8, <1>9, <1>10

-----------------------------------------------------------------------------
(* The decision and the recovery.                                           *)

\* A release stays within what is booked, and so does the close of an unwind, which
\* releases what was sold.
LEMMA ReleaseIsSafe ==
    /\ \A x \in Legs, n \in Int :
         booked \in [Legs -> 0..SuggestedQty] /\ n >= 0 /\ Release(x, n)
           => booked' \in [Legs -> 0..SuggestedQty]
    /\ \A sold \in Int :
         EngineOK /\ Close(sold)
           => pc' = "done" /\ booked' \in [Legs -> 0..SuggestedQty] /\ open' \subseteq Incidents
<1>1. ASSUME NEW x \in Legs, NEW n \in Int, booked \in [Legs -> 0..SuggestedQty], n >= 0, Release(x, n)
      PROVE  booked' \in [Legs -> 0..SuggestedQty]
  <2>1. booked[x] \in 0..SuggestedQty
    BY <1>1
  <2>2. (IF n < booked[x] THEN booked[x] - n ELSE 0) \in 0..SuggestedQty
    BY <1>1, <2>1
  <2>3. booked' = [booked EXCEPT ![x] = IF n < booked[x] THEN booked[x] - n ELSE 0]
    BY <1>1 DEF Release
  <2>. QED
    BY <1>1, <2>2, <2>3
<1>2. ASSUME NEW sold \in Int, EngineOK, Close(sold)
      PROVE  pc' = "done" /\ booked' \in [Legs -> 0..SuggestedQty] /\ open' \subseteq Incidents
  <2>1. pc' = "done" /\ open' \subseteq Incidents
    BY <1>2 DEF Close, EngineOK
  <2>2. CASE sold > 0
    <3>1. uw.leg \in Legs /\ booked \in [Legs -> 0..SuggestedQty] /\ Release(uw.leg, sold) /\ sold >= 0
      BY <1>2, <2>2 DEF Close, EngineOK
    <3>. QED
      BY <1>1, <2>1, <3>1
  <2>3. CASE ~(sold > 0)
    BY <1>2, <2>1, <2>3 DEF Close, EngineOK
  <2>. QED
    BY <2>2, <2>3
<1>. QED
  BY <1>1, <1>2

\* The steps of the recovery before it sells.
LEMMA SettlingIsSafe ==
    ASSUME IInv, \/ Decide \/ Recover
                 \/ (\E x \in Legs : CancelLeg(x))
                 \/ ChooseUnwind \/ Verify
    PROVE  IInv'
\* Deciding and opening the recovery: the venues rest.
<1>1. ASSUME Decide \/ Recover PROVE IInv'
  <2> USE <1>1
  <2> USE DEF IInv
  <2>1. /\ UNCHANGED <<venue, ord, leg, dbFailed, slot, eff, last, uw>>
        /\ pc \in {"decide", "recover"} /\ pc' \in {"recover", "cancel", "done"}
        /\ pc' = "cancel" => todo' = {x \in Legs : leg[x].status \in {"SUBMITTED", "PARTIAL"}}
    BY DEF Decide, Recover, place
  <2>2. VenueOK' /\ VenueGrows /\ VenueWorks
    BY <2>1, VenueRests
  <2>3. booked' \in [Legs -> 0..SuggestedQty] /\ todo' \subseteq Legs
    BY DEF Decide, Recover, BookedFor, EngineOK
  <2>4. open' \subseteq Incidents /\ paged' \in BOOLEAN
    BY DEF Decide, Recover, Raise, alarms, EngineOK, Incidents
  <2>5. EngineOK' /\ Believes'
    BY <2>1, <2>3, <2>4 DEF EngineOK, Believes, Matches
  <2>6. SentOnce' /\ Control'
    BY <2>1 DEF SentOnce, Control, BeforeRest
  <2>7. ChainIsDead'
    BY <2>1 DEF ChainIsDead, Empty, Dead
  <2>. QED
    BY <2>1, <2>2, <2>5, <2>6, <2>7, ChainStays
\* A leg that is still open is cancelled at its venue.
<1>2. ASSUME NEW x \in Legs, CancelLeg(x) PROVE IInv'
  <2> USE <1>2
  <2> USE DEF IInv
  <2>1. /\ pc = "cancel" /\ x \in todo /\ todo' = todo \ {x}
        /\ UNCHANGED <<pc, ord, dbFailed, slot, eff, last, uw, open, paged>>
    BY DEF CancelLeg, place, alarms
  <2>2. leg[x] \in Order /\ leg[x].id \in Slots /\ leg[x].id # NoId
    <3>1. leg[x] \in Order /\ leg[x].status \in {"SUBMITTED", "PARTIAL"}
      BY <2>1 DEF EngineOK, Control
    <3>. QED
      BY <3>1 DEF Believes, Matches, Surviving, Order
  <2>3. PICK c \in Cancel(venue[leg[x].id], Faults(leg[x].id)) :
          /\ venue' = [venue EXCEPT ![leg[x].id] = c.v]
          /\ IF c.ok
             THEN /\ leg' = [leg EXCEPT ![x].status = "CANCELLED"]
                  /\ Release(x, c.v.want - leg[x].fill)
             ELSE UNCHANGED <<leg, booked>>
    BY DEF CancelLeg
  <2>4. VenueOK' /\ VenueGrows /\ VenueWorks /\ c.v.want = venue[leg[x].id].want
    <3>1. VenueOK' /\ VenueGrows /\ VenueWorks
      BY <2>2, <2>3, CancelIsSafe
    <3>2. OrderOK(venue[leg[x].id])
      BY <2>2, VenueOrders
    <3>3. c.v.want = venue[leg[x].id].want
      BY <2>3, <3>2 DEF Cancel, OrderOK
    <3>. QED
      BY <3>1, <3>3
  <2>5. c.v.want - leg[x].fill \in Int /\ c.v.want - leg[x].fill >= 0
    <3>1. leg[x].fill \in Int /\ leg[x].fill <= venue[leg[x].id].fill
      BY <2>2 DEF Believes, Matches, Order
    <3>2. OrderOK(venue[leg[x].id])
      BY <2>2, VenueOrders
    <3>. QED
      BY <2>4, <3>1, <3>2, VenueOrders
  <2>6. booked' \in [Legs -> 0..SuggestedQty]
    BY <2>3, <2>5, ReleaseIsSafe DEF EngineOK
  <2>7. /\ leg' \in [Legs -> Order]
        /\ leg'[x].id = leg[x].id /\ leg'[x].fill = leg[x].fill
        /\ \A y \in Legs \ {x} : leg'[y] = leg[y]
    BY <2>2, <2>3 DEF EngineOK, Order, Status
  <2>8. EngineOK'
    BY <2>1, <2>6, <2>7 DEF EngineOK
  <2>9. Believes'
    <3>1. /\ ord \in Order /\ last \in Order /\ \A y \in Legs : leg[y] \in Order
          /\ Matches(ord) /\ Matches(last) /\ \A y \in Legs : Matches(leg[y])
      BY DEF EngineOK, Believes
    <3>2. Matches(ord)' /\ Matches(last)' /\ \A y \in Legs \ {x} : Matches(leg[y])'
      BY <2>1, <2>4, <2>7, <3>1, MatchesStay DEF Matches
    <3>3. Matches(leg[x])'
      BY <2>2, <2>4, <2>7, <3>1, MatchesStay DEF Matches
    <3>. QED
      BY <3>2, <3>3 DEF Believes
  <2>10. SentOnce'
    BY <2>1, <2>4, ChainStays, SlotFacts DEF SentOnce, VenueWorks, BeforeRest
  <2>11. Control'
    <3>1. \A y \in todo' : leg'[y].status \in {"SUBMITTED", "PARTIAL"}
      BY <2>1, <2>7 DEF Control, EngineOK
    <3>. QED
      BY <2>1, <3>1 DEF Control, BeforeRest
  <2>12. ChainIsDead'
    BY <2>1, <2>4, ChainStays DEF ChainIsDead
  <2>. QED
    BY <2>1, <2>4, <2>8, <2>9, <2>10, <2>11, <2>12, ChainStays
\* Choosing the leg to sell, from what the engine believes.
<1>3. ASSUME ChooseUnwind PROVE IInv'
  <2> USE <1>3
  <2> USE DEF IInv
  <2>1. /\ pc = "cancel" /\ pc' \in {"done", "verify", "unwind"}
        /\ UNCHANGED <<venue, ord, leg, dbFailed, slot, eff, last, todo, booked, open, paged>>
    BY DEF ChooseUnwind, place, alarms
  <2>2. VenueOK' /\ VenueGrows /\ VenueWorks
    BY <2>1, VenueRests
  <2>3. Believed("p") \in 0..SuggestedQty /\ Believed("s") \in 0..SuggestedQty
    BY DEF Believed, EngineOK, Order, Legs
  <2>4. /\ uw' \in [leg : Legs, qty : 0..SuggestedQty, rested : 0..SuggestedQty]
        /\ uw'.rested = 0 /\ uw'.rested <= uw'.qty
    <3>1. CASE Believed("p") = Believed("s")
      BY <2>1, <3>1 DEF ChooseUnwind, EngineOK, Control, BeforeRest
    <3>2. CASE Believed("p") > Believed("s")
      <4>1. uw' = [leg |-> "p", qty |-> Believed("p") - Believed("s"), rested |-> 0]
        BY <2>3, <3>2 DEF ChooseUnwind, Other
      <4>. QED
        BY <2>3, <3>2, <4>1 DEF Legs
    <3>3. CASE Believed("p") < Believed("s")
      <4>1. uw' = [leg |-> "s", qty |-> Believed("s") - Believed("p"), rested |-> 0]
        BY <2>3, <3>3 DEF ChooseUnwind, Other
      <4>. QED
        BY <2>3, <3>3, <4>1 DEF Legs
    <3>. QED
      BY <2>3, <3>1, <3>2, <3>3
  <2>5. EngineOK' /\ Believes'
    BY <2>1, <2>4 DEF EngineOK, Believes, Matches
  <2>6. SentOnce' /\ Control'
    BY <2>1, <2>4 DEF SentOnce, Control, BeforeRest
  <2>7. ChainIsDead'
    BY <2>1 DEF ChainIsDead, Empty, Dead
  <2>. QED
    BY <2>1, <2>2, <2>5, <2>6, <2>7, ChainStays
\* Verify-before-unwind.
<1>4. ASSUME Verify PROVE IInv'
  <2> USE <1>4
  <2> USE DEF IInv
  <2> DEFINE x == Other(uw.leg)
  <2>1. x \in Legs
    BY DEF Other, Legs
  <2>. HIDE DEF x
  <2>2. PICK o \in (IF leg[x].id = NoId THEN {leg[x]}
                    ELSE GetOrder(leg[x], venue[leg[x].id], Faults(leg[x].id))) :
          /\ leg' = [leg EXCEPT ![x] = o]
          /\ \/ uw' = uw
             \/ o.fill \in 1..(uw.qty - 1) /\ uw' = [uw EXCEPT !.qty = @ - o.fill]
          /\ pc' \in {"done", "unwind"}
          /\ open' \subseteq Incidents /\ paged' \in BOOLEAN
    BY DEF Verify, Raise, alarms, x, EngineOK, Incidents
  <2>3. /\ pc = "verify"
        /\ UNCHANGED <<venue, ord, dbFailed, slot, eff, last, todo, booked>>
    BY DEF Verify, place
  <2>4. VenueOK' /\ VenueGrows /\ VenueWorks
    BY <2>3, VenueRests
  <2>5. leg[x] \in Order /\ Matches(leg[x]) /\ leg[x].id \in Slots \cup {NoId}
    BY <2>1 DEF EngineOK, Believes, Order
  <2>6. o \in Order /\ Matches(o)
    <3>1. CASE leg[x].id = NoId
      BY <2>2, <2>5, <3>1
    <3>2. CASE leg[x].id # NoId
      <4>1. OrderOK(venue[leg[x].id])
        BY <2>5, <3>2, VenueOrders
      <4>2. o \in Order /\ o.id = leg[x].id /\ (o.fill = leg[x].fill \/ o.fill = venue[leg[x].id].fill)
        BY <2>2, <2>5, <3>2, <4>1, ReadIsSound
      <4>. QED
        BY <2>5, <3>2, <4>1, <4>2, VenueOrders DEF Matches
    <3>. QED
      BY <3>1, <3>2
  <2>7. leg' \in [Legs -> Order] /\ \A y \in Legs : leg'[y] = leg[y] \/ leg'[y] = o
    BY <2>1, <2>2, <2>6 DEF EngineOK
  <2>8. /\ uw' \in [leg : Legs, qty : 0..SuggestedQty, rested : 0..SuggestedQty]
        /\ uw'.rested = 0 /\ uw'.rested <= uw'.qty
    <3>1. /\ uw \in [leg : Legs, qty : 0..SuggestedQty, rested : 0..SuggestedQty]
          /\ uw.rested = 0 /\ uw.rested <= uw.qty
      BY <2>3 DEF EngineOK, Control, BeforeRest
    <3>2. o.fill \in 1..(uw.qty - 1) => uw.qty - o.fill \in 0..SuggestedQty
      BY <3>1
    <3>. QED
      BY <2>2, <3>1, <3>2
  <2>9. EngineOK'
    BY <2>2, <2>3, <2>7, <2>8 DEF EngineOK
  <2>10. Believes'
    BY <2>3, <2>6, <2>7 DEF Believes, Matches
  <2>11. SentOnce' /\ Control'
    BY <2>2, <2>3, <2>8 DEF SentOnce, Control, BeforeRest
  <2>12. ChainIsDead'
    BY <2>2, <2>3 DEF ChainIsDead, Empty, Dead
  <2>. QED
    BY <2>3, <2>4, <2>9, <2>10, <2>11, <2>12, ChainStays
<1>. QED
  BY <1>1, <1>2, <1>3, <1>4

-----------------------------------------------------------------------------
(* _smart_unwind.                                                           *)

\* What an unwind step may do to the engine once the unwind is under way: the
\* order it drives is one of REST, the rest of the chain stands still.
UnwindGoesOn ==
    /\ pc \in {"unwind", "rest_reply", "rest_poll", "market", "market_reply"}
    /\ UNCHANGED <<leg, dbFailed, slot, eff, last, todo>>
    /\ ord' \in Order /\ Matches(ord)'
    /\ pc' \in {"rest_reply", "rest_poll", "market", "market_reply", "done"}
    /\ pc' = "rest_poll" => ord'.id = REST
    /\ uw' \in [leg : Legs, qty : 0..SuggestedQty, rested : 0..SuggestedQty]
    /\ uw'.rested <= uw'.qty
    /\ pc' \in {"rest_reply", "rest_poll"} => uw'.rested = 0
    /\ booked' \in [Legs -> 0..SuggestedQty]
    /\ open' \subseteq Incidents /\ paged' \in BOOLEAN
    /\ pc' \in {"rest_reply", "rest_poll"} => venue'[REST].st # "none"
    /\ pc' \in {"rest_reply", "rest_poll", "market"} => venue'[MARKET].st = "none"
    /\ \A s \in PRIMARY..FOK : venue'[s] = venue[s]

LEMMA UnwindIsSafe ==
    ASSUME IInv, VenueOK', VenueGrows, UnwindGoesOn
    PROVE  IInv'
<1> USE DEF IInv
<1>1. EngineOK'
  BY DEF UnwindGoesOn, EngineOK
<1>2. Believes'
  <2>1. last \in Order /\ \A x \in Legs : leg[x] \in Order
    BY DEF EngineOK
  <2>2. Matches(last)' /\ \A x \in Legs : Matches(leg[x])'
    BY <2>1, MatchesStay DEF UnwindGoesOn, Believes, Matches
  <2>. QED
    BY <2>2 DEF UnwindGoesOn, Believes
<1>3. SentOnce'
  <2>1. \A s \in (slot + 1)..FOK : s \in PRIMARY..FOK
    BY DEF EngineOK
  <2>. QED
    BY <2>1 DEF UnwindGoesOn, SentOnce, BeforeRest
<1>4. Control'
  BY DEF UnwindGoesOn, Control, BeforeRest
<1>5. Sized'
  BY SlotFacts DEF UnwindGoesOn, Sized
<1>6. ChainIsDead'
  BY SlotFacts DEF UnwindGoesOn, ChainIsDead, Empty, Dead
<1>. QED
  BY <1>1, <1>2, <1>3, <1>4, <1>5, <1>6

\* The two sells of the unwind.
LEMMA SellingIsSafe ==
    ASSUME IInv, \/ RestSell \/ MarketSell
                 \/ RestReply \/ RestPoll \/ RestCancel
                 \/ MarketReply \/ MarketRaises
    PROVE  IInv'
\* The two sells are sent.
<1>1. ASSUME RestSell \/ MarketSell PROVE IInv'
  <2> USE <1>1
  <2> USE DEF IInv
  <2>1. /\ UNCHANGED <<ord, leg, dbFailed, slot, eff, last, todo, uw, booked, open, paged>>
        /\ \/ pc = "unwind" /\ pc' = "rest_reply" /\ Send(REST, uw.qty)
           \/ pc = "market" /\ pc' = "market_reply" /\ Send(MARKET, uw.qty - uw.rested)
    BY DEF RestSell, MarketSell, place, recovery, alarms
  <2>2. /\ uw \in [leg : Legs, qty : 0..SuggestedQty, rested : 0..SuggestedQty]
        /\ uw.rested <= uw.qty
        /\ pc = "unwind" => uw.rested = 0
        /\ uw.qty \in 0..SuggestedQty /\ uw.qty - uw.rested \in 0..SuggestedQty
    <3>1. /\ uw \in [leg : Legs, qty : 0..SuggestedQty, rested : 0..SuggestedQty]
          /\ uw.rested <= uw.qty
          /\ pc = "unwind" => uw.rested = 0
      BY DEF EngineOK, Control, BeforeRest
    <3>2. uw.qty \in 0..SuggestedQty /\ uw.rested \in 0..SuggestedQty
      BY <3>1
    <3>3. uw.qty - uw.rested \in 0..SuggestedQty
      BY <3>1, <3>2
    <3>. QED
      BY <3>1, <3>2, <3>3
  <2>3. /\ pc = "unwind" => venue[REST].st = "none" /\ venue[MARKET].st = "none"
        /\ pc = "market" => venue[MARKET].st = "none"
    BY DEF SentOnce, BeforeRest
  <2>4. \/ /\ pc = "unwind" /\ pc' = "rest_reply" /\ VenueOK' /\ VenueGrows
           /\ venue'[REST].st = "flying" /\ \A t \in Slots \ {REST} : venue'[t] = venue[t]
        \/ /\ pc = "market" /\ pc' = "market_reply" /\ VenueOK' /\ VenueGrows
           /\ \A t \in Slots \ {MARKET} : venue'[t] = venue[t]
    <3>1. CASE pc = "unwind"
      <4>1. /\ VenueOK' /\ VenueGrows
            /\ venue'[REST] = [st |-> "flying", want |-> uw.qty, fill |-> 0]
            /\ \A t \in Slots \ {REST} : venue'[t] = venue[t]
        BY <2>1, <2>2, <2>3, <3>1, SlotFacts, SendIsSafe
      <4>. QED
        BY <2>1, <3>1, <4>1
    <3>2. CASE pc = "market"
      BY <2>1, <2>2, <2>3, <3>2, SlotFacts, SendIsSafe
    <3>. QED
      BY <2>1, <3>1, <3>2
  <2>5. ord \in Order /\ Matches(ord) /\ booked \in [Legs -> 0..SuggestedQty]
        /\ open \subseteq Incidents /\ paged \in BOOLEAN
    BY DEF EngineOK, Believes
  <2>6. Matches(ord)'
    BY <2>1, <2>4, <2>5, MatchesStay DEF Matches
  <2>7. UnwindGoesOn
    BY <2>1, <2>2, <2>3, <2>4, <2>5, <2>6, SlotFacts DEF UnwindGoesOn
  <2>. QED
    BY <2>4, <2>7, UnwindIsSafe
\* The resting sell: its answer, its polls, its deadline.
<1>2. ASSUME RestReply \/ RestPoll \/ RestCancel PROVE IInv'
  <2> USE <1>2
  <2> USE DEF IInv
  <2>1. /\ uw \in [leg : Legs, qty : 0..SuggestedQty, rested : 0..SuggestedQty]
        /\ uw.rested <= uw.qty /\ uw.rested = 0 /\ uw.qty \in Int
        /\ booked \in [Legs -> 0..SuggestedQty] /\ open \subseteq Incidents /\ paged \in BOOLEAN
    BY DEF RestReply, RestPoll, RestCancel, EngineOK, Control, BeforeRest
  <2>2. /\ venue[REST].st # "none" /\ venue[MARKET].st = "none" /\ OrderOK(venue[REST])
        /\ venue[REST].fill \in 0..SuggestedQty
    <3>1. venue[REST].st # "none" /\ venue[MARKET].st = "none"
      BY DEF RestReply, RestPoll, RestCancel, SentOnce, BeforeRest
    <3>. QED
      BY <3>1, SlotFacts, VenueOrders DEF OrderOK
  <2>3. ord \in Order /\ Matches(ord)
    BY DEF EngineOK, Believes
  <2>4. CASE RestReply
    <3>1. /\ pc = "rest_reply"
          /\ UNCHANGED <<venue, leg, dbFailed, slot, eff, last, todo, uw, paged>>
      BY <2>4 DEF RestReply, place
    <3>2. VenueOK' /\ VenueGrows
      BY <3>1, VenueRests
    <3>3. /\ ord' \in Order /\ Matches(ord)'
          /\ \/ pc' = "market" /\ UNCHANGED <<booked, open>>
             \/ pc' = "rest_poll" /\ ord'.id = REST /\ UNCHANGED <<booked, open>>
             \/ Close(uw.qty)
      <4>1. CASE \E st \in StatusesOf(venue[REST], UnwindFaults) :
                 /\ ord' = [id |-> REST, status |-> st, fill |-> venue[REST].fill, amb |-> FALSE]
                 /\ IF st = "FILLED"
                    THEN Close(uw.qty)
                    ELSE /\ pc' = IF st \in {"FAILED", "CANCELLED"} THEN "market" ELSE "rest_poll"
                         /\ UNCHANGED <<booked, open>>
        <5>1. PICK st \in StatusesOf(venue[REST], UnwindFaults) :
                 /\ ord' = [id |-> REST, status |-> st, fill |-> venue[REST].fill, amb |-> FALSE]
                 /\ IF st = "FILLED"
                    THEN Close(uw.qty)
                    ELSE /\ pc' = IF st \in {"FAILED", "CANCELLED"} THEN "market" ELSE "rest_poll"
                         /\ UNCHANGED <<booked, open>>
          BY <4>1
        <5>2. ord' \in Order /\ ord'.id = REST /\ ord'.fill = venue[REST].fill
          BY <2>2, <5>1, SlotFacts, StatusIsSound DEF Order
        <5>3. Matches(ord)'
          BY <2>2, <3>1, <5>2, SlotFacts DEF Matches
        <5>. QED
          BY <5>1, <5>2, <5>3
      <4>2. CASE pc' = "market" /\ UNCHANGED <<ord, booked, open>>
        BY <2>3, <3>1, <4>2 DEF Matches
      <4>. QED
        BY <2>4, <4>1, <4>2 DEF RestReply
    <3>4. /\ booked' \in [Legs -> 0..SuggestedQty] /\ open' \subseteq Incidents
          /\ pc' \in {"market", "rest_poll", "done"}
          /\ pc' = "rest_poll" => ord'.id = REST
      BY <2>1, <3>3, ReleaseIsSafe
    <3>5. UnwindGoesOn
      BY <2>1, <2>2, <3>1, <3>3, <3>4 DEF UnwindGoesOn
    <3>. QED
      BY <3>2, <3>5, UnwindIsSafe
  <2>5. CASE RestPoll
    <3>1. PICK o \in GetOrder(ord, venue[REST], UnwindFaults) :
            /\ pc = "rest_poll" /\ ord' = o
            /\ \/ Close(uw.qty)
               \/ UNCHANGED <<pc, booked, open>>
            /\ UNCHANGED <<venue, leg, dbFailed, slot, eff, last, todo, uw, paged>>
      BY <2>5 DEF RestPoll, place
    <3>2. VenueOK' /\ VenueGrows
      BY <3>1, VenueRests
    <3>3. ord.id = REST /\ o \in Order /\ o.id = REST /\ (o.fill = ord.fill \/ o.fill = venue[REST].fill)
      BY <2>2, <2>3, <3>1, ReadIsSound DEF Control
    <3>4. Matches(ord)'
      BY <2>2, <2>3, <3>1, <3>3, SlotFacts DEF Matches
    <3>5. /\ booked' \in [Legs -> 0..SuggestedQty] /\ open' \subseteq Incidents
          /\ pc' \in {"rest_poll", "done"}
      BY <2>1, <3>1, ReleaseIsSafe
    <3>6. UnwindGoesOn
      BY <2>1, <2>2, <3>1, <3>3, <3>4, <3>5 DEF UnwindGoesOn
    <3>. QED
      BY <3>2, <3>6, UnwindIsSafe
  <2>6. CASE RestCancel
    <3>1. PICK c \in Cancel(venue[REST], UnwindFaults) :
            /\ pc = "rest_poll"
            /\ venue' = [venue EXCEPT ![REST] = c.v]
            /\ \E o \in GetOrder(ord, c.v, UnwindFaults) :
                 /\ ord' = o
                 /\ IF o.status = "FILLED" \/ o.fill >= uw.qty
                    THEN Close(o.fill) /\ UNCHANGED uw
                    ELSE /\ uw' = [uw EXCEPT !.rested = o.fill]
                         /\ pc' = "market"
                         /\ UNCHANGED <<booked, open>>
            /\ UNCHANGED <<leg, dbFailed, slot, eff, last, todo, paged>>
      BY <2>6 DEF RestCancel, place
    <3>2. VenueOK' /\ VenueGrows
      BY <3>1, SlotFacts, CancelIsSafe
    <3>3. \A t \in Slots \ {REST} : venue'[t] = venue[t]
      BY <3>1 DEF VenueOK
    <3>4. venue'[REST] = c.v /\ c.v.fill = venue[REST].fill
      <4>1. c.v.fill = venue[REST].fill
        BY <2>2, <3>1, SlotFacts DEF Cancel, OrderOK, VenueOK
      <4>. QED
        BY <3>1, <4>1, SlotFacts DEF VenueOK
    <3>5. OrderOK(c.v) /\ c.v.st # "none"
      BY <2>2, <3>2, <3>4, SlotFacts DEF VenueOK, OrderOK, VenueGrows
    <3>6. PICK o \in GetOrder(ord, c.v, UnwindFaults) :
                 /\ ord' = o
                 /\ IF o.status = "FILLED" \/ o.fill >= uw.qty
                    THEN Close(o.fill) /\ UNCHANGED uw
                    ELSE /\ uw' = [uw EXCEPT !.rested = o.fill]
                         /\ pc' = "market"
                         /\ UNCHANGED <<booked, open>>
      BY <3>1
    <3>7. ord.id = REST /\ o \in Order /\ o.id = REST /\ (o.fill = ord.fill \/ o.fill = venue[REST].fill)
      BY <2>3, <3>1, <3>4, <3>5, ReadIsSound DEF Control
    <3>8. Matches(ord)'
      BY <2>2, <2>3, <3>4, <3>5, <3>6, <3>7, SlotFacts DEF Matches
    <3>9. o.fill \in 0..SuggestedQty
      BY <3>7 DEF Order
    <3>10. /\ booked' \in [Legs -> 0..SuggestedQty] /\ open' \subseteq Incidents
           /\ uw' \in [leg : Legs, qty : 0..SuggestedQty, rested : 0..SuggestedQty]
           /\ uw'.rested <= uw'.qty
           /\ pc' \in {"market", "done"}
      <4>1. CASE o.status = "FILLED" \/ o.fill >= uw.qty
        BY <2>1, <3>6, <3>9, <4>1, ReleaseIsSafe
      <4>2. CASE ~(o.status = "FILLED" \/ o.fill >= uw.qty)
        BY <2>1, <3>6, <3>9, <4>2
      <4>. QED
        BY <4>1, <4>2
    <3>11. UnwindGoesOn
      BY <2>1, <2>2, <3>1, <3>3, <3>4, <3>6, <3>7, <3>8, <3>10, SlotFacts DEF UnwindGoesOn
    <3>. QED
      BY <3>2, <3>11, UnwindIsSafe
  <2>. QED
    BY <2>4, <2>5, <2>6
\* The market sell: its answer, or its exception.
<1>3. ASSUME MarketReply \/ MarketRaises PROVE IInv'
  <2> USE <1>3
  <2> USE DEF IInv
  <2>1. /\ pc = "market_reply" /\ pc' = "done"
        /\ UNCHANGED <<venue, ord, leg, dbFailed, slot, eff, last, todo, uw>>
    BY DEF MarketReply, MarketRaises, Close, place
  <2>2. VenueOK' /\ VenueGrows
    BY <2>1, VenueRests
  <2>3. /\ uw \in [leg : Legs, qty : 0..SuggestedQty, rested : 0..SuggestedQty]
        /\ uw.rested <= uw.qty /\ uw.leg \in Legs /\ uw.qty \in 0..SuggestedQty /\ uw.rested \in Int
        /\ booked \in [Legs -> 0..SuggestedQty] /\ open \subseteq Incidents /\ paged \in BOOLEAN
        /\ ord \in Order /\ Matches(ord)
    BY DEF EngineOK, Control, Believes
  <2>4. venue[MARKET].fill \in Int
    BY SlotFacts, VenueOrders
  <2>5. booked' \in [Legs -> 0..SuggestedQty] /\ open' \subseteq Incidents /\ paged' \in BOOLEAN
    <3>1. CASE MarketReply
      <4>1. (\E n \in Int : Close(n)) /\ UNCHANGED paged
        BY <2>3, <2>4, <3>1 DEF MarketReply
      <4>. QED
        BY <2>3, <4>1, ReleaseIsSafe
    <3>2. CASE MarketRaises
      <4>1. Release(uw.leg, uw.qty) /\ uw.qty \in Int /\ uw.qty >= 0
        BY <2>3, <3>2 DEF MarketRaises
      <4>2. booked' \in [Legs -> 0..SuggestedQty]
        BY <2>3, <4>1, ReleaseIsSafe
      <4>. QED
        BY <2>3, <3>2, <4>2 DEF MarketRaises, Raise, Incidents
    <3>. QED
      BY <3>1, <3>2
  <2>6. Matches(ord)'
    BY <2>1, <2>3 DEF Matches
  <2>7. UnwindGoesOn
    BY <2>1, <2>3, <2>5, <2>6 DEF UnwindGoesOn
  <2>. QED
    BY <2>2, <2>7, UnwindIsSafe
<1>. QED
  BY <1>1, <1>2, <1>3

-----------------------------------------------------------------------------
(* The theorems.                                                            *)

\* The invariant holds for ever; with it every quantity of an execution stays
\* within the suggested one, whatever the adapters answer: no fill, unwind or
\* reservation over- or underflows.
THEOREM InvariantHolds == Spec => [](TypeOK /\ IInv)
<1>1. Init => IInv
  <2> SUFFICES ASSUME Init PROVE IInv
    OBVIOUS
  <2>1. VenueOK
    BY DEF Init, VenueOK
  <2>2. /\ NoOrder \in Order /\ NoOrder.id = NoId /\ NoOrder.fill = 0 /\ NoOrder.status \notin Surviving
        /\ Placeholder("ABORTED") \in Order /\ Placeholder("ABORTED").id = NoId
        /\ Placeholder("ABORTED").fill = 0 /\ Placeholder("ABORTED").status \notin Surviving
    BY PlaceholderIsOrder DEF NoOrder, Status, Surviving
  <2>3. EngineOK
    <3>1. /\ uw \in [leg : Legs, qty : 0..SuggestedQty, rested : 0..SuggestedQty]
          /\ leg \in [Legs -> Order] /\ booked \in [Legs -> 0..SuggestedQty]
      BY <2>2 DEF Init, Legs
    <3>2. /\ pc = "start" /\ slot = PRIMARY /\ eff = 0 /\ ord = NoOrder /\ last = NoOrder
          /\ dbFailed = FALSE /\ todo = {} /\ open = {} /\ paged = FALSE
      BY DEF Init
    <3>3. 0 \in PRIMARY..FOK /\ 0 \in 0..SuggestedQty
      OBVIOUS
    <3>4. ord \in Order /\ last \in Order
      BY <2>2, <3>2
    <3>5. slot \in PRIMARY..FOK /\ eff \in 0..SuggestedQty
      BY <3>2, <3>3
    <3>6. dbFailed \in BOOLEAN /\ paged \in BOOLEAN /\ todo \subseteq Legs /\ open \subseteq Incidents
      BY <3>2
    <3>. QED
      BY <3>1, <3>2, <3>4, <3>5, <3>6 DEF EngineOK
  <2>4. Believes
    BY <2>2 DEF Init, Believes, Matches
  <2>5. \A s \in Slots : venue[s].st = "none" /\ venue[s].want = 0 /\ venue[s].fill = 0
    BY DEF Init
  <2>6. SentOnce
    BY <2>5 DEF Init, SentOnce
  <2>7. Control
    BY DEF Init, Control
  <2>8. Sized
    BY <2>5, SlotFacts DEF Init, Sized
  <2>9. ChainIsDead
    BY <2>5, SlotFacts DEF Init, ChainIsDead, Empty, Dead
  <2>. QED
    BY <2>1, <2>3, <2>4, <2>6, <2>7, <2>8, <2>9 DEF IInv
<1>2. IInv /\ [Next]_vars => IInv'
  <2> SUFFICES ASSUME IInv, [Next]_vars PROVE IInv'
    OBVIOUS
  <2>1. CASE Place \/ PlaceBlocked
    BY <2>1, PlaceIsSafe
  <2>2. CASE Reply \/ ReplyFailsLate \/ ReplyTimesOut \/ ReplyRaises
    BY <2>2, ReplyIsSafe
  <2>3. CASE Poll \/ PollTimesOut
    BY <2>3, PollIsSafe
  <2>4. CASE PreTrade \/ PrimaryReturned \/ AttemptReturned \/ Requote \/ RequotesExhausted \/ FokReturned
    BY <2>4, ChainIsSafe
  <2>5. CASE Decide \/ Recover
    BY <2>5, SettlingIsSafe
  <2>6. CASE \E x \in Legs : CancelLeg(x)
    BY <2>6, SettlingIsSafe
  <2>7. CASE ChooseUnwind
    BY <2>7, SettlingIsSafe
  <2>8. CASE Verify
    BY <2>8, SettlingIsSafe
  <2>9. CASE RestSell \/ MarketSell
    BY <2>9, SellingIsSafe
  <2>10. CASE RestReply \/ RestPoll \/ RestCancel
    BY <2>10, SellingIsSafe
  <2>11. CASE MarketReply \/ MarketRaises
    BY <2>11, SellingIsSafe
  <2>12. CASE Venue
    BY <2>12, VenueIsSafe
  <2>13. CASE DbFlips \/ UNCHANGED vars
    <3>1. /\ UNCHANGED <<venue, pc, ord, leg, slot, eff, last, todo, uw, booked, open, paged>>
          /\ dbFailed' \in BOOLEAN
      BY <2>13 DEF DbFlips, vars, place, recovery, alarms, IInv, EngineOK
    <3>2. VenueOK' /\ VenueGrows /\ VenueWorks
      BY <3>1, VenueRests DEF IInv
    <3>. QED
      BY <3>1, <3>2, EngineRests
  <2>. QED
    BY <2>1, <2>2, <2>3, <2>4, <2>5, <2>6, <2>7, <2>8, <2>9, <2>10, <2>11, <2>12, <2>13
       DEF Next, Engine
<1>3. IInv => TypeOK
  BY DEF IInv, VenueOK, EngineOK, TypeOK
<1>. QED
  BY <1>1, <1>2, <1>3, PTL DEF Spec

\* A working order is short of its quantity.
Whole(s) == venue[s].st \in {"flying", "live"} => venue[s].fill < venue[s].want

\* Between the sends of the engine only orders at work change, and only the venues
\* fill them.
LEMMA VenueMoves ==
    ASSUME IInv, [Next]_vars, ~Place, ~RestSell, ~MarketSell
    PROVE  /\ VenueWorks
           /\ \A s \in Slots : Whole(s) => Whole(s)'
           /\ Venue \/ \A s \in Slots : venue'[s].fill = venue[s].fill
<1>1. VenueOK /\ \A t \in Slots : OrderOK(venue[t]) /\ venue[t].fill \in Int /\ venue[t].want \in Int
  BY VenueOrders DEF IInv
<1>2. ASSUME UNCHANGED venue
      PROVE  /\ VenueWorks /\ \A s \in Slots : Whole(s) => Whole(s)'
             /\ \A s \in Slots : venue'[s].fill = venue[s].fill
  BY <1>1, <1>2, VenueRests DEF Whole
<1>3. ASSUME NEW s \in Slots, NEW faults, NEW c \in Cancel(venue[s], faults),
             venue' = [venue EXCEPT ![s] = c.v]
      PROVE  /\ VenueWorks /\ \A t \in Slots : Whole(t) => Whole(t)'
             /\ \A t \in Slots : venue'[t].fill = venue[t].fill
  <2>1. /\ VenueWorks /\ venue'[s] = c.v /\ c.v.fill = venue[s].fill
        /\ c.v = venue[s] \/ c.v.st = "ended"
        /\ \A t \in Slots \ {s} : venue'[t] = venue[t]
    <3>1. VenueWorks
      BY <1>1, <1>3, CancelIsSafe
    <3>2. c.v = venue[s] \/ c.v = [venue[s] EXCEPT !.st = "ended"]
      BY <1>3 DEF Cancel
    <3>3. QED BY <1>1, <1>3, <3>1, <3>2 DEF VenueOK, OrderOK
  <2>2. QED BY <2>1 DEF Whole
<1>4. ASSUME NEW s \in Slots, Accept(s) \/ Refuse(s) \/ Fill(s) \/ Expire(s)
      PROVE  VenueWorks /\ \A t \in Slots : Whole(t) => Whole(t)'
  <2>1. ASSUME NEW v, venue' = [venue EXCEPT ![s] = v], v.want = venue[s].want,
               venue[s].st \in {"flying", "live"}, v.st \in {"live", "ended", "refused"},
               v.fill \in Int, venue[s].fill <= v.fill,
               v.st = "live" => v.fill = venue[s].fill \/ v.fill < v.want
        PROVE  VenueWorks /\ \A t \in Slots : Whole(t) => Whole(t)'
    <3>1. venue'[s] = v /\ \A t \in Slots \ {s} : venue'[t] = venue[t]
      BY <1>1, <2>1 DEF VenueOK
    <3>2. VenueWorks
      BY <1>1, <2>1, <3>1 DEF VenueWorks, Dead
    <3>3. QED BY <1>1, <2>1, <3>1, <3>2 DEF Whole
  <2>2. CASE Accept(s)
    <3> DEFINE v == [venue[s] EXCEPT !.st = "live"]
    <3>1. venue' = [venue EXCEPT ![s] = v] /\ venue[s].st \in {"flying", "live"}
      BY <2>2 DEF Accept
    <3>2. v.st = "live" /\ v.fill = venue[s].fill /\ v.want = venue[s].want
      BY <1>1 DEF OrderOK
    <3> HIDE DEF v
    <3>3. /\ v.st \in {"live", "ended", "refused"} /\ v.fill \in Int /\ venue[s].fill <= v.fill
          /\ v.st = "live" => v.fill = venue[s].fill \/ v.fill < v.want
      BY <1>1, <3>2
    <3>4. QED BY <2>1, <3>1, <3>2, <3>3
  <2>3. CASE Refuse(s)
    <3> DEFINE v == [venue[s] EXCEPT !.st = "refused"]
    <3>1. venue' = [venue EXCEPT ![s] = v] /\ venue[s].st \in {"flying", "live"}
      BY <2>3 DEF Refuse
    <3>2. v.st = "refused" /\ v.fill = venue[s].fill /\ v.want = venue[s].want
      BY <1>1 DEF OrderOK
    <3> HIDE DEF v
    <3>3. /\ v.st \in {"live", "ended", "refused"} /\ v.fill \in Int /\ venue[s].fill <= v.fill
          /\ v.st = "live" => v.fill = venue[s].fill \/ v.fill < v.want
      BY <1>1, <3>2
    <3>4. QED BY <2>1, <3>1, <3>2, <3>3
  <2>4. CASE Expire(s)
    <3> DEFINE v == [venue[s] EXCEPT !.st = "ended"]
    <3>1. venue' = [venue EXCEPT ![s] = v] /\ venue[s].st \in {"flying", "live"}
      BY <2>4 DEF Expire
    <3>2. v.st = "ended" /\ v.fill = venue[s].fill /\ v.want = venue[s].want
      BY <1>1 DEF OrderOK
    <3> HIDE DEF v
    <3>3. /\ v.st \in {"live", "ended", "refused"} /\ v.fill \in Int /\ venue[s].fill <= v.fill
          /\ v.st = "live" => v.fill = venue[s].fill \/ v.fill < v.want
      BY <1>1, <3>2
    <3>4. QED BY <2>1, <3>1, <3>2, <3>3
  <2>5. CASE Fill(s)
    <3>1. PICK k \in 1..(venue[s].want - venue[s].fill) :
            venue' = [venue EXCEPT ![s] =
                        [@ EXCEPT !.fill = venue[s].fill + k,
                                  !.st = IF venue[s].fill + k = venue[s].want THEN "ended" ELSE "live"]]
      BY <2>5 DEF Fill
    <3> DEFINE v == [venue[s] EXCEPT !.fill = venue[s].fill + k,
                       !.st = IF venue[s].fill + k = venue[s].want THEN "ended" ELSE "live"]
    <3>2. venue[s].st = "live"
      BY <2>5 DEF Fill
    <3>3. /\ v.want = venue[s].want /\ v.fill = venue[s].fill + k
          /\ v.st = IF venue[s].fill + k = venue[s].want THEN "ended" ELSE "live"
      BY <1>1 DEF OrderOK
    <3>4. venue' = [venue EXCEPT ![s] = v]
      BY <3>1
    <3> HIDE DEF v
    <3>5. v.fill \in Int /\ venue[s].fill <= v.fill /\ (v.st = "live" => v.fill < v.want)
      BY <1>1, <3>1, <3>3
    <3>6. v.st \in {"live", "ended", "refused"}
      BY <3>3
    <3>7. QED BY <2>1, <3>2, <3>3, <3>4, <3>5, <3>6
  <2>6. QED BY <1>4, <2>2, <2>3, <2>4, <2>5
<1>5. CASE \/ PlaceBlocked \/ Reply \/ ReplyFailsLate \/ ReplyRaises \/ Poll
  BY <1>2, <1>5 DEF PlaceBlocked, Reply, ReplyFailsLate, ReplyRaises, Poll
<1>6. CASE \/ PreTrade \/ PrimaryReturned \/ AttemptReturned \/ Requote \/ RequotesExhausted \/ FokReturned
  BY <1>2, <1>6 DEF PreTrade, PrimaryReturned, AttemptReturned, Requote, RequotesExhausted, FokReturned
<1>7. CASE \/ Decide \/ Recover \/ ChooseUnwind \/ Verify \/ RestReply \/ RestPoll \/ MarketReply
           \/ MarketRaises \/ DbFlips \/ UNCHANGED vars
  BY <1>2, <1>7 DEF Decide, Recover, ChooseUnwind, Verify, RestReply, RestPoll, MarketReply,
              MarketRaises, DbFlips, vars
<1>8. CASE ReplyTimesOut \/ PollTimesOut
  <2>1. slot \in Slots
    BY SlotFacts DEF IInv, EngineOK
  <2>2. QED BY <1>2, <1>3, <1>8, <2>1 DEF ReplyTimesOut, PollTimesOut
<1>9. CASE RestCancel
  BY <1>3, <1>9, SlotFacts DEF RestCancel
<1>10. CASE \E x \in Legs : CancelLeg(x)
  <2>1. PICK x \in Legs : CancelLeg(x)
    BY <1>10
  <2>2. leg[x].id \in Slots
    <3>1. leg[x] \in Order /\ leg[x].status \in {"SUBMITTED", "PARTIAL"} /\ Matches(leg[x])
      BY <2>1 DEF IInv, EngineOK, Control, CancelLeg, Believes
    <3>2. QED BY <3>1 DEF Matches, Surviving, Order
  <2>3. QED BY <1>3, <2>1, <2>2 DEF CancelLeg
<1>11. CASE Venue
  BY <1>4, <1>11 DEF Venue
<1>12. QED
  BY <1>5, <1>6, <1>7, <1>8, <1>9, <1>10, <1>11 DEF Next, Engine

\* Over all the attempts of _execute_with_fallbacks, their late fills included,
\* at most one fills and never beyond the primary, and the chain sends an order
\* only when every earlier attempt is dead and empty at its venue, when no adapter
\* reports a secondary dead or empty that is not.
THEOREM HedgesOnce ==
    ASSUME SecondaryIsHonest
    PROVE  Spec => []HedgeOnce /\ SubmitOnlyAfterDead
<1>1. IInv => HedgeOnce
  <2> SUFFICES ASSUME IInv PROVE HedgeOnce
    OBVIOUS
  <2>1. \A s, t \in Secondaries : s # t => venue[s].fill = 0 \/ venue[t].fill = 0
    BY DEF IInv, ChainIsDead, Empty
  <2>2. \A s \in Secondaries : /\ venue[s].fill \in Int /\ venue[s].want \in Int
                               /\ venue[s].fill <= venue[s].want
    BY SlotFacts, VenueOrders DEF IInv
  <2>3. venue[PRIMARY].fill \in Int
    BY SlotFacts, VenueOrders DEF IInv
  <2>4. \A s \in Secondaries : venue[s].fill <= venue[PRIMARY].fill
    BY <2>2, <2>3 DEF IInv, Sized
  <2>. QED
    BY <2>1, <2>4 DEF HedgeOnce, Bought
<1>2. IInv /\ [Next]_vars =>
        [\A t \in Secondaries : venue[t].st = "none" /\ venue'[t].st # "none"
           => \A s \in Secondaries : Dead(s) /\ venue[s].fill = 0]_vars
  <2> SUFFICES ASSUME IInv, Next,
                      NEW t \in Secondaries, venue[t].st = "none", venue'[t].st # "none"
               PROVE  \A s \in Secondaries : Dead(s) /\ venue[s].fill = 0
    OBVIOUS
  <2>1. t = slot /\ pc = "place"
    <3>1. t \in Slots /\ VenueOK
      BY DEF IInv
    <3>2. ~VenueWorks
      BY <3>1 DEF VenueWorks
    <3>3. ~(RestSell \/ MarketSell)
      BY <3>1, SlotFacts DEF RestSell, MarketSell, Send, VenueOK
    <3>4. Place
      BY <3>2, <3>3, VenueMoves
    <3>. QED
      BY <3>1, <3>4 DEF Place, Send, VenueOK
  <2>2. \A s \in Secondaries \ {slot} : Dead(s) /\ venue[s].fill = 0
    BY DEF IInv, ChainIsDead, Empty
  <2>3. Dead(slot) /\ venue[slot].fill = 0
    BY <2>1, SlotFacts DEF IInv, VenueOK, Dead
  <2>. QED
    BY <2>2, <2>3
<1>. QED
  BY <1>1, <1>2, InvariantHolds, PTL DEF Spec, SubmitOnlyAfterDead

-----------------------------------------------------------------------------
(* What the engine knows of the primary, and the alarm.                      *)

\* No answer about a primary that filled calls it failed or cancelled.
PrimaryIsFrank == PrimaryFaults \cap {"poll_failed", "ended_as_cancelled"} = {}

\* What the engine may conclude from an order of slot s, v being the venue's: one
\* with fills survives, one that is FILLED is over and whole, one that is SUBMITTED
\* is short.
Told(o, s, v) ==
    /\ o.status # "PENDING"
    /\ o.fill > 0 => o.status \in Surviving
    /\ o.status = "FILLED" => /\ o.id = s /\ v.st \in {"ended", "refused"}
                              /\ o.fill = v.fill /\ o.fill = v.want
    /\ o.status = "SUBMITTED" => o.id = s /\ o.fill < v.want

InChain == {"place", "reply", "poll", "returned", "requote", "decide"}
Rescuing == {"cancel", "verify", "unwind", "rest_reply", "rest_poll", "market", "market_reply"}

\* Every order of the chain asks for something, and while it works it is short.
WholeOrders ==
    /\ pc = "place" => eff > 0
    /\ \A s \in PRIMARY..FOK : Whole(s)

\* What is hedged is what the engine knows of the primary.
HedgesKnown ==
    pc \in InChain =>
      /\ slot \in Secondaries => eff = leg["p"].fill /\ eff > 0
      /\ \A t \in Secondaries : venue[t].st # "none" => venue[t].want = leg["p"].fill

ChainTells ==
    /\ pc \in {"poll", "returned"} => Told(ord, slot, venue[slot])
    /\ (pc \in InChain /\ slot \in Secondaries) \/ pc = "decide"
         => Told(leg["p"], PRIMARY, venue[PRIMARY])
    /\ last.status # "FILLED" /\ (last = NoOrder \/ last.status # "PENDING")
    /\ slot = FOK => last.status # "PENDING"
    /\ pc = "decide" => /\ leg["s"].status # "PENDING"
                        /\ leg["s"].status = "FILLED" =>
                             /\ slot \in Secondaries /\ Dead(slot)
                             /\ venue[slot].fill = leg["p"].fill

\* The pair ended without a word: what was bought is hedged, nothing was sold.
Balanced ==
    /\ Dead(PRIMARY) /\ slot \in Secondaries /\ Dead(slot) /\ venue[slot].fill = Bought
    /\ venue[REST].st = "none" /\ venue[MARKET].st = "none"

Alarmed ==
    /\ pc = "start" => leg["p"].fill = 0
    /\ pc \in Rescuing => paged
    /\ pc = "done" => paged \/ leg["p"].fill = 0 \/ Balanced

NInv == WholeOrders /\ HedgesKnown /\ ChainTells /\ Alarmed

\* Every step keeps what an alarm rests on.
LEMMA AlarmIsKept ==
    ASSUME SecondaryIsHonest, PrimaryIsFrank, IInv, IInv', NInv, [Next]_vars
    PROVE  NInv'
<1>1. /\ \A s \in Slots : OrderOK(venue[s]) /\ venue[s].fill \in Int /\ venue[s].want \in Int
                          /\ 0 <= venue[s].fill /\ venue[s].fill <= venue[s].want
      /\ VenueOK /\ VenueOK'
  BY VenueOrders DEF IInv
<1>2. /\ slot \in PRIMARY..FOK /\ slot \in Slots /\ slot # NoId /\ eff \in Int
      /\ ord \in Order /\ last \in Order /\ leg \in [Legs -> Order] /\ paged \in BOOLEAN
  BY SlotFacts DEF IInv, EngineOK
<1>3. /\ "p" \in Legs /\ "s" \in Legs /\ leg["p"].fill \in Int /\ leg["s"].fill \in Int
      /\ ord.fill \in Int /\ last.fill \in Int /\ PRIMARY \in PRIMARY..FOK /\ PRIMARY \in Slots
  BY <1>2 DEF Legs, Order
<1>4. \A s \in PRIMARY..FOK : Faults(s) \cap {"poll_failed", "ended_as_cancelled"} = {}
  BY DEF Faults, SecondaryIsHonest, PrimaryIsFrank
\* A status tells what the engine may conclude from it.
<1>5. ASSUME NEW s, NEW v, OrderOK(v), v.st \in {"live", "ended", "refused"},
             v.st = "live" => v.fill < v.want,
             NEW faults, faults \cap {"poll_failed", "ended_as_cancelled"} = {},
             NEW st \in StatusesOf(v, faults),
             NEW o, o.id = s, o.status = st, o.fill = v.fill
      PROVE  Told(o, s, v)
  <2>1. v.fill \in Int /\ v.want \in Int /\ 0 <= v.fill /\ v.fill <= v.want
    BY <1>5, VenueOrders
  <2>2. v.st = "refused" => v.fill = 0
    BY <1>5 DEF OrderOK
  <2>3. QED BY <1>5, <2>1, <2>2 DEF StatusesOf, Told, Surviving
\* So does a read of it.
<1>6. ASSUME NEW s \in Slots, NEW o \in Order, o.id = s, NEW v, OrderOK(v),
             v.st \in {"live", "ended", "refused"}, v.st = "live" => v.fill < v.want,
             NEW faults, faults \cap {"poll_failed", "ended_as_cancelled"} = {},
             Told(o, s, v), NEW r \in GetOrder(o, v, faults)
      PROVE  Told(r, s, v)
  <2>1. CASE \E st \in StatusesOf(v, faults) : r = [o EXCEPT !.status = st, !.fill = v.fill]
    <3>1. PICK st \in StatusesOf(v, faults) : r = [o EXCEPT !.status = st, !.fill = v.fill]
      BY <2>1
    <3>2. r.id = s /\ r.status = st /\ r.fill = v.fill
      BY <1>6, <3>1 DEF Order
    <3>3. QED BY <1>5, <1>6, <3>2
  <2>2. CASE r = [o EXCEPT !.amb = TRUE]
    <3>1. r.id = o.id /\ r.status = o.status /\ r.fill = o.fill
      BY <1>6, <2>2 DEF Order
    <3>2. QED BY <1>6, <3>1 DEF Told
  <2>3. QED BY <1>6, <2>1, <2>2 DEF GetOrder
\* What it told stays true while only orders at work change.
<1>7. ASSUME VenueWorks, NEW s \in PRIMARY..FOK, NEW o, Told(o, s, venue[s])
      PROVE  Told(o, s, venue'[s])
  <2>1. s \in Slots
    BY <1>7, SlotFacts
  <2>2. venue'[s].want = venue[s].want /\ (venue[s].st \in {"ended", "refused"} => venue'[s] = venue[s])
    BY <1>7, <2>1 DEF VenueWorks, Dead
  <2>3. QED BY <1>7, <2>2 DEF Told
<1>8. ~Place /\ ~RestSell /\ ~MarketSell
        => /\ VenueWorks /\ \A s \in PRIMARY..FOK : Whole(s)'
           /\ \A t \in Slots : venue'[t].want = venue[t].want /\ (venue'[t].st = "none" <=> venue[t].st = "none")
  <2>1. PRIMARY..FOK \subseteq Slots
    OBVIOUS
  <2>2. QED BY <2>1, VenueMoves DEF NInv, WholeOrders, VenueWorks
\* Steps of the venues and of others.
<1>9. ASSUME VenueWorks, \A s \in PRIMARY..FOK : Whole(s)',
             UNCHANGED <<pc, slot, eff, ord, last, leg, paged>>
      PROVE  NInv'
  <2>1. WholeOrders' /\ HedgesKnown'
    BY <1>9, SlotFacts DEF NInv, WholeOrders, HedgesKnown, VenueWorks
  <2>2. ChainTells'
    <3>1. pc \in {"poll", "returned"} => Told(ord, slot, venue'[slot])
      BY <1>2, <1>7, <1>9 DEF NInv, ChainTells
    <3>2. (pc \in InChain /\ slot \in Secondaries) \/ pc = "decide"
            => Told(leg["p"], PRIMARY, venue'[PRIMARY])
      BY <1>3, <1>7, <1>9 DEF NInv, ChainTells
    <3>3. Dead(slot) => Dead(slot)' /\ venue'[slot] = venue[slot]
      BY <1>2, <1>9 DEF VenueWorks, Dead
    <3>4. QED BY <1>9, <3>1, <3>2, <3>3 DEF NInv, ChainTells
  <2>3. Alarmed'
    <3>1. Balanced => Balanced'
      BY <1>2, <1>3, <1>9, SlotFacts DEF Balanced, VenueWorks, Dead, Bought
    <3>2. QED BY <1>9, <3>1 DEF NInv, Alarmed
  <2>4. QED BY <2>1, <2>2, <2>3 DEF NInv
\* Steps of the recovery.
<1>10. ASSUME \A s \in PRIMARY..FOK : Whole(s)', pc' \in Rescuing \cup {"done"}, paged' = TRUE,
              UNCHANGED <<slot, last>>
       PROVE  NInv'
  BY <1>10 DEF NInv, WholeOrders, HedgesKnown, ChainTells, Alarmed, InChain, Rescuing
\* An attempt goes on, or returns.
<1>11. ASSUME pc \in {"place", "reply", "poll"}, VenueWorks, \A s \in PRIMARY..FOK : Whole(s)',
              NEW o, Told(o, slot, venue'[slot]), ord' = o, pc' \in {"poll", "returned"},
              UNCHANGED <<leg, slot, eff, last, paged>>
       PROVE  NInv'
  <2>1. WholeOrders' /\ HedgesKnown' /\ Alarmed'
    BY <1>11, SlotFacts DEF NInv, WholeOrders, HedgesKnown, Alarmed, VenueWorks, InChain, Rescuing
  <2>2. ChainTells'
    <3>1. slot \in Secondaries => Told(leg["p"], PRIMARY, venue'[PRIMARY])
      BY <1>3, <1>7, <1>11 DEF NInv, ChainTells, InChain
    <3>2. QED BY <1>11, <3>1 DEF NInv, ChainTells
  <2>3. QED BY <2>1, <2>2 DEF NInv
<1>12. CASE Place
  <2>1. /\ pc = "place" /\ Send(slot, eff) /\ pc' = "reply"
        /\ UNCHANGED <<ord, leg, slot, eff, last, paged>>
    BY <1>12 DEF Place, place, alarms
  <2>2. /\ venue'[slot] = [st |-> "flying", want |-> eff, fill |-> 0]
        /\ \A t \in Slots \ {slot} : venue'[t] = venue[t]
    BY <1>1, <1>2, <2>1 DEF Send, VenueOK
  <2>3. WholeOrders'
    BY <1>2, <2>1, <2>2 DEF NInv, WholeOrders, Whole
  <2>4. HedgesKnown' /\ Alarmed'
    BY <2>1, <2>2, SlotFacts DEF NInv, HedgesKnown, InChain, Alarmed, Rescuing
  <2>6. slot \in Secondaries => venue'[PRIMARY] = venue[PRIMARY]
    BY <1>3, <2>2, SlotFacts
  <2>7. ChainTells'
    BY <2>1, <2>6 DEF NInv, ChainTells, InChain
  <2>8. QED BY <2>3, <2>4, <2>7 DEF NInv
<1>13. CASE PlaceBlocked
  <2>1. /\ pc = "place" /\ ord' = Placeholder("ABORTED") /\ pc' = "returned"
        /\ UNCHANGED <<leg, slot, eff, last, paged>>
    BY <1>13 DEF PlaceBlocked, place, alarms
  <2>2. ~Place /\ ~RestSell /\ ~MarketSell
    BY <1>13, <2>1 DEF Place, PlaceBlocked, RestSell, MarketSell
  <2>3. Told(Placeholder("ABORTED"), slot, venue'[slot])
    BY DEF Told, Placeholder
  <2>4. QED BY <1>8, <1>11, <2>1, <2>2, <2>3
<1>14. CASE Reply
  <2>1. PICK st \in StatusesOf(venue[slot], Faults(slot)) :
          /\ pc = "reply" /\ Answered(slot)
          /\ ord' = [id |-> slot, status |-> st, fill |-> venue[slot].fill, amb |-> FALSE]
          /\ pc' \in {"poll", "returned"}
          /\ UNCHANGED <<venue, leg, slot, eff, last, paged>>
    BY <1>14 DEF Reply, place, recovery, alarms, Return
  <2>2. VenueWorks /\ \A s \in PRIMARY..FOK : Whole(s)'
    BY <1>8, <2>1 DEF Place, RestSell, MarketSell
  <2>3. venue[slot].st \in {"live", "ended", "refused"} /\ Whole(slot)
    BY <1>2, <2>1 DEF Answered, NInv, WholeOrders
  <2>4. Told(ord', slot, venue[slot])
    BY <1>1, <1>2, <1>4, <1>5, <2>1, <2>3 DEF Whole
  <2>6. QED BY <1>11, <2>1, <2>2, <2>4
<1>15. CASE ReplyFailsLate \/ ReplyTimesOut
  <2>1. /\ pc = "reply" /\ pc' = "returned" /\ UNCHANGED <<leg, slot, eff, last, paged>>
        /\ ord'.status \in {"FAILED", "CANCELLED"} /\ ord'.fill = 0
    <3>1. \A status \in {"FAILED", "CANCELLED"} :
            /\ Placeholder(status).fill = 0 /\ Placeholder(status).status = status
            /\ [Placeholder(status) EXCEPT !.amb = TRUE].fill = 0
            /\ [Placeholder(status) EXCEPT !.amb = TRUE].status = status
      BY PlaceholderIsOrder DEF Status
    <3>2. /\ pc = "reply" /\ UNCHANGED <<leg, slot, eff, last, paged>>
          /\ \E status \in {"FAILED", "CANCELLED"} :
               \/ Return(Placeholder(status))
               \/ Return([Placeholder(status) EXCEPT !.amb = TRUE])
      BY <1>15 DEF ReplyFailsLate, ReplyTimesOut, place, recovery, alarms
    <3>3. QED BY <3>1, <3>2 DEF Return
  <2>2. VenueWorks /\ \A s \in PRIMARY..FOK : Whole(s)'
    BY <1>8, <2>1 DEF Place, RestSell, MarketSell
  <2>3. Told(ord', slot, venue'[slot])
    BY <2>1 DEF Told
  <2>4. QED BY <1>11, <2>1, <2>2, <2>3
<1>16. CASE ReplyRaises
  <2>1. /\ pc = "reply" /\ UNCHANGED <<venue, slot, eff, ord, last>>
        /\ \/ slot = PRIMARY /\ pc' = "raised" /\ UNCHANGED <<leg, paged>>
           \/ /\ slot # PRIMARY /\ leg' = [leg EXCEPT !["s"] = Placeholder("ABORTED")]
              /\ paged' = TRUE /\ pc' = "decide"
    BY <1>16 DEF ReplyRaises, SecondaryRaised, Raise, place, recovery, alarms
  <2>2. leg'["p"] = leg["p"] /\ (pc' = "decide" => leg'["s"].status = "ABORTED" /\ slot \in Secondaries)
    BY <1>2, <1>3, <2>1 DEF Placeholder
  <2>3. WholeOrders' /\ Alarmed'
    BY <2>1 DEF NInv, WholeOrders, Whole, Alarmed, Rescuing
  <2>4. HedgesKnown' /\ ChainTells'
    BY <2>1, <2>2 DEF NInv, HedgesKnown, ChainTells, InChain
  <2>6. QED BY <2>3, <2>4 DEF NInv
<1>17. CASE Poll \/ PollTimesOut
  <2>1. /\ pc = "poll" /\ UNCHANGED <<leg, slot, eff, last, paged>>
    BY <1>17 DEF Poll, PollTimesOut, place, recovery, alarms
  <2>2. VenueWorks /\ \A s \in PRIMARY..FOK : Whole(s)'
    BY <1>8, <2>1 DEF Place, RestSell, MarketSell
  <2>3. /\ venue'[slot].st \in {"live", "ended", "refused"} /\ OrderOK(venue'[slot])
        /\ venue'[slot].st = "live" => venue'[slot].fill < venue'[slot].want
        /\ ord.id = slot /\ Told(ord, slot, venue'[slot])
    <3>1. venue[slot].st \notin {"none", "flying"}
      BY <2>1 DEF IInv, SentOnce
    <3>2. venue'[slot].st \notin {"none", "flying"} /\ OrderOK(venue'[slot])
      BY <1>1, <1>2, <2>2, <3>1 DEF VenueWorks, VenueOK, OrderOK
    <3>3. Told(ord, slot, venue[slot]) /\ ord.id = slot
      BY <2>1 DEF NInv, ChainTells, IInv, Control
    <3>4. Told(ord, slot, venue'[slot])
      BY <1>2, <1>7, <2>2, <3>3
    <3>5. QED BY <1>2, <2>2, <3>2, <3>3, <3>4 DEF Whole, OrderOK
  <2>4. \E r : Told(r, slot, venue'[slot]) /\ ord' = r /\ pc' \in {"poll", "returned"}
    <3>1. CASE Poll
      <4>1. PICK r \in GetOrder(ord, venue[slot], Faults(slot)) : ord' = r /\ pc' \in {"poll", "returned"}
        BY <2>1, <3>1 DEF Poll, Return
      <4>2. UNCHANGED venue
        BY <3>1 DEF Poll
      <4>3. Told(r, slot, venue'[slot])
        BY <1>2, <1>4, <1>6, <2>3, <4>1, <4>2
      <4>4. QED BY <4>1, <4>3
    <3>2. CASE PollTimesOut
      <4>1. PICK c \in Cancel(venue[slot], Faults(slot)) :
              /\ venue' = [venue EXCEPT ![slot] = c.v]
              /\ \E o \in GetOrder(ord, c.v, Faults(slot)) :
                   Return([o EXCEPT !.amb = @ \/ (/\ o.status # "FILLED"
                                                  /\ o.status = "SUBMITTED" \/ ~c.ok)])
        BY <3>2 DEF PollTimesOut
      <4>2. venue'[slot] = c.v
        BY <1>1, <1>2, <4>1 DEF VenueOK
      <4>3. PICK o \in GetOrder(ord, c.v, Faults(slot)) :
                   Return([o EXCEPT !.amb = @ \/ (/\ o.status # "FILLED"
                                                  /\ o.status = "SUBMITTED" \/ ~c.ok)])
        BY <4>1
      <4>4. Told(o, slot, venue'[slot])
        BY <1>2, <1>4, <1>6, <2>3, <4>2, <4>3
      <4> DEFINE r == [o EXCEPT !.amb = @ \/ (/\ o.status # "FILLED"
                                              /\ o.status = "SUBMITTED" \/ ~c.ok)]
      <4>5. o \in Order
        BY <1>2, <2>3, <4>2, <4>3, ReadIsSound
      <4>6. r.id = o.id /\ r.status = o.status /\ r.fill = o.fill
        BY <4>5 DEF Order
      <4>7. ord' = r /\ pc' = "returned"
        BY <4>3 DEF Return
      <4> HIDE DEF r
      <4>8. Told(r, slot, venue'[slot])
        BY <4>4, <4>6 DEF Told
      <4>9. QED BY <4>7, <4>8
    <3>3. QED BY <1>17, <3>1, <3>2
  <2>6. QED BY <1>11, <2>1, <2>2, <2>4
<1>18. CASE PreTrade
  <2>1. /\ pc = "start" /\ UNCHANGED <<venue, slot, ord, last, leg, paged>> /\ slot = PRIMARY
        /\ \/ pc' = "place" /\ eff' > 0
           \/ pc' = "done"
    BY <1>18 DEF PreTrade, alarms, IInv, Control
  <2>2. \A t \in Secondaries : venue[t].st = "none"
    BY <2>1 DEF IInv, SentOnce
  <2>3. WholeOrders' /\ HedgesKnown'
    BY <2>1, <2>2, SlotFacts DEF NInv, WholeOrders, Whole, HedgesKnown
  <2>4. ChainTells' /\ Alarmed'
    BY <2>1, SlotFacts DEF NInv, ChainTells, Alarmed, Rescuing
  <2>6. QED BY <2>3, <2>4 DEF NInv
<1>19. CASE PrimaryReturned
  <2>1. /\ pc = "returned" /\ slot = PRIMARY /\ UNCHANGED <<venue, ord, last>>
        /\ Told(ord, PRIMARY, venue[PRIMARY])
    BY <1>19 DEF PrimaryReturned, NInv, ChainTells
  <2>2. \/ leg'["s"] = Placeholder("ABORTED") /\ pc' = "decide" /\ slot' = slot
        \/ eff' = ord.fill /\ ord.fill > 0 /\ slot' = FIRST /\ pc' \in {"place", "requote"}
    BY <1>19, <1>3 DEF PrimaryReturned
  <2>3. leg'["p"] = ord
    BY <1>19, <1>2, <1>3 DEF PrimaryReturned
  <2>4. Placeholder("ABORTED").status = "ABORTED"
    BY DEF Placeholder
  <2>6. \A t \in Secondaries : venue[t].st = "none"
    BY <2>1 DEF IInv, SentOnce
  <2>7. WholeOrders'
    BY <2>1, <2>2 DEF NInv, WholeOrders, Whole
  <2>8. HedgesKnown'
    BY <2>1, <2>2, <2>3, <2>6, SlotFacts DEF HedgesKnown
  <2>5. ChainTells'
    BY <2>1, <2>2, <2>3, <2>4, SlotFacts DEF NInv, ChainTells
  <2>9. Alarmed'
    BY <2>2 DEF Alarmed, Rescuing
  <2>10. QED BY <2>7, <2>8, <2>5, <2>9 DEF NInv
<1>20. CASE AttemptReturned
  <2>1. /\ pc = "returned" /\ slot \in Secondaries /\ slot # FOK /\ UNCHANGED <<venue, slot, eff, ord, paged>>
        /\ Told(ord, slot, venue[slot])
        /\ \/ leg' = [leg EXCEPT !["s"] = ord] /\ pc' = "decide" /\ UNCHANGED last
           \/ last' = ord /\ ord.status # "FILLED" /\ pc' = "requote" /\ UNCHANGED leg
    BY <1>20 DEF AttemptReturned, alarms, NInv, ChainTells
  <2>2. leg'["p"] = leg["p"] /\ (pc' = "decide" => leg'["s"] = ord)
    BY <1>2, <1>3, <2>1
  <2>3. WholeOrders' /\ Alarmed'
    BY <2>1 DEF NInv, WholeOrders, Whole, Alarmed, Rescuing
  <2>4. HedgesKnown'
    BY <2>1, <2>2 DEF NInv, HedgesKnown, InChain
  <2>6. ord.status = "FILLED" => Dead(slot)' /\ venue'[slot].fill = leg["p"].fill
    BY <1>1, <1>2, <2>1 DEF Told, Dead, NInv, HedgesKnown, InChain, IInv, VenueOK
  <2>7. ChainTells'
    BY <2>1, <2>2, <2>6 DEF NInv, ChainTells, InChain, Told
  <2>8. QED BY <2>3, <2>4, <2>7 DEF NInv
<1>21. CASE Requote \/ RequotesExhausted
  <2>1. /\ pc = "requote" /\ slot \in FIRST..(FOK - 1) /\ UNCHANGED <<venue, eff, ord, last, paged>>
        /\ \/ leg' = [leg EXCEPT !["s"] = Placeholder("ABORTED")] /\ pc' = "decide" /\ UNCHANGED slot
           \/ /\ pc' \in {"place", "requote"} /\ UNCHANGED leg
              /\ \/ slot' = slot + 1 /\ slot < FOK - 1
                 \/ slot' = FOK /\ last # NoOrder
    BY <1>21 DEF Requote, RequotesExhausted, alarms, IInv, Control
  <2>2. leg'["p"] = leg["p"] /\ (pc' = "decide" => leg'["s"].status = "ABORTED")
    BY <1>2, <1>3, <2>1 DEF Placeholder
  <2>3. slot \in Secondaries /\ slot' \in Secondaries /\ (slot' = FOK => last # NoOrder)
    BY <2>1
  <2>4. WholeOrders' /\ Alarmed'
    BY <2>1, <2>3 DEF NInv, WholeOrders, Whole, Alarmed, Rescuing, HedgesKnown, InChain
  <2>6. HedgesKnown'
    BY <2>1, <2>2, <2>3 DEF NInv, HedgesKnown, InChain
  <2>7. ChainTells'
    BY <2>1, <2>2, <2>3 DEF NInv, ChainTells, InChain
  <2>8. QED BY <2>4, <2>6, <2>7 DEF NInv
<1>22. CASE FokReturned
  <2>1. /\ pc = "returned" /\ slot = FOK /\ slot \in Secondaries /\ pc' = "decide"
        /\ UNCHANGED <<venue, slot, eff, ord, last, paged>>
        /\ Told(ord, slot, venue[slot])
        /\ leg' = [leg EXCEPT !["s"] = IF ord.status = "FILLED" THEN ord ELSE last]
    BY <1>22 DEF FokReturned, place, alarms, NInv, ChainTells
  <2>2. leg'["p"] = leg["p"] /\ leg'["s"] = IF ord.status = "FILLED" THEN ord ELSE last
    BY <1>2, <1>3, <2>1
  <2>3. WholeOrders' /\ Alarmed'
    BY <2>1 DEF NInv, WholeOrders, Whole, Alarmed, Rescuing
  <2>4. HedgesKnown'
    BY <2>1, <2>2 DEF NInv, HedgesKnown, InChain
  <2>6. ord.status = "FILLED" => Dead(slot)' /\ venue'[slot].fill = leg["p"].fill
    BY <1>1, <1>2, <2>1 DEF Told, Dead, NInv, HedgesKnown, InChain, IInv, VenueOK
  <2>7. ChainTells'
    BY <2>1, <2>2, <2>6 DEF NInv, ChainTells, InChain, Told
  <2>8. QED BY <2>3, <2>4, <2>7 DEF NInv
<1>23. CASE Decide
  <2>1. /\ pc = "decide" /\ UNCHANGED <<venue, slot, eff, ord, last, leg>>
        /\ pc' \in {"recover", "done"} /\ (pc' = "done" => PairStatus # "recovering")
        /\ paged' = TRUE \/ ~(leg["p"].fill > 0 /\ leg["s"].status \in {"SUBMITTED", "PARTIAL"})
    BY <1>23 DEF Decide, Raise, place
  <2>2. Told(leg["p"], PRIMARY, venue[PRIMARY])
    BY <2>1 DEF NInv, ChainTells
  <2>3. ASSUME pc' = "done", paged' # TRUE, leg["p"].fill # 0 PROVE Balanced'
    <3>1. leg["p"].fill > 0 /\ leg["p"].status \in Surviving /\ IsSurvivor(leg["p"])
      BY <1>2, <1>3, <2>2, <2>3 DEF Told, Order, IsSurvivor
    <3>2. leg["s"].status \notin TerminalFailed /\ leg["p"].status \notin TerminalFailed
      BY <1>3, <2>1, <2>3, <3>1 DEF PairStatus, TerminalFailed, Surviving
    <3>3. leg["s"].status = "FILLED"
      BY <1>2, <1>3, <2>1, <2>3, <3>1, <3>2 DEF NInv, ChainTells, Order, Status, TerminalFailed
    <3>4. /\ \A x \in Legs : leg[x].status \notin TerminalFailed
          /\ leg["p"].status # "PARTIAL" /\ ~SoftNaked("s")
      <4>1. \A x \in Legs : leg[x].status \notin TerminalFailed
        BY <3>2 DEF Legs
      <4>2. QED BY <1>3, <2>1, <2>3, <4>1 DEF PairStatus
    <3>5. leg["p"].status = "FILLED"
      BY <2>2, <3>1, <3>3, <3>4 DEF Told, SoftNaked, Other, Surviving
    <3>6. Dead(PRIMARY) /\ leg["p"].fill = Bought
      BY <2>2, <3>5 DEF Told, Dead, Bought
    <3>7. slot \in Secondaries /\ Dead(slot) /\ venue[slot].fill = leg["p"].fill
      BY <2>1, <3>3 DEF NInv, ChainTells
    <3>8. venue[REST].st = "none" /\ venue[MARKET].st = "none"
      BY <2>1 DEF IInv, SentOnce, BeforeRest
    <3>9. QED BY <2>1, <3>6, <3>7, <3>8 DEF Balanced, Dead, Bought
  <2>4. Alarmed'
    BY <2>1, <2>3 DEF Alarmed, Rescuing
  <2>6. WholeOrders' /\ HedgesKnown' /\ ChainTells'
    BY <2>1 DEF NInv, WholeOrders, Whole, HedgesKnown, ChainTells, InChain
  <2>7. QED BY <2>4, <2>6 DEF NInv
<1>24. CASE RestSell \/ MarketSell
  <2>1. /\ pc \in Rescuing /\ pc' \in Rescuing /\ UNCHANGED <<slot, last, paged>>
        /\ \E s \in {REST, MARKET} : \E v : venue' = [venue EXCEPT ![s] = v]
    BY <1>24 DEF RestSell, MarketSell, Rescuing, place, alarms, Send
  <2>2. \A s \in PRIMARY..FOK : venue'[s] = venue[s]
    BY <1>1, <2>1, SlotFacts DEF VenueOK
  <2>3. \A s \in PRIMARY..FOK : Whole(s)'
    BY <2>2 DEF NInv, WholeOrders, Whole
  <2>4. paged' = TRUE
    BY <1>2, <2>1 DEF NInv, Alarmed
  <2>6. QED BY <1>10, <2>1, <2>3, <2>4
<1>25. CASE \/ Recover \/ (\E x \in Legs : CancelLeg(x)) \/ ChooseUnwind \/ Verify
            \/ RestReply \/ RestPoll \/ RestCancel \/ MarketReply \/ MarketRaises
  <2>1. /\ pc \in Rescuing \cup {"recover"} /\ pc' \in Rescuing \cup {"done"}
        /\ UNCHANGED <<slot, last>>
        /\ paged' = TRUE \/ (pc # "recover" /\ paged' = paged)
        /\ ~Place /\ ~RestSell /\ ~MarketSell
    <3>1. CASE Recover \/ (\E x \in Legs : CancelLeg(x)) \/ ChooseUnwind \/ Verify
      BY <3>1 DEF Recover, CancelLeg, ChooseUnwind, Verify, Rescuing, place, alarms, Raise,
                  Place, RestSell, MarketSell
    <3>2. CASE RestReply \/ RestPoll \/ RestCancel
      BY <3>2 DEF RestReply, RestPoll, RestCancel, Close, Rescuing, place, alarms,
                  Place, RestSell, MarketSell
    <3>3. CASE MarketReply \/ MarketRaises
      BY <3>3 DEF MarketReply, MarketRaises, Close, Rescuing, place, alarms, Raise,
                  Place, RestSell, MarketSell
    <3>4. QED BY <1>25, <3>1, <3>2, <3>3
  <2>2. paged' = TRUE
    BY <1>2, <2>1 DEF NInv, Alarmed
  <2>3. QED BY <1>8, <1>10, <2>1, <2>2
<1>26. CASE Venue \/ DbFlips \/ UNCHANGED vars
  <2>1. UNCHANGED <<pc, slot, eff, ord, last, leg, paged>>
    BY <1>26 DEF Venue, DbFlips, vars, place, alarms
  <2>2. ~Place /\ ~RestSell /\ ~MarketSell
    BY <2>1 DEF Place, RestSell, MarketSell
  <2>3. QED BY <1>8, <1>9, <2>1, <2>2
<1>27. QED
  BY <1>12, <1>13, <1>14, <1>15, <1>16, <1>17, <1>18, <1>19, <1>20, <1>21, <1>22, <1>23, <1>24,
     <1>25, <1>26 DEF Next, Engine

\* What is hedged is the fill of the one secondary that has any.  Hedged sums by
\* recursion: two such sums that differed would differ first at a least slot.
LEMMA HedgedIsLast ==
    ASSUME VenueOK, NEW t \in Secondaries, \A s \in Secondaries \ {t} : venue[s].fill = 0
    PROVE  Hedged = venue[t].fill
<1> DEFINE sum(f) == f = [s \in 0..FOK |-> IF s = 0 THEN 0 ELSE f[s - 1] + venue[s].fill]
           g == [s \in 0..FOK |-> IF s < t THEN 0 ELSE venue[t].fill]
           f == CHOOSE h : sum(h)
<1>1. \A s \in Slots : venue[s].fill \in Int
  BY VenueOrders
<1>2. sum(g)
  <2>1. ASSUME NEW s \in 0..FOK
        PROVE  g[s] = IF s = 0 THEN 0 ELSE g[s - 1] + venue[s].fill
    BY <1>1
  <2>2. QED BY <2>1
<1>3. sum(f)
  BY <1>2
<1> HIDE DEF f
<1>4. ASSUME NEW n \in 0..FOK, f[n] # g[n] PROVE FALSE
  <2> DEFINE S == {m \in 0..FOK : f[m] # g[m]}
  <2>1. PICK m \in S : \A k \in S : m <= k
    <3> DEFINE R == OpToRel(<, Nat)
    <3>1. IsWellFoundedOn(R, Nat)
      BY NatLessThanWellFounded
    <3>2. \A y, x \in Nat : y < x => <<y, x>> \in R
      BY DEF OpToRel
    <3>3. S \in SUBSET Nat /\ S # {}
      BY <1>4
    <3> HIDE DEF R, S
    <3>4. PICK x \in S : \A y \in S : ~(<<y, x>> \in R)
      BY <3>1, <3>3, WFMin
    <3>5. x \in Nat /\ \A y \in S : y \in Nat /\ ~(y < x)
      BY <3>2, <3>3, <3>4
    <3>6. \A y \in S : x <= y
      BY <3>5
    <3>7. QED BY <3>4, <3>6
  <2>2. m # 0
    BY <1>2, <1>3
  <2>3. f[m - 1] = g[m - 1]
    BY <2>1, <2>2
  <2>4. QED BY <1>2, <1>3, <2>1, <2>2, <2>3
<1>5. Hedged = f[FOK]
  BY DEF Hedged, f
<1>6. g[FOK] = venue[t].fill
  OBVIOUS
<1>7. QED BY <1>4, <1>5, <1>6

\* An execution that knows of a fill of its primary and ends with unequal legs has
\* raised a critical incident: whichever adapter loses answers, cancels or orders,
\* as long as no answer calls an order dead that is not, or empty that is not.
THEOREM NakedPositionsArePaged ==
    ASSUME SecondaryIsHonest, PrimaryIsFrank
    PROVE  Spec => [](NInv /\ NakedIsPaged)
<1>1. Init => NInv
  <2> SUFFICES ASSUME Init PROVE NInv
    OBVIOUS
  <2>1. /\ pc = "start" /\ slot = PRIMARY /\ leg["p"].fill = 0
        /\ last = NoOrder /\ NoOrder.status = "PENDING"
        /\ \A s \in Slots : venue[s].st = "none"
    BY DEF Init, Placeholder, NoOrder, Legs
  <2>2. PRIMARY # FOK /\ PRIMARY \notin Secondaries /\ PRIMARY..FOK \subseteq Slots
    OBVIOUS
  <2>3. QED BY <2>1, <2>2 DEF NInv, WholeOrders, Whole, HedgesKnown, ChainTells, Alarmed, Rescuing, InChain
<1>2. IInv /\ IInv' /\ NInv /\ [Next]_vars => NInv'
  BY AlarmIsKept
<1>3. IInv /\ NInv => NakedIsPaged
  <2> SUFFICES ASSUME IInv, NInv, pc = "done", leg["p"].fill > 0, ~paged
               PROVE  Held("p") = Held("s")
    BY DEF NakedIsPaged
  <2>1. Balanced
    BY DEF NInv, Alarmed
  <2>2. VenueOK /\ \A t \in Secondaries \ {slot} : venue[t].fill = 0
    BY DEF IInv, ChainIsDead, Empty
  <2>3. Hedged = venue[slot].fill
    BY <2>1, <2>2, HedgedIsLast DEF Balanced
  <2>4. venue[REST].fill = 0 /\ venue[MARKET].fill = 0
    BY <2>1, SlotFacts DEF Balanced, IInv, VenueOK
  <2>6. QED BY <2>1, <2>3, <2>4 DEF Balanced, Held, Sold
<1>4. QED
  BY <1>1, <1>2, <1>3, InvariantHolds, PTL DEF Spec

-----------------------------------------------------------------------------
(* The recovery, when the adapters tell the truth.                           *)

\* The adapters tell the truth, though perhaps before the order is over.
Truthful == PrimaryFaults \cup SecondaryFaults \cup UnwindFaults \subseteq {"answers_early"}

Unsent == [st |-> "none", want |-> 0, fill |-> 0]
\* The attempt in progress, and what it hedges.
Attempt == IF slot \in Secondaries THEN venue[slot] ELSE Unsent
Covered == Attempt.fill

Over(v) == v.st \in {"none", "ended", "refused"}

\* What a returned order tells of the venue's: it is over, and filled as it says.
Tells(o, v) ==
    /\ Over(v) /\ o.fill = v.fill
    /\ IF o.fill > 0 THEN o.status = (IF o.fill = v.want THEN "FILLED" ELSE "PARTIAL")
                     ELSE o.status \in TerminalFailed

Selling == {"rest_reply", "rest_poll", "market", "market_reply"}
Recovering == {"recover"} \cup Rescuing
Settled == Recovering \cup {"decide", "done"}

WholeFills ==
    /\ \A s \in PRIMARY..FOK : venue[s].st # "none" => venue[s].want > 0
    /\ venue[FOK].fill \in {0, venue[FOK].want}

LegsTell ==
    /\ pc = "start" => leg["p"] = Placeholder("ABORTED")
    /\ pc = "returned" => Tells(ord, venue[slot])
    /\ pc \in Settled \/ slot \in Secondaries =>
          Tells(leg["p"], venue[PRIMARY]) /\ leg["p"].id \in {NoId, PRIMARY}
    /\ pc \in Settled => Over(Attempt)
    /\ pc \in Settled \ {"done"} =>
          Tells(leg["s"], Attempt) /\ leg["s"].id \in {NoId} \cup Secondaries
    /\ last # NoOrder => /\ last.fill = 0 /\ last.status \in TerminalFailed
                         /\ last.id \in {NoId} \cup Secondaries
    /\ slot \in Secondaries => Bought > 0
    /\ pc = "raised" => slot = PRIMARY /\ Over(venue[PRIMARY]) /\ Bought = 0

Rescues ==
    /\ pc \in Recovering => Bought > 0
    /\ pc \in Rescuing => open # {}

Sells ==
    /\ uw.leg = "p"
    /\ pc \in {"verify", "unwind"} \cup Selling => uw.qty > 0
    /\ pc \in {"verify", "unwind"} \cup Selling \/ venue[REST].st # "none"
         => uw.qty = Bought - Covered
    /\ pc = "verify" => leg["s"].fill = 0 /\ leg["s"].amb
    /\ venue[REST].st # "none" => pc \in Selling \cup {"done"} /\ venue[REST].want = uw.qty
    /\ pc = "rest_poll" => venue[REST].st \notin {"none", "flying"}
    /\ pc \in {"market", "market_reply"} => venue[REST].st # "none" /\ Dead(REST)
                                            /\ uw.rested = venue[REST].fill
    /\ venue[MARKET].st # "none" => /\ pc \in {"market_reply", "done"}
                                    /\ venue[REST].st # "none" /\ Dead(REST)
                                    /\ venue[MARKET].want = uw.qty - venue[REST].fill

Reserved ==
    /\ pc \in Recovering => booked["p"] = SuggestedQty /\ Covered <= booked["s"]
    /\ pc = "done" => \/ open # {}
                      \/ Bought - Sold <= booked["p"] /\ Covered <= booked["s"]

TInv == WholeFills /\ LegsTell /\ Rescues /\ Sells /\ Reserved

\* Every step of the engine and of the venues keeps it.
LEMMA TruthIsKept ==
    ASSUME Truthful, IInv, IInv', NInv, TInv, [Next]_vars
    PROVE  TInv'
<1>1. /\ \A s \in Slots : /\ OrderOK(venue[s]) /\ venue[s].fill \in Int /\ venue[s].want \in Int
                          /\ 0 <= venue[s].fill /\ venue[s].fill <= venue[s].want
                          /\ OrderOK(venue'[s]) /\ venue'[s].fill \in Int /\ venue'[s].want \in Int
                          /\ 0 <= venue'[s].fill /\ venue'[s].fill <= venue'[s].want
      /\ VenueOK /\ VenueOK'
  <2>1. VenueOK /\ VenueOK'
    BY DEF IInv
  <2>2. \A s \in Slots : OrderOK(venue[s]) /\ OrderOK(venue'[s])
    BY <2>1 DEF VenueOK, OrderOK
  <2>3. QED BY <2>1, <2>2, VenueOrders
<1>2. /\ slot \in PRIMARY..FOK /\ slot \in Slots /\ slot # NoId /\ eff \in Int /\ slot' \in PRIMARY..FOK
      /\ ord \in Order /\ last \in Order /\ leg \in [Legs -> Order] /\ paged \in BOOLEAN
      /\ uw \in [leg : Legs, qty : 0..SuggestedQty, rested : 0..SuggestedQty]
      /\ booked \in [Legs -> 0..SuggestedQty]
  BY SlotFacts DEF IInv, EngineOK
<1>3. /\ "p" \in Legs /\ "s" \in Legs /\ leg["p"] \in Order /\ leg["s"] \in Order
      /\ leg["p"].fill \in Int /\ leg["s"].fill \in Int
      /\ ord.fill \in Int /\ last.fill \in Int /\ PRIMARY \in PRIMARY..FOK /\ PRIMARY \in Slots
      /\ PRIMARY \notin Secondaries /\ FOK \in Slots /\ REST \in Slots /\ MARKET \in Slots
      /\ PRIMARY # FOK /\ REST # MARKET
      /\ uw.qty \in Int /\ uw.rested \in Int /\ 0 <= uw.qty /\ uw.qty <= SuggestedQty /\ SuggestedQty \in Int
      /\ booked["p"] \in Int /\ booked["s"] \in Int /\ 0 <= booked["p"] /\ 0 <= booked["s"]
  BY <1>2, SlotFacts DEF Legs, Order
<1>4. /\ \A s \in Slots : Faults(s) \subseteq {"answers_early"}
      /\ UnwindFaults \subseteq {"answers_early"} /\ SecondaryFaults \subseteq {"answers_early"}
      /\ SecondaryIsHonest
  BY DEF Truthful, Faults, SecondaryIsHonest
\* What an answer says of an order.
<1>5. ASSUME NEW v, OrderOK(v), v.st \in {"live", "ended", "refused"},
             NEW faults, faults \subseteq {"answers_early"}, NEW st \in StatusesOf(v, faults)
      PROVE  /\ st = "FILLED" => v.fill = v.want
             /\ st \in {"FAILED", "CANCELLED"} => Over(v) /\ v.fill = 0
             /\ st = "SUBMITTED" <=> v.st = "live" /\ v.fill < v.want
             /\ v.want > 0 /\ st # "SUBMITTED" /\ (v.st = "live" => v.fill < v.want)
                  => \A o : o.status = st /\ o.fill = v.fill => Tells(o, v)
  <2>1. v.fill \in Int /\ v.want \in Int /\ 0 <= v.fill /\ v.fill <= v.want
    BY <1>5, VenueOrders
  <2>2. v.st = "refused" => v.fill = 0
    BY <1>5 DEF OrderOK
  <2>3. st = (IF v.st = "refused" THEN "FAILED" ELSE IF v.fill = v.want THEN "FILLED"
              ELSE IF v.st = "live" THEN "SUBMITTED" ELSE IF v.fill = 0 THEN "CANCELLED" ELSE "PARTIAL")
    BY <1>5 DEF StatusesOf
  <2>4. /\ st = "FILLED" => v.fill = v.want
        /\ st \in {"FAILED", "CANCELLED"} => Over(v) /\ v.fill = 0
        /\ st = "SUBMITTED" <=> v.st = "live" /\ v.fill < v.want
    BY <1>5, <2>1, <2>2, <2>3 DEF Over
  <2>6. ASSUME v.want > 0, st # "SUBMITTED", v.st = "live" => v.fill < v.want,
               NEW o, o.status = st, o.fill = v.fill
        PROVE  Tells(o, v)
    BY <1>5, <2>1, <2>2, <2>3, <2>6 DEF Over, Tells, TerminalFailed
  <2>7. QED BY <2>4, <2>6
<1>6. ASSUME NEW o \in Order, o.id # NoId, NEW v, NEW faults, faults \subseteq {"answers_early"},
             NEW r \in GetOrder(o, v, faults)
      PROVE  r.id = o.id /\ r.fill = v.fill /\ r.status \in StatusesOf(v, faults) /\ r.amb = o.amb
  <2>1. PICK st \in StatusesOf(v, faults) : r = [o EXCEPT !.status = st, !.fill = v.fill]
    BY <1>6 DEF GetOrder
  <2>2. QED BY <2>1 DEF Order
<1>7. ASSUME NEW s \in Slots, NEW faults, faults \subseteq {"answers_early"},
             NEW c \in Cancel(venue[s], faults)
      PROVE  /\ c.ok <=> venue[s].st = "live"
             /\ c.v.fill = venue[s].fill /\ c.v.want = venue[s].want
             /\ c.v.st = IF venue[s].st = "live" THEN "ended" ELSE venue[s].st
             /\ venue[s].st # "live" => c.v = venue[s]
  <2>1. OrderOK(venue[s])
    BY <1>1
  <2>2. c = IF venue[s].st = "live" THEN [ok |-> TRUE, v |-> [venue[s] EXCEPT !.st = "ended"]]
            ELSE [ok |-> FALSE, v |-> venue[s]]
    BY <1>7 DEF Cancel
  <2>3. QED BY <2>1, <2>2 DEF OrderOK
\* What a step does to the orders.
<1>8. ~Place /\ ~RestSell /\ ~MarketSell => VenueWorks /\ WholeFills'
  <2> SUFFICES ASSUME ~Place, ~RestSell, ~MarketSell PROVE VenueWorks /\ WholeFills'
    OBVIOUS
  <2>1. VenueWorks /\ (Venue \/ \A s \in Slots : venue'[s].fill = venue[s].fill)
    BY VenueMoves
  <2>2. \A s \in PRIMARY..FOK : s \in Slots
    OBVIOUS
  <2>3. \A s \in PRIMARY..FOK : venue'[s].st # "none" => venue'[s].want > 0
    BY <2>1, <2>2 DEF TInv, WholeFills, VenueWorks
  <2>4. venue'[FOK].want = venue[FOK].want
    BY <1>3, <2>1 DEF VenueWorks
  <2>5. ASSUME venue'[FOK].fill = venue[FOK].fill \/ venue'[FOK].fill = venue[FOK].want
         PROVE  WholeFills'
    <3>1. venue[FOK].fill = 0 \/ venue[FOK].fill = venue[FOK].want
      BY DEF TInv, WholeFills
    <3>2. venue'[FOK].fill = 0 \/ venue'[FOK].fill = venue'[FOK].want
      BY <2>4, <2>5, <3>1
    <3>3. QED BY <2>3, <3>2 DEF WholeFills
  <2>6. CASE \A s \in Slots : venue'[s].fill = venue[s].fill
    BY <1>3, <2>1, <2>5, <2>6
  <2>7. CASE Venue
    <3>1. PICK s \in Slots : Accept(s) \/ Refuse(s) \/ Fill(s) \/ Expire(s)
      BY <2>7 DEF Venue
    <3>2. CASE Accept(s) \/ Refuse(s) \/ Expire(s)
      <4>1. PICK e : venue' = [venue EXCEPT ![s] = [venue[s] EXCEPT !.st = e]]
        BY <3>2 DEF Accept, Refuse, Expire
      <4>2. venue'[FOK].fill = venue[FOK].fill
        BY <1>1, <1>3, <4>1 DEF VenueOK, OrderOK
      <4>3. QED BY <2>1, <2>5, <4>2
    <3>3. CASE Fill(s)
      <4>1. PICK f : /\ s = FOK /\ "fok_partial" \notin SecondaryFaults => f = venue[s].want
                     /\ venue' = [venue EXCEPT ![s] =
                         [@ EXCEPT !.fill = f, !.st = IF f = venue[s].want THEN "ended" ELSE "live"]]
        BY <3>3 DEF Fill
      <4>2. venue'[FOK].fill = venue[FOK].fill \/ venue'[FOK].fill = venue[FOK].want
        BY <1>1, <1>3, <1>4, <4>1 DEF VenueOK, OrderOK
      <4>3. QED BY <2>1, <2>5, <4>2
    <3>4. QED BY <3>1, <3>2, <3>3
  <2>8. QED BY <2>1, <2>6, <2>7
\* Once the chain is over, so are its orders.
<1>9. ASSUME pc \in Settled, UNCHANGED slot, \A s \in PRIMARY..FOK : Dead(s) => venue'[s] = venue[s]
      PROVE  /\ venue'[PRIMARY] = venue[PRIMARY] /\ Attempt' = Attempt /\ Covered' = Covered
             /\ Bought' = Bought
  <2>1. Over(venue[PRIMARY]) /\ (slot \in Secondaries => Over(venue[slot]))
    BY <1>9 DEF TInv, LegsTell, Tells, Attempt
  <2>2. QED BY <1>2, <1>3, <1>9, <2>1 DEF Over, Dead, Attempt, Covered, Bought
<1>10. ASSUME pc \in Settled, pc' \in Settled, pc # "done", UNCHANGED <<slot, leg, last>>,
              venue'[PRIMARY] = venue[PRIMARY], Attempt' = Attempt
       PROVE  LegsTell'
  BY <1>10 DEF TInv, LegsTell, Bought, Settled, Recovering, Rescuing
\* While the chain goes on nothing is sold.
<1>11. ASSUME pc \in BeforeRest, pc' \notin Recovering \cup {"done"}, UNCHANGED uw,
              venue'[REST].st = venue[REST].st, venue'[MARKET].st = venue[MARKET].st
       PROVE  Rescues' /\ Sells' /\ Reserved'
  <2>1. venue[REST].st = "none" /\ venue[MARKET].st = "none"
    BY <1>11 DEF IInv, SentOnce
  <2>2. QED
    BY <1>11, <2>1 DEF TInv, Rescues, Sells, Reserved, Recovering, Rescuing, Selling
\* Steps of the venues and of others.
<1>12. ASSUME VenueWorks, WholeFills', UNCHANGED <<pc, slot, ord, last, leg, uw, booked, open>>
       PROVE  TInv'
  <2>1. \A s \in PRIMARY..FOK : Dead(s) => venue'[s] = venue[s]
    BY SlotFacts, <1>12 DEF VenueWorks
  <2>2. pc \in Settled =>
          /\ venue'[PRIMARY] = venue[PRIMARY] /\ Attempt' = Attempt /\ Covered' = Covered
          /\ Bought' = Bought
    BY <1>9, <1>12, <2>1
  <2>3. LegsTell'
    <3>1. pc = "returned" => Tells(ord, venue'[slot])
      BY <1>2, <1>12, <2>1 DEF TInv, LegsTell, Tells, Over, Dead
    <3>2. pc \in Settled \/ slot \in Secondaries => Tells(leg["p"], venue'[PRIMARY])
      BY <1>3, <1>12, <2>1 DEF TInv, LegsTell, Tells, Over, Dead
    <3>3. slot \in Secondaries => venue'[PRIMARY].fill > 0
      BY <1>1, <1>3, <1>12 DEF TInv, LegsTell, VenueWorks, Bought
    <3>4. pc = "raised" => Over(venue'[PRIMARY]) /\ venue'[PRIMARY].fill = 0
      BY <1>3, <1>12, <2>1 DEF TInv, LegsTell, Over, Dead, Bought
    <3>5. QED BY <1>12, <2>2, <3>1, <3>2, <3>3, <3>4 DEF TInv, LegsTell, Bought
  <2>4. Rescues'
    BY <1>12, <2>2 DEF TInv, Rescues, Settled, Bought
  <2>5. Sells'
    <3>1. /\ venue'[REST].st = "none" <=> venue[REST].st = "none"
          /\ venue'[MARKET].st = "none" <=> venue[MARKET].st = "none"
          /\ venue'[REST].want = venue[REST].want /\ venue'[MARKET].want = venue[MARKET].want
          /\ Dead(REST) => venue'[REST] = venue[REST]
          /\ venue[REST].st \notin {"none", "flying"} => venue'[REST].st \notin {"none", "flying"}
      BY <1>3, <1>12 DEF VenueWorks
    <3>2. venue[REST].st # "none" => pc \in Settled
      BY DEF TInv, Sells, Settled, Selling, Recovering, Rescuing
    <3>3. pc \in {"verify", "unwind"} \cup Selling => pc \in Settled
      BY DEF Settled, Selling, Recovering, Rescuing
    <3>4. QED BY <1>12, <2>2, <3>1, <3>2, <3>3 DEF TInv, Sells, Dead
  <2>6. Reserved'
    <3>1. Sold <= Sold' /\ Sold \in Int /\ Sold' \in Int
      BY <1>1, <1>3, <1>12 DEF VenueWorks, Sold
    <3>2. Bought \in Int
      BY <1>1, <1>3 DEF Bought
    <3>3. pc \in Recovering \cup {"done"} => pc \in Settled
      BY DEF Settled
    <3>4. QED BY <1>3, <1>12, <2>2, <3>1, <3>2, <3>3 DEF TInv, Reserved
  <2>7. QED BY <1>12, <2>3, <2>4, <2>5, <2>6 DEF TInv
\* An attempt goes on, or returns.
<1>13. ASSUME pc \in {"place", "reply", "poll"}, VenueWorks, WholeFills', pc' \in {"poll", "returned"},
              pc' = "returned" => Tells(ord', venue'[slot]),
              UNCHANGED <<slot, last, leg, uw>>
       PROVE  TInv'
  <2>1. LegsTell'
    <3>1. slot \in Secondaries =>
             /\ Tells(leg["p"], venue'[PRIMARY]) /\ leg["p"].id \in {NoId, PRIMARY}
             /\ venue'[PRIMARY].fill > 0
      BY <1>3, <1>13 DEF TInv, LegsTell, VenueWorks, Dead, Tells, Over, Bought
    <3>2. QED
      BY <1>13, <3>1 DEF TInv, LegsTell, Bought, Settled, Recovering, Rescuing
  <2>2. venue[REST].st = "none" /\ venue[MARKET].st = "none"
    BY <1>13 DEF IInv, SentOnce, BeforeRest
  <2>3. Rescues' /\ Sells' /\ Reserved'
    BY <1>3, <1>11, <1>13, <2>2 DEF BeforeRest, VenueWorks, Recovering, Rescuing
  <2>4. QED BY <1>13, <2>1, <2>3 DEF TInv
\* The unwind ends.
<1>14. ASSUME pc \in Rescuing, \A s \in PRIMARY..FOK : Dead(s) => venue'[s] = venue[s],
              NEW n \in Int, 0 <= n, n <= Sold', Close(n), WholeFills', Sells', UNCHANGED <<slot, leg, last>>
       PROVE  TInv'
  <2>1. /\ venue'[PRIMARY] = venue[PRIMARY] /\ Attempt' = Attempt /\ Covered' = Covered
        /\ Bought' = Bought /\ pc \in Settled /\ pc # "done" /\ pc' = "done"
    BY <1>9, <1>14 DEF Settled, Recovering, Close, Rescuing
  <2>2. LegsTell'
    BY <1>10, <1>14, <2>1 DEF Settled
  <2>3. Rescues'
    BY <2>1 DEF Rescues, Recovering, Rescuing
  <2>4. Reserved'
    <3>1. booked["p"] = SuggestedQty /\ Covered <= booked["s"] /\ open # {} /\ uw.leg = "p"
      BY <1>14 DEF TInv, Reserved, Rescues, Recovering, Sells
    <3>2. Bought \in Int /\ Bought <= SuggestedQty /\ Sold' \in Int
      BY <1>1, <1>3 DEF Bought, Sold, OrderOK
    <3>3. CASE n > 0
      <4>1. booked' = [booked EXCEPT !["p"] = IF n < SuggestedQty THEN SuggestedQty - n ELSE 0]
        BY <1>14, <3>1, <3>3 DEF Close, Release
      <4>2. /\ booked'["p"] = IF n < SuggestedQty THEN SuggestedQty - n ELSE 0
            /\ booked'["s"] = booked["s"]
        BY <1>2, <1>3, <4>1
      <4>3. Bought - Sold' <= booked'["p"] /\ Covered <= booked'["s"]
        <5> DEFINE x == Sold'
        <5>1. x \in Int /\ n \in Int /\ n <= x
          BY <1>14, <3>2
        <5> HIDE DEF x
        <5>2. Bought - x <= IF n < SuggestedQty THEN SuggestedQty - n ELSE 0
          BY <1>3, <3>2, <5>1
        <5>3. QED BY <3>1, <4>2, <5>2 DEF x
      <4>4. QED BY <2>1, <4>3 DEF Reserved, Recovering, Rescuing
    <3>4. CASE n = 0
      BY <1>14, <2>1, <3>1, <3>4 DEF Close, Reserved, Recovering, Rescuing
    <3>5. QED BY <1>14, <3>3, <3>4
  <2>5. QED BY <1>14, <2>2, <2>3, <2>4 DEF TInv
\* The chain.
<1>15. CASE Place
  <2>1. /\ pc = "place" /\ Send(slot, eff) /\ pc' = "reply"
        /\ UNCHANGED <<leg, slot, last, uw>>
    BY <1>15 DEF Place, place, recovery
  <2>2. /\ venue'[slot].want = eff /\ venue'[slot].st = "flying" /\ venue'[slot].fill = 0
        /\ \A t \in Slots \ {slot} : venue'[t] = venue[t]
    BY <1>1, <1>2, <2>1 DEF Send, VenueOK
  <2>3. WholeFills'
    BY <1>2, <1>3, <2>1, <2>2, SlotFacts DEF TInv, WholeFills, NInv, WholeOrders
  <2>4. LegsTell'
    <3>1. slot \in Secondaries => venue'[PRIMARY] = venue[PRIMARY]
      BY <1>3, <2>2
    <3>2. QED BY <2>1, <3>1 DEF TInv, LegsTell, Settled, Recovering, Rescuing, Bought
  <2>5. venue'[REST].st = venue[REST].st /\ venue'[MARKET].st = venue[MARKET].st
    BY <1>2, <1>3, <2>2, SlotFacts
  <2>6. Rescues' /\ Sells' /\ Reserved'
    BY <1>11, <2>1, <2>5 DEF BeforeRest, Recovering, Rescuing
  <2>7. QED BY <2>3, <2>4, <2>6 DEF TInv
<1>16. CASE PlaceBlocked
  <2>1. /\ pc = "place" /\ ord' = Placeholder("ABORTED") /\ pc' = "returned"
        /\ UNCHANGED <<venue, leg, slot, last, uw>>
    BY <1>16 DEF PlaceBlocked, place, recovery
  <2>2. VenueWorks /\ WholeFills'
    BY <1>8, <2>1, <1>16 DEF PlaceBlocked, Place, RestSell, MarketSell
  <2>3. venue[slot].st = "none" /\ venue[slot].fill = 0
    BY <1>1, <1>2, <2>1 DEF IInv, SentOnce, OrderOK
  <2>4. Tells(ord', venue'[slot])
    BY <2>1, <2>3 DEF Tells, Placeholder, Over, TerminalFailed
  <2>5. QED BY <1>13, <2>1, <2>2, <2>4
<1>17. CASE Reply
  <2>1. PICK st \in StatusesOf(venue[slot], Faults(slot)) :
          /\ pc = "reply" /\ Answered(slot)
          /\ ord' = [id |-> slot, status |-> st, fill |-> venue[slot].fill, amb |-> FALSE]
          /\ pc' = IF st = "SUBMITTED" THEN "poll" ELSE "returned"
          /\ UNCHANGED <<venue, leg, slot, last, uw>>
    BY <1>17 DEF Reply, place, recovery, Return
  <2>2. VenueWorks /\ WholeFills'
    BY <1>8, <2>1 DEF Place, RestSell, MarketSell
  <2>3. venue[slot].st \in {"live", "ended", "refused"} /\ venue[slot].want > 0 /\ Whole(slot)
    BY <1>2, <2>1 DEF Answered, TInv, WholeFills, NInv, WholeOrders
  <2>4. pc' = "returned" => Tells(ord', venue'[slot])
    BY <1>1, <1>2, <1>4, <1>5, <2>1, <2>3 DEF Whole
  <2>5. QED BY <1>13, <2>1, <2>2, <2>4
<1>18. CASE ReplyFailsLate \/ ReplyTimesOut
  BY <1>2, <1>4, <1>18 DEF ReplyFailsLate, ReplyTimesOut
<1>19. CASE ReplyRaises
  <2>1. /\ pc = "reply" /\ UNCHANGED <<venue, slot, last, uw>>
        /\ \/ slot = PRIMARY /\ pc' = "raised" /\ UNCHANGED leg
           \/ /\ slot # PRIMARY /\ leg' = [leg EXCEPT !["s"] = Placeholder("ABORTED")]
              /\ pc' = "decide"
    BY <1>19 DEF ReplyRaises, SecondaryRaised, Raise, place, recovery
  <2>2. VenueWorks /\ WholeFills'
    BY <1>8, <2>1 DEF Place, RestSell, MarketSell
  <2>3. venue[slot].st = "refused" /\ venue[slot].fill = 0
    BY <1>1, <1>2, <1>4, <1>19 DEF ReplyRaises, Raised, OrderOK
  <2>4. leg'["p"] = leg["p"] /\ (pc' = "decide" => leg'["s"] = Placeholder("ABORTED") /\ slot \in Secondaries)
    BY <1>2, <1>3, <2>1
  <2>5. Tells(Placeholder("ABORTED"), venue[slot]) /\ Placeholder("ABORTED").id = NoId
    BY <2>3 DEF Tells, Placeholder, Over, TerminalFailed
  <2>6. LegsTell'
    BY <2>1, <2>3, <2>4, <2>5
       DEF TInv, LegsTell, Attempt, Over, Bought, Settled, Recovering, Rescuing
  <2>7. Rescues' /\ Sells' /\ Reserved'
    BY <1>11, <2>1 DEF BeforeRest, Recovering, Rescuing
  <2>8. QED BY <2>2, <2>6, <2>7 DEF TInv
<1>20. CASE Poll \/ PollTimesOut
  <2>1. /\ pc = "poll" /\ UNCHANGED <<leg, slot, last, uw>> /\ ord.id = slot
    BY <1>20 DEF Poll, PollTimesOut, place, recovery, IInv, Control
  <2>2. VenueWorks /\ WholeFills'
    BY <1>8, <2>1 DEF Place, RestSell, MarketSell
  <2>3. venue[slot].st \in {"live", "ended", "refused"} /\ venue[slot].want > 0 /\ Whole(slot)
    BY <1>1, <1>2, <2>1 DEF IInv, SentOnce, OrderOK, TInv, WholeFills, NInv, WholeOrders
  <2>4. CASE Poll
    <3>1. PICK r \in GetOrder(ord, venue[slot], Faults(slot)) :
            ord' = r /\ pc' = IF r.status = "SUBMITTED" THEN pc ELSE "returned"
      BY <2>4 DEF Poll, Return
    <3>2. r.fill = venue[slot].fill /\ r.status \in StatusesOf(venue[slot], Faults(slot))
      BY <1>2, <1>4, <1>6, <2>1, <3>1
    <3>3. UNCHANGED venue
      BY <2>4 DEF Poll
    <3>4. pc' = "returned" => Tells(ord', venue'[slot])
      BY <1>1, <1>2, <1>4, <1>5, <2>1, <2>3, <3>1, <3>2, <3>3 DEF Whole
    <3>5. QED BY <1>13, <2>1, <2>2, <3>1, <3>4
  <2>5. CASE PollTimesOut
    <3>1. PICK c \in Cancel(venue[slot], Faults(slot)) :
            /\ venue' = [venue EXCEPT ![slot] = c.v]
            /\ \E o \in GetOrder(ord, c.v, Faults(slot)) :
                 Return([o EXCEPT !.amb = @ \/ (/\ o.status # "FILLED"
                                                /\ o.status = "SUBMITTED" \/ ~c.ok)])
      BY <2>5 DEF PollTimesOut
    <3>2. PICK o \in GetOrder(ord, c.v, Faults(slot)) :
                 Return([o EXCEPT !.amb = @ \/ (/\ o.status # "FILLED"
                                                /\ o.status = "SUBMITTED" \/ ~c.ok)])
      BY <3>1
    <3>3. venue'[slot] = c.v
      BY <1>1, <1>2, <3>1 DEF VenueOK
    <3>4. /\ c.v.st \in {"ended", "refused"} /\ c.v.fill = venue[slot].fill /\ c.v.want > 0
          /\ OrderOK(c.v)
      <4>1. /\ c.v.fill = venue[slot].fill /\ c.v.want = venue[slot].want
            /\ c.v.st = IF venue[slot].st = "live" THEN "ended" ELSE venue[slot].st
        BY <1>2, <1>4, <1>7, <3>1
      <4>2. OrderOK(c.v)
        BY <1>1, <1>2, <3>3
      <4>3. QED BY <2>3, <4>1, <4>2
    <3>5. o.fill = c.v.fill /\ o.status \in StatusesOf(c.v, Faults(slot))
      BY <1>2, <1>4, <1>6, <2>1, <3>2
    <3>6. Tells(o, c.v)
      BY <1>2, <1>4, <1>5, <3>4, <3>5
    <3>7. o \in Order
      BY <1>2, <3>2, <3>4, ReadIsSound
    <3> DEFINE r == [o EXCEPT !.amb = @ \/ (/\ o.status # "FILLED"
                                            /\ o.status = "SUBMITTED" \/ ~c.ok)]
    <3>8. r.status = o.status /\ r.fill = o.fill
      BY <3>7 DEF Order
    <3>9. ord' = r /\ pc' = "returned"
      BY <3>2 DEF Return
    <3> HIDE DEF r
    <3>10. Tells(ord', venue'[slot])
      BY <3>3, <3>6, <3>8, <3>9 DEF Tells
    <3>11. QED BY <1>13, <2>1, <2>2, <3>9, <3>10
  <2>6. QED BY <1>20, <2>4, <2>5
<1>21. CASE PreTrade
  <2>1. /\ pc = "start" /\ UNCHANGED <<venue, slot, last, leg, uw, booked>> /\ slot = PRIMARY
        /\ pc' \in {"place", "done"}
    BY <1>21 DEF PreTrade, recovery, IInv, Control
  <2>2. VenueWorks /\ WholeFills'
    BY <1>8, <2>1 DEF Place, RestSell, MarketSell
  <2>3. \A s \in Slots : venue[s].st = "none" /\ venue[s].fill = 0
    <3>1. \A s \in Slots : s = PRIMARY \/ s \in (PRIMARY + 1)..FOK \/ s = REST \/ s = MARKET
      OBVIOUS
    <3>2. \A s \in Slots : venue[s].st = "none"
      BY <2>1, <3>1 DEF IInv, SentOnce, BeforeRest
    <3>3. QED BY <1>1, <3>2 DEF OrderOK
  <2>4. leg["p"] = Placeholder("ABORTED") /\ slot \notin Secondaries /\ Attempt' = Unsent
    BY <1>3, <2>1 DEF TInv, LegsTell, Attempt
  <2>5. LegsTell'
    BY <1>3, <2>1, <2>3, <2>4
       DEF TInv, LegsTell, Tells, Over, Placeholder, TerminalFailed, Settled, Recovering, Rescuing, Unsent
  <2>6. Rescues'
    BY <2>1 DEF Rescues, Recovering, Rescuing
  <2>7. Sells'
    BY <1>3, <2>1, <2>3 DEF TInv, Sells, Selling
  <2>8. Reserved'
    <3>1. Bought' = 0 /\ Sold' = 0 /\ Covered' = 0
      BY <1>3, <2>1, <2>3, <2>4 DEF Bought, Sold, Covered, Unsent
    <3>2. QED BY <1>3, <2>1, <3>1 DEF Reserved, Recovering, Rescuing
  <2>9. QED BY <2>2, <2>5, <2>6, <2>7, <2>8 DEF TInv
<1>22. CASE PrimaryReturned
  <2>1. /\ pc = "returned" /\ slot = PRIMARY /\ UNCHANGED <<venue, ord, last, uw>>
        /\ ord.id \in {NoId, PRIMARY} /\ Tells(ord, venue[PRIMARY])
    BY <1>22 DEF PrimaryReturned, recovery, IInv, Control, TInv, LegsTell
  <2>2. VenueWorks /\ WholeFills'
    BY <1>8, <2>1 DEF Place, RestSell, MarketSell
  <2>3. /\ leg'["p"] = ord
        /\ \/ leg'["s"] = Placeholder("ABORTED") /\ pc' = "decide" /\ slot' = slot
           \/ ord.fill > 0 /\ slot' = FIRST /\ pc' \in {"place", "requote"}
    BY <1>2, <1>3, <1>22 DEF PrimaryReturned
  <2>4. Tells(Placeholder("ABORTED"), Unsent) /\ Placeholder("ABORTED").id = NoId
    BY DEF Tells, Placeholder, Over, TerminalFailed, Unsent
  <2>5. LegsTell'
    <3>1. CASE leg'["s"] = Placeholder("ABORTED") /\ pc' = "decide" /\ slot' = slot
      <4>1. Attempt' = Unsent
        BY <1>3, <2>1, <3>1 DEF Attempt
      <4>2. Over(Unsent)
        BY DEF Over, Unsent
      <4>3. QED
        BY <1>3, <2>1, <2>3, <2>4, <3>1, <4>1, <4>2 DEF TInv, LegsTell, Settled
    <3>2. CASE ord.fill > 0 /\ slot' = FIRST /\ pc' \in {"place", "requote"}
      <4>1. Bought' > 0
        BY <2>1, <3>2 DEF Tells, Bought
      <4>2. QED
        BY <2>1, <2>3, <3>2, <4>1 DEF TInv, LegsTell, Settled, Recovering, Rescuing
    <3>3. QED BY <2>3, <3>1, <3>2
  <2>6. Rescues' /\ Sells' /\ Reserved'
    BY <1>11, <2>1, <2>3 DEF BeforeRest, Recovering, Rescuing
  <2>7. QED BY <2>2, <2>5, <2>6 DEF TInv
<1>23. CASE AttemptReturned
  <2>1. /\ pc = "returned" /\ slot \in Secondaries /\ slot # FOK /\ UNCHANGED <<venue, slot, ord, uw>>
        /\ ord.id \in {NoId, slot} /\ Tells(ord, venue[slot])
        /\ \/ leg' = [leg EXCEPT !["s"] = ord] /\ pc' = "decide" /\ UNCHANGED last
           \/ /\ last' = ord /\ ord.status \notin {"FILLED", "PARTIAL"}
              /\ pc' = "requote" /\ UNCHANGED leg
    BY <1>23 DEF AttemptReturned, recovery, IInv, Control, TInv, LegsTell
  <2>2. VenueWorks /\ WholeFills'
    BY <1>8, <2>1 DEF Place, RestSell, MarketSell
  <2>3. leg'["p"] = leg["p"] /\ (pc' = "decide" => leg'["s"] = ord) /\ Attempt' = venue[slot]
    BY <1>2, <1>3, <2>1 DEF Attempt
  <2>4. Over(venue[slot])
    BY <2>1 DEF Tells
  <2>5. pc' = "requote" => ord.fill = 0 /\ ord.status \in TerminalFailed
    <3>1. ord.fill > 0 => ord.status \in {"FILLED", "PARTIAL"}
      BY <2>1 DEF Tells
    <3>2. ord.fill > 0 \/ ord.fill = 0
      BY <1>2 DEF Order
    <3>3. ord.fill = 0 => ord.status \in TerminalFailed
      BY <2>1 DEF Tells
    <3>4. QED BY <2>1, <3>1, <3>2, <3>3
  <2>6. LegsTell'
    BY <2>1, <2>3, <2>4, <2>5 DEF TInv, LegsTell, Bought, Settled, Recovering, Rescuing
  <2>7. Rescues' /\ Sells' /\ Reserved'
    BY <1>11, <2>1 DEF BeforeRest, Recovering, Rescuing
  <2>8. QED BY <2>2, <2>6, <2>7 DEF TInv
<1>24. CASE Requote \/ RequotesExhausted
  <2>1. /\ pc = "requote" /\ slot \in Secondaries /\ slot' \in Secondaries
        /\ UNCHANGED <<venue, ord, last, uw>>
        /\ \/ leg' = [leg EXCEPT !["s"] = Placeholder("ABORTED")] /\ pc' = "decide" /\ UNCHANGED slot
           \/ pc' \in {"place", "requote"} /\ UNCHANGED leg
    BY <1>24 DEF Requote, RequotesExhausted, recovery, IInv, Control
  <2>2. VenueWorks /\ WholeFills'
    BY <1>8, <2>1 DEF Place, RestSell, MarketSell
  <2>3. leg'["p"] = leg["p"] /\ (pc' = "decide" => leg'["s"] = Placeholder("ABORTED"))
    BY <1>2, <1>3, <2>1
  <2>4. Over(venue[slot]) /\ venue[slot].fill = 0
    BY <1>4, <2>1 DEF IInv, ChainIsDead, Empty, Dead, Over
  <2>5. Tells(Placeholder("ABORTED"), venue[slot]) /\ Placeholder("ABORTED").id = NoId
    BY <2>4 DEF Tells, Placeholder, TerminalFailed
  <2>6. pc' = "decide" => Attempt' = venue[slot]
    BY <2>1 DEF Attempt
  <2>7. LegsTell'
    BY <2>1, <2>3, <2>4, <2>5, <2>6 DEF TInv, LegsTell, Bought, Settled, Recovering, Rescuing
  <2>8. Rescues' /\ Sells' /\ Reserved'
    BY <1>11, <2>1 DEF BeforeRest, Recovering, Rescuing
  <2>9. QED BY <2>2, <2>7, <2>8 DEF TInv
<1>25. CASE FokReturned
  <2>1. /\ pc = "returned" /\ slot = FOK /\ slot \in Secondaries /\ pc' = "decide"
        /\ UNCHANGED <<venue, slot, ord, last, uw>>
        /\ ord.id \in {NoId, slot} /\ Tells(ord, venue[FOK])
        /\ leg' = [leg EXCEPT !["s"] = IF ord.status = "FILLED" THEN ord ELSE last]
    BY <1>25 DEF FokReturned, place, recovery, IInv, Control, TInv, LegsTell
  <2>2. VenueWorks /\ WholeFills'
    BY <1>8, <2>1 DEF Place, RestSell, MarketSell
  <2>3. /\ leg'["p"] = leg["p"] /\ leg'["s"] = IF ord.status = "FILLED" THEN ord ELSE last
        /\ Attempt' = venue[FOK]
    BY <1>2, <1>3, <2>1 DEF Attempt
  <2>4. last # NoOrder
    BY <2>1 DEF NInv, ChainTells, NoOrder, Placeholder
  <2>5. ord.status # "FILLED" => venue[FOK].fill = 0
    BY <2>1, <1>1, <1>3 DEF Tells, TInv, WholeFills
  <2>6. Tells(leg'["s"], venue[FOK]) /\ leg'["s"].id \in {NoId} \cup Secondaries
    BY <2>1, <2>3, <2>4, <2>5 DEF TInv, LegsTell, Tells
  <2>7. LegsTell'
    BY <2>1, <2>3, <2>6 DEF TInv, LegsTell, Tells, Bought, Settled
  <2>8. Rescues' /\ Sells' /\ Reserved'
    BY <1>11, <2>1 DEF BeforeRest, Recovering, Rescuing
  <2>9. QED BY <2>2, <2>7, <2>8 DEF TInv
\* The recovery.
<1>26. CASE Decide
  <2>1. /\ pc = "decide" /\ UNCHANGED <<venue, slot, ord, last, leg, uw>>
        /\ pc' = IF PairStatus = "recovering" THEN "recover" ELSE "done"
        /\ booked' = BookedFor(PairStatus)
    BY <1>26 DEF Decide, place
  <2>2. VenueWorks /\ WholeFills'
    BY <1>8, <2>1 DEF Place, RestSell, MarketSell
  <2>3. /\ venue'[PRIMARY] = venue[PRIMARY] /\ Attempt' = Attempt /\ Covered' = Covered
        /\ Bought' = Bought
    BY <2>1 DEF Attempt, Covered, Bought
  <2>4. LegsTell'
    BY <1>10, <2>1, <2>3 DEF Settled, Recovering
  <2>5. venue[REST].st = "none" /\ venue[MARKET].st = "none"
    BY <2>1 DEF IInv, SentOnce, BeforeRest
  <2>6. Sells'
    BY <2>1, <2>5 DEF TInv, Sells, Selling
  <2>7. Tells(leg["p"], venue[PRIMARY]) /\ Tells(leg["s"], Attempt)
    BY <2>1 DEF TInv, LegsTell, Settled
  <2>8. /\ leg["p"].fill = Bought /\ leg["s"].fill = Covered
        /\ 0 <= leg["p"].fill /\ 0 <= leg["s"].fill /\ Bought <= SuggestedQty
    <3>1. leg["p"].fill \in 0..SuggestedQty /\ leg["s"].fill \in 0..SuggestedQty
      BY <1>3 DEF Order
    <3>2. QED BY <2>7, <3>1 DEF Tells, Bought, Covered
  <2>9. \A x \in Legs : IF leg[x].fill > 0 THEN leg[x].status \in {"FILLED", "PARTIAL"}
                        ELSE leg[x].status \in TerminalFailed
    BY <2>7 DEF Tells, Legs
  <2>10. Covered > 0 => Bought > 0
    BY DEF TInv, LegsTell, Covered, Attempt, Unsent
  <2>11. Covered <= SuggestedQty
    BY <1>3, <2>8 DEF Order
  <2>12. PairStatus = "recovering" => Bought > 0
    <3>1. SUFFICES ASSUME Bought = 0, Covered = 0 PROVE PairStatus # "recovering"
      BY <1>3, <2>8, <2>10
    <3>2. \A x \in Legs : leg[x].status \in TerminalFailed
      BY <2>8, <2>9, <3>1 DEF Legs
    <3>3. \A x \in Legs : ~IsSurvivor(leg[x])
      BY <3>2 DEF IsSurvivor, Surviving, TerminalFailed
    <3>4. QED BY <1>3, <3>2, <3>3 DEF PairStatus
  <2>13. PairStatus = "failed" => Bought = 0 /\ Covered = 0
    <3>1. SUFFICES ASSUME Bought > 0 PROVE PairStatus # "failed"
      BY <1>3, <2>8, <2>10
    <3>2. leg["p"].status \in {"FILLED", "PARTIAL"} /\ leg["p"].fill > 0
      BY <1>3, <2>8, <2>9, <3>1
    <3>3. IsSurvivor(leg["p"])
      BY <3>2 DEF IsSurvivor, Surviving
    <3>4. QED BY <1>3, <3>3 DEF PairStatus
  <2>14. /\ booked'["p"] \in Int /\ booked'["s"] \in Int
         /\ booked'["p"] = BookedFor(PairStatus)["p"] /\ booked'["s"] = BookedFor(PairStatus)["s"]
    BY <1>3, <2>1 DEF BookedFor
  <2>15. PairStatus # "failed" /\ Bought > 0 => booked'["p"] = SuggestedQty /\ Covered <= booked'["s"]
    <3>1. SUFFICES ASSUME PairStatus # "failed", Bought > 0
                   PROVE  booked'["p"] = SuggestedQty /\ Covered <= booked'["s"]
      OBVIOUS
    <3>2. leg["p"].status \in Surviving
      BY <1>3, <2>8, <2>9, <3>1 DEF Surviving
    <3>3. booked'["p"] = SuggestedQty
      BY <1>3, <2>14, <3>1, <3>2 DEF BookedFor
    <3>4. Covered = 0 \/ leg["s"].status \in Surviving
      BY <1>3, <2>8, <2>9 DEF Surviving
    <3>5. booked'["s"] = SuggestedQty \/ (booked'["s"] = 0 /\ leg["s"].status \notin Surviving)
      BY <1>3, <2>14, <3>1 DEF BookedFor
    <3>6. QED BY <2>11, <3>3, <3>4, <3>5
  <2>16. Rescues'
    BY <2>1, <2>3, <2>12 DEF Rescues, Recovering, Rescuing
  <2>17. Sold' = 0
    BY <1>1, <1>3, <2>1, <2>5 DEF Sold, OrderOK
  <2>18. pc' = "done" => Bought - Sold' <= booked'["p"] /\ Covered <= booked'["s"]
    <3>1. CASE PairStatus = "failed"
      <4>1. 0 <= booked'["p"] /\ 0 <= booked'["s"]
        BY <1>3, <2>14 DEF BookedFor
      <4>2. QED BY <2>13, <2>14, <2>17, <3>1, <4>1
    <3>2. CASE PairStatus # "failed" /\ Bought > 0
      BY <1>3, <2>8, <2>15, <2>17, <3>2
    <3>3. CASE PairStatus # "failed" /\ Bought = 0
      <4>1. Covered = 0
        BY <1>3, <2>8, <2>10, <3>3
      <4>2. 0 <= booked'["p"] /\ 0 <= booked'["s"]
        BY <1>3, <2>14 DEF BookedFor
      <4>3. QED BY <2>14, <2>17, <3>3, <4>1, <4>2
    <3>4. QED BY <1>3, <2>8, <3>1, <3>2, <3>3
  <2>19. Reserved'
    <3>1. pc' \in Recovering => booked'["p"] = SuggestedQty /\ Covered <= booked'["s"]
      BY <2>1, <2>12, <2>15 DEF Recovering, Rescuing
    <3>2. QED BY <2>3, <2>18, <3>1 DEF Reserved
  <2>20. QED BY <2>2, <2>4, <2>6, <2>16, <2>19 DEF TInv
<1>27. CASE Recover
  <2>1. /\ pc = "recover" /\ UNCHANGED <<venue, slot, ord, last, leg, uw, booked>>
        /\ pc' = "cancel" /\ open' # {}
    BY <1>27 DEF Recover, place, Raise
  <2>2. VenueWorks /\ WholeFills'
    BY <1>8, <2>1 DEF Place, RestSell, MarketSell
  <2>3. /\ venue'[PRIMARY] = venue[PRIMARY] /\ Attempt' = Attempt /\ Covered' = Covered
        /\ Bought' = Bought /\ Sold' = Sold
    BY <2>1 DEF Attempt, Covered, Bought, Sold
  <2>4. LegsTell'
    BY <1>10, <2>1, <2>3 DEF Settled, Recovering, Rescuing
  <2>5. venue[REST].st = "none" /\ venue[MARKET].st = "none"
    BY <2>1 DEF IInv, SentOnce, BeforeRest
  <2>6. Rescues' /\ Sells' /\ Reserved'
    BY <2>1, <2>3, <2>5 DEF TInv, Rescues, Sells, Reserved, Selling, Recovering, Rescuing
  <2>7. QED BY <2>2, <2>4, <2>6 DEF TInv
<1>28. CASE \E x \in Legs : CancelLeg(x)
  <2>1. PICK x \in Legs : CancelLeg(x)
    BY <1>28
  <2>2. /\ pc = "cancel" /\ leg[x].status \in {"SUBMITTED", "PARTIAL"}
        /\ UNCHANGED <<pc, slot, ord, last, uw, open>> /\ leg[x] \in Order
    BY <1>2, <2>1 DEF CancelLeg, place, alarms, IInv, Control
  <2>3. leg[x].id \in Slots /\ Dead(leg[x].id)
    <3>1. leg[x].id # NoId
      BY <2>2 DEF IInv, Believes, Matches, Surviving, CancelLeg
    <3>2. /\ leg["p"].id \in {NoId, PRIMARY} /\ leg["s"].id \in {NoId} \cup Secondaries
          /\ Over(venue[PRIMARY]) /\ (slot \in Secondaries => Over(venue[slot]))
      BY <2>2 DEF TInv, LegsTell, Settled, Recovering, Rescuing, Tells, Attempt
    <3>3. \A t \in Secondaries : Dead(t)
      BY <1>4, <3>2 DEF IInv, ChainIsDead, Empty, Over, Dead
    <3>4. QED BY <3>1, <3>2, <3>3, SlotFacts DEF Legs, Dead, Over
  <2>4. PICK c \in Cancel(venue[leg[x].id], Faults(leg[x].id)) :
          /\ venue' = [venue EXCEPT ![leg[x].id] = c.v]
          /\ IF c.ok
             THEN /\ leg' = [leg EXCEPT ![x].status = "CANCELLED"]
                  /\ Release(x, c.v.want - leg[x].fill)
             ELSE UNCHANGED <<leg, booked>>
    BY <2>1 DEF CancelLeg
  <2>5. UNCHANGED <<leg, booked>>
    <3>1. Faults(leg[x].id) \subseteq {"answers_early"} /\ venue[leg[x].id].st # "live"
      BY <1>4, <2>3 DEF Dead
    <3>2. ~c.ok
      BY <1>7, <2>3, <2>4, <3>1
    <3>3. QED BY <2>4, <3>2
  <2>6. ~Place /\ ~RestSell /\ ~MarketSell
    BY <2>2 DEF Place, RestSell, MarketSell
  <2>7. QED BY <1>8, <1>12, <2>2, <2>5, <2>6
<1>29. CASE ChooseUnwind
  <2>1. /\ pc = "cancel" /\ UNCHANGED <<venue, slot, ord, last, leg, booked, open>>
        /\ IF Believed("p") = Believed("s")
           THEN pc' = "done" /\ UNCHANGED uw
           ELSE LET x == IF Believed("p") > Believed("s") THEN "p" ELSE "s"
                    o == leg[Other(x)]
                IN /\ uw' = [leg |-> x, qty |-> Believed(x) - Believed(Other(x)), rested |-> 0]
                   /\ pc' = IF o.fill = 0 /\ o.amb THEN "verify" ELSE "unwind"
    BY <1>29 DEF ChooseUnwind, place, alarms
  <2>2. VenueWorks /\ WholeFills'
    BY <1>8, <2>1 DEF Place, RestSell, MarketSell
  <2>3. /\ venue'[PRIMARY] = venue[PRIMARY] /\ Attempt' = Attempt /\ Covered' = Covered
        /\ Bought' = Bought
    BY <2>1 DEF Attempt, Covered, Bought
  <2>4. Believed("p") = Bought /\ Believed("s") = Covered
    <3>1. Tells(leg["p"], venue[PRIMARY]) /\ Tells(leg["s"], Attempt)
      BY <2>1 DEF TInv, LegsTell, Settled, Recovering, Rescuing
    <3>2. leg["p"].fill \in 0..SuggestedQty /\ leg["s"].fill \in 0..SuggestedQty
      BY <1>3 DEF Order
    <3>3. QED BY <3>1, <3>2 DEF Tells, Believed, HasFills, Bought, Covered
  <2>5. /\ Covered \in Int /\ Bought \in Int /\ 0 <= Covered /\ Covered <= Bought
        /\ 0 <= Bought /\ Bought <= SuggestedQty
    <3>1. Bought \in Int /\ 0 <= Bought /\ Bought <= SuggestedQty
      BY <1>1, <1>3 DEF Bought, OrderOK
    <3>2. CASE slot \in Secondaries
      BY <1>1, <1>2, <3>1, <3>2 DEF Covered, Attempt, IInv, Sized, Bought
    <3>3. CASE slot \notin Secondaries
      BY <3>1, <3>3 DEF Covered, Attempt, Unsent
    <3>4. QED BY <3>1, <3>2, <3>3
  <2>6. venue[REST].st = "none" /\ venue[MARKET].st = "none"
    BY <2>1 DEF IInv, SentOnce, BeforeRest
  <2>7. open # {} /\ Bought > 0 /\ uw.leg = "p" /\ booked["p"] = SuggestedQty /\ Covered <= booked["s"]
    BY <2>1 DEF TInv, Rescues, Sells, Reserved, Recovering, Rescuing
  <2>8. CASE Bought = Covered
    <3>1. pc' = "done" /\ UNCHANGED uw
      BY <2>1, <2>4, <2>8
    <3>2. LegsTell'
      BY <1>10, <2>1, <2>3, <3>1 DEF Settled, Recovering, Rescuing
    <3>3. Rescues' /\ Sells' /\ Reserved'
      BY <2>1, <2>6, <2>7, <3>1 DEF Rescues, Sells, Reserved, Selling, Recovering, Rescuing
    <3>4. QED BY <2>2, <3>2, <3>3 DEF TInv
  <2>9. CASE Bought # Covered
    <3>1. /\ uw' = [leg |-> "p", qty |-> Bought - Covered, rested |-> 0]
          /\ pc' = IF leg["s"].fill = 0 /\ leg["s"].amb THEN "verify" ELSE "unwind"
      BY <2>1, <2>4, <2>5, <2>9 DEF Other
    <3>2. LegsTell'
      BY <1>10, <2>1, <2>3, <3>1 DEF Settled, Recovering, Rescuing
    <3>3. uw'.leg = "p" /\ uw'.qty = Bought - Covered /\ uw'.qty > 0
      BY <2>5, <2>9, <3>1
    <3>4. Sells'
      BY <2>1, <2>3, <2>6, <3>1, <3>3 DEF Sells, Selling
    <3>5. Rescues' /\ Reserved'
      BY <2>1, <2>3, <2>7, <3>1 DEF Rescues, Reserved, Recovering, Rescuing
    <3>6. QED BY <2>2, <3>2, <3>4, <3>5 DEF TInv
  <2>10. QED BY <2>8, <2>9
<1>30. CASE Verify
  <2>1. /\ pc = "verify" /\ UNCHANGED <<venue, slot, ord, last, booked>>
        /\ leg["s"].fill = 0 /\ leg["s"].amb /\ uw.qty > 0 /\ uw.leg = "p"
    BY <1>30 DEF Verify, place, TInv, Sells
  <2>2. VenueWorks /\ WholeFills'
    BY <1>8, <2>1 DEF Place, RestSell, MarketSell
  <2>3. PICK o \in (IF leg["s"].id = NoId THEN {leg["s"]}
                    ELSE GetOrder(leg["s"], venue[leg["s"].id], Faults(leg["s"].id))) :
          /\ leg' = [leg EXCEPT !["s"] = o]
          /\ CASE o.fill >= uw.qty ->
                    /\ open' = open \cup {"late_fill_balanced"}
                    /\ pc' = "done"
                    /\ UNCHANGED <<uw, paged>>
               [] o.fill \in 1..(uw.qty - 1) ->
                    /\ uw' = [uw EXCEPT !.qty = @ - o.fill]
                    /\ pc' = "unwind"
                    /\ UNCHANGED alarms
               [] o.fill = 0 /\ ~o.amb /\ o.status \in TerminalFailed ->
                    /\ pc' = "unwind"
                    /\ UNCHANGED <<uw, alarms>>
               [] OTHER ->
                    /\ Raise("unwind_blocked")
                    /\ pc' = "done"
                    /\ UNCHANGED uw
    BY <1>30, <2>1 DEF Verify, Other
  <2>4. o.fill = 0 /\ o.amb
    <3>1. CASE leg["s"].id = NoId
      BY <2>1, <2>3, <3>1
    <3>2. CASE leg["s"].id # NoId
      <4>1. leg["s"].id \in Secondaries /\ Tells(leg["s"], Attempt)
        BY <2>1, <3>2 DEF TInv, LegsTell, Settled, Recovering, Rescuing
      <4>2. venue[leg["s"].id].fill = 0
        BY <1>4, <2>1, <4>1 DEF IInv, ChainIsDead, Empty, Tells, Attempt
      <4>3. Faults(leg["s"].id) \subseteq {"answers_early"}
        BY <1>4, <4>1, SlotFacts
      <4>4. QED BY <1>3, <1>6, <2>1, <2>3, <3>2, <4>2, <4>3
    <3>3. QED BY <3>1, <3>2
  <2>5. ~(o.fill >= uw.qty) /\ o.fill \notin 1..(uw.qty - 1)
        /\ ~(o.fill = 0 /\ ~o.amb /\ o.status \in TerminalFailed)
    BY <1>3, <2>1, <2>4
  <2>6. pc' = "done" /\ UNCHANGED uw /\ open' # {} /\ leg'["p"] = leg["p"]
    BY <1>2, <1>3, <2>3, <2>5 DEF Raise
  <2>7. /\ venue'[PRIMARY] = venue[PRIMARY] /\ Attempt' = Attempt /\ Bought' = Bought
    BY <2>1 DEF Attempt, Bought
  <2>8. LegsTell'
    BY <2>1, <2>6, <2>7 DEF TInv, LegsTell, Settled, Recovering, Rescuing
  <2>9. venue[REST].st = "none" /\ venue[MARKET].st = "none"
    BY <2>1 DEF IInv, SentOnce, BeforeRest
  <2>10. Rescues' /\ Sells' /\ Reserved'
    BY <2>1, <2>6, <2>9 DEF Rescues, Sells, Reserved, Selling, Recovering, Rescuing
  <2>11. QED BY <2>2, <2>8, <2>10 DEF TInv
<1>31. CASE RestSell
  <2>1. /\ pc = "unwind" /\ Send(REST, uw.qty) /\ pc' = "rest_reply"
        /\ UNCHANGED <<ord, leg, slot, last, uw, booked, open>>
    BY <1>31 DEF RestSell, place, recovery, alarms
  <2>2. /\ venue'[REST].want = uw.qty /\ venue'[REST].st = "flying"
        /\ \A t \in Slots \ {REST} : venue'[t] = venue[t]
    BY <1>1, <1>3, <2>1 DEF Send, VenueOK
  <2>3. \A s \in PRIMARY..FOK : venue'[s] = venue[s]
    BY <2>2, SlotFacts
  <2>4. /\ venue'[PRIMARY] = venue[PRIMARY] /\ Attempt' = Attempt /\ Covered' = Covered
        /\ Bought' = Bought
    BY <1>9, <2>1, <2>3 DEF Settled, Recovering, Rescuing
  <2>5. WholeFills'
    <3>1. FOK \in PRIMARY..FOK
      OBVIOUS
    <3>2. QED BY <2>3, <3>1 DEF TInv, WholeFills
  <2>6. LegsTell'
    BY <1>10, <2>1, <2>4 DEF Settled, Recovering, Rescuing
  <2>7. venue'[MARKET].st = "none"
    BY <1>3, <2>1, <2>2 DEF IInv, SentOnce, BeforeRest
  <2>8. Sells'
    BY <2>1, <2>2, <2>4, <2>7 DEF TInv, Sells, Selling
  <2>9. Rescues' /\ Reserved'
    BY <2>1, <2>4 DEF TInv, Rescues, Reserved, Recovering, Rescuing
  <2>10. QED BY <2>5, <2>6, <2>8, <2>9 DEF TInv
\* The resting sell and the market one.
<1>32. ASSUME pc \in Selling, pc' \in Selling, \A s \in PRIMARY..FOK : Dead(s) => venue'[s] = venue[s],
              WholeFills', Sells', UNCHANGED <<slot, leg, last, booked, open>>
       PROVE  TInv'
  <2>1. /\ venue'[PRIMARY] = venue[PRIMARY] /\ Attempt' = Attempt /\ Covered' = Covered
        /\ Bought' = Bought
    BY <1>9, <1>32 DEF Settled, Recovering, Rescuing, Selling
  <2>2. LegsTell'
    BY <1>10, <1>32, <2>1 DEF Settled, Recovering, Rescuing, Selling
  <2>3. Rescues' /\ Reserved'
    BY <1>32, <2>1 DEF TInv, Rescues, Reserved, Recovering, Rescuing, Selling
  <2>4. QED BY <1>32, <2>2, <2>3 DEF TInv
<1>33. ASSUME pc \in Selling
       PROVE  /\ uw.leg = "p" /\ uw.qty > 0 /\ uw.qty = Bought - Covered
              /\ venue[REST].st # "none" => venue[REST].want = uw.qty
              /\ pc \in Rescuing /\ pc \in Settled /\ Covered \in Int /\ Bought \in Int
  <2>1. Bought \in Int
    BY <1>1, <1>3 DEF Bought
  <2>2. Covered \in Int
    BY <1>1, <1>2 DEF Covered, Attempt, Unsent
  <2>3. QED
    BY <1>33, <2>1, <2>2 DEF TInv, Sells, Selling, Rescuing, Settled, Recovering
<1>34. CASE RestReply
  <2>1. /\ pc = "rest_reply" /\ UNCHANGED <<venue, leg, slot, last, uw>>
        /\ venue[REST].st # "none" /\ venue[MARKET].st = "none" /\ uw.rested = 0
    BY <1>34 DEF RestReply, place, IInv, SentOnce, Control
  <2>2. VenueWorks /\ WholeFills' /\ pc \in Selling
    BY <1>8, <2>1 DEF Place, RestSell, MarketSell, Selling
  <2>3. UNCHANGED <<Bought, Covered>>
    BY <2>1 DEF Bought, Covered, Attempt
  <2>4. CASE \E st \in StatusesOf(venue[REST], UnwindFaults) : st = "FILLED" /\ Close(uw.qty)
    <3>1. venue[REST].fill = uw.qty
      <4>1. PICK st \in StatusesOf(venue[REST], UnwindFaults) : st = "FILLED"
        BY <2>4
      <4>2. venue[REST].fill = venue[REST].want
        BY <4>1 DEF StatusesOf
      <4>3. QED BY <1>33, <2>1, <2>2, <4>2
    <3>2. Sold' = uw.qty
      BY <1>1, <1>3, <2>1, <3>1 DEF Sold, OrderOK
    <3>3. Sells'
      BY <1>33, <2>1, <2>2, <2>3, <2>4 DEF Close, Sells, Selling
    <3>4. QED BY <1>3, <1>14, <1>33, <2>1, <2>2, <2>4, <3>2, <3>3
  <2>5. CASE /\ \E st \in StatusesOf(venue[REST], UnwindFaults) :
                  /\ Answered(REST) /\ st # "FILLED"
                  /\ ord' = [id |-> REST, status |-> st, fill |-> venue[REST].fill, amb |-> FALSE]
                  /\ pc' = IF st \in {"FAILED", "CANCELLED"} THEN "market" ELSE "rest_poll"
             /\ UNCHANGED <<booked, open>>
    <3>1. PICK st \in StatusesOf(venue[REST], UnwindFaults) :
                  /\ Answered(REST) /\ st # "FILLED"
                  /\ pc' = IF st \in {"FAILED", "CANCELLED"} THEN "market" ELSE "rest_poll"
      BY <2>5
    <3>2. venue[REST].st \in {"live", "ended", "refused"}
      BY <3>1 DEF Answered
    <3>3. st \in {"FAILED", "CANCELLED"} => Over(venue[REST]) /\ venue[REST].fill = 0
      BY <1>1, <1>3, <1>4, <1>5, <3>1, <3>2
    <3>4. Sells'
      BY <1>33, <2>1, <2>2, <2>3, <3>1, <3>2, <3>3 DEF Sells, Selling, Dead, Over
    <3>5. QED BY <1>32, <2>1, <2>2, <2>5, <3>1, <3>4 DEF Selling
  <2>6. CASE /\ Raised(REST) \/ "fails_late" \in UnwindFaults
             /\ pc' = "market" /\ UNCHANGED <<booked, open>>
    <3>1. venue[REST].st = "refused" /\ venue[REST].fill = 0
      BY <1>1, <1>3, <1>4, <2>6 DEF Raised, OrderOK
    <3>2. Sells'
      BY <1>33, <2>1, <2>2, <2>3, <2>6, <3>1 DEF Sells, Selling, Dead
    <3>3. QED BY <1>32, <2>1, <2>2, <2>6, <3>2 DEF Selling
  <2>7. QED BY <1>34, <2>4, <2>5, <2>6 DEF RestReply
<1>35. CASE RestPoll
  <2>1. /\ pc = "rest_poll" /\ UNCHANGED <<venue, leg, slot, last, uw>>
        /\ venue[REST].st \notin {"none", "flying"} /\ venue[MARKET].st = "none" /\ ord.id = REST
    BY <1>35 DEF RestPoll, place, IInv, SentOnce, Control, TInv, Sells
  <2>2. VenueWorks /\ WholeFills' /\ pc \in Selling
    BY <1>8, <2>1 DEF Place, RestSell, MarketSell, Selling
  <2>3. UNCHANGED <<Bought, Covered>>
    BY <2>1 DEF Bought, Covered, Attempt
  <2>4. PICK o \in GetOrder(ord, venue[REST], UnwindFaults) :
          IF o.status = "FILLED" THEN Close(uw.qty) ELSE UNCHANGED <<pc, booked, open>>
    BY <1>35 DEF RestPoll
  <2>5. CASE o.status = "FILLED"
    <3>1. venue[REST].fill = venue[REST].want
      <4>1. o.status \in StatusesOf(venue[REST], UnwindFaults)
        BY <1>2, <1>4, <1>6, <2>1, <2>4, SlotFacts
      <4>2. QED BY <2>5, <4>1 DEF StatusesOf
    <3>2. Sold' = uw.qty
      BY <1>1, <1>3, <1>33, <2>1, <2>2, <3>1 DEF Sold, OrderOK
    <3>3. Sells'
      BY <1>33, <2>1, <2>2, <2>3, <2>4, <2>5 DEF Close, Sells, Selling
    <3>4. QED BY <1>3, <1>14, <1>33, <2>1, <2>2, <2>4, <2>5, <3>2, <3>3
  <2>6. CASE o.status # "FILLED"
    <3>1. Sells'
      BY <2>1, <2>2, <2>3, <2>4, <2>6 DEF TInv, Sells, Dead
    <3>2. QED BY <1>32, <2>1, <2>2, <2>4, <2>6, <3>1
  <2>7. QED BY <2>5, <2>6
<1>36. CASE RestCancel
  <2>1. /\ pc = "rest_poll" /\ UNCHANGED <<leg, slot, last>>
        /\ venue[REST].st \notin {"none", "flying"} /\ venue[MARKET].st = "none" /\ ord.id = REST
        /\ uw.rested = 0
    BY <1>36 DEF RestCancel, place, IInv, SentOnce, Control, TInv, Sells
  <2>2. VenueWorks /\ WholeFills' /\ pc \in Selling
    BY <1>8, <2>1 DEF Place, RestSell, MarketSell, Selling
  <2>3. PICK c \in Cancel(venue[REST], UnwindFaults) :
         /\ venue' = [venue EXCEPT ![REST] = c.v]
         /\ \E o \in GetOrder(ord, c.v, UnwindFaults) :
              /\ ord' = o
              /\ IF o.status = "FILLED" \/ o.fill >= uw.qty
                 THEN Close(o.fill) /\ UNCHANGED uw
                 ELSE /\ uw' = [uw EXCEPT !.rested = o.fill]
                      /\ pc' = "market"
                      /\ UNCHANGED <<booked, open>>
    BY <1>36 DEF RestCancel
  <2>4. PICK o \in GetOrder(ord, c.v, UnwindFaults) :
              IF o.status = "FILLED" \/ o.fill >= uw.qty
                 THEN Close(o.fill) /\ UNCHANGED uw
                 ELSE /\ uw' = [uw EXCEPT !.rested = o.fill]
                      /\ pc' = "market"
                      /\ UNCHANGED <<booked, open>>
    BY <2>3
  <2>5. venue'[REST] = c.v /\ \A t \in Slots \ {REST} : venue'[t] = venue[t]
    BY <1>1, <1>3, <2>3 DEF VenueOK
  <2>6. \A s \in PRIMARY..FOK : Dead(s) => venue'[s] = venue[s]
    BY <2>5, SlotFacts
  <2>7. /\ c.v.want = venue[REST].want /\ c.v.st \in {"ended", "refused"}
    <3>1. /\ c.v.want = venue[REST].want
          /\ c.v.st = IF venue[REST].st = "live" THEN "ended" ELSE venue[REST].st
      BY <1>3, <1>4, <1>7, <2>3
    <3>2. QED BY <1>1, <1>3, <2>1, <3>1 DEF OrderOK
  <2>8. o.fill = venue'[REST].fill
    BY <1>2, <1>4, <1>6, <2>1, <2>4, <2>5, SlotFacts
  <2>9. venue'[MARKET].st = "none" /\ venue'[MARKET].fill = 0 /\ o.fill \in Int /\ 0 <= o.fill
    BY <1>1, <1>3, <2>1, <2>5, <2>8 DEF OrderOK
  <2>10. UNCHANGED <<Bought, Covered>>
    BY <1>9, <1>33, <2>1, <2>2, <2>6
  <2>11. CASE o.status = "FILLED" \/ o.fill >= uw.qty
    <3>1. Close(o.fill) /\ UNCHANGED uw /\ pc' = "done"
      BY <2>4, <2>11 DEF Close
    <3>2. Sells'
      BY <1>33, <2>1, <2>2, <2>5, <2>7, <2>9, <2>10, <3>1 DEF Sells, Selling
    <3>3. o.fill <= Sold'
      BY <1>1, <1>3, <2>8, <2>9 DEF Sold
    <3>4. QED BY <1>14, <1>33, <2>1, <2>2, <2>6, <2>9, <3>1, <3>2, <3>3
  <2>12. CASE ~(o.status = "FILLED" \/ o.fill >= uw.qty)
    <3>1. uw' = [uw EXCEPT !.rested = o.fill] /\ pc' = "market" /\ UNCHANGED <<booked, open>>
      BY <2>4, <2>12
    <3>2. uw'.leg = uw.leg /\ uw'.qty = uw.qty /\ uw'.rested = o.fill
      BY <1>2, <3>1
    <3>3. Sells'
      BY <1>33, <2>1, <2>2, <2>5, <2>7, <2>8, <2>9, <2>10, <3>1, <3>2 DEF Sells, Selling, Dead
    <3>4. QED BY <1>32, <2>1, <2>2, <2>6, <3>1, <3>3 DEF Selling
  <2>13. QED BY <2>11, <2>12
<1>37. CASE MarketSell
  <2>1. /\ pc = "market" /\ Send(MARKET, uw.qty - uw.rested) /\ pc' = "market_reply"
        /\ UNCHANGED <<ord, leg, slot, last, uw, booked, open>>
        /\ venue[REST].st # "none" /\ Dead(REST) /\ uw.rested = venue[REST].fill
    BY <1>37 DEF MarketSell, place, recovery, alarms, TInv, Sells
  <2>2. /\ venue'[MARKET].want = uw.qty - uw.rested
        /\ \A t \in Slots \ {MARKET} : venue'[t] = venue[t]
    BY <1>1, <1>3, <2>1 DEF Send, VenueOK
  <2>3. /\ \A s \in PRIMARY..FOK : venue'[s] = venue[s]
        /\ venue'[REST] = venue[REST] /\ pc \in Selling
    BY <1>3, <2>1, <2>2, SlotFacts DEF Selling
  <2>4. WholeFills'
    <3>1. FOK \in PRIMARY..FOK
      OBVIOUS
    <3>2. QED BY <2>3, <3>1 DEF TInv, WholeFills
  <2>5. UNCHANGED <<Bought, Covered>>
    BY <1>9, <1>33, <2>1, <2>3
  <2>6. Sells'
    BY <1>33, <2>1, <2>2, <2>3, <2>5 DEF Sells, Selling, Dead
  <2>7. QED BY <1>32, <2>1, <2>3, <2>4, <2>6 DEF Selling
<1>38. CASE MarketReply \/ MarketRaises
  <2>1. /\ pc = "market_reply" /\ UNCHANGED <<venue, leg, slot, last, uw>> /\ pc' = "done"
        /\ uw.rested = venue[REST].fill
    BY <1>38 DEF MarketReply, MarketRaises, Close, place, TInv, Sells
  <2>2. VenueWorks /\ WholeFills' /\ pc \in Selling
    BY <1>8, <2>1 DEF Place, RestSell, MarketSell, Selling
  <2>3. UNCHANGED <<Bought, Covered, Sold>>
    BY <2>1 DEF Bought, Covered, Attempt, Sold
  <2>4. Sells'
    BY <2>1, <2>2, <2>3 DEF TInv, Sells, Selling, Dead
  <2>5. Sold = venue[REST].fill + venue[MARKET].fill /\ Sold \in Int /\ 0 <= Sold
    BY <1>1, <1>3 DEF Sold
  <2>6. CASE MarketReply
    <3>1. \E n \in {Sold, 0} : Close(n)
      BY <1>1, <1>3, <1>4, <2>1, <2>5, <2>6 DEF MarketReply
    <3>2. QED BY <1>14, <1>33, <2>1, <2>2, <2>3, <2>4, <2>5, <3>1
  <2>7. CASE MarketRaises
    <3>1. open' # {}
      BY <2>7 DEF MarketRaises, Raise
    <3>2. Rescues' /\ Reserved'
      BY <2>1, <3>1 DEF Rescues, Reserved, Recovering, Rescuing
    <3>3. LegsTell'
      BY <1>9, <1>10, <1>33, <2>1, <2>2 DEF Settled
    <3>4. QED BY <2>2, <2>4, <3>2, <3>3 DEF TInv
  <2>8. QED BY <1>38, <2>6, <2>7
<1>39. CASE Venue \/ DbFlips \/ UNCHANGED vars
  <2>1. UNCHANGED <<pc, slot, ord, last, leg, uw, booked, open>>
    BY <1>39 DEF Venue, DbFlips, vars, place, recovery, alarms
  <2>2. ~Place /\ ~RestSell /\ ~MarketSell
    BY <2>1 DEF Place, RestSell, MarketSell
  <2>3. QED BY <1>8, <1>12, <2>1, <2>2
<1>40. QED
  BY <1>15, <1>16, <1>17, <1>18, <1>19, <1>20, <1>21, <1>22, <1>23, <1>24, <1>25, <1>26, <1>27,
     <1>28, <1>29, <1>30, <1>31, <1>34, <1>35, <1>36, <1>37, <1>38, <1>39 DEF Next, Engine

\* What the attempt in progress covers is all that is hedged; never more is hedged
\* than bought, nor sold than the excess; and a trade that is over is balanced or
\* has raised the alarm.
Sums ==
    /\ Bought \in Int /\ Hedged \in Int /\ Sold \in Int
    /\ 0 <= Hedged /\ 0 <= Sold /\ Hedged = Covered
    /\ Hedged + Sold <= Bought /\ Bought <= SuggestedQty
    /\ pc \in {"done", "raised"} => paged \/ Bought = Hedged + Sold

\* _recover_one_leg_risk and _smart_unwind sell no more than the excess of the leg
\* they unwind, what is held at the end is booked or has an open incident, and the
\* first sell is sent when every attempt is over at its venue, when the adapters
\* tell the truth.
THEOREM RecoveryStaysPaired ==
    ASSUME Truthful
    PROVE  Spec => /\ [](IInv /\ NInv /\ TInv /\ Sums /\ MatchedStaysPaired /\ BookedCovers)
                   /\ UnwindOnlyAgainstDead
<1>1. SecondaryIsHonest /\ PrimaryIsFrank
  BY DEF Truthful, SecondaryIsHonest, PrimaryIsFrank
<1>2. Spec => []IInv /\ []NInv
  BY <1>1, InvariantHolds, NakedPositionsArePaged, PTL
<1>3. Init => TInv
  <2> SUFFICES ASSUME Init PROVE TInv
    OBVIOUS
  <2>1. /\ \A s \in Slots : venue[s].st = "none" /\ venue[s].want = 0 /\ venue[s].fill = 0
        /\ pc = "start" /\ slot = PRIMARY /\ last = NoOrder /\ leg["p"] = Placeholder("ABORTED")
        /\ uw.leg = "p"
    BY DEF Init, Legs
  <2>2. WholeFills
    BY <2>1, SlotFacts DEF WholeFills
  <2>3. LegsTell
    BY <2>1, SlotFacts DEF LegsTell, Settled, Recovering, Rescuing
  <2>4. Rescues /\ Sells /\ Reserved
    BY <2>1, SlotFacts DEF Rescues, Sells, Reserved, Recovering, Rescuing, Selling
  <2>5. QED BY <2>2, <2>3, <2>4 DEF TInv
<1>4. IInv /\ IInv' /\ NInv /\ TInv /\ [Next]_vars => TInv'
  BY TruthIsKept
<1>5. IInv /\ NInv /\ TInv => Sums
  <2> SUFFICES ASSUME IInv, NInv, TInv PROVE Sums
    OBVIOUS
  <2>1. /\ VenueOK /\ slot \in PRIMARY..FOK /\ uw.qty \in Int /\ SuggestedQty \in Int
        /\ \A s \in Slots : OrderOK(venue[s]) /\ venue[s].fill \in Int /\ venue[s].want \in Int
                            /\ 0 <= venue[s].fill /\ venue[s].fill <= venue[s].want
                            /\ venue[s].fill <= SuggestedQty
    BY VenueOrders DEF IInv, EngineOK, OrderOK
  <2>2. PRIMARY \in Slots /\ REST \in Slots /\ MARKET \in Slots /\ FIRST \in Secondaries /\ Secondaries \subseteq Slots
    OBVIOUS
  <2>3. Hedged = Covered
    <3>1. CASE slot \in Secondaries
      <4>1. \A s \in Secondaries \ {slot} : venue[s].fill = 0
        BY <1>1 DEF IInv, ChainIsDead, Empty
      <4>2. QED BY <2>1, <3>1, <4>1, HedgedIsLast DEF Covered, Attempt
    <3>2. CASE slot \notin Secondaries
      <4>1. \A s \in Secondaries : venue[s].fill = 0
        BY <1>1, <3>2 DEF IInv, ChainIsDead, Empty
      <4>2. QED BY <2>1, <2>2, <3>2, <4>1, HedgedIsLast DEF Covered, Attempt, Unsent
    <3>3. QED BY <3>1, <3>2
  <2>4. Covered \in Int /\ 0 <= Covered /\ Covered <= Bought
    <3>1. CASE slot \in Secondaries
      BY <2>1, <2>2, <3>1 DEF Covered, Attempt, Bought, IInv, Sized
    <3>2. CASE slot \notin Secondaries
      BY <2>1, <2>2, <3>2 DEF Covered, Attempt, Unsent, Bought
    <3>3. QED BY <3>1, <3>2
  <2>5. Bought \in Int /\ Bought <= SuggestedQty /\ Sold \in Int /\ 0 <= Sold
    BY <2>1, <2>2 DEF Bought, Sold
  <2>6. Covered + Sold <= Bought
    <3>1. CASE venue[REST].st = "none"
      <4>1. venue[MARKET].st = "none"
        BY <3>1 DEF TInv, Sells
      <4>2. Sold = 0
        BY <2>1, <2>2, <3>1, <4>1 DEF Sold, OrderOK
      <4>3. QED BY <2>4, <2>5, <4>2
    <3>2. CASE venue[REST].st # "none" /\ venue[MARKET].st = "none"
      <4>1. venue[MARKET].fill = 0
        BY <2>1, <2>2, <3>2 DEF OrderOK
      <4>2. venue[REST].want = Bought - Covered
        BY <3>2 DEF TInv, Sells
      <4>3. QED BY <2>1, <2>2, <2>4, <2>5, <4>1, <4>2 DEF Sold
    <3>3. CASE venue[REST].st # "none" /\ venue[MARKET].st # "none"
      <4>1. venue[MARKET].want = Bought - Covered - venue[REST].fill
        BY <3>3 DEF TInv, Sells
      <4>2. QED BY <2>1, <2>2, <2>4, <2>5, <4>1 DEF Sold
    <3>4. QED BY <3>1, <3>2, <3>3
  <2>7. ASSUME pc \in {"done", "raised"}, ~paged PROVE Bought = Covered + Sold
    <3>1. CASE Bought = 0
      BY <2>4, <2>5, <2>6, <3>1
    <3>2. CASE Bought # 0
      <4>1. pc = "done"
        BY <2>7, <3>2 DEF TInv, LegsTell
      <4>2. Tells(leg["p"], venue[PRIMARY])
        BY <4>1 DEF TInv, LegsTell, Settled
      <4>3. leg["p"].fill # 0
        BY <3>2, <4>2 DEF Tells, Bought
      <4>4. Balanced
        BY <2>7, <4>1, <4>3 DEF NInv, Alarmed
      <4>5. Sold = 0
        BY <2>1, <2>2, <4>4 DEF Balanced, Sold, OrderOK
      <4>6. QED BY <2>5, <4>4, <4>5 DEF Balanced, Covered, Attempt
    <3>3. QED BY <3>1, <3>2
  <2>8. QED BY <2>3, <2>4, <2>5, <2>6, <2>7 DEF Sums
<1>6. IInv /\ TInv /\ Sums => MatchedStaysPaired /\ BookedCovers
  <2> SUFFICES ASSUME IInv, TInv, Sums PROVE MatchedStaysPaired /\ BookedCovers
    OBVIOUS
  <2>1. uw.leg = "p"
    BY DEF TInv, Sells
  <2>2. MatchedStaysPaired
    BY <2>1 DEF MatchedStaysPaired, Sums
  <2>3. BookedCovers
    BY <2>1 DEF BookedCovers, Held, Legs, TInv, Reserved, Sums
  <2>4. QED BY <2>2, <2>3
<1>7. IInv /\ TInv /\ [Next]_vars =>
        [venue[REST].st = "none" /\ venue'[REST].st # "none"
           => \A s \in PRIMARY..FOK : Dead(s)]_vars
  <2> SUFFICES ASSUME IInv, TInv, Next, venue[REST].st = "none", venue'[REST].st # "none",
                      NEW s \in PRIMARY..FOK
               PROVE  Dead(s)
    OBVIOUS
  <2>1. VenueOK /\ slot \in Slots /\ slot # REST /\ REST \in Slots /\ REST # MARKET
    BY SlotFacts DEF IInv, EngineOK
  <2>2. ~VenueWorks
    BY <2>1 DEF VenueWorks
  <2>3. ~(Place \/ MarketSell)
    BY <2>1 DEF Place, MarketSell, Send, VenueOK
  <2>4. RestSell
    BY <2>2, <2>3, VenueMoves
  <2>5. Over(venue[PRIMARY]) /\ (slot \in Secondaries => Over(venue[slot]))
    BY <2>4 DEF RestSell, TInv, LegsTell, Settled, Recovering, Rescuing, Tells, Attempt
  <2>6. \A t \in Secondaries \ {slot} : Dead(t)
    BY DEF IInv, ChainIsDead, Empty, Truthful, SecondaryIsHonest
  <2>7. s = PRIMARY \/ s \in Secondaries
    OBVIOUS
  <2>8. QED BY <2>5, <2>6, <2>7 DEF Over, Dead
<1>8. QED
  BY <1>2, <1>3, <1>4, <1>5, <1>6, <1>7, PTL DEF Spec, UnwindOnlyAgainstDead

-----------------------------------------------------------------------------
(* The trade the engine promises.                                           *)

\* A secondary without a rival holds all that is hedged.
HedgedAlone ==
    \A t \in Secondaries : (\A s \in Secondaries \ {t} : venue[s].fill = 0) => Hedged = venue[t].fill

Tracked == IInv /\ NInv /\ TInv /\ Sums

\* The engine keeps the promise of a paired trade: every step of it and of the
\* venues, seen through what is bought, hedged and sold, is a step of PairedTrade or
\* a stutter. The fills are Buy, Hedge and Sell; the first secondary sent is
\* StartHedge, the first sell StartUnwind, a page Alarm, and a return End.
THEOREM TradeIsKept ==
    ASSUME Truthful
    PROVE  Spec => KeepsTrade /\ []Trade!Promise
<1>1. SecondaryIsHonest /\ PrimaryIsFrank
  BY DEF Truthful, SecondaryIsHonest, PrimaryIsFrank
<1>2. Init => Trade!Init
  <2> SUFFICES ASSUME Init PROVE Trade!Init
    OBVIOUS
  <2>1. /\ \A s \in Slots : venue[s].st = "none" /\ venue[s].fill = 0
        /\ VenueOK /\ pc = "start" /\ paged = FALSE
    BY DEF Init, VenueOK
  <2>2. PRIMARY \in Slots /\ REST \in Slots /\ MARKET \in Slots /\ FIRST \in Secondaries /\ Secondaries \subseteq Slots
    OBVIOUS
  <2>3. Hedged = 0
    BY <2>1, <2>2, HedgedIsLast
  <2>4. Bought = 0 /\ Sold = 0
    BY <2>1, <2>2 DEF Bought, Sold
  <2>5. Phase = "opening"
    BY <2>1, <2>2 DEF Phase
  <2>6. QED BY <2>1, <2>3, <2>4, <2>5 DEF Trade!Init
<1>3. IInv => HedgedAlone
  BY HedgedIsLast DEF IInv, HedgedAlone
<1>4. IInv' => HedgedAlone'
  BY <1>3, PTL
<1>5. Tracked /\ Tracked' /\ [Next]_vars => [Trade!Next]_(Trade!vars)
  <2> SUFFICES ASSUME Tracked, Tracked', [Next]_vars PROVE [Trade!Next]_(Trade!vars)
    OBVIOUS
  <2>1. /\ VenueOK /\ slot \in Slots /\ slot \in PRIMARY..FOK /\ PRIMARY \in Slots /\ REST \in Slots
        /\ MARKET \in Slots /\ FIRST \in Secondaries /\ Secondaries \subseteq Slots
        /\ REST # MARKET /\ REST # PRIMARY /\ MARKET # PRIMARY /\ PRIMARY \notin Secondaries
        /\ REST \notin Secondaries /\ MARKET \notin Secondaries
        /\ \A s \in Slots : venue[s].fill \in Int /\ venue'[s].fill \in Int
                            /\ (venue[s].st = "none" => venue[s].fill = 0)
    <3>1. VenueOK /\ VenueOK' /\ slot \in PRIMARY..FOK
      BY DEF Tracked, IInv, EngineOK
    <3>2. \A s \in Slots : OrderOK(venue[s]) /\ OrderOK(venue'[s])
      BY <3>1 DEF VenueOK, OrderOK
    <3>3. \A s \in Slots : venue[s].fill \in Int /\ venue'[s].fill \in Int
                            /\ (venue[s].st = "none" => venue[s].fill = 0)
      BY <3>2, VenueOrders DEF OrderOK
    <3>4. QED BY <3>1, <3>3
  <2>2. \A t \in Secondaries \ {slot} : Dead(t) /\ venue[t].fill = 0
    BY <1>1 DEF Tracked, IInv, ChainIsDead, Empty
  \* What is hedged changes with the fill of the attempt in progress only.
  <2>3. ASSUME \A t \in Secondaries : venue'[t].fill = venue[t].fill
        PROVE  Hedged' = Hedged
    <3>1. PICK t \in Secondaries : \A s \in Secondaries \ {t} : venue[s].fill = 0
      <4>1. CASE slot \in Secondaries
        BY <2>2, <4>1
      <4>2. CASE slot \notin Secondaries
        BY <2>1, <2>2, <4>2
      <4>3. QED BY <4>1, <4>2
    <3>2. QED BY <1>3, <1>4, <2>3, <3>1 DEF Tracked, HedgedAlone
  <2>4. /\ Bought \in Int /\ Hedged \in Int /\ Sold \in Int /\ Bought' \in Int /\ Hedged' \in Int /\ Sold' \in Int
        /\ 0 <= Hedged /\ 0 <= Sold /\ 0 <= Hedged' /\ 0 <= Sold' /\ Hedged + Sold <= Bought
        /\ Hedged' + Sold' <= Bought' /\ Bought' <= SuggestedQty
        /\ pc' \in {"done", "raised"} => paged' \/ Bought' = Hedged' + Sold'
        /\ paged \in BOOLEAN
    BY DEF Tracked, Sums, IInv, EngineOK
  <2>5. ~Place /\ ~RestSell /\ ~MarketSell =>
          /\ \A s \in Slots : venue'[s].st = "none" <=> venue[s].st = "none"
          /\ Venue \/ \A s \in Slots : venue'[s].fill = venue[s].fill
    BY VenueMoves DEF Tracked, VenueWorks
  \* While the sends stand still the phase changes at the end only.
  <2>6. ASSUME \A s \in Slots : venue'[s].st = "none" <=> venue[s].st = "none",
               pc \notin {"done", "raised"} \/ UNCHANGED pc
        PROVE  IF pc' \in {"done", "raised"} THEN Phase' = "over" ELSE Phase' = Phase
    BY <2>1, <2>6 DEF Phase
  <2>7. ASSUME NEW s \in Slots, NEW v, venue' = [venue EXCEPT ![s] = v]
        PROVE  venue'[s] = v /\ \A t \in Slots \ {s} : venue'[t] = venue[t]
    BY <2>1, <2>7 DEF VenueOK
  <2>8. CASE Place
    <3>1. /\ pc = "place" /\ pc' = "reply" /\ UNCHANGED <<paged, slot>>
          /\ venue' = [venue EXCEPT ![slot] = [st |-> "flying", want |-> eff, fill |-> 0]]
          /\ venue[slot].st = "none" /\ venue[REST].st = "none"
      BY <2>8 DEF Place, place, alarms, Send, Tracked, IInv, SentOnce, BeforeRest
    <3>2. /\ venue'[slot] = [st |-> "flying", want |-> eff, fill |-> 0]
          /\ \A t \in Slots \ {slot} : venue'[t] = venue[t]
      BY <2>1, <2>7, <3>1
    <3>3. \A s \in Slots : venue'[s].fill = venue[s].fill
      BY <2>1, <3>1, <3>2
    <3>4. UNCHANGED <<Bought, Hedged, Sold>>
      BY <2>1, <2>3, <3>3 DEF Bought, Sold
    <3>5. venue'[REST].st = "none"
      BY <2>1, <3>1, <3>2, SlotFacts
    <3>6. CASE slot \notin Secondaries
      <4>1. Phase' = Phase
        BY <2>1, <3>1, <3>2, <3>5, <3>6 DEF Phase
      <4>2. QED BY <3>1, <3>4, <4>1 DEF Trade!vars
    <3>7. CASE slot \in Secondaries
      <4>1. Phase' = "hedging" /\ Phase \in {"opening", "hedging"}
        BY <2>1, <3>1, <3>2, <3>5, <3>7 DEF Phase
      <4>2. Bought > 0
        BY <3>7 DEF Tracked, TInv, LegsTell
      <4>3. CASE Phase = "opening"
        BY <3>1, <3>4, <4>1, <4>2, <4>3 DEF Trade!StartHedge, Trade!Next
      <4>4. CASE Phase = "hedging"
        BY <3>1, <3>4, <4>1, <4>4 DEF Trade!vars
      <4>5. QED BY <4>1, <4>3, <4>4
    <3>8. QED BY <3>6, <3>7
  <2>9. CASE RestSell
    <3>1. /\ pc = "unwind" /\ pc' = "rest_reply" /\ UNCHANGED <<paged, slot>>
          /\ venue' = [venue EXCEPT ![REST] = [st |-> "flying", want |-> uw.qty, fill |-> 0]]
          /\ venue[REST].st = "none"
      BY <2>9 DEF RestSell, place, alarms, Send, Tracked, IInv, SentOnce, BeforeRest
    <3>2. /\ venue'[REST] = [st |-> "flying", want |-> uw.qty, fill |-> 0]
          /\ \A t \in Slots \ {REST} : venue'[t] = venue[t]
      BY <2>1, <2>7, <3>1
    <3>3. \A s \in Slots : venue'[s].fill = venue[s].fill
      BY <2>1, <3>1, <3>2
    <3>4. UNCHANGED <<Bought, Hedged, Sold>>
      BY <2>1, <2>3, <3>3 DEF Bought, Sold
    <3>5. Phase' = "closing" /\ Phase \in {"opening", "hedging"}
      BY <3>1, <3>2 DEF Phase
    <3>6. Bought > Hedged /\ paged
      <4>1. uw.qty > 0 /\ uw.qty = Bought - Covered
        BY <3>1 DEF Tracked, TInv, Sells
      <4>2. Hedged = Covered
        BY DEF Tracked, Sums
      <4>3. paged
        BY <3>1 DEF Tracked, NInv, Alarmed, Rescuing
      <4>4. QED BY <2>4, <4>1, <4>2, <4>3
    <3>7. QED BY <3>1, <3>4, <3>5, <3>6 DEF Trade!StartUnwind, Trade!Next
  <2>10. CASE MarketSell
    <3>1. /\ pc = "market" /\ pc' = "market_reply" /\ UNCHANGED <<paged, slot>>
          /\ venue' = [venue EXCEPT ![MARKET] = [st |-> "flying", want |-> uw.qty - uw.rested, fill |-> 0]]
          /\ venue[MARKET].st = "none" /\ venue[REST].st # "none"
      BY <2>10 DEF MarketSell, place, alarms, Send, Tracked, IInv, SentOnce, TInv, Sells
    <3>2. /\ venue'[MARKET] = [st |-> "flying", want |-> uw.qty - uw.rested, fill |-> 0]
          /\ \A t \in Slots \ {MARKET} : venue'[t] = venue[t]
      BY <2>1, <2>7, <3>1
    <3>3. \A s \in Slots : venue'[s].fill = venue[s].fill
      BY <2>1, <3>1, <3>2
    <3>4. UNCHANGED <<Bought, Hedged, Sold>>
      BY <2>1, <2>3, <3>3 DEF Bought, Sold
    <3>5. Phase' = Phase
      BY <2>1, <3>1, <3>2 DEF Phase
    <3>6. QED BY <3>1, <3>4, <3>5 DEF Trade!vars
  \* A fill of an order.
  <2>11. CASE Venue /\ ~Place /\ ~RestSell /\ ~MarketSell
    <3>1. UNCHANGED <<pc, paged>> /\ (\A s \in Slots : venue'[s].st = "none" <=> venue[s].st = "none")
      BY <2>5, <2>11 DEF Venue, alarms
    <3>2. Phase' = Phase
      BY <2>6, <3>1 DEF Phase
    <3>3. PICK s \in Slots : Accept(s) \/ Refuse(s) \/ Fill(s) \/ Expire(s)
      BY <2>11 DEF Venue
    <3>4. CASE Accept(s) \/ Refuse(s) \/ Expire(s)
      <4>1. PICK e : venue' = [venue EXCEPT ![s] = [venue[s] EXCEPT !.st = e]]
        BY <3>4 DEF Accept, Refuse, Expire
      <4>2. [venue[s] EXCEPT !.st = e].fill = venue[s].fill
        BY <2>1 DEF VenueOK
      <4>3. \A t \in Slots : venue'[t].fill = venue[t].fill
        BY <2>7, <4>1, <4>2
      <4>4. UNCHANGED <<Bought, Hedged, Sold>>
        BY <2>1, <2>3, <4>3 DEF Bought, Sold
      <4>5. QED BY <3>1, <3>2, <4>4 DEF Trade!vars
    <3>5. CASE Fill(s)
      <4>1. PICK k \in 1..(venue[s].want - venue[s].fill) :
              venue' = [venue EXCEPT ![s] =
                          [@ EXCEPT !.fill = venue[s].fill + k,
                                    !.st = IF venue[s].fill + k = venue[s].want THEN "ended" ELSE "live"]]
        BY <3>5 DEF Fill
      <4>2. /\ venue[s].st = "live" /\ venue'[s].fill > venue[s].fill
            /\ \A t \in Slots \ {s} : venue'[t] = venue[t]
        <5>1. venue[s] \in [st : {"none", "flying", "live", "ended", "refused"},
                            want : 0..SuggestedQty, fill : 0..SuggestedQty]
          BY <2>1 DEF VenueOK
        <5>2. venue'[s].fill = venue[s].fill + k
          <6>1. venue'[s] = [venue[s] EXCEPT !.fill = venue[s].fill + k,
                                !.st = IF venue[s].fill + k = venue[s].want THEN "ended" ELSE "live"]
            BY <2>7, <4>1
          <6>2. QED BY <5>1, <6>1
        <5>3. venue[s].st = "live"
          BY <3>5 DEF Fill
        <5>4. k \in Int /\ k > 0
          BY <5>1
        <5>5. QED BY <2>1, <2>7, <4>1, <5>2, <5>3, <5>4
      <4>3. ~Dead(s) /\ ~Over(venue[s])
        BY <4>2 DEF Dead, Over
      <4>4. CASE s = PRIMARY
        <5>1. slot \notin Secondaries /\ pc \notin Settled /\ pc # "raised"
          BY <4>3, <4>4 DEF Tracked, TInv, LegsTell, Tells
        <5>2. slot = PRIMARY
          BY <2>1, <5>1
        <5>3. \A t \in Secondaries : venue[t].st = "none"
          BY <5>2 DEF Tracked, IInv, SentOnce
        <5>4. venue[REST].st = "none"
          BY <5>1 DEF Tracked, TInv, Sells, Selling, Settled, Recovering, Rescuing
        <5>5. Phase = "opening"
          BY <5>1, <5>3, <5>4 DEF Phase, Settled
        <5>6. UNCHANGED <<Hedged, Sold>>
          BY <2>1, <2>3, <4>2, <4>4 DEF Sold
        <5>7. Bought' \in (Bought + 1)..SuggestedQty
          BY <2>4, <4>2, <4>4 DEF Bought
        <5>8. QED BY <3>1, <3>2, <5>5, <5>6, <5>7 DEF Trade!Buy, Trade!Next
      <4>5. CASE s \in Secondaries
        <5>1. s = slot
          BY <2>2, <4>3, <4>5
        <5>2. pc \notin Settled /\ pc # "raised"
          BY <2>1, <4>3, <4>5, <5>1 DEF Tracked, TInv, LegsTell, Attempt
        <5>3. venue[REST].st = "none"
          BY <5>2 DEF Tracked, TInv, Sells, Selling, Settled, Recovering, Rescuing
        <5>4. Phase = "hedging"
          BY <4>2, <4>5, <5>2, <5>3 DEF Phase, Settled
        <5>5. UNCHANGED <<Bought, Sold>>
          BY <2>1, <4>2, <4>5 DEF Bought, Sold
        <5>6. Hedged = venue[s].fill /\ Hedged' = venue'[s].fill
          <6>1. \A t \in Secondaries \ {s} : venue[t].fill = 0 /\ venue'[t].fill = 0
            BY <2>1, <2>2, <4>2, <5>1
          <6>2. QED BY <1>3, <1>4, <4>5, <6>1 DEF Tracked, HedgedAlone
        <5>7. Hedged' \in (Hedged + 1)..Bought
          BY <2>1, <2>4, <4>2, <5>5, <5>6
        <5>8. QED BY <3>1, <3>2, <5>4, <5>5, <5>7 DEF Trade!Hedge, Trade!Next
      <4>6. CASE s \in {REST, MARKET}
        <5>1. venue[REST].st # "none" /\ pc \in Selling \cup {"done"}
          BY <4>2, <4>6 DEF Tracked, TInv, Sells
        <5>2. Phase \in {"closing", "over"}
          BY <5>1 DEF Phase
        <5>3. UNCHANGED <<Bought, Hedged>>
          BY <2>1, <2>3, <4>2, <4>6 DEF Bought
        <5>4. Sold' > Sold
          BY <2>1, <4>2, <4>6 DEF Sold
        <5>5. Sold' \in (Sold + 1)..(Bought - Hedged)
          <6>1. Hedged + Sold' <= Bought
            BY <2>4, <5>3
          <6>2. /\ Sold \in Int /\ Sold' \in Int /\ Bought \in Int /\ Hedged \in Int
                /\ Sold + 1 <= Sold' /\ Sold' <= Bought - Hedged
            <7>1. /\ Sold \in Int /\ Sold' \in Int /\ Bought \in Int /\ Hedged \in Int
              BY <2>4
            <7>2. \A a, b, c, d \in Int : b > a /\ d + b <= c => a + 1 <= b /\ b <= c - d
              OBVIOUS
            <7>3. QED BY <5>4, <6>1, <7>1, <7>2
          <6>3. QED BY <6>2
        <5>6. QED BY <3>1, <3>2, <5>2, <5>3, <5>5 DEF Trade!Sell, Trade!Next
      <4>7. s = PRIMARY \/ s \in Secondaries \/ s \in {REST, MARKET}
        OBVIOUS
      <4>8. QED BY <4>4, <4>5, <4>6, <4>7
    <3>6. QED BY <3>3, <3>4, <3>5
  \* The other steps of the engine send nothing and fill nothing.
  <2>12. ASSUME ~Venue, ~Place, ~RestSell, ~MarketSell, pc \notin {"done", "raised"} \/ UNCHANGED pc,
                \/ paged' = paged
                \/ paged' = TRUE /\ (pc' \in {"done", "raised"} \/ Bought > 0),
                pc \in {"done", "raised"} => paged' = paged
         PROVE  [Trade!Next]_(Trade!vars)
    <3>1. /\ \A s \in Slots : venue'[s].st = "none" <=> venue[s].st = "none"
          /\ \A s \in Slots : venue'[s].fill = venue[s].fill
      BY <2>5, <2>12
    <3>2. UNCHANGED <<Bought, Hedged, Sold>>
      BY <2>1, <2>3, <3>1 DEF Bought, Sold
    <3>3. CASE Phase' = Phase /\ paged' = paged
      BY <3>2, <3>3 DEF Trade!vars
    <3>4. CASE Phase' = Phase /\ paged' # paged
      <4>1. paged' = TRUE /\ Bought > 0
        <5>1. pc \notin {"done", "raised"}
          BY <2>12, <3>4
        <5>2. Phase # "over"
          BY <5>1 DEF Phase
        <5>3. pc' \notin {"done", "raised"}
          BY <2>6, <2>12, <3>1, <3>4, <5>2
        <5>4. QED BY <2>12, <3>4, <5>3
      <4>2. QED BY <3>2, <3>4, <4>1 DEF Trade!Alarm, Trade!Next
    <3>5. CASE Phase' # Phase
      <4>1. pc' \in {"done", "raised"} /\ Phase' = "over"
        BY <2>6, <2>12, <3>1, <3>5
      <4>2. paged' \in {paged, TRUE}
        BY <2>12
      <4>3. Bought = Hedged + Sold \/ paged'
        BY <2>4, <3>2, <4>1
      <4>4. QED BY <3>2, <3>5, <4>1, <4>2, <4>3 DEF Trade!End, Trade!Next
    <3>6. QED BY <3>3, <3>4, <3>5
  <2>13. CASE \/ PlaceBlocked \/ Reply \/ ReplyFailsLate \/ ReplyTimesOut \/ Poll \/ PollTimesOut
              \/ PreTrade \/ AttemptReturned \/ Requote \/ RequotesExhausted \/ FokReturned
              \/ (\E x \in Legs : CancelLeg(x)) \/ ChooseUnwind \/ RestReply \/ RestPoll \/ RestCancel
              \/ MarketReply \/ DbFlips
    <3>1. pc \notin {"done", "raised"} /\ paged' = paged
      <4>1. CASE \/ PlaceBlocked \/ Reply \/ ReplyFailsLate \/ ReplyTimesOut \/ Poll \/ PollTimesOut
        BY <4>1 DEF PlaceBlocked, Reply, ReplyFailsLate, ReplyTimesOut, Poll, PollTimesOut, alarms
      <4>2. CASE \/ PreTrade \/ AttemptReturned \/ Requote \/ RequotesExhausted \/ FokReturned \/ DbFlips
        BY <4>2 DEF PreTrade, AttemptReturned, Requote, RequotesExhausted, FokReturned, DbFlips, alarms
      <4>3. CASE \/ (\E x \in Legs : CancelLeg(x)) \/ ChooseUnwind \/ RestReply \/ RestPoll \/ RestCancel
                 \/ MarketReply
        BY <4>3 DEF CancelLeg, ChooseUnwind, RestReply, RestPoll, RestCancel, MarketReply, alarms
      <4>4. QED BY <2>13, <4>1, <4>2, <4>3
    <3>2. QED BY <2>8, <2>9, <2>10, <2>11, <2>12, <3>1
  <2>14. CASE ReplyRaises \/ PrimaryReturned \/ Decide \/ Recover \/ Verify \/ MarketRaises
    <3>1. /\ pc \notin {"done", "raised"}
          /\ \/ paged' = paged
             \/ paged' = TRUE /\ (pc' \in {"done", "raised"} \/ Bought > 0)
      <4>1. CASE ReplyRaises
        <5>1. slot \in Secondaries => Bought > 0
          BY DEF Tracked, TInv, LegsTell
        <5>2. QED BY <2>1, <4>1, <5>1 DEF ReplyRaises, SecondaryRaised, Raise, alarms
      <4>2. CASE PrimaryReturned
        <5>1. Tells(ord, venue[PRIMARY]) /\ pc = "returned"
          BY <4>2 DEF PrimaryReturned, Tracked, TInv, LegsTell
        <5>2. QED BY <4>2, <5>1 DEF PrimaryReturned, Raise, alarms, Tells, Bought
      <4>3. CASE Decide
        <5>1. Tells(leg["p"], venue[PRIMARY]) /\ pc = "decide"
          BY <4>3 DEF Decide, Tracked, TInv, LegsTell, Settled
        <5>2. QED BY <4>3, <5>1 DEF Decide, Raise, alarms, Tells, Bought
      <4>4. CASE Recover
        BY <4>4 DEF Recover, Raise, Tracked, TInv, Rescues, Recovering
      <4>5. CASE Verify
        BY <4>5 DEF Verify, Raise, alarms
      <4>6. CASE MarketRaises
        BY <4>6 DEF MarketRaises, Raise
      <4>7. QED BY <2>14, <4>1, <4>2, <4>3, <4>4, <4>5, <4>6
    <3>2. QED BY <2>8, <2>9, <2>10, <2>11, <2>12, <3>1
  <2>15. CASE UNCHANGED vars
    <3>1. UNCHANGED <<pc, paged>>
      BY <2>15 DEF vars, alarms
    <3>2. QED BY <2>8, <2>9, <2>10, <2>11, <2>12, <3>1
  <2>16. CASE Venue
    BY <2>8, <2>9, <2>10, <2>11, <2>16
  <2>17. QED
    BY <2>8, <2>9, <2>10, <2>13, <2>14, <2>15, <2>16 DEF Next, Engine
<1>6. Trade!Spec => []Trade!Promise
  BY Trade!PromiseHolds
<1>7. QED
  BY <1>2, <1>5, <1>6, RecoveryStaysPaired, PTL DEF Spec, KeepsTrade, Trade!Spec, Tracked
=============================================================================
