------------------------------ MODULE Mappings ------------------------------
(***************************************************************************)
(* The rows of market_mappings that bind one exact venue pair (a Kalshi    *)
(* market and a Polymarket slug), the cache MARKET_MAP the scanner reads   *)
(* and the background tasks and the operator that write both:              *)
(*                                                                         *)
(*   validator   auto_validator.run_periodic: expire, quarantine,          *)
(*               release, promote                                          *)
(*   discovery   main.run_market_discovery_loop: sync, retire, attach,     *)
(*               refresh                                                   *)
(*   pipeline    auto_discovery_pipeline: those of discovery, promote and  *)
(*               expire                                                    *)
(*   revalidate  main.run_revalidate_review_mappings_loop                  *)
(*   settled     main.run_expire_settled_mappings_loop                     *)
(*   startup     structural_fast_promote, once per process                 *)
(*   operator    api.handle_market_mapping_action                          *)
(*                                                                         *)
(* Every write of a row is a whole row, built from a copy read one or more *)
(* awaits before (upsert), and three effects in a row of their own: the    *)
(* INSERT, the expiry of the other rows of the pair, the cache.            *)
(***************************************************************************)
EXTENDS Naturals, FiniteSets

CONSTANTS
    Ids,        \* the canonical ids that claim the pair
    Identical,  \* those whose resolution_match_status is identical
    Dated,      \* those whose event date is past (parse_settled_date)
    Seeds,      \* those of MARKET_SEEDS, confirmed and allowed
    Tasks,      \* the tasks that run, of the seven above
    Verbs,      \* the actions the operator uses, of the six of the desk
    Cycles,     \* QUARANTINE_RELEASE_CYCLES
    MaxWrites   \* bounds the passes, requests, holds and crashes together

ASSUME MappingsAssumption ==
    /\ Identical \subseteq Ids /\ Dated \subseteq Ids /\ Seeds \subseteq Ids
    /\ Verbs \subseteq {"confirm", "review", "reject", "expire", "disable", "enable"}
    /\ Cycles \in Nat \ {0} /\ MaxWrites \in Nat

VARIABLES
    rows,    \* market_mappings: a row for each canonical id
    cache,   \* MARKET_MAP: what the scanner reads
    task,    \* where each task stands in its pass
    up,      \* "down", "starting" until structural_fast_promote is over, "serving"
    torn,    \* an upsert failed after its INSERT, since the last refresh
    writes   \* counts towards MaxWrites

vars == <<rows, cache, task, up, torn, writes>>

-----------------------------------------------------------------------------
(* Rows.  mark stands for [no-auto-promote] in review_note, streak for the *)
(* tag [quarantine-release-streak n/N] beside it.                          *)

Statuses == {"none", "candidate", "review", "confirmed", "rejected", "expired"}

Rows == [status : Statuses, allow : BOOLEAN, mark : BOOLEAN, streak : 0..(Cycles - 1)]

\* A row with a note of its own, without the marker.
Plain(status, allow) ==
    [status |-> status, allow |-> allow, mark |-> FALSE, streak |-> 0]

NoRow == Plain("none", FALSE)
Expired(row) == [row EXCEPT !.status = "expired", !.allow = FALSE]

Bound == {c \in Ids : rows[c] # NoRow}
Active == {c \in Ids : rows[c].status \in {"confirmed", "review", "candidate"}}
Confirmed == {c \in Ids : rows[c].status = "confirmed"}

\* _enforce_auto_trade_safety, on every write of a row.
Enforced(c, row) == [row EXCEPT !.allow = @ /\ c \in Identical]

\* The ORDER BY of get_by_exact_pair and expire_duplicate_active_pairs; ids
\* of one rank are ordered by their names and times, which are not modelled.
Rank(status) == CASE status = "confirmed" -> 0
                  [] status = "review"    -> 1
                  [] status = "candidate" -> 2
                  [] OTHER                -> 3

Best(cs) == {c \in cs : \A d \in cs : Rank(rows[c].status) <= Rank(rows[d].status)}

-----------------------------------------------------------------------------
(* Tasks and their passes.                                                 *)

Script == [validator  |-> {"expire", "quarantine", "release", "promote"},
           pipeline   |-> {"sync", "retire", "attach", "promote", "expire", "refresh"},
           discovery  |-> {"sync", "retire", "attach", "refresh"},
           revalidate |-> {"revalidate"},
           settled    |-> {"settle"},
           startup    |-> {"fast"},
           operator   |-> {"act"}]

\* The rows whose ids a pass reads before it walks them.
Walked == [expire     |-> {"confirmed"},
           quarantine |-> {"confirmed"},
           settle     |-> {"confirmed"},
           attach     |-> {"confirmed"},
           release    |-> {"review"},
           revalidate |-> {"review"},
           retire     |-> {"candidate"},
           promote    |-> {"candidate", "review"},
           fast       |-> {"candidate", "review"}]

\* Passes that keep the rows they read then, not only the ids.
Copying == {"attach", "retire", "fast"}

None == "none"
NoRows == [c \in Ids |-> NoRow]

\* Passes that refresh the cache at their end if they changed a status.
Refreshing == {"expire", "quarantine", "promote", "revalidate", "settle", "fast"}

Rest == [pass |-> None, at |-> "rest", todo |-> {}, old |-> NoRows, owned |-> FALSE,
         id |-> None, row |-> NoRow, gone |-> {}, wrote |-> FALSE]

At(t, stage) == task[t].at = stage

\* Everything but discovery is started after structural_fast_promote.
MayStart(t) ==
    /\ At(t, "rest")
    /\ CASE up = "starting" -> t \in {"startup", "discovery"}
         [] up = "serving"  -> t # "startup"
         [] OTHER           -> FALSE

Goes(t, fields) == task' = [task EXCEPT ![t] = fields]

\* The end of a walk.
Over(t, wrote) ==
    Goes(t, IF wrote THEN [Rest EXCEPT !.pass = task[t].pass, !.at = "refresh"] ELSE Rest)

\* The row in hand is done: the next one of the walk, or its end.
Done(t, wrote) ==
    IF task[t].todo = {} THEN Over(t, wrote)
    ELSE Goes(t, [task[t] EXCEPT !.at = "walk", !.id = None, !.row = NoRow,
                                 !.gone = {}, !.wrote = wrote])

\* The walk leaves an id as it is.
Skip(t, c) ==
    IF task[t].todo = {c} THEN Over(t, task[t].wrote)
    ELSE Goes(t, [task[t] EXCEPT !.todo = @ \ {c}])

\* A whole row in hand, for upsert.  update_status(id, status, note, allow)
\* reads the row first, but with an allow of its own it keeps no column of it
\* that is modelled.
Holds(t, c, row) ==
    Goes(t, [task[t] EXCEPT !.at = "insert", !.id = c, !.row = row, !.todo = @ \ {c}])

\* update_status without an allow: that of the row is still to be read.
HoldsNote(t, c, row) ==
    Goes(t, [task[t] EXCEPT !.at = "update", !.id = c, !.row = row, !.todo = @ \ {c}])

-----------------------------------------------------------------------------
(* The start of a pass.                                                    *)

\* iter_confirmed(require_auto_trade=True) in the sweep of settled mappings.
ReadAllowed(p) ==
    {c \in Ids : /\ rows[c].status \in Walked[p]
                 /\ p = "settle" => c \in Dated /\ rows[c].allow}

\* The ids a pass walks: settle has those of a past date only.
Read(p) == {c \in Ids : rows[c].status \in Walked[p] /\ (p = "settle" => c \in Dated)}

\* A pass reads the rows of its status; todo are those it will want to write,
\* by their validation or their matching events.
Begin(t) ==
    /\ MayStart(t)
    /\ \E p \in Script[t] \cap DOMAIN Walked :
         /\ IF p = "settle" THEN UNCHANGED writes
            ELSE writes < MaxWrites /\ writes' = writes + 1
         /\ \E todo \in (SUBSET Read(p)) \ {{}} :
              /\ p = "settle" => todo = Read(p)
              /\ Goes(t, [Rest EXCEPT
                   !.pass = p, !.todo = todo,
                   !.at = IF p \in {"promote", "release"} THEN "count" ELSE "walk",
                   !.owned = p = "fast" /\ Confirmed # {},
                   !.old = [c \in Ids |-> IF p \in Copying /\ c \in todo
                                          THEN rows[c] ELSE NoRow]])
    /\ UNCHANGED <<rows, cache, up, torn>>

\* market_owner_counts, once before the walk of promote and release; a read that
\* fails is logged, and nobody seems to own the pair.
CountOwners(t) ==
    /\ At(t, "count")
    /\ \E owned \in {Confirmed # {}, FALSE} :
          Goes(t, [task[t] EXCEPT !.at = "walk", !.owned = owned])
    /\ UNCHANGED <<rows, cache, up, torn, writes>>

\* _mapping_from_candidate for the pair: the row it updates, read before two
\* more lookups, with the verdict of the promotion gates on the candidate;
\* noted when apply_promotion wrote the candidate's review_note.
FromCandidate(row, verdict, noted) ==
    LET note == IF noted THEN Plain(row.status, row.allow) ELSE row
    IN IF row.status \in {"review", "rejected", "expired"} THEN [row EXCEPT !.allow = FALSE]
       ELSE IF row.status = "confirmed" THEN note
       ELSE CASE verdict = "confirmed" -> Plain("confirmed", TRUE)
              [] verdict = "review"    -> Plain("review", FALSE)
              [] OTHER                 -> [note EXCEPT !.status = "candidate", !.allow = FALSE]

Sync(t) ==
    /\ MayStart(t) /\ "sync" \in Script[t]
    /\ writes < MaxWrites /\ writes' = writes + 1
    /\ \E c \in Best(IF Bound = {} THEN Ids ELSE Bound),
          verdict \in {"confirmed", "review", "candidate"}, noted \in BOOLEAN :
         /\ verdict # "candidate" => noted
         /\ verdict = "confirmed" => c \in Identical
         /\ Goes(t, [Rest EXCEPT !.pass = "sync", !.at = "insert", !.id = c,
                                 !.row = FromCandidate(rows[c], verdict, noted)])
    /\ UNCHANGED <<rows, cache, up, torn>>

-----------------------------------------------------------------------------
(* The walk of a pass: what it decides for each id.                        *)

\* Passes that decide without a look at the row as it is by now.
Verdict == [expire     |-> Plain("expired", FALSE),
            settle     |-> Plain("expired", FALSE),
            quarantine |-> [Plain("review", FALSE) EXCEPT !.mark = TRUE],
            revalidate |-> Plain("confirmed", TRUE)]

WalkBlind(t) ==
    /\ At(t, "walk") /\ task[t].pass \in DOMAIN Verdict
    /\ \E c \in task[t].todo : Holds(t, c, Verdict[task[t].pass])
    /\ UNCHANGED <<rows, cache, up, torn, writes>>

\* structural_fast_promote judges the copy it read.
WalkFast(t) ==
    /\ At(t, "walk") /\ task[t].pass = "fast"
    /\ \E c \in task[t].todo :
         IF task[t].old[c].mark \/ task[t].owned \/ c \notin Identical
         THEN Skip(t, c)
         ELSE Holds(t, c, Plain("confirmed", TRUE))
    /\ UNCHANGED <<rows, cache, up, torn, writes>>

\* attach writes its copy with a contract id, retire its copy as expired
\* (an unsold AUTO_ candidate that discovery did not find again).
WalkCopies(t) ==
    /\ At(t, "walk") /\ task[t].pass \in {"attach", "retire"}
    /\ \E c \in task[t].todo :
         IF task[t].pass = "attach" THEN Holds(t, c, task[t].old[c])
         ELSE IF task[t].old[c].allow THEN Skip(t, c)
         ELSE Holds(t, c, Plain("expired", FALSE))
    /\ UNCHANGED <<rows, cache, up, torn, writes>>

\* auto_promote_validated reads the row again and judges all of it but its
\* status: a marked one is left, one of an owned pair, or of the wrong party,
\* gets the marker.
GatePromote(t) ==
    /\ At(t, "walk") /\ task[t].pass = "promote"
    /\ \E c \in task[t].todo :
         IF rows[c].mark \/ c \notin Identical THEN Skip(t, c)
         ELSE \/ Holds(t, c, [Plain(rows[c].status, FALSE) EXCEPT !.mark = TRUE])
              \/ ~task[t].owned /\ Holds(t, c, Plain("confirmed", TRUE))
    /\ UNCHANGED <<rows, cache, up, torn, writes>>

\* The cycles of the streak are counted without the present one.
SustainedLate(n) == n >= Cycles

\* The streak that releases, counted before this cycle.
Sustained(n) == n + 1 >= Cycles

\* sweep_quarantine_releases reads the row, asks the reviewers (passed) and
\* writes the note with the status it saw, keeping whatever allow is by then.
\* A failed gate ends the streak, as an owner of the pair does.
GateRelease(t) ==
    /\ At(t, "walk") /\ task[t].pass = "release"
    /\ \E c \in task[t].todo, passed \in BOOLEAN :
         LET row == rows[c]
             Streak(n) == HoldsNote(t, c, [row EXCEPT !.streak = n])
         IN IF \/ ~row.mark \/ c \notin Identical
               \/ (task[t].owned \/ ~passed) /\ row.streak = 0
            THEN Skip(t, c)
            ELSE IF task[t].owned \/ ~passed THEN Streak(0)
            ELSE IF Sustained(row.streak) THEN HoldsNote(t, c, Plain(row.status, FALSE))
            ELSE Streak(row.streak + 1)
    /\ UNCHANGED <<rows, cache, up, torn, writes>>

-----------------------------------------------------------------------------
(* A write of a row: update_status and upsert.                             *)

\* update_status reads the row and keeps its allow.
UpdateReads(t) ==
    /\ At(t, "update")
    /\ Goes(t, [task[t] EXCEPT !.at = "insert", !.row.allow = rows[task[t].id].allow])
    /\ UNCHANGED <<rows, cache, up, torn, writes>>

\* The INSERT .. ON CONFLICT of upsert.
Insert(t) ==
    /\ At(t, "insert")
    /\ LET row == Enforced(task[t].id, task[t].row)
       IN /\ rows' = [rows EXCEPT ![task[t].id] = row]
          /\ Goes(t, [task[t] EXCEPT !.row = row,
                        !.at = IF row.status = "confirmed" THEN "dedup" ELSE "mirror"])
    /\ UNCHANGED <<cache, up, torn, writes>>

\* Only rows nobody has confirmed.
OthersUnconfirmed(c) == Active \ ({c} \cup Confirmed)

\* The other rows of the pair.
Others(c) == Active \ {c}

\* _expire_duplicate_exact_pair_mappings, a statement of its own.
Dedup(t) ==
    /\ At(t, "dedup")
    /\ LET gone == Others(task[t].id)
       IN /\ rows' = [c \in Ids |-> IF c \in gone THEN Expired(rows[c]) ELSE rows[c]]
          /\ Goes(t, [task[t] EXCEPT !.at = "mirror", !.gone = gone])
    /\ UNCHANGED <<cache, up, torn, writes>>

\* The second statement raises: the pass logs it and goes on, but for
\* revalidate, which ends.
DedupFails(t) ==
    /\ At(t, "dedup")
    /\ writes < MaxWrites /\ writes' = writes + 1
    /\ torn' = TRUE
    /\ IF task[t].pass = "revalidate" THEN Goes(t, Rest) ELSE Done(t, task[t].wrote)
    /\ UNCHANGED <<rows, cache, up>>

\* Back from the database, upsert brings the cache to the row it wrote.
Mirror(t) ==
    /\ At(t, "mirror")
    /\ cache' = [c \in Ids |-> IF c = task[t].id THEN task[t].row
                               ELSE IF c \in task[t].gone THEN NoRow ELSE cache[c]]
    /\ Done(t, \/ task[t].wrote
               \/ /\ task[t].pass \in Refreshing
                  /\ task[t].pass = "promote" => task[t].row.status = "confirmed")
    /\ UNCHANGED <<rows, up, torn, writes>>

-----------------------------------------------------------------------------
(* refresh_runtime_cache.                                                  *)

\* expire_duplicate_active_pairs keeps one of the best.
Retired(keeper) ==
    [c \in Ids |-> IF c \in Active \ {keeper} THEN Expired(rows[c]) ELSE rows[c]]

Mirrored(rs) ==
    [c \in Ids |-> IF rs[c].status \in {"confirmed", "candidate", "review"} THEN rs[c] ELSE NoRow]

\* At the end of a pass that wrote, and of every cycle of discovery (where one
\* that would change nothing is left out).
RefreshDedups(t) ==
    /\ \/ At(t, "refresh")
       \/ /\ MayStart(t) /\ "refresh" \in Script[t]
          /\ cache # Mirrored(rows) \/ Cardinality(Active) > 1
    /\ \/ Active = {} /\ rows' = rows
       \/ \E keeper \in Best(Active) : rows' = Retired(keeper)
    /\ torn' = FALSE
    /\ Goes(t, [Rest EXCEPT !.pass = "refresh", !.at = "fetch",
                            !.gone = {c \in Ids : rows'[c] # rows[c]}])
    /\ UNCHANGED <<cache, up, writes>>

\* The ids it expired leave the cache, and the active rows are fetched.
RefreshFetches(t) ==
    /\ At(t, "fetch")
    /\ cache' = [c \in Ids |-> IF c \in task[t].gone THEN NoRow ELSE cache[c]]
    /\ Goes(t, [task[t] EXCEPT !.at = "replace", !.old = Mirrored(rows), !.gone = {}])
    /\ UNCHANGED <<rows, up, torn, writes>>

\* The new rows over the old cache.
ReplacedMerged(old) == [c \in Ids |-> IF old[c] = NoRow THEN cache[c] ELSE old[c]]

\* replace_runtime_market_map: nothing of the old cache is left.
Replaced(old) == old

\* When the answer is there.
RefreshReplaces(t) ==
    /\ At(t, "replace")
    /\ cache' = Replaced(task[t].old)
    /\ Goes(t, Rest)
    /\ UNCHANGED <<rows, up, torn, writes>>

-----------------------------------------------------------------------------
(* The operator, the executor's hold, time, crashes.                       *)

\* A request for an id; one the cache lacks is read from the database.
OperatorAsks ==
    /\ "operator" \in Tasks /\ MayStart("operator")
    /\ writes < MaxWrites /\ writes' = writes + 1
    /\ \E c \in Ids :
         \/ /\ cache[c] # NoRow
            /\ Goes("operator", [Rest EXCEPT !.pass = "act", !.at = "body", !.id = c])
         \/ /\ cache[c] = NoRow /\ rows[c] # NoRow
            /\ Goes("operator", [Rest EXCEPT !.pass = "act", !.at = "hydrate", !.id = c,
                                             !.row = rows[c]])
    /\ UNCHANGED <<rows, cache, up, torn>>

\* The answer is put into the cache, whatever a refresh put there meanwhile.
OperatorHydrates(t) ==
    /\ At(t, "hydrate")
    /\ cache' = [cache EXCEPT ![task[t].id] = task[t].row]
    /\ Goes(t, [task[t] EXCEPT !.at = "body", !.row = NoRow])
    /\ UNCHANGED <<rows, up, torn, writes>>

\* What an action of the desk makes of the row in the cache; the note it
\* brings replaces the old one, marker and all.
Acted(row) ==
    [confirm |-> Plain("confirmed", row.allow),
     review  |-> Plain("review", FALSE),
     reject  |-> Plain("rejected", FALSE),
     expire  |-> Plain("expired", FALSE),
     disable |-> Plain(row.status, FALSE),
     enable  |-> Plain(row.status, TRUE)]

Refused(c, row, verb) == verb = "enable" /\ (row.status # "confirmed" \/ c \notin Identical)

\* The body is read; the cached row is changed at once, then written whole.
\* An id that left the cache meanwhile raises.
OperatorActs(t) ==
    /\ At(t, "body")
    /\ LET c == task[t].id
       IN \/ /\ cache[c] = NoRow
             /\ Goes(t, Rest)
             /\ UNCHANGED cache
          \/ /\ cache[c] # NoRow
             /\ \E verb \in Verbs :
                  IF Refused(c, cache[c], verb)
                  THEN Goes(t, Rest) /\ UNCHANGED cache
                  ELSE /\ cache' = [cache EXCEPT ![c] = Acted(@)[verb]]
                       /\ Holds(t, c, Acted(cache[c])[verb])
    /\ UNCHANGED <<rows, up, torn, writes>>

\* AutoExecutor's disable_auto_trade: one column, in the database only.  It is
\* started before structural_fast_promote.
Forbid(c) ==
    /\ up # "down"
    /\ rows[c].allow
    /\ writes < MaxWrites /\ writes' = writes + 1
    /\ rows' = [rows EXCEPT ![c].allow = FALSE]
    /\ UNCHANGED <<cache, task, up, torn>>

\* The process ends wherever its tasks stand.
Crash ==
    /\ up # "down" /\ up' = "down"
    /\ writes < MaxWrites /\ writes' = writes + 1
    /\ task' = [t \in Tasks |-> Rest]
    /\ cache' = NoRows
    /\ UNCHANGED <<rows, torn>>

\* The rows with the seeds that had none (seed_from_records).
Seeded == [c \in Ids |-> IF rows[c] = NoRow /\ c \in Seeds
                         THEN Enforced(c, Plain("confirmed", TRUE)) ELSE rows[c]]

\* The store is seeded and the cache refreshed before any task runs.
Boot ==
    /\ up = "down" /\ up' = "starting"
    /\ torn' = FALSE
    /\ LET active == {c \in Ids : Mirrored(Seeded)[c] # NoRow}
           best   == {c \in active : \A d \in active :
                        Rank(Seeded[c].status) <= Rank(Seeded[d].status)}
       IN \/ active = {} /\ rows' = Seeded
          \/ \E keeper \in best :
               rows' = [c \in Ids |-> IF c \in active \ {keeper} THEN Expired(Seeded[c])
                                      ELSE Seeded[c]]
    /\ cache' = Mirrored(rows')
    /\ UNCHANGED <<task, writes>>

\* structural_fast_promote is over, or found nothing to do.
Serve ==
    /\ up = "starting" /\ up' = "serving"
    /\ "startup" \in Tasks => At("startup", "rest")
    /\ UNCHANGED <<rows, cache, task, torn, writes>>

-----------------------------------------------------------------------------
\* What earlier versions and earlier days may have left in the table.
Left == {NoRow, Plain("candidate", FALSE), [Plain("review", FALSE) EXCEPT !.mark = TRUE]}

Init ==
    /\ rows \in [Ids -> Left]
    /\ \A c \in Ids : rows[c] = Enforced(c, rows[c])
    /\ cache = NoRows
    /\ task = [t \in Tasks |-> Rest]
    /\ up = "down" /\ torn = FALSE /\ writes = 0

\* One await of a task, from the start of a pass to its end.
Proceeds(t) ==
    \/ CountOwners(t) \/ WalkBlind(t) \/ WalkFast(t) \/ WalkCopies(t)
    \/ GatePromote(t) \/ GateRelease(t)
    \/ UpdateReads(t) \/ Insert(t) \/ Dedup(t) \/ Mirror(t)
    \/ RefreshDedups(t) \/ RefreshFetches(t) \/ RefreshReplaces(t)
    \/ OperatorHydrates(t) \/ OperatorActs(t)

Next ==
    \/ \E t \in Tasks : Begin(t) \/ Sync(t) \/ Proceeds(t) \/ DedupFails(t)
    \/ OperatorAsks
    \/ \E c \in Ids : Forbid(c)
    \/ Crash \/ Boot \/ Serve

Spec == Init /\ [][Next]_vars

\* The event loop resumes every coroutine whose await is over, the sweep of
\* settled mappings and the refresh of discovery come back for ever, and a
\* process that ended is started again.
FairSpec ==
    /\ Spec
    /\ \A t \in Tasks \ {"settled"} : WF_vars(Proceeds(t))
    /\ WF_vars(Begin("settled") \/ Proceeds("settled"))
    /\ WF_vars(Boot \/ Serve)

-----------------------------------------------------------------------------
(* Properties.                                                             *)

Stages == {"rest", "count", "walk", "update", "insert", "dedup", "mirror",
           "refresh", "fetch", "replace", "hydrate", "body"}

TaskStates == [pass : {None, "sync", "refresh", "act"} \cup DOMAIN Walked,
               at : Stages, todo : SUBSET Ids, old : [Ids -> Rows],
               owned : BOOLEAN, id : Ids \cup {None}, row : Rows,
               gone : SUBSET Ids, wrote : BOOLEAN]

\* Rows, copies and requests are whole, the streak of a marked row stays below
\* the one that releases it, and a task that writes has an id in hand.
TypeOK ==
    /\ rows \in [Ids -> Rows] /\ cache \in [Ids -> Rows]
    /\ task \in [Tasks -> TaskStates]
    /\ \A t \in Tasks : task[t].at \in {"update", "insert", "dedup", "mirror", "hydrate", "body"}
                          => task[t].id \in Ids
    /\ up \in {"down", "starting", "serving"}
    /\ torn \in BOOLEAN /\ writes \in Nat

\* Two confirmed rows never claim the pair, except while an upsert that
\* confirmed one of them has still to expire the others, or failed to and no
\* refresh came since: whatever stale copies the tasks and the operator write
\* and wherever the process ended ("Once a row is confirmed, the venue pair
\* itself is unique", market_map.py:1470).
OnePairOwner ==
    \A c, d \in Confirmed :
        \/ c = d \/ up = "down" \/ torn
        \/ \E t \in Tasks : At(t, "dedup") /\ task[t].id \in {c, d}

\* A mapping whose event date is past ends up unconfirmed for good, also one
\* that a stale copy confirmed again and one whose auto-trade is already off
\* (expire_settled.py:81: "we want to catch confirmed-but-disabled rows too").
SettledExpires == <>[](Dated \cap Confirmed = {})

\* When the writers rest, the cache of the scanner holds the active rows of
\* the database, as they are, and the pair has one of them at most, whatever
\* was written from stale copies, by a failed upsert or to one side alone.
CacheConverges == <>[](cache = Mirrored(rows) /\ Cardinality(Active) <= 1)

\* A marked row is confirmed again by an operator only ("Quarantine marker is
\* TERMINAL for every promotion path", auto_promote.py:172).
QuarantineHolds ==
    [][\A c \in Ids :
          (rows[c].mark /\ rows[c].status # "confirmed" /\ rows'[c].status = "confirmed")
             => "operator" \in Tasks /\ At("operator", "insert") /\ task["operator"].id = c]_vars

=============================================================================
