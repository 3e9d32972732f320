--------------------------- MODULE MappingsProofs ---------------------------
(***************************************************************************)
(* The venue pair of Mappings has one confirmed row, for every set of      *)
(* canonical ids, of tasks and of the operator's actions and every bound.  *)
(*                                                                         *)
(* The invariant needs no strengthening beyond the types: two confirmed    *)
(* rows appear with an INSERT only, and the task that made it stands at    *)
(* the expiry of the others, which only its own next statement, the        *)
(* failure of it (torn) or the end of the process (up) can take away.      *)
(***************************************************************************)
EXTENDS Mappings, TLAPS

IInv == TypeOK /\ OnePairOwner

\* Every reachable state is well typed, and outside an unfinished or failed
\* upsert at most one row of the pair is confirmed (upsert,
\* _expire_duplicate_exact_pair_mappings, expire_duplicate_active_pairs).
THEOREM OneOwnerHolds == Spec => [](TypeOK /\ OnePairOwner)
<1> USE MappingsAssumption
<1>1. ASSUME NEW s \in Statuses, NEW a \in BOOLEAN
      PROVE  /\ Plain(s, a) \in Rows /\ [Plain(s, a) EXCEPT !.mark = TRUE] \in Rows
             /\ Plain(s, a).status = s
  <2>1. 0 \in 0..(Cycles - 1)
    OBVIOUS
  <2> QED
    BY <1>1, <2>1 DEF Plain, Rows
<1>2. NoRow \in Rows
  BY <1>1 DEF NoRow, Statuses
<1>3. ASSUME NEW row \in Rows
      PROVE  /\ Expired(row) \in Rows /\ Expired(row).status = "expired"
             /\ \A c \in Ids : Enforced(c, row) \in Rows
  BY <1>3 DEF Expired, Enforced, Rows, Statuses
<1>4. Rest \in TaskStates /\ Rest.at = "rest"
  <2>1. NoRows \in [Ids -> Rows]
    BY <1>2 DEF NoRows
  <2> HIDE DEF NoRows, NoRow, Rows
  <2> QED
    BY <1>2, <2>1 DEF Rest, TaskStates, Stages
<1>5. Init => IInv
  <2> SUFFICES ASSUME Init PROVE IInv
    OBVIOUS
  <2>1. Left \subseteq Rows
    <3> HIDE DEF NoRow
    <3>1. {"candidate", "review"} \subseteq Statuses
      BY DEF Statuses
    <3> QED
      BY <1>1, <1>2, <3>1 DEF Left
  <2>2. rows \in [Ids -> Rows] /\ cache \in [Ids -> Rows]
    BY <2>1, <1>2 DEF Init, NoRows
  <2>3. task \in [Tasks -> TaskStates] /\ \A t \in Tasks : task[t].at = "rest"
    BY <1>4 DEF Init
  <2> QED
    BY <2>2, <2>3 DEF Init, IInv, TypeOK, OnePairOwner
<1>6. IInv /\ [Next]_vars => IInv'
  <2> SUFFICES ASSUME IInv, [Next]_vars
               PROVE  IInv'
    OBVIOUS
  <2>1. /\ rows \in [Ids -> Rows] /\ cache \in [Ids -> Rows]
        /\ task \in [Tasks -> TaskStates]
    BY DEF IInv, TypeOK
  \* A task moves and no row does.
  <2>2. ASSUME NEW t \in Tasks, NEW state \in TaskStates, task' = [task EXCEPT ![t] = state],
               state.at \in {"update", "insert", "dedup", "mirror", "hydrate", "body"} => state.id \in Ids,
               task[t].at = "dedup" => torn',
               rows' = rows, cache' \in [Ids -> Rows], writes' \in Nat,
               up' = up, torn' \in BOOLEAN, torn => torn'
        PROVE  IInv'
    <3>1. task' \in [Tasks -> TaskStates]
      BY <2>1, <2>2
    <3>2. ASSUME NEW u \in Tasks
          PROVE  task'[u] = IF u = t THEN state ELSE task[u]
      BY <2>1, <2>2
    <3>3. TypeOK'
      BY <2>1, <2>2, <3>1, <3>2 DEF IInv, TypeOK
    <3>4. OnePairOwner'
      BY <2>1, <2>2, <3>2 DEF IInv, OnePairOwner, Confirmed, At
    <3> QED
      BY <3>3, <3>4 DEF IInv
  <2>3. ASSUME NEW t \in Tasks, NEW state \in TaskStates, Goes(t, state),
               state.at \in {"update", "insert", "dedup", "mirror", "hydrate", "body"} => state.id \in Ids,
               task[t].at # "dedup", UNCHANGED <<rows, up, torn>>,
               cache' \in [Ids -> Rows], writes' \in Nat
        PROVE  IInv'
    BY <2>2, <2>3 DEF Goes, IInv, TypeOK
  \* A task takes a row in hand, or ends its walk.
  <2>4. ASSUME NEW t \in Tasks, NEW c \in Ids, NEW row \in Rows,
               Holds(t, c, row) \/ HoldsNote(t, c, row),
               task[t].at # "dedup", UNCHANGED <<rows, up, torn>>,
               cache' \in [Ids -> Rows], writes' \in Nat
        PROVE  IInv'
    <3> DEFINE Held(at) == [task[t] EXCEPT !.at = at, !.id = c, !.row = row, !.todo = @ \ {c}]
    <3>1. task[t] \in TaskStates
      BY <2>1
    <3>2. ASSUME NEW at \in {"insert", "update"}
          PROVE  Held(at) \in TaskStates /\ Held(at).id \in Ids
      BY <3>1 DEF TaskStates, Stages
    <3>3. Goes(t, Held("insert")) \/ Goes(t, Held("update"))
      BY <2>4 DEF Holds, HoldsNote
    <3> HIDE DEF Held
    <3> QED
      BY <2>3, <2>4, <3>2, <3>3
  <2>5. ASSUME NEW t \in Tasks, NEW wrote \in BOOLEAN, Over(t, wrote) \/ Done(t, wrote),
               task[t].at = "dedup" => torn',
               rows' = rows, cache' \in [Ids -> Rows], writes' \in Nat,
               up' = up, torn' \in BOOLEAN, torn => torn'
        PROVE  IInv'
    <3> DEFINE Ending == [Rest EXCEPT !.pass = task[t].pass, !.at = "refresh"]
               Walking == [task[t] EXCEPT !.at = "walk", !.id = None, !.row = NoRow,
                                          !.gone = {}, !.wrote = wrote]
    <3>1. task[t] \in TaskStates
      BY <2>1
    <3>2. Ending \in TaskStates /\ Ending.at = "refresh"
      <4> HIDE DEF Rest
      <4> QED
        BY <1>4, <3>1 DEF TaskStates, Stages
    <3>3. Walking \in TaskStates /\ Walking.at = "walk"
      <4> HIDE DEF NoRow
      <4> QED
        BY <1>2, <2>5, <3>1 DEF TaskStates, Stages
    <3>4. PICK state \in {Ending, Rest, Walking} : task' = [task EXCEPT ![t] = state]
      BY <2>5 DEF Over, Done, Goes
    <3> HIDE DEF Ending, Walking
    <3> QED
      BY <1>4, <2>2, <2>5, <3>2, <3>3, <3>4
  <2>6. ASSUME NEW t \in Tasks, NEW c \in Ids, Skip(t, c), task[t].at # "dedup",
               UNCHANGED <<rows, cache, up, torn, writes>>
        PROVE  IInv'
    <3> DEFINE Shorter == [task[t] EXCEPT !.todo = @ \ {c}]
    <3>1. task[t] \in TaskStates
      BY <2>1
    <3>2. Shorter \in TaskStates /\ Shorter.at = task[t].at /\ Shorter.id = task[t].id
      BY <3>1 DEF TaskStates
    <3>3. CASE Over(t, task[t].wrote)
      BY <2>1, <2>5, <2>6, <3>1, <3>3 DEF TaskStates, IInv, TypeOK
    <3>4. CASE Goes(t, Shorter)
      <4> HIDE DEF Shorter
      <4> QED
        BY <2>1, <2>3, <2>6, <3>2, <3>4 DEF IInv, TypeOK
    <3> QED
      BY <2>6, <3>3, <3>4 DEF Skip
  <2>7. ASSUME NEW t \in Tasks, Begin(t)
        PROVE  IInv'
    <3>0. ASSUME NEW p
          PROVE  Read(p) \subseteq Ids
      BY DEF Read
    <3>1. PICK p \in DOMAIN Walked, todo \in SUBSET Ids :
             Goes(t, [Rest EXCEPT
                   !.pass = p, !.todo = todo,
                   !.at = IF p \in {"promote", "release"} THEN "count" ELSE "walk",
                   !.owned = p = "fast" /\ Confirmed # {},
                   !.old = [c \in Ids |-> IF p \in Copying /\ c \in todo
                                          THEN rows[c] ELSE NoRow]])
      <4> HIDE DEF Goes, Walked, Script, Read, Copying, NoRow, Rest, Confirmed
      <4> QED
        BY <2>7, <3>0 DEF Begin
    <3> DEFINE at == IF p \in {"promote", "release"} THEN "count" ELSE "walk"
               owned == (p = "fast" /\ Confirmed # {})
               old == [c \in Ids |-> IF p \in Copying /\ c \in todo THEN rows[c] ELSE NoRow]
               Started == [Rest EXCEPT !.pass = p, !.todo = todo, !.at = at,
                                       !.owned = owned, !.old = old]
    <3>2. old \in [Ids -> Rows]
      BY <1>2, <2>1
    <3>4. at \in {"count", "walk"} /\ owned \in BOOLEAN
      OBVIOUS
    <3>5. Started \in TaskStates /\ Started.at = at
      <4> HIDE DEF Rest, at, owned, old, Walked
      <4> QED
        BY <1>4, <3>2, <3>4 DEF TaskStates, Stages
    <3>6. Goes(t, Started)
      BY <3>1
    <3>7. writes' \in Nat /\ task[t].at # "dedup" /\ UNCHANGED <<rows, cache, up, torn>>
      BY <2>7 DEF Begin, MayStart, At, IInv, TypeOK
    <3> HIDE DEF Started
    <3> QED
      BY <2>1, <2>3, <3>4, <3>5, <3>6, <3>7
  <2>8. ASSUME NEW t \in Tasks, Sync(t)
        PROVE  IInv'
    <3>1. PICK c \in Ids, verdict \in {"confirmed", "review", "candidate"}, noted \in BOOLEAN :
             Goes(t, [Rest EXCEPT !.pass = "sync", !.at = "insert", !.id = c,
                                  !.row = FromCandidate(rows[c], verdict, noted)])
      <4>1. \A cs \in SUBSET Ids : Best(cs) \subseteq Ids
        BY DEF Best
      <4>2. Bound \subseteq Ids
        BY DEF Bound
      <4> HIDE DEF Goes, FromCandidate, Best, Bound, Rest, Script
      <4> QED
        BY <2>8, <4>1, <4>2 DEF Sync
    <3> DEFINE row == FromCandidate(rows[c], verdict, noted)
               Synced == [Rest EXCEPT !.pass = "sync", !.at = "insert", !.id = c, !.row = row]
    <3>2. row \in Rows
      <4>1. rows[c] \in Rows /\ rows[c].status \in Statuses /\ rows[c].allow \in BOOLEAN
        BY <2>1 DEF Rows
      <4>2. \A r \in Rows : /\ [r EXCEPT !.allow = FALSE] \in Rows
                            /\ [r EXCEPT !.status = "candidate", !.allow = FALSE] \in Rows
        BY DEF Rows, Statuses
      <4>3. {"confirmed", "review"} \subseteq Statuses
        BY DEF Statuses
      <4>4. Plain(rows[c].status, rows[c].allow) \in Rows
        BY <1>1, <4>1
      <4>5. Plain("confirmed", TRUE) \in Rows /\ Plain("review", FALSE) \in Rows
        BY <1>1, <4>3
      <4> HIDE DEF Plain, Rows, Statuses
      <4> QED
        BY <4>1, <4>2, <4>4, <4>5 DEF FromCandidate
    <3>3. Synced \in TaskStates /\ Synced.id \in Ids
      <4> HIDE DEF Rest, row
      <4> QED
        BY <1>4, <3>2 DEF TaskStates, Stages
    <3>4. Goes(t, Synced)
      BY <3>1
    <3>5. writes' \in Nat /\ task[t].at # "dedup" /\ UNCHANGED <<rows, cache, up, torn>>
      BY <2>8 DEF Sync, MayStart, At, IInv, TypeOK
    <3> HIDE DEF Synced
    <3> QED
      BY <2>1, <2>3, <3>3, <3>4, <3>5
  <2>9. ASSUME NEW t \in Tasks, CountOwners(t)
        PROVE  IInv'
    <3>0. PICK owned \in {Confirmed # {}, FALSE} :
            Goes(t, [task[t] EXCEPT !.at = "walk", !.owned = owned])
      BY <2>9 DEF CountOwners
    <3> DEFINE Counted == [task[t] EXCEPT !.at = "walk", !.owned = owned]
    <3>1. Counted \in TaskStates /\ Counted.at = "walk"
      <4>1. task[t] \in TaskStates
        BY <2>1
      <4> QED
        BY <4>1 DEF TaskStates, Stages
    <3>2. /\ Goes(t, Counted) /\ task[t].at # "dedup"
          /\ UNCHANGED <<rows, cache, up, torn, writes>>
      BY <2>9, <3>0 DEF CountOwners, At
    <3> HIDE DEF Counted
    <3> QED
      BY <2>1, <2>3, <3>1, <3>2 DEF IInv, TypeOK
  \* The decisions of a walk take a row in hand or leave it.
  <2>10. ASSUME NEW t \in Tasks, NEW c \in Ids, task[t].at = "walk",
                UNCHANGED <<rows, cache, up, torn, writes>>,
                \/ Skip(t, c)
                \/ \E row \in Rows : Holds(t, c, row) \/ HoldsNote(t, c, row)
         PROVE  IInv'
    BY <2>1, <2>4, <2>6, <2>10 DEF IInv, TypeOK
  <2>11. ASSUME NEW t \in Tasks
         PROVE  task[t].todo \subseteq Ids /\ task[t].old \in [Ids -> Rows]
    BY <2>1 DEF TaskStates
  <2>12. /\ Plain("confirmed", TRUE) \in Rows /\ Plain("expired", FALSE) \in Rows
         /\ [Plain("review", FALSE) EXCEPT !.mark = TRUE] \in Rows
    <3>1. {"confirmed", "expired", "review"} \subseteq Statuses
      BY DEF Statuses
    <3> QED
      BY <1>1, <3>1
  <2>13. ASSUME NEW t \in Tasks, WalkBlind(t)
         PROVE  IInv'
    <3>1. Verdict[task[t].pass] \in Rows
      <4> DEFINE expired == Plain("expired", FALSE)
                 marked == [Plain("review", FALSE) EXCEPT !.mark = TRUE]
                 confirmed == Plain("confirmed", TRUE)
      <4>1. expired \in Rows /\ marked \in Rows /\ confirmed \in Rows
        BY <2>12
      <4>2. Verdict = [expire |-> expired, settle |-> expired,
                       quarantine |-> marked, revalidate |-> confirmed]
        BY DEF Verdict
      <4> HIDE DEF expired, marked, confirmed
      <4>3. \A p \in DOMAIN Verdict : Verdict[p] \in Rows
        BY <4>1, <4>2
      <4> QED
        BY <2>13, <4>3 DEF WalkBlind
    <3> QED
      BY <2>10, <2>11, <2>13, <3>1 DEF WalkBlind, At
  <2>14. ASSUME NEW t \in Tasks, WalkFast(t)
         PROVE  IInv'
    BY <2>10, <2>11, <2>12, <2>14 DEF WalkFast, At
  <2>15. ASSUME NEW t \in Tasks, WalkCopies(t)
         PROVE  IInv'
    BY <2>10, <2>11, <2>12, <2>15 DEF WalkCopies, At
  <2>16. ASSUME NEW t \in Tasks, GatePromote(t)
         PROVE  IInv'
    <3>1. ASSUME NEW c \in Ids
          PROVE  [Plain(rows[c].status, FALSE) EXCEPT !.mark = TRUE] \in Rows
      BY <1>1, <2>1 DEF Rows
    <3> QED
      BY <2>10, <2>11, <2>12, <2>16, <3>1 DEF GatePromote, At
  <2>17. ASSUME NEW t \in Tasks, GateRelease(t)
         PROVE  IInv'
    <3>1. ASSUME NEW c \in Ids, NEW n \in 0..(Cycles - 1)
          PROVE  [rows[c] EXCEPT !.streak = n] \in Rows
      BY <2>1 DEF Rows
    <3>2. ASSUME NEW c \in Ids
          PROVE  /\ Plain(rows[c].status, FALSE) \in Rows
                 /\ rows[c].streak \in 0..(Cycles - 1)
      BY <1>1, <2>1 DEF Rows
    <3>3. ASSUME NEW n \in 0..(Cycles - 1), ~Sustained(n)
          PROVE  n + 1 \in 0..(Cycles - 1)
      BY <3>3 DEF Sustained
    <3>4. 0 \in 0..(Cycles - 1)
      OBVIOUS
    <3>5. PICK c \in Ids :
             \/ Skip(t, c)
             \/ HoldsNote(t, c, [rows[c] EXCEPT !.streak = 0])
             \/ HoldsNote(t, c, Plain(rows[c].status, FALSE))
             \/ /\ ~Sustained(rows[c].streak)
                /\ HoldsNote(t, c, [rows[c] EXCEPT !.streak = rows[c].streak + 1])
      <4> HIDE DEF Plain, Skip, HoldsNote, Sustained
      <4> QED
        BY <2>11, <2>17 DEF GateRelease
    <3> QED
      BY <2>10, <2>17, <3>1, <3>2, <3>3, <3>4, <3>5 DEF GateRelease, At
  <2>18. ASSUME NEW t \in Tasks, UpdateReads(t)
         PROVE  IInv'
    <3> DEFINE Read1 == [task[t] EXCEPT !.at = "insert", !.row.allow = rows[task[t].id].allow]
    <3>1. task[t] \in TaskStates /\ task[t].id \in Ids /\ task[t].row \in Rows
      BY <2>1, <2>18 DEF UpdateReads, At, IInv, TypeOK, TaskStates
    <3>2. [task[t].row EXCEPT !.allow = rows[task[t].id].allow] \in Rows
      BY <2>1, <3>1 DEF Rows
    <3>3. Read1 \in TaskStates /\ Read1.id = task[t].id
      BY <3>1, <3>2 DEF TaskStates, Stages
    <3>4. /\ Goes(t, Read1) /\ task[t].at # "dedup"
          /\ UNCHANGED <<rows, cache, up, torn, writes>>
      BY <2>18 DEF UpdateReads, At
    <3> HIDE DEF Read1
    <3> QED
      BY <2>1, <2>3, <3>1, <3>3, <3>4 DEF IInv, TypeOK
  \* A row that becomes confirmed is that of a task that now stands at the
  \* expiry of the others.
  <2>19. ASSUME NEW t \in Tasks, Insert(t)
         PROVE  IInv'
    <3> DEFINE row == Enforced(task[t].id, task[t].row)
               stage == IF row.status = "confirmed" THEN "dedup" ELSE "mirror"
               Inserted == [task[t] EXCEPT !.row = row, !.at = stage]
    <3>1. task[t] \in TaskStates /\ task[t].id \in Ids /\ task[t].row \in Rows
      BY <2>1, <2>19 DEF Insert, At, IInv, TypeOK, TaskStates
    <3>2. row \in Rows
      BY <1>3, <3>1
    <3>3. /\ rows' = [rows EXCEPT ![task[t].id] = row]
          /\ task' = [task EXCEPT ![t] = Inserted]
          /\ UNCHANGED <<cache, up, torn, writes>> /\ task[t].at = "insert"
      BY <2>19 DEF Insert, Goes, At
    <3>4. stage \in Stages
      BY DEF Stages
    <3> HIDE DEF row
    <3>5. /\ Inserted \in TaskStates /\ Inserted.id = task[t].id
          /\ row.status = "confirmed" => Inserted.at = "dedup"
      BY <3>1, <3>2, <3>4 DEF TaskStates
    <3> HIDE DEF Inserted
    <3>6. /\ rows' \in [Ids -> Rows] /\ task' \in [Tasks -> TaskStates]
          /\ \A u \in Tasks : task'[u] = IF u = t THEN Inserted ELSE task[u]
          /\ \A c \in Ids : rows'[c] = IF c = task[t].id THEN row ELSE rows[c]
      BY <2>1, <3>1, <3>2, <3>3, <3>5
    <3>7. TypeOK'
      BY <3>1, <3>3, <3>5, <3>6 DEF IInv, TypeOK
    <3>8. ASSUME NEW c \in Confirmed', NEW d \in Confirmed', c # d, ~torn', up' # "down"
          PROVE  \E u \in Tasks : At(u, "dedup")' /\ task'[u].id \in {c, d}
      <4>1. CASE task[t].id \in {c, d}
        <5>1. row.status = "confirmed"
          BY <3>6, <4>1 DEF Confirmed
        <5> QED
          BY <3>5, <3>6, <4>1, <5>1 DEF At
      <4>2. CASE task[t].id \notin {c, d}
        <5>1. c \in Confirmed /\ d \in Confirmed
          BY <3>6, <4>2 DEF Confirmed
        <5>2. PICK u \in Tasks : task[u].at = "dedup" /\ task[u].id \in {c, d}
          BY <3>3, <3>8, <5>1 DEF IInv, OnePairOwner, At
        <5> QED
          BY <3>3, <3>6, <5>2 DEF At
      <4> QED
        BY <4>1, <4>2
    <3> QED
      BY <3>7, <3>8 DEF IInv, OnePairOwner
  <2>20. ASSUME NEW t \in Tasks, Dedup(t)
         PROVE  IInv'
    <3> DEFINE gone == Others(task[t].id)
               Deduped == [task[t] EXCEPT !.at = "mirror", !.gone = gone]
    <3>1. task[t] \in TaskStates /\ task[t].id \in Ids
      BY <2>1, <2>20 DEF Dedup, At, IInv, TypeOK
    <3>2. gone \subseteq Ids /\ \A c \in Confirmed : c # task[t].id => c \in gone
      BY DEF Others, Active, Confirmed
    <3>3. /\ rows' = [c \in Ids |-> IF c \in gone THEN Expired(rows[c]) ELSE rows[c]]
          /\ task' = [task EXCEPT ![t] = Deduped]
          /\ UNCHANGED <<cache, up, torn, writes>>
      BY <2>20 DEF Dedup, Goes
    <3> HIDE DEF gone
    <3>4. Deduped \in TaskStates /\ Deduped.id = task[t].id
      BY <3>1, <3>2 DEF TaskStates, Stages
    <3> HIDE DEF Deduped
    <3>5. /\ rows' \in [Ids -> Rows] /\ task' \in [Tasks -> TaskStates]
          /\ \A u \in Tasks : task'[u] = IF u = t THEN Deduped ELSE task[u]
      BY <1>3, <2>1, <3>3, <3>4
    <3>6. TypeOK'
      BY <3>1, <3>3, <3>4, <3>5 DEF IInv, TypeOK
    <3>7. \A c \in Confirmed' : c = task[t].id
      BY <1>3, <2>1, <3>2, <3>3 DEF Confirmed
    <3> QED
      BY <3>6, <3>7 DEF IInv, OnePairOwner
  <2>21. ASSUME NEW t \in Tasks, DedupFails(t)
         PROVE  IInv'
    <3>1. task[t].wrote \in BOOLEAN
      BY <2>1 DEF TaskStates
    <3>2. /\ Done(t, task[t].wrote) \/ Goes(t, Rest)
          /\ torn' = TRUE /\ writes' \in Nat /\ UNCHANGED <<rows, cache, up>>
      BY <2>21 DEF DedupFails, IInv, TypeOK
    <3>3. CASE Done(t, task[t].wrote)
      BY <2>1, <2>5, <3>1, <3>2, <3>3
    <3>4. CASE Goes(t, Rest)
      BY <1>4, <2>1, <2>2, <3>2, <3>4 DEF Goes
    <3> QED
      BY <3>2, <3>3, <3>4
  <2>22. ASSUME NEW t \in Tasks, Mirror(t)
         PROVE  IInv'
    <3>1. PICK wrote \in BOOLEAN : Done(t, wrote)
      <4>1. task[t].wrote \in BOOLEAN
        BY <2>1 DEF TaskStates
      <4> HIDE DEF Done
      <4> QED
        BY <2>22, <4>1 DEF Mirror
    <3>2. task[t].row \in Rows
      BY <2>1 DEF TaskStates
    <3>3. cache' \in [Ids -> Rows]
      BY <1>2, <2>1, <2>22, <3>2 DEF Mirror
    <3>4. task[t].at # "dedup" /\ UNCHANGED <<rows, up, torn, writes>>
      BY <2>22 DEF Mirror, At
    <3> QED
      BY <2>5, <3>1, <3>3, <3>4 DEF IInv, TypeOK
  \* A refresh leaves one active row.
  <2>23. ASSUME NEW t \in Tasks, RefreshDedups(t)
         PROVE  IInv'
    <3> DEFINE changed == {c \in Ids : rows'[c] # rows[c]}
               Fetching == [Rest EXCEPT !.pass = "refresh", !.at = "fetch", !.gone = changed]
    <3>1. \/ Active = {} /\ rows' = rows
          \/ \E keeper \in Ids : rows' = Retired(keeper)
      BY <2>23 DEF RefreshDedups, Best, Active
    <3>2. /\ rows' \in [Ids -> Rows]
          /\ \A c, d \in Confirmed' : c = d
      <4>1. CASE Active = {} /\ rows' = rows
        BY <2>1, <4>1 DEF Active, Confirmed
      <4>2. ASSUME NEW keeper \in Ids, rows' = Retired(keeper)
            PROVE  rows' \in [Ids -> Rows] /\ \A c \in Confirmed' : c = keeper
        BY <1>3, <2>1, <4>2 DEF Retired, Active, Confirmed
      <4> QED
        BY <3>1, <4>1, <4>2
    <3>3. /\ task' = [task EXCEPT ![t] = Fetching] /\ torn' = FALSE
          /\ UNCHANGED <<cache, up, writes>>
      BY <2>23 DEF RefreshDedups, Goes
    <3>4. Fetching \in TaskStates /\ Fetching.at = "fetch"
      <4> HIDE DEF Rest
      <4> QED
        BY <1>4 DEF TaskStates, Stages
    <3> HIDE DEF Fetching
    <3>5. /\ task' \in [Tasks -> TaskStates]
          /\ \A u \in Tasks : task'[u] = IF u = t THEN Fetching ELSE task[u]
      BY <2>1, <3>3, <3>4
    <3>6. TypeOK'
      BY <3>2, <3>3, <3>4, <3>5 DEF IInv, TypeOK
    <3> QED
      BY <3>2, <3>6 DEF IInv, OnePairOwner
  <2>24. ASSUME NEW t \in Tasks, RefreshFetches(t) \/ RefreshReplaces(t)
         PROVE  IInv'
    <3> DEFINE Fetched == [task[t] EXCEPT !.at = "replace", !.old = Mirrored(rows), !.gone = {}]
    <3>1. task[t] \in TaskStates /\ task[t].old \in [Ids -> Rows]
      BY <2>1 DEF TaskStates
    <3>2. Mirrored(rows) \in [Ids -> Rows]
      BY <1>2, <2>1 DEF Mirrored
    <3>3. Fetched \in TaskStates /\ Fetched.at = "replace"
      <4> HIDE DEF Mirrored
      <4> QED
        BY <3>1, <3>2 DEF TaskStates, Stages
    <3>4. Goes(t, Fetched) \/ Goes(t, Rest)
      BY <2>24 DEF RefreshFetches, RefreshReplaces
    <3>5. cache' \in [Ids -> Rows]
      BY <1>2, <2>1, <2>24, <3>1 DEF RefreshFetches, RefreshReplaces, Replaced
    <3>6. task[t].at # "dedup" /\ UNCHANGED <<rows, up, torn, writes>>
      BY <2>24 DEF RefreshFetches, RefreshReplaces, At
    <3> HIDE DEF Fetched
    <3> QED
      BY <1>4, <2>3, <3>3, <3>4, <3>5, <3>6 DEF IInv, TypeOK
  <2>25. ASSUME OperatorAsks
         PROVE  IInv'
    <3> DEFINE Asked(c) == [Rest EXCEPT !.pass = "act", !.at = "body", !.id = c]
               Reads(c) == [Rest EXCEPT !.pass = "act", !.at = "hydrate", !.id = c, !.row = rows[c]]
    <3>1. PICK c \in Ids : Goes("operator", Asked(c)) \/ Goes("operator", Reads(c))
      BY <2>25 DEF OperatorAsks
    <3>2. /\ Asked(c) \in TaskStates /\ Asked(c).id \in Ids /\ Asked(c).at = "body"
          /\ Reads(c) \in TaskStates /\ Reads(c).id \in Ids /\ Reads(c).at = "hydrate"
      <4> HIDE DEF Rest
      <4> QED
        BY <1>4, <2>1 DEF TaskStates, Stages
    <3>3. /\ "operator" \in Tasks /\ task["operator"].at # "dedup"
          /\ cache' \in [Ids -> Rows] /\ writes' \in Nat /\ UNCHANGED <<rows, up, torn>>
      BY <2>25 DEF OperatorAsks, MayStart, At, IInv, TypeOK
    <3> HIDE DEF Asked, Reads
    <3> QED
      BY <2>3, <3>1, <3>2, <3>3
  <2>25h. ASSUME NEW t \in Tasks, OperatorHydrates(t)
          PROVE  IInv'
    <3> DEFINE Hydrated == [task[t] EXCEPT !.at = "body", !.row = NoRow]
    <3>1. task[t] \in TaskStates /\ task[t].id \in Ids /\ task[t].row \in Rows
      BY <2>1, <2>25h DEF OperatorHydrates, At, IInv, TypeOK, TaskStates
    <3>2. Hydrated \in TaskStates /\ Hydrated.id \in Ids
      <4> HIDE DEF NoRow
      <4> QED
        BY <1>2, <3>1 DEF TaskStates, Stages
    <3>3. /\ cache' \in [Ids -> Rows] /\ Goes(t, Hydrated) /\ task[t].at # "dedup"
          /\ UNCHANGED <<rows, up, torn>> /\ writes' \in Nat
      BY <2>1, <2>25h, <3>1 DEF OperatorHydrates, At, IInv, TypeOK
    <3> HIDE DEF Hydrated
    <3> QED
      BY <2>3, <3>2, <3>3
  <2>26. ASSUME NEW t \in Tasks, OperatorActs(t)
         PROVE  IInv'
    <3>1. task[t].id \in Ids
      BY <2>26 DEF OperatorActs, At, IInv, TypeOK
    <3>2. ASSUME NEW row \in Rows, NEW verb \in Verbs
          PROVE  Acted(row)[verb] \in Rows
      <4>1. row.status \in Statuses /\ row.allow \in BOOLEAN
        BY <3>2 DEF Rows
      <4>2. {"confirmed", "review", "rejected", "expired"} \subseteq Statuses
        BY DEF Statuses
      <4>3. /\ Plain("confirmed", row.allow) \in Rows /\ Plain("review", FALSE) \in Rows
            /\ Plain("rejected", FALSE) \in Rows /\ Plain("expired", FALSE) \in Rows
            /\ Plain(row.status, FALSE) \in Rows /\ Plain(row.status, TRUE) \in Rows
        BY <1>1, <4>1, <4>2
      <4>4. verb \in {"confirm", "review", "reject", "expire", "disable", "enable"}
        BY <3>2
      <4> DEFINE kept == Plain("confirmed", row.allow)
                 review == Plain("review", FALSE)
                 reject == Plain("rejected", FALSE)
                 expire == Plain("expired", FALSE)
                 disable == Plain(row.status, FALSE)
                 enable == Plain(row.status, TRUE)
      <4>5. Acted(row) = [confirm |-> kept, review |-> review, reject |-> reject,
                          expire |-> expire, disable |-> disable, enable |-> enable]
        BY DEF Acted
      <4>6. /\ kept \in Rows /\ review \in Rows /\ reject \in Rows
            /\ expire \in Rows /\ disable \in Rows /\ enable \in Rows
        BY <4>3
      <4> HIDE DEF kept, review, reject, expire, disable, enable, Rows
      <4> QED
        BY <4>4, <4>5, <4>6
    <3> DEFINE c == task[t].id
    <3>3. \/ Goes(t, Rest) /\ UNCHANGED cache
          \/ \E verb \in Verbs : /\ cache' = [cache EXCEPT ![c] = Acted(@)[verb]]
                                 /\ Holds(t, c, Acted(cache[c])[verb])
      <4> HIDE DEF Goes, Holds, Acted, Refused
      <4> QED
        BY <2>26 DEF OperatorActs
    <3>4. task[t].at # "dedup" /\ UNCHANGED <<rows, up, torn, writes>> /\ writes' \in Nat
      BY <2>26 DEF OperatorActs, At, IInv, TypeOK
    <3>5. CASE Goes(t, Rest) /\ UNCHANGED cache
      BY <1>4, <2>1, <2>3, <3>4, <3>5
    <3>6. ASSUME NEW verb \in Verbs, cache' = [cache EXCEPT ![c] = Acted(@)[verb]],
                 Holds(t, c, Acted(cache[c])[verb])
          PROVE  IInv'
      <4>1. cache[c] \in Rows
        BY <2>1, <3>1
      <4>2. Acted(cache[c])[verb] \in Rows
        BY <3>2, <4>1
      <4>3. cache' \in [Ids -> Rows]
        BY <2>1, <3>6, <4>2
      <4> HIDE DEF Acted, Holds
      <4> QED
        BY <2>4, <3>1, <3>4, <3>6, <4>2, <4>3
    <3> QED
      BY <3>3, <3>5, <3>6
  <2>27. ASSUME NEW c \in Ids, Forbid(c)
         PROVE  IInv'
    <3>1. rows' = [rows EXCEPT ![c].allow = FALSE] /\ UNCHANGED <<cache, task, up, torn>>
      BY <2>27 DEF Forbid
    <3>2. writes' \in Nat
      BY <2>27 DEF Forbid, IInv, TypeOK
    <3>3. [rows[c] EXCEPT !.allow = FALSE] \in Rows
      BY <2>1 DEF Rows
    <3>4. /\ rows' \in [Ids -> Rows]
          /\ \A d \in Ids : rows'[d].status = rows[d].status
      BY <2>1, <3>1, <3>3 DEF Rows
    <3>5. TypeOK'
      BY <3>1, <3>2, <3>4 DEF IInv, TypeOK
    <3>6. Confirmed' = Confirmed
      BY <3>4 DEF Confirmed
    <3> QED
      BY <3>1, <3>5, <3>6 DEF IInv, OnePairOwner, At
  <2>28. CASE Crash
    <3>1. /\ task' \in [Tasks -> TaskStates] /\ cache' \in [Ids -> Rows]
          /\ \A t \in Tasks : task'[t].at = "rest"
      BY <1>2, <1>4, <2>28 DEF Crash, NoRows
    <3>2. up' = "down" /\ writes' \in Nat /\ UNCHANGED <<rows, torn>>
      BY <2>28 DEF Crash, IInv, TypeOK
    <3> QED
      BY <2>1, <3>1, <3>2 DEF IInv, TypeOK, OnePairOwner
  <2>29. CASE Boot
    <3>1. Seeded \in [Ids -> Rows]
      <4>1. Plain("confirmed", TRUE) \in Rows
        BY <1>1 DEF Statuses
      <4> HIDE DEF Plain, Enforced, Rows
      <4> QED
        BY <1>3, <2>1, <4>1 DEF Seeded
    <3> DEFINE active == {c \in Ids : Mirrored(Seeded)[c] # NoRow}
    <3>2. \A c \in Ids : Seeded[c].status = "confirmed" => c \in active
      BY <3>1 DEF Mirrored, NoRow, Plain
    <3>3. \/ active = {} /\ rows' = Seeded
          \/ \E keeper \in active :
               rows' = [c \in Ids |-> IF c \in active \ {keeper} THEN Expired(Seeded[c])
                                      ELSE Seeded[c]]
      <4> HIDE DEF active
      <4> QED
        BY <2>29 DEF Boot, active
    <3> HIDE DEF active
    <3>4. rows' \in [Ids -> Rows] /\ \A c, d \in Confirmed' : c = d
      <4>1. CASE active = {} /\ rows' = Seeded
        BY <3>1, <3>2, <4>1 DEF Confirmed
      <4>2. ASSUME NEW keeper \in active,
                   rows' = [c \in Ids |-> IF c \in active \ {keeper} THEN Expired(Seeded[c])
                                          ELSE Seeded[c]]
            PROVE  rows' \in [Ids -> Rows] /\ \A c \in Confirmed' : c = keeper
        BY <1>3, <3>1, <3>2, <4>2 DEF Confirmed
      <4> QED
        BY <3>3, <4>1, <4>2
    <3>5. cache' \in [Ids -> Rows]
      BY <1>2, <2>29, <3>4 DEF Boot, Mirrored
    <3>6. up' = "starting" /\ torn' = FALSE /\ UNCHANGED <<task, writes>>
      BY <2>29 DEF Boot
    <3> QED
      BY <3>4, <3>5, <3>6 DEF IInv, TypeOK, OnePairOwner
  <2>30. CASE Serve
    BY <2>1, <2>30 DEF Serve, IInv, TypeOK, OnePairOwner, Confirmed, At
  <2>31. CASE UNCHANGED vars
    BY <2>31 DEF vars, IInv, TypeOK, OnePairOwner, Confirmed, At
  <2> QED
    BY <2>7, <2>8, <2>9, <2>13, <2>14, <2>15, <2>16, <2>17, <2>18, <2>19, <2>20, <2>21,
       <2>22, <2>23, <2>24, <2>25, <2>25h, <2>26, <2>27, <2>28, <2>29, <2>30, <2>31
    DEF Next, Proceeds
<1> QED
  BY <1>5, <1>6, PTL DEF Spec, IInv
=============================================================================
