------------------------- MODULE WayfinderBinding -------------------------
(***************************************************************************)
(* The operations on a Wayfinder map, as they interleave: request 81       *)
(* (bind), the comment bind that observing a map schedules, the API        *)
(* process's recheck of the comment, requests 84 and 85 (hat unlock and    *)
(* equip), a player's moves between maps, uploads and deletions of specs.  *)
(* From src/src/server2.rs, src/src/queries/{listed_maps,hats,             *)
(* custom_map_aux_specs}.rs and src/src/moderation_http.rs.                *)
(*                                                                         *)
(* A job is one running handler or spawned task, pc its next await.  Three *)
(* things serialize jobs: the per-map operation lock of the plugin server  *)
(* (the API process does not take it), the spec row a binding transaction  *)
(* holds FOR UPDATE from "tx" to "commit", and a connection's read loop,   *)
(* which handles one inline request at a time.  The debounce that admits   *)
(* comment binds only delays them, so a comment bind may start any time.   *)
(***************************************************************************)
EXTENDS WayfinderTables, FiniteSets

CONSTANTS
    Jobs,       \* slots of running handlers and tasks
    Permits,    \* COMMENT_BIND_PERMITS
    MaxStarts,  \* bound: jobs of each kind that start
    MaxEdits    \* bound: uploads and comment changes

Kinds == {"bind", "comment", "recheck", "unlock", "equip", "move", "delete"}

ASSUME BindingAssumption ==
    /\ Nil \notin Jobs
    /\ Permits \in Nat \ {0}
    /\ MaxStarts \in [Kinds -> Nat]
    /\ MaxEdits \in Nat

VARIABLES
    job,      \* what runs in each slot
    mapLock,  \* WayfinderMapOperationLocks: the job holding each map's lock
    tracked,  \* the Wayfinder map each player's connection is on
    comment,  \* the spec each map's published comment names at Nadeo
    endorsed, \* history: every spec a map's comment has named
    shown,    \* the hat last broadcast for each player on each map
    silent,   \* history: <<map, player>> whose hat came off unannounced
    starts,
    edits

vars == <<tables, job, mapLock, tracked, comment, endorsed, shown, silent, starts, edits>>

NoJob == [kind |-> "none", pc |-> "idle", user |-> Nil, map |-> Nil, spec |-> Nil,
          slug |-> Nil, proof |-> Nil, seen |-> Nil, src |-> NoSpecRow,
          push |-> {}, inline |-> FALSE]

JobRecords == [kind : Kinds \cup {"none"},
               pc : {"idle", "prepare", "nadeo", "permit", "lock", "fetch", "tx", "commit",
                     "row", "judge", "grant", "equip", "join", "announce", "check", "delete",
                     "fkViolation"},
               user : Users \cup {Nil}, map : Maps \cup {Nil}, spec : Specs \cup {Nil},
               slug : Slugs \cup {Nil}, proof : Users \cup Criteria \cup {Nil},
               seen : Specs \cup {Nil}, src : SpecRows,
               push : SUBSET (Users \X (Slugs \cup {Nil})), inline : BOOLEAN]

TypeOK ==
    /\ TablesTypeOK
    /\ job \in [Jobs -> JobRecords]
    /\ mapLock \in [Maps -> Jobs \cup {Nil}]
    /\ tracked \in [Users -> Maps \cup {Nil}]
    /\ comment \in [Maps -> Specs \cup {Nil}]
    /\ endorsed \in [Maps -> SUBSET Specs]
    /\ shown \in [Maps -> [Users -> Slugs \cup {Nil}]]
    /\ silent \subseteq Maps \X Users
    /\ starts \in [Kinds -> Nat]
    /\ \A k \in Kinds : starts[k] <= MaxStarts[k]
    /\ edits \in 0 .. MaxEdits

\* A server that has just started: nothing runs, nobody is connected.
Idle ==
    /\ job = [j \in Jobs |-> NoJob]
    /\ mapLock = [m \in Maps |-> Nil]
    /\ tracked = [u \in Users |-> Nil]
    /\ comment \in [Maps -> Specs \cup {Nil}]
    /\ endorsed = [m \in Maps |-> {comment[m]} \ {Nil}]
    /\ shown = [m \in Maps |-> [u \in Users |-> Nil]]
    /\ silent = {}
    /\ starts = [k \in Kinds |-> 0]
    /\ edits = 0

Init == (TablesInit \/ TablesLegacyInit \/ TablesBoundInit) /\ Idle

-----------------------------------------------------------------------------
(* Jobs.                                                                   *)

\* The read loop of u handles no other request.
ReadLoopFree(u) == \A j \in Jobs : ~ (job[j].inline /\ job[j].user = u)

\* A free slot takes up the job r.
Start(j, r) ==
    /\ job[j] = NoJob
    /\ starts[r.kind] < MaxStarts[r.kind]
    /\ starts' = [starts EXCEPT ![r.kind] = @ + 1]
    /\ job' = [job EXCEPT ![j] = r]

\* The job goes on at pc.
Advance(j, pc) == job' = [job EXCEPT ![j].pc = pc]

\* Mutant: the guard outlives its job.
FinishHoldingLock(j) ==
    /\ job' = [job EXCEPT ![j] = NoJob]
    /\ UNCHANGED mapLock

\* The job ends; a guard it holds on its map's lock is dropped.
Finish(j) ==
    /\ job' = [job EXCEPT ![j] = NoJob]
    /\ mapLock' = [m \in Maps |-> IF mapLock[m] = j THEN Nil ELSE mapLock[m]]

\* A binding transaction holds the row of spec s FOR UPDATE.
SpecLocked(s) == \E j \in Jobs : job[j].pc = "commit" /\ job[j].spec = s

\* A database or Nadeo call fails: the transaction is rolled back, the lock
\* dropped and the error logged.
Fail(j) ==
    /\ job[j].pc \in {"prepare", "nadeo", "fetch", "tx", "commit", "row", "judge", "grant",
                      "equip", "join", "check", "delete"}
    /\ Finish(j)
    /\ UNCHANGED <<tables, tracked, comment, endorsed, shown, silent, starts, edits>>

\* Mutant: for_map hands out a fresh mutex although one is held.
AlwaysFree(m) == TRUE

LockFree(m) == mapLock[m] = Nil

\* Jobs queue for the map's lock; whoever gets it goes on under it.
AcquireMapLock(j) ==
    LET m == job[j].map
    IN  /\ job[j].pc = "lock"
        /\ LockFree(m)
        /\ mapLock' = [mapLock EXCEPT ![m] = j]
        /\ Advance(j, CASE job[j].kind = "bind" -> "tx"
                        [] job[j].kind = "comment" -> "fetch"
                        [] job[j].kind = "equip" -> "equip"
                        [] job[j].kind = "move" ->
                               IF tracked[job[j].user] = m THEN "join" ELSE "announce")
        /\ UNCHANGED <<tables, tracked, comment, endorsed, shown, silent, starts, edits>>

\* The HatsOnMapUpdate is queued for broadcast, then the lock is dropped.  A
\* move that has left a map goes on to the one it joins.
Announce(j) ==
    LET m == job[j].map
        u == job[j].user
    IN  /\ job[j].pc = "announce"
        /\ shown' = [shown EXCEPT ![m] =
               [v \in Users |-> IF \E h \in Slugs \cup {Nil} : <<v, h>> \in job[j].push
                                THEN CHOOSE h \in Slugs \cup {Nil} : <<v, h>> \in job[j].push
                                ELSE @[v]]]
        /\ IF job[j].kind = "move" /\ tracked[u] \notin {m, Nil}
           THEN /\ job' = [job EXCEPT ![j] = [@ EXCEPT !.pc = "lock", !.map = tracked[u], !.push = {}]]
                /\ mapLock' = [mapLock EXCEPT ![m] = Nil]
           ELSE Finish(j)
        /\ UNCHANGED <<tables, tracked, comment, endorsed, silent, starts, edits>>

-----------------------------------------------------------------------------
(* Request 81.  Nadeo is asked who made the map before the lock is taken;  *)
(* the transaction decides again from the rows it locks.                   *)

\* A report that will ask Nadeo is deferred off the read loop.
StartBind(j, u, m, s) ==
    LET current == Verified(m) /\ bind[m].spec = s
        owned == spec[s].alive /\ Owner[s] = u
    IN  /\ ReadLoopFree(u)
        /\ Start(j, [NoJob EXCEPT !.kind = "bind", !.pc = "prepare", !.user = u, !.map = m,
                     !.spec = s, !.inline = current \/ ~owned])
        /\ UNCHANGED <<tables, mapLock, tracked, comment, endorsed, shown, silent, edits>>

PrepareBind(j) ==
    LET s == job[j].spec
        m == job[j].map
    IN  /\ job[j].pc = "prepare"
        /\ IF \/ Verified(m) /\ bind[m].spec # s
              \/ ~spec[s].alive
              \/ ~Verified(m) /\ Owner[s] # job[j].user
           THEN Finish(j)
           ELSE /\ Advance(j, IF Verified(m) THEN "lock" ELSE "nadeo")
                /\ UNCHANGED mapLock
        /\ UNCHANGED <<tables, tracked, comment, endorsed, shown, silent, starts, edits>>

\* Mutant: the answer is not compared with the spec's owner.
VerifyAnyAuthor(j) ==
    /\ job[j].pc = "nadeo"
    /\ job' = [job EXCEPT ![j] = [@ EXCEPT !.pc = "lock", !.proof = Owner[job[j].spec]]]
    /\ UNCHANGED <<tables, mapLock, tracked, comment, endorsed, shown, silent, starts, edits>>

VerifyAuthor(j) ==
    LET author == NadeoAuthor[job[j].map]
    IN  /\ job[j].pc = "nadeo"
        /\ IF author = Owner[job[j].spec]
           THEN job' = [job EXCEPT ![j] = [@ EXCEPT !.pc = "lock", !.proof = author]] /\ UNCHANGED mapLock
           ELSE Finish(j)
        /\ UNCHANGED <<tables, tracked, comment, endorsed, shown, silent, starts, edits>>

\* Both binding transactions start by locking the spec row, then look for the
\* map's binding.
BeginBindTx(j) ==
    LET s == job[j].spec
    IN  /\ job[j].pc = "tx"
        /\ ~SpecLocked(s)
        /\ IF spec[s].alive
           THEN /\ job' = [job EXCEPT ![j] =
                      [@ EXCEPT !.pc = "commit", !.src = spec[s], !.seen = bind[job[j].map].spec]]
                /\ UNCHANGED mapLock
           ELSE Finish(j)
        /\ UNCHANGED <<tables, tracked, comment, endorsed, shown, silent, starts, edits>>

\* FOR UPDATE OF b finds the binding the snapshot had.  A row inserted since,
\* or one another transaction moved to a different spec while this one waited
\* for it, no longer matches and the query returns nothing.
RowFound(j) == job[j].seen # Nil /\ bind[job[j].map].spec = job[j].seen

\* Mutant: only the row the transaction locked is checked, not the row that is
\* there once its insert has run.
LockedRowConflict(j) ==
    LET m == job[j].map IN RowFound(j) /\ Verified(m) /\ bind[m].spec # job[j].spec

\* Another spec is the map's verified one: ConflictingBinding.
Conflict(j) ==
    LET m == job[j].map IN Verified(m) /\ bind[m].spec # job[j].spec

Push(off) == {<<u, Nil>> : u \in off}

CommitBind(j) ==
    LET m == job[j].map
        s == job[j].spec
        src == job[j].src
        authority == RowFound(j) /\ Verified(m)
        allowed == authority \/ (job[j].user = Owner[s] /\ job[j].proof = Owner[s])
        current == authority /\ bind[m].mat = src.rev
        legacy == RowFound(j) /\ ~Verified(m)
    IN  /\ job[j].pc = "commit" /\ job[j].kind = "bind"
        /\ IF allowed /\ ~Conflict(j) /\ ~current
           THEN /\ Materialize(m, s, src, legacy)
                /\ job' = [job EXCEPT ![j] = [@ EXCEPT !.pc = "announce", !.push = Push(TakenOff(m, src, legacy))]]
                /\ UNCHANGED mapLock
           ELSE Finish(j) /\ UNCHANGED tables
        /\ UNCHANGED <<tracked, comment, endorsed, shown, silent, starts, edits>>

-----------------------------------------------------------------------------
(* The comment bind, scheduled when a player's map is observed, and the    *)
(* same function run by the API process, without the lock and without the  *)
(* broadcast.                                                              *)

HoldsPermit(j) ==
    job[j].kind = "comment" /\ job[j].pc \in {"lock", "fetch", "tx", "commit", "announce"}

StartComment(j, m) ==
    /\ Start(j, [NoJob EXCEPT !.kind = "comment", !.pc = "permit", !.map = m])
    /\ UNCHANGED <<tables, mapLock, tracked, comment, endorsed, shown, silent, edits>>

\* The permit is kept while the task waits for the map's lock.
AcquirePermit(j) ==
    /\ job[j].pc = "permit"
    /\ Cardinality({i \in Jobs : HoldsPermit(i)}) < Permits
    /\ Advance(j, "lock")
    /\ UNCHANGED <<tables, mapLock, tracked, comment, endorsed, shown, silent, starts, edits>>

StartRecheck(j, m) ==
    /\ Start(j, [NoJob EXCEPT !.kind = "recheck", !.pc = "fetch", !.map = m])
    /\ UNCHANGED <<tables, mapLock, tracked, comment, endorsed, shown, silent, edits>>

\* fetch_published_comment and the lookup of the spec it names.
FetchComment(j) ==
    LET s == comment[job[j].map]
    IN  /\ job[j].pc = "fetch"
        /\ IF s # Nil /\ spec[s].alive
           THEN job' = [job EXCEPT ![j] = [@ EXCEPT !.pc = "tx", !.spec = s]] /\ UNCHANGED mapLock
           ELSE Finish(j)
        /\ UNCHANGED <<tables, tracked, comment, endorsed, shown, silent, starts, edits>>

\* Only a purge returns the players whose hats came off; hats taken off because
\* the new catalog lacks them are not returned, and the API process announces
\* nothing.
CommitComment(j) ==
    LET m == job[j].map
        s == job[j].spec
        src == job[j].src
        replaced == RowFound(j) /\ job[j].seen # s
        current == RowFound(j) /\ ~replaced /\ Verified(m) /\ bind[m].mat = src.rev
        off == TakenOff(m, src, replaced)
        told == IF replaced /\ job[j].kind = "comment" THEN off ELSE {}
    IN  /\ job[j].pc = "commit" /\ job[j].kind \in {"comment", "recheck"}
        /\ IF current
           THEN Finish(j) /\ UNCHANGED <<tables, silent>>
           ELSE /\ Materialize(m, s, src, replaced)
                /\ silent' = silent \cup ({m} \X (off \ told))
                /\ IF job[j].kind = "comment"
                   THEN /\ job' = [job EXCEPT ![j] = [@ EXCEPT !.pc = "announce", !.push = Push(told)]]
                        /\ UNCHANGED mapLock
                   ELSE Finish(j)
        /\ UNCHANGED <<tracked, comment, endorsed, shown, starts, edits>>

-----------------------------------------------------------------------------
(* Request 84, the validation task (report_unlock).                        *)

StartUnlock(j, u, m, s, h) ==
    /\ ReadLoopFree(u)
    /\ UsableFor(m, s)
    /\ Start(j, [NoJob EXCEPT !.kind = "unlock", !.pc = "row", !.user = u, !.map = m, !.spec = s, !.slug = h])
    /\ UNCHANGED <<tables, mapLock, tracked, comment, endorsed, shown, silent, edits>>

\* The catalog row is read, and what it demands remembered.
ReadRow(j) ==
    LET m == job[j].map
        h == job[j].slug
    IN  /\ job[j].pc = "row"
        /\ IF UsableFor(m, job[j].spec) /\ onMap[m][h] # Nil
                 /\ unlocked[<<job[j].user, m, h>>] = Nil
           THEN job' = [job EXCEPT ![j] = [@ EXCEPT !.pc = "judge", !.proof = onMap[m][h]]] /\ UNCHANGED mapLock
           ELSE Finish(j)
        /\ UNCHANGED <<tables, tracked, comment, endorsed, shown, silent, starts, edits>>

\* Nadeo's records satisfy the row, or do not.
JudgeUnlock(j) ==
    /\ job[j].pc = "judge"
    /\ IF <<job[j].user, job[j].proof>> \in Earned
       THEN Advance(j, "grant") /\ UNCHANGED mapLock
       ELSE Finish(j)
    /\ UNCHANGED <<tables, tracked, comment, endorsed, shown, silent, starts, edits>>

\* Mutant: the row is only required to be there still.
RowStillThere(j) ==
    UsableFor(job[j].map, job[j].spec) /\ onMap[job[j].map][job[j].slug] # Nil

\* locked_row = row: the criterion judged is the one the map has now.
RowUnchanged(j) ==
    UsableFor(job[j].map, job[j].spec) /\ onMap[job[j].map][job[j].slug] = job[j].proof

\* The row is read again under its binding's lock; it must be the one judged.
GrantUnlock(j) ==
    /\ job[j].pc = "grant"
    /\ ~SpecLocked(job[j].spec)
    /\ IF RowUnchanged(j)
       THEN GrantHat(job[j].user, job[j].map, job[j].slug)
       ELSE UNCHANGED tables
    /\ Finish(j)
    /\ UNCHANGED <<tracked, comment, endorsed, shown, silent, starts, edits>>

-----------------------------------------------------------------------------
(* Request 85, and the moves requests 81, 213, 214 and a context report    *)
(* make.  Both run inline.                                                 *)

StartEquip(j, u, m, h) ==
    /\ ReadLoopFree(u)
    /\ tracked[u] = m
    /\ Start(j, [NoJob EXCEPT !.kind = "equip", !.pc = "lock", !.user = u, !.map = m,
                 !.slug = h, !.inline = TRUE])
    /\ UNCHANGED <<tables, mapLock, tracked, comment, endorsed, shown, silent, edits>>

\* An empty slug takes the hat off whatever the binding; a hat is put on only
\* if the map is usable and the hat on it and unlocked.  No change, no push.
EquipHat(j) ==
    LET m == job[j].map
        u == job[j].user
        h == job[j].slug
        allowed == \/ h = Nil
                   \/ Usable(m) /\ onMap[m][h] # Nil /\ unlocked[<<u, m, h>>] # Nil
    IN  /\ job[j].pc = "equip"
        /\ h # Nil /\ Bound(m) => ~SpecLocked(bind[m].spec)
        /\ IF allowed /\ equipped[m][u] # h
           THEN /\ Equip(u, m, h)
                /\ silent' = silent \ {<<m, u>>}
                /\ job' = [job EXCEPT ![j] = [@ EXCEPT !.pc = "announce", !.push = {<<u, h>>}]]
                /\ UNCHANGED mapLock
           ELSE Finish(j) /\ UNCHANGED <<tables, silent>>
        /\ UNCHANGED <<tracked, comment, endorsed, shown, starts, edits>>

\* set_wayfinder_map: the tracked map changes at once, the leave and join
\* pushes follow, each under its map's lock.
StartMove(j, u, next) ==
    LET previous == tracked[u]
    IN  /\ ReadLoopFree(u)
        /\ previous # next
        /\ tracked' = [tracked EXCEPT ![u] = next]
        /\ Start(j, [NoJob EXCEPT !.kind = "move", !.pc = "lock", !.user = u, !.inline = TRUE,
                     !.map = IF previous = Nil THEN next ELSE previous,
                     !.push = IF previous = Nil THEN {} ELSE {<<u, Nil>>}])
        /\ UNCHANGED <<tables, mapLock, comment, endorsed, shown, silent, edits>>

ReadJoinPush(j) ==
    /\ job[j].pc = "join"
    /\ job' = [job EXCEPT ![j] = [@ EXCEPT !.pc = "announce", !.push = PushEntry(job[j].user, job[j].map)]]
    /\ UNCHANGED <<tables, mapLock, tracked, comment, endorsed, shown, silent, starts, edits>>

-----------------------------------------------------------------------------
(* Mappers: uploads, deletions, and comments published at Nadeo.           *)

Edit ==
    /\ edits < MaxEdits
    /\ edits' = edits + 1
    /\ UNCHANGED <<job, mapLock, tracked, shown, silent, starts>>

UploadSpec(s, c) ==
    /\ Edit
    /\ ~SpecLocked(s)
    /\ Upsert(s, c)
    /\ UNCHANGED <<comment, endorsed>>

PublishComment(m, s) ==
    /\ Edit
    /\ comment[m] # s
    /\ comment' = [comment EXCEPT ![m] = s]
    /\ endorsed' = [endorsed EXCEPT ![m] = @ \cup ({s} \ {Nil})]
    /\ UNCHANGED tables

StartDelete(j, s) ==
    /\ ReadLoopFree(Owner[s])
    /\ Start(j, [NoJob EXCEPT !.kind = "delete", !.pc = "check", !.user = Owner[s], !.spec = s,
                            !.inline = TRUE])
    /\ UNCHANGED <<tables, mapLock, tracked, comment, endorsed, shown, silent, edits>>

\* bound_map_uid: the mapper is told which map holds the spec.
CheckBound(j) ==
    /\ job[j].pc = "check"
    /\ IF \E m \in Maps : bind[m].spec = job[j].spec
       THEN Finish(j)
       ELSE Advance(j, "delete") /\ UNCHANGED mapLock
    /\ UNCHANGED <<tables, tracked, comment, endorsed, shown, silent, starts, edits>>

\* delete_spec, which the foreign key refuses if the spec has been bound since.
DeleteSpec(j) ==
    LET s == job[j].spec
    IN  /\ job[j].pc = "delete"
        /\ ~SpecLocked(s)
        /\ \/ Delete(s) /\ Finish(j)
           \/ /\ \E m \in Maps : bind[m].spec = s
              /\ Advance(j, "fkViolation")
              /\ UNCHANGED <<tables, mapLock>>
        /\ UNCHANGED <<tracked, comment, endorsed, shown, silent, starts, edits>>

\* The mapper gets an internal error instead of the map's name.
ReportInternalError(j) ==
    /\ job[j].pc = "fkViolation"
    /\ Finish(j)
    /\ UNCHANGED <<tables, tracked, comment, endorsed, shown, silent, starts, edits>>

-----------------------------------------------------------------------------

StartJob(j) ==
    \/ \E m \in Maps : StartComment(j, m) \/ StartRecheck(j, m)
    \/ \E u \in Users, m \in Maps, s \in Specs : StartBind(j, u, m, s)
    \/ \E u \in Users, m \in Maps, s \in Specs, h \in Slugs : StartUnlock(j, u, m, s, h)
    \/ \E u \in Users, m \in Maps, h \in Slugs \cup {Nil} : StartEquip(j, u, m, h)
    \/ \E u \in Users, m \in Maps \cup {Nil} : StartMove(j, u, m)
    \/ \E s \in Specs : StartDelete(j, s)

Step(j) ==
    \/ Fail(j) \/ AcquireMapLock(j) \/ Announce(j) \/ BeginBindTx(j)
    \/ PrepareBind(j) \/ VerifyAuthor(j) \/ CommitBind(j)
    \/ AcquirePermit(j) \/ FetchComment(j) \/ CommitComment(j)
    \/ ReadRow(j) \/ JudgeUnlock(j) \/ GrantUnlock(j)
    \/ EquipHat(j) \/ ReadJoinPush(j)
    \/ CheckBound(j) \/ DeleteSpec(j) \/ ReportInternalError(j)

Mapper ==
    \/ \E s \in Specs, c \in Catalogs : UploadSpec(s, c)
    \/ \E m \in Maps, s \in Specs \cup {Nil} : PublishComment(m, s)

Next == (\E j \in Jobs : StartJob(j) \/ Step(j)) \/ Mapper

Spec == Init /\ [][Next]_vars

\* Tokio polls every ready task and its Mutex and Semaphore are first come
\* first served; PostgreSQL row locks are granted in turn; HTTP calls time out.
Fairness == \A j \in Jobs : WF_vars(Step(j))

FairSpec == Spec /\ Fairness

-----------------------------------------------------------------------------
(* Properties                                                              *)

\* Whatever hat the last broadcast for a map showed on a player is the one the
\* database says the player wears, once the map's operations have drained:
\* commits and broadcasts of two operations are never crossed.  Removals the
\* code does not announce are left out here and stated below.
NoGhostHats ==
    \A m \in Maps, u \in Users :
        (mapLock[m] = Nil /\ shown[m][u] # Nil /\ <<m, u>> \notin silent) =>
            equipped[m][u] = shown[m][u]

\* The same with every removal counted.
NoHatOutlivesItsRemoval ==
    \A m \in Maps, u \in Users :
        (mapLock[m] = Nil /\ shown[m][u] # Nil) => equipped[m][u] = shown[m][u]

\* A binding that hats are trusted under has an authority: Nadeo names the spec's
\* owner as the map's author, or the map's published comment has named the spec.
BindingIsAuthorized ==
    \A m \in Maps : Verified(m) =>
        Owner[bind[m].spec] = NadeoAuthor[m] \/ bind[m].spec \in endorsed[m]

\* Once verified, a map moves to another spec only by following its comment:
\* request 81 loses every race, whichever order the two transactions take.
OnlyCommentsRebind ==
    [][\A m \in Maps : (Verified(m) /\ bind'[m].spec # bind[m].spec) =>
           \E j \in Jobs : /\ job[j].pc = "commit"
                           /\ job[j].kind \in {"comment", "recheck"}
                           /\ job[j].map = m /\ job[j].spec = bind'[m].spec]_vars

\* The spec each map is trusted under is decided as MapAuthority says: claimed
\* once by the map's author, moved by its comment and never withdrawn, although
\* two processes decide from what they read before they locked anything.
Authority == INSTANCE MapAuthority WITH
    authority <- [m \in Maps |-> IF Verified(m) THEN bind[m].spec ELSE Nil]

ImplementsAuthority == Authority!Spec

\* What a map offers, who has unlocked it and who wears it change as
\* HatWardrobe says, each in one step: an unlock is judged at Nadeo, a rebind
\* locked and a hat put on from what was read a while ago, and all three race.
Wardrobe == INSTANCE HatWardrobe WITH
    live <- {m \in Maps : Usable(m)}, catalog <- onMap, worn <- equipped

ImplementsWardrobe == Wardrobe!Spec

\* A bound spec's deletion is caught before the database refuses it: "Detect it
\* up front and tell the mapper which map holds the spec" (src/src/server2.rs,
\* delete_custom_map_aux_spec_inner).
DeleteDetectsBinding == \A j \in Jobs : job[j].pc # "fkViolation"

\* Every handler and task ends: no permit, map lock or row lock is waited for
\* for ever, though they are taken in the order permit, map, spec.
JobsEnd == \A j \in Jobs : job[j] # NoJob ~> job[j] = NoJob
=============================================================================
