-------------------------- MODULE PlayerProgress --------------------------
(***************************************************************************)
(* Collectibles and minigames of one map: the catalogues that a spec's     *)
(* contents parse to, their rows on the map while the spec is bound, and   *)
(* the reports of unlocks, collections and attempts that players send      *)
(* (src/src/queries/collectibles.rs, src/src/queries/minigames.rs).        *)
(*                                                                         *)
(* A report is a transaction, and a player may have several connections.   *)
(* An action is one statement; what a transaction has written is in its    *)
(* task until it commits.  The locks are those of PostgreSQL: a report     *)
(* shares the spec's and the binding's row with other reports and keeps    *)
(* uploads and binds out, and whoever has written or selected FOR UPDATE a *)
(* player's row keeps it.                                                  *)
(*                                                                         *)
(* A key is md5(map, slug), so here it is the slug: progress belongs to    *)
(* the slug and outlives the spec.  Left out: names, gates and unlock      *)
(* scores, which the server only hands on, and positions.                  *)
(***************************************************************************)
EXTENDS Integers, Sequences, FiniteSets

CONSTANTS
    Users,
    Tasks,          \* the connections' tasks
    Specs,
    Contents,       \* what may be uploaded as a spec
    Collectibles,   \* the items of a content, without those of an unknown pickup
    Games,          \* the games of a content whose kind is known
    Slugs,          \* the slugs that specs write or defaults give, as <<word, number>>
    Times,          \* the elapsed times told apart
    OldRows,        \* the progress that may be older than the log
    MaxAttempts,    \* bound: attempts of a player at a game
    Nil

ASSUME ProgressAssumption ==
    /\ Collectibles \in [Contents -> Seq([slug : Slugs \cup {Nil}, pickup : {"none", "zone", "grant"},
                                          collect : {"none", "yes", "no"}, zone : BOOLEAN])]
    /\ Games \in [Contents -> Seq([slug : Slugs \cup {Nil}, kind : STRING])]
    /\ Slugs \subseteq STRING \X Nat
    /\ OldRows \subseteq Users \X Slugs
    /\ Times \subseteq Int /\ Times # {} /\ MaxAttempts \in Nat
    /\ Nil \notin Slugs \cup Users \cup Specs \cup Contents

VARIABLES
    content,    \* custom_map_aux_specs: what is stored as each spec
    bound,      \* map_listing_bind.spec_id
    rows,       \* the content whose catalogues are the rows on the map
    progress,   \* collectible_progress
    log,        \* collectible_collect_log: the source of the first collection
    pb,         \* minigame_pb
    attempts,   \* minigame_attempt: how many rows
    finishes,   \* how many of them have status finish
    finished,   \* the times of those and whether the lower was better then
    task

binding == <<content, bound, rows>>
records == <<progress, log, pb, attempts, finishes, finished>>
vars == <<binding, records, task>>

-----------------------------------------------------------------------------
(* The catalogues.                                                         *)

\* An item can be granted, or picked up in a zone.  `pickup` is the older
\* field; without it and without the newer ones an item is in a zone.
Granted(item) == item.collect = "yes" \/ item.pickup = "grant"

InZone(item) ==
    \/ item.zone
    \/ item.pickup = "zone"
    \/ item.pickup = "none" /\ item.collect = "none" /\ ~item.zone

HasPath(item) == Granted(item) \/ InZone(item)

Highest(S) == IF S = {} THEN 0 ELSE CHOOSE n \in S : \A k \in S : k <= n

\* parse_catalog_collectibles: Collectible-N is <<"Collectible", N>> here; a
\* missing slug gets the number after the highest before it.
CollectibleItems(c) == SelectSeq(Collectibles[c], HasPath)

CollectibleSlugs(c) ==
    LET items == CollectibleItems(c)
        slug[i \in DOMAIN items] ==
            IF items[i].slug # Nil
            THEN items[i].slug
            ELSE LET numbers == {slug[j][2] : j \in {h \in 1 .. i - 1 : slug[h][1] = "Collectible"}}
                 IN  <<"Collectible", 1 + Highest(numbers)>>
    IN  slug

\* parse_catalog_games: a missing slug is the kind and its place among the kind.
GameSlugs(c) ==
    LET games == Games[c] IN
    [i \in DOMAIN games |->
        IF games[i].slug # Nil
        THEN games[i].slug
        ELSE <<games[i].kind, Cardinality({j \in 1 .. i : games[j].kind = games[i].kind})>>]

Distinct(f) == \A i, j \in DOMAIN f : f[i] = f[j] => i = j

\* A content with a duplicate slug is refused.
Accepted == {c \in Contents : Distinct(CollectibleSlugs(c)) /\ Distinct(GameSlugs(c))}

\* The rows that the catalogues of a content put on a map, by slug: its items,
\* the sources that may collect them, and its games with their order.
\* kind = 'Sprint' is lower_is_better.
MapRows == [c \in Contents \cup {Nil} |->
    IF c = Nil THEN [items |-> {}, paths |-> {}, games |-> {}]
    ELSE LET slug == CollectibleSlugs(c)
             item == CollectibleItems(c)
         IN  [items |-> {k \in Slugs : \E i \in DOMAIN slug : slug[i] = k},
              paths |-> {p \in Slugs \X {"zone", "grant"} :
                            \E i \in DOMAIN slug :
                                /\ slug[i] = p[1]
                                /\ IF p[2] = "grant" THEN Granted(item[i]) ELSE InZone(item[i])},
              games |-> {g \in Slugs \X BOOLEAN :
                            \E i \in DOMAIN GameSlugs(c) :
                                /\ GameSlugs(c)[i] = g[1]
                                /\ g[2] = (Games[c][i].kind = "Sprint")}]]

CollectibleOnMap(slug) == slug \in MapRows[rows].items

Permits(slug, source) == <<slug, source>> \in MapRows[rows].paths

GameOnMap(slug) == \E lower \in BOOLEAN : <<slug, lower>> \in MapRows[rows].games

LowerIsBetter(slug) == <<slug, TRUE>> \in MapRows[rows].games

-----------------------------------------------------------------------------
\* A player's row is found by the player and the slug.
Keys == Users \X Slugs

Key(t) == <<task[t].user, task[t].slug>>

NoRow == [unlocked |-> FALSE, collected |-> FALSE]

NoPb == [score |-> 0, finishes |-> 0, attempts |-> 0]

PbRecords == [score : Nat, finishes : Nat, attempts : Nat]

TaskRecords ==
    [pc : {"idle", "lock", "select", "upsert", "log", "attempt", "score", "commit"},
     kind : {"unlock", "collect", "attempt"},
     user : Users \cup {Nil}, spec : Specs \cup {Nil}, slug : Slugs \cup {Nil},
     source : {"zone", "grant"},
     first : BOOLEAN,   \* the row was not collected when it was selected
     holds : BOOLEAN,   \* there was a row to lock
     logs : BOOLEAN,    \* the log has got a row
     time : Times, finish : BOOLEAN, lower : BOOLEAN, pb : PbRecords]

IdleTask == [pc |-> "idle", kind |-> "unlock", user |-> Nil, spec |-> Nil, slug |-> Nil,
             source |-> "zone", first |-> FALSE, holds |-> FALSE, logs |-> FALSE,
             time |-> CHOOSE n \in Times : TRUE, finish |-> FALSE, lower |-> FALSE, pb |-> NoPb]

\* What was collected before the log's table was created has no row in it: the
\* migration that creates the table leaves it empty.
Init ==
    /\ content = [s \in Specs |-> Nil]
    /\ bound = Nil /\ rows = Nil
    /\ \E old \in SUBSET OldRows :
           progress = [key \in Keys |->
               IF key \in old THEN [unlocked |-> TRUE, collected |-> TRUE] ELSE NoRow]
    /\ log = [key \in Keys |-> "none"]
    /\ pb = [key \in Keys |-> NoPb]
    /\ attempts = [key \in Keys |-> 0]
    /\ finishes = [key \in Keys |-> 0]
    /\ finished = [key \in Keys |-> {}]
    /\ task = [t \in Tasks |-> IdleTask]

Goto(t, pc) == task' = [task EXCEPT ![t].pc = pc]

\* The transaction ends without having written, or is rolled back.
Drop(t) == task' = [task EXCEPT ![t] = IdleTask]

InTransaction(t) == task[t].pc \notin {"idle", "lock"}

-----------------------------------------------------------------------------
(* Specs come and go on the map.                                           *)

\* Mutant: a report locks nothing that a bind writes.
NoShare == {}

\* The transactions that hold FOR SHARE locks on a spec and on the binding.
Sharing == {t \in Tasks : InTransaction(t)}

\* An upload replaces the content of a spec.
Upload(s, c) ==
    /\ c \in Accepted
    /\ \A t \in Sharing : task[t].spec # s
    /\ content' = [content EXCEPT ![s] = c]
    /\ UNCHANGED <<bound, rows, records, task>>

\* A bind replaces the map's rows by those of the spec's catalogues.
Bind(s) ==
    /\ content[s] # Nil
    /\ Sharing = {}
    /\ bound' = s
    /\ rows' = content[s]
    /\ UNCHANGED <<content, records, task>>

-----------------------------------------------------------------------------
(* Reports.                                                                *)

\* The map is bound to the spec that the client names, and has the rows of its
\* present content: asked first without locks (resolve_bound_spec), and again
\* under them (lock_materialized_spec).
Materialized(s) == bound = s /\ rows = content[s]

ReportUnlock(t, u, s, k) ==
    /\ Materialized(s)
    /\ task' = [task EXCEPT ![t] =
           [IdleTask EXCEPT !.pc = "lock", !.user = u, !.spec = s, !.slug = k]]
    /\ UNCHANGED <<binding, records>>

\* Another source than zone and grant, or an implausible position, is dropped.
ReportCollect(t, u, s, k, source) ==
    /\ Materialized(s)
    /\ task' = [task EXCEPT ![t] =
           [IdleTask EXCEPT !.pc = "lock", !.kind = "collect", !.user = u, !.spec = s,
                            !.slug = k, !.source = source]]
    /\ UNCHANGED <<binding, records>>

\* Mutant: any time is taken.
AnyTime(time, finish) == TRUE

Plausible(time, finish) == finish => time >= 0

\* The time of an attempt that is no finish is stored, and that is all.
ReportAttempt(t, u, s, k, time, finish) ==
    /\ attempts[<<u, k>>] < MaxAttempts
    /\ Plausible(time, finish)
    /\ Materialized(s)
    /\ task' = [task EXCEPT ![t] =
           [IdleTask EXCEPT !.pc = "lock", !.kind = "attempt", !.user = u, !.spec = s,
                            !.slug = k, !.time = IF finish THEN time ELSE @, !.finish = finish]]
    /\ UNCHANGED <<binding, records>>

Allowed(t) == task[t].kind = "collect" => Permits(task[t].slug, task[t].source)

\* The spec, the binding and the item's row are locked and looked at.
LockCollectible(t) ==
    /\ task[t].pc = "lock" /\ task[t].kind # "attempt"
    /\ IF Materialized(task[t].spec) /\ CollectibleOnMap(task[t].slug) /\ Allowed(t)
       THEN Goto(t, IF task[t].kind = "collect" THEN "select" ELSE "upsert")
       ELSE Drop(t)
    /\ UNCHANGED <<binding, records>>

LockGame(t) ==
    /\ task[t].pc = "lock" /\ task[t].kind = "attempt"
    /\ IF Materialized(task[t].spec) /\ GameOnMap(task[t].slug)
       THEN task' = [task EXCEPT ![t].pc = "attempt", ![t].lower = LowerIsBetter(task[t].slug)]
       ELSE Drop(t)
    /\ UNCHANGED <<binding, records>>

\* Mutant: nobody waits for a player's row.
NeverHeld(t) == FALSE

\* Another transaction has locked or written the player's row.
RowHeld(t) ==
    \E s \in Tasks \ {t} :
        /\ task[s].user = task[t].user /\ task[s].slug = task[t].slug
        /\ (task[s].kind = "attempt") = (task[t].kind = "attempt")
        /\ \/ task[s].pc \in {"log", "score", "commit"}
           \/ task[s].pc = "upsert" /\ task[s].holds

Row(t) == progress[Key(t)]

\* Mutant: only the insert of the row counts as the first collection.
FirstIfNoRow(t) == ~Row(t).unlocked

FirstCollect(t) == ~Row(t).collected

\* record_collect_transition: SELECT .. FOR UPDATE
SelectProgress(t) ==
    /\ task[t].pc = "select"
    /\ ~RowHeld(t)
    /\ task' = [task EXCEPT ![t].pc = "upsert", ![t].first = FirstCollect(t),
                            ![t].holds = Row(t).unlocked]
    /\ UNCHANGED <<binding, records>>

\* The upsert waits for the row, whether it is there or about to be.
UpsertProgress(t) ==
    /\ task[t].pc = "upsert"
    /\ ~RowHeld(t)
    /\ Goto(t, IF task[t].kind = "collect" /\ task[t].first THEN "log" ELSE "commit")
    /\ UNCHANGED <<binding, records>>

\* ON CONFLICT DO NOTHING
AppendLog(t) ==
    /\ task[t].pc = "log"
    /\ task' = [task EXCEPT ![t].pc = "commit",
                            ![t].logs = log[Key(t)] = "none"]
    /\ UNCHANGED <<binding, records>>

\* Mutant: an unlock writes the row it would have inserted.
AsInserted(t, row) == [unlocked |-> TRUE, collected |-> (task[t].kind = "collect")]

\* COALESCE(.., now())
Coalesced(t, row) == [unlocked |-> TRUE, collected |-> (row.collected \/ task[t].kind = "collect")]

CommitCollectible(t) ==
    /\ task[t].pc = "commit" /\ task[t].kind # "attempt"
    /\ progress' = [progress EXCEPT ![Key(t)] = Coalesced(t, @)]
    /\ log' = [log EXCEPT ![Key(t)] = IF task[t].logs THEN task[t].source ELSE @]
    /\ Drop(t)
    /\ UNCHANGED <<binding, pb, attempts, finishes, finished>>

-----------------------------------------------------------------------------
\* report_attempt: the attempt's row, and the player's row with one more.
InsertAttempt(t) ==
    LET old == pb[Key(t)] IN
    /\ task[t].pc = "attempt"
    /\ ~RowHeld(t)
    /\ task' = [task EXCEPT ![t].pc = IF task[t].finish THEN "score" ELSE "commit",
                            ![t].pb = [old EXCEPT !.attempts = @ + 1]]
    /\ UNCHANGED <<binding, records>>

\* A first finish, or a better one.
Better(t, old) ==
    \/ old.finishes = 0
    \/ IF task[t].lower THEN task[t].time < old.score ELSE task[t].time > old.score

\* The better time is kept; one more finish either way.
ScoreFinish(t) ==
    LET old == task[t].pb IN
    /\ task[t].pc = "score"
    /\ task' = [task EXCEPT ![t].pc = "commit",
           ![t].pb = [old EXCEPT !.finishes = @ + 1,
                                 !.score = IF Better(t, old) THEN task[t].time ELSE @]]
    /\ UNCHANGED <<binding, records>>

CommitAttempt(t) ==
    /\ task[t].pc = "commit" /\ task[t].kind = "attempt"
    /\ pb' = [pb EXCEPT ![Key(t)] = task[t].pb]
    /\ attempts' = [attempts EXCEPT ![Key(t)] = @ + 1]
    /\ finishes' = [finishes EXCEPT ![Key(t)] = IF task[t].finish THEN @ + 1 ELSE @]
    /\ finished' = [finished EXCEPT ![Key(t)] =
               IF task[t].finish THEN @ \cup {<<task[t].time, task[t].lower>>} ELSE @]
    /\ Drop(t)
    /\ UNCHANGED <<binding, progress, log>>

\* A statement fails, or the server dies.
ReportFails(t) ==
    /\ task[t].pc # "idle"
    /\ Drop(t)
    /\ UNCHANGED <<binding, records>>

Step(t) ==
    \/ LockCollectible(t) \/ SelectProgress(t) \/ UpsertProgress(t) \/ AppendLog(t)
    \/ CommitCollectible(t)
    \/ LockGame(t) \/ InsertAttempt(t) \/ ScoreFinish(t) \/ CommitAttempt(t)
    \/ ReportFails(t)

\* A connection that has no report under way reads one.
Arrives(t) ==
    /\ task[t].pc = "idle"
    /\ \E u \in Users, s \in Specs, k \in Slugs :
           \/ ReportUnlock(t, u, s, k)
           \/ \E source \in {"zone", "grant"} : ReportCollect(t, u, s, k, source)
           \/ \E time \in Times, finish \in BOOLEAN : ReportAttempt(t, u, s, k, time, finish)

Next ==
    \/ \E s \in Specs, c \in Contents : Upload(s, c)
    \/ \E s \in Specs : Bind(s)
    \/ \E t \in Tasks : Arrives(t) \/ Step(t)

Spec == Init /\ [][Next]_vars

-----------------------------------------------------------------------------
(* Properties                                                              *)

TypeOK ==
    /\ content \in [Specs -> Contents \cup {Nil}]
    /\ bound \in Specs \cup {Nil} /\ rows \in Contents \cup {Nil}
    /\ progress \in [Keys -> [unlocked : BOOLEAN, collected : BOOLEAN]]
    /\ log \in [Keys -> {"none", "zone", "grant"}]
    /\ pb \in [Keys -> PbRecords]
    /\ attempts \in [Keys -> Nat]
    /\ finishes \in [Keys -> Nat]
    /\ finished \in [Keys -> SUBSET (Nat \X BOOLEAN)]
    /\ task \in [Tasks -> TaskRecords]

\* An item enters the log in the very step that makes it collected, however a
\* player's reports interleave and fail: no collection goes without its row, and
\* an item that was collected before, even before there was a log, never gets
\* one ("Atomically establish sticky unlock+collection and append the
\* first-collect audit event", record_collect_transition).
FirstCollectionsAreLogged ==
    [][ \A key \in Keys :
            (log'[key] # log[key])
                <=> (~progress[key].collected /\ progress'[key].collected) ]_vars

\* A player's row counts the attempts and the finishes there are, and while all
\* finishes were made under one order its score is the best of them: attempts
\* of several connections do not overwrite each other (report_attempt).
PbSummarisesAttempts ==
    \A key \in Keys :
        LET p == pb[key] IN
        /\ p.attempts = attempts[key] /\ p.finishes = finishes[key]
        /\ \A lower \in BOOLEAN :
               (finished[key] # {} /\ \A f \in finished[key] : f[2] = lower) =>
                   /\ <<p.score, lower>> \in finished[key]
                   /\ \A f \in finished[key] :
                          IF lower THEN p.score <= f[1] ELSE p.score >= f[1]

\* A report changes a player's records only while the spec that the client
\* named is bound to the map and the map has the rows of its present content,
\* whatever is uploaded or bound while the report is on its way.
ReportsCountForTheirSpec ==
    [][ records' # records =>
            \E t \in Tasks :
                /\ task[t].pc = "commit" /\ task'[t].pc = "idle"
                /\ Materialized(task[t].spec) ]_vars

\* Each report counts as ProgressLedger says, as a whole and at its commit,
\* although it is several statements that interleave with those of other
\* reports, with uploads and with binds: what is collected is judged by the
\* rows that the map has and logged once, and the best score is taken of the
\* attempts committed until then.
Ledger == INSTANCE ProgressLedger WITH
    offer <- MapRows[rows],
    unlocked <- {key \in Keys : progress[key].unlocked},
    collected <- {key \in Keys : progress[key].collected},
    first <- log,
    best <- pb

ImplementsLedger == Ledger!Spec
=============================================================================
