# TLA+ models of dd2-server

`dd2-server` is the Rust backend of the Dips++ plugin: a TCP server every
player's game holds one connection to (`src/src/server2.rs`), an HTTP API host
for pages and moderation (`src/src/server.rs`, `http.rs`, `moderation_http.rs`),
and one PostgreSQL database both processes share. Its delicate part is
*Wayfinder*: mappers upload specs (minigames, collectibles, hats), maps are bound
to specs under the authority of the map's author or of the map's published
comment, and players unlock and wear hats that everybody on the map sees.

That part is modelled in most detail: it is where several processes, tasks and
connections write the same rows, and where the code relies on locks it takes in
several places. Around it stand a model for each of the other parts that decide
something together: the verifiers that ask Nadeo, the connections, the boards
and the listing of maps, the players' progress, and moderation.

## Inventory

| Part | State | Operations | Hard behaviour | What makes it correct |
|---|---|---|---|---|
| Hat unlock protocol (`server2.rs`, `queries/hats.rs`) | `PendingHatUnlocks`: owed set, permits; answers in flight | requests 84, 213; validation tasks; `push_hats_mine` | tasks finish in any order, answers are built from several queries | a 213 never misses an unlock just reported; a withheld 213 is answered |
| Wayfinder bindings (`queries/listed_maps.rs`, `server2.rs`, `moderation_http.rs`) | `map_listing_bind`, map operation locks, comment debounce and permits | request 81, comment bind, API recheck | reads before Nadeo calls used after them; a second process without the lock | only an authority binds; a verified map is moved only by its comment; nothing wedges |
| Hats (`queries/hats.rs`) | `hat_catalog`, `hat_on_map`, `hat_unlock`, `hat_equipped`, equip limiter | unlock, equip, 213/214 answers, join and leave pushes | commit and broadcast are two steps; row judged before the transaction | unlocks are earned, worn hats are backed by rows, what is shown is what is worn |
| Aux specs (`queries/custom_map_aux_specs.rs`) | `custom_map_aux_specs` | upload, delete | check and delete are two statements | a bound spec is not deleted, and the mapper is told why |
| Minigames, collectibles (`queries/minigames.rs`, `collectibles.rs`) | catalogues and their rows on the map, attempts, personal bests, progress, the log of first collections | attempt, unlock, collect | several statements under the binding's row locks, several connections of a player | a report counts for the spec it names; progress and its log change together, once |
| Boards and listed maps (`server2.rs`, `queries/stats.rs`, migrations 20260825120000, 20260826090000) | `map_leaderboard`, `leaderboard`, `listed_maps`, thresholds | height reports; a trigger on inserts | two inserts count without each other; update and insert are two statements | a map that reaches its threshold is listed; a board keeps the highest height |
| Moderation (`queries/moderation.rs`, `moderation_http.rs`) | bans, delegates, super-mods | HTTP handlers | check-then-act over several statements | changes are authorised; a banned player is marked; a super-mod remains |
| Moderator OAuth (`tm_oauth.rs`, `moderation_http.rs`) | one-time states, cookies, web sessions | start, callback, logout | a state used twice, or expiring under its callback | one session for a state |
| Nadeo client and verifiers (`nadeo.rs`) | token, author and record caches, key gates, windows, permits | lookup, recent check, token refresh, retries | one flight for many callers, negative entries, capacity | one download per key; one refresh at a time; no stale no after a finish; no caller waits for ever |
| Connections and player manager (`server2.rs`, `player.rs`, `router.rs`) | permits, player list, queues, tracked map | accept, login, read, write, broadcast, prune, shutdown | loops end in any order | permits come back once; broadcasts are not lost; a connection that begins to end ends |
| Response caches (`cache_util.rs`) | `AsyncCache` | get, refresh, purge | the write lock is held over a whole refresh | an answer is no older than its refresh interval |
| Sessions, contexts, statistics, API host, wire protocol, legacy manager, clips, donations, clean-up | rows, sessions | queries, formatting | little of their own | |

Interactions: a connection's read loop handles one request at a time, inline or
by spawning a task (validation of an 84, a first bind, a comment bind). Tasks
and read loops of all connections share the per-map operation locks
(`WAYFINDER_MAP_OPERATION_LOCKS`), two comment-bind permits, the database's row
locks, and the player manager's channel, which delivers what it is sent in
order. The API process shares only the database.

`PROJECT.json` lists every part with its status, and under `hazards` what is
hard to test, each at its line.

## Modules

### HatUnlocks

One connection: its read loop (`Reader`), its validation tasks, the set `owed`
and the answers being built.

| Model | Code |
|---|---|
| `owed`, `AnyForMap`, `Release` | `PendingHatUnlocks`, `any_for_map`, `PendingHatUnlock::release` |
| `ReportHatUnlock` | request 84: binding check, `begin` (dedupe, bound of 16), spawn |
| `WithholdHatsMine` / `SendHatsMine` | request 213 with or without an owed hat on the map |
| `AcquirePermit`, `GrantUnlock`, `DenyUnlock` | the two validation permits; `hats::report_unlock` or any failure, panics included |
| `CheckBinding`, `ReadItems`, `SendAnswer`, `AnswerFails` | `push_hats_mine`: the binding query, the item query, the send, a failed query |
| `UploadSpec`, `Rematerialize` | another actor makes the map's binding unusable, or usable again |

Abstracted: how a verdict is reached (module WayfinderBinding), names and keys
of hats, the equipped slug of the answer. The read of `hat_equipped` between
the two queries of `get_hats_mine` is not a step of its own: it does not decide
what is listed. An unusable binding is one flag per map. A report that is
refused (unusable, owed already, over the bound) changes nothing and is left
out.

### WayfinderTables

The rows and the transactions on them: `Upsert`, `Delete`, `Materialize`,
`Equip`, `GrantHat`, and the predicates the queries repeat (`Verified`,
`Usable`, `UsableFor`, `PushEntry`). A spec's pair (`updated_at`, `spec_hash`)
is a revision number; a catalog keeps only its hats, each with the criterion it
demands. `Materialize` stands for the common end of both binding transactions:
the map's rows are replaced, unmatched (or, when purging, all) hats come off,
the snapshot is recorded. The three initial databases are an empty one, one
with a legacy binding of before verification, and one with a verified binding.

### WayfinderBinding

Composes the tables with the handlers. A *job* is a running handler or task,
its `pc` the await it has reached; one action per stretch of code between
awaits:

| Job | Steps | Code |
|---|---|---|
| `bind` | `StartBind` `PrepareBind` `VerifyAuthor` `AcquireMapLock` `BeginBindTx` `CommitBind` `Announce` | request 81: deferred or inline, `prepare_authoritative_bind`, `commit_authoritative_bind` |
| `comment` | `StartComment` `AcquirePermit` `AcquireMapLock` `FetchComment` `BeginBindTx` `CommitComment` `Announce` | `observe_map_for_comment_bind`, `try_comment_bind`, `commit_comment_bind` |
| `recheck` | `StartRecheck` `FetchComment` `BeginBindTx` `CommitComment` | the API process: no map lock, no broadcast |
| `unlock` | `StartUnlock` `ReadRow` `JudgeUnlock` `GrantUnlock` | the validation of an 84, `report_unlock` |
| `equip` | `StartEquip` `AcquireMapLock` `EquipHat` `Announce` | request 85 |
| `move` | `StartMove` `AcquireMapLock` `Announce` / `ReadJoinPush` `Announce` | `set_wayfinder_map` and its leave and join pushes |
| `delete` | `StartDelete` `CheckBound` `DeleteSpec` (`ReportInternalError`) | deletion of a spec |

`UploadSpec` and `PublishComment` are the mappers'. `Fail` ends a job at any
database or Nadeo call. `mapLock` is the operation lock of the plugin server;
the row locks are:

* the spec row, held `FOR UPDATE` by both binding transactions from their first
  statement to the commit (`SpecLocked`), waited for by unlocks and equips
  (`FOR SHARE`), uploads and deletions;
* the binding row, whose `FOR UPDATE` finds the row of the transaction's
  snapshot or, if another transaction has inserted or moved it since, no row
  (`RowFound`): PostgreSQL re-evaluates the join with the new row version
  against the snapshot's spec row, which no longer matches. A transaction is
  therefore two steps, what its snapshot saw (`seen`, `src`) and what it
  writes.

`endorsed` and `silent` are history variables: specs a map's comment has named,
and hats taken off without a broadcast.

Abstracted: what a comment says is the spec it names; the debounce of comment
binds only delays them, so one may start at any time; the 24-hour limit on
edits, the equip limiter and the hit counters only refuse; a broadcast is
delivered to everybody on the map the moment it is queued (the manager's
channel is first in, first out). Minigame and collectible rows are written by
the same transactions and are not kept.

### MapAuthority

What the binding of maps promises, without requests, locks or processes: a map
has a trusted spec or none; the map's author claims a map that has none
(`Claim`), its published comment moves it (`Follow`), and nothing withdraws it.
`WayfinderBinding` implements it (`ImplementsAuthority`) with `authority[m]`
mapped to the spec of `m`'s binding when that is verified, and to `Nil`
otherwise.

### HatWardrobe

What the hats of maps promise, without requests, jobs, locks, spec rows or
proofs on their way: a map is stocked with a catalog (`Stock`: hats it lacks
come off, or all do), what it was stocked from may change (`Close`), a hat is
unlocked once by meeting what the map demands for it at that moment (`Unlock`),
and worn only if it is on an open map and unlocked (`Wear`, `TakeOff`).
`WayfinderBinding` implements it (`ImplementsWardrobe`) with `live` mapped to
the usable maps, `catalog` to their rows and `worn` to `equipped`; that a worn
hat is always one the map has and the player has unlocked is part of it.

### NadeoLookups

Tasks ask a `CachedOfficialRecordVerifier` or a `CachedMapAuthorVerifier`
(the same protocol; a key is an account and a map, or a map) or fetch map
metadata and comments directly.

| Model | Code |
|---|---|
| `Ask`, `WakeUp`, `Return`, `Repeats` | `author_id_for_uid`, `has_official_record`, the attempts of `has_recent_official_record` |
| `Cached` | `cached_record` with `negative_not_before`: a *no* of before the attempt does not answer a recent check |
| `Lookup`, `FindGate`, `TakeGate`, `Admitted`, `TakePermit`, `Store` | `lookup`, `key_gate`, `admit_at`, the outbound semaphore, the insert into the cache |
| `TakeRefresh`, `Authenticated`, `TokenAges` | `ensure_cached_token` with its refresh gate and second look |
| `RequestFails`, `Retried`, `NadeoReads` | `send_with_retry`; Nadeo reads its records at one moment of the request |

Abstracted: time. An entry, the token and a window run out at any moment;
`newer` replaces the comparison of `obtained` with `negative_not_before`. The
eviction of an account's window admits more, like the window's end. The truth
changes only for keys that finishes concern. The unlock throttle
(`allow_unlock_validation`) refuses before a lookup and is left out, as is the
parsing of map headers.

### Connections

`PlayerMgr` (accept, registration, the inbox task, `top_3_loop`'s pruning,
shutdown) and for each connection the `XPlayer`: login, its read, write and
manager loops, and the token they share.

| Model | Code |
|---|---|
| `Accept`, `Register`, `AcceptFails`, `StopPlayers` | `PlayerMgr::run` and `accept`: the connection is started before it is listed |
| `Deliver`, `Prune`, `Reachable`, `Closed` | `deliver_player_mgr_message`, `top_3_loop`: `players.retain(!is_closed)` |
| `Authenticate`, `Refuse`, `Dropped`, `End`, `PermitBack` | `XPlayer::run`, `run_auth`, the select with the shutdown |
| `Handle`, `ReadFails`, `ReadStops` | `start_read_loop` |
| `StartWrite`, `Written`, `WriteFails`, `WriteStops` | `start_write_loop`: a write under way does not look at the token |
| `Forward`, `ForwardStops` | `start_mgr_loop` |
| `Disconnect` | `tracker.wait` |

Abstracted: answers and statistics, which share the connection's queue; what a
request does besides sending a broadcast or changing the tracked map; the order
of the manager's list. The acquisition of a permit is merged with the accept
that follows it, `AuthSuccess` and the initial statistics with the login. `due`
is a history variable: what was broadcast to the connection's map.

### Leaderboards

One custom map's `map_leaderboard` with the trigger that lists the map, and Deep
Dip 2's board of best heights. An action is one SQL statement; the insert into
`map_leaderboard` with its trigger is a transaction (`Insert`, `TakeLock`,
`ReadThreshold`, `Count`, `Commit`), the advisory lock is held from `TakeLock`
to `Commit`. `Update`/`Insert` are the two statements of `report_map_curr_pos`;
`SelectPb`, `FirstPb`, `ImprovePb`, `ArchivePb` those of
`update_user_pb_height`. `Hide` and `Rebind` are what others do: a player enters
or leaves the public list, the binding or its threshold changes.

`top`, `together` and `eased` are history variables: the highest height a served
report said, the players whose reports overlapped, and whether the threshold
came within reach without an insert. Left out: positions, counts of updates,
the live heights, which every report overwrites, and the archive's rows.

`src/CONTEXT.md` calls a map listed "whose public Leaderboard has reached the
listing threshold". Only an insert looks: a lifted or expired ban and a lowered
threshold may leave a map unlisted that has reached it, until the next insert.
`eased` marks these moments and `ThresholdNotMissed` is about the others.

### PlayerProgress

The catalogues a spec parses to, their rows on one map, and the reports of
unlocks, collections and attempts. Collectibles are older than the log of first
collections (migration 20260823090000): `Init` starts from any progress among
`OldRows`, unlocked and collected and without a log row, and such an item stays
out of the log, as `pre_migration_collected_progress_does_not_get_a_fake_log` in
`src/src/queries/collectibles.rs` asks. So `FirstCollectionsAreLogged` is about
steps: an item enters the log exactly in the commit that makes it collected.
Bests start empty: old attempts with a time below zero, which the `NOT VALID`
checks of migration 20260825130000 leave in place, are left out.

| Model | Code |
|---|---|
| `CollectibleItems`, `CollectibleSlugs`, `GameSlugs`, `Accepted`, `HasPath` | `parse_catalog_collectibles`, `parse_catalog_games`, `parse_collect_paths`: default slugs, duplicates, paths |
| `Upload`, `Bind`, `Sharing` | `replace_catalog_in_tx`, `bind_map_from_catalog_in_tx` against the `FOR SHARE` locks of reports |
| `ReportUnlock`, `ReportCollect`, `ReportAttempt` | the handlers of 82, 83 and 80, up to the transaction |
| `LockCollectible`, `LockGame`, `Materialized` | `lock_materialized_spec`, the row on the map |
| `SelectProgress`, `UpsertProgress`, `AppendLog`, `CommitCollectible` | `record_collect_transition`, `report_unlock` |
| `InsertAttempt`, `ScoreFinish`, `CommitAttempt` | `report_attempt` |

A transaction's writes are in its task until it commits, and another that needs
the same player's row waits (`RowHeld`). A slug is a pair of a word and a number,
since default slugs are numbered; a key is `md5(map, slug)`, so here the slug.
Left out: names, gates, unlock scores, positions, and the time of an attempt
that is no finish, which is stored and never read for a score.

When a slug changes its kind on a rebind, so that lower is better where higher
was, the score of the other order is what new finishes are compared with
(`Better`). No comment speaks of that case; `PbSummarisesAttempts` is about
finishes made under one order.

### ProgressLedger

What collectibles and minigames promise, without transactions, locks, specs or
binds: what the map offers changes, and an unlock, a collection or an attempt
counts as a whole at one moment, judged by what the map offers and what the
player has done then. Players may start with items that are collected and have
no first collection. `PlayerProgress` implements it (`ImplementsLedger`): a
report counts at its commit.

### Moderation

One map's bans, delegates and unofficial marks, the super-mods and the web
sessions. A request is a task of warp and an action is one of its statements:
the standing of the actor (`AskSuper`, `AskAuthor`, `AskDelegate`, with
`about` saying whose), then what the handler looks at (`AskConflict`,
`AskCount`, the target's protection), then what it writes. Only `apply_map_ban`
and `lift_map_ban` are transactions (`BanRow` `MarkAndCommit`, `LiftRow`
`ClearAndCommit`), kept apart by the row of `map_bans` (`Locked`). `StartSignIn`,
`Callback`, `TakeState`, `Exchanged`, `OpenSession`, `EndSession` are the OAuth
sign-in; bans and states expire at any moment.

`Authorised` follows each user into and out of the super-mods, the seats, the
bans and the marks: a lift may keep the mark, somebody marked may be banned
again, and a ban may run out, which is the one change that no request makes.

`entitled`, `raced` and `crossed` are history variables: whether the actor has
been entitled at some moment of the request, whether another removal of a
super-mod has come between a removal's count and its delete, and the users for
whom a ban and a seat were requested at the same time.

Left out: bodies that are refused before any statement, the users' rows that
foreign keys ask for, and the audit log, which is written after the change,
whose errors are dropped and which no decision reads. While the map's metadata
cannot be fetched its author is nobody, so nothing protects that author from a
ban: the model has this case (`meta`).

## Runs

| Run | Question | Result |
|---|---|---|
| `hat_unlocks` | 84s, 213s and tasks in every order | `owed` is exact; inline answers are current; a withheld 213 has an answerer and is answered |
| `hat_answer_race` | does an answer ever take back an unlock that one before it showed? | yes: see findings |
| `hat_empty_answer` | is an empty `HatsMine` ever sent? | yes: see findings |
| `wayfinder_authority` | who decides a map's spec when binds, comment binds of both processes, an upload and a deletion race? | an authority always does, as `MapAuthority` says; request 81 never overturns a verified binding; every job ends |
| `wayfinder_hats` | unlocking, wearing and showing hats while the map is rebound | announced changes are shown in commit order; unlocks are earned; a usable map's rows are its spec's; stocking, unlocking and wearing are as `HatWardrobe` says |
| `hat_ghost` | is every removal shown? | no: see findings |
| `spec_delete` | is a bound spec always detected up front? | no: see findings |
| `nadeo_lookups` | tasks ask the verifiers through caches, gates, windows, permits and the shared token, in every order and with every failure | one download per key; a recent no is recent; one refresh for an outdated token; every lookup returns; no deadlock |
| `connections` | connections are accepted, logged in, served by three loops, dropped and shut down in every order | permits are neither lost nor doubled; no broadcast to a live connection is lost; what begins to end does end |
| `leaderboards` | overlapping reports on both boards while players are hidden and thresholds change | inserts that reach the threshold list the map; no height is lost but by overlapping reports of one player; a board never falls |
| `player_progress` | unlocks, collections and attempts against each other, uploads and binds, with progress older than the log | an item is logged in the step that makes it collected and in no other; a best sums up the attempts; a report counts for its spec, as a whole and at one moment, as `ProgressLedger` says |
| `moderation` | two concurrent requests and sign-ins, statement by statement | bans mark; who enters or leaves a table is the target of an authorised request, or a ban ran out; a state opens one session; a banned delegate or a map without super-mod takes a race |

Every property of a passing run has a mutant in `PROJECT.json`: a plausible bug
of the code (its operator is next to the original in the module) under which the
run finds the property violated.

### Bounds

`hat_unlocks`: two hats on one map, so that siblings drain it together, a third
on another map; two tasks and one permit; two owed hats, so the bound is
reached; four requests (two 84s, their 213, and one more behind it); one change
of a binding. `wayfinder_*`: one map, since nothing but the comment permits
relates two maps' bindings; two players with a spec each, of which one is the
author's; one hat with two criteria; two jobs at a time, since every lock and
every check-then-act of the code is between two; each kind of job starts once
(equips and moves twice, so that one player's broadcasts follow each other),
revisions up to 2, and one edit, in every order. `MaxRequests`, `MaxRebinds`, `MaxStarts`,
`MaxEdits` and `MaxRev` are the only bounds that are not in the code. Deadlock is
not checked: a server with nothing to do, or whose bounded environment is used up,
stops.

`nadeo_lookups`: two tasks (one holds what the other waits for), two keys of one
account, capacity 1 and one permit, so that the gate registry is full and
evicts; limits of one lookup for each window; two attempts and two retries.
Deadlock is checked. `connections`: two connections and two permits, two
broadcasts, so that one overtakes or waits behind the other; deadlock is not
checked, since a server that was shut down stops. `leaderboards`: two players,
one of them on both boards, two tasks, heights 1 and 2, and thresholds that
clamp to 1 or are 2, so that one insert or two reach them. `player_progress`:
one player with two connections, two specs and three contents that share slugs
but not their meaning, times below, at and above zero, two attempts at a game;
one item may have been collected before the log existed. `moderation`: two
requests at a time, an author and another user who may each be super-mods, one
OAuth state. In `leaderboards`, `player_progress` and `moderation` the tasks or
requests are symmetric, and these runs check no liveness. The bounds that are
not in the code are `MaxBroadcasts`, `MaxHeight` and `MaxAttempts`.

### Fairness

`HatUnlocks!Fairness` and `WayfinderBinding!Fairness` are weak fairness of each
task's own steps. Tokio polls every ready task; its `Mutex` and `Semaphore` are
first come, first served, and no holder waits for a later one; PostgreSQL grants
row locks in turn; every HTTP call has a timeout and then fails. Nothing is
assumed of clients, mappers or Nadeo's answers.

`NadeoLookups!Fairness` is strong fairness of each task's steps: a task that
waits for a gate, the permit or the refresh gate is passed over only until its
turn in the queue of Tokio's lock or semaphore, which others cannot take, and
`REQUEST_TIMEOUT` and `RETRY_ATTEMPTS` end every request. `Connections!Fairness`
is weak fairness of the server's own steps for a connection (`Step`): a loop
that has something to do does it. Reading and writing depend on the client, and
only a client that is gone makes them fail.

## Findings

* **A drained map's answer can be overtaken** (`hat_answer_race`). The task
  releases its entry, then queries, then sends. An 84 for the same map that
  arrives after the release may be granted and answered in between; the older
  answer is sent last and relocks a hat that the answer before it showed as
  unlocked.
* **An empty `HatsMine`** (`hat_empty_answer`). `get_hats_mine` checks the
  binding and reads the items in separate statements; after an upload in between
  the second finds nothing and the client is sent an authoritative empty list,
  which the function's own comment says must not happen.
* **A hat taken off silently** (`hat_ghost`). A comment bind that follows a new
  revision of the bound spec discards the wearers whose hat the new catalog
  lacks; request 81 broadcasts them.
* **Deletion reaches the foreign key** (`spec_delete`). A bind between the
  up-front check and the `DELETE` gives the mapper an internal error instead of
  the name of the map. The row is safe (`BindingHasSpec`).

## Proofs

`HatUnlocksProofs` proves, for every set of hats, maps and tasks and every
bound satisfying `HatUnlocksAssumption`:

* `TypeCorrect`: `Spec => []TypeOK`
* `OwedIsExact`: `Spec => []OwedMatchesTasks`
* `InlineAnswersAreSafe`: `Spec => []InlineAnswerIsCurrent`
* `InlineAnswersOweNothing`: `Spec => []InlineAnswerNotOwed`
* `WithheldIsNeverOrphaned`: `Spec => []WithheldHasAnswerer`
* `BoundsAreKept`: `Spec => []BoundsKept`, the bound of owed hats and that of the
  validation permits
* `WithheldIsBeingWorkedOn`: `Spec => []WithheldIsWorkedOn`
* `TasksComeToTheirEnd`: `Spec => [][WorkGetsDone]_vars`

`OwedMatchesTasks` is inductive once tasks are well formed (`WellFormed`: a task
that validates has a hat, an answer being built has a map).
`InlineAnswerIsCurrent` needs the rest: no unlock is committed between the read
loop's query and its send *because* the map owes nothing while the read loop
answers (`InlineAnswerNotOwed`), the read loop cannot begin an 84 meanwhile, and
a grant is made only by a task whose hat is owed (`OwedMatchesTasks`).
`WithheldHasAnswerer` holds because the release that empties the map turns into
an answer in the same step. `IInv` is the conjunction of the type invariant,
`WellFormed` and these four; the proof has one lemma per action, and the
theorems combine them.

`WayfinderProofs` proves, for every set of users, maps, specs, hats and jobs,
every ownership, every number of permits and every bound satisfying
`TablesAssumption` and `BindingAssumption`:

* `TypeCorrect`: `Spec => []TypeOK`
* `BindingsAreAuthorized`: `Spec => []BindingIsAuthorized`
* `VerifiedMapsFollowComments`: `Spec => OnlyCommentsRebind`
* `BindingImplementsAuthority`: `Spec => ImplementsAuthority`
* `BindingImplementsWardrobe`: `Spec => ImplementsWardrobe`
* `RowsAgree`: `Spec => []UsableMatchesSource`
* `BoundSpecsExist`: `Spec => []BindingHasSpec`
* `UnlocksAreEarned`: `Spec => []UnlocksWereEarned`
* `HatsAreBacked`: `Spec => []EquippedIsBacked`
* `WhatIsShownIsWorn`: `Spec => []NoGhostHats`
* `NobodyWaitsInACircle`: `Spec => [](NoCircularWait /\ SomeoneGoesOn)`
* `StepsBringJobsToTheirEnd`: `Spec => StepsAreProgress`

None of these is inductive alone; each is strengthened by what a job knows at
its place, under `TypeInv` (types, and `Shape`: where each kind of job can be):

| Invariant | Strengthened by | Because |
|---|---|---|
| `AuthorityInv` | `Claim`: a bind's `proof` is Nadeo's author; a comment job's spec was named by the comment | both are read before the locks and used at the commit |
| `RowsInv` | `RowHeld`: a transaction's `src` is still its spec's row; `SnapshotsAreOld` | uploads and deletions wait for the row lock; revisions only grow |
| `UnlockInv` | `ProofsHold`: a validation about to grant holds a proof | the grant compares the row it reads with the one judged |
| `WornIsBacked` | drops `Usable` from `EquippedIsBacked` | a map becomes usable again without its equipment being looked at |
| `BroadcastInv` | `MapLockExcludes`; `Current`: a due push is what is worn; `ChangesAreDue`: a hat shown but not worn has a push due | the lock spans the commit and its broadcast |

The job's steps are summarised once (`StartEffect`, `MoveOnEffect`,
`WriteEffect`, `HatEffect`, and `RowWrites` for the tables), so that each
invariant's proof has a case per summary and not per action.

`BindingImplementsWardrobe` takes each summary to a step of `HatWardrobe` or to
a stutter: a commit that materializes is a `Stock`, since `RowsInv` says that
what the transaction locked is what it writes; an upload, which outdates the
maps bound to its spec, is a `Close`; a grant is an `Unlock`, since `ProofsHold`
says that the criterion that was proved is the one the map demands when it
commits. `HatsAreBacked` has no run of its own: `ImplementsWardrobe` implies it
in the runs.

The theorems are about `Spec`, whose `Init` includes every one of the initial
databases; the runs start from subsets of it.

`NadeoProofs`, for every set of tasks, keys, gates and every capacity and limit
satisfying `NadeoAssumption`: `TypeCorrect`, `OneLookupPerKey` (`SingleFlight`),
`TokenIsRefreshedOnce` (`NoNeedlessAuthentication`), `NoStaleNo`
(`RecentNoIsRecent`), `LookupsComeToAnEnd` (`LookupsGetOn`) and
`NobodyWaitsInACircle` (`NoCircularWait`). A task that works on a key holds the key's gate
(`WellFormed`: the registry gives up only gates that nobody holds) and a gate
lets one task through (`GatesExclude`); together they are inductive and give
`SingleFlight`. `RecentNoIsRecent` needs that an unfinished recent check has
noted a *no* whenever one could still answer it (`Recent`): one that it finds in
the cache is newer than its beginning, and one it fetches was read since.

`ProgressProofs`, for every set of users, tasks, specs, contents and slugs
satisfying `ProgressAssumption`: `TypeCorrect`, `CollectedIsLogged`
(`FirstCollectionsAreLogged`), `PbSumsUp` (`PbSummarisesAttempts`),
`CountForTheirSpec` (`ReportsCountForTheirSpec`), `ProgressStays`
(`ProgressIsSticky`: nothing is taken back), `ImplementsTheLedger`
(`ImplementsLedger`), `NobodyWaitsInACircle` (`NoCircularWait`) and
`ReportsComeToAnEnd` (`StatementsRunOut`). A transaction that has locked or
written a player's row is alone in that (`Exclusive`), so what it has read of
the row is still so when it commits (`Fits`), and the shared locks keep its spec
materialized meanwhile (`Under`). All of this holds for every set `OldRows`:
what is logged is collected (`LoggedIsCollected`), though not the converse, and
a report at its commit brings a log row exactly if its item is not collected yet
(`Collects`). For the ledger, a report that passed its lock is still allowed by
the rows the map has (`AllJudged`); only its commit is a step of
`ProgressLedger`, and every bind one that changes the offer.

`ConnectionsProofs`, for every finite set of connections and every number of
permits and broadcasts: `TypeCorrect`, `PermitsComeBack` (`PermitsAccountedFor`),
`NothingIsLost` (`NothingLost`), `EndingIsNeverStuck` (`EndingCanGoOn`) and
`GoneConnectionsWindDown` (`GoneWindsDown`). What is in a connection's queue and inbox is
what is due to it, but for a last `Stop` (`Sound`), and an open connection is
listed, about to be, or closed (`Registry`), so the manager reaches exactly those
a broadcast is due to.

`LeaderboardsProofs`, for every finite set of players, every set of tasks and
every heights and thresholds satisfying `LeaderboardsAssumption`: `TypeCorrect`,
`ReachingItLists` (`ThresholdNotMissed`), `ServedIsOnBoard` (`BestIsHighest`),
`RowsNeverFall` (`BoardNeverFalls`) and `ReportsComeToAnEnd` (`NoCircularWait`,
`StatementsRunOut`). The advisory lock has one holder and what
its holder has counted stays true until it commits (`TriggerInv`); hence an
insert that commits without listing leaves the public rows below the threshold
(`ListingInv`). `MapInv` and `PbInv` follow a height from its report to the
board: past a statement that did not write it, the board has as much already or
another report of the player is under way.

`ModerationProofs`, for every finite set of users, every set of requests and of
states: `TypeCorrect`, `BansMark` (`BannedIsUnofficial`), `OnlyCrossedAreBoth`
(`NoBannedDelegate`), `StatesAreUsedOnce` (`OneSessionPerState`),
`ChangesAreAuthorised` (`Authorised`), `LastStaysUnlessRaced`
(`OnlyRacesLeaveNone`) and `RequestsComeToAnEnd` (`NoCircularWait`,
`StatementsRunOut`). A step is summarised by what it does to the tables
(`TablesStep`, and `OwnRows`: it moves only the request's own target) and by
what a request has found when it gets where it is (`Found`); each property then
rests on what a request must have passed to stand there: `CrossInv` (no conflict
was found, or the users crossed), `RightInv` (its actor was entitled),
`CountInv` (two super-mods are still there, or it raced).

### What is proved of liveness

Liveness under fairness and `ENABLED` are beyond the prover, so
`WithheldIsAnswered`, `JobsEnd`, `LookupsReturn` and `ConnectionsEnd` are only
model-checked, and the remaining runs, whose symmetry rules liveness out, check
none. What liveness rests on besides the scheduler is proved for every instance,
in two parts.

*Nobody waits in a circle.* Who waits, waits for others that are further on in
one order of locks, and the furthest wait for nobody; the theorems name the
guards that are met, in the place of `ENABLED`.

| Module | Order |
|---|---|
| `WayfinderBinding` | comment-bind permit, map lock, spec row; a job holds the map lock exactly where it can (`LockHeld`) |
| `HatUnlocks` | validation permit; a validation that has one waits for nobody |
| `NadeoLookups` | key gate, outbound permit, refresh gate; a new gate can be had whenever there are as many `Gates` as keys (`EnoughGates`: the code allocates one) |
| `PlayerProgress` | one player's row, and its holder asks for no other (`Exclusive`) |
| `Leaderboards` | the row of `map_leaderboard`, the map's advisory lock |
| `Moderation` | one row of `map_bans` |
| `Connections` | an ending connection has the end of its socket, its token or its loops to act on (`Loops`: only a cancelled token ends the read loop) |

*Steps run out.* A step of the process itself lowers what it has left and no
other's step raises it: `StepsLeft` of a job (a move leaves one map before it
joins another: `MovesInline`), `WorkLeft` of a validation, `Left` of a report or
a moderation request, the attempt, place and try of a lookup, and `Rank` of a
connection whose client is gone. There the manager loop's steps are bounded only
by the messages in the connection's inbox.

The findings are runs only.

## Not modelled

Formatting, framing and JSON, read-only endpoints and queries, the external
pages of clips and donations, the superseded connection manager, the offline
clean-up; see `PROJECT.json` for each part and reason. Also:

* `AsyncCache` and the pings that read through it: it serves statistics a little
  late by design, and nothing depends on them.
* Contexts, falls, respawns, vehicle states and profiles: rows that one
  connection writes in single statements and that only statistics read.
* The comment-bind debounce and the equip limiter: both only delay or refuse,
  which the models allow at any time; their arithmetic has unit tests at its
  boundaries.
* The snapshot answer to 214, and the hats a connection leaves shown when it ends.

A crash of a server is not an action of `WayfinderBinding`: every transaction is
atomic, and what is kept in memory (locks, owed sets, who is on which map) dies
with the connections it is about, so a crash can only cut a broadcast off after
its commit, and those it was meant for lose their connection too. In
`PlayerProgress`, `Leaderboards` and `Moderation` a request may fail at every
statement, which is also what a crash leaves of it; in `Connections` the shutdown
may come at any moment.

`Connections` and `WayfinderBinding` are not composed: a broadcast of the second
is delivered the moment it is queued, which is sound because the first shows that
the manager's channel and a connection's queue keep order and lose nothing
(`NothingLost`), but for a connection that is started and not yet listed.

## Where to go on

1. Contexts and the leave push that a connection's end does not send, composed
   with `Connections`.
2. The pure algorithms `comment_bind_admit` and `HatEquipRateLimiter` against
   reference definitions.
3. Minigame and collectible rows in `WayfinderTables`, so that both binding
   transactions and the reports of `PlayerProgress` run against the same rows.
