--------------------------- MODULE NadeoLookups ---------------------------
(***************************************************************************)
(* How the plugin server asks Nadeo whether a player holds a record or who *)
(* made a map, from src/src/nadeo.rs: a cache of answers, a gate for each  *)
(* key so that one lookup serves every task that waits for it, admission   *)
(* windows, a limit on concurrent requests and one access token that every *)
(* request shares.                                                         *)
(*                                                                         *)
(* CachedOfficialRecordVerifier and CachedMapAuthorVerifier are the same   *)
(* protocol; only the first has "recent" checks, which a cached "no" may   *)
(* not answer unless it was stored after the check began.  A key is an     *)
(* account and a map, or a map, and "no" also stands for a map without an  *)
(* author.                                                                 *)
(*                                                                         *)
(* Time is not a number: an entry, a token or a window runs out at any     *)
(* moment, and `newer` says on which side of a task's negative_not_before  *)
(* the cached entry was stored.  Nadeo's HTTP service is external: it      *)
(* answers what is true when it reads, or fails.                           *)
(***************************************************************************)
EXTENDS Naturals, FiniteSets

CONSTANTS
    Tasks,          \* connections' and binds' lookups
    Keys,           \* what is asked
    OwnMaps,        \* the keys finish_this_map asks about, by recent checks
    Accounts,
    AccountOf,      \* the account a key's lookups are counted against
    Gates,          \* identities of the Arc<Mutex<()>> in key_gates
    Capacity,       \* RECORD_CACHE_CAPACITY, of key_gates
    Concurrency,    \* RECORD_CONCURRENCY
    GlobalLimit,    \* RECORD_GLOBAL_LIMIT
    AccountLimit,   \* RECORD_ACCOUNT_LIMIT
    RecentAttempts, \* RECENT_RECORD_ATTEMPTS
    RetryAttempts,  \* RETRY_ATTEMPTS
    Nil             \* no gate, no key

ASSUME NadeoAssumption ==
    /\ AccountOf \in [Keys -> Accounts]
    /\ IsFiniteSet(Tasks) /\ IsFiniteSet(Keys) /\ OwnMaps \subseteq Keys
    /\ Nil \notin Gates \cup Keys
    /\ Capacity \in Nat \ {0} /\ Concurrency \in Nat \ {0}
    /\ GlobalLimit \in Nat /\ AccountLimit \in Nat
    /\ RecentAttempts \in Nat \ {0, 1} /\ RetryAttempts \in Nat \ {0}

VARIABLES
    truth,    \* what Nadeo would answer now
    task,
    cache,    \* records, authors: the unexpired entries
    gate,     \* key_gates: the registered gate of each key
    global,   \* global_window.count
    account,  \* account_windows[..].count
    token,    \* live_token, core_token: whether a usable one is cached
    seen      \* what was true at some moment since a recent check was asked

vars == <<truth, task, cache, gate, global, account, token, seen>>

Answers == {"yes", "no"}

\* Where a task stands in author_id_for_uid or has_recent_official_record.
Resting == {"idle", "answered"}
Fetching == {"permit", "refresh", "authenticate", "request", "store"}
Requesting == {"authenticate", "request"}
Sending == {"refresh", "authenticate", "request", "store"}
InLookup == {"gate"} \cup Fetching

TaskRecords ==
    [pc : Resting \cup InLookup \cup {"lookup", "sleep"},
     key : Keys \cup {Nil}, recent : BOOLEAN, newer : BOOLEAN,
     attempt : 1 .. RecentAttempts, tries : 1 .. RetryAttempts,
     gate : Gates \cup {Nil}, value : Answers]

IdleTask == [pc |-> "idle", key |-> Nil, recent |-> FALSE, newer |-> FALSE,
             attempt |-> 1, tries |-> 1, gate |-> Nil, value |-> "no"]

Init ==
    /\ truth = [k \in Keys |-> "no"]
    /\ task = [t \in Tasks |-> IdleTask]
    /\ cache = [k \in Keys |-> "none"]
    /\ gate = [k \in Keys |-> Nil]
    /\ global = 0
    /\ account = [a \in Accounts |-> 0]
    /\ token = "none"
    /\ seen = [t \in Tasks |-> {}]

-----------------------------------------------------------------------------
Goto(t, pc) == task' = [task EXCEPT ![t].pc = pc]

\* Mutant: the attempt after the last is slept on too.
RepeatsOnceMore(t, v) ==
    v = "no" /\ task[t].recent /\ task[t].attempt <= RecentAttempts

\* A "no" to a recent check that may still try again is slept on.
Repeats(t, v) ==
    v = "no" /\ task[t].recent /\ task[t].attempt < RecentAttempts

\* What a task that got the value v from a lookup does next: the answer of a
\* plain lookup is handed on, that of a recent check is kept to be judged.
After(t, v) ==
    IF Repeats(t, v)
    THEN [IdleTask EXCEPT !.pc = "sleep", !.key = task[t].key, !.recent = TRUE,
                          !.attempt = task[t].attempt]
    ELSE IF task[t].recent
    THEN [IdleTask EXCEPT !.pc = "answered", !.value = v]
    ELSE IdleTask

\* The lookup returns v; every guard and the gate's Arc are dropped.
Return(t, v) == task' = [task EXCEPT ![t] = After(t, v)]

\* It returns an error, and so does the check it belongs to.
Fail(t) == task' = [task EXCEPT ![t] = IdleTask]

\* Mutant: any unexpired entry answers, whenever it was stored.
AnyCached(t) == cache[task[t].key] # "none"

\* cached_record, cached_author: negative_not_before is set for recent checks.
Cached(t) ==
    \/ cache[task[t].key] = "yes"
    \/ cache[task[t].key] = "no" /\ (task[t].recent => task[t].newer)

\* A task asks for a key; a recent check notes the moment.
Ask(t, k, recent) ==
    /\ task[t].pc \in Resting
    /\ recent => k \in OwnMaps
    /\ task' = [task EXCEPT ![t] = [IdleTask EXCEPT !.pc = "lookup", !.key = k,
                                                    !.recent = recent]]
    /\ seen' = [seen EXCEPT ![t] = IF recent THEN {truth[k]} ELSE {}]
    /\ UNCHANGED <<truth, cache, gate, global, account, token>>

\* The next of a recent check's attempts notes a moment of its own.
WakeUp(t) ==
    /\ task[t].pc = "sleep"
    /\ task' = [task EXCEPT ![t].pc = "lookup", ![t].attempt = @ + 1]
    /\ UNCHANGED <<truth, cache, gate, global, account, token, seen>>

\* Map metadata and published comments are fetched without cache or gate.
FetchDirectly(t) ==
    /\ task[t].pc \in Resting
    /\ task' = [task EXCEPT ![t] = [IdleTask EXCEPT
                   !.pc = IF token = "fresh" THEN "request" ELSE "refresh"]]
    /\ seen' = [seen EXCEPT ![t] = {}]
    /\ UNCHANGED <<truth, cache, gate, global, account, token>>

-----------------------------------------------------------------------------
(* The gates.  A gate nobody holds an Arc of may make room for another.    *)

Held(g) == \E t \in Tasks : task[t].gate = g

Registered == {k \in Keys : gate[k] # Nil}

\* Mutant: room is made at any gate, in use or not.
AnyGate == Registered

IdleGates == {k \in Registered : ~Held(gate[k])}

NewGates == {g \in Gates : ~Held(g) /\ \A k \in Keys : gate[k] # g}

\* key_gate: the registered gate, or a new one while there is room for it.
FindGate(t) ==
    LET k == task[t].key IN
    \/ /\ gate[k] # Nil
       /\ task' = [task EXCEPT ![t].pc = "gate", ![t].gate = gate[k]]
       /\ UNCHANGED gate
    \/ /\ gate[k] = Nil
       /\ NewGates # {}
       /\ LET g == CHOOSE g \in NewGates : TRUE IN
          /\ task' = [task EXCEPT ![t].pc = "gate", ![t].gate = g]
          /\ \/ /\ Cardinality(Registered) < Capacity
                /\ gate' = [gate EXCEPT ![k] = g]
             \/ /\ Cardinality(Registered) >= Capacity
                /\ \E idle \in IdleGates :
                       gate' = [gate EXCEPT ![idle] = Nil, ![k] = g]
    \/ /\ gate[k] = Nil
       /\ Cardinality(Registered) >= Capacity /\ IdleGates = {}
       /\ Fail(t)
       /\ UNCHANGED gate

\* lookup up to the wait for the gate.
Lookup(t) ==
    /\ task[t].pc = "lookup"
    /\ \/ /\ Cached(t)
          /\ Return(t, cache[task[t].key])
          /\ UNCHANGED gate
       \/ ~Cached(t) /\ FindGate(t)
    /\ UNCHANGED <<truth, cache, global, account, token, seen>>

\* admit_at: a refusal counts against nobody.
Admitted(t) ==
    /\ global < GlobalLimit
    /\ account[AccountOf[task[t].key]] < AccountLimit

\* The gate is taken when its last holder has returned; the cache is asked again.
TakeGate(t) ==
    /\ task[t].pc = "gate"
    /\ \A s \in Tasks : task[s].gate = task[t].gate => task[s].pc \notin Fetching
    /\ \/ /\ Cached(t)
          /\ Return(t, cache[task[t].key])
          /\ UNCHANGED <<global, account>>
       \/ /\ ~Cached(t) /\ Admitted(t)
          /\ task' = [task EXCEPT ![t].pc = "permit", ![t].newer = FALSE]
          /\ global' = global + 1
          /\ account' = [account EXCEPT ![AccountOf[task[t].key]] = @ + 1]
       \/ /\ ~Cached(t) /\ ~Admitted(t)
          /\ Fail(t)
          /\ UNCHANGED <<global, account>>
    /\ UNCHANGED <<truth, cache, gate, token, seen>>

-----------------------------------------------------------------------------
(* The token, and the requests that carry it.                              *)

\* outbound.acquire; then ensure_cached_token uses a fresh token, or waits for
\* the refresh gate.
TakePermit(t) ==
    /\ task[t].pc = "permit"
    /\ Cardinality({s \in Tasks : task[s].pc \in Sending /\ task[s].key # Nil})
           < Concurrency
    /\ Goto(t, IF token = "fresh" THEN "request" ELSE "refresh")
    /\ UNCHANGED <<truth, cache, gate, global, account, token, seen>>

\* Mutant: a task that got the refresh gate authenticates at once.
RefreshAtOnce(t) ==
    /\ task[t].pc = "refresh"
    /\ \A s \in Tasks : task[s].pc # "authenticate"
    /\ Goto(t, "authenticate")
    /\ UNCHANGED <<truth, cache, gate, global, account, token, seen>>

\* Mutant: nobody refreshes while another task still waits for its first reply.
RefreshIfQuiet(t) ==
    /\ task[t].pc = "refresh"
    /\ \A s \in Tasks \ {t} : task[s].pc \notin {"authenticate", "refresh"}
    /\ Goto(t, IF token = "fresh" THEN "request" ELSE "authenticate")
    /\ UNCHANGED <<truth, cache, gate, global, account, token, seen>>

\* The refresh gate's owner asks the cache again before it authenticates.
TakeRefresh(t) ==
    /\ task[t].pc = "refresh"
    /\ \A s \in Tasks : task[s].pc # "authenticate"
    /\ Goto(t, IF token = "fresh" THEN "request" ELSE "authenticate")
    /\ UNCHANGED <<truth, cache, gate, global, account, token, seen>>

\* authenticate succeeds; the token is cached and the refresh gate released.
Authenticated(t) ==
    /\ task[t].pc = "authenticate"
    /\ token' = "fresh"
    /\ task' = [task EXCEPT ![t].pc = "request", ![t].tries = 1]
    /\ UNCHANGED <<truth, cache, gate, global, account, seen>>

\* What a request can end with instead of an answer: a refusal, a 429 or 5xx
\* whose Retry-After is short or absent, one that asks for too long a wait, or
\* a broken connection.
Failures == {"refused", "busy", "over_budget", "broken"}

Retried(failure) == failure \in {"busy", "broken"}

\* send_with_retry: another attempt, or the lookup fails and caches nothing.
RequestFails(t) ==
    /\ task[t].pc \in Requesting
    /\ \E failure \in Failures :
           IF Retried(failure) /\ task[t].tries < RetryAttempts
           THEN task' = [task EXCEPT ![t].tries = @ + 1]
           ELSE Fail(t)
    /\ UNCHANGED <<truth, cache, gate, global, account, token, seen>>

\* Nadeo reads the record, or the map's author; a direct request is over.
NadeoReads(t) ==
    /\ task[t].pc = "request"
    /\ IF task[t].key = Nil
       THEN Fail(t)
       ELSE task' = [task EXCEPT ![t].pc = "store", ![t].tries = 1,
                                 ![t].value = truth[task[t].key]]
    /\ UNCHANGED <<truth, cache, gate, global, account, token, seen>>

\* The answer arrives, is stored and returned; it is newer than the
\* negative_not_before of every check of the key that is waiting.
Store(t) ==
    LET k == task[t].key
        v == task[t].value
    IN  /\ task[t].pc = "store"
        /\ cache' = [cache EXCEPT ![k] = v]
        /\ task' = [s \in Tasks |->
               IF s = t
               THEN After(t, v)
               ELSE IF task[s].key = k /\ task[s].recent /\ task[s].pc \in {"lookup", "gate"}
               THEN [task[s] EXCEPT !.newer = TRUE]
               ELSE task[s]]
        /\ UNCHANGED <<truth, gate, global, account, token, seen>>

-----------------------------------------------------------------------------
(* Time passes, and the world changes.                                     *)

\* An entry reaches its TTL or is the least recently used of a full cache.
Forget(k) ==
    /\ cache[k] # "none"
    /\ cache' = [cache EXCEPT ![k] = "none"]
    /\ UNCHANGED <<truth, task, gate, global, account, token, seen>>

\* TOKEN_MAX_AGE
TokenAges ==
    /\ token = "fresh"
    /\ token' = "none"
    /\ UNCHANGED <<truth, task, cache, gate, global, account, seen>>

\* RECORD_ADMISSION_WINDOW: the count starts again at the first look after it.
NewGlobalWindow ==
    /\ global # 0
    /\ global' = 0
    /\ UNCHANGED <<truth, task, cache, gate, account, token, seen>>

NewAccountWindow(a) ==
    /\ account[a] # 0
    /\ account' = [account EXCEPT ![a] = 0]
    /\ UNCHANGED <<truth, task, cache, gate, global, token, seen>>

\* A player finishes a map, a record is removed, a map is published.
TruthChanges(k) ==
    /\ truth' = [truth EXCEPT ![k] = IF @ = "yes" THEN "no" ELSE "yes"]
    /\ seen' = [t \in Tasks |->
                   IF task[t].recent /\ task[t].key = k /\ task[t].pc \notin Resting
                   THEN seen[t] \cup {truth'[k]} ELSE seen[t]]
    /\ UNCHANGED <<task, cache, gate, global, account, token>>

Step(t) ==
    \/ WakeUp(t) \/ Lookup(t) \/ TakeGate(t) \/ TakePermit(t)
    \/ TakeRefresh(t) \/ Authenticated(t)
    \/ RequestFails(t) \/ NadeoReads(t) \/ Store(t)

Next ==
    \/ \E t \in Tasks : Step(t)
    \/ \E t \in Tasks, k \in Keys, recent \in BOOLEAN : Ask(t, k, recent)
    \/ \E t \in Tasks : FetchDirectly(t)
    \/ \E k \in Keys : Forget(k) \/ (k \in OwnMaps /\ TruthChanges(k))
    \/ TokenAges
    \/ NewGlobalWindow
    \/ \E a \in Accounts : NewAccountWindow(a)

\* A spawned lookup keeps running: every request ends within REQUEST_TIMEOUT,
\* and tokio's mutexes and semaphores serve their waiters in the order they
\* came, so a wait that could end again and again does end.
Fairness == \A t \in Tasks : SF_vars(Step(t))

Spec == Init /\ [][Next]_vars /\ Fairness

-----------------------------------------------------------------------------
(* Properties                                                              *)

TypeOK ==
    /\ truth \in [Keys -> Answers]
    /\ task \in [Tasks -> TaskRecords]
    /\ cache \in [Keys -> Answers \cup {"none"}]
    /\ gate \in [Keys -> Gates \cup {Nil}]
    /\ global \in 0 .. GlobalLimit
    /\ account \in [Accounts -> 0 .. AccountLimit]
    /\ token \in {"fresh", "none"}
    /\ seen \in [Tasks -> SUBSET Answers]

\* However many tasks ask for a key and however the bounded registry of gates
\* evicts meanwhile, at most one of them looks it up at Nadeo (key_gate, lookup).
SingleFlight ==
    \A s, t \in Tasks :
        (/\ task[s].pc \in Fetching /\ task[t].pc \in Fetching
         /\ task[s].key = task[t].key /\ task[t].key # Nil) => s = t

\* A recent check answers "no" only if the record was missing at some moment
\* since it was asked: neither a cached entry nor a lookup that was already on
\* its way can hide a finish that Nadeo had before (has_recent_official_record).
RecentNoIsRecent ==
    \A t \in Tasks :
        task[t].pc = "answered" /\ task[t].value = "no"
            => "no" \in seen[t]

\* A task authenticates only while no usable token is cached, however many
\* found the token expired together (ensure_cached_token's second look).
NoNeedlessAuthentication ==
    \A s, t \in Tasks :
        task[t].pc = "authenticate"
            => token = "none" /\ (task[s].pc = "authenticate" => s = t)

\* Every lookup returns, with an answer or an error: the key's gate, the
\* outbound permit and the refresh gate are taken in one order and given back
\* on every path.
LookupsReturn == \A t \in Tasks : task[t].pc \notin Resting ~> task[t].pc \in Resting
=============================================================================
