---------------------------- MODULE HatUnlocks ----------------------------
(***************************************************************************)
(* One plugin connection's hat unlock reports (request 84) and hat reads   *)
(* (request 213), as src/src/server2.rs handles them.                      *)
(*                                                                         *)
(* The plugin sends 213 right behind its 84s and treats the answer as the  *)
(* truth: every hat it lists as locked is relocked and saved to disk.  An  *)
(* 84 is validated against Nadeo in a spawned task, so the connection      *)
(* keeps the set `owed` of hats under validation; a 213 for a map with an  *)
(* owed hat is withheld, and the task that drains the map pushes the       *)
(* answer.                                                                 *)
(*                                                                         *)
(* What decides a verdict (the Nadeo record, the catalog row) is module    *)
(* WayfinderBinding; here a validation commits an unlock or does not.      *)
(***************************************************************************)
EXTENDS Naturals, FiniteSets

CONSTANTS
    Hats,           \* the (map_uid, slug) keys of PendingHatUnlocks.owed
    Maps,
    MapOf,          \* the map a hat key names
    Tasks,          \* spawned validation tasks; finite to bound the model
    Reader,         \* the connection's own read loop
    MaxPending,     \* MAX_PENDING_HAT_UNLOCKS
    MaxValidations, \* MAX_CONCURRENT_HAT_VALIDATIONS
    MaxRequests,    \* bound: requests the client sends
    MaxRebinds,     \* bound: changes of a map's binding
    Nil             \* no hat, no map, no answer

ASSUME HatUnlocksAssumption ==
    /\ MapOf \in [Hats -> Maps]
    /\ Reader \notin Tasks
    /\ Nil \notin Hats \cup Maps
    /\ IsFiniteSet(Hats)
    /\ MaxPending \in Nat \ {0}
    /\ MaxValidations \in Nat \ {0}
    /\ MaxRequests \in Nat
    /\ MaxRebinds \in Nat

VARIABLES
    owed,      \* PendingHatUnlocks.owed
    task,      \* each spawned validation task and the hat it validates
    answer,    \* a 213 answer being built: by the read loop or by a task
    withheld,  \* maps whose last 213 is withheld and not answered since
    client,    \* the last HatsMine queued for each map
    unlocked,  \* hat_unlock rows of the connection's user
    usable,    \* maps with a verified, materialized binding
    requests,  \* requests read so far
    rebinds    \* binding changes so far

vars == <<owed, task, answer, withheld, client, unlocked, usable, requests, rebinds>>

Actors == Tasks \cup {Reader}

HatsOf(m) == {h \in Hats : MapOf[h] = m}

\* The payload of a HatsMine: the hats it lists, and those it lists as unlocked.
Items == [listed : SUBSET Hats, open : SUBSET Hats]

NoTask == [pc |-> "idle", hat |-> Nil]

NoReply == [pc |-> "none", map |-> Nil, items |-> Nil]

\* Tasks whose owed entry is not released yet.
Validating == {t \in Tasks : task[t].pc \in {"queued", "running", "judged"}}

Running == {t \in Tasks : task[t].pc = "running"}

\* Mutant: an entry counts only once its validation runs.
AnyRunningForMap(m) == \E t \in Running : MapOf[task[t].hat] = m

\* PendingHatUnlocks::any_for_map
AnyForMap(m) == \E h \in owed : MapOf[h] = m

TypeOK ==
    /\ owed \subseteq Hats
    /\ task \in [Tasks -> [pc : {"idle", "queued", "running", "judged"},
                           hat : Hats \cup {Nil}]]
    /\ answer \in [Actors -> [pc : {"none", "check", "items", "send"},
                              map : Maps \cup {Nil},
                              items : Items \cup {Nil}]]
    /\ withheld \subseteq Maps
    /\ client \in [Maps -> Items \cup {Nil}]
    /\ unlocked \subseteq Hats
    /\ usable \subseteq Maps
    /\ requests \in 0 .. MaxRequests
    /\ rebinds \in 0 .. MaxRebinds

Init ==
    /\ owed = {}
    /\ task = [t \in Tasks |-> NoTask]
    /\ answer = [a \in Actors |-> NoReply]
    /\ withheld = {}
    /\ client = [m \in Maps |-> Nil]
    /\ unlocked \in SUBSET Hats
    /\ usable \in SUBSET Maps
    /\ requests = 0
    /\ rebinds = 0

-----------------------------------------------------------------------------
(* The read loop: it handles one request at a time.                        *)

ReadRequest ==
    /\ answer[Reader].pc = "none"
    /\ requests < MaxRequests
    /\ requests' = requests + 1

\* Mutant: a repeat of an owed hat is not coalesced.
ReportWithoutDedupe(h, t) ==
    /\ ReadRequest
    /\ MapOf[h] \in usable
    /\ Cardinality(owed) < MaxPending
    /\ task[t].pc = "idle" /\ answer[t].pc = "none"
    /\ owed' = owed \cup {h}
    /\ task' = [task EXCEPT ![t] = [pc |-> "queued", hat |-> h]]
    /\ UNCHANGED <<answer, withheld, client, unlocked, usable, rebinds>>

\* Request 84.  The owed entry exists before the task is spawned.  A report
\* for an unusable binding, for a hat already owed, or beyond the bound
\* changes nothing.
ReportHatUnlock(h, t) ==
    /\ ReadRequest
    /\ MapOf[h] \in usable
    /\ h \notin owed
    /\ Cardinality(owed) < MaxPending
    /\ task[t].pc = "idle" /\ answer[t].pc = "none"
    /\ owed' = owed \cup {h}
    /\ task' = [task EXCEPT ![t] = [pc |-> "queued", hat |-> h]]
    /\ UNCHANGED <<answer, withheld, client, unlocked, usable, rebinds>>

StartAnswer(a, m) == [answer EXCEPT ![a] = [pc |-> "check", map |-> m, items |-> Nil]]

\* Request 213 while a validation for the map is owed.
WithholdHatsMine(m) ==
    /\ ReadRequest
    /\ AnyForMap(m)
    /\ withheld' = withheld \cup {m}
    /\ UNCHANGED <<owed, task, answer, client, unlocked, usable, rebinds>>

\* Mutant: the read loop answers although a validation is owed.
SendRegardless(m) ==
    /\ ReadRequest
    /\ answer' = StartAnswer(Reader, m)
    /\ UNCHANGED <<owed, task, withheld, client, unlocked, usable, rebinds>>

\* Request 213 otherwise: the read loop builds the answer itself.
SendHatsMine(m) ==
    /\ ReadRequest
    /\ ~AnyForMap(m)
    /\ answer' = StartAnswer(Reader, m)
    /\ UNCHANGED <<owed, task, withheld, client, unlocked, usable, rebinds>>

-----------------------------------------------------------------------------
(* A validation task.                                                      *)

\* Mutant: the cap counts queued validations too.
AcquireIfFewQueued(t) ==
    /\ task[t].pc = "queued"
    /\ Cardinality(Validating) <= MaxValidations
    /\ task' = [task EXCEPT ![t].pc = "running"]
    /\ UNCHANGED <<owed, answer, withheld, client, unlocked, usable, requests, rebinds>>

AcquirePermit(t) ==
    /\ task[t].pc = "queued"
    /\ Cardinality(Running) < MaxValidations
    /\ task' = [task EXCEPT ![t].pc = "running"]
    /\ UNCHANGED <<owed, answer, withheld, client, unlocked, usable, requests, rebinds>>

\* hats::report_unlock granted the unlock: its transaction re-proves the
\* binding under row locks.
GrantUnlock(t) ==
    /\ task[t].pc = "running"
    /\ MapOf[task[t].hat] \in usable
    /\ unlocked' = unlocked \cup {task[t].hat}
    /\ task' = [task EXCEPT ![t].pc = "judged"]
    /\ UNCHANGED <<owed, answer, withheld, client, usable, requests, rebinds>>

\* Denied, failed, throttled, or panicked in the inner task: all reach the
\* release below.
DenyUnlock(t) ==
    /\ task[t].pc = "running"
    /\ task' = [task EXCEPT ![t].pc = "judged"]
    /\ UNCHANGED <<owed, answer, withheld, client, unlocked, usable, requests, rebinds>>

\* Mutant: the release that drains the connection answers, not the one that
\* drains the map.
ReleaseWhenAllDrained(t) ==
    LET h == task[t].hat
    IN  /\ task[t].pc = "judged"
        /\ owed' = owed \ {h}
        /\ task' = [task EXCEPT ![t] = NoTask]
        /\ answer' = IF owed \ {h} # {} THEN answer ELSE StartAnswer(t, MapOf[h])
        /\ UNCHANGED <<withheld, client, unlocked, usable, requests, rebinds>>

\* Mutant: the answer is built for the hat's key instead of its map.
ReleaseForKey(t) ==
    LET h == task[t].hat
    IN  /\ task[t].pc = "judged"
        /\ owed' = owed \ {h}
        /\ task' = [task EXCEPT ![t] = NoTask]
        /\ answer' = StartAnswer(t, h)
        /\ UNCHANGED <<withheld, client, unlocked, usable, requests, rebinds>>

\* PendingHatUnlock::release; only the task that drains the map answers.
Release(t) ==
    LET h == task[t].hat
        m == MapOf[h]
    IN  /\ task[t].pc = "judged"
        /\ owed' = owed \ {h}
        /\ task' = [task EXCEPT ![t] = NoTask]
        /\ answer' = IF \E g \in owed \ {h} : MapOf[g] = m
                     THEN answer
                     ELSE StartAnswer(t, m)
        /\ UNCHANGED <<withheld, client, unlocked, usable, requests, rebinds>>

-----------------------------------------------------------------------------
(* push_hats_mine: two queries, then one send on the connection's queue.   *)

\* An unbound or unverified map is answered with silence.
CheckBinding(a) ==
    LET m == answer[a].map
    IN  /\ answer[a].pc = "check"
        /\ \/ /\ m \in usable
              /\ answer' = [answer EXCEPT ![a].pc = "items"]
              /\ UNCHANGED withheld
           \/ /\ m \notin usable
              /\ answer' = [answer EXCEPT ![a] = NoReply]
              /\ withheld' = withheld \ {m}
        /\ UNCHANGED <<owed, task, client, unlocked, usable, requests, rebinds>>

\* The item query repeats the binding's predicate: no rows if it fails now.
ReadItems(a) ==
    LET m == answer[a].map
        listed == IF m \in usable THEN HatsOf(m) ELSE {}
    IN  /\ answer[a].pc = "items"
        /\ answer' = [answer EXCEPT ![a].pc = "send",
                                    ![a].items = [listed |-> listed,
                                                  open |-> listed \cap unlocked]]
        /\ UNCHANGED <<owed, task, withheld, client, unlocked, usable, requests, rebinds>>

\* A query fails: the error is logged, and nobody answers this 213 any more.
AnswerFails(a) ==
    /\ answer[a].pc \in {"check", "items"}
    /\ answer' = [answer EXCEPT ![a] = NoReply]
    /\ withheld' = withheld \ {answer[a].map}
    /\ UNCHANGED <<owed, task, client, unlocked, usable, requests, rebinds>>

SendAnswer(a) ==
    LET m == answer[a].map
    IN  /\ answer[a].pc = "send"
        /\ client' = [client EXCEPT ![m] = answer[a].items]
        /\ withheld' = withheld \ {m}
        /\ answer' = [answer EXCEPT ![a] = NoReply]
        /\ UNCHANGED <<owed, task, unlocked, usable, requests, rebinds>>

-----------------------------------------------------------------------------
(* The rest of the server.                                                 *)

ChangeBinding ==
    /\ rebinds < MaxRebinds
    /\ rebinds' = rebinds + 1
    /\ UNCHANGED <<owed, task, answer, withheld, client, unlocked, requests>>

\* A spec upload moves the spec past the map's materialized snapshot.
UploadSpec(m) ==
    /\ ChangeBinding
    /\ m \in usable
    /\ usable' = usable \ {m}

\* A later request 81 or comment bind materializes it again.
Rematerialize(m) ==
    /\ ChangeBinding
    /\ m \notin usable
    /\ usable' = usable \cup {m}

-----------------------------------------------------------------------------

Request ==
    \/ \E h \in Hats, t \in Tasks : ReportHatUnlock(h, t)
    \/ \E m \in Maps : WithholdHatsMine(m) \/ SendHatsMine(m)

Validate(t) == AcquirePermit(t) \/ GrantUnlock(t) \/ DenyUnlock(t) \/ Release(t)

Answer(a) == CheckBinding(a) \/ ReadItems(a) \/ AnswerFails(a) \/ SendAnswer(a)

Environment == \E m \in Maps : UploadSpec(m) \/ Rematerialize(m)

Next ==
    \/ Request
    \/ \E t \in Tasks : Validate(t)
    \/ \E a \in Actors : Answer(a)
    \/ Environment

Spec == Init /\ [][Next]_vars

\* Tokio runs every ready task, the semaphore is first come first served, and
\* each Nadeo call ends (a verdict, an error or its timeout).  The client
\* sends what it likes.
Fairness ==
    /\ \A t \in Tasks : WF_vars(Validate(t))
    /\ \A a \in Actors : WF_vars(Answer(a))

FairSpec == Spec /\ Fairness

-----------------------------------------------------------------------------
(* Properties                                                              *)

\* The owed set is exactly the hats of the unreleased tasks, one task each:
\* no entry leaks when a validation is denied or panics (a leaked entry would
\* withhold the map's 213 for ever) and none is released early.
OwedMatchesTasks ==
    /\ owed = {task[t].hat : t \in Validating}
    /\ \A t, u \in Validating : task[t].hat = task[u].hat => t = u

\* While the read loop answers a 213 itself no validation for that map is
\* owed, so the answer cannot miss an unlock the client has just reported.
InlineAnswerNotOwed ==
    answer[Reader].pc # "none" => ~AnyForMap(answer[Reader].map)

\* What the read loop is about to send is still what the database holds: no
\* unlock was committed between its query and its send.
InlineAnswerIsCurrent ==
    LET r == answer[Reader]
    IN  (r.pc = "send" /\ r.items.listed # {}) =>
            r.items.open = HatsOf(r.map) \cap unlocked

\* A withheld 213 always has somebody left to answer it: a task that still
\* owes the map a verdict, or one already building the answer.
WithheldHasAnswerer ==
    \A m \in withheld :
        \/ AnyForMap(m)
        \/ \E t \in Tasks : answer[t].pc # "none" /\ answer[t].map = m

\* A withheld 213 is eventually answered (with silence if the binding is not
\* usable by then, or if its query fails, which loses it).
WithheldIsAnswered == \A m \in Maps : m \in withheld ~> m \notin withheld

\* An answer that lists the same hats never takes back an unlock that an answer
\* before it has shown: no unlock is ever undone, so only an answer read before
\* the unlock and sent after it does.  "Pushing while a sibling validation is
\* still running would report that sibling's hat as locked, and the client
\* persists that" (src/src/server2.rs, report_hat_unlock).
ShownUnlocksStay ==
    [][ \A m \in Maps :
            (client[m] # Nil /\ client'[m] # Nil /\ client'[m].listed = client[m].listed) =>
                client[m].open \subseteq client'[m].open ]_vars

\* The client is never sent an empty HatsMine for a map that has hats: it is
\* "authoritative: it relocks every hat, clears the local equip and persists
\* that to disk" (src/src/queries/hats.rs, get_hats_mine).
NoEmptyAnswer == \A m \in Maps : client[m] # Nil => client[m].listed = HatsOf(m)
=============================================================================
