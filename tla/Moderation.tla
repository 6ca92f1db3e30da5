---------------------------- MODULE Moderation ----------------------------
(***************************************************************************)
(* The moderation API of src/src/moderation_http.rs over the tables of     *)
(* src/src/queries/moderation.rs, for one map: who is a super-mod, who is  *)
(* a delegate, who is banned and who is marked unofficial, and the web     *)
(* sessions that sign-ins open.                                            *)
(*                                                                         *)
(* warp runs every request as a task of its own and nothing is locked      *)
(* between the statements of a request, so an action here is one statement *)
(* (READ COMMITTED: it sees what has committed).  Only apply_map_ban and   *)
(* lift_map_ban are transactions; what keeps two of them apart is the lock *)
(* on the user's row of map_bans.                                          *)
(*                                                                         *)
(* Left out: what only shapes an answer, bodies that are refused before    *)
(* any statement, the users rows that foreign keys ask for, and the audit  *)
(* log, which is written after the change, whose errors are dropped and    *)
(* which no decision reads.                                                *)
(***************************************************************************)
EXTENDS Naturals, FiniteSets

CONSTANTS
    Users,
    Author,     \* the map's author at Nadeo
    Actors,     \* the users who moderate
    Browsers,   \* those of them who sign in; the others' sessions are older
    Targets,    \* the users they ban and seat
    SuperTargets, \* those they make super-mods and remove
    Requests,   \* the requests being served
    States,     \* the values of oauth_states.state
    Nil

ASSUME ModerationAssumption ==
    /\ Author \in Users /\ Browsers \subseteq Actors
    /\ Actors \cup Targets \cup SuperTargets \subseteq Users
    /\ IsFiniteSet(Users)
    /\ Nil \notin Users \cup States

VARIABLES
    superMods,   \* super_mods
    delegates,   \* map_delegates
    banned,      \* map_bans: the users with an active ban
    unofficial,  \* map_unofficial
    meta,        \* map_meta: whether the map's row is there
    session,     \* web_sessions: whether an actor's cookie names a live one
    saved,       \* oauth_states
    cookie,      \* dd2_oauth_state of each actor's browser
    request,
    entitled,    \* whether the actor had the request's right at some moment of it
    raced,       \* whether another super-mod was removed since the count
    crossed      \* targets that a ban and a new seat have met over

tables == <<superMods, delegates, banned, unofficial, meta>>
signIns == <<session, saved, cookie>>
ghosts == <<entitled, raced, crossed>>
vars == <<tables, signIns, ghosts, request>>

SuperKinds == {"add_super_mod", "remove_super_mod"}
DelegateKinds == {"add_delegate", "remove_delegate"}
MapKinds == {"create_ban", "lift_ban"} \cup DelegateKinds

\* meta, super, author, delegate: the queries that decide on a user's standing;
\* `about` says whose: the actor's, again the actor's as one who grants seats,
\* or the target's, which protects from bans.
Asking == {"super", "author", "delegate"}

RequestRecords ==
    [pc : {"idle", "meta", "conflict", "count", "write", "ban", "mark", "lift",
           "clear", "take", "exchange", "session"} \cup Asking,
     kind : SuperKinds \cup MapKinds \cup {"callback"},
     actor : Actors \cup {Nil}, target : Targets \cup SuperTargets \cup {Nil},
     about : {"actor", "granter", "target"}, keep : BOOLEAN, state : States \cup {Nil}]

Idle == [pc |-> "idle", kind |-> "callback", actor |-> Nil, target |-> Nil,
         about |-> "actor", keep |-> FALSE, state |-> Nil]

Init ==
    /\ superMods \in SUBSET Users \ {{}}
    /\ delegates = {} /\ banned = {} /\ unofficial = {}
    /\ meta = FALSE
    /\ session = [a \in Actors |-> a \notin Browsers]
    /\ saved = {}
    /\ cookie = [b \in Browsers |-> Nil]
    /\ request = [r \in Requests |-> Idle]
    /\ entitled = [r \in Requests |-> FALSE]
    /\ raced = [r \in Requests |-> FALSE]
    /\ crossed = {}

-----------------------------------------------------------------------------
Goto(r, pc) == request' = [request EXCEPT ![r].pc = pc]

GotoAbout(r, about, pc) ==
    request' = [request EXCEPT ![r].about = about, ![r].pc = pc]

\* The request is answered, whatever the answer.
Answer(r) == request' = [request EXCEPT ![r] = Idle]

\* A handler starts once its cookie has named a session.
Begin(r, kind, a, u, keep) ==
    /\ session[a]
    /\ u \in IF kind \in SuperKinds THEN SuperTargets ELSE Targets
    /\ keep => kind = "lift_ban"
    /\ request' = [request EXCEPT ![r] =
           [Idle EXCEPT !.pc = IF kind \in SuperKinds THEN "super" ELSE "meta",
                        !.kind = kind, !.actor = a, !.target = u, !.keep = keep]]
    /\ UNCHANGED <<tables, signIns>>

\* ensure_map_meta: a missing row is fetched from Nadeo; if that fails,
\* require_moderator goes on without.
EnsureMeta(r) ==
    /\ request[r].pc = "meta"
    /\ meta' \in {meta, TRUE}
    /\ Goto(r, "super")
    /\ UNCHANGED <<superMods, delegates, banned, unofficial, signIns>>

\* Mutant: a seat on the map is enough to give seats.
MayGoOnIfModerator(r) ==
    LET kind == request[r].kind IN
    \/ request[r].about = "actor" /\ kind = "create_ban" /\ GotoAbout(r, "target", "super")
    \/ request[r].about = "actor" /\ kind = "lift_ban" /\ Goto(r, "lift")
    \/ request[r].about = "actor" /\ kind = "remove_super_mod" /\ Goto(r, "count")
    \/ request[r].about = "actor" /\ kind = "add_delegate" /\ Goto(r, "conflict")
    \/ kind \in {"add_super_mod", "remove_delegate"} /\ Goto(r, "write")
    \/ request[r].about = "target" /\ Answer(r)

\* Mutant: a delegate is seated without a look at the map's bans.
MayGoOnUnchecked(r) ==
    LET kind == request[r].kind IN
    \/ request[r].about = "actor" /\ kind = "create_ban" /\ GotoAbout(r, "target", "super")
    \/ request[r].about = "actor" /\ kind = "lift_ban" /\ Goto(r, "lift")
    \/ request[r].about = "actor" /\ kind = "add_super_mod" /\ Goto(r, "write")
    \/ request[r].about = "actor" /\ kind = "remove_super_mod" /\ Goto(r, "count")
    \/ request[r].about = "actor" /\ kind \in DelegateKinds /\ GotoAbout(r, "granter", "super")
    \/ request[r].about = "granter" /\ Goto(r, "write")
    \/ request[r].about = "target" /\ Answer(r)

\* What follows when a standing was found: the actor may go on, a protected
\* target may not be banned.
MayGoOn(r) ==
    LET kind == request[r].kind IN
    \/ request[r].about = "actor" /\ kind = "create_ban" /\ GotoAbout(r, "target", "super")
    \/ request[r].about = "actor" /\ kind = "lift_ban" /\ Goto(r, "lift")
    \/ request[r].about = "actor" /\ kind = "add_super_mod" /\ Goto(r, "write")
    \/ request[r].about = "actor" /\ kind = "remove_super_mod" /\ Goto(r, "count")
    \/ request[r].about = "actor" /\ kind \in DelegateKinds /\ GotoAbout(r, "granter", "super")
    \/ request[r].about = "granter" /\ kind = "add_delegate" /\ Goto(r, "conflict")
    \/ request[r].about = "granter" /\ kind = "remove_delegate" /\ Goto(r, "write")
    \/ request[r].about = "target" /\ Answer(r)

\* Mutant: whoever has no standing is one who may be banned.
MayBeBanned(r) == Goto(r, "ban")

\* What follows when none was found.
NotFound(r) == IF request[r].about = "target" THEN Goto(r, "ban") ELSE Answer(r)

\* Whose standing is asked.
Asked(r) ==
    IF request[r].about = "target" THEN request[r].target ELSE request[r].actor

\* is_super_mod; the super-mod pages ask nothing else.
AskSuper(r) ==
    /\ request[r].pc = "super"
    /\ IF Asked(r) \in superMods
       THEN MayGoOn(r)
       ELSE IF request[r].kind \in SuperKinds THEN NotFound(r) ELSE Goto(r, "author")
    /\ UNCHANGED <<tables, signIns>>

\* is_map_author; only author and super-mods give and take seats.
AskAuthor(r) ==
    /\ request[r].pc = "author"
    /\ IF meta /\ Asked(r) = Author
       THEN MayGoOn(r)
       ELSE IF request[r].about = "granter" THEN NotFound(r) ELSE Goto(r, "delegate")
    /\ UNCHANGED <<tables, signIns>>

\* is_map_delegate
AskDelegate(r) ==
    /\ request[r].pc = "delegate"
    /\ IF Asked(r) \in delegates THEN MayGoOn(r) ELSE NotFound(r)
    /\ UNCHANGED <<tables, signIns>>

\* handle_add_delegate's get_active_ban
AskConflict(r) ==
    /\ request[r].pc = "conflict"
    /\ IF request[r].target \in banned THEN Answer(r) ELSE Goto(r, "write")
    /\ UNCHANGED <<tables, signIns>>

\* Mutant: the last super-mod may go.
Enough == Cardinality(superMods) >= 1

MoreThanOne == Cardinality(superMods) > 1

\* count_super_mods
AskCount(r) ==
    /\ request[r].pc = "count"
    /\ IF MoreThanOne THEN Goto(r, "write") ELSE Answer(r)
    /\ UNCHANGED <<tables, signIns>>

\* The statement that a request of the kind ends with.
Writes(r, kind) ==
    /\ request[r].pc = "write" /\ request[r].kind = kind
    /\ Answer(r)
    /\ UNCHANGED <<banned, unofficial, meta, signIns>>

\* A seat or a super-mod that is there already is kept.
AddDelegate(r) ==
    /\ Writes(r, "add_delegate")
    /\ delegates' = delegates \cup {request[r].target}
    /\ UNCHANGED superMods

RemoveDelegate(r) ==
    /\ Writes(r, "remove_delegate")
    /\ delegates' = delegates \ {request[r].target}
    /\ UNCHANGED superMods

AddSuperMod(r) ==
    /\ Writes(r, "add_super_mod")
    /\ superMods' = superMods \cup {request[r].target}
    /\ UNCHANGED delegates

RemoveSuperMod(r) ==
    /\ Writes(r, "remove_super_mod")
    /\ superMods' = superMods \ {request[r].target}
    /\ UNCHANGED delegates

-----------------------------------------------------------------------------
(* The two transactions.                                                   *)

\* Whether a transaction holds the user's row of map_bans.
Locked(u) == \E r \in Requests : request[r].pc \in {"mark", "clear"} /\ request[r].target = u

\* Mutant: the upserts share no transaction.
BanRowAtOnce(r) ==
    /\ request[r].pc = "ban"
    /\ banned' = banned \cup {request[r].target}
    /\ Goto(r, "mark")
    /\ UNCHANGED <<superMods, delegates, unofficial, meta, signIns>>

\* apply_map_ban: the upsert of map_bans takes the row and is not seen yet.
BanRow(r) ==
    /\ request[r].pc = "ban"
    /\ ~Locked(request[r].target)
    /\ Goto(r, "mark")
    /\ UNCHANGED <<tables, signIns>>

\* Its second upsert, and the commit.
MarkAndCommit(r) ==
    /\ request[r].pc = "mark"
    /\ banned' = banned \cup {request[r].target}
    /\ unofficial' = unofficial \cup {request[r].target}
    /\ Answer(r)
    /\ UNCHANGED <<superMods, delegates, meta, signIns>>

\* lift_map_ban: the update waits for the row if there is an active ban, and
\* without one changes nothing.
LiftRow(r) ==
    LET u == request[r].target IN
    /\ request[r].pc = "lift"
    /\ \/ u \notin banned /\ Answer(r)
       \/ u \in banned /\ ~Locked(u) /\ Goto(r, "clear")
    /\ UNCHANGED <<tables, signIns>>

\* The mark goes with the ban unless it is to be kept; the commit.
ClearAndCommit(r) ==
    LET u == request[r].target IN
    /\ request[r].pc = "clear"
    /\ banned' = banned \ {u}
    /\ unofficial' = IF request[r].keep THEN unofficial ELSE unofficial \ {u}
    /\ Answer(r)
    /\ UNCHANGED <<superMods, delegates, meta, signIns>>

\* A ban with an expires_at runs out; the mark stays.
Expire(u) ==
    /\ u \in banned
    /\ banned' = banned \ {u}
    /\ UNCHANGED <<superMods, delegates, unofficial, meta, request, signIns>>

\* A statement fails or the server dies: an open transaction is rolled back.
DatabaseFails(r) ==
    /\ request[r].pc # "idle"
    /\ Answer(r)
    /\ UNCHANGED <<tables, signIns>>

-----------------------------------------------------------------------------
(* Signing in with Trackmania, whose OAuth service is external.            *)

Unused(s) ==
    /\ s \notin saved
    /\ \A b \in Browsers : cookie[b] # s
    /\ \A r \in Requests : request[r].state # s

\* handle_oauth_start: a new state is saved and put into the browser's cookie.
StartSignIn(b, s) ==
    /\ Unused(s)
    /\ saved' = saved \cup {s}
    /\ cookie' = [cookie EXCEPT ![b] = s]
    /\ UNCHANGED <<tables, request, session>>

\* handle_oauth_callback: the state of the link is that of the browser's cookie.
Callback(r, b) ==
    /\ cookie[b] # Nil
    /\ request' = [request EXCEPT ![r] =
           [Idle EXCEPT !.pc = "take", !.actor = b, !.state = cookie[b]]]
    /\ UNCHANGED <<tables, signIns>>

\* Mutant: the state is looked up and left.
LookUpState(r) ==
    /\ request[r].pc = "take"
    /\ IF request[r].state \in saved THEN Goto(r, "exchange") ELSE Answer(r)
    /\ UNCHANGED <<tables, signIns>>

\* take_oauth_state: one statement looks it up and deletes it.
TakeState(r) ==
    LET s == request[r].state IN
    /\ request[r].pc = "take"
    /\ IF s \in saved THEN Goto(r, "exchange") ELSE Answer(r)
    /\ saved' = saved \ {s}
    /\ UNCHANGED <<tables, session, cookie>>

\* exchange_code, fetch_user and ensure_user succeed.
Exchanged(r) ==
    /\ request[r].pc = "exchange"
    /\ Goto(r, "session")
    /\ UNCHANGED <<tables, signIns>>

\* create_web_session; the answer sets one cookie and clears the other.
OpenSession(r) ==
    LET b == request[r].actor IN
    /\ request[r].pc = "session"
    /\ session' = [session EXCEPT ![b] = TRUE]
    /\ cookie' = [cookie EXCEPT ![b] = Nil]
    /\ Answer(r)
    /\ UNCHANGED <<tables, saved>>

\* handle_logout, or the session's fortnight is over; requests go on.
EndSession(a) ==
    /\ session[a]
    /\ session' = [session EXCEPT ![a] = FALSE]
    /\ UNCHANGED <<tables, request, saved, cookie>>

\* The ten minutes of a state and of its cookie are over.
ExpireState(s) ==
    /\ s \in saved \/ \E b \in Browsers : cookie[b] = s
    /\ saved' = saved \ {s}
    /\ cookie' = [b \in Browsers |-> IF cookie[b] = s THEN Nil ELSE cookie[b]]
    /\ UNCHANGED <<tables, request, session>>

-----------------------------------------------------------------------------
(* The ghosts follow every step.                                           *)

\* Whether the request's actor has the right it needs: super-mods have every
\* right, only the known author also gives and takes seats, and a delegate
\* bans like the author.
Rightful(r) ==
    LET a == request[r].actor IN
    \/ a \in superMods
    \/ request[r].kind \in MapKinds /\ meta /\ a = Author
    \/ request[r].kind \in MapKinds \ DelegateKinds /\ a \in delegates

\* A ban of the user and a new seat for them are both on their way.
Meet(u) ==
    \E q, r \in Requests :
        /\ request[q].kind = "create_ban" /\ request[q].target = u
        /\ request[r].kind = "add_delegate" /\ request[r].target = u

\* One of them is, or both have happened.
Open(u) ==
    \/ u \in banned \cap delegates
    \/ \E r \in Requests :
           request[r].kind \in {"create_ban", "add_delegate"} /\ request[r].target = u

Watch ==
    /\ entitled' = [r \in Requests |->
           request'[r].target # Nil /\ (entitled[r] \/ Rightful(r)')]
    /\ raced' = [r \in Requests |->
           /\ request'[r].pc = "write" /\ request'[r].kind = "remove_super_mod"
           /\ raced[r] \/ ~(superMods \subseteq superMods')]
    /\ crossed' = {u \in Users : Meet(u)'} \cup {u \in crossed : Open(u)'}

Step(r) ==
    \/ EnsureMeta(r) \/ AskSuper(r) \/ AskAuthor(r) \/ AskDelegate(r)
    \/ AskConflict(r) \/ AskCount(r)
    \/ AddDelegate(r) \/ RemoveDelegate(r) \/ AddSuperMod(r) \/ RemoveSuperMod(r)
    \/ BanRow(r) \/ MarkAndCommit(r) \/ LiftRow(r) \/ ClearAndCommit(r)
    \/ TakeState(r) \/ Exchanged(r) \/ OpenSession(r)
    \/ DatabaseFails(r)

\* A request comes in and gets a task of its own.
Arrives(r) ==
    /\ request[r].pc = "idle"
    /\ \/ \E kind \in SuperKinds \cup MapKinds, a \in Actors,
              u \in Targets \cup SuperTargets, keep \in BOOLEAN : Begin(r, kind, a, u, keep)
       \/ \E b \in Browsers : Callback(r, b)

Event ==
    \/ \E r \in Requests : Step(r)
    \/ \E r \in Requests : Arrives(r)
    \/ \E u \in Users : Expire(u)
    \/ \E a \in Actors : EndSession(a)
    \/ \E b \in Browsers, s \in States : StartSignIn(b, s)
    \/ \E s \in States : ExpireState(s)

Next == Event /\ Watch

Spec == Init /\ [][Next]_vars

-----------------------------------------------------------------------------
(* Properties                                                              *)

\* A request is at the statements of its own handler, for a user of its own.
Shape(q) ==
    /\ q.pc = "idle" => q = Idle
    /\ q.pc \in {"ban", "mark"} => q.kind = "create_ban"
    /\ q.pc \in {"lift", "clear"} => q.kind = "lift_ban"
    /\ q.pc = "count" => q.kind = "remove_super_mod"
    /\ q.pc = "conflict" => q.kind = "add_delegate"
    /\ q.pc = "write" => q.kind \in SuperKinds \cup DelegateKinds
    /\ q.kind = "callback" <=> q.pc \in {"idle", "take", "exchange", "session"}
    /\ q.about = "target" => q.kind = "create_ban"
    /\ q.about = "granter" => q.kind \in DelegateKinds
    /\ q.kind = "callback" <=> q.target = Nil
    /\ q.kind \in MapKinds => q.target \in Targets
    /\ q.kind \in SuperKinds => q.target \in SuperTargets
    /\ q.pc # "idle" => q.actor \in Actors
    /\ q.pc \in {"take", "exchange", "session"} => q.actor \in Browsers /\ q.state \in States

TypeOK ==
    /\ superMods \subseteq Users /\ delegates \subseteq Users
    /\ banned \subseteq Users /\ unofficial \subseteq Users
    /\ meta \in BOOLEAN
    /\ session \in [Actors -> BOOLEAN]
    /\ saved \subseteq States
    /\ cookie \in [Browsers -> States \cup {Nil}]
    /\ request \in [Requests -> RequestRecords]
    /\ \A r \in Requests : Shape(request[r])
    /\ entitled \in [Requests -> BOOLEAN]
    /\ raced \in [Requests -> BOOLEAN]
    /\ crossed \subseteq Users

\* A banned player is marked unofficial, whatever bans and lifts of the same
\* player run at once (apply_map_ban, lift_map_ban: the row lock keeps one
\* transaction's mark from falling to the other's delete).
BannedIsUnofficial == banned \subseteq unofficial

\* A delegate of the map is banned from it only if the ban and the new seat
\* were requested at the same time: each handler looks at the other's table,
\* and only a pair of requests can miss each other.
NoBannedDelegate == banned \cap delegates \subseteq crossed

\* A sign-in that was started once opens at most one session, however often
\* its callback is requested: of the requests that carry a state, one gets past
\* take_oauth_state, and the state is gone then.
OneSessionPerState ==
    \A q, r \in Requests :
        (/\ request[q].pc \in {"exchange", "session"}
         /\ request[r].pc \in {"exchange", "session"}
         /\ request[q].state = request[r].state) =>
            q = r /\ request[r].state \notin saved

\* Whoever enters or leaves a table is the target of a request of that kind,
\* which ends here and whose actor had the right to it at some moment of it: as a
\* super-mod or the known author for seats, as a moderator of the map for bans
\* and marks, as a super-mod for super-mods.  A ban may also run out, which no
\* request does; a second ban of somebody marked, and a lift that keeps the mark,
\* change the bans alone (require_super_mod, require_moderator, handle_add_delegate).
Authorised ==
    [][ LET By(kind, u) == \E r \in Requests :
                /\ request[r].kind = kind /\ request[r].target = u
                /\ entitled[r] /\ request'[r].pc = "idle"
        IN  \A u \in Users :
                /\ u \in superMods' \ superMods => By("add_super_mod", u)
                /\ u \in superMods \ superMods' => By("remove_super_mod", u)
                /\ u \in delegates' \ delegates => By("add_delegate", u)
                /\ u \in delegates \ delegates' => By("remove_delegate", u)
                /\ u \in banned' \ banned => By("create_ban", u)
                /\ u \in banned \ banned' => By("lift_ban", u) \/ request' = request
                /\ u \in unofficial' \ unofficial => By("create_ban", u)
                /\ u \in unofficial \ unofficial' => By("lift_ban", u) ]_vars

\* Only a removal that another removal has overtaken between its count and its
\* delete leaves no super-mod (handle_remove_super_mod).
OnlyRacesLeaveNone ==
    [][ (superMods # {} /\ superMods' = {}) =>
            \E r \in Requests : raced[r] /\ request'[r].pc = "idle" ]_vars
=============================================================================
