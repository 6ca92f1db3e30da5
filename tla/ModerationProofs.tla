-------------------------- MODULE ModerationProofs --------------------------
(***************************************************************************)
(* Proofs about Moderation, for any users, requests and sign-in states.    *)
(*                                                                         *)
(* Each property is carried by what a request must have passed to stand    *)
(* where it does: a ban that goes on has not found its target seated and a *)
(* new seat has not found its target banned, unless the two have met       *)
(* (CrossInv); a request that will write was entitled (RightInv); a        *)
(* removal that counted two super-mods still sees two, unless another      *)
(* removal came between (CountInv); a state that was taken is gone and was *)
(* taken once (OneSessionPerState).                                        *)
(*                                                                         *)
(* At the end: a request's statements run out, and no transaction waits    *)
(* for another's row in a circle.                                          *)
(***************************************************************************)
EXTENDS Moderation, FiniteSetTheorems, TLAPS

Kinds == SuperKinds \cup MapKinds \cup {"callback"}

Pcs == {"idle", "meta", "conflict", "count", "write", "ban", "mark", "lift",
        "clear", "take", "exchange", "session"} \cup Asking

\* One request is elsewhere, for the same purpose.
SameRequest(s, q) ==
    /\ s.kind = q.kind /\ s.actor = q.actor /\ s.target = q.target
    /\ s.keep = q.keep /\ s.state = q.state

\* Where the standing of whom is asked.
Placed(q) ==
    /\ q.pc = "author" => q.kind \notin SuperKinds
    /\ q.pc = "delegate" => q.kind \notin SuperKinds /\ q.about # "granter"
    /\ q.pc \in {"ban", "mark"} => q.about = "target"

TypeInv == TypeOK /\ \A r \in Requests : Placed(request[r])

\* The request has passed the checks of its actor.
Cleared(q) ==
    \/ q.kind \in SuperKinds /\ q.pc \in {"count", "write"}
    \/ q.kind \in DelegateKinds /\ q.pc \in {"conflict", "write"}
    \/ q.kind = "create_ban" /\ q.about = "target"
    \/ q.kind = "lift_ban" /\ q.pc \in {"lift", "clear"}

\* A step of one request leaves the others where they are.
Moves(r) ==
    /\ request' \in [Requests -> RequestRecords]
    /\ \A q \in Requests \ {r} : request'[q] = request[q]
    /\ \/ request'[r] = Idle
       \/ /\ request'[r].pc # "idle" /\ request[r].pc # "idle"
          /\ SameRequest(request'[r], request[r])
          /\ Shape(request'[r]) /\ Placed(request'[r])

\* Who enters or leaves a table is the target of the request q.
OwnRows(q) ==
    \A u \in Users :
        /\ u \in superMods' \ superMods => u = q.target /\ q.kind = "add_super_mod"
        /\ u \in superMods \ superMods' => u = q.target /\ q.kind = "remove_super_mod"
        /\ u \in delegates' \ delegates => u = q.target /\ q.kind = "add_delegate"
        /\ u \in delegates \ delegates' => u = q.target /\ q.kind = "remove_delegate"
        /\ u \in banned' \ banned => u = q.target /\ q.pc = "mark"
        /\ u \in banned \ banned' => u = q.target /\ q.pc = "clear"
        /\ u \in unofficial' \ unofficial => u = q.target /\ q.pc = "mark"
        /\ u \in unofficial \ unofficial' => u = q.target /\ q.pc = "clear"

\* What a step does to the tables, for the request q that does it.
TablesStep(q) ==
    /\ OwnRows(q)
    /\ superMods' \subseteq Users /\ delegates' \subseteq Users
    /\ banned' \subseteq Users /\ unofficial' \subseteq Users
    /\ meta' \in BOOLEAN /\ saved' \subseteq saved
    /\ session' \in [Actors -> BOOLEAN] /\ cookie' \in [Browsers -> States \cup {Nil}]
    /\ banned' \subseteq banned \cup (IF q.pc = "mark" THEN {q.target} ELSE {})
    /\ delegates' \subseteq delegates
           \cup (IF q.pc = "write" /\ q.kind = "add_delegate" THEN {q.target} ELSE {})
    /\ superMods' # superMods => q.kind \in SuperKinds /\ q.pc = "write"
    /\ delegates' # delegates => q.kind \in DelegateKinds /\ q.pc = "write"
    /\ unofficial' # unofficial => q.pc \in {"mark", "clear"}
    /\ ~(superMods \subseteq superMods') =>
           q.kind = "remove_super_mod" /\ superMods' = superMods \ {q.target}
    /\ banned \subseteq unofficial => banned' \subseteq unofficial'

\* What a request q has found when it gets to where s stands.
Found(q, s) ==
    /\ s.pc = "ban" => q.target \notin delegates /\ delegates' = delegates
    /\ s.pc = "mark" => q.pc = "ban" /\ delegates' = delegates
    /\ (s.pc = "write" /\ s.kind = "add_delegate") =>
           q.target \notin banned /\ banned' = banned
    /\ (s.pc = "write" /\ s.kind = "remove_super_mod") =>
           Cardinality(superMods) > 1 /\ superMods' = superMods
    /\ s.pc = "exchange" => q.pc = "take" /\ q.state \in saved /\ q.state \notin saved'
    /\ s.pc = "session" => q.pc = "exchange"

\* A step that the request r itself takes.
Effect(r) ==
    /\ Moves(r) /\ request[r].pc # "idle"
    /\ TablesStep(request[r])
    /\ Found(request[r], request'[r])
    /\ Cleared(request'[r]) => Cleared(request[r]) \/ Rightful(r)'

-----------------------------------------------------------------------------
(* Requests.                                                               *)

\* The fields of a request that is not there.
LEMMA IdleFields ==
  /\ Idle \in RequestRecords /\ Shape(Idle)
  /\ Idle.pc = "idle" /\ Idle.kind = "callback" /\ Idle.actor = Nil /\ Idle.target = Nil
  /\ Idle.about = "actor" /\ Idle.keep = FALSE /\ Idle.state = Nil
  <1>1. Idle \in RequestRecords
    <2>1. /\ "idle" \in {"idle", "meta", "conflict", "count", "write", "ban", "mark", "lift",
                         "clear", "take", "exchange", "session"} \cup Asking
          /\ "callback" \in SuperKinds \cup MapKinds \cup {"callback"}
          /\ Nil \in Actors \cup {Nil} /\ Nil \in Targets \cup SuperTargets \cup {Nil}
          /\ Nil \in States \cup {Nil} /\ FALSE \in BOOLEAN
          /\ "actor" \in {"actor", "granter", "target"}
      OBVIOUS
    <2>2. QED
      BY <2>1, ZenonT(40) DEF Idle, RequestRecords
  <1>2. /\ Idle.pc = "idle" /\ Idle.kind = "callback" /\ Idle.actor = Nil /\ Idle.target = Nil
        /\ Idle.about = "actor" /\ Idle.keep = FALSE /\ Idle.state = Nil
    BY DEF Idle
  <1>3. Shape(Idle)
    BY <1>2 DEF Shape, MapKinds, SuperKinds, DelegateKinds
  <1>4. QED
    BY <1>1, <1>2, <1>3

\* An answered request is gone.
LEMMA AnswerMoves ==
  ASSUME TypeOK, NEW r \in Requests, Answer(r)
  PROVE  Moves(r) /\ request'[r] = Idle
  BY IdleFields DEF TypeOK, Answer, Moves

\* Goto changes where a request stands.
LEMMA GotoFields ==
  ASSUME TypeOK, NEW r \in Requests, NEW pc \in Pcs, Goto(r, pc)
  PROVE  /\ request' \in [Requests -> RequestRecords]
         /\ \A q \in Requests \ {r} : request'[q] = request[q]
         /\ request'[r].pc = pc /\ request'[r].about = request[r].about
         /\ SameRequest(request'[r], request[r])
  <1> DEFINE s == [request[r] EXCEPT !.pc = pc]
  <1>1. request[r] \in RequestRecords /\ request \in [Requests -> RequestRecords]
    BY DEF TypeOK
  <1>2. s \in RequestRecords /\ s.pc = pc /\ s.about = request[r].about /\ SameRequest(s, request[r])
    BY <1>1 DEF RequestRecords, SameRequest, Pcs
  <1>3. request' = [request EXCEPT ![r] = s]
    BY DEF Goto
  <1> HIDE DEF s
  <1>4. QED
    BY <1>1, <1>2, <1>3

\* GotoAbout changes whose standing is asked, too.
LEMMA GotoAboutFields ==
  ASSUME TypeOK, NEW r \in Requests, NEW pc \in Pcs,
         NEW about \in {"actor", "granter", "target"}, GotoAbout(r, about, pc)
  PROVE  /\ request' \in [Requests -> RequestRecords]
         /\ \A q \in Requests \ {r} : request'[q] = request[q]
         /\ request'[r].pc = pc /\ request'[r].about = about
         /\ SameRequest(request'[r], request[r])
  <1> DEFINE s == [request[r] EXCEPT !.about = about, !.pc = pc]
  <1>1. request[r] \in RequestRecords /\ request \in [Requests -> RequestRecords]
    BY DEF TypeOK
  <1>2. s \in RequestRecords
    BY <1>1, ZenonT(40) DEF RequestRecords, Pcs
  <1>3. s.pc = pc /\ s.about = about /\ SameRequest(s, request[r])
    BY <1>1 DEF RequestRecords, SameRequest
  <1>4. request' = [request EXCEPT ![r] = s]
    BY DEF GotoAbout
  <1> HIDE DEF s
  <1>5. QED
    BY <1>1, <1>2, <1>3, <1>4

\* The tables stay as they are.
LEMMA QuietTables ==
  ASSUME TypeOK, UNCHANGED <<superMods, delegates, banned, unofficial>>,
         meta' \in BOOLEAN, UNCHANGED signIns, NEW q
  PROVE  TablesStep(q)
  BY DEF TypeOK, signIns, TablesStep, OwnRows

\* A request is answered.
LEMMA AnswerHas ==
  ASSUME TypeInv, NEW r \in Requests, request[r].pc # "idle", Answer(r), TablesStep(request[r])
  PROVE  Effect(r)
  <1>1. Moves(r) /\ request'[r] = Idle
    BY AnswerMoves DEF TypeInv
  <1>2. Found(request[r], Idle) /\ ~Cleared(Idle)
    BY IdleFields DEF Found, Cleared, SuperKinds, DelegateKinds
  <1>3. QED
    BY <1>1, <1>2 DEF Effect

\* What follows when a standing was found.
LEMMA GoOnHas ==
  ASSUME TypeInv, NEW r \in Requests, request[r].pc \in Asking, MayGoOn(r),
         TablesStep(request[r]),
         \/ request[r].about = "target"
         \/ /\ request[r].kind \in SuperKinds \cup MapKinds
            /\ (request[r].kind \in SuperKinds => request[r].actor \in superMods')
            /\ \/ request[r].actor \in superMods'
               \/ meta' /\ request[r].actor = Author
               \/ request[r].actor \in delegates' /\ request[r].pc = "delegate"
  PROVE  Effect(r)
  <1> DEFINE q == request[r]
             s == request'[r]
  <1>1. /\ q \in RequestRecords /\ Shape(q) /\ Placed(q) /\ q.pc # "idle"
    BY DEF TypeInv, TypeOK, Asking
  <1>2. CASE q.about = "target"
    <2>1. q.kind = "create_ban"
      BY <1>1, <1>2 DEF Shape
    <2>2. Answer(r)
      BY <1>2, <2>1 DEF MayGoOn, DelegateKinds
    <2>3. QED
      BY <1>1, <2>2, AnswerHas
  <1>3. CASE q.about # "target"
    <2>1. /\ q.kind \in SuperKinds \cup MapKinds
          /\ (q.kind \in SuperKinds => q.actor \in superMods')
          /\ \/ q.actor \in superMods'
             \/ meta' /\ q.actor = Author
             \/ q.actor \in delegates' /\ q.pc = "delegate"
      BY <1>3
    <2>2. ASSUME s.kind = q.kind, s.actor = q.actor, q.about = "granter" \/ q.kind \notin DelegateKinds
          PROVE  Rightful(r)'
      BY <1>1, <2>1, <2>2 DEF Rightful, Placed, MapKinds, SuperKinds, DelegateKinds
    <2>3. ASSUME NEW pc \in {"lift", "count", "conflict", "write"}, Goto(r, pc),
                 pc = "lift" => q.kind = "lift_ban",
                 pc = "count" => q.kind = "remove_super_mod",
                 pc = "conflict" => q.kind = "add_delegate",
                 pc = "write" => q.kind \in {"add_super_mod", "remove_delegate"},
                 q.about = "granter" \/ q.kind \notin DelegateKinds
          PROVE  Effect(r)
      <3>1. /\ request' \in [Requests -> RequestRecords]
            /\ \A b \in Requests \ {r} : request'[b] = request[b]
            /\ s.pc = pc /\ s.about = q.about /\ SameRequest(s, q)
        BY <2>3, GotoFields DEF TypeInv, Pcs
      <3>2. Shape(s) /\ Placed(s)
        BY <1>1, <2>3, <3>1 DEF Shape, Placed, SameRequest, SuperKinds, MapKinds, DelegateKinds, Asking
      <3>3. Found(q, s)
        BY <2>3, <3>1 DEF Found, SameRequest
      <3>4. Rightful(r)'
        BY <2>2, <2>3, <3>1 DEF SameRequest
      <3>5. QED
        BY <1>1, <2>3, <3>1, <3>2, <3>3, <3>4 DEF Effect, Moves
    <2>4. ASSUME NEW about \in {"granter", "target"}, GotoAbout(r, about, "super"),
                 q.about = "actor",
                 about = "granter" => q.kind \in DelegateKinds,
                 about = "target" => q.kind = "create_ban"
          PROVE  Effect(r)
      <3>1. /\ request' \in [Requests -> RequestRecords]
            /\ \A b \in Requests \ {r} : request'[b] = request[b]
            /\ s.pc = "super" /\ s.about = about /\ SameRequest(s, q)
        BY <2>4, GotoAboutFields DEF TypeInv, Pcs, Asking
      <3>2. Shape(s) /\ Placed(s)
        BY <1>1, <2>4, <3>1 DEF Shape, Placed, SameRequest, SuperKinds, MapKinds, DelegateKinds, Asking
      <3>3. Found(q, s)
        BY <3>1 DEF Found
      <3>4. Cleared(s) => Rightful(r)'
        BY <2>2, <2>4, <3>1 DEF Cleared, SameRequest, DelegateKinds
      <3>5. QED
        BY <1>1, <3>1, <3>2, <3>3, <3>4 DEF Effect, Moves
    <2>5. QED
      BY <1>3, <2>3, <2>4 DEF MayGoOn, DelegateKinds, SuperKinds
  <1>4. QED
    BY <1>2, <1>3

\* A request goes from one statement to the next without having passed a check.
LEMMA GotoHas ==
  ASSUME TypeInv, NEW r \in Requests, NEW pc \in Pcs \ {"idle"}, Goto(r, pc),
         request[r].pc # "idle", TablesStep(request[r]),
         Shape([request[r] EXCEPT !.pc = pc]), Placed([request[r] EXCEPT !.pc = pc]),
         Found(request[r], [request[r] EXCEPT !.pc = pc]),
         Cleared([request[r] EXCEPT !.pc = pc]) => Cleared(request[r])
  PROVE  Effect(r)
  <1>1. /\ request' \in [Requests -> RequestRecords]
        /\ \A b \in Requests \ {r} : request'[b] = request[b]
        /\ request'[r].pc = pc /\ SameRequest(request'[r], request[r])
    BY GotoFields DEF TypeInv
  <1>2. request'[r] = [request[r] EXCEPT !.pc = pc]
    BY DEF Goto, TypeInv, TypeOK
  <1>3. QED
    BY <1>1, <1>2 DEF Effect, Moves

\* What follows when no standing was found.
LEMMA NotFoundHas ==
  ASSUME TypeInv, NEW r \in Requests, request[r].pc # "idle", NotFound(r), TablesStep(request[r]),
         request[r].about = "target" => request[r].target \notin delegates /\ delegates' = delegates
  PROVE  Effect(r)
  <1> DEFINE q == request[r]
             s == [q EXCEPT !.pc = "ban"]
  <1>1. CASE q.about = "target"
    <2>1. q \in RequestRecords /\ Shape(q) /\ Placed(q)
      BY DEF TypeInv, TypeOK
    <2>2. s.pc = "ban" /\ s.about = q.about /\ SameRequest(s, q)
      BY <2>1 DEF RequestRecords, SameRequest
    <2>3. q.kind = "create_ban"
      BY <1>1, <2>1 DEF Shape
    <2> HIDE DEF s
    <2>4. Shape(s) /\ Placed(s) /\ Found(q, s)
      BY <1>1, <2>1, <2>2, <2>3 DEF Shape, Placed, Found, SameRequest
    <2>5. Cleared(s) => Cleared(q)
      BY <1>1, <2>3 DEF Cleared
    <2>6. Goto(r, "ban") /\ "ban" \in Pcs \ {"idle"}
      BY <1>1 DEF NotFound, Pcs
    <2>7. QED
      BY <2>4, <2>5, <2>6, GotoHas DEF s
  <1>2. CASE q.about # "target"
    BY <1>2, AnswerHas DEF NotFound
  <1>3. QED
    BY <1>1, <1>2

\* The statements that ask for somebody's standing.
LEMMA AskingHas ==
  ASSUME TypeInv, NEW r \in Requests, AskSuper(r) \/ AskAuthor(r) \/ AskDelegate(r)
  PROVE  Effect(r)
  <1> DEFINE q == request[r]
  <1>1. /\ q \in RequestRecords /\ Shape(q) /\ Placed(q) /\ q.pc \in Asking /\ q.pc # "idle"
    BY DEF TypeInv, TypeOK, AskSuper, AskAuthor, AskDelegate, Asking
  <1>2. UNCHANGED <<superMods, delegates, banned, unofficial, meta>> /\ UNCHANGED signIns
    BY DEF AskSuper, AskAuthor, AskDelegate, tables
  <1>3. TablesStep(q)
    BY <1>2, QuietTables DEF TypeInv, TypeOK
  <1>4. q.kind \in SuperKinds \cup MapKinds
    BY <1>1 DEF Shape, Asking, RequestRecords
  <1>5. ASSUME NEW pc \in {"author", "delegate"}, Goto(r, pc), q.kind \notin SuperKinds,
               pc = "delegate" => q.about # "granter"
        PROVE  Effect(r)
    <2> DEFINE s == [q EXCEPT !.pc = pc]
    <2>1. s.pc = pc /\ s.about = q.about /\ SameRequest(s, q)
      BY <1>1 DEF RequestRecords, SameRequest
    <2> HIDE DEF s
    <2>2. Shape(s) /\ Placed(s) /\ Found(q, s)
      BY <1>1, <1>4, <1>5, <2>1 DEF Shape, Placed, Found, SameRequest, SuperKinds, MapKinds, Asking
    <2>3. Cleared(s) => Cleared(q)
      BY <2>1 DEF Cleared, SameRequest
    <2>4. pc \in Pcs \ {"idle"}
      BY DEF Pcs, Asking
    <2>5. QED
      BY <1>1, <1>3, <1>5, <2>2, <2>3, <2>4, GotoHas DEF s
  <1>6. CASE AskSuper(r)
    <2>1. CASE Asked(r) \in superMods
      <3>1. q.about = "target" \/ q.actor \in superMods'
        BY <1>2, <2>1 DEF Asked
      <3>2. MayGoOn(r)
        BY <1>6, <2>1 DEF AskSuper
      <3>3. QED
        BY <1>1, <1>3, <1>4, <3>1, <3>2, GoOnHas
    <2>2. CASE Asked(r) \notin superMods /\ q.kind \in SuperKinds
      <3>1. NotFound(r) /\ q.about # "target"
        BY <1>1, <1>6, <2>2 DEF AskSuper, Shape, SuperKinds
      <3>2. QED
        BY <1>1, <1>3, <3>1, NotFoundHas
    <2>3. CASE Asked(r) \notin superMods /\ q.kind \notin SuperKinds
      BY <1>5, <1>6, <2>3 DEF AskSuper
    <2>4. QED
      BY <2>1, <2>2, <2>3
  <1>7. CASE AskAuthor(r)
    <2>1. q.pc = "author" /\ q.kind \notin SuperKinds
      BY <1>1, <1>7 DEF AskAuthor, Placed
    <2>2. CASE meta /\ Asked(r) = Author
      <3>1. q.about = "target" \/ (meta' /\ q.actor = Author)
        BY <1>2, <2>2 DEF Asked
      <3>2. MayGoOn(r)
        BY <1>7, <2>2 DEF AskAuthor
      <3>3. QED
        BY <1>1, <1>3, <1>4, <2>1, <3>1, <3>2, GoOnHas
    <2>3. CASE ~(meta /\ Asked(r) = Author) /\ q.about = "granter"
      <3>1. NotFound(r)
        BY <1>7, <2>3 DEF AskAuthor
      <3>2. QED
        BY <1>1, <1>3, <2>3, <3>1, NotFoundHas
    <2>4. CASE ~(meta /\ Asked(r) = Author) /\ q.about # "granter"
      <3>1. Goto(r, "delegate")
        BY <1>7, <2>4 DEF AskAuthor
      <3>2. QED
        BY <1>5, <2>1, <2>4, <3>1
    <2>5. QED
      BY <2>2, <2>3, <2>4
  <1>8. CASE AskDelegate(r)
    <2>1. q.pc = "delegate" /\ q.kind \notin SuperKinds
      BY <1>1, <1>8 DEF AskDelegate, Placed
    <2>2. CASE Asked(r) \in delegates
      <3>1. q.about = "target" \/ q.actor \in delegates'
        BY <1>2, <2>2 DEF Asked
      <3>2. MayGoOn(r)
        BY <1>8, <2>2 DEF AskDelegate
      <3>3. QED
        BY <1>1, <1>3, <1>4, <2>1, <3>1, <3>2, GoOnHas
    <2>3. CASE Asked(r) \notin delegates
      <3>1. NotFound(r)
        BY <1>8, <2>3 DEF AskDelegate
      <3>2. q.about = "target" => q.target \notin delegates /\ delegates' = delegates
        BY <1>2, <2>3 DEF Asked
      <3>3. QED
        BY <1>1, <1>3, <3>1, <3>2, NotFoundHas
    <2>4. QED
      BY <2>2, <2>3
  <1>9. QED
    BY <1>6, <1>7, <1>8

\* Every step of a request has its effect.
LEMMA StepHas ==
  ASSUME TypeInv, NEW r \in Requests, Step(r)
  PROVE  Effect(r)
  <1> USE ModerationAssumption
  <1> DEFINE q == request[r]
             s == request'[r]
             u == q.target
  <1>1. /\ q \in RequestRecords /\ Shape(q) /\ Placed(q) /\ request \in [Requests -> RequestRecords]
        /\ superMods \subseteq Users /\ delegates \subseteq Users /\ banned \subseteq Users
        /\ unofficial \subseteq Users /\ meta \in BOOLEAN /\ saved \subseteq States
        /\ session \in [Actors -> BOOLEAN] /\ cookie \in [Browsers -> States \cup {Nil}]
    BY DEF TypeInv, TypeOK
  <1>2. q.pc # "idle"
    BY DEF Step, EnsureMeta, AskSuper, AskAuthor, AskDelegate, AskConflict, AskCount, Writes,
           AddDelegate, RemoveDelegate, AddSuperMod, RemoveSuperMod, BanRow, MarkAndCommit,
           LiftRow, ClearAndCommit, TakeState, Exchanged, OpenSession, DatabaseFails, Asking
  <1>3. ASSUME UNCHANGED <<superMods, delegates, banned, unofficial>>,
               meta' \in BOOLEAN, UNCHANGED signIns
        PROVE  TablesStep(q)
    BY <1>3, QuietTables DEF TypeInv
  <1>4. ASSUME NEW pc \in Pcs \ {"idle"}, Goto(r, pc), TablesStep(q),
               \A b \in RequestRecords : (b.pc = pc /\ b.about = q.about /\ SameRequest(b, q)) =>
                   Shape(b) /\ Placed(b) /\ Found(q, b) /\ (Cleared(b) => Cleared(q))
        PROVE  Effect(r)
    <2>1. /\ request' \in [Requests -> RequestRecords]
          /\ \A b \in Requests \ {r} : request'[b] = request[b]
          /\ s.pc = pc /\ s.about = q.about /\ SameRequest(s, q)
      BY <1>4, GotoFields DEF TypeInv
    <2>2. Shape(s) /\ Placed(s) /\ Found(q, s) /\ (Cleared(s) => Cleared(q))
      BY <1>4, <2>1
    <2>3. QED
      BY <1>2, <1>4, <2>1, <2>2 DEF Effect, Moves
  <1>5. ASSUME Answer(r), TablesStep(q) PROVE Effect(r)
    BY <1>2, <1>5, AnswerHas
  <1>6. {"super", "write", "mark", "clear", "exchange", "session"} \subseteq Pcs \ {"idle"}
    BY DEF Pcs, Asking
  <1>7. CASE EnsureMeta(r)
    <2>1. TablesStep(q) /\ Goto(r, "super") /\ q.pc = "meta"
      BY <1>1, <1>3, <1>7 DEF EnsureMeta
    <2>2. \A b \in RequestRecords : (b.pc = "super" /\ b.about = q.about /\ SameRequest(b, q)) =>
              Shape(b) /\ Placed(b) /\ Found(q, b) /\ (Cleared(b) => Cleared(q))
      BY <1>1, <2>1 DEF Shape, Placed, Found, Cleared, SameRequest, SuperKinds, DelegateKinds, MapKinds
    <2>3. QED
      BY <1>4, <1>6, <2>1, <2>2
  <1>8. CASE AskSuper(r) \/ AskAuthor(r) \/ AskDelegate(r)
    BY <1>8, AskingHas
  <1>9. CASE AskConflict(r)
    <2>1. TablesStep(q) /\ q.pc = "conflict" /\ q.kind = "add_delegate" /\ banned' = banned
      BY <1>1, <1>3, <1>9 DEF AskConflict, tables, Shape
    <2>2. CASE u \in banned
      BY <1>5, <1>9, <2>1, <2>2 DEF AskConflict
    <2>3. CASE u \notin banned
      <3>1. Goto(r, "write")
        BY <1>9, <2>3 DEF AskConflict
      <3>2. \A b \in RequestRecords : (b.pc = "write" /\ b.about = q.about /\ SameRequest(b, q)) =>
                Shape(b) /\ Placed(b) /\ Found(q, b) /\ (Cleared(b) => Cleared(q))
        BY <1>1, <2>1, <2>3 DEF Shape, Placed, Found, Cleared, SameRequest, SuperKinds, DelegateKinds, MapKinds
      <3>3. QED
        BY <1>4, <1>6, <2>1, <3>1, <3>2
    <2>4. QED
      BY <2>2, <2>3
  <1>10. CASE AskCount(r)
    <2>1. TablesStep(q) /\ q.pc = "count" /\ q.kind = "remove_super_mod" /\ superMods' = superMods
      BY <1>1, <1>3, <1>10 DEF AskCount, tables, Shape
    <2>2. CASE ~MoreThanOne
      BY <1>5, <1>10, <2>1, <2>2 DEF AskCount
    <2>3. CASE MoreThanOne
      <3>1. Goto(r, "write")
        BY <1>10, <2>3 DEF AskCount
      <3>2. \A b \in RequestRecords : (b.pc = "write" /\ b.about = q.about /\ SameRequest(b, q)) =>
                Shape(b) /\ Placed(b) /\ Found(q, b) /\ (Cleared(b) => Cleared(q))
        BY <1>1, <2>1, <2>3 DEF Shape, Placed, Found, Cleared, SameRequest, SuperKinds,
               DelegateKinds, MapKinds, MoreThanOne
      <3>3. QED
        BY <1>4, <1>6, <2>1, <3>1, <3>2
    <2>4. QED
      BY <2>2, <2>3
  <1>11. CASE AddDelegate(r) \/ RemoveDelegate(r) \/ AddSuperMod(r) \/ RemoveSuperMod(r)
    <2>1. /\ q.pc = "write" /\ Answer(r) /\ UNCHANGED <<banned, unofficial, meta>> /\ UNCHANGED signIns
          /\ \/ q.kind = "add_delegate" /\ delegates' = delegates \cup {u} /\ superMods' = superMods
             \/ q.kind = "remove_delegate" /\ delegates' = delegates \ {u} /\ superMods' = superMods
             \/ q.kind = "add_super_mod" /\ superMods' = superMods \cup {u} /\ delegates' = delegates
             \/ q.kind = "remove_super_mod" /\ superMods' = superMods \ {u} /\ delegates' = delegates
      BY <1>11 DEF AddDelegate, RemoveDelegate, AddSuperMod, RemoveSuperMod, Writes
    <2>2. u \in Users
      BY <1>1, <2>1 DEF Shape, SuperKinds, MapKinds, DelegateKinds
    <2>3. TablesStep(q)
      BY <1>1, <2>1, <2>2 DEF TablesStep, OwnRows, signIns, SuperKinds, DelegateKinds
    <2>4. QED
      BY <1>5, <2>1, <2>3
  <1>12. CASE BanRow(r)
    <2>1. TablesStep(q) /\ q.pc = "ban" /\ q.kind = "create_ban" /\ delegates' = delegates
          /\ Goto(r, "mark")
      BY <1>1, <1>3, <1>12 DEF BanRow, tables, Shape
    <2>2. \A b \in RequestRecords : (b.pc = "mark" /\ b.about = q.about /\ SameRequest(b, q)) =>
              Shape(b) /\ Placed(b) /\ Found(q, b) /\ (Cleared(b) => Cleared(q))
      BY <1>1, <2>1 DEF Shape, Placed, Found, Cleared, SameRequest, SuperKinds, DelegateKinds, MapKinds
    <2>3. QED
      BY <1>4, <1>6, <2>1, <2>2
  <1>13. CASE MarkAndCommit(r)
    <2>1. /\ q.pc = "mark" /\ Answer(r) /\ UNCHANGED <<superMods, delegates, meta>> /\ UNCHANGED signIns
          /\ banned' = banned \cup {u} /\ unofficial' = unofficial \cup {u}
      BY <1>13 DEF MarkAndCommit
    <2>2. u \in Users
      BY <1>1, <2>1 DEF Shape, SuperKinds, MapKinds, DelegateKinds
    <2>3. TablesStep(q)
      BY <1>1, <2>1, <2>2 DEF TablesStep, OwnRows, signIns
    <2>4. QED
      BY <1>5, <2>1, <2>3
  <1>14. CASE LiftRow(r)
    <2>1. TablesStep(q) /\ q.pc = "lift" /\ q.kind = "lift_ban"
      BY <1>1, <1>3, <1>14 DEF LiftRow, tables, Shape
    <2>2. CASE Goto(r, "clear")
      <3>1. \A b \in RequestRecords : (b.pc = "clear" /\ b.about = q.about /\ SameRequest(b, q)) =>
                Shape(b) /\ Placed(b) /\ Found(q, b) /\ (Cleared(b) => Cleared(q))
        BY <1>1, <2>1 DEF Shape, Placed, Found, Cleared, SameRequest, SuperKinds, DelegateKinds, MapKinds
      <3>2. QED
        BY <1>4, <1>6, <2>1, <2>2, <3>1
    <2>3. CASE Answer(r)
      BY <1>5, <2>1, <2>3
    <2>4. QED
      BY <1>14, <2>2, <2>3 DEF LiftRow
  <1>15. CASE ClearAndCommit(r)
    <2>1. /\ q.pc = "clear" /\ Answer(r) /\ UNCHANGED <<superMods, delegates, meta>> /\ UNCHANGED signIns
          /\ banned' = banned \ {u} /\ unofficial' \in {unofficial, unofficial \ {u}}
      BY <1>15 DEF ClearAndCommit
    <2>2. TablesStep(q)
      BY <1>1, <2>1 DEF TablesStep, OwnRows, signIns
    <2>3. QED
      BY <1>5, <2>1, <2>2
  <1>16. CASE TakeState(r)
    <2>1. /\ q.pc = "take" /\ UNCHANGED <<superMods, delegates, banned, unofficial, meta, session, cookie>>
          /\ saved' = saved \ {q.state}
          /\ (q.state \in saved /\ Goto(r, "exchange")) \/ Answer(r)
      BY <1>16 DEF TakeState, tables
    <2>2. TablesStep(q)
      BY <1>1, <2>1 DEF TablesStep, OwnRows
    <2>3. CASE q.state \in saved /\ Goto(r, "exchange")
      <3>1. \A b \in RequestRecords : (b.pc = "exchange" /\ b.about = q.about /\ SameRequest(b, q)) =>
                Shape(b) /\ Placed(b) /\ Found(q, b) /\ (Cleared(b) => Cleared(q))
        BY <1>1, <2>1, <2>3 DEF Shape, Placed, Found, Cleared, SameRequest, SuperKinds, DelegateKinds, MapKinds
      <3>2. QED
        BY <1>4, <1>6, <2>2, <2>3, <3>1
    <2>4. QED
      BY <1>5, <2>1, <2>2, <2>3
  <1>17. CASE Exchanged(r)
    <2>1. TablesStep(q) /\ q.pc = "exchange" /\ Goto(r, "session")
      BY <1>1, <1>3, <1>17 DEF Exchanged, tables
    <2>2. \A b \in RequestRecords : (b.pc = "session" /\ b.about = q.about /\ SameRequest(b, q)) =>
              Shape(b) /\ Placed(b) /\ Found(q, b) /\ (Cleared(b) => Cleared(q))
      BY <1>1, <2>1 DEF Shape, Placed, Found, Cleared, SameRequest, SuperKinds, DelegateKinds, MapKinds
    <2>3. QED
      BY <1>4, <1>6, <2>1, <2>2
  <1>18. CASE OpenSession(r)
    <2>1. /\ q.pc = "session" /\ UNCHANGED <<superMods, delegates, banned, unofficial, meta, saved>>
          /\ session' = [session EXCEPT ![q.actor] = TRUE]
          /\ cookie' = [cookie EXCEPT ![q.actor] = Nil] /\ Answer(r)
      BY <1>18 DEF OpenSession, tables
    <2>2. session' \in [Actors -> BOOLEAN] /\ cookie' \in [Browsers -> States \cup {Nil}]
      BY <1>1, <2>1
    <2>3. TablesStep(q)
      BY <1>1, <2>1, <2>2 DEF TablesStep, OwnRows
    <2>4. QED
      BY <1>5, <2>1, <2>3
  <1>19. CASE DatabaseFails(r)
    BY <1>1, <1>3, <1>5, <1>19 DEF DatabaseFails, tables
  <1>20. QED
    BY <1>7, <1>8, <1>9, <1>10, <1>11, <1>12, <1>13, <1>14, <1>15, <1>16, <1>17, <1>18, <1>19 DEF Step

-----------------------------------------------------------------------------
(* What is no request's own step.                                          *)

\* A request that has just begun has passed nothing.
New(q) ==
    /\ Shape(q) /\ Placed(q) /\ ~Cleared(q)
    /\ q.pc \in {"meta", "super", "take"}

\* Requests arrive, bans and states expire, sign-ins start, sessions end.
Outside ==
    /\ UNCHANGED <<superMods, delegates, unofficial, meta>> /\ banned' \subseteq banned
    /\ banned' # banned => request' = request
    /\ session' \in [Actors -> BOOLEAN] /\ cookie' \in [Browsers -> States \cup {Nil}]
    /\ saved' \subseteq States
    /\ \A r \in Requests : request[r].state \in saved' => request[r].state \in saved
    /\ request' \in [Requests -> RequestRecords]
    /\ \A r \in Requests : request'[r] = request[r] \/ New(request'[r])

\* A handler starts.
LEMMA BeginHas ==
  ASSUME TypeInv, NEW r \in Requests, NEW kind \in SuperKinds \cup MapKinds, NEW a \in Actors,
         NEW u \in Targets \cup SuperTargets, NEW keep \in BOOLEAN, Begin(r, kind, a, u, keep)
  PROVE  Outside
  <1> DEFINE pc == IF kind \in SuperKinds THEN "super" ELSE "meta"
             s == [Idle EXCEPT !.pc = pc, !.kind = kind, !.actor = a, !.target = u, !.keep = keep]
  <1>1. /\ u \in IF kind \in SuperKinds THEN SuperTargets ELSE Targets
        /\ request' = [request EXCEPT ![r] = s]
        /\ UNCHANGED tables /\ UNCHANGED signIns
    BY DEF Begin
  <1>2. pc \in Pcs /\ pc \in {"super", "meta"} /\ (pc = "super" <=> kind \in SuperKinds)
    BY DEF Pcs, Asking
  <1> HIDE DEF pc
  <1>3. s \in RequestRecords
    BY <1>2, IdleFields, ZenonT(60) DEF RequestRecords, Pcs
  <1>4. /\ s.pc = pc /\ s.kind = kind /\ s.actor = a /\ s.target = u /\ s.about = "actor"
        /\ s.keep = keep
    BY IdleFields DEF RequestRecords
  <1> HIDE DEF s
  <1>5. kind \in MapKinds <=> kind \notin SuperKinds
    BY DEF MapKinds, SuperKinds, DelegateKinds
  <1>6. Shape(s)
    <2>1. kind # "callback" /\ u # Nil
      BY ModerationAssumption DEF MapKinds, SuperKinds, DelegateKinds
    <2>2. QED
      BY <1>1, <1>2, <1>4, <1>5, <2>1 DEF Shape
  <1>7. New(s)
    BY <1>2, <1>4, <1>6 DEF New, Placed, Cleared
  <1>8. QED
    BY <1>1, <1>3, <1>7 DEF Outside, TypeInv, TypeOK, tables, signIns

\* Trackmania sends the browser back.
LEMMA CallbackHas ==
  ASSUME TypeInv, NEW r \in Requests, NEW b \in Browsers, Callback(r, b)
  PROVE  Outside
  <1> DEFINE s == [Idle EXCEPT !.pc = "take", !.actor = b, !.state = cookie[b]]
  <1>1. /\ request' = [request EXCEPT ![r] = s] /\ UNCHANGED tables /\ UNCHANGED signIns
        /\ cookie[b] \in States /\ b \in Actors
    BY ModerationAssumption DEF Callback, TypeInv, TypeOK
  <1>2. s \in RequestRecords
    <2>1. "take" \in Pcs
      BY DEF Pcs
    <2>2. QED
      BY <1>1, <2>1, IdleFields, ZenonT(60) DEF RequestRecords, Pcs
  <1>3. /\ s.pc = "take" /\ s.kind = "callback" /\ s.actor = b /\ s.target = Nil
        /\ s.about = "actor" /\ s.state = cookie[b]
    BY IdleFields DEF RequestRecords
  <1> HIDE DEF s
  <1>4. New(s)
    BY <1>1, <1>3 DEF New, Shape, Placed, Cleared, SuperKinds, MapKinds, DelegateKinds
  <1>5. QED
    BY <1>1, <1>2, <1>4 DEF Outside, TypeInv, TypeOK, tables, signIns

\* Every event is a request's own step or comes from outside.
LEMMA EventHas ==
  ASSUME TypeInv, Event
  PROVE  Outside \/ \E r \in Requests : Step(r) /\ Effect(r)
  <1>1. /\ request \in [Requests -> RequestRecords] /\ saved \subseteq States
        /\ session \in [Actors -> BOOLEAN] /\ cookie \in [Browsers -> States \cup {Nil}]
    BY DEF TypeInv, TypeOK
  <1>2. ASSUME NEW u \in Users, Expire(u) PROVE Outside
    BY <1>1, <1>2 DEF Expire, Outside, signIns
  <1>3. ASSUME NEW a \in Actors, EndSession(a) PROVE Outside
    BY <1>1, <1>3 DEF EndSession, Outside, tables
  <1>4. ASSUME NEW b \in Browsers, NEW s \in States, StartSignIn(b, s) PROVE Outside
    BY <1>1, <1>4 DEF StartSignIn, Outside, Unused, tables
  <1>5. ASSUME NEW s \in States, ExpireState(s) PROVE Outside
    BY <1>1, <1>5 DEF ExpireState, Outside, tables
  <1>6. QED
    BY <1>2, <1>3, <1>4, <1>5, BeginHas, CallbackHas, StepHas DEF Event, Arrives

-----------------------------------------------------------------------------
(* Types.                                                                  *)

\* Everything is empty at the start but the super-mods.
LEMMA InitType == Init => TypeInv
  <1> SUFFICES ASSUME Init PROVE TypeInv
    OBVIOUS
  <1>1. request \in [Requests -> RequestRecords] /\ \A r \in Requests : request[r] = Idle
    BY IdleFields DEF Init
  <1>2. /\ session \in [Actors -> BOOLEAN] /\ cookie \in [Browsers -> States \cup {Nil}]
        /\ entitled \in [Requests -> BOOLEAN] /\ raced \in [Requests -> BOOLEAN]
    BY DEF Init
  <1>3. TypeOK
    BY <1>1, <1>2, IdleFields DEF Init, TypeOK
  <1>4. \A r \in Requests : Placed(request[r])
    BY <1>1, IdleFields DEF Placed
  <1>5. QED
    BY <1>3, <1>4 DEF TypeInv

\* The ghosts are of their types.
LEMMA GhostTypes ==
  ASSUME Watch, crossed \subseteq Users
  PROVE  /\ entitled' \in [Requests -> BOOLEAN] /\ raced' \in [Requests -> BOOLEAN]
         /\ crossed' \subseteq Users
  <1> DEFINE e(r) == request'[r].target # Nil /\ (entitled[r] \/ Rightful(r)')
             d(r) == /\ request'[r].pc = "write" /\ request'[r].kind = "remove_super_mod"
                     /\ raced[r] \/ ~(superMods \subseteq superMods')
  <1>1. \A r \in Requests : e(r) \in BOOLEAN /\ d(r) \in BOOLEAN
    OBVIOUS
  <1>2. entitled' = [r \in Requests |-> e(r)] /\ raced' = [r \in Requests |-> d(r)]
    BY DEF Watch
  <1> HIDE DEF e, d
  <1>3. QED
    BY <1>1, <1>2 DEF Watch

\* Every step keeps the types and the places.
LEMMA TypeStep == TypeInv /\ [Next]_vars => TypeInv'
  <1> SUFFICES ASSUME TypeInv, [Next]_vars PROVE TypeInv'
    OBVIOUS
  <1>1. CASE UNCHANGED vars
    BY <1>1 DEF vars, tables, signIns, ghosts, TypeInv, TypeOK
  <1>2. CASE Next
    <2>1. /\ entitled' \in [Requests -> BOOLEAN] /\ raced' \in [Requests -> BOOLEAN]
          /\ crossed' \subseteq Users
      BY <1>2, GhostTypes DEF Next, TypeInv, TypeOK
    <2>2. CASE Outside
      <3>1. \A r \in Requests : Shape(request'[r]) /\ Placed(request'[r])
        BY <2>2 DEF Outside, New, TypeInv, TypeOK
      <3>2. QED
        BY <2>1, <2>2, <3>1 DEF Outside, TypeInv, TypeOK
    <2>3. ASSUME NEW r \in Requests, Effect(r) PROVE TypeInv'
      <3>1. \A q \in Requests : Shape(request'[q]) /\ Placed(request'[q])
        <4>1. Placed(Idle)
          BY IdleFields DEF Placed
        <4>2. QED
          BY <2>3, <4>1, IdleFields DEF Effect, Moves, TypeInv, TypeOK
      <3>2. QED
        BY <2>1, <2>3, <3>1 DEF Effect, Moves, TablesStep, TypeInv, TypeOK
    <2>4. QED
      BY <1>2, <2>2, <2>3, EventHas DEF Next
  <1>3. QED
    BY <1>1, <1>2

-----------------------------------------------------------------------------
(* Bans, seats and marks.                                                  *)

\* Bans and marks change in one commit, whatever else does.
LEMMA MarkStep == TypeInv /\ BannedIsUnofficial /\ [Next]_vars => BannedIsUnofficial'
  <1> SUFFICES ASSUME TypeInv, banned \subseteq unofficial, [Next]_vars
               PROVE  banned' \subseteq unofficial'
    BY DEF BannedIsUnofficial
  <1>1. CASE UNCHANGED vars
    BY <1>1 DEF vars, tables
  <1>2. CASE Outside
    BY <1>2 DEF Outside
  <1>3. ASSUME NEW r \in Requests, Effect(r) PROVE banned' \subseteq unofficial'
    BY <1>3 DEF Effect, TablesStep
  <1>4. QED
    BY <1>1, <1>2, <1>3, EventHas DEF Next

\* A ban past its checks has a target without a seat, and a seat about to be
\* written a user without a ban, unless a ban and a seat have met over them.
CrossInv ==
    /\ \A u \in Users : Meet(u) => u \in crossed
    /\ \A r \in Requests : request[r].pc \in {"ban", "mark"} =>
           request[r].target \notin delegates \/ request[r].target \in crossed
    /\ \A r \in Requests : (request[r].pc = "write" /\ request[r].kind = "add_delegate") =>
           request[r].target \notin banned \/ request[r].target \in crossed
    /\ NoBannedDelegate

\* Who was crossed stays so while a ban or a seat is under way or both are there.
LEMMA CrossStays ==
  ASSUME Watch, NEW u \in Users
  PROVE  /\ Meet(u)' => u \in crossed'
         /\ (u \in crossed /\ u \in banned' /\ u \in delegates') => u \in crossed'
         /\ \A r \in Requests :
                (/\ u \in crossed /\ request'[r].target = u
                 /\ request'[r].kind \in {"create_ban", "add_delegate"}) => u \in crossed'
  BY DEF Watch, Open

\* What a request past its checks is for.
LEMMA CrossKinds ==
  ASSUME TypeOK, NEW r \in Requests
  PROVE  /\ request[r].pc \in {"ban", "mark"} =>
                request[r].kind = "create_ban" /\ request[r].target \in Users
         /\ (request[r].pc = "write" /\ request[r].kind = "add_delegate") =>
                request[r].target \in Users
  BY ModerationAssumption DEF TypeOK, Shape, MapKinds, SuperKinds, DelegateKinds

\* Bans and seats that change from outside keep it.
LEMMA CrossKeptOutside ==
  ASSUME TypeInv, TypeInv', CrossInv, Watch, Outside
  PROVE  CrossInv'
  <1>1. \A u \in Users : Meet(u)' => u \in crossed'
    BY CrossStays
  <1>2. ASSUME NEW r \in Requests,
               \/ request'[r].pc \in {"ban", "mark"}
               \/ request'[r].pc = "write" /\ request'[r].kind = "add_delegate"
        PROVE  /\ request'[r] = request[r] /\ request[r].target \in Users
               /\ request[r].kind \in {"create_ban", "add_delegate"}
               /\ request[r].target \in crossed => request[r].target \in crossed'
    <2>1. request'[r] = request[r]
      BY <1>2 DEF Outside, New
    <2>2. request[r].target \in Users /\ request[r].kind \in {"create_ban", "add_delegate"}
      BY <1>2, <2>1, CrossKinds DEF TypeInv
    <2>3. QED
      BY <2>1, <2>2, CrossStays
  <1>3. \A r \in Requests : request'[r].pc \in {"ban", "mark"} =>
            request'[r].target \notin delegates' \/ request'[r].target \in crossed'
    BY <1>2 DEF CrossInv, Outside
  <1>4. \A r \in Requests : (request'[r].pc = "write" /\ request'[r].kind = "add_delegate") =>
            request'[r].target \notin banned' \/ request'[r].target \in crossed'
    BY <1>2 DEF CrossInv, Outside
  <1>5. ASSUME NEW u \in banned' \cap delegates' PROVE u \in crossed'
    <2>1. u \in banned \cap delegates /\ u \in Users
      BY DEF Outside, TypeInv, TypeOK
    <2>2. u \in crossed
      BY <2>1 DEF CrossInv, NoBannedDelegate
    <2>3. QED
      BY <2>1, <2>2, CrossStays
  <1>6. QED
    BY <1>1, <1>3, <1>4, <1>5 DEF CrossInv, NoBannedDelegate

\* A request's own step keeps it.
LEMMA CrossKeptByStep ==
  ASSUME TypeInv, TypeInv', CrossInv, Watch, NEW r \in Requests, Effect(r)
  PROVE  CrossInv'
  <1> DEFINE q == request[r]
             s == request'[r]
  <1>0. /\ Found(q, s) /\ q.pc # "idle"
        /\ \A b \in Requests \ {r} : request'[b] = request[b]
        /\ s = Idle \/ SameRequest(s, q)
        /\ banned' \subseteq banned \cup (IF q.pc = "mark" THEN {q.target} ELSE {})
        /\ delegates' \subseteq delegates
               \cup (IF q.pc = "write" /\ q.kind = "add_delegate" THEN {q.target} ELSE {})
    BY DEF Effect, Moves, TablesStep
  <1>1. \A u \in Users : Meet(u)' => u \in crossed'
    BY CrossStays
  <1>2. q.pc \in {"ban", "mark"} => q.kind = "create_ban"
    BY CrossKinds DEF TypeInv
  <1>3. ASSUME NEW b \in Requests, request'[b].pc \in {"ban", "mark"}
        PROVE  request'[b].target \notin delegates' \/ request'[b].target \in crossed'
    <2> DEFINE u == request'[b].target
    <2>1. request'[b].kind = "create_ban" /\ u \in Users
      <3>1. (request[b].pc \in {"ban", "mark"} =>
                 request[b].kind = "create_ban" /\ request[b].target \in Users)'
        BY ModerationAssumption DEF TypeInv, TypeOK, Shape, MapKinds, SuperKinds, DelegateKinds
      <3>2. QED
        BY <1>3, <3>1
    <2>2. u \in crossed => u \in crossed'
      BY <2>1, CrossStays
    <2>3. CASE b = r
      <3>1. SameRequest(s, q)
        BY <1>0, <1>3, <2>3, IdleFields
      <3>2. CASE s.pc = "ban"
        BY <1>0, <2>3, <3>1, <3>2 DEF Found, SameRequest
      <3>3. CASE s.pc = "mark"
        <4>1. q.pc = "ban" /\ delegates' = delegates /\ q.target = u
          BY <1>0, <2>3, <3>1, <3>3 DEF Found, SameRequest
        <4>2. u \notin delegates \/ u \in crossed
          BY <4>1 DEF CrossInv
        <4>3. QED
          BY <2>2, <4>1, <4>2
      <3>4. QED
        BY <1>3, <2>3, <3>2, <3>3
    <2>4. CASE b # r
      <3>1. request'[b] = request[b]
        BY <1>0, <2>4
      <3>2. u \notin delegates \/ u \in crossed
        BY <1>3, <3>1 DEF CrossInv
      <3>3. CASE u \notin delegates /\ u \in delegates'
        <4>1. q.kind = "add_delegate" /\ q.target = u
          BY <1>0, <3>3
        <4>2. Meet(u)
          BY <2>1, <3>1, <4>1 DEF Meet
        <4>3. QED
          BY <2>1, <2>2, <4>2 DEF CrossInv
      <3>4. QED
        BY <2>2, <3>2, <3>3
    <2>5. QED
      BY <2>3, <2>4
  <1>4. ASSUME NEW b \in Requests, request'[b].pc = "write", request'[b].kind = "add_delegate"
        PROVE  request'[b].target \notin banned' \/ request'[b].target \in crossed'
    <2> DEFINE u == request'[b].target
    <2>1. u \in Users
      <3>1. ((request[b].pc = "write" /\ request[b].kind = "add_delegate") =>
                 request[b].target \in Users)'
        BY ModerationAssumption DEF TypeInv, TypeOK, Shape, MapKinds, SuperKinds, DelegateKinds
      <3>2. QED
        BY <1>4, <3>1
    <2>2. u \in crossed => u \in crossed'
      BY <1>4, <2>1, CrossStays
    <2>3. CASE b = r
      <3>1. SameRequest(s, q)
        BY <1>0, <1>4, <2>3, IdleFields
      <3>2. QED
        BY <1>0, <1>4, <2>3, <3>1 DEF Found, SameRequest
    <2>4. CASE b # r
      <3>1. request'[b] = request[b]
        BY <1>0, <2>4
      <3>2. u \notin banned \/ u \in crossed
        BY <1>4, <3>1 DEF CrossInv
      <3>3. CASE u \notin banned /\ u \in banned'
        <4>1. q.kind = "create_ban" /\ q.target = u
          BY <1>0, <1>2, <3>3
        <4>2. Meet(u)
          BY <1>4, <3>1, <4>1 DEF Meet
        <4>3. QED
          BY <2>1, <2>2, <4>2 DEF CrossInv
      <3>4. QED
        BY <2>2, <3>2, <3>3
    <2>5. QED
      BY <2>3, <2>4
  <1>5. ASSUME NEW u \in banned' \cap delegates' PROVE u \in crossed'
    <2>1. u \in Users
      BY DEF TypeInv, TypeOK
    <2>2. SUFFICES u \in crossed
      BY <2>1, CrossStays
    <2>3. CASE u \in banned /\ u \in delegates
      BY <2>3 DEF CrossInv, NoBannedDelegate
    <2>4. CASE u \notin banned
      <3>1. q.pc = "mark" /\ q.target = u
        BY <1>0, <2>4
      <3>2. u \in delegates
        BY <1>0, <3>1
      <3>3. QED
        BY <3>1, <3>2 DEF CrossInv
    <2>5. CASE u \notin delegates
      <3>1. q.pc = "write" /\ q.kind = "add_delegate" /\ q.target = u
        BY <1>0, <2>5
      <3>2. u \in banned
        BY <1>0, <3>1
      <3>3. QED
        BY <3>1, <3>2 DEF CrossInv
    <2>6. QED
      BY <2>3, <2>4, <2>5
  <1>6. QED
    BY <1>1, <1>3, <1>4, <1>5 DEF CrossInv, NoBannedDelegate

\* Every step keeps it.
LEMMA CrossStep == TypeInv /\ TypeInv' /\ CrossInv /\ [Next]_vars => CrossInv'
  <1> SUFFICES ASSUME TypeInv, TypeInv', CrossInv, [Next]_vars PROVE CrossInv'
    OBVIOUS
  <1>1. CASE UNCHANGED vars
    <2>1. UNCHANGED <<banned, delegates, crossed, request>>
      BY <1>1 DEF vars, tables, ghosts
    <2>2. QED
      BY <2>1 DEF CrossInv, NoBannedDelegate, Meet
  <1>2. CASE Next
    BY <1>2, EventHas, CrossKeptOutside, CrossKeptByStep DEF Next
  <1>3. QED
    BY <1>1, <1>2

-----------------------------------------------------------------------------
(* Rights.                                                                 *)

\* A request past its checks was entitled when it passed them.
RightInv == \A r \in Requests : Cleared(request[r]) => entitled[r]

\* What is cleared names a target, so the ghost keeps its entitlement.
LEMMA RightStays ==
  ASSUME TypeInv', Watch, NEW r \in Requests, Cleared(request'[r]), entitled[r] \/ Rightful(r)'
  PROVE  entitled'[r]
  <1>1. request'[r].target # Nil
    BY DEF TypeInv, TypeOK, Shape, Cleared, SuperKinds, MapKinds, DelegateKinds
  <1>2. entitled'[r] = (request'[r].target # Nil /\ (entitled[r] \/ Rightful(r)'))
    BY DEF Watch
  <1>3. QED
    BY <1>1, <1>2

\* Every step keeps it.
LEMMA RightStep == TypeInv /\ TypeInv' /\ RightInv /\ [Next]_vars => RightInv'
  <1> SUFFICES ASSUME TypeInv, TypeInv', RightInv, [Next]_vars,
                      NEW b \in Requests, Cleared(request'[b])
               PROVE  entitled'[b]
    BY DEF RightInv, Cleared
  <1>1. CASE UNCHANGED vars
    <2>1. request' = request /\ entitled' = entitled
      BY <1>1 DEF vars, ghosts
    <2>2. QED
      BY <2>1 DEF RightInv
  <1>2. CASE Watch /\ Outside
    <2>1. request'[b] = request[b]
      BY <1>2 DEF Outside, New
    <2>2. QED
      BY <1>2, <2>1, RightStays DEF RightInv
  <1>3. ASSUME Watch, NEW r \in Requests, Effect(r) PROVE entitled'[b]
    <2>1. CASE b = r
      BY <1>3, <2>1, RightStays DEF Effect, RightInv
    <2>2. CASE b # r
      <3>1. request'[b] = request[b]
        BY <1>3, <2>2 DEF Effect, Moves
      <3>2. QED
        BY <1>3, <3>1, RightStays DEF RightInv
    <2>3. QED
      BY <2>1, <2>2
  <1>4. QED
    BY <1>1, <1>2, <1>3, EventHas DEF Next

\* The statement that changes a table is its request's last.
LEMMA WritesEnd ==
  ASSUME NEW r \in Requests, Step(r), request[r].pc \in {"write", "mark", "clear"}, TypeInv
  PROVE  request'[r].pc = "idle"
  <1>1. Answer(r)
    BY DEF Step, EnsureMeta, AskSuper, AskAuthor, AskDelegate, AskConflict, AskCount, Writes,
           AddDelegate, RemoveDelegate, AddSuperMod, RemoveSuperMod, BanRow, MarkAndCommit,
           LiftRow, ClearAndCommit, TakeState, Exchanged, OpenSession, DatabaseFails
  <1>2. QED
    BY <1>1, AnswerMoves, IdleFields DEF TypeInv

\* Who enters or leaves a table is the target of a request that ends here and was
\* entitled, or a ban has run out.
ByRequests ==
    LET By(kind, u) == \E r \in Requests :
            /\ request[r].kind = kind /\ request[r].target = u
            /\ entitled[r] /\ request'[r].pc = "idle"
    IN  \A u \in Users :
            /\ u \in superMods' \ superMods => By("add_super_mod", u)
            /\ u \in superMods \ superMods' => By("remove_super_mod", u)
            /\ u \in delegates' \ delegates => By("add_delegate", u)
            /\ u \in delegates \ delegates' => By("remove_delegate", u)
            /\ u \in banned' \ banned => By("create_ban", u)
            /\ u \in banned \ banned' => By("lift_ban", u) \/ request' = request
            /\ u \in unofficial' \ unofficial => By("create_ban", u)
            /\ u \in unofficial \ unofficial' => By("lift_ban", u)

\* Every step does so: the statement that writes is its request's last, for the
\* request's own target, and comes after the checks of its actor.
LEMMA ChangesAreRightful ==
  ASSUME TypeInv, RightInv, [Next]_vars
  PROVE  ByRequests
  <1>1. CASE UNCHANGED vars
    BY <1>1 DEF vars, tables, ByRequests
  <1>2. CASE Outside
    BY <1>2 DEF Outside, ByRequests
  <1>3. ASSUME NEW r \in Requests, Step(r), Effect(r) PROVE ByRequests
    <2>1. Shape(request[r]) /\ Placed(request[r])
      BY DEF TypeInv, TypeOK
    <2>2. /\ request[r].pc = "mark" => request[r].kind = "create_ban" /\ request[r].about = "target"
          /\ request[r].pc = "clear" => request[r].kind = "lift_ban"
      BY <2>1 DEF Shape, Placed
    <2>3. /\ OwnRows(request[r])
          /\ superMods' # superMods =>
                 request[r].kind \in SuperKinds /\ request[r].pc = "write"
          /\ delegates' # delegates =>
                 request[r].kind \in DelegateKinds /\ request[r].pc = "write"
      BY <1>3 DEF Effect, TablesStep
    <2>4. (superMods' # superMods \/ delegates' # delegates \/ request[r].pc \in {"mark", "clear"})
              => entitled[r] /\ request'[r].pc = "idle"
      BY <1>3, <2>2, <2>3, WritesEnd DEF RightInv, Cleared
    <2>5. QED
      BY <2>2, <2>3, <2>4 DEF OwnRows, ByRequests
  <1>4. QED
    BY <1>1, <1>2, <1>3, EventHas DEF Next

-----------------------------------------------------------------------------
(* Super-mods.                                                             *)

\* A removal that was counted still sees two super-mods, or was raced.
CountInv == \A r \in Requests :
    (request[r].pc = "write" /\ request[r].kind = "remove_super_mod") =>
        raced[r] \/ Cardinality(superMods) > 1

\* Every step keeps it.
LEMMA CountStep == TypeInv /\ TypeInv' /\ CountInv /\ [Next]_vars => CountInv'
  <1> SUFFICES ASSUME TypeInv, TypeInv', CountInv, [Next]_vars, NEW b \in Requests,
                      request'[b].pc = "write", request'[b].kind = "remove_super_mod"
               PROVE  raced'[b] \/ Cardinality(superMods') > 1
    BY DEF CountInv
  <1>1. CASE UNCHANGED vars
    <2>1. UNCHANGED <<request, raced, superMods>>
      BY <1>1 DEF vars, tables, ghosts
    <2>2. QED
      BY <2>1 DEF CountInv
  <1>2. ASSUME Watch, request'[b] = request[b] PROVE raced'[b] \/ Cardinality(superMods') > 1
    <2>1. (raced[b] \/ ~(superMods \subseteq superMods')) => raced'[b]
      BY <1>2 DEF Watch
    <2>2. CASE raced[b] \/ ~(superMods \subseteq superMods')
      BY <2>1, <2>2
    <2>3. CASE Cardinality(superMods) > 1 /\ superMods \subseteq superMods'
      <3>1. IsFiniteSet(superMods')
        BY ModerationAssumption, FS_Subset DEF TypeInv, TypeOK
      <3>2. Cardinality(superMods) <= Cardinality(superMods') /\ IsFiniteSet(superMods)
        BY <2>3, <3>1, FS_Subset
      <3>3. Cardinality(superMods) \in Nat /\ Cardinality(superMods') \in Nat
        BY <3>1, <3>2, FS_CardinalityType
      <3>4. QED
        BY <2>3, <3>2, <3>3
    <2>4. QED
      BY <1>2, <2>2, <2>3 DEF CountInv
  <1>3. CASE Watch /\ Outside
    <2>1. request'[b] = request[b]
      BY <1>3 DEF Outside, New
    <2>2. QED
      BY <1>2, <1>3, <2>1
  <1>4. ASSUME Watch, NEW r \in Requests, Effect(r)
        PROVE  raced'[b] \/ Cardinality(superMods') > 1
    <2>1. CASE b = r
      BY <1>4, <2>1 DEF Effect, Found
    <2>2. CASE b # r
      <3>1. request'[b] = request[b]
        BY <1>4, <2>2 DEF Effect, Moves
      <3>2. QED
        BY <1>2, <1>4, <3>1
    <2>3. QED
      BY <2>1, <2>2
  <1>5. QED
    BY <1>1, <1>3, <1>4, EventHas DEF Next

\* The last super-mod goes only with a removal that was raced.
LEMMA LastIsRaced ==
  ASSUME TypeInv, CountInv, [Next]_vars, superMods # {}, superMods' = {}
  PROVE  \E r \in Requests : raced[r] /\ request'[r].pc = "idle"
  <1>1. CASE UNCHANGED vars \/ Outside
    BY <1>1 DEF vars, tables, Outside
  <1>2. ASSUME NEW r \in Requests, Step(r), Effect(r) PROVE raced[r] /\ request'[r].pc = "idle"
    <2>1. /\ request[r].kind = "remove_super_mod" /\ request[r].pc = "write"
          /\ superMods' = superMods \ {request[r].target}
      BY <1>2 DEF Effect, TablesStep
    <2>2. superMods = {request[r].target}
      BY <2>1
    <2>3. Cardinality(superMods) = 1
      BY <2>2, FS_Singleton
    <2>4. raced[r] \/ Cardinality(superMods) > 1
      BY <2>1 DEF CountInv
    <2>5. QED
      BY <1>2, <2>1, <2>3, <2>4, WritesEnd
  <1>3. QED
    BY <1>1, <1>2, EventHas DEF Next

-----------------------------------------------------------------------------
(* Sign-ins.                                                               *)

Past(q) == q.pc \in {"exchange", "session"}

\* Of the requests with a state one gets past take_oauth_state.
LEMMA StateStep == TypeInv /\ OneSessionPerState /\ [Next]_vars => OneSessionPerState'
  <1> SUFFICES ASSUME TypeInv, OneSessionPerState, [Next]_vars, NEW a \in Requests, NEW b \in Requests,
                      Past(request'[a]), Past(request'[b]), request'[a].state = request'[b].state
               PROVE  a = b /\ request'[b].state \notin saved'
    BY DEF OneSessionPerState, Past
  <1>0. \A c, d \in Requests :
            (Past(request[c]) /\ Past(request[d]) /\ request[c].state = request[d].state) =>
                c = d /\ request[d].state \notin saved
    BY DEF OneSessionPerState, Past
  <1>1. CASE UNCHANGED vars
    <2>1. request' = request /\ saved' = saved
      BY <1>1 DEF vars, signIns
    <2>2. QED
      BY <1>0, <2>1
  <1>2. CASE Outside
    <2>1. request'[a] = request[a] /\ request'[b] = request[b]
      BY <1>2 DEF Outside, New, Past
    <2>2. QED
      BY <1>0, <1>2, <2>1 DEF Outside
  <1>3. ASSUME NEW r \in Requests, Effect(r) PROVE a = b /\ request'[b].state \notin saved'
    <2>1. /\ saved' \subseteq saved /\ Found(request[r], request'[r])
          /\ \A c \in Requests \ {r} : request'[c] = request[c]
          /\ request'[r] = Idle \/ SameRequest(request'[r], request[r])
      BY <1>3 DEF Effect, Moves, TablesStep
    <2>2. ASSUME NEW c \in Requests, Past(request'[c])
          PROVE  /\ request'[c].state = request[c].state /\ request'[c].state \notin saved'
                 /\ \/ Past(request[c])
                    \/ c = r /\ request[c].state \in saved
      <3>1. CASE c = r
        <4>1. request'[r].state = request[r].state
          BY <2>1, <2>2, <3>1, IdleFields DEF Past, SameRequest
        <4>2. CASE request'[r].pc = "exchange"
          BY <2>1, <3>1, <4>1, <4>2 DEF Found
        <4>3. CASE request'[r].pc = "session"
          <5>1. Past(request[r])
            BY <2>1, <4>3 DEF Found, Past
          <5>2. QED
            BY <1>0, <2>1, <3>1, <4>1, <5>1
        <4>4. QED
          BY <2>2, <3>1, <4>2, <4>3 DEF Past
      <3>2. CASE c # r
        BY <1>0, <2>1, <2>2, <3>2
      <3>3. QED
        BY <3>1, <3>2
    <2>3. CASE Past(request[a]) /\ Past(request[b])
      BY <1>0, <2>2, <2>3
    <2>4. CASE ~Past(request[a]) /\ Past(request[b])
      BY <1>0, <2>2, <2>4
    <2>5. CASE Past(request[a]) /\ ~Past(request[b])
      BY <1>0, <2>2, <2>5
    <2>6. CASE ~Past(request[a]) /\ ~Past(request[b])
      BY <2>2, <2>6
    <2>7. QED
      BY <2>3, <2>4, <2>5, <2>6
  <1>4. QED
    BY <1>1, <1>2, <1>3, EventHas DEF Next

-----------------------------------------------------------------------------
(* The theorems.                                                           *)

IInv ==
    /\ TypeInv /\ BannedIsUnofficial /\ CrossInv /\ RightInv /\ CountInv
    /\ OneSessionPerState

\* Nobody is banned, seated or on their way at the start.
LEMMA InitIInv == Init => IInv
  <1> SUFFICES ASSUME Init PROVE IInv
    OBVIOUS
  <1>1. TypeInv
    BY InitType
  <1>2. \A r \in Requests : request[r].pc = "idle" /\ request[r].kind = "callback"
    BY IdleFields DEF Init
  <1>3. banned = {} /\ BannedIsUnofficial
    BY DEF Init, BannedIsUnofficial
  <1>4. CrossInv
    BY <1>2, <1>3 DEF CrossInv, NoBannedDelegate, Meet
  <1>5. RightInv /\ CountInv /\ OneSessionPerState
    BY <1>2 DEF RightInv, Cleared, CountInv, OneSessionPerState, SuperKinds, DelegateKinds
  <1>6. QED
    BY <1>1, <1>3, <1>4, <1>5 DEF IInv

\* The invariants always hold.
THEOREM Invariance == Spec => []IInv
  <1>1. IInv /\ [Next]_vars => IInv'
    BY TypeStep, MarkStep, CrossStep, RightStep, CountStep, StateStep DEF IInv
  <1>2. QED
    BY InitIInv, <1>1, PTL DEF Spec

\* The moderation tables and the requests stay well formed.
THEOREM TypeCorrect == Spec => []TypeOK
  <1>1. IInv => TypeOK
    BY DEF IInv, TypeInv
  <1>2. QED
    BY <1>1, Invariance, PTL

\* apply_map_ban and lift_map_ban: a banned player is marked unofficial.
THEOREM BansMark == Spec => []BannedIsUnofficial
  <1>1. IInv => BannedIsUnofficial
    BY DEF IInv
  <1>2. QED
    BY <1>1, Invariance, PTL

\* handle_create_ban and handle_add_delegate look at each other's table, so only
\* requests that were there together leave a banned delegate.
THEOREM OnlyCrossedAreBoth == Spec => []NoBannedDelegate
  <1>1. IInv => NoBannedDelegate
    BY DEF IInv, CrossInv
  <1>2. QED
    BY <1>1, Invariance, PTL

\* take_oauth_state: a sign-in opens at most one session.
THEOREM StatesAreUsedOnce == Spec => []OneSessionPerState
  <1>1. IInv => OneSessionPerState
    BY DEF IInv
  <1>2. QED
    BY <1>1, Invariance, PTL

\* require_session, require_moderator and require_super_mod: whoever enters or
\* leaves the super-mods, the seats, the bans or the marks is the target of a
\* request of that kind whose actor was entitled to it at some moment of it, except
\* that a ban may run out.
THEOREM ChangesAreAuthorised == Spec => Authorised
  <1>1. IInv /\ [Next]_vars => ByRequests
    BY ChangesAreRightful DEF IInv
  <1>2. QED
    BY <1>1, Invariance, PTL DEF Spec, Authorised, ByRequests

\* handle_remove_super_mod: without a race the last super-mod stays.
THEOREM LastStaysUnlessRaced == Spec => OnlyRacesLeaveNone
  <1>1. IInv /\ [Next]_vars =>
            ((superMods # {} /\ superMods' = {}) =>
                 \E r \in Requests : raced[r] /\ request'[r].pc = "idle")
    BY LastIsRaced DEF IInv
  <1>2. QED
    BY <1>1, Invariance, PTL DEF Spec, OnlyRacesLeaveNone
-----------------------------------------------------------------------------
(* That requests are answered: the row lock is not waited for in a circle, *)
(* and no statement is run again.                                          *)

\* The upsert of a ban, and the update that lifts one that is active, wait while
\* another transaction has the user's row.
Waits(r) ==
    \/ request[r].pc = "ban" /\ Locked(request[r].target)
    \/ /\ request[r].pc = "lift" /\ Locked(request[r].target)
       /\ request[r].target \in banned

\* Request q has the row that request r asks for.
WaitsFor(r, q) ==
    request[q].pc \in {"mark", "clear"} /\ request[q].target = request[r].target

\* Who waits, waits for a transaction that has its one row and waits for nobody.
\* Hence while requests are served, one of them need not wait.
NoCircularWait ==
    /\ \A r \in Requests : Waits(r) =>
           /\ \E q \in Requests : WaitsFor(r, q)
           /\ \A q \in Requests : WaitsFor(r, q) => ~Waits(q)
    /\ (\E r \in Requests : request[r].pc # "idle")
           => \E r \in Requests : request[r].pc # "idle" /\ ~Waits(r)

\* The statements before each place, until the actor's standing is known.
Stage == [meta |-> 11, super |-> 5, author |-> 4, delegate |-> 3,
          ban |-> 2, lift |-> 2, count |-> 2, conflict |-> 2,
          mark |-> 1, clear |-> 1, write |-> 1,
          take |-> 3, exchange |-> 2, session |-> 1, idle |-> 0]

\* The statements a request has before it at most: one that asks about its actor
\* may ask about its target, or about the actor as one who grants, after that.
Left(q) == Stage[q.pc] + (IF q.pc \in Asking /\ q.about = "actor" THEN 5 ELSE 0)

\* Each statement of a request brings it nearer its answer, and nobody else sets
\* it back: a count that has changed or a mark that is gone repeats nothing.
StatementsRunOut ==
    [][\A r \in Requests : request[r].pc # "idle" =>
           /\ Step(r) => Left(request[r])' < Left(request[r])
           /\ ~Step(r) => request'[r] = request[r]]_vars

\* A transaction that has its row asks for no other.
LEMMA HoldersDoNotWait == NoCircularWait
  BY DEF NoCircularWait, Waits, WaitsFor, Locked

\* A request's own statements are in their order.
LEMMA StatementsLead ==
  ASSUME TypeInv, NEW r \in Requests, Step(r)
  PROVE  Left(request'[r]) < Left(request[r])
  <1> DEFINE Goal == Left(request'[r]) < Left(request[r])
  <1>0. /\ request[r] \in RequestRecords /\ TypeOK /\ request[r].pc \in Pcs
        /\ Left(request[r]) \in Nat /\ Placed(request[r]) /\ Shape(request[r])
    BY DEF TypeInv, TypeOK, RequestRecords, Pcs, Left, Stage, Asking
  <1>1. request[r].pc # "idle"
    BY StepHas DEF Effect
  <1>2. Stage[request[r].pc] > 0
    BY <1>0, <1>1 DEF Pcs, Stage, Asking
  <1> SUFFICES Goal
    OBVIOUS
  <1>3. ASSUME NEW pc \in Pcs, Goto(r, pc),
               \/ pc \notin Asking /\ Stage[pc] < Stage[request[r].pc]
               \/ /\ pc \in Asking /\ request[r].pc \in Asking
                  /\ Stage[pc] < Stage[request[r].pc]
        PROVE  Goal
    <2>1. request'[r].pc = pc /\ request'[r].about = request[r].about
      BY <1>0, <1>3, GotoFields
    <2>2. Stage[pc] \in Nat /\ Stage[request[r].pc] \in Nat
      BY <1>0 DEF Stage, Pcs, Asking
    <2>3. QED
      BY <1>3, <2>1, <2>2 DEF Left
  <1>4. ASSUME Answer(r)
        PROVE  Goal
    <2>1. request'[r].pc = "idle"
      BY <1>0, <1>4, AnswerMoves, IdleFields
    <2>2. Left(request'[r]) = 0
      BY <2>1 DEF Left, Stage, Asking
    <2>3. Left(request[r]) > 0
      BY <1>0, <1>2 DEF Left, Stage, Pcs, Asking
    <2>4. QED
      BY <2>2, <2>3
  <1>5. ASSUME request[r].pc \in Asking, NEW about \in {"target", "granter"},
               request[r].about = "actor", GotoAbout(r, about, "super")
        PROVE  Goal
    <2>1. "super" \in Pcs
      BY DEF Pcs, Asking
    <2>2. request'[r].pc = "super" /\ request'[r].about = about
      BY <1>0, <1>5, <2>1, GotoAboutFields
    <2>3. Left(request'[r]) = 5
      BY <2>2 DEF Left, Stage
    <2>4. Left(request[r]) >= 8
      BY <1>5 DEF Left, Stage, Asking
    <2>5. QED
      BY <1>0, <2>3, <2>4
  <1>6. ASSUME NEW pc \in {"ban", "lift", "count", "conflict", "write"}, Goto(r, pc),
               request[r].pc \in Asking
        PROVE  Goal
    <2>1. pc \in Pcs /\ pc \notin Asking /\ Stage[pc] < Stage[request[r].pc]
      BY <1>6 DEF Pcs, Asking, Stage
    <2>2. QED
      BY <1>3, <1>6, <2>1
  <1>7. ASSUME request[r].pc \in Asking, MayGoOn(r) \/ NotFound(r)
        PROVE  Goal
    BY <1>4, <1>5, <1>6, <1>7 DEF MayGoOn, NotFound
  <1> HIDE DEF Goal
  <1>8. CASE EnsureMeta(r)
    <2>1. "super" \in Pcs
      BY DEF Pcs, Asking
    <2>2. request'[r].pc = "super"
      BY <1>0, <1>8, <2>1, GotoFields DEF EnsureMeta
    <2>3. Left(request'[r]) \in {5, 10}
      BY <2>2 DEF Left, Stage
    <2>4. Left(request[r]) = 11
      BY <1>8 DEF EnsureMeta, Left, Stage, Asking
    <2>5. QED
      BY <2>3, <2>4 DEF Goal
  <1>9. CASE AskSuper(r)
    <2>1. request[r].pc = "super" /\ request[r].pc \in Asking
      BY <1>9 DEF AskSuper, Asking
    <2>2. "author" \in Pcs /\ "author" \in Asking /\ Stage["author"] < Stage["super"]
      BY DEF Pcs, Asking, Stage
    <2>3. QED
      BY <1>3, <1>7, <1>9, <2>1, <2>2 DEF AskSuper
  <1>10. CASE AskAuthor(r)
    <2>1. request[r].pc = "author" /\ request[r].pc \in Asking
      BY <1>10 DEF AskAuthor, Asking
    <2>2. "delegate" \in Pcs /\ "delegate" \in Asking /\ Stage["delegate"] < Stage["author"]
      BY DEF Pcs, Asking, Stage
    <2>3. QED
      BY <1>3, <1>7, <1>10, <2>1, <2>2 DEF AskAuthor
  <1>11. CASE AskDelegate(r)
    BY <1>7, <1>11 DEF AskDelegate, Asking
  <1>12. CASE AskConflict(r) \/ AskCount(r)
    <2>1. "write" \in Pcs /\ "write" \notin Asking
          /\ (request[r].pc \in {"conflict", "count"} => Stage["write"] < Stage[request[r].pc])
      BY DEF Pcs, Asking, Stage
    <2>2. QED
      BY <1>3, <1>4, <1>12, <2>1 DEF AskConflict, AskCount
  <1>13. CASE BanRow(r) \/ LiftRow(r)
    <2>1. /\ "mark" \in Pcs /\ "mark" \notin Asking /\ "clear" \in Pcs /\ "clear" \notin Asking
          /\ Stage["mark"] < Stage["ban"] /\ Stage["clear"] < Stage["lift"]
      BY DEF Pcs, Asking, Stage
    <2>2. QED
      BY <1>3, <1>4, <1>13, <2>1 DEF BanRow, LiftRow
  <1>14. CASE TakeState(r) \/ Exchanged(r)
    <2>1. /\ "exchange" \in Pcs /\ "exchange" \notin Asking
          /\ "session" \in Pcs /\ "session" \notin Asking
          /\ Stage["exchange"] < Stage["take"] /\ Stage["session"] < Stage["exchange"]
      BY DEF Pcs, Asking, Stage
    <2>2. QED
      BY <1>3, <1>4, <1>14, <2>1 DEF TakeState, Exchanged
  <1>15. CASE \/ AddDelegate(r) \/ RemoveDelegate(r) \/ AddSuperMod(r) \/ RemoveSuperMod(r)
              \/ MarkAndCommit(r) \/ ClearAndCommit(r) \/ OpenSession(r) \/ DatabaseFails(r)
    BY <1>4, <1>15 DEF AddDelegate, RemoveDelegate, AddSuperMod, RemoveSuperMod, Writes,
       MarkAndCommit, ClearAndCommit, OpenSession, DatabaseFails
  <1>16. QED
    BY <1>8, <1>9, <1>10, <1>11, <1>12, <1>13, <1>14, <1>15 DEF Step

\* What others do leaves a request where it is.
LEMMA OthersLeaveRequests ==
  ASSUME TypeInv, [Next]_vars, NEW r \in Requests, request[r].pc # "idle", ~Step(r)
  PROVE  request'[r] = request[r]
  <1>0. request \in [Requests -> RequestRecords]
    BY DEF TypeInv, TypeOK
  <1>1. CASE UNCHANGED vars
    BY <1>1 DEF vars
  <1>2. ASSUME NEW q \in Requests, Step(q)
        PROVE  request'[r] = request[r]
    BY <1>2, StepHas DEF Effect, Moves
  <1>3. ASSUME NEW q \in Requests, request[q].pc = "idle", NEW s, request' = [request EXCEPT ![q] = s]
        PROVE  request'[r] = request[r]
    BY <1>0, <1>3
  <1>4. CASE \E q \in Requests : Arrives(q)
    BY <1>3, <1>4 DEF Arrives, Begin, Callback
  <1>5. CASE \/ \E u \in Users : Expire(u)
             \/ \E a \in Actors : EndSession(a)
             \/ \E b \in Browsers, s \in States : StartSignIn(b, s)
             \/ \E s \in States : ExpireState(s)
    BY <1>5 DEF Expire, EndSession, StartSignIn, ExpireState
  <1>6. QED
    BY <1>1, <1>2, <1>4, <1>5 DEF Next, Event

\* A request is a bounded number of statements, whatever happens meanwhile, and
\* the rows of map_bans wedge none (apply_map_ban, lift_map_ban).
THEOREM RequestsComeToAnEnd == Spec => []NoCircularWait /\ StatementsRunOut
  <1> DEFINE RunsOut == \A r \in Requests : request[r].pc # "idle" =>
           /\ Step(r) => Left(request[r])' < Left(request[r])
           /\ ~Step(r) => request'[r] = request[r]
  <1>1. IInv /\ [Next]_vars => [RunsOut]_vars
    <2>1. ASSUME TypeInv, NEW r \in Requests, Step(r)
          PROVE  Left(request[r])' < Left(request[r])
      BY <2>1, StatementsLead DEF Left
    <2>2. QED
      BY <2>1, OthersLeaveRequests DEF IInv
  <1> HIDE DEF RunsOut
  <1>2. Spec => [][RunsOut]_vars
    BY <1>1, Invariance, PTL DEF Spec
  <1>3. StatementsRunOut <=> [][RunsOut]_vars
    BY DEF StatementsRunOut, RunsOut
  <1>4. QED
    BY <1>2, <1>3, HoldersDoNotWait, PTL
=============================================================================
