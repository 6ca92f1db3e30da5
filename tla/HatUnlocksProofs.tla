------------------------- MODULE HatUnlocksProofs -------------------------
(***************************************************************************)
(* Proofs about HatUnlocks for every set of hats, maps and tasks and for   *)
(* every bound: the answer to a 213 never misses an unlock that the same   *)
(* connection has reported, and a withheld 213 is never forgotten.  Of its *)
(* answer coming in the end (WithheldIsAnswered, which rests on fairness)  *)
(* the safety half is proved: somebody who can go on is at work for it,    *)
(* and every task's steps bring it nearer to its end.                      *)
(***************************************************************************)
EXTENDS HatUnlocks, FiniteSetTheorems, TLAPS

\* What the reachable states add to the type: an unreleased task has a hat, an
\* answer being built has a map (and its items once they are read), and a task
\* validates or answers but never both.
WellFormed ==
    /\ \A t \in Tasks : task[t].pc # "idle" =>
           /\ task[t].hat \in Hats
           /\ answer[t].pc = "none"
    /\ \A a \in Actors :
           /\ answer[a].pc # "none" => answer[a].map \in Maps
           /\ answer[a].pc = "send" => answer[a].items \in Items

IInv ==
    /\ TypeOK
    /\ WellFormed
    /\ OwedMatchesTasks
    /\ InlineAnswerNotOwed
    /\ InlineAnswerIsCurrent
    /\ WithheldHasAnswerer

-----------------------------------------------------------------------------
(* The initial states.                                                     *)

\* A new connection: nothing owed, nothing validated, nothing answered.
LEMMA InitIInv == Init => IInv
  <1> SUFFICES ASSUME Init PROVE IInv
    OBVIOUS
  <1> USE HatUnlocksAssumption DEF Init, NoTask, NoReply, Actors
  <1>1. TypeOK
    BY DEF TypeOK
  <1>2. WellFormed
    BY DEF WellFormed
  <1>3. Validating = {}
    BY DEF Validating
  <1>4. OwedMatchesTasks
    BY <1>3 DEF OwedMatchesTasks
  <1>5. InlineAnswerNotOwed /\ InlineAnswerIsCurrent /\ WithheldHasAnswerer
    BY DEF InlineAnswerNotOwed, InlineAnswerIsCurrent, WithheldHasAnswerer
  <1>6. QED
    BY <1>1, <1>2, <1>4, <1>5 DEF IInv

-----------------------------------------------------------------------------
(* The type invariant and the well-formedness of records.                  *)

\* Every handler and task step keeps the types of the connection's state.
LEMMA TypeStep == IInv /\ [Next]_vars => TypeOK'
  <1> SUFFICES ASSUME IInv, [Next]_vars PROVE TypeOK'
    OBVIOUS
  <1> USE HatUnlocksAssumption DEF IInv, TypeOK, WellFormed, Actors
  <1>1. ASSUME NEW h \in Hats, NEW t \in Tasks, ReportHatUnlock(h, t) PROVE TypeOK'
    BY <1>1 DEF ReportHatUnlock, ReadRequest
  <1>2. ASSUME NEW m \in Maps, WithholdHatsMine(m) \/ SendHatsMine(m) PROVE TypeOK'
    BY <1>2 DEF WithholdHatsMine, SendHatsMine, ReadRequest, StartAnswer
  <1>3. ASSUME NEW t \in Tasks, AcquirePermit(t) PROVE TypeOK'
    BY <1>3 DEF AcquirePermit
  <1>4. ASSUME NEW t \in Tasks, GrantUnlock(t) \/ DenyUnlock(t) PROVE TypeOK'
    BY <1>4 DEF GrantUnlock, DenyUnlock
  <1>5. ASSUME NEW t \in Tasks, Release(t) PROVE TypeOK'
    BY <1>5 DEF Release, StartAnswer, NoTask
  <1>6. ASSUME NEW a \in Actors, CheckBinding(a) \/ AnswerFails(a) PROVE TypeOK'
    BY <1>6 DEF CheckBinding, AnswerFails, NoReply
  <1>7. ASSUME NEW a \in Actors, ReadItems(a) PROVE TypeOK'
    <2> DEFINE its == [listed |-> IF answer[a].map \in usable THEN HatsOf(answer[a].map) ELSE {},
                       open |-> (IF answer[a].map \in usable THEN HatsOf(answer[a].map) ELSE {}) \cap unlocked]
    <2>1. its \in Items
      BY DEF Items, HatsOf
    <2>2. /\ answer' = [answer EXCEPT ![a].pc = "send", ![a].items = its]
          /\ UNCHANGED <<owed, task, withheld, client, unlocked, usable, requests, rebinds>>
      BY <1>7 DEF ReadItems
    <2> HIDE DEF its
    <2>3. answer' \in [Actors -> [pc : {"none", "check", "items", "send"},
                                 map : Maps \cup {Nil},
                                 items : Items \cup {Nil}]]
      BY <2>1, <2>2
    <2>4. QED
      BY <2>2, <2>3
  <1>8. ASSUME NEW a \in Actors, SendAnswer(a) PROVE TypeOK'
    BY <1>8 DEF SendAnswer, NoReply
  <1>9. ASSUME NEW m \in Maps, UploadSpec(m) \/ Rematerialize(m) PROVE TypeOK'
    BY <1>9 DEF UploadSpec, Rematerialize, ChangeBinding
  <1>10. CASE UNCHANGED vars
    BY <1>10 DEF vars
  <1>11. QED
    BY <1>1, <1>2, <1>3, <1>4, <1>5, <1>6, <1>7, <1>8, <1>9, <1>10
    DEF Next, Request, Validate, Answer, Environment

\* A task keeps its hat until release, an answer its map until it is sent, and
\* a task starts to answer only once it has released its hat.
LEMMA WellFormedStep == IInv /\ [Next]_vars => WellFormed'
  <1> SUFFICES ASSUME IInv, [Next]_vars PROVE WellFormed'
    OBVIOUS
  <1> USE HatUnlocksAssumption DEF IInv, TypeOK, WellFormed, Actors
  <1>1. ASSUME NEW h \in Hats, NEW t \in Tasks, ReportHatUnlock(h, t) PROVE WellFormed'
    BY <1>1 DEF ReportHatUnlock, ReadRequest
  <1>2. ASSUME NEW m \in Maps, WithholdHatsMine(m) PROVE WellFormed'
    BY <1>2 DEF WithholdHatsMine, ReadRequest
  <1>3. ASSUME NEW m \in Maps, SendHatsMine(m) PROVE WellFormed'
    BY <1>3 DEF SendHatsMine, ReadRequest, StartAnswer
  <1>4. ASSUME NEW t \in Tasks, AcquirePermit(t) PROVE WellFormed'
    BY <1>4 DEF AcquirePermit
  <1>5. ASSUME NEW t \in Tasks, GrantUnlock(t) \/ DenyUnlock(t) PROVE WellFormed'
    BY <1>5, SMTT(30) DEF GrantUnlock, DenyUnlock
  <1>6. ASSUME NEW t \in Tasks, Release(t) PROVE WellFormed'
    <2>1. MapOf[task[t].hat] \in Maps
      BY <1>6 DEF Release
    <2>2. QED
      BY <1>6, <2>1 DEF Release, StartAnswer, NoTask
  <1>7. ASSUME NEW a \in Actors, CheckBinding(a) \/ AnswerFails(a) PROVE WellFormed'
    BY <1>7 DEF CheckBinding, AnswerFails, NoReply
  <1>8. ASSUME NEW a \in Actors, ReadItems(a) PROVE WellFormed'
    <2> DEFINE its == [listed |-> IF answer[a].map \in usable THEN HatsOf(answer[a].map) ELSE {},
                       open |-> (IF answer[a].map \in usable THEN HatsOf(answer[a].map) ELSE {}) \cap unlocked]
    <2>1. its \in Items
      BY DEF Items, HatsOf
    <2>2. /\ answer[a].pc = "items"
          /\ answer' = [answer EXCEPT ![a].pc = "send", ![a].items = its]
          /\ UNCHANGED <<owed, task, withheld, client, unlocked, usable, requests, rebinds>>
      BY <1>8 DEF ReadItems
    <2> HIDE DEF its
    <2>3. QED
      BY <2>1, <2>2
  <1>9. ASSUME NEW a \in Actors, SendAnswer(a) PROVE WellFormed'
    BY <1>9 DEF SendAnswer, NoReply
  <1>10. ASSUME NEW m \in Maps, UploadSpec(m) \/ Rematerialize(m) PROVE WellFormed'
    BY <1>10 DEF UploadSpec, Rematerialize, ChangeBinding
  <1>11. CASE UNCHANGED vars
    BY <1>11 DEF vars
  <1>12. QED
    BY <1>1, <1>2, <1>3, <1>4, <1>5, <1>6, <1>7, <1>8, <1>9, <1>10, <1>11
    DEF Next, Request, Validate, Answer, Environment

-----------------------------------------------------------------------------
(* The owed set.                                                           *)

\* begin adds the hat of a fresh task; release removes it with the task's end.
LEMMA OwedStep == IInv /\ [Next]_vars => OwedMatchesTasks'
  <1> SUFFICES ASSUME IInv, [Next]_vars PROVE OwedMatchesTasks'
    OBVIOUS
  <1> USE HatUnlocksAssumption DEF IInv, TypeOK, WellFormed, OwedMatchesTasks, Validating
  <1>1. ASSUME NEW h \in Hats, NEW t \in Tasks, ReportHatUnlock(h, t)
        PROVE  OwedMatchesTasks'
    <2>1. Validating' = Validating \cup {t}
      BY <1>1 DEF ReportHatUnlock
    <2>2. task'[t].hat = h /\ \A u \in Validating : task'[u] = task[u] /\ u # t
      BY <1>1 DEF ReportHatUnlock
    <2>3. h \notin owed /\ owed' = owed \cup {h}
      BY <1>1 DEF ReportHatUnlock
    <2>4. QED
      BY <2>1, <2>2, <2>3
  <1>2. ASSUME NEW t \in Tasks, AcquirePermit(t) \/ GrantUnlock(t) \/ DenyUnlock(t)
        PROVE  OwedMatchesTasks'
    <2>1. Validating' = Validating /\ owed' = owed
      BY <1>2 DEF AcquirePermit, GrantUnlock, DenyUnlock
    <2>2. \A u \in Tasks : task'[u].hat = task[u].hat
      BY <1>2 DEF AcquirePermit, GrantUnlock, DenyUnlock
    <2>3. QED
      BY <2>1, <2>2
  <1>3. ASSUME NEW t \in Tasks, Release(t) PROVE OwedMatchesTasks'
    <2>1. t \in Validating /\ Validating' = Validating \ {t}
      BY <1>3 DEF Release, NoTask
    <2>2. \A u \in Validating' : task'[u] = task[u]
      BY <1>3, <2>1 DEF Release
    <2>3. owed' = owed \ {task[t].hat}
      BY <1>3 DEF Release
    <2>4. QED
      BY <2>1, <2>2, <2>3
  <1>4. ASSUME UNCHANGED <<task, owed>> PROVE OwedMatchesTasks'
    BY <1>4
  <1>5. ASSUME NEW m \in Maps, WithholdHatsMine(m) \/ SendHatsMine(m)
        PROVE  UNCHANGED <<task, owed>>
    BY <1>5 DEF WithholdHatsMine, SendHatsMine
  <1>6. ASSUME NEW a \in Actors, Answer(a) PROVE UNCHANGED <<task, owed>>
    BY <1>6 DEF Answer, CheckBinding, ReadItems, AnswerFails, SendAnswer
  <1>7. ASSUME NEW m \in Maps, UploadSpec(m) \/ Rematerialize(m)
        PROVE  UNCHANGED <<task, owed>>
    BY <1>7 DEF UploadSpec, Rematerialize, ChangeBinding
  <1>8. CASE UNCHANGED vars
    BY <1>4, <1>8 DEF vars
  <1>9. QED
    BY <1>1, <1>2, <1>3, <1>4, <1>5, <1>6, <1>7, <1>8
    DEF Next, Request, Validate, Environment

-----------------------------------------------------------------------------
(* The read loop's own answers.                                            *)

\* Only the read loop adds to the owed set, and never while it answers.
LEMMA InlineStep == IInv /\ [Next]_vars => InlineAnswerNotOwed'
  <1> DEFINE NotOwed == \A h \in owed' : MapOf[h] # answer'[Reader].map
  <1> SUFFICES ASSUME IInv, [Next]_vars, answer'[Reader].pc # "none" PROVE NotOwed
    BY DEF InlineAnswerNotOwed, AnyForMap
  <1> USE HatUnlocksAssumption DEF IInv, TypeOK, WellFormed, InlineAnswerNotOwed, AnyForMap, Actors
  <1>1. ASSUME NEW h \in Hats, NEW t \in Tasks, ReportHatUnlock(h, t) PROVE FALSE
    BY <1>1 DEF ReportHatUnlock, ReadRequest
  <1>2. ASSUME NEW m \in Maps, WithholdHatsMine(m) PROVE FALSE
    BY <1>2 DEF WithholdHatsMine, ReadRequest
  <1>3. ASSUME NEW m \in Maps, SendHatsMine(m) PROVE NotOwed
    BY <1>3 DEF SendHatsMine, StartAnswer
  <1>4. ASSUME owed' \subseteq owed, answer[Reader].pc # "none",
               answer'[Reader].map = answer[Reader].map
        PROVE  NotOwed
    BY <1>4
  <1>5. ASSUME NEW t \in Tasks, AcquirePermit(t) \/ GrantUnlock(t) \/ DenyUnlock(t)
        PROVE  NotOwed
    BY <1>4, <1>5 DEF AcquirePermit, GrantUnlock, DenyUnlock
  <1>6. ASSUME NEW t \in Tasks, Release(t) PROVE NotOwed
    <2>1. owed' \subseteq owed /\ answer'[Reader] = answer[Reader]
      BY <1>6 DEF Release, StartAnswer
    <2>2. QED
      BY <1>4, <2>1
  <1>7. ASSUME NEW a \in Actors, Answer(a) PROVE NotOwed
    <2>1. owed' = owed
      BY <1>7 DEF Answer, CheckBinding, ReadItems, AnswerFails, SendAnswer
    <2>2. answer[Reader].pc # "none" /\ answer'[Reader].map = answer[Reader].map
      BY <1>7 DEF Answer, CheckBinding, ReadItems, AnswerFails, SendAnswer, NoReply
    <2>3. QED
      BY <1>4, <2>1, <2>2
  <1>8. ASSUME NEW m \in Maps, UploadSpec(m) \/ Rematerialize(m)
        PROVE  NotOwed
    BY <1>4, <1>8 DEF UploadSpec, Rematerialize, ChangeBinding
  <1>9. CASE UNCHANGED vars
    BY <1>4, <1>9 DEF vars
  <1>10. QED
    BY <1>1, <1>2, <1>3, <1>5, <1>6, <1>7, <1>8, <1>9
    DEF Next, Request, Validate, Environment

\* An unlock is committed by a task whose hat is owed, hence for another map
\* than the one being answered.
LEMMA CurrentStep == IInv /\ [Next]_vars => InlineAnswerIsCurrent'
  <1> SUFFICES ASSUME IInv, [Next]_vars, answer'[Reader].pc = "send",
                      answer'[Reader].items.listed # {}
               PROVE  answer'[Reader].items.open = HatsOf(answer'[Reader].map) \cap unlocked'
    BY DEF InlineAnswerIsCurrent, HatsOf
  <1> DEFINE Current == answer'[Reader].items.open = HatsOf(answer'[Reader].map) \cap unlocked'
  <1> USE HatUnlocksAssumption DEF IInv, TypeOK, WellFormed, InlineAnswerIsCurrent, Actors
  <1>1. ASSUME answer'[Reader] = answer[Reader], unlocked' = unlocked PROVE Current
    BY <1>1
  <1>2. ASSUME NEW h \in Hats, NEW t \in Tasks, ReportHatUnlock(h, t) PROVE Current
    BY <1>1, <1>2 DEF ReportHatUnlock
  <1>3. ASSUME NEW m \in Maps, WithholdHatsMine(m) PROVE Current
    BY <1>1, <1>3 DEF WithholdHatsMine
  <1>4. ASSUME NEW m \in Maps, SendHatsMine(m) PROVE FALSE
    BY <1>4 DEF SendHatsMine, StartAnswer
  <1>5. ASSUME NEW t \in Tasks, AcquirePermit(t) \/ DenyUnlock(t) PROVE Current
    BY <1>1, <1>5 DEF AcquirePermit, DenyUnlock
  <1>6. ASSUME NEW t \in Tasks, GrantUnlock(t) PROVE Current
    <2>1. answer' = answer /\ unlocked' = unlocked \cup {task[t].hat}
      BY <1>6 DEF GrantUnlock
    <2>2. task[t].hat \in owed
      BY <1>6 DEF GrantUnlock, OwedMatchesTasks, Validating
    <2>3. task[t].hat \notin HatsOf(answer[Reader].map)
      BY <2>1, <2>2 DEF InlineAnswerNotOwed, AnyForMap, HatsOf
    <2>4. QED
      BY <2>1, <2>3
  <1>7. ASSUME NEW t \in Tasks, Release(t) PROVE Current
    <2>1. unlocked' = unlocked /\ answer'[Reader] = answer[Reader]
      BY <1>7 DEF Release, StartAnswer
    <2>2. QED
      BY <1>1, <2>1
  <1>8. ASSUME NEW a \in Actors, CheckBinding(a) \/ AnswerFails(a) \/ SendAnswer(a)
        PROVE  Current
    <2>1. unlocked' = unlocked /\ answer'[Reader] = answer[Reader]
      BY <1>8 DEF CheckBinding, AnswerFails, SendAnswer, NoReply
    <2>2. QED
      BY <1>1, <2>1
  <1>9. ASSUME NEW a \in Actors, ReadItems(a), a # Reader PROVE Current
    <2>1. unlocked' = unlocked /\ answer'[Reader] = answer[Reader]
      BY <1>9 DEF ReadItems
    <2>2. QED
      BY <1>1, <2>1
  <1>10. ASSUME ReadItems(Reader) PROVE Current
    <2> DEFINE m == answer[Reader].map
               listed == IF m \in usable THEN HatsOf(m) ELSE {}
               its == [listed |-> listed, open |-> listed \cap unlocked]
    <2>1. answer' = [answer EXCEPT ![Reader].pc = "send", ![Reader].items = its]
      BY <1>10 DEF ReadItems
    <2>2. answer'[Reader].items = its /\ answer'[Reader].map = m
      BY <2>1
    <2>3. unlocked' = unlocked
      BY <1>10 DEF ReadItems
    <2>4. its.listed # {}
      BY <2>2
    <2>5. its.open = HatsOf(m) \cap unlocked
      BY <2>4
    <2>6. QED
      BY <2>2, <2>3, <2>5
  <1>11. ASSUME NEW m \in Maps, UploadSpec(m) \/ Rematerialize(m) PROVE Current
    BY <1>1, <1>11 DEF UploadSpec, Rematerialize, ChangeBinding
  <1>12. CASE UNCHANGED vars
    BY <1>1, <1>12 DEF vars
  <1>13. QED
    BY <1>2, <1>3, <1>4, <1>5, <1>6, <1>7, <1>8, <1>9, <1>10, <1>11, <1>12
    DEF Next, Request, Validate, Answer, Environment

-----------------------------------------------------------------------------
(* Withheld answers.                                                       *)

\* The release that empties a map's owed hats hands the map to the releasing
\* task, whose own answer slot was free.
LEMMA WithheldStep == IInv /\ [Next]_vars => WithheldHasAnswerer'
  <1> DEFINE Owed(m) == \E h \in owed : MapOf[h] = m
             Answering(m) == \E t \in Tasks : answer[t].pc # "none" /\ answer[t].map = m
  <1> SUFFICES ASSUME IInv, [Next]_vars, NEW m \in Maps, m \in withheld'
               PROVE  Owed(m)' \/ Answering(m)'
    BY TypeStep DEF WithheldHasAnswerer, AnyForMap, TypeOK
  <1> USE HatUnlocksAssumption DEF IInv, TypeOK, WellFormed, Actors
  <1>1. m \in withheld => Owed(m) \/ Answering(m)
    BY DEF WithheldHasAnswerer, AnyForMap
  <1>2. ASSUME m \in withheld, owed \subseteq owed',
               \A t \in Tasks : answer[t].pc # "none" =>
                   answer'[t].pc # "none" /\ answer'[t].map = answer[t].map
        PROVE  Owed(m)' \/ Answering(m)'
    BY <1>1, <1>2
  <1>3. ASSUME NEW h \in Hats, NEW t \in Tasks, ReportHatUnlock(h, t)
        PROVE  Owed(m)' \/ Answering(m)'
    BY <1>2, <1>3 DEF ReportHatUnlock
  <1>4. ASSUME NEW n \in Maps, WithholdHatsMine(n) PROVE Owed(m)' \/ Answering(m)'
    <2>1. CASE m = n
      BY <1>4, <2>1 DEF WithholdHatsMine, AnyForMap
    <2>2. CASE m # n
      BY <1>2, <1>4, <2>2 DEF WithholdHatsMine
    <2>3. QED
      BY <2>1, <2>2
  <1>5. ASSUME NEW n \in Maps, SendHatsMine(n) PROVE Owed(m)' \/ Answering(m)'
    BY <1>2, <1>5 DEF SendHatsMine, StartAnswer
  <1>6. ASSUME NEW t \in Tasks, AcquirePermit(t) \/ GrantUnlock(t) \/ DenyUnlock(t)
        PROVE  Owed(m)' \/ Answering(m)'
    BY <1>2, <1>6 DEF AcquirePermit, GrantUnlock, DenyUnlock
  <1>7. ASSUME NEW t \in Tasks, Release(t) PROVE Owed(m)' \/ Answering(m)'
    <2>1. /\ task[t].pc = "judged"
          /\ m \in withheld
          /\ owed' = owed \ {task[t].hat}
          /\ answer' = IF \E g \in owed \ {task[t].hat} : MapOf[g] = MapOf[task[t].hat]
                       THEN answer
                       ELSE StartAnswer(t, MapOf[task[t].hat])
      BY <1>7 DEF Release
    <2>2. Answering(m) => Answering(m)'
      BY <2>1 DEF StartAnswer
    <2>3. CASE Owed(m) /\ m = MapOf[task[t].hat]
      BY <2>1, <2>3 DEF StartAnswer
    <2>4. CASE Owed(m) /\ m # MapOf[task[t].hat]
      BY <2>1, <2>4
    <2>5. QED
      BY <1>1, <2>1, <2>2, <2>3, <2>4
  <1>8. ASSUME NEW a \in Actors, Answer(a) PROVE Owed(m)' \/ Answering(m)'
    <2>1. CASE answer[a].map = m /\ a \in Tasks
      <3>1. answer'[a].pc # "none" /\ answer'[a].map = m
        BY <1>8, <2>1 DEF Answer, CheckBinding, ReadItems, AnswerFails, SendAnswer
      <3>2. QED
        BY <2>1, <3>1
    <2>2. CASE answer[a].map = m /\ a = Reader
      <3>1. m \in withheld /\ owed' = owed
        BY <1>8 DEF Answer, CheckBinding, ReadItems, AnswerFails, SendAnswer
      <3>2. \A t \in Tasks : answer'[t] = answer[t]
        BY <1>8, <2>2 DEF Answer, CheckBinding, ReadItems, AnswerFails, SendAnswer
      <3>3. QED
        BY <1>2, <3>1, <3>2
    <2>3. CASE answer[a].map # m
      <3>1. m \in withheld /\ owed' = owed
        BY <1>8 DEF Answer, CheckBinding, ReadItems, AnswerFails, SendAnswer
      <3>2. \A t \in Tasks : t # a => answer'[t] = answer[t]
        BY <1>8 DEF Answer, CheckBinding, ReadItems, AnswerFails, SendAnswer
      <3>3. QED
        BY <1>1, <2>3, <3>1, <3>2
    <2>4. QED
      BY <2>1, <2>2, <2>3
  <1>9. ASSUME NEW n \in Maps, UploadSpec(n) \/ Rematerialize(n)
        PROVE  Owed(m)' \/ Answering(m)'
    BY <1>2, <1>9 DEF UploadSpec, Rematerialize, ChangeBinding
  <1>10. CASE UNCHANGED vars
    BY <1>2, <1>10 DEF vars
  <1>11. QED
    BY <1>3, <1>4, <1>5, <1>6, <1>7, <1>8, <1>9, <1>10
    DEF Next, Request, Validate, Environment

-----------------------------------------------------------------------------
(* The bounds, and who is at work for a withheld answer.                   *)

\* No more reports are owed than MAX_PENDING_HAT_UNLOCKS and no more
\* validations run than the semaphore has permits.
BoundsKept ==
    /\ IsFiniteSet(Running) /\ Cardinality(Running) <= MaxValidations
    /\ Cardinality(owed) <= MaxPending

\* Task t will take part in the answer for map m: it owes m a verdict, or it
\* builds the answer.
WorksFor(t, m) ==
    \/ t \in Validating /\ MapOf[task[t].hat] = m
    \/ answer[t].pc # "none" /\ answer[t].map = m

\* Only a task in line for a permit may have to wait.
Ready(t) == task[t].pc = "queued" => Cardinality(Running) < MaxValidations

\* Somebody works for every withheld answer, and if he waits for a permit it is
\* held by a validation that runs, which waits for nobody.
WithheldIsWorkedOn ==
    \A m \in withheld : \E t \in Tasks :
        /\ WorksFor(t, m)
        /\ Ready(t) \/ \E u \in Running : Ready(u)

\* The steps a spawned task has before it at most.
WorkLeft(t) ==
    CASE task[t].pc = "queued" -> 6
      [] task[t].pc = "running" -> 5
      [] task[t].pc = "judged" -> 4
      [] task[t].pc = "idle" /\ answer[t].pc = "check" -> 3
      [] task[t].pc = "idle" /\ answer[t].pc = "items" -> 2
      [] task[t].pc = "idle" /\ answer[t].pc = "send" -> 1
      [] task[t].pc = "idle" /\ answer[t].pc = "none" -> 0

\* A task that is at work is given no more, whoever acts, and loses some by
\* each step of its own.
WorkGetsDone ==
    \A t \in Tasks :
        /\ WorkLeft(t) # 0 => WorkLeft(t)' <= WorkLeft(t)
        /\ Validate(t) \/ Answer(t) => WorkLeft(t)' < WorkLeft(t)

\* The owed set grows by a report below its bound, the running validations by
\* one that found a permit.
LEMMA BoundsStep == IInv /\ BoundsKept /\ [Next]_vars => BoundsKept'
  <1> SUFFICES ASSUME IInv, BoundsKept, [Next]_vars PROVE BoundsKept'
    OBVIOUS
  <1> USE HatUnlocksAssumption DEF IInv, TypeOK, BoundsKept
  <1>1. IsFiniteSet(owed)
    BY FS_Subset
  <1>2. ASSUME Running' \subseteq Running, owed' \subseteq owed PROVE BoundsKept'
    <2>1. IsFiniteSet(Running') /\ Cardinality(Running') <= Cardinality(Running)
      BY <1>2, FS_Subset
    <2>2. Cardinality(owed') <= Cardinality(owed)
      BY <1>1, <1>2, FS_Subset
    <2>3. /\ Cardinality(Running) \in Nat /\ Cardinality(Running') \in Nat
          /\ Cardinality(owed) \in Nat /\ Cardinality(owed') \in Nat
      BY <1>1, <1>2, <2>1, FS_Subset, FS_CardinalityType
    <2>4. QED
      BY <2>1, <2>2, <2>3
  <1>3. ASSUME NEW h \in Hats, NEW t \in Tasks, ReportHatUnlock(h, t) PROVE BoundsKept'
    <2>1. Running' = Running
      BY <1>3 DEF ReportHatUnlock, Running
    <2>2. owed' = owed \cup {h} /\ h \notin owed /\ Cardinality(owed) < MaxPending
      BY <1>3 DEF ReportHatUnlock
    <2>3. Cardinality(owed') = Cardinality(owed) + 1 /\ Cardinality(owed) \in Nat
      BY <1>1, <2>2, FS_AddElement, FS_CardinalityType
    <2>4. Cardinality(owed') <= MaxPending
      BY <2>2, <2>3
    <2>5. QED
      BY <2>1, <2>4
  <1>4. ASSUME NEW t \in Tasks, AcquirePermit(t) PROVE BoundsKept'
    <2>1. Running' = Running \cup {t} /\ t \notin Running /\ owed' = owed
      BY <1>4 DEF AcquirePermit, Running
    <2>2. Cardinality(Running) < MaxValidations
      BY <1>4 DEF AcquirePermit
    <2>3. /\ IsFiniteSet(Running') /\ Cardinality(Running') = Cardinality(Running) + 1
          /\ Cardinality(Running) \in Nat
      BY <2>1, FS_AddElement, FS_CardinalityType
    <2>4. Cardinality(Running') <= MaxValidations
      BY <2>2, <2>3
    <2>5. QED
      BY <2>1, <2>3, <2>4
  <1>5. ASSUME NEW t \in Tasks, GrantUnlock(t) \/ DenyUnlock(t) \/ Release(t)
        PROVE  BoundsKept'
    <2>1. Running' \subseteq Running
      BY <1>5 DEF GrantUnlock, DenyUnlock, Release, Running, NoTask
    <2>2. owed' \subseteq owed
      BY <1>5 DEF GrantUnlock, DenyUnlock, Release
    <2>3. QED
      BY <1>2, <2>1, <2>2
  <1>6. ASSUME UNCHANGED <<task, owed>> PROVE BoundsKept'
    BY <1>2, <1>6 DEF Running
  <1>7. ASSUME NEW m \in Maps, WithholdHatsMine(m) \/ SendHatsMine(m)
        PROVE  UNCHANGED <<task, owed>>
    BY <1>7 DEF WithholdHatsMine, SendHatsMine
  <1>8. ASSUME NEW a \in Actors, Answer(a) PROVE UNCHANGED <<task, owed>>
    BY <1>8 DEF Answer, CheckBinding, ReadItems, AnswerFails, SendAnswer
  <1>9. ASSUME NEW m \in Maps, UploadSpec(m) \/ Rematerialize(m)
        PROVE  UNCHANGED <<task, owed>>
    BY <1>9 DEF UploadSpec, Rematerialize, ChangeBinding
  <1>10. CASE UNCHANGED vars
    BY <1>6, <1>10 DEF vars
  <1>11. QED
    BY <1>3, <1>4, <1>5, <1>6, <1>7, <1>8, <1>9, <1>10
    DEF Next, Request, Validate, Environment

\* An owed hat has its task; a task that finds no permit shows that somebody
\* runs, since there is at least one permit.
LEMMA WorkersExist == IInv /\ BoundsKept => WithheldIsWorkedOn
  <1> SUFFICES ASSUME IInv, BoundsKept, NEW m \in withheld
               PROVE  \E t \in Tasks : /\ WorksFor(t, m)
                                       /\ Ready(t) \/ \E u \in Running : Ready(u)
    BY DEF WithheldIsWorkedOn
  <1> USE HatUnlocksAssumption DEF IInv, TypeOK, WellFormed, Actors
  <1>1. PICK t \in Tasks : WorksFor(t, m)
    BY DEF WithheldHasAnswerer, AnyForMap, OwedMatchesTasks, WorksFor, Validating
  <1>2. ASSUME ~Ready(t) PROVE \E u \in Running : Ready(u)
    <2>1. Cardinality(Running) \in Nat
      BY FS_CardinalityType DEF BoundsKept
    <2>2. Cardinality(Running) # 0
      BY <1>2, <2>1 DEF Ready
    <2>3. Running # {}
      BY <2>2, FS_EmptySet
    <2>4. \A u \in Running : Ready(u)
      BY DEF Running, Ready
    <2>5. QED
      BY <2>3, <2>4
  <1>3. QED
    BY <1>1, <1>2

\* Queued, running, judged; then, for the task that drained the map, the check,
\* the query and the send.  Only an idle task is given a report.
LEMMA WorkStep == IInv /\ [Next]_vars => WorkGetsDone
  <1> SUFFICES ASSUME IInv, [Next]_vars, NEW t \in Tasks
               PROVE  /\ WorkLeft(t) # 0 => WorkLeft(t)' <= WorkLeft(t)
                      /\ Validate(t) \/ Answer(t) => WorkLeft(t)' < WorkLeft(t)
    BY DEF WorkGetsDone
  <1> USE HatUnlocksAssumption DEF IInv, TypeOK, WellFormed, Actors
  <1>1. /\ task[t].pc \in {"idle", "queued", "running", "judged"}
        /\ answer[t].pc \in {"none", "check", "items", "send"}
        /\ task[t].pc # "idle" => answer[t].pc = "none"
    OBVIOUS
  <1>2. WorkLeft(t) \in 0 .. 6
    BY <1>1 DEF WorkLeft
  <1>3. ASSUME Validate(t) \/ Answer(t) PROVE WorkLeft(t)' < WorkLeft(t)
    <2>1. CASE AcquirePermit(t)
      BY <2>1 DEF AcquirePermit, WorkLeft
    <2>2. CASE GrantUnlock(t) \/ DenyUnlock(t)
      BY <2>2 DEF GrantUnlock, DenyUnlock, WorkLeft
    <2>3. CASE Release(t)
      <3>1. task[t].pc = "judged" /\ task'[t].pc = "idle"
        BY <2>3 DEF Release, NoTask
      <3>2. answer'[t].pc \in {"none", "check"}
        BY <2>3, <1>1 DEF Release, StartAnswer
      <3>3. WorkLeft(t) = 4
        BY <3>1 DEF WorkLeft
      <3>4. WorkLeft(t)' \in {0, 3}
        BY <3>1, <3>2 DEF WorkLeft
      <3>5. QED
        BY <3>3, <3>4
    <2>4. CASE Answer(t)
      <3>1. task'[t].pc = "idle" /\ task[t].pc = "idle"
        BY <1>1, <2>4 DEF Answer, CheckBinding, ReadItems, AnswerFails, SendAnswer
      <3>2. \/ answer[t].pc = "check" /\ answer'[t].pc \in {"items", "none"}
            \/ answer[t].pc = "items" /\ answer'[t].pc \in {"send", "none"}
            \/ answer[t].pc = "send" /\ answer'[t].pc = "none"
        BY <2>4 DEF Answer, CheckBinding, ReadItems, AnswerFails, SendAnswer, NoReply
      <3>3. QED
        BY <3>1, <3>2 DEF WorkLeft
    <2>5. QED
      BY <1>3, <2>1, <2>2, <2>3, <2>4 DEF Validate
  <1>4. ASSUME task'[t] = task[t], answer'[t] = answer[t] PROVE WorkLeft(t)' <= WorkLeft(t)
    <2>1. WorkLeft(t)' = WorkLeft(t)
      BY <1>4 DEF WorkLeft
    <2>2. QED
      BY <1>2, <2>1
  <1>5. ASSUME WorkLeft(t) # 0, ~(Validate(t) \/ Answer(t))
        PROVE  WorkLeft(t)' <= WorkLeft(t)
    <2>0. ~(task[t].pc = "idle" /\ answer[t].pc = "none")
      BY <1>5 DEF WorkLeft
    <2>1. ASSUME NEW h \in Hats, NEW u \in Tasks, ReportHatUnlock(h, u)
          PROVE  task'[t] = task[t] /\ answer'[t] = answer[t]
      BY <2>0, <2>1 DEF ReportHatUnlock
    <2>2. ASSUME NEW m \in Maps, WithholdHatsMine(m) \/ SendHatsMine(m)
          PROVE  task'[t] = task[t] /\ answer'[t] = answer[t]
      BY <2>2 DEF WithholdHatsMine, SendHatsMine, StartAnswer
    <2>3. ASSUME NEW u \in Tasks, u # t, Validate(u)
          PROVE  task'[t] = task[t] /\ answer'[t] = answer[t]
      BY <2>3 DEF Validate, AcquirePermit, GrantUnlock, DenyUnlock, Release, StartAnswer
    <2>4. ASSUME NEW a \in Actors, a # t, Answer(a)
          PROVE  task'[t] = task[t] /\ answer'[t] = answer[t]
      BY <2>4 DEF Answer, CheckBinding, ReadItems, AnswerFails, SendAnswer
    <2>5. ASSUME NEW m \in Maps, UploadSpec(m) \/ Rematerialize(m)
          PROVE  task'[t] = task[t] /\ answer'[t] = answer[t]
      BY <2>5 DEF UploadSpec, Rematerialize, ChangeBinding
    <2>6. CASE UNCHANGED vars
      BY <1>4, <2>6 DEF vars
    <2>7. QED
      BY <1>4, <1>5, <2>1, <2>2, <2>3, <2>4, <2>5, <2>6
      DEF Next, Request, Environment
  <1>6. CASE Validate(t) \/ Answer(t)
    <2>1. WorkLeft(t)' < WorkLeft(t)
      BY <1>3, <1>6
    <2>2. WorkLeft(t)' \in Int
      BY TypeStep, WellFormedStep DEF WorkLeft
    <2>3. QED
      BY <1>2, <2>1, <2>2
  <1>7. QED
    BY <1>3, <1>5, <1>6

-----------------------------------------------------------------------------
(* The theorems.                                                           *)

\* The conjunction of the above is inductive, so every reachable state of the
\* connection satisfies it.
LEMMA Invariance == Spec => []IInv
  <1>1. IInv /\ [Next]_vars => IInv'
    BY TypeStep, WellFormedStep, OwedStep, InlineStep, CurrentStep, WithheldStep DEF IInv
  <1>2. QED
    BY InitIInv, <1>1, PTL DEF Spec

\* Every reachable state is of the declared type.
THEOREM TypeCorrect == Spec => []TypeOK
  <1>1. IInv => TypeOK
    BY DEF IInv
  <1>2. QED
    BY Invariance, <1>1, PTL

\* PendingHatUnlocks::begin/release: the owed set is the hats of the running
\* validations, with no duplicate and no leak.
THEOREM OwedIsExact == Spec => []OwedMatchesTasks
  <1>1. IInv => OwedMatchesTasks
    BY DEF IInv
  <1>2. QED
    BY Invariance, <1>1, PTL

\* send_hats_mine: an answer the read loop builds itself never races a
\* validation for the same map, so it cannot list as locked a hat whose unlock
\* was committed in between.
THEOREM InlineAnswersAreSafe == Spec => []InlineAnswerIsCurrent
  <1>1. IInv => InlineAnswerIsCurrent
    BY DEF IInv
  <1>2. QED
    BY Invariance, <1>1, PTL

\* The read loop answers a 213 itself only while no validation for that map is
\* owed, and none becomes owed before it has sent the answer.
THEOREM InlineAnswersOweNothing == Spec => []InlineAnswerNotOwed
  <1>1. IInv => InlineAnswerNotOwed
    BY DEF IInv
  <1>2. QED
    BY Invariance, <1>1, PTL

\* report_hat_unlock: whoever withholds a 213 leaves a task that will answer it.
THEOREM WithheldIsNeverOrphaned == Spec => []WithheldHasAnswerer
  <1>1. IInv => WithheldHasAnswerer
    BY DEF IInv
  <1>2. QED
    BY Invariance, <1>1, PTL

\* limits in report_hat_unlock and the validation semaphore: neither bound is
\* exceeded, whatever the order of reports, permits and releases.
THEOREM BoundsAreKept == Spec => []BoundsKept
  <1>1. Init => BoundsKept
    <2> SUFFICES ASSUME Init PROVE BoundsKept
      OBVIOUS
    <2>1. Running = {} /\ owed = {}
      BY DEF Init, Running, NoTask
    <2>2. QED
      BY <2>1, FS_EmptySet, HatUnlocksAssumption DEF BoundsKept
  <1>2. QED
    BY Invariance, <1>1, BoundsStep, PTL DEF Spec

\* No withheld 213 waits for tasks that all wait: the safety half of
\* WithheldIsAnswered.
THEOREM WithheldIsBeingWorkedOn == Spec => []WithheldIsWorkedOn
  BY Invariance, BoundsAreKept, WorkersExist, PTL

\* Every step of a spawned task brings it nearer to its end and nobody sets it
\* back, so it validates and answers for a bounded number of its own steps.
THEOREM TasksComeToTheirEnd == Spec => [][WorkGetsDone]_vars
  <1> DEFINE P == WorkGetsDone
  <1>1. IInv /\ [Next]_vars => [P]_vars
    BY WorkStep
  <1> HIDE DEF P
  <1>2. Spec => [][P]_vars
    BY Invariance, <1>1, PTL DEF Spec
  <1>3. QED
    BY <1>2 DEF P
=============================================================================
