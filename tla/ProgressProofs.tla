--------------------------- MODULE ProgressProofs ---------------------------
(***************************************************************************)
(* Proofs about PlayerProgress: for any number of players, connections,    *)
(* specs and slugs, and whatever was collected before there was a log,     *)
(* what becomes collected is logged in the same step, a player's row sums  *)
(* up the attempts, and a report counts only for the spec that it named.   *)
(*                                                                         *)
(* What carries them: a transaction that has locked or written a player's  *)
(* row is alone in that (Exclusive), so what it has read of the row stays  *)
(* true until it commits (Fits); and while a transaction shares the spec   *)
(* and the binding, neither an upload nor a bind touches them.             *)
(*                                                                         *)
(* With what a report has found on the map (AllJudged) this makes the      *)
(* report count at its commit, as ProgressLedger says.  At the end: nobody *)
(* waits for rows in a circle, and a report's statements run out.          *)
(***************************************************************************)
EXTENDS PlayerProgress, TLAPS

\* The transaction r keeps the player's row to itself.
Holding(r) == r.pc \in {"log", "score", "commit"} \/ (r.pc = "upsert" /\ r.holds)

SameRow(r, q) ==
    r.user = q.user /\ r.slug = q.slug /\ (r.kind = "attempt") = (q.kind = "attempt")

Exclusive ==
    \A s, t \in Tasks :
        (s # t /\ SameRow(task[s], task[t])) => ~Holding(task[s]) \/ ~Holding(task[t])

Place(r) == <<r.user, r.slug>>

\* Fields of a report, in the order in which it fills them.
Shaped(r) ==
    /\ r.finish => r.time >= 0
    /\ r.pc # "idle" => r.user \in Users /\ r.spec \in Specs /\ r.slug \in Slugs
    /\ r.pc \in {"attempt", "score"} => r.kind = "attempt"
    /\ r.pc \in {"select", "log"} => r.kind = "collect"
    /\ r.pc = "upsert" => r.kind # "attempt"
    /\ r.pc = "score" => r.finish
    /\ r.pc = "log" => r.first
    /\ r.holds => r.pc # "lock"
    /\ r.logs => r.pc = "commit" /\ r.kind = "collect"

\* What a collection's transaction has read of the player's row is still so: it
\* was collected, or it was not and whoever collects it meanwhile logs that.  The
\* transaction logs if and only if it is the one that collects.
Collects(r) ==
    /\ (r.kind = "collect" /\ r.pc \in {"upsert", "log", "commit"}) =>
           IF r.first
           THEN progress[Place(r)].collected => log[Place(r)] # "none"
           ELSE progress[Place(r)].collected
    /\ (r.kind = "collect" /\ r.pc = "commit") =>
           (r.logs <=> ~progress[Place(r)].collected)

\* What is in the log is collected.
LoggedIsCollected ==
    \A key \in Keys : log[key] # "none" => progress[key].collected

\* The better of a finish and the score that is there.
Beats(r, old) ==
    \/ old.finishes = 0
    \/ IF r.lower THEN r.time < old.score ELSE r.time > old.score

\* So is what an attempt's transaction has read, and what it will write.
Attempts(r) ==
    LET old == pb[Place(r)] IN
    r.kind = "attempt" =>
        /\ r.pc \in {"score", "commit"} => r.pb.attempts = old.attempts + 1
        /\ r.pc = "score" => r.pb.finishes = old.finishes /\ r.pb.score = old.score
        /\ r.pc = "commit" =>
               /\ r.pb.finishes = IF r.finish THEN old.finishes + 1 ELSE old.finishes
               /\ r.pb.score = IF r.finish /\ Beats(r, old) THEN r.time ELSE old.score

Under(r) == r.pc \notin {"idle", "lock"} => Materialized(r.spec)

Fits(r) == Shaped(r) /\ Collects(r) /\ Attempts(r) /\ Under(r)

\* A player has finished a game if some finish of it has a time.
FinishesCounted ==
    \A key \in Keys : finishes[key] = 0 <=> finished[key] = {}

IInv ==
    /\ TypeOK
    /\ \A t \in Tasks : Fits(task[t])
    /\ Exclusive
    /\ FinishesCounted /\ LoggedIsCollected /\ PbSummarisesAttempts

-----------------------------------------------------------------------------
\* A task without a report is well formed.
LEMMA IdleType ==
  /\ IdleTask \in TaskRecords /\ IdleTask.pc = "idle" /\ ~IdleTask.finish
  /\ ~IdleTask.logs /\ ~IdleTask.holds /\ IdleTask.kind = "unlock"
  <1>1. (CHOOSE n \in Times : TRUE) \in Times
    BY ProgressAssumption
  <1>2. NoPb \in PbRecords
    BY DEF NoPb, PbRecords
  <1>3. IdleTask \in TaskRecords
    BY <1>1, <1>2, ZenonT(40) DEF IdleTask, TaskRecords
  <1>4. QED
    BY <1>3 DEF IdleTask

\* An idle task says nothing of the tables.
LEMMA IdleFits == ASSUME NEW r, r.pc = "idle", ~r.finish, ~r.logs PROVE Fits(r)
  BY DEF Fits, Shaped, Collects, Attempts, Under

\* The server starts with collections older than the log, if any, and without attempts.
LEMMA InitIInv == Init => IInv
  <1> SUFFICES ASSUME Init PROVE IInv
    OBVIOUS
  <1> USE DEF Init
  <1>1. \A t \in Tasks : task[t] = IdleTask
    OBVIOUS
  <1>2. TypeOK
    <2>1. NoPb \in PbRecords
      BY DEF NoPb, PbRecords
    <2>2. NoRow \in [unlocked : BOOLEAN, collected : BOOLEAN]
      BY DEF NoRow
    <2>5. PICK old \in SUBSET OldRows : progress = [key \in Keys |->
               IF key \in old THEN [unlocked |-> TRUE, collected |-> TRUE] ELSE NoRow]
      OBVIOUS
    <2>3. progress \in [Keys -> [unlocked : BOOLEAN, collected : BOOLEAN]]
      BY <2>2, <2>5
    <2>4. QED
      BY <2>1, <2>3, IdleType DEF TypeOK
  <1>3. \A t \in Tasks : Fits(task[t])
    BY <1>1, IdleType, IdleFits
  <1>4. Exclusive
    BY <1>1, IdleType DEF Exclusive, Holding
  <1>5. FinishesCounted
    BY DEF FinishesCounted
  <1>6. LoggedIsCollected
    BY DEF LoggedIsCollected
  <1>7. PbSummarisesAttempts
    BY DEF PbSummarisesAttempts, NoPb
  <1>8. QED
    BY <1>2, <1>3, <1>4, <1>5, <1>6, <1>7 DEF IInv

-----------------------------------------------------------------------------
(* Steps that write no table.                                              *)

\* A report goes on.  It may come to hold its row if nobody else does.
LEMMA MovesKeep ==
  ASSUME IInv, NEW t \in Tasks, NEW r \in TaskRecords,
         task' = [task EXCEPT ![t] = r], UNCHANGED <<binding, records>>, Fits(r),
         Holding(r) => SameRow(r, task[t]) /\ (Holding(task[t]) \/ ~RowHeld(t))
  PROVE  IInv'
  <1>1. task'[t] = r /\ \A s \in Tasks \ {t} : task'[s] = task[s]
    BY DEF IInv, TypeOK
  <1>2. TypeOK'
    BY DEF IInv, TypeOK, binding, records
  <1>3. \A q : Fits(q)' <=> Fits(q)
    BY DEF Fits, Shaped, Collects, Attempts, Beats, Under, Materialized, binding, records
  <1>4. \A s \in Tasks : Fits(task[s])'
    BY <1>1, <1>3 DEF IInv
  <1>5. Exclusive'
    <2>1. ASSUME NEW s \in Tasks \ {t}, SameRow(task[s], r), Holding(task[s]), Holding(r)
          PROVE  FALSE
      BY <2>1 DEF IInv, Exclusive, SameRow, RowHeld, Holding
    <2>2. QED
      BY <1>1, <2>1 DEF IInv, Exclusive, SameRow
  <1>6. FinishesCounted' /\ LoggedIsCollected' /\ PbSummarisesAttempts'
    BY DEF IInv, FinishesCounted, LoggedIsCollected, PbSummarisesAttempts, records
  <1>7. QED
    BY <1>2, <1>4, <1>5, <1>6 DEF IInv

\* A report ends without a commit.
LEMMA DropKeeps ==
  ASSUME IInv, NEW t \in Tasks, Drop(t), UNCHANGED <<binding, records>>
  PROVE  IInv'
  BY IdleType, IdleFits, MovesKeep DEF Drop, Holding

\* A report arrives.
LEMMA ReportsKeep ==
  ASSUME IInv, NEW t \in Tasks, NEW u \in Users, NEW s \in Specs, NEW k \in Slugs,
         \/ ReportUnlock(t, u, s, k)
         \/ \E source \in {"zone", "grant"} : ReportCollect(t, u, s, k, source)
         \/ \E time \in Times, finish \in BOOLEAN : ReportAttempt(t, u, s, k, time, finish)
  PROVE  IInv'
  <1> USE ProgressAssumption
  <1>1. ASSUME NEW r \in TaskRecords, r.pc = "lock", r.user = u, r.spec = s, r.slug = k,
               r.finish => r.time >= 0, ~r.logs, ~r.holds,
               task' = [task EXCEPT ![t] = r], UNCHANGED <<binding, records>>
        PROVE  IInv'
    <2>1. Fits(r)
      BY <1>1 DEF Fits, Shaped, Collects, Attempts, Under
    <2>2. ~Holding(r)
      BY <1>1 DEF Holding
    <2>3. QED
      BY <1>1, <2>1, <2>2, MovesKeep
  <1>2. CASE ReportUnlock(t, u, s, k)
    <2> DEFINE r == [IdleTask EXCEPT !.pc = "lock", !.user = u, !.spec = s, !.slug = k]
    <2>1. r \in TaskRecords
      BY IdleType, ZenonT(40) DEF TaskRecords
    <2>2. /\ r.pc = "lock" /\ r.user = u /\ r.spec = s /\ r.slug = k
          /\ r.finish = IdleTask.finish /\ r.logs = IdleTask.logs /\ r.holds = IdleTask.holds
      BY IdleType DEF TaskRecords
    <2>3. task' = [task EXCEPT ![t] = r] /\ UNCHANGED <<binding, records>>
      BY <1>2 DEF ReportUnlock
    <2> HIDE DEF r
    <2>4. QED
      BY <1>1, <2>1, <2>2, <2>3, IdleType
  <1>3. ASSUME NEW source \in {"zone", "grant"}, ReportCollect(t, u, s, k, source) PROVE IInv'
    <2> DEFINE r == [IdleTask EXCEPT !.pc = "lock", !.kind = "collect", !.user = u, !.spec = s,
                                     !.slug = k, !.source = source]
    <2>1. r \in TaskRecords
      BY IdleType, ZenonT(40) DEF TaskRecords
    <2>2. /\ r.pc = "lock" /\ r.user = u /\ r.spec = s /\ r.slug = k
          /\ r.finish = IdleTask.finish /\ r.logs = IdleTask.logs /\ r.holds = IdleTask.holds
      BY IdleType DEF TaskRecords
    <2>3. task' = [task EXCEPT ![t] = r] /\ UNCHANGED <<binding, records>>
      BY <1>3 DEF ReportCollect
    <2> HIDE DEF r
    <2>4. QED
      BY <1>1, <2>1, <2>2, <2>3, IdleType
  <1>4. ASSUME NEW time \in Times, NEW finish \in BOOLEAN,
               ReportAttempt(t, u, s, k, time, finish)
        PROVE  IInv'
    <2> DEFINE m == IF finish THEN time ELSE IdleTask.time
               r == [IdleTask EXCEPT !.pc = "lock", !.kind = "attempt", !.user = u, !.spec = s,
                        !.slug = k, !.time = IF finish THEN time ELSE @, !.finish = finish]
    <2>1. IdleTask.time \in Times
      BY IdleType DEF TaskRecords
    <2>2. m \in Times
      BY <2>1
    <2>3. r = [IdleTask EXCEPT !.pc = "lock", !.kind = "attempt", !.user = u, !.spec = s,
                  !.slug = k, !.time = m, !.finish = finish]
      OBVIOUS
    <2> HIDE DEF m
    <2>4. r \in TaskRecords
      BY <2>2, <2>3, IdleType, ZenonT(40) DEF TaskRecords
    <2>5. /\ r.pc = "lock" /\ r.user = u /\ r.spec = s /\ r.slug = k /\ r.time = m
          /\ r.finish = finish /\ r.logs = IdleTask.logs /\ r.holds = IdleTask.holds
      BY <2>3, IdleType DEF TaskRecords
    <2>6. finish => m >= 0
      BY <1>4 DEF m, ReportAttempt, Plausible
    <2>7. task' = [task EXCEPT ![t] = r] /\ UNCHANGED <<binding, records>>
      BY <1>4 DEF ReportAttempt
    <2> HIDE DEF r
    <2>8. QED
      BY <1>1, <2>4, <2>5, <2>6, <2>7, IdleType
  <1>5. QED
    BY <1>2, <1>3, <1>4

\* A report goes from one place to another and keeps what it has.
LEMMA GotoKeeps ==
  ASSUME IInv, NEW t \in Tasks, task[t].pc \in {"lock", "upsert"},
         NEW pc \in {"select", "upsert", "log", "commit", "attempt"}, Goto(t, pc),
         UNCHANGED <<binding, records>>,
         task[t].kind # "attempt",
         pc \in {"select", "log"} => task[t].kind = "collect",
         pc # "attempt", pc = "log" => task[t].first /\ task[t].pc = "upsert",
         pc \in {"upsert", "commit"} /\ task[t].kind = "collect"
             => task[t].pc = "upsert" /\ ~task[t].first,
         Materialized(task[t].spec),
         pc = "commit" => task[t].pc = "upsert",
         pc = "upsert" => ~task[t].holds,
         pc \in {"log", "commit"} => ~RowHeld(t)
  PROVE  IInv'
  <1> DEFINE r == [task[t] EXCEPT !.pc = pc]
  <1>1. task[t] \in TaskRecords /\ Fits(task[t])
    BY DEF IInv, TypeOK
  <1>2. r \in TaskRecords
    BY <1>1 DEF TaskRecords
  <1>3. /\ r.pc = pc /\ r.kind = task[t].kind /\ r.user = task[t].user
        /\ r.spec = task[t].spec /\ r.slug = task[t].slug /\ r.first = task[t].first
        /\ r.logs = task[t].logs /\ r.finish = task[t].finish /\ r.time = task[t].time
        /\ r.holds = task[t].holds
    BY <1>1 DEF TaskRecords
  <1>4. task' = [task EXCEPT ![t] = r]
    BY DEF Goto
  <1> HIDE DEF r
  <1>5. Shaped(r)
    BY <1>1, <1>3 DEF Fits, Shaped
  <1>6. Collects(r)
    <2>1. Place(r) = Place(task[t]) /\ Place(r) \in Keys
      BY <1>1, <1>3 DEF Fits, Shaped, Place, Keys
    <2>2. (r.kind = "collect" /\ r.pc = "commit") => ~r.logs /\ progress[Place(r)].collected
      <3>1. ~r.logs
        BY <1>1, <1>3 DEF Fits, Shaped
      <3>2. ASSUME r.kind = "collect", r.pc = "commit" PROVE progress[Place(r)].collected
        BY <1>1, <1>3, <2>1, <3>2 DEF Fits, Collects
      <3>3. QED
        BY <3>1, <3>2
    <2>3. (r.kind = "collect" /\ r.pc \in {"upsert", "log", "commit"}) =>
              IF r.first THEN progress[Place(r)].collected => log[Place(r)] # "none"
              ELSE progress[Place(r)].collected
      BY <1>1, <1>3, <2>1 DEF Fits, Shaped, Collects
    <2>4. QED
      BY <2>2, <2>3 DEF Collects
  <1>7. Attempts(r)
    BY <1>3 DEF Attempts
  <1>8. Under(r)
    BY <1>3 DEF Under
  <1>9. SameRow(r, task[t]) /\ (Holding(r) => ~RowHeld(t))
    BY <1>3 DEF SameRow, Holding
  <1>10. QED
    BY <1>2, <1>4, <1>5, <1>6, <1>7, <1>8, <1>9, MovesKeep DEF Fits

\* The locks are taken.
LEMMA LockKeeps ==
  ASSUME IInv, NEW t \in Tasks, LockCollectible(t) \/ LockGame(t)
  PROVE  IInv'
  <1>1. task[t] \in TaskRecords /\ Fits(task[t])
    BY DEF IInv, TypeOK
  <1>2. UNCHANGED <<binding, records>> /\ task[t].pc = "lock"
    BY DEF LockCollectible, LockGame
  <1>3. CASE Drop(t)
    BY <1>2, <1>3, DropKeeps
  <1>4. ASSUME LockCollectible(t), Materialized(task[t].spec), task[t].kind # "attempt",
               Goto(t, IF task[t].kind = "collect" THEN "select" ELSE "upsert")
        PROVE  IInv'
    <2>1. ~task[t].holds
      BY <1>1, <1>2 DEF Fits, Shaped
    <2>2. CASE task[t].kind = "collect"
      BY <1>2, <1>4, <2>2, GotoKeeps
    <2>3. CASE task[t].kind # "collect"
      BY <1>2, <1>4, <2>1, <2>3, GotoKeeps
    <2>4. QED
      BY <2>2, <2>3
  <1>5. ASSUME NEW lower \in BOOLEAN, LockGame(t), Materialized(task[t].spec),
               task' = [task EXCEPT ![t].pc = "attempt", ![t].lower = lower]
        PROVE  IInv'
    <2> DEFINE r == [task[t] EXCEPT !.pc = "attempt", !.lower = lower]
    <2>1. r \in TaskRecords
      BY <1>1 DEF TaskRecords
    <2>2. /\ r.pc = "attempt" /\ r.kind = task[t].kind /\ r.user = task[t].user
          /\ r.spec = task[t].spec /\ r.slug = task[t].slug /\ r.time = task[t].time
          /\ r.logs = task[t].logs /\ r.finish = task[t].finish /\ r.holds = task[t].holds
      BY <1>1 DEF TaskRecords
    <2>3. task[t].kind = "attempt"
      BY <1>5 DEF LockGame
    <2>4. task' = [task EXCEPT ![t] = r]
      BY <1>5
    <2> HIDE DEF r
    <2>5. Shaped(r)
      BY <1>1, <1>2, <2>2, <2>3 DEF Fits, Shaped
    <2>6. Collects(r) /\ Attempts(r) /\ Under(r)
      BY <1>5, <2>2, <2>3 DEF Collects, Attempts, Under
    <2>7. ~Holding(r)
      BY <2>2 DEF Holding
    <2>8. QED
      BY <1>2, <2>1, <2>4, <2>5, <2>6, <2>7, MovesKeep DEF Fits
  <1>6. LowerIsBetter(task[t].slug) \in BOOLEAN
    BY DEF LowerIsBetter
  <1>7. QED
    BY <1>3, <1>4, <1>5, <1>6 DEF LockCollectible, LockGame

\* The player's progress is selected.
LEMMA SelectKeeps ==
  ASSUME IInv, NEW t \in Tasks, SelectProgress(t)
  PROVE  IInv'
  <1> DEFINE r == [task[t] EXCEPT !.pc = "upsert", !.first = FirstCollect(t),
                                  !.holds = Row(t).unlocked]
  <1>1. /\ task[t] \in TaskRecords /\ Fits(task[t]) /\ task[t].pc = "select" /\ ~RowHeld(t)
        /\ UNCHANGED <<binding, records>>
    BY DEF IInv, TypeOK, SelectProgress
  <1>2. Place(task[t]) \in Keys /\ Place(task[t]) = Key(t)
    BY <1>1 DEF Fits, Shaped, Place, Keys, Key
  <1>3. FirstCollect(t) \in BOOLEAN /\ Row(t).unlocked \in BOOLEAN
    BY <1>2 DEF IInv, TypeOK, Row, FirstCollect
  <1>4. r \in TaskRecords
    BY <1>1, <1>3, ZenonT(40) DEF TaskRecords
  <1>5. /\ r.pc = "upsert" /\ r.kind = task[t].kind /\ r.user = task[t].user
        /\ r.spec = task[t].spec /\ r.slug = task[t].slug /\ r.time = task[t].time
        /\ r.logs = task[t].logs /\ r.finish = task[t].finish
        /\ r.first = FirstCollect(t)
    BY <1>1 DEF TaskRecords
  <1>6. task' = [task EXCEPT ![t] = r]
    BY DEF SelectProgress
  <1> HIDE DEF r
  <1>7. Shaped(r)
    BY <1>1, <1>5 DEF Fits, Shaped
  <1>8. Collects(r)
    <2>1. r.first <=> ~progress[Place(r)].collected
      BY <1>2, <1>5 DEF FirstCollect, Row, Place
    <2>2. QED
      BY <1>5, <2>1 DEF Collects
  <1>9. Attempts(r) /\ Under(r)
    BY <1>1, <1>5 DEF Attempts, Under, Fits, Shaped
  <1>10. SameRow(r, task[t])
    BY <1>5 DEF SameRow
  <1>11. QED
    BY <1>1, <1>4, <1>6, <1>7, <1>8, <1>9, <1>10, MovesKeep DEF Fits

\* The row is written, which waits for whoever has it.
LEMMA UpsertKeeps ==
  ASSUME IInv, NEW t \in Tasks, UpsertProgress(t)
  PROVE  IInv'
  <1>1. /\ task[t].pc = "upsert" /\ ~RowHeld(t) /\ UNCHANGED <<binding, records>>
        /\ Fits(task[t])
    BY DEF UpsertProgress, IInv
  <1>2. task[t].kind # "attempt" /\ Materialized(task[t].spec)
    BY <1>1 DEF Fits, Shaped, Under
  <1>3. CASE task[t].kind = "collect" /\ task[t].first
    <2>1. Goto(t, "log")
      BY <1>3 DEF UpsertProgress
    <2>2. QED
      BY <1>1, <1>2, <1>3, <2>1, GotoKeeps
  <1>4. CASE ~(task[t].kind = "collect" /\ task[t].first)
    <2>1. Goto(t, "commit")
      BY <1>4 DEF UpsertProgress
    <2>2. QED
      BY <1>1, <1>2, <1>4, <2>1, GotoKeeps
  <1>5. QED
    BY <1>3, <1>4

\* The first collection is logged.
LEMMA LogKeeps ==
  ASSUME IInv, NEW t \in Tasks, AppendLog(t)
  PROVE  IInv'
  <1> DEFINE r == [task[t] EXCEPT !.pc = "commit", !.logs = (log[Key(t)] = "none")]
  <1>1. /\ task[t] \in TaskRecords /\ Fits(task[t]) /\ task[t].pc = "log"
        /\ UNCHANGED <<binding, records>>
    BY DEF IInv, TypeOK, AppendLog
  <1>2. r \in TaskRecords
    BY <1>1, ZenonT(40) DEF TaskRecords
  <1>3. /\ r.pc = "commit" /\ r.kind = task[t].kind /\ r.user = task[t].user
        /\ r.spec = task[t].spec /\ r.slug = task[t].slug /\ r.time = task[t].time
        /\ r.finish = task[t].finish /\ r.first = task[t].first
        /\ r.logs = (log[Key(t)] = "none")
    BY <1>1 DEF TaskRecords
  <1>4. task' = [task EXCEPT ![t] = r]
    BY DEF AppendLog
  <1> HIDE DEF r
  <1>5. task[t].kind = "collect" /\ Place(r) = Key(t) /\ Place(r) = Place(task[t])
    BY <1>1, <1>3 DEF Fits, Shaped, Place, Key
  <1>6. Shaped(r)
    BY <1>1, <1>3, <1>5 DEF Fits, Shaped
  <1>7. Collects(r)
    <2>1. r.logs <=> log[Place(r)] = "none"
      BY <1>3, <1>5
    <2>2. r.first /\ (progress[Place(r)].collected => log[Place(r)] # "none")
      BY <1>1, <1>3, <1>5 DEF Fits, Shaped, Collects
    <2>3. log[Place(r)] # "none" => progress[Place(r)].collected
      BY <1>1, <1>5 DEF Fits, Shaped, Place, Keys, IInv, LoggedIsCollected
    <2>4. QED
      BY <2>1, <2>2, <2>3 DEF Collects
  <1>8. Attempts(r) /\ Under(r)
    BY <1>1, <1>3, <1>5 DEF Attempts, Under, Fits
  <1>9. SameRow(r, task[t]) /\ Holding(task[t])
    BY <1>1, <1>3 DEF SameRow, Holding
  <1>10. QED
    BY <1>1, <1>2, <1>4, <1>6, <1>7, <1>8, <1>9, MovesKeep DEF Fits

\* The attempt's row is inserted, and the player's row has one more.
LEMMA InsertKeeps ==
  ASSUME IInv, NEW t \in Tasks, InsertAttempt(t)
  PROVE  IInv'
  <1> DEFINE old == pb[Key(t)]
             row == [old EXCEPT !.attempts = @ + 1]
             pc == IF task[t].finish THEN "score" ELSE "commit"
             r == [task[t] EXCEPT !.pc = pc, !.pb = row]
  <1>1. /\ task[t] \in TaskRecords /\ Fits(task[t]) /\ task[t].pc = "attempt" /\ ~RowHeld(t)
        /\ UNCHANGED <<binding, records>>
    BY DEF IInv, TypeOK, InsertAttempt
  <1>2. Key(t) \in Keys /\ Key(t) = Place(task[t])
    BY <1>1 DEF Fits, Shaped, Keys, Key, Place
  <1>3. old \in PbRecords
    BY <1>2 DEF IInv, TypeOK
  <1>4. /\ row \in PbRecords /\ row.attempts = old.attempts + 1
        /\ row.finishes = old.finishes /\ row.score = old.score
    BY <1>3 DEF PbRecords
  <1> HIDE DEF row
  <1>5. /\ r \in TaskRecords
        /\ r.pc = pc /\ r.kind = task[t].kind /\ r.user = task[t].user
        /\ r.spec = task[t].spec /\ r.slug = task[t].slug /\ r.time = task[t].time
        /\ r.finish = task[t].finish /\ r.logs = task[t].logs /\ r.pb = row
    BY <1>1, <1>4 DEF TaskRecords
  <1>6. task' = [task EXCEPT ![t] = r]
    BY DEF InsertAttempt, row
  <1> HIDE DEF r
  <1>7. task[t].kind = "attempt" /\ Place(r) = Key(t)
    BY <1>1, <1>2, <1>5 DEF Fits, Shaped, Place
  <1>8. Shaped(r)
    BY <1>1, <1>5, <1>7 DEF Fits, Shaped
  <1>9. Collects(r)
    BY <1>5, <1>7 DEF Collects
  <1>10. Attempts(r)
    BY <1>4, <1>5, <1>7 DEF Attempts
  <1>11. Under(r) /\ SameRow(r, task[t])
    BY <1>1, <1>5 DEF Under, Fits, SameRow
  <1>12. QED
    BY <1>1, <1>5, <1>6, <1>8, <1>9, <1>10, <1>11, MovesKeep DEF Fits

\* The finish is scored against the row it found.
LEMMA ScoreKeeps ==
  ASSUME IInv, NEW t \in Tasks, ScoreFinish(t)
  PROVE  IInv'
  <1> DEFINE old == task[t].pb
  <1>1. /\ task[t] \in TaskRecords /\ Fits(task[t]) /\ task[t].pc = "score"
        /\ UNCHANGED <<binding, records>>
    BY DEF IInv, TypeOK, ScoreFinish
  <1>2. task[t].finish /\ task[t].kind = "attempt" /\ task[t].time \in Nat
    <2>1. /\ task[t].finish /\ task[t].kind = "attempt" /\ task[t].time >= 0
          /\ task[t].time \in Times
      BY <1>1 DEF Fits, Shaped, TaskRecords
    <2>2. task[t].time \in Int
      BY <2>1, ProgressAssumption
    <2>3. QED
      BY <2>1, <2>2
  <1>3. old \in PbRecords
    BY <1>1 DEF TaskRecords
  <1>4. PICK score \in Nat : score = IF Better(t, old) THEN task[t].time ELSE old.score
    <2>1. old.score \in Nat
      BY <1>3 DEF PbRecords
    <2>2. QED
      BY <1>2, <2>1
  <1>5. PICK row : row = [old EXCEPT !.finishes = @ + 1, !.score = score]
    OBVIOUS
  <1>13. /\ row \in PbRecords /\ row.attempts = old.attempts
         /\ row.finishes = old.finishes + 1 /\ row.score = score
    <2>1. PICK o \in PbRecords : o = old
      BY <1>3
    <2>2. row = [o EXCEPT !.finishes = @ + 1, !.score = score]
      BY <1>5, <2>1
    <2>3. /\ row \in PbRecords /\ row.attempts = o.attempts
          /\ row.finishes = o.finishes + 1 /\ row.score = score
      <3>1. o.finishes \in Nat /\ o.attempts \in Nat
        BY DEF PbRecords
      <3>2. row = [score |-> score, finishes |-> o.finishes + 1, attempts |-> o.attempts]
        BY <2>2 DEF PbRecords
      <3>3. QED
        BY <3>1, <3>2 DEF PbRecords
    <2>4. QED
      BY <2>1, <2>3
  <1> DEFINE r == [task[t] EXCEPT !.pc = "commit", !.pb = row]
  <1>6. /\ r \in TaskRecords
        /\ r.pc = "commit" /\ r.kind = task[t].kind /\ r.user = task[t].user
        /\ r.spec = task[t].spec /\ r.slug = task[t].slug /\ r.time = task[t].time
        /\ r.finish = task[t].finish /\ r.logs = task[t].logs /\ r.lower = task[t].lower
        /\ r.pb = row
    BY <1>1, <1>13 DEF TaskRecords
  <1>7. task' = [task EXCEPT ![t] = r]
    BY <1>4, <1>5 DEF ScoreFinish
  <1> HIDE DEF r
  <1>8. Place(r) = Place(task[t])
    BY <1>6 DEF Place
  <1>9. Shaped(r) /\ Collects(r)
    BY <1>1, <1>2, <1>6 DEF Fits, Shaped, Collects
  <1>10. Attempts(r)
    <2> DEFINE now == pb[Place(task[t])]
    <2>1. /\ old.attempts = now.attempts + 1 /\ old.finishes = now.finishes
          /\ old.score = now.score
      BY <1>1, <1>2 DEF Fits, Attempts
    <2>2. Better(t, old) <=> Beats(r, now)
      BY <1>6, <2>1 DEF Better, Beats
    <2>3. score = IF Beats(r, now) THEN r.time ELSE now.score
      BY <1>4, <1>6, <2>1, <2>2
    <2>4. /\ r.pb.attempts = now.attempts + 1 /\ r.pb.finishes = now.finishes + 1
          /\ r.pb.score = IF r.finish /\ Beats(r, now) THEN r.time ELSE now.score
      BY <1>2, <1>6, <1>13, <2>1, <2>3
    <2> HIDE DEF now
    <2>5. QED
      BY <1>2, <1>6, <1>8, <2>4 DEF Attempts, now
  <1>11. Under(r) /\ SameRow(r, task[t]) /\ Holding(task[t])
    BY <1>1, <1>6 DEF Under, Fits, SameRow, Holding
  <1>12. QED
    BY <1>1, <1>6, <1>7, <1>9, <1>10, <1>11, MovesKeep DEF Fits

-----------------------------------------------------------------------------
(* Commits.                                                                *)

\* What every commit does to the tasks.
LEMMA CommitShape ==
  ASSUME IInv, NEW t \in Tasks, task[t].pc = "commit", Drop(t)
  PROVE  /\ task'[t] = IdleTask /\ \A s \in Tasks \ {t} : task'[s] = task[s]
         /\ task' \in [Tasks -> TaskRecords]
         /\ Exclusive'
         /\ Key(t) \in Keys /\ Key(t) = Place(task[t]) /\ Fits(task[t])
         /\ Materialized(task[t].spec)
         /\ \A s \in Tasks \ {t} :
                (Place(task[s]) = Key(t) /\ (task[s].kind = "attempt") = (task[t].kind = "attempt"))
                    => ~Holding(task[s])
  <1>1. /\ task'[t] = IdleTask /\ \A s \in Tasks \ {t} : task'[s] = task[s]
        /\ task' \in [Tasks -> TaskRecords]
    BY IdleType DEF Drop, IInv, TypeOK
  <1>2. Exclusive'
    BY <1>1, IdleType DEF IInv, Exclusive, Holding
  <1>3. Fits(task[t])
    BY DEF IInv
  <1>4. Key(t) \in Keys /\ Key(t) = Place(task[t]) /\ Materialized(task[t].spec)
    BY <1>3 DEF Fits, Shaped, Under, Keys, Key, Place
  <1>5. ASSUME NEW s \in Tasks \ {t}, Place(task[s]) = Key(t),
               (task[s].kind = "attempt") = (task[t].kind = "attempt")
        PROVE  ~Holding(task[s])
    <2>1. task[s].user = task[t].user /\ task[s].slug = task[t].slug
      BY <1>5 DEF Place, Key
    <2>2. SameRow(task[s], task[t]) /\ Holding(task[t])
      BY <1>5, <2>1 DEF SameRow, Holding
    <2>3. QED
      BY <2>2 DEF IInv, Exclusive
  <1>6. QED
    BY <1>1, <1>2, <1>3, <1>4, <1>5

\* An unlock or a collection commits.
LEMMA CommitCollectibleKeeps ==
  ASSUME IInv, NEW t \in Tasks, CommitCollectible(t)
  PROVE  IInv'
  <1> DEFINE r == task[t]
             key == Key(t)
             new == Coalesced(t, progress[key])
  <1>1. r.pc = "commit" /\ r.kind # "attempt" /\ Drop(t)
    BY DEF CommitCollectible
  <1>2. /\ task'[t] = IdleTask /\ \A s \in Tasks \ {t} : task'[s] = task[s]
        /\ task' \in [Tasks -> TaskRecords]
        /\ Exclusive'
        /\ key \in Keys /\ key = Place(r) /\ Fits(r)
        /\ \A s \in Tasks \ {t} :
               (Place(task[s]) = key /\ task[s].kind # "attempt") => ~Holding(task[s])
    BY <1>1, CommitShape
  <1>3. /\ UNCHANGED <<binding, pb, attempts, finishes, finished>>
        /\ progress' = [progress EXCEPT ![key] = new]
        /\ log' = [log EXCEPT ![key] = IF r.logs THEN r.source ELSE log[key]]
    BY DEF CommitCollectible
  <1>4. /\ new \in [unlocked : BOOLEAN, collected : BOOLEAN] /\ new.unlocked
        /\ new.collected <=> (progress[key].collected \/ r.kind = "collect")
    BY <1>2 DEF Coalesced, IInv, TypeOK
  <1> HIDE DEF new
  <1>5. r.source \in {"zone", "grant"} /\ log[key] \in {"none", "zone", "grant"}
    BY <1>2 DEF IInv, TypeOK, TaskRecords
  <1>6. TypeOK'
    <2>1. progress' \in [Keys -> [unlocked : BOOLEAN, collected : BOOLEAN]]
      BY <1>3, <1>4 DEF IInv, TypeOK
    <2>2. log' \in [Keys -> {"none", "zone", "grant"}]
      BY <1>3, <1>5 DEF IInv, TypeOK
    <2>3. QED
      BY <1>2, <1>3, <2>1, <2>2 DEF IInv, TypeOK, binding
  <1>7. /\ progress'[key] = new /\ log'[key] = IF r.logs THEN r.source ELSE log[key]
        /\ \A k \in Keys \ {key} : progress'[k] = progress[k] /\ log'[k] = log[k]
    BY <1>2, <1>3 DEF IInv, TypeOK
  <1>8. ASSUME NEW s \in Tasks PROVE Fits(task[s])'
    <2>1. CASE s = t
      BY <1>2, <2>1, IdleType DEF Fits, Shaped, Collects, Attempts, Under
    <2>2. CASE s # t
      <3>1. Fits(task[s]) /\ task'[s] = task[s] /\ task[s] \in TaskRecords
        BY <1>2, <2>2 DEF IInv, TypeOK
      <3>2. Collects(task[s])'
        <4>1. CASE Place(task[s]) = key
          <5>1. progress[key].collected => progress'[key].collected
            BY <1>4, <1>7
          <5>2. task[s].kind = "collect" => task[s].pc # "commit"
            BY <1>2, <2>2, <4>1 DEF Holding
          <5>3. (progress[key].collected => log[key] # "none")
                    => (progress'[key].collected => log'[key] # "none")
            <6>1. /\ r.kind = "collect" => (r.logs <=> ~progress[key].collected)
                  /\ r.logs => r.kind = "collect"
              BY <1>1, <1>2 DEF Fits, Shaped, Collects
            <6>2. QED
              BY <1>4, <1>5, <1>7, <6>1
          <5>4. Place(task[s])' = key
            BY <3>1, <4>1 DEF Place
          <5>5. QED
            BY <3>1, <4>1, <5>1, <5>2, <5>3, <5>4 DEF Fits, Collects
        <4>2. CASE task[s].kind = "collect" /\ task[s].pc # "idle" /\ Place(task[s]) # key
          <5>1. Place(task[s]) \in Keys
            BY <3>1, <4>2 DEF Fits, Shaped, Place, Keys
          <5>2. QED
            BY <1>7, <3>1, <4>2, <5>1 DEF Fits, Collects, Place
        <4>3. CASE task[s].kind # "collect" \/ task[s].pc = "idle"
          BY <3>1, <4>3 DEF Collects
        <4>4. QED
          BY <4>1, <4>2, <4>3
      <3>3. Shaped(task[s])' /\ Attempts(task[s])' /\ Under(task[s])'
        BY <1>3, <3>1 DEF Fits, Shaped, Attempts, Beats, Under, Materialized, binding, Place
      <3>4. QED
        BY <3>2, <3>3 DEF Fits
    <2>3. QED
      BY <2>1, <2>2
  <1>9. LoggedIsCollected'
    <2>1. /\ r.logs => r.kind = "collect"
          /\ log[key] # "none" => progress[key].collected
      BY <1>2 DEF Fits, Shaped, IInv, LoggedIsCollected
    <2>2. log'[key] # "none" => progress'[key].collected
      BY <1>4, <1>7, <2>1
    <2>3. QED
      BY <1>7, <2>2 DEF IInv, LoggedIsCollected
  <1>10. FinishesCounted' /\ PbSummarisesAttempts'
    BY <1>3 DEF IInv, FinishesCounted, PbSummarisesAttempts
  <1>11. QED
    BY <1>2, <1>6, <1>8, <1>9, <1>10 DEF IInv

\* While all finishes were made under one order, the score is the best of them.
Best(score, F) ==
    \A l \in BOOLEAN : (F # {} /\ \A f \in F : f[2] = l) =>
        /\ <<score, l>> \in F
        /\ \A f \in F : IF l THEN score <= f[1] ELSE score >= f[1]

\* PbSummarisesAttempts in those words.
LEMMA SummaryIsBest ==
  PbSummarisesAttempts <=>
      \A key \in Keys :
          /\ pb[key].attempts = attempts[key] /\ pb[key].finishes = finishes[key]
          /\ Best(pb[key].score, finished[key])
  BY DEF PbSummarisesAttempts, Best

\* The best of some finishes and one more is the better of the best and that one.
LEMMA OneMoreFinish ==
  ASSUME NEW F, NEW score \in Nat, NEW time \in Nat, NEW lower \in BOOLEAN, NEW n \in Nat,
         n = 0 <=> F = {}, F \subseteq Nat \X BOOLEAN,
         NEW best, best = IF n = 0 \/ (IF lower THEN time < score ELSE time > score)
                          THEN time ELSE score,
         Best(score, F)
  PROVE  Best(best, F \cup {<<time, lower>>})
  <1> SUFFICES ASSUME NEW l \in BOOLEAN, \A f \in F \cup {<<time, lower>>} : f[2] = l
               PROVE  /\ <<best, l>> \in F \cup {<<time, lower>>}
                      /\ \A f \in F \cup {<<time, lower>>} :
                             IF l THEN best <= f[1] ELSE best >= f[1]
    BY DEF Best
  <1>1. lower = l
    <2>1. <<time, lower>> \in F \cup {<<time, lower>>}
      OBVIOUS
    <2>2. <<time, lower>>[2] = l
      BY <2>1
    <2>3. QED
      BY <2>2
  <1>2. CASE F = {}
    <2>1. best = time
      BY <1>2
    <2>2. QED
      BY <1>1, <1>2, <2>1
  <1>3. CASE F # {}
    <2>1. /\ <<score, l>> \in F
          /\ \A f \in F : IF l THEN score <= f[1] ELSE score >= f[1]
      BY <1>3 DEF Best
    <2>2. best = IF (IF l THEN time < score ELSE time > score) THEN time ELSE score
      BY <1>1, <1>3
    <2>3. <<best, l>> \in F \cup {<<time, lower>>}
      BY <1>1, <2>1, <2>2
    <2>4. ASSUME NEW f \in F PROVE IF l THEN best <= f[1] ELSE best >= f[1]
      <3>1. f[1] \in Nat
        OBVIOUS
      <3>2. QED
        BY <2>1, <2>2, <3>1
    <2>5. IF l THEN best <= time ELSE best >= time
      BY <2>2
    <2>6. QED
      BY <2>3, <2>4, <2>5
  <1>4. QED
    BY <1>2, <1>3

\* An attempt commits.
LEMMA CommitAttemptKeeps ==
  ASSUME IInv, NEW t \in Tasks, CommitAttempt(t)
  PROVE  IInv'
  <1> DEFINE r == task[t]
             key == Key(t)
             old == pb[key]
             one == IF r.finish THEN {<<r.time, r.lower>>} ELSE {}
  <1>1. r.pc = "commit" /\ r.kind = "attempt" /\ Drop(t)
    BY DEF CommitAttempt
  <1>2. /\ task'[t] = IdleTask /\ \A s \in Tasks \ {t} : task'[s] = task[s]
        /\ task' \in [Tasks -> TaskRecords]
        /\ Exclusive'
        /\ key \in Keys /\ key = Place(r) /\ Fits(r)
        /\ \A s \in Tasks \ {t} :
               (Place(task[s]) = key /\ task[s].kind = "attempt") => ~Holding(task[s])
    BY <1>1, CommitShape
  <1>3. /\ UNCHANGED <<binding, progress, log>>
        /\ pb' = [pb EXCEPT ![key] = r.pb]
        /\ attempts' = [attempts EXCEPT ![key] = attempts[key] + 1]
        /\ finishes' = [finishes EXCEPT ![key] =
               IF r.finish THEN finishes[key] + 1 ELSE finishes[key]]
        /\ finished' = [finished EXCEPT ![key] = finished[key] \cup one]
    BY <1>2 DEF CommitAttempt, IInv, TypeOK
  <1>4. /\ r.pb \in PbRecords /\ old \in PbRecords
        /\ r.finish \in BOOLEAN /\ r.lower \in BOOLEAN /\ r.time \in Times
        /\ attempts[key] \in Nat /\ finishes[key] \in Nat
        /\ finished[key] \subseteq Nat \X BOOLEAN
    BY <1>2 DEF IInv, TypeOK, TaskRecords
  <1>5. r.finish => r.time \in Nat
    <2>1. r.time \in Int
      BY <1>4, ProgressAssumption
    <2>2. QED
      BY <1>2, <2>1 DEF Fits, Shaped
  <1>6. TypeOK'
    <2>1. pb' \in [Keys -> PbRecords]
      BY <1>3, <1>4 DEF IInv, TypeOK
    <2>2. attempts' \in [Keys -> Nat] /\ finishes' \in [Keys -> Nat]
      <3>1. PICK m \in Nat, n \in Nat :
               /\ m = attempts[key] + 1
               /\ n = IF r.finish THEN finishes[key] + 1 ELSE finishes[key]
        BY <1>4
      <3>2. /\ attempts' = [attempts EXCEPT ![key] = m]
            /\ finishes' = [finishes EXCEPT ![key] = n]
        BY <1>3, <3>1
      <3>3. QED
        BY <3>2 DEF IInv, TypeOK
    <2>3. one \subseteq Nat \X BOOLEAN
      <3>1. r.finish => <<r.time, r.lower>> \in Nat \X BOOLEAN
        BY <1>4, <1>5
      <3>2. QED
        BY <3>1, Zenon
    <2>4. finished' \in [Keys -> SUBSET (Nat \X BOOLEAN)]
      <3>1. PICK new : new = finished[key] \cup one
        OBVIOUS
      <3>2. new \in SUBSET (Nat \X BOOLEAN)
        BY <1>4, <2>3, <3>1
      <3>3. finished' = [finished EXCEPT ![key] = new]
        BY <1>3, <3>1
      <3>4. QED
        BY <3>2, <3>3 DEF IInv, TypeOK
    <2>5. QED
      BY <1>2, <1>3, <2>1, <2>2, <2>4 DEF IInv, TypeOK, binding
  <1>7. /\ pb'[key] = r.pb /\ attempts'[key] = attempts[key] + 1
        /\ finishes'[key] = IF r.finish THEN finishes[key] + 1 ELSE finishes[key]
        /\ finished'[key] = finished[key] \cup one
        /\ \A k \in Keys \ {key} :
               /\ pb'[k] = pb[k] /\ attempts'[k] = attempts[k]
               /\ finishes'[k] = finishes[k] /\ finished'[k] = finished[k]
    BY <1>2, <1>3 DEF IInv, TypeOK
  <1>8. ASSUME NEW s \in Tasks PROVE Fits(task[s])'
    <2>1. CASE s = t
      BY <1>2, <2>1, IdleType DEF Fits, Shaped, Collects, Attempts, Under
    <2>2. CASE s # t
      <3>1. Fits(task[s]) /\ task'[s] = task[s] /\ task[s] \in TaskRecords
        BY <1>2, <2>2 DEF IInv, TypeOK
      <3>2. Attempts(task[s])'
        <4>1. CASE Place(task[s]) = key /\ task[s].kind = "attempt"
          <5>1. task[s].pc \notin {"score", "commit"}
            BY <1>2, <2>2, <4>1 DEF Holding
          <5>2. QED
            BY <3>1, <5>1 DEF Attempts
        <4>2. CASE task[s].kind = "attempt" /\ task[s].pc # "idle" /\ Place(task[s]) # key
          <5>1. Place(task[s]) \in Keys
            BY <3>1, <4>2 DEF Fits, Shaped, Place, Keys
          <5>2. pb'[Place(task[s])] = pb[Place(task[s])]
            BY <1>7, <4>2, <5>1
          <5>3. QED
            BY <3>1, <5>2 DEF Fits, Attempts, Beats, Place
        <4>3. CASE task[s].kind # "attempt" \/ task[s].pc = "idle"
          BY <3>1, <4>3 DEF Attempts
        <4>4. QED
          BY <4>1, <4>2, <4>3
      <3>3. Shaped(task[s])' /\ Collects(task[s])' /\ Under(task[s])'
        BY <1>3, <3>1 DEF Fits, Shaped, Collects, Under, Materialized, binding, Place
      <3>4. QED
        BY <3>2, <3>3 DEF Fits
    <2>3. QED
      BY <2>1, <2>2
  <1>9. /\ old.attempts = attempts[key] /\ old.finishes = finishes[key]
        /\ finishes[key] = 0 <=> finished[key] = {}
        /\ Best(old.score, finished[key])
    BY <1>2, SummaryIsBest DEF IInv, FinishesCounted
  <1>10. /\ r.pb.attempts = old.attempts + 1
         /\ r.pb.finishes = IF r.finish THEN old.finishes + 1 ELSE old.finishes
         /\ r.pb.score = IF r.finish /\ Beats(r, old) THEN r.time ELSE old.score
    BY <1>1, <1>2 DEF Fits, Attempts
  <1>11. old.score \in Nat
    BY <1>4 DEF PbRecords
  <1>12. FinishesCounted'
    <2>1. CASE r.finish
      <3>1. <<r.time, r.lower>> \in finished'[key]
        BY <1>7, <2>1
      <3>2. finishes'[key] # 0
        BY <1>4, <1>7, <2>1
      <3>3. QED
        BY <1>7, <3>1, <3>2 DEF IInv, FinishesCounted
    <2>2. CASE ~r.finish
      <3>1. finished'[key] = finished[key] /\ finishes'[key] = finishes[key]
        BY <1>7, <2>2
      <3>2. QED
        BY <1>7, <3>1 DEF IInv, FinishesCounted
    <2>3. QED
      BY <2>1, <2>2
  <1>13. PbSummarisesAttempts'
    <2>1. ASSUME r.finish PROVE Best(r.pb.score, finished'[key])
      <3>1. finished'[key] = finished[key] \cup {<<r.time, r.lower>>}
        BY <1>7, <2>1
      <3>2. r.pb.score = IF finishes[key] = 0
                            \/ (IF r.lower THEN r.time < old.score ELSE r.time > old.score)
                         THEN r.time ELSE old.score
        BY <1>9, <1>10, <2>1 DEF Beats
      <3>3. QED
        <4>1. PICK F : F = finished[key]
          OBVIOUS
        <4>4. PICK score \in Nat : score = old.score
          BY <1>11
        <4>5. PICK time \in Nat : time = r.time
          BY <1>5, <2>1
        <4>6. PICK lower \in BOOLEAN : lower = r.lower
          BY <1>4
        <4>7. PICK n \in Nat : n = finishes[key]
          BY <1>4
        <4>8. PICK best : best = r.pb.score
          OBVIOUS
        <4>2. Best(best, F \cup {<<time, lower>>})
          <5>1. /\ n = 0 <=> F = {}
                /\ F \subseteq Nat \X BOOLEAN
                /\ Best(score, F)
                /\ best = IF n = 0 \/ (IF lower THEN time < score ELSE time > score)
                          THEN time ELSE score
            BY <1>4, <1>9, <3>2, <4>1, <4>4, <4>5, <4>6, <4>7, <4>8
          <5>2. QED
            BY <5>1, OneMoreFinish
        <4>3. QED
          BY <3>1, <4>1, <4>2, <4>5, <4>6, <4>8
    <2>2. ASSUME ~r.finish PROVE Best(r.pb.score, finished'[key])
      <3>1. finished'[key] = finished[key] /\ r.pb.score = old.score
        BY <1>7, <1>10, <2>2
      <3>2. QED
        BY <1>9, <3>1
    <2>3. /\ pb'[key].attempts = attempts'[key] /\ pb'[key].finishes = finishes'[key]
          /\ Best(pb'[key].score, finished'[key])
      BY <1>7, <1>9, <1>10, <2>1, <2>2
    <2>4. ASSUME NEW k \in Keys
          PROVE  /\ pb'[k].attempts = attempts'[k] /\ pb'[k].finishes = finishes'[k]
                 /\ Best(pb'[k].score, finished'[k])
      <3>1. CASE k = key
        BY <2>3, <3>1
      <3>2. CASE k # key
        BY <1>7, <3>2, SummaryIsBest DEF IInv
      <3>3. QED
        BY <3>1, <3>2
    <2>5. QED
      BY <2>4 DEF PbSummarisesAttempts, Best
  <1>14. LoggedIsCollected'
    BY <1>3 DEF IInv, LoggedIsCollected
  <1>15. QED
    BY <1>2, <1>6, <1>8, <1>12, <1>13, <1>14 DEF IInv

-----------------------------------------------------------------------------
(* The invariant and the theorems.                                         *)

\* Uploads and binds keep clear of transactions under way.
LEMMA BindingKeeps ==
  ASSUME IInv,
         \/ \E s \in Specs, c \in Contents : Upload(s, c)
         \/ \E s \in Specs : Bind(s)
  PROVE  IInv'
  <1>1. UNCHANGED <<records, task>>
    BY DEF Upload, Bind
  <1>2. TypeOK' /\ \A t \in Tasks : Under(task[t])'
    <2>1. ASSUME NEW s \in Specs, NEW c \in Contents, Upload(s, c)
          PROVE  TypeOK' /\ \A t \in Tasks : Under(task[t])'
      <3>1. TypeOK'
        BY <1>1, <2>1 DEF Upload, IInv, TypeOK, records
      <3>2. ASSUME NEW t \in Tasks, task[t].pc \notin {"idle", "lock"}
            PROVE  Materialized(task[t].spec)'
        <4>1. task[t].spec # s /\ task[t].spec \in Specs /\ Materialized(task[t].spec)
          BY <2>1, <3>2 DEF Upload, Sharing, InTransaction, IInv, Fits, Shaped, Under
        <4>2. QED
          BY <1>1, <2>1, <4>1 DEF Upload, Materialized, IInv, TypeOK
      <3>3. QED
        BY <1>1, <3>1, <3>2 DEF Under
    <2>2. ASSUME NEW s \in Specs, Bind(s)
          PROVE  TypeOK' /\ \A t \in Tasks : Under(task[t])'
      <3>1. TypeOK'
        BY <1>1, <2>2 DEF Bind, IInv, TypeOK, records
      <3>2. \A t \in Tasks : task[t].pc \in {"idle", "lock"}
        BY <2>2 DEF Bind, Sharing, InTransaction
      <3>3. QED
        BY <1>1, <3>1, <3>2 DEF Under
    <2>3. QED
      BY <2>1, <2>2
  <1>3. \A t \in Tasks : Shaped(task[t])' /\ Collects(task[t])' /\ Attempts(task[t])'
    BY <1>1 DEF IInv, Fits, Shaped, Collects, Attempts, Beats, Place, records
  <1>4. Exclusive' /\ FinishesCounted' /\ LoggedIsCollected' /\ PbSummarisesAttempts'
    BY <1>1 DEF IInv, Exclusive, FinishesCounted, LoggedIsCollected, PbSummarisesAttempts,
         records, Holding, SameRow
  <1>5. QED
    BY <1>2, <1>3, <1>4 DEF IInv, Fits

\* A step of a report.
LEMMA StepKeeps ==
  ASSUME IInv, NEW t \in Tasks, Step(t) PROVE IInv'
  <1>1. CASE ReportFails(t)
    BY <1>1, DropKeeps DEF ReportFails
  <1>2. QED
    BY <1>1, LockKeeps, SelectKeeps, UpsertKeeps, LogKeeps, CommitCollectibleKeeps,
       InsertKeeps, ScoreKeeps, CommitAttemptKeeps DEF Step

\* The invariant is inductive.
LEMMA IInvStep == IInv /\ [Next]_vars => IInv'
  <1> SUFFICES ASSUME IInv, [Next]_vars PROVE IInv'
    OBVIOUS
  <1>1. CASE UNCHANGED vars
    <2>1. UNCHANGED <<binding, records, task>>
      BY <1>1 DEF vars
    <2>2. TypeOK' /\ \A t \in Tasks : Fits(task[t])'
      BY <2>1 DEF IInv, TypeOK, Fits, Shaped, Collects, Attempts, Beats, Under, Materialized,
           Place, binding, records
    <2>3. Exclusive' /\ FinishesCounted' /\ LoggedIsCollected' /\ PbSummarisesAttempts'
      BY <2>1 DEF IInv, Exclusive, FinishesCounted, LoggedIsCollected, PbSummarisesAttempts,
           records, Holding, SameRow
    <2>4. QED
      BY <2>2, <2>3 DEF IInv
  <1>2. CASE Next
    BY <1>2, BindingKeeps, ReportsKeep, StepKeeps DEF Next, Arrives
  <1>3. QED
    BY <1>1, <1>2

\* The invariant holds of the running server.
THEOREM Invariance == Spec => []IInv
  BY InitIInv, IInvStep, PTL DEF Spec

\* Reports, rows and specs stay well formed.
THEOREM TypeCorrect == Spec => []TypeOK
  <1>1. IInv => TypeOK
    BY DEF IInv
  <1>2. QED
    BY <1>1, Invariance, PTL

\* A player's row sums up the attempts there are (report_attempt).
THEOREM PbSumsUp == Spec => []PbSummarisesAttempts
  <1>1. IInv => PbSummarisesAttempts
    BY DEF IInv
  <1>2. QED
    BY <1>1, Invariance, PTL

\* A step that changes a record is a commit.
LEMMA OnlyCommitsWrite ==
  ASSUME IInv, [Next]_vars, records' # records
  PROVE  \E t \in Tasks : CommitCollectible(t) \/ CommitAttempt(t)
  <1>1. Next
    BY DEF vars
  <1>2. ASSUME NEW t \in Tasks, Step(t) PROVE CommitCollectible(t) \/ CommitAttempt(t)
    <2>1. LockCollectible(t) \/ LockGame(t) => records' = records
      BY DEF LockCollectible, LockGame, binding, records
    <2>2. SelectProgress(t) \/ UpsertProgress(t) \/ AppendLog(t) => records' = records
      BY DEF SelectProgress, UpsertProgress, AppendLog, binding, records
    <2>3. InsertAttempt(t) \/ ScoreFinish(t) \/ ReportFails(t) => records' = records
      BY DEF InsertAttempt, ScoreFinish, ReportFails, binding, records
    <2>4. QED
      BY <1>2, <2>1, <2>2, <2>3 DEF Step
  <1>3. QED
    <2>1. /\ \A s \in Specs, c \in Contents : Upload(s, c) => records' = records
          /\ \A s \in Specs : Bind(s) => records' = records
      BY DEF Upload, Bind, records
    <2>2. ASSUME NEW t \in Tasks, NEW u \in Users, NEW s \in Specs, NEW k \in Slugs
          PROVE  /\ ReportUnlock(t, u, s, k) => records' = records
                 /\ \A source \in {"zone", "grant"} :
                        ReportCollect(t, u, s, k, source) => records' = records
                 /\ \A time \in Times, finish \in BOOLEAN :
                        ReportAttempt(t, u, s, k, time, finish) => records' = records
      BY DEF ReportUnlock, ReportCollect, ReportAttempt, binding, records
    <2>3. QED
      BY <1>1, <1>2, <2>1, <2>2 DEF Next, Arrives

\* A report counts only while the spec it named is bound and its content is on
\* the map (lock_materialized_spec).
THEOREM CountForTheirSpec == Spec => ReportsCountForTheirSpec
  <1>1. IInv /\ [Next]_vars =>
            [ records' # records =>
                \E t \in Tasks : /\ task[t].pc = "commit" /\ task'[t].pc = "idle"
                                 /\ Materialized(task[t].spec) ]_vars
    <2> SUFFICES ASSUME IInv, [Next]_vars, records' # records
                 PROVE  \E t \in Tasks : /\ task[t].pc = "commit" /\ task'[t].pc = "idle"
                                         /\ Materialized(task[t].spec)
      OBVIOUS
    <2>1. PICK t \in Tasks : CommitCollectible(t) \/ CommitAttempt(t)
      BY OnlyCommitsWrite
    <2>2. task[t].pc = "commit" /\ Drop(t)
      BY <2>1 DEF CommitCollectible, CommitAttempt
    <2>3. QED
      BY <2>2, CommitShape, IdleType
  <1>2. QED
    BY <1>1, Invariance, PTL DEF Spec, ReportsCountForTheirSpec

\* An item enters the log in the step that makes it collected, and what was
\* collected before never does (record_collect_transition).
THEOREM CollectedIsLogged == Spec => FirstCollectionsAreLogged
  <1> DEFINE Logs ==
        \A key \in Keys :
            (log'[key] # log[key])
                <=> (~progress[key].collected /\ progress'[key].collected)
  <1>1. IInv /\ [Next]_vars => Logs
    <2> SUFFICES ASSUME IInv, [Next]_vars PROVE Logs
      OBVIOUS
    <2>1. CASE records' = records
      BY <2>1 DEF records
    <2>2. ASSUME NEW t \in Tasks, CommitCollectible(t) PROVE Logs
      <3> DEFINE r == task[t]
                 at == Key(t)
      <3>1. r.pc = "commit" /\ r.kind # "attempt" /\ Drop(t)
        BY <2>2 DEF CommitCollectible
      <3>2. at \in Keys /\ at = Place(r) /\ Fits(r) /\ r.source \in {"zone", "grant"}
        BY <3>1, CommitShape DEF IInv, TypeOK, TaskRecords
      <3>3. /\ progress' = [progress EXCEPT ![at] = Coalesced(t, progress[at])]
            /\ log' = [log EXCEPT ![at] = IF r.logs THEN r.source ELSE log[at]]
        BY <2>2 DEF CommitCollectible
      <3>4. /\ progress'[at].collected <=> (progress[at].collected \/ r.kind = "collect")
            /\ log'[at] = IF r.logs THEN r.source ELSE log[at]
            /\ \A key \in Keys \ {at} : progress'[key] = progress[key] /\ log'[key] = log[key]
        BY <3>2, <3>3 DEF IInv, TypeOK, Coalesced
      <3>5. r.logs <=> (r.kind = "collect" /\ ~progress[at].collected)
        BY <3>1, <3>2 DEF Fits, Shaped, Collects
      <3>6. log[at] # "none" => progress[at].collected
        BY <3>2 DEF IInv, LoggedIsCollected
      <3>7. (log'[at] # log[at]) <=> (~progress[at].collected /\ progress'[at].collected)
        BY <3>2, <3>4, <3>5, <3>6
      <3>8. QED
        BY <3>4, <3>7
    <2>3. ASSUME NEW t \in Tasks, CommitAttempt(t) PROVE Logs
      BY <2>3 DEF CommitAttempt
    <2>4. QED
      BY <2>1, <2>2, <2>3, OnlyCommitsWrite
  <1> HIDE DEF Logs
  <1>2. Spec => [][Logs]_vars
    BY <1>1, Invariance, PTL DEF Spec
  <1>3. QED
    BY <1>2 DEF FirstCollectionsAreLogged, Logs

\* What a player has unlocked, collected or played is never taken back by
\* another bind, another upload or a later report, and the log of a first
\* collection is never rewritten.
ProgressIsSticky ==
    [][ \A key \in Keys :
            /\ progress[key].unlocked => progress'[key].unlocked
            /\ progress[key].collected => progress'[key].collected
            /\ log[key] # "none" => log'[key] = log[key]
            /\ pb'[key].attempts >= pb[key].attempts
            /\ pb'[key].finishes >= pb[key].finishes ]_vars

\* Progress is never taken back, and the log of a first collection stays as it
\* was written.
THEOREM ProgressStays == Spec => ProgressIsSticky
  <1> DEFINE Sticks ==
        \A key \in Keys :
            /\ progress[key].unlocked => progress'[key].unlocked
            /\ progress[key].collected => progress'[key].collected
            /\ log[key] # "none" => log'[key] = log[key]
            /\ pb'[key].attempts >= pb[key].attempts
            /\ pb'[key].finishes >= pb[key].finishes
  <1>1. IInv /\ [Next]_vars => Sticks
    <2> SUFFICES ASSUME IInv, [Next]_vars PROVE Sticks
      OBVIOUS
    <2>1. \A key \in Keys : pb[key].attempts \in Nat /\ pb[key].finishes \in Nat
      BY DEF IInv, TypeOK, PbRecords
    <2>2. CASE records' = records
      BY <2>1, <2>2 DEF records
    <2>3. ASSUME NEW t \in Tasks, CommitCollectible(t) PROVE Sticks
      <3>1. task[t].pc = "commit" /\ task[t].kind # "attempt" /\ Drop(t)
        BY <2>3 DEF CommitCollectible
      <3>2. Key(t) \in Keys /\ Key(t) = Place(task[t]) /\ Fits(task[t])
        BY <3>1, CommitShape
      <3>3. task[t].logs => log[Key(t)] = "none"
        BY <3>1, <3>2 DEF Fits, Shaped, Collects, IInv, LoggedIsCollected
      <3>4. /\ pb' = pb
            /\ progress' = [progress EXCEPT ![Key(t)] = Coalesced(t, progress[Key(t)])]
            /\ log' = [log EXCEPT ![Key(t)] = IF task[t].logs THEN task[t].source ELSE log[Key(t)]]
        BY <2>3 DEF CommitCollectible
      <3>5. ASSUME NEW key \in Keys
            PROVE  /\ progress[key].unlocked => progress'[key].unlocked
                   /\ progress[key].collected => progress'[key].collected
                   /\ log[key] # "none" => log'[key] = log[key]
        <4>1. CASE key = Key(t)
          BY <3>2, <3>3, <3>4, <4>1 DEF IInv, TypeOK, Coalesced
        <4>2. CASE key # Key(t)
          BY <3>2, <3>4, <4>2 DEF IInv, TypeOK
        <4>3. QED
          BY <4>1, <4>2
      <3>6. QED
        BY <2>1, <3>4, <3>5
    <2>4. ASSUME NEW t \in Tasks, CommitAttempt(t) PROVE Sticks
      <3>1. task[t].pc = "commit" /\ task[t].kind = "attempt" /\ Drop(t)
        BY <2>4 DEF CommitAttempt
      <3>2. Key(t) \in Keys /\ Key(t) = Place(task[t]) /\ Fits(task[t])
        BY <3>1, CommitShape
      <3>3. /\ progress' = progress /\ log' = log
            /\ pb' = [pb EXCEPT ![Key(t)] = task[t].pb]
        BY <2>4 DEF CommitAttempt
      <3>4. /\ task[t].pb.attempts = pb[Key(t)].attempts + 1
            /\ \/ task[t].pb.finishes = pb[Key(t)].finishes + 1
               \/ task[t].pb.finishes = pb[Key(t)].finishes
        BY <3>1, <3>2 DEF Fits, Attempts
      <3>5. ASSUME NEW key \in Keys
            PROVE  /\ pb'[key].attempts >= pb[key].attempts
                   /\ pb'[key].finishes >= pb[key].finishes
        BY <2>1, <3>2, <3>3, <3>4 DEF IInv, TypeOK
      <3>6. QED
        BY <3>3, <3>5
    <2>5. QED
      BY <2>2, <2>3, <2>4, OnlyCommitsWrite
  <1>2. QED
    BY <1>1, Invariance, PTL DEF Spec, ProgressIsSticky

-----------------------------------------------------------------------------
(* PlayerProgress implements ProgressLedger: a report counts at its commit, *)
(* every other step of a transaction is a stutter.                          *)

\* What a transaction was allowed to do by the map's rows it still is: it
\* shares the binding, so the rows are those that it looked at.
Judged(r) ==
    r.pc \notin {"idle", "lock"} =>
        IF r.kind = "attempt"
        THEN <<r.slug, r.lower>> \in MapRows[rows].games
        ELSE /\ r.slug \in MapRows[rows].items
             /\ r.kind = "collect" => <<r.slug, r.source>> \in MapRows[rows].paths

AllJudged == \A t \in Tasks : Judged(task[t])

\* Whatever is bound, the rows are of the slugs, paths and orders there are.
LEMMA MapRowsType == \A c \in Contents \cup {Nil} : MapRows[c] \in Ledger!Offers
  <1> SUFFICES ASSUME NEW c \in Contents \cup {Nil} PROVE MapRows[c] \in Ledger!Offers
    OBVIOUS
  <1>1. ASSUME NEW I \in SUBSET Slugs, NEW P \in SUBSET (Slugs \X {"zone", "grant"}),
               NEW G \in SUBSET (Slugs \X BOOLEAN),
               MapRows[c] = [items |-> I, paths |-> P, games |-> G]
        PROVE  MapRows[c] \in Ledger!Offers
    BY <1>1 DEF Ledger!Offers, Ledger!Sources
  <1>2. CASE c = Nil
    <2>1. MapRows[c] = [items |-> {}, paths |-> {}, games |-> {}]
      BY <1>2 DEF MapRows
    <2>2. QED
      BY <1>1, <2>1
  <1>3. CASE c # Nil
    <2> DEFINE slug == CollectibleSlugs(c)
               item == CollectibleItems(c)
               I == {k \in Slugs : \E i \in DOMAIN slug : slug[i] = k}
               P == {p \in Slugs \X {"zone", "grant"} :
                        \E i \in DOMAIN slug :
                            /\ slug[i] = p[1]
                            /\ IF p[2] = "grant" THEN Granted(item[i]) ELSE InZone(item[i])}
               G == {g \in Slugs \X BOOLEAN :
                        \E i \in DOMAIN GameSlugs(c) :
                            /\ GameSlugs(c)[i] = g[1]
                            /\ g[2] = (Games[c][i].kind = "Sprint")}
    <2>1. MapRows[c] = [items |-> I, paths |-> P, games |-> G]
      BY <1>3, Zenon DEF MapRows
    <2>2. I \in SUBSET Slugs /\ P \in SUBSET (Slugs \X {"zone", "grant"})
          /\ G \in SUBSET (Slugs \X BOOLEAN)
      BY Zenon
    <2> HIDE DEF I, P, G
    <2>3. QED
      BY <1>1, <2>1, <2>2
  <1>4. QED
    BY <1>2, <1>3

\* A game that is on the map is there with the order that the report reads.
LEMMA OrderIsOnMap ==
  ASSUME NEW k, GameOnMap(k) PROVE <<k, LowerIsBetter(k)>> \in MapRows[rows].games
  <1>1. PICK lower \in BOOLEAN : <<k, lower>> \in MapRows[rows].games
    BY DEF GameOnMap
  <1>2. LowerIsBetter(k) \in BOOLEAN
    BY DEF LowerIsBetter
  <1>3. CASE LowerIsBetter(k) = TRUE
    BY <1>3 DEF LowerIsBetter
  <1>4. CASE LowerIsBetter(k) = FALSE
    <2>1. lower # TRUE
      BY <1>1, <1>4 DEF LowerIsBetter
    <2>2. QED
      BY <1>1, <1>4, <2>1
  <1>5. QED
    BY <1>2, <1>3, <1>4

\* One report goes on.
LEMMA MovesJudge ==
  ASSUME IInv, AllJudged, NEW t \in Tasks, NEW r, task' = [task EXCEPT ![t] = r],
         rows' = rows, Judged(r)
  PROVE  AllJudged'
  <1>1. task'[t] = r /\ \A s \in Tasks \ {t} : task'[s] = task[s]
    BY DEF IInv, TypeOK
  <1>2. QED
    BY <1>1 DEF AllJudged, Judged

\* A report that was judged keeps what it was judged by.
LEMMA LaterStepsJudge ==
  ASSUME IInv, AllJudged, NEW t \in Tasks,
         SelectProgress(t) \/ UpsertProgress(t) \/ AppendLog(t) \/ InsertAttempt(t) \/ ScoreFinish(t)
  PROVE  AllJudged'
  <1>1. rows' = rows
    BY DEF SelectProgress, UpsertProgress, AppendLog, InsertAttempt, ScoreFinish, binding
  <1>2. task[t] \in TaskRecords /\ task[t].pc \notin {"idle", "lock"}
    BY DEF SelectProgress, UpsertProgress, AppendLog, InsertAttempt, ScoreFinish, IInv, TypeOK
  <1>3. PICK r : /\ task' = [task EXCEPT ![t] = r]
                 /\ r.kind = task[t].kind /\ r.slug = task[t].slug
                 /\ r.source = task[t].source /\ r.lower = task[t].lower
    <2>1. CASE SelectProgress(t)
      <3> DEFINE r == [task[t] EXCEPT !.pc = "upsert", !.first = FirstCollect(t),
                                      !.holds = Row(t).unlocked]
      <3>1. task' = [task EXCEPT ![t] = r]
        BY <2>1 DEF SelectProgress
      <3>2. /\ r.kind = task[t].kind /\ r.slug = task[t].slug
            /\ r.source = task[t].source /\ r.lower = task[t].lower
        BY <1>2 DEF TaskRecords
      <3> HIDE DEF r
      <3>3. QED
        BY <3>1, <3>2
    <2>2. ASSUME NEW pc, task' = [task EXCEPT ![t].pc = pc]
          PROVE  \E r : /\ task' = [task EXCEPT ![t] = r]
                        /\ r.kind = task[t].kind /\ r.slug = task[t].slug
                        /\ r.source = task[t].source /\ r.lower = task[t].lower
      <3> DEFINE r == [task[t] EXCEPT !.pc = pc]
      <3>1. task' = [task EXCEPT ![t] = r]
        BY <2>2
      <3>2. /\ r.kind = task[t].kind /\ r.slug = task[t].slug
            /\ r.source = task[t].source /\ r.lower = task[t].lower
        BY <1>2 DEF TaskRecords
      <3> HIDE DEF r
      <3>3. QED
        BY <3>1, <3>2
    <2>3. CASE UpsertProgress(t)
      BY <2>2, <2>3 DEF UpsertProgress, Goto
    <2>4. CASE AppendLog(t)
      <3> DEFINE r == [task[t] EXCEPT !.pc = "commit", !.logs = (log[Key(t)] = "none")]
      <3>1. task' = [task EXCEPT ![t] = r]
        BY <2>4 DEF AppendLog
      <3>2. /\ r.kind = task[t].kind /\ r.slug = task[t].slug
            /\ r.source = task[t].source /\ r.lower = task[t].lower
        BY <1>2 DEF TaskRecords
      <3> HIDE DEF r
      <3>3. QED
        BY <3>1, <3>2
    <2>5. ASSUME NEW pc, NEW row, task' = [task EXCEPT ![t].pc = pc, ![t].pb = row]
          PROVE  \E r : /\ task' = [task EXCEPT ![t] = r]
                        /\ r.kind = task[t].kind /\ r.slug = task[t].slug
                        /\ r.source = task[t].source /\ r.lower = task[t].lower
      <3> DEFINE r == [task[t] EXCEPT !.pc = pc, !.pb = row]
      <3>1. task' = [task EXCEPT ![t] = r]
        BY <2>5
      <3>2. /\ r.kind = task[t].kind /\ r.slug = task[t].slug
            /\ r.source = task[t].source /\ r.lower = task[t].lower
        BY <1>2 DEF TaskRecords
      <3> HIDE DEF r
      <3>3. QED
        BY <3>1, <3>2
    <2>6. CASE InsertAttempt(t)
      BY <2>5, <2>6 DEF InsertAttempt
    <2>7. CASE ScoreFinish(t)
      BY <2>5, <2>7 DEF ScoreFinish
    <2>8. QED
      BY <2>1, <2>3, <2>4, <2>6, <2>7
  <1>4. Judged(r)
    BY <1>2, <1>3 DEF AllJudged, Judged
  <1>5. QED
    BY <1>1, <1>3, <1>4, MovesJudge

\* The locks are taken, and the map's rows are looked at.
LEMMA LocksJudge ==
  ASSUME IInv, AllJudged, NEW t \in Tasks, LockCollectible(t) \/ LockGame(t)
  PROVE  AllJudged'
  <1>1. rows' = rows /\ task[t] \in TaskRecords
    BY DEF LockCollectible, LockGame, binding, IInv, TypeOK
  <1>2. CASE Drop(t)
    BY <1>1, <1>2, IdleType, MovesJudge DEF Drop, Judged
  <1>3. ASSUME NEW pc, Goto(t, pc), task[t].kind # "attempt",
               CollectibleOnMap(task[t].slug), Allowed(t)
        PROVE  AllJudged'
    <2> DEFINE r == [task[t] EXCEPT !.pc = pc]
    <2>1. task' = [task EXCEPT ![t] = r]
      BY <1>3 DEF Goto
    <2>2. r.kind = task[t].kind /\ r.slug = task[t].slug /\ r.source = task[t].source
      BY <1>1 DEF TaskRecords
    <2> HIDE DEF r
    <2>3. Judged(r)
      BY <1>3, <2>2 DEF Judged, CollectibleOnMap, Allowed, Permits
    <2>4. QED
      BY <1>1, <2>1, <2>3, MovesJudge
  <1>4. ASSUME GameOnMap(task[t].slug), task[t].kind = "attempt",
               task' = [task EXCEPT ![t].pc = "attempt", ![t].lower = LowerIsBetter(task[t].slug)]
        PROVE  AllJudged'
    <2> DEFINE r == [task[t] EXCEPT !.pc = "attempt", !.lower = LowerIsBetter(task[t].slug)]
    <2>1. task' = [task EXCEPT ![t] = r]
      BY <1>4
    <2>2. /\ r.kind = task[t].kind /\ r.slug = task[t].slug
          /\ r.lower = LowerIsBetter(task[t].slug)
      BY <1>1 DEF TaskRecords
    <2> HIDE DEF r
    <2>3. Judged(r)
      BY <1>4, <2>2, OrderIsOnMap DEF Judged
    <2>4. QED
      BY <1>1, <2>1, <2>3, MovesJudge
  <1>5. QED
    BY <1>2, <1>3, <1>4 DEF LockCollectible, LockGame

\* A report arrives, and has not been judged yet.
LEMMA ArrivalsJudge ==
  ASSUME IInv, AllJudged, NEW t \in Tasks, NEW u \in Users, NEW s \in Specs, NEW k \in Slugs,
         \/ ReportUnlock(t, u, s, k)
         \/ \E source \in {"zone", "grant"} : ReportCollect(t, u, s, k, source)
         \/ \E time \in Times, finish \in BOOLEAN : ReportAttempt(t, u, s, k, time, finish)
  PROVE  AllJudged'
  <1>1. rows' = rows
    BY DEF ReportUnlock, ReportCollect, ReportAttempt, binding
  <1>2. PICK r : task' = [task EXCEPT ![t] = r] /\ r.pc = "lock"
    <2>1. CASE ReportUnlock(t, u, s, k)
      <3> DEFINE r == [IdleTask EXCEPT !.pc = "lock", !.user = u, !.spec = s, !.slug = k]
      <3>1. task' = [task EXCEPT ![t] = r]
        BY <2>1 DEF ReportUnlock
      <3>2. r.pc = "lock"
        BY IdleType DEF TaskRecords
      <3> HIDE DEF r
      <3>3. QED
        BY <3>1, <3>2
    <2>2. ASSUME NEW source, ReportCollect(t, u, s, k, source)
          PROVE  \E r : task' = [task EXCEPT ![t] = r] /\ r.pc = "lock"
      <3> DEFINE r == [IdleTask EXCEPT !.pc = "lock", !.kind = "collect", !.user = u, !.spec = s,
                                       !.slug = k, !.source = source]
      <3>1. task' = [task EXCEPT ![t] = r]
        BY <2>2 DEF ReportCollect
      <3>2. r.pc = "lock"
        BY IdleType DEF TaskRecords
      <3> HIDE DEF r
      <3>3. QED
        BY <3>1, <3>2
    <2>3. ASSUME NEW time, NEW finish, ReportAttempt(t, u, s, k, time, finish)
          PROVE  \E r : task' = [task EXCEPT ![t] = r] /\ r.pc = "lock"
      <3> DEFINE r == [IdleTask EXCEPT !.pc = "lock", !.kind = "attempt", !.user = u, !.spec = s,
                          !.slug = k, !.time = IF finish THEN time ELSE @, !.finish = finish]
      <3>1. task' = [task EXCEPT ![t] = r]
        BY <2>3 DEF ReportAttempt
      <3>2. r.pc = "lock"
        BY IdleType DEF TaskRecords
      <3> HIDE DEF r
      <3>3. QED
        BY <3>1, <3>2
    <2>4. QED
      BY <2>1, <2>2, <2>3
  <1>3. QED
    BY <1>1, <1>2, MovesJudge DEF Judged

\* No upload or bind changes the rows under a report that has been judged.
LEMMA JudgedStep == IInv /\ AllJudged /\ [Next]_vars => AllJudged'
  <1> SUFFICES ASSUME IInv, AllJudged, [Next]_vars PROVE AllJudged'
    OBVIOUS
  <1>1. CASE UNCHANGED vars
    BY <1>1 DEF vars, binding, AllJudged, Judged
  <1>2. ASSUME NEW s \in Specs, NEW c \in Contents, Upload(s, c) PROVE AllJudged'
    BY <1>2 DEF Upload, AllJudged, Judged
  <1>3. ASSUME NEW s \in Specs, Bind(s) PROVE AllJudged'
    BY <1>3 DEF Bind, Sharing, InTransaction, AllJudged, Judged
  <1>4. ASSUME NEW t \in Tasks, Step(t) PROVE AllJudged'
    <2>1. CASE CommitCollectible(t) \/ CommitAttempt(t) \/ ReportFails(t)
      <3>1. Drop(t) /\ rows' = rows
        BY <2>1 DEF CommitCollectible, CommitAttempt, ReportFails, binding
      <3>2. QED
        BY <3>1, IdleType, MovesJudge DEF Drop, Judged
    <2>2. QED
      BY <1>4, <2>1, LocksJudge, LaterStepsJudge DEF Step
  <1>5. QED
    BY <1>1, <1>2, <1>3, <1>4, ArrivalsJudge DEF Next, Arrives

\* A collection or an unlock counts at its commit.
LEMMA CollectibleCommitCounts ==
  ASSUME IInv, AllJudged, NEW t \in Tasks, CommitCollectible(t)
  PROVE  [Ledger!Next]_(Ledger!vars)
  <1> DEFINE r == task[t]
             key == Key(t)
             Unlocked == {k \in Keys : progress[k].unlocked}
             Collected == {k \in Keys : progress[k].collected}
  <1>1. r.pc = "commit" /\ r.kind # "attempt" /\ Drop(t)
    BY DEF CommitCollectible
  <1>2. key \in Keys /\ key = Place(r) /\ Fits(r) /\ Judged(r) /\ r \in TaskRecords
    BY <1>1, CommitShape DEF AllJudged, IInv, TypeOK
  <1>3. PICK u \in Users, k \in Slugs : u = r.user /\ k = r.slug /\ key = <<u, k>>
    BY <1>2 DEF Keys, Key
  <1>4. /\ rows' = rows /\ pb' = pb /\ finished' = finished
        /\ progress' = [progress EXCEPT ![key] = Coalesced(t, progress[key])]
        /\ log' = [log EXCEPT ![key] = IF r.logs THEN r.source ELSE log[key]]
    BY DEF CommitCollectible, binding
  <1>5. /\ progress'[key].unlocked
        /\ progress'[key].collected <=> (progress[key].collected \/ r.kind = "collect")
        /\ \A q \in Keys \ {key} : progress'[q] = progress[q]
    BY <1>2, <1>4 DEF IInv, TypeOK, Coalesced
  <1>6. Unlocked' = Unlocked \cup {<<u, k>>}
    BY <1>2, <1>3, <1>5
  <1>7. k \in MapRows[rows].items
    BY <1>1, <1>2, <1>3 DEF Judged
  <1>8. CASE r.kind = "collect"
    <2>1. PICK source \in {"zone", "grant"} : source = r.source
      BY <1>2 DEF TaskRecords
    <2>2. <<k, source>> \in MapRows[rows].paths
      BY <1>1, <1>2, <1>3, <1>8, <2>1 DEF Judged
    <2>3. Collected' = Collected \cup {<<u, k>>}
      BY <1>2, <1>3, <1>5, <1>8
    <2>4. r.logs <=> ~progress[key].collected
      BY <1>1, <1>2, <1>8 DEF Fits, Collects
    <2>5. log' = [log EXCEPT ![<<u, k>>] = IF <<u, k>> \in Collected THEN log[<<u, k>>] ELSE source]
      BY <1>2, <1>3, <1>4, <2>1, <2>4
    <2>6. Ledger!Collect(u, k, source)
      BY <1>4, <1>6, <1>7, <2>2, <2>3, <2>5 DEF Ledger!Collect
    <2>7. QED
      BY <2>6 DEF Ledger!Next, Ledger!Sources
  <1>9. CASE r.kind # "collect"
    <2>1. Collected' = Collected
      BY <1>2, <1>5, <1>9
    <2>2. ~r.logs
      BY <1>2, <1>9 DEF Fits, Shaped
    <2>3. log' = log
      BY <1>2, <1>4, <2>2 DEF IInv, TypeOK
    <2>4. Ledger!Unlock(u, k)
      BY <1>4, <1>6, <1>7, <2>1, <2>3 DEF Ledger!Unlock
    <2>5. QED
      BY <2>4 DEF Ledger!Next
  <1>10. QED
    BY <1>8, <1>9

\* An attempt counts at its commit, against the best that there is then.
LEMMA AttemptCommitCounts ==
  ASSUME IInv, AllJudged, NEW t \in Tasks, CommitAttempt(t)
  PROVE  [Ledger!Next]_(Ledger!vars)
  <1> DEFINE r == task[t]
             key == Key(t)
             old == pb[key]
  <1>1. r.pc = "commit" /\ r.kind = "attempt" /\ Drop(t)
    BY DEF CommitAttempt
  <1>2. key \in Keys /\ key = Place(r) /\ Fits(r) /\ Judged(r) /\ r \in TaskRecords
    BY <1>1, CommitShape DEF AllJudged, IInv, TypeOK
  <1>3. PICK u \in Users, k \in Slugs : u = r.user /\ k = r.slug /\ key = <<u, k>>
    BY <1>2 DEF Keys, Key
  <1>4. /\ rows' = rows /\ progress' = progress /\ log' = log
        /\ pb' = [pb EXCEPT ![key] = r.pb]
        /\ finished' = [finished EXCEPT ![key] =
               IF r.finish THEN finished[key] \cup {<<r.time, r.lower>>} ELSE finished[key]]
    BY DEF CommitAttempt, binding
  <1>5. r.pb \in PbRecords /\ old \in PbRecords /\ r.time \in Times /\ r.lower \in BOOLEAN
    BY <1>2 DEF IInv, TypeOK, TaskRecords
  <1>6. <<k, r.lower>> \in MapRows[rows].games
    BY <1>1, <1>2, <1>3 DEF Judged
  <1>7. /\ r.pb.attempts = old.attempts + 1
        /\ r.pb.finishes = IF r.finish THEN old.finishes + 1 ELSE old.finishes
        /\ r.pb.score = IF r.finish /\ Beats(r, old) THEN r.time ELSE old.score
    BY <1>1, <1>2 DEF Fits, Attempts
  <1>8. CASE r.finish
    <2>1. PICK lower \in BOOLEAN, time \in Times : lower = r.lower /\ time = r.time
      BY <1>5
    <2>2. time >= 0
      BY <1>2, <1>8, <2>1 DEF Fits, Shaped
    <2>3. Ledger!Beats(time, lower, old) <=> Beats(r, old)
      BY <2>1 DEF Beats, Ledger!Beats
    <2>4. r.pb = [score |-> IF Ledger!Beats(time, lower, old) THEN time ELSE old.score,
                  finishes |-> old.finishes + 1, attempts |-> old.attempts + 1]
      <3>1. PICK score \in Nat : /\ score = r.pb.score
                                 /\ score = IF Ledger!Beats(time, lower, old) THEN time ELSE old.score
        BY <1>5, <1>7, <1>8, <2>1, <2>3 DEF PbRecords
      <3>2. r.pb.finishes = old.finishes + 1 /\ r.pb.attempts = old.attempts + 1
        BY <1>7, <1>8
      <3>3. r.pb = [score |-> score, finishes |-> old.finishes + 1, attempts |-> old.attempts + 1]
        BY <1>5, <3>1, <3>2 DEF PbRecords
      <3>4. QED
        BY <3>1, <3>3
    <2>5. finished' = [finished EXCEPT ![<<u, k>>] = finished[<<u, k>>] \cup {<<time, lower>>}]
      BY <1>3, <1>4, <1>8, <2>1
    <2>6. pb' = [pb EXCEPT ![<<u, k>>] =
                   [score |-> IF Ledger!Beats(time, lower, pb[<<u, k>>]) THEN time
                              ELSE pb[<<u, k>>].score,
                    finishes |-> pb[<<u, k>>].finishes + 1,
                    attempts |-> pb[<<u, k>>].attempts + 1]]
      BY <1>3, <1>4, <2>4
    <2>7. Ledger!Finish(u, k, lower, time)
      BY <1>2, <1>3, <1>4, <1>6, <2>1, <2>2, <2>5, <2>6 DEF Ledger!Finish
    <2>8. QED
      BY <2>7 DEF Ledger!Next
  <1>9. CASE ~r.finish
    <2>1. finished' = finished
      BY <1>2, <1>4, <1>9 DEF IInv, TypeOK
    <2>2. r.pb = [old EXCEPT !.attempts = @ + 1]
      BY <1>5, <1>7, <1>9 DEF PbRecords
    <2>3. pb' = [pb EXCEPT ![<<u, k>>].attempts = @ + 1]
      BY <1>3, <1>4, <2>2
    <2>4. Ledger!Attempt(u, k)
      BY <1>4, <1>5, <1>6, <2>1, <2>3 DEF Ledger!Attempt
    <2>5. QED
      BY <2>4 DEF Ledger!Next
  <1>10. QED
    BY <1>8, <1>9

\* A step that is no commit changes at most what the map offers.
LEMMA OthersAreSilent ==
  ASSUME IInv, [Next]_vars, records' = records
  PROVE  [Ledger!Next]_(Ledger!vars)
  <1>1. rows' \in Contents \cup {Nil}
    BY IInvStep DEF IInv, TypeOK
  <1>2. MapRows[rows'] \in Ledger!Offers
    BY <1>1, MapRowsType
  <1>3. progress' = progress /\ log' = log /\ pb' = pb /\ finished' = finished
    BY DEF records
  <1>4. Ledger!Rebind
    BY <1>2, <1>3 DEF Ledger!Rebind
  <1>5. QED
    BY <1>4 DEF Ledger!Next

\* Reports count as ProgressLedger says, for any number of players and
\* connections: each as a whole at its commit, judged by the rows that the map
\* has then (record_collect_transition, report_unlock, report_attempt).
THEOREM ImplementsTheLedger == Spec => ImplementsLedger
  <1>1. ASSUME Init PROVE Ledger!Init
    <2>1. PICK old \in SUBSET OldRows : progress = [key \in Keys |->
              IF key \in old THEN [unlocked |-> TRUE, collected |-> TRUE] ELSE NoRow]
      BY <1>1 DEF Init
    <2>2. {key \in Keys : progress[key].collected} = {key \in Keys : progress[key].unlocked}
      BY <2>1 DEF NoRow
    <2>3. QED
      BY <1>1, <2>2 DEF Init, Ledger!Init, Ledger!Keys, MapRows, NoPb, Keys
  <1>2. Init => AllJudged
    BY IdleType DEF Init, AllJudged, Judged
  <1>3. IInv /\ AllJudged /\ [Next]_vars => [Ledger!Next]_(Ledger!vars)
    BY OnlyCommitsWrite, CollectibleCommitCounts, AttemptCommitCounts, OthersAreSilent
  <1>4. QED
    BY InitIInv, IInvStep, JudgedStep, <1>1, <1>2, <1>3, PTL
       DEF Spec, ImplementsLedger, Ledger!Spec
-----------------------------------------------------------------------------
(* That reports end: the locks are not waited for in a circle, and no      *)
(* statement is run again.                                                 *)

\* The statements that ask for a player's row, and wait while it is held.
Waits(t) == task[t].pc \in {"select", "upsert", "attempt"} /\ RowHeld(t)

\* Task s holds the row that t asks for.
HoldsRowOf(s, t) == s # t /\ SameRow(task[s], task[t]) /\ Holding(task[s])

\* Who waits, waits for a transaction that has its row and waits for nobody: a
\* report keeps one player's row at most, and what it shares with other reports
\* keeps only uploads and binds out, which hold nothing while they wait.
\* Hence while reports are under way, one of them need not wait.
NoCircularWait ==
    /\ \A t \in Tasks : Waits(t) =>
           /\ \E s \in Tasks : HoldsRowOf(s, t)
           /\ \A s \in Tasks : HoldsRowOf(s, t) => ~Waits(s)
    /\ (\E t \in Tasks : task[t].pc # "idle")
           => \E t \in Tasks : task[t].pc # "idle" /\ ~Waits(t)

\* The statements a report has before it at most.
Left == [lock |-> 5, select |-> 4, upsert |-> 3, attempt |-> 3, log |-> 2, score |-> 2,
         commit |-> 1, idle |-> 0]

\* Each statement of a report brings it nearer its end, and nobody else sets it
\* back: a conflicting insert is not retried and a rebind repeats nothing.
StatementsRunOut ==
    [][\A t \in Tasks : task[t].pc # "idle" =>
           /\ Step(t) => Left[task'[t].pc] < Left[task[t].pc]
           /\ ~Step(t) => task'[t] = task[t]]_vars

\* A holder holds one row, and does not ask for another.
LEMMA HoldersDoNotWait ==
  ASSUME IInv, NEW s \in Tasks, Holding(task[s])
  PROVE  ~Waits(s)
  <1> SUFFICES ASSUME Waits(s) PROVE FALSE
    OBVIOUS
  <1>1. task[s].pc = "upsert" /\ task[s].holds
    BY DEF Waits, Holding
  <1>2. PICK r \in Tasks \ {s} : /\ task[r].user = task[s].user /\ task[r].slug = task[s].slug
                                 /\ (task[r].kind = "attempt") = (task[s].kind = "attempt")
                                 /\ \/ task[r].pc \in {"log", "score", "commit"}
                                    \/ task[r].pc = "upsert" /\ task[r].holds
    BY DEF Waits, RowHeld
  <1>3. SameRow(task[r], task[s]) /\ Holding(task[r])
    BY <1>2 DEF SameRow, Holding
  <1>4. QED
    BY <1>2, <1>3 DEF IInv, Exclusive

\* Rows are waited for as they are held.
LEMMA WaitsEnd ==
  ASSUME IInv
  PROVE  NoCircularWait
  <1>1. ASSUME NEW t \in Tasks, Waits(t)
        PROVE  \E s \in Tasks : HoldsRowOf(s, t)
    BY <1>1 DEF Waits, RowHeld, HoldsRowOf, SameRow, Holding
  <1>2. ASSUME NEW s \in Tasks, NEW t \in Tasks, HoldsRowOf(s, t)
        PROVE  task[s].pc # "idle" /\ ~Waits(s)
    BY <1>2, HoldersDoNotWait DEF HoldsRowOf, Holding
  <1>3. QED
    BY <1>1, <1>2 DEF NoCircularWait

\* A report's own statements are in their order.
LEMMA StatementsLead ==
  ASSUME IInv, NEW t \in Tasks, Step(t)
  PROVE  Left[task'[t].pc] < Left[task[t].pc]
  <1>0. task \in [Tasks -> TaskRecords] /\ task[t] \in TaskRecords
    BY DEF IInv, TypeOK
  <1>1. ASSUME NEW r, task' = [task EXCEPT ![t] = r], Left[r.pc] < Left[task[t].pc]
        PROVE  Left[task'[t].pc] < Left[task[t].pc]
    BY <1>0, <1>1
  <1>2. ASSUME NEW pc, Goto(t, pc), Left[pc] < Left[task[t].pc]
        PROVE  Left[task'[t].pc] < Left[task[t].pc]
    <2>1. task'[t].pc = pc
      BY <1>0, <1>2 DEF Goto, TaskRecords
    <2>2. QED
      BY <1>2, <2>1
  <1>3. ASSUME Drop(t), task[t].pc # "idle"
        PROVE  Left[task'[t].pc] < Left[task[t].pc]
    <2>1. task'[t].pc = "idle"
      BY <1>0, <1>3 DEF Drop, IdleTask
    <2>2. QED
      BY <1>0, <1>3, <2>1 DEF Left, TaskRecords
  <1>4. CASE LockCollectible(t) \/ UpsertProgress(t)
    BY <1>2, <1>3, <1>4 DEF LockCollectible, UpsertProgress, Left
  <1>5. CASE LockGame(t)
    <2>1. CASE Drop(t)
      BY <1>3, <1>5, <2>1 DEF LockGame
    <2>2. CASE task' = [task EXCEPT ![t].pc = "attempt", ![t].lower = LowerIsBetter(task[t].slug)]
      <3>1. task'[t].pc = "attempt"
        BY <1>0, <2>2 DEF TaskRecords
      <3>2. QED
        BY <1>5, <3>1 DEF LockGame, Left
    <2>3. QED
      BY <1>5, <2>1, <2>2 DEF LockGame
  <1>6. CASE SelectProgress(t)
    <2>1. task'[t].pc = "upsert"
      BY <1>0, <1>6 DEF SelectProgress, TaskRecords
    <2>2. QED
      BY <1>6, <2>1 DEF SelectProgress, Left
  <1>7. CASE AppendLog(t)
    <2>1. task'[t].pc = "commit"
      BY <1>0, <1>7 DEF AppendLog, TaskRecords
    <2>2. QED
      BY <1>7, <2>1 DEF AppendLog, Left
  <1>8. CASE InsertAttempt(t)
    <2>1. task'[t].pc \in {"score", "commit"}
      BY <1>0, <1>8 DEF InsertAttempt, TaskRecords
    <2>2. QED
      BY <1>8, <2>1 DEF InsertAttempt, Left
  <1>9. CASE ScoreFinish(t)
    <2>1. task'[t].pc = "commit"
      BY <1>0, <1>9 DEF ScoreFinish, TaskRecords
    <2>2. QED
      BY <1>9, <2>1 DEF ScoreFinish, Left
  <1>10. CASE CommitCollectible(t) \/ CommitAttempt(t) \/ ReportFails(t)
    BY <1>3, <1>10 DEF CommitCollectible, CommitAttempt, ReportFails
  <1>11. QED
    BY <1>4, <1>5, <1>6, <1>7, <1>8, <1>9, <1>10 DEF Step

\* What others do leaves a report where it is.
LEMMA OthersLeaveReports ==
  ASSUME IInv, [Next]_vars, NEW t \in Tasks, task[t].pc # "idle", ~Step(t)
  PROVE  task'[t] = task[t]
  <1>0. task \in [Tasks -> TaskRecords]
    BY DEF IInv, TypeOK
  <1>1. CASE UNCHANGED vars
    BY <1>1 DEF vars
  <1>2. ASSUME NEW s \in Specs, (\E c \in Contents : Upload(s, c)) \/ Bind(s)
        PROVE  task'[t] = task[t]
    BY <1>2 DEF Upload, Bind
  <1>3. ASSUME NEW s \in Tasks, task[s].pc = "idle",
               NEW u \in Users, NEW sp \in Specs, NEW k \in Slugs,
               \/ ReportUnlock(s, u, sp, k)
               \/ \E source \in {"zone", "grant"} : ReportCollect(s, u, sp, k, source)
               \/ \E time \in Times, finish \in BOOLEAN : ReportAttempt(s, u, sp, k, time, finish)
        PROVE  task'[t] = task[t]
    <2>1. s # t /\ \A r : task' = [task EXCEPT ![s] = r] => task'[t] = task[t]
      BY <1>0, <1>3 DEF ReportUnlock, ReportCollect, ReportAttempt
    <2>2. \E r : task' = [task EXCEPT ![s] = r]
      BY <1>3 DEF ReportUnlock, ReportCollect, ReportAttempt
    <2>3. QED
      BY <2>1, <2>2
  <1>4. ASSUME NEW s \in Tasks, s # t, Step(s)
        PROVE  task'[t] = task[t]
    <2>1. CASE LockCollectible(s) \/ UpsertProgress(s) \/ LockGame(s)
      BY <1>0, <1>4, <2>1 DEF LockCollectible, UpsertProgress, LockGame, Goto, Drop
    <2>2. CASE SelectProgress(s) \/ AppendLog(s) \/ InsertAttempt(s) \/ ScoreFinish(s)
      BY <1>0, <1>4, <2>2 DEF SelectProgress, AppendLog, InsertAttempt, ScoreFinish
    <2>3. CASE CommitCollectible(s) \/ CommitAttempt(s) \/ ReportFails(s)
      BY <1>0, <1>4, <2>3 DEF CommitCollectible, CommitAttempt, ReportFails, Drop
    <2>4. QED
      BY <1>4, <2>1, <2>2, <2>3 DEF Step
  <1>5. QED
    BY <1>1, <1>2, <1>3, <1>4 DEF Next, Arrives

\* The row locks of report_attempt, report_unlock and record_collect_transition
\* wedge nobody, whatever number of connections a player has.
THEOREM NobodyWaitsInACircle == Spec => []NoCircularWait
  BY WaitsEnd, Invariance, PTL

\* A report is a bounded number of statements, whatever happens meanwhile.
THEOREM ReportsComeToAnEnd == Spec => StatementsRunOut
  <1> DEFINE RunsOut == \A t \in Tasks : task[t].pc # "idle" =>
           /\ Step(t) => Left[task'[t].pc] < Left[task[t].pc]
           /\ ~Step(t) => task'[t] = task[t]
  <1>1. IInv /\ [Next]_vars => [RunsOut]_vars
    BY StatementsLead, OthersLeaveReports
  <1> HIDE DEF RunsOut
  <1>2. Spec => [][RunsOut]_vars
    BY <1>1, Invariance, PTL DEF Spec
  <1>3. QED
    BY <1>2 DEF StatementsRunOut, RunsOut
=============================================================================
