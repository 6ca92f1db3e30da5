------------------------- MODULE LeaderboardsProofs -------------------------
(***************************************************************************)
(* Proofs about Leaderboards, for any number of players and tasks, any     *)
(* heights and thresholds.                                                 *)
(*                                                                         *)
(* The listing (ListingInv): while a map is unlisted and nothing was made  *)
(* easier for it, its committed rows stay below the threshold, because an  *)
(* insert that commits without listing counted these rows and its own      *)
(* under the lock, and none is added until it commits.  The heights        *)
(* (MapInv, PbInv): a report's height has reached the board when it is     *)
(* served, unless another report of the player overlapped it.              *)
(*                                                                         *)
(* At the end: the locks are waited for in one order, and a report's       *)
(* statements run out.                                                     *)
(***************************************************************************)
EXTENDS Leaderboards, FiniteSetTheorems, TLAPS

\* A report in service says whose it is and what it reports.
Busy(t) ==
    IF task[t].pc = "idle"
    THEN task[t].player = Nil
    ELSE task[t].player \in Players /\ task[t].height \in Heights

TypeInv == TypeOK /\ \A t \in Tasks : Busy(t)

-----------------------------------------------------------------------------
(* Types.                                                                  *)

\* The fields of an idle task, and of one that has just got its report.
LEMMA IdleFields ==
  /\ IdleTask \in TaskRecords
  /\ IdleTask.pc = "idle" /\ IdleTask.player = Nil /\ IdleTask.height = 0
  <1> USE LeaderboardsAssumption
  <1>1. 0 \in 0 .. MaxHeight /\ 0 \in Nat /\ FALSE \in BOOLEAN /\ Nil \in Players \cup {Nil}
    OBVIOUS
  <1>2. IdleTask \in TaskRecords
    BY <1>1, ZenonT(40) DEF IdleTask, TaskRecords
  <1>3. QED
    BY <1>2 DEF IdleTask

\* Goto changes only where a task stands.
LEMMA GotoFields ==
  ASSUME TypeInv, NEW t \in Tasks, NEW pc, Goto(t, pc), task[t].pc # "idle",
         pc \in {"insert", "improve", "archive", "first"} \cup InTrigger
  PROVE  /\ task' \in [Tasks -> TaskRecords]
         /\ task'[t].pc = pc /\ task'[t].player = task[t].player
         /\ task'[t].height = task[t].height /\ task'[t].threshold = task[t].threshold
         /\ task'[t].lists = task[t].lists
         /\ \A s \in Tasks \ {t} : task'[s] = task[s]
         /\ \A s \in Tasks : Busy(s)'
  <1> DEFINE r == [task[t] EXCEPT !.pc = pc]
  <1>1. task[t] \in TaskRecords /\ task \in [Tasks -> TaskRecords]
    BY DEF TypeInv, TypeOK
  <1>2. /\ r \in TaskRecords /\ r.pc = pc /\ r.player = task[t].player
        /\ r.height = task[t].height /\ r.threshold = task[t].threshold
        /\ r.lists = task[t].lists
    BY <1>1 DEF TaskRecords
  <1>3. task' = [task EXCEPT ![t] = r]
    BY DEF Goto
  <1> HIDE DEF r
  <1>4. task'[t] = r /\ \A s \in Tasks \ {t} : task'[s] = task[s]
    BY <1>1, <1>3
  <1>5. \A s \in Tasks : Busy(s)'
    BY <1>2, <1>4 DEF TypeInv, Busy, InTrigger
  <1>6. QED
    BY <1>1, <1>2, <1>3, <1>4, <1>5

\* End forgets the report.
LEMMA EndFields ==
  ASSUME TypeInv, NEW t \in Tasks, End(t)
  PROVE  /\ task' \in [Tasks -> TaskRecords]
         /\ task'[t] = IdleTask /\ task'[t].pc = "idle" /\ task'[t].player = Nil
         /\ \A s \in Tasks \ {t} : task'[s] = task[s]
         /\ \A s \in Tasks : Busy(s)'
  BY IdleFields DEF TypeInv, TypeOK, End, Busy

\* The higher of two heights is one of them.
LEMMA HigherOf ==
  ASSUME NEW a \in Nat, NEW b \in Nat
  PROVE  Higher(a, b) \in {a, b} /\ Higher(a, b) \in Nat /\ Higher(a, b) >= a /\ Higher(a, b) >= b
  BY DEF Higher

\* What was served is a height.
LEMMA ServedHeights ==
  ASSUME TypeInv, NEW t \in Tasks, task[t].pc # "idle"
  PROVE  /\ Served(t) => /\ top' \in [Players -> 0 .. MaxHeight] /\ topPb' = topPb
                         /\ top'[task[t].player] = Higher(top[task[t].player], task[t].height)
                         /\ \A p \in Players \ {task[t].player} : top'[p] = top[p]
         /\ ServedPb(t) => /\ topPb' \in [Players -> 0 .. MaxHeight] /\ top' = top
                           /\ topPb'[task[t].player] = Higher(topPb[task[t].player], task[t].height)
                           /\ \A p \in Players \ {task[t].player} : topPb'[p] = topPb[p]
  <1> USE LeaderboardsAssumption
  <1>1. /\ top \in [Players -> 0 .. MaxHeight] /\ topPb \in [Players -> 0 .. MaxHeight]
        /\ task[t].player \in Players /\ task[t].height \in 0 .. MaxHeight
    BY DEF TypeInv, TypeOK, Busy, Heights
  <1>2. /\ Higher(top[task[t].player], task[t].height) \in 0 .. MaxHeight
        /\ Higher(topPb[task[t].player], task[t].height) \in 0 .. MaxHeight
    BY <1>1 DEF Higher
  <1>3. QED
    BY <1>1, <1>2 DEF Served, ServedPb

\* The threshold in force is a positive number.
LEMMA ThresholdType == ASSUME spec \in Thresholds \cup {Nil} PROVE Threshold \in Nat \ {0}
  <1> USE LeaderboardsAssumption
  <1>1. (IF spec = Nil THEN DefaultThreshold ELSE spec) \in Nat
    OBVIOUS
  <1>2. \A n \in Nat : Clamped(n) \in Nat \ {0}
    BY DEF Clamped, Higher
  <1>3. QED
    BY <1>1, <1>2 DEF Threshold

\* Every step of a report keeps the types of the tables and of the reports.
LEMMA StepType ==
  ASSUME TypeInv, NEW t \in Tasks, Step(t)
  PROVE  /\ board' \in [Players -> 0 .. MaxHeight] /\ listed' \in BOOLEAN
         /\ hidden' = hidden /\ spec' = spec
         /\ pb' \in [Players -> 0 .. MaxHeight]
         /\ task' \in [Tasks -> TaskRecords]
         /\ top' \in [Players -> 0 .. MaxHeight] /\ topPb' \in [Players -> 0 .. MaxHeight]
         /\ \A s \in Tasks : Busy(s)'
  <1> USE LeaderboardsAssumption
  <1> DEFINE p == task[t].player
             h == task[t].height
             Goal == /\ board' \in [Players -> 0 .. MaxHeight] /\ listed' \in BOOLEAN
                     /\ hidden' = hidden /\ spec' = spec
                     /\ pb' \in [Players -> 0 .. MaxHeight]
                     /\ task' \in [Tasks -> TaskRecords]
                     /\ top' \in [Players -> 0 .. MaxHeight]
                     /\ topPb' \in [Players -> 0 .. MaxHeight]
                     /\ \A s \in Tasks : Busy(s)'
  <1>1. /\ board \in [Players -> 0 .. MaxHeight] /\ listed \in BOOLEAN
        /\ pb \in [Players -> 0 .. MaxHeight] /\ task \in [Tasks -> TaskRecords]
        /\ top \in [Players -> 0 .. MaxHeight] /\ topPb \in [Players -> 0 .. MaxHeight]
        /\ Busy(t) /\ task[t] \in TaskRecords
    BY DEF TypeInv, TypeOK
  <1>2. task[t].pc # "idle"
    BY DEF Step, Update, Insert, TakeLock, ReadThreshold, Count, Commit, SelectPb, FirstPb,
           ImprovePb, ArchivePb, ReportFails
  <1>3. p \in Players /\ h \in 0 .. MaxHeight /\ task[t].lists \in BOOLEAN
    BY <1>1, <1>2 DEF Busy, Heights, TaskRecords
  <1>4. ASSUME Served(t) \/ ServedPb(t) \/ (End(t) /\ Unserved)
        PROVE  /\ task' \in [Tasks -> TaskRecords] /\ \A s \in Tasks : Busy(s)'
               /\ top' \in [Players -> 0 .. MaxHeight] /\ topPb' \in [Players -> 0 .. MaxHeight]
    <2>1. End(t)
      BY <1>4 DEF Served, ServedPb
    <2>2. CASE End(t) /\ Unserved
      BY <1>1, <2>2, EndFields DEF Unserved
    <2>3. CASE Served(t) \/ ServedPb(t)
      BY <1>1, <1>2, <2>1, <2>3, EndFields, ServedHeights
    <2>4. QED
      BY <1>4, <2>2, <2>3
  <1>5. ASSUME NEW pc \in {"insert", "improve", "archive", "first"} \cup InTrigger,
               Goto(t, pc), Unserved
        PROVE  /\ task' \in [Tasks -> TaskRecords] /\ \A s \in Tasks : Busy(s)'
               /\ top' \in [Players -> 0 .. MaxHeight] /\ topPb' \in [Players -> 0 .. MaxHeight]
    BY <1>1, <1>2, <1>5, GotoFields DEF Unserved
  <1>6. /\ "lock" \in InTrigger /\ "threshold" \in InTrigger /\ "count" \in InTrigger
        /\ "commit" \in InTrigger
    BY DEF InTrigger
  <1>7. CASE Update(t)
    <2>1. board' \in [Players -> 0 .. MaxHeight]
      BY <1>1, <1>3, <1>7 DEF Update
    <2>2. UNCHANGED <<listed, pb, hidden, spec>>
      BY <1>7 DEF Update, world
    <2>3. Served(t) \/ (Goto(t, "insert") /\ Unserved)
      BY <1>7 DEF Update
    <2>4. QED
      BY <1>1, <1>4, <1>5, <2>1, <2>2, <2>3
  <1>8. CASE Insert(t)
    <2>1. board' \in [Players -> 0 .. MaxHeight]
      BY <1>1, <1>3, <1>8 DEF Insert
    <2>2. UNCHANGED <<listed, pb, hidden, spec>>
      BY <1>8 DEF Insert, world
    <2>3. Served(t) \/ (Goto(t, "lock") /\ Unserved)
      BY <1>8 DEF Insert
    <2>4. QED
      BY <1>1, <1>4, <1>5, <1>6, <2>1, <2>2, <2>3
  <1>9. CASE TakeLock(t)
    <2>1. UNCHANGED <<board, listed, pb, hidden, spec>> /\ Unserved
      BY <1>9 DEF TakeLock, world, tables
    <2>2. Goto(t, "commit") \/ Goto(t, "threshold")
      BY <1>9 DEF TakeLock
    <2>3. QED
      BY <1>1, <1>5, <1>6, <2>1, <2>2
  <1>10. CASE ReadThreshold(t)
    <2> DEFINE r == [task[t] EXCEPT !.pc = "count", !.threshold = Threshold]
    <2>1. UNCHANGED <<board, listed, pb, hidden, spec, top, topPb>> /\ task' = [task EXCEPT ![t] = r]
      BY <1>10 DEF ReadThreshold, world, tables, Unserved
    <2>2. Threshold \in Nat
      BY ThresholdType DEF TypeInv, TypeOK
    <2>3. r \in TaskRecords /\ r.pc = "count" /\ r.player = p /\ r.height = h
      BY <1>1, <1>6, <2>2 DEF TaskRecords
    <2> HIDE DEF r
    <2>4. task' \in [Tasks -> TaskRecords] /\ \A s \in Tasks : Busy(s)'
      BY <1>1, <1>2, <2>1, <2>3 DEF TypeInv, Busy
    <2>5. QED
      BY <1>1, <2>1, <2>4
  <1>11. CASE Count(t)
    <2> DEFINE b == Cardinality(Rows(t) \ hidden) >= task[t].threshold
               r == [task[t] EXCEPT !.pc = "commit", !.lists = b]
    <2>1. UNCHANGED <<board, listed, pb, hidden, spec, top, topPb>> /\ task' = [task EXCEPT ![t] = r]
      BY <1>11 DEF Count, world, tables, Unserved
    <2>2. b \in BOOLEAN
      OBVIOUS
    <2> HIDE DEF b
    <2>3. r \in TaskRecords
      BY <1>1, <1>6, <2>2, ZenonT(40) DEF TaskRecords
    <2>4. r.pc = "commit" /\ r.player = p /\ r.height = h
      BY <1>1 DEF TaskRecords
    <2> HIDE DEF r
    <2>5. task' \in [Tasks -> TaskRecords] /\ \A s \in Tasks : Busy(s)'
      BY <1>1, <1>2, <2>1, <2>3, <2>4 DEF TypeInv, Busy
    <2>6. QED
      BY <1>1, <2>1, <2>5
  <1>12. CASE Commit(t)
    <2>1. board' \in [Players -> 0 .. MaxHeight]
      BY <1>1, <1>3, <1>12 DEF Commit
    <2>2. UNCHANGED <<pb, hidden, spec>> /\ listed' \in BOOLEAN /\ Served(t)
      BY <1>12, <1>1, <1>3 DEF Commit, world
    <2>3. QED
      BY <1>1, <1>4, <2>1, <2>2
  <1>13. CASE SelectPb(t) \/ ArchivePb(t)
    <2>1. UNCHANGED <<board, listed, pb, hidden, spec>>
      BY <1>13 DEF SelectPb, ArchivePb, world, tables
    <2>2. ServedPb(t) \/ ((Goto(t, "first") \/ Goto(t, "improve")) /\ Unserved)
      BY <1>13 DEF SelectPb, ArchivePb
    <2>3. QED
      BY <1>1, <1>4, <1>5, <2>1, <2>2
  <1>14. CASE FirstPb(t)
    <2>1. UNCHANGED <<board, listed, hidden, spec>> /\ pb' \in [Players -> 0 .. MaxHeight]
      BY <1>1, <1>3, <1>14 DEF FirstPb, world
    <2>2. ServedPb(t) \/ (End(t) /\ Unserved)
      BY <1>14 DEF FirstPb
    <2>3. QED
      BY <1>1, <1>4, <2>1, <2>2
  <1>15. CASE ImprovePb(t)
    <2>1. UNCHANGED <<board, listed, hidden, spec>> /\ pb' \in [Players -> 0 .. MaxHeight]
      BY <1>1, <1>3, <1>15 DEF ImprovePb, world
    <2>2. Goto(t, "archive") /\ Unserved
      BY <1>15 DEF ImprovePb
    <2>3. QED
      BY <1>1, <1>5, <2>1, <2>2
  <1>16. CASE ReportFails(t)
    BY <1>1, <1>4, <1>16 DEF ReportFails, tables, world
  <1>17. QED
    BY <1>7, <1>8, <1>9, <1>10, <1>11, <1>12, <1>13, <1>14, <1>15, <1>16 DEF Step

\* A report that arrives changes its idle task only.
LEMMA ReportFields ==
  ASSUME TypeInv, NEW t \in Tasks, NEW p \in Players, NEW h \in Heights,
         NEW pc \in {"update", "select"}, Report(t, p, h, pc)
  PROVE  /\ task' \in [Tasks -> TaskRecords] /\ task[t].pc = "idle"
         /\ task'[t].pc = pc /\ task'[t].player = p /\ task'[t].height = h
         /\ \A s \in Tasks \ {t} : task'[s] = task[s]
         /\ \A s \in Tasks : Busy(s)'
         /\ UNCHANGED <<board, listed, pb, hidden, spec, top, topPb>>
  <1> USE LeaderboardsAssumption
  <1> DEFINE r == [IdleTask EXCEPT !.pc = pc, !.player = p, !.height = h]
  <1>1. r \in TaskRecords /\ r.pc = pc /\ r.player = p /\ r.height = h
    <2>1. IdleTask \in TaskRecords
      BY IdleFields
    <2>2. h \in 0 .. MaxHeight /\ p \in Players \cup {Nil}
      BY DEF Heights
    <2>3. r \in TaskRecords
      BY <2>1, <2>2, ZenonT(40) DEF TaskRecords
    <2>4. QED
      BY <2>1, <2>3 DEF TaskRecords
  <1>2. task' = [task EXCEPT ![t] = r] /\ task \in [Tasks -> TaskRecords]
    BY DEF Report, TypeInv, TypeOK
  <1> HIDE DEF r
  <1>3. task'[t] = r /\ \A s \in Tasks \ {t} : task'[s] = task[s]
    BY <1>2
  <1>4. \A s \in Tasks : Busy(s)'
    BY <1>1, <1>3 DEF TypeInv, Busy
  <1>5. UNCHANGED <<board, listed, pb, hidden, spec, top, topPb>> /\ task[t].pc = "idle"
    BY DEF Report, tables, world, Unserved
  <1>6. QED
    BY <1>1, <1>2, <1>3, <1>4, <1>5

\* Nothing has been reported at the start.
LEMMA InitType == Init => TypeInv
  <1> USE LeaderboardsAssumption
  <1>1. Init => TypeOK
    <2>1. Init => board \in [Players -> 0 .. MaxHeight] /\ pb \in [Players -> 0 .. MaxHeight]
                  /\ top \in [Players -> 0 .. MaxHeight] /\ topPb \in [Players -> 0 .. MaxHeight]
      BY DEF Init
    <2>2. Init => task \in [Tasks -> TaskRecords]
      BY IdleFields DEF Init
    <2>3. QED
      BY <2>1, <2>2 DEF Init, TypeOK
  <1>2. Init => \A t \in Tasks : Busy(t)
    BY IdleFields DEF Init, Busy
  <1>3. QED
    BY <1>1, <1>2 DEF TypeInv

\* Every step keeps the types.
LEMMA TypeStep == TypeInv /\ [Next]_vars => TypeInv'
  <1> USE LeaderboardsAssumption
  <1> SUFFICES ASSUME TypeInv, [Next]_vars PROVE TypeInv'
    OBVIOUS
  <1>1. CASE UNCHANGED vars
    <2>1. TypeOK'
      BY <1>1 DEF vars, tables, world, ghosts, TypeInv, TypeOK
    <2>2. \A t \in Tasks : Busy(t)'
      BY <1>1 DEF vars, TypeInv, Busy
    <2>3. QED
      BY <2>1, <2>2 DEF TypeInv
  <1>2. CASE Next
    <2>1. together' \subseteq Players /\ togetherPb' \subseteq Players /\ eased' \in BOOLEAN
      BY <1>2 DEF Next, Watch, TypeInv, TypeOK
    <2>2. ASSUME NEW t \in Tasks, Step(t) PROVE TypeInv'
      BY <2>1, <2>2, StepType DEF TypeInv, TypeOK
    <2>3. ASSUME NEW t \in Tasks, NEW p \in Players, NEW h \in Heights,
                 NEW pc \in {"update", "select"}, Report(t, p, h, pc)
          PROVE  TypeInv'
      BY <2>1, <2>3, ReportFields DEF TypeInv, TypeOK
    <2>4. ASSUME NEW p \in Players, Hide(p) PROVE TypeInv'
      BY <2>1, <2>4 DEF Hide, tables, Unserved, TypeInv, TypeOK, Busy
    <2>5. ASSUME NEW n \in Thresholds \cup {Nil}, Rebind(n) PROVE TypeInv'
      BY <2>1, <2>5 DEF Rebind, tables, Unserved, TypeInv, TypeOK, Busy
    <2>6. QED
      BY <1>2, <2>2, <2>3, <2>4, <2>5 DEF Next, Event
  <1>3. QED
    BY <1>1, <1>2

-----------------------------------------------------------------------------
(* The trigger.                                                            *)

Locking == {"threshold", "count", "commit"}

\* What an insert that is not committed excludes: a row of its player, another
\* insert of that row, and another holder of the advisory lock.
TriggerInv ==
    /\ \A t \in Tasks : task[t].pc \in InTrigger => board[task[t].player] = 0
    /\ \A s, t \in Tasks : (task[s].pc \in InTrigger /\ task[t].pc \in InTrigger
                            /\ task[s].player = task[t].player) => s = t
    /\ \A s, t \in Tasks : (task[s].pc \in Locking /\ task[t].pc \in Locking) => s = t

\* A step that takes no task into the trigger, and raises no row of a player
\* whose insert is open.
LEMMA TriggerKept ==
  ASSUME TypeInv, TriggerInv,
         \A t \in Tasks : task'[t].pc \in InTrigger =>
             task[t].pc \in InTrigger /\ task'[t].player = task[t].player,
         \A t \in Tasks : task'[t].pc \in Locking => task[t].pc \in Locking,
         \A t \in Tasks : task'[t].pc \in InTrigger =>
             board'[task[t].player] = board[task[t].player]
  PROVE  TriggerInv'
  BY DEF TriggerInv

\* The trigger's exclusions hold in every step.
LEMMA TriggerStep == TypeInv /\ TriggerInv /\ [Next]_vars => TriggerInv'
  <1> USE LeaderboardsAssumption
  <1> SUFFICES ASSUME TypeInv, TriggerInv, [Next]_vars PROVE TriggerInv'
    OBVIOUS
  <1>0. /\ \A t \in Tasks : task[t].pc # "idle" => task[t].player \in Players /\ task[t].height \in Heights
        /\ \A t \in Tasks : task[t] \in TaskRecords
        /\ board \in [Players -> 0 .. MaxHeight] /\ task \in [Tasks -> TaskRecords]
    BY DEF TypeInv, TypeOK, Busy
  <1>00. Locking \subseteq InTrigger /\ InTrigger = {"lock", "threshold", "count", "commit"}
    BY DEF Locking, InTrigger
  <1>1. CASE UNCHANGED vars
    BY <1>1, TriggerKept DEF vars, tables
  <1>2. ASSUME NEW t \in Tasks, Step(t) PROVE TriggerInv'
    <2> DEFINE p == task[t].player
    <2>0. task[t].pc # "idle" /\ p \in Players
      BY <1>0, <1>2 DEF Step, Update, Insert, TakeLock, ReadThreshold, Count, Commit, SelectPb,
             FirstPb, ImprovePb, ArchivePb, ReportFails
    <2>1. ASSUME End(t), \/ board' = board
                         \/ /\ \A b \in Players \ {p} : board'[b] = board[b]
                            /\ \A s \in Tasks \ {t} : task[s].pc \in InTrigger => task[s].player # p
          PROVE  TriggerInv'
      <3>1. task'[t].pc = "idle" /\ \A s \in Tasks \ {t} : task'[s] = task[s]
        BY <2>1, EndFields
      <3>2. \A s \in Tasks : task'[s].pc \in InTrigger =>
                /\ s # t /\ task[s].pc \in InTrigger /\ task'[s] = task[s]
                /\ board'[task[s].player] = board[task[s].player]
        BY <1>0, <1>00, <2>1, <3>1
      <3>3. \A s \in Tasks : task'[s].pc \in Locking => task[s].pc \in Locking
        BY <1>00, <3>1
      <3>4. QED
        BY <3>2, <3>3, TriggerKept
    <2>2. ASSUME NEW pc \in {"insert", "improve", "archive", "first"}, Goto(t, pc), board' = board
          PROVE  TriggerInv'
      <3>1. task'[t].pc = pc /\ \A s \in Tasks \ {t} : task'[s] = task[s]
        BY <2>0, <2>2, GotoFields
      <3>2. pc \notin InTrigger /\ pc \notin Locking
        BY <1>00
      <3>3. QED
        BY <2>2, <3>1, <3>2, TriggerKept
    <2>3. CASE Update(t)
      <3>1. CASE Raises(p, task[t].height)
        <4>1. \A s \in Tasks : task[s].pc \in InTrigger => task[s].player # p
          BY <3>1 DEF Raises, TriggerInv
        <4>2. End(t) /\ \A b \in Players \ {p} : board'[b] = board[b]
          BY <1>0, <2>3, <3>1 DEF Update, Served
        <4>3. QED
          BY <2>1, <4>1, <4>2
      <3>2. CASE ~Raises(p, task[t].height)
        BY <2>2, <2>3, <3>2 DEF Update
      <3>3. QED
        BY <3>1, <3>2
    <2>4. CASE Insert(t)
      <3>1. \A s \in Tasks : task[s].pc \in InTrigger => task[s].player # p
        BY <2>4 DEF Insert, Inserting
      <3>2. CASE End(t)
        <4>1. \A b \in Players \ {p} : board'[b] = board[b]
          BY <1>0, <2>4 DEF Insert
        <4>2. QED
          BY <2>1, <3>1, <3>2, <4>1
      <3>3. CASE board[p] = 0 /\ Goto(t, "lock") /\ board' = board
        <4>1. /\ task'[t].pc = "lock" /\ task'[t].player = p
              /\ \A s \in Tasks \ {t} : task'[s] = task[s]
          BY <1>00, <2>0, <3>3, GotoFields
        <4>2. "lock" \notin Locking
          BY DEF Locking
        <4>3. \A s \in Tasks : task'[s].pc \in InTrigger => board'[task'[s].player] = 0
          BY <3>3, <4>1 DEF TriggerInv
        <4>4. \A s, u \in Tasks : (task'[s].pc \in InTrigger /\ task'[u].pc \in InTrigger
                                   /\ task'[s].player = task'[u].player) => s = u
          BY <3>1, <4>1 DEF TriggerInv
        <4>5. \A s, u \in Tasks : (task'[s].pc \in Locking /\ task'[u].pc \in Locking) => s = u
          BY <4>1, <4>2 DEF TriggerInv
        <4>6. QED
          BY <4>3, <4>4, <4>5 DEF TriggerInv
      <3>4. QED
        BY <2>4, <3>2, <3>3 DEF Insert, Served
    <2>5. CASE TakeLock(t)
      <3>1. PICK pc \in Locking : Goto(t, pc)
        BY <2>5 DEF TakeLock, Locking
      <3>2. /\ task'[t].pc = pc /\ task'[t].player = p
            /\ \A s \in Tasks \ {t} : task'[s] = task[s]
        BY <1>00, <2>0, <3>1, GotoFields
      <3>3. board' = board /\ task[t].pc \in InTrigger
            /\ \A s \in Tasks \ {t} : task[s].pc \notin Locking
        BY <1>00, <2>5 DEF TakeLock, LockFree, tables, Locking
      <3>4. \A s \in Tasks : task'[s].pc \in InTrigger => task[s].pc \in InTrigger
                                 /\ task'[s].player = task[s].player
        BY <3>2, <3>3
      <3>5. QED
        BY <3>2, <3>3, <3>4 DEF TriggerInv
    <2>6. CASE ReadThreshold(t) \/ Count(t)
      <3>1. /\ board' = board /\ task[t].pc \in Locking /\ \A s \in Tasks \ {t} : task'[s] = task[s]
        BY <1>0, <2>6 DEF ReadThreshold, Count, tables, Locking
      <3>2. task'[t].player = p
        BY <1>0, <2>6 DEF ReadThreshold, Count, TaskRecords
      <3>3. QED
        BY <1>00, <3>1, <3>2, TriggerKept
    <2>7. CASE Commit(t)
      <3>1. \A s \in Tasks \ {t} : task[s].pc \in InTrigger => task[s].player # p
        BY <1>00, <2>7 DEF Commit, TriggerInv
      <3>2. End(t) /\ \A b \in Players \ {p} : board'[b] = board[b]
        BY <1>0, <2>7 DEF Commit, Served
      <3>3. QED
        BY <2>1, <3>1, <3>2
    <2>8. CASE SelectPb(t) \/ FirstPb(t) \/ ImprovePb(t) \/ ArchivePb(t) \/ ReportFails(t)
      <3>1. board' = board
        BY <2>8 DEF SelectPb, FirstPb, ImprovePb, ArchivePb, ReportFails, tables
      <3>2. End(t) \/ \E pc \in {"improve", "archive", "first"} : Goto(t, pc)
        BY <2>8 DEF SelectPb, FirstPb, ImprovePb, ArchivePb, ReportFails, ServedPb
      <3>3. QED
        BY <2>1, <2>2, <3>1, <3>2
    <2>9. QED
      BY <1>2, <2>3, <2>4, <2>5, <2>6, <2>7, <2>8 DEF Step
  <1>3. ASSUME NEW t \in Tasks, NEW p \in Players, NEW h \in Heights,
               NEW pc \in {"update", "select"}, Report(t, p, h, pc)
        PROVE  TriggerInv'
    <2>1. /\ task'[t].pc = pc /\ board' = board /\ \A s \in Tasks \ {t} : task'[s] = task[s]
      BY <1>3, ReportFields
    <2>2. pc \notin InTrigger /\ pc \notin Locking
      BY <1>00
    <2>3. QED
      BY <2>1, <2>2, TriggerKept
  <1>4. ASSUME NEW p \in Players, Hide(p) PROVE TriggerInv'
    BY <1>4, TriggerKept DEF Hide, tables
  <1>5. ASSUME NEW n \in Thresholds \cup {Nil}, Rebind(n) PROVE TriggerInv'
    BY <1>5, TriggerKept DEF Rebind, tables
  <1>6. QED
    BY <1>1, <1>2, <1>3, <1>4, <1>5 DEF Next, Event

-----------------------------------------------------------------------------
(* The custom map's board.                                                 *)

\* What a step of a report does to the board and to what the player has reached.
LEMMA BoardMoves ==
  ASSUME TypeInv, TriggerInv, NEW t \in Tasks, Step(t)
  PROVE  LET p == task[t].player
             h == task[t].height
         IN  /\ p \in Players /\ h \in Heights
             /\ \A b \in Players \ {p} : board'[b] = board[b] /\ top'[b] = top[b]
             /\ \A s \in Tasks \ {t} : task'[s] = task[s]
             /\ board'[p] >= board[p]
             /\ board'[p] # board[p] => task[t].pc \in MapPcs
             /\ task'[t].pc = "insert" =>
                    /\ task[t].pc = "update" /\ task'[t].player = p /\ task'[t].height = h
                    /\ board'[p] = board[p] /\ (board[p] = 0 \/ board[p] >= h)
             /\ \/ top'[p] = top[p]
                \/ top'[p] = Higher(top[p], h)
                   /\ \/ board'[p] >= h
                      \/ task[t].pc = "insert" /\ board'[p] = board[p] /\ board[p] # 0
  <1> USE LeaderboardsAssumption
  <1> DEFINE p == task[t].player
             h == task[t].height
             Others == /\ \A b \in Players \ {p} : board'[b] = board[b] /\ top'[b] = top[b]
                       /\ \A s \in Tasks \ {t} : task'[s] = task[s]
  <1>1. task[t].pc # "idle" /\ p \in Players /\ h \in Heights /\ h \in Nat
    <2>1. task[t].pc # "idle"
      BY DEF Step, Update, Insert, TakeLock, ReadThreshold, Count, Commit, SelectPb, FirstPb,
             ImprovePb, ArchivePb, ReportFails
    <2>2. QED
      BY <2>1 DEF TypeInv, Busy, Heights
  <1>2. /\ board \in [Players -> 0 .. MaxHeight] /\ task \in [Tasks -> TaskRecords]
        /\ task[t] \in TaskRecords /\ board[p] \in Nat
    BY <1>1 DEF TypeInv, TypeOK
  <1>3. ASSUME End(t) /\ Unserved, board' = board
        PROVE  Others /\ board'[p] >= board[p] /\ board'[p] = board[p]
               /\ task'[t].pc # "insert" /\ top'[p] = top[p]
    BY <1>2, <1>3, EndFields DEF Unserved
  <1>4. ASSUME NEW pc \in {"improve", "archive", "first"} \cup InTrigger,
               Goto(t, pc), Unserved, board' = board
        PROVE  Others /\ board'[p] >= board[p] /\ board'[p] = board[p]
               /\ task'[t].pc # "insert" /\ top'[p] = top[p]
    BY <1>1, <1>2, <1>4, GotoFields DEF Unserved, InTrigger
  <1>5. ASSUME Served(t), board'[p] >= board[p], \A b \in Players \ {p} : board'[b] = board[b]
        PROVE  Others /\ task'[t].pc # "insert" /\ top'[p] = Higher(top[p], h)
    <2>1. End(t)
      BY <1>5 DEF Served
    <2>2. QED
      BY <1>1, <1>5, <2>1, EndFields, ServedHeights
  <1>6. "update" \in MapPcs /\ "insert" \in MapPcs /\ "commit" \in MapPcs
    BY DEF MapPcs, InTrigger
  <1>7. CASE Update(t)
    <2>1. CASE Raises(p, h)
      <3>1. board' = [board EXCEPT ![p] = h] /\ Served(t) /\ board[p] < h
        BY <1>7, <2>1 DEF Update, Raises
      <3>2. board'[p] = h /\ \A b \in Players \ {p} : board'[b] = board[b]
        BY <1>1, <1>2, <3>1
      <3>3. task[t].pc = "update"
        BY <1>7 DEF Update
      <3>4. board'[p] >= board[p] /\ board'[p] >= h
        BY <1>1, <1>2, <3>1, <3>2
      <3>5. QED
        BY <1>1, <1>5, <1>6, <3>1, <3>2, <3>3, <3>4
    <2>2. CASE ~Raises(p, h)
      <3>1. Goto(t, "insert") /\ Unserved /\ board' = board /\ task[t].pc = "update"
        BY <1>7, <2>2 DEF Update
      <3>2. board[p] = 0 \/ board[p] >= h
        BY <1>1, <1>2, <2>2 DEF Raises
      <3>3. /\ task'[t].pc = "insert" /\ task'[t].player = p /\ task'[t].height = h
            /\ \A s \in Tasks \ {t} : task'[s] = task[s]
        BY <1>1, <3>1, GotoFields
      <3>4. top' = top
        BY <3>1 DEF Unserved
      <3>5. QED
        BY <1>1, <1>2, <3>1, <3>2, <3>3, <3>4
    <2>3. QED
      BY <2>1, <2>2
  <1>8. CASE Insert(t)
    <2>1. task[t].pc = "insert"
      BY <1>8 DEF Insert
    <2>2. CASE board[p] # 0 /\ Served(t) /\ board' = board
      BY <1>1, <1>2, <1>5, <2>1, <2>2
    <2>3. CASE board[p] = 0 /\ board' = [board EXCEPT ![p] = h] /\ Served(t)
      <3>1. /\ board'[p] = h /\ board'[p] >= h /\ board'[p] >= board[p]
            /\ \A b \in Players \ {p} : board'[b] = board[b]
        BY <1>1, <1>2, <2>3
      <3>2. QED
        BY <1>1, <1>5, <1>6, <2>1, <2>3, <3>1
    <2>4. CASE Goto(t, "lock") /\ Unserved /\ board' = board
      BY <1>1, <1>4, <2>4 DEF InTrigger
    <2>5. QED
      BY <1>8, <2>2, <2>3, <2>4 DEF Insert
  <1>9. CASE Commit(t)
    <2>1. task[t].pc = "commit" /\ board' = [board EXCEPT ![p] = h] /\ Served(t)
      BY <1>9 DEF Commit
    <2>2. board[p] = 0
      BY <2>1 DEF TriggerInv, InTrigger
    <2>3. /\ board'[p] = h /\ board'[p] >= h /\ board'[p] >= board[p]
          /\ \A b \in Players \ {p} : board'[b] = board[b]
      BY <1>1, <1>2, <2>1, <2>2
    <2>4. QED
      BY <1>1, <1>5, <1>6, <2>1, <2>3
  <1>10. CASE TakeLock(t)
    <2>1. Unserved /\ board' = board /\ \E pc \in InTrigger : Goto(t, pc)
      BY <1>10 DEF TakeLock, tables, InTrigger
    <2>2. QED
      BY <1>1, <1>4, <2>1
  <1>11. CASE ReadThreshold(t) \/ Count(t)
    <2>1. /\ board' = board /\ top' = top /\ \A s \in Tasks \ {t} : task'[s] = task[s]
      BY <1>2, <1>11 DEF ReadThreshold, Count, tables, Unserved
    <2>2. task'[t].pc # "insert"
      BY <1>2, <1>11 DEF ReadThreshold, Count, TaskRecords
    <2>3. QED
      BY <1>1, <1>2, <2>1, <2>2
  <1>12. CASE SelectPb(t) \/ ArchivePb(t) \/ FirstPb(t)
    <2>1. board' = board
      BY <1>12 DEF SelectPb, ArchivePb, FirstPb, tables
    <2>2. \/ End(t) /\ Unserved
          \/ End(t) /\ top' = top
          \/ (Goto(t, "first") \/ Goto(t, "improve")) /\ Unserved
      BY <1>12 DEF SelectPb, ArchivePb, FirstPb, ServedPb
    <2>3. CASE End(t) /\ top' = top
      BY <1>1, <1>2, <2>1, <2>3, EndFields
    <2>4. QED
      BY <1>1, <1>3, <1>4, <2>1, <2>2, <2>3
  <1>13. CASE ImprovePb(t)
    BY <1>1, <1>4, <1>13 DEF ImprovePb
  <1>14. CASE ReportFails(t)
    BY <1>1, <1>3, <1>14 DEF ReportFails, tables
  <1>15. QED
    BY <1>7, <1>8, <1>9, <1>10, <1>11, <1>12, <1>13, <1>14 DEF Step

\* A player whose reports for the map did not overlap has on the board what they
\* served, and an insert that will find a row finds one that is high enough.
MapInv ==
    /\ \A p \in Players : Overlapping(p, MapPcs) => p \in together
    /\ \A p \in Players : board[p] < top[p] => p \in together
    /\ \A t \in Tasks : task[t].pc = "insert" =>
           \/ board[task[t].player] = 0
           \/ board[task[t].player] >= task[t].height
           \/ task[t].player \in together

\* Who overlapped stays marked while the board is behind or a report is left.
LEMMA MarkStays ==
  ASSUME Watch, NEW p \in Players
  PROVE  /\ Overlapping(p, MapPcs)' => p \in together'
         /\ (p \in together /\ board'[p] < top'[p]) => p \in together'
         /\ \A t \in Tasks : (p \in together /\ task'[t].player = p /\ task'[t].pc \in MapPcs)
                                 => p \in together'
  BY DEF Watch, Pending

\* A step that touches neither the board nor a report for the map.
LEMMA MapKept ==
  ASSUME TypeInv, MapInv, Watch, board' = board, top' = top,
         \A t \in Tasks : task'[t].pc = "insert" => task'[t] = task[t]
  PROVE  MapInv'
  <1>1. \A p \in Players : Overlapping(p, MapPcs)' => p \in together'
    BY MarkStays
  <1>2. \A p \in Players : board'[p] < top'[p] => p \in together'
    BY MarkStays DEF MapInv
  <1>3. ASSUME NEW t \in Tasks, task'[t].pc = "insert"
        PROVE  \/ board'[task'[t].player] = 0
               \/ board'[task'[t].player] >= task'[t].height
               \/ task'[t].player \in together'
    <2>1. task[t].pc = "insert" /\ task'[t] = task[t] /\ "insert" \in MapPcs
      BY <1>3 DEF MapPcs
    <2>2. task[t].player \in Players
      BY <2>1 DEF TypeInv, Busy
    <2>3. CASE task[t].player \in together
      BY <2>1, <2>2, <2>3, MarkStays
    <2>4. CASE task[t].player \notin together
      BY <2>1, <2>4 DEF MapInv
    <2>5. QED
      BY <2>3, <2>4
  <1>4. QED
    BY <1>1, <1>2, <1>3 DEF MapInv

\* A step of a report keeps the board's invariant.
LEMMA MapKeptByStep ==
  ASSUME TypeInv, TriggerInv, MapInv, Watch, NEW t \in Tasks, Step(t)
  PROVE  MapInv'
  <1> DEFINE p == task[t].player
             h == task[t].height
  <1>1. /\ p \in Players /\ h \in Heights
        /\ \A b \in Players \ {p} : board'[b] = board[b] /\ top'[b] = top[b]
        /\ \A s \in Tasks \ {t} : task'[s] = task[s]
        /\ board'[p] >= board[p]
        /\ board'[p] # board[p] => task[t].pc \in MapPcs
        /\ task'[t].pc = "insert" =>
               /\ task[t].pc = "update" /\ task'[t].player = p /\ task'[t].height = h
               /\ board'[p] = board[p] /\ (board[p] = 0 \/ board[p] >= h)
        /\ \/ top'[p] = top[p]
           \/ top'[p] = Higher(top[p], h)
              /\ \/ board'[p] >= h
                 \/ task[t].pc = "insert" /\ board'[p] = board[p] /\ board[p] # 0
    BY BoardMoves
  <1>2. /\ board[p] \in Nat /\ board'[p] \in Nat /\ top[p] \in Nat /\ h \in Nat
    BY <1>1, StepType DEF TypeInv, TypeOK, Heights
  <1>3. \A b \in Players : Overlapping(b, MapPcs)' => b \in together'
    BY MarkStays
  <1>4. ASSUME NEW b \in Players, board'[b] < top'[b] PROVE b \in together'
    <2>1. CASE b \in together
      BY <1>4, <2>1, MarkStays
    <2>2. CASE b # p
      <3>1. board'[b] = board[b] /\ top'[b] = top[b]
        BY <1>1, <2>2
      <3>2. QED
        BY <1>4, <2>1, <3>1 DEF MapInv
    <2>3. CASE b = p /\ b \notin together
      <3>1. board[p] >= top[p]
        BY <1>2, <2>3 DEF MapInv
      <3>2. task[t].pc = "insert" => board[p] = 0 \/ board[p] >= h
        BY <2>3 DEF MapInv
      <3>3. top'[p] = top[p] \/ top'[p] = h \/ board'[p] >= h
        BY <1>1, <1>2 DEF Higher
      <3>4. board'[p] >= top[p] /\ (top'[p] = top[p] \/ board'[p] >= h)
        BY <1>1, <1>2, <3>1, <3>2
      <3>5. board'[p] >= top'[p]
        BY <1>1, <1>2, <3>4 DEF Higher
      <3>6. QED
        BY <1>1, <1>2, <1>4, <2>3, <3>4, <3>5 DEF Higher
    <2>4. QED
      BY <2>1, <2>2, <2>3
  <1>5. ASSUME NEW s \in Tasks, task'[s].pc = "insert"
        PROVE  \/ board'[task'[s].player] = 0
               \/ board'[task'[s].player] >= task'[s].height
               \/ task'[s].player \in together'
    <2> DEFINE q == task[s].player
    <2>1. CASE s = t
      BY <1>1, <1>5, <2>1
    <2>2. CASE s # t
      <3>1. task'[s] = task[s] /\ task[s].pc = "insert" /\ "insert" \in MapPcs
        BY <1>1, <1>5, <2>2 DEF MapPcs
      <3>2. q \in Players
        BY <3>1 DEF TypeInv, Busy
      <3>3. CASE q \in together
        BY <1>5, <3>1, <3>2, <3>3, MarkStays
      <3>4. CASE q \notin together
        <4>1. board'[q] = board[q]
          <5>1. SUFFICES ASSUME q = p, task[t].pc \in MapPcs PROVE FALSE
            BY <1>1, <3>2
          <5>2. Overlapping(p, MapPcs)
            BY <2>2, <3>1, <5>1 DEF Overlapping
          <5>3. QED
            BY <1>1, <3>4, <5>1, <5>2 DEF MapInv
        <4>2. QED
          BY <3>1, <3>4, <4>1 DEF MapInv
      <3>5. QED
        BY <3>3, <3>4
    <2>3. QED
      BY <2>1, <2>2
  <1>6. QED
    BY <1>3, <1>4, <1>5 DEF MapInv

\* Every step keeps the board's invariant.
LEMMA MapStep == TypeInv /\ TriggerInv /\ MapInv /\ [Next]_vars => MapInv'
  <1> SUFFICES ASSUME TypeInv, TriggerInv, MapInv, [Next]_vars PROVE MapInv'
    OBVIOUS
  <1>1. CASE UNCHANGED vars
    <2>1. UNCHANGED <<board, top, task, together>>
      BY <1>1 DEF vars, tables, ghosts
    <2>2. QED
      BY <2>1 DEF MapInv, Overlapping
  <1>2. ASSUME Watch, NEW t \in Tasks, Step(t) PROVE MapInv'
    BY <1>2, MapKeptByStep
  <1>3. ASSUME Watch, NEW t \in Tasks, NEW p \in Players, NEW h \in Heights,
               NEW pc \in {"update", "select"}, Report(t, p, h, pc)
        PROVE  MapInv'
    <2>1. /\ task'[t].pc = pc /\ UNCHANGED <<board, top>>
          /\ \A s \in Tasks \ {t} : task'[s] = task[s]
      BY <1>3, ReportFields
    <2>2. QED
      BY <1>3, <2>1, MapKept
  <1>4. ASSUME Watch, NEW p \in Players, Hide(p) PROVE MapInv'
    BY <1>4, MapKept DEF Hide, tables, Unserved
  <1>5. ASSUME Watch, NEW n \in Thresholds \cup {Nil}, Rebind(n) PROVE MapInv'
    BY <1>5, MapKept DEF Rebind, tables, Unserved
  <1>6. QED
    BY <1>1, <1>2, <1>3, <1>4, <1>5 DEF Next, Event

\* No step lowers a row.
LEMMA RowsRise ==
  ASSUME TypeInv, TriggerInv, [Next]_vars
  PROVE  \A p \in Players : board'[p] >= board[p]
  <1>1. \A p \in Players : board[p] \in Nat
    BY DEF TypeInv, TypeOK
  <1>2. ASSUME NEW t \in Tasks, Step(t) PROVE \A p \in Players : board'[p] >= board[p]
    BY <1>1, <1>2, BoardMoves
  <1>3. ASSUME NEW t \in Tasks, NEW p \in Players, NEW h \in Heights,
               NEW pc \in {"update", "select"}, Report(t, p, h, pc)
        PROVE  board' = board
    BY <1>3, ReportFields
  <1>4. ASSUME NEW p \in Players, Hide(p) PROVE board' = board
    BY <1>4 DEF Hide, tables
  <1>5. ASSUME NEW n \in Thresholds \cup {Nil}, Rebind(n) PROVE board' = board
    BY <1>5 DEF Rebind, tables
  <1>6. CASE UNCHANGED vars
    BY <1>1, <1>6 DEF vars, tables
  <1>7. QED
    BY <1>1, <1>2, <1>3, <1>4, <1>5, <1>6 DEF Next, Event

-----------------------------------------------------------------------------
(* Deep Dip 2's board.                                                     *)

\* What a step of a report does to the best heights.
LEMMA PbMoves ==
  ASSUME TypeInv, NEW t \in Tasks, Step(t)
  PROVE  LET p == task[t].player
             h == task[t].height
         IN  /\ p \in Players /\ h \in Heights
             /\ \A b \in Players \ {p} : pb'[b] = pb[b] /\ topPb'[b] = topPb[b]
             /\ \A s \in Tasks \ {t} : task'[s] = task[s]
             /\ pb'[p] # pb[p] => task[t].pc \in PbPcs
             /\ task'[t].pc = "improve" =>
                    /\ task'[t].player = p /\ task'[t].height = h
                    /\ pb'[p] = pb[p] /\ pb[p] < h
             /\ task'[t].pc = "archive" =>
                    task'[t].player = p /\ task'[t].height = h /\ pb'[p] = h
             /\ \/ /\ topPb'[p] = topPb[p]
                   /\ pb'[p] = pb[p] \/ (task[t].pc = "improve" /\ pb'[p] = h)
                \/ /\ topPb'[p] = Higher(topPb[p], h)
                   /\ \/ pb'[p] = pb[p] /\ (pb[p] >= h \/ task[t].pc = "archive")
                      \/ pb[p] = 0 /\ pb'[p] = h
  <1> USE LeaderboardsAssumption
  <1> DEFINE p == task[t].player
             h == task[t].height
             Others == /\ \A b \in Players \ {p} : pb'[b] = pb[b] /\ topPb'[b] = topPb[b]
                       /\ \A s \in Tasks \ {t} : task'[s] = task[s]
             Ends == task'[t].pc \notin {"improve", "archive"}
  <1>1. task[t].pc # "idle" /\ p \in Players /\ h \in Heights
    <2>1. task[t].pc # "idle"
      BY DEF Step, Update, Insert, TakeLock, ReadThreshold, Count, Commit, SelectPb, FirstPb,
             ImprovePb, ArchivePb, ReportFails
    <2>2. QED
      BY <2>1 DEF TypeInv, Busy
  <1>2. /\ pb \in [Players -> 0 .. MaxHeight] /\ task \in [Tasks -> TaskRecords]
        /\ task[t] \in TaskRecords
    BY <1>1 DEF TypeInv, TypeOK
  <1>3. ASSUME End(t), topPb' = topPb, pb' = pb
        PROVE  Others /\ Ends /\ pb'[p] = pb[p] /\ topPb'[p] = topPb[p]
    <2>1. task'[t].pc = "idle" /\ \A s \in Tasks \ {t} : task'[s] = task[s]
      BY <1>3, EndFields
    <2>2. QED
      BY <1>3, <2>1
  <1>4. ASSUME NEW pc \in {"insert", "improve", "archive", "first"} \cup InTrigger,
               Goto(t, pc), topPb' = topPb
        PROVE  /\ task'[t].pc = pc /\ task'[t].player = p /\ task'[t].height = h
               /\ topPb'[p] = topPb[p] /\ \A b \in Players \ {p} : topPb'[b] = topPb[b]
               /\ \A s \in Tasks \ {t} : task'[s] = task[s]
    BY <1>1, <1>4, GotoFields
  <1>5. ASSUME ServedPb(t)
        PROVE  /\ Ends /\ \A s \in Tasks \ {t} : task'[s] = task[s]
               /\ topPb'[p] = Higher(topPb[p], h)
               /\ \A b \in Players \ {p} : topPb'[b] = topPb[b]
    <2>1. End(t)
      BY <1>5 DEF ServedPb
    <2>2. task'[t].pc = "idle" /\ \A s \in Tasks \ {t} : task'[s] = task[s]
      BY <2>1, EndFields
    <2>3. QED
      BY <1>1, <1>5, <2>2, ServedHeights
  <1>6. CASE SelectPb(t)
    <2>1. pb' = pb /\ task[t].pc = "select"
      BY <1>6 DEF SelectPb, tables
    <2>2. CASE Goto(t, "first") /\ Unserved
      BY <1>1, <1>4, <2>1, <2>2 DEF Unserved
    <2>3. CASE pb[p] < h /\ Goto(t, "improve") /\ Unserved
      BY <1>1, <1>4, <2>1, <2>3 DEF Unserved
    <2>4. CASE pb[p] >= h /\ ServedPb(t)
      BY <1>1, <1>5, <2>1, <2>4
    <2>5. QED
      BY <1>6, <2>2, <2>3, <2>4 DEF SelectPb
  <1>7. CASE FirstPb(t)
    <2>1. CASE pb[p] = 0
      <3>1. pb' = [pb EXCEPT ![p] = h] /\ ServedPb(t) /\ task[t].pc \in PbPcs
        BY <1>7, <2>1 DEF FirstPb, PbPcs
      <3>2. pb'[p] = h /\ \A b \in Players \ {p} : pb'[b] = pb[b]
        BY <1>1, <1>2, <3>1
      <3>3. QED
        BY <1>1, <1>5, <2>1, <3>1, <3>2
    <2>2. CASE pb[p] # 0
      <3>1. End(t) /\ topPb' = topPb /\ pb' = pb
        BY <1>7, <2>2 DEF FirstPb, Unserved
      <3>2. QED
        BY <1>1, <1>3, <3>1
    <2>3. QED
      BY <2>1, <2>2
  <1>8. CASE ImprovePb(t)
    <2>1. pb' = [pb EXCEPT ![p] = h] /\ Goto(t, "archive") /\ topPb' = topPb
      BY <1>8 DEF ImprovePb, Unserved
    <2>2. pb'[p] = h /\ \A b \in Players \ {p} : pb'[b] = pb[b]
      BY <1>1, <1>2, <2>1
    <2>3. task[t].pc = "improve" /\ task[t].pc \in PbPcs
      BY <1>8 DEF ImprovePb, PbPcs
    <2>4. QED
      BY <1>1, <1>4, <2>1, <2>2, <2>3
  <1>9. CASE ArchivePb(t)
    <2>1. pb' = pb /\ task[t].pc = "archive" /\ ServedPb(t)
      BY <1>9 DEF ArchivePb, tables
    <2>2. QED
      BY <1>1, <1>5, <2>1
  <1>10. CASE ReportFails(t)
    BY <1>1, <1>3, <1>10 DEF ReportFails, tables, Unserved
  <1>11. CASE Update(t) \/ Insert(t) \/ TakeLock(t) \/ Commit(t)
    <2>1. pb' = pb
      BY <1>11 DEF Update, Insert, TakeLock, Commit, tables
    <2>2. \/ End(t) /\ topPb' = topPb
          \/ \E pc \in {"insert"} \cup InTrigger : Goto(t, pc) /\ topPb' = topPb
      BY <1>11 DEF Update, Insert, TakeLock, Commit, Served, Unserved, InTrigger
    <2>3. CASE \E pc \in {"insert"} \cup InTrigger : Goto(t, pc) /\ topPb' = topPb
      <3>1. PICK pc \in {"insert"} \cup InTrigger : Goto(t, pc) /\ topPb' = topPb
        BY <2>3
      <3>2. pc \notin {"improve", "archive"}
        BY DEF InTrigger
      <3>3. QED
        BY <1>1, <1>4, <2>1, <3>1, <3>2
    <2>4. QED
      BY <1>1, <1>3, <2>1, <2>2, <2>3
  <1>12. CASE ReadThreshold(t) \/ Count(t)
    <2>1. pb' = pb /\ topPb' = topPb /\ \A s \in Tasks \ {t} : task'[s] = task[s]
      BY <1>2, <1>12 DEF ReadThreshold, Count, tables, Unserved
    <2>2. Ends
      BY <1>2, <1>12 DEF ReadThreshold, Count, TaskRecords
    <2>3. QED
      BY <1>1, <2>1, <2>2
  <1>13. QED
    BY <1>6, <1>7, <1>8, <1>9, <1>10, <1>11, <1>12 DEF Step

\* A player whose reports did not overlap has the best of what they served, and
\* an improvement under way improves.
PbInv ==
    /\ \A p \in Players : Overlapping(p, PbPcs) => p \in togetherPb
    /\ \A p \in Players : pb[p] < topPb[p] => p \in togetherPb
    /\ \A t \in Tasks : task[t].pc = "improve" =>
           pb[task[t].player] < task[t].height \/ task[t].player \in togetherPb
    /\ \A t \in Tasks : task[t].pc = "archive" =>
           pb[task[t].player] >= task[t].height \/ task[t].player \in togetherPb

\* Who overlapped stays marked while the board is behind or a report is left.
LEMMA PbMarkStays ==
  ASSUME Watch, NEW p \in Players
  PROVE  /\ Overlapping(p, PbPcs)' => p \in togetherPb'
         /\ (p \in togetherPb /\ pb'[p] < topPb'[p]) => p \in togetherPb'
         /\ \A t \in Tasks : (p \in togetherPb /\ task'[t].player = p /\ task'[t].pc \in PbPcs)
                                 => p \in togetherPb'
  BY DEF Watch, Pending

\* A step that touches neither the best heights nor who is about to raise them.
LEMMA PbKept ==
  ASSUME TypeInv, PbInv, Watch, pb' = pb, topPb' = topPb,
         \A t \in Tasks : task'[t].pc \in {"improve", "archive"} => task'[t] = task[t]
  PROVE  PbInv'
  <1>1. \A p \in Players : Overlapping(p, PbPcs)' => p \in togetherPb'
    BY PbMarkStays
  <1>2. \A p \in Players : pb'[p] < topPb'[p] => p \in togetherPb'
    BY PbMarkStays DEF PbInv
  <1>3. ASSUME NEW t \in Tasks, task'[t].pc \in {"improve", "archive"}
        PROVE  \/ task'[t].player \in togetherPb'
               \/ task'[t].pc = "improve" /\ pb'[task'[t].player] < task'[t].height
               \/ task'[t].pc = "archive" /\ pb'[task'[t].player] >= task'[t].height
    <2>1. task[t].pc \in {"improve", "archive"} /\ task'[t] = task[t] /\ task[t].pc \in PbPcs
      BY <1>3 DEF PbPcs
    <2>2. task[t].player \in Players
      BY <2>1 DEF TypeInv, Busy
    <2>3. CASE task[t].player \in togetherPb
      BY <2>1, <2>2, <2>3, PbMarkStays
    <2>4. CASE task[t].player \notin togetherPb
      BY <2>1, <2>4 DEF PbInv
    <2>5. QED
      BY <2>3, <2>4
  <1>4. QED
    BY <1>1, <1>2, <1>3 DEF PbInv

\* A step of a report keeps the invariant of the best heights.
LEMMA PbKeptByStep ==
  ASSUME TypeInv, PbInv, Watch, NEW t \in Tasks, Step(t)
  PROVE  PbInv'
  <1> DEFINE p == task[t].player
             h == task[t].height
  <1>1. /\ p \in Players /\ h \in Heights
        /\ \A b \in Players \ {p} : pb'[b] = pb[b] /\ topPb'[b] = topPb[b]
        /\ \A s \in Tasks \ {t} : task'[s] = task[s]
        /\ pb'[p] # pb[p] => task[t].pc \in PbPcs
        /\ task'[t].pc = "improve" =>
               /\ task'[t].player = p /\ task'[t].height = h
               /\ pb'[p] = pb[p] /\ pb[p] < h
        /\ task'[t].pc = "archive" =>
               task'[t].player = p /\ task'[t].height = h /\ pb'[p] = h
        /\ \/ /\ topPb'[p] = topPb[p]
              /\ pb'[p] = pb[p] \/ (task[t].pc = "improve" /\ pb'[p] = h)
           \/ /\ topPb'[p] = Higher(topPb[p], h)
              /\ \/ pb'[p] = pb[p] /\ (pb[p] >= h \/ task[t].pc = "archive")
                 \/ pb[p] = 0 /\ pb'[p] = h
    BY PbMoves
  <1>2. pb[p] \in Nat /\ topPb[p] \in Nat /\ h \in Nat
    BY <1>1 DEF TypeInv, TypeOK, Heights
  <1>3. \A b \in Players : Overlapping(b, PbPcs)' => b \in togetherPb'
    BY PbMarkStays
  <1>4. ASSUME NEW b \in Players, pb'[b] < topPb'[b] PROVE b \in togetherPb'
    <2>1. CASE b \in togetherPb
      BY <1>4, <2>1, PbMarkStays
    <2>2. CASE b # p
      <3>1. pb'[b] = pb[b] /\ topPb'[b] = topPb[b]
        BY <1>1, <2>2
      <3>2. QED
        BY <1>4, <2>1, <3>1 DEF PbInv
    <2>3. CASE b = p /\ b \notin togetherPb
      <3>1. pb[p] >= topPb[p]
        BY <1>2, <2>3 DEF PbInv
      <3>2. task[t].pc = "improve" => pb[p] < h
        BY <2>3 DEF PbInv
      <3>3. task[t].pc = "archive" => pb[p] >= h
        BY <2>3 DEF PbInv
      <3>4. CASE topPb'[p] = topPb[p]
                 /\ (pb'[p] = pb[p] \/ (task[t].pc = "improve" /\ pb'[p] = h))
        BY <1>2, <1>4, <2>3, <3>1, <3>2, <3>4
      <3>5. CASE topPb'[p] = Higher(topPb[p], h) /\ pb'[p] = pb[p]
                 /\ (pb[p] >= h \/ task[t].pc = "archive")
        BY <1>2, <1>4, <2>3, <3>1, <3>3, <3>5 DEF Higher
      <3>6. CASE topPb'[p] = Higher(topPb[p], h) /\ pb[p] = 0 /\ pb'[p] = h
        BY <1>2, <1>4, <2>3, <3>1, <3>6 DEF Higher
      <3>7. QED
        BY <1>1, <3>4, <3>5, <3>6
    <2>4. QED
      BY <2>1, <2>2, <2>3
  <1>5. ASSUME NEW s \in Tasks, task'[s].pc \in {"improve", "archive"}
        PROVE  \/ task'[s].player \in togetherPb'
               \/ task'[s].pc = "improve" /\ pb'[task'[s].player] < task'[s].height
               \/ task'[s].pc = "archive" /\ pb'[task'[s].player] >= task'[s].height
    <2> DEFINE q == task[s].player
    <2>1. CASE s = t
      BY <1>1, <1>2, <1>5, <2>1
    <2>2. CASE s # t
      <3>1. task'[s] = task[s] /\ task[s].pc \in {"improve", "archive"} /\ task[s].pc \in PbPcs
        BY <1>1, <1>5, <2>2 DEF PbPcs
      <3>2. q \in Players
        BY <3>1 DEF TypeInv, Busy
      <3>3. CASE q \in togetherPb
        BY <3>1, <3>2, <3>3, PbMarkStays
      <3>4. CASE q \notin togetherPb
        <4>1. pb'[q] = pb[q]
          <5>1. SUFFICES ASSUME q = p, task[t].pc \in PbPcs PROVE FALSE
            BY <1>1, <3>2
          <5>2. Overlapping(p, PbPcs)
            BY <2>2, <3>1, <5>1 DEF Overlapping
          <5>3. QED
            BY <1>1, <3>4, <5>1, <5>2 DEF PbInv
        <4>2. QED
          BY <3>1, <3>4, <4>1 DEF PbInv
      <3>5. QED
        BY <3>3, <3>4
    <2>3. QED
      BY <2>1, <2>2
  <1>6. QED
    BY <1>3, <1>4, <1>5 DEF PbInv

\* Every step keeps the invariant of the best heights.
LEMMA PbStep == TypeInv /\ PbInv /\ [Next]_vars => PbInv'
  <1> SUFFICES ASSUME TypeInv, PbInv, [Next]_vars PROVE PbInv'
    OBVIOUS
  <1>1. CASE UNCHANGED vars
    <2>1. UNCHANGED <<pb, topPb, task, togetherPb>>
      BY <1>1 DEF vars, tables, ghosts
    <2>2. QED
      BY <2>1 DEF PbInv, Overlapping
  <1>2. ASSUME Watch, NEW t \in Tasks, Step(t) PROVE PbInv'
    BY <1>2, PbKeptByStep
  <1>3. ASSUME Watch, NEW t \in Tasks, NEW p \in Players, NEW h \in Heights,
               NEW pc \in {"update", "select"}, Report(t, p, h, pc)
        PROVE  PbInv'
    <2>1. /\ task'[t].pc = pc /\ UNCHANGED <<pb, topPb>>
          /\ \A s \in Tasks \ {t} : task'[s] = task[s]
      BY <1>3, ReportFields
    <2>2. QED
      BY <1>3, <2>1, PbKept
  <1>4. ASSUME Watch, NEW p \in Players, Hide(p) PROVE PbInv'
    BY <1>4, PbKept DEF Hide, tables, Unserved
  <1>5. ASSUME Watch, NEW n \in Thresholds \cup {Nil}, Rebind(n) PROVE PbInv'
    BY <1>5, PbKept DEF Rebind, tables, Unserved
  <1>6. QED
    BY <1>1, <1>2, <1>3, <1>4, <1>5 DEF Next, Event

-----------------------------------------------------------------------------
(* The listing.                                                            *)

Filled == {p \in Players : board[p] # 0}

\* While the map is unlisted and nothing was eased for it, the public rows are
\* too few, an insert's threshold is no higher than the one in force, and one
\* that will commit without listing counted too few with its own row.
ListingInv ==
    (~listed /\ ~eased) =>
        /\ Cardinality(Public) < Threshold
        /\ \A t \in Tasks : task[t].pc = "count" => task[t].threshold <= Threshold
        /\ \A t \in Tasks : (task[t].pc = "commit" /\ ~task[t].lists) =>
               Cardinality(Rows(t) \ hidden) < Threshold

\* A smaller set of players is not larger.
LEMMA Fewer ==
  ASSUME NEW S \in SUBSET Players, NEW T \in SUBSET S, NEW n \in Int, NEW m \in Int,
         Cardinality(S) < n, n <= m
  PROVE  Cardinality(T) < m
  <1>1. IsFiniteSet(S)
    BY LeaderboardsAssumption, FS_Subset
  <1>2. Cardinality(T) <= Cardinality(S) /\ IsFiniteSet(T)
    BY <1>1, FS_Subset
  <1>3. Cardinality(T) \in Nat /\ Cardinality(S) \in Nat
    BY <1>1, <1>2, FS_CardinalityType
  <1>4. QED
    BY <1>2, <1>3

\* What a step may not have done for the map to be unlisted and nothing eased.
LEMMA NotEased ==
  ASSUME TypeInv, TypeInv', Watch, ~listed', ~eased', ListingInv, listed => listed'
  PROVE  /\ ~listed /\ ~eased /\ hidden \subseteq hidden' /\ Threshold <= Threshold'
         /\ Threshold \in Nat /\ Threshold' \in Nat
         /\ Cardinality(Public) < Threshold
         /\ \A t \in Tasks : task[t].pc = "count" => task[t].threshold <= Threshold
         /\ \A t \in Tasks : (task[t].pc = "commit" /\ ~task[t].lists) =>
                Cardinality(Rows(t) \ hidden) < Threshold
  <1>1. Threshold \in Nat
    BY ThresholdType DEF TypeInv, TypeOK
  <1>2. Threshold' \in Nat
    <2>1. spec' \in Thresholds \cup {Nil}
      BY DEF TypeInv, TypeOK
    <2>2. (spec \in Thresholds \cup {Nil} => Threshold \in Nat \ {0})'
      BY ThresholdType, PTL
    <2>3. QED
      BY <2>1, <2>2
  <1>3. ~eased /\ hidden \subseteq hidden' /\ ~(Threshold' < Threshold)
    BY DEF Watch
  <1>4. QED
    BY <1>1, <1>2, <1>3 DEF ListingInv

\* A step that adds no row and takes no insert to its count or commit.
LEMMA ListingKept ==
  ASSUME TypeInv, TypeInv', Watch, ListingInv, listed => listed',
         ~listed' => Filled' \subseteq Filled,
         ~listed' => \A t \in Tasks : task'[t].pc \in {"count", "commit"} => task'[t] = task[t]
  PROVE  ListingInv'
  <1> SUFFICES ASSUME ~listed', ~eased'
               PROVE  /\ Cardinality(Public') < Threshold'
                      /\ \A t \in Tasks : task'[t].pc = "count" => task'[t].threshold <= Threshold'
                      /\ \A t \in Tasks : (task'[t].pc = "commit" /\ ~task'[t].lists) =>
                             Cardinality(Rows(t)' \ hidden') < Threshold'
    BY DEF ListingInv
  <1>1. /\ ~listed /\ ~eased /\ hidden \subseteq hidden' /\ Threshold <= Threshold'
        /\ Threshold \in Nat /\ Threshold' \in Nat
        /\ Cardinality(Public) < Threshold
        /\ \A t \in Tasks : task[t].pc = "count" => task[t].threshold <= Threshold
        /\ \A t \in Tasks : (task[t].pc = "commit" /\ ~task[t].lists) =>
               Cardinality(Rows(t) \ hidden) < Threshold
    BY NotEased
  <1>2. Cardinality(Public') < Threshold'
    <2>1. Public \in SUBSET Players /\ Public' \in SUBSET Public
      BY <1>1 DEF Public, Filled
    <2>2. QED
      BY <1>1, <2>1, Fewer
  <1>3. ASSUME NEW t \in Tasks, task'[t].pc = "count" PROVE task'[t].threshold <= Threshold'
    <2>1. task[t].threshold <= Threshold /\ task'[t] = task[t] /\ task[t] \in TaskRecords
      BY <1>1, <1>3 DEF TypeInv, TypeOK
    <2>2. task[t].threshold \in Nat
      BY <2>1 DEF TaskRecords
    <2>3. QED
      BY <1>1, <2>1, <2>2
  <1>4. ASSUME NEW t \in Tasks, task'[t].pc = "commit", ~task'[t].lists
        PROVE  Cardinality(Rows(t)' \ hidden') < Threshold'
    <2>1. task'[t] = task[t] /\ Cardinality(Rows(t) \ hidden) < Threshold
      BY <1>1, <1>4
    <2>2. task[t].player \in Players
      BY <1>4, <2>1 DEF TypeInv, Busy
    <2>3. (Rows(t) \ hidden) \in SUBSET Players
          /\ (Rows(t)' \ hidden') \in SUBSET (Rows(t) \ hidden)
      BY <1>1, <2>1, <2>2 DEF Rows, Filled
    <2> DEFINE S == Rows(t) \ hidden
               T == Rows(t)' \ hidden'
    <2>4. Cardinality(S) < Threshold /\ S \in SUBSET Players /\ T \in SUBSET S
      BY <2>1, <2>3
    <2> HIDE DEF S, T
    <2>5. Cardinality(T) < Threshold'
      BY <1>1, <2>4, Fewer
    <2>6. QED
      BY <2>5 DEF T
  <1>5. QED
    BY <1>2, <1>3, <1>4

\* An insert reads the threshold, counts or commits.
LEMMA ListingKeptByTrigger ==
  ASSUME TypeInv, TypeInv', TriggerInv, Watch, ListingInv, NEW t \in Tasks,
         ReadThreshold(t) \/ Count(t) \/ Commit(t)
  PROVE  ListingInv'
  <1> DEFINE p == task[t].player
  <1> SUFFICES ASSUME ~listed', ~eased'
               PROVE  /\ Cardinality(Public') < Threshold'
                      /\ \A s \in Tasks : task'[s].pc = "count" => task'[s].threshold <= Threshold'
                      /\ \A s \in Tasks : (task'[s].pc = "commit" /\ ~task'[s].lists) =>
                             Cardinality(Rows(s)' \ hidden') < Threshold'
    BY DEF ListingInv
  <1>1. listed => listed'
    BY DEF ReadThreshold, Count, Commit, tables
  <1>2. /\ ~listed /\ ~eased /\ hidden \subseteq hidden' /\ Threshold <= Threshold'
        /\ Threshold \in Nat /\ Threshold' \in Nat
        /\ Cardinality(Public) < Threshold
        /\ \A s \in Tasks : task[s].pc = "count" => task[s].threshold <= Threshold
        /\ \A s \in Tasks : (task[s].pc = "commit" /\ ~task[s].lists) =>
               Cardinality(Rows(s) \ hidden) < Threshold
    BY <1>1, NotEased
  <1>3. /\ task[t] \in TaskRecords /\ task \in [Tasks -> TaskRecords]
        /\ board \in [Players -> 0 .. MaxHeight] /\ task[t].pc \in Locking
        /\ p \in Players /\ hidden' = hidden /\ spec' = spec
    BY DEF ReadThreshold, Count, Commit, Locking, TypeInv, TypeOK, Busy, world
  <1>4. Threshold' = Threshold
    BY <1>3 DEF Threshold, Clamped
  <1>5. \A s \in Tasks \ {t} : task[s].pc \notin {"count", "commit"}
    BY <1>3 DEF TriggerInv, Locking
  <1>6. CASE ReadThreshold(t)
    <2> DEFINE r == [task[t] EXCEPT !.pc = "count", !.threshold = Threshold]
    <2>1. board' = board /\ task' = [task EXCEPT ![t] = r]
      BY <1>6 DEF ReadThreshold, tables
    <2>2. r.pc = "count" /\ r.threshold = Threshold
      BY <1>3 DEF TaskRecords
    <2> HIDE DEF r
    <2>3. task'[t] = r /\ \A s \in Tasks \ {t} : task'[s] = task[s]
      BY <1>3, <2>1
    <2>4. Public' = Public
      BY <1>3, <2>1 DEF Public
    <2>5. \A s \in Tasks : task'[s].pc = "count" => task'[s].threshold <= Threshold'
      BY <1>2, <1>4, <1>5, <2>2, <2>3
    <2>6. \A s \in Tasks : task'[s].pc # "commit"
      BY <1>5, <2>2, <2>3
    <2>7. QED
      BY <1>2, <1>4, <2>4, <2>5, <2>6
  <1>7. CASE Count(t)
    <2> DEFINE S == Rows(t) \ hidden
               b == Cardinality(S) >= task[t].threshold
               r == [task[t] EXCEPT !.pc = "commit", !.lists = b]
    <2>1. board' = board /\ task' = [task EXCEPT ![t] = r] /\ task[t].pc = "count"
      BY <1>7 DEF Count, tables
    <2>2. r.pc = "commit" /\ r.player = p /\ r.lists = b
      BY <1>3 DEF TaskRecords
    <2> HIDE DEF r
    <2>3. task'[t] = r /\ \A s \in Tasks \ {t} : task'[s] = task[s]
      BY <1>3, <2>1
    <2>4. Public' = Public /\ Rows(t)' \ hidden' = S
      BY <1>3, <2>1, <2>2, <2>3 DEF Public, Rows
    <2>5. S \in SUBSET Players
      BY <1>3 DEF Rows
    <2> HIDE DEF S
    <2>6. Cardinality(S) \in Nat
      BY <2>5, LeaderboardsAssumption, FS_Subset, FS_CardinalityType
    <2>7. ~r.lists => Cardinality(S) < Threshold'
      <3>1. task[t].threshold <= Threshold /\ task[t].threshold \in Nat
        BY <1>2, <1>3, <2>1 DEF TaskRecords
      <3>2. ~r.lists => ~(Cardinality(S) >= task[t].threshold)
        BY <2>2, Zenon
      <3>3. QED
        BY <1>2, <1>4, <2>6, <3>1, <3>2
    <2>8. \A s \in Tasks : (task'[s].pc = "commit" /\ ~task'[s].lists) =>
              Cardinality(Rows(s)' \ hidden') < Threshold'
      BY <1>5, <2>3, <2>4, <2>7
    <2>9. \A s \in Tasks : task'[s].pc # "count"
      BY <1>5, <2>2, <2>3
    <2>10. QED
      BY <1>2, <1>4, <2>4, <2>8, <2>9
  <1>8. CASE Commit(t)
    <2>1. /\ board' = [board EXCEPT ![p] = task[t].height] /\ End(t) /\ task[t].pc = "commit"
          /\ listed' = (listed \/ task[t].lists)
      BY <1>8 DEF Commit, Served
    <2>2. ~task[t].lists
      BY <2>1
    <2>3. Cardinality(Rows(t) \ hidden) < Threshold
      BY <1>2, <2>1, <2>2
    <2> DEFINE S == Rows(t) \ hidden
    <2>4. S \in SUBSET Players /\ Public' \in SUBSET S
      BY <1>3, <2>1 DEF Rows, Public
    <2>5. Cardinality(S) < Threshold
      BY <2>3
    <2> HIDE DEF S
    <2>6. Cardinality(Public') < Threshold'
      BY <1>2, <2>4, <2>5, Fewer
    <2>7. \A s \in Tasks : task'[s].pc \notin {"count", "commit"}
      BY <1>5, <2>1, EndFields
    <2>8. QED
      BY <2>6, <2>7
  <1>9. QED
    BY <1>6, <1>7, <1>8

\* Every step keeps the listing's invariant.
LEMMA ListingStep == TypeInv /\ TypeInv' /\ TriggerInv /\ ListingInv /\ [Next]_vars => ListingInv'
  <1> SUFFICES ASSUME TypeInv, TypeInv', TriggerInv, ListingInv, [Next]_vars PROVE ListingInv'
    OBVIOUS
  <1>0. /\ board \in [Players -> 0 .. MaxHeight] /\ task \in [Tasks -> TaskRecords]
        /\ \A t \in Tasks : task[t].pc # "idle" => task[t].player \in Players
    BY DEF TypeInv, TypeOK, Busy
  <1>1. CASE UNCHANGED vars
    <2>1. UNCHANGED <<listed, eased, board, hidden, spec, task>>
      BY <1>1 DEF vars, tables, world, ghosts
    <2>2. Public' = Public /\ Threshold' = Threshold /\ \A t \in Tasks : Rows(t)' = Rows(t)
      BY <2>1 DEF Public, Threshold, Clamped, Rows
    <2>3. QED
      BY <2>1, <2>2 DEF ListingInv
  <1>2. ASSUME Watch, NEW t \in Tasks, Step(t) PROVE ListingInv'
    <2> DEFINE p == task[t].player
    <2>1. ASSUME listed => listed', ~listed' => Filled' \subseteq Filled, End(t) PROVE ListingInv'
      <3>1. task'[t].pc = "idle" /\ \A s \in Tasks \ {t} : task'[s] = task[s]
        BY <2>1, EndFields
      <3>2. QED
        BY <1>2, <2>1, <3>1, ListingKept
    <2>2. ASSUME listed => listed', board' = board, task[t].pc # "idle",
                 NEW pc \in {"insert", "improve", "archive", "first", "lock", "threshold"},
                 Goto(t, pc)
          PROVE  ListingInv'
      <3>1. task'[t].pc = pc /\ \A s \in Tasks \ {t} : task'[s] = task[s]
        BY <2>2, GotoFields DEF InTrigger
      <3>2. Filled' = Filled
        BY <2>2 DEF Filled
      <3>3. QED
        BY <1>2, <2>2, <3>1, <3>2, ListingKept
    <2>3. CASE Update(t)
      <3>1. listed' = listed /\ task[t].pc # "idle"
        BY <2>3 DEF Update
      <3>2. CASE Raises(p, task[t].height)
        <4>1. board' = [board EXCEPT ![p] = task[t].height] /\ End(t) /\ board[p] # 0
          BY <2>3, <3>2 DEF Update, Served, Raises
        <4>2. Filled' \subseteq Filled
          BY <1>0, <4>1 DEF Filled
        <4>3. QED
          BY <2>1, <3>1, <4>1, <4>2
      <3>3. CASE ~Raises(p, task[t].height)
        BY <2>2, <2>3, <3>1, <3>3 DEF Update
      <3>4. QED
        BY <3>2, <3>3
    <2>4. CASE Insert(t)
      <3>1. listed' = listed /\ task[t].pc # "idle"
        BY <2>4 DEF Insert
      <3>2. CASE board' = board /\ Goto(t, "lock")
        BY <2>2, <3>1, <3>2
      <3>3. CASE (board' = board \/ listed) /\ End(t)
        <4>1. ~listed' => Filled' \subseteq Filled
          BY <3>1, <3>3 DEF Filled
        <4>2. QED
          BY <2>1, <3>1, <3>3, <4>1
      <3>4. QED
        BY <2>4, <3>2, <3>3 DEF Insert, Served
    <2>5. CASE TakeLock(t)
      <3>1. listed' = listed /\ task[t].pc # "idle" /\ board' = board
        BY <2>5 DEF TakeLock, tables
      <3>2. CASE listed
        BY <3>1, <3>2 DEF ListingInv
      <3>3. CASE ~listed
        BY <2>2, <2>5, <3>1, <3>3 DEF TakeLock
      <3>4. QED
        BY <3>2, <3>3
    <2>6. CASE ReadThreshold(t) \/ Count(t) \/ Commit(t)
      BY <1>2, <2>6, ListingKeptByTrigger
    <2>7. CASE SelectPb(t) \/ FirstPb(t) \/ ImprovePb(t) \/ ArchivePb(t) \/ ReportFails(t)
      <3>1. board' = board /\ listed' = listed /\ task[t].pc # "idle" /\ Filled' = Filled
        BY <2>7 DEF SelectPb, FirstPb, ImprovePb, ArchivePb, ReportFails, tables, Filled
      <3>2. End(t) \/ Goto(t, "first") \/ Goto(t, "improve") \/ Goto(t, "archive")
        BY <2>7 DEF SelectPb, FirstPb, ImprovePb, ArchivePb, ReportFails, ServedPb
      <3>3. QED
        BY <2>1, <2>2, <3>1, <3>2
    <2>8. QED
      BY <1>2, <2>3, <2>4, <2>5, <2>6, <2>7 DEF Step
  <1>3. ASSUME Watch, NEW t \in Tasks, NEW p \in Players, NEW h \in Heights,
               NEW pc \in {"update", "select"}, Report(t, p, h, pc)
        PROVE  ListingInv'
    <2>1. /\ task'[t].pc = pc /\ UNCHANGED <<board, listed>>
          /\ \A s \in Tasks \ {t} : task'[s] = task[s]
      BY <1>3, ReportFields
    <2>2. Filled' = Filled
      BY <2>1 DEF Filled
    <2>3. QED
      BY <1>3, <2>1, <2>2, ListingKept
  <1>4. ASSUME Watch, UNCHANGED <<tables, task>> PROVE ListingInv'
    <2>1. UNCHANGED <<board, listed, task>> /\ Filled' = Filled
      BY <1>4 DEF tables, Filled
    <2>2. QED
      BY <1>4, <2>1, ListingKept
  <1>5. ASSUME Watch, \/ \E p \in Players : Hide(p)
                      \/ \E n \in Thresholds \cup {Nil} : Rebind(n)
        PROVE  ListingInv'
    BY <1>4, <1>5 DEF Hide, Rebind
  <1>6. QED
    BY <1>1, <1>2, <1>3, <1>5 DEF Next, Event

-----------------------------------------------------------------------------
(* The theorems.                                                           *)

IInv == TypeInv /\ TriggerInv /\ MapInv /\ PbInv /\ ListingInv

\* The invariants hold at the start.
LEMMA InitIInv == Init => IInv
  <1> USE LeaderboardsAssumption
  <1> SUFFICES ASSUME Init PROVE IInv
    OBVIOUS
  <1>1. TypeInv
    BY InitType
  <1>2. /\ \A t \in Tasks : task[t].pc = "idle" /\ task[t].player = Nil
        /\ \A p \in Players : board[p] = 0 /\ top[p] = 0 /\ pb[p] = 0 /\ topPb[p] = 0
    BY IdleFields DEF Init
  <1>3. TriggerInv
    BY <1>2 DEF TriggerInv, InTrigger, Locking
  <1>4. MapInv /\ PbInv
    BY <1>2 DEF MapInv, PbInv, Overlapping
  <1>5. ListingInv
    <2>1. Public = {} /\ Cardinality({}) = 0
      BY <1>2, FS_EmptySet DEF Public
    <2>2. Threshold \in Nat \ {0}
      BY <1>1, ThresholdType DEF TypeInv, TypeOK
    <2>3. Cardinality(Public) < Threshold
      BY <2>1, <2>2
    <2>4. QED
      BY <1>2, <2>3 DEF ListingInv
  <1>6. QED
    BY <1>1, <1>3, <1>4, <1>5 DEF IInv

\* The invariants always hold.
THEOREM Invariance == Spec => []IInv
  <1>1. IInv /\ [Next]_vars => IInv'
    BY TypeStep, TriggerStep, MapStep, PbStep, ListingStep DEF IInv
  <1>2. QED
    BY InitIInv, <1>1, PTL DEF Spec

\* The boards and the reports in service stay well formed.
THEOREM TypeCorrect == Spec => []TypeOK
  <1>1. IInv => TypeOK
    BY DEF IInv, TypeInv
  <1>2. QED
    BY <1>1, Invariance, PTL

\* map_leaderboard_maybe_list: of the inserts that reach the threshold, whichever
\* commits last has seen the others, so a map stays unlisted only below it.
THEOREM ReachingItLists == Spec => []ThresholdNotMissed
  <1>1. IInv => ThresholdNotMissed
    BY DEF IInv, ListingInv, ThresholdNotMissed
  <1>2. QED
    BY <1>1, Invariance, PTL

\* report_map_curr_pos, update_user_pb_height: a served height is on the board,
\* unless reports of the same player overlapped.
THEOREM ServedIsOnBoard == Spec => []BestIsHighest
  <1>1. IInv => BestIsHighest
    BY DEF IInv, MapInv, PbInv, BestIsHighest
  <1>2. QED
    BY <1>1, Invariance, PTL

\* report_map_curr_pos: no interleaving of reports lowers a row of the custom map.
THEOREM RowsNeverFall == Spec => BoardNeverFalls
  <1>1. IInv /\ [Next]_vars => \A p \in Players : board'[p] >= board[p]
    BY RowsRise DEF IInv
  <1>2. QED
    BY <1>1, Invariance, PTL DEF Spec, BoardNeverFalls
-----------------------------------------------------------------------------
(* That reports end: the locks are not waited for in a circle, and no      *)
(* statement is run again.                                                 *)

\* An insert waits for an open one of the same row, and a trigger for the map's
\* advisory lock.
Waits(t) ==
    \/ task[t].pc = "insert" /\ Inserting(task[t].player)
    \/ task[t].pc = "lock" /\ ~LockFree(t)

\* Task s has what task t waits for.
WaitsFor(t, s) ==
    \/ task[t].pc = "insert" /\ task[s].pc \in InTrigger /\ task[s].player = task[t].player
    \/ task[t].pc = "lock" /\ s # t /\ task[s].pc \in Locking

\* The statements a report has before it at most.
Left == [update |-> 6, insert |-> 5, lock |-> 4, threshold |-> 3, count |-> 2, commit |-> 1,
         select |-> 3, first |-> 1, improve |-> 2, archive |-> 1, idle |-> 0]

\* Whoever waits, waits for reports that are further on, and such as hold the
\* advisory lock wait for nobody: the row comes before the lock.  Hence while
\* reports are under way, one of them need not wait.
NoCircularWait ==
    /\ \A t \in Tasks : Waits(t) =>
           /\ \E s \in Tasks : WaitsFor(t, s)
           /\ \A s \in Tasks : WaitsFor(t, s) =>
                  task[s].pc # "idle" /\ Left[task[s].pc] < Left[task[t].pc]
    /\ (\E t \in Tasks : task[t].pc # "idle")
           => \E t \in Tasks : task[t].pc # "idle" /\ ~Waits(t)

\* Each statement of a report brings it nearer its end, and nobody else sets it
\* back: an insert that finds the row, or a unique violation, is not retried.
StatementsRunOut ==
    [][\A t \in Tasks : task[t].pc # "idle" =>
           /\ Step(t) => Left[task'[t].pc] < Left[task[t].pc]
           /\ ~Step(t) => task'[t] = task[t]]_vars

\* Row and advisory lock are waited for in this order.
LEMMA WaitsAreOrdered == NoCircularWait
  <1>1. ASSUME NEW t \in Tasks, Waits(t)
        PROVE  \E s \in Tasks : WaitsFor(t, s)
    BY <1>1 DEF Waits, WaitsFor, Inserting, LockFree, Locking
  <1>2. ASSUME NEW t \in Tasks, NEW s \in Tasks, WaitsFor(t, s)
        PROVE  task[s].pc # "idle" /\ Left[task[s].pc] < Left[task[t].pc]
    BY <1>2 DEF WaitsFor, InTrigger, Locking, Left
  <1>3. ASSUME NEW t \in Tasks, task[t].pc # "idle"
        PROVE  \E s \in Tasks : task[s].pc # "idle" /\ ~Waits(s)
    <2>1. CASE \E s \in Tasks : task[s].pc \in Locking
      BY <2>1 DEF Locking, Waits
    <2>2. CASE /\ \A s \in Tasks : task[s].pc \notin Locking
               /\ \E s \in Tasks : task[s].pc = "lock"
      BY <2>2 DEF Locking, Waits, LockFree
    <2>3. CASE \A s \in Tasks : task[s].pc \notin InTrigger
      BY <1>3, <2>3 DEF InTrigger, Waits, Inserting
    <2>4. QED
      BY <2>1, <2>2, <2>3 DEF InTrigger, Locking
  <1>4. QED
    BY <1>1, <1>2, <1>3 DEF NoCircularWait

\* A report's own statements are in their order.
LEMMA StatementsLead ==
  ASSUME TypeInv, NEW t \in Tasks, Step(t)
  PROVE  /\ Left[task'[t].pc] < Left[task[t].pc]
         /\ \A s \in Tasks \ {t} : task'[s] = task[s]
  <1> DEFINE Goal == /\ Left[task'[t].pc] < Left[task[t].pc]
                     /\ \A s \in Tasks \ {t} : task'[s] = task[s]
  <1>0. task \in [Tasks -> TaskRecords] /\ task[t] \in TaskRecords
    BY DEF TypeInv, TypeOK
  <1>1. ASSUME NEW pc, Goto(t, pc), Left[pc] < Left[task[t].pc]
        PROVE  Goal
    BY <1>0, <1>1 DEF Goto, TaskRecords
  <1>2. ASSUME End(t), task[t].pc # "idle"
        PROVE  Goal
    <2>1. task'[t].pc = "idle" /\ \A s \in Tasks \ {t} : task'[s] = task[s]
      BY <1>2, EndFields
    <2>2. 0 < Left[task[t].pc]
      BY <1>0, <1>2 DEF Left, TaskRecords, InTrigger
    <2>3. QED
      BY <2>1, <2>2 DEF Left
  <1> SUFFICES Goal
    OBVIOUS
  <1> HIDE DEF Goal
  <1>3. CASE Update(t) \/ Insert(t) \/ Commit(t)
    BY <1>1, <1>2, <1>3 DEF Update, Insert, Commit, Served, Left
  <1>4. CASE TakeLock(t)
    BY <1>1, <1>4 DEF TakeLock, Left
  <1>5. CASE ReadThreshold(t) \/ Count(t)
    <2>1. \A s \in Tasks \ {t} : task'[s] = task[s]
      BY <1>0, <1>5 DEF ReadThreshold, Count
    <2>2. Left[task'[t].pc] < Left[task[t].pc]
      BY <1>0, <1>5 DEF ReadThreshold, Count, Left, TaskRecords
    <2>3. QED
      BY <2>1, <2>2 DEF Goal
  <1>6. CASE SelectPb(t) \/ FirstPb(t)
    BY <1>1, <1>2, <1>6 DEF SelectPb, FirstPb, ServedPb, Left
  <1>7. CASE ImprovePb(t) \/ ArchivePb(t) \/ ReportFails(t)
    BY <1>1, <1>2, <1>7 DEF ImprovePb, ArchivePb, ReportFails, ServedPb, Left
  <1>8. QED
    BY <1>3, <1>4, <1>5, <1>6, <1>7 DEF Step

\* What others do leaves a report where it is.
LEMMA OthersLeaveReports ==
  ASSUME TypeInv, [Next]_vars, NEW t \in Tasks, task[t].pc # "idle", ~Step(t)
  PROVE  task'[t] = task[t]
  <1>1. CASE UNCHANGED vars
    BY <1>1 DEF vars
  <1>2. ASSUME NEW s \in Tasks, Step(s)
        PROVE  task'[t] = task[t]
    BY <1>2, StatementsLead
  <1>3. ASSUME NEW s \in Tasks, NEW p \in Players, NEW h \in Heights,
               NEW pc \in {"update", "select"}, Report(s, p, h, pc)
        PROVE  task'[t] = task[t]
    BY <1>3, ReportFields
  <1>4. CASE (\E p \in Players : Hide(p)) \/ (\E n \in Thresholds \cup {Nil} : Rebind(n))
    BY <1>4 DEF Hide, Rebind
  <1>5. QED
    BY <1>1, <1>2, <1>3, <1>4 DEF Next, Event

\* A report is a bounded number of statements, whatever happens meanwhile, and
\* the rows of map_leaderboard and the advisory lock of map_leaderboard_maybe_list
\* wedge none, for any number of players and connections.
THEOREM ReportsComeToAnEnd == Spec => []NoCircularWait /\ StatementsRunOut
  <1> DEFINE RunsOut == \A t \in Tasks : task[t].pc # "idle" =>
           /\ Step(t) => Left[task'[t].pc] < Left[task[t].pc]
           /\ ~Step(t) => task'[t] = task[t]
  <1>1. IInv /\ [Next]_vars => [RunsOut]_vars
    BY StatementsLead, OthersLeaveReports DEF IInv
  <1> HIDE DEF RunsOut
  <1>2. Spec => [][RunsOut]_vars
    BY <1>1, Invariance, PTL DEF Spec
  <1>3. StatementsRunOut <=> [][RunsOut]_vars
    BY DEF StatementsRunOut, RunsOut
  <1>4. QED
    BY <1>2, <1>3, WaitsAreOrdered, PTL
=============================================================================
