--------------------------- MODULE Leaderboards ---------------------------
(***************************************************************************)
(* How height reports reach the boards: a custom map's map_leaderboard,    *)
(* whose inserts list the map once enough public players are on it         *)
(* (src/src/server2.rs report_map_curr_pos and the trigger of              *)
(* src/migrations/20260826090000), and Deep Dip 2's leaderboard of best    *)
(* heights (src/src/queries/stats.rs update_user_pb_height).               *)
(*                                                                         *)
(* A report is handled by the task of its connection; a player may have    *)
(* several.  An action is one statement, which sees what has committed;    *)
(* an insert into map_leaderboard is a transaction with the statements of  *)
(* its trigger, and one advisory lock for each map keeps the triggers of   *)
(* two inserts apart.  The model has one custom map; its listing binding   *)
(* and the bans that hide players change around it.                        *)
(*                                                                         *)
(* Left out: positions, race times, counts of updates, and the live        *)
(* heights of map_curr_heights, which every report overwrites first, and   *)
(* leaderboard_archive, which gets a row after an improvement.             *)
(***************************************************************************)
EXTENDS Naturals, FiniteSets

CONSTANTS
    Players,
    Runners,    \* the players who also report heights on Deep Dip 2
    Tasks,      \* the connections' tasks
    MaxHeight,  \* bound: the heights told apart
    Thresholds, \* the listing thresholds of specs
    MinThreshold, DefaultThreshold, MaxThreshold,  \* 5, 25 and 100
    Nil

ASSUME LeaderboardsAssumption ==
    /\ Runners \subseteq Players /\ IsFiniteSet(Players)
    /\ MaxHeight \in Nat \ {0}
    /\ Thresholds \subseteq Nat
    /\ MinThreshold \in Nat \ {0} /\ DefaultThreshold \in Nat /\ MaxThreshold \in Nat \ {0}
    /\ Nil \notin Players \cup Nat

VARIABLES
    board,      \* map_leaderboard: the height of a player's row, 0 for none
    listed,     \* listed_maps
    hidden,     \* players with a shadow ban or an active ban from the map
    spec,       \* listing_threshold of the verified bound spec, Nil for none
    pb,         \* leaderboard
    task,
    top,        \* the highest height a player's finished reports said
    topPb,
    together,   \* players two of whose reports for the map have overlapped
    togetherPb, \* the same for Deep Dip 2
    eased       \* whether a player came back or the threshold fell unlisted

tables == <<board, listed, pb>>
world == <<hidden, spec>>
ghosts == <<top, topPb, together, togetherPb, eased>>
vars == <<tables, world, ghosts, task>>

\* Mutant: no height is discarded.
AnyHeight == 1 .. MaxHeight + 1

\* A report above MAX_HEIGHT is discarded.
Heights == 1 .. MaxHeight

\* map_leaderboard_maybe_list runs while its insert is not committed.
InTrigger == {"lock", "threshold", "count", "commit"}

TaskRecords ==
    [pc : {"idle", "update", "insert", "select", "improve", "archive", "first"} \cup InTrigger,
     player : Players \cup {Nil}, height : 0 .. MaxHeight,
     threshold : Nat, lists : BOOLEAN]

IdleTask == [pc |-> "idle", player |-> Nil, height |-> 0, threshold |-> 0, lists |-> FALSE]

Init ==
    /\ board = [p \in Players |-> 0]
    /\ listed = FALSE
    /\ hidden = {}
    /\ spec = Nil
    /\ pb = [p \in Players |-> 0]
    /\ task = [t \in Tasks |-> IdleTask]
    /\ top = [p \in Players |-> 0]
    /\ topPb = [p \in Players |-> 0]
    /\ together = {} /\ togetherPb = {}
    /\ eased = FALSE

-----------------------------------------------------------------------------
Higher(a, b) == IF a > b THEN a ELSE b

Goto(t, pc) == task' = [task EXCEPT ![t].pc = pc]

End(t) == task' = [task EXCEPT ![t] = IdleTask]

\* The report was served: it counts for what the player has reached.
Served(t) ==
    /\ End(t)
    /\ top' = [top EXCEPT ![task[t].player] = Higher(@, task[t].height)]
    /\ UNCHANGED topPb

ServedPb(t) ==
    /\ End(t)
    /\ topPb' = [topPb EXCEPT ![task[t].player] = Higher(@, task[t].height)]
    /\ UNCHANGED top

Unserved == UNCHANGED <<top, topPb>>

\* A report arrives.
Report(t, p, h, pc) ==
    /\ task[t].pc = "idle"
    /\ pc = "select" => p \in Runners
    /\ task' = [task EXCEPT ![t] = [IdleTask EXCEPT !.pc = pc, !.player = p, !.height = h]]
    /\ Unserved
    /\ UNCHANGED <<tables, world>>

\* Mutant: any report overwrites.
RaisesAlways(p, h) == board[p] # 0

\* WHERE .. AND height < $2
Raises(p, h) == board[p] # 0 /\ board[p] < h

\* report_map_curr_pos: the update finds a lower row, or the insert is tried.
Update(t) ==
    LET p == task[t].player
        h == task[t].height
    IN  /\ task[t].pc = "update"
        /\ IF Raises(p, h)
           THEN board' = [board EXCEPT ![p] = h] /\ Served(t)
           ELSE Goto(t, "insert") /\ Unserved /\ UNCHANGED board
        /\ UNCHANGED <<listed, pb, world>>

\* Whether an insert of the player's row is not committed yet.
Inserting(p) == \E t \in Tasks : task[t].pc \in InTrigger /\ task[t].player = p

\* Mutant: a conflicting insert adds a row of its own height.
InsertOver(t) ==
    LET p == task[t].player IN
    /\ task[t].pc = "insert"
    /\ ~Inserting(p)
    /\ \/ /\ board[p] # 0 \/ listed
          /\ board' = [board EXCEPT ![p] = task[t].height]
          /\ Served(t)
       \/ board[p] = 0 /\ ~listed /\ Goto(t, "lock") /\ Unserved /\ UNCHANGED board
    /\ UNCHANGED <<listed, pb, world>>

\* The insert waits for another of the same row.  Then it does nothing ON
\* CONFLICT, or its trigger finds the map listed already, or goes on.
Insert(t) ==
    LET p == task[t].player IN
    /\ task[t].pc = "insert"
    /\ ~Inserting(p)
    /\ \/ board[p] # 0 /\ Served(t) /\ UNCHANGED board
       \/ /\ board[p] = 0 /\ listed
          /\ board' = [board EXCEPT ![p] = task[t].height]
          /\ Served(t)
       \/ board[p] = 0 /\ ~listed /\ Goto(t, "lock") /\ Unserved /\ UNCHANGED board
    /\ UNCHANGED <<listed, pb, world>>

-----------------------------------------------------------------------------
(* The trigger map_leaderboard_maybe_list.                                 *)

\* Mutant: no advisory lock.
NoLock(t) == TRUE

\* The advisory lock is free.
LockFree(t) == \A s \in Tasks \ {t} : task[s].pc \notin {"threshold", "count", "commit"}

\* pg_advisory_xact_lock, held to the commit; the map may have been listed
\* meanwhile.
TakeLock(t) ==
    /\ task[t].pc = "lock"
    /\ LockFree(t)
    /\ Goto(t, IF listed THEN "commit" ELSE "threshold")
    /\ Unserved
    /\ UNCHANGED <<tables, world>>

\* LEAST(100, GREATEST(5, COALESCE(thresh, 25)))
Clamped(n) == IF Higher(MinThreshold, n) > MaxThreshold THEN MaxThreshold ELSE Higher(MinThreshold, n)

Threshold == Clamped(IF spec = Nil THEN DefaultThreshold ELSE spec)

\* The threshold of the verified binding's spec, if any.
ReadThreshold(t) ==
    /\ task[t].pc = "threshold"
    /\ task' = [task EXCEPT ![t].pc = "count", ![t].threshold = Threshold]
    /\ Unserved
    /\ UNCHANGED <<tables, world>>

\* The rows an open insert counts: the committed ones and its own.
Rows(t) == {p \in Players : board[p] # 0} \cup {task[t].player}

Count(t) ==
    /\ task[t].pc = "count"
    /\ task' = [task EXCEPT ![t].pc = "commit",
                            ![t].lists = Cardinality(Rows(t) \ hidden) >= task[t].threshold]
    /\ Unserved
    /\ UNCHANGED <<tables, world>>

\* The row and the listing are committed, and the lock is released.
Commit(t) ==
    /\ task[t].pc = "commit"
    /\ board' = [board EXCEPT ![task[t].player] = task[t].height]
    /\ listed' = (listed \/ task[t].lists)
    /\ Served(t)
    /\ UNCHANGED <<pb, world>>

-----------------------------------------------------------------------------
(* update_user_pb_height: a report in an official context of Deep Dip 2.   *)

SelectPb(t) ==
    LET p == task[t].player IN
    /\ task[t].pc = "select"
    /\ \/ pb[p] = 0 /\ Goto(t, "first") /\ Unserved
       \/ pb[p] # 0 /\ pb[p] < task[t].height /\ Goto(t, "improve") /\ Unserved
       \/ pb[p] >= task[t].height /\ pb[p] # 0 /\ ServedPb(t)
    /\ UNCHANGED <<tables, world>>

\* A second first row is a unique violation, and the report an error.
FirstPb(t) ==
    LET p == task[t].player IN
    /\ task[t].pc = "first"
    /\ IF pb[p] = 0
       THEN pb' = [pb EXCEPT ![p] = task[t].height] /\ ServedPb(t)
       ELSE End(t) /\ Unserved /\ UNCHANGED pb
    /\ UNCHANGED <<board, listed, world>>

\* The update asks nothing of the height it overwrites.
ImprovePb(t) ==
    /\ task[t].pc = "improve"
    /\ pb' = [pb EXCEPT ![task[t].player] = task[t].height]
    /\ Goto(t, "archive")
    /\ Unserved
    /\ UNCHANGED <<board, listed, world>>

\* The height that is there now is archived; the answer says if it is near the top.
ArchivePb(t) ==
    /\ task[t].pc = "archive"
    /\ ServedPb(t)
    /\ UNCHANGED <<tables, world>>

\* A statement fails, or the connection's task ends: an open insert is rolled
\* back, what was committed before stays.
ReportFails(t) ==
    /\ task[t].pc # "idle"
    /\ End(t)
    /\ Unserved
    /\ UNCHANGED <<tables, world>>

-----------------------------------------------------------------------------
(* Bans begin and end, and the binding's spec comes, goes and changes.     *)

Hide(p) ==
    /\ hidden' \in {hidden \cup {p}, hidden \ {p}}
    /\ Unserved
    /\ UNCHANGED <<tables, spec, task>>

Rebind(n) ==
    /\ spec' = n
    /\ Unserved
    /\ UNCHANGED <<tables, hidden, task>>

-----------------------------------------------------------------------------
(* The ghosts follow every step.                                           *)

Public == {p \in Players : board[p] # 0} \ hidden

\* Two reports of one player to the same board are under way.
Overlapping(p, pcs) ==
    \E s, t \in Tasks :
        /\ s # t /\ task[s].player = p /\ task[t].player = p
        /\ {task[s].pc, task[t].pc} \subseteq pcs

\* One still is, or the board is behind what was reported.
Pending(p, pcs, height, said) ==
    height < said \/ \E t \in Tasks : task[t].player = p /\ task[t].pc \in pcs

MapPcs == {"update", "insert"} \cup InTrigger
PbPcs == {"select", "first", "improve", "archive"}

Watch ==
    /\ together' = {p \in Players : Overlapping(p, MapPcs)'}
                   \cup {p \in together : Pending(p, MapPcs, board[p], top[p])'}
    /\ togetherPb' = {p \in Players : Overlapping(p, PbPcs)'}
                     \cup {p \in togetherPb : Pending(p, PbPcs, pb[p], topPb[p])'}
    /\ eased' = (/\ ~listed'
                 /\ eased \/ ~(hidden \subseteq hidden') \/ Threshold' < Threshold)

Step(t) ==
    \/ Update(t) \/ Insert(t)
    \/ TakeLock(t) \/ ReadThreshold(t) \/ Count(t) \/ Commit(t)
    \/ SelectPb(t) \/ FirstPb(t) \/ ImprovePb(t) \/ ArchivePb(t)
    \/ ReportFails(t)

Event ==
    \/ \E t \in Tasks : Step(t)
    \/ \E t \in Tasks, p \in Players, h \in Heights, pc \in {"update", "select"} :
           Report(t, p, h, pc)
    \/ \E p \in Players : Hide(p)
    \/ \E n \in Thresholds \cup {Nil} : Rebind(n)

Next == Event /\ Watch

Spec == Init /\ [][Next]_vars

-----------------------------------------------------------------------------
(* Properties                                                              *)

TypeOK ==
    /\ board \in [Players -> 0 .. MaxHeight]
    /\ listed \in BOOLEAN
    /\ hidden \subseteq Players
    /\ spec \in Thresholds \cup {Nil}
    /\ pb \in [Players -> 0 .. MaxHeight]
    /\ task \in [Tasks -> TaskRecords]
    /\ top \in [Players -> 0 .. MaxHeight]
    /\ topPb \in [Players -> 0 .. MaxHeight]
    /\ together \subseteq Players /\ togetherPb \subseteq Players
    /\ eased \in BOOLEAN

\* An unlisted map has fewer public players than its threshold once every
\* insert is through, unless a hidden player came back or the threshold fell:
\* of inserts that reach it together, one sees the other (the advisory lock of
\* map_leaderboard_maybe_list, taken before the count).
ThresholdNotMissed ==
    (/\ ~listed /\ ~eased
     /\ \A t \in Tasks : task[t].pc \notin InTrigger)
        => Cardinality(Public) < Threshold

\* Both boards hold at least the highest height that a served report of the
\* player said; only reports of one player that overlapped may leave less,
\* through ON CONFLICT DO NOTHING or through the update that does not look.
BestIsHighest ==
    \A p \in Players :
        /\ board[p] < top[p] => p \in together
        /\ pb[p] < topPb[p] => p \in togetherPb

\* A height on the custom map's board is never overwritten by a lower one,
\* however reports interleave (WHERE height < $2 is part of the update).
BoardNeverFalls == [][ \A p \in Players : board'[p] >= board[p] ]_vars
=============================================================================
