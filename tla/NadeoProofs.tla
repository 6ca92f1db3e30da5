---------------------------- MODULE NadeoProofs ----------------------------
(***************************************************************************)
(* Proofs about NadeoLookups for any tasks, keys, gates and limits: a key  *)
(* is looked up by one task at a time, a recent check is not answered by a *)
(* "no" older than itself, and one task at a time refreshes the token.     *)
(*                                                                         *)
(* That lookups return (LookupsReturn) rests on fairness; it is proved     *)
(* that a lookup's steps run out and that some lookup need never wait.     *)
(***************************************************************************)
EXTENDS NadeoLookups, FiniteSetTheorems, TLAPS

\* Who works on a key, who holds a gate, and that the held gate is the key's:
\* key_gate makes room only at gates that nobody holds.
WellFormed ==
    \A t \in Tasks :
        /\ task[t].pc \in {"lookup", "sleep", "gate", "permit", "store"} => task[t].key \in Keys
        /\ task[t].pc \in InLookup /\ task[t].key # Nil => task[t].gate # Nil
        /\ task[t].gate # Nil =>
               /\ task[t].pc \in InLookup /\ task[t].key \in Keys
               /\ gate[task[t].key] = task[t].gate
        /\ task[t].pc = "sleep" => task[t].recent /\ task[t].attempt < RecentAttempts

\* A gate lets one task through at a time.
GatesExclude ==
    \A s, t \in Tasks :
        (/\ task[s].pc \in Fetching /\ task[t].pc \in Fetching
         /\ task[s].gate = task[t].gate /\ task[t].gate # Nil) => s = t

IInv == TypeOK /\ WellFormed /\ GatesExclude

-----------------------------------------------------------------------------
(* The initial states.                                                     *)

\* The record of a task that rests.
LEMMA IdleType == IdleTask \in TaskRecords
  BY NadeoAssumption DEF IdleTask, TaskRecords, Resting, InLookup, Answers

\* Nobody looks anything up yet.
LEMMA InitIInv == Init => IInv
  <1> SUFFICES ASSUME Init PROVE IInv
    OBVIOUS
  <1> USE NadeoAssumption DEF Init
  <1>1. IdleTask \in TaskRecords
    BY IdleType
  <1>2. TypeOK
    BY <1>1 DEF TypeOK, Answers
  <1>3. WellFormed /\ GatesExclude
    BY DEF WellFormed, GatesExclude, IdleTask, InLookup, Fetching
  <1>4. QED
    BY <1>2, <1>3 DEF IInv

-----------------------------------------------------------------------------
(* What the steps do to the asking tasks.                                  *)

\* The task that goes on after a lookup's answer is well typed: a check that
\* sleeps has an attempt left.
LEMMA AfterType ==
  ASSUME TypeOK, NEW t \in Tasks, NEW v \in Answers
  PROVE  /\ After(t, v) \in TaskRecords
         /\ After(t, v).gate = Nil
         /\ After(t, v).pc \in {"idle", "answered", "sleep"}
         /\ After(t, v).pc = "sleep" =>
                /\ v = "no" /\ After(t, v).recent /\ task[t].recent
                /\ After(t, v).key = task[t].key
                /\ After(t, v).attempt = task[t].attempt
                /\ ~After(t, v).newer
                /\ After(t, v).attempt < RecentAttempts
         /\ After(t, v).pc = "answered" =>
                /\ task[t].recent /\ After(t, v).value = v
                /\ v = "no" => task[t].attempt = RecentAttempts
  <1> USE NadeoAssumption DEF TypeOK
  <1>1. task[t] \in TaskRecords
    OBVIOUS
  <1>2. /\ task[t].key \in Keys \cup {Nil} /\ task[t].recent \in BOOLEAN
        /\ task[t].attempt \in 1 .. RecentAttempts
    BY <1>1 DEF TaskRecords
  <1>3. CASE Repeats(t, v)
    <2>1. After(t, v) = [pc |-> "sleep", key |-> task[t].key, recent |-> TRUE, newer |-> FALSE,
             attempt |-> task[t].attempt, tries |-> 1, gate |-> Nil, value |-> "no"]
      BY <1>3 DEF After, IdleTask
    <2>2. v = "no" /\ task[t].recent /\ task[t].attempt < RecentAttempts
      BY <1>3 DEF Repeats
    <2>3. QED
      BY <1>2, <2>1, <2>2 DEF TaskRecords, Answers
  <1>4. CASE ~Repeats(t, v) /\ task[t].recent
    <2>1. After(t, v) = [pc |-> "answered", key |-> Nil, recent |-> FALSE, newer |-> FALSE,
             attempt |-> 1, tries |-> 1, gate |-> Nil, value |-> v]
      BY <1>4 DEF After, IdleTask
    <2>2. v = "no" => task[t].attempt = RecentAttempts
      BY <1>2, <1>4 DEF Repeats
    <2>3. QED
      BY <1>2, <1>4, <2>1, <2>2 DEF TaskRecords, Answers, Resting
  <1>5. CASE ~Repeats(t, v) /\ ~task[t].recent
    <2>1. After(t, v) = IdleTask
      BY <1>5 DEF After
    <2>2. QED
      BY <2>1 DEF TaskRecords, IdleTask, Answers, Resting
  <1>6. QED
    BY <1>3, <1>4, <1>5

\* A task that gives up its gate, or had none, and is not in a lookup then.
Leaves(t) ==
    \E r \in TaskRecords :
        /\ task' = [task EXCEPT ![t] = r]
        /\ r.gate = Nil
        /\ r.pc \in InLookup => r.key = Nil /\ r.pc \notin {"gate", "permit", "store"}
        /\ r.pc \in {"lookup", "sleep"} => r.key \in Keys
        /\ r.pc = "sleep" => r.recent /\ r.attempt < RecentAttempts

\* A task that goes on in its lookup, or in a direct request.
Advances(t) ==
    \E r \in TaskRecords :
        /\ task' = [task EXCEPT ![t] = r]
        /\ r.gate = task[t].gate /\ r.key = task[t].key
        /\ task[t].pc \in Fetching /\ r.pc \in Fetching
        /\ r.pc \in {"permit", "store"} => r.key \in Keys

\* Leaving frees the key, and the others keep what they have.
LEMMA LeavesKeeps ==
  ASSUME IInv, NEW t \in Tasks, Leaves(t), UNCHANGED gate
  PROVE  /\ task' \in [Tasks -> TaskRecords]
         /\ WellFormed' /\ GatesExclude'
  <1> USE NadeoAssumption DEF IInv, TypeOK
  <1>1. PICK r \in TaskRecords :
        /\ task' = [task EXCEPT ![t] = r]
        /\ r.gate = Nil
        /\ r.pc \in InLookup => r.key = Nil /\ r.pc \notin {"gate", "permit", "store"}
        /\ r.pc \in {"lookup", "sleep"} => r.key \in Keys
        /\ r.pc = "sleep" => r.recent /\ r.attempt < RecentAttempts
    BY DEF Leaves
  <1>2. /\ task'[t] = r
        /\ \A s \in Tasks \ {t} : task'[s] = task[s]
    BY <1>1
  <1>3. task' \in [Tasks -> TaskRecords]
    BY <1>1
  <1>4. WellFormed'
    BY <1>1, <1>2 DEF WellFormed, InLookup, Fetching
  <1>5. GatesExclude'
    BY <1>1, <1>2 DEF GatesExclude
  <1>6. QED
    BY <1>3, <1>4, <1>5

\* Advancing keeps the gate that the task has passed.
LEMMA AdvancesKeeps ==
  ASSUME IInv, NEW t \in Tasks, Advances(t), UNCHANGED gate
  PROVE  /\ task' \in [Tasks -> TaskRecords]
         /\ WellFormed' /\ GatesExclude'
  <1> USE NadeoAssumption DEF IInv, TypeOK
  <1>1. PICK r \in TaskRecords :
        /\ task' = [task EXCEPT ![t] = r]
        /\ r.gate = task[t].gate /\ r.key = task[t].key
        /\ task[t].pc \in Fetching /\ r.pc \in Fetching
        /\ r.pc \in {"permit", "store"} => r.key \in Keys
    BY DEF Advances
  <1>2. /\ task'[t] = r
        /\ \A s \in Tasks \ {t} : task'[s] = task[s]
    BY <1>1
  <1>3. task' \in [Tasks -> TaskRecords]
    BY <1>1
  <1>4. WellFormed'
    BY <1>1, <1>2 DEF WellFormed, InLookup, Fetching
  <1>5. GatesExclude'
    BY <1>1, <1>2 DEF GatesExclude
  <1>6. QED
    BY <1>3, <1>4, <1>5

\* A lookup that returns, and one that fails, leave.
LEMMA ReturnsLeave ==
  ASSUME IInv, NEW t \in Tasks, NEW v \in Answers,
         task[t].pc \in {"lookup", "gate"}, Return(t, v) \/ Fail(t)
  PROVE  Leaves(t)
  <1>1. CASE Return(t, v)
    <2>1. /\ After(t, v) \in TaskRecords
          /\ After(t, v).gate = Nil
          /\ After(t, v).pc \in {"idle", "answered", "sleep"}
          /\ After(t, v).pc = "sleep" =>
                /\ After(t, v).recent /\ After(t, v).key = task[t].key
                /\ After(t, v).attempt < RecentAttempts
      BY AfterType DEF IInv
    <2>2. task[t].key \in Keys
      BY DEF IInv, WellFormed
    <2>3. QED
      BY <1>1, <2>1, <2>2 DEF Leaves, Return, InLookup, Fetching
  <1>2. CASE Fail(t)
    <2>1. /\ IdleTask.gate = Nil /\ IdleTask.pc = "idle"
      BY DEF IdleTask
    <2>2. QED
      BY <1>2, <2>1, IdleType DEF Leaves, Fail, InLookup, Fetching
  <1>3. QED
    BY <1>1, <1>2

\* Finding a gate never takes one from a task that holds it.
LEMMA FindGateKeeps ==
  ASSUME IInv, NEW t \in Tasks, task[t].pc = "lookup", FindGate(t)
  PROVE  /\ task' \in [Tasks -> TaskRecords]
         /\ gate' \in [Keys -> Gates \cup {Nil}]
         /\ WellFormed' /\ GatesExclude'
  <1> USE NadeoAssumption DEF IInv, TypeOK
  <1> DEFINE k == task[t].key
  <1>1. k \in Keys
    BY DEF WellFormed
  <1>2. ASSUME NEW g \in Gates, task' = [task EXCEPT ![t].pc = "gate", ![t].gate = g],
               gate' \in [Keys -> Gates \cup {Nil}], gate'[k] = g,
               \A s \in Tasks : task[s].gate # Nil => gate'[task[s].key] = gate[task[s].key]
        PROVE  /\ task' \in [Tasks -> TaskRecords]
               /\ WellFormed' /\ GatesExclude'
    <2>1. [task[t] EXCEPT !.pc = "gate", !.gate = g] \in TaskRecords
      BY DEF TaskRecords, InLookup
    <2>2. task' = [task EXCEPT ![t] = [task[t] EXCEPT !.pc = "gate", !.gate = g]]
      BY <1>2
    <2>3. task' \in [Tasks -> TaskRecords]
      BY <2>1, <2>2
    <2>4. /\ task'[t].pc = "gate" /\ task'[t].gate = g /\ task'[t].key = k
          /\ \A s \in Tasks \ {t} : task'[s] = task[s]
      <3>1. task[t] \in TaskRecords
        OBVIOUS
      <3>2. QED
        BY <2>2, <3>1 DEF TaskRecords
    <2>5. WellFormed'
      <3> SUFFICES ASSUME NEW s \in Tasks
                   PROVE (/\ task[s].pc \in {"lookup", "sleep", "gate", "permit", "store"} => task[s].key \in Keys
                          /\ task[s].pc \in InLookup /\ task[s].key # Nil => task[s].gate # Nil
                          /\ task[s].gate # Nil =>
                               /\ task[s].pc \in InLookup /\ task[s].key \in Keys
                               /\ gate[task[s].key] = task[s].gate
                          /\ task[s].pc = "sleep" => task[s].recent /\ task[s].attempt < RecentAttempts)'
        BY DEF WellFormed
      <3>1. CASE s = t
        BY <1>1, <1>2, <2>4, <3>1 DEF InLookup
      <3>2. CASE s # t
        BY <1>2, <2>4, <3>2 DEF WellFormed
      <3>3. QED
        BY <3>1, <3>2
    <2>6. GatesExclude'
      BY <2>4 DEF GatesExclude, Fetching
    <2>7. QED
      BY <2>3, <2>5, <2>6
  <1>3. CASE gate[k] # Nil /\ task' = [task EXCEPT ![t].pc = "gate", ![t].gate = gate[k]] /\ UNCHANGED gate
    <2>1. gate[k] \in Gates
      BY <1>1, <1>3
    <2>2. QED
      BY <1>2, <1>3, <2>1
  <1>4. ASSUME gate[k] = Nil, NEW g \in NewGates,
               task' = [task EXCEPT ![t].pc = "gate", ![t].gate = g],
               \/ gate' = [gate EXCEPT ![k] = g]
               \/ \E idle \in IdleGates : gate' = [gate EXCEPT ![idle] = Nil, ![k] = g]
        PROVE  /\ task' \in [Tasks -> TaskRecords]
               /\ gate' \in [Keys -> Gates \cup {Nil}]
               /\ WellFormed' /\ GatesExclude'
    <2>1. g \in Gates
      BY <1>4 DEF NewGates
    <2>2. gate' \in [Keys -> Gates \cup {Nil}] /\ gate'[k] = g
      BY <1>1, <1>4, <2>1 DEF IdleGates, Registered
    <2>3. ASSUME NEW s \in Tasks, task[s].gate # Nil
          PROVE  gate'[task[s].key] = gate[task[s].key]
      <3>1. task[s].key \in Keys /\ gate[task[s].key] = task[s].gate
        BY <2>3 DEF WellFormed
      <3>2. task[s].key # k
        BY <1>4, <2>3, <3>1
      <3>3. task[s].key \notin IdleGates
        BY <2>3, <3>1 DEF IdleGates, Held
      <3>4. QED
        BY <1>4, <3>1, <3>2, <3>3 DEF IdleGates, Registered
    <2>4. QED
      BY <1>2, <1>4, <2>1, <2>2, <2>3
  <1>5. CASE Fail(t) /\ UNCHANGED gate
    BY <1>5, ReturnsLeave, LeavesKeeps DEF Answers
  <1>6. QED
    BY <1>3, <1>4, <1>5 DEF FindGate

\* The lookup before the gate.
LEMMA LookupKeeps ==
  ASSUME IInv, NEW t \in Tasks, Lookup(t)
  PROVE  IInv'
  <1> USE NadeoAssumption DEF IInv
  <1>1. CASE Cached(t) /\ Return(t, cache[task[t].key]) /\ UNCHANGED gate
    <2>1. cache[task[t].key] \in Answers
      BY <1>1 DEF Cached, Answers
    <2>2. Leaves(t)
      BY <1>1, <2>1, ReturnsLeave DEF Lookup
    <2>3. QED
      BY <1>1, <2>2, LeavesKeeps DEF Lookup, TypeOK
  <1>2. CASE FindGate(t)
    BY <1>2, FindGateKeeps DEF Lookup, TypeOK
  <1>3. QED
    BY <1>1, <1>2 DEF Lookup

\* Behind the gate: the last holder has returned, so the gate is one task's.
LEMMA TakeGateKeeps ==
  ASSUME IInv, NEW t \in Tasks, TakeGate(t)
  PROVE  IInv'
  <1> USE NadeoAssumption DEF IInv
  <1>1. CASE Cached(t) /\ Return(t, cache[task[t].key]) /\ UNCHANGED <<global, account>>
    <2>1. cache[task[t].key] \in Answers
      BY <1>1 DEF Cached, Answers
    <2>2. Leaves(t)
      BY <1>1, <2>1, ReturnsLeave DEF TakeGate
    <2>3. QED
      BY <1>1, <2>2, LeavesKeeps DEF TakeGate, TypeOK
  <1>2. CASE Fail(t) /\ UNCHANGED <<global, account>>
    <2>1. Leaves(t)
      BY <1>2, ReturnsLeave DEF TakeGate, Answers
    <2>2. QED
      BY <1>2, <2>1, LeavesKeeps DEF TakeGate, TypeOK
  <1>3. CASE /\ Admitted(t)
             /\ task' = [task EXCEPT ![t].pc = "permit", ![t].newer = FALSE]
             /\ global' = global + 1
             /\ account' = [account EXCEPT ![AccountOf[task[t].key]] = @ + 1]
    <2>1. /\ task[t] \in TaskRecords /\ task[t].pc = "gate" /\ task[t].key \in Keys
          /\ task[t].gate # Nil
          /\ \A s \in Tasks : task[s].gate = task[t].gate => task[s].pc \notin Fetching
          /\ UNCHANGED <<truth, cache, gate, token, seen>>
      BY DEF TakeGate, TypeOK, WellFormed, InLookup
    <2>2. [task[t] EXCEPT !.pc = "permit", !.newer = FALSE] \in TaskRecords
      BY <2>1 DEF TaskRecords, InLookup, Fetching
    <2>3. task' = [task EXCEPT ![t] = [task[t] EXCEPT !.pc = "permit", !.newer = FALSE]]
      BY <1>3 DEF TypeOK
    <2>4. global' \in 0 .. GlobalLimit /\ account' \in [Accounts -> 0 .. AccountLimit]
      <3>1. AccountOf[task[t].key] \in Accounts
        BY <2>1
      <3>2. QED
        BY <1>3, <3>1 DEF TypeOK, Admitted
    <2>5. TypeOK'
      BY <2>1, <2>2, <2>3, <2>4 DEF TypeOK
    <2>6. /\ task'[t].pc = "permit" /\ task'[t].key = task[t].key /\ task'[t].gate = task[t].gate
          /\ \A s \in Tasks \ {t} : task'[s] = task[s]
      BY <2>1, <2>3 DEF TypeOK, TaskRecords
    <2>7. WellFormed'
      BY <2>1, <2>6 DEF WellFormed, InLookup, Fetching
    <2>8. GatesExclude'
      BY <2>1, <2>6 DEF GatesExclude
    <2>9. QED
      BY <2>5, <2>7, <2>8
  <1>4. QED
    BY <1>1, <1>2, <1>3 DEF TakeGate

\* A task of whose record only the place and the number of tries change.
LEMMA GoesOn ==
  ASSUME IInv, NEW t \in Tasks, task[t].pc \in Fetching,
         NEW pc \in {"refresh", "authenticate", "request"}, NEW n \in 1 .. RetryAttempts,
         task' = [task EXCEPT ![t] = [@ EXCEPT !.pc = pc, !.tries = n]]
  PROVE  Advances(t)
  <1> DEFINE r == [task[t] EXCEPT !.pc = pc, !.tries = n]
  <1>1. task[t] \in TaskRecords
    BY DEF IInv, TypeOK
  <1>2. r \in TaskRecords
    BY <1>1 DEF TaskRecords, InLookup, Fetching
  <1>3. r.gate = task[t].gate /\ r.key = task[t].key /\ r.pc = pc
    BY <1>1 DEF TaskRecords
  <1>4. task' = [task EXCEPT ![t] = r]
    OBVIOUS
  <1> HIDE DEF r
  <1>5. QED
    BY <1>2, <1>3, <1>4 DEF Advances, Fetching

\* The token and the requests.
LEMMA RequestsKeep ==
  ASSUME IInv, NEW t \in Tasks,
         TakePermit(t) \/ TakeRefresh(t) \/ Authenticated(t) \/ RequestFails(t)
  PROVE  IInv'
  <1> USE NadeoAssumption
  <1>1. task[t] \in TaskRecords
    BY DEF IInv, TypeOK
  <1>2. /\ task[t].tries \in 1 .. RetryAttempts
        /\ \A pc \in {"refresh", "request", "authenticate"} :
              [task EXCEPT ![t].pc = pc]
                = [task EXCEPT ![t] = [@ EXCEPT !.pc = pc, !.tries = task[t].tries]]
    BY <1>1 DEF TaskRecords
  <1>3. CASE TakePermit(t) \/ TakeRefresh(t)
    <2>1. PICK pc \in {"refresh", "request", "authenticate"} : Goto(t, pc)
      BY <1>3 DEF TakePermit, TakeRefresh
    <2>2. task[t].pc \in Fetching /\ UNCHANGED gate
      BY <1>3 DEF TakePermit, TakeRefresh, Fetching
    <2>3. Advances(t)
      BY <1>2, <2>1, <2>2, GoesOn DEF Goto
    <2>4. QED
      BY <1>3, <2>2, <2>3, AdvancesKeeps DEF IInv, TypeOK, TakePermit, TakeRefresh
  <1>4. CASE Authenticated(t)
    <2>1. task' = [task EXCEPT ![t] = [@ EXCEPT !.pc = "request", !.tries = 1]]
      BY <1>4 DEF Authenticated
    <2>2. task[t].pc \in Fetching /\ UNCHANGED gate
      BY <1>4 DEF Authenticated, Fetching
    <2>3. Advances(t)
      <3>1. 1 \in 1 .. RetryAttempts
        OBVIOUS
      <3>2. QED
        BY <2>1, <2>2, <3>1, GoesOn
    <2>4. QED
      BY <1>4, <2>2, <2>3, AdvancesKeeps DEF IInv, TypeOK, Authenticated
  <1>5. CASE RequestFails(t)
    <2>1. task[t].pc \in Requesting /\ UNCHANGED <<truth, cache, gate, global, account, token, seen>>
      BY <1>5 DEF RequestFails
    <2>2. CASE Fail(t)
      <3>1. Leaves(t)
        <4>1. IdleTask.gate = Nil /\ IdleTask.pc = "idle"
          BY DEF IdleTask
        <4>2. QED
          BY <2>2, <4>1, IdleType DEF Leaves, Fail, InLookup, Fetching
      <3>2. QED
        BY <2>1, <3>1, LeavesKeeps DEF IInv, TypeOK
    <2>3. CASE task[t].tries < RetryAttempts /\ task' = [task EXCEPT ![t].tries = @ + 1]
      <3>1. task' = [task EXCEPT ![t] = [@ EXCEPT !.pc = task[t].pc, !.tries = task[t].tries + 1]]
        <4>1. [task[t] EXCEPT !.pc = task[t].pc, !.tries = task[t].tries + 1]
                = [task[t] EXCEPT !.tries = task[t].tries + 1]
          BY <1>1 DEF TaskRecords
        <4>2. QED
          BY <2>3, <4>1
      <3>2. task[t].tries + 1 \in 1 .. RetryAttempts
        BY <1>2, <2>3
      <3>3. task[t].pc \in {"authenticate", "request"} /\ task[t].pc \in Fetching
        BY <2>1 DEF Requesting, Fetching
      <3>4. Advances(t)
        BY <3>1, <3>2, <3>3, GoesOn
      <3>5. QED
        BY <2>1, <3>4, AdvancesKeeps DEF IInv, TypeOK
    <2>4. QED
      BY <1>5, <2>2, <2>3 DEF RequestFails
  <1>6. QED
    BY <1>3, <1>4, <1>5

\* Nadeo's answer is kept in the task until it arrives.
LEMMA NadeoReadsKeeps ==
  ASSUME IInv, NEW t \in Tasks, NadeoReads(t)
  PROVE  IInv'
  <1> USE NadeoAssumption
  <1>1. /\ task[t] \in TaskRecords /\ task[t].pc = "request"
        /\ UNCHANGED <<truth, cache, gate, global, account, token, seen>>
    BY DEF IInv, TypeOK, NadeoReads
  <1>2. CASE task[t].key = Nil /\ Fail(t)
    <2>1. IdleTask.gate = Nil /\ IdleTask.pc = "idle"
      BY DEF IdleTask
    <2>2. Leaves(t)
      BY <1>2, <2>1, IdleType DEF Leaves, Fail, InLookup, Fetching
    <2>3. QED
      BY <1>1, <2>2, LeavesKeeps DEF IInv, TypeOK
  <1>3. CASE /\ task[t].key # Nil
             /\ task' = [task EXCEPT ![t].pc = "store", ![t].tries = 1,
                                     ![t].value = truth[task[t].key]]
    <2> DEFINE r == [task[t] EXCEPT !.pc = "store", !.tries = 1, !.value = truth[task[t].key]]
    <2>1. task[t].key \in Keys
      BY <1>1, <1>3 DEF TaskRecords
    <2>2. truth[task[t].key] \in Answers
      BY <2>1 DEF IInv, TypeOK
    <2>3. r \in TaskRecords
      <3>1. 1 \in 1 .. RetryAttempts
        OBVIOUS
      <3>2. QED
        BY <1>1, <2>2, <3>1, ZenonT(40) DEF TaskRecords, InLookup, Fetching
    <2>4. r.gate = task[t].gate /\ r.key = task[t].key /\ r.pc = "store"
      BY <1>1 DEF TaskRecords
    <2>5. task' = [task EXCEPT ![t] = r]
      BY <1>3 DEF IInv, TypeOK
    <2> HIDE DEF r
    <2>6. Advances(t)
      BY <1>1, <2>1, <2>3, <2>4, <2>5 DEF Advances, Fetching
    <2>7. QED
      BY <1>1, <2>6, AdvancesKeeps DEF IInv, TypeOK
  <1>4. QED
    BY <1>2, <1>3 DEF NadeoReads

\* Storing frees the key, and marks the entry as newer for those who wait.
LEMMA StoreShape ==
  ASSUME IInv, NEW t \in Tasks, Store(t)
  PROVE  /\ task' \in [Tasks -> TaskRecords]
         /\ task'[t] = After(t, task[t].value)
         /\ \A s \in Tasks \ {t} :
                /\ task'[s].pc = task[s].pc /\ task'[s].key = task[s].key
                /\ task'[s].gate = task[s].gate /\ task'[s].recent = task[s].recent
                /\ task'[s].attempt = task[s].attempt /\ task'[s].value = task[s].value
                /\ task'[s].tries = task[s].tries
                /\ task'[s].newer # task[s].newer =>
                       task[s].key = task[t].key /\ task[s].pc \in {"lookup", "gate"}
                /\ (/\ task[s].key = task[t].key /\ task[s].recent
                    /\ task[s].pc \in {"lookup", "gate"}) => task'[s].newer
  <1> USE DEF IInv, TypeOK
  <1>1. task[t].value \in Answers
    BY DEF TaskRecords
  <1>2. After(t, task[t].value) \in TaskRecords
    BY <1>1, AfterType
  <1>3. ASSUME NEW s \in Tasks
        PROVE  /\ [task[s] EXCEPT !.newer = TRUE] \in TaskRecords
               /\ LET r == [task[s] EXCEPT !.newer = TRUE] IN
                  /\ r.pc = task[s].pc /\ r.key = task[s].key /\ r.gate = task[s].gate
                  /\ r.recent = task[s].recent /\ r.attempt = task[s].attempt
                  /\ r.value = task[s].value /\ r.tries = task[s].tries /\ r.newer
    BY <1>3 DEF TaskRecords
  <1>4. task' = [s \in Tasks |->
               IF s = t
               THEN After(t, task[t].value)
               ELSE IF task[s].key = task[t].key /\ task[s].recent /\ task[s].pc \in {"lookup", "gate"}
               THEN [task[s] EXCEPT !.newer = TRUE]
               ELSE task[s]]
    BY DEF Store
  <1>5. QED
    BY <1>2, <1>3, <1>4

LEMMA StoreKeeps ==
  ASSUME IInv, NEW t \in Tasks, Store(t)
  PROVE  IInv'
  <1> USE NadeoAssumption
  <1>1. /\ task[t].pc = "store" /\ task[t].key \in Keys /\ task[t].value \in Answers
        /\ cache' = [cache EXCEPT ![task[t].key] = task[t].value]
        /\ UNCHANGED <<truth, gate, global, account, token, seen>>
    BY DEF IInv, TypeOK, WellFormed, Store, TaskRecords
  <1>2. TypeOK'
    BY <1>1, StoreShape DEF IInv, TypeOK
  <1>3. /\ task'[t].gate = Nil
        /\ task'[t].pc \in {"idle", "answered", "sleep"}
        /\ task'[t].pc = "sleep" =>
               task'[t].key \in Keys /\ task'[t].recent /\ task'[t].attempt < RecentAttempts
    BY <1>1, StoreShape, AfterType DEF IInv
  <1>4. WellFormed'
    BY <1>1, <1>3, StoreShape DEF IInv, WellFormed, InLookup, Fetching
  <1>5. GatesExclude'
    BY <1>3, StoreShape DEF IInv, GatesExclude
  <1>6. QED
    BY <1>2, <1>4, <1>5 DEF IInv

\* A task that begins, or begins its next attempt.
LEMMA BeginningsKeep ==
  ASSUME IInv, NEW t \in Tasks,
         \/ \E k \in Keys, recent \in BOOLEAN : Ask(t, k, recent)
         \/ FetchDirectly(t) \/ WakeUp(t)
  PROVE  IInv'
  <1> USE NadeoAssumption
  <1>1. CASE \E k \in Keys, recent \in BOOLEAN : Ask(t, k, recent)
    <2>1. PICK k \in Keys, recent \in BOOLEAN : Ask(t, k, recent)
      BY <1>1
    <2> DEFINE r == [IdleTask EXCEPT !.pc = "lookup", !.key = k, !.recent = recent]
    <2>2. r \in TaskRecords
      BY IdleType, ZenonT(40) DEF TaskRecords, InLookup, Resting
    <2>3. r.gate = Nil /\ r.pc = "lookup" /\ r.key \in Keys
      BY DEF IdleTask
    <2>4. task' = [task EXCEPT ![t] = r] /\ UNCHANGED gate
      BY <2>1 DEF Ask
    <2> HIDE DEF r
    <2>5. Leaves(t)
      BY <2>2, <2>3, <2>4 DEF Leaves, InLookup, Fetching
    <2>6. seen' \in [Tasks -> SUBSET Answers]
      BY <2>1 DEF Ask, IInv, TypeOK
    <2>7. QED
      BY <2>1, <2>4, <2>5, <2>6, LeavesKeeps DEF Ask, IInv, TypeOK
  <1>2. CASE FetchDirectly(t)
    <2> DEFINE r == [IdleTask EXCEPT !.pc = IF token = "fresh" THEN "request" ELSE "refresh"]
    <2>1. r \in TaskRecords
      BY IdleType, ZenonT(40) DEF TaskRecords, InLookup, Fetching
    <2>2. r.gate = Nil /\ r.pc \in {"refresh", "request"} /\ r.key = Nil
      BY DEF IdleTask
    <2>3. task' = [task EXCEPT ![t] = r] /\ UNCHANGED gate
      BY <1>2 DEF FetchDirectly
    <2> HIDE DEF r
    <2>4. Leaves(t)
      BY <2>1, <2>2, <2>3 DEF Leaves
    <2>5. QED
      BY <1>2, <2>3, <2>4, LeavesKeeps DEF FetchDirectly, IInv, TypeOK
  <1>3. CASE WakeUp(t)
    <2> DEFINE r == [task[t] EXCEPT !.pc = "lookup", !.attempt = @ + 1]
    <2>1. task[t] \in TaskRecords /\ task[t].pc = "sleep"
      BY <1>3 DEF WakeUp, IInv, TypeOK
    <2>2. /\ task[t].attempt \in 1 .. RecentAttempts /\ task[t].attempt < RecentAttempts
          /\ task[t].gate = Nil /\ task[t].key \in Keys
      BY <2>1 DEF IInv, WellFormed, InLookup, Fetching, TaskRecords
    <2>3. task[t].attempt + 1 \in 1 .. RecentAttempts
      BY <2>2
    <2>4. r \in TaskRecords /\ r.gate = Nil /\ r.pc = "lookup" /\ r.key \in Keys
      BY <2>1, <2>2, <2>3 DEF TaskRecords
    <2>5. task' = [task EXCEPT ![t] = r] /\ UNCHANGED gate
      BY <1>3 DEF WakeUp, IInv, TypeOK
    <2> HIDE DEF r
    <2>6. Leaves(t)
      BY <2>4, <2>5 DEF Leaves, InLookup, Fetching
    <2>7. QED
      BY <1>3, <2>5, <2>6, LeavesKeeps DEF WakeUp, IInv, TypeOK
  <1>4. QED
    BY <1>1, <1>2, <1>3

\* Time and the world touch no lookup.
LEMMA WorldKeeps ==
  ASSUME IInv,
         \/ \E k \in Keys : Forget(k) \/ TruthChanges(k)
         \/ TokenAges \/ NewGlobalWindow
         \/ \E a \in Accounts : NewAccountWindow(a)
  PROVE  IInv'
  <1> USE NadeoAssumption DEF IInv
  <1>1. UNCHANGED <<task, gate>>
    BY DEF Forget, TruthChanges, TokenAges, NewGlobalWindow, NewAccountWindow
  <1>2. WellFormed' /\ GatesExclude'
    BY <1>1 DEF WellFormed, GatesExclude
  <1>3. ASSUME NEW k \in Keys, TruthChanges(k) PROVE TypeOK'
    <2>1. truth' \in [Keys -> Answers]
      BY <1>3 DEF TruthChanges, TypeOK, Answers
    <2>2. truth'[k] \in Answers
      BY <2>1
    <2>3. seen' \in [Tasks -> SUBSET Answers]
      BY <1>3, <2>2 DEF TruthChanges, TypeOK
    <2>4. QED
      BY <1>3, <2>1, <2>3 DEF TruthChanges, TypeOK
  <1>4. ASSUME NEW k \in Keys, Forget(k) PROVE TypeOK'
    BY <1>4 DEF Forget, TypeOK
  <1>5. CASE TokenAges \/ NewGlobalWindow
    <2>1. CASE TokenAges
      BY <1>2, <2>1 DEF TokenAges, TypeOK
    <2>2. CASE NewGlobalWindow
      <3>1. 0 \in 0 .. GlobalLimit
        OBVIOUS
      <3>2. QED
        BY <1>2, <2>2, <3>1 DEF NewGlobalWindow, TypeOK
    <2>3. QED
      BY <1>5, <2>1, <2>2
  <1>6. ASSUME NEW a \in Accounts, NewAccountWindow(a) PROVE TypeOK'
    <2>1. account' \in [Accounts -> 0 .. AccountLimit]
      BY <1>6 DEF NewAccountWindow, TypeOK
    <2>2. QED
      BY <1>6, <2>1 DEF NewAccountWindow, TypeOK
  <1>7. QED
    BY <1>2, <1>3, <1>4, <1>5, <1>6

\* Every step keeps the invariant.
LEMMA IInvStep == IInv /\ [Next]_vars => IInv'
  <1> SUFFICES ASSUME IInv, [Next]_vars PROVE IInv'
    OBVIOUS
  <1>1. ASSUME NEW t \in Tasks, Step(t) PROVE IInv'
    BY <1>1, BeginningsKeep, LookupKeeps, TakeGateKeeps, RequestsKeep, NadeoReadsKeeps,
       StoreKeeps DEF Step
  <1>2. CASE UNCHANGED vars
    BY <1>2 DEF vars, IInv, TypeOK, WellFormed, GatesExclude
  <1>3. QED
    BY <1>1, <1>2, BeginningsKeep, WorldKeeps DEF Next

\* In every reachable state of NadeoLookups.
THEOREM Invariance == Spec => []IInv
  BY InitIInv, IInvStep, PTL DEF Spec

-----------------------------------------------------------------------------
(* What follows.                                                           *)

\* Two tasks that look the same key up hold the same gate.
LEMMA OneFlight == IInv => SingleFlight
  BY DEF IInv, WellFormed, GatesExclude, SingleFlight, InLookup

\* The lookups keep their types: counters stay below their limits, and nobody
\* sleeps on the last attempt.
THEOREM TypeCorrect == Spec => []TypeOK
  BY Invariance, PTL DEF IInv

\* At most one task at a time asks Nadeo for a key, however many tasks ask and
\* however the registry of gates evicts (key_gate, lookup).
THEOREM OneLookupPerKey == Spec => []SingleFlight
  BY Invariance, OneFlight, PTL

\* Only the refresh gate's owner begins to authenticate, after another look at
\* the token; its success leaves nobody authenticating.
LEMMA AuthenticationStep ==
  ASSUME IInv, NoNeedlessAuthentication, [Next]_vars
  PROVE  NoNeedlessAuthentication'
  <1> USE DEF IInv, TypeOK
  <1> DEFINE Quiet == /\ \A s \in Tasks : task'[s].pc = "authenticate" => task[s].pc = "authenticate"
                      /\ token' = token \/ token' = "none"
  <1>1. Quiet => NoNeedlessAuthentication'
    BY DEF NoNeedlessAuthentication
  <1>2. ASSUME NEW t \in Tasks, NEW r, r.pc # "authenticate",
               task' = [task EXCEPT ![t] = r], UNCHANGED token
        PROVE  Quiet
    BY <1>2
  <1>3. ASSUME NEW t \in Tasks, NEW pc, pc # "authenticate",
               \A s \in Tasks : task'[s].pc = IF s = t THEN pc ELSE task[s].pc, UNCHANGED token
        PROVE  Quiet
    BY <1>3
  <1> HIDE DEF Quiet
  <1>4. ASSUME NEW t \in Tasks, NEW v \in Answers, Return(t, v), UNCHANGED token PROVE Quiet
    <2>1. After(t, v).pc # "authenticate"
      BY AfterType
    <2>2. QED
      BY <1>2, <1>4, <2>1 DEF Return
  <1>5. ASSUME NEW t \in Tasks, Fail(t), UNCHANGED token PROVE Quiet
    BY <1>2, <1>5 DEF Fail, IdleTask
  <1>6. ASSUME NEW t \in Tasks, Lookup(t) \/ TakeGate(t) PROVE Quiet
    <2>1. Cached(t) => cache[task[t].key] \in Answers
      BY DEF Cached, Answers
    <2>2. UNCHANGED token
      BY <1>6 DEF Lookup, TakeGate
    <2>3. CASE Fail(t)
      BY <1>5, <2>2, <2>3
    <2>4. CASE Cached(t) /\ Return(t, cache[task[t].key])
      BY <1>4, <2>1, <2>2, <2>4
    <2>5. ASSUME NEW g, task' = [task EXCEPT ![t].pc = "gate", ![t].gate = g] PROVE Quiet
      <3>1. \A s \in Tasks : task'[s].pc = IF s = t THEN "gate" ELSE task[s].pc
        BY <2>5 DEF TaskRecords
      <3>2. QED
        BY <1>3, <2>2, <3>1
    <2>6. CASE task' = [task EXCEPT ![t].pc = "permit", ![t].newer = FALSE]
      <3>1. \A s \in Tasks : task'[s].pc = IF s = t THEN "permit" ELSE task[s].pc
        BY <2>6 DEF TaskRecords
      <3>2. QED
        BY <1>3, <2>2, <3>1
    <2>7. QED
      BY <1>6, <2>3, <2>4, <2>5, <2>6 DEF Lookup, TakeGate, FindGate
  <1>7. ASSUME NEW t \in Tasks, TakePermit(t) PROVE Quiet
    <2>1. PICK pc \in {"request", "refresh"} : Goto(t, pc)
      BY <1>7 DEF TakePermit
    <2>2. \A s \in Tasks : task'[s].pc = IF s = t THEN pc ELSE task[s].pc
      BY <2>1 DEF Goto, TaskRecords
    <2>3. QED
      BY <1>3, <1>7, <2>2 DEF TakePermit
  <1>8. ASSUME NEW t \in Tasks, TakeRefresh(t) PROVE NoNeedlessAuthentication'
    <2>1. \A s \in Tasks : task'[s].pc = IF s # t THEN task[s].pc
             ELSE IF token = "fresh" THEN "request" ELSE "authenticate"
      BY <1>8 DEF TakeRefresh, Goto, TaskRecords
    <2>2. QED
      BY <1>8, <2>1 DEF TakeRefresh, NoNeedlessAuthentication
  <1>9. ASSUME NEW t \in Tasks, Authenticated(t) PROVE NoNeedlessAuthentication'
    <2>1. \A s \in Tasks : task'[s].pc = IF s = t THEN "request" ELSE task[s].pc
      BY <1>9 DEF Authenticated, TaskRecords
    <2>2. QED
      BY <1>9, <2>1 DEF Authenticated, NoNeedlessAuthentication
  <1>10. ASSUME NEW t \in Tasks, RequestFails(t) PROVE Quiet
    <2>1. CASE task' = [task EXCEPT ![t].tries = @ + 1]
      <3>1. \A s \in Tasks : task'[s].pc = task[s].pc
        BY <2>1 DEF TaskRecords
      <3>2. QED
        BY <1>10, <3>1 DEF RequestFails, Quiet
    <2>2. QED
      BY <1>5, <1>10, <2>1 DEF RequestFails
  <1>11. ASSUME NEW t \in Tasks, NadeoReads(t) PROVE Quiet
    <2>1. CASE Fail(t)
      BY <1>5, <1>11, <2>1 DEF NadeoReads
    <2>2. CASE task' = [task EXCEPT ![t].pc = "store", ![t].tries = 1,
                                    ![t].value = truth[task[t].key]]
      <3>1. \A s \in Tasks : task'[s].pc = IF s = t THEN "store" ELSE task[s].pc
        BY <2>2 DEF TaskRecords
      <3>2. QED
        BY <1>3, <1>11, <3>1 DEF NadeoReads
    <2>3. QED
      BY <1>11, <2>1, <2>2 DEF NadeoReads
  <1>12. ASSUME NEW t \in Tasks, Store(t) PROVE Quiet
    <2>1. task[t].value \in Answers
      BY DEF TaskRecords
    <2>2. After(t, task[t].value).pc # "authenticate"
      BY <2>1, AfterType
    <2>3. UNCHANGED token
      BY <1>12 DEF Store
    <2>4. QED
      BY <1>12, <2>2, <2>3, StoreShape DEF Quiet
  <1>13. ASSUME NEW t \in Tasks, WakeUp(t) PROVE Quiet
    <2>1. \A s \in Tasks : task'[s].pc = IF s = t THEN "lookup" ELSE task[s].pc
      BY <1>13 DEF WakeUp, TaskRecords
    <2>2. QED
      BY <1>3, <1>13, <2>1 DEF WakeUp
  <1>14. ASSUME NEW t \in Tasks, NEW k \in Keys, NEW recent \in BOOLEAN, Ask(t, k, recent) PROVE Quiet
    <2>1. [IdleTask EXCEPT !.pc = "lookup", !.key = k, !.recent = recent].pc = "lookup"
      BY DEF IdleTask
    <2>2. QED
      BY <1>2, <1>14, <2>1 DEF Ask
  <1>15. ASSUME NEW t \in Tasks, FetchDirectly(t) PROVE Quiet
    <2>1. [IdleTask EXCEPT !.pc = IF token = "fresh" THEN "request" ELSE "refresh"].pc # "authenticate"
      BY DEF IdleTask
    <2>2. QED
      BY <1>2, <1>15, <2>1 DEF FetchDirectly
  <1>16. ASSUME UNCHANGED task, UNCHANGED token \/ token' = "none" PROVE Quiet
    BY <1>16 DEF Quiet
  <1>17. ASSUME \/ \E k \in Keys : Forget(k) \/ TruthChanges(k)
                \/ TokenAges \/ NewGlobalWindow
                \/ \E a \in Accounts : NewAccountWindow(a)
         PROVE  Quiet
    <2>1. ASSUME NEW k \in Keys, Forget(k) \/ TruthChanges(k) PROVE Quiet
      BY <1>16, <2>1 DEF Forget, TruthChanges
    <2>2. ASSUME NEW a \in Accounts, NewAccountWindow(a) PROVE Quiet
      BY <1>16, <2>2 DEF NewAccountWindow
    <2>3. CASE TokenAges
      BY <1>16, <2>3 DEF TokenAges
    <2>4. CASE NewGlobalWindow
      BY <1>16, <2>4 DEF NewGlobalWindow
    <2>5. QED
      BY <1>17, <2>1, <2>2, <2>3, <2>4
  <1>18. ASSUME UNCHANGED vars PROVE Quiet
    BY <1>16, <1>18 DEF vars
  <1>19. ASSUME NEW t \in Tasks, Step(t) PROVE NoNeedlessAuthentication'
    BY <1>1, <1>6, <1>7, <1>8, <1>9, <1>10, <1>11, <1>12, <1>13, <1>19 DEF Step
  <1>20. QED
    BY <1>1, <1>14, <1>15, <1>17, <1>18, <1>19 DEF Next

\* A token is renewed by one task at a time, and only while none is usable: a
\* task that waited for the refresh gate looks again (ensure_cached_token).
THEOREM TokenIsRefreshedOnce == Spec => []NoNeedlessAuthentication
  <1>1. Init => NoNeedlessAuthentication
    BY DEF Init, IdleTask, NoNeedlessAuthentication
  <1>2. QED
    BY <1>1, Invariance, AuthenticationStep, PTL DEF Spec

-----------------------------------------------------------------------------
(* Recent checks.                                                          *)

\* A check that has had an answer, or for which an entry was stored since it
\* noted the moment: whoever now looks its key up began after it was asked.
Informed(u) == task[u].attempt >= 2 \/ task[u].newer \/ task[u].pc = "sleep"

\* The "no"s that a recent check may still get were true since it was asked.
Pending(u) ==
    /\ task[u].key \in Keys /\ truth[task[u].key] \in seen[u]
    /\ task[u].pc = "store" /\ task[u].value = "no" => "no" \in seen[u]
    /\ Informed(u) =>
           \A s \in Tasks :
               (/\ s # u /\ task[s].pc = "store"
                /\ task[s].key = task[u].key /\ task[s].value = "no") => "no" \in seen[u]
    /\ (/\ task[u].newer /\ task[u].attempt >= 2
        /\ task[u].pc \in {"lookup", "gate"} /\ cache[task[u].key] = "no") => "no" \in seen[u]
    /\ task[u].pc = "sleep" => ~task[u].newer

Judged(u) ==
    /\ task[u].recent /\ task[u].pc \notin Resting => Pending(u)
    /\ task[u].pc = "answered" /\ task[u].value = "no" => "no" \in seen[u]

Recent == \A u \in Tasks : Judged(u)

\* A step that neither moves u nor lets anyone have an answer to store.
LEMMA Bystander ==
  ASSUME NEW u \in Tasks, Judged(u),
         task'[u] = task[u], seen'[u] = seen[u], UNCHANGED <<truth, cache>>,
         \A s \in Tasks : task'[s].pc = "store" => task'[s] = task[s]
  PROVE  Judged(u)'
  BY DEF Judged, Pending, Informed

\* A task that ends without an answer.
LEMMA Resets ==
  ASSUME IInv, Recent, NEW t \in Tasks, NEW r,
         task' = [task EXCEPT ![t] = r], ~r.recent, r.pc \notin {"answered", "store"},
         \A u \in Tasks \ {t} : seen'[u] = seen[u], UNCHANGED <<truth, cache>>
  PROVE  Recent'
  <1>1. /\ task'[t] = r
        /\ \A s \in Tasks \ {t} : task'[s] = task[s]
    BY DEF IInv, TypeOK
  <1>2. Judged(t)'
    BY <1>1 DEF Judged
  <1>3. ASSUME NEW u \in Tasks \ {t} PROVE Judged(u)'
    BY <1>1, Bystander DEF Recent
  <1>4. QED
    BY <1>2, <1>3 DEF Recent

\* A lookup that ends in an error.
LEMMA FailIsRecent ==
  ASSUME IInv, Recent, NEW t \in Tasks, Fail(t), UNCHANGED <<truth, cache, seen>>
  PROVE  Recent'
  <1>1. ~IdleTask.recent /\ IdleTask.pc = "idle"
    BY DEF IdleTask
  <1>2. task' = [task EXCEPT ![t] = IdleTask]
    BY DEF Fail
  <1>3. \A u \in Tasks \ {t} : seen'[u] = seen[u]
    OBVIOUS
  <1>4. IdleTask.pc \notin {"answered", "store"}
    BY <1>1
  <1>5. QED
    BY <1>1, <1>2, <1>3, <1>4, Resets

\* A task that goes on, of whose check only the place changes.
LEMMA Proceeds ==
  ASSUME IInv, Recent, NEW t \in Tasks,
         \A s \in Tasks \ {t} : task'[s] = task[s], UNCHANGED <<truth, cache, seen>>,
         task[t].pc \notin Resting \cup {"sleep"},
         task'[t].pc \notin Resting \cup {"sleep", "store"},
         task'[t].key = task[t].key, task'[t].recent = task[t].recent,
         task'[t].attempt = task[t].attempt,
         task'[t].newer => task[t].newer /\ task[t].pc \in {"lookup", "gate"}
  PROVE  Recent'
  <1>1. Judged(t)'
    BY DEF Recent, Judged, Pending, Informed, Resting
  <1>2. ASSUME NEW u \in Tasks \ {t} PROVE Judged(u)'
    BY Bystander DEF Recent
  <1>3. QED
    BY <1>1, <1>2 DEF Recent

\* An answer from the cache: a "no" was stored since the check's last moment.
LEMMA CachedIsRecent ==
  ASSUME IInv, Recent, NEW t \in Tasks, task[t].pc \in {"lookup", "gate"}, Cached(t),
         Return(t, cache[task[t].key]), UNCHANGED <<truth, cache, seen>>
  PROVE  Recent'
  <1> USE NadeoAssumption
  <1> DEFINE v == cache[task[t].key]
             r == After(t, v)
  <1>1. v \in Answers
    BY DEF Cached, Answers
  <1>2. /\ r.pc \in {"idle", "answered", "sleep"}
        /\ r.pc = "sleep" =>
                /\ v = "no" /\ r.recent /\ task[t].recent
                /\ r.key = task[t].key
                /\ ~r.newer
        /\ r.pc = "answered" =>
                /\ task[t].recent /\ r.value = v
                /\ v = "no" => task[t].attempt = RecentAttempts
    BY <1>1, AfterType DEF IInv
  <1>3. v = "no" /\ task[t].recent => task[t].newer
    BY DEF Cached
  <1>4. task' = [task EXCEPT ![t] = r]
    BY DEF Return
  <1>5. /\ task'[t] = r
        /\ \A s \in Tasks \ {t} : task'[s] = task[s]
    BY <1>4 DEF IInv, TypeOK
  <1>6. task[t].recent => Pending(t)
    BY DEF Recent, Judged, Resting
  <1>7. r.pc = "answered" /\ r.value = "no" => "no" \in seen[t]
    BY <1>2, <1>3, <1>6 DEF Pending
  <1>8. r.pc = "sleep" => Pending(t)'
    BY <1>2, <1>3, <1>5, <1>6 DEF Pending, Informed
  <1>9. Judged(t)'
    BY <1>2, <1>5, <1>7, <1>8 DEF Judged, Resting
  <1>10. ASSUME NEW u \in Tasks \ {t} PROVE Judged(u)'
    BY <1>2, <1>5, Bystander DEF Recent
  <1>11. QED
    BY <1>9, <1>10 DEF Recent

\* An answer that arrives: nobody else is looking the key up, so whoever stores
\* it next asks Nadeo later.
LEMMA StoredIsRecent ==
  ASSUME IInv, Recent, NEW t \in Tasks, Store(t)
  PROVE  Recent'
  <1> USE NadeoAssumption
  <1> DEFINE k == task[t].key
             v == task[t].value
  <1>1. /\ v \in Answers /\ task[t].pc = "store" /\ k \in Keys
        /\ cache' = [cache EXCEPT ![k] = v] /\ UNCHANGED <<truth, seen>>
    BY DEF IInv, TypeOK, WellFormed, TaskRecords, Store
  <1>2. ASSUME NEW s \in Tasks, s # t, task[s].pc = "store" PROVE task[s].key # k
    BY <1>1, <1>2, OneFlight DEF SingleFlight, Fetching
  <1>3. /\ task'[t].pc \in {"idle", "answered", "sleep"}
        /\ task'[t].pc = "sleep" =>
                /\ task'[t].recent /\ task[t].recent
                /\ task'[t].key = k /\ ~task'[t].newer
        /\ task'[t].pc = "answered" => task[t].recent /\ task'[t].value = v
    BY <1>1, StoreShape, AfterType DEF IInv
  <1>4. task[t].recent => Pending(t)
    BY <1>1 DEF Recent, Judged, Resting
  <1>5. \A s \in Tasks : task'[s].pc = "store" =>
            s # t /\ task[s].pc = "store" /\ task'[s].key = task[s].key /\ task'[s].value = task[s].value
    BY <1>3, StoreShape
  <1>6. Judged(t)'
    BY <1>1, <1>2, <1>3, <1>4, <1>5 DEF Judged, Pending, Resting
  <1>7. ASSUME NEW u \in Tasks \ {t} PROVE Judged(u)'
    <2>1. /\ task'[u].pc = task[u].pc /\ task'[u].key = task[u].key
          /\ task'[u].recent = task[u].recent
          /\ task'[u].attempt = task[u].attempt /\ task'[u].value = task[u].value
          /\ task'[u].newer # task[u].newer =>
                 task[u].key = k /\ task[u].pc \in {"lookup", "gate"}
      BY StoreShape
    <2>2. Judged(u)
      BY DEF Recent
    <2>3. ASSUME Pending(u), task[u].recent, task[u].pc \notin Resting PROVE Pending(u)'
      <3>1. Informed(u)' => Informed(u) \/ task[u].key = k
        BY <2>1 DEF Informed
      <3>2. ASSUME Informed(u)', NEW s \in Tasks, s # u, task'[s].pc = "store",
                   task'[s].key = task'[u].key, task'[s].value = "no"
            PROVE  "no" \in seen'[u]
        BY <1>1, <1>2, <1>5, <2>1, <2>3, <3>1, <3>2 DEF Pending
      <3>3. ASSUME task'[u].newer, task'[u].attempt >= 2, task'[u].pc \in {"lookup", "gate"},
                   cache'[task'[u].key] = "no"
            PROVE  "no" \in seen'[u]
        <4>1. CASE task[u].key = k
          BY <1>1, <2>1, <2>3, <3>3, <4>1 DEF Pending, Informed, IInv, TypeOK
        <4>2. CASE task[u].key # k
          BY <1>1, <2>1, <2>3, <3>3, <4>2 DEF Pending, IInv, TypeOK
        <4>3. QED
          BY <4>1, <4>2
      <3>4. task'[u].pc = "sleep" => ~task'[u].newer
        BY <2>1, <2>3 DEF Pending
      <3>5. QED
        BY <1>1, <2>1, <2>3, <3>2, <3>3, <3>4 DEF Pending
    <2>4. QED
      BY <1>1, <2>1, <2>2, <2>3 DEF Judged
  <1>8. QED
    BY <1>6, <1>7 DEF Recent

\* What Nadeo reads for one is what every check of the key has seen.
LEMMA ReadIsRecent ==
  ASSUME IInv, Recent, NEW t \in Tasks, NadeoReads(t)
  PROVE  Recent'
  <1>1. CASE Fail(t)
    BY <1>1, FailIsRecent DEF NadeoReads
  <1>2. CASE /\ task[t].key # Nil
             /\ task' = [task EXCEPT ![t].pc = "store", ![t].tries = 1,
                                     ![t].value = truth[task[t].key]]
    <2>1. /\ task'[t].pc = "store" /\ task'[t].key = task[t].key
          /\ task'[t].recent = task[t].recent /\ task'[t].attempt = task[t].attempt
          /\ task'[t].newer = task[t].newer /\ task'[t].value = truth[task[t].key]
          /\ \A s \in Tasks \ {t} : task'[s] = task[s]
      BY <1>2 DEF IInv, TypeOK, TaskRecords
    <2>2. task[t].pc = "request" /\ UNCHANGED <<truth, cache, seen>>
      BY DEF NadeoReads
    <2>3. Judged(t)'
      BY <2>1, <2>2 DEF Recent, Judged, Pending, Informed, Resting
    <2>4. ASSUME NEW u \in Tasks \ {t} PROVE Judged(u)'
      <3>1. Judged(u) /\ task'[u] = task[u]
        BY <2>1 DEF Recent
      <3>2. \A s \in Tasks : task'[s].pc = "store" /\ task'[s].key = task[u].key =>
                 task'[s] = task[s] \/ task'[s].value = truth[task[u].key]
        BY <2>1
      <3>3. QED
        BY <2>2, <3>1, <3>2 DEF Judged, Pending, Informed
    <2>5. QED
      BY <2>3, <2>4 DEF Recent
  <1>3. QED
    BY <1>1, <1>2 DEF NadeoReads

\* A check that begins, and one that tries again.
LEMMA BeginningIsRecent ==
  ASSUME IInv, Recent, NEW t \in Tasks,
         \/ \E k \in Keys, recent \in BOOLEAN : Ask(t, k, recent)
         \/ FetchDirectly(t) \/ WakeUp(t)
  PROVE  Recent'
  <1>1. ASSUME NEW k \in Keys, NEW recent \in BOOLEAN, Ask(t, k, recent) PROVE Recent'
    <2> DEFINE r == [IdleTask EXCEPT !.pc = "lookup", !.key = k, !.recent = recent]
    <2>1. /\ r.pc = "lookup" /\ r.key = k /\ r.attempt = 1 /\ ~r.newer
          /\ r.recent = recent
      BY DEF IdleTask
    <2>2. task' = [task EXCEPT ![t] = r]
      BY <1>1 DEF Ask
    <2> HIDE DEF r
    <2>3. task'[t] = r /\ \A s \in Tasks \ {t} : task'[s] = task[s]
      BY <2>2 DEF IInv, TypeOK
    <2>4. /\ UNCHANGED <<truth, cache>>
          /\ seen'[t] = IF recent THEN {truth[k]} ELSE {}
          /\ \A s \in Tasks \ {t} : seen'[s] = seen[s]
      BY <1>1 DEF Ask, IInv, TypeOK
    <2>5. Judged(t)'
      BY <2>1, <2>3, <2>4 DEF Judged, Pending, Informed, Resting
    <2>6. ASSUME NEW u \in Tasks \ {t} PROVE Judged(u)'
      BY <2>1, <2>3, <2>4, Bystander DEF Recent
    <2>7. QED
      BY <2>5, <2>6 DEF Recent
  <1>2. CASE FetchDirectly(t)
    <2> DEFINE r == [IdleTask EXCEPT !.pc = IF token = "fresh" THEN "request" ELSE "refresh"]
    <2>1. ~r.recent /\ r.pc \notin {"answered", "store"}
      BY DEF IdleTask
    <2>2. /\ task' = [task EXCEPT ![t] = r]
          /\ \A u \in Tasks \ {t} : seen'[u] = seen[u]
          /\ UNCHANGED <<truth, cache>>
      BY <1>2 DEF FetchDirectly, IInv, TypeOK
    <2> HIDE DEF r
    <2>3. QED
      BY <2>1, <2>2, Resets
  <1>3. CASE WakeUp(t)
    <2>1. /\ task'[t].pc = "lookup" /\ task'[t].key = task[t].key
          /\ task'[t].recent = task[t].recent /\ task'[t].newer = task[t].newer
          /\ \A s \in Tasks \ {t} : task'[s] = task[s]
      BY <1>3 DEF WakeUp, IInv, TypeOK, TaskRecords
    <2>2. /\ task[t].pc = "sleep" /\ UNCHANGED <<truth, cache, seen>>
          /\ task[t].recent
      BY <1>3 DEF WakeUp, IInv, WellFormed
    <2>3. Judged(t)'
      BY <2>1, <2>2 DEF Recent, Judged, Pending, Informed, Resting
    <2>4. ASSUME NEW u \in Tasks \ {t} PROVE Judged(u)'
      BY <2>1, <2>2, Bystander DEF Recent
    <2>5. QED
      BY <2>3, <2>4 DEF Recent
  <1>4. QED
    BY <1>1, <1>2, <1>3

\* The other steps of a lookup.
LEMMA GoingOnIsRecent ==
  ASSUME IInv, Recent, NEW t \in Tasks,
         \/ Lookup(t) \/ TakeGate(t) \/ TakePermit(t) \/ TakeRefresh(t)
         \/ Authenticated(t) \/ RequestFails(t)
  PROVE  Recent'
  <1>1. UNCHANGED <<truth, cache, seen>>
    BY DEF Lookup, TakeGate, TakePermit, TakeRefresh, Authenticated, RequestFails
  <1>2. CASE Fail(t)
    BY <1>1, <1>2, FailIsRecent
  <1>3. CASE (Lookup(t) \/ TakeGate(t)) /\ Cached(t) /\ Return(t, cache[task[t].key])
    BY <1>1, <1>3, CachedIsRecent DEF Lookup, TakeGate
  <1>4. ASSUME Lookup(t), NEW g, task' = [task EXCEPT ![t].pc = "gate", ![t].gate = g]
        PROVE  Recent'
    <2>1. /\ task'[t].pc = "gate" /\ task'[t].key = task[t].key
          /\ task'[t].recent = task[t].recent /\ task'[t].newer = task[t].newer
          /\ task'[t].attempt = task[t].attempt
          /\ \A s \in Tasks \ {t} : task'[s] = task[s]
      BY <1>4 DEF IInv, TypeOK, TaskRecords
    <2>2. QED
      BY <1>1, <1>4, <2>1, Proceeds DEF Lookup, Resting
  <1>5. CASE TakeGate(t) /\ task' = [task EXCEPT ![t].pc = "permit", ![t].newer = FALSE]
    <2>1. /\ task'[t].pc = "permit" /\ task'[t].key = task[t].key
          /\ task'[t].recent = task[t].recent /\ ~task'[t].newer
          /\ task'[t].attempt = task[t].attempt
          /\ \A s \in Tasks \ {t} : task'[s] = task[s]
      BY <1>5 DEF IInv, TypeOK, TaskRecords
    <2>2. QED
      BY <1>1, <1>5, <2>1, Proceeds DEF TakeGate, Resting
  <1>6. ASSUME NEW r, task' = [task EXCEPT ![t] = r],
               task[t].pc \in {"permit", "refresh", "request", "authenticate"},
               r.pc \in {"permit", "refresh", "request", "authenticate"},
               r.key = task[t].key, r.recent = task[t].recent, r.newer = task[t].newer,
               r.attempt = task[t].attempt
        PROVE  Recent'
    <2>1. task'[t] = r /\ \A s \in Tasks \ {t} : task'[s] = task[s]
      BY <1>6 DEF IInv, TypeOK
    <2>2. Judged(t)'
      BY <1>1, <1>6, <2>1 DEF Recent, Judged, Pending, Informed, Resting
    <2>3. ASSUME NEW u \in Tasks \ {t} PROVE Judged(u)'
      BY <1>1, <1>6, <2>1, Bystander DEF Recent
    <2>4. QED
      BY <2>2, <2>3 DEF Recent
  <1>7. CASE Lookup(t) \/ TakeGate(t)
    BY <1>2, <1>3, <1>4, <1>5, <1>7 DEF Lookup, TakeGate, FindGate
  <1>8. CASE TakePermit(t) \/ TakeRefresh(t)
    <2>1. PICK pc \in {"refresh", "request", "authenticate"} : Goto(t, pc)
      BY <1>8 DEF TakePermit, TakeRefresh
    <2>2. task[t].pc \in {"permit", "refresh"}
      BY <1>8 DEF TakePermit, TakeRefresh
    <2> DEFINE r == [task[t] EXCEPT !.pc = pc]
    <2>3. /\ r.pc = pc /\ r.key = task[t].key /\ r.recent = task[t].recent
          /\ r.newer = task[t].newer /\ r.attempt = task[t].attempt
      BY DEF IInv, TypeOK, TaskRecords
    <2>4. task' = [task EXCEPT ![t] = r]
      BY <2>1 DEF Goto
    <2> HIDE DEF r
    <2>5. QED
      BY <1>6, <2>2, <2>3, <2>4
  <1>9. CASE Authenticated(t)
    <2> DEFINE r == [task[t] EXCEPT !.pc = "request", !.tries = 1]
    <2>1. /\ r.pc = "request" /\ r.key = task[t].key /\ r.recent = task[t].recent
          /\ r.newer = task[t].newer /\ r.attempt = task[t].attempt
      BY DEF IInv, TypeOK, TaskRecords
    <2>2. task[t].pc = "authenticate" /\ task' = [task EXCEPT ![t] = r]
      BY <1>9 DEF Authenticated
    <2> HIDE DEF r
    <2>3. QED
      BY <1>6, <2>1, <2>2
  <1>10. CASE RequestFails(t)
    <2>1. CASE task' = [task EXCEPT ![t].tries = @ + 1]
      <3> DEFINE r == [task[t] EXCEPT !.tries = @ + 1]
      <3>1. /\ r.pc = task[t].pc /\ r.key = task[t].key /\ r.recent = task[t].recent
            /\ r.newer = task[t].newer /\ r.attempt = task[t].attempt
        BY DEF IInv, TypeOK, TaskRecords
      <3>2. task[t].pc \in {"request", "authenticate"} /\ task' = [task EXCEPT ![t] = r]
        BY <1>10, <2>1 DEF RequestFails, Requesting
      <3> HIDE DEF r
      <3>3. QED
        BY <1>6, <3>1, <3>2
    <2>2. QED
      BY <1>2, <1>10, <2>1 DEF RequestFails
  <1>11. QED
    BY <1>7, <1>8, <1>9, <1>10

\* What is seen only grows, and an entry is only forgotten.
LEMMA WorldIsRecent ==
  ASSUME IInv, Recent,
         \/ \E k \in Keys : Forget(k) \/ TruthChanges(k)
         \/ TokenAges \/ NewGlobalWindow
         \/ \E a \in Accounts : NewAccountWindow(a)
         \/ UNCHANGED vars
  PROVE  Recent'
  <1>1. ASSUME NEW k \in Keys, Forget(k) PROVE Recent'
    <2>1. /\ UNCHANGED <<truth, task, seen>>
          /\ \A j \in Keys : cache'[j] \in {cache[j], "none"}
      BY <1>1 DEF Forget, IInv, TypeOK
    <2>2. QED
      BY <2>1 DEF Recent, Judged, Pending, Informed
  <1>2. ASSUME NEW k \in Keys, TruthChanges(k) PROVE Recent'
    <2>1. /\ UNCHANGED <<task, cache>>
          /\ \A j \in Keys \ {k} : truth'[j] = truth[j]
          /\ \A u \in Tasks :
                /\ "no" \in seen[u] => "no" \in seen'[u]
                /\ \A v \in seen[u] : v \in seen'[u]
                /\ (task[u].recent /\ task[u].key = k /\ task[u].pc \notin Resting)
                       => truth'[k] \in seen'[u]
      BY <1>2 DEF TruthChanges, IInv, TypeOK
    <2>2. QED
      BY <2>1 DEF Recent, Judged, Pending, Informed
  <1>3. ASSUME UNCHANGED <<truth, task, cache, seen>> PROVE Recent'
    BY <1>3 DEF Recent, Judged, Pending, Informed
  <1>4. ASSUME NEW a \in Accounts, NewAccountWindow(a) PROVE Recent'
    BY <1>3, <1>4 DEF NewAccountWindow
  <1>5. CASE TokenAges
    BY <1>3, <1>5 DEF TokenAges
  <1>6. CASE NewGlobalWindow
    BY <1>3, <1>6 DEF NewGlobalWindow
  <1>7. CASE UNCHANGED vars
    BY <1>3, <1>7 DEF vars
  <1>8. QED
    BY <1>1, <1>2, <1>4, <1>5, <1>6, <1>7

\* A recent check's "no" was true at some moment since it was asked: entries
\* stored before, and lookups already on their way, do not answer its last
\* attempt (has_recent_official_record).
THEOREM NoStaleNo == Spec => []RecentNoIsRecent
  <1>1. Init => Recent
    BY DEF Init, IdleTask, Recent, Judged, Resting
  <1>2. IInv /\ Recent /\ [Next]_vars => Recent'
    <2> SUFFICES ASSUME IInv, Recent, [Next]_vars PROVE Recent'
      OBVIOUS
    <2>1. ASSUME NEW t \in Tasks, Step(t) PROVE Recent'
      BY <2>1, BeginningIsRecent, GoingOnIsRecent, ReadIsRecent, StoredIsRecent DEF Step
    <2>2. QED
      BY <2>1, BeginningIsRecent, WorldIsRecent DEF Next
  <1>3. Recent => RecentNoIsRecent
    BY DEF Recent, Judged, RecentNoIsRecent
  <1>4. QED
    BY <1>1, <1>2, <1>3, Invariance, PTL DEF Spec
-----------------------------------------------------------------------------
(* That lookups return, without the scheduler: each step of a lookup takes *)
(* it nearer to its end.  Under fairness this is LookupsReturn, which TLC  *)
(* checks.                                                                 *)

\* The places of a lookup in the order in which it comes to them.
Place == [lookup |-> 1, gate |-> 2, permit |-> 3, refresh |-> 4, authenticate |-> 5,
          request |-> 6, store |-> 7, sleep |-> 8]

\* The lookup r is where the lookup q comes to later: at rest, in a later attempt
\* of the same check, further on in the same attempt, or at a later try of the
\* same request.
Further(r, q) ==
    \/ r.pc \in Resting
    \/ /\ r.key = q.key /\ r.recent = q.recent
       /\ \/ r.attempt > q.attempt
          \/ r.attempt = q.attempt /\ Place[r.pc] > Place[q.pc]
          \/ r.attempt = q.attempt /\ r.pc = q.pc /\ r.tries > q.tries

\* Nobody sends a lookup back: whatever else happens it stays where it is, and
\* its own steps lead on, through at most RecentAttempts attempts of eight places
\* and RetryAttempts tries each.  No token that runs out between its refresh and
\* its use, no evicted gate and no refused request makes it start over.
LookupsGetOn ==
    [][\A t \in Tasks : task[t].pc \notin Resting =>
           /\ Step(t) => Further(task'[t], task[t])
           /\ ~Step(t) => /\ task'[t].pc = task[t].pc /\ task'[t].key = task[t].key
                          /\ task'[t].recent = task[t].recent
                          /\ task'[t].attempt = task[t].attempt
                          /\ task'[t].tries = task[t].tries]_vars

\* A lookup that fails has ended, and one that has its answer has ended or sleeps
\* until the next attempt of its check.
LEMMA EndsAreFurther ==
  ASSUME IInv, NEW t \in Tasks, NEW v \in Answers
  PROVE  /\ Fail(t) => Further(task'[t], task[t])
         /\ task'[t] = After(t, v) /\ task[t].pc \in {"lookup", "gate", "store"}
               => Further(task'[t], task[t])
  <1>0. task \in [Tasks -> TaskRecords]
    BY DEF IInv, TypeOK
  <1>1. ASSUME Fail(t) PROVE Further(task'[t], task[t])
    BY <1>0, <1>1 DEF Fail, Further, IdleTask, Resting
  <1>2. ASSUME task'[t] = After(t, v), task[t].pc \in {"lookup", "gate", "store"}
        PROVE  Further(task'[t], task[t])
    <2>1. /\ task'[t].pc \in {"idle", "answered", "sleep"}
          /\ task'[t].pc = "sleep" =>
                 /\ task'[t].recent /\ task[t].recent /\ task'[t].key = task[t].key
                 /\ task'[t].attempt = task[t].attempt
      BY <1>2, AfterType DEF IInv
    <2>2. CASE task'[t].pc = "sleep"
      <3>1. task[t].recent = TRUE /\ task'[t].recent = TRUE
        <4>1. task[t].recent \in BOOLEAN
          BY <1>0 DEF TaskRecords
        <4>2. After(t, v).recent \in BOOLEAN
          BY AfterType DEF IInv, TaskRecords
        <4>3. QED
          BY <1>2, <2>1, <2>2, <4>1, <4>2
      <3>2. Place[task'[t].pc] > Place[task[t].pc]
        BY <1>2, <2>2 DEF Place
      <3>3. QED
        BY <2>1, <2>2, <3>1, <3>2 DEF Further
    <2>3. CASE task'[t].pc # "sleep"
      BY <2>1, <2>3 DEF Further, Resting
    <2>4. QED
      BY <2>2, <2>3
  <1>3. QED
    BY <1>1, <1>2

\* Every step of a lookup leads on.
LEMMA StepsAreFurther ==
  ASSUME IInv, NEW t \in Tasks, Step(t)
  PROVE  Further(task'[t], task[t])
  <1> USE NadeoAssumption
  <1>0. task \in [Tasks -> TaskRecords] /\ task[t].tries \in 1 .. RetryAttempts
        /\ task[t].attempt \in 1 .. RecentAttempts
    BY DEF IInv, TypeOK, TaskRecords
  <1>1. ASSUME NEW r, task' = [task EXCEPT ![t] = r], r.key = task[t].key,
               r.recent = task[t].recent, r.attempt = task[t].attempt,
               Place[r.pc] > Place[task[t].pc]
        PROVE  Further(task'[t], task[t])
    BY <1>0, <1>1 DEF Further
  <1>2. ASSUME NEW pc, Goto(t, pc), Place[pc] > Place[task[t].pc]
        PROVE  Further(task'[t], task[t])
    <2> DEFINE r == [task[t] EXCEPT !.pc = pc]
    <2>1. /\ r.key = task[t].key /\ r.recent = task[t].recent
          /\ r.attempt = task[t].attempt /\ r.pc = pc
      BY <1>0 DEF TaskRecords
    <2>2. task' = [task EXCEPT ![t] = r]
      BY <1>2 DEF Goto
    <2> HIDE DEF r
    <2>3. QED
      BY <1>1, <1>2, <2>1, <2>2
  <1>3. CASE WakeUp(t)
    <2>1. task'[t].attempt = task[t].attempt + 1 /\ task'[t].key = task[t].key
          /\ task'[t].recent = task[t].recent
      BY <1>0, <1>3 DEF WakeUp, TaskRecords
    <2>2. QED
      BY <1>0, <2>1 DEF Further
  <1>4. CASE Lookup(t)
    <2>1. CASE Cached(t) /\ Return(t, cache[task[t].key])
      <3>1. cache[task[t].key] \in Answers
        BY <2>1 DEF Cached, Answers
      <3>2. task'[t] = After(t, cache[task[t].key])
        BY <1>0, <2>1 DEF Return
      <3>3. QED
        BY <1>4, <3>1, <3>2, EndsAreFurther DEF Lookup
    <2>2. ASSUME NEW g, task' = [task EXCEPT ![t].pc = "gate", ![t].gate = g], task[t].pc = "lookup"
          PROVE  Further(task'[t], task[t])
      <3> DEFINE r == [task[t] EXCEPT !.pc = "gate", !.gate = g]
      <3>1. /\ r.key = task[t].key /\ r.recent = task[t].recent
            /\ r.attempt = task[t].attempt /\ r.pc = "gate"
        BY <1>0 DEF TaskRecords
      <3>2. task' = [task EXCEPT ![t] = r]
        BY <2>2
      <3> HIDE DEF r
      <3>3. Place[r.pc] > Place[task[t].pc]
        BY <2>2, <3>1 DEF Place
      <3>4. QED
        BY <1>1, <3>1, <3>2, <3>3
    <2>3. CASE FindGate(t)
      <3>1. CASE Fail(t)
        BY <3>1, EndsAreFurther DEF Answers
      <3>2. CASE ~Fail(t)
        <4>1. \E g : task' = [task EXCEPT ![t].pc = "gate", ![t].gate = g]
          BY <2>3, <3>2 DEF FindGate
        <4>2. QED
          BY <1>4, <2>2, <4>1 DEF Lookup
      <3>3. QED
        BY <3>1, <3>2
    <2>4. QED
      BY <1>4, <2>1, <2>3 DEF Lookup
  <1>5. CASE TakeGate(t)
    <2>1. CASE Cached(t) /\ Return(t, cache[task[t].key])
      <3>1. cache[task[t].key] \in Answers
        BY <2>1 DEF Cached, Answers
      <3>2. task'[t] = After(t, cache[task[t].key])
        BY <1>0, <2>1 DEF Return
      <3>3. QED
        BY <1>5, <3>1, <3>2, EndsAreFurther DEF TakeGate
    <2>2. CASE Fail(t)
      BY <2>2, EndsAreFurther DEF Answers
    <2>3. CASE task' = [task EXCEPT ![t].pc = "permit", ![t].newer = FALSE]
      <3> DEFINE r == [task[t] EXCEPT !.pc = "permit", !.newer = FALSE]
      <3>1. /\ r.key = task[t].key /\ r.recent = task[t].recent
            /\ r.attempt = task[t].attempt /\ r.pc = "permit"
        BY <1>0 DEF TaskRecords
      <3>2. task' = [task EXCEPT ![t] = r]
        BY <2>3
      <3> HIDE DEF r
      <3>3. Place[r.pc] > Place[task[t].pc]
        BY <1>5, <3>1 DEF Place, TakeGate
      <3>4. QED
        BY <1>1, <3>1, <3>2, <3>3
    <2>4. QED
      BY <1>5, <2>1, <2>2, <2>3 DEF TakeGate
  <1>6. CASE TakePermit(t) \/ TakeRefresh(t)
    <2>1. PICK pc \in {"refresh", "authenticate", "request"} :
             Goto(t, pc) /\ Place[pc] > Place[task[t].pc]
      BY <1>6 DEF TakePermit, TakeRefresh, Place
    <2>2. QED
      BY <1>2, <2>1
  <1>7. CASE Authenticated(t)
    <2> DEFINE r == [task[t] EXCEPT !.pc = "request", !.tries = 1]
    <2>1. /\ r.key = task[t].key /\ r.recent = task[t].recent
          /\ r.attempt = task[t].attempt /\ r.pc = "request"
      BY <1>0 DEF TaskRecords
    <2>2. task' = [task EXCEPT ![t] = r]
      BY <1>7 DEF Authenticated
    <2> HIDE DEF r
    <2>3. Place[r.pc] > Place[task[t].pc]
      BY <1>7, <2>1 DEF Place, Authenticated
    <2>4. QED
      BY <1>1, <2>1, <2>2, <2>3
  <1>8. CASE RequestFails(t)
    <2>1. CASE Fail(t)
      BY <2>1, EndsAreFurther DEF Answers
    <2>2. CASE task' = [task EXCEPT ![t].tries = @ + 1]
      <3>1. /\ task'[t].tries = task[t].tries + 1 /\ task'[t].key = task[t].key
            /\ task'[t].recent = task[t].recent /\ task'[t].attempt = task[t].attempt
            /\ task'[t].pc = task[t].pc
        BY <1>0, <2>2 DEF TaskRecords
      <3>2. QED
        BY <1>0, <3>1 DEF Further
    <2>3. QED
      BY <1>8, <2>1, <2>2 DEF RequestFails
  <1>9. CASE NadeoReads(t)
    <2>1. CASE Fail(t)
      BY <2>1, EndsAreFurther DEF Answers
    <2>2. CASE ~Fail(t)
      <3> DEFINE r == [task[t] EXCEPT !.pc = "store", !.tries = 1, !.value = truth[task[t].key]]
      <3>1. /\ r.key = task[t].key /\ r.recent = task[t].recent
            /\ r.attempt = task[t].attempt /\ r.pc = "store"
        BY <1>0 DEF TaskRecords
      <3>2. task' = [task EXCEPT ![t] = r]
        BY <1>9, <2>2 DEF NadeoReads
      <3> HIDE DEF r
      <3>3. Place[r.pc] > Place[task[t].pc]
        BY <1>9, <3>1 DEF Place, NadeoReads
      <3>4. QED
        BY <1>1, <3>1, <3>2, <3>3
    <2>3. QED
      BY <2>1, <2>2
  <1>10. CASE Store(t)
    <2>1. task[t].value \in Answers /\ task[t].pc = "store"
      BY <1>0, <1>10 DEF Store, TaskRecords
    <2>2. QED
      BY <1>10, <2>1, StoreShape, EndsAreFurther
  <1>11. QED
    BY <1>3, <1>4, <1>5, <1>6, <1>7, <1>8, <1>9, <1>10 DEF Step

\* What others do leaves a lookup where it is.
LEMMA OthersStay ==
  ASSUME IInv, [Next]_vars, NEW t \in Tasks, task[t].pc \notin Resting, ~Step(t)
  PROVE  /\ task'[t].pc = task[t].pc /\ task'[t].key = task[t].key
         /\ task'[t].recent = task[t].recent /\ task'[t].attempt = task[t].attempt
         /\ task'[t].tries = task[t].tries
  <1>0. task \in [Tasks -> TaskRecords]
    BY DEF IInv, TypeOK
  <1>1. ASSUME NEW s \in Tasks \ {t}, Store(s)
        PROVE  /\ task'[t].pc = task[t].pc /\ task'[t].key = task[t].key
               /\ task'[t].recent = task[t].recent /\ task'[t].attempt = task[t].attempt
               /\ task'[t].tries = task[t].tries
    BY <1>1, StoreShape
  <1>2. ASSUME NEW s \in Tasks \ {t}, Step(s), ~Store(s) PROVE task'[t] = task[t]
    <2>1. CASE WakeUp(s)
      BY <1>0, <2>1 DEF WakeUp
    <2>2. CASE Lookup(s)
      BY <1>0, <2>2 DEF Lookup, FindGate, Return, Fail
    <2>3. CASE TakeGate(s)
      BY <1>0, <2>3 DEF TakeGate, Return, Fail
    <2>4. CASE TakePermit(s) \/ TakeRefresh(s)
      BY <1>0, <2>4 DEF TakePermit, TakeRefresh, Goto
    <2>5. CASE Authenticated(s)
      BY <1>0, <2>5 DEF Authenticated
    <2>6. CASE RequestFails(s)
      BY <1>0, <2>6 DEF RequestFails, Fail
    <2>7. CASE NadeoReads(s)
      BY <1>0, <2>7 DEF NadeoReads, Fail
    <2>8. QED
      BY <1>2, <2>1, <2>2, <2>3, <2>4, <2>5, <2>6, <2>7 DEF Step
  <1>3. ASSUME NEW s \in Tasks, FetchDirectly(s) \/ \E k \in Keys, recent \in BOOLEAN : Ask(s, k, recent)
        PROVE  task'[t] = task[t]
    BY <1>0, <1>3 DEF FetchDirectly, Ask
  <1>4. CASE \/ \E k \in Keys : Forget(k) \/ TruthChanges(k)
             \/ TokenAges \/ NewGlobalWindow
             \/ \E a \in Accounts : NewAccountWindow(a)
             \/ UNCHANGED vars
    BY <1>4 DEF Forget, TruthChanges, TokenAges, NewGlobalWindow, NewAccountWindow, vars
  <1>5. QED
    BY <1>1, <1>2, <1>3, <1>4 DEF Next

\* A lookup's own steps lead on to its end and nobody sends it back, for any
\* number of tasks, keys, attempts and tries (lookup, ensure_cached_token,
\* send_with_retry, has_recent_official_record).
THEOREM LookupsComeToAnEnd == Spec => LookupsGetOn
  <1> DEFINE GetsOn == \A t \in Tasks : task[t].pc \notin Resting =>
           /\ Step(t) => Further(task'[t], task[t])
           /\ ~Step(t) => /\ task'[t].pc = task[t].pc /\ task'[t].key = task[t].key
                          /\ task'[t].recent = task[t].recent
                          /\ task'[t].attempt = task[t].attempt
                          /\ task'[t].tries = task[t].tries
  <1>1. IInv /\ [Next]_vars => [GetsOn]_vars
    BY StepsAreFurther, OthersStay
  <1> HIDE DEF GetsOn
  <1>2. Spec => [][GetsOn]_vars
    BY Invariance, <1>1, PTL DEF Spec
  <1>3. QED
    BY <1>2 DEF LookupsGetOn, GetsOn
-----------------------------------------------------------------------------
(* That no lookup waits for ever for others that wait: the locks in order. *)

\* The code makes a Mutex whenever it needs one; that there is always another is
\* all that is asked of the set of their identities.
EnoughGates == IsFiniteSet(Gates) => Cardinality(Gates) >= Cardinality(Keys)

Senders == {s \in Tasks : task[s].pc \in Sending /\ task[s].key # Nil}

\* What a lookup would wait for is free, or it waits for nothing.
CanGoOn(t) ==
    /\ task[t].pc = "lookup" => Cached(t) \/ gate[task[t].key] # Nil \/ NewGates # {}
    /\ task[t].pc = "gate" => \A s \in Tasks : task[s].gate = task[t].gate => task[s].pc \notin Fetching
    /\ task[t].pc = "permit" => Cardinality(Senders) < Concurrency
    /\ task[t].pc = "refresh" => \A s \in Tasks : task[s].pc # "authenticate"

\* Task s has what task t waits for: the key's gate, a permit, the refresh gate.
WaitsFor(t, s) ==
    \/ task[t].pc = "gate" /\ task[s].gate = task[t].gate /\ task[s].pc \in Fetching
    \/ task[t].pc = "permit" /\ s \in Senders
    \/ task[t].pc = "refresh" /\ task[s].pc = "authenticate"

\* A lookup that waits does so for others under way, all of which are further on
\* than itself, so no chain of waits is a circle; and while anything is under
\* way, something under way need not wait.
NoCircularWait ==
    /\ \A t \in Tasks : ~CanGoOn(t) =>
           /\ \E s \in Tasks : WaitsFor(t, s)
           /\ \A s \in Tasks : WaitsFor(t, s) =>
                  task[s].pc \notin Resting /\ Place[task[s].pc] > Place[task[t].pc]
    /\ (\E t \in Tasks : task[t].pc \notin Resting)
           => \E t \in Tasks : task[t].pc \notin Resting /\ CanGoOn(t)

\* A key that has no gate can be given one.
LEMMA GatesDoNotRunOut ==
  ASSUME IInv, EnoughGates, NEW k \in Keys, gate[k] = Nil
  PROVE  NewGates # {}
  <1> SUFFICES ASSUME NewGates = {} PROVE FALSE
    OBVIOUS
  <1> USE NadeoAssumption
  <1>1. gate \in [Keys -> Gates \cup {Nil}] /\ task \in [Tasks -> TaskRecords]
    BY DEF IInv, TypeOK
  <1>2. \A g \in Gates : \E j \in Registered : gate[j] = g
    <2> SUFFICES ASSUME NEW g \in Gates PROVE \E j \in Keys : gate[j] = g
      BY DEF Registered
    <2>1. g # Nil
      OBVIOUS
    <2>2. Held(g) \/ \E j \in Keys : gate[j] = g
      BY DEF NewGates
    <2>3. CASE Held(g)
      BY <2>1, <2>3 DEF Held, IInv, WellFormed
    <2>4. QED
      BY <2>2, <2>3
  <1>3. Registered \in SUBSET (Keys \ {k})
    BY DEF Registered
  <1>4. /\ IsFiniteSet(Keys \ {k}) /\ Cardinality(Keys \ {k}) = Cardinality(Keys) - 1
        /\ Cardinality(Keys) \in Nat
    BY FS_RemoveElement, FS_CardinalityType
  <1>5. IsFiniteSet(Registered) /\ Cardinality(Registered) <= Cardinality(Keys) - 1
        /\ Cardinality(Registered) \in Nat
    <2>1. IsFiniteSet(Registered) /\ Cardinality(Registered) <= Cardinality(Keys \ {k})
      BY <1>3, <1>4, FS_Subset
    <2>2. QED
      BY <1>4, <2>1, FS_CardinalityType
  <1>6. [j \in Registered |-> gate[j]] \in Surjection(Registered, Gates)
    BY <1>1, <1>2 DEF Surjection, Registered
  <1>7. IsFiniteSet(Gates) /\ Cardinality(Gates) <= Cardinality(Registered)
    BY <1>5, <1>6, FS_Surjection
  <1>8. Cardinality(Gates) \in Nat
    BY <1>7, FS_CardinalityType
  <1>9. QED
    BY <1>4, <1>5, <1>7, <1>8 DEF EnoughGates

\* Gate, permit and refresh gate are taken in this order, and the permit is one
\* of at least one.
LEMMA WaitsAreOrdered ==
  ASSUME IInv, EnoughGates
  PROVE  NoCircularWait
  <1> USE NadeoAssumption
  <1>1. task \in [Tasks -> TaskRecords]
    BY DEF IInv, TypeOK
  <1>2. ASSUME NEW t \in Tasks, task[t].pc = "lookup" PROVE CanGoOn(t)
    <2>1. task[t].key \in Keys
      BY <1>2 DEF IInv, WellFormed
    <2>2. QED
      BY <1>2, <2>1, GatesDoNotRunOut DEF CanGoOn
  <1>3. ASSUME Cardinality(Senders) >= Concurrency PROVE \E s \in Tasks : s \in Senders
    <2>1. Senders # {}
      BY <1>3, FS_EmptySet
    <2>2. QED
      BY <2>1 DEF Senders
  <1>4. Cardinality(Senders) \in Nat
    <2>1. IsFiniteSet(Senders)
      BY FS_Subset DEF Senders
    <2>2. QED
      BY <2>1, FS_CardinalityType
  <1>5. ASSUME NEW t \in Tasks, ~CanGoOn(t)
        PROVE  /\ \E s \in Tasks : WaitsFor(t, s)
               /\ \A s \in Tasks : WaitsFor(t, s) =>
                      task[s].pc \notin Resting /\ Place[task[s].pc] > Place[task[t].pc]
    <2>1. \E s \in Tasks : WaitsFor(t, s)
      BY <1>2, <1>3, <1>4, <1>5 DEF CanGoOn, WaitsFor
    <2>2. ASSUME NEW s \in Tasks, WaitsFor(t, s)
          PROVE  task[s].pc \notin Resting /\ Place[task[s].pc] > Place[task[t].pc]
      BY <2>2 DEF WaitsFor, Senders, Sending, Fetching, Resting, Place
    <2>3. QED
      BY <2>1, <2>2
  <1>6. ASSUME NEW t \in Tasks, task[t].pc \notin Resting
        PROVE  \E s \in Tasks : task[s].pc \notin Resting /\ CanGoOn(s)
    <2>1. ASSUME NEW s \in Tasks, task[s].pc \in {"authenticate", "request", "store"}
          PROVE  task[s].pc \notin Resting /\ CanGoOn(s)
      BY <2>1 DEF CanGoOn, Resting
    <2>2. ASSUME NEW s \in Tasks, task[s].pc = "refresh", \A r \in Tasks : task[r].pc # "authenticate"
          PROVE  task[s].pc \notin Resting /\ CanGoOn(s)
      BY <2>2 DEF CanGoOn, Resting
    <2>3. ASSUME NEW s \in Tasks, task[s].pc = "permit", \A r \in Tasks : task[r].pc \notin Sending
          PROVE  task[s].pc \notin Resting /\ CanGoOn(s)
      BY <1>3, <1>4, <2>3 DEF CanGoOn, Resting, Senders
    <2>4. ASSUME NEW s \in Tasks, task[s].pc = "gate", \A r \in Tasks : task[r].pc \notin Fetching
          PROVE  task[s].pc \notin Resting /\ CanGoOn(s)
      BY <2>4 DEF CanGoOn, Resting
    <2>5. CASE \E r \in Tasks : task[r].pc \in Fetching
      BY <2>1, <2>2, <2>3, <2>5 DEF Fetching, Sending
    <2>6. CASE \A r \in Tasks : task[r].pc \notin Fetching
      <3>1. task[t].pc \in {"gate", "lookup", "sleep"}
        BY <1>1, <1>6, <2>6 DEF TaskRecords, InLookup, Resting
      <3>2. QED
        BY <1>2, <1>6, <2>4, <2>6, <3>1 DEF CanGoOn
    <2>7. QED
      BY <2>5, <2>6
  <1>7. QED
    BY <1>5, <1>6 DEF NoCircularWait

\* However many tasks wait for gates, permits and the token at once, some lookup
\* under way waits for nobody (key_gate, outbound.acquire, ensure_cached_token).
THEOREM NobodyWaitsInACircle == EnoughGates /\ Spec => []NoCircularWait
  <1>1. EnoughGates /\ IInv => NoCircularWait
    BY WaitsAreOrdered
  <1>2. CASE EnoughGates
    BY <1>1, <1>2, Invariance, PTL
  <1>3. QED
    BY <1>2
=============================================================================
