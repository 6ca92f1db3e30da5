-------------------------- MODULE WayfinderProofs --------------------------
(***************************************************************************)
(* Proofs about WayfinderBinding for every set of users, maps, specs, hats *)
(* and jobs and for every bound.                                           *)
(*                                                                         *)
(* TypeInv says where each kind of job can be and what it knows there.     *)
(* Five invariants are inductive under it: AuthorityInv (who may bind),    *)
(* RowsInv (what a transaction has locked is what it writes), UnlockInv    *)
(* and WornIsBacked (hats), and BroadcastInv (what is shown).  The steps   *)
(* enter their proofs through summaries of what a step does to its job     *)
(* (StartEffect, MoveOnEffect, WriteEffect, HatEffect) and to the tables   *)
(* (RowWrites), each proved once.                                          *)
(*                                                                         *)
(* Two refinements follow from them, of MapAuthority and of HatWardrobe.   *)
(* That jobs end (JobsEnd) rests on fairness; it is proved that they do    *)
(* not wait for each other in a circle and that their steps run out.       *)
(***************************************************************************)
EXTENDS WayfinderBinding, FiniteSetTheorems, TLAPS

\* What a job's record holds, given its kind: where it can be, and which of
\* its fields are set by then.
Shape(r) ==
    /\ r.kind = "none" => r = NoJob
    /\ r.kind # "none" => r.pc # "idle"
    /\ r.kind = "bind" =>
           /\ r.pc \in {"prepare", "nadeo", "lock", "tx", "commit", "announce"}
           /\ r.user \in Users /\ r.map \in Maps /\ r.spec \in Specs
    /\ r.kind = "comment" =>
           /\ r.pc \in {"permit", "lock", "fetch", "tx", "commit", "announce"}
           /\ r.map \in Maps /\ (r.pc \in {"tx", "commit"} => r.spec \in Specs)
    /\ r.kind = "recheck" =>
           /\ r.pc \in {"fetch", "tx", "commit"}
           /\ r.map \in Maps /\ (r.pc \in {"tx", "commit"} => r.spec \in Specs)
    /\ r.kind = "unlock" =>
           /\ r.pc \in {"row", "judge", "grant"}
           /\ r.user \in Users /\ r.map \in Maps /\ r.spec \in Specs /\ r.slug \in Slugs
           /\ r.pc # "row" => r.proof \in Criteria
    /\ r.kind = "equip" =>
           r.pc \in {"lock", "equip", "announce"} /\ r.user \in Users /\ r.map \in Maps
    /\ r.kind = "move" =>
           r.pc \in {"lock", "join", "announce"} /\ r.user \in Users /\ r.map \in Maps
    /\ r.kind = "delete" =>
           r.pc \in {"check", "delete", "fkViolation"} /\ r.spec \in Specs

Shapes == \A j \in Jobs : Shape(job[j])

TypeInv == TypeOK /\ Shapes

\* The steps that write no row and broadcast nothing.
MoveOn(j) ==
    \/ Fail(j) \/ AcquirePermit(j) \/ AcquireMapLock(j) \/ PrepareBind(j) \/ VerifyAuthor(j)
    \/ BeginBindTx(j) \/ FetchComment(j) \/ ReadRow(j) \/ JudgeUnlock(j)
    \/ ReadJoinPush(j) \/ CheckBound(j) \/ ReportInternalError(j)

\* The steps that write rows or broadcast.
Write(j) ==
    \/ Announce(j) \/ CommitBind(j) \/ CommitComment(j) \/ GrantUnlock(j) \/ EquipHat(j)
    \/ DeleteSpec(j)

-----------------------------------------------------------------------------
(* Types.                                                                  *)

\* An empty slot is a job record.
LEMMA NoJobType == NoJob \in JobRecords /\ Shape(NoJob)
  <1>1. NoSpecRow \in SpecRows
    BY TablesAssumption DEF NoSpecRow, SpecRows
  <1>2. QED
    BY <1>1 DEF NoJob, JobRecords, Shape, Kinds

\* A server that has just started has well-typed state.
LEMMA InitTypeInv == Init => TypeInv
  <1> SUFFICES ASSUME Init PROVE TypeInv
    OBVIOUS
  <1> USE TablesAssumption, BindingAssumption
  <1>1. spec \in [Specs -> SpecRows] /\ (\A s \in Specs : spec[s].hats \in Catalogs \cup {NoCatalog})
    <2>1. SpecsUploaded
      BY DEF Init, TablesInit, TablesLegacyInit, TablesBoundInit
    <2>2. ASSUME NEW s \in Specs
          PROVE  spec[s] \in SpecRows /\ spec[s].hats \in Catalogs \cup {NoCatalog}
      <3>1. spec[s] = NoSpecRow \/ \E c \in Catalogs : spec[s] = [rev |-> 1, alive |-> TRUE, hats |-> c]
        BY <2>1 DEF SpecsUploaded
      <3>2. 0 \in 0 .. MaxRev /\ 1 \in 0 .. MaxRev
        OBVIOUS
      <3>3. CASE spec[s] = NoSpecRow
        BY <3>2, <3>3 DEF NoSpecRow, SpecRows
      <3>4. CASE \E c \in Catalogs : spec[s] = [rev |-> 1, alive |-> TRUE, hats |-> c]
        BY <3>2, <3>4 DEF SpecRows
      <3>5. QED
        BY <3>1, <3>3, <3>4
    <2>3. QED
      BY <2>1, <2>2 DEF SpecsUploaded
  <1>2. TablesTypeOK
    <2>1. CASE TablesInit
      BY <1>1, <2>1 DEF TablesInit, TablesTypeOK, NoBinding
    <2>2. CASE TablesLegacyInit
      BY <1>1, <2>2 DEF TablesLegacyInit, TablesTypeOK, NoBinding
    <2>3. CASE TablesBoundInit
      <3>1. PICK s \in Specs, m \in Maps, proved \in SUBSET Earned :
               /\ spec[s].alive /\ Owner[s] = NadeoAuthor[m]
               /\ bind = [n \in Maps |-> IF n = m THEN [spec |-> s, author |-> Owner[s], mat |-> 1]
                                         ELSE NoBinding]
               /\ onMap = [n \in Maps |-> IF n = m THEN spec[s].hats ELSE NoCatalog]
               /\ unlocked = [k \in Users \X Maps \X Slugs |->
                     IF k[2] = m /\ <<k[1], spec[s].hats[k[3]]>> \in proved
                     THEN spec[s].hats[k[3]] ELSE Nil]
               /\ equipped = [n \in Maps |-> [u \in Users |-> Nil]]
        BY <2>3 DEF TablesBoundInit
      <3>2. \A h \in Slugs : spec[s].hats[h] \in Criteria \cup {Nil}
        BY <1>1 DEF NoCatalog
      <3>3. unlocked \in [Users \X Maps \X Slugs -> Criteria \cup {Legacy, Nil}]
        BY <3>1, <3>2
      <3>4. QED
        BY <1>1, <3>1, <3>3 DEF TablesTypeOK, NoBinding
    <2>4. QED
      BY <2>1, <2>2, <2>3 DEF Init
  <1>3. QED
    BY <1>2, NoJobType DEF Init, Idle, TypeInv, TypeOK, Shapes, Kinds

\* Replacing one job by a well-shaped one keeps all of them so.
LEMMA JobStep ==
    ASSUME TypeInv, NEW j \in Jobs, NEW r \in JobRecords, Shape(r), job' = [job EXCEPT ![j] = r]
    PROVE  job' \in [Jobs -> JobRecords] /\ Shapes'
  BY DEF TypeInv, TypeOK, Shapes

\* Starting a job keeps the types.
LEMMA StartStep ==
    ASSUME TypeInv, NEW j \in Jobs, NEW r \in JobRecords, Shape(r), r.kind \in Kinds, Start(j, r)
    PROVE  /\ job' \in [Jobs -> JobRecords] /\ Shapes'
           /\ starts' \in [Kinds -> Nat] /\ \A k \in Kinds : starts'[k] <= MaxStarts[k]
  <1>1. job' \in [Jobs -> JobRecords] /\ Shapes'
    BY JobStep DEF Start
  <1>2. starts' = [starts EXCEPT ![r.kind] = @ + 1] /\ starts[r.kind] < MaxStarts[r.kind]
    BY DEF Start
  <1>3. starts \in [Kinds -> Nat] /\ MaxStarts \in [Kinds -> Nat] /\ \A k \in Kinds : starts[k] <= MaxStarts[k]
    BY BindingAssumption DEF TypeInv, TypeOK
  <1>4. \A k \in Kinds : starts'[k] = IF k = r.kind THEN starts[k] + 1 ELSE starts[k]
    BY <1>2, <1>3
  <1>5. starts' \in [Kinds -> Nat]
    BY <1>2, <1>3
  <1>6. \A k \in Kinds : starts'[k] <= MaxStarts[k]
    <2>1. TAKE k \in Kinds
    <2>2. starts[k] \in Nat /\ MaxStarts[k] \in Nat
      BY <1>3
    <2>3. QED
      BY <1>2, <1>3, <1>4, <2>2
  <1>7. QED
    BY <1>1, <1>5, <1>6

\* Whatever starts, the types are kept.
LEMMA StartType ==
    ASSUME TypeInv, NEW j \in Jobs, StartJob(j)
    PROVE  TypeInv'
  <1> USE TablesAssumption, BindingAssumption, NoJobType
  <1>1. ASSUME NEW m \in Maps, StartComment(j, m) PROVE TypeInv'
    <2> DEFINE r == [NoJob EXCEPT !.kind = "comment", !.pc = "permit", !.map = m]
    <2>1. r \in JobRecords /\ Shape(r) /\ r.kind \in Kinds
      <3>1. r \in JobRecords /\ r.kind \in Kinds
        BY <1>1 DEF JobRecords, NoJob, Kinds
      <3>2. Shape(r)
        BY <1>1 DEF Shape, NoJob
      <3>3. QED
        BY <3>1, <3>2
    <2>2. Start(j, r)
      BY <1>1 DEF StartComment
    <2> HIDE DEF r
    <2>3. QED
      BY <1>1, <2>1, <2>2, StartStep DEF StartComment, TypeInv, TypeOK, TablesTypeOK, tables
  <1>2. ASSUME NEW m \in Maps, StartRecheck(j, m) PROVE TypeInv'
    <2> DEFINE r == [NoJob EXCEPT !.kind = "recheck", !.pc = "fetch", !.map = m]
    <2>1. r \in JobRecords /\ Shape(r) /\ r.kind \in Kinds
      <3>1. r \in JobRecords /\ r.kind \in Kinds
        BY <1>2 DEF JobRecords, NoJob, Kinds
      <3>2. Shape(r)
        BY <1>2 DEF Shape, NoJob
      <3>3. QED
        BY <3>1, <3>2
    <2>2. Start(j, r)
      BY <1>2 DEF StartRecheck
    <2> HIDE DEF r
    <2>3. QED
      BY <1>2, <2>1, <2>2, StartStep DEF StartRecheck, TypeInv, TypeOK, TablesTypeOK, tables
  <1>3. ASSUME NEW u \in Users, NEW m \in Maps, NEW s \in Specs, StartBind(j, u, m, s) PROVE TypeInv'
    <2> DEFINE r == [NoJob EXCEPT !.kind = "bind", !.pc = "prepare", !.user = u, !.map = m, !.spec = s,
                        !.inline = (Verified(m) /\ bind[m].spec = s) \/ ~(spec[s].alive /\ Owner[s] = u)]
    <2>1. r \in JobRecords /\ Shape(r) /\ r.kind \in Kinds
      <3>1. r \in JobRecords /\ r.kind \in Kinds
        BY <1>3 DEF JobRecords, NoJob, Kinds
      <3>2. Shape(r)
        BY <1>3 DEF Shape, NoJob
      <3>3. QED
        BY <3>1, <3>2
    <2>2. Start(j, r)
      BY <1>3 DEF StartBind
    <2> HIDE DEF r
    <2>3. QED
      BY <1>3, <2>1, <2>2, StartStep DEF StartBind, TypeInv, TypeOK, TablesTypeOK, tables
  <1>4. ASSUME NEW u \in Users, NEW m \in Maps, NEW s \in Specs, NEW h \in Slugs, StartUnlock(j, u, m, s, h) PROVE TypeInv'
    <2> DEFINE r == [NoJob EXCEPT !.kind = "unlock", !.pc = "row", !.user = u, !.map = m, !.spec = s, !.slug = h]
    <2>1. r \in JobRecords /\ Shape(r) /\ r.kind \in Kinds
      <3>1. r \in JobRecords /\ r.kind \in Kinds
        BY <1>4 DEF JobRecords, NoJob, Kinds
      <3>2. Shape(r)
        BY <1>4 DEF Shape, NoJob
      <3>3. QED
        BY <3>1, <3>2
    <2>2. Start(j, r)
      BY <1>4 DEF StartUnlock
    <2> HIDE DEF r
    <2>3. QED
      BY <1>4, <2>1, <2>2, StartStep DEF StartUnlock, TypeInv, TypeOK, TablesTypeOK, tables
  <1>5. ASSUME NEW u \in Users, NEW m \in Maps, NEW h \in Slugs \cup {Nil}, StartEquip(j, u, m, h) PROVE TypeInv'
    <2> DEFINE r == [NoJob EXCEPT !.kind = "equip", !.pc = "lock", !.user = u, !.map = m, !.slug = h, !.inline = TRUE]
    <2>1. r \in JobRecords /\ Shape(r) /\ r.kind \in Kinds
      <3>1. r \in JobRecords /\ r.kind \in Kinds
        BY <1>5 DEF JobRecords, NoJob, Kinds
      <3>2. Shape(r)
        BY <1>5 DEF Shape, NoJob
      <3>3. QED
        BY <3>1, <3>2
    <2>2. Start(j, r)
      BY <1>5 DEF StartEquip
    <2> HIDE DEF r
    <2>3. QED
      BY <1>5, <2>1, <2>2, StartStep DEF StartEquip, TypeInv, TypeOK, TablesTypeOK, tables
  <1>6. ASSUME NEW u \in Users, NEW n \in Maps \cup {Nil}, StartMove(j, u, n) PROVE TypeInv'
    <2> DEFINE r == [NoJob EXCEPT !.kind = "move", !.pc = "lock", !.user = u, !.inline = TRUE,
                        !.map = IF tracked[u] = Nil THEN n ELSE tracked[u],
                        !.push = IF tracked[u] = Nil THEN {} ELSE {<<u, Nil>>}]
    <2>1. tracked[u] \in Maps \cup {Nil} /\ tracked[u] # n
      BY <1>6 DEF StartMove, TypeInv, TypeOK
    <2>2. (IF tracked[u] = Nil THEN {} ELSE {<<u, Nil>>}) \in SUBSET (Users \X (Slugs \cup {Nil}))
      OBVIOUS
    <2>3. r \in JobRecords /\ Shape(r) /\ r.kind \in Kinds
      <3>1. r \in JobRecords /\ r.kind \in Kinds
        BY <2>1, <2>2, ZenonT(40) DEF JobRecords, NoJob, Kinds
      <3>2. Shape(r)
        BY <2>1, <2>2 DEF Shape, NoJob
      <3>3. QED
        BY <3>1, <3>2
    <2>4. Start(j, r)
      BY <1>6 DEF StartMove
    <2> HIDE DEF r
    <2>5. QED
      BY <1>6, <2>3, <2>4, StartStep DEF StartMove, TypeInv, TypeOK, TablesTypeOK, tables
  <1>7. ASSUME NEW s \in Specs, StartDelete(j, s) PROVE TypeInv'
    <2> DEFINE r == [NoJob EXCEPT !.kind = "delete", !.pc = "check", !.user = Owner[s], !.spec = s, !.inline = TRUE]
    <2>1. r \in JobRecords /\ Shape(r) /\ r.kind \in Kinds
      <3>1. r \in JobRecords /\ r.kind \in Kinds
        BY <1>7 DEF JobRecords, NoJob, Kinds
      <3>2. Shape(r)
        BY <1>7 DEF Shape, NoJob
      <3>3. QED
        BY <3>1, <3>2
    <2>2. Start(j, r)
      BY <1>7 DEF StartDelete
    <2> HIDE DEF r
    <2>3. QED
      BY <1>7, <2>1, <2>2, StartStep DEF StartDelete, TypeInv, TypeOK, TablesTypeOK, tables
  <1>8. QED
    BY <1>1, <1>2, <1>3, <1>4, <1>5, <1>6, <1>7 DEF StartJob

\* Ending a job keeps the types, and drops the map lock it holds.
LEMMA FinishStep ==
    ASSUME TypeInv, NEW j \in Jobs, Finish(j)
    PROVE  job' \in [Jobs -> JobRecords] /\ Shapes' /\ mapLock' \in [Maps -> Jobs \cup {Nil}]
  <1>1. job' \in [Jobs -> JobRecords] /\ Shapes'
    BY NoJobType, JobStep DEF Finish
  <1>2. QED
    BY <1>1 DEF Finish, TypeInv, TypeOK

\* The rows a binding transaction writes are well typed.
LEMMA MaterializeType ==
    ASSUME TypeInv, NEW m \in Maps, NEW s \in Specs, NEW src \in SpecRows, NEW purge,
           Materialize(m, s, src, purge)
    PROVE  TablesTypeOK'
  <1> USE TablesAssumption DEF TypeInv, TypeOK, TablesTypeOK, Materialize
  <1>1. bind' \in [Maps -> [spec : Specs \cup {Nil}, author : Users \cup {Nil}, mat : 0 .. MaxRev]]
    BY DEF SpecRows
  <1>2. onMap' \in [Maps -> Catalogs \cup {NoCatalog}]
    BY DEF SpecRows
  <1>3. equipped' \in [Maps -> [Users -> Slugs \cup {Nil}]]
    <2>1. [u \in Users |-> IF u \in TakenOff(m, src, purge) THEN Nil ELSE equipped[m][u]]
             \in [Users -> Slugs \cup {Nil}]
      OBVIOUS
    <2>2. QED
      BY <2>1
  <1>4. QED
    BY <1>1, <1>2, <1>3

\* Where a job is tells what it is and which of its fields are set.
LEMMA PcKind ==
    ASSUME TypeInv, NEW j \in Jobs
    PROVE  /\ job[j].pc \in {"prepare", "nadeo"} => job[j].kind = "bind"
           /\ job[j].pc = "permit" => job[j].kind = "comment"
           /\ job[j].pc = "lock" => job[j].kind \in {"bind", "comment", "equip", "move"}
           /\ job[j].pc = "fetch" => job[j].kind \in {"comment", "recheck"}
           /\ job[j].pc \in {"tx", "commit"} => job[j].kind \in {"bind", "comment", "recheck"} /\ job[j].spec \in Specs
           /\ job[j].pc \in {"row", "judge", "grant"} => job[j].kind = "unlock" /\ job[j].slug \in Slugs
           /\ job[j].pc = "equip" => job[j].kind = "equip"
           /\ job[j].pc = "join" => job[j].kind = "move"
           /\ job[j].pc = "announce" => job[j].kind \in {"bind", "comment", "equip", "move"}
           /\ job[j].pc \in {"check", "delete", "fkViolation"} => job[j].kind = "delete" /\ job[j].spec \in Specs
           /\ job[j].kind \in {"bind", "comment", "recheck", "unlock", "equip", "move"} => job[j].map \in Maps
           /\ job[j].kind \in {"bind", "unlock", "equip", "move"} => job[j].user \in Users
           /\ job[j].kind \in {"bind", "unlock"} => job[j].spec \in Specs
  <1>1. job[j].kind \in Kinds \cup {"none"} /\ Shape(job[j])
    BY DEF TypeInv, TypeOK, Shapes, JobRecords
  <1>2. job[j].kind = "none" => job[j].pc = "idle"
    BY <1>1 DEF Shape, NoJob
  <1>3. QED
    BY <1>1, <1>2 DEF Shape, Kinds

\* A job's step keeps the types: the steps that only move it on,
LEMMA MoveOnType ==
    ASSUME TypeInv, NEW j \in Jobs, MoveOn(j)
    PROVE  TypeInv'
  <1> USE TablesAssumption
  <1>0. job[j] \in JobRecords /\ Shape(job[j])
    BY DEF TypeInv, TypeOK, Shapes
  <1>1. ASSUME Finish(j), UNCHANGED <<tables, tracked, comment, endorsed, shown, silent, starts, edits>>
        PROVE  TypeInv'
    BY <1>1, FinishStep DEF TypeInv, TypeOK, TablesTypeOK, tables
  <1>2. ASSUME NEW r \in JobRecords, Shape(r), job' = [job EXCEPT ![j] = r],
               UNCHANGED <<tables, mapLock, tracked, comment, endorsed, shown, silent, starts, edits>>
        PROVE  TypeInv'
    BY <1>2, JobStep DEF TypeInv, TypeOK, TablesTypeOK, tables
  <1>3. ASSUME Fail(j) \/ ReportInternalError(j) PROVE TypeInv'
    BY <1>1, <1>3 DEF Fail, ReportInternalError
  <1>4. ASSUME AcquirePermit(j) PROVE TypeInv'
    <2> DEFINE r == [job[j] EXCEPT !.pc = "lock"]
    <2>1. r \in JobRecords /\ Shape(r)
      BY <1>0, <1>4, PcKind DEF AcquirePermit, JobRecords, Shape, Kinds
    <2>2. QED
      BY <1>2, <1>4, <2>1 DEF AcquirePermit, Advance
  <1>5. ASSUME AcquireMapLock(j) PROVE TypeInv'
    <2>1. job[j].pc = "lock" /\ job[j].kind \in {"bind", "comment", "equip", "move"}
      BY <1>5, PcKind DEF AcquireMapLock
    <2>2. PICK pc \in {"tx", "fetch", "equip", "join", "announce"} :
             /\ job' = [job EXCEPT ![j].pc = pc]
             /\ job[j].kind = "bind" => pc = "tx"
             /\ job[j].kind = "comment" => pc = "fetch"
             /\ job[j].kind = "equip" => pc = "equip"
             /\ job[j].kind = "move" => pc \in {"join", "announce"}
      BY <1>5, <2>1 DEF AcquireMapLock, Advance
    <2> DEFINE r == [job[j] EXCEPT !.pc = pc]
    <2>3. r \in JobRecords /\ Shape(r)
      BY <1>0, <2>1, <2>2 DEF JobRecords, Shape, NoJob
    <2>4. job' \in [Jobs -> JobRecords] /\ Shapes'
      BY <2>2, <2>3, JobStep
    <2>5. mapLock' \in [Maps -> Jobs \cup {Nil}]
      BY <1>5 DEF AcquireMapLock, TypeInv, TypeOK
    <2>6. QED
      BY <1>5, <2>4, <2>5 DEF AcquireMapLock, TypeInv, TypeOK, TablesTypeOK, tables
  <1>6. ASSUME PrepareBind(j) PROVE TypeInv'
    <2> DEFINE r == [job[j] EXCEPT !.pc = IF Verified(job[j].map) THEN "lock" ELSE "nadeo"]
    <2>1. r \in JobRecords /\ Shape(r)
      BY <1>0, <1>6, PcKind DEF PrepareBind, JobRecords, Shape, Kinds
    <2>2. QED
      BY <1>1, <1>2, <1>6, <2>1 DEF PrepareBind, Advance
  <1>7. ASSUME VerifyAuthor(j) PROVE TypeInv'
    <2> DEFINE r == [job[j] EXCEPT !.pc = "lock", !.proof = NadeoAuthor[job[j].map]]
    <2>1. r \in JobRecords /\ Shape(r)
      BY <1>0, <1>7, PcKind DEF VerifyAuthor, JobRecords, Shape, Kinds
    <2>2. QED
      BY <1>1, <1>2, <1>7, <2>1 DEF VerifyAuthor
  <1>8. ASSUME BeginBindTx(j) PROVE TypeInv'
    <2> DEFINE r == [job[j] EXCEPT !.pc = "commit", !.src = spec[job[j].spec],
                                   !.seen = bind[job[j].map].spec]
    <2>1. job[j].spec \in Specs /\ job[j].map \in Maps
      BY <1>8, PcKind DEF BeginBindTx
    <2>2. spec[job[j].spec] \in SpecRows /\ bind[job[j].map].spec \in Specs \cup {Nil}
      BY <2>1 DEF TypeInv, TypeOK, TablesTypeOK
    <2>3. r \in JobRecords
      BY <1>0, <2>2 DEF JobRecords
    <2>4. Shape(r)
      BY <1>0, <1>8, PcKind DEF BeginBindTx, JobRecords, Shape
    <2>5. QED
      BY <1>1, <1>2, <1>8, <2>3, <2>4 DEF BeginBindTx
  <1>9. ASSUME FetchComment(j) PROVE TypeInv'
    <2> DEFINE r == [job[j] EXCEPT !.pc = "tx", !.spec = comment[job[j].map]]
    <2>1. job[j].map \in Maps
      BY <1>9, PcKind DEF FetchComment
    <2>2. comment[job[j].map] \in Specs \cup {Nil}
      BY <2>1 DEF TypeInv, TypeOK
    <2>3. comment[job[j].map] # Nil => r \in JobRecords /\ Shape(r)
      BY <1>0, <1>9, <2>2, PcKind DEF FetchComment, JobRecords, Shape, Kinds
    <2>4. QED
      BY <1>1, <1>2, <1>9, <2>3 DEF FetchComment
  <1>10. ASSUME ReadRow(j) PROVE TypeInv'
    <2> DEFINE r == [job[j] EXCEPT !.pc = "judge", !.proof = onMap[job[j].map][job[j].slug]]
    <2>1. job[j].map \in Maps /\ job[j].slug \in Slugs
      BY <1>10, PcKind DEF ReadRow
    <2>2. onMap[job[j].map][job[j].slug] \in Criteria \cup {Nil}
      <3>1. onMap[job[j].map] \in Catalogs \cup {NoCatalog}
        BY <2>1 DEF TypeInv, TypeOK, TablesTypeOK
      <3>2. QED
        BY <2>1, <3>1 DEF NoCatalog
    <2>3. onMap[job[j].map][job[j].slug] # Nil => r \in JobRecords /\ Shape(r)
      <3>1. onMap[job[j].map][job[j].slug] # Nil => r \in JobRecords
        BY <1>0, <2>2, ZenonT(40) DEF JobRecords
      <3>2. onMap[job[j].map][job[j].slug] # Nil => Shape(r)
        BY <1>0, <1>10, <2>2, PcKind DEF ReadRow, JobRecords, Shape
      <3>3. QED
        BY <3>1, <3>2
    <2>4. QED
      BY <1>1, <1>2, <1>10, <2>3 DEF ReadRow
  <1>11. ASSUME JudgeUnlock(j) PROVE TypeInv'
    <2> DEFINE r == [job[j] EXCEPT !.pc = "grant"]
    <2>1. r \in JobRecords /\ Shape(r)
      BY <1>0, <1>11, PcKind DEF JudgeUnlock, JobRecords, Shape, Kinds
    <2>2. QED
      BY <1>1, <1>2, <1>11, <2>1 DEF JudgeUnlock, Advance
  <1>12. ASSUME ReadJoinPush(j) PROVE TypeInv'
    <2> DEFINE r == [job[j] EXCEPT !.pc = "announce", !.push = PushEntry(job[j].user, job[j].map)]
    <2>1. job[j].user \in Users /\ job[j].map \in Maps
      BY <1>12, PcKind DEF ReadJoinPush
    <2>2. PushEntry(job[j].user, job[j].map) \in SUBSET (Users \X (Slugs \cup {Nil}))
      BY <2>1 DEF PushEntry, TypeInv, TypeOK, TablesTypeOK
    <2>3. r \in JobRecords /\ Shape(r)
      BY <1>0, <1>12, <2>2, PcKind DEF ReadJoinPush, JobRecords, Shape, Kinds
    <2>4. QED
      BY <1>2, <1>12, <2>3 DEF ReadJoinPush
  <1>13. ASSUME CheckBound(j) PROVE TypeInv'
    <2> DEFINE r == [job[j] EXCEPT !.pc = "delete"]
    <2>1. r \in JobRecords /\ Shape(r)
      BY <1>0, <1>13, PcKind DEF CheckBound, JobRecords, Shape, Kinds
    <2>2. QED
      BY <1>1, <1>2, <1>13, <2>1 DEF CheckBound, Advance
  <1>14. QED
    BY <1>3, <1>4, <1>5, <1>6, <1>7, <1>8, <1>9, <1>10, <1>11, <1>12, <1>13 DEF MoveOn

\* and the steps that write rows, broadcast, or end with the job.
LEMMA WriteType ==
    ASSUME TypeInv, NEW j \in Jobs, Write(j)
    PROVE  TypeInv'
  <1> USE TablesAssumption
  <1>0. job[j] \in JobRecords /\ Shape(job[j])
    BY DEF TypeInv, TypeOK, Shapes
  <1>1. ASSUME Finish(j), TablesTypeOK', silent' \subseteq Maps \X Users,
               UNCHANGED <<tracked, comment, endorsed, shown, starts, edits>>
        PROVE  TypeInv'
    BY <1>1, FinishStep DEF TypeInv, TypeOK
  <1>2. ASSUME NEW r \in JobRecords, Shape(r), job' = [job EXCEPT ![j] = r],
               TablesTypeOK', silent' \subseteq Maps \X Users,
               UNCHANGED <<mapLock, tracked, comment, endorsed, shown, starts, edits>>
        PROVE  TypeInv'
    BY <1>2, JobStep DEF TypeInv, TypeOK
  <1>3. TablesTypeOK /\ silent \subseteq Maps \X Users /\ (UNCHANGED tables => TablesTypeOK')
    BY DEF TypeInv, TypeOK, TablesTypeOK, tables
  <1>4. ASSUME Announce(j) PROVE TypeInv'
    <2> DEFINE m == job[j].map
               r == [job[j] EXCEPT !.pc = "lock", !.map = tracked[job[j].user], !.push = {}]
    <2>1. m \in Maps
      BY <1>4, PcKind DEF Announce
    <2>2. shown' \in [Maps -> [Users -> Slugs \cup {Nil}]]
      <3> DEFINE row == [v \in Users |-> IF \E h \in Slugs \cup {Nil} : <<v, h>> \in job[j].push
                            THEN CHOOSE h \in Slugs \cup {Nil} : <<v, h>> \in job[j].push
                            ELSE shown[m][v]]
      <3>1. \A v \in Users : row[v] \in Slugs \cup {Nil}
        <4>1. TAKE v \in Users
        <4>2. shown[m][v] \in Slugs \cup {Nil}
          BY <2>1 DEF TypeInv, TypeOK
        <4>3. (\E h \in Slugs \cup {Nil} : <<v, h>> \in job[j].push) =>
                 (CHOOSE h \in Slugs \cup {Nil} : <<v, h>> \in job[j].push) \in Slugs \cup {Nil}
          OBVIOUS
        <4>4. QED
          BY <4>2, <4>3
      <3>2. row \in [Users -> Slugs \cup {Nil}]
        BY <3>1
      <3>3. shown' = [shown EXCEPT ![m] = row]
        BY <1>4 DEF Announce
      <3> HIDE DEF row
      <3>4. QED
        BY <3>2, <3>3 DEF TypeInv, TypeOK
    <2>3. CASE job[j].kind = "move" /\ tracked[job[j].user] \notin {m, Nil}
      <3>1. job' = [job EXCEPT ![j] = r] /\ mapLock' = [mapLock EXCEPT ![m] = Nil]
        BY <1>4, <2>3 DEF Announce
      <3>2. tracked[job[j].user] \in Maps
        BY <2>3, PcKind DEF TypeInv, TypeOK
      <3>3. r \in JobRecords
        BY <1>0, <3>2, ZenonT(40) DEF JobRecords
      <3>4. Shape(r)
        BY <1>0, <2>3, <3>2, PcKind DEF JobRecords, Shape
      <3> HIDE DEF r
      <3>5. job' \in [Jobs -> JobRecords] /\ Shapes'
        BY <3>1, <3>3, <3>4, JobStep
      <3>6. mapLock' \in [Maps -> Jobs \cup {Nil}]
        BY <3>1 DEF TypeInv, TypeOK
      <3>7. QED
        BY <1>3, <1>4, <2>2, <3>5, <3>6 DEF Announce, TypeInv, TypeOK
    <2>4. CASE ~ (job[j].kind = "move" /\ tracked[job[j].user] \notin {m, Nil})
      BY <1>3, <1>4, <2>2, <2>4, FinishStep DEF Announce, TypeInv, TypeOK
    <2>5. QED
      BY <2>3, <2>4
  <1>5. ASSUME NEW push \in SUBSET (Users \X (Slugs \cup {Nil})),
               job[j].pc \in {"commit", "equip"}, job[j].kind # "recheck",
               job' = [job EXCEPT ![j] = [@ EXCEPT !.pc = "announce", !.push = push]],
               TablesTypeOK', silent' \subseteq Maps \X Users,
               UNCHANGED <<mapLock, tracked, comment, endorsed, shown, starts, edits>>
        PROVE  TypeInv'
    <2> DEFINE r == [job[j] EXCEPT !.pc = "announce", !.push = push]
    <2>1. r \in JobRecords
      BY <1>0, <1>5, ZenonT(40) DEF JobRecords
    <2>2. Shape(r)
      BY <1>0, <1>5, PcKind DEF JobRecords, Shape
    <2>3. job' = [job EXCEPT ![j] = r]
      BY <1>5
    <2> HIDE DEF r
    <2>4. QED
      BY <1>2, <1>5, <2>1, <2>2, <2>3
  <1>6. job[j].src \in SpecRows /\ (job[j].pc = "commit" => job[j].map \in Maps /\ job[j].spec \in Specs)
    BY <1>0, PcKind DEF JobRecords
  <1>7. \A off \in SUBSET Users : Push(off) \in SUBSET (Users \X (Slugs \cup {Nil}))
    BY DEF Push
  <1>8. \A m \in Maps : \A src, purge : TakenOff(m, src, purge) \in SUBSET Users
    BY DEF TakenOff, Wearers, Unmatched
  <1>9. ASSUME CommitBind(j) PROVE TypeInv'
    <2> DEFINE m == job[j].map
               legacy == RowFound(j) /\ ~Verified(m)
               off == TakenOff(m, job[j].src, legacy)
    <2>1. \/ Finish(j) /\ UNCHANGED tables
          \/ /\ Materialize(m, job[j].spec, job[j].src, legacy)
             /\ job' = [job EXCEPT ![j] = [@ EXCEPT !.pc = "announce", !.push = Push(off)]]
             /\ UNCHANGED mapLock
      BY <1>9 DEF CommitBind
    <2>2. job[j].pc = "commit" /\ job[j].kind # "recheck"
          /\ UNCHANGED <<tracked, comment, endorsed, shown, silent, starts, edits>>
      BY <1>9 DEF CommitBind
    <2>3. off \in SUBSET Users
      BY <1>6, <1>8, <2>2
    <2> HIDE DEF off, legacy
    <2>4. CASE Finish(j) /\ UNCHANGED tables
      BY <1>1, <1>3, <2>2, <2>4
    <2>5. CASE /\ Materialize(m, job[j].spec, job[j].src, legacy)
               /\ job' = [job EXCEPT ![j] = [@ EXCEPT !.pc = "announce", !.push = Push(off)]]
               /\ UNCHANGED mapLock
      <3>1. TablesTypeOK'
        BY <1>6, <2>2, <2>5, MaterializeType
      <3>2. Push(off) \in SUBSET (Users \X (Slugs \cup {Nil}))
        BY <1>7, <2>3
      <3>3. QED
        BY <1>3, <1>5, <2>2, <2>5, <3>1, <3>2
    <2>6. QED
      BY <2>1, <2>4, <2>5
  <1>10. ASSUME CommitComment(j) PROVE TypeInv'
    <2> DEFINE m == job[j].map
               replaced == RowFound(j) /\ job[j].seen # job[j].spec
               off == TakenOff(m, job[j].src, replaced)
               told == IF replaced /\ job[j].kind = "comment" THEN off ELSE {}
    <2>1. \/ Finish(j) /\ UNCHANGED <<tables, silent>>
          \/ /\ Materialize(m, job[j].spec, job[j].src, replaced)
             /\ silent' = silent \cup ({m} \X (off \ told))
             /\ \/ /\ job[j].kind = "comment"
                   /\ job' = [job EXCEPT ![j] = [@ EXCEPT !.pc = "announce", !.push = Push(told)]]
                   /\ UNCHANGED mapLock
                \/ Finish(j)
      BY <1>10 DEF CommitComment
    <2>2. job[j].pc = "commit" /\ UNCHANGED <<tracked, comment, endorsed, shown, starts, edits>>
      BY <1>10 DEF CommitComment
    <2>3. off \in SUBSET Users /\ told \in SUBSET Users /\ m \in Maps
      BY <1>6, <1>8, <2>2
    <2> HIDE DEF off, told, replaced
    <2>4. CASE Finish(j) /\ UNCHANGED <<tables, silent>>
      BY <1>1, <1>3, <2>2, <2>4
    <2>5. ASSUME Materialize(m, job[j].spec, job[j].src, replaced),
                 silent' = silent \cup ({m} \X (off \ told))
          PROVE  TablesTypeOK' /\ silent' \subseteq Maps \X Users
      <3>1. TablesTypeOK'
        BY <1>6, <2>2, <2>5, MaterializeType
      <3>2. QED
        BY <1>3, <2>3, <2>5, <3>1
    <2>6. Push(told) \in SUBSET (Users \X (Slugs \cup {Nil}))
      BY <1>7, <2>3
    <2>7. QED
      BY <1>1, <1>5, <2>1, <2>2, <2>4, <2>5, <2>6
  <1>11. ASSUME GrantUnlock(j) PROVE TypeInv'
    <2>1. job[j].map \in Maps /\ job[j].slug \in Slugs /\ job[j].user \in Users
      BY <1>11, PcKind DEF GrantUnlock
    <2>2. onMap[job[j].map][job[j].slug] \in Criteria \cup {Nil}
      <3>1. onMap[job[j].map] \in Catalogs \cup {NoCatalog}
        BY <2>1, <1>3 DEF TablesTypeOK
      <3>2. QED
        BY <2>1, <3>1 DEF NoCatalog
    <2>3. TablesTypeOK'
      <3>1. CASE UNCHANGED tables
        BY <1>3, <3>1
      <3>2. CASE GrantHat(job[j].user, job[j].map, job[j].slug)
        BY <1>3, <2>1, <2>2, <3>2 DEF GrantHat, TablesTypeOK
      <3>3. QED
        BY <1>11, <3>1, <3>2 DEF GrantUnlock
    <2>4. QED
      BY <1>1, <1>3, <1>11, <2>3 DEF GrantUnlock
  <1>12. ASSUME EquipHat(j) PROVE TypeInv'
    <2> DEFINE m == job[j].map
               u == job[j].user
               h == job[j].slug
    <2>1. m \in Maps /\ u \in Users /\ h \in Slugs \cup {Nil} /\ job[j].pc = "equip"
          /\ job[j].kind # "recheck"
      BY <1>0, <1>12, PcKind DEF EquipHat, JobRecords
    <2>2. \/ Finish(j) /\ UNCHANGED <<tables, silent>>
          \/ /\ Equip(u, m, h) /\ silent' = silent \ {<<m, u>>}
             /\ job' = [job EXCEPT ![j] = [@ EXCEPT !.pc = "announce", !.push = {<<u, h>>}]]
             /\ UNCHANGED mapLock
      BY <1>12 DEF EquipHat
    <2>3. UNCHANGED <<tracked, comment, endorsed, shown, starts, edits>>
      BY <1>12 DEF EquipHat
    <2>4. Equip(u, m, h) => TablesTypeOK'
      BY <1>3, <2>1 DEF Equip, TablesTypeOK
    <2>5. {<<u, h>>} \in SUBSET (Users \X (Slugs \cup {Nil}))
      BY <2>1
    <2>6. silent \ {<<m, u>>} \subseteq Maps \X Users
      BY <1>3
    <2>7. QED
      BY <1>1, <1>3, <1>5, <2>1, <2>2, <2>3, <2>4, <2>5, <2>6
  <1>13. ASSUME DeleteSpec(j) PROVE TypeInv'
    <2> DEFINE r == [job[j] EXCEPT !.pc = "fkViolation"]
    <2>1. r \in JobRecords
      BY <1>0 DEF JobRecords
    <2>2. Shape(r)
      BY <1>0, <1>13, PcKind DEF DeleteSpec, JobRecords, Shape
    <2>3. Delete(job[j].spec) => TablesTypeOK'
      <3>1. ASSUME NEW s \in Specs PROVE [spec[s] EXCEPT !.alive = FALSE] \in SpecRows
        <4>1. spec[s] \in SpecRows
          BY <1>3 DEF TablesTypeOK
        <4>2. QED
          BY <4>1 DEF SpecRows
      <3>2. job[j].spec \in Specs
        BY <1>13, PcKind DEF DeleteSpec
      <3>3. [spec EXCEPT ![job[j].spec].alive = FALSE] \in [Specs -> SpecRows]
        BY <1>3, <3>1, <3>2 DEF TablesTypeOK
      <3>4. QED
        BY <1>3, <3>3 DEF Delete, TablesTypeOK
    <2>4. UNCHANGED <<tracked, comment, endorsed, shown, silent, starts, edits>>
      BY <1>13 DEF DeleteSpec
    <2>5. \/ Delete(job[j].spec) /\ Finish(j)
          \/ job' = [job EXCEPT ![j] = r] /\ UNCHANGED <<tables, mapLock>>
      BY <1>13 DEF DeleteSpec, Advance
    <2> HIDE DEF r
    <2>6. QED
      BY <1>1, <1>2, <1>3, <2>1, <2>2, <2>3, <2>4, <2>5
  <1>14. QED
    BY <1>4, <1>9, <1>10, <1>11, <1>12, <1>13 DEF Write

\* Mappers keep the types.
LEMMA MapperType ==
    ASSUME TypeInv, Mapper
    PROVE  TypeInv'
  <1> USE TablesAssumption, BindingAssumption
  <1>1. edits' \in 0 .. MaxEdits
    BY DEF Mapper, UploadSpec, PublishComment, Edit, TypeInv, TypeOK
  <1>2. ASSUME NEW s \in Specs, NEW c \in Catalogs, UploadSpec(s, c) PROVE TypeInv'
    <2>1. spec[s].rev \in 0 .. MaxRev /\ spec[s].rev < MaxRev
      BY <1>2 DEF UploadSpec, Upsert, TypeInv, TypeOK, TablesTypeOK, SpecRows
    <2> DEFINE r == [rev |-> spec[s].rev + 1, alive |-> TRUE, hats |-> c]
    <2>2. spec[s].rev + 1 \in 0 .. MaxRev
      BY <2>1
    <2>3. r \in SpecRows
      BY <2>2 DEF SpecRows
    <2>4. spec' = [spec EXCEPT ![s] = r]
      BY <1>2 DEF UploadSpec, Upsert
    <2> HIDE DEF r
    <2>5. spec' \in [Specs -> SpecRows]
      BY <2>3, <2>4 DEF TypeInv, TypeOK, TablesTypeOK
    <2>6. QED
      BY <1>1, <1>2, <2>5 DEF UploadSpec, Upsert, Edit, TypeInv, TypeOK, TablesTypeOK, Shapes
  <1>3. ASSUME NEW m \in Maps, NEW s \in Specs \cup {Nil}, PublishComment(m, s) PROVE TypeInv'
    BY <1>1, <1>3 DEF PublishComment, Edit, TypeInv, TypeOK, TablesTypeOK, tables, Shapes
  <1>4. QED
    BY <1>2, <1>3 DEF Mapper

\* Every step keeps the types.
LEMMA TypeStep == TypeInv /\ [Next]_vars => TypeInv'
  <1> SUFFICES ASSUME TypeInv, [Next]_vars PROVE TypeInv'
    OBVIOUS
  <1>1. ASSUME NEW j \in Jobs, StartJob(j) PROVE TypeInv'
    BY <1>1, StartType
  <1>2. ASSUME NEW j \in Jobs, Step(j) PROVE TypeInv'
    BY <1>2, MoveOnType, WriteType DEF Step, MoveOn, Write
  <1>3. CASE UNCHANGED vars
    BY <1>3 DEF vars, tables, TypeInv, TypeOK, TablesTypeOK, Shapes
  <1>4. QED
    BY <1>1, <1>2, <1>3, MapperType DEF Next

-----------------------------------------------------------------------------
(* What a step does to its job.  The invariants below are proved from      *)
(* these summaries and from the few actions that write rows or broadcast.  *)

\* The stretches of each job that run under the map's operation lock.
HoldsLock(r) ==
    \/ r.kind = "bind" /\ r.pc \in {"tx", "commit", "announce"}
    \/ r.kind = "comment" /\ r.pc \in {"fetch", "tx", "commit", "announce"}
    \/ r.kind \in {"equip", "move"} /\ r.pc \in {"equip", "join", "announce"}

\* A job that starts has learnt nothing and holds nothing, and all it may be
\* about to broadcast is that its player has left a map.
LEMMA StartEffect ==
    ASSUME TypeInv, NEW j \in Jobs, StartJob(j)
    PROVE  /\ \A i \in Jobs \ {j} : job'[i] = job[i]
           /\ job'[j].proof = Nil /\ job'[j].pc \in {"prepare", "permit", "fetch", "row", "lock", "check"}
           /\ \A v \in Users, h \in Slugs \cup {Nil} : <<v, h>> \in job'[j].push => h = Nil
           /\ job[j] = NoJob /\ ~HoldsLock(job'[j])
           /\ UNCHANGED <<tables, mapLock, comment, endorsed, shown, silent, edits>>
  <1> USE DEF Start, NoJob, HoldsLock, TypeInv, TypeOK
  <1>1. CASE \E m \in Maps : StartComment(j, m)
    BY <1>1 DEF StartComment
  <1>2. CASE \E m \in Maps : StartRecheck(j, m)
    BY <1>2 DEF StartRecheck
  <1>3. CASE \E u \in Users, m \in Maps, s \in Specs : StartBind(j, u, m, s)
    BY <1>3 DEF StartBind
  <1>4. CASE \E u \in Users, m \in Maps, s \in Specs, h \in Slugs : StartUnlock(j, u, m, s, h)
    BY <1>4 DEF StartUnlock
  <1>5. CASE \E u \in Users, m \in Maps, h \in Slugs \cup {Nil} : StartEquip(j, u, m, h)
    BY <1>5 DEF StartEquip
  <1>6. CASE \E u \in Users, m \in Maps \cup {Nil} : StartMove(j, u, m)
    BY <1>6 DEF StartMove
  <1>7. CASE \E s \in Specs : StartDelete(j, s)
    BY <1>7 DEF StartDelete
  <1>8. QED
    BY <1>1, <1>2, <1>3, <1>4, <1>5, <1>6, <1>7 DEF StartJob

\* What a job that moves on has learnt by its new place.
LEMMA MoveOnEffect ==
    ASSUME TypeInv, NEW j \in Jobs, MoveOn(j)
    PROVE  /\ \A i \in Jobs \ {j} : job'[i] = job[i]
           /\ UNCHANGED <<tables, tracked, comment, endorsed, shown, silent>>
           /\ \/ Finish(j)
              \/ /\ job'[j].kind = job[j].kind /\ job'[j].user = job[j].user
                 /\ job'[j].map = job[j].map /\ job'[j].slug = job[j].slug
                 /\ \/ job'[j].proof = job[j].proof
                    \/ job[j].kind = "bind" /\ job'[j].proof = NadeoAuthor[job[j].map]
                    \/ job[j].kind = "unlock" /\ job'[j].pc = "judge"
                 /\ job[j].kind \in {"comment", "recheck"} /\ job'[j].pc \in {"tx", "commit"} =>
                       \/ job[j].pc = "tx" /\ job'[j].spec = job[j].spec
                       \/ job'[j].spec = comment[job[j].map] /\ comment[job[j].map] # Nil
                 /\ job'[j].pc = "commit" =>
                       /\ job'[j].spec = job[j].spec /\ job[j].spec \in Specs
                       /\ job'[j].src = spec[job[j].spec] /\ spec[job[j].spec].alive
                 /\ job'[j].pc = "grant" => /\ <<job[j].user, job[j].proof>> \in Earned
                                            /\ job'[j].proof = job[j].proof
                 /\ job'[j].pc = "announce" => \/ job'[j].push = job[j].push /\ job[j].pc = "lock"
                                               \/ job'[j].push = PushEntry(job[j].user, job[j].map)
                 /\ job'[j].pc # "announce" => job'[j].push = job[j].push
                 /\ job[j].pc # "announce"
                 /\ \/ /\ job[j].pc = "lock" /\ mapLock[job[j].map] = Nil
                       /\ mapLock' = [mapLock EXCEPT ![job[j].map] = j]
                    \/ mapLock' = mapLock /\ (HoldsLock(job'[j]) => HoldsLock(job[j]))
  <1> USE DEF TypeInv, TypeOK
  <1>0. /\ job \in [Jobs -> JobRecords]
        /\ (job[j] = NoJob => job[j].pc = "idle")
    BY DEF NoJob
  <1>1. CASE Fail(j)
    BY <1>0, <1>1 DEF Fail, Finish
  <1>2. CASE AcquirePermit(j)
    BY <1>0, <1>2, PcKind DEF AcquirePermit, Advance, HoldsLock, JobRecords
  <1>3. CASE AcquireMapLock(j)
    BY <1>0, <1>3, PcKind DEF AcquireMapLock, LockFree, Advance, HoldsLock, JobRecords
  <1>4. CASE PrepareBind(j)
    BY <1>0, <1>4, PcKind DEF PrepareBind, Finish, Advance, HoldsLock, JobRecords
  <1>5. CASE VerifyAuthor(j)
    <2> DEFINE r == [job[j] EXCEPT !.pc = "lock", !.proof = NadeoAuthor[job[j].map]]
    <2>1. Finish(j) \/ (job' = [job EXCEPT ![j] = r] /\ UNCHANGED mapLock)
      BY <1>5 DEF VerifyAuthor
    <2>2. /\ r.kind = job[j].kind /\ r.user = job[j].user /\ r.map = job[j].map
          /\ r.slug = job[j].slug /\ r.proof = NadeoAuthor[job[j].map] /\ r.spec = job[j].spec
          /\ r.src = job[j].src /\ r.pc = "lock" /\ r.push = job[j].push
      BY <1>0 DEF JobRecords
    <2> HIDE DEF r
    <2>3. Finish(j) \/ ((\A i \in Jobs \ {j} : job'[i] = job[i]) /\ job'[j] = r /\ UNCHANGED mapLock)
      BY <1>0, <2>1
    <2>4. QED
      BY <1>0, <1>5, <2>2, <2>3, PcKind DEF VerifyAuthor, Finish, HoldsLock
  <1>6. CASE BeginBindTx(j)
    <2> DEFINE r == [job[j] EXCEPT !.pc = "commit", !.src = spec[job[j].spec], !.seen = bind[job[j].map].spec]
    <2>1. Finish(j) \/ (job' = [job EXCEPT ![j] = r] /\ UNCHANGED mapLock)
      BY <1>6 DEF BeginBindTx
    <2>2. /\ r.kind = job[j].kind /\ r.user = job[j].user /\ r.map = job[j].map
          /\ r.slug = job[j].slug /\ r.proof = job[j].proof /\ r.spec = job[j].spec
          /\ r.src = spec[job[j].spec] /\ r.pc = "commit" /\ r.push = job[j].push
      BY <1>0 DEF JobRecords
    <2> HIDE DEF r
    <2>3. Finish(j) \/ ((\A i \in Jobs \ {j} : job'[i] = job[i]) /\ job'[j] = r /\ UNCHANGED mapLock)
      BY <1>0, <2>1
    <2>4. QED
      BY <1>0, <1>6, <2>2, <2>3, PcKind DEF BeginBindTx, Finish, HoldsLock
  <1>7. CASE FetchComment(j)
    <2> DEFINE r == [job[j] EXCEPT !.pc = "tx", !.spec = comment[job[j].map]]
    <2>1. Finish(j) \/ (job' = [job EXCEPT ![j] = r] /\ UNCHANGED mapLock)
      BY <1>7 DEF FetchComment
    <2>2. /\ r.kind = job[j].kind /\ r.user = job[j].user /\ r.map = job[j].map
          /\ r.slug = job[j].slug /\ r.proof = job[j].proof /\ r.spec = comment[job[j].map]
          /\ r.src = job[j].src /\ r.pc = "tx" /\ r.push = job[j].push
      BY <1>0 DEF JobRecords
    <2> HIDE DEF r
    <2>3. Finish(j) \/ ((\A i \in Jobs \ {j} : job'[i] = job[i]) /\ job'[j] = r /\ UNCHANGED mapLock)
      BY <1>0, <2>1
    <2>4. QED
      BY <1>0, <1>7, <2>2, <2>3, PcKind DEF FetchComment, Finish, HoldsLock
  <1>8. CASE ReadRow(j)
    <2> DEFINE r == [job[j] EXCEPT !.pc = "judge", !.proof = onMap[job[j].map][job[j].slug]]
    <2>1. Finish(j) \/ (job' = [job EXCEPT ![j] = r] /\ UNCHANGED mapLock)
      BY <1>8 DEF ReadRow
    <2>2. /\ r.kind = job[j].kind /\ r.user = job[j].user /\ r.map = job[j].map
          /\ r.slug = job[j].slug /\ r.proof = onMap[job[j].map][job[j].slug] /\ r.spec = job[j].spec
          /\ r.src = job[j].src /\ r.pc = "judge" /\ r.push = job[j].push
      BY <1>0 DEF JobRecords
    <2> HIDE DEF r
    <2>3. Finish(j) \/ ((\A i \in Jobs \ {j} : job'[i] = job[i]) /\ job'[j] = r /\ UNCHANGED mapLock)
      BY <1>0, <2>1
    <2>4. QED
      BY <1>0, <1>8, <2>2, <2>3, PcKind DEF ReadRow, Finish, HoldsLock
  <1>9. CASE JudgeUnlock(j)
    BY <1>0, <1>9, PcKind DEF JudgeUnlock, Finish, Advance, HoldsLock, JobRecords
  <1>10. CASE ReadJoinPush(j)
    BY <1>0, <1>10, PcKind DEF ReadJoinPush, HoldsLock, JobRecords
  <1>11. CASE CheckBound(j)
    BY <1>0, <1>11, PcKind DEF CheckBound, Finish, Advance, HoldsLock, JobRecords
  <1>12. CASE ReportInternalError(j)
    BY <1>0, <1>12 DEF ReportInternalError, Finish
  <1>13. QED
    BY <1>1, <1>2, <1>3, <1>4, <1>5, <1>6, <1>7, <1>8, <1>9, <1>10, <1>11, <1>12 DEF MoveOn

\* They end the job or leave it with what it knew, out of its transaction.
LEMMA WriteEffect ==
    ASSUME TypeInv, NEW j \in Jobs, Write(j)
    PROVE  /\ \A i \in Jobs \ {j} : job'[i] = job[i]
           /\ UNCHANGED <<comment, endorsed>>
           /\ \/ Finish(j)
              \/ /\ job'[j].kind = job[j].kind /\ job'[j].proof = job[j].proof
                 /\ job[j].kind = "bind" => job'[j].map = job[j].map
                 /\ job'[j].pc \in {"announce", "lock", "fkViolation"}
  <1>0. job \in [Jobs -> JobRecords]
    BY DEF TypeInv, TypeOK
  <1>1. UNCHANGED <<comment, endorsed>>
    BY DEF Write, Announce, CommitBind, CommitComment, GrantUnlock, EquipHat, DeleteSpec
  <1> DEFINE Kept(r) == /\ r.kind = job[j].kind /\ r.proof = job[j].proof
                        /\ job[j].kind = "bind" => r.map = job[j].map
                        /\ r.pc \in {"announce", "lock", "fkViolation"}
  <1>2. ASSUME NEW r, Kept(r), job' = [job EXCEPT ![j] = r]
        PROVE  (\A i \in Jobs \ {j} : job'[i] = job[i]) /\ Kept(job'[j])
    BY <1>0, <1>2
  <1>3. ASSUME Finish(j) PROVE \A i \in Jobs \ {j} : job'[i] = job[i]
    BY <1>0, <1>3 DEF Finish
  <1>4. \A pc, push : Kept([job[j] EXCEPT !.pc = pc, !.push = push])
                      \/ pc \notin {"announce", "lock", "fkViolation"}
    BY <1>0 DEF JobRecords
  <1>5. \A m : Kept([job[j] EXCEPT !.pc = "lock", !.map = m, !.push = {}]) \/ job[j].kind = "bind"
    BY <1>0 DEF JobRecords
  <1>6. Kept([job[j] EXCEPT !.pc = "fkViolation"])
    BY <1>0 DEF JobRecords
  <1>7. \/ Finish(j)
        \/ \E r : Kept(r) /\ job' = [job EXCEPT ![j] = r]
    <2> HIDE DEF Kept
    <2>1. CASE Announce(j)
      BY <1>5, <2>1 DEF Announce
    <2>2. CASE CommitBind(j)
      BY <1>4, <2>2 DEF CommitBind
    <2>3. CASE CommitComment(j)
      BY <1>4, <2>3 DEF CommitComment
    <2>4. CASE EquipHat(j)
      BY <1>4, <2>4 DEF EquipHat
    <2>5. CASE DeleteSpec(j)
      <3>1. Finish(j) \/ job' = [job EXCEPT ![j].pc = "fkViolation"]
        BY <2>5 DEF DeleteSpec, Advance
      <3>2. QED
        BY <1>6, <3>1
    <2>6. QED
      BY <2>1, <2>2, <2>3, <2>4, <2>5 DEF Write, GrantUnlock
  <1>8. QED
    BY <1>1, <1>2, <1>3, <1>7

\* Only the commits of the two binding transactions write map_listing_bind.
LEMMA BindWrites ==
    ASSUME TypeInv, [Next]_vars, bind' # bind
    PROVE  \E j \in Jobs : CommitBind(j) \/ CommitComment(j)
  <1>1. ASSUME NEW j \in Jobs, StartJob(j) PROVE FALSE
    BY <1>1, StartEffect DEF tables
  <1>2. ASSUME NEW j \in Jobs, MoveOn(j) PROVE FALSE
    BY <1>2, MoveOnEffect DEF tables
  <1>3. ASSUME NEW j \in Jobs, Announce(j) \/ GrantUnlock(j) \/ EquipHat(j) \/ DeleteSpec(j) PROVE FALSE
    BY <1>3 DEF Announce, GrantUnlock, GrantHat, EquipHat, Equip, DeleteSpec, Delete, tables
  <1>4. ~Mapper
    BY DEF Mapper, UploadSpec, Upsert, PublishComment, tables
  <1>5. ~UNCHANGED vars
    BY DEF vars, tables
  <1>6. QED
    BY <1>1, <1>2, <1>3, <1>4, <1>5 DEF Next, Step, MoveOn

\* What such a commit writes, and on whose authority.
LEMMA BindCommit ==
    ASSUME TypeInv, NEW j \in Jobs, CommitBind(j), bind' # bind
    PROVE  /\ job[j].map \in Maps /\ job[j].spec \in Specs
           /\ \E purge : Materialize(job[j].map, job[j].spec, job[j].src, purge)
           /\ \/ Verified(job[j].map) /\ bind[job[j].map].spec = job[j].spec
              \/ ~Verified(job[j].map) /\ job[j].proof = Owner[job[j].spec]
              \/ bind[job[j].map].spec = job[j].spec /\ job[j].proof = Owner[job[j].spec]
           /\ job[j].kind = "bind" /\ job[j].pc = "commit"
  <1>1. job[j].map \in Maps /\ job[j].spec \in Specs /\ job[j].kind = "bind" /\ job[j].pc = "commit"
    BY PcKind DEF CommitBind
  <1>2. QED
    BY <1>1 DEF CommitBind, Conflict, tables

\* The commit of a comment bind writes the spec its job names.
LEMMA CommentCommit ==
    ASSUME TypeInv, NEW j \in Jobs, CommitComment(j), bind' # bind
    PROVE  /\ job[j].map \in Maps /\ job[j].spec \in Specs
           /\ \E purge : Materialize(job[j].map, job[j].spec, job[j].src, purge)
           /\ job[j].kind \in {"comment", "recheck"} /\ job[j].pc = "commit"
  <1>1. job[j].map \in Maps /\ job[j].spec \in Specs /\ job[j].pc = "commit"
        /\ job[j].kind \in {"comment", "recheck"}
    BY PcKind DEF CommitComment
  <1>2. QED
    BY <1>1 DEF CommitComment, tables

-----------------------------------------------------------------------------
(* Authority.                                                              *)

\* What a job claims is true: the author it names is Nadeo's, and the spec it
\* follows was named by the map's comment.
Claim(r) ==
    /\ r.kind = "bind" /\ r.proof # Nil => r.proof = NadeoAuthor[r.map]
    /\ r.kind \in {"comment", "recheck"} /\ r.pc \in {"tx", "commit"} => r.spec \in endorsed[r.map]

AuthorityInv ==
    /\ \A m \in Maps : comment[m] \in endorsed[m] \cup {Nil}
    /\ \A j \in Jobs : Claim(job[j])
    /\ BindingIsAuthorized

\* A binding that is verified when a server starts is the map author's.
LEMMA InitVerified ==
    ASSUME Init, NEW m \in Maps, Verified(m)
    PROVE  Owner[bind[m].spec] = NadeoAuthor[m]
  <1>1. CASE TablesInit
    BY <1>1 DEF TablesInit, NoBinding, Verified, Bound
  <1>2. CASE TablesLegacyInit
    <2>1. PICK s \in Specs, n \in Maps :
             bind = [k \in Maps |-> IF k = n THEN [NoBinding EXCEPT !.spec = s] ELSE NoBinding]
      BY <1>2 DEF TablesLegacyInit
    <2>2. bind[m].spec \in {s, Nil} /\ bind[m].author = Nil
      BY <2>1 DEF NoBinding
    <2>3. Owner[s] # Nil
      BY TablesAssumption
    <2>4. QED
      BY <2>2, <2>3 DEF Verified, Bound
  <1>3. CASE TablesBoundInit
    BY <1>3 DEF TablesBoundInit, NoBinding, Verified, Bound
  <1>4. QED
    BY <1>1, <1>2, <1>3 DEF Init

\* A server starts with jobs that claim nothing and bindings of their author.
LEMMA InitAuthority == Init => AuthorityInv
  <1> SUFFICES ASSUME Init PROVE AuthorityInv
    OBVIOUS
  <1> USE TablesAssumption DEF Init, Idle
  <1>1. \A m \in Maps : comment[m] \in endorsed[m] \cup {Nil}
    OBVIOUS
  <1>2. \A j \in Jobs : Claim(job[j])
    BY DEF Claim, NoJob
  <1>3. BindingIsAuthorized
    BY InitVerified DEF BindingIsAuthorized
  <1>4. QED
    BY <1>1, <1>2, <1>3 DEF AuthorityInv

\* No job comes to claim what is not so.
LEMMA ClaimsStep ==
    ASSUME TypeInv, AuthorityInv, [Next]_vars
    PROVE  /\ \A m \in Maps : comment'[m] \in endorsed'[m] \cup {Nil} /\ endorsed[m] \subseteq endorsed'[m]
           /\ \A j \in Jobs : Claim(job[j])'
  <1> USE DEF AuthorityInv, Claim
  <1>0. job \in [Jobs -> JobRecords] /\ NoJob.kind = "none"
    BY DEF TypeInv, TypeOK, NoJob
  <1>1. ASSUME NEW j \in Jobs, StartJob(j)
        PROVE  UNCHANGED <<comment, endorsed>> /\ \A i \in Jobs : Claim(job[i])'
    BY <1>1, StartEffect
  <1>2. ASSUME NEW j \in Jobs, MoveOn(j)
        PROVE  UNCHANGED <<comment, endorsed>> /\ \A i \in Jobs : Claim(job[i])'
    <2>1. UNCHANGED <<comment, endorsed>> /\ \A i \in Jobs \ {j} : job'[i] = job[i]
      BY <1>2, MoveOnEffect
    <2>2. job[j].kind \in {"comment", "recheck"} => job[j].map \in Maps
      BY PcKind
    <2>3. CASE Finish(j)
      <3>1. job'[j] = NoJob
        BY <1>0, <2>3 DEF Finish
      <3>2. QED
        BY <1>0, <2>1, <3>1
    <2>4. CASE ~Finish(j)
      <3>1. /\ job'[j].kind = job[j].kind /\ job'[j].map = job[j].map
            /\ \/ job'[j].proof = job[j].proof
               \/ job[j].kind = "bind" /\ job'[j].proof = NadeoAuthor[job[j].map]
               \/ job[j].kind = "unlock"
            /\ job[j].kind \in {"comment", "recheck"} /\ job'[j].pc \in {"tx", "commit"} =>
                  \/ job[j].pc = "tx" /\ job'[j].spec = job[j].spec
                  \/ job'[j].spec = comment[job[j].map] /\ comment[job[j].map] # Nil
        BY <1>2, <2>4, MoveOnEffect
      <3>2. Claim(job[j])
        OBVIOUS
      <3>3. Claim(job[j])'
        BY <2>1, <2>2, <3>1, <3>2
      <3>4. QED
        BY <2>1, <3>3
    <2>5. QED
      BY <2>3, <2>4
  <1>3. ASSUME NEW j \in Jobs, Write(j)
        PROVE  UNCHANGED <<comment, endorsed>> /\ \A i \in Jobs : Claim(job[i])'
    BY <1>0, <1>3, WriteEffect DEF Finish
  <1>4. ASSUME Mapper
        PROVE  /\ \A m \in Maps : comment'[m] \in endorsed'[m] \cup {Nil} /\ endorsed[m] \subseteq endorsed'[m]
               /\ UNCHANGED job
    <2>1. CASE UNCHANGED <<comment, endorsed, job>>
      BY <2>1
    <2>2. ASSUME NEW m \in Maps, NEW s \in Specs \cup {Nil}, PublishComment(m, s)
          PROVE  /\ \A n \in Maps : comment'[n] \in endorsed'[n] \cup {Nil} /\ endorsed[n] \subseteq endorsed'[n]
                 /\ UNCHANGED job
      BY <2>2 DEF PublishComment, Edit, TypeInv, TypeOK
    <2>3. QED
      BY <1>4, <2>1, <2>2 DEF Mapper, UploadSpec, Edit
  <1>5. ASSUME Mapper PROVE \A j \in Jobs : Claim(job[j])'
    <2>1. \A j \in Jobs : job[j].kind \in {"comment", "recheck"} => job[j].map \in Maps
      BY PcKind
    <2>2. QED
      BY <1>4, <1>5, <2>1
  <1>6. CASE UNCHANGED vars
    BY <1>6 DEF vars
  <1>7. QED
    BY <1>1, <1>2, <1>3, <1>4, <1>5, <1>6 DEF Next, Step, MoveOn, Write

\* A commit binds on authority, and every other step leaves the binding alone.
LEMMA AuthorityStep == TypeInv /\ AuthorityInv /\ [Next]_vars => AuthorityInv'
  <1> SUFFICES ASSUME TypeInv, AuthorityInv, [Next]_vars PROVE AuthorityInv'
    OBVIOUS
  <1> USE TablesAssumption
  <1>1. \A m \in Maps : endorsed[m] \subseteq endorsed'[m]
    BY ClaimsStep
  <1>2. BindingIsAuthorized
    BY DEF AuthorityInv
  <1>3. ASSUME bind' = bind PROVE BindingIsAuthorized'
    BY <1>1, <1>2, <1>3 DEF BindingIsAuthorized, Verified, Bound
  <1>4. ASSUME NEW m \in Maps, NEW s \in Specs, NEW src, NEW purge, Materialize(m, s, src, purge),
               Owner[s] = NadeoAuthor[m] \/ s \in endorsed[m]
        PROVE  BindingIsAuthorized'
    <2>1. bind \in [Maps -> [spec : Specs \cup {Nil}, author : Users \cup {Nil}, mat : 0 .. MaxRev]]
      BY DEF TypeInv, TypeOK, TablesTypeOK
    <2>2. bind'[m].spec = s /\ \A n \in Maps \ {m} : bind'[n] = bind[n]
      BY <1>4, <2>1 DEF Materialize
    <2>3. QED
      BY <1>1, <1>2, <1>4, <2>2 DEF BindingIsAuthorized, Verified, Bound
  <1>5. ASSUME NEW j \in Jobs, CommitBind(j), bind' # bind PROVE BindingIsAuthorized'
    <2> DEFINE m == job[j].map
               s == job[j].spec
    <2>1. /\ m \in Maps /\ s \in Specs /\ \E purge : Materialize(m, s, job[j].src, purge)
          /\ job[j].kind = "bind"
          /\ (Verified(m) /\ bind[m].spec = s) \/ job[j].proof = Owner[s]
      BY <1>5, BindCommit
    <2>2. Owner[s] \in Users
      BY <2>1
    <2>3. job[j].proof = Owner[s] => Owner[s] = NadeoAuthor[m]
      BY <2>1, <2>2 DEF AuthorityInv, Claim
    <2>4. Owner[s] = NadeoAuthor[m] \/ s \in endorsed[m]
      BY <1>2, <2>1, <2>3 DEF BindingIsAuthorized
    <2>5. QED
      BY <1>4, <2>1, <2>4
  <1>6. ASSUME NEW j \in Jobs, CommitComment(j), bind' # bind PROVE BindingIsAuthorized'
    <2>1. job[j].spec \in endorsed[job[j].map]
      BY <1>6, CommentCommit DEF AuthorityInv, Claim
    <2>2. QED
      BY <1>4, <1>6, <2>1, CommentCommit
  <1>7. BindingIsAuthorized'
    BY <1>3, <1>5, <1>6, BindWrites
  <1>8. QED
    BY <1>7, ClaimsStep DEF AuthorityInv

\* Request 81 cannot move a verified binding: Conflict refuses it.
LEMMA RebindStep ==
    ASSUME TypeInv, [Next]_vars, NEW m \in Maps, Verified(m), bind'[m].spec # bind[m].spec
    PROVE  \E j \in Jobs : /\ job[j].pc = "commit"
                          /\ job[j].kind \in {"comment", "recheck"}
                          /\ job[j].map = m /\ job[j].spec = bind'[m].spec
  <1>0. bind \in [Maps -> [spec : Specs \cup {Nil}, author : Users \cup {Nil}, mat : 0 .. MaxRev]]
    BY DEF TypeInv, TypeOK, TablesTypeOK
  <1>1. ASSUME NEW n \in Maps, NEW s \in Specs, NEW src, NEW purge, Materialize(n, s, src, purge)
        PROVE  m = n /\ bind'[m].spec = s
    <2>1. bind'[n].spec = s /\ \A k \in Maps \ {n} : bind'[k] = bind[k]
      BY <1>0, <1>1 DEF Materialize
    <2>2. QED
      BY <2>1
  <1>2. ASSUME NEW j \in Jobs, CommitBind(j) PROVE FALSE
    <2>1. m = job[j].map /\ bind'[m].spec = job[j].spec
      BY <1>1, <1>2, BindCommit
    <2>2. Verified(m) => bind[m].spec = job[j].spec
      BY <1>2, <2>1, BindCommit DEF Verified
    <2>3. QED
      BY <2>1, <2>2
  <1>3. ASSUME NEW j \in Jobs, CommitComment(j)
        PROVE  /\ job[j].pc = "commit" /\ job[j].kind \in {"comment", "recheck"}
               /\ job[j].map = m /\ job[j].spec = bind'[m].spec
    BY <1>1, <1>3, CommentCommit
  <1>4. QED
    BY <1>2, <1>3, BindWrites

-----------------------------------------------------------------------------
(* The rows.                                                               *)

\* What a step may do to the tables, and what its job knew when it did it.
LEMMA RowWrites ==
    ASSUME TypeInv, [Next]_vars
    PROVE  \/ UNCHANGED tables
           \/ \E j \in Jobs :
                 /\ job[j].pc = "commit" /\ job[j].map \in Maps /\ job[j].spec \in Specs
                 /\ \E purge : Materialize(job[j].map, job[j].spec, job[j].src, purge)
           \/ \E j \in Jobs :
                 /\ job[j].pc = "grant" /\ job[j].user \in Users /\ job[j].map \in Maps
                 /\ job[j].slug \in Slugs /\ job[j].proof = onMap[job[j].map][job[j].slug]
                 /\ job[j].proof \in Criteria /\ Usable(job[j].map)
                 /\ GrantHat(job[j].user, job[j].map, job[j].slug)
           \/ \E u \in Users, m \in Maps, h \in Slugs \cup {Nil} :
                 /\ h = Nil \/ (Usable(m) /\ onMap[m][h] # Nil /\ unlocked[<<u, m, h>>] # Nil)
                 /\ Equip(u, m, h)
           \/ \E s \in Specs : ~SpecLocked(s) /\ Delete(s)
           \/ \E s \in Specs, c \in Catalogs : ~SpecLocked(s) /\ Upsert(s, c)
  <1>1. ASSUME NEW j \in Jobs, StartJob(j) PROVE UNCHANGED tables
    BY <1>1, StartEffect
  <1>2. ASSUME NEW j \in Jobs, MoveOn(j) PROVE UNCHANGED tables
    BY <1>2, MoveOnEffect
  <1>3. ASSUME NEW j \in Jobs, Announce(j) PROVE UNCHANGED tables
    BY <1>3 DEF Announce
  <1>4. ASSUME NEW j \in Jobs, CommitBind(j)
        PROVE  \/ UNCHANGED tables
               \/ /\ job[j].pc = "commit" /\ job[j].map \in Maps /\ job[j].spec \in Specs
                  /\ \E purge : Materialize(job[j].map, job[j].spec, job[j].src, purge)
    BY <1>4, PcKind DEF CommitBind
  <1>5. ASSUME NEW j \in Jobs, CommitComment(j)
        PROVE  \/ UNCHANGED tables
               \/ /\ job[j].pc = "commit" /\ job[j].map \in Maps /\ job[j].spec \in Specs
                  /\ \E purge : Materialize(job[j].map, job[j].spec, job[j].src, purge)
    BY <1>5, PcKind DEF CommitComment
  <1>6. ASSUME NEW j \in Jobs, GrantUnlock(j)
        PROVE  \/ UNCHANGED tables
               \/ /\ job[j].pc = "grant" /\ job[j].user \in Users /\ job[j].map \in Maps
                  /\ job[j].slug \in Slugs /\ job[j].proof = onMap[job[j].map][job[j].slug]
                  /\ job[j].proof \in Criteria /\ Usable(job[j].map)
                  /\ GrantHat(job[j].user, job[j].map, job[j].slug)
    <2>1. /\ job[j].pc = "grant" /\ job[j].user \in Users /\ job[j].map \in Maps
          /\ job[j].slug \in Slugs /\ job[j].kind = "unlock"
      BY <1>6, PcKind DEF GrantUnlock
    <2>2. job[j].proof \in Criteria
      BY <2>1 DEF TypeInv, Shapes, Shape
    <2>3. QED
      BY <1>6, <2>1, <2>2 DEF GrantUnlock, RowUnchanged, UsableFor
  <1>7. ASSUME NEW j \in Jobs, EquipHat(j)
        PROVE  \/ UNCHANGED tables
               \/ \E u \in Users, m \in Maps, h \in Slugs \cup {Nil} :
                     /\ h = Nil \/ (Usable(m) /\ onMap[m][h] # Nil /\ unlocked[<<u, m, h>>] # Nil)
                     /\ Equip(u, m, h)
    <2>1. job[j].user \in Users /\ job[j].map \in Maps
      BY <1>7, PcKind DEF EquipHat
    <2>2. job[j].slug \in Slugs \cup {Nil}
      BY DEF TypeInv, TypeOK, JobRecords
    <2>3. QED
      BY <1>7, <2>1, <2>2 DEF EquipHat
  <1>8. ASSUME NEW j \in Jobs, DeleteSpec(j)
        PROVE  \/ UNCHANGED tables
               \/ \E s \in Specs : ~SpecLocked(s) /\ Delete(s)
    BY <1>8, PcKind DEF DeleteSpec
  <1>9. ASSUME Mapper
        PROVE  \/ UNCHANGED tables
               \/ \E s \in Specs, c \in Catalogs : ~SpecLocked(s) /\ Upsert(s, c)
    BY <1>9 DEF Mapper, UploadSpec, PublishComment
  <1>10. CASE UNCHANGED vars
    BY <1>10 DEF vars
  <1>11. QED
    BY <1>1, <1>2, <1>3, <1>4, <1>5, <1>6, <1>7, <1>8, <1>9, <1>10 DEF Next, Step, MoveOn

\* A transaction comes to its commit with the row it has just locked, a
\* validation to its grant with a proof Nadeo's records satisfy.
LEMMA JobGains ==
    ASSUME TypeInv, [Next]_vars, NEW j \in Jobs, job'[j] # job[j]
    PROVE  /\ job'[j].pc = "commit" =>
                 /\ job'[j].spec \in Specs /\ spec[job'[j].spec].alive
                 /\ job'[j].src = spec[job'[j].spec] /\ spec' = spec
           /\ job'[j].pc = "grant" => <<job'[j].user, job'[j].proof>> \in Earned
  <1>0. job \in [Jobs -> JobRecords] /\ NoJob.pc = "idle"
    BY DEF TypeInv, TypeOK, NoJob
  <1>1. ASSUME NEW i \in Jobs, StartJob(i) PROVE i = j /\ job'[j].pc \notin {"commit", "grant"}
    BY <1>1, StartEffect
  <1>2. ASSUME NEW i \in Jobs, Finish(i) PROVE job'[j] = job[j] \/ job'[j].pc = "idle"
    BY <1>0, <1>2 DEF Finish
  <1>3. ASSUME NEW i \in Jobs, Write(i) PROVE job'[j].pc \notin {"commit", "grant"}
    BY <1>2, <1>3, WriteEffect
  <1>4. ASSUME NEW i \in Jobs, MoveOn(i), ~Finish(i)
        PROVE  /\ job'[j].pc = "commit" =>
                     /\ job'[j].spec \in Specs /\ spec[job'[j].spec].alive
                     /\ job'[j].src = spec[job'[j].spec] /\ spec' = spec
               /\ job'[j].pc = "grant" => <<job'[j].user, job'[j].proof>> \in Earned
    <2>1. i = j /\ UNCHANGED tables
      BY <1>4, MoveOnEffect
    <2>2. job'[j].pc = "commit" => /\ job'[j].spec = job[j].spec /\ job[j].spec \in Specs
                                   /\ job'[j].src = spec[job[j].spec] /\ spec[job[j].spec].alive
      BY <1>4, <2>1, MoveOnEffect
    <2>3. job'[j].user = job[j].user
          /\ (job'[j].pc = "grant" => /\ <<job[j].user, job[j].proof>> \in Earned
                                      /\ job'[j].proof = job[j].proof)
      BY <1>4, <2>1, MoveOnEffect
    <2>4. QED
      BY <2>1, <2>2, <2>3 DEF tables
  <1>5. ~Mapper /\ ~UNCHANGED vars
    BY DEF Mapper, UploadSpec, PublishComment, Edit, vars
  <1>6. QED
    BY <1>1, <1>2, <1>3, <1>4, <1>5 DEF Next, Step, MoveOn, Write

\* A job in its transaction has its spec's row, and holds it.
RowHeld == \A j \in Jobs : job[j].pc = "commit" => /\ job[j].src = spec[job[j].spec]
                                                   /\ spec[job[j].spec].alive

\* No snapshot is newer than its spec.
SnapshotsAreOld == \A m \in Maps : Bound(m) => bind[m].mat <= spec[bind[m].spec].rev

RowsInv == RowHeld /\ SnapshotsAreOld /\ BindingHasSpec /\ UsableMatchesSource

\* The databases a server may start on.
LEMMA InitTables ==
    ASSUME Init
    PROVE  /\ \A m \in Maps : Bound(m) =>
                 /\ spec[bind[m].spec].alive /\ spec[bind[m].spec].rev = 1 /\ bind[m].mat \in {0, 1}
                 /\ onMap[m] = spec[bind[m].spec].hats
           /\ UnlocksWereEarned
           /\ \A m \in Maps, u \in Users : equipped[m][u] # Nil =>
                 onMap[m][equipped[m][u]] # Nil /\ unlocked[<<u, m, equipped[m][u]>>] # Nil
  <1> USE TablesAssumption
  <1>1. ASSUME NEW s \in Specs, spec[s] # NoSpecRow PROVE spec[s].alive /\ spec[s].rev = 1
    <2>1. SpecsUploaded
      BY DEF Init, TablesInit, TablesLegacyInit, TablesBoundInit
    <2>2. QED
      BY <1>1, <2>1 DEF SpecsUploaded
  <1>2. CASE TablesInit
    <2>1. /\ \A m \in Maps : ~Bound(m)
          /\ \A m \in Maps, u \in Users : equipped[m][u] = Nil
      BY <1>2 DEF TablesInit, NoBinding, Bound
    <2>2. unlocked = [k \in Users \X Maps \X Slugs |-> Nil]
      BY <1>2 DEF TablesInit
    <2>3. UnlocksWereEarned
      BY <2>2 DEF UnlocksWereEarned
    <2>4. QED
      BY <2>1, <2>3
  <1>3. CASE TablesLegacyInit
    <2>1. PICK s \in Specs, m \in Maps, u \in Users, h \in Slugs :
             /\ spec[s].hats[h] # Nil
             /\ bind = [n \in Maps |-> IF n = m THEN [NoBinding EXCEPT !.spec = s] ELSE NoBinding]
             /\ onMap = [n \in Maps |-> IF n = m THEN spec[s].hats ELSE NoCatalog]
             /\ unlocked = [k \in Users \X Maps \X Slugs |-> IF k = <<u, m, h>> THEN Legacy ELSE Nil]
             /\ equipped = [n \in Maps |-> [v \in Users |-> IF n = m /\ v = u THEN h ELSE Nil]]
      BY <1>3 DEF TablesLegacyInit
    <2>2. spec[s] # NoSpecRow
      BY <2>1 DEF NoSpecRow, NoCatalog
    <2>3. /\ bind[m].spec = s /\ bind[m].mat = 0 /\ onMap[m] = spec[s].hats
          /\ \A n \in Maps \ {m} : ~Bound(n)
      BY <2>1 DEF NoBinding, Bound
    <2>4. UnlocksWereEarned
      BY <2>1 DEF UnlocksWereEarned
    <2>5. \A n \in Maps, v \in Users : equipped[n][v] # Nil => n = m /\ v = u /\ equipped[n][v] = h
      BY <2>1
    <2>6. onMap[m][h] # Nil /\ unlocked[<<u, m, h>>] # Nil
      BY <2>1
    <2>7. QED
      BY <1>1, <2>2, <2>3, <2>4, <2>5, <2>6
  <1>4. CASE TablesBoundInit
    <2>1. PICK s \in Specs, m \in Maps, proved \in SUBSET Earned :
             /\ spec[s].alive /\ Owner[s] = NadeoAuthor[m]
             /\ bind = [n \in Maps |-> IF n = m THEN [spec |-> s, author |-> Owner[s], mat |-> 1]
                                       ELSE NoBinding]
             /\ onMap = [n \in Maps |-> IF n = m THEN spec[s].hats ELSE NoCatalog]
             /\ unlocked = [k \in Users \X Maps \X Slugs |->
                   IF k[2] = m /\ <<k[1], spec[s].hats[k[3]]>> \in proved
                   THEN spec[s].hats[k[3]] ELSE Nil]
             /\ equipped = [n \in Maps |-> [u \in Users |-> Nil]]
      BY <1>4 DEF TablesBoundInit
    <2>2. spec[s] # NoSpecRow
      BY <2>1 DEF NoSpecRow
    <2>3. /\ bind[m].spec = s /\ bind[m].mat = 1 /\ onMap[m] = spec[s].hats
          /\ \A n \in Maps \ {m} : ~Bound(n)
      BY <2>1 DEF NoBinding, Bound
    <2>4. ASSUME NEW u \in Users, NEW n \in Maps, NEW h \in Slugs, unlocked[<<u, n, h>>] # Nil
          PROVE  <<u, unlocked[<<u, n, h>>]>> \in Earned
      BY <2>1, <2>4
    <2>5. UnlocksWereEarned
      BY <2>4 DEF UnlocksWereEarned
    <2>6. \A n \in Maps, u \in Users : equipped[n][u] = Nil
      BY <2>1
    <2>7. QED
      BY <1>1, <2>2, <2>3, <2>5, <2>6
  <1>5. QED
    BY <1>2, <1>3, <1>4 DEF Init

\* A server starts with no transaction open and rows that agree.
LEMMA InitRows == Init => RowsInv
  <1> SUFFICES ASSUME Init PROVE RowsInv
    OBVIOUS
  <1>1. RowHeld
    BY DEF Init, Idle, NoJob, RowHeld
  <1>2. QED
    BY <1>1, InitTables DEF RowsInv, SnapshotsAreOld, BindingHasSpec, UsableMatchesSource, Usable, Verified

\* The row a transaction holds is neither changed nor deleted under it, so
\* what it writes is what the spec has when it commits.
LEMMA RowsStep == TypeInv /\ RowsInv /\ [Next]_vars => RowsInv'
  <1> SUFFICES ASSUME TypeInv, RowsInv, [Next]_vars PROVE RowsInv'
    OBVIOUS
  <1> USE TablesAssumption DEF RowsInv
  <1>0. /\ spec \in [Specs -> SpecRows] /\ onMap \in [Maps -> Catalogs \cup {NoCatalog}]
        /\ bind \in [Maps -> [spec : Specs \cup {Nil}, author : Users \cup {Nil}, mat : 0 .. MaxRev]]
    BY DEF TypeInv, TypeOK, TablesTypeOK
  <1>00. \A s \in Specs : spec[s].rev \in Nat
    BY <1>0 DEF SpecRows
  <1>1. RowHeld'
    <2>1. ASSUME NEW j \in Jobs, job'[j].pc = "commit", job'[j] = job[j]
          PROVE  (job[j].src = spec[job[j].spec] /\ spec[job[j].spec].alive)'
      <3>1. job[j].pc = "commit" /\ job[j].spec \in Specs /\ SpecLocked(job[j].spec)
        BY <2>1, PcKind DEF SpecLocked
      <3>2. spec'[job[j].spec] = spec[job[j].spec]
        <4>1. ASSUME NEW s \in Specs, ~SpecLocked(s), Delete(s) \/ \E c \in Catalogs : Upsert(s, c)
              PROVE  spec'[job[j].spec] = spec[job[j].spec]
          BY <1>0, <3>1, <4>1 DEF Delete, Upsert
        <4>2. QED
          BY <4>1, RowWrites DEF tables, Materialize, GrantHat, Equip
      <3>3. QED
        BY <2>1, <3>1, <3>2 DEF RowHeld
    <2>2. ASSUME NEW j \in Jobs, job'[j].pc = "commit", job'[j] # job[j]
          PROVE  (job[j].src = spec[job[j].spec] /\ spec[job[j].spec].alive)'
      BY <2>2, JobGains
    <2>3. QED
      BY <2>1, <2>2 DEF RowHeld
  <1>2. CASE UNCHANGED <<spec, bind, onMap>>
    BY <1>1, <1>2 DEF SnapshotsAreOld, BindingHasSpec, UsableMatchesSource, Bound, Verified, Usable
  <1>3. ASSUME NEW j \in Jobs, NEW purge, job[j].pc = "commit", job[j].map \in Maps, job[j].spec \in Specs,
               Materialize(job[j].map, job[j].spec, job[j].src, purge)
        PROVE  RowsInv'
    <2> DEFINE m == job[j].map
               s == job[j].spec
    <2>1. job[j].src = spec[s] /\ spec[s].alive /\ spec' = spec
      BY <1>3 DEF RowHeld, Materialize
    <2>2. /\ bind'[m].spec = s /\ bind'[m].mat = spec[s].rev /\ onMap'[m] = spec[s].hats
          /\ \A n \in Maps \ {m} : bind'[n] = bind[n] /\ onMap'[n] = onMap[n]
      BY <1>0, <1>3, <2>1 DEF Materialize
    <2>3. SnapshotsAreOld' /\ BindingHasSpec'
      BY <1>00, <1>3, <2>1, <2>2 DEF SnapshotsAreOld, BindingHasSpec, Bound
    <2>4. UsableMatchesSource'
      BY <2>1, <2>2 DEF UsableMatchesSource, Bound, Verified, Usable
    <2>5. QED
      BY <1>1, <2>3, <2>4
  <1>4. ASSUME NEW s \in Specs, Delete(s) PROVE RowsInv'
    <2>1. /\ UNCHANGED <<bind, onMap>> /\ \A m \in Maps : bind[m].spec # s
          /\ \A r \in Specs \ {s} : spec'[r] = spec[r]
      BY <1>0, <1>4 DEF Delete
    <2>2. \A m \in Maps : Bound(m) => bind[m].spec \in Specs \ {s}
      BY <1>0, <2>1 DEF Bound
    <2>3. QED
      BY <1>1, <2>1, <2>2 DEF SnapshotsAreOld, BindingHasSpec, UsableMatchesSource, Bound, Verified, Usable
  <1>5. ASSUME NEW s \in Specs, NEW c \in Catalogs, Upsert(s, c) PROVE RowsInv'
    <2>1. /\ UNCHANGED <<bind, onMap>> /\ spec'[s].rev = spec[s].rev + 1 /\ spec'[s].alive
          /\ \A r \in Specs \ {s} : spec'[r] = spec[r]
      BY <1>0, <1>5 DEF Upsert
    <2>2. \A m \in Maps : Bound(m) => bind[m].spec \in Specs /\ bind[m].mat \in Nat
      BY <1>0 DEF Bound
    <2>3. SnapshotsAreOld' /\ BindingHasSpec'
      BY <1>00, <2>1, <2>2 DEF SnapshotsAreOld, BindingHasSpec, Bound
    <2>4. \A m \in Maps : Usable(m)' => Usable(m) /\ bind[m].spec # s
      BY <1>00, <2>1, <2>2 DEF SnapshotsAreOld, Bound, Verified, Usable
    <2>5. UsableMatchesSource'
      BY <2>1, <2>2, <2>4 DEF UsableMatchesSource, Verified, Usable
    <2>6. QED
      BY <1>1, <2>3, <2>5
  <1>6. QED
    BY <1>2, <1>3, <1>4, <1>5, RowWrites DEF tables, GrantHat, Equip

-----------------------------------------------------------------------------
(* Unlocks and hats.                                                       *)

\* A validation that is about to grant holds a proof.
ProofsHold == \A j \in Jobs : job[j].pc = "grant" => <<job[j].user, job[j].proof>> \in Earned

UnlockInv == ProofsHold /\ UnlocksWereEarned

\* A server starts with unlocks that were earned.
LEMMA InitUnlock == Init => UnlockInv
  BY InitTables DEF Init, Idle, NoJob, UnlockInv, ProofsHold

\* The one insert compares the row it reads with the one that was judged.
LEMMA UnlockStep == TypeInv /\ UnlockInv /\ [Next]_vars => UnlockInv'
  <1> SUFFICES ASSUME TypeInv, UnlockInv, [Next]_vars PROVE UnlockInv'
    OBVIOUS
  <1>1. ProofsHold'
    BY JobGains DEF UnlockInv, ProofsHold
  <1>2. CASE UNCHANGED unlocked
    BY <1>1, <1>2 DEF UnlockInv, UnlocksWereEarned
  <1>3. ASSUME NEW j \in Jobs, job[j].pc = "grant", job[j].user \in Users, job[j].map \in Maps,
               job[j].slug \in Slugs, job[j].proof = onMap[job[j].map][job[j].slug],
               GrantHat(job[j].user, job[j].map, job[j].slug)
        PROVE  UnlocksWereEarned'
    <2> DEFINE k == <<job[j].user, job[j].map, job[j].slug>>
    <2>1. unlocked \in [Users \X Maps \X Slugs -> Criteria \cup {Legacy, Nil}] /\ k \in Users \X Maps \X Slugs
      BY <1>3 DEF TypeInv, TypeOK, TablesTypeOK
    <2>2. <<job[j].user, job[j].proof>> \in Earned
      BY <1>3 DEF UnlockInv, ProofsHold
    <2>3. /\ unlocked'[k] \in {unlocked[k], job[j].proof}
          /\ \A i \in (Users \X Maps \X Slugs) \ {k} : unlocked'[i] = unlocked[i]
      BY <1>3, <2>1 DEF GrantHat
    <2>4. ASSUME NEW u \in Users, NEW m \in Maps, NEW h \in Slugs, unlocked'[<<u, m, h>>] \in Criteria
          PROVE  <<u, unlocked'[<<u, m, h>>]>> \in Earned
      <3>1. CASE unlocked'[<<u, m, h>>] = unlocked[<<u, m, h>>]
        BY <2>4, <3>1 DEF UnlockInv, UnlocksWereEarned
      <3>2. CASE unlocked'[<<u, m, h>>] # unlocked[<<u, m, h>>]
        <4>1. <<u, m, h>> \in Users \X Maps \X Slugs
          OBVIOUS
        <4>2. <<u, m, h>> = k /\ unlocked'[k] = job[j].proof
          BY <2>3, <3>2, <4>1
        <4>3. u = job[j].user
          BY <4>2
        <4>4. QED
          BY <2>2, <4>2, <4>3
      <3>3. QED
        BY <3>1, <3>2
    <2>5. QED
      BY <2>4 DEF UnlocksWereEarned
  <1>4. QED
    BY <1>1, <1>2, <1>3, RowWrites DEF UnlockInv, tables, Materialize, Equip, Delete, Upsert

\* What is worn is on the map and unlocked, whether or not the map is usable.
WornIsBacked ==
    \A m \in Maps, u \in Users : equipped[m][u] # Nil =>
        onMap[m][equipped[m][u]] # Nil /\ unlocked[<<u, m, equipped[m][u]>>] # Nil

\* Where hats are live, whatever equipped_push_entry shows as worn is on the map
\* and was unlocked.
EquippedIsBacked ==
    \A m \in Maps, u \in Users :
        LET h == equipped[m][u]
        IN  (Usable(m) /\ h # Nil) => onMap[m][h] # Nil /\ unlocked[<<u, m, h>>] # Nil

\* A hat is put on under the conditions; a new catalog takes off what it lacks.
LEMMA WornStep == TypeInv /\ WornIsBacked /\ [Next]_vars => WornIsBacked'
  <1> SUFFICES ASSUME TypeInv, WornIsBacked, [Next]_vars PROVE WornIsBacked'
    OBVIOUS
  <1>0. /\ onMap \in [Maps -> Catalogs \cup {NoCatalog}] /\ equipped \in [Maps -> [Users -> Slugs \cup {Nil}]]
        /\ unlocked \in [Users \X Maps \X Slugs -> Criteria \cup {Legacy, Nil}]
    BY DEF TypeInv, TypeOK, TablesTypeOK
  <1>1. CASE UNCHANGED <<onMap, unlocked, equipped>>
    BY <1>1 DEF WornIsBacked
  <1>2. ASSUME NEW n \in Maps, NEW s \in Specs, NEW src, NEW purge, Materialize(n, s, src, purge)
        PROVE  WornIsBacked'
    <2>1. /\ onMap'[n] = src.hats /\ unlocked' = unlocked
          /\ \A m \in Maps \ {n} : onMap'[m] = onMap[m] /\ equipped'[m] = equipped[m]
      BY <1>0, <1>2 DEF Materialize
    <2>2. \A u \in Users : equipped'[n][u] = IF u \in TakenOff(n, src, purge) THEN Nil ELSE equipped[n][u]
      BY <1>0, <1>2 DEF Materialize
    <2>3. ASSUME NEW u \in Users, equipped[n][u] # Nil, u \notin TakenOff(n, src, purge)
          PROVE  src.hats[equipped[n][u]] # Nil
      BY <2>3 DEF TakenOff, Unmatched, Wearers
    <2>4. QED
      BY <2>1, <2>2, <2>3 DEF WornIsBacked
  <1>3. ASSUME NEW v \in Users, NEW n \in Maps, NEW h \in Slugs, GrantHat(v, n, h)
        PROVE  WornIsBacked'
    <2>1. UNCHANGED <<onMap, equipped>>
      BY <1>3 DEF GrantHat
    <2>2. \A k \in Users \X Maps \X Slugs : unlocked[k] # Nil => unlocked'[k] = unlocked[k]
      BY <1>0, <1>3 DEF GrantHat
    <2>3. ASSUME NEW m \in Maps, NEW u \in Users, equipped[m][u] # Nil
          PROVE  <<u, m, equipped[m][u]>> \in Users \X Maps \X Slugs
      BY <1>0, <2>3
    <2>4. QED
      BY <2>1, <2>2, <2>3 DEF WornIsBacked
  <1>4. ASSUME NEW v \in Users, NEW n \in Maps, NEW h \in Slugs \cup {Nil}, Equip(v, n, h),
               h = Nil \/ (onMap[n][h] # Nil /\ unlocked[<<v, n, h>>] # Nil)
        PROVE  WornIsBacked'
    <2>1. /\ UNCHANGED <<onMap, unlocked>>
          /\ \A m \in Maps, u \in Users : equipped'[m][u] = IF m = n /\ u = v THEN h ELSE equipped[m][u]
      BY <1>0, <1>4 DEF Equip
    <2>2. QED
      BY <1>4, <2>1 DEF WornIsBacked
  <1>5. QED
    BY <1>1, <1>2, <1>3, <1>4, RowWrites DEF tables, Delete, Upsert

-----------------------------------------------------------------------------
(* Broadcasts.                                                             *)

\* The user's hat on the map is another after the step, or a removal nobody
\* was told of is forgotten by it.
Touched(m, u) ==
    equipped'[m][u] # equipped[m][u] \/ (<<m, u>> \in silent /\ <<m, u>> \notin silent')

\* An entry of a push that is due is what the user wears, or announces that a
\* hat is off; every push read before that is of hats that are off.
Current(r) ==
    \A v \in Users, h \in Slugs \cup {Nil} : <<v, h>> \in r.push =>
        \/ h = Nil
        \/ r.pc = "announce" /\ (equipped[r.map][v] = h \/ <<r.map, v>> \in silent)

\* A push for u on m is due.
Due(r, m, u) == r.pc = "announce" /\ r.map = m /\ \E h \in Slugs \cup {Nil} : <<u, h>> \in r.push

\* Whoever changes a hat says so, under the map's lock, or the change is one of
\* the silent ones.
LEMMA HatEffect ==
    ASSUME TypeInv, NEW j \in Jobs,
           CommitBind(j) \/ CommitComment(j) \/ GrantUnlock(j) \/ EquipHat(j) \/ DeleteSpec(j)
    PROVE  /\ UNCHANGED shown /\ job[j].pc # "announce"
           /\ \A i \in Jobs \ {j} : job'[i] = job[i]
           /\ \/ Finish(j)
              \/ /\ mapLock' = mapLock /\ job'[j].map = job[j].map
                 /\ HoldsLock(job'[j]) => HoldsLock(job[j])
           /\ \A m \in Maps, u \in Users : Touched(m, u) =>
                 /\ m = job[j].map
                 /\ <<m, u>> \in silent' \/ (HoldsLock(job[j]) /\ Due(job'[j], m, u))
           /\ Current(job[j]) => Current(job[j])'
  <1>0. /\ job \in [Jobs -> JobRecords] /\ NoJob.push = {}
        /\ equipped \in [Maps -> [Users -> Slugs \cup {Nil}]]
    BY DEF TypeInv, TypeOK, TablesTypeOK, NoJob
  <1>1. Finish(j) => (\A i \in Jobs \ {j} : job'[i] = job[i]) /\ Current(job[j])'
    BY <1>0 DEF Finish, Current
  <1>2. ASSUME NEW m \in Maps, NEW s, NEW src, NEW purge, Materialize(m, s, src, purge)
        PROVE  \A n \in Maps, u \in Users : equipped'[n][u] # equipped[n][u] =>
                  n = m /\ u \in TakenOff(m, src, purge)
    BY <1>0, <1>2 DEF Materialize
  <1>3. CASE CommitBind(j)
    <2> DEFINE m == job[j].map
               off == TakenOff(m, job[j].src, RowFound(j) /\ ~Verified(m))
               r == [job[j] EXCEPT !.pc = "announce", !.push = Push(off)]
    <2>1. /\ job[j].pc = "commit" /\ job[j].kind = "bind" /\ m \in Maps
          /\ UNCHANGED <<shown, silent>> /\ HoldsLock(job[j])
      BY <1>3, PcKind DEF CommitBind, HoldsLock
    <2>2. \/ Finish(j) /\ UNCHANGED tables
          \/ /\ Materialize(m, job[j].spec, job[j].src, RowFound(j) /\ ~Verified(m))
             /\ job' = [job EXCEPT ![j] = r] /\ UNCHANGED mapLock
      BY <1>3 DEF CommitBind
    <2>3. /\ r.map = m /\ r.pc = "announce" /\ r.push = Push(off)
      BY <1>0 DEF JobRecords
    <2> HIDE DEF r, off
    <2>4. CASE Finish(j) /\ UNCHANGED tables
      BY <1>1, <2>1, <2>4 DEF Touched, tables
    <2>5. CASE ~(Finish(j) /\ UNCHANGED tables)
      <3>1. job'[j] = r /\ UNCHANGED mapLock /\ \A i \in Jobs \ {j} : job'[i] = job[i]
        BY <1>0, <2>2, <2>5
      <3>2. \A n \in Maps, u \in Users : Touched(n, u) => n = m /\ u \in off
        BY <1>2, <2>1, <2>2, <2>5 DEF Touched, off
      <3>3. \A u \in Users : u \in off => Due(r, m, u)
        BY <2>3 DEF Due, Push
      <3>4. \A v, h : <<v, h>> \in job'[j].push => h = Nil
        BY <2>3, <3>1 DEF Push
      <3>5. Current(job[j])'
        BY <3>4 DEF Current
      <3>6. QED
        BY <2>1, <2>3, <3>1, <3>2, <3>3, <3>5
    <2>6. QED
      BY <2>4, <2>5
  <1>4. CASE CommitComment(j)
    <2> DEFINE m == job[j].map
               replaced == RowFound(j) /\ job[j].seen # job[j].spec
               off == TakenOff(m, job[j].src, replaced)
               told == IF replaced /\ job[j].kind = "comment" THEN off ELSE {}
               r == [job[j] EXCEPT !.pc = "announce", !.push = Push(told)]
    <2>1. /\ job[j].pc = "commit" /\ job[j].kind \in {"comment", "recheck"} /\ m \in Maps
          /\ UNCHANGED shown
          /\ job[j].kind = "comment" => HoldsLock(job[j])
      BY <1>4, PcKind DEF CommitComment, HoldsLock
    <2>2. \/ Finish(j) /\ UNCHANGED <<tables, silent>>
          \/ /\ Materialize(m, job[j].spec, job[j].src, replaced)
             /\ silent' = silent \cup ({m} \X (off \ told))
             /\ \/ job[j].kind = "comment" /\ job' = [job EXCEPT ![j] = r] /\ UNCHANGED mapLock
                \/ job[j].kind # "comment" /\ Finish(j)
      BY <1>4 DEF CommitComment
    <2>3. /\ r.map = m /\ r.pc = "announce" /\ r.push = Push(told)
          /\ told \subseteq off /\ (job[j].kind # "comment" => told = {})
      BY <1>0 DEF JobRecords
    <2>4. \A u \in off : u \in Users
      BY DEF TakenOff, Wearers, Unmatched
    <2> HIDE DEF r, off, told, replaced
    <2>5. CASE Finish(j) /\ UNCHANGED <<tables, silent>>
      BY <1>1, <2>1, <2>5 DEF Touched, tables
    <2>6. CASE ~(Finish(j) /\ UNCHANGED <<tables, silent>>)
      <3>1. \A n \in Maps, u \in Users : Touched(n, u) =>
               n = m /\ u \in off /\ (u \in told \/ <<n, u>> \in silent')
        BY <1>2, <2>1, <2>2, <2>6 DEF Touched, off
      <3>2. CASE job[j].kind = "comment"
        <4>1. job'[j] = r /\ UNCHANGED mapLock /\ \A i \in Jobs \ {j} : job'[i] = job[i]
          BY <1>0, <2>2, <2>6, <3>2
        <4>2. \A u \in Users : u \in told => Due(r, m, u)
          BY <2>3 DEF Due, Push
        <4>3. \A v, h : <<v, h>> \in job'[j].push => h = Nil
          BY <2>3, <4>1 DEF Push
        <4>4. Current(job[j])'
          BY <4>3 DEF Current
        <4>5. QED
          BY <2>1, <2>3, <3>1, <3>2, <4>1, <4>2, <4>4
      <3>3. CASE job[j].kind # "comment"
        BY <1>1, <2>1, <2>2, <2>3, <2>6, <3>1, <3>3
      <3>4. QED
        BY <3>2, <3>3
    <2>7. QED
      BY <2>5, <2>6
  <1>5. CASE EquipHat(j)
    <2> DEFINE m == job[j].map
               u == job[j].user
               h == job[j].slug
               r == [job[j] EXCEPT !.pc = "announce", !.push = {<<u, h>>}]
    <2>1. /\ job[j].pc = "equip" /\ m \in Maps /\ u \in Users /\ UNCHANGED shown
          /\ HoldsLock(job[j]) /\ h \in Slugs \cup {Nil}
      BY <1>0, <1>5, PcKind DEF EquipHat, HoldsLock, JobRecords
    <2>2. \/ Finish(j) /\ UNCHANGED <<tables, silent>>
          \/ /\ Equip(u, m, h) /\ silent' = silent \ {<<m, u>>}
             /\ job' = [job EXCEPT ![j] = r] /\ UNCHANGED mapLock
      BY <1>5 DEF EquipHat
    <2>3. r.map = m /\ r.pc = "announce" /\ r.push = {<<u, h>>}
      BY <1>0 DEF JobRecords
    <2> HIDE DEF r
    <2>4. CASE Finish(j) /\ UNCHANGED <<tables, silent>>
      BY <1>1, <2>1, <2>4 DEF Touched, tables
    <2>5. CASE ~(Finish(j) /\ UNCHANGED <<tables, silent>>)
      <3>1. job'[j] = r /\ UNCHANGED mapLock /\ \A i \in Jobs \ {j} : job'[i] = job[i]
        BY <1>0, <2>2, <2>5
      <3>2. /\ equipped'[m][u] = h
            /\ \A n \in Maps, v \in Users : Touched(n, v) => n = m /\ v = u
        BY <1>0, <2>1, <2>2, <2>5 DEF Touched, Equip
      <3>3. Due(r, m, u)
        BY <2>1, <2>3 DEF Due
      <3>4. \A v, g : <<v, g>> \in job'[j].push => v = u /\ g = h
        BY <2>3, <3>1
      <3>5. job'[j].pc = "announce" /\ job'[j].map = m
        BY <2>3, <3>1
      <3>6. Current(job[j])'
        BY <3>2, <3>4, <3>5 DEF Current
      <3>7. QED
        BY <2>1, <2>3, <3>1, <3>2, <3>3, <3>6
    <2>6. QED
      BY <2>4, <2>5
  <1>6. CASE GrantUnlock(j)
    BY <1>1, <1>6 DEF GrantUnlock, GrantHat, tables, Touched
  <1>7. CASE DeleteSpec(j)
    <2> DEFINE r == [job[j] EXCEPT !.pc = "fkViolation"]
    <2>1. /\ job[j].pc = "delete" /\ job[j].kind = "delete" /\ UNCHANGED <<shown, silent, equipped>>
      BY <1>7, PcKind DEF DeleteSpec, Delete, tables
    <2>2. Finish(j) \/ (job' = [job EXCEPT ![j] = r] /\ UNCHANGED mapLock)
      BY <1>7 DEF DeleteSpec, Advance
    <2>3. r.map = job[j].map /\ r.push = job[j].push /\ r.kind = "delete"
      BY <1>0, <2>1 DEF JobRecords
    <2> HIDE DEF r
    <2>4. CASE Finish(j)
      BY <1>1, <2>1, <2>4 DEF Touched
    <2>5. CASE ~Finish(j)
      <3>1. job'[j] = r /\ UNCHANGED mapLock /\ \A i \in Jobs \ {j} : job'[i] = job[i]
        BY <1>0, <2>2, <2>5
      <3>2. ~HoldsLock(r)
        BY <2>3 DEF HoldsLock
      <3>3. Current(job[j]) => Current(job[j])'
        BY <2>1, <2>3, <3>1 DEF Current
      <3>4. QED
        BY <2>1, <2>3, <3>1, <3>2, <3>3 DEF Touched
    <2>6. QED
      BY <2>4, <2>5
  <1>8. QED
    BY <1>3, <1>4, <1>5, <1>6, <1>7

\* No two jobs are under one map's lock.
MapLockExcludes == \A j \in Jobs : HoldsLock(job[j]) => mapLock[job[j].map] = j

\* A hat shown that is not worn is about to be taken down, unless it came off
\* silently.
ChangesAreDue ==
    \A m \in Maps, u \in Users :
        (shown[m][u] \notin {Nil, equipped[m][u]} /\ <<m, u>> \notin silent) =>
            \E j \in Jobs : Due(job[j], m, u)

BroadcastInv == MapLockExcludes /\ (\A j \in Jobs : Current(job[j])) /\ ChangesAreDue

\* A server starts with nothing shown and no lock held.
LEMMA InitBroadcast == Init => BroadcastInv
  BY DEF Init, Idle, NoJob, BroadcastInv, MapLockExcludes, HoldsLock, ChangesAreDue, Current

\* A due push belongs to whoever holds the lock of its map.
LEMMA DueHoldsLock ==
    ASSUME TypeInv, MapLockExcludes, NEW j \in Jobs, NEW m \in Maps, NEW u \in Users, Due(job[j], m, u)
    PROVE  HoldsLock(job[j]) /\ mapLock[m] = j
  BY PcKind DEF MapLockExcludes, Due, HoldsLock

\* Where no hat changes and no push is lost, what is due is still due.
LEMMA DueKept ==
    ASSUME BroadcastInv, UNCHANGED <<equipped, shown, silent>>,
           \A i \in Jobs, m \in Maps, u \in Users : Due(job[i], m, u) => Due(job'[i], m, u)
    PROVE  ChangesAreDue'
  <1>1. ASSUME NEW m \in Maps, NEW u \in Users,
               shown'[m][u] \notin {Nil, equipped'[m][u]}, <<m, u>> \notin silent'
        PROVE  \E i \in Jobs : Due(job'[i], m, u)
    BY <1>1 DEF BroadcastInv, ChangesAreDue
  <1>2. QED
    BY <1>1 DEF ChangesAreDue, Due

\* A job that starts changes no hat, ends no push and takes no lock.
LEMMA StartBroadcast ==
    ASSUME TypeInv, BroadcastInv, NEW j \in Jobs, StartJob(j)
    PROVE  BroadcastInv'
  <1>1. /\ \A i \in Jobs \ {j} : job'[i] = job[i]
        /\ UNCHANGED <<mapLock, equipped, shown, silent>>
        /\ ~HoldsLock(job'[j])
        /\ \A v \in Users, h \in Slugs \cup {Nil} : <<v, h>> \in job'[j].push => h = Nil
        /\ job[j].pc = "idle"
    BY StartEffect DEF tables, NoJob
  <1>2. MapLockExcludes'
    BY <1>1 DEF BroadcastInv, MapLockExcludes, HoldsLock
  <1>3. \A i \in Jobs : Current(job[i])'
    BY <1>1 DEF BroadcastInv, Current
  <1>4. \A i \in Jobs, m \in Maps, u \in Users : Due(job[i], m, u) => Due(job'[i], m, u)
    BY <1>1 DEF Due
  <1>5. ChangesAreDue'
    BY <1>1, <1>4, DueKept
  <1>6. QED
    BY <1>2, <1>3, <1>5 DEF BroadcastInv

\* Whatever a job reads or waits for, it takes a lock only when it is free.
LEMMA MoveOnBroadcast ==
    ASSUME TypeInv, BroadcastInv, NEW j \in Jobs, MoveOn(j)
    PROVE  BroadcastInv'
  <1>0. job \in [Jobs -> JobRecords] /\ NoJob.push = {} /\ ~HoldsLock(NoJob) /\ Nil \notin Jobs
        /\ mapLock \in [Maps -> Jobs \cup {Nil}]
    BY BindingAssumption DEF TypeInv, TypeOK, NoJob, HoldsLock
  <1>1. /\ \A i \in Jobs \ {j} : job'[i] = job[i]
        /\ UNCHANGED <<equipped, shown, silent>>
    BY MoveOnEffect DEF tables
  <1>2. job[j].pc # "announce"
    BY DEF MoveOn, Fail, AcquirePermit, AcquireMapLock, PrepareBind, VerifyAuthor, BeginBindTx,
           FetchComment, ReadRow, JudgeUnlock, ReadJoinPush, CheckBound, ReportInternalError
  <1>3. \A v \in Users, h \in Slugs \cup {Nil} : <<v, h>> \in job[j].push => h = Nil
    BY <1>2 DEF BroadcastInv, Current
  <1>4. CASE Finish(j)
    <2>1. job'[j] = NoJob /\ \A m \in Maps : mapLock'[m] = IF mapLock[m] = j THEN Nil ELSE mapLock[m]
      BY <1>0, <1>4 DEF Finish
    <2>2. MapLockExcludes'
      <3>1. \A i \in Jobs : HoldsLock(job[i]) => job[i].map \in Maps
        BY PcKind DEF HoldsLock
      <3>2. ASSUME NEW i \in Jobs, HoldsLock(job'[i]) PROVE mapLock'[job'[i].map] = i
        <4>1. i # j /\ job'[i] = job[i]
          BY <1>0, <1>1, <2>1, <3>2
        <4>2. QED
          BY <2>1, <3>1, <3>2, <4>1 DEF BroadcastInv, MapLockExcludes
      <3>3. QED
        BY <3>2 DEF MapLockExcludes, HoldsLock
    <2>3. \A i \in Jobs : Current(job[i])'
      BY <1>0, <1>1, <2>1 DEF BroadcastInv, Current
    <2>4. ChangesAreDue'
      <3>1. \A i \in Jobs, m \in Maps, u \in Users : Due(job[i], m, u) => Due(job'[i], m, u)
        BY <1>1, <1>2 DEF Due
      <3>2. QED
        BY <1>1, <3>1, DueKept
    <2>5. QED
      BY <2>2, <2>3, <2>4 DEF BroadcastInv
  <1>5. CASE ~Finish(j)
    <2>1. /\ job'[j].map = job[j].map
          /\ job'[j].pc = "announce" => \/ job'[j].push = job[j].push
                                        \/ job'[j].push = PushEntry(job[j].user, job[j].map)
          /\ job'[j].pc # "announce" => job'[j].push = job[j].push
          /\ \/ /\ job[j].pc = "lock" /\ mapLock[job[j].map] = Nil
                /\ mapLock' = [mapLock EXCEPT ![job[j].map] = j]
             \/ mapLock' = mapLock /\ (HoldsLock(job'[j]) => HoldsLock(job[j]))
      BY <1>5, MoveOnEffect
    <2>2. MapLockExcludes'
      <3>1. \A i \in Jobs : HoldsLock(job[i]) => job[i].map \in Maps
        BY PcKind DEF HoldsLock
      <3>2. job[j].pc = "lock" => job[j].map \in Maps
        BY PcKind
      <3>3. ASSUME NEW i \in Jobs, HoldsLock(job'[i]) PROVE mapLock'[job'[i].map] = i
        <4>1. CASE i = j
          BY <1>0, <2>1, <3>2, <3>3, <4>1 DEF BroadcastInv, MapLockExcludes
        <4>2. CASE i # j
          <5>1. job'[i] = job[i] /\ mapLock[job[i].map] = i /\ job[i].map \in Maps
            BY <1>1, <3>1, <3>3, <4>2 DEF BroadcastInv, MapLockExcludes
          <5>2. QED
            BY <1>0, <2>1, <5>1
        <4>3. QED
          BY <4>1, <4>2
      <3>4. QED
        BY <3>3 DEF MapLockExcludes, HoldsLock
    <2>3. \A i \in Jobs : Current(job[i])'
      <3>1. \A v \in Users, h \in Slugs \cup {Nil} :
               <<v, h>> \in PushEntry(job[j].user, job[j].map) => equipped[job[j].map][v] = h
        BY DEF PushEntry
      <3>2. Current(job[j])'
        BY <1>1, <1>3, <2>1, <3>1 DEF Current
      <3>3. \A i \in Jobs \ {j} : Current(job[i])'
        BY <1>1 DEF BroadcastInv, Current
      <3>4. QED
        BY <3>2, <3>3
    <2>4. ChangesAreDue'
      <3>1. \A i \in Jobs, m \in Maps, u \in Users : Due(job[i], m, u) => Due(job'[i], m, u)
        BY <1>1, <1>2 DEF Due
      <3>2. QED
        BY <1>1, <3>1, DueKept
    <2>5. QED
      BY <2>2, <2>3, <2>4 DEF BroadcastInv
  <1>6. QED
    BY <1>4, <1>5

\* A broadcast brings what is shown in line with what is worn.
LEMMA AnnounceBroadcast ==
    ASSUME TypeInv, BroadcastInv, NEW j \in Jobs, Announce(j)
    PROVE  BroadcastInv'
  <1> DEFINE m == job[j].map
  <1>0. /\ job \in [Jobs -> JobRecords] /\ NoJob.push = {} /\ ~HoldsLock(NoJob) /\ Nil \notin Jobs
        /\ mapLock \in [Maps -> Jobs \cup {Nil}] /\ shown \in [Maps -> [Users -> Slugs \cup {Nil}]]
    BY BindingAssumption DEF TypeInv, TypeOK, NoJob, HoldsLock
  <1>1. /\ job[j].pc = "announce" /\ m \in Maps /\ HoldsLock(job[j]) /\ mapLock[m] = j
        /\ UNCHANGED <<equipped, silent>>
    BY PcKind DEF Announce, tables, HoldsLock, BroadcastInv, MapLockExcludes
  <1>2. /\ \A i \in Jobs \ {j} : job'[i] = job[i]
        /\ job'[j].push = {} /\ ~HoldsLock(job'[j])
        /\ \A n \in Maps : mapLock[n] # j => mapLock'[n] = mapLock[n]
    <2>1. CASE Finish(j)
      BY <1>0, <2>1 DEF Finish
    <2>2. CASE ~Finish(j)
      <3> DEFINE r == [job[j] EXCEPT !.pc = "lock", !.map = tracked[job[j].user], !.push = {}]
      <3>1. job' = [job EXCEPT ![j] = r] /\ mapLock' = [mapLock EXCEPT ![m] = Nil]
        BY <2>2 DEF Announce
      <3>2. r.pc = "lock" /\ r.push = {}
        BY <1>0 DEF JobRecords
      <3> HIDE DEF r
      <3>3. job'[j] = r /\ ~HoldsLock(r) /\ \A i \in Jobs \ {j} : job'[i] = job[i]
        BY <1>0, <3>1, <3>2 DEF HoldsLock
      <3>4. \A n \in Maps : mapLock'[n] = IF n = m THEN Nil ELSE mapLock[n]
        BY <1>0, <3>1
      <3>5. QED
        BY <1>1, <3>2, <3>3, <3>4
    <2>3. QED
      BY <2>1, <2>2
  <1>3. MapLockExcludes'
    <2>1. \A i \in Jobs : HoldsLock(job[i]) => job[i].map \in Maps
      BY PcKind DEF HoldsLock
    <2>2. ASSUME NEW i \in Jobs, HoldsLock(job'[i]) PROVE mapLock'[job'[i].map] = i
      <3>1. i # j /\ job'[i] = job[i] /\ HoldsLock(job[i])
        BY <1>2, <2>2
      <3>2. mapLock[job[i].map] = i /\ job[i].map \in Maps
        BY <2>1, <3>1 DEF BroadcastInv, MapLockExcludes
      <3>3. QED
        BY <1>2, <3>1, <3>2
    <2>3. QED
      BY <2>2 DEF MapLockExcludes, HoldsLock
  <1>4. \A i \in Jobs : Current(job[i])'
    BY <1>1, <1>2 DEF BroadcastInv, Current
  <1>5. ASSUME NEW n \in Maps, NEW u \in Users,
               shown'[n][u] \notin {Nil, equipped'[n][u]}, <<n, u>> \notin silent'
        PROVE  \E i \in Jobs : Due(job'[i], n, u)
    <2>1. /\ \A v \in Users : shown'[m][v] = shown[m][v] \/ \E h \in Slugs \cup {Nil} :
                 <<v, h>> \in job[j].push /\ shown'[m][v] = h
          /\ \A v \in Users : (\E h \in Slugs \cup {Nil} : <<v, h>> \in job[j].push) =>
                 <<v, shown'[m][v]>> \in job[j].push /\ shown'[m][v] \in Slugs \cup {Nil}
          /\ \A k \in Maps \ {m} : shown'[k] = shown[k]
      BY <1>0, <1>1 DEF Announce
    <2>2. CASE n = m /\ \E h \in Slugs \cup {Nil} : <<u, h>> \in job[j].push
      <3>1. <<u, shown'[m][u]>> \in job[j].push /\ shown'[m][u] \in Slugs \cup {Nil}
        BY <2>1, <2>2
      <3>2. shown'[m][u] = Nil \/ equipped[m][u] = shown'[m][u] \/ <<m, u>> \in silent
        BY <1>1, <3>1 DEF BroadcastInv, Current
      <3>3. QED
        BY <1>1, <1>5, <2>2, <3>2
    <2>3. CASE ~(n = m /\ \E h \in Slugs \cup {Nil} : <<u, h>> \in job[j].push)
      <3>1. shown'[n][u] = shown[n][u]
        <4>1. CASE n = m
          BY <2>1, <2>3, <4>1
        <4>2. CASE n # m
          BY <2>1, <4>2
        <4>3. QED
          BY <4>1, <4>2
      <3>2. PICK i \in Jobs : Due(job[i], n, u)
        BY <1>1, <1>5, <3>1 DEF BroadcastInv, ChangesAreDue
      <3>3. i # j
        BY <2>3, <3>2 DEF Due
      <3>4. QED
        BY <1>2, <3>2, <3>3
    <2>4. QED
      BY <2>2, <2>3
  <1>6. QED
    BY <1>3, <1>4, <1>5 DEF BroadcastInv, ChangesAreDue, Due

\* A change of a hat makes its push due, and no other push of the map is.
LEMMA ChangeBroadcast ==
    ASSUME TypeInv, BroadcastInv, NEW j \in Jobs,
           CommitBind(j) \/ CommitComment(j) \/ GrantUnlock(j) \/ EquipHat(j) \/ DeleteSpec(j)
    PROVE  BroadcastInv'
  <1>0. job \in [Jobs -> JobRecords] /\ ~HoldsLock(NoJob) /\ Nil \notin Jobs
        /\ mapLock \in [Maps -> Jobs \cup {Nil}]
    BY BindingAssumption DEF TypeInv, TypeOK, NoJob, HoldsLock
  <1>1. /\ UNCHANGED shown /\ job[j].pc # "announce"
        /\ \A i \in Jobs \ {j} : job'[i] = job[i]
        /\ \/ Finish(j)
           \/ /\ mapLock' = mapLock /\ job'[j].map = job[j].map
              /\ HoldsLock(job'[j]) => HoldsLock(job[j])
        /\ \A m \in Maps, u \in Users : Touched(m, u) =>
              /\ m = job[j].map
              /\ <<m, u>> \in silent' \/ (HoldsLock(job[j]) /\ Due(job'[j], m, u))
        /\ Current(job[j])'
    BY HatEffect DEF BroadcastInv
  <1>2. \A i \in Jobs : HoldsLock(job[i]) => job[i].map \in Maps
    BY PcKind DEF HoldsLock
  <1>3. MapLockExcludes'
    <2>1. ASSUME NEW i \in Jobs, HoldsLock(job'[i]) PROVE mapLock'[job'[i].map] = i
      <3>1. CASE Finish(j)
        <4>1. job'[j] = NoJob /\ \A m \in Maps : mapLock'[m] = IF mapLock[m] = j THEN Nil ELSE mapLock[m]
          BY <1>0, <3>1 DEF Finish
        <4>2. i # j /\ job'[i] = job[i]
          BY <1>0, <1>1, <2>1, <4>1
        <4>3. QED
          BY <1>2, <2>1, <4>1, <4>2 DEF BroadcastInv, MapLockExcludes
      <3>2. CASE ~Finish(j)
        BY <1>1, <2>1, <3>2 DEF BroadcastInv, MapLockExcludes
      <3>3. QED
        BY <3>1, <3>2
    <2>2. QED
      BY <2>1 DEF MapLockExcludes, HoldsLock
  <1>4. ASSUME NEW i \in Jobs \ {j} PROVE Current(job[i])'
    <2>1. ASSUME NEW v \in Users, NEW h \in Slugs \cup {Nil}, <<v, h>> \in job[i].push, h # Nil
          PROVE  /\ job[i].pc = "announce"
                 /\ equipped'[job[i].map][v] = h \/ <<job[i].map, v>> \in silent'
      <3>1. /\ job[i].pc = "announce"
            /\ equipped[job[i].map][v] = h \/ <<job[i].map, v>> \in silent
        BY <2>1 DEF BroadcastInv, Current
      <3>2. HoldsLock(job[i]) /\ job[i].map \in Maps
        BY <3>1, PcKind DEF HoldsLock
      <3>3. CASE Touched(job[i].map, v)
        <4>1. ~(HoldsLock(job[j]) /\ job[j].map = job[i].map)
          BY <3>2 DEF BroadcastInv, MapLockExcludes
        <4>2. QED
          BY <1>1, <3>1, <3>2, <3>3, <4>1
      <3>4. CASE ~Touched(job[i].map, v)
        BY <3>1, <3>4 DEF Touched
      <3>5. QED
        BY <3>3, <3>4
    <2>2. QED
      BY <1>1, <2>1 DEF Current
  <1>5. ASSUME NEW m \in Maps, NEW u \in Users,
               shown'[m][u] \notin {Nil, equipped'[m][u]}, <<m, u>> \notin silent'
        PROVE  \E i \in Jobs : Due(job'[i], m, u)
    <2>1. CASE Touched(m, u)
      BY <1>1, <1>5, <2>1
    <2>2. CASE ~Touched(m, u)
      <3>1. PICK i \in Jobs : Due(job[i], m, u)
        BY <1>1, <1>5, <2>2 DEF Touched, BroadcastInv, ChangesAreDue
      <3>2. i # j
        BY <1>1, <3>1 DEF Due
      <3>3. QED
        BY <1>1, <3>1, <3>2
    <2>3. QED
      BY <2>1, <2>2
  <1>6. QED
    BY <1>1, <1>3, <1>4, <1>5 DEF BroadcastInv, ChangesAreDue, Due

\* Every step keeps what is shown in line with what is worn or due.
LEMMA BroadcastStep == TypeInv /\ BroadcastInv /\ [Next]_vars => BroadcastInv'
  <1> SUFFICES ASSUME TypeInv, BroadcastInv, [Next]_vars PROVE BroadcastInv'
    OBVIOUS
  <1>1. CASE Mapper \/ UNCHANGED vars
    <2>1. UNCHANGED <<job, mapLock, equipped, shown, silent>>
      BY <1>1 DEF Mapper, UploadSpec, Upsert, PublishComment, Edit, vars, tables
    <2>2. QED
      BY <2>1 DEF BroadcastInv, MapLockExcludes, Current, ChangesAreDue, Due, HoldsLock
  <1>2. QED
    BY <1>1, StartBroadcast, MoveOnBroadcast, AnnounceBroadcast, ChangeBroadcast DEF Next, Step, MoveOn

-----------------------------------------------------------------------------
(* WayfinderBinding implements MapAuthority.                               *)

\* The spec a map is trusted under, as the abstract specification sees it.
Trusted == [m \in Maps |-> IF Verified(m) THEN bind[m].spec ELSE Nil]

LEMMA InitAuthorized ==
    ASSUME Init
    PROVE  Authority!Init
  <1>0. TypeInv /\ AuthorityInv
    BY InitTypeInv, InitAuthority
  <1>1. Trusted \in [Maps -> Specs \cup {Nil}]
    BY <1>0 DEF TypeInv, TypeOK, TablesTypeOK, Trusted
  <1>2. endorsed \in [Maps -> SUBSET Specs]
    BY <1>0 DEF TypeInv, TypeOK
  <1>3. ASSUME NEW m \in Maps, Trusted[m] # Nil PROVE Owner[Trusted[m]] = NadeoAuthor[m]
    BY <1>3, InitVerified DEF Trusted
  <1>4. QED
    BY <1>1, <1>2, <1>3 DEF Authority!Init, Authority!MadeBy, Trusted

\* Each step claims a map for its author, follows or publishes a comment, or
\* leaves what is trusted alone.
LEMMA AuthorizedStep ==
    ASSUME TypeInv, AuthorityInv, [Next]_vars
    PROVE  [Authority!Next]_(Authority!vars)
  <1> USE TablesAssumption
  <1>0. /\ bind \in [Maps -> [spec : Specs \cup {Nil}, author : Users \cup {Nil}, mat : 0 .. MaxRev]]
        /\ endorsed \in [Maps -> SUBSET Specs]
    BY DEF TypeInv, TypeOK, TablesTypeOK
  <1>1. ASSUME NEW m \in Maps, NEW s \in Specs, NEW src, NEW purge, Materialize(m, s, src, purge)
        PROVE  Trusted' = [Trusted EXCEPT ![m] = s]
    <2>1. bind'[m].spec = s /\ bind'[m].author = Owner[s] /\ \A n \in Maps \ {m} : bind'[n] = bind[n]
      BY <1>0, <1>1 DEF Materialize
    <2>2. Trusted'[m] = s /\ \A n \in Maps \ {m} : Trusted'[n] = Trusted[n]
      BY <2>1 DEF Trusted, Verified, Bound
    <2>3. QED
      BY <2>2 DEF Trusted
  <1>2. ASSUME NEW m \in Maps, NEW s \in Specs,
               Authority!Claim(m, s) \/ Authority!Follow(m, s) \/ Authority!Endorse(m, s)
        PROVE  [Authority!Next]_(Authority!vars)
    BY <1>2 DEF Authority!Next
  <1>3. CASE bind' = bind /\ endorsed' = endorsed
    BY <1>3 DEF Authority!vars, Verified, Bound
  <1>4. ASSUME bind' # bind PROVE endorsed' = endorsed /\ ~Mapper
    <2>1. PICK j \in Jobs : CommitBind(j) \/ CommitComment(j)
      BY <1>4, BindWrites
    <2>2. endorsed' = endorsed
      BY <2>1 DEF CommitBind, CommitComment
    <2>3. QED
      BY <1>4, <2>2 DEF Mapper, UploadSpec, Upsert, PublishComment, tables
  <1>5. ASSUME NEW j \in Jobs, CommitBind(j), bind' # bind PROVE [Authority!Next]_(Authority!vars)
    <2>0. PICK m \in Maps, s \in Specs : m = job[j].map /\ s = job[j].spec
      BY <1>5, BindCommit
    <2>1. /\ \E purge : Materialize(m, s, job[j].src, purge)
          /\ job[j].kind = "bind"
          /\ \/ Verified(m) /\ bind[m].spec = s
             \/ ~Verified(m) /\ job[j].proof = Owner[s]
             \/ bind[m].spec = s /\ job[j].proof = Owner[s]
      BY <1>5, <2>0, BindCommit
    <2>2. Trusted' = [Trusted EXCEPT ![m] = s] /\ endorsed' = endorsed
      BY <1>1, <1>4, <1>5, <2>1
    <2>3. CASE Verified(m) /\ bind[m].spec = s
      <3>1. Trusted[m] = s
        BY <2>1, <2>3 DEF Trusted
      <3>2. Trusted' = Trusted
        BY <2>2, <3>1 DEF Trusted
      <3>3. QED
        BY <2>2, <3>2 DEF Authority!vars, Trusted
    <2>4. CASE ~Verified(m) /\ job[j].proof = Owner[s]
      <3>1. Trusted[m] = Nil
        BY <2>1, <2>4 DEF Trusted
      <3>2. Owner[s] = NadeoAuthor[m]
        BY <2>0, <2>1, <2>4 DEF AuthorityInv, Claim
      <3>3. Authority!Claim(m, s)
        BY <2>2, <3>1, <3>2 DEF Authority!Claim, Authority!MadeBy, Trusted
      <3>4. QED
        BY <1>2, <3>3
    <2>5. QED
      BY <2>1, <2>3, <2>4
  <1>6. ASSUME NEW j \in Jobs, CommitComment(j), bind' # bind PROVE [Authority!Next]_(Authority!vars)
    <2>0. PICK m \in Maps, s \in Specs : m = job[j].map /\ s = job[j].spec
      BY <1>6, CommentCommit
    <2>1. \E purge : Materialize(m, s, job[j].src, purge)
      BY <1>6, <2>0, CommentCommit
    <2>2. s \in endorsed[m]
      BY <1>6, <2>0, CommentCommit DEF AuthorityInv, Claim
    <2>3. Authority!Follow(m, s)
      BY <1>1, <1>4, <1>6, <2>1, <2>2 DEF Authority!Follow, Trusted
    <2>4. QED
      BY <1>2, <2>3
  <1>7. ASSUME bind' = bind, endorsed' # endorsed PROVE [Authority!Next]_(Authority!vars)
    <2>1. Mapper
      <3>1. ASSUME NEW j \in Jobs, StartJob(j) \/ MoveOn(j) \/ Write(j) PROVE FALSE
        BY <1>7, <3>1, StartEffect, MoveOnEffect, WriteEffect
      <3>2. QED
        BY <1>7, <3>1 DEF Next, Step, MoveOn, Write, vars
    <2>2. PICK m \in Maps, s \in Specs \cup {Nil} : PublishComment(m, s)
      BY <1>7, <2>1 DEF Mapper, UploadSpec
    <2>3. endorsed' = [endorsed EXCEPT ![m] = @ \cup ({s} \ {Nil})]
      BY <2>2 DEF PublishComment
    <2>4. s # Nil
      BY <1>0, <1>7, <2>3
    <2>5. Authority!Endorse(m, s)
      BY <1>7, <2>3, <2>4 DEF Authority!Endorse, Verified, Bound
    <2>6. QED
      BY <1>2, <2>4, <2>5
  <1>8. QED
    BY <1>3, <1>5, <1>6, <1>7, BindWrites

-----------------------------------------------------------------------------
(* That jobs end, without the scheduler: nobody waits in a circle, and     *)
(* every step brings its job nearer to its end.  Under fairness the two    *)
(* are JobsEnd, which TLC checks.                                          *)

\* The spec whose row a job needs where it is.
AwaitedSpec(j) ==
    IF job[j].pc \in {"tx", "grant", "delete"} THEN job[j].spec
    ELSE IF job[j].pc = "equip" /\ job[j].slug # Nil THEN bind[job[j].map].spec
    ELSE Nil

OutOfPermits == Cardinality({i \in Jobs : HoldsPermit(i)}) >= Permits

\* The job can do nothing but wait (or fail, where a database is waited for).
Blocked(j) ==
    \/ job[j].pc = "permit" /\ OutOfPermits
    \/ job[j].pc = "lock" /\ ~LockFree(job[j].map)
    \/ AwaitedSpec(j) # Nil /\ SpecLocked(AwaitedSpec(j))

\* The jobs that hold what j waits for.
WaitsFor(j, i) ==
    \/ job[j].pc = "permit" /\ OutOfPermits /\ HoldsPermit(i)
    \/ job[j].pc = "lock" /\ mapLock[job[j].map] = i
    \/ AwaitedSpec(j) # Nil /\ job[i].pc = "commit" /\ job[i].spec = AwaitedSpec(j)

\* Permit, map lock and row lock are taken in this order.
Level(j) ==
    CASE job[j].pc = "permit" -> 0
      [] job[j].pc = "lock" -> 1
      [] job[j].pc = "commit" -> 3
      [] OTHER -> 2

\* A job that waits waits for jobs under way, and only for such as are further
\* in the order of locks than itself: no chain of waits is a circle, and a job
\* in its transaction, the furthest, waits for nobody.
NoCircularWait ==
    \A j \in Jobs : Blocked(j) =>
        /\ \E i \in Jobs : WaitsFor(j, i)
        /\ \A i \in Jobs : WaitsFor(j, i) => job[i] # NoJob /\ Level(j) < Level(i)

\* While anything is under way, something under way need not wait.
SomeoneGoesOn ==
    (\E j \in Jobs : job[j] # NoJob) => \E j \in Jobs : job[j] # NoJob /\ ~Blocked(j)

\* How many steps a job has left, at most, and for a move that still has to
\* join a map after the one it leaves.
Stage == [prepare |-> 10, nadeo |-> 9, permit |-> 9, lock |-> 8, fetch |-> 7, equip |-> 7,
          join |-> 7, tx |-> 6, commit |-> 5, announce |-> 4, row |-> 3, judge |-> 2,
          grant |-> 1, check |-> 3, delete |-> 2, fkViolation |-> 1, idle |-> 0]

Leaving(j) == job[j].kind = "move" /\ tracked[job[j].user] \notin {job[j].map, Nil}

StepsLeft(j) == Stage[job[j].pc] + (IF Leaving(j) THEN 10 ELSE 0)

\* No handler goes round in a loop, and no other job sets one back: a job's own
\* step lowers the number of steps it has left and no other step raises it.
StepsAreProgress ==
    [][\A j \in Jobs : job[j] # NoJob =>
           /\ StepsLeft(j)' <= StepsLeft(j)
           /\ Step(j) => StepsLeft(j)' < StepsLeft(j)]_vars

\* What a handler does next, within one lap of a move.
Follows(pc, next) ==
    \/ pc = "prepare" /\ next \in {"nadeo", "lock"}
    \/ pc \in {"nadeo", "permit"} /\ next = "lock"
    \/ pc = "lock" /\ next \in {"tx", "fetch", "equip", "join", "announce"}
    \/ pc = "fetch" /\ next = "tx"
    \/ pc = "tx" /\ next = "commit"
    \/ pc \in {"commit", "equip", "join"} /\ next = "announce"
    \/ pc = "row" /\ next = "judge"
    \/ pc = "judge" /\ next = "grant"
    \/ pc = "check" /\ next = "delete"
    \/ pc = "delete" /\ next = "fkViolation"

\* The same job, in its lap.
SameLap(r, q) == r.kind = q.kind /\ r.user = q.user /\ r.map = q.map /\ r.inline = q.inline

\* A step ends its job, or takes it to the next place of its handler, the map's
\* lock with it, or sends a move that has left one map to the lock of the other.
LEMMA StepPlaces ==
    ASSUME TypeInv, NEW j \in Jobs, Step(j)
    PROVE  /\ job[j].pc # "idle"
           /\ \A i \in Jobs \ {j} : job'[i] = job[i]
           /\ tracked' = tracked
           /\ \/ Finish(j)
              \/ /\ SameLap(job'[j], job[j]) /\ Follows(job[j].pc, job'[j].pc)
                 /\ IF job[j].pc = "lock"
                    THEN LockFree(job[j].map) /\ mapLock' = [mapLock EXCEPT ![job[j].map] = j]
                    ELSE mapLock' = mapLock
              \/ /\ job[j].pc = "announce" /\ Leaving(j)
                 /\ job'[j].pc = "lock" /\ job'[j].kind = "move"
                 /\ job'[j].user = job[j].user /\ job'[j].inline = job[j].inline
                 /\ job'[j].map = tracked[job[j].user]
                 /\ mapLock' = [mapLock EXCEPT ![job[j].map] = Nil]
  <1> DEFINE Moved(r) == /\ SameLap(r, job[j]) /\ Follows(job[j].pc, r.pc)
                         /\ job' = [job EXCEPT ![j] = r]
                         /\ IF job[j].pc = "lock"
                            THEN LockFree(job[j].map) /\ mapLock' = [mapLock EXCEPT ![job[j].map] = j]
                            ELSE mapLock' = mapLock
             Left(r) == /\ job[j].pc = "announce" /\ Leaving(j)
                        /\ r.pc = "lock" /\ r.kind = "move"
                        /\ r.user = job[j].user /\ r.inline = job[j].inline
                        /\ r.map = tracked[job[j].user]
                        /\ job' = [job EXCEPT ![j] = r]
                        /\ mapLock' = [mapLock EXCEPT ![job[j].map] = Nil]
  <1>0. job \in [Jobs -> JobRecords]
    BY DEF TypeInv, TypeOK
  <1>1. job[j].pc # "idle" /\ tracked' = tracked
    BY DEF Step, Fail, AcquireMapLock, Announce, BeginBindTx, PrepareBind, VerifyAuthor, CommitBind,
           AcquirePermit, FetchComment, CommitComment, ReadRow, JudgeUnlock, GrantUnlock, EquipHat,
           ReadJoinPush, CheckBound, DeleteSpec, ReportInternalError
  <1>3. \A pc : LET r == [job[j] EXCEPT !.pc = pc] IN SameLap(r, job[j]) /\ r.pc = pc
    BY <1>0 DEF JobRecords, SameLap
  <1>4. \A pc, push : LET r == [job[j] EXCEPT !.pc = pc, !.push = push]
                      IN  SameLap(r, job[j]) /\ r.pc = pc
    BY <1>0 DEF JobRecords, SameLap
  <1>5. Finish(j) \/ \E r : Moved(r) \/ Left(r)
    <2>1. CASE Fail(j) \/ ReportInternalError(j) \/ GrantUnlock(j)
      BY <2>1 DEF Fail, ReportInternalError, GrantUnlock
    <2>2. ASSUME NEW pc, Advance(j, pc), mapLock' = mapLock, Follows(job[j].pc, pc), job[j].pc # "lock"
          PROVE  \E r : Moved(r)
      <3>1. Moved([job[j] EXCEPT !.pc = pc])
        BY <1>3, <2>2 DEF Advance
      <3>2. QED
        BY <3>1
    <2>3. CASE AcquireMapLock(j)
      <3>1. PICK pc \in {"tx", "fetch", "equip", "join", "announce"} : job' = [job EXCEPT ![j].pc = pc]
        BY <2>3, PcKind DEF AcquireMapLock, Advance
      <3>2. Moved([job[j] EXCEPT !.pc = pc])
        BY <1>3, <2>3, <3>1 DEF AcquireMapLock, Follows
      <3>3. QED
        BY <3>2
    <2>4. CASE Announce(j)
      <3> DEFINE r == [job[j] EXCEPT !.pc = "lock", !.map = tracked[job[j].user], !.push = {}]
      <3>1. CASE Leaving(j)
        <4>1. job' = [job EXCEPT ![j] = r] /\ mapLock' = [mapLock EXCEPT ![job[j].map] = Nil]
              /\ job[j].pc = "announce"
          BY <2>4, <3>1 DEF Announce, Leaving
        <4>2. /\ r.pc = "lock" /\ r.kind = job[j].kind /\ r.user = job[j].user
              /\ r.inline = job[j].inline /\ r.map = tracked[job[j].user]
          BY <1>0 DEF JobRecords
        <4> HIDE DEF r
        <4>3. Left(r)
          BY <3>1, <4>1, <4>2 DEF Leaving
        <4>4. QED
          BY <4>3
      <3>2. CASE ~Leaving(j)
        BY <2>4, <3>2 DEF Announce, Leaving
      <3>3. QED
        BY <3>1, <3>2
    <2>5. CASE BeginBindTx(j)
      <3> DEFINE r == [job[j] EXCEPT !.pc = "commit", !.src = spec[job[j].spec], !.seen = bind[job[j].map].spec]
      <3>1. SameLap(r, job[j]) /\ r.pc = "commit"
        BY <1>0 DEF JobRecords, SameLap
      <3>2. Finish(j) \/ (job' = [job EXCEPT ![j] = r] /\ mapLock' = mapLock)
        BY <2>5 DEF BeginBindTx
      <3> HIDE DEF r
      <3>3. Finish(j) \/ Moved(r)
        BY <2>5, <3>1, <3>2 DEF BeginBindTx, Follows
      <3>4. QED
        BY <3>3
    <2>6. CASE PrepareBind(j)
      BY <2>2, <2>6 DEF PrepareBind, Follows
    <2>7. CASE VerifyAuthor(j)
      <3> DEFINE r == [job[j] EXCEPT !.pc = "lock", !.proof = NadeoAuthor[job[j].map]]
      <3>1. SameLap(r, job[j]) /\ r.pc = "lock"
        BY <1>0 DEF JobRecords, SameLap
      <3>2. Finish(j) \/ (job' = [job EXCEPT ![j] = r] /\ mapLock' = mapLock)
        BY <2>7 DEF VerifyAuthor
      <3> HIDE DEF r
      <3>3. Finish(j) \/ Moved(r)
        BY <2>7, <3>1, <3>2 DEF VerifyAuthor, Follows
      <3>4. QED
        BY <3>3
    <2>8. ASSUME NEW push, job' = [job EXCEPT ![j] = [job[j] EXCEPT !.pc = "announce", !.push = push]],
                 mapLock' = mapLock, job[j].pc \in {"commit", "equip", "join"}
          PROVE  \E r : Moved(r)
      <3>1. Moved([job[j] EXCEPT !.pc = "announce", !.push = push])
        BY <1>4, <2>8 DEF Follows
      <3>2. QED
        BY <3>1
    <2>9. CASE CommitBind(j)
      BY <2>8, <2>9 DEF CommitBind
    <2>10. CASE CommitComment(j)
      BY <2>8, <2>10 DEF CommitComment
    <2>11. CASE EquipHat(j)
      BY <2>8, <2>11 DEF EquipHat
    <2>12. CASE ReadJoinPush(j)
      BY <2>8, <2>12 DEF ReadJoinPush
    <2>13. CASE AcquirePermit(j)
      BY <2>2, <2>13 DEF AcquirePermit, Follows
    <2>14. CASE FetchComment(j)
      <3> DEFINE r == [job[j] EXCEPT !.pc = "tx", !.spec = comment[job[j].map]]
      <3>1. SameLap(r, job[j]) /\ r.pc = "tx"
        BY <1>0 DEF JobRecords, SameLap
      <3>2. Finish(j) \/ (job' = [job EXCEPT ![j] = r] /\ mapLock' = mapLock)
        BY <2>14 DEF FetchComment
      <3> HIDE DEF r
      <3>3. Finish(j) \/ Moved(r)
        BY <2>14, <3>1, <3>2 DEF FetchComment, Follows
      <3>4. QED
        BY <3>3
    <2>15. CASE ReadRow(j)
      <3> DEFINE r == [job[j] EXCEPT !.pc = "judge", !.proof = onMap[job[j].map][job[j].slug]]
      <3>1. SameLap(r, job[j]) /\ r.pc = "judge"
        BY <1>0 DEF JobRecords, SameLap
      <3>2. Finish(j) \/ (job' = [job EXCEPT ![j] = r] /\ mapLock' = mapLock)
        BY <2>15 DEF ReadRow
      <3> HIDE DEF r
      <3>3. Finish(j) \/ Moved(r)
        BY <2>15, <3>1, <3>2 DEF ReadRow, Follows
      <3>4. QED
        BY <3>3
    <2>16. CASE JudgeUnlock(j)
      BY <2>2, <2>16 DEF JudgeUnlock, Follows
    <2>17. CASE CheckBound(j)
      BY <2>2, <2>17 DEF CheckBound, Follows
    <2>18. CASE DeleteSpec(j)
      BY <2>2, <2>18 DEF DeleteSpec, Follows
    <2>19. QED
      BY <2>1, <2>3, <2>4, <2>5, <2>6, <2>7, <2>9, <2>10, <2>11, <2>12, <2>13, <2>14, <2>15,
         <2>16, <2>17, <2>18 DEF Step
  <1>6. CASE Finish(j)
    BY <1>0, <1>1, <1>6 DEF Finish
  <1>7. ASSUME NEW r, Moved(r) \/ Left(r)
        PROVE  job'[j] = r /\ \A i \in Jobs \ {j} : job'[i] = job[i]
    BY <1>0, <1>7
  <1>8. QED
    BY <1>1, <1>5, <1>6, <1>7

\* A locked map is locked by a job that runs under its lock.
LockHeld ==
    \A m \in Maps : mapLock[m] # Nil =>
        HoldsLock(job[mapLock[m]]) /\ job[mapLock[m]].map = m

\* A player's move runs on the player's read loop.
MovesInline == \A j \in Jobs : job[j].kind = "move" => job[j].inline

\* No job ends, fails or turns to another map without its lock.
LEMMA LockHeldStep == TypeInv /\ LockHeld /\ [Next]_vars => LockHeld'
  <1> SUFFICES ASSUME TypeInv, LockHeld, [Next]_vars PROVE LockHeld'
    OBVIOUS
  <1>0. /\ job \in [Jobs -> JobRecords] /\ mapLock \in [Maps -> Jobs \cup {Nil}] /\ Nil \notin Jobs
        /\ ~HoldsLock(NoJob)
    BY BindingAssumption DEF TypeInv, TypeOK, NoJob, HoldsLock
  <1>1. CASE Mapper \/ UNCHANGED vars
    <2>1. UNCHANGED <<job, mapLock>>
      BY <1>1 DEF Mapper, UploadSpec, PublishComment, Edit, vars
    <2>2. QED
      BY <2>1 DEF LockHeld, HoldsLock
  <1>2. ASSUME NEW j \in Jobs, StartJob(j) PROVE LockHeld'
    <2>1. (\A i \in Jobs \ {j} : job'[i] = job[i]) /\ mapLock' = mapLock /\ job[j] = NoJob
      BY <1>2, StartEffect
    <2>2. \A m \in Maps : mapLock[m] # Nil => mapLock[m] \in Jobs \ {j}
      BY <1>0, <2>1 DEF LockHeld
    <2>3. QED
      BY <2>1, <2>2 DEF LockHeld, HoldsLock
  <1>3. ASSUME NEW j \in Jobs, Step(j) PROVE LockHeld'
    <2>1. \A i \in Jobs \ {j} : job'[i] = job[i]
      BY <1>3, StepPlaces
    <2>2. ASSUME NEW m \in Maps, mapLock'[m] # Nil, mapLock'[m] # j,
                 mapLock'[m] = mapLock[m]
          PROVE  HoldsLock(job'[mapLock'[m]]) /\ job'[mapLock'[m]].map = m
      BY <1>0, <2>1, <2>2 DEF LockHeld
    <2>3. CASE Finish(j)
      <3>1. \A m \in Maps : mapLock'[m] = IF mapLock[m] = j THEN Nil ELSE mapLock[m]
        BY <1>0, <2>3 DEF Finish
      <3>2. \A m \in Maps : mapLock'[m] # Nil => mapLock'[m] # j /\ mapLock'[m] = mapLock[m]
        BY <1>0, <3>1
      <3>3. QED
        BY <2>2, <3>2 DEF LockHeld, HoldsLock
    <2>4. CASE /\ SameLap(job'[j], job[j]) /\ Follows(job[j].pc, job'[j].pc)
               /\ IF job[j].pc = "lock"
                  THEN LockFree(job[j].map) /\ mapLock' = [mapLock EXCEPT ![job[j].map] = j]
                  ELSE mapLock' = mapLock
      <3>1. job[j].pc = "lock" \/ HoldsLock(job[j]) => HoldsLock(job'[j])
        <4>1. Shape(job'[j]) /\ job[j].kind \in Kinds
          <5>1. TypeInv'
            BY TypeStep
          <5>2. job[j].pc = "lock" \/ HoldsLock(job[j]) => job[j].kind # "none"
            BY PcKind DEF HoldsLock
          <5>3. QED
            BY <1>0, <5>1, <5>2, <2>4 DEF TypeInv, Shapes, JobRecords, Follows, HoldsLock, Shape, NoJob
        <4>2. QED
          <5>1. job[j].pc = "lock" \/ HoldsLock(job[j]) => job'[j].pc \in
                   {"tx", "fetch", "equip", "join", "announce", "commit"}
            BY <2>4 DEF Follows, HoldsLock
          <5>2. HoldsLock(job[j]) => job'[j].kind # "recheck"
            BY <2>4 DEF SameLap, HoldsLock
          <5>3. job[j].pc = "lock" => job'[j].kind # "recheck"
            BY <2>4, PcKind DEF SameLap
          <5>4. job'[j].kind \in Kinds
            BY <2>4, <4>1 DEF SameLap
          <5>5. QED
            BY <4>1, <5>1, <5>2, <5>3, <5>4 DEF HoldsLock, Shape, Kinds
      <3>2. ASSUME NEW m \in Maps, mapLock'[m] # Nil
            PROVE  HoldsLock(job'[mapLock'[m]]) /\ job'[mapLock'[m]].map = m
        <4>1. mapLock'[m] = mapLock[m] \/ (job[j].pc = "lock" /\ mapLock'[m] = j /\ job[j].map = m)
          BY <1>0, <2>4
        <4>2. CASE mapLock'[m] = j
          <5>1. HoldsLock(job'[j]) /\ job'[j].map = m
            BY <2>4, <3>1, <3>2, <4>1, <4>2 DEF LockHeld, SameLap
          <5>2. QED
            BY <4>2, <5>1
        <4>3. CASE mapLock'[m] # j
          BY <2>2, <3>2, <4>1, <4>3
        <4>4. QED
          BY <4>2, <4>3
      <3>3. QED
        BY <3>2 DEF LockHeld, HoldsLock
    <2>5. CASE job[j].pc = "announce" /\ mapLock' = [mapLock EXCEPT ![job[j].map] = Nil]
      <3>1. ASSUME NEW m \in Maps, mapLock'[m] # Nil
            PROVE  HoldsLock(job'[mapLock'[m]]) /\ job'[mapLock'[m]].map = m
        <4>1. m # job[j].map /\ mapLock'[m] = mapLock[m]
          BY <1>0, <2>5, <3>1
        <4>2. mapLock'[m] # j
          BY <3>1, <4>1 DEF LockHeld
        <4>3. QED
          BY <2>2, <3>1, <4>1, <4>2
      <3>2. QED
        BY <3>1 DEF LockHeld, HoldsLock
    <2>6. QED
      BY <1>3, <2>3, <2>4, <2>5, StepPlaces
  <1>4. QED
    BY <1>1, <1>2, <1>3 DEF Next

\* Whoever waits waits for somebody, and only for jobs further on.
LEMMA WaitsGoUp == TypeInv /\ LockHeld => NoCircularWait
  <1> SUFFICES ASSUME TypeInv, LockHeld, NEW j \in Jobs, Blocked(j)
               PROVE  /\ \E i \in Jobs : WaitsFor(j, i)
                      /\ \A i \in Jobs : WaitsFor(j, i) => job[i] # NoJob /\ Level(j) < Level(i)
    BY DEF NoCircularWait
  <1>0. mapLock \in [Maps -> Jobs \cup {Nil}] /\ Permits \in Nat \ {0}
    BY BindingAssumption DEF TypeInv, TypeOK
  <1>1. \E i \in Jobs : WaitsFor(j, i)
    <2>1. CASE job[j].pc = "permit" /\ OutOfPermits
      <3>1. {i \in Jobs : HoldsPermit(i)} # {}
        <4>1. Cardinality({}) = 0
          BY FS_EmptySet
        <4>2. QED
          BY <1>0, <2>1, <4>1 DEF OutOfPermits
      <3>2. QED
        BY <2>1, <3>1 DEF WaitsFor
    <2>2. CASE job[j].pc = "lock" /\ ~LockFree(job[j].map)
      <3>1. job[j].map \in Maps
        BY <2>2, PcKind
      <3>2. QED
        BY <1>0, <2>2, <3>1 DEF LockFree, WaitsFor
    <2>3. CASE AwaitedSpec(j) # Nil /\ SpecLocked(AwaitedSpec(j))
      BY <2>3 DEF SpecLocked, WaitsFor
    <2>4. QED
      BY <2>1, <2>2, <2>3 DEF Blocked
  <1>2. ASSUME NEW i \in Jobs, WaitsFor(j, i)
        PROVE  job[i] # NoJob /\ Level(j) < Level(i)
    <2>1. CASE job[j].pc = "permit" /\ HoldsPermit(i)
      BY <2>1 DEF HoldsPermit, Level, NoJob
    <2>2. CASE job[j].pc = "lock" /\ mapLock[job[j].map] = i
      <3>1. job[j].map \in Maps /\ i # Nil
        BY <2>2, PcKind, BindingAssumption
      <3>2. HoldsLock(job[i])
        BY <2>2, <3>1 DEF LockHeld
      <3>3. QED
        BY <2>2, <3>2 DEF HoldsLock, Level, NoJob
    <2>3. CASE AwaitedSpec(j) # Nil /\ job[i].pc = "commit"
      <3>1. job[j].pc \in {"tx", "grant", "delete", "equip"}
        BY <2>3 DEF AwaitedSpec
      <3>2. QED
        BY <2>3, <3>1 DEF Level, NoJob
    <2>4. QED
      BY <1>2, <2>1, <2>2, <2>3 DEF WaitsFor
  <1>3. QED
    BY <1>1, <1>2

\* So the waits cannot take in every job that is under way.
LEMMA WaitsEnd == NoCircularWait => SomeoneGoesOn
  <1> SUFFICES ASSUME NoCircularWait, NEW j \in Jobs, job[j] # NoJob
               PROVE  \E i \in Jobs : job[i] # NoJob /\ ~Blocked(i)
    BY DEF SomeoneGoesOn
  <1>1. \A i \in Jobs : Level(i) \in 0 .. 3
    BY DEF Level
  <1>2. ASSUME NEW i \in Jobs, Blocked(i)
        PROVE  \E k \in Jobs : job[k] # NoJob /\ Level(i) < Level(k)
    BY <1>2 DEF NoCircularWait
  <1>3. ASSUME NEW i \in Jobs, Level(i) = 3 PROVE ~Blocked(i)
    BY <1>1, <1>2, <1>3
  <1>4. ASSUME NEW i \in Jobs, job[i] # NoJob, Level(i) >= 2
        PROVE  \E k \in Jobs : job[k] # NoJob /\ ~Blocked(k)
    <2>1. ASSUME NEW k \in Jobs, Level(i) < Level(k) PROVE Level(k) = 3
      BY <1>1, <1>4, <2>1
    <2>2. QED
      BY <1>2, <1>3, <1>4, <2>1
  <1>5. ASSUME NEW i \in Jobs, job[i] # NoJob, Level(i) >= 1
        PROVE  \E k \in Jobs : job[k] # NoJob /\ ~Blocked(k)
    <2>1. ASSUME NEW k \in Jobs, Level(i) < Level(k) PROVE Level(k) >= 2
      BY <1>1, <1>5, <2>1
    <2>2. QED
      BY <1>2, <1>4, <1>5, <2>1
  <1>6. ASSUME NEW k \in Jobs, Level(j) < Level(k) PROVE Level(k) >= 1
    BY <1>1, <1>6
  <1>7. QED
    BY <1>2, <1>5, <1>6

\* A player's next move starts when the last one has ended.
LEMMA MovesInlineStep == TypeInv /\ MovesInline /\ [Next]_vars => MovesInline'
  <1> SUFFICES ASSUME TypeInv, MovesInline, [Next]_vars PROVE MovesInline'
    OBVIOUS
  <1>0. job \in [Jobs -> JobRecords] /\ NoJob.kind = "none"
    BY DEF TypeInv, TypeOK, NoJob
  <1>1. CASE Mapper \/ UNCHANGED vars
    <2>1. UNCHANGED job
      BY <1>1 DEF Mapper, UploadSpec, PublishComment, Edit, vars
    <2>2. QED
      BY <2>1 DEF MovesInline
  <1>2. ASSUME NEW j \in Jobs, StartJob(j) PROVE MovesInline'
    <2>1. \A i \in Jobs \ {j} : job'[i] = job[i]
      BY <1>2, StartEffect
    <2>2. job'[j].kind = "move" => job'[j].inline
      <3>1. CASE \E u \in Users, m \in Maps \cup {Nil} : StartMove(j, u, m)
        BY <1>0, <3>1 DEF StartMove, Start, NoJob
      <3>2. CASE \E m \in Maps : StartComment(j, m)
        BY <1>0, <3>2 DEF StartComment, Start, NoJob
      <3>3. CASE \E m \in Maps : StartRecheck(j, m)
        BY <1>0, <3>3 DEF StartRecheck, Start, NoJob
      <3>4. CASE \E u \in Users, m \in Maps, s \in Specs : StartBind(j, u, m, s)
        BY <1>0, <3>4 DEF StartBind, Start, NoJob
      <3>5. CASE \E u \in Users, m \in Maps, s \in Specs, h \in Slugs : StartUnlock(j, u, m, s, h)
        BY <1>0, <3>5 DEF StartUnlock, Start, NoJob
      <3>6. CASE \E u \in Users, m \in Maps, h \in Slugs \cup {Nil} : StartEquip(j, u, m, h)
        BY <1>0, <3>6 DEF StartEquip, Start, NoJob
      <3>7. CASE \E s \in Specs : StartDelete(j, s)
        BY <1>0, <3>7 DEF StartDelete, Start, NoJob
      <3>8. QED
        BY <1>2, <3>1, <3>2, <3>3, <3>4, <3>5, <3>6, <3>7 DEF StartJob
    <2>3. QED
      BY <2>1, <2>2 DEF MovesInline
  <1>3. ASSUME NEW j \in Jobs, Step(j) PROVE MovesInline'
    <2>1. CASE Finish(j)
      BY <1>0, <1>3, <2>1, StepPlaces DEF MovesInline, Finish
    <2>2. CASE ~Finish(j)
      BY <1>3, <2>2, StepPlaces DEF MovesInline, SameLap, Leaving
    <2>3. QED
      BY <2>1, <2>2
  <1>4. QED
    BY <1>1, <1>2, <1>3 DEF Next

\* The number of steps left is one, and goes down along a handler.
LEMMA StageGoesDown ==
    /\ \A j \in Jobs : TypeInv => Stage[job[j].pc] \in 0 .. 10 /\ (job[j].pc # "idle" => Stage[job[j].pc] > 0)
    /\ \A pc, next : Follows(pc, next) => Stage[next] < Stage[pc]
  <1>1. ASSUME NEW j \in Jobs, TypeInv
        PROVE  Stage[job[j].pc] \in 0 .. 10 /\ (job[j].pc # "idle" => Stage[job[j].pc] > 0)
    <2>1. job[j].pc \in {"idle", "prepare", "nadeo", "permit", "lock", "fetch", "tx", "commit",
                         "row", "judge", "grant", "equip", "join", "announce", "check", "delete",
                         "fkViolation"}
      BY <1>1 DEF TypeInv, TypeOK, JobRecords
    <2>2. QED
      BY <2>1 DEF Stage
  <1>2. ASSUME NEW pc, NEW next, Follows(pc, next) PROVE Stage[next] < Stage[pc]
    BY <1>2 DEF Follows, Stage
  <1>3. QED
    BY <1>1, <1>2

\* A step lowers what its job has left to do and raises nobody's.
LEMMA ProgressStep ==
    ASSUME TypeInv, MovesInline, [Next]_vars, NEW j \in Jobs, job[j] # NoJob
    PROVE  StepsLeft(j)' <= StepsLeft(j) /\ (Step(j) => StepsLeft(j)' < StepsLeft(j))
  <1>0. /\ job \in [Jobs -> JobRecords] /\ NoJob.kind = "none" /\ NoJob.pc = "idle"
        /\ StepsLeft(j) \in Nat
    <2>1. Stage[job[j].pc] \in 0 .. 10
      BY StageGoesDown
    <2>2. QED
      BY <2>1 DEF TypeInv, TypeOK, NoJob, StepsLeft
  <1>1. ASSUME job'[j] = job[j], Leaving(j)' <=> Leaving(j), ~Step(j)
        PROVE  StepsLeft(j)' <= StepsLeft(j) /\ (Step(j) => StepsLeft(j)' < StepsLeft(j))
    BY <1>0, <1>1 DEF StepsLeft
  <1>2. CASE Step(j)
    <2>1. job[j].pc # "idle" /\ tracked' = tracked /\ Stage[job[j].pc] > 0 /\ Stage[job[j].pc] \in 0 .. 10
      BY <1>2, StepPlaces, StageGoesDown
    <2>2. CASE Finish(j)
      <3>1. job'[j] = NoJob
        BY <1>0, <2>2 DEF Finish
      <3>2. StepsLeft(j)' = 0
        BY <1>0, <3>1 DEF StepsLeft, Leaving, Stage
      <3>3. QED
        BY <2>1, <3>2 DEF StepsLeft
    <2>3. CASE SameLap(job'[j], job[j]) /\ Follows(job[j].pc, job'[j].pc)
      <3>1. Leaving(j)' <=> Leaving(j)
        BY <2>1, <2>3 DEF Leaving, SameLap
      <3>2. Stage[job'[j].pc] < Stage[job[j].pc] /\ Stage[job'[j].pc] \in 0 .. 10
        BY <2>3, StageGoesDown DEF Follows, Stage
      <3>3. QED
        BY <2>1, <3>1, <3>2 DEF StepsLeft
    <2>4. CASE /\ job[j].pc = "announce" /\ Leaving(j) /\ job'[j].pc = "lock"
               /\ job'[j].user = job[j].user /\ job'[j].map = tracked[job[j].user]
      <3>1. ~Leaving(j)'
        BY <2>1, <2>4 DEF Leaving
      <3>2. StepsLeft(j)' = 8 /\ StepsLeft(j) = 14
        BY <2>4, <3>1 DEF StepsLeft, Stage
      <3>3. QED
        BY <3>2
    <2>5. QED
      BY <1>2, <2>2, <2>3, <2>4, StepPlaces
  <1>3. CASE ~Step(j)
    <2>1. CASE Mapper \/ UNCHANGED vars
      <3>1. UNCHANGED <<job, tracked>>
        BY <2>1 DEF Mapper, UploadSpec, PublishComment, Edit, vars
      <3>2. QED
        BY <1>1, <1>3, <3>1 DEF Leaving
    <2>2. ASSUME NEW i \in Jobs, Step(i), i # j
          PROVE  StepsLeft(j)' <= StepsLeft(j) /\ (Step(j) => StepsLeft(j)' < StepsLeft(j))
      <3>1. job'[j] = job[j] /\ tracked' = tracked
        BY <2>2, StepPlaces
      <3>2. QED
        BY <1>1, <1>3, <3>1 DEF Leaving
    <2>3. ASSUME NEW i \in Jobs, StartJob(i)
          PROVE  StepsLeft(j)' <= StepsLeft(j) /\ (Step(j) => StepsLeft(j)' < StepsLeft(j))
      <3>1. job'[j] = job[j]
        BY <2>3, StartEffect
      <3>2. Leaving(j)' <=> Leaving(j)
        <4>1. CASE tracked' = tracked
          BY <3>1, <4>1 DEF Leaving
        <4>2. CASE tracked' # tracked
          <5>1. PICK u \in Users, next \in Maps \cup {Nil} : StartMove(i, u, next)
            BY <2>3, <4>2 DEF StartJob, StartComment, StartRecheck, StartBind, StartUnlock, StartEquip, StartDelete
          <5>2. job[j].kind = "move" => job[j].user # u /\ job[j].user \in Users
            BY <5>1, PcKind DEF StartMove, ReadLoopFree, MovesInline
          <5>3. job[j].kind = "move" => tracked'[job[j].user] = tracked[job[j].user]
            BY <5>1, <5>2 DEF StartMove, TypeInv, TypeOK
          <5>4. QED
            BY <3>1, <5>3 DEF Leaving
        <4>3. QED
          BY <4>1, <4>2
      <3>3. QED
        BY <1>1, <1>3, <3>1, <3>2
    <2>4. QED
      BY <1>3, <2>1, <2>2, <2>3 DEF Next
  <1>4. QED
    BY <1>2, <1>3

-----------------------------------------------------------------------------
(* WayfinderBinding implements HatWardrobe.                                *)

\* The maps whose hats are trusted, as the abstract specification sees them.
LiveMaps == {m \in Maps : Usable(m)}

\* The catalogs a spec can have are catalogs a map can have.
LEMMA CatalogsAreCatalogs ==
    /\ Catalogs \cup {NoCatalog} \subseteq [Slugs -> Criteria \cup {Nil}]
    /\ \A r \in SpecRows : r.hats \in [Slugs -> Criteria \cup {Nil}]
  <1>1. Catalogs \subseteq [Slugs -> Criteria \cup {Nil}]
    BY TablesAssumption
  <1>2. NoCatalog \in [Slugs -> Criteria \cup {Nil}]
    BY DEF NoCatalog
  <1>3. \A r \in SpecRows : r.hats \in Catalogs \cup {NoCatalog}
    BY DEF SpecRows
  <1>4. QED
    BY <1>1, <1>2, <1>3

\* On a server that starts, unlocks are earned and hats are backed.
LEMMA InitWardrobe == Init => Wardrobe!Init
  <1> SUFFICES ASSUME Init PROVE Wardrobe!Init
    OBVIOUS
  <1>1. /\ onMap \in [Maps -> Catalogs \cup {NoCatalog}]
        /\ unlocked \in [Users \X Maps \X Slugs -> Criteria \cup {Legacy, Nil}]
        /\ equipped \in [Maps -> [Users -> Slugs \cup {Nil}]]
    BY InitTypeInv DEF TypeInv, TypeOK, TablesTypeOK
  <1>2. onMap \in [Maps -> [Slugs -> Criteria \cup {Nil}]]
    BY <1>1, CatalogsAreCatalogs
  <1>3. ASSUME NEW u \in Users, NEW m \in Maps, NEW h \in Slugs
        PROVE  /\ unlocked[<<u, m, h>>] \in Criteria => <<u, unlocked[<<u, m, h>>]>> \in Earned
               /\ equipped[m][u] = h => onMap[m][h] # Nil /\ unlocked[<<u, m, h>>] # Nil
    <2>1. h # Nil
      BY TablesAssumption
    <2>2. QED
      BY <2>1, InitTables DEF UnlocksWereEarned
  <1>4. QED
    BY <1>1, <1>2, <1>3 DEF Wardrobe!Init

\* The commit of a binding transaction writes the spec's current catalog and
\* snapshot, since it holds the spec's row.
LEMMA StockStep ==
    ASSUME TypeInv, NEW m \in Maps, NEW s \in Specs, NEW src, src = spec[s], NEW purge,
           Materialize(m, s, src, purge)
    PROVE  Wardrobe!Next
  <1> DEFINE hats == src.hats
             Worn(all) == [equipped EXCEPT ![m] =
                 [u \in Users |-> IF @[u] # Nil /\ (all \/ hats[@[u]] = Nil) THEN Nil ELSE @[u]]]
  <1>0. /\ spec \in [Specs -> SpecRows] /\ onMap \in [Maps -> Catalogs \cup {NoCatalog}]
        /\ bind \in [Maps -> [spec : Specs \cup {Nil}, author : Users \cup {Nil}, mat : 0 .. MaxRev]]
        /\ equipped \in [Maps -> [Users -> Slugs \cup {Nil}]]
    BY DEF TypeInv, TypeOK, TablesTypeOK
  <1>1. spec' = spec
    BY DEF Materialize
  <1>2. hats \in [Slugs -> Criteria \cup {Nil}]
    BY <1>0, CatalogsAreCatalogs
  <1>3. /\ bind'[m].spec = s /\ bind'[m].author = Owner[s] /\ bind'[m].mat = spec[s].rev
        /\ \A n \in Maps \ {m} : bind'[n] = bind[n]
    BY <1>0 DEF Materialize
  <1>4. LiveMaps' = LiveMaps \cup {m}
    <2>1. Usable(m)'
      BY <1>1, <1>3, TablesAssumption DEF Usable, Verified, Bound
    <2>2. \A n \in Maps \ {m} : Usable(n)' <=> Usable(n)
      BY <1>1, <1>3 DEF Usable, Verified, Bound
    <2>3. QED
      BY <2>1, <2>2 DEF LiveMaps
  <1>5. onMap' = [onMap EXCEPT ![m] = hats] /\ unlocked' = unlocked
    BY DEF Materialize
  <1>6. \E all \in BOOLEAN : equipped' = Worn(all)
    <2>1. equipped' = [equipped EXCEPT ![m] =
              [u \in Users |-> IF u \in TakenOff(m, src, purge) THEN Nil ELSE @[u]]]
      BY DEF Materialize
    <2>2. CASE purge
      <3>1. \A u \in Users : u \in TakenOff(m, src, purge) <=>
                                 equipped[m][u] # Nil /\ (TRUE \/ hats[equipped[m][u]] = Nil)
        BY <2>2 DEF TakenOff, Wearers
      <3>2. equipped' = Worn(TRUE)
        BY <1>0, <2>1, <3>1
      <3>3. QED
        BY <3>2
    <2>3. CASE ~purge
      <3>1. \A u \in Users : u \in TakenOff(m, src, purge) <=>
                                 equipped[m][u] # Nil /\ (FALSE \/ hats[equipped[m][u]] = Nil)
        BY <2>3 DEF TakenOff, Unmatched, Wearers
      <3>2. equipped' = Worn(FALSE)
        BY <1>0, <2>1, <3>1
      <3>3. QED
        BY <3>2
    <2>4. QED
      BY <2>2, <2>3
  <1>7. PICK all \in BOOLEAN : Wardrobe!Stock(m, hats, all)
    BY <1>4, <1>5, <1>6 DEF Wardrobe!Stock, LiveMaps
  <1>8. QED
    BY <1>2, <1>7 DEF Wardrobe!Next

\* Each step stocks a map, outdates some, unlocks, puts on or takes off one hat,
\* or leaves all that as it is.
LEMMA WardrobeStep ==
    ASSUME TypeInv, RowsInv, UnlockInv, [Next]_vars
    PROVE  [Wardrobe!Next]_(Wardrobe!vars)
  <1> USE TablesAssumption
  <1>0. /\ spec \in [Specs -> SpecRows] /\ onMap \in [Maps -> Catalogs \cup {NoCatalog}]
        /\ bind \in [Maps -> [spec : Specs \cup {Nil}, author : Users \cup {Nil}, mat : 0 .. MaxRev]]
        /\ unlocked \in [Users \X Maps \X Slugs -> Criteria \cup {Legacy, Nil}]
        /\ equipped \in [Maps -> [Users -> Slugs \cup {Nil}]]
        /\ \A s \in Specs : spec[s].rev \in Nat
    BY DEF TypeInv, TypeOK, TablesTypeOK, SpecRows
  <1>1. ASSUME UNCHANGED <<spec, bind>> PROVE LiveMaps' = LiveMaps
    BY <1>1 DEF LiveMaps, Usable, Verified, Bound
  <1>2. CASE UNCHANGED tables
    BY <1>1, <1>2 DEF tables, Wardrobe!vars, LiveMaps
  <1>3. ASSUME NEW j \in Jobs, job[j].pc = "grant", job[j].user \in Users, job[j].map \in Maps,
               job[j].slug \in Slugs, job[j].proof = onMap[job[j].map][job[j].slug],
               Usable(job[j].map), GrantHat(job[j].user, job[j].map, job[j].slug)
        PROVE  [Wardrobe!Next]_(Wardrobe!vars)
    <2> DEFINE k == <<job[j].user, job[j].map, job[j].slug>>
    <2>1. /\ unlocked' = [unlocked EXCEPT ![k] = IF @ = Nil THEN onMap[job[j].map][job[j].slug] ELSE @]
          /\ UNCHANGED <<spec, bind, onMap, equipped>> /\ LiveMaps' = LiveMaps
      BY <1>1, <1>3 DEF GrantHat
    <2>2. <<job[j].user, onMap[job[j].map][job[j].slug]>> \in Earned
      BY <1>3 DEF UnlockInv, ProofsHold
    <2>3. CASE unlocked[k] = Nil
      <3>1. Wardrobe!Unlock(job[j].user, job[j].map, job[j].slug)
        BY <1>3, <2>1, <2>2, <2>3 DEF Wardrobe!Unlock, LiveMaps
      <3>2. QED
        BY <1>3, <3>1 DEF Wardrobe!Next
    <2>4. CASE unlocked[k] # Nil
      <3>1. unlocked' = unlocked
        BY <1>0, <2>1, <2>4
      <3>2. QED
        BY <2>1, <3>1 DEF Wardrobe!vars, LiveMaps
    <2>5. QED
      BY <2>3, <2>4
  <1>4. ASSUME NEW u \in Users, NEW m \in Maps, NEW h \in Slugs \cup {Nil}, Equip(u, m, h),
               h = Nil \/ (Usable(m) /\ onMap[m][h] # Nil /\ unlocked[<<u, m, h>>] # Nil)
        PROVE  [Wardrobe!Next]_(Wardrobe!vars)
    <2>1. /\ equipped' = [equipped EXCEPT ![m][u] = h]
          /\ UNCHANGED <<spec, bind, onMap, unlocked>> /\ LiveMaps' = LiveMaps
      BY <1>1, <1>4 DEF Equip
    <2>2. CASE h = Nil
      <3>1. Wardrobe!TakeOff(u, m)
        BY <2>1, <2>2 DEF Wardrobe!TakeOff, LiveMaps
      <3>2. QED
        BY <3>1 DEF Wardrobe!Next
    <2>3. CASE h # Nil
      <3>1. Wardrobe!Wear(u, m, h) /\ h \in Slugs
        BY <1>4, <2>1, <2>3 DEF Wardrobe!Wear, LiveMaps
      <3>2. QED
        BY <3>1 DEF Wardrobe!Next
    <2>4. QED
      BY <2>2, <2>3
  <1>5. ASSUME NEW s \in Specs, Delete(s) PROVE [Wardrobe!Next]_(Wardrobe!vars)
    <2>1. \A r \in Specs : spec'[r].rev = spec[r].rev
      BY <1>0, <1>5 DEF Delete, SpecRows
    <2>2. UNCHANGED <<bind, onMap, unlocked, equipped>>
      BY <1>5 DEF Delete
    <2>3. LiveMaps' = LiveMaps
      BY <1>0, <2>1, <2>2 DEF LiveMaps, Usable, Verified, Bound
    <2>4. QED
      BY <2>2, <2>3 DEF Wardrobe!vars, LiveMaps
  <1>6. ASSUME NEW s \in Specs, NEW c \in Catalogs, Upsert(s, c)
        PROVE  [Wardrobe!Next]_(Wardrobe!vars)
    <2>1. /\ UNCHANGED <<bind, onMap, unlocked, equipped>> /\ spec'[s].rev = spec[s].rev + 1
          /\ \A r \in Specs \ {s} : spec'[r] = spec[r]
      BY <1>0, <1>6 DEF Upsert
    <2>2. \A m \in Maps : Bound(m) => bind[m].spec \in Specs /\ bind[m].mat \in Nat
      BY <1>0 DEF Bound
    <2>3. \A m \in Maps : Usable(m)' => Usable(m)
      BY <1>0, <2>1, <2>2 DEF RowsInv, SnapshotsAreOld, Bound, Verified, Usable
    <2>4. LiveMaps' = LiveMaps \ (LiveMaps \ LiveMaps') /\ LiveMaps \ LiveMaps' \in SUBSET Maps
      BY <2>3 DEF LiveMaps
    <2>5. Wardrobe!Close(LiveMaps \ LiveMaps')
      BY <2>1, <2>4 DEF Wardrobe!Close, LiveMaps
    <2>6. QED
      BY <2>4, <2>5 DEF Wardrobe!Next
  <1>7. ASSUME NEW j \in Jobs, NEW purge, job[j].pc = "commit", job[j].map \in Maps,
               job[j].spec \in Specs, Materialize(job[j].map, job[j].spec, job[j].src, purge)
        PROVE  Wardrobe!Next
    BY <1>7, StockStep DEF RowsInv, RowHeld
  <1>8. QED
    BY <1>2, <1>3, <1>4, <1>5, <1>6, <1>7, RowWrites

-----------------------------------------------------------------------------
(* The theorems.                                                           *)

\* Every reachable state has the shape the rows and the handlers' locals are
\* declared with, and no job is where its kind cannot be.
THEOREM TypeCorrect == Spec => []TypeOK
  <1>1. TypeInv => TypeOK
    BY DEF TypeInv
  <1>2. QED
    BY InitTypeInv, TypeStep, <1>1, PTL DEF Spec

\* Whatever handlers, tasks and processes race, a verified binding has an
\* authority: what a request 81 was told by Nadeo before it took the lock
\* (proof) and what a comment bind read (spec) stay true until they commit.
THEOREM BindingsAreAuthorized == Spec => []BindingIsAuthorized
  <1>1. AuthorityInv => BindingIsAuthorized
    BY DEF AuthorityInv
  <1>2. QED
    BY InitTypeInv, TypeStep, InitAuthority, AuthorityStep, <1>1, PTL DEF Spec

\* A verified map is moved to another spec by the commit of a comment bind and
\* by nothing else, whatever request 81 decided before it got the row locks.
THEOREM VerifiedMapsFollowComments == Spec => OnlyCommentsRebind
  <1> DEFINE Rebinds == \A m \in Maps : (Verified(m) /\ bind'[m].spec # bind[m].spec) =>
                           \E j \in Jobs : /\ job[j].pc = "commit"
                                           /\ job[j].kind \in {"comment", "recheck"}
                                           /\ job[j].map = m /\ job[j].spec = bind'[m].spec
  <1>1. TypeInv /\ [Next]_vars => Rebinds
    BY RebindStep
  <1>2. TypeInv /\ [Next]_vars => [Rebinds]_vars
    BY <1>1
  <1> HIDE DEF Rebinds
  <1>3. Spec => [][Rebinds]_vars
    BY InitTypeInv, TypeStep, <1>2, PTL DEF Spec
  <1>4. QED
    BY <1>3 DEF OnlyCommentsRebind, Rebinds

\* No upload slips between the read of a spec and the commit of its binding: a
\* usable map has its spec's hats.
THEOREM RowsAgree == Spec => []UsableMatchesSource
  <1>1. RowsInv => UsableMatchesSource
    BY DEF RowsInv
  <1>2. QED
    BY InitTypeInv, TypeStep, InitRows, RowsStep, <1>1, PTL DEF Spec

\* No deletion slips in there either: a bound spec exists.
THEOREM BoundSpecsExist == Spec => []BindingHasSpec
  <1>1. RowsInv => BindingHasSpec
    BY DEF RowsInv
  <1>2. QED
    BY InitTypeInv, TypeStep, InitRows, RowsStep, <1>1, PTL DEF Spec

\* The criterion a hat_unlock was proved against is the one its row demanded when
\* it was inserted, although Nadeo is asked outside the transaction.
THEOREM UnlocksAreEarned == Spec => []UnlocksWereEarned
  <1>1. UnlockInv => UnlocksWereEarned
    BY DEF UnlockInv
  <1>2. QED
    BY InitTypeInv, TypeStep, InitUnlock, UnlockStep, <1>1, PTL DEF Spec

\* What is worn is on the map and unlocked, however the map is rebound.
THEOREM HatsAreBacked == Spec => []EquippedIsBacked
  <1>1. Init => WornIsBacked
    BY InitTables DEF WornIsBacked
  <1>2. WornIsBacked => EquippedIsBacked
    BY DEF WornIsBacked, EquippedIsBacked
  <1>3. QED
    BY InitTypeInv, TypeStep, WornStep, <1>1, <1>2, PTL DEF Spec

\* The per-map operation lock keeps commits and broadcasts of a map in one
\* order: when it is free, the hat last broadcast is the one worn, but for the
\* removals the code does not announce.
THEOREM WhatIsShownIsWorn == Spec => []NoGhostHats
  <1>1. TypeInv /\ BroadcastInv => NoGhostHats
    <2> SUFFICES ASSUME TypeInv, BroadcastInv PROVE NoGhostHats
      OBVIOUS
    <2>1. ASSUME NEW m \in Maps, NEW u \in Users, mapLock[m] = Nil
          PROVE  \A j \in Jobs : ~Due(job[j], m, u)
      BY <2>1, DueHoldsLock, BindingAssumption DEF BroadcastInv
    <2>2. QED
      BY <2>1 DEF NoGhostHats, BroadcastInv, ChangesAreDue
  <1>2. QED
    BY InitTypeInv, TypeStep, InitBroadcast, BroadcastStep, <1>1, PTL DEF Spec

\* The bindings the handlers of both processes make are those MapAuthority allows.
THEOREM BindingImplementsAuthority == Spec => ImplementsAuthority
  <1>1. Init => Authority!Init
    BY InitAuthorized
  <1>2. TypeInv /\ AuthorityInv /\ [Next]_vars => [Authority!Next]_(Authority!vars)
    BY AuthorizedStep
  <1>3. QED
    BY InitTypeInv, TypeStep, InitAuthority, AuthorityStep, <1>1, <1>2, PTL
       DEF Spec, ImplementsAuthority, Authority!Spec

\* However many jobs run, permits there are and maps they touch, the order
\* permit, map lock, spec row admits no circle of waits, so while anything is
\* under way something is that need not wait.
THEOREM NobodyWaitsInACircle == Spec => [](NoCircularWait /\ SomeoneGoesOn)
  <1>1. Init => LockHeld
    BY DEF Init, Idle, LockHeld
  <1>2. TypeInv /\ LockHeld => NoCircularWait /\ SomeoneGoesOn
    BY WaitsGoUp, WaitsEnd
  <1>3. QED
    BY InitTypeInv, TypeStep, LockHeldStep, <1>1, <1>2, PTL DEF Spec

\* Every step of a handler or task brings it nearer to its end, in twenty steps
\* at most, and nothing that others do sets it back.
THEOREM StepsBringJobsToTheirEnd == Spec => StepsAreProgress
  <1> DEFINE Progress == \A j \in Jobs : job[j] # NoJob =>
                             /\ StepsLeft(j)' <= StepsLeft(j)
                             /\ Step(j) => StepsLeft(j)' < StepsLeft(j)
  <1>1. Init => MovesInline
    BY DEF Init, Idle, MovesInline, NoJob
  <1>2. TypeInv /\ MovesInline /\ [Next]_vars => [Progress]_vars
    BY ProgressStep
  <1> HIDE DEF Progress
  <1>3. Spec => [][Progress]_vars
    BY InitTypeInv, TypeStep, MovesInlineStep, <1>1, <1>2, PTL DEF Spec
  <1>4. QED
    BY <1>3 DEF StepsAreProgress, Progress

\* What maps offer, what is unlocked and what is worn change only as HatWardrobe
\* allows: report_unlock, equip and both binds decide by what is so when they
\* commit, whatever they have read before.
THEOREM BindingImplementsWardrobe == Spec => ImplementsWardrobe
  <1>1. TypeInv /\ RowsInv /\ UnlockInv /\ [Next]_vars => [Wardrobe!Next]_(Wardrobe!vars)
    BY WardrobeStep
  <1>2. QED
    BY InitTypeInv, TypeStep, InitRows, RowsStep, InitUnlock, UnlockStep, InitWardrobe, <1>1, PTL
       DEF Spec, ImplementsWardrobe, Wardrobe!Spec
=============================================================================
