-------------------------- MODULE ConnectionsProofs --------------------------
(***************************************************************************)
(* Proofs about Connections, for any number of clients, permits and        *)
(* broadcasts: permits come back exactly once, and a connection in good    *)
(* order misses nothing that was broadcast to its map.                     *)
(*                                                                         *)
(* The argument for the latter: what is queued for a connection, followed  *)
(* by what PlayerMgr has delivered to it, is what is due, but for a last   *)
(* Stop (Sound); a connection that runs is registered, being registered or *)
(* closed (Registry), so a delivery reaches exactly the connections the    *)
(* broadcast is due to.                                                    *)
(*                                                                         *)
(* That what begins to end does end (ConnectionsEnd) rests on fairness; it *)
(* is proved that such a connection is never stuck, and that each of its   *)
(* steps is one of a bounded number or takes a message off its inbox.      *)
(***************************************************************************)
EXTENDS Connections, SequenceTheorems, FiniteSetTheorems, TLAPS

Numbers == 1 .. MaxBroadcasts

Items == 1 .. Stop

\* The connection c, with the record r, has kept what is due to it, d.
Sound(r, d) ==
    /\ r.pc \in {"new", "auth", "ended"} => r.write = "off" /\ r.mgr = "off"
    /\ (r.pc \in Live /\ (r.write = "done" \/ r.mgr = "done")) => r.cancelled \/ shutdown
    /\ ~shutdown => r.inbox \in Seq(Numbers)
    /\ (r.pc # "ended" /\ r.write # "done") =>
           IF r.mgr = "done"
           THEN Len(r.queue) <= Len(d)
           ELSE \/ r.queue \o r.inbox = d
                \/ manager = "done" /\ r.queue \o r.inbox = d \o <<Stop>>

Registry ==
    /\ \A c \in registering \cup players : conn[c].pc # "new"
    /\ \A c \in registering : c \notin players
    /\ \A c, d \in registering : c = d
    /\ manager = "accept" => registering = {}
    /\ manager = "done" => shutdown
    /\ ~shutdown => \A c \in Conns : (conn[c].pc \in Live /\ ~Closed(c))
                        => c \in registering \cup players

IInv ==
    /\ TypeOK
    /\ \A c \in Conns : Sound(conn[c], due[c])
    /\ Registry
    /\ PermitsAccountedFor

-----------------------------------------------------------------------------
(* Sequences.                                                              *)

\* What is appended to the second part is appended to the whole.
LEMMA AppendToWhole ==
  ASSUME NEW S, NEW q \in Seq(S), NEW i \in Seq(S), NEW m \in S
  PROVE  q \o Append(i, m) = Append(q \o i, m)
  <1>1. Append(i, m) = i \o <<m>> /\ <<m>> \in Seq(S)
    BY AppendIsConcat
  <1>2. q \o (i \o <<m>>) = (q \o i) \o <<m>>
    BY <1>1, ConcatAssociative
  <1>3. q \o i \in Seq(S)
    BY ConcatProperties
  <1>4. Append(q \o i, m) = (q \o i) \o <<m>>
    BY <1>3, AppendIsConcat
  <1>5. QED
    BY <1>1, <1>2, <1>4

\* The head of the second part may move to the end of the first.
LEMMA HeadMoves ==
  ASSUME NEW S, NEW q \in Seq(S), NEW i \in Seq(S), i # <<>>
  PROVE  Append(q, Head(i)) \o Tail(i) = q \o i
  <1>1. Head(i) \in S /\ Tail(i) \in Seq(S) /\ <<Head(i)>> \in Seq(S)
    BY HeadTailProperties
  <1>2. i = <<Head(i)>> \o Tail(i)
    <2>1. /\ <<Head(i)>> \o Tail(i) \in Seq(S)
          /\ Len(<<Head(i)>> \o Tail(i)) = 1 + Len(Tail(i))
          /\ \A k \in 1 .. 1 + Len(Tail(i)) : (<<Head(i)>> \o Tail(i))[k] =
                 IF k <= 1 THEN <<Head(i)>>[k] ELSE Tail(i)[k - 1]
      BY <1>1, ConcatProperties
    <2>2. /\ Len(Tail(i)) = Len(i) - 1 /\ Head(i) = i[1]
          /\ \A k \in 1 .. Len(Tail(i)) : Tail(i)[k] = i[k + 1]
      BY HeadTailProperties
    <2>3. Len(i) \in Nat
      BY LenProperties
    <2>4. \A k \in 1 .. Len(i) : (<<Head(i)>> \o Tail(i))[k] = i[k]
      BY <2>1, <2>2, <2>3
    <2>5. QED
      BY <2>1, <2>2, <2>3, <2>4, SeqEqual
  <1>3. Append(q, Head(i)) = q \o <<Head(i)>>
    BY <1>1, AppendIsConcat
  <1>4. QED
    BY <1>1, <1>2, <1>3, ConcatAssociative

\* The tail of the whole is that of the first part.
LEMMA TailOfWhole ==
  ASSUME NEW S, NEW q \in Seq(S), NEW i \in Seq(S), q # <<>>
  PROVE  Tail(q) \o i = Tail(q \o i) /\ Head(q \o i) = Head(q)
  <1>1. /\ Tail(q) \in Seq(S) /\ Len(Tail(q)) = Len(q) - 1
        /\ \A k \in 1 .. Len(Tail(q)) : Tail(q)[k] = q[k + 1]
    BY HeadTailProperties
  <1>2. /\ q \o i \in Seq(S) /\ Len(q \o i) = Len(q) + Len(i)
        /\ \A k \in 1 .. Len(q) + Len(i) : (q \o i)[k] =
               IF k <= Len(q) THEN q[k] ELSE i[k - Len(q)]
    BY ConcatProperties
  <1>3. Len(q) \in Nat \ {0} /\ Len(i) \in Nat
    BY LenProperties, EmptySeq
  <1>4. q \o i # <<>>
    BY <1>2, <1>3, EmptySeq
  <1>5. /\ Tail(q \o i) \in Seq(S) /\ Len(Tail(q \o i)) = Len(q \o i) - 1
        /\ \A k \in 1 .. Len(Tail(q \o i)) : Tail(q \o i)[k] = (q \o i)[k + 1]
    BY <1>2, <1>4, HeadTailProperties
  <1>6. /\ Tail(q) \o i \in Seq(S) /\ Len(Tail(q) \o i) = Len(Tail(q)) + Len(i)
        /\ \A k \in 1 .. Len(Tail(q)) + Len(i) : (Tail(q) \o i)[k] =
               IF k <= Len(Tail(q)) THEN Tail(q)[k] ELSE i[k - Len(Tail(q))]
    BY <1>1, ConcatProperties
  <1>7. \A k \in 1 .. Len(Tail(q) \o i) : (Tail(q) \o i)[k] = Tail(q \o i)[k]
    BY <1>1, <1>2, <1>3, <1>5, <1>6
  <1>8. Tail(q) \o i = Tail(q \o i)
    BY <1>1, <1>2, <1>3, <1>5, <1>6, <1>7, SeqEqual
  <1>9. Head(q \o i) = Head(q)
    BY <1>2, <1>3, <1>4
  <1>10. QED
    BY <1>8, <1>9

-----------------------------------------------------------------------------
(* Steps of one connection.                                                *)

\* A connection that has nothing is well formed.
LEMMA NewType == ASSUME NEW pc \in {"new", "auth", "ended"}
                 PROVE  /\ [NewConn EXCEPT !.pc = pc] \in ConnRecords
                        /\ [NewConn EXCEPT !.pc = pc].pc = pc
                        /\ [NewConn EXCEPT !.pc = pc].inbox = <<>>
                        /\ [NewConn EXCEPT !.pc = pc].write = "off"
                        /\ [NewConn EXCEPT !.pc = pc].mgr = "off"
  <1>1. <<>> \in Seq(1 .. Stop) /\ <<>> \in Seq(1 .. MaxBroadcasts)
    BY EmptySeq
  <1>2. NewConn \in ConnRecords
    BY <1>1, ZenonT(40) DEF NewConn, ConnRecords, Live
  <1>3. [NewConn EXCEPT !.pc = pc] \in ConnRecords
    BY <1>2 DEF ConnRecords, Live
  <1>4. [NewConn EXCEPT !.pc = pc].pc = pc
    BY <1>2 DEF ConnRecords
  <1>5. /\ [NewConn EXCEPT !.pc = pc].inbox = NewConn.inbox /\ NewConn.inbox = <<>>
        /\ [NewConn EXCEPT !.pc = pc].write = NewConn.write /\ NewConn.write = "off"
        /\ [NewConn EXCEPT !.pc = pc].mgr = NewConn.mgr /\ NewConn.mgr = "off"
    BY <1>2 DEF ConnRecords, NewConn
  <1>6. QED
    BY <1>3, <1>4, <1>5

\* The server starts without connections.
LEMMA InitIInv == Init => IInv
  <1> USE ConnectionsAssumption
  <1> SUFFICES ASSUME Init PROVE IInv
    OBVIOUS
  <1>1. /\ NewConn \in ConnRecords /\ NewConn.pc = "new" /\ NewConn.inbox = <<>>
        /\ NewConn.queue = <<>> /\ NewConn.mgr = "off" /\ NewConn.write = "off"
    <2>1. NewConn = [NewConn EXCEPT !.pc = "new"]
      BY DEF NewConn
    <2>2. NewConn \in ConnRecords
      BY <2>1, NewType
    <2>3. QED
      BY <2>2 DEF NewConn
  <1>2. <<>> \in Seq(Numbers) /\ <<>> \o <<>> = <<>>
    BY EmptySeq, ConcatEmptySeq
  <1>3. TypeOK
    <2>1. /\ permits \in 0 .. MaxConnections /\ sent \in 0 .. MaxBroadcasts
          /\ outbox \in Seq(Numbers) /\ due \in [Conns -> Seq(Numbers)]
      BY <1>2 DEF Init
    <2>2. conn \in [Conns -> ConnRecords] /\ client \in [Conns -> {"here", "gone"}]
      BY <1>1 DEF Init
    <2>3. QED
      BY <2>1, <2>2 DEF Init, TypeOK, Numbers
  <1>4. \A c \in Conns : Sound(conn[c], due[c])
    BY <1>1, <1>2 DEF Init, Sound, Live
  <1>5. Registry
    BY <1>1 DEF Init, Registry, Live
  <1>6. PermitsAccountedFor
    <2>1. {c \in Conns : conn[c].pc \in Live} = {}
      BY <1>1 DEF Init, Live
    <2>2. permits = MaxConnections /\ Cardinality({}) = 0
      BY FS_EmptySet DEF Init
    <2>3. permits + Cardinality({}) = MaxConnections
      BY <2>2
    <2>4. QED
      BY <2>1, <2>3 DEF PermitsAccountedFor
  <1>7. QED
    BY <1>3, <1>4, <1>5, <1>6 DEF IInv

\* A connection goes on.
LEMMA MovesKeep ==
  ASSUME IInv, NEW c \in Conns, NEW r \in ConnRecords, NEW d \in Seq(Numbers),
         conn' = [conn EXCEPT ![c] = r], due' = [due EXCEPT ![c] = d],
         UNCHANGED <<client, permits, manager, registering, players, shutdown>>,
         outbox' \in Seq(Numbers), sent' \in 0 .. MaxBroadcasts,
         Sound(r, d), conn[c].pc \in Live, r.pc \in Live, conn[c].mgr = "done" => r.mgr = "done"
  PROVE  IInv'
  <1>1. /\ conn'[c] = r /\ due'[c] = d
        /\ \A b \in Conns \ {c} : conn'[b] = conn[b] /\ due'[b] = due[b]
    BY DEF IInv, TypeOK
  <1>2. TypeOK'
    BY DEF IInv, TypeOK, Numbers
  <1>4. \A b \in Conns : Sound(conn[b], due[b])'
    <2>1. Sound(conn[c], due[c])'
      BY <1>1 DEF Sound
    <2>2. ASSUME NEW b \in Conns \ {c} PROVE Sound(conn[b], due[b])'
      BY <1>1 DEF IInv, Sound
    <2>3. QED
      BY <2>1, <2>2
  <1>5. Registry'
    <2>1. \A b \in Conns : /\ conn'[b].pc = "new" <=> conn[b].pc = "new"
                           /\ conn'[b].pc \in Live <=> conn[b].pc \in Live
                           /\ Closed(b) => Closed(b)'
      BY <1>1 DEF Closed, Live
    <2>2. QED
      BY <2>1 DEF IInv, TypeOK, Registry
  <1>6. PermitsAccountedFor'
    <2>1. {b \in Conns : conn'[b].pc \in Live} = {b \in Conns : conn[b].pc \in Live}
      BY <1>1
    <2>2. QED
      BY <2>1 DEF IInv, PermitsAccountedFor
  <1>7. QED
    BY <1>2, <1>4, <1>5, <1>6 DEF IInv

\* A connection ends and gives its permit back.
LEMMA EndKeeps ==
  ASSUME IInv, NEW c \in Conns, conn[c].pc \in Live, End(c),
         UNCHANGED <<manager, registering, players, outbox, sent, shutdown>>
  PROVE  IInv'
  <1> USE ConnectionsAssumption
  <1> DEFINE r == [NewConn EXCEPT !.pc = "ended"]
  <1>1. /\ r \in ConnRecords /\ r.pc = "ended" /\ r.inbox = <<>> /\ r.write = "off" /\ r.mgr = "off"
        /\ conn' = [conn EXCEPT ![c] = r]
    BY NewType DEF End
  <1> HIDE DEF r
  <1>2. /\ conn'[c] = r /\ due'[c] = <<>>
        /\ \A b \in Conns \ {c} : conn'[b] = conn[b] /\ due'[b] = due[b]
    BY <1>1 DEF IInv, TypeOK, End
  <1>3. PermitsAccountedFor' /\ permits' \in 0 .. MaxConnections
    <2> DEFINE L == {b \in Conns : conn[b].pc \in Live}
    <2>1. {b \in Conns : conn'[b].pc \in Live} = L \ {c}
      BY <1>1, <1>2 DEF Live
    <2>2. IsFiniteSet(L)
      BY FS_Subset
    <2>3. c \in L
      OBVIOUS
    <2> HIDE DEF L
    <2>4. Cardinality(L \ {c}) = Cardinality(L) - 1 /\ IsFiniteSet(L \ {c})
      BY <2>2, <2>3, FS_RemoveElement
    <2>5. Cardinality(L) \in Nat /\ Cardinality(L \ {c}) \in Nat
      BY <2>2, <2>4, FS_CardinalityType
    <2>6. permits + Cardinality(L) = MaxConnections
      BY DEF IInv, PermitsAccountedFor, L
    <2>7. permits' = permits + 1 /\ permits \in 0 .. MaxConnections
      BY DEF End, PermitBack, IInv, TypeOK
    <2>8. permits' + Cardinality(L \ {c}) = MaxConnections
      BY <2>4, <2>5, <2>6, <2>7
    <2>9. permits' \in 0 .. MaxConnections
      BY <2>5, <2>7, <2>8
    <2>10. QED
      BY <2>1, <2>8, <2>9 DEF PermitsAccountedFor
  <1>4. TypeOK'
    <2>1. <<>> \in Seq(Numbers)
      BY EmptySeq
    <2>2. QED
      BY <1>1, <1>3, <2>1 DEF IInv, TypeOK, End, Numbers
  <1>5. \A b \in Conns : Sound(conn[b], due[b])'
    <2>1. Sound(conn[c], due[c])'
      BY <1>1, <1>2, EmptySeq DEF Sound, Live
    <2>2. ASSUME NEW b \in Conns \ {c} PROVE Sound(conn[b], due[b])'
      BY <1>2 DEF IInv, Sound
    <2>3. QED
      BY <2>1, <2>2
  <1>6. Registry'
    <2>1. \A b \in Conns : /\ conn'[b].pc = "new" => conn[b].pc = "new"
                           /\ conn'[b].pc \in Live => conn[b].pc \in Live
                           /\ Closed(b) => Closed(b)'
      BY <1>1, <1>2 DEF Closed, Live
    <2>2. QED
      BY <2>1 DEF IInv, TypeOK, Registry
  <1>7. QED
    BY <1>3, <1>4, <1>5, <1>6 DEF IInv

\* What is queued is due: a Stop is never queued.
LEMMA QueueIsDue ==
  ASSUME NEW q \in Seq(Numbers), NEW i \in Seq(Items), NEW d \in Seq(Numbers),
         q \o i = d \/ q \o i = d \o <<Stop>>
  PROVE  Len(q) <= Len(d)
  <1> USE ConnectionsAssumption
  <1>1. Numbers \subseteq Items /\ Stop \in Items /\ Stop \notin Numbers
    BY DEF Numbers, Items, Stop
  <1>2. q \in Seq(Items) /\ d \in Seq(Items) /\ <<Stop>> \in Seq(Items)
    BY <1>1, SeqMonotonic
  <1>3. Len(q) \in Nat /\ Len(i) \in Nat /\ Len(d) \in Nat
    BY LenProperties
  <1>4. /\ Len(q \o i) = Len(q) + Len(i)
        /\ \A k \in 1 .. Len(q) + Len(i) : (q \o i)[k] =
               IF k <= Len(q) THEN q[k] ELSE i[k - Len(q)]
    BY <1>2, ConcatProperties
  <1>5. CASE q \o i = d
    BY <1>3, <1>4, <1>5
  <1>6. CASE q \o i = d \o <<Stop>>
    <2>1. /\ Len(d \o <<Stop>>) = Len(d) + Len(<<Stop>>)
          /\ \A k \in 1 .. Len(d) + Len(<<Stop>>) : (d \o <<Stop>>)[k] =
                 IF k <= Len(d) THEN d[k] ELSE <<Stop>>[k - Len(d)]
      BY <1>2, ConcatProperties
    <2>2. SUFFICES ASSUME Len(q) = Len(d) + 1 PROVE FALSE
      BY <1>3, <1>4, <1>6, <2>1
    <2>3. q[Len(q)] = Stop
      BY <1>3, <1>4, <1>6, <2>1, <2>2
    <2>4. q[Len(q)] \in Numbers
      BY <1>3, <2>2, ElementOfSeq
    <2>5. QED
      BY <1>1, <2>3, <2>4
  <1>7. QED
    BY <1>5, <1>6

\* Steps that neither queue nor deliver.
LEMMA LoopsKeep ==
  ASSUME IInv, NEW c \in Conns,
         \/ Authenticate(c) \/ Handle(c) \/ ReadFails(c) \/ ReadStops(c) \/ Written(c)
  PROVE  IInv'
  <1> USE ConnectionsAssumption
  <1>1. conn[c] \in ConnRecords /\ Sound(conn[c], due[c]) /\ due[c] \in Seq(Numbers)
    BY DEF IInv, TypeOK, Numbers
  <1>2. due' = [due EXCEPT ![c] = due[c]]
    BY DEF Authenticate, Handle, ReadFails, ReadStops, Written, IInv, TypeOK
  <1>3. UNCHANGED <<client, permits, manager, registering, players, shutdown>>
    BY DEF Authenticate, Handle, ReadFails, ReadStops, Written
  <1>4. conn[c].pc \in Live
    BY <1>1 DEF Authenticate, Handle, ReadFails, ReadStops, Written, Sound, ConnRecords, Live
  <1>5. outbox' \in Seq(Numbers) /\ sent' \in 0 .. MaxBroadcasts
    <2>1. outbox \in Seq(Numbers) /\ sent \in 0 .. MaxBroadcasts
      BY DEF IInv, TypeOK, Numbers
    <2>2. CASE sent < MaxBroadcasts /\ sent' = sent + 1 /\ outbox' = Append(outbox, sent')
      <3>1. sent' \in Numbers
        BY <2>1, <2>2 DEF Numbers
      <3>2. QED
        BY <2>1, <2>2, <3>1, AppendProperties DEF Numbers
    <2>3. CASE UNCHANGED <<outbox, sent>>
      BY <2>1, <2>3
    <2>4. QED
      BY <2>2, <2>3 DEF Authenticate, Handle, ReadFails, ReadStops, Written
  <1>6. ASSUME NEW r \in ConnRecords, conn' = [conn EXCEPT ![c] = r], r.pc \in {"open", "waiting"},
               r.queue = conn[c].queue, r.inbox = conn[c].inbox,
               \/ conn[c].pc = "auth" /\ r.write = "on" /\ r.mgr = "on"
               \/ conn[c].pc # "auth" /\ r.mgr = conn[c].mgr
                  /\ (r.write = conn[c].write \/ (r.write = "on" /\ conn[c].write # "done")),
               conn[c].cancelled => r.cancelled
        PROVE  IInv'
    <2>1. Sound(r, due[c])
      BY <1>1, <1>4, <1>6 DEF Sound, Live
    <2>2. r.pc \in Live /\ (conn[c].mgr = "done" => r.mgr = "done")
      BY <1>1, <1>6 DEF Live, Sound
    <2>3. QED
      BY <1>1, <1>2, <1>3, <1>4, <1>5, <1>6, <2>1, <2>2, MovesKeep
  <1>7. CASE Authenticate(c)
    <2> DEFINE r == [conn[c] EXCEPT !.pc = "open", !.write = "on", !.mgr = "on"]
    <2>1. r \in ConnRecords
      BY <1>1 DEF ConnRecords, Live
    <2>2. /\ r.pc = "open" /\ r.write = "on" /\ r.mgr = "on" /\ r.queue = conn[c].queue
          /\ r.inbox = conn[c].inbox /\ r.cancelled = conn[c].cancelled
      BY <1>1 DEF ConnRecords
    <2>3. conn' = [conn EXCEPT ![c] = r] /\ conn[c].pc = "auth"
      BY <1>7 DEF Authenticate
    <2> HIDE DEF r
    <2>4. QED
      BY <1>6, <2>1, <2>2, <2>3
  <1>8. CASE Handle(c) /\ UNCHANGED conn
    <2>1. conn' = [conn EXCEPT ![c] = conn[c]] /\ conn[c].pc = "open"
      BY <1>8 DEF Handle, IInv, TypeOK
    <2>2. QED
      BY <1>1, <1>6, <2>1
  <1>9. CASE Handle(c) /\ conn' = [conn EXCEPT ![c].map = ~@]
    <2> DEFINE r == [conn[c] EXCEPT !.map = ~conn[c].map]
    <2>1. conn[c].map \in BOOLEAN
      BY <1>1 DEF ConnRecords
    <2>2. r \in ConnRecords
      BY <1>1, <2>1, ZenonT(40) DEF ConnRecords
    <2>3. /\ r.pc = conn[c].pc /\ r.write = conn[c].write /\ r.mgr = conn[c].mgr
          /\ r.queue = conn[c].queue /\ r.inbox = conn[c].inbox
          /\ r.cancelled = conn[c].cancelled
      BY <1>1 DEF ConnRecords
    <2>4. conn' = [conn EXCEPT ![c] = r] /\ conn[c].pc = "open"
      BY <1>9 DEF Handle
    <2> HIDE DEF r
    <2>5. QED
      BY <1>6, <2>2, <2>3, <2>4
  <1>10. CASE ReadFails(c)
    <2> DEFINE r == [conn[c] EXCEPT !.pc = "waiting", !.cancelled = TRUE]
    <2>1. r \in ConnRecords
      BY <1>1, ZenonT(40) DEF ConnRecords, Live
    <2>2. /\ r.pc = "waiting" /\ r.write = conn[c].write /\ r.mgr = conn[c].mgr
          /\ r.queue = conn[c].queue /\ r.inbox = conn[c].inbox /\ r.cancelled
      BY <1>1 DEF ConnRecords
    <2>3. conn' = [conn EXCEPT ![c] = r] /\ conn[c].pc = "open"
      BY <1>10 DEF ReadFails
    <2> HIDE DEF r
    <2>4. QED
      BY <1>6, <2>1, <2>2, <2>3
  <1>11. CASE ReadStops(c)
    <2> DEFINE r == [conn[c] EXCEPT !.pc = "waiting"]
    <2>1. r \in ConnRecords
      BY <1>1 DEF ConnRecords, Live
    <2>2. /\ r.pc = "waiting" /\ r.write = conn[c].write /\ r.mgr = conn[c].mgr
          /\ r.queue = conn[c].queue /\ r.inbox = conn[c].inbox
          /\ r.cancelled = conn[c].cancelled
      BY <1>1 DEF ConnRecords
    <2>3. conn' = [conn EXCEPT ![c] = r] /\ conn[c].pc = "open"
      BY <1>11 DEF ReadStops, Enter
    <2> HIDE DEF r
    <2>4. QED
      BY <1>6, <2>1, <2>2, <2>3
  <1>12. CASE Written(c)
    <2> DEFINE r == [conn[c] EXCEPT !.write = "on"]
    <2>1. r \in ConnRecords
      BY <1>1 DEF ConnRecords
    <2>2. /\ r.pc = conn[c].pc /\ r.write = "on" /\ r.mgr = conn[c].mgr
          /\ r.queue = conn[c].queue /\ r.inbox = conn[c].inbox
          /\ r.cancelled = conn[c].cancelled
      BY <1>1 DEF ConnRecords
    <2>3. conn' = [conn EXCEPT ![c] = r] /\ conn[c].write = "writing"
      BY <1>12 DEF Written
    <2>4. conn[c].pc \in {"open", "waiting"}
      BY <1>1, <1>4, <2>3 DEF Sound, Live
    <2> HIDE DEF r
    <2>5. QED
      BY <1>6, <2>1, <2>2, <2>3, <2>4
  <1>13. QED
    BY <1>7, <1>8, <1>9, <1>10, <1>11, <1>12 DEF Handle

\* The write loop takes the next message, which is the next that is due.
LEMMA StartWriteKeeps ==
  ASSUME IInv, NEW c \in Conns, StartWrite(c)
  PROVE  IInv'
  <1> USE ConnectionsAssumption
  <1> DEFINE q == conn[c].queue
             i == conn[c].inbox
             d == due[c]
             r == [conn[c] EXCEPT !.write = "writing", !.queue = Tail(q)]
  <1>1. /\ conn[c] \in ConnRecords /\ Sound(conn[c], d) /\ d \in Seq(Numbers)
        /\ q \in Seq(Numbers) /\ i \in Seq(Items) /\ q # <<>> /\ conn[c].write = "on"
        /\ conn[c].pc \in Live
    BY DEF IInv, TypeOK, Numbers, Items, ConnRecords, StartWrite, Sound, Live
  <1>2. Numbers \subseteq Items /\ Stop \in Items /\ Stop \notin Numbers
    BY DEF Numbers, Items, Stop
  <1>3. q \in Seq(Items) /\ d \in Seq(Items) /\ <<Stop>> \in Seq(Items) /\ <<>> \in Seq(Items)
    BY <1>1, <1>2, SeqMonotonic
  <1>4. Tail(q) \in Seq(Numbers) /\ Head(q) \in Numbers /\ Len(Tail(q)) = Len(q) - 1
    BY <1>1, HeadTailProperties
  <1>5. Tail(q) \o i = Tail(q \o i) /\ Head(q \o i) = Head(q)
    BY <1>1, <1>3, TailOfWhole
  <1>6. q \o i # <<>>
    BY <1>1, <1>3, ConcatEqualIffEmpty
  <1>7. d # <<>>
    <2>1. CASE conn[c].mgr = "done"
      <3>1. Len(q) <= Len(d)
        BY <1>1, <2>1 DEF Sound, Live
      <3>2. Len(q) \in Nat \ {0}
        BY <1>1, LenProperties, EmptySeq
      <3>3. QED
        BY <3>1, <3>2, EmptySeq
    <2>2. CASE q \o i = d
      BY <1>6, <2>2
    <2>3. CASE q \o i = d \o <<Stop>>
      <3>1. SUFFICES ASSUME d = <<>> PROVE FALSE
        OBVIOUS
      <3>2. q \o i = <<Stop>>
        BY <1>3, <2>3, <3>1, ConcatEmptySeq
      <3>3. Head(q) = Stop
        BY <1>5, <3>2
      <3>4. QED
        BY <1>2, <1>4, <3>3
    <2>4. QED
      BY <1>1, <2>1, <2>2, <2>3 DEF Sound, Live
  <1>8. Tail(d) \in Seq(Numbers) /\ Len(Tail(d)) = Len(d) - 1
    BY <1>1, <1>7, HeadTailProperties
  <1>9. Tail(d \o <<Stop>>) = Tail(d) \o <<Stop>>
    BY <1>3, <1>7, TailOfWhole
  <1>10. r \in ConnRecords
    BY <1>1, <1>4 DEF ConnRecords, Numbers
  <1>11. /\ r.pc = conn[c].pc /\ r.write = "writing" /\ r.mgr = conn[c].mgr
         /\ r.queue = Tail(q) /\ r.inbox = i /\ r.cancelled = conn[c].cancelled
    BY <1>1 DEF ConnRecords
  <1>12. conn' = [conn EXCEPT ![c] = r] /\ due' = [due EXCEPT ![c] = Tail(d)]
    BY DEF StartWrite
  <1> HIDE DEF r
  <1>13. Sound(r, Tail(d))
    <2>1. /\ r.pc \in {"new", "auth", "ended"} => FALSE
          /\ (r.pc \in Live /\ r.mgr = "done") => r.cancelled \/ shutdown
          /\ ~shutdown => r.inbox \in Seq(Numbers)
      BY <1>1, <1>11 DEF Sound, Live
    <2>2. CASE conn[c].mgr = "done"
      <3>1. Len(q) <= Len(d) /\ Len(q) \in Nat /\ Len(d) \in Nat
        BY <1>1, <2>2, LenProperties DEF Sound, Live
      <3>2. Len(Tail(q)) <= Len(Tail(d))
        BY <1>4, <1>8, <3>1
      <3>3. QED
        BY <1>11, <2>1, <2>2, <3>2 DEF Sound
    <2>3. CASE conn[c].mgr # "done"
      <3>1. \/ q \o i = d
            \/ manager = "done" /\ q \o i = d \o <<Stop>>
        BY <1>1, <2>3 DEF Sound, Live
      <3>2. \/ Tail(q) \o i = Tail(d)
            \/ manager = "done" /\ Tail(q) \o i = Tail(d) \o <<Stop>>
        BY <1>5, <1>9, <3>1
      <3>3. QED
        BY <1>11, <2>1, <2>3, <3>2 DEF Sound
    <2>4. QED
      BY <2>2, <2>3
  <1>14. /\ UNCHANGED <<client, permits, manager, registering, players, shutdown>>
         /\ outbox' \in Seq(Numbers) /\ sent' \in 0 .. MaxBroadcasts
    BY DEF StartWrite, IInv, TypeOK, Numbers
  <1>15. r.pc \in Live /\ (conn[c].mgr = "done" => r.mgr = "done")
    BY <1>1, <1>11
  <1>16. QED
    BY <1>1, <1>8, <1>10, <1>12, <1>13, <1>14, <1>15, MovesKeep

\* The write loop ends.
LEMMA WriteEndsKeep ==
  ASSUME IInv, NEW c \in Conns, WriteFails(c) \/ WriteStops(c)
  PROVE  IInv'
  <1> USE ConnectionsAssumption
  <1>1. /\ conn[c] \in ConnRecords /\ Sound(conn[c], due[c]) /\ due[c] \in Seq(Numbers)
        /\ conn[c].pc \in Live /\ conn[c].pc # "auth"
    BY DEF IInv, TypeOK, Numbers, ConnRecords, WriteFails, WriteStops, Sound, Live
  <1>2. /\ UNCHANGED <<client, permits, manager, registering, players, shutdown>>
        /\ due' = [due EXCEPT ![c] = due[c]]
        /\ outbox' \in Seq(Numbers) /\ sent' \in 0 .. MaxBroadcasts
    BY DEF WriteFails, WriteStops, IInv, TypeOK, Numbers
  <1>3. <<>> \in Seq(Numbers)
    BY EmptySeq
  <1>4. ASSUME NEW r \in ConnRecords, conn' = [conn EXCEPT ![c] = r],
               r.pc = conn[c].pc, r.write = "done", r.mgr = conn[c].mgr,
               r.inbox = conn[c].inbox, r.cancelled \/ shutdown
        PROVE  IInv'
    <2>1. Sound(r, due[c])
      BY <1>1, <1>4 DEF Sound, Live
    <2>2. QED
      BY <1>1, <1>2, <1>4, <2>1, MovesKeep
  <1>5. CASE WriteFails(c)
    <2> DEFINE r == [conn[c] EXCEPT !.write = "done", !.queue = <<>>, !.cancelled = TRUE]
    <2>1. r \in ConnRecords
      BY <1>1, <1>3, ZenonT(40) DEF ConnRecords, Numbers
    <2>2. /\ r.pc = conn[c].pc /\ r.write = "done" /\ r.mgr = conn[c].mgr
          /\ r.inbox = conn[c].inbox /\ r.cancelled
      BY <1>1 DEF ConnRecords
    <2>3. conn' = [conn EXCEPT ![c] = r]
      BY <1>5 DEF WriteFails
    <2> HIDE DEF r
    <2>4. QED
      BY <1>4, <2>1, <2>2, <2>3
  <1>6. CASE WriteStops(c)
    <2> DEFINE r == [conn[c] EXCEPT !.write = "done", !.queue = <<>>]
    <2>1. r \in ConnRecords
      BY <1>1, <1>3, ZenonT(40) DEF ConnRecords, Numbers
    <2>2. /\ r.pc = conn[c].pc /\ r.write = "done" /\ r.mgr = conn[c].mgr
          /\ r.inbox = conn[c].inbox /\ r.cancelled = conn[c].cancelled
      BY <1>1 DEF ConnRecords
    <2>3. conn' = [conn EXCEPT ![c] = r] /\ (conn[c].cancelled \/ shutdown)
      BY <1>6 DEF WriteStops, Cancelled
    <2> HIDE DEF r
    <2>4. QED
      BY <1>4, <2>1, <2>2, <2>3
  <1>7. QED
    BY <1>5, <1>6

\* The manager loop ends, by the token or by ToPlayer::Shutdown.
LEMMA ManagerEndsKeep ==
  ASSUME IInv, NEW c \in Conns,
         \/ ForwardStops(c)
         \/ Forward(c) /\ Head(conn[c].inbox) = Stop
  PROVE  IInv'
  <1> USE ConnectionsAssumption
  <1> DEFINE q == conn[c].queue
             i == conn[c].inbox
             d == due[c]
             r == [conn[c] EXCEPT !.mgr = "done", !.inbox = <<>>]
  <1>1. /\ conn[c] \in ConnRecords /\ Sound(conn[c], d) /\ d \in Seq(Numbers)
        /\ q \in Seq(Numbers) /\ i \in Seq(Items)
        /\ conn[c].mgr = "on" /\ conn[c].pc \in Live /\ conn[c].pc # "auth"
    BY DEF IInv, TypeOK, Numbers, Items, ConnRecords, ForwardStops, Forward, Sound, Live
  <1>2. /\ UNCHANGED <<client, permits, manager, registering, players, shutdown>>
        /\ due' = [due EXCEPT ![c] = d]
        /\ outbox' \in Seq(Numbers) /\ sent' \in 0 .. MaxBroadcasts
        /\ conn' = [conn EXCEPT ![c] = r]
    BY DEF ForwardStops, Forward, IInv, TypeOK, Numbers
  <1>3. <<>> \in Seq(Numbers) /\ <<>> \in Seq(Items)
    BY EmptySeq
  <1>4. /\ r \in ConnRecords
        /\ r.pc = conn[c].pc /\ r.write = conn[c].write /\ r.mgr = "done"
        /\ r.inbox = <<>> /\ r.queue = q /\ r.cancelled = conn[c].cancelled
    BY <1>1, <1>3 DEF ConnRecords, Items
  <1>5. conn[c].cancelled \/ shutdown
    <2>1. CASE ForwardStops(c)
      BY <2>1 DEF ForwardStops, Cancelled
    <2>2. CASE Forward(c) /\ Head(i) = Stop
      <3>1. SUFFICES ASSUME ~shutdown PROVE FALSE
        OBVIOUS
      <3>2. i \in Seq(Numbers) /\ i # <<>>
        BY <1>1, <2>2, <3>1 DEF Sound, Forward
      <3>3. Head(i) \in Numbers
        BY <3>2, HeadTailProperties
      <3>4. QED
        BY <2>2, <3>3 DEF Numbers, Stop
    <2>3. QED
      BY <2>1, <2>2
  <1>6. conn[c].write # "done" => Len(q) <= Len(d)
    <2>1. SUFFICES ASSUME conn[c].write # "done" PROVE Len(q) <= Len(d)
      OBVIOUS
    <2>2. q \o i = d \/ q \o i = d \o <<Stop>>
      BY <1>1, <2>1 DEF Sound, Live
    <2>3. QED
      BY <1>1, <2>2, QueueIsDue
  <1> HIDE DEF r
  <1>7. Sound(r, d)
    BY <1>1, <1>3, <1>4, <1>5, <1>6 DEF Sound, Live
  <1>8. QED
    BY <1>1, <1>2, <1>4, <1>7, MovesKeep

\* The manager loop passes a broadcast on.
LEMMA ForwardKeeps ==
  ASSUME IInv, NEW c \in Conns, Forward(c), Head(conn[c].inbox) # Stop
  PROVE  IInv'
  <1> USE ConnectionsAssumption
  <1> DEFINE q == conn[c].queue
             i == conn[c].inbox
             d == due[c]
             n == IF conn[c].write = "done" THEN q ELSE Append(q, Head(i))
             r == [conn[c] EXCEPT !.inbox = Tail(i), !.queue = n]
  <1>1. /\ conn[c] \in ConnRecords /\ Sound(conn[c], d) /\ d \in Seq(Numbers)
        /\ q \in Seq(Numbers) /\ i \in Seq(Items) /\ i # <<>>
        /\ conn[c].mgr = "on" /\ conn[c].pc \in Live /\ conn[c].pc # "auth"
    BY DEF IInv, TypeOK, Numbers, Items, ConnRecords, Forward, Sound, Live
  <1>2. Head(i) \in Numbers /\ Tail(i) \in Seq(Items)
    <2>1. Head(i) \in Items /\ Tail(i) \in Seq(Items)
      BY <1>1, HeadTailProperties
    <2>2. QED
      BY <2>1 DEF Items, Numbers, Stop
  <1>3. n \in Seq(Numbers)
    BY <1>1, <1>2, AppendProperties
  <1>4. ~shutdown => Tail(i) \in Seq(Numbers)
    <2>1. SUFFICES ASSUME ~shutdown PROVE Tail(i) \in Seq(Numbers)
      OBVIOUS
    <2>2. i \in Seq(Numbers)
      BY <1>1, <2>1 DEF Sound
    <2>3. QED
      BY <1>1, <2>2, HeadTailProperties
  <1>5. conn[c].write # "done" => n \o Tail(i) = q \o i
    <2>1. q \in Seq(Items)
      <3>1. Numbers \subseteq Items
        BY DEF Numbers, Items, Stop
      <3>2. QED
        BY <1>1, <3>1, SeqMonotonic
    <2>2. QED
      BY <1>1, <2>1, HeadMoves
  <1>6. /\ UNCHANGED <<client, permits, manager, registering, players, shutdown>>
        /\ due' = [due EXCEPT ![c] = d]
        /\ outbox' \in Seq(Numbers) /\ sent' \in 0 .. MaxBroadcasts
        /\ conn' = [conn EXCEPT ![c] = r]
    BY DEF Forward, IInv, TypeOK, Numbers
  <1> HIDE DEF n
  <1>7. /\ r \in ConnRecords
        /\ r.pc = conn[c].pc /\ r.write = conn[c].write /\ r.mgr = conn[c].mgr
        /\ r.inbox = Tail(i) /\ r.queue = n /\ r.cancelled = conn[c].cancelled
    BY <1>1, <1>2, <1>3 DEF ConnRecords, Items, Numbers
  <1> HIDE DEF r
  <1>8. Sound(r, d)
    <2>1. /\ r.pc \in {"new", "auth", "ended"} => FALSE
          /\ (r.pc \in Live /\ (r.write = "done" \/ r.mgr = "done")) => r.cancelled \/ shutdown
          /\ ~shutdown => r.inbox \in Seq(Numbers)
      BY <1>1, <1>4, <1>7 DEF Sound, Live
    <2>2. r.write # "done" =>
              \/ r.queue \o r.inbox = d
              \/ manager = "done" /\ r.queue \o r.inbox = d \o <<Stop>>
      BY <1>1, <1>5, <1>7 DEF Sound, Live
    <2>3. r.mgr # "done"
      BY <1>1, <1>7
    <2>4. QED
      BY <2>1, <2>2, <2>3 DEF Sound
  <1>9. QED
    BY <1>1, <1>6, <1>7, <1>8, MovesKeep

-----------------------------------------------------------------------------
(* Steps of PlayerMgr and of the environment.                              *)

\* A step that starts and ends no connection leaves the permits accounted for.
LEMMA SamePcs ==
  ASSUME IInv, permits' = permits, \A c \in Conns : conn'[c].pc = conn[c].pc
  PROVE  PermitsAccountedFor'
  <1>1. {c \in Conns : conn'[c].pc \in Live} = {c \in Conns : conn[c].pc \in Live}
    OBVIOUS
  <1>2. QED
    BY <1>1 DEF IInv, PermitsAccountedFor

\* A client vanishes.
LEMMA VanishKeeps == ASSUME IInv, NEW c \in Conns, Vanish(c) PROVE IInv'
  <1>1. TypeOK'
    BY DEF IInv, TypeOK, Vanish
  <1>2. \A b \in Conns : Sound(conn[b], due[b])'
    BY DEF IInv, Sound, Vanish
  <1>3. Registry'
    BY DEF IInv, Registry, Closed, Vanish
  <1>4. PermitsAccountedFor'
    BY SamePcs DEF Vanish
  <1>5. QED
    BY <1>1, <1>2, <1>3, <1>4 DEF IInv

\* PlayerMgr starts a connection with a permit of its own.
LEMMA AcceptKeeps == ASSUME IInv, NEW c \in Conns, Accept(c) PROVE IInv'
  <1> USE ConnectionsAssumption
  <1> DEFINE r == [conn[c] EXCEPT !.pc = "auth"]
  <1>1. conn[c] \in ConnRecords /\ Sound(conn[c], due[c]) /\ conn[c].pc = "new"
    BY DEF IInv, TypeOK, Accept
  <1>2. /\ r \in ConnRecords /\ r.pc = "auth" /\ r.write = conn[c].write /\ r.mgr = conn[c].mgr
        /\ r.queue = conn[c].queue /\ r.inbox = conn[c].inbox
    BY <1>1 DEF ConnRecords, Live
  <1>3. conn' = [conn EXCEPT ![c] = r]
    BY DEF Accept
  <1> HIDE DEF r
  <1>4. conn'[c] = r /\ \A b \in Conns \ {c} : conn'[b] = conn[b]
    BY <1>3 DEF IInv, TypeOK
  <1>5. PermitsAccountedFor' /\ permits' \in 0 .. MaxConnections
    <2> DEFINE L == {b \in Conns : conn[b].pc \in Live}
    <2>1. {b \in Conns : conn'[b].pc \in Live} = L \cup {c}
      BY <1>2, <1>4 DEF Live
    <2>2. IsFiniteSet(L)
      BY FS_Subset
    <2>3. c \notin L
      BY <1>1 DEF Live
    <2> HIDE DEF L
    <2>4. Cardinality(L \cup {c}) = Cardinality(L) + 1
      BY <2>2, <2>3, FS_AddElement
    <2>5. Cardinality(L) \in Nat
      BY <2>2, FS_CardinalityType
    <2>6. permits + Cardinality(L) = MaxConnections
      BY DEF IInv, PermitsAccountedFor, L
    <2>7. permits' = permits - 1 /\ permits > 0 /\ permits \in 0 .. MaxConnections
      BY DEF Accept, IInv, TypeOK
    <2>8. permits' + Cardinality(L \cup {c}) = MaxConnections
      BY <2>4, <2>5, <2>6, <2>7
    <2>9. QED
      BY <2>1, <2>7, <2>8 DEF PermitsAccountedFor
  <1>6. TypeOK'
    BY <1>2, <1>3, <1>5 DEF IInv, TypeOK, Accept
  <1>7. \A b \in Conns : Sound(conn[b], due[b])'
    <2>1. Sound(conn[c], due[c])'
      BY <1>1, <1>2, <1>4 DEF Sound, Live, Accept
    <2>2. ASSUME NEW b \in Conns \ {c} PROVE Sound(conn[b], due[b])'
      BY <1>4 DEF IInv, Sound, Accept
    <2>3. QED
      BY <2>1, <2>2
  <1>8. Registry'
    <2>1. \A b \in Conns \ {c} : Closed(b)' <=> Closed(b)
      BY <1>4 DEF Closed
    <2>2. registering = {} /\ registering' = {c} /\ players' = players /\ manager' = "register"
          /\ shutdown' = shutdown
      BY DEF IInv, Registry, Accept
    <2>3. c \notin players
      BY <1>1 DEF IInv, Registry
    <2>4. players \subseteq Conns
      BY DEF IInv, TypeOK
    <2>5. \A b \in registering' \cup players' : conn'[b].pc # "new"
      BY <1>2, <1>4, <2>2, <2>3, <2>4 DEF IInv, Registry
    <2>6. ~shutdown' => \A b \in Conns : (conn'[b].pc \in Live /\ ~Closed(b)')
                            => b \in registering' \cup players'
      BY <1>4, <2>1, <2>2 DEF IInv, Registry
    <2>7. QED
      BY <2>2, <2>3, <2>5, <2>6 DEF Registry
  <1>9. QED
    BY <1>5, <1>6, <1>7, <1>8 DEF IInv

\* PlayerMgr pushes the connection it has started.
LEMMA RegisterKeeps == ASSUME IInv, NEW c \in Conns, Register(c) PROVE IInv'
  <1>1. TypeOK'
    BY DEF IInv, TypeOK, Register
  <1>2. \A b \in Conns : Sound(conn[b], due[b])'
    BY DEF IInv, Sound, Register
  <1>3. Registry'
    <2>1. registering = {c} /\ registering' = {} /\ players' = players \cup {c}
      BY DEF IInv, Registry, Register
    <2>2. QED
      BY <2>1 DEF IInv, Registry, Closed, Register
  <1>4. PermitsAccountedFor'
    BY SamePcs DEF Register
  <1>5. QED
    BY <1>1, <1>2, <1>3, <1>4 DEF IInv

\* The shutdown is requested, or accept fails and requests it.
LEMMA ShutdownKeeps == ASSUME IInv, AcceptFails \/ RequestShutdown PROVE IInv'
  <1>1. /\ shutdown' = TRUE /\ (manager' = manager \/ manager' = "done")
        /\ (manager' = "accept" => manager = "accept")
        /\ UNCHANGED <<conn, client, permits, registering, players, outbox, sent, due>>
    BY DEF AcceptFails, RequestShutdown
  <1>2. TypeOK'
    BY <1>1 DEF IInv, TypeOK
  <1>3. \A b \in Conns : Sound(conn[b], due[b])'
    <2>1. manager = "done" => manager' = "done"
      BY <1>1
    <2>2. ASSUME NEW b \in Conns PROVE Sound(conn[b], due[b])'
      BY <1>1, <2>1 DEF IInv, Sound
    <2>3. QED
      BY <2>2
  <1>4. Registry'
    BY <1>1 DEF IInv, Registry
  <1>5. PermitsAccountedFor'
    BY <1>1, SamePcs
  <1>6. QED
    BY <1>2, <1>3, <1>4, <1>5 DEF IInv

\* Closed deliveries are dropped.
LEMMA PruneKeeps == ASSUME IInv, Prune PROVE IInv'
  <1>1. TypeOK'
    BY DEF IInv, TypeOK, Prune, Reachable
  <1>2. \A b \in Conns : Sound(conn[b], due[b])'
    BY DEF IInv, Sound, Prune
  <1>3. Registry'
    BY DEF IInv, Registry, Prune, Reachable, Closed
  <1>4. PermitsAccountedFor'
    BY SamePcs DEF Prune
  <1>5. QED
    BY <1>1, <1>2, <1>3, <1>4 DEF IInv

\* PlayerMgr tells everyone of the shutdown, after what it has delivered.
LEMMA StopPlayersKeeps == ASSUME IInv, StopPlayers PROVE IInv'
  <1> USE ConnectionsAssumption
  <1>1. \A c \in Conns : /\ conn[c] \in ConnRecords /\ Sound(conn[c], due[c])
                         /\ conn[c].queue \in Seq(Numbers) /\ conn[c].inbox \in Seq(Items)
                         /\ due[c] \in Seq(Numbers)
    BY DEF IInv, TypeOK, ConnRecords, Numbers, Items
  <1>2. Numbers \subseteq Items /\ Stop \in Items
    BY DEF Numbers, Items, Stop
  <1>3. \A c \in Conns : conn'[c] = IF c \in Reachable
                                    THEN [conn[c] EXCEPT !.inbox = Append(@, Stop)] ELSE conn[c]
    BY DEF StopPlayers
  <1>4. ASSUME NEW c \in Conns
        PROVE  /\ conn'[c] \in ConnRecords /\ conn'[c].pc = conn[c].pc
               /\ Sound(conn[c], due[c])'
    <2>1. manager = "accept" /\ manager' = "done" /\ shutdown' = shutdown /\ shutdown /\ due' = due
      BY DEF StopPlayers
    <2>2. CASE c \in Reachable
      <3> DEFINE i == Append(conn[c].inbox, Stop)
                 r == [conn[c] EXCEPT !.inbox = i]
      <3>1. i \in Seq(Items)
        BY <1>1, <1>2, AppendProperties
      <3>2. conn'[c] = r
        BY <1>3, <2>2
      <3> HIDE DEF i
      <3>3. /\ r \in ConnRecords /\ r.pc = conn[c].pc /\ r.write = conn[c].write
            /\ r.mgr = conn[c].mgr /\ r.inbox = i /\ r.queue = conn[c].queue
            /\ r.cancelled = conn[c].cancelled
        BY <1>1, <3>1 DEF ConnRecords, Items
      <3> HIDE DEF r
      <3>4. conn[c].mgr # "done"
        BY <2>2 DEF Reachable, Closed
      <3>5. conn[c].queue \in Seq(Items) /\ due[c] \in Seq(Items)
        BY <1>1, <1>2, SeqMonotonic
      <3>6. conn[c].queue \o i = Append(conn[c].queue \o conn[c].inbox, Stop)
        <4>1. conn[c].queue \in Seq(Items) /\ conn[c].inbox \in Seq(Items) /\ Stop \in Items
          BY <1>1, <1>2, <3>5
        <4>2. \A q, j \in Seq(Items), m \in Items : q \o Append(j, m) = Append(q \o j, m)
          BY AppendToWhole
        <4>3. conn[c].queue \o Append(conn[c].inbox, Stop)
                  = Append(conn[c].queue \o conn[c].inbox, Stop)
          BY <4>1, <4>2
        <4>4. QED
          BY <4>3 DEF i
      <3>7. Append(due[c], Stop) = due[c] \o <<Stop>>
        BY <1>2, <3>5, AppendIsConcat
      <3>8. /\ conn'[c].pc = conn[c].pc /\ conn'[c].write = conn[c].write
            /\ conn'[c].mgr = conn[c].mgr /\ conn'[c].mgr # "done"
            /\ conn'[c].cancelled = conn[c].cancelled
            /\ due'[c] = due[c]
            /\ conn'[c].queue \o conn'[c].inbox = Append(conn[c].queue \o conn[c].inbox, Stop)
        BY <2>1, <3>2, <3>3, <3>4, <3>6
      <3>9. Sound(conn[c], due[c])'
        BY <1>1, <2>1, <3>7, <3>8 DEF Sound
      <3>10. QED
        BY <3>2, <3>3, <3>9
    <2>3. CASE c \notin Reachable
      BY <1>1, <1>3, <2>1, <2>3 DEF Sound
    <2>4. QED
      BY <2>2, <2>3
  <1>5. conn' = [c \in Conns |-> conn'[c]]
    BY DEF StopPlayers
  <1>6. conn' \in [Conns -> ConnRecords]
    BY <1>4, <1>5
  <1>7. TypeOK'
    BY <1>6 DEF IInv, TypeOK, StopPlayers
  <1>8. Registry'
    BY <1>4 DEF IInv, Registry, StopPlayers
  <1>9. PermitsAccountedFor'
    BY <1>4, SamePcs DEF StopPlayers
  <1>10. QED
    BY <1>4, <1>7, <1>8, <1>9 DEF IInv

\* A broadcast is delivered to exactly the connections it is due to.
LEMMA DeliverKeeps == ASSUME IInv, Deliver PROVE IInv'
  <1> USE ConnectionsAssumption
  <1> DEFINE m == Head(outbox)
  <1>1. \A c \in Conns : /\ conn[c] \in ConnRecords /\ Sound(conn[c], due[c])
                         /\ conn[c].queue \in Seq(Numbers) /\ conn[c].inbox \in Seq(Items)
                         /\ due[c] \in Seq(Numbers)
    BY DEF IInv, TypeOK, ConnRecords, Numbers, Items
  <1>2. Numbers \subseteq Items
    BY DEF Numbers, Items, Stop
  <1>3. m \in Numbers /\ Tail(outbox) \in Seq(Numbers)
    <2>1. outbox \in Seq(Numbers) /\ outbox # <<>>
      BY DEF IInv, TypeOK, Deliver, Numbers
    <2>2. QED
      BY <2>1, HeadTailProperties
  <1>4. ~shutdown /\ shutdown' = shutdown /\ manager' = manager /\ manager # "done"
    BY DEF Deliver, IInv, Registry
  <1>5. \A q, j \in Seq(Numbers), n \in Numbers : q \o Append(j, n) = Append(q \o j, n)
    BY AppendToWhole
  <1>6. ASSUME NEW c \in Conns
        PROVE  /\ conn'[c] \in ConnRecords /\ conn'[c].pc = conn[c].pc
               /\ conn'[c].mgr = conn[c].mgr /\ due'[c] \in Seq(Numbers)
               /\ Sound(conn[c], due[c])'
    <2>1. conn[c].inbox \in Seq(Numbers)
      BY <1>1, <1>4 DEF Sound
    <2>2. CASE c \in Reachable /\ conn[c].map
      <3>1. conn[c].pc # "new" /\ conn[c].mgr # "done" /\ conn[c].pc # "ended" /\ c \notin registering
        BY <2>2 DEF Reachable, Closed, IInv, Registry
      <3>2. conn[c].pc \in Live
        BY <1>1, <3>1 DEF ConnRecords
      <3>3. due'[c] = Append(due[c], m)
        BY <2>2, <3>1, <3>2 DEF Deliver, Reachable
      <3> DEFINE i == Append(conn[c].inbox, m)
                 r == [conn[c] EXCEPT !.inbox = i]
      <3>4. i \in Seq(Numbers) /\ i \in Seq(Items) /\ due'[c] \in Seq(Numbers)
        BY <1>1, <1>2, <1>3, <2>1, <3>3, AppendProperties
      <3>5. conn'[c] = r
        BY <2>2 DEF Deliver
      <3>6. conn[c].queue \o i = Append(conn[c].queue \o conn[c].inbox, m)
        BY <1>1, <1>3, <1>5, <2>1
      <3> HIDE DEF i
      <3>7. /\ r \in ConnRecords /\ r.pc = conn[c].pc /\ r.write = conn[c].write
            /\ r.mgr = conn[c].mgr /\ r.inbox = i /\ r.queue = conn[c].queue
            /\ r.cancelled = conn[c].cancelled
        BY <1>1, <3>4 DEF ConnRecords, Items
      <3> HIDE DEF r
      <3>8. /\ conn'[c].pc = conn[c].pc /\ conn'[c].write = conn[c].write
            /\ conn'[c].mgr = conn[c].mgr /\ conn'[c].cancelled = conn[c].cancelled
            /\ conn'[c].inbox \in Seq(Numbers)
            /\ conn'[c].queue \o conn'[c].inbox = Append(conn[c].queue \o conn[c].inbox, m)
        BY <3>4, <3>5, <3>6, <3>7
      <3>9. Sound(conn[c], due[c])'
        BY <1>1, <1>4, <3>1, <3>3, <3>8 DEF Sound
      <3>10. QED
        BY <3>4, <3>5, <3>7, <3>9
    <2>3. CASE ~(c \in Reachable /\ conn[c].map)
      <3>1. conn'[c] = conn[c]
        BY <2>3 DEF Deliver
      <3>2. ~(conn[c].map /\ ~Closed(c) /\ conn[c].pc \in Live /\ c \notin registering)
        BY <1>4, <2>3 DEF Reachable, IInv, Registry
      <3>3. due'[c] = due[c]
        BY <3>2 DEF Deliver
      <3>4. Sound(conn[c], due[c])'
        BY <1>1, <1>4, <3>1, <3>3 DEF Sound
      <3>5. QED
        BY <1>1, <3>1, <3>3, <3>4
    <2>4. QED
      BY <2>2, <2>3
  <1>7. conn' = [c \in Conns |-> conn'[c]] /\ due' = [c \in Conns |-> due'[c]]
    BY DEF Deliver
  <1>8. conn' \in [Conns -> ConnRecords] /\ due' \in [Conns -> Seq(Numbers)]
    BY <1>6, <1>7
  <1>9. TypeOK'
    BY <1>3, <1>8 DEF IInv, TypeOK, Deliver, Reachable, Numbers
  <1>10. Registry'
    <2>1. \A c \in Conns : Closed(c)' <=> Closed(c)
      BY <1>6 DEF Closed
    <2>2. players' = {c \in players : ~Closed(c)} /\ UNCHANGED <<registering, manager, shutdown>>
      BY DEF Deliver, Reachable
    <2>3. players \subseteq Conns /\ registering \subseteq Conns
      BY DEF IInv, TypeOK
    <2>4. QED
      BY <1>6, <2>1, <2>2, <2>3 DEF IInv, Registry
  <1>11. PermitsAccountedFor'
    BY <1>6, SamePcs DEF Deliver
  <1>12. QED
    BY <1>6, <1>9, <1>10, <1>11 DEF IInv

-----------------------------------------------------------------------------
(* The theorems.                                                           *)

\* Every step keeps the invariant.
LEMMA NextKeeps == IInv /\ [Next]_vars => IInv'
  <1> SUFFICES ASSUME IInv, [Next]_vars PROVE IInv'
    OBVIOUS
  <1>1. CASE UNCHANGED vars
    <2>1. TypeOK'
      BY <1>1 DEF vars, IInv, TypeOK
    <2>2. \A b \in Conns : Sound(conn[b], due[b])'
      BY <1>1 DEF vars, IInv, Sound
    <2>3. Registry'
      BY <1>1 DEF vars, IInv, Registry, Closed
    <2>4. PermitsAccountedFor'
      BY <1>1, SamePcs DEF vars
    <2>5. QED
      BY <2>1, <2>2, <2>3, <2>4 DEF IInv
  <1>2. CASE AcceptFails \/ RequestShutdown
    BY <1>2, ShutdownKeeps
  <1>3. CASE StopPlayers
    BY <1>3, StopPlayersKeeps
  <1>4. CASE Deliver
    BY <1>4, DeliverKeeps
  <1>5. CASE Prune
    BY <1>5, PruneKeeps
  <1>6. ASSUME NEW c \in Conns,
               \/ Step(c) \/ Accept(c) \/ Register(c)
               \/ Authenticate(c) \/ Refuse(c)
               \/ Handle(c) \/ ReadFails(c) \/ Written(c) \/ Vanish(c)
        PROVE  IInv'
    <2>1. CASE Refuse(c) \/ Dropped(c) \/ Disconnect(c)
      <3>1. conn[c].pc \in Live /\ End(c)
        BY <2>1 DEF Refuse, Dropped, Disconnect, Live
      <3>2. UNCHANGED <<manager, registering, players, outbox, sent, shutdown>>
        BY <2>1 DEF Refuse, Dropped, Disconnect
      <3>3. QED
        BY <3>1, <3>2, EndKeeps
    <2>2. CASE \/ Authenticate(c) \/ Handle(c) \/ ReadFails(c) \/ ReadStops(c) \/ Written(c)
      BY <2>2, LoopsKeep
    <2>3. CASE StartWrite(c)
      BY <2>3, StartWriteKeeps
    <2>4. CASE WriteFails(c) \/ WriteStops(c)
      BY <2>4, WriteEndsKeep
    <2>5. CASE ForwardStops(c)
      BY <2>5, ManagerEndsKeep
    <2>6. CASE Forward(c)
      BY <2>6, ManagerEndsKeep, ForwardKeeps
    <2>7. CASE Accept(c)
      BY <2>7, AcceptKeeps
    <2>8. CASE Register(c)
      BY <2>8, RegisterKeeps
    <2>9. CASE Vanish(c)
      BY <2>9, VanishKeeps
    <2>10. QED
      BY <1>6, <2>1, <2>2, <2>3, <2>4, <2>5, <2>6, <2>7, <2>8, <2>9 DEF Step
  <1>7. QED
    BY <1>1, <1>2, <1>3, <1>4, <1>5, <1>6 DEF Next

-----------------------------------------------------------------------------
(* How a connection ends.                                                  *)

\* The loops run once the client is authenticated, and the read loop ends only
\* with the token cancelled, which the other two see.
Loops ==
    \A c \in Conns :
        /\ conn[c].pc \in {"open", "waiting"} => conn[c].write # "off" /\ conn[c].mgr # "off"
        /\ conn[c].pc = "waiting" => Cancelled(c)

\* The client is gone or the server stops.
Ending(c) == conn[c].pc \in Live /\ (client[c] = "gone" \/ shutdown)

\* Something a task of the connection waits for has come: the shutdown, the end
\* of the socket it reads or writes, the token, or the end of the other loops.
CanGoOn(c) ==
    \/ shutdown
    \/ client[c] = "gone" /\ (conn[c].pc \in {"auth", "open"} \/ conn[c].write = "writing")
    \/ Cancelled(c) /\ (conn[c].write = "on" \/ conn[c].mgr = "on")
    \/ conn[c].pc = "waiting" /\ conn[c].write = "done" /\ conn[c].mgr = "done"

\* No connection whose client is gone, or that a shutdown finds, is stuck.
EndingCanGoOn == \A c \in Conns : Ending(c) => CanGoOn(c)

LoopRank(r) ==
    1 + (IF r.pc = "open" THEN 1 ELSE 0)
      + (IF r.mgr = "on" THEN 1 ELSE 0)
      + (IF r.write = "on" THEN 2 ELSE IF r.write = "writing" THEN 1 ELSE 0)

\* What a connection has before it at most until it has ended.
Rank(c) ==
    IF conn[c].pc \in {"open", "waiting"} THEN LoopRank(conn[c])
    ELSE IF conn[c].pc = "auth" THEN 6 ELSE 0

\* A client that is gone stays gone and nothing prolongs its connection; each of
\* its steps shortens it, or is the manager loop's and takes a message.
GoneWindsDown ==
    \A c \in Conns : (client[c] = "gone" /\ Rank(c) # 0) =>
        /\ client'[c] = "gone"
        /\ Rank(c)' <= Rank(c)
        /\ Step(c) => \/ Rank(c)' < Rank(c)
                      \/ Len(conn'[c].inbox) < Len(conn[c].inbox)

\* What connection c's loops show of themselves.
SameLoops(c) ==
    /\ conn'[c].pc = conn[c].pc /\ conn'[c].write = conn[c].write
    /\ conn'[c].mgr = conn[c].mgr /\ conn'[c].cancelled = conn[c].cancelled

\* PlayerMgr's own steps and the shutdown only fill the inbox.
LEMMA ManagerLeavesLoops ==
  ASSUME IInv, NEW c \in Conns,
         AcceptFails \/ StopPlayers \/ Deliver \/ Prune \/ RequestShutdown \/ UNCHANGED vars
  PROVE  SameLoops(c) /\ client' = client
  <1>1. conn[c] \in ConnRecords
    BY DEF IInv, TypeOK
  <1>2. CASE AcceptFails \/ Prune \/ RequestShutdown \/ UNCHANGED vars
    BY <1>2 DEF AcceptFails, Prune, RequestShutdown, vars, SameLoops
  <1>3. ASSUME NEW i, conn'[c] = [conn[c] EXCEPT !.inbox = i] PROVE SameLoops(c)
    BY <1>1, <1>3 DEF ConnRecords, SameLoops
  <1>4. ASSUME conn'[c] = conn[c] PROVE SameLoops(c)
    BY <1>4 DEF SameLoops
  <1>5. CASE StopPlayers
    BY <1>3, <1>4, <1>5 DEF StopPlayers
  <1>6. CASE Deliver
    BY <1>3, <1>4, <1>6 DEF Deliver
  <1>7. QED
    BY <1>2, <1>5, <1>6

\* A connection's steps touch no other connection.
LEMMA OthersLeaveLoops ==
  ASSUME IInv, NEW c \in Conns, NEW d \in Conns, c # d,
         \/ Step(d) \/ Accept(d) \/ Register(d)
         \/ Authenticate(d) \/ Refuse(d)
         \/ Handle(d) \/ ReadFails(d) \/ Written(d) \/ Vanish(d)
  PROVE  SameLoops(c) /\ client'[c] = client[c]
  <1>1. conn'[c] = conn[c]
    BY DEF IInv, TypeOK, Step, Accept, Register, Authenticate, Refuse, Dropped, Disconnect, End,
           Handle, ReadFails, ReadStops, Enter, StartWrite, Written, WriteFails, WriteStops,
           Forward, ForwardStops, Vanish
  <1>2. client'[c] = client[c]
    BY DEF IInv, TypeOK, Step, Accept, Register, Authenticate, Refuse, Dropped, Disconnect, End,
           Handle, ReadFails, ReadStops, Enter, StartWrite, Written, WriteFails, WriteStops,
           Forward, ForwardStops, Vanish
  <1>3. QED
    BY <1>1, <1>2 DEF SameLoops

\* How a step of the connection itself moves its loops.
Turn(c) ==
    LET r == conn[c]
        s == conn'[c]
    IN  \/ s.pc = "ended" /\ r.pc \in Live
        \/ /\ r.pc = "open" /\ s.pc = "waiting"
           /\ s.cancelled \/ shutdown
           /\ s.write = r.write /\ s.mgr = r.mgr
        \/ /\ s.pc = r.pc /\ s.mgr = r.mgr /\ (r.cancelled => s.cancelled)
           /\ \/ r.write = "on" /\ s.write \in {"writing", "done"}
              \/ r.write = "writing" /\ s.write = "done"
        \/ /\ s.pc = r.pc /\ s.write = r.write /\ s.cancelled = r.cancelled
           /\ r.mgr = "on"
           /\ \/ s.mgr = "done"
              \/ s.mgr = "on" /\ Len(s.inbox) < Len(r.inbox)

\* Each task of the connection ends its loop, or the manager loop takes a
\* message.
LEMMA StepTurns ==
  ASSUME IInv, NEW c \in Conns, Step(c) \/ Refuse(c) \/ ReadFails(c)
  PROVE  Turn(c) /\ shutdown' = shutdown
  <1>1. /\ conn[c] \in ConnRecords /\ conn \in [Conns -> ConnRecords]
        /\ conn[c].inbox \in Seq(Items)
    BY DEF IInv, TypeOK, ConnRecords, Items
  <1>2. shutdown' = shutdown
    BY DEF Step, Refuse, Dropped, Disconnect, ReadFails, ReadStops, StartWrite, WriteFails,
           WriteStops, Forward, ForwardStops
  <1>3. CASE Refuse(c) \/ Dropped(c) \/ Disconnect(c)
    <2>1. conn[c].pc \in Live /\ End(c)
      BY <1>3 DEF Refuse, Dropped, Disconnect, Live
    <2>2. conn'[c].pc = "ended"
      BY <1>1, <2>1, NewType DEF End
    <2>3. QED
      BY <1>2, <2>1, <2>2 DEF Turn
  <1>4. CASE ReadFails(c) \/ ReadStops(c)
    <2>1. /\ conn[c].pc = "open" /\ conn'[c].pc = "waiting"
          /\ conn'[c].write = conn[c].write /\ conn'[c].mgr = conn[c].mgr
      BY <1>1, <1>4 DEF ReadFails, ReadStops, Enter, ConnRecords
    <2>2. conn'[c].cancelled \/ shutdown
      BY <1>1, <1>4 DEF ReadFails, ReadStops, Enter, ConnRecords, Cancelled
    <2>3. QED
      BY <1>2, <2>1, <2>2 DEF Turn
  <1>5. CASE StartWrite(c) \/ WriteFails(c) \/ WriteStops(c)
    <2>1. /\ conn'[c].pc = conn[c].pc /\ conn'[c].mgr = conn[c].mgr
          /\ conn[c].cancelled => conn'[c].cancelled
      BY <1>1, <1>5 DEF StartWrite, WriteFails, WriteStops, ConnRecords
    <2>2. \/ conn[c].write = "on" /\ conn'[c].write \in {"writing", "done"}
          \/ conn[c].write = "writing" /\ conn'[c].write = "done"
      BY <1>1, <1>5 DEF StartWrite, WriteFails, WriteStops, ConnRecords
    <2>3. QED
      BY <1>2, <2>1, <2>2 DEF Turn
  <1>6. CASE Forward(c) \/ ForwardStops(c)
    <2>1. /\ conn'[c].pc = conn[c].pc /\ conn'[c].write = conn[c].write
          /\ conn'[c].cancelled = conn[c].cancelled /\ conn[c].mgr = "on"
      BY <1>1, <1>6 DEF Forward, ForwardStops, ConnRecords
    <2>2. \/ conn'[c].mgr = "done"
          \/ /\ conn[c].inbox # <<>> /\ conn'[c].mgr = "on"
             /\ conn'[c].inbox = Tail(conn[c].inbox)
      BY <1>1, <1>6 DEF Forward, ForwardStops, ConnRecords
    <2>3. conn[c].inbox # <<>> => Len(Tail(conn[c].inbox)) < Len(conn[c].inbox)
      BY <1>1, HeadTailProperties, LenProperties
    <2>4. QED
      BY <1>2, <2>1, <2>2, <2>3 DEF Turn
  <1>7. QED
    BY <1>3, <1>4, <1>5, <1>6 DEF Step

\* The loops start together, and every way the read loop ends leaves the token
\* cancelled.
LEMMA LoopsStep == IInv /\ Loops /\ [Next]_vars => Loops'
  <1> SUFFICES ASSUME IInv, Loops, [Next]_vars, NEW c \in Conns
               PROVE  /\ conn'[c].pc \in {"open", "waiting"}
                              => conn'[c].write # "off" /\ conn'[c].mgr # "off"
                      /\ conn'[c].pc = "waiting" => conn'[c].cancelled \/ shutdown'
    BY DEF Loops, Cancelled
  <1>1. /\ conn[c] \in ConnRecords /\ conn \in [Conns -> ConnRecords]
        /\ Sound(conn[c], due[c])
    BY DEF IInv, TypeOK
  <1>2. /\ conn[c].pc \in {"open", "waiting"} => conn[c].write # "off" /\ conn[c].mgr # "off"
        /\ conn[c].pc = "waiting" => conn[c].cancelled \/ shutdown
    BY DEF Loops, Cancelled
  <1>3. shutdown => shutdown'
    BY DEF Next, vars, AcceptFails, StopPlayers, Deliver, Prune, RequestShutdown, Step, Accept,
           Register, Authenticate, Refuse, Dropped, Disconnect, Handle, ReadFails, ReadStops,
           StartWrite, Written, WriteFails, WriteStops, Forward, ForwardStops, Vanish
  <1>4. CASE SameLoops(c)
    BY <1>2, <1>3, <1>4 DEF SameLoops
  <1>5. CASE Step(c) \/ Refuse(c) \/ ReadFails(c)
    BY <1>2, <1>3, <1>5, StepTurns DEF Turn
  <1>6. CASE Accept(c)
    <2>1. conn'[c].pc = "auth"
      BY <1>1, <1>6 DEF Accept, ConnRecords
    <2>2. QED
      BY <2>1
  <1>7. CASE Authenticate(c)
    <2>1. conn'[c].pc = "open" /\ conn'[c].write = "on" /\ conn'[c].mgr = "on"
      BY <1>1, <1>7 DEF Authenticate, ConnRecords
    <2>2. QED
      BY <2>1
  <1>8. CASE Handle(c) \/ Register(c) \/ Vanish(c)
    <2>1. SameLoops(c)
      BY <1>1, <1>8 DEF Handle, Register, Vanish, ConnRecords, SameLoops
    <2>2. QED
      BY <1>4, <2>1
  <1>9. CASE Written(c)
    <2>1. /\ conn'[c].pc = conn[c].pc /\ conn'[c].write = "on"
          /\ conn'[c].mgr = conn[c].mgr /\ conn'[c].cancelled = conn[c].cancelled
      BY <1>1, <1>9 DEF Written, ConnRecords
    <2>2. QED
      BY <1>2, <1>3, <2>1
  <1>10. QED
    BY <1>4, <1>5, <1>6, <1>7, <1>8, <1>9, ManagerLeavesLoops, OthersLeaveLoops DEF Next

\* Reading meets the end of the socket, a write under way too, and the loops that
\* wait see the token.
LEMMA EndingHasStep == IInv /\ Loops => EndingCanGoOn
  <1> SUFFICES ASSUME IInv, Loops, NEW c \in Conns, Ending(c) PROVE CanGoOn(c)
    BY DEF EndingCanGoOn
  <1>1. conn[c] \in ConnRecords
    BY DEF IInv, TypeOK
  <1>2. CASE shutdown \/ conn[c].pc \in {"auth", "open"}
    BY <1>2 DEF Ending, CanGoOn
  <1>3. CASE conn[c].pc = "waiting"
    <2>1. Cancelled(c) /\ conn[c].write # "off" /\ conn[c].mgr # "off"
      BY <1>3 DEF Loops
    <2>2. conn[c].write \in {"on", "writing", "done"} /\ conn[c].mgr \in {"on", "done"}
      BY <1>1, <2>1 DEF ConnRecords
    <2>3. QED
      BY <1>2, <1>3, <2>1, <2>2 DEF CanGoOn, Ending
  <1>4. QED
    BY <1>2, <1>3 DEF Ending, Live

\* Without its client a connection cannot authenticate, and no write succeeds.
LEMMA WindsDownStep == IInv /\ [Next]_vars => GoneWindsDown
  <1> SUFFICES ASSUME IInv, [Next]_vars, NEW c \in Conns, client[c] = "gone", Rank(c) # 0
               PROVE  /\ client'[c] = "gone"
                      /\ Rank(c)' <= Rank(c)
                      /\ Step(c) => \/ Rank(c)' < Rank(c)
                                    \/ Len(conn'[c].inbox) < Len(conn[c].inbox)
    BY DEF GoneWindsDown
  <1>1. /\ conn[c] \in ConnRecords /\ conn \in [Conns -> ConnRecords]
        /\ Sound(conn[c], due[c]) /\ client \in [Conns -> {"here", "gone"}]
    BY DEF IInv, TypeOK
  <1>2. Rank(c) \in 0 .. 6 /\ conn[c].pc \in Live
    BY <1>1 DEF Rank, LoopRank, Live, ConnRecords
  <1>3. CASE SameLoops(c) /\ client'[c] = client[c] /\ ~Step(c)
    <2>1. Rank(c)' = Rank(c)
      BY <1>3 DEF SameLoops, Rank, LoopRank
    <2>2. QED
      BY <1>2, <1>3, <2>1
  <1>4. CASE Step(c) \/ Refuse(c) \/ ReadFails(c)
    <2>1. Turn(c)
      BY <1>4, StepTurns
    <2>2. client'[c] = "gone"
      BY <1>1, <1>4 DEF Step, Refuse, Dropped, Disconnect, End, ReadFails, ReadStops, StartWrite,
                        WriteFails, WriteStops, Forward, ForwardStops
    <2>3. CASE conn'[c].pc = "ended" /\ conn[c].pc \in Live
      <3>1. Rank(c)' = 0
        BY <2>3 DEF Rank
      <3>2. QED
        BY <1>2, <2>2, <3>1
    <2>4. CASE conn'[c].pc # "ended"
      <3>1. conn[c].pc \in {"open", "waiting"} /\ conn'[c].pc \in {"open", "waiting"}
        BY <1>1, <1>2, <2>1, <2>4 DEF Turn, Sound, Live
      <3>2. Rank(c) = LoopRank(conn[c]) /\ Rank(c)' = LoopRank(conn'[c])
        BY <3>1 DEF Rank, LoopRank
      <3>3. \/ LoopRank(conn'[c]) < LoopRank(conn[c])
            \/ /\ LoopRank(conn'[c]) = LoopRank(conn[c])
               /\ Len(conn'[c].inbox) < Len(conn[c].inbox)
        BY <2>1, <2>4, <3>1 DEF Turn, LoopRank
      <3>4. LoopRank(conn[c]) \in Int /\ LoopRank(conn'[c]) \in Int
        BY DEF LoopRank
      <3>5. QED
        BY <2>2, <3>2, <3>3, <3>4
    <2>5. QED
      BY <1>2, <2>1, <2>3, <2>4 DEF Turn
  <1>5. CASE Handle(c) \/ Authenticate(c) \/ Written(c) \/ Accept(c) \/ Vanish(c)
    BY <1>2, <1>5 DEF Handle, Authenticate, Written, Accept, Vanish, Live
  <1>6. CASE Register(c)
    BY <1>3, <1>4, <1>6 DEF Register, SameLoops
  <1>7. ASSUME NEW d \in Conns, c # d,
               \/ Step(d) \/ Accept(d) \/ Register(d)
               \/ Authenticate(d) \/ Refuse(d)
               \/ Handle(d) \/ ReadFails(d) \/ Written(d) \/ Vanish(d)
        PROVE  SameLoops(c) /\ client'[c] = client[c]
    BY <1>7, OthersLeaveLoops
  <1>8. ASSUME \/ AcceptFails \/ StopPlayers \/ Deliver \/ Prune \/ RequestShutdown
               \/ UNCHANGED vars
        PROVE  SameLoops(c) /\ client'[c] = client[c]
    BY <1>8, ManagerLeavesLoops
  <1>9. QED
    BY <1>3, <1>4, <1>5, <1>6, <1>7, <1>8 DEF Next

-----------------------------------------------------------------------------
(* The theorems.                                                           *)

\* The invariant of PlayerMgr and its connections always holds.
THEOREM Invariance == Spec => []IInv
  BY InitIInv, NextKeeps, PTL DEF Spec

\* PlayerMgr's and XPlayer's state stays well formed.
THEOREM TypeCorrect == Spec => []TypeOK
  <1>1. IInv => TypeOK
    BY DEF IInv
  <1>2. QED
    BY <1>1, Invariance, PTL

\* limit_conns gets each permit back exactly once, on whichever path of
\* XPlayer::run its connection ends.
THEOREM PermitsComeBack == Spec => []PermitsAccountedFor
  <1>1. IInv => PermitsAccountedFor
    BY DEF IInv
  <1>2. QED
    BY <1>1, Invariance, PTL

\* A connection in good order misses no broadcast to its map, whoever else
\* PlayerMgr registers, forgets or finds closed.
THEOREM NothingIsLost == Spec => []NothingLost
  <1>1. IInv => NothingLost
    <2> SUFFICES ASSUME IInv, NEW c \in Conns, conn[c].pc = "open", ~Cancelled(c)
                 PROVE  conn[c].queue \o conn[c].inbox = due[c]
      BY DEF NothingLost
    <2>1. ~conn[c].cancelled /\ ~shutdown /\ manager # "done" /\ Sound(conn[c], due[c])
      BY DEF Cancelled, IInv, Registry
    <2>2. QED
      BY <2>1 DEF Sound, Live
  <1>2. QED
    BY <1>1, Invariance, PTL

\* XPlayer::run: once the client is gone or the server stops, some task of the
\* connection can go on, until it has ended.
THEOREM EndingIsNeverStuck == Spec => []EndingCanGoOn
  <1>1. Init => Loops
    BY DEF Init, Loops, NewConn
  <1>2. Spec => []Loops
    BY Invariance, <1>1, LoopsStep, PTL DEF Spec
  <1>3. QED
    BY Invariance, <1>2, EndingHasStep, PTL

\* The three loops and tracker.wait: nothing prolongs the connection of a client
\* that is gone, and every step of its tasks brings it nearer to its end.
THEOREM GoneConnectionsWindDown == Spec => [][GoneWindsDown]_vars
  <1> DEFINE P == GoneWindsDown
  <1>1. IInv /\ [Next]_vars => [P]_vars
    BY WindsDownStep
  <1> HIDE DEF P
  <1>2. Spec => [][P]_vars
    BY Invariance, <1>1, PTL DEF Spec
  <1>3. QED
    BY <1>2 DEF P
=============================================================================
