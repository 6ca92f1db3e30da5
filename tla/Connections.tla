---------------------------- MODULE Connections ----------------------------
(***************************************************************************)
(* The plugin server's connections, from src/src/server2.rs: PlayerMgr     *)
(* accepts a socket for each permit of a semaphore, registers where to     *)
(* deliver to it and passes broadcasts on; an XPlayer authenticates its    *)
(* client and runs a read, a write and a manager loop until one of them    *)
(* cancels the token they share or the server shuts down.                  *)
(*                                                                         *)
(* A connection's identity is not used twice.  A message is a number, the  *)
(* place of a broadcast in the order in which they were sent to PlayerMgr; *)
(* every one is for one map, which a connection tracks or does not.        *)
(* Answers and statistics share a connection's queue and are left out.     *)
(* The operating system's socket and the client are external: a client may *)
(* stall, send nothing and vanish at any moment.                           *)
(***************************************************************************)
EXTENDS Naturals, FiniteSets, Sequences

CONSTANTS
    Conns,
    MaxConnections,   \* MAX_CONNECTIONS, of limit_conns
    MaxBroadcasts     \* bound: broadcasts sent

ASSUME ConnectionsAssumption ==
    /\ IsFiniteSet(Conns)
    /\ MaxConnections \in Nat /\ MaxBroadcasts \in Nat

VARIABLES
    conn,
    client,      \* the other end of each socket
    permits,     \* limit_conns: permits left
    manager,     \* where PlayerMgr::run stands
    registering, \* the connection it has started but not yet pushed
    players,     \* PlayerMgr.players, whose order nobody sees
    outbox,      \* ToPlayerMgr messages not yet taken by the inbox task
    sent,        \* number of broadcasts sent
    shutdown,    \* the subsystems' cancellation was requested
    due          \* what was broadcast to a connection's map and not yet written

vars == <<conn, client, permits, manager, registering, players, outbox, sent,
          shutdown, due>>

Stop == MaxBroadcasts + 1    \* ToPlayer::Shutdown

\* XPlayer::run: run_auth, the loops, tracker.wait.
Live == {"auth", "open", "waiting"}

ConnRecords ==
    [pc : {"new", "ended"} \cup Live, map : BOOLEAN, cancelled : BOOLEAN,
     write : {"off", "on", "writing", "done"}, mgr : {"off", "on", "done"},
     inbox : Seq(1 .. Stop), queue : Seq(1 .. MaxBroadcasts)]

NewConn == [pc |-> "new", map |-> FALSE, cancelled |-> FALSE,
            write |-> "off", mgr |-> "off", inbox |-> <<>>, queue |-> <<>>]

Init ==
    /\ conn = [c \in Conns |-> NewConn]
    /\ client = [c \in Conns |-> "here"]
    /\ permits = MaxConnections
    /\ manager = "accept"
    /\ registering = {}
    /\ players = {}
    /\ outbox = <<>>
    /\ sent = 0
    /\ shutdown = FALSE
    /\ due = [c \in Conns |-> <<>>]

-----------------------------------------------------------------------------
(* PlayerMgr                                                               *)

\* The token of the three loops is a child of the subsystem's.
Cancelled(c) == conn[c].cancelled \/ shutdown

\* Mutant: a client that is still authenticating counts as closed.
NotYetOpen(c) == conn[c].mgr # "on"

\* tx.is_closed: the manager loop or the whole XPlayer dropped its p_rx.
Closed(c) == conn[c].mgr = "done" \/ conn[c].pc = "ended"

\* What is left when closed deliveries are dropped.
Reachable == {c \in players : ~Closed(c)}

\* A permit is acquired, a socket accepted and its subsystem started, which runs
\* from now on.
Accept(c) ==
    /\ manager = "accept" /\ permits > 0 /\ conn[c].pc = "new"
    /\ permits' = permits - 1
    /\ conn' = [conn EXCEPT ![c].pc = "auth"]
    /\ registering' = {c}
    /\ manager' = "register"
    /\ UNCHANGED <<client, players, outbox, sent, shutdown, due>>

Register(c) ==
    /\ manager = "register" /\ c \in registering
    /\ players' = players \cup {c}
    /\ registering' = {}
    /\ manager' = "accept"
    /\ UNCHANGED <<conn, client, permits, outbox, sent, shutdown, due>>

\* accept has no backoff left, or sees the shutdown itself: run returns an error.
AcceptFails ==
    /\ manager = "accept" /\ permits > 0
    /\ shutdown' = TRUE
    /\ manager' = "done"
    /\ UNCHANGED <<conn, client, permits, registering, players, outbox, sent, due>>

\* run's own branch for the shutdown: everyone is told and forgotten.
StopPlayers ==
    /\ shutdown /\ manager = "accept"
    /\ conn' = [c \in Conns |->
           IF c \in Reachable THEN [conn[c] EXCEPT !.inbox = Append(@, Stop)] ELSE conn[c]]
    /\ players' = {}
    /\ manager' = "done"
    /\ UNCHANGED <<client, permits, registering, outbox, sent, shutdown, due>>

\* The inbox task: closed deliveries are dropped, the others on the
\* broadcast's map get it, whatever has been queued for them already.
Deliver ==
    /\ outbox # <<>> /\ ~shutdown
    /\ players' = Reachable
    /\ conn' = [c \in Conns |->
           IF c \in Reachable /\ conn[c].map
           THEN [conn[c] EXCEPT !.inbox = Append(@, Head(outbox))] ELSE conn[c]]
    /\ due' = [c \in Conns |-> IF /\ conn[c].map /\ ~Closed(c)
                                  /\ conn[c].pc \in Live /\ c \notin registering
                               THEN Append(due[c], Head(outbox)) ELSE due[c]]
    /\ outbox' = Tail(outbox)
    /\ UNCHANGED <<client, permits, manager, registering, sent, shutdown>>

\* top_3_loop drops closed deliveries too; its statistics are left out.
Prune ==
    /\ ~shutdown
    /\ players' = Reachable
    /\ UNCHANGED <<conn, client, permits, manager, registering, outbox, sent,
                   shutdown, due>>

-----------------------------------------------------------------------------
(* XPlayer before its loops                                                *)

Enter(c, pc) == conn' = [conn EXCEPT ![c].pc = pc]

\* Mutant: a refused client's permit is lost.
KeepPermit(c) == permits + (IF conn[c].pc = "auth" THEN 0 ELSE 1)

\* Mutant: handle gives the permit back, and so does run.
TwicePermit(c) == permits + (IF conn[c].pc = "waiting" THEN 2 ELSE 1)

\* run drops the permit on every path that leaves handle.
PermitBack(c) == permits + 1

\* run's end: p_rx, queue_rx and the permit are dropped.
End(c) ==
    /\ conn' = [conn EXCEPT ![c] = [NewConn EXCEPT !.pc = "ended"]]
    /\ client' = [client EXCEPT ![c] = "gone"]
    /\ permits' = PermitBack(c)
    /\ due' = [due EXCEPT ![c] = <<>>]

\* run_auth: the first message names a user by a token or by a session;
\* AuthSuccess is written and the initial statistics are queued; the loops start.
Authenticate(c) ==
    /\ conn[c].pc = "auth" /\ client[c] = "here"
    /\ conn' = [conn EXCEPT ![c].pc = "open", ![c].write = "on", ![c].mgr = "on"]
    /\ UNCHANGED <<client, permits, manager, registering, players, outbox, sent,
                   shutdown, due>>

\* The message is anything else, comes from too old a plugin or not at all, or an
\* answer to it could not be written.
Refuse(c) ==
    /\ conn[c].pc = "auth"
    /\ End(c)
    /\ UNCHANGED <<manager, registering, players, outbox, sent, shutdown>>

\* run's other branch: the shutdown drops handle wherever it stands.  The loops
\* it spawned see the token themselves, after which nobody hears of them.
Dropped(c) ==
    /\ shutdown /\ conn[c].pc \in Live
    /\ End(c)
    /\ UNCHANGED <<manager, registering, players, outbox, sent, shutdown>>

-----------------------------------------------------------------------------
(* The three loops                                                         *)

\* The read loop handles a request: it sends a broadcast, or notes which map
\* the player is on.
Handle(c) ==
    /\ conn[c].pc = "open" /\ client[c] = "here"
    /\ \/ /\ sent < MaxBroadcasts
          /\ sent' = sent + 1
          /\ outbox' = Append(outbox, sent')
          /\ UNCHANGED conn
       \/ /\ conn' = [conn EXCEPT ![c].map = ~@]
          /\ UNCHANGED <<outbox, sent>>
    /\ UNCHANGED <<client, permits, manager, registering, players, shutdown, due>>

\* Mutant: the other loops are not told.
ReadFailsAlone(c) ==
    /\ conn[c].pc = "open"
    /\ Enter(c, "waiting")
    /\ UNCHANGED <<client, permits, manager, registering, players, outbox, sent,
                   shutdown, due>>

\* Reading fails, because the client is gone or its message is malformed.
ReadFails(c) ==
    /\ conn[c].pc = "open"
    /\ conn' = [conn EXCEPT ![c].pc = "waiting", ![c].cancelled = TRUE]
    /\ UNCHANGED <<client, permits, manager, registering, players, outbox, sent,
                   shutdown, due>>

\* The read loop sees the token.
ReadStops(c) ==
    /\ conn[c].pc = "open" /\ Cancelled(c)
    /\ Enter(c, "waiting")
    /\ UNCHANGED <<client, permits, manager, registering, players, outbox, sent,
                   shutdown, due>>

\* queue_rx.recv: from here to the end of the write the token is not looked at.
StartWrite(c) ==
    /\ conn[c].write = "on" /\ conn[c].queue # <<>>
    /\ conn' = [conn EXCEPT ![c].write = "writing", ![c].queue = Tail(@)]
    /\ due' = [due EXCEPT ![c] = Tail(@)]
    /\ UNCHANGED <<client, permits, manager, registering, players, outbox, sent, shutdown>>

\* The client has taken what is written.
Written(c) ==
    /\ conn[c].write = "writing" /\ client[c] = "here"
    /\ conn' = [conn EXCEPT ![c].write = "on"]
    /\ UNCHANGED <<client, permits, manager, registering, players, outbox, sent,
                   shutdown, due>>

WriteFails(c) ==
    /\ conn[c].write = "writing" /\ client[c] = "gone"
    /\ conn' = [conn EXCEPT ![c].write = "done", ![c].queue = <<>>,
                            ![c].cancelled = TRUE]
    /\ UNCHANGED <<client, permits, manager, registering, players, outbox, sent,
                   shutdown, due>>

WriteStops(c) ==
    /\ conn[c].write = "on" /\ Cancelled(c)
    /\ conn' = [conn EXCEPT ![c].write = "done", ![c].queue = <<>>]
    /\ UNCHANGED <<client, permits, manager, registering, players, outbox, sent,
                   shutdown, due>>

\* The manager loop passes a broadcast on, or obeys ToPlayer::Shutdown.
Forward(c) ==
    /\ conn[c].mgr = "on" /\ conn[c].inbox # <<>>
    /\ conn' = IF Head(conn[c].inbox) = Stop
               THEN [conn EXCEPT ![c].mgr = "done", ![c].inbox = <<>>]
               ELSE [conn EXCEPT ![c].inbox = Tail(@),
                                 ![c].queue = IF conn[c].write = "done" THEN @
                                              ELSE Append(@, Head(conn[c].inbox))]
    /\ UNCHANGED <<client, permits, manager, registering, players, outbox, sent,
                   shutdown, due>>

ForwardStops(c) ==
    /\ conn[c].mgr = "on" /\ Cancelled(c)
    /\ conn' = [conn EXCEPT ![c].mgr = "done", ![c].inbox = <<>>]
    /\ UNCHANGED <<client, permits, manager, registering, players, outbox, sent,
                   shutdown, due>>

\* tracker.wait: both other loops have ended.
Disconnect(c) ==
    /\ conn[c].pc = "waiting" /\ conn[c].write = "done" /\ conn[c].mgr = "done"
    /\ End(c)
    /\ UNCHANGED <<manager, registering, players, outbox, sent, shutdown>>

-----------------------------------------------------------------------------
Vanish(c) ==
    /\ client[c] = "here" /\ conn[c].pc \in Live
    /\ client' = [client EXCEPT ![c] = "gone"]
    /\ UNCHANGED <<conn, permits, manager, registering, players, outbox, sent,
                   shutdown, due>>

\* A signal, or another subsystem's error.
RequestShutdown ==
    /\ ~shutdown
    /\ shutdown' = TRUE
    /\ UNCHANGED <<conn, client, permits, manager, registering, players, outbox,
                   sent, due>>

\* What the server's tasks do for a connection whatever its client does.
Step(c) ==
    \/ client[c] = "gone" /\ (Refuse(c) \/ ReadFails(c))
    \/ Dropped(c) \/ ReadStops(c)
    \/ StartWrite(c) \/ WriteFails(c) \/ WriteStops(c)
    \/ Forward(c) \/ ForwardStops(c) \/ Disconnect(c)

Next ==
    \/ AcceptFails \/ StopPlayers \/ Deliver \/ Prune \/ RequestShutdown
    \/ \E c \in Conns :
        \/ Step(c) \/ Accept(c) \/ Register(c)
        \/ Authenticate(c) \/ Refuse(c)
        \/ Handle(c) \/ ReadFails(c) \/ Written(c) \/ Vanish(c)

\* A task that can go on does; only a client that is here may keep one waiting.
Fairness == \A c \in Conns : WF_vars(Step(c))

Spec == Init /\ [][Next]_vars /\ Fairness

-----------------------------------------------------------------------------
(* Properties                                                              *)

TypeOK ==
    /\ conn \in [Conns -> ConnRecords]
    /\ client \in [Conns -> {"here", "gone"}]
    /\ permits \in 0 .. MaxConnections
    /\ manager \in {"accept", "register", "done"}
    /\ registering \in SUBSET Conns
    /\ players \subseteq Conns
    /\ outbox \in Seq(1 .. MaxBroadcasts)
    /\ sent \in 0 .. MaxBroadcasts
    /\ shutdown \in BOOLEAN
    /\ due \in [Conns -> Seq(1 .. MaxBroadcasts)]

\* Every path that ends a connection gives its permit back exactly once: the
\* live connections and the permits left make up MAX_CONNECTIONS.
PermitsAccountedFor ==
    permits + Cardinality({c \in Conns : conn[c].pc \in Live}) = MaxConnections

\* A connection in good order still gets, in order and without a gap, every
\* broadcast to the map it was on: neither the pruning of others' closed
\* deliveries nor a registration while others end loses any.
NothingLost ==
    \A c \in Conns :
        (conn[c].pc = "open" /\ ~Cancelled(c))
            => conn[c].queue \o conn[c].inbox = due[c]

\* A client that vanishes takes its connection with it, whichever loop notices:
\* the others learn of it by the token, and the permit comes back.  A shutdown
\* ends every connection, those with a stalled client included.
ConnectionsEnd ==
    \A c \in Conns :
        conn[c].pc \in Live /\ (client[c] = "gone" \/ shutdown) ~> conn[c].pc = "ended"
=============================================================================
