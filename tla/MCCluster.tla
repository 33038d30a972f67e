----------------------------- MODULE MCCluster ------------------------------
(***************************************************************************)
(* Instances of Peers and Transport for TLC: the members and states of a     *)
(* cluster, and the packets below.  A behaviour is one of the one or of the   *)
(* other; the variable part says of which.                                   *)
(***************************************************************************)
EXTENDS Integers, Sequences, FiniteSets

CONSTANTS a1, a2, u1, u2, u3, u4, d1, d2, g1, g2

VARIABLES part,
    pscene, run, name, member, book, failed, data, bcast, msgc, settle, cut, faults, made,
    conn, pool, closed, sender, up, sent

peerVars == <<pscene, run, name, member, book, failed, data, bcast, msgc, settle, cut, faults, made>>
transVars == <<conn, pool, closed, sender, up, sent>>
vars == <<part, peerVars, transVars>>

-----------------------------------------------------------------------------

\* Faults while peers settle, two faults, faults with peers that are given up, a peer
\* that cannot decode silences, and more updates than the queues hold.
Watching(k, bad, giveUp, updates, n, settles) ==
    [known |-> k, bad |-> bad, giveUp |-> giveUp, updates |-> updates, maxFaults |-> n, settles |-> settles]
Clusters == {Watching({a1}, {}, FALSE, {}, 1, TRUE), Watching({a1}, {}, FALSE, {}, 2, FALSE),
             Watching({a1, a2}, {}, TRUE, {}, 2, FALSE), Watching({a1}, {"sil"}, FALSE, {u1, u2}, 1, FALSE),
             Watching({a1}, {}, FALSE, {u1, u2, u3, u4}, 0, FALSE)}

P == INSTANCE Peers WITH
        Addr <- {a1, a2}, Update <- {u1, u2, u3, u4},
        KeyOf <- [u \in {u1, u2, u3, u4} |-> IF u \in {u1, u3} THEN "nfl" ELSE "sil"],
        Big <- {u2, u4}, OverLen <- 1, MaxQueue <- 1, NumOkay <- 1, PeerScenes <- Clusters

\* Two peers, a pool for one connection, records and buffers shorter than a packet.
T == INSTANCE Transport WITH
        Dest <- {d1, d2}, Sender <- {g1, g2}, MaxConn <- 2, MaxPackets <- 2, RecordLen <- 2, BufLen <- 2, PoolCap <- 1

-----------------------------------------------------------------------------

\* A part that is not considered stays in one of its initial states.
Idle(p, x, set) == part # p => x = CHOOSE y \in set : TRUE

Init ==
    /\ part \in {"peers", "transport"}
    /\ P!PeerInit /\ T!TransInit
    /\ Idle("peers", pscene, Clusters)

Next ==
    \/ part = "peers" /\ P!PeerNext /\ UNCHANGED <<part, transVars>>
    \/ part = "transport" /\ T!TransNext /\ UNCHANGED <<part, peerVars>>

\* The network heals, stopped peers start again, memberlist detects and exchanges; the
\* periodic tasks of a peer run.
InPeers == part = "peers"
PeerFairness ==
    /\ WF_peerVars(InPeers /\ P!HealNetwork)
    /\ \A a \in {a1, a2} :
          /\ WF_peerVars(InPeers /\ P!Create(a)) /\ WF_peerVars(InPeers /\ P!Settle(a))
          /\ \A b \in {a1, a2} :
                /\ WF_peerVars(InPeers /\ \E n \in member[a] : n.addr = b /\ P!NotifyLeave(a, n))
                /\ WF_peerVars(InPeers /\ \E o \in P!KeyOrders : P!reconnect(a, b, o) \/ P!refresh(a, b, o))
                /\ \A o \in P!KeyOrders : WF_peerVars(InPeers /\ P!PushPull(a, b, o))

\* Goroutines that can go on do so.
InTransport == part = "transport"
TransFairness ==
    /\ \A s \in {g1, g2} : WF_transVars(InTransport /\ (T!borrowConnection(s) \/ T!writePacket(s)))
    /\ \A c \in T!Conn : WF_transVars(InTransport /\ (T!Fill(c) \/ T!Consume(c) \/ T!handle(c)))

Spec == Init /\ [][Next]_vars /\ PeerFairness /\ TransFairness

-----------------------------------------------------------------------------
(* Properties *)

\* reconnect, refresh, Settle: when the faults are over, the peers become members of each
\* other for good, whatever was cut off, restarted under another name or given up; and
\* every peer that runs becomes ready, without the help of the deadline.
ClusterHeals == part = "peers" => P!ClusterHeals /\ P!EventuallyReady

\* Broadcast, MergeRemoteState: the states that all peers can decode agree in the end,
\* although messages are dropped, pruned and lost.
StatesAgree == part = "peers" => P!StatesAgree

\* WriteTo, writePacket, read: a peer gets the packets of a connection in their order,
\* none missing or cut in a wrong place, although senders share the connection and every
\* message is read with a buffer of its own; and packets that are written are delivered,
\* unless the connection breaks or is closed.
PacketsDelivered == []T!PacketsInOrder /\ (part = "transport" => T!PacketsArrive)
=============================================================================
