----------------------------- MODULE Transport -----------------------------
(***************************************************************************)
(* The gossip transport over TLS (cluster/tls_transport.go,                  *)
(* tls_connection.go, connection_pool.go): goroutines that send packets over *)
(* connections of a pool, and the handler of each connection at the receiver *)
(* that cuts the bytes into packets again.                                   *)
(*                                                                         *)
(* A packet is a header unit, its length, and body units.  TLS is external:  *)
(* a write makes records of at most RecordLen units that hold nothing of     *)
(* another write, and a read returns units of one record only.               *)
(***************************************************************************)
EXTENDS Integers, Sequences, FiniteSets

CONSTANTS
    Dest,           \* the peers packets are sent to
    Sender,         \* goroutines of memberlist
    MaxConn,        \* bound: connections that are dialed
    MaxPackets,     \* bound: packets that are sent
    RecordLen, BufLen, PoolCap

VARIABLES
    conn,       \* conn[c]: a connection that was dialed
    pool,       \* connectionPool: destinations to connections, least recently used first
    closed,     \* the pool is shut down
    sender,     \* sender[s]: WriteTo
    up,         \* up[d]: the peer can be dialed
    sent        \* how many packets were made

transVars == <<conn, pool, closed, sender, up, sent>>

Conn == 1 .. MaxConn
Unused == [dest |-> "", live |-> FALSE, open |-> FALSE, net |-> << >>, wrote |-> << >>,
           buf |-> << >>, msg |-> << >>, reads |-> FALSE, got |-> << >>]
Rest == [pc |-> "idle", dest |-> "", c |-> 0, packet |-> 0, part |-> 0]

TransInit ==
    /\ conn = [c \in Conn |-> Unused]
    /\ pool = << >> /\ closed = FALSE
    /\ sender = [s \in Sender |-> Rest]
    /\ up = [d \in Dest |-> TRUE] /\ sent = 0

\* Packet p has a header unit and a body of 1 or 2 units.  Packet 0 says that the
\* connection is a stream.
LenOf(p) == 1 + (p % 2)
Units(p) == [i \in 1 .. 1 + LenOf(p) |-> [p |-> p, i |-> i - 1]]

\* What one write sends: records of at most RecordLen units.
Records(u) ==
    [k \in 1 .. (Len(u) + RecordLen - 1) \div RecordLen |->
        SubSeq(u, (k - 1) * RecordLen + 1, IF k * RecordLen < Len(u) THEN k * RecordLen ELSE Len(u))]

-----------------------------------------------------------------------------
(* Sending *)

WriteTo(s, d) ==
    /\ sender[s].pc = "idle" /\ sent < MaxPackets /\ sent' = sent + 1
    /\ sender' = [sender EXCEPT ![s] = [Rest EXCEPT !.pc = "borrow", !.dest = d, !.packet = sent + 1]]
    /\ UNCHANGED <<conn, pool, closed, up>>

Cached(d) == {i \in DOMAIN pool : conn[pool[i]].dest = d}
Drop(c) == SelectSeq(pool, LAMBDA x : x # c)
Fresh == {c \in Conn : conn[c] = Unused}

\* A connection the pool gives up is closed: both its ends see it.
Shut(f, c) == [f EXCEPT ![c].live = FALSE, ![c].open = FALSE]

\* borrowConnection: the connection of the pool if it is alive, or a new one, which may
\* evict the one that was used least recently.
borrowConnection(s) ==
    /\ sender[s].pc = "borrow"
    /\ LET d == sender[s].dest
           alive == {i \in Cached(d) : conn[pool[i]].live}
       IN  CASE closed \/ (alive = {} /\ (~up[d] \/ Fresh = {})) ->
                  /\ sender' = [sender EXCEPT ![s] = Rest] /\ UNCHANGED <<conn, pool>>
             [] ~closed /\ alive # {} ->
                  LET c == pool[CHOOSE i \in alive : TRUE] IN
                  /\ pool' = Append(Drop(c), c)
                  /\ sender' = [sender EXCEPT ![s].pc = "write", ![s].c = c]
                  /\ UNCHANGED conn
             [] OTHER ->
                  \E c \in Fresh :
                  LET rest == SelectSeq(pool, LAMBDA x : conn[x].dest # d)
                      new == [conn EXCEPT ![c] = [Unused EXCEPT !.dest = d, !.live = TRUE, !.open = TRUE, !.reads = TRUE]]
                      evict == Len(rest) = PoolCap
                  IN  /\ conn' = IF evict THEN Shut(new, Head(rest)) ELSE new
                      /\ pool' = Append(IF evict THEN Tail(rest) ELSE rest, c)
                      /\ sender' = [sender EXCEPT ![s].pc = "write", ![s].c = c]
    /\ UNCHANGED <<closed, up, sent>>

\* writePacket: the packet is written in one operation, or the connection is found dead.
writePacket(s) ==
    /\ sender[s].pc = "write"
    /\ LET c == sender[s].c
           p == sender[s].packet
       IN  conn' = IF conn[c].open
                   THEN [conn EXCEPT ![c].net = @ \o Records(Units(p)), ![c].wrote = Append(@, p)]
                   ELSE [conn EXCEPT ![c].live = FALSE]
    /\ sender' = [sender EXCEPT ![s] = Rest]
    /\ UNCHANGED <<pool, closed, up, sent>>

\* DialTimeout: a connection of its own, which is handed to memberlist as a stream.
DialTimeout(d) ==
    /\ up[d] /\ sent < MaxPackets /\ sent' = sent + 1
    /\ \E c \in Fresh : conn' = [conn EXCEPT ![c] = [Unused EXCEPT !.dest = d, !.open = TRUE, !.reads = TRUE,
                                                       !.net = Records(Units(0)), !.wrote = <<0>>]]
    /\ UNCHANGED <<pool, closed, sender, up>>

\* Shutdown: all connections of the pool are closed.
shutdown ==
    /\ ~closed /\ closed' = TRUE /\ pool' = << >>
    /\ conn' = [c \in Conn |-> IF \E i \in DOMAIN pool : pool[i] = c
                               THEN [conn[c] EXCEPT !.live = FALSE, !.open = FALSE] ELSE conn[c]]
    /\ UNCHANGED <<sender, up, sent>>

-----------------------------------------------------------------------------
(* Receiving *)

\* What read() wants next of a message that has begun: the header, then the rest.
Wants(c) == IF conn[c].msg = << >> THEN 1 ELSE 1 + LenOf(conn[c].msg[1].p) - Len(conn[c].msg)

\* read: the buffer is filled from one record of the connection.
Fill(c) ==
    /\ conn[c].reads /\ conn[c].buf = << >> /\ conn[c].net # << >> /\ Wants(c) > 0
    /\ LET r == Head(conn[c].net)
           n == IF Len(r) < BufLen THEN Len(r) ELSE BufLen
       IN  conn' = [conn EXCEPT ![c].buf = SubSeq(r, 1, n),
                                ![c].net = IF n = Len(r) THEN Tail(@)
                                           ELSE <<SubSeq(r, n + 1, Len(r))>> \o Tail(@)]
    /\ UNCHANGED <<pool, closed, sender, up, sent>>

\* read: units move from the buffer to the message.
Consume(c) ==
    /\ conn[c].reads /\ conn[c].buf # << >> /\ Wants(c) > 0
    /\ LET n == IF Len(conn[c].buf) < Wants(c) THEN Len(conn[c].buf) ELSE Wants(c)
       IN  conn' = [conn EXCEPT ![c].msg = @ \o SubSeq(conn[c].buf, 1, n),
                                ![c].buf = SubSeq(@, n + 1, Len(@))]
    /\ UNCHANGED <<pool, closed, sender, up, sent>>

Sound(msg) == \A i \in DOMAIN msg : msg[i] = [p |-> msg[1].p, i |-> i - 1]

\* Mutant: the handler ends after one packet.
handleOnce(c) ==
    /\ conn[c].reads /\ conn[c].msg # << >> /\ Wants(c) = 0
    /\ conn' = [conn EXCEPT ![c].got = Append(@, conn[c].msg[1].p), ![c].msg = << >>, ![c].buf = << >>,
                            ![c].reads = FALSE]
    /\ UNCHANGED <<pool, closed, sender, up, sent>>

\* handle: a packet is passed on and the next one is read with a new buffer, whatever the
\* old one still holds; a stream is handed over with its connection.  What does not
\* decode ends the handler, and the connection stays open.
handle(c) ==
    /\ conn[c].reads /\ conn[c].msg # << >> /\ Wants(c) = 0
    /\ conn' = IF Sound(conn[c].msg)
               THEN [conn EXCEPT ![c].got = Append(@, conn[c].msg[1].p), ![c].msg = << >>, ![c].buf = << >>,
                                 ![c].reads = conn[c].msg[1].p # 0]
               ELSE [conn EXCEPT ![c].reads = FALSE]
    /\ UNCHANGED <<pool, closed, sender, up, sent>>

-----------------------------------------------------------------------------

\* A peer goes down and its connections break, or it comes back.
PeerDown(d) ==
    /\ up[d] /\ up' = [up EXCEPT ![d] = FALSE]
    /\ conn' = [c \in Conn |-> IF conn[c].dest = d THEN [conn[c] EXCEPT !.open = FALSE, !.reads = FALSE] ELSE conn[c]]
    /\ UNCHANGED <<pool, closed, sender, sent>>

PeerUp(d) == ~up[d] /\ up' = [up EXCEPT ![d] = TRUE] /\ UNCHANGED <<conn, pool, closed, sender, sent>>

TransNext ==
    \/ shutdown
    \/ \E s \in Sender : borrowConnection(s) \/ writePacket(s) \/ (\E d \in Dest : WriteTo(s, d))
    \/ \E c \in Conn : Fill(c) \/ Consume(c) \/ handle(c)
    \/ \E d \in Dest : DialTimeout(d) \/ PeerDown(d) \/ PeerUp(d)

-----------------------------------------------------------------------------
(* Properties *)

\* The state has its types, and the pool keeps to its capacity.
TransTypeOK ==
    /\ Len(pool) <= PoolCap /\ sent \in 0 .. MaxPackets
    /\ \A c \in Conn : conn[c].live => conn[c].dest \in Dest

\* writePacket, read: a peer gets the packets of a connection in their order, without one
\* missing or cut in a wrong place, although senders share the connection and every
\* message is read with a buffer of its own.
PacketsInOrder ==
    \A c \in Conn :
        /\ conn[c].msg # << >> => Sound(conn[c].msg)
        /\ Len(conn[c].got) <= Len(conn[c].wrote)
        /\ conn[c].got = SubSeq(conn[c].wrote, 1, Len(conn[c].got))

\* WriteTo: packets that are written are delivered, unless the connection breaks or is
\* closed.
PacketsArrive ==
    \A c \in Conn : conn[c].wrote # << >> ~> (Len(conn[c].got) = Len(conn[c].wrote) \/ ~conn[c].open)
=============================================================================
