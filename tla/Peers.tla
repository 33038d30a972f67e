------------------------------- MODULE Peers -------------------------------
(***************************************************************************)
(* Membership and gossip of one cluster (cluster/cluster.go, delegate.go,    *)
(* channel.go): the book that every peer keeps of the others and of those it *)
(* must reconnect to, the states that are exchanged with broadcasts, with    *)
(* oversized messages and in full, and Settle.                               *)
(*                                                                         *)
(* memberlist is external: it finds out that a peer is gone, joins two peers *)
(* that can reach each other and exchanges their states; then, and from time *)
(* to time.  A peer that restarts has a new name at its old address.         *)
(***************************************************************************)
EXTENDS Integers, Sequences, FiniteSets

CONSTANTS
    Addr,
    Update,         \* updates of the states, such as a silence or a log entry
    KeyOf,          \* KeyOf[u]: the state an update belongs to
    Big,            \* the updates that make an oversized message
    OverLen,        \* capacity of Channel.msgc, 200 in the code
    MaxQueue,       \* maxQueueSize, 4096 in the code
    NumOkay,        \* NumOkayRequired, 3 in the code
    PeerScenes      \* the environments considered, see PeerScene

\* The addresses given as peers on the command line; the states a peer of another
\* release cannot decode; whether failed peers are given up after a time; and bounds:
\* the updates made, the crashes and cuts of the network, and whether Settle is watched.
PeerScene ==
    [known : SUBSET Addr, bad : SUBSET {KeyOf[u] : u \in Update}, giveUp : BOOLEAN,
     updates : SUBSET Update, maxFaults : Nat, settles : BOOLEAN]

VARIABLES
    pscene,
    run,        \* run[a]: the peer at a runs
    name,       \* name[a]: the name it has, or had, counted up with every start
    member,     \* member[a]: memberlist's view, a set of [addr, name]
    book,       \* book[a]: Peer.peers, a function from some addresses to status and name
    failed,     \* failed[a]: Peer.failedPeers, a sequence of addresses
    data,       \* data[a]: the updates in the states of a
    bcast,      \* bcast[a]: small messages queued for gossip, oldest first
    msgc,       \* msgc[a]: oversized messages
    settle,     \* settle[a]: Settle, and whether the peer is ready
    cut, faults, made

peerVars == <<pscene, run, name, member, book, failed, data, bcast, msgc, settle, cut, faults, made>>

NoBook == [x \in {} |-> 0]
Settling == [ready |-> FALSE, n |-> 0, okay |-> 0]
Key == {KeyOf[u] : u \in Update}

\* setInitialFailed: the known peers, in some order, are failed until they join.
InitialFailed(a) == pscene.known \ {a}
Orders(S) == {s \in [1 .. Cardinality(S) -> S] : \A i, j \in DOMAIN s : s[i] = s[j] => i = j}
NewBook(a) == [b \in InitialFailed(a) |-> [status |-> "failed", name |-> 0]]

PeerInit ==
    /\ pscene \in PeerScenes
    /\ run = [a \in Addr |-> TRUE] /\ name = [a \in Addr |-> 1]
    /\ member = [a \in Addr |-> {}]
    /\ book = [a \in Addr |-> NewBook(a)]
    /\ failed \in [Addr -> UNION {Orders(InitialFailed(a)) : a \in Addr}]
    /\ \A a \in Addr : failed[a] \in Orders(InitialFailed(a))
    /\ data = [a \in Addr |-> {}]
    /\ bcast = [a \in Addr |-> << >>] /\ msgc = [a \in Addr |-> << >>]
    /\ settle = [a \in Addr |-> Settling]
    /\ cut = FALSE /\ faults = 0 /\ made = {}

Entry(f, x, y) == [z \in DOMAIN f \cup {x} |-> IF z = x THEN y ELSE f[z]]
Without(s, x) == SelectSeq(s, LAMBDA y : y # x)

-----------------------------------------------------------------------------
(* The book *)

\* peerJoin: the book and the list of a after n has joined.
peerJoin(a, n) ==
    [book |-> Entry(book[a], n.addr, [status |-> "alive", name |-> n.name]),
     failed |-> IF n.addr \in DOMAIN book[a] /\ book[a][n.addr].status = "failed"
                THEN Without(failed[a], n.addr) ELSE failed[a]]

\* peerLeave
peerLeave(a, n) ==
    IF n.addr \notin DOMAIN book[a] THEN [book |-> book[a], failed |-> failed[a]]
    ELSE [book |-> [book[a] EXCEPT ![n.addr].status = "failed"],
          failed |-> Append(failed[a], n.addr)]

Node(a) == [addr |-> a, name |-> name[a]]

-----------------------------------------------------------------------------
(* The states *)

\* Mutant: one part that fails keeps out all others.
MergedAllOrNothing(a, from, order) ==
    IF \E k \in pscene.bad : \E u \in data[from] : KeyOf[u] = k THEN data[a]
    ELSE data[a] \cup data[from]

\* MergeRemoteState: parts are merged in some order, up to one that fails.
Merged(a, from, order) ==
    LET upTo == {i \in DOMAIN order : \A j \in 1 .. i : order[j] \notin pscene.bad}
    IN  data[a] \cup {u \in data[from] : \E i \in upTo : order[i] = KeyOf[u]}

\* memberlist joins a and b, or exchanges the states of two members: both learn of
\* each other, if they did not know, and merge the other's state.
Exchange(a, b, order) ==
    /\ a # b /\ run[a] /\ run[b] /\ ~cut
    /\ LET aNew == Node(b) \notin member[a]
           bNew == Node(a) \notin member[b]
           aa == IF aNew THEN peerJoin(a, Node(b)) ELSE [book |-> book[a], failed |-> failed[a]]
           bb == IF bNew THEN peerJoin(b, Node(a)) ELSE [book |-> book[b], failed |-> failed[b]]
       IN  /\ member' = [member EXCEPT ![a] = @ \cup {Node(b)}, ![b] = @ \cup {Node(a)}]
           /\ book' = [book EXCEPT ![a] = aa.book, ![b] = bb.book]
           /\ failed' = [failed EXCEPT ![a] = aa.failed, ![b] = bb.failed]
    /\ data' = [data EXCEPT ![a] = Merged(a, b, order), ![b] = Merged(b, a, order)]
    /\ UNCHANGED <<pscene, run, name, bcast, msgc, settle, cut, faults, made>>

\* reconnect: one of the failed peers is joined again.
reconnect(a, b, order) == (\E i \in DOMAIN failed[a] : failed[a][i] = b) /\ Exchange(a, b, order)

\* Mutant: peers that are in the book are taken for members.
refreshBooked(a, b, order) ==
    b \in pscene.known /\ b \notin DOMAIN book[a] /\ Exchange(a, b, order)

\* refresh: a known peer that is no member is joined.
refresh(a, b, order) ==
    b \in pscene.known /\ (\A n \in member[a] : n.addr # b) /\ Exchange(a, b, order)

\* Join: at the start all known peers are joined.
JoinAtStart(a, b, order) == b \in pscene.known /\ Exchange(a, b, order)

\* memberlist exchanges full states with a member.
PushPull(a, b, order) == Node(b) \in member[a] /\ Exchange(a, b, order)

\* memberlist has found out that member n is gone: stopped, cut off or restarted.
NotifyLeave(a, n) ==
    /\ run[a] /\ n \in member[a] /\ (cut \/ ~run[n.addr] \/ n.name # name[n.addr])
    /\ member' = [member EXCEPT ![a] = @ \ {n}]
    /\ book' = [book EXCEPT ![a] = peerLeave(a, n).book]
    /\ failed' = [failed EXCEPT ![a] = peerLeave(a, n).failed]
    /\ UNCHANGED <<pscene, run, name, data, bcast, msgc, settle, cut, faults, made>>

\* removeFailedPeers: the first failed peers of the list, which is in the order of
\* their leave times, have timed out.  The entry in the book stays: it is deleted
\* under the peer's name, while the book has addresses as keys.
removeFailedPeers(a) ==
    /\ run[a] /\ pscene.giveUp /\ failed[a] # << >>
    /\ \E i \in 1 .. Len(failed[a]) :
          failed' = [failed EXCEPT ![a] = SubSeq(@, i + 1, Len(@))]
    /\ UNCHANGED <<pscene, run, name, member, book, data, bcast, msgc, settle, cut, faults, made>>

-----------------------------------------------------------------------------
(* Updates and broadcasts *)

\* A state changes and broadcasts the change (Channel.Broadcast).
Broadcast(a, u) ==
    /\ run[a] /\ u \in pscene.updates \ made /\ made' = made \cup {u}
    /\ data' = [data EXCEPT ![a] = @ \cup {u}]
    /\ \/ u \notin Big /\ bcast' = [bcast EXCEPT ![a] = Append(@, u)] /\ msgc' = msgc
       \/ /\ u \in Big /\ bcast' = bcast
          /\ msgc' = IF Len(msgc[a]) < OverLen THEN [msgc EXCEPT ![a] = Append(@, u)] ELSE msgc
    /\ UNCHANGED <<pscene, run, name, member, book, failed, settle, cut, faults>>

\* NotifyMsg at b: a state that is not known or does not decode is left alone.
Receives(b, u) == IF KeyOf[u] \in pscene.bad THEN data[b] ELSE data[b] \cup {u}

\* GetBroadcasts: a queued message goes to some members that can be reached, after
\* the last transmission it is dropped.
GetBroadcasts(a) ==
    /\ run[a] /\ bcast[a] # << >>
    /\ \E to \in SUBSET {b \in Addr \ {a} : run[b] /\ ~cut /\ Node(b) \in member[a]} :
          data' = [b \in Addr |-> IF b \in to THEN Receives(b, Head(bcast[a])) ELSE data[b]]
    /\ bcast' = [bcast EXCEPT ![a] = Tail(@)]
    /\ UNCHANGED <<pscene, run, name, member, book, failed, msgc, settle, cut, faults, made>>

\* handleQueueDepth: the oldest messages beyond the limit are pruned.
handleQueueDepth(a) ==
    /\ run[a] /\ Len(bcast[a]) > MaxQueue
    /\ bcast' = [bcast EXCEPT ![a] = SubSeq(@, Len(@) - MaxQueue + 1, Len(@))]
    /\ UNCHANGED <<pscene, run, name, member, book, failed, data, msgc, settle, cut, faults, made>>

\* handleOverSizedMessages: one message is sent to every member, and may fail for each.
handleOverSizedMessages(a) ==
    /\ run[a] /\ msgc[a] # << >>
    /\ \E to \in SUBSET {b \in Addr \ {a} : run[b] /\ ~cut /\ Node(b) \in member[a]} :
          data' = [b \in Addr |-> IF b \in to THEN Receives(b, Head(msgc[a])) ELSE data[b]]
    /\ msgc' = [msgc EXCEPT ![a] = Tail(@)]
    /\ UNCHANGED <<pscene, run, name, member, book, failed, bcast, settle, cut, faults, made>>

-----------------------------------------------------------------------------
(* Settle *)

\* One poll: the number of members is compared with that of the poll before.  The
\* deadline of the context ends the wait whatever the count is.
Settle(a) ==
    /\ run[a] /\ pscene.settles /\ ~settle[a].ready
    /\ LET n == Cardinality(member[a]) + 1 IN
       settle' = [settle EXCEPT ![a] =
                    IF @.okay >= NumOkay THEN [@ EXCEPT !.ready = TRUE]
                    ELSE [ready |-> FALSE, n |-> n, okay |-> IF n = @.n THEN @.okay + 1 ELSE 0]]
    /\ UNCHANGED <<pscene, run, name, member, book, failed, data, bcast, msgc, cut, faults, made>>

SettleDeadline(a) ==
    /\ run[a] /\ pscene.settles /\ ~settle[a].ready
    /\ settle' = [settle EXCEPT ![a].ready = TRUE]
    /\ UNCHANGED <<pscene, run, name, member, book, failed, data, bcast, msgc, cut, faults, made>>

-----------------------------------------------------------------------------
(* The environment, and Leave *)

\* A peer crashes, or leaves the cluster and stops its tasks: its memory is gone.
Stop(a) ==
    /\ run[a] /\ faults < pscene.maxFaults /\ faults' = faults + 1
    /\ run' = [run EXCEPT ![a] = FALSE]
    /\ member' = [member EXCEPT ![a] = {}]
    /\ data' = [data EXCEPT ![a] = {}]
    /\ book' = [book EXCEPT ![a] = NoBook] /\ failed' = [failed EXCEPT ![a] = << >>]
    /\ bcast' = [bcast EXCEPT ![a] = << >>] /\ msgc' = [msgc EXCEPT ![a] = << >>]
    /\ settle' = [settle EXCEPT ![a] = Settling]
    /\ UNCHANGED <<pscene, name, cut, made>>

\* Create: the peer starts with a new name.
Create(a) ==
    /\ ~run[a] /\ run' = [run EXCEPT ![a] = TRUE] /\ name' = [name EXCEPT ![a] = @ + 1]
    /\ book' = [book EXCEPT ![a] = NewBook(a)]
    /\ \E s \in Orders(InitialFailed(a)) : failed' = [failed EXCEPT ![a] = s]
    /\ UNCHANGED <<pscene, member, data, bcast, msgc, settle, cut, faults, made>>

CutNetwork ==
    /\ ~cut /\ faults < pscene.maxFaults /\ faults' = faults + 1 /\ cut' = TRUE
    /\ UNCHANGED <<pscene, run, name, member, book, failed, data, bcast, msgc, settle, made>>

HealNetwork ==
    /\ cut /\ cut' = FALSE
    /\ UNCHANGED <<pscene, run, name, member, book, failed, data, bcast, msgc, settle, faults, made>>

KeyOrders == Orders(Key)

PeerNext ==
    \/ \E a \in Addr :
          \/ removeFailedPeers(a) \/ GetBroadcasts(a) \/ handleQueueDepth(a)
          \/ handleOverSizedMessages(a) \/ Settle(a) \/ SettleDeadline(a) \/ Stop(a) \/ Create(a)
          \/ \E u \in Update : Broadcast(a, u)
          \/ \E n \in member[a] : NotifyLeave(a, n)
          \/ \E b \in Addr, o \in KeyOrders :
                reconnect(a, b, o) \/ refresh(a, b, o) \/ JoinAtStart(a, b, o) \/ PushPull(a, b, o)
    \/ CutNetwork \/ HealNetwork

-----------------------------------------------------------------------------
(* Properties *)

\* The state has its types, and the queue of oversized messages is within its capacity.
PeerTypeOK ==
    /\ \A a \in Addr :
          /\ member[a] \subseteq [addr : Addr \ {a}, name : Nat]
          /\ \A b \in DOMAIN book[a] : book[a][b].status \in {"alive", "failed"}
          /\ data[a] \subseteq made /\ Len(msgc[a]) <= OverLen

\* reconnect, refresh: when the faults are over, the peers become members of each other
\* for good, whatever was cut off, restarted under another name or given up.
ClusterHeals ==
    <>[](\A a, b \in Addr : a # b => Node(b) \in member[a])

\* Broadcast, MergeRemoteState: the states that all peers can decode agree in the end,
\* although messages are dropped, pruned and lost.
StatesAgree ==
    <>[](\A a, b \in Addr : {u \in data[a] : KeyOf[u] \notin pscene.bad}
                          = {u \in data[b] : KeyOf[u] \notin pscene.bad})

\* Settle: every peer that runs becomes ready, without the help of the deadline, once the
\* members no longer come and go: then its dispatcher may notify.
EventuallyReady == \A a \in Addr : (run[a] /\ pscene.settles) ~> (settle[a].ready \/ ~run[a])
=============================================================================
