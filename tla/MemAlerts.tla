----------------------------- MODULE MemAlerts -----------------------------
(***************************************************************************)
(* The alert provider (provider/mem/mem.go, store/store.go, alert/alert.go): *)
(* Put merges an alert with the stored one, applies the limit per alert name *)
(* and sends the result to every subscriber while it holds the provider's    *)
(* lock; subscribers come, read, and close their iterator at any moment; the *)
(* garbage collector drops closed subscribers, stale buckets and resolved    *)
(* alerts.  All alerts have one name, so there is one bucket.                *)
(***************************************************************************)
EXTENDS Integers, Sequences, FiniteSets, Bucket

CONSTANTS
    Fp, Caller, Listener,
    Slurper,        \* the subscribers that call SlurpAndSubscribe
    ResolveTimeout,
    ChanLen,        \* alertChannelLength, 200 in the code
    MemScenes       \* the environments considered, see MemScene

NoTime == 0
Free == "free"

\* The limit per name (0: none), who is there, the times that requests give, whether
\* time passes between the arrival of a request and its Put; and two bounds: when the
\* clock stops, and how many requests are made.
MemScene == [limit : Nat, fps : SUBSET Fp, callers : SUBSET Caller,
             listeners : SUBSET Listener, starts : SUBSET {NoTime, 1},
             ends : SUBSET {"none", "now", "later"},
             slow : BOOLEAN, maxTime : Nat \ {0}, maxPosts : Nat]

\* No caller has the name that says that nobody holds the mutex.
MemSetting == Free \notin Caller /\ ResolveTimeout \in Nat \ {0} /\ ChanLen \in Nat /\ MemScenes \subseteq MemScene

VARIABLES
    mscene, mnow,
    store,      \* Alerts.alerts: a function from some fingerprints to alerts
    bucket,     \* Alerts.limits: the bucket of the name
    holder,     \* who holds the provider's mutex
    put,        \* put[c]: a request under way
    lst,        \* lst[l]: a subscriber with its channel
    gcpc,       \* where the garbage collector is
    posts

memVars == <<mscene, mnow, store, bucket, holder, put, lst, gcpc, posts>>

Empty == [x \in {} |-> 0]
NoPut == [pc |-> "idle", alert |-> NoTime, fps |-> << >>, left |-> {}]
NoListener == [st |-> "new", cap |-> 0, ch |-> << >>, known |-> Empty]

MemInit ==
    /\ mscene \in MemScenes /\ mnow = 1
    /\ store = Empty /\ bucket = NewBucket /\ holder = Free
    /\ put = [c \in Caller |-> NoPut] /\ lst = [l \in Listener |-> NoListener]
    /\ gcpc = "idle" /\ posts = 0

With(f, x, y) == [z \in DOMAIN f \cup {x} |-> IF z = x THEN y ELSE f[z]]

Resolved(a) == a.ends <= mnow

-----------------------------------------------------------------------------
(* Requests *)

\* The body of a request: no start or the first instant; no end, an end that has
\* come, or one in the future.
Body == [starts : mscene.starts,
         ends : {CASE e = "none" -> NoTime [] e = "now" -> mnow [] OTHER -> mnow + 1 :
                    e \in mscene.ends}]

\* postAlertsHandler gives an alert its times.
Normalised(b) ==
    [starts  |-> IF b.starts # NoTime THEN b.starts
                 ELSE IF b.ends = NoTime THEN mnow ELSE b.ends,
     ends    |-> IF b.ends = NoTime THEN mnow + ResolveTimeout ELSE b.ends,
     updated |-> mnow,
     timeout |-> b.ends = NoTime]

\* A request names one alert, or two.
Batches == {s \in UNION {[1 .. n -> mscene.fps] : n \in 1 .. 2} :
                \A i, j \in DOMAIN s : s[i] = s[j] => i = j}

Post(c) ==
    /\ put[c].pc = "idle" /\ posts < mscene.maxPosts /\ posts' = posts + 1
    /\ \E b \in Body, s \in Batches :
          put' = [put EXCEPT ![c] = [pc |-> "ready", alert |-> Normalised(b),
                                     fps |-> s, left |-> {}]]
    /\ UNCHANGED <<mscene, mnow, store, bucket, holder, lst, gcpc>>

-----------------------------------------------------------------------------
(* Put *)

Overlap(old, new) ==
    \/ new.ends > old.starts /\ new.ends < old.ends
    \/ new.starts > old.starts /\ new.starts < old.ends

\* Mutant: a later end always wins.
MergeLatest(a, o) ==
    LET y == IF o.updated < a.updated THEN a ELSE o
        e == IF o.updated < a.updated THEN o ELSE a
    IN  [y EXCEPT !.starts = IF e.starts < @ THEN e.starts ELSE @,
                  !.ends = IF e.ends > @ THEN e.ends ELSE @]

\* Alert.Merge; y is the younger of the two.
Merge(a, o) ==
    LET y == IF o.updated < a.updated THEN a ELSE o
        e == IF o.updated < a.updated THEN o ELSE a
    IN  [starts  |-> IF e.starts < y.starts THEN e.starts ELSE y.starts,
         ends    |-> IF e.ends > y.ends /\ (IF Resolved(y) THEN Resolved(e) ELSE ~e.timeout)
                     THEN e.ends ELSE y.ends,
         updated |-> y.updated,
         timeout |-> y.timeout]

Stored(fp, new) == IF fp \in DOMAIN store /\ Overlap(store[fp], new)
                   THEN Merge(store[fp], new) ELSE new

\* Alerts.Set of the store.
Limited(fp, a) ==
    IF mscene.limit = 0 THEN [ok |-> TRUE, items |-> bucket]
    ELSE Upsert(bucket, mscene.limit, fp, a.ends, mnow)

Open == {l \in mscene.listeners : lst[l].st \in {"on", "done"}}

\* One alert of the request is stored, or refused; the lock is kept until the last
\* one has been sent to every subscriber.
PutStore(c) ==
    LET fp == Head(put[c].fps)
        a == Stored(fp, put[c].alert)
        lim == Limited(fp, a)
    IN  /\ put[c].fps # << >>
        /\ \/ put[c].pc = "ready" /\ holder = Free
           \/ put[c].pc = "sent" /\ holder = c
        /\ bucket' = lim.items
        /\ store' = IF lim.ok THEN With(store, fp, a) ELSE store
        /\ holder' = c
        /\ put' = [put EXCEPT ![c] =
                     [pc    |-> IF lim.ok THEN "sending" ELSE "sent",
                      alert |-> put[c].alert,
                      fps   |-> IF lim.ok THEN put[c].fps ELSE Tail(put[c].fps),
                      left  |-> IF lim.ok THEN Open ELSE {}]]
        /\ UNCHANGED <<mscene, mnow, lst, gcpc, posts>>

\* Mutant: the closing of an iterator is not noticed.
PutSendDeaf(c, l) ==
    /\ put[c].pc = "sending" /\ l \in put[c].left
    /\ Len(lst[l].ch) < lst[l].cap
    /\ lst' = [lst EXCEPT ![l].ch = Append(@, <<Head(put[c].fps), store[Head(put[c].fps)]>>)]
    /\ put' = [put EXCEPT ![c].left = @ \ {l}]
    /\ UNCHANGED <<mscene, mnow, store, bucket, holder, gcpc, posts>>

\* The send to one subscriber blocks until there is room, or the iterator is closed.
PutSend(c, l) ==
    /\ put[c].pc = "sending" /\ l \in put[c].left
    /\ \/ /\ Len(lst[l].ch) < lst[l].cap
          /\ lst' = [lst EXCEPT ![l].ch =
                        Append(@, <<Head(put[c].fps), store[Head(put[c].fps)]>>)]
       \/ lst[l].st = "done" /\ lst' = lst
    /\ put' = [put EXCEPT ![c].left = @ \ {l}]
    /\ UNCHANGED <<mscene, mnow, store, bucket, holder, gcpc, posts>>

\* The alert has been sent to all.
PutSent(c) ==
    /\ put[c].pc = "sending" /\ put[c].left = {}
    /\ put' = [put EXCEPT ![c] = [pc |-> "sent", alert |-> put[c].alert, fps |-> Tail(put[c].fps), left |-> {}]]
    /\ UNCHANGED <<mscene, mnow, store, bucket, holder, lst, gcpc, posts>>

PutReturn(c) ==
    /\ put[c].pc = "sent" /\ put[c].fps = << >>
    /\ put' = [put EXCEPT ![c] = NoPut] /\ holder' = Free
    /\ UNCHANGED <<mscene, mnow, store, bucket, lst, gcpc, posts>>

-----------------------------------------------------------------------------
(* Subscribers *)

\* The stored alerts in some order.
Lists == {s \in [1 .. Cardinality(DOMAIN store) -> DOMAIN store] :
              \A fp \in DOMAIN store : \E i \in DOMAIN s : s[i] = fp}

\* The stored alerts are put into the channel, which is made large enough.
Subscribe(l) ==
    /\ holder = Free /\ lst[l].st = "new" /\ l \notin Slurper
    /\ \E s \in Lists :
          lst' = [lst EXCEPT ![l] =
                    [st |-> "on", cap |-> IF Len(s) > ChanLen THEN Len(s) ELSE ChanLen,
                     ch |-> [i \in DOMAIN s |-> <<s[i], store[s[i]]>>], known |-> Empty]]
    /\ UNCHANGED <<mscene, mnow, store, bucket, holder, put, gcpc, posts>>

\* The stored alerts are returned as a list, together with an empty channel.
SlurpAndSubscribe(l) ==
    /\ holder = Free /\ lst[l].st = "new" /\ l \in Slurper
    /\ lst' = [lst EXCEPT ![l] = [st |-> "on", cap |-> ChanLen, ch |-> << >>, known |-> store]]
    /\ UNCHANGED <<mscene, mnow, store, bucket, holder, put, gcpc, posts>>

\* The subscriber reads its channel, or the closed channel of one it no longer uses.
Receive(l) ==
    /\ lst[l].st = "on" /\ lst[l].ch # << >>
    /\ lst' = [lst EXCEPT ![l] =
                  [st |-> "on", cap |-> lst[l].cap, ch |-> Tail(lst[l].ch),
                   known |-> With(lst[l].known, Head(lst[l].ch)[1], Head(lst[l].ch)[2])]]
    /\ UNCHANGED <<mscene, mnow, store, bucket, holder, put, gcpc, posts>>

\* The subscriber stops reading and closes its iterator.
CloseIterator(l) ==
    /\ lst[l].st = "on"
    /\ lst' = [lst EXCEPT ![l].st = "done"]
    /\ UNCHANGED <<mscene, mnow, store, bucket, holder, put, gcpc, posts>>

-----------------------------------------------------------------------------
(* Garbage collection *)

gcListeners ==
    /\ gcpc = "idle" /\ holder = Free /\ gcpc' = "alerts"
    /\ lst' = [l \in Listener |->
                 IF lst[l].st = "done" THEN [NoListener EXCEPT !.st = "gone"] ELSE lst[l]]
    /\ UNCHANGED <<mscene, mnow, store, bucket, holder, put, posts>>

\* Mutant: everything that was updated before now is collected.
KeptNew == {fp \in DOMAIN store : store[fp].updated = mnow}

Kept == {fp \in DOMAIN store : ~Resolved(store[fp])}

\* gcAlerts of the provider: the store's GC, stale buckets first.
gcAlerts ==
    /\ gcpc = "alerts" /\ holder = Free /\ gcpc' = "idle"
    /\ bucket' = IF IsStale(bucket, mnow) THEN NewBucket ELSE bucket
    /\ store' = [fp \in Kept |-> store[fp]]
    /\ UNCHANGED <<mscene, mnow, holder, put, lst, posts>>

MemTick ==
    /\ mnow < mscene.maxTime /\ mnow' = mnow + 1
    /\ mscene.slow \/ \A c \in Caller : put[c].pc = "idle"
    /\ UNCHANGED <<mscene, store, bucket, holder, put, lst, gcpc, posts>>

MemNext ==
    \/ \E c \in mscene.callers :
          \/ Post(c) \/ PutStore(c) \/ PutSent(c) \/ PutReturn(c)
          \/ \E l \in mscene.listeners : PutSend(c, l)
    \/ \E l \in mscene.listeners :
          Subscribe(l) \/ SlurpAndSubscribe(l) \/ Receive(l) \/ CloseIterator(l)
    \/ gcListeners \/ gcAlerts \/ MemTick

MemSpec == MemInit /\ [][MemNext]_memVars

\* A goroutine that may go on does, and a subscriber reads while it is subscribed.
MemFairness ==
    /\ \A c \in Caller : WF_memVars(PutStore(c) \/ PutSent(c) \/ PutReturn(c)
                                    \/ \E l \in Listener : PutSend(c, l))
    /\ \A l \in Listener : WF_memVars(Receive(l))

-----------------------------------------------------------------------------
(* Properties *)

Alert == [starts : 1 .. mscene.maxTime + 1, ends : 1 .. mscene.maxTime + ResolveTimeout,
          updated : 1 .. mscene.maxTime, timeout : BOOLEAN]

\* The state has its types, and a channel is within its capacity.
MemTypeOK ==
    /\ DOMAIN store \subseteq Fp /\ \A fp \in DOMAIN store : store[fp] \in Alert
    /\ holder \in Caller \cup {Free}
    /\ \A c \in Caller : put[c].pc \in {"idle", "ready", "sending", "sent"}
    /\ \A l \in Listener : Len(lst[l].ch) <= lst[l].cap

\* The subscriber reads the updates in its channel, and then the one that Put has
\* stored and is about to send to it.
Coming(l) == {c \in Caller : put[c].pc = "sending" /\ l \in put[c].left}
Sending(c) == <<Head(put[c].fps), store[Head(put[c].fps)]>>
Queue(l) == IF Coming(l) = {} THEN lst[l].ch
            ELSE Append(lst[l].ch, Sending(CHOOSE c \in Coming(l) : TRUE))
FeedOf(l) == IF lst[l].st = "on" THEN [on |-> TRUE, queue |-> Queue(l), known |-> lst[l].known]
             ELSE [on |-> FALSE, queue |-> << >>, known |-> Empty]
Feeds == [l \in Listener |-> FeedOf(l)]

\* A request is published to all subscribers at once when it is stored; a subscriber
\* that has closed its iterator has left.
Feed == INSTANCE AlertFeed WITH Reader <- Listener, cur <- store, clock <- mnow, feed <- Feeds

\* Put, Subscribe, SlurpAndSubscribe, gc: with the lock, the bounded channels and the
\* sends that block, every subscriber still gets every update, in the order they were
\* stored, and alerts are forgotten when they are resolved only; so a subscriber that
\* reads on knows what the provider has.
FeedImplemented == Feed!FeedSpec /\ []Feed!InSync

\* What the storing of a request makes of the stored alert.
WordWins(c) ==
    (PutStore(c) /\ store' # store) =>
      LET fp == Head(put[c].fps) IN
      (fp \in DOMAIN store => store[fp].updated <= put[c].alert.updated)
          => (Resolved(store'[fp]) <=> Resolved(put[c].alert))
\* Put: when a request that is no older than the stored alert has been stored, the
\* stored alert is firing if and only if the request said so.
LaterWordWins == [][\A c \in Caller : WordWins(c)]_memVars

\* store.Set, Bucket: no more alerts of a name fire than the limit allows.
WithinLimit ==
    mscene.limit > 0 => Cardinality(Kept) <= mscene.limit

\* Put: it returns, whatever subscribers do, although it waits for them with the
\* lock held.
PutReturns == \A c \in Caller : put[c].pc # "idle" ~> put[c].pc = "idle"
=============================================================================
