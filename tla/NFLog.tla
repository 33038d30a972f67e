------------------------------- MODULE NFLog -------------------------------
(***************************************************************************)
(* The notification log (nflog/nflog.go): on every peer a map from a        *)
(* (group, receiver) key to the last notification, merged by the last       *)
(* writer's timestamp, garbage collected at its expiry, snapshotted to disk *)
(* and gossiped to the other peers.                                         *)
(*                                                                         *)
(* Every peer reads its own clock; clocks only advance, and may drift       *)
(* apart.  Gossip is a set of messages that may be delivered to any peer at *)
(* any time, any number of times and in any order, or be lost.              *)
(***************************************************************************)
EXTENDS Integers

CONSTANTS
    Peer,           \* the cluster members
    Key,            \* state keys: group key and receiver
    Value,          \* what an entry records (firing and resolved hashes, receiver data)
    NoEntry,        \* absence of a map entry
    Torn,           \* content of a partly written snapshot file
    Retention,      \* Options.Retention
    Repeat,         \* repeat interval of the routes; SetNotifiesStage logs with expiry 2*Repeat
    MaxTime,        \* bound on the clocks
    MaxLogs,        \* bound on the number of Log calls
    MaxCrashes      \* bound on the number of crashes

\* expiresAt - now in Log: the retention, or a shorter positive expiry.
Lifetime == LET expiry == 2 * Repeat
            IN  IF expiry > 0 /\ Retention > expiry THEN expiry ELSE Retention

Entry == [ts : Nat, val : Value, exp : Nat]
State == [Key -> Entry \cup {NoEntry}]
EmptyState == [k \in Key |-> NoEntry]

ASSUME NFLogAssumption ==
    /\ Retention \in Nat
    /\ Repeat \in Nat
    /\ MaxTime \in Nat /\ MaxLogs \in Nat /\ MaxCrashes \in Nat
    /\ NoEntry \notin Entry
    /\ Torn \notin State

VARIABLES
    clock,      \* clock[p]: l.now() on peer p
    up,         \* up[p]: the process of peer p runs
    st,         \* st[p]: Log.st
    pend,       \* pend[p][k]: a Log call that read the clock and waits for Log.mtx
    net,        \* gossip messages in flight; a message is a marshalled state
    mt,         \* mt[p]: where the Maintenance goroutine of p is
    tmp,        \* tmp[p]: content of the temporary snapshot file
    file,       \* file[p]: content of the snapshot file
    high,       \* high[p][k]: newest timestamp p held since it started, or -1 (auxiliary)
    logs,       \* Log calls so far (auxiliary, for the bound)
    crashes     \* crashes so far (auxiliary, for the bound)

vars == <<clock, up, st, pend, net, mt, tmp, file, high, logs, crashes>>

Pending == [ts : Nat, val : Value]

Init ==
    /\ clock = [p \in Peer |-> 0]
    /\ up = [p \in Peer |-> TRUE]
    /\ st = [p \in Peer |-> EmptyState]
    /\ pend = [p \in Peer |-> [k \in Key |-> NoEntry]]
    /\ net = {}
    /\ mt = [p \in Peer |-> "idle"]
    /\ tmp = [p \in Peer |-> EmptyState]
    /\ file = [p \in Peer |-> EmptyState]
    /\ high = [p \in Peer |-> [k \in Key |-> -1]]
    /\ logs = 0
    /\ crashes = 0

-----------------------------------------------------------------------------
(* state.merge: one entry *)

\* Mutant: merge does not look at the expiry.
AcceptsExpired(prev, e, now) == e # NoEntry /\ (prev = NoEntry \/ prev.ts < e.ts)

\* merge accepts e over prev at time now.
Accepts(prev, e, now) ==
    /\ e # NoEntry
    /\ ~(e.exp < now)
    /\ prev = NoEntry \/ prev.ts < e.ts

\* The map after every entry of the state b was merged into s at time now.
mergeAll(s, b, now) ==
    [k \in Key |-> IF Accepts(s[k], b[k], now) THEN b[k] ELSE s[k]]

\* A message that carries the single entry e.
Single(k, e) == [EmptyState EXCEPT ![k] = e]

Newest(h, s) ==
    [k \in Key |-> IF s[k] # NoEntry /\ s[k].ts > h[k] THEN s[k].ts ELSE h[k]]

-----------------------------------------------------------------------------
Tick(p) ==
    /\ clock[p] < MaxTime
    /\ clock' = [clock EXCEPT ![p] = @ + 1]
    /\ UNCHANGED <<up, st, pend, net, mt, tmp, file, high, logs, crashes>>

\* Log, first half: the clock is read before the lock is taken.
LogRead(p, k, v) ==
    /\ up[p]
    /\ pend[p][k] = NoEntry
    /\ logs < MaxLogs
    /\ logs' = logs + 1
    /\ pend' = [pend EXCEPT ![p][k] = [ts |-> clock[p], val |-> v]]
    /\ UNCHANGED <<clock, up, st, net, mt, tmp, file, high, crashes>>

\* Mutant: Log returns as soon as the key has an entry.
LogCommitKeepsFirst(p, k) ==
    /\ up[p]
    /\ pend[p][k] # NoEntry
    /\ pend' = [pend EXCEPT ![p][k] = NoEntry]
    /\ LET now == pend[p][k].ts
           b   == Single(k, [ts |-> now, val |-> pend[p][k].val, exp |-> now + Lifetime])
       IN IF st[p][k] # NoEntry
          THEN UNCHANGED <<st, net, high>>
          ELSE /\ st' = [st EXCEPT ![p] = mergeAll(@, b, clock[p])]
               /\ high' = [high EXCEPT ![p] = Newest(@, st'[p])]
               /\ net' = net \cup {b}
    /\ UNCHANGED <<clock, up, mt, tmp, file, logs, crashes>>

\* Log, second half, under the lock.  The entry is broadcast even when merge
\* refuses it.
LogCommit(p, k) ==
    /\ up[p]
    /\ pend[p][k] # NoEntry
    /\ pend' = [pend EXCEPT ![p][k] = NoEntry]
    /\ LET now == pend[p][k].ts
           e   == [ts |-> now, val |-> pend[p][k].val, exp |-> now + Lifetime]
           b   == Single(k, e)
       IN IF st[p][k] # NoEntry /\ st[p][k].ts > now
          THEN UNCHANGED <<st, net, high>>
          ELSE /\ st' = [st EXCEPT ![p] = mergeAll(@, b, clock[p])]
               /\ high' = [high EXCEPT ![p] = Newest(@, st'[p])]
               /\ net' = net \cup {b}
    /\ UNCHANGED <<clock, up, mt, tmp, file, logs, crashes>>

\* Merge(b): every accepted entry makes the peer gossip b again, unless b is
\* too large for a gossip packet.
MergeMsg(p, b, oversized) ==
    LET fresh == \E k \in Key : Accepts(st[p][k], b[k], clock[p])
    IN  /\ st' = [st EXCEPT ![p] = mergeAll(@, b, clock[p])]
        /\ high' = [high EXCEPT ![p] = Newest(@, st'[p])]
        /\ net' = IF fresh /\ ~oversized THEN net \cup {b} ELSE net

\* A gossip message reaches p; it may reach p again later.
Deliver(p, b, oversized) ==
    /\ up[p]
    /\ b \in net
    /\ MergeMsg(p, b, oversized)
    /\ UNCHANGED <<clock, up, pend, mt, tmp, file, logs, crashes>>

\* Mutant: the receiver merges its own state.
PushPullOwn(p, q, oversized) ==
    /\ p # q /\ up[p] /\ up[q]
    /\ MergeMsg(p, st[p], oversized)
    /\ UNCHANGED <<clock, up, pend, mt, tmp, file, logs, crashes>>

\* Push/pull: p merges the whole local state of q.
PushPull(p, q, oversized) ==
    /\ p # q /\ up[p] /\ up[q]
    /\ MergeMsg(p, st[q], oversized)
    /\ UNCHANGED <<clock, up, pend, mt, tmp, file, logs, crashes>>

\* The network or a full queue loses a message.
Drop(b) ==
    /\ net' = net \ {b}
    /\ UNCHANGED <<clock, up, st, pend, mt, tmp, file, high, logs, crashes>>

-----------------------------------------------------------------------------
(* Maintenance: collect, write the temporary file, rename it *)

\* The clock is read before the lock is taken, so now may be in the past.
GC(p, now) ==
    /\ up[p] /\ mt[p] = "idle"
    /\ now <= clock[p]
    /\ st' = [st EXCEPT ![p] = [k \in Key |->
                IF @[k] # NoEntry /\ ~(@[k].exp > now) THEN NoEntry ELSE @[k]]]
    /\ mt' = [mt EXCEPT ![p] = "collected"]
    /\ UNCHANGED <<clock, up, pend, net, tmp, file, high, logs, crashes>>

\* openReplace fails: this round ends.
OpenFails(p) ==
    /\ up[p] /\ mt[p] = "collected"
    /\ mt' = [mt EXCEPT ![p] = "idle"]
    /\ UNCHANGED <<clock, up, st, pend, net, tmp, file, high, logs, crashes>>

\* Snapshot copies the marshalled state into the temporary file; the copy may
\* fail part way, and the caller closes the file either way.
Snapshot(p) ==
    /\ up[p] /\ mt[p] = "collected"
    /\ \E content \in {st[p], Torn} : tmp' = [tmp EXCEPT ![p] = content]
    /\ mt' = [mt EXCEPT ![p] = "written"]
    /\ UNCHANGED <<clock, up, st, pend, net, file, high, logs, crashes>>

\* replaceFile.Close: sync, close, rename over the snapshot file; or a failure
\* of one of them, which leaves the snapshot file as it was.
Close(p, ok) ==
    /\ up[p] /\ mt[p] = "written"
    /\ file' = IF ok THEN [file EXCEPT ![p] = tmp[p]] ELSE file
    /\ tmp' = [tmp EXCEPT ![p] = EmptyState]
    /\ mt' = [mt EXCEPT ![p] = "idle"]
    /\ UNCHANGED <<clock, up, st, pend, net, high, logs, crashes>>

Crash(p) ==
    /\ up[p]
    /\ crashes < MaxCrashes
    /\ crashes' = crashes + 1
    /\ up' = [up EXCEPT ![p] = FALSE]
    /\ st' = [st EXCEPT ![p] = EmptyState]
    /\ pend' = [pend EXCEPT ![p] = [k \in Key |-> NoEntry]]
    /\ mt' = [mt EXCEPT ![p] = "idle"]
    /\ high' = [high EXCEPT ![p] = [k \in Key |-> -1]]
    /\ tmp' = [tmp EXCEPT ![p] = EmptyState]
    /\ UNCHANGED <<clock, net, file, logs>>

\* New and loadSnapshot: entries are loaded whether or not they have expired.
\* A file that does not decode makes New fail: the process does not start.
Start(p) ==
    /\ ~up[p]
    /\ file[p] # Torn
    /\ up' = [up EXCEPT ![p] = TRUE]
    /\ st' = [st EXCEPT ![p] = file[p]]
    /\ high' = [high EXCEPT ![p] = Newest(@, file[p])]
    /\ UNCHANGED <<clock, pend, net, mt, tmp, file, logs, crashes>>

-----------------------------------------------------------------------------
Next ==
    \/ \E p \in Peer : Tick(p) \/ OpenFails(p) \/ Snapshot(p) \/ Crash(p) \/ Start(p)
    \/ \E p \in Peer, now \in 0 .. MaxTime : GC(p, now)
    \/ \E p \in Peer, ok \in BOOLEAN : Close(p, ok)
    \/ \E p \in Peer, k \in Key : LogCommit(p, k) \/ \E v \in Value : LogRead(p, k, v)
    \/ \E p \in Peer, b \in net, oversized \in BOOLEAN : Deliver(p, b, oversized)
    \/ \E p, q \in Peer, oversized \in BOOLEAN : PushPull(p, q, oversized)
    \/ \E b \in net : Drop(b)

Spec == Init /\ [][Next]_vars

\* memberlist runs a push/pull with a random live peer every interval, so no
\* pair of live peers is left out forever; a stopped process is started again.
Fairness ==
    /\ \A p, q \in Peer : WF_vars(\E oversized \in BOOLEAN : PushPull(p, q, oversized))
    /\ \A p \in Peer : WF_vars(Start(p))

FairSpec == Spec /\ Fairness

-----------------------------------------------------------------------------
(* Properties *)

\* Type invariant of the log of every peer, its files and the messages.
TypeOK ==
    /\ clock \in [Peer -> Nat]
    /\ up \in [Peer -> BOOLEAN]
    /\ st \in [Peer -> State]
    /\ pend \in [Peer -> [Key -> Pending \cup {NoEntry}]]
    /\ net \subseteq State
    /\ mt \in [Peer -> {"idle", "collected", "written"}]
    /\ tmp \in [Peer -> State \cup {Torn}]
    /\ file \in [Peer -> State \cup {Torn}]
    /\ high \in [Peer -> [Key -> Int]]
    /\ logs \in Nat /\ crashes \in Nat

\* An older notification never comes back: while a process runs, the entry it
\* holds for a key is the newest it ever held for that key, even after the
\* newest was garbage collected and copies of older ones are still gossiped.
\* (GC and merge must agree on what has expired.)
NoOldEntryReturns ==
    \A p \in Peer, k \in Key : st[p][k] # NoEntry => st[p][k].ts = high[p][k]

\* A running peer replaces the entry of a key only by a strictly newer one;
\* neither a late Log call nor a stale or repeated message overwrites it.
ReplacedOnlyByNewer ==
    [][\A p \in Peer, k \in Key :
        (up[p] /\ up'[p] /\ st[p][k] # NoEntry /\ st'[p][k] \notin {NoEntry, st[p][k]})
            => st'[p][k].ts > st[p][k].ts]_vars

\* Log returns only when the log shows a notification at least as recent as
\* the one that was just sent, unless that one has already expired: the next
\* DedupStage of this peer sees it.
LoggedIsVisible ==
    [][\A p \in Peer, k \in Key :
        (pend[p][k] # NoEntry /\ pend'[p][k] = NoEntry /\ up'[p])
            => \/ st'[p][k] # NoEntry /\ st'[p][k].ts >= pend[p][k].ts
               \/ pend[p][k].ts + Lifetime < clock[p]]_vars

\* q holds for k an entry at least as recent as p's, unless p's has expired
\* by the clock of p or of q.
CaughtUp(p, q, k) ==
    (/\ up[p] /\ up[q] /\ st[p][k] # NoEntry
     /\ st[p][k].exp > clock[p] /\ st[p][k].exp > clock[q])
        => st[q][k] # NoEntry /\ st[q][k].ts >= st[p][k].ts

\* Once notifications stop, the logs of all live peers agree, whatever gossip
\* was lost and whichever peer restarted from an old snapshot: push/pull of
\* the full state repairs both.  Entries are compared by timestamp.
Convergence == <>[](\A p, q \in Peer, k \in Key : CaughtUp(p, q, k))
=============================================================================
