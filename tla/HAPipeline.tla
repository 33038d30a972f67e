----------------------------- MODULE HAPipeline -----------------------------
(***************************************************************************)
(* The notification of one firing alert group to one receiver by a cluster  *)
(* of peers, in discrete time.  Every peer flushes the group by itself,     *)
(* waits its position times the peer timeout, looks into its notification   *)
(* log, notifies, logs, and gossips the entry to the others                 *)
(* (aggrGroup.run, ClusterWaitStage, DedupStage, RetryStage,                *)
(* SetNotifiesStage, Peer.Position, clusterWait).                           *)
(*                                                                         *)
(* Clocks are kept as ages and remaining times, so that the model needs no  *)
(* bound on time; an age stops at AgeCap.                                   *)
(***************************************************************************)
EXTENDS Integers, FiniteSets

CONSTANTS
    N,              \* the peers are 1..N, in the order of their names
    PeerTimeout, GroupInterval, Repeat,     \* a flush ends before the next: GroupInterval > MaxFlush
    MaxSkew,        \* bound on the time between the first flushes of two peers
    MaxNotify,      \* bound on the time a notification and its logging take
    MaxGossip,      \* bound on the time an entry takes to another peer
    Reliable        \* the peers that always stay up and reach the receiver

Peer == 1 .. N
MaxWait == (N - 1) * PeerTimeout
MaxFlush == MaxWait + MaxNotify
AgeCap == Repeat + MaxFlush + 1
None == -1

\* The times are natural numbers, and a flush ends before the next.
Setting ==
    /\ N \in Nat \ {0} /\ MaxFlush < GroupInterval
    /\ {PeerTimeout, GroupInterval, Repeat, MaxSkew, MaxNotify, MaxGossip} \subseteq Nat

\* Some peer stays up and reaches the receiver.
Survivor == Reliable \cap Peer # {}

VARIABLES
    stable,     \* whether nothing fails in this behaviour; chosen at the start
    up,         \* up[p]: p runs
    view,       \* view[p]: the members p knows
    hpc,        \* hpc[p]: the stage of p's flush
    next,       \* next[p]: time until p's group timer fires
    rem,        \* rem[p]: time p may still spend in its stage
    since,      \* since[p]: time since p's flush began
    hlog,       \* hlog[p]: the age of the entry in p's log, or None
    msgs,       \* gossip under way: [to, age, ttl]
    quiet,      \* time since the receiver was last notified, or since the start
    first       \* the receiver was not yet notified

haVars == <<stable, up, view, hpc, next, rem, since, hlog, msgs, quiet, first>>

HAInit ==
    /\ stable \in BOOLEAN
    /\ up = [p \in Peer |-> TRUE] /\ view = [p \in Peer |-> Peer]
    /\ hpc = [p \in Peer |-> "idle"]
    /\ next \in [Peer -> 0 .. MaxSkew]
    /\ rem = [p \in Peer |-> 0] /\ since = [p \in Peer |-> 0]
    /\ hlog = [p \in Peer |-> None]
    /\ msgs = {} /\ quiet = 0 /\ first = TRUE

-----------------------------------------------------------------------------
(* Time passes as long as nothing is due *)

Older(age) == IF age = None \/ age = AgeCap THEN age ELSE age + 1
Sooner(t) == IF t = 0 THEN 0 ELSE t - 1

Due(p) ==
    /\ up[p]
    /\ \/ hpc[p] = "idle" /\ next[p] = 0
       \/ hpc[p] = "dedup"
       \/ hpc[p] \in {"wait", "notify", "log"} /\ rem[p] = 0

Tick ==
    /\ \A p \in Peer : ~Due(p)
    /\ \A m \in msgs : m.ttl > 0
    /\ next' = [p \in Peer |-> Sooner(next[p])]
    /\ rem' = [p \in Peer |-> Sooner(rem[p])]
    /\ since' = [p \in Peer |-> IF hpc[p] = "idle" THEN 0 ELSE since[p] + 1]
    /\ hlog' = [p \in Peer |-> Older(hlog[p])]
    /\ msgs' = {[to |-> m.to, age |-> Older(m.age), ttl |-> m.ttl - 1] : m \in msgs}
    /\ quiet' = quiet + 1
    /\ UNCHANGED <<stable, up, view, hpc, first>>

-----------------------------------------------------------------------------
(* The flush of a peer *)

MayFail(p) == ~stable /\ p \notin Reliable

Position(p) == Cardinality({q \in view[p] : q < p})

\* Mutant: every peer notifies at once.
clusterWaitNone(p) == 0

clusterWait(p) == Position(p) * PeerTimeout

\* The group timer fires; ClusterWaitStage starts to wait.
HAFlush(p) ==
    /\ up[p] /\ hpc[p] = "idle" /\ next[p] = 0
    /\ next' = [next EXCEPT ![p] = GroupInterval]
    /\ hpc' = [hpc EXCEPT ![p] = "wait"]
    /\ rem' = [rem EXCEPT ![p] = clusterWait(p)]
    /\ since' = [since EXCEPT ![p] = 0]
    /\ UNCHANGED <<stable, up, view, hlog, msgs, quiet, first>>

HAWaited(p) ==
    /\ up[p] /\ hpc[p] = "wait" /\ rem[p] = 0
    /\ hpc' = [hpc EXCEPT ![p] = "dedup"]
    /\ UNCHANGED <<stable, up, view, next, rem, since, hlog, msgs, quiet, first>>

\* needsUpdate with unchanged alerts; its now is the time the timer fired.
HAneedsUpdate(p) == hlog[p] = None \/ hlog[p] - since[p] > Repeat

Return(p) ==
    /\ hpc' = [hpc EXCEPT ![p] = "idle"]
    /\ rem' = [rem EXCEPT ![p] = 0]
    /\ since' = [since EXCEPT ![p] = 0]

HADedupStage(p) ==
    /\ up[p] /\ hpc[p] = "dedup"
    /\ IF HAneedsUpdate(p)
       THEN /\ hpc' = [hpc EXCEPT ![p] = "notify"]
            /\ rem' = [rem EXCEPT ![p] = MaxNotify]
            /\ UNCHANGED since
       ELSE Return(p)
    /\ UNCHANGED <<stable, up, view, next, hlog, msgs, quiet, first>>

\* RetryStage: the receiver accepts the notification.
Notify(p) ==
    /\ up[p] /\ hpc[p] = "notify"
    /\ hpc' = [hpc EXCEPT ![p] = "log"]
    /\ quiet' = 0 /\ first' = FALSE
    /\ UNCHANGED <<stable, up, view, next, rem, since, hlog, msgs>>

\* SetNotifiesStage: log the notification and broadcast the entry.
HASetNotifiesStage(p) ==
    /\ up[p] /\ hpc[p] = "log"
    /\ hlog' = [hlog EXCEPT ![p] = 0]
    /\ msgs' = msgs \cup {[to |-> q, age |-> 0, ttl |-> MaxGossip] : q \in Peer \ {p}}
    /\ Return(p)
    /\ UNCHANGED <<stable, up, view, next, quiet, first>>

\* Mutant: the failed notification is logged and gossiped.
HANotifyFailsLogged(p) ==
    /\ up[p] /\ hpc[p] = "notify" /\ MayFail(p)
    /\ hpc' = [hpc EXCEPT ![p] = "log"]
    /\ UNCHANGED <<stable, up, view, next, rem, since, hlog, msgs, quiet, first>>

\* RetryStage of a peer that does not reach the receiver gives up.
HANotifyFails(p) ==
    /\ up[p] /\ hpc[p] = "notify" /\ MayFail(p)
    /\ Return(p)
    /\ UNCHANGED <<stable, up, view, next, hlog, msgs, quiet, first>>

Newer(age, old) == age # None /\ (old = None \/ age < old)

\* A peer merges an entry: the newer one stays.
Merge(m) ==
    /\ m \in msgs /\ msgs' = msgs \ {m}
    /\ hlog' = IF up[m.to] /\ Newer(m.age, hlog[m.to])
              THEN [hlog EXCEPT ![m.to] = m.age] ELSE hlog
    /\ UNCHANGED <<stable, up, view, hpc, next, rem, since, quiet, first>>

\* The exchange of full states, in one direction.
MergeRemoteState(p, q) ==
    /\ up[p] /\ up[q] /\ Newer(hlog[q], hlog[p])
    /\ hlog' = [hlog EXCEPT ![p] = hlog[q]]
    /\ UNCHANGED <<stable, up, view, hpc, next, rem, since, msgs, quiet, first>>

-----------------------------------------------------------------------------
(* Failures *)

Lose(m) ==
    /\ ~stable /\ m \in msgs
    /\ msgs' = msgs \ {m}
    /\ UNCHANGED <<stable, up, view, hpc, next, rem, since, hlog, quiet, first>>

\* A peer crashes, whatever it is doing; its last snapshot holds the entry or not.
Crash(p) ==
    /\ MayFail(p) /\ up[p]
    /\ up' = [up EXCEPT ![p] = FALSE]
    /\ \E kept \in {hlog[p], None} : hlog' = [hlog EXCEPT ![p] = kept]
    /\ next' = [next EXCEPT ![p] = 0]
    /\ Return(p)
    /\ UNCHANGED <<stable, view, msgs, quiet, first>>

\* It restarts and receives the alert again.
Restart(p) ==
    /\ ~up[p]
    /\ up' = [up EXCEPT ![p] = TRUE]
    /\ next' = [next EXCEPT ![p] = MaxSkew]
    /\ UNCHANGED <<stable, view, hpc, rem, since, hlog, msgs, quiet, first>>

\* Memberlist takes a peer for dead, rightly or not, or for alive again.
Suspect(p, q) ==
    /\ ~stable /\ p # q
    /\ view' = [view EXCEPT ![p] = IF q \in @ THEN @ \ {q} ELSE @ \cup {q}]
    /\ UNCHANGED <<stable, up, hpc, next, rem, since, hlog, msgs, quiet, first>>

-----------------------------------------------------------------------------
HANext ==
    \/ Tick
    \/ \E p \in Peer : \/ HAFlush(p) \/ HAWaited(p) \/ HADedupStage(p) \/ Notify(p) \/ HANotifyFails(p)
                       \/ HASetNotifiesStage(p) \/ Crash(p) \/ Restart(p)
                       \/ \E q \in Peer : Suspect(p, q) \/ MergeRemoteState(p, q)
    \/ \E m \in msgs : Merge(m) \/ Lose(m)

HASpec == HAInit /\ [][HANext]_haVars

-----------------------------------------------------------------------------
(* Properties *)

\* Type invariant; no flush takes longer than MaxFlush.
HATypeOK ==
    /\ stable \in BOOLEAN
    /\ up \in [Peer -> BOOLEAN] /\ view \in [Peer -> SUBSET Peer]
    /\ hpc \in [Peer -> {"idle", "wait", "dedup", "notify", "log"}]
    /\ next \in [Peer -> 0 .. (GroupInterval + MaxSkew)]
    /\ rem \in [Peer -> 0 .. MaxFlush] /\ since \in [Peer -> 0 .. MaxFlush]
    /\ hlog \in [Peer -> -1 .. AgeCap]
    /\ msgs \subseteq [to : Peer, age : 0 .. MaxGossip, ttl : 0 .. MaxGossip]
    /\ quiet \in Nat /\ first \in BOOLEAN

\* A peer hears of a notification before its own turn comes, and of one made
\* late in a flush before its next flush.
WellTimed ==
    /\ PeerTimeout > MaxSkew + MaxNotify + MaxGossip
    /\ GroupInterval > MaxFlush + MaxSkew + MaxGossip

\* A peer notifies for the first time or after the repeat interval.
NotTwice == \A p \in Peer : stable /\ WellTimed /\ Notify(p) => first \/ quiet > Repeat

\* ClusterWaitStage, DedupStage: the receiver is notified once per repeat interval; when
\* nothing fails and the timeouts exceed the delays of the cluster, the peers do not
\* notify twice.
NoDuplicate == [][NotTwice]_haVars

\* The longest time without a notification, besides a flush: until the first flush, or until
\* the first flush after the repeat interval of an entry logged late.
Latest == IF first \/ Repeat + MaxNotify + GroupInterval < MaxSkew THEN MaxSkew
          ELSE Repeat + MaxNotify + GroupInterval
Bound == Latest + MaxFlush

\* At-least-once, within a time bound: as long as one peer stays up and reaches
\* the receiver, crashes of the others in any stage, lost gossip and wrong
\* memberships do not delay a notification beyond Bound.
NotifiedInTime == quiet <= Bound
=============================================================================
