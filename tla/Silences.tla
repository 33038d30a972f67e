------------------------------ MODULE Silences ------------------------------
(***************************************************************************)
(* The silences of a cluster and the Silencer that decides with a cache     *)
(* whether an alert is muted (silence/silence.go, silence/cache.go).        *)
(*                                                                         *)
(* Every peer has a state (id -> silence), an index of the versions at      *)
(* which its silences were added, and an index of compiled matchers.        *)
(* Silencer.Mutes takes several locks one after the other, and every        *)
(* stretch between two of them is a step here.  A silence's matchers are    *)
(* abstracted to the set of label sets they match, and whether they compile *)
(* on this release.                                                         *)
(***************************************************************************)
EXTENDS Integers, FiniteSets

CONSTANTS
    Peer, Id, Lset,
    Caller,         \* goroutines that call Mutes: the records [peer, lset, no]
    Retention, MaxSilences,
    MaxTime,        \* bound: no silence starts or ends later
    MaxVersion,     \* bound: versions of a peer's state
    Delay,          \* a version of a silence replaced Delay ago is gone everywhere
    Scenes          \* the environments considered, see Scene

Time == 1 .. MaxTime

\* What the environment may do.
Scene == [callers : SUBSET Caller,  \* the goroutines that are there
          late : BOOLEAN,           \* an update may come when the silence has ended
          slow : BOOLEAN,           \* time passes during a call of Mutes
          foreign : BOOLEAN,        \* another release sends matchers that do not compile
          restarts : BOOLEAN,       \* peers crash and reload their snapshot
          stop : Time]              \* bound: the clock stops there

VARIABLES
    scene,      \* the environment; chosen at the start
    now,
    st,         \* st[p]: Silences.st, a function from some ids to silences
    ver,        \* ver[p]: Silences.version
    vi,         \* vi[p]: the versionIndex, a set of <<version, id>>
    mi,         \* mi[p]: the ids of the matcherIndex
    msgs,       \* every version of a silence that was broadcast: [id, sil]
    snap,       \* snap[p]: the snapshot file
    cache,      \* cache[p][l]: the Silencer's cacheEntry of a label set
    call,       \* call[c]: a call of Mutes under way
    seen,       \* seen[c]: what was true during the call (not in the code)
    high        \* high[p][id]: the newest version p has had (not in the code)

dataVars == <<st, ver, vi, mi, msgs, snap>>
vars == <<scene, now, st, ver, vi, mi, msgs, snap, cache, call, seen, high>>

Never == MaxTime + 1
Sil == [m : SUBSET Lset, ok : BOOLEAN, starts : Time, ends : Time, updated : Time]

NoEntry == [ids |-> {}, version |-> 0]
Empty == [i \in {} |-> 0]
Idle == [pc |-> "idle", entry |-> NoEntry, new |-> 0, sils |-> Empty]
Unseen == [cov |-> {}, soon |-> Never]

Init ==
    /\ scene \in Scenes
    /\ now = 1
    /\ st = [p \in Peer |-> Empty] /\ ver = [p \in Peer |-> 0]
    /\ vi = [p \in Peer |-> {}] /\ mi = [p \in Peer |-> {}]
    /\ msgs = {} /\ snap = [p \in Peer |-> Empty]
    /\ cache = [p \in Peer |-> [l \in Lset |-> NoEntry]]
    /\ call = [c \in Caller |-> Idle] /\ seen = [c \in Caller |-> Unseen]
    /\ high = [p \in Peer |-> [i \in Id |-> 0]]

-----------------------------------------------------------------------------
(* The state of a silence *)

getState(sil, t) == IF t < sil.starts THEN "pending"
                    ELSE IF t > sil.ends THEN "expired" ELSE "active"

ExpiresAt(sil) == sil.ends + Retention

\* Mutant: an ended silence is extended in place.
canUpdateExpired(a, b) ==
    /\ a.m = b.m /\ a.ok = b.ok
    /\ CASE getState(a, now) = "pending" -> b.starts >= now
         [] OTHER                        -> a.starts = b.starts /\ b.ends >= now

canUpdate(a, b) ==
    /\ a.m = b.m /\ a.ok = b.ok
    /\ CASE getState(a, now) = "active"  -> a.starts = b.starts /\ b.ends >= now
         [] getState(a, now) = "pending" -> b.starts >= now
         [] OTHER                        -> FALSE

-----------------------------------------------------------------------------
(* Changes of the state of a peer.  A change is a record of the new values   *)
(* of one peer's fields, so that Set can expire a silence and add another.    *)

Fields(p) == [st |-> st[p], ver |-> ver[p], vi |-> vi[p], mi |-> mi[p], sent |-> {}]

Store(f, id, sil) == [i \in DOMAIN f \cup {id} |-> IF i = id THEN sil ELSE f[i]]

indexSilence(x, id, sil) ==
    [x EXCEPT !.ver = @ + 1, !.vi = @ \cup {<<x.ver + 1, id>>},
              !.mi = IF sil.ok THEN @ \cup {id} ELSE @]

\* state.merge: whether the silence replaces what x has.
Merges(x, id, sil) ==
    /\ ExpiresAt(sil) >= now
    /\ id \in DOMAIN x.st => x.st[id].updated < sil.updated

\* setSilence, and the body of the loop of Merge: merge, index, broadcast.
setSilence(x, id, sil) ==
    IF ~Merges(x, id, sil) THEN x
    ELSE LET y == [x EXCEPT !.st = Store(@, id, sil), !.sent = @ \cup {[id |-> id, sil |-> sil]}]
         IN  IF id \in DOMAIN x.st THEN y ELSE indexSilence(y, id, sil)

\* expire
Expired(sil) == [sil EXCEPT !.starts = IF now < @ THEN now ELSE @, !.ends = now, !.updated = now]

expire(x, id) == IF getState(x.st[id], now) = "expired" THEN x
                 ELSE setSilence(x, id, Expired(x.st[id]))

Becomes(p, x) ==
    /\ st' = [st EXCEPT ![p] = x.st] /\ ver' = [ver EXCEPT ![p] = x.ver]
    /\ vi' = [vi EXCEPT ![p] = x.vi] /\ mi' = [mi EXCEPT ![p] = x.mi]
    /\ msgs' = IF Peer = {p} THEN msgs ELSE msgs \cup x.sent
    /\ UNCHANGED <<now, snap, cache, call>>

-----------------------------------------------------------------------------
(* The operations of a peer *)

\* The clock is fine enough that no two changes have the same time.
ClockMoved == /\ \A p \in Peer, i \in Id : high[p][i] < now
              /\ \A m \in msgs : m.sil.updated < now

Used == {i \in Id : (\E p \in Peer : high[p][i] > 0) \/ (\E m \in msgs : m.id = i)}

\* Set of a silence that exists and can be updated.
Update(p, id, sil) ==
    /\ id \in DOMAIN st[p] /\ canUpdate(st[p][id], sil)
    /\ Becomes(p, setSilence(Fields(p), id, [sil EXCEPT !.updated = now]))

\* Set of a new silence, or of one that replaces the silence id under a new id.
Create(p, id, new, sil) ==
    /\ new \notin Used
    /\ id \in DOMAIN st[p] => ~canUpdate(st[p][id], sil)
    /\ Cardinality(DOMAIN st[p]) + 1 <= MaxSilences
    /\ LET fresh == [sil EXCEPT !.starts = IF @ < now THEN now ELSE @, !.updated = now]
           old == IF id \in DOMAIN st[p] THEN expire(Fields(p), id) ELSE Fields(p)
       IN  Becomes(p, setSilence(old, new, fresh))

\* The silences the API accepts.
Input == {s \in [m : SUBSET Lset, ok : {TRUE}, starts : Time, ends : Time, updated : {now}] :
             s.starts < s.ends /\ s.ends >= now}

Set(p) ==
    /\ ClockMoved
    /\ \E sil \in Input :
        \/ \E id \in DOMAIN st[p] : Update(p, id, sil) \/ \E new \in Id : Create(p, id, new, sil)
        \/ \E new \in Id : Create(p, new, new, sil)

Expire(p, id) ==
    /\ ClockMoved /\ id \in DOMAIN st[p] /\ getState(st[p][id], now) # "expired"
    /\ Becomes(p, expire(Fields(p), id))

\* A peer of another release broadcasts a silence.
Gossip(id) ==
    /\ scene.foreign /\ ClockMoved /\ id \notin Used
    /\ msgs' = msgs \cup {[id |-> id, sil |-> [m |-> {}, ok |-> FALSE, starts |-> now, ends |-> MaxTime, updated |-> now]]}
    /\ UNCHANGED <<now, st, ver, vi, mi, snap, cache, call>>

\* Messages arrive in any order, late, more than once or never.
Arrives(p, m) ==
    /\ \A n \in msgs : n.id = m.id /\ n.sil.updated > m.sil.updated => now <= n.sil.updated + Delay
    /\ (~scene.late /\ m.id \in DOMAIN st[p]) => getState(st[p][m.id], now) # "expired"

\* Merge takes the lock once for all silences of a message; one at a time here.
Merge(p, m) ==
    /\ Arrives(p, m) /\ Merges(Fields(p), m.id, m.sil)
    /\ ver[p] < MaxVersion
    /\ Becomes(p, setSilence(Fields(p), m.id, m.sil))

\* Mutant: a silence goes when it has ended.
GoneAtOnce(p) == {e[2] : e \in {e \in vi[p] : st[p][e[2]].ends <= now}}

\* The ids that GC removes: it goes through the version index.
Gone(p) == {e[2] : e \in {e \in vi[p] : ExpiresAt(st[p][e[2]]) <= now}}

GC(p) ==
    /\ Gone(p) # {}
    /\ st' = [st EXCEPT ![p] = [i \in DOMAIN @ \ Gone(p) |-> @[i]]]
    /\ vi' = [vi EXCEPT ![p] = {e \in @ : e[2] \notin Gone(p)}]
    /\ mi' = [mi EXCEPT ![p] = @ \ Gone(p)]
    /\ UNCHANGED <<now, ver, msgs, snap, cache, call>>

\* Maintenance: Snapshot after GC, with the lock released in between.
Snapshot(p) ==
    /\ scene.restarts /\ snap[p] # st[p]
    /\ snap' = [snap EXCEPT ![p] = st[p]]
    /\ UNCHANGED <<now, st, ver, vi, mi, msgs, cache, call>>

Compiled(f) == {i \in DOMAIN f : f[i].ok}

\* A crash, and New with loadSnapshot: all silences that compile have version 1.
Restart(p) ==
    /\ scene.restarts
    /\ st' = [st EXCEPT ![p] = snap[p]]
    /\ ver' = [ver EXCEPT ![p] = 1]
    /\ vi' = [vi EXCEPT ![p] = {<<1, i>> : i \in Compiled(snap[p])}]
    /\ mi' = [mi EXCEPT ![p] = Compiled(snap[p])]
    /\ cache' = [cache EXCEPT ![p] = [l \in Lset |-> NoEntry]]
    /\ call' = [c \in Caller |-> IF c.peer = p THEN Idle ELSE call[c]]
    /\ UNCHANGED <<now, msgs, snap>>

Tick ==
    /\ now < scene.stop /\ now' = now + 1
    /\ ~scene.slow => \A c \in Caller : call[c].pc = "idle"
    /\ UNCHANGED <<st, ver, vi, mi, msgs, snap, cache, call>>

-----------------------------------------------------------------------------
(* Silencer.Mutes *)

ids(f) == DOMAIN f
Live(p, i) == getState(st[p][i], now) # "expired"
Clones(p, is) == [i \in is |-> st[p][i]]

MutesGet(c) ==
    /\ call[c].pc = "idle"
    /\ call' = [call EXCEPT ![c] = [Idle EXCEPT !.pc = "version", !.entry = cache[c.peer][c.lset]]]
    /\ UNCHANGED <<now, dataVars, cache>>

UpToDate(c) == call[c].entry.version = ver[c.peer]

\* Nothing was added and nothing matched before: not muted.
FastPath(c) ==
    /\ call[c].pc = "version" /\ UpToDate(c) /\ call[c].entry.ids = {}
    /\ call' = [call EXCEPT ![c] = Idle]
    /\ UNCHANGED <<now, dataVars, cache>>

\* "last": the cache is up to date and only the old silences are looked up.
SlowPath(c) ==
    /\ call[c].pc = "version" /\ ~(UpToDate(c) /\ call[c].entry.ids = {})
    /\ call' = [call EXCEPT ![c].pc = IF call[c].entry.ids = {} THEN "new"
                                      ELSE IF UpToDate(c) THEN "last" ELSE "old",
                            ![c].new = call[c].entry.version,
                            ![c].sils = Empty]
    /\ UNCHANGED <<now, dataVars, cache>>

\* Query with QIDs and QState.
QueryOld(c) ==
    /\ call[c].pc \in {"old", "last"}
    /\ LET is == {i \in call[c].entry.ids \cap DOMAIN st[c.peer] : Live(c.peer, i)}
       IN  call' = [call EXCEPT ![c].sils = Clones(c.peer, is),
                                ![c].pc = IF @ = "last" THEN "categorize" ELSE "new"]
    /\ UNCHANGED <<now, dataVars, cache>>

\* The silences with a version greater than v that pass QState.
Since(p, v) == {e[2] : e \in {e \in vi[p] : e[1] > v /\ Live(p, e[2])}}

\* Query with QSince, QState and QMatches.  QMatches fails on a silence that is
\* not in the matcher index: no result, but a version all the same.
QueryNew(c) ==
    /\ call[c].pc = "new"
    /\ LET is == Since(c.peer, call[c].entry.version)
           match == IF is \subseteq mi[c.peer]
                    THEN {i \in is : c.lset \in st[c.peer][i].m} ELSE {}
           old == call[c].sils
       IN  call' = [call EXCEPT
               ![c].sils = [i \in ids(old) \cup match |-> IF i \in ids(old) THEN old[i]
                                                          ELSE st[c.peer][i]],
               ![c].new = ver[c.peer],
               ![c].pc = "categorize"]
    /\ UNCHANGED <<now, dataVars, cache>>

InState(c, states) == {i \in ids(call[c].sils) : getState(call[c].sils[i], now) \in states}
activeIDs(c) == InState(c, {"active"})
allIDs(c) == InState(c, {"active", "pending"})

\* Mutant: pending silences are not kept.
CategorizeActive(c) ==
    /\ call[c].pc = "categorize"
    /\ cache' = [cache EXCEPT ![c.peer][c.lset] = [ids |-> activeIDs(c), version |-> call[c].new]]
    /\ call' = [call EXCEPT ![c] = Idle]
    /\ UNCHANGED <<now, dataVars>>

\* Keep the active and pending silences for the next call and return.
Categorize(c) ==
    /\ call[c].pc = "categorize"
    /\ cache' = [cache EXCEPT ![c.peer][c.lset] = [ids |-> allIDs(c), version |-> call[c].new]]
    /\ call' = [call EXCEPT ![c] = Idle]
    /\ UNCHANGED <<now, dataVars>>

\* The provider has collected the alert.
PostGC(p, l) ==
    /\ cache[p][l] # NoEntry
    /\ cache' = [cache EXCEPT ![p][l] = NoEntry]
    /\ UNCHANGED <<now, dataVars, call>>

-----------------------------------------------------------------------------
(* What is true during a call: the silences that cover the label set in all  *)
(* states of the call so far, and the earliest start of a silence that has    *)
(* not ended and matches it in one of them.                                   *)

Matching(c) == {i \in DOMAIN st[c.peer] : c.lset \in st[c.peer][i].m
                                          /\ Live(c.peer, i)}
Covering(c) == {i \in Matching(c) : getState(st[c.peer][i], now) = "active"}
Starts(c) == {st[c.peer][i].starts : i \in Matching(c)}
Least(S) == CHOOSE t \in S : \A u \in S : t <= u

Observe ==
    /\ seen' = [c \in Caller |->
           IF call'[c].pc = "idle" THEN Unseen
           ELSE [cov |-> IF call[c].pc = "idle" THEN Covering(c)' ELSE seen[c].cov \cap Covering(c)',
                 soon |-> Least({seen[c].soon} \cup Starts(c)')]]
    /\ high' = [p \in Peer |-> [i \in Id |->
           IF i \in DOMAIN st'[p] /\ st'[p][i].updated > high[p][i]
           THEN st'[p][i].updated ELSE high[p][i]]]

Step ==
    \/ Tick
    \/ \E p \in Peer : \/ Set(p) \/ GC(p) \/ Snapshot(p) \/ Restart(p)
                       \/ \E id \in Id : Expire(p, id)
                       \/ \E m \in msgs : Merge(p, m)
                       \/ \E l \in Lset : PostGC(p, l)
    \/ \E id \in Id : Gossip(id)
    \/ \E c \in scene.callers : \/ MutesGet(c) \/ FastPath(c) \/ SlowPath(c)
                                \/ QueryOld(c) \/ QueryNew(c) \/ Categorize(c)

Next == Step /\ Observe /\ UNCHANGED scene

Spec == Init /\ [][Next]_vars

-----------------------------------------------------------------------------
(* Properties *)

\* What the proofs assume of the constants.
Setting ==
    /\ MaxTime \in Nat \ {0} /\ Retention \in Nat
    /\ Caller \subseteq [peer : Peer, lset : Lset, no : Nat]
    /\ Scenes \subseteq Scene

\* There is a cluster, and replaced versions stop circulating within the retention.
Circulation == Delay \in Nat /\ Delay < Retention /\ \A p \in Peer : Peer # {p}

Entry == [ids : SUBSET Id, version : Nat]

\* Type invariant.
TypeOK ==
    /\ scene \in Scenes
    /\ now \in Time
    /\ \A p \in Peer : /\ DOMAIN st[p] \subseteq Id /\ DOMAIN snap[p] \subseteq Id
                       /\ \A i \in DOMAIN st[p] : st[p][i] \in Sil
                       /\ vi[p] \subseteq (1 .. ver[p]) \X Id /\ mi[p] \subseteq Id
    /\ ver \in [Peer -> Nat]
    /\ msgs \subseteq [id : Id, sil : Sil]
    /\ cache \in [Peer -> [Lset -> Entry]]
    /\ \A c \in Caller : call[c].entry \in Entry /\ DOMAIN call[c].sils \subseteq Id

NotMuted(c) == FastPath(c) \/ (Categorize(c) /\ activeIDs(c) = {})

\* The answer of Mutes is right about an alert that one active silence covers
\* from the call to the return.
ActiveMutes == \A c \in Caller : seen[c].cov # {} => ~NotMuted(c)

\* Mutes mutes an alert only if a silence that matches it and whose start has
\* passed was there, not ended, during the call.  Old silences are looked up by
\* their ids and not matched again.
MutesTruly == \A c \in Caller : Categorize(c) /\ activeIDs(c) # {} => seen[c].soon <= now

\* Both, the first if calls take no time, matchers compile, and an update reaches a peer
\* before the silence has ended there.
RightAnswer == (~scene.slow /\ ~scene.late /\ ~scene.foreign => ActiveMutes) /\ MutesTruly

\* Silencer.Mutes answers rightly.  An alert that an active silence covers from the call
\* to the return is muted, whatever other calls, changes, gossip, collections and restarts
\* happen in between, or happened since the entry was cached; if calls take no time,
\* matchers compile, and an update reaches a peer before the silence has ended there.  An
\* alert is muted only if a silence that matches it and whose start has passed was there,
\* not ended, during the call.
MutesIsRight == [][RightAnswer]_vars

WasActive(sil, t) == getState(sil, t) = "active"

SamePast(p, i) ==
    /\ i \in DOMAIN st'[p]
    /\ \A t \in 1 .. (now - 1) : WasActive(st[p][i], t) = WasActive(st'[p][i], t)

\* No operation of a user changes when a silence was active before now: Set
\* replaces a silence instead of rewriting its past, and never drops it
\* (canUpdate).
HistoryKept ==
    \A p \in Peer : (\E i \in DOMAIN st[p] : ~SamePast(p, i)) => ~(Set(p) \/ \E id \in Id : Expire(p, id))

\* state.merge: a peer that has had a version of a silence does not go back to an older one,
\* not even after it has collected the silence, if replaced versions stop
\* circulating within the retention.
NeverOlder ==
    ~scene.restarts => \A p \in Peer : \A i \in DOMAIN st[p] : st[p][i].updated = high[p][i]
=============================================================================
