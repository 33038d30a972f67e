---------------------------- MODULE NFLog_proofs ----------------------------
(***************************************************************************)
(* Proofs about the notification log, for any number of peers and keys, any *)
(* clocks and any retention.                                                *)
(***************************************************************************)
EXTENDS NFLog, TLAPS

\* Every entry of the map s lives for the same time: exp = ts + Lifetime.
Uniform(s) == \A k \in Key : s[k] # NoEntry => s[k].exp = s[k].ts + Lifetime

\* A key p once held and holds no more was collected after it expired: its
\* newest entry, and with it every older one, has expired by the clock of p.
CollectedAreExpired ==
    \A p \in Peer, k \in Key :
        (st[p][k] = NoEntry /\ high[p][k] >= 0) => high[p][k] + Lifetime <= clock[p]

\* The inductive invariant behind NoOldEntryReturns.
IInv ==
    /\ TypeOK
    /\ \A p \in Peer : Uniform(st[p])
    /\ \A b \in net : Uniform(b)
    /\ \A p \in Peer : tmp[p] # Torn => Uniform(tmp[p])
    /\ \A p \in Peer : file[p] # Torn => Uniform(file[p])
    /\ \A p \in Peer : ~up[p] => \A k \in Key : high[p][k] = -1
    /\ NoOldEntryReturns
    /\ CollectedAreExpired

\* The lifetime Log gives an entry is a natural number.
LEMMA LifetimeType == Lifetime \in Nat
BY NFLogAssumption DEF Lifetime

\* Merging a well-formed message into a well-formed map gives a well-formed map.
LEMMA MergeType ==
    ASSUME NEW s \in State, NEW b \in State, NEW now \in Nat
    PROVE  /\ mergeAll(s, b, now) \in State
           /\ Uniform(s) /\ Uniform(b) => Uniform(mergeAll(s, b, now))
BY DEF mergeAll, State, Uniform, Accepts

\* Newest keeps a map of timestamps a map of timestamps.
LEMMA NewestType ==
    ASSUME NEW s \in State, NEW h \in [Key -> Int]
    PROVE  Newest(h, s) \in [Key -> Int]
BY DEF Newest, State, Entry

\* The empty map, and a map of one entry, are well formed.
LEMMA EmptyType == EmptyState \in State /\ Uniform(EmptyState)
BY DEF EmptyState, State, Uniform

LEMMA SingleType ==
    ASSUME NEW k \in Key, NEW t \in Nat, NEW v \in Value
    PROVE  LET b == Single(k, [ts |-> t, val |-> v, exp |-> t + Lifetime])
           IN  b \in State /\ Uniform(b)
<1> DEFINE e == [ts |-> t, val |-> v, exp |-> t + Lifetime]
<1>1. e \in Entry
  BY LifetimeType DEF Entry
<1>2. Single(k, e) = [j \in Key |-> IF j = k THEN e ELSE NoEntry]
  BY DEF Single, EmptyState
<1> HIDE DEF e
<1>3. Single(k, e) \in State
  BY <1>1, <1>2 DEF State
<1>4. Uniform(Single(k, e))
  BY <1>2 DEF Uniform, e
<1> QED BY <1>3, <1>4 DEF e

\* merge does not depend on the order in which two messages arrive, as long as
\* no two different entries of a key carry the same timestamp: gossip may
\* reorder them.
THEOREM MergeCommutes ==
    ASSUME NEW s \in State, NEW b \in State, NEW c \in State, NEW now \in Nat,
           \A k \in Key : b[k] # NoEntry /\ c[k] # NoEntry /\ b[k].ts = c[k].ts
                            => b[k] = c[k]
    PROVE  mergeAll(mergeAll(s, b, now), c, now) = mergeAll(mergeAll(s, c, now), b, now)
<1>1. ASSUME NEW k \in Key
      PROVE mergeAll(mergeAll(s, b, now), c, now)[k]
              = mergeAll(mergeAll(s, c, now), b, now)[k]
  <2>1. /\ s[k] \in Entry \cup {NoEntry}
        /\ b[k] \in Entry \cup {NoEntry}
        /\ c[k] \in Entry \cup {NoEntry}
    BY DEF State
  <2> QED BY <2>1 DEF mergeAll, Accepts, Entry
<1> QED BY <1>1 DEF mergeAll

\* A message that arrives a second time changes nothing.
THEOREM MergeIdempotent ==
    ASSUME NEW s \in State, NEW b \in State, NEW now \in Nat
    PROVE  mergeAll(mergeAll(s, b, now), b, now) = mergeAll(s, b, now)
<1>1. ASSUME NEW k \in Key
      PROVE mergeAll(mergeAll(s, b, now), b, now)[k] = mergeAll(s, b, now)[k]
  <2>1. s[k] \in Entry \cup {NoEntry} /\ b[k] \in Entry \cup {NoEntry}
    BY DEF State
  <2> QED BY <2>1 DEF mergeAll, Accepts, Entry
<1> QED BY <1>1 DEF mergeAll

-----------------------------------------------------------------------------
(* The inductive invariant *)

LEMMA InitInv == Init => IInv
<1> SUFFICES ASSUME Init PROVE IInv
  OBVIOUS
<1>1. TypeOK
  BY EmptyType DEF Init, TypeOK
<1>2. \A p \in Peer : /\ Uniform(st[p]) /\ Uniform(tmp[p]) /\ Uniform(file[p])
                      /\ \A k \in Key : st[p][k] = NoEntry /\ high[p][k] = -1
  BY ZenonT(60), EmptyType DEF Init, EmptyState
<1> QED BY <1>1, <1>2 DEF IInv, Init, NoOldEntryReturns, CollectedAreExpired

\* Merging one well-formed message keeps, key by key, what IInv says of the
\* map and of the newest timestamp: an accepted entry is unexpired, hence not
\* older than what was collected.
LEMMA MergeKeepsNewest ==
    ASSUME NEW s \in State, NEW b \in State, NEW now \in Nat, NEW h \in [Key -> Int],
           Uniform(s), Uniform(b),
           \A k \in Key : s[k] # NoEntry => s[k].ts = h[k],
           \A k \in Key : s[k] = NoEntry /\ h[k] >= 0 => h[k] + Lifetime <= now
    PROVE  LET t == mergeAll(s, b, now)
               g == Newest(h, t)
           IN  /\ \A k \in Key : t[k] # NoEntry => t[k].ts = g[k]
               /\ \A k \in Key : t[k] = NoEntry /\ g[k] >= 0 => g[k] + Lifetime <= now
<1> DEFINE t == mergeAll(s, b, now)
           g == Newest(h, t)
<1> SUFFICES ASSUME NEW k \in Key
             PROVE  /\ t[k] # NoEntry => t[k].ts = g[k]
                    /\ t[k] = NoEntry /\ g[k] >= 0 => g[k] + Lifetime <= now
  OBVIOUS
<1>1. /\ s[k] \in Entry \cup {NoEntry} /\ b[k] \in Entry \cup {NoEntry}
      /\ h[k] \in Int /\ Lifetime \in Nat
  BY LifetimeType DEF State
<1>2. t[k] = IF Accepts(s[k], b[k], now) THEN b[k] ELSE s[k]
  BY DEF mergeAll
<1>3. g[k] = IF t[k] # NoEntry /\ t[k].ts > h[k] THEN t[k].ts ELSE h[k]
  BY DEF Newest
<1> HIDE DEF t, g
<1>4. CASE Accepts(s[k], b[k], now)
  <2>1. b[k] # NoEntry /\ b[k].exp >= now /\ b[k].exp = b[k].ts + Lifetime
    BY <1>1, <1>4 DEF Accepts, Entry, Uniform
  <2>2. b[k].ts >= h[k]
    BY <1>1, <1>4, <2>1 DEF Accepts, Entry
  <2> QED BY <1>1, <1>2, <1>3, <1>4, <2>1, <2>2 DEF Entry
<1>5. CASE ~Accepts(s[k], b[k], now)
  BY <1>1, <1>2, <1>3, <1>5 DEF Entry
<1> QED BY <1>4, <1>5

\* Merging a message preserves the invariant, whether it was gossiped, pulled
\* from a peer or made by a Log call.
LEMMA MergeInv ==
    ASSUME IInv, NEW p \in Peer, up[p], NEW b \in State, Uniform(b),
           st' = [st EXCEPT ![p] = mergeAll(@, b, clock[p])],
           high' = [high EXCEPT ![p] = Newest(@, st'[p])],
           net' \subseteq net \cup {b},
           pend' \in [Peer -> [Key -> Pending \cup {NoEntry}]],
           UNCHANGED <<clock, up, mt, tmp, file, logs, crashes>>
    PROVE  IInv'
<1> DEFINE t == mergeAll(st[p], b, clock[p])
<1>0. TypeOK BY DEF IInv
<1>1. st[p] \in State /\ clock[p] \in Nat /\ high[p] \in [Key -> Int]
  BY <1>0 DEF TypeOK
<1>2. t \in State /\ Uniform(t)
  BY <1>1, MergeType DEF IInv
<1>3. st' = [st EXCEPT ![p] = t]
  OBVIOUS
<1>4. st'[p] = t
  BY <1>0, <1>3 DEF TypeOK
<1>5. high' = [high EXCEPT ![p] = Newest(high[p], t)]
  BY ZenonT(60), <1>4
<1>6. net' \subseteq net \cup {b}
  OBVIOUS
<1> HIDE DEF t
<1>7. TypeOK'
  <2>1. Newest(high[p], t) \in [Key -> Int]
    BY <1>1, <1>2, NewestType
  <2>2. st' \in [Peer -> State] /\ high' \in [Peer -> [Key -> Int]]
    BY <1>0, <1>2, <1>3, <1>5, <2>1 DEF TypeOK
  <2>3. net' \subseteq State
    BY <1>0, <1>6 DEF TypeOK
  <2> QED BY <1>0, <2>2, <2>3 DEF TypeOK
<1>8. \A q \in Peer : Uniform(st'[q])
  BY <1>0, <1>2, <1>3 DEF TypeOK, IInv
<1>9. \A m \in net' : Uniform(m)
  BY <1>6 DEF IInv
<1>10. ASSUME NEW q \in Peer, NEW k \in Key
       PROVE /\ st'[q][k] # NoEntry => st'[q][k].ts = high'[q][k]
             /\ st'[q][k] = NoEntry /\ high'[q][k] >= 0 => high'[q][k] + Lifetime <= clock'[q]
  <2>1. CASE q = p
    <3>1. /\ \A j \in Key : st[p][j] # NoEntry => st[p][j].ts = high[p][j]
          /\ \A j \in Key : st[p][j] = NoEntry /\ high[p][j] >= 0
                              => high[p][j] + Lifetime <= clock[p]
      BY DEF IInv, NoOldEntryReturns, CollectedAreExpired
    <3>2. Uniform(st[p])
      BY DEF IInv
    <3>3. LET g == Newest(high[p], t)
          IN  /\ \A j \in Key : t[j] # NoEntry => t[j].ts = g[j]
              /\ \A j \in Key : t[j] = NoEntry /\ g[j] >= 0 => g[j] + Lifetime <= clock[p]
      BY SMTT(60), <1>1, <3>1, <3>2, MergeKeepsNewest DEF t
    <3>4. high'[p] = Newest(high[p], t)
      BY <1>0, <1>5 DEF TypeOK
    <3> QED BY <1>4, <2>1, <3>3, <3>4
  <2>2. CASE q # p
    BY <1>0, <1>3, <1>5, <2>2 DEF TypeOK, IInv, NoOldEntryReturns, CollectedAreExpired
  <2> QED BY <2>1, <2>2
<1>11. \A q \in Peer : ~up'[q] => \A k \in Key : high'[q][k] = -1
  BY <1>0, <1>5 DEF IInv, TypeOK
<1> QED BY <1>7, <1>8, <1>9, <1>10, <1>11 DEF IInv, NoOldEntryReturns, CollectedAreExpired

LEMMA NextInv == IInv /\ [Next]_vars => IInv'
<1> SUFFICES ASSUME IInv, [Next]_vars PROVE IInv'
  OBVIOUS
<1>0. TypeOK BY DEF IInv
<1>1. ASSUME NEW p \in Peer, Tick(p) PROVE IInv'
  <2>1. clock' \in [Peer -> Nat] /\ \A q \in Peer : clock[q] <= clock'[q] /\ clock[q] \in Nat
    BY <1>0, <1>1 DEF Tick, TypeOK
  <2>2. TypeOK'
    BY <1>0, <1>1, <2>1 DEF Tick, TypeOK
  <2>3. CollectedAreExpired'
    <3> SUFFICES ASSUME NEW q \in Peer, NEW k \in Key, st[q][k] = NoEntry, high[q][k] >= 0
                 PROVE  high[q][k] + Lifetime <= clock'[q]
      BY <1>1 DEF Tick, CollectedAreExpired
    <3>1. high[q][k] + Lifetime <= clock[q] /\ high[q][k] \in Int
      BY <1>0 DEF IInv, CollectedAreExpired, TypeOK
    <3> QED BY <2>1, <3>1, LifetimeType
  <2> QED BY <1>1, <2>2, <2>3 DEF Tick, IInv, NoOldEntryReturns, Uniform
<1>2. ASSUME NEW p \in Peer, NEW now \in 0 .. MaxTime, GC(p, now) PROVE IInv'
  <2> DEFINE t == [k \in Key |-> IF st[p][k] # NoEntry /\ ~(st[p][k].exp > now)
                                 THEN NoEntry ELSE st[p][k]]
  <2>1. st' = [st EXCEPT ![p] = t]
    BY <1>2 DEF GC
  <2>2. t \in State /\ Uniform(t)
    BY <1>0 DEF TypeOK, State, IInv, Uniform
  <2>3. TypeOK'
    BY <1>0, <1>2, <2>1, <2>2 DEF GC, TypeOK
  <2>4. \A q \in Peer : Uniform(st'[q])
    BY <1>0, <2>1, <2>2 DEF TypeOK, IInv
  <2>5. ASSUME NEW q \in Peer, NEW k \in Key
        PROVE /\ st'[q][k] # NoEntry => st'[q][k].ts = high[q][k]
              /\ st'[q][k] = NoEntry /\ high[q][k] >= 0 => high[q][k] + Lifetime <= clock[q]
    <3>1. /\ st[q][k] # NoEntry => st[q][k].ts = high[q][k] /\ st[q][k].exp = st[q][k].ts + Lifetime
          /\ st[q][k] = NoEntry /\ high[q][k] >= 0 => high[q][k] + Lifetime <= clock[q]
          /\ st[q][k] \in Entry \cup {NoEntry} /\ clock[q] \in Nat
      BY <1>0 DEF IInv, NoOldEntryReturns, CollectedAreExpired, Uniform, TypeOK, State
    <3>2. CASE q = p
      <4>1. st'[q][k] = IF st[q][k] # NoEntry /\ ~(st[q][k].exp > now)
                        THEN NoEntry ELSE st[q][k]
        BY <1>0, <2>1, <3>2 DEF TypeOK
      <4>2. now <= clock[q] /\ now \in Int
        BY <1>2, <3>2 DEF GC
      <4> QED BY <3>1, <4>1, <4>2 DEF Entry
    <3>3. CASE q # p
      BY <1>0, <2>1, <3>1, <3>3 DEF TypeOK
    <3> QED BY <3>2, <3>3
  <2> QED BY <1>2, <2>3, <2>4, <2>5 DEF GC, IInv, NoOldEntryReturns, CollectedAreExpired, Uniform
<1>3. ASSUME NEW p \in Peer, OpenFails(p) PROVE IInv'
  <2>1. TypeOK'
    BY <1>0, <1>3 DEF OpenFails, TypeOK
  <2> QED BY <1>3, <2>1 DEF OpenFails, IInv, NoOldEntryReturns, CollectedAreExpired, Uniform
<1>4. ASSUME NEW p \in Peer, Snapshot(p) PROVE IInv'
  <2>1. PICK content \in {st[p], Torn} : tmp' = [tmp EXCEPT ![p] = content]
    BY ZenonT(60), <1>4 DEF Snapshot
  <2>2. TypeOK'
    BY <1>0, <1>4, <2>1 DEF Snapshot, TypeOK
  <2>3. \A q \in Peer : tmp'[q] # Torn => Uniform(tmp'[q])
    BY <1>0, <2>1 DEF TypeOK, IInv
  <2> QED BY <1>4, <2>2, <2>3 DEF Snapshot, IInv, NoOldEntryReturns, CollectedAreExpired, Uniform
<1>5. ASSUME NEW p \in Peer, NEW ok \in BOOLEAN, Close(p, ok) PROVE IInv'
  <2>1. TypeOK'
    BY <1>0, <1>5, EmptyType DEF Close, TypeOK
  <2>2. \A q \in Peer : /\ tmp'[q] # Torn => Uniform(tmp'[q])
                        /\ file'[q] # Torn => Uniform(file'[q])
    BY <1>0, <1>5, EmptyType DEF Close, TypeOK, IInv
  <2> QED BY <1>5, <2>1, <2>2 DEF Close, IInv, NoOldEntryReturns, CollectedAreExpired, Uniform
<1>6. ASSUME NEW p \in Peer, Crash(p) PROVE IInv'
  <2>1. TypeOK'
    BY <1>0, <1>6, EmptyType DEF Crash, TypeOK
  <2>2. \A q \in Peer : /\ Uniform(st'[q])
                        /\ tmp'[q] # Torn => Uniform(tmp'[q])
    BY <1>0, <1>6, EmptyType DEF Crash, TypeOK, IInv
  <2>3. \A q \in Peer : ~up'[q] => \A k \in Key : high'[q][k] = -1
    BY <1>0, <1>6 DEF Crash, TypeOK, IInv
  <2>4. ASSUME NEW q \in Peer, NEW k \in Key
        PROVE /\ st'[q][k] # NoEntry => st'[q][k].ts = high'[q][k]
              /\ st'[q][k] = NoEntry /\ high'[q][k] >= 0 => high'[q][k] + Lifetime <= clock'[q]
    BY <1>0, <1>6 DEF Crash, TypeOK, IInv, NoOldEntryReturns, CollectedAreExpired, EmptyState
  <2> QED BY <1>6, <2>1, <2>2, <2>3, <2>4
          DEF Crash, IInv, NoOldEntryReturns, CollectedAreExpired, Uniform
<1>7. ASSUME NEW p \in Peer, Start(p) PROVE IInv'
  <2>1. file[p] \in State /\ Uniform(file[p]) /\ high[p] \in [Key -> Int]
    BY <1>0, <1>7 DEF Start, TypeOK, IInv
  <2>2. TypeOK'
    BY <1>0, <1>7, <2>1, NewestType DEF Start, TypeOK
  <2>3. \A q \in Peer : Uniform(st'[q])
    BY <1>0, <1>7, <2>1 DEF Start, TypeOK, IInv
  <2>4. ASSUME NEW q \in Peer, NEW k \in Key
        PROVE /\ st'[q][k] # NoEntry => st'[q][k].ts = high'[q][k]
              /\ st'[q][k] = NoEntry /\ high'[q][k] >= 0 => high'[q][k] + Lifetime <= clock'[q]
    <3>1. CASE q = p
      <4>1. st'[q][k] = file[p][k] /\ high[p][k] = -1
            /\ high'[q][k] = IF file[p][k] # NoEntry /\ file[p][k].ts > high[p][k]
                             THEN file[p][k].ts ELSE high[p][k]
        BY <1>0, <1>7, <2>1, <3>1 DEF Start, TypeOK, IInv, Newest
      <4>2. file[p][k] \in Entry \cup {NoEntry}
        BY <2>1 DEF State
      <4> QED BY <4>1, <4>2 DEF Entry
    <3>2. CASE q # p
      BY <1>0, <1>7, <3>2 DEF Start, TypeOK, IInv, NoOldEntryReturns, CollectedAreExpired
    <3> QED BY <3>1, <3>2
  <2>5. \A q \in Peer : ~up'[q] => \A k \in Key : high'[q][k] = -1
    BY <1>0, <1>7 DEF Start, TypeOK, IInv
  <2> QED BY <1>7, <2>2, <2>3, <2>4, <2>5
          DEF Start, IInv, NoOldEntryReturns, CollectedAreExpired, Uniform
<1>8. ASSUME NEW p \in Peer, NEW k \in Key, LogCommit(p, k) PROVE IInv'
  <2> DEFINE now == pend[p][k].ts
             b == Single(k, [ts |-> now, val |-> pend[p][k].val, exp |-> now + Lifetime])
  <2>1. pend[p][k] \in Pending
    BY <1>0, <1>8 DEF LogCommit, TypeOK
  <2>2. pend' \in [Peer -> [Key -> Pending \cup {NoEntry}]]
    BY <1>0, <1>8 DEF LogCommit, TypeOK
  <2>3. b \in State /\ Uniform(b)
    BY <2>1, SingleType DEF Pending
  <2>4. CASE UNCHANGED <<st, net, high>>
    <3>1. TypeOK'
      BY <1>0, <1>8, <2>2, <2>4 DEF LogCommit, TypeOK
    <3> QED BY <1>8, <2>4, <3>1
            DEF LogCommit, IInv, NoOldEntryReturns, CollectedAreExpired, Uniform
  <2>5. CASE /\ st' = [st EXCEPT ![p] = mergeAll(@, b, clock[p])]
             /\ high' = [high EXCEPT ![p] = Newest(@, st'[p])]
             /\ net' = net \cup {b}
    <3> HIDE DEF b
    <3> QED BY ZenonT(60), <1>8, <2>2, <2>3, <2>5, MergeInv DEF LogCommit
  <2> QED BY <1>8, <2>4, <2>5 DEF LogCommit
<1>9. ASSUME NEW p \in Peer, NEW k \in Key, NEW v \in Value, LogRead(p, k, v) PROVE IInv'
  <2>1. [ts |-> clock[p], val |-> v] \in Pending
    BY <1>0 DEF TypeOK, Pending
  <2>2. TypeOK'
    BY <1>0, <1>9, <2>1 DEF LogRead, TypeOK
  <2> QED BY <1>9, <2>2 DEF LogRead, IInv, NoOldEntryReturns, CollectedAreExpired, Uniform
<1>10. ASSUME NEW p \in Peer, NEW b \in net, NEW oversized \in BOOLEAN, Deliver(p, b, oversized)
       PROVE IInv'
  <2>1. b \in State /\ Uniform(b)
    BY <1>0 DEF TypeOK, IInv
  <2>2. pend' \in [Peer -> [Key -> Pending \cup {NoEntry}]]
    BY <1>0, <1>10 DEF Deliver, TypeOK
  <2>3. net' \subseteq net \cup {b}
    BY <1>10 DEF Deliver, MergeMsg
  <2> QED BY ZenonT(60), <1>10, <2>1, <2>2, <2>3, MergeInv DEF Deliver, MergeMsg
<1>11. ASSUME NEW p \in Peer, NEW q \in Peer, NEW oversized \in BOOLEAN, PushPull(p, q, oversized)
       PROVE IInv'
  <2>1. st[q] \in State /\ Uniform(st[q])
    BY <1>0 DEF TypeOK, IInv
  <2>2. pend' \in [Peer -> [Key -> Pending \cup {NoEntry}]]
    BY <1>0, <1>11 DEF PushPull, TypeOK
  <2>3. net' \subseteq net \cup {st[q]}
    BY <1>11 DEF PushPull, MergeMsg
  <2> QED BY ZenonT(60), <1>11, <2>1, <2>2, <2>3, MergeInv DEF PushPull, MergeMsg
<1>12. ASSUME NEW b \in net, Drop(b) PROVE IInv'
  <2>1. TypeOK'
    BY <1>0, <1>12 DEF Drop, TypeOK
  <2> QED BY <1>12, <2>1 DEF Drop, IInv, NoOldEntryReturns, CollectedAreExpired, Uniform
<1>13. CASE UNCHANGED vars
  <2>1. TypeOK'
    BY <1>0, <1>13 DEF vars, TypeOK
  <2> QED BY <1>13, <2>1 DEF vars, IInv, NoOldEntryReturns, CollectedAreExpired, Uniform
<1> QED BY <1>1, <1>2, <1>3, <1>4, <1>5, <1>6, <1>7, <1>8, <1>9, <1>10, <1>11, <1>12, <1>13
        DEF Next

\* The type invariant holds in every reachable state.
THEOREM TypeCorrect == Spec => []TypeOK
<1>1. IInv => TypeOK
  BY DEF IInv
<1> QED BY <1>1, InitInv, NextInv, PTL DEF Spec

\* An older notification never comes back on a running peer (the run nflog
\* checks it for two peers): gossip, push/pull, Log calls that waited for the
\* lock, garbage collection and restarts included, for any clock drift.
THEOREM NoOldEntryReturnsThm == Spec => []NoOldEntryReturns
<1>1. IInv => NoOldEntryReturns
  BY DEF IInv
<1> QED BY <1>1, InitInv, NextInv, PTL DEF Spec

-----------------------------------------------------------------------------
(* Action properties *)

\* What a merge does to one key: nothing, or it installs a newer entry.
LEMMA MergeReplaces ==
    ASSUME NEW s \in State, NEW b \in State, NEW now \in Nat, NEW k \in Key,
           s[k] # NoEntry, mergeAll(s, b, now)[k] # s[k]
    PROVE  mergeAll(s, b, now)[k].ts > s[k].ts
<1>1. s[k] \in Entry /\ b[k] \in Entry \cup {NoEntry}
  BY DEF State
<1> QED BY <1>1 DEF mergeAll, Accepts, Entry

\* A running peer replaces an entry only by a strictly newer one (the run
\* nflog checks it for two peers).
THEOREM ReplacedOnlyByNewerThm == Spec => ReplacedOnlyByNewer
<1> DEFINE A == \A p \in Peer, k \in Key :
                   (up[p] /\ up'[p] /\ st[p][k] # NoEntry /\ st'[p][k] \notin {NoEntry, st[p][k]})
                       => st'[p][k].ts > st[p][k].ts
<1>1. IInv /\ [Next]_vars => [A]_vars
  <2> SUFFICES ASSUME IInv, [Next]_vars, NEW p \in Peer, NEW k \in Key,
                      up[p], up'[p], st[p][k] # NoEntry, st'[p][k] \notin {NoEntry, st[p][k]}
               PROVE  st'[p][k].ts > st[p][k].ts
    OBVIOUS
  <2>0. TypeOK BY DEF IInv
  <2>1. st[p] \in State /\ clock[p] \in Nat
    BY <2>0 DEF TypeOK
  <2>2. ASSUME NEW b \in State, NEW q \in Peer, st' = [st EXCEPT ![q] = mergeAll(@, b, clock[q])]
        PROVE  st'[p][k].ts > st[p][k].ts
    <3>1. p = q /\ st'[p] = mergeAll(st[p], b, clock[p])
      BY <2>0, <2>2 DEF TypeOK
    <3> QED BY <2>1, <3>1, MergeReplaces
  <2>3. ASSUME NEW q \in Peer, NEW j \in Key, LogCommit(q, j) PROVE st'[p][k].ts > st[p][k].ts
    <3> DEFINE b == Single(j, [ts |-> pend[q][j].ts, val |-> pend[q][j].val,
                               exp |-> pend[q][j].ts + Lifetime])
    <3>1. pend[q][j] \in Pending
      BY <2>0, <2>3 DEF LogCommit, TypeOK
    <3>2. b \in State
      BY ZenonT(60), <3>1, SingleType DEF Pending
    <3>3. st' = st \/ st' = [st EXCEPT ![q] = mergeAll(@, b, clock[q])]
      BY <2>3 DEF LogCommit
    <3> HIDE DEF b
    <3> QED BY <2>2, <3>2, <3>3
  <2>4. ASSUME NEW q \in Peer, NEW b \in net, NEW oversized \in BOOLEAN, Deliver(q, b, oversized)
        PROVE  st'[p][k].ts > st[p][k].ts
    BY ZenonT(60), <2>0, <2>2, <2>4 DEF Deliver, MergeMsg, TypeOK
  <2>5. ASSUME NEW q \in Peer, NEW r \in Peer, NEW oversized \in BOOLEAN, PushPull(q, r, oversized)
        PROVE  st'[p][k].ts > st[p][k].ts
    BY ZenonT(60), <2>0, <2>2, <2>5 DEF PushPull, MergeMsg, TypeOK
  <2>6. ASSUME NEW q \in Peer, NEW now \in 0 .. MaxTime, GC(q, now) PROVE FALSE
    BY <2>0, <2>1, <2>6 DEF GC, TypeOK, State
  <2>7. ASSUME NEW q \in Peer, Crash(q) \/ Start(q) PROVE FALSE
    BY ZenonT(60), <2>0, <2>7 DEF Crash, Start, TypeOK, EmptyState
  <2>8. ASSUME NEW q \in Peer, Tick(q) \/ OpenFails(q) \/ Snapshot(q) PROVE FALSE
    BY <2>8 DEF Tick, OpenFails, Snapshot
  <2>12. ASSUME NEW q \in Peer, NEW ok \in BOOLEAN, Close(q, ok) PROVE FALSE
    BY <2>12 DEF Close
  <2>9. ASSUME NEW q \in Peer, NEW j \in Key, NEW v \in Value, LogRead(q, j, v) PROVE FALSE
    BY <2>9 DEF LogRead
  <2>10. ASSUME NEW b \in net, Drop(b) PROVE FALSE
    BY <2>10 DEF Drop
  <2>11. CASE UNCHANGED vars
    BY <2>11 DEF vars
  <2> QED BY ZenonT(60), <2>3, <2>4, <2>5, <2>6, <2>7, <2>8, <2>9, <2>10, <2>11, <2>12 DEF Next
<1> QED BY <1>1, InitInv, NextInv, PTL DEF Spec, ReplacedOnlyByNewer

\* When Log returns, the log shows a notification at least as recent as the
\* one just sent, or that one has expired (the run nflog checks it for two
\* peers).
THEOREM LoggedIsVisibleThm == Spec => LoggedIsVisible
<1> DEFINE A == \A p \in Peer, k \in Key :
                  (pend[p][k] # NoEntry /\ pend'[p][k] = NoEntry /\ up'[p])
                    => \/ st'[p][k] # NoEntry /\ st'[p][k].ts >= pend[p][k].ts
                       \/ pend[p][k].ts + Lifetime < clock[p]
<1>1. IInv /\ [Next]_vars => [A]_vars
  <2> SUFFICES ASSUME IInv, [Next]_vars, NEW p \in Peer, NEW k \in Key,
                      pend[p][k] # NoEntry, pend'[p][k] = NoEntry, up'[p]
               PROVE  \/ st'[p][k] # NoEntry /\ st'[p][k].ts >= pend[p][k].ts
                      \/ pend[p][k].ts + Lifetime < clock[p]
    OBVIOUS
  <2>0. TypeOK BY DEF IInv
  <2>1. /\ st[p] \in State /\ st[p][k] \in Entry \cup {NoEntry} /\ clock[p] \in Nat
        /\ pend[p][k] \in Pending /\ Lifetime \in Nat
    BY <2>0, LifetimeType DEF TypeOK, State
  <2>2. CASE LogCommit(p, k)
    <3> DEFINE e == [ts |-> pend[p][k].ts, val |-> pend[p][k].val,
                     exp |-> pend[p][k].ts + Lifetime]
               b == Single(k, e)
    <3>1. e \in Entry /\ pend[p][k].ts \in Nat
      BY <2>1 DEF Entry, Pending
    <3>2. b[k] = e
      BY DEF Single, EmptyState
    <3>3. CASE st[p][k] # NoEntry /\ st[p][k].ts > pend[p][k].ts
      BY <2>1, <2>2, <3>1, <3>3 DEF LogCommit, Entry
    <3>4. CASE ~(st[p][k] # NoEntry /\ st[p][k].ts > pend[p][k].ts)
      <4>1. st' = [st EXCEPT ![p] = mergeAll(@, b, clock[p])]
        BY <2>2, <3>4 DEF LogCommit
      <4>2. st'[p][k] = IF Accepts(st[p][k], e, clock[p]) THEN e ELSE st[p][k]
        BY <2>0, <3>2, <4>1 DEF TypeOK, mergeAll
      <4>3. e # NoEntry /\ e.ts = pend[p][k].ts /\ e.exp = pend[p][k].ts + Lifetime
        BY ZenonT(60), <3>1, NFLogAssumption
      <4> HIDE DEF e
      <4> QED BY <2>1, <3>1, <3>4, <4>2, <4>3 DEF Accepts, Entry
    <3> QED BY <3>3, <3>4
  <2>3. ASSUME NEW q \in Peer, NEW j \in Key, LogCommit(q, j) PROVE p = q /\ k = j
    BY <2>0, <2>3 DEF LogCommit, TypeOK
  <2>4. ASSUME NEW q \in Peer, Crash(q) PROVE FALSE
    BY <2>0, <2>4 DEF Crash, TypeOK
  <2>5. ASSUME NEW q \in Peer, NEW j \in Key, NEW v \in Value, LogRead(q, j, v) PROVE FALSE
    BY <2>0, <2>5 DEF LogRead, TypeOK
  <2>6. ASSUME NEW q \in Peer, Start(q) \/ Tick(q) \/ OpenFails(q) \/ Snapshot(q)
        PROVE FALSE
    BY <2>6 DEF Start, Tick, OpenFails, Snapshot
  <2>11. ASSUME NEW q \in Peer, NEW now \in 0 .. MaxTime, GC(q, now) PROVE FALSE
    BY <2>11 DEF GC
  <2>12. ASSUME NEW q \in Peer, NEW ok \in BOOLEAN, Close(q, ok) PROVE FALSE
    BY <2>12 DEF Close
  <2>7. ASSUME NEW q \in Peer, NEW b \in net, NEW oversized \in BOOLEAN, Deliver(q, b, oversized)
        PROVE  FALSE
    BY <2>7 DEF Deliver
  <2>8. ASSUME NEW q \in Peer, NEW r \in Peer, NEW oversized \in BOOLEAN, PushPull(q, r, oversized)
        PROVE  FALSE
    BY <2>8 DEF PushPull
  <2>9. ASSUME NEW b \in net, Drop(b) PROVE FALSE
    BY <2>9 DEF Drop
  <2>10. CASE UNCHANGED vars
    BY <2>10 DEF vars
  <2> QED BY ZenonT(60), <2>2, <2>3, <2>4, <2>5, <2>6, <2>7, <2>8, <2>9, <2>10, <2>11, <2>12
         DEF Next
<1> QED BY <1>1, InitInv, NextInv, PTL DEF Spec, LoggedIsVisible
=============================================================================
