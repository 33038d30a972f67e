--------------------------- MODULE Pipeline_proofs ---------------------------
(***************************************************************************)
(* Theorems about Pipeline, for any sets of alerts and integrations; and     *)
(* about HAPipeline, for any number of peers and any times: type             *)
(* correctness, a notification in time while one peer works, and no          *)
(* duplicate when nothing fails and the timeouts exceed the delays.          *)
(***************************************************************************)
EXTENDS Pipeline, HAPipeline, FiniteSetTheorems, TLAPS

-----------------------------------------------------------------------------
(* The times of the constants *)

\* The time the peer p waits when it knows all the peers.
Turn(p) == (p - 1) * PeerTimeout

\* The longest wait and the longest flush are natural numbers too.
LEMMA Numbers ==
    ASSUME Setting
    PROVE  /\ N \in Nat /\ PeerTimeout \in Nat /\ GroupInterval \in Nat /\ Repeat \in Nat
           /\ MaxSkew \in Nat /\ MaxNotify \in Nat /\ MaxGossip \in Nat
           /\ MaxWait \in Nat /\ MaxFlush = MaxWait + MaxNotify /\ MaxFlush < GroupInterval
           /\ AgeCap = Repeat + MaxFlush + 1
<1>1. /\ N \in Nat \ {0} /\ PeerTimeout \in Nat /\ GroupInterval \in Nat /\ Repeat \in Nat
      /\ MaxSkew \in Nat /\ MaxNotify \in Nat /\ MaxGossip \in Nat /\ MaxFlush < GroupInterval
  BY Zenon DEF Setting
<1>2. MaxWait \in Nat
  <2>1. N - 1 \in Nat
    BY <1>1
  <2>2. QED  BY <1>1, <2>1 DEF MaxWait
<1>3. QED  BY Zenon, <1>1, <1>2 DEF MaxFlush, AgeCap

\* A product grows with its first factor.
LEMMA Grows ==
    ASSUME NEW a \in Nat, NEW b \in Nat, NEW c \in Nat, a <= b
    PROVE  a * c \in Nat /\ a * c <= b * c
<1>1. PICK d \in Nat : b = a + d
  <2>1. b - a \in Nat /\ b = a + (b - a)
    OBVIOUS
  <2>2. QED  BY Zenon, <2>1
<1>2. a * c \in Nat /\ d * c \in Nat
  OBVIOUS
<1>3. b * c = a * c + d * c
  BY <1>1
<1>4. QED  BY <1>2, <1>3

\* The turns are a peer timeout apart.
LEMMA Turns ==
    ASSUME Setting, NEW p \in Peer
    PROVE  /\ Turn(p) \in Nat /\ Turn(p) <= MaxWait
           /\ \A q \in Peer : p < q => Turn(p) + PeerTimeout <= Turn(q)
<1>1. N \in Nat /\ PeerTimeout \in Nat /\ p \in Nat \ {0} /\ p <= N
  BY Numbers DEF Peer
<1>2. p - 1 \in Nat /\ N - 1 \in Nat /\ p - 1 <= N - 1
  BY <1>1
<1>3. Turn(p) \in Nat /\ Turn(p) <= MaxWait
  BY Zenon, <1>1, <1>2, Grows DEF Turn, MaxWait
<1>4. ASSUME NEW q \in Peer, p < q
      PROVE  Turn(p) + PeerTimeout <= Turn(q)
  <2>1. q \in Nat /\ q - 1 \in Nat /\ p \in Nat /\ p <= q - 1
    BY <1>1, <1>4 DEF Peer
  <2>2. p * PeerTimeout <= (q - 1) * PeerTimeout
    BY Zenon, <1>1, <2>1, Grows
  <2>3. p * PeerTimeout = (p - 1) * PeerTimeout + PeerTimeout
    BY <1>1
  <2>4. QED  BY Zenon, <2>2, <2>3 DEF Turn
<1>5. QED  BY Zenon, <1>3, <1>4

\* Whatever members a peer knows, it waits no longer than its turn; it waits its
\* turn when it knows all of them (Peer.Position, clusterWait).
LEMMA WaitsAtMost ==
    ASSUME Setting, NEW p \in Peer, view[p] \subseteq Peer
    PROVE  /\ clusterWait(p) \in Nat /\ clusterWait(p) <= MaxWait
           /\ view[p] = Peer => clusterWait(p) = Turn(p)
<1> DEFINE Before == {q \in view[p] : q < p}
<1>1. N \in Nat /\ PeerTimeout \in Nat /\ p \in Nat \ {0} /\ p <= N
  BY Numbers DEF Peer
<1>2. IsFiniteSet(1 .. (p - 1)) /\ Cardinality(1 .. (p - 1)) = p - 1
  BY <1>1, FS_Interval
<1>3. Before \subseteq 1 .. (p - 1)
  BY <1>1 DEF Peer
<1>4. Cardinality(Before) \in Nat /\ Cardinality(Before) <= p - 1
  BY Zenon, <1>2, <1>3, FS_Subset, FS_CardinalityType
<1>5. view[p] = Peer => Before = 1 .. (p - 1)
  BY <1>1 DEF Peer
<1>6. Position(p) = Cardinality(Before)
  BY Zenon DEF Position
<1>7. clusterWait(p) \in Nat /\ clusterWait(p) <= MaxWait
  <2>1. N - 1 \in Nat /\ Cardinality(Before) <= N - 1
    BY <1>1, <1>4
  <2> HIDE DEF Before
  <2>2. QED  BY Zenon, <1>1, <1>4, <1>6, <2>1, Grows DEF clusterWait, MaxWait
<1>8. view[p] = Peer => clusterWait(p) = Turn(p)
  BY Zenon, <1>2, <1>5, <1>6 DEF clusterWait, Turn
<1>9. QED  BY Zenon, <1>7, <1>8

-----------------------------------------------------------------------------
(* The type invariant and the times of a flush *)

\* What a peer still has to wait, and how far its flush has come, fit its stage.
Stage(p) ==
    /\ hpc[p] = "idle" => rem[p] = 0 /\ since[p] = 0
    /\ hpc[p] = "idle" => next[p] <= GroupInterval \/ next[p] <= MaxSkew
    /\ hpc[p] # "idle" => up[p] /\ next[p] + since[p] = GroupInterval
    /\ hpc[p] = "wait" => since[p] + rem[p] <= MaxWait
    /\ hpc[p] = "dedup" => rem[p] = 0 /\ since[p] <= MaxWait
    /\ hpc[p] \in {"notify", "log"} => rem[p] <= MaxNotify /\ since[p] + rem[p] <= MaxFlush

\* An entry under way ages as its time to arrive runs out.
Fresh == \A m \in msgs : m.age + m.ttl <= MaxGossip /\ m.age <= AgeCap

Times == Fresh /\ \A p \in Peer : Stage(p)

\* The types of the values of one peer.
TypeOf(p) ==
    /\ up[p] \in BOOLEAN /\ view[p] \subseteq Peer
    /\ hpc[p] \in {"idle", "wait", "dedup", "notify", "log"}
    /\ next[p] \in Nat /\ rem[p] \in Nat /\ since[p] \in Nat
    /\ hlog[p] \in Int /\ -1 <= hlog[p] /\ hlog[p] <= AgeCap

\* The functions of the state are defined on the peers.
Domains ==
    /\ up = [p \in Peer |-> up[p]] /\ view = [p \in Peer |-> view[p]]
    /\ hpc = [p \in Peer |-> hpc[p]] /\ next = [p \in Peer |-> next[p]]
    /\ rem = [p \in Peer |-> rem[p]] /\ since = [p \in Peer |-> since[p]]
    /\ hlog = [p \in Peer |-> hlog[p]]

Entry == [to : Peer, age : 0 .. MaxGossip, ttl : 0 .. MaxGossip]

Typed ==
    /\ stable \in BOOLEAN /\ first \in BOOLEAN /\ quiet \in Nat
    /\ Domains /\ msgs \subseteq Entry
    /\ \A p \in Peer : TypeOf(p)

TimeInv == Typed /\ Times

LEMMA InitTime ==
    ASSUME Setting, HAInit
    PROVE  TimeInv
<1>1. next \in [Peer -> 0 .. MaxSkew] /\ MaxSkew \in Nat
  BY Numbers, Zenon DEF HAInit
<1>2. AgeCap \in Nat
  BY Numbers
<1>3. Domains
  BY Zenon, <1>1 DEF HAInit, Domains
<1>4. \A p \in Peer : TypeOf(p)
  BY <1>1, <1>2 DEF HAInit, TypeOf, None
<1>5. \A p \in Peer : Stage(p)
  BY <1>1 DEF HAInit, Stage
<1>6. Fresh /\ msgs \subseteq Entry
  BY Zenon DEF HAInit, Fresh
<1>7. QED  BY Zenon, <1>3, <1>4, <1>5, <1>6 DEF TimeInv, Typed, Times, HAInit

\* A step keeps the domains.
LEMMA StepDomains ==
    ASSUME Domains, HANext
    PROVE  Domains'
<1>1. CASE Tick
  BY <1>1, Zenon DEF Tick, Domains
<1>2. ASSUME NEW p \in Peer, HAFlush(p)  PROVE  Domains'
  BY Zenon, <1>2 DEF HAFlush, Domains
<1>3. ASSUME NEW p \in Peer, HAWaited(p)  PROVE  Domains'
  BY Zenon, <1>3 DEF HAWaited, Domains
<1>4. ASSUME NEW p \in Peer, HADedupStage(p)  PROVE  Domains'
  BY Zenon, <1>4 DEF HADedupStage, Return, Domains
<1>5. ASSUME NEW p \in Peer, Notify(p)  PROVE  Domains'
  BY Zenon, <1>5 DEF Notify, Domains
<1>6. ASSUME NEW p \in Peer, HANotifyFails(p)  PROVE  Domains'
  BY Zenon, <1>6 DEF HANotifyFails, Return, Domains
<1>7. ASSUME NEW p \in Peer, HASetNotifiesStage(p)  PROVE  Domains'
  BY Zenon, <1>7 DEF HASetNotifiesStage, Return, Domains
<1>8. ASSUME NEW p \in Peer, Crash(p)  PROVE  Domains'
  BY Zenon, <1>8 DEF Crash, Return, Domains
<1>9. ASSUME NEW p \in Peer, Restart(p)  PROVE  Domains'
  BY Zenon, <1>9 DEF Restart, Domains
<1>10. ASSUME NEW p \in Peer, NEW q \in Peer, Suspect(p, q)  PROVE  Domains'
  BY Zenon, <1>10 DEF Suspect, Domains
<1>11. ASSUME NEW p \in Peer, NEW q \in Peer, MergeRemoteState(p, q)  PROVE  Domains'
  BY Zenon, <1>11 DEF MergeRemoteState, Domains
<1>12. ASSUME NEW m \in msgs, Merge(m)  PROVE  Domains'
  BY Zenon, <1>12 DEF Merge, Domains
<1>13. ASSUME NEW m \in msgs, Lose(m)  PROVE  Domains'
  BY Zenon, <1>13 DEF Lose, Domains
<1>14. QED  BY <1>1, <1>2, <1>3, <1>4, <1>5, <1>6, <1>7, <1>8, <1>9, <1>10, <1>11, <1>12, <1>13, Zenon DEF HANext

-----------------------------------------------------------------------------
(* What a step does to the values of one peer *)

\* The values of a peer besides its log are unchanged, or all of them.
SameStage(p) ==
    /\ up'[p] = up[p] /\ view'[p] = view[p] /\ hpc'[p] = hpc[p]
    /\ next'[p] = next[p] /\ rem'[p] = rem[p] /\ since'[p] = since[p]
Same(p) == SameStage(p) /\ hlog'[p] = hlog[p]

\* The steps of one peer.
OfPeer(p) ==
    \/ HAFlush(p) \/ HAWaited(p) \/ HADedupStage(p) \/ Notify(p) \/ HANotifyFails(p)
    \/ HASetNotifiesStage(p) \/ Crash(p) \/ Restart(p)
    \/ \E q \in Peer : Suspect(p, q) \/ MergeRemoteState(p, q)

\* A step of a peer leaves the others alone.
LEMMA Others ==
    ASSUME Domains, NEW p \in Peer, OfPeer(p), NEW q \in Peer, q # p
    PROVE  Same(q)
<1>1. CASE HAFlush(p)
  BY Zenon, <1>1 DEF HAFlush, Domains, Same, SameStage
<1>2. CASE HAWaited(p)
  BY Zenon, <1>2 DEF HAWaited, Domains, Same, SameStage
<1>3. CASE HADedupStage(p)
  BY Zenon, <1>3 DEF HADedupStage, Return, Domains, Same, SameStage
<1>4. CASE Notify(p)
  BY Zenon, <1>4 DEF Notify, Domains, Same, SameStage
<1>5. CASE HANotifyFails(p)
  BY Zenon, <1>5 DEF HANotifyFails, Return, Domains, Same, SameStage
<1>6. CASE HASetNotifiesStage(p)
  BY Zenon, <1>6 DEF HASetNotifiesStage, Return, Domains, Same, SameStage
<1>7. CASE Crash(p)
  BY Zenon, <1>7 DEF Crash, Return, Domains, Same, SameStage
<1>8. CASE Restart(p)
  BY Zenon, <1>8 DEF Restart, Domains, Same, SameStage
<1>9. ASSUME NEW r \in Peer, Suspect(p, r) \/ MergeRemoteState(p, r)  PROVE  Same(q)
  BY Zenon, <1>9 DEF Suspect, MergeRemoteState, Domains, Same, SameStage
<1>10. QED  BY <1>1, <1>2, <1>3, <1>4, <1>5, <1>6, <1>7, <1>8, <1>9, Zenon DEF OfPeer

\* What the steps of a peer do to its own values.
LEMMA OwnFlush ==
    ASSUME Domains, NEW p \in Peer, HAFlush(p)
    PROVE  /\ up[p] /\ hpc[p] = "idle" /\ next[p] = 0
           /\ hpc'[p] = "wait" /\ next'[p] = GroupInterval /\ rem'[p] = clusterWait(p) /\ since'[p] = 0
           /\ up'[p] = up[p] /\ view'[p] = view[p] /\ hlog'[p] = hlog[p]
  BY Zenon DEF HAFlush, Domains

LEMMA OwnWaited ==
    ASSUME Domains, NEW p \in Peer, HAWaited(p)
    PROVE  /\ up[p] /\ hpc[p] = "wait" /\ rem[p] = 0 /\ hpc'[p] = "dedup"
           /\ next'[p] = next[p] /\ rem'[p] = rem[p] /\ since'[p] = since[p]
           /\ up'[p] = up[p] /\ view'[p] = view[p] /\ hlog'[p] = hlog[p]
  BY Zenon DEF HAWaited, Domains

LEMMA OwnDedup ==
    ASSUME Domains, NEW p \in Peer, HADedupStage(p)
    PROVE  /\ up[p] /\ hpc[p] = "dedup"
           /\ \/ /\ HAneedsUpdate(p) /\ hpc'[p] = "notify" /\ rem'[p] = MaxNotify /\ since'[p] = since[p]
              \/ /\ ~HAneedsUpdate(p) /\ hpc'[p] = "idle" /\ rem'[p] = 0 /\ since'[p] = 0
           /\ up'[p] = up[p] /\ view'[p] = view[p] /\ next'[p] = next[p] /\ hlog'[p] = hlog[p]
  BY Zenon DEF HADedupStage, Return, Domains

LEMMA OwnNotify ==
    ASSUME Domains, NEW p \in Peer, Notify(p)
    PROVE  /\ up[p] /\ hpc[p] = "notify" /\ hpc'[p] = "log"
           /\ next'[p] = next[p] /\ rem'[p] = rem[p] /\ since'[p] = since[p]
           /\ up'[p] = up[p] /\ view'[p] = view[p] /\ hlog'[p] = hlog[p]
  BY Zenon DEF Notify, Domains

LEMMA OwnFails ==
    ASSUME Domains, NEW p \in Peer, HANotifyFails(p)
    PROVE  /\ up[p] /\ hpc[p] = "notify" /\ MayFail(p)
           /\ hpc'[p] = "idle" /\ rem'[p] = 0 /\ since'[p] = 0
           /\ up'[p] = up[p] /\ view'[p] = view[p] /\ next'[p] = next[p] /\ hlog'[p] = hlog[p]
  BY Zenon DEF HANotifyFails, Return, Domains

LEMMA OwnLogs ==
    ASSUME Domains, NEW p \in Peer, HASetNotifiesStage(p)
    PROVE  /\ up[p] /\ hpc[p] = "log"
           /\ hpc'[p] = "idle" /\ rem'[p] = 0 /\ since'[p] = 0 /\ hlog'[p] = 0
           /\ up'[p] = up[p] /\ view'[p] = view[p] /\ next'[p] = next[p]
  BY Zenon DEF HASetNotifiesStage, Return, Domains

LEMMA OwnCrash ==
    ASSUME Domains, NEW p \in Peer, Crash(p)
    PROVE  /\ up[p] /\ MayFail(p) /\ ~up'[p] /\ up'[p] \in BOOLEAN
           /\ hpc'[p] = "idle" /\ rem'[p] = 0 /\ since'[p] = 0 /\ next'[p] = 0
           /\ view'[p] = view[p] /\ hlog'[p] \in {hlog[p], None}
  BY Zenon DEF Crash, Return, Domains

LEMMA OwnRestart ==
    ASSUME Domains, NEW p \in Peer, Restart(p)
    PROVE  /\ ~up[p] /\ up'[p] /\ up'[p] \in BOOLEAN /\ next'[p] = MaxSkew
           /\ hpc'[p] = hpc[p] /\ rem'[p] = rem[p] /\ since'[p] = since[p]
           /\ view'[p] = view[p] /\ hlog'[p] = hlog[p]
  BY Zenon DEF Restart, Domains

LEMMA OwnSuspect ==
    ASSUME Domains, NEW p \in Peer, NEW q \in Peer, Suspect(p, q)
    PROVE  /\ ~stable /\ view'[p] \subseteq view[p] \cup {q}
           /\ up'[p] = up[p] /\ hpc'[p] = hpc[p] /\ next'[p] = next[p] /\ rem'[p] = rem[p]
           /\ since'[p] = since[p] /\ hlog'[p] = hlog[p]
  BY Zenon DEF Suspect, Domains

LEMMA OwnRemote ==
    ASSUME Domains, NEW p \in Peer, NEW q \in Peer, MergeRemoteState(p, q)
    PROVE  SameStage(p) /\ hlog'[p] = hlog[q] /\ Newer(hlog[q], hlog[p])
  BY Zenon DEF MergeRemoteState, Domains, SameStage

\* A merged entry replaces an older one of the peer it was sent to.
LEMMA OwnMerge ==
    ASSUME Domains, NEW m \in msgs, Merge(m), m.to \in Peer, NEW q \in Peer
    PROVE  /\ SameStage(q)
           /\ \/ q = m.to /\ Newer(m.age, hlog[q]) /\ hlog'[q] = m.age
              \/ (q # m.to \/ ~up[q] \/ ~Newer(m.age, hlog[q])) /\ hlog'[q] = hlog[q]
  BY Zenon DEF Merge, Domains, SameStage

LEMMA OwnTick ==
    ASSUME Domains, Tick, NEW q \in Peer
    PROVE  /\ up'[q] = up[q] /\ view'[q] = view[q] /\ hpc'[q] = hpc[q] /\ ~Due(q)
           /\ next'[q] = Sooner(next[q]) /\ rem'[q] = Sooner(rem[q])
           /\ since'[q] = (IF hpc[q] = "idle" THEN 0 ELSE since[q] + 1)
           /\ hlog'[q] = Older(hlog[q])
  BY Zenon DEF Tick, Domains

\* Time ages the entries under way.
LEMMA TickMsgs ==
    ASSUME Tick
    PROVE  /\ \A m \in msgs : m.ttl > 0
           /\ msgs' = {[to |-> m.to, age |-> Older(m.age), ttl |-> m.ttl - 1] : m \in msgs}
           /\ quiet' = quiet + 1 /\ UNCHANGED <<stable, first>>
  BY Zenon DEF Tick

\* A step is one of time, of a peer, or of an entry under way.
LEMMA Steps ==
    ASSUME HANext
    PROVE  Tick \/ (\E p \in Peer : OfPeer(p)) \/ (\E m \in msgs : Merge(m) \/ Lose(m))
  BY Zenon DEF HANext, OfPeer

-----------------------------------------------------------------------------
(* Type correctness *)

LEMMA KeepsStage ==
    ASSUME NEW q \in Peer, Same(q), TypeOf(q), Stage(q)
    PROVE  TypeOf(q)' /\ Stage(q)'
  BY Zenon DEF Same, SameStage, TypeOf, Stage

\* A step of a peer moves it to its next stage in time.
LEMMA OwnTime ==
    ASSUME Setting, TimeInv, NEW p \in Peer, OfPeer(p)
    PROVE  TypeOf(p)' /\ Stage(p)'
<1>1. Domains /\ TypeOf(p) /\ Stage(p) /\ \A q \in Peer : TypeOf(q)
  BY Zenon DEF TimeInv, Typed, Times
<1>2. /\ GroupInterval \in Nat /\ MaxSkew \in Nat /\ MaxNotify \in Nat /\ MaxWait \in Nat
      /\ MaxFlush = MaxWait + MaxNotify /\ MaxFlush < GroupInterval /\ AgeCap \in Nat
  BY Numbers
<1>3. CASE HAFlush(p)
  <2>1. view[p] \subseteq Peer
    BY <1>1, Zenon DEF TypeOf
  <2>2. clusterWait(p) \in Nat /\ clusterWait(p) <= MaxWait
    BY Zenon, <2>1, WaitsAtMost
  <2>3. QED  BY <1>1, <1>2, <1>3, <2>2, OwnFlush DEF TypeOf, Stage
<1>4. CASE HAWaited(p)
  BY <1>1, <1>2, <1>4, OwnWaited DEF TypeOf, Stage
<1>5. CASE HADedupStage(p)
  BY <1>1, <1>2, <1>5, OwnDedup DEF TypeOf, Stage
<1>6. CASE Notify(p)
  BY Zenon, <1>1, <1>2, <1>6, OwnNotify DEF TypeOf, Stage
<1>7. CASE HANotifyFails(p)
  BY <1>1, <1>2, <1>7, OwnFails DEF TypeOf, Stage
<1>8. CASE HASetNotifiesStage(p)
  BY <1>1, <1>2, <1>8, OwnLogs DEF TypeOf, Stage
<1>9. CASE Crash(p)
  BY <1>1, <1>2, <1>9, OwnCrash DEF TypeOf, Stage, None
<1>10. CASE Restart(p)
  BY <1>1, <1>2, <1>10, OwnRestart DEF TypeOf, Stage
<1>11. ASSUME NEW q \in Peer, Suspect(p, q)  PROVE  TypeOf(p)' /\ Stage(p)'
  BY Zenon, <1>1, <1>11, OwnSuspect DEF TypeOf, Stage
<1>12. ASSUME NEW q \in Peer, MergeRemoteState(p, q)  PROVE  TypeOf(p)' /\ Stage(p)'
  BY Zenon, <1>1, <1>12, OwnRemote DEF TypeOf, Stage, SameStage
<1>13. QED
  BY <1>3, <1>4, <1>5, <1>6, <1>7, <1>8, <1>9, <1>10, <1>11, <1>12, Zenon DEF OfPeer

\* While time passes the stages run down: nothing is due.
LEMMA TickTime ==
    ASSUME Setting, TimeInv, Tick, NEW q \in Peer
    PROVE  TypeOf(q)' /\ Stage(q)'
<1>1. Domains /\ TypeOf(q) /\ Stage(q)
  BY Zenon DEF TimeInv, Typed, Times
<1>2. /\ GroupInterval \in Nat /\ MaxSkew \in Nat /\ MaxNotify \in Nat /\ MaxWait \in Nat
      /\ MaxFlush = MaxWait + MaxNotify /\ MaxFlush < GroupInterval /\ AgeCap \in Nat
  BY Numbers
<1>3. TypeOf(q)'
  BY <1>1, <1>2, OwnTick DEF TypeOf, Sooner, Older, None
<1>4. Stage(q)'
  <2>1. /\ next[q] \in Nat /\ rem[q] \in Nat /\ since[q] \in Nat
        /\ ~Due(q) /\ up'[q] = up[q] /\ hpc'[q] = hpc[q]
        /\ next'[q] = Sooner(next[q]) /\ rem'[q] = Sooner(rem[q])
    BY <1>1, OwnTick, Zenon DEF TypeOf
  <2>2. CASE hpc[q] = "idle"
    <3>1. rem[q] = 0 /\ since'[q] = 0 /\ (next[q] <= GroupInterval \/ next[q] <= MaxSkew)
      BY <1>1, <2>2, OwnTick, Zenon DEF Stage
    <3>2. rem'[q] = 0 /\ (next'[q] <= GroupInterval \/ next'[q] <= MaxSkew)
      BY <1>2, <2>1, <3>1 DEF Sooner
    <3>3. QED  BY <2>1, <2>2, <3>1, <3>2, Zenon DEF Stage
  <2>3. CASE hpc[q] # "idle"
    <3>1. /\ up[q] /\ next[q] + since[q] = GroupInterval /\ since'[q] = since[q] + 1
          /\ hpc[q] \in {"wait", "dedup", "notify", "log"}
      BY <1>1, <2>3, OwnTick, Zenon DEF Stage, TypeOf
    <3>2. hpc[q] # "dedup" /\ rem[q] # 0
      BY <2>1, <2>3, <3>1, Zenon DEF Due
    <3>3. CASE hpc[q] = "wait"
      <4>1. since[q] + rem[q] <= MaxWait
        BY <1>1, <3>3, Zenon DEF Stage
      <4>2. next'[q] + since'[q] = GroupInterval /\ since'[q] + rem'[q] <= MaxWait
        BY <1>2, <2>1, <3>1, <3>2, <4>1 DEF Sooner
      <4>3. QED  BY <2>1, <3>1, <3>3, <4>2, Zenon DEF Stage
    <3>4. CASE hpc[q] \in {"notify", "log"}
      <4>1. rem[q] <= MaxNotify /\ since[q] + rem[q] <= MaxFlush
        BY <1>1, <3>4, Zenon DEF Stage
      <4>2. /\ next'[q] + since'[q] = GroupInterval
            /\ rem'[q] <= MaxNotify /\ since'[q] + rem'[q] <= MaxFlush
        BY <1>2, <2>1, <3>1, <3>2, <4>1 DEF Sooner
      <4>3. QED  BY <2>1, <3>1, <3>4, <4>2, Zenon DEF Stage
    <3>5. QED  BY <3>1, <3>2, <3>3, <3>4, Zenon
  <2>4. QED  BY <2>2, <2>3, Zenon
<1>5. QED  BY Zenon, <1>3, <1>4

\* The entries under way stay typed and fresh.
LEMMA EntriesTime ==
    ASSUME Setting, TimeInv, HANext
    PROVE  msgs' \subseteq Entry /\ Fresh'
<1>1. msgs \subseteq Entry /\ Fresh
  BY Zenon DEF TimeInv, Typed, Times
<1>2. MaxGossip \in Nat /\ AgeCap \in Nat
  BY Numbers
<1>3. CASE Tick
  <2>1. SUFFICES ASSUME NEW m \in msgs, m.ttl > 0
                 PROVE  LET e == [to |-> m.to, age |-> Older(m.age), ttl |-> m.ttl - 1]
                        IN  e \in Entry /\ e.age + e.ttl <= MaxGossip /\ e.age <= AgeCap
    BY <1>3, TickMsgs, Zenon DEF Fresh
  <2>2. m.to \in Peer /\ m.age \in 0 .. MaxGossip /\ m.ttl \in 0 .. MaxGossip
    BY Zenon, <1>1 DEF Entry
  <2>3. m.age + m.ttl <= MaxGossip /\ m.age <= AgeCap
    BY <1>1, Zenon DEF Fresh
  <2>4. QED  BY <1>2, <2>1, <2>2, <2>3 DEF Older, None, Entry
<1>4. ASSUME NEW p \in Peer, HASetNotifiesStage(p)  PROVE  msgs' \subseteq Entry /\ Fresh'
  <2>1. msgs' = msgs \cup {[to |-> q, age |-> 0, ttl |-> MaxGossip] : q \in Peer \ {p}}
    BY <1>4, Zenon DEF HASetNotifiesStage
  <2>2. ASSUME NEW q \in Peer
        PROVE  LET e == [to |-> q, age |-> 0, ttl |-> MaxGossip]
               IN  e \in Entry /\ e.age + e.ttl <= MaxGossip /\ e.age <= AgeCap
    BY <1>2 DEF Entry
  <2>3. QED  BY <1>1, <2>1, <2>2, Zenon DEF Fresh
<1>5. CASE msgs' \subseteq msgs
  BY <1>1, <1>5, Zenon DEF Fresh
<1>6. ASSUME NEW p \in Peer, OfPeer(p)  PROVE  msgs' = msgs \/ HASetNotifiesStage(p)
  BY <1>6, Zenon DEF OfPeer, HAFlush, HAWaited, HADedupStage, Notify, HANotifyFails, Crash, Restart,
                     Suspect, MergeRemoteState
<1>7. ASSUME NEW m \in msgs, Merge(m) \/ Lose(m)  PROVE  msgs' \subseteq msgs
  BY <1>7, Zenon DEF Merge, Lose
<1>8. QED  BY <1>3, <1>4, <1>5, <1>6, <1>7, Steps, Zenon

LEMMA StepTime ==
    ASSUME Setting, TimeInv, HANext
    PROVE  TimeInv'
<1>1. Domains /\ \A q \in Peer : TypeOf(q) /\ Stage(q)
  BY Zenon DEF TimeInv, Typed, Times
<1>2. Domains'
  BY Zenon, <1>1, StepDomains
<1>3. msgs' \subseteq Entry /\ Fresh'
  BY Zenon, EntriesTime
<1>4. ASSUME NEW q \in Peer  PROVE  TypeOf(q)' /\ Stage(q)'
  <2>1. CASE Tick
    BY Zenon, <2>1, TickTime
  <2>2. ASSUME NEW p \in Peer, OfPeer(p)  PROVE  TypeOf(q)' /\ Stage(q)'
    <3>1. CASE q = p
      BY Zenon, <2>2, <3>1, OwnTime
    <3>2. CASE q # p
      BY <1>1, <2>2, <3>2, Others, KeepsStage, Zenon
    <3>3. QED  BY Zenon, <3>1, <3>2
  <2>3. ASSUME NEW m \in msgs, Merge(m)  PROVE  TypeOf(q)' /\ Stage(q)'
    <3>1. m \in Entry /\ m.age <= AgeCap
      BY Zenon DEF TimeInv, Typed, Times, Fresh
    <3>2. m.to \in Peer /\ m.age \in Nat
      BY <3>1 DEF Entry
    <3>3. SameStage(q) /\ hlog'[q] \in {hlog[q], m.age}
      BY <1>1, <2>3, <3>2, OwnMerge, Zenon
    <3>4. QED  BY <1>1, <3>1, <3>2, <3>3 DEF SameStage, TypeOf, Stage
  <2>4. ASSUME NEW m \in msgs, Lose(m)  PROVE  Same(q)
    BY <2>4, Zenon DEF Lose, Same, SameStage
  <2>5. QED  BY <1>1, <2>1, <2>2, <2>3, <2>4, KeepsStage, Steps, Zenon
<1>5. stable' \in BOOLEAN /\ first' \in BOOLEAN /\ quiet' \in Nat
  <2>1. stable \in BOOLEAN /\ first \in BOOLEAN /\ quiet \in Nat
    BY Zenon DEF TimeInv, Typed
  <2>2. quiet + 1 \in Nat
    BY <2>1
  <2>3. CASE Tick
    BY <2>1, <2>2, <2>3, TickMsgs, Zenon
  <2>4. ASSUME NEW p \in Peer, OfPeer(p)
        PROVE  stable' = stable /\ (first' = first \/ first' = FALSE) /\ (quiet' = quiet \/ quiet' = 0)
    BY <2>4, Zenon DEF OfPeer, HAFlush, HAWaited, HADedupStage, Notify, HANotifyFails, HASetNotifiesStage, Crash,
                       Restart, Suspect, MergeRemoteState
  <2>5. ASSUME NEW m \in msgs, Merge(m) \/ Lose(m)
        PROVE  stable' = stable /\ first' = first /\ quiet' = quiet
    BY <2>5, Zenon DEF Merge, Lose
  <2>6. 0 \in Nat
    OBVIOUS
  <2>7. QED  BY <2>1, <2>3, <2>4, <2>5, <2>6, Steps, Zenon
<1>6. QED  BY <1>2, <1>3, <1>4, <1>5, Zenon DEF TimeInv, Typed, Times

LEMMA SameTime ==
    ASSUME TimeInv, UNCHANGED haVars
    PROVE  TimeInv'
<1>1. UNCHANGED <<stable, up, view, hpc, next, rem, since, hlog, msgs, quiet, first>>
  BY Zenon DEF haVars
<1>2. QED
  BY <1>1, Zenon DEF TimeInv, Typed, Times, Domains, TypeOf, Stage, Fresh

\* The inductive invariant gives the type invariant.
LEMMA TimeTypes ==
    ASSUME Setting, TimeInv
    PROVE  HATypeOK
<1>1. /\ GroupInterval \in Nat /\ MaxSkew \in Nat /\ MaxNotify \in Nat /\ MaxWait \in Nat
      /\ MaxFlush = MaxWait + MaxNotify /\ AgeCap \in Nat
  BY Numbers
<1>2. Domains
  BY Zenon DEF TimeInv, Typed
<1>3. ASSUME NEW p \in Peer
      PROVE  /\ up[p] \in BOOLEAN /\ view[p] \in SUBSET Peer
             /\ hpc[p] \in {"idle", "wait", "dedup", "notify", "log"}
             /\ next[p] \in 0 .. (GroupInterval + MaxSkew)
             /\ rem[p] \in 0 .. MaxFlush /\ since[p] \in 0 .. MaxFlush /\ hlog[p] \in -1 .. AgeCap
  <2>1. TypeOf(p) /\ Stage(p)
    BY Zenon DEF TimeInv, Typed, Times
  <2>2. up[p] \in BOOLEAN /\ view[p] \in SUBSET Peer
    BY <2>1, Zenon DEF TypeOf
  <2>3. QED  BY <1>1, <2>1, <2>2 DEF TypeOf, Stage
<1>4. /\ up \in [Peer -> BOOLEAN] /\ view \in [Peer -> SUBSET Peer]
      /\ hpc \in [Peer -> {"idle", "wait", "dedup", "notify", "log"}]
      /\ next \in [Peer -> 0 .. (GroupInterval + MaxSkew)]
      /\ rem \in [Peer -> 0 .. MaxFlush] /\ since \in [Peer -> 0 .. MaxFlush]
      /\ hlog \in [Peer -> -1 .. AgeCap]
  BY <1>2, <1>3, Zenon DEF Domains
<1>5. QED  BY <1>4, Zenon DEF TimeInv, Typed, Entry, HATypeOK

LEMMA TimeAlways ==
    ASSUME Setting
    PROVE  HASpec => []TimeInv
<1>1. HAInit => TimeInv
  BY Zenon, InitTime
<1>2. TimeInv /\ [HANext]_haVars => TimeInv'
  BY Zenon, StepTime, SameTime
<1>3. QED  BY <1>1, <1>2, PTL DEF HASpec

\* The types hold for every number of peers and all times: no flush takes longer than the longest
\* wait and a notification, whatever members the peers know and whichever crash (aggrGroup.run,
\* ClusterWaitStage).
THEOREM HATypeCorrect ==
    ASSUME Setting
    PROVE  HASpec => []HATypeOK
<1>1. TimeInv => HATypeOK
  BY Zenon, TimeTypes
<1>2. QED  BY <1>1, TimeAlways, PTL

-----------------------------------------------------------------------------
(* The receiver is notified in time *)

\* An entry of this age tells of a notification at most MaxNotify before it was logged.
Backed(age) == ~first /\ (age < AgeCap => quiet <= age + MaxNotify)

HeardBy(p) ==
    /\ hlog[p] # None => Backed(hlog[p])
    /\ hpc[p] = "log" => ~first /\ quiet + rem[p] <= MaxNotify

\* No log and no message tells of a notification the receiver has not seen.
Heard == (\A p \in Peer : HeardBy(p)) /\ \A m \in msgs : Backed(m.age)

\* A reliable peer is up and will have flushed before the time is over.
AwaitedBy(p) ==
    /\ up[p]
    /\ hpc[p] = "idle" => quiet + next[p] <= Latest
    /\ hpc[p] # "idle" => quiet <= Latest + since[p]

Awaited == \A r \in Reliable \cap Peer : AwaitedBy(r)

\* Only time and a notification change what the receiver has seen.
LEMMA QuietStep ==
    ASSUME NEW p \in Peer, OfPeer(p)
    PROVE  \/ Notify(p) /\ quiet' = 0 /\ first' = FALSE /\ msgs' = msgs
           \/ ~Notify(p) /\ quiet' = quiet /\ first' = first
<1>1. CASE Notify(p)
  BY <1>1, Zenon DEF Notify
<1>2. CASE ~Notify(p)
  BY <1>2, Zenon DEF OfPeer, HAFlush, HAWaited, HADedupStage, HANotifyFails, HASetNotifiesStage, Crash, Restart,
                     Suspect, MergeRemoteState
<1>3. QED  BY Zenon, <1>1, <1>2

\* A notification backs every entry.
LEMMA BackedNotify ==
    ASSUME Setting, quiet' = 0, first' = FALSE, NEW age \in Nat
    PROVE  Backed(age)'
<1>1. MaxNotify \in Nat
  BY Zenon, Numbers
<1>2. ~first' /\ 0 <= age + MaxNotify
  BY <1>1
<1>3. QED  BY <1>2, Zenon DEF Backed

LEMMA InitHeard ==
    ASSUME Setting, HAInit
    PROVE  Heard /\ Awaited
<1>1. Heard
  BY Zenon DEF HAInit, Heard, HeardBy
<1>2. ASSUME NEW r \in Reliable \cap Peer  PROVE  AwaitedBy(r)
  <2>1. next \in [Peer -> 0 .. MaxSkew] /\ MaxSkew \in Nat /\ quiet = 0 /\ first /\ hpc[r] = "idle" /\ up[r]
    BY Zenon, Numbers DEF HAInit
  <2>2. Latest = MaxSkew
    BY <2>1, Zenon DEF Latest
  <2>3. QED  BY <2>1, <2>2 DEF AwaitedBy
<1>3. QED  BY <1>1, <1>2, Zenon DEF Awaited

LEMMA StepHeard ==
    ASSUME Setting, TimeInv, Heard, HANext
    PROVE  Heard'
<1>1. /\ Domains /\ quiet \in Nat /\ msgs \subseteq Entry /\ Fresh
      /\ \A q \in Peer : TypeOf(q) /\ Stage(q) /\ HeardBy(q)
  BY Zenon DEF TimeInv, Typed, Times, Heard
<1>2. MaxNotify \in Nat /\ AgeCap \in Nat
  BY Numbers
<1>3. \A m \in msgs : Backed(m.age) /\ m.to \in Peer /\ m.age \in Nat /\ m.age <= AgeCap
  BY <1>1 DEF Heard, Entry, Fresh
<1>4. CASE Tick
  <2>1. ASSUME NEW q \in Peer  PROVE  HeardBy(q)'
    <3>1. TypeOf(q) /\ Stage(q) /\ HeardBy(q)
      BY <1>1, Zenon
    <3>2. CASE hlog[q] = None
      <4>1. hlog'[q] = None
        BY Zenon, <1>1, <1>4, <3>2, OwnTick DEF Older
      <4>2. hpc'[q] = "log" => ~first' /\ quiet' + rem'[q] <= MaxNotify
        BY <1>1, <1>2, <1>4, <3>1, OwnTick, TickMsgs DEF TypeOf, Stage, HeardBy, Due, Sooner
      <4>3. QED  BY <4>1, <4>2, Zenon DEF HeardBy
    <3>3. CASE hlog[q] # None
      <4>1. hlog[q] \in Nat /\ hlog[q] <= AgeCap /\ Backed(hlog[q])
        BY <3>1, <3>3 DEF TypeOf, HeardBy, None
      <4>3. hlog'[q] = Older(hlog[q])
        BY <1>1, <1>4, OwnTick, Zenon
      <4>4. Backed(hlog[q])'
        BY <1>4, <1>1, <1>2, <4>1, <4>3, TickMsgs DEF Backed, Older, None
      <4>5. hpc'[q] = "log" => ~first' /\ quiet' + rem'[q] <= MaxNotify
        BY <1>1, <1>2, <1>4, <3>1, OwnTick, TickMsgs DEF TypeOf, Stage, HeardBy, Due, Sooner
      <4>6. QED  BY <4>4, <4>5, Zenon DEF HeardBy
    <3>4. QED  BY Zenon, <3>2, <3>3
  <2>2. ASSUME NEW e \in msgs'  PROVE  Backed(e.age)'
    <3>1. PICK m \in msgs : e = [to |-> m.to, age |-> Older(m.age), ttl |-> m.ttl - 1]
      BY <1>4, TickMsgs, Zenon
    <3>2. e.age = Older(m.age)
      BY Zenon, <3>1
    <3>3. QED  BY <1>1, <1>2, <1>3, <1>4, <3>2, TickMsgs DEF Backed, Older, None
  <2>3. QED  BY <2>1, <2>2, Zenon DEF Heard
<1>5. ASSUME NEW p \in Peer, OfPeer(p), ~Notify(p)  PROVE  Heard'
  <2>1. quiet' = quiet /\ first' = first
    BY <1>5, QuietStep, Zenon
  <2>2. ASSUME NEW q \in Peer, q # p  PROVE  HeardBy(q)'
    <3>1. Same(q)
      BY Zenon, <1>1, <1>5, <2>2, Others
    <3>2. QED  BY <1>1, <2>1, <3>1, Zenon DEF HeardBy, Same, SameStage, Backed
  <2>3. HeardBy(p)'
    <3>1. HeardBy(p) /\ TypeOf(p) /\ Stage(p)
      BY <1>1, Zenon
    <3>2. CASE (hlog'[p] = hlog[p] \/ hlog'[p] = None) /\ hpc'[p] # "log"
      BY <2>1, <3>1, <3>2, Zenon DEF HeardBy, Backed
    <3>10. Domains
      BY <1>1, Zenon
    <3>3. CASE HASetNotifiesStage(p)
      BY <1>1, <1>2, <2>1, <3>1, <3>3, OwnLogs DEF HeardBy, Backed, TypeOf
    <3>4. ASSUME NEW q \in Peer, MergeRemoteState(p, q)  PROVE  HeardBy(p)'
      BY <1>1, <2>1, <3>1, <3>4, OwnRemote, Zenon DEF HeardBy, Backed, SameStage, Newer
    <3>5. CASE HAFlush(p) \/ HAWaited(p) \/ HANotifyFails(p) \/ HADedupStage(p)
      <4>1. hlog'[p] = hlog[p] /\ hpc'[p] # "log"
        BY Zenon, <3>10, <3>5, OwnFlush, OwnWaited, OwnFails, OwnDedup
      <4>2. QED  BY <3>2, <4>1, Zenon
    <3>6. CASE Crash(p)
      <4>1. (hlog'[p] = hlog[p] \/ hlog'[p] = None) /\ hpc'[p] # "log"
        BY Zenon, <3>10, <3>6, OwnCrash
      <4>2. QED  BY <3>2, <4>1, Zenon
    <3>7. CASE Restart(p)
      BY <2>1, <3>10, <3>1, <3>7, OwnRestart, Zenon DEF HeardBy, Backed
    <3>8. ASSUME NEW q \in Peer, Suspect(p, q)  PROVE  HeardBy(p)'
      BY <2>1, <3>10, <3>1, <3>8, OwnSuspect, Zenon DEF HeardBy, Backed
    <3>9. QED  BY <1>5, <3>3, <3>4, <3>5, <3>6, <3>7, <3>8, Zenon DEF OfPeer
  <2>4. ASSUME NEW m \in msgs'  PROVE  Backed(m.age)'
    <3>1. CASE m \in msgs
      BY <1>3, <2>1, <3>1, Zenon DEF Backed
    <3>2. CASE m \notin msgs
      <4>1. HASetNotifiesStage(p)
        BY <1>5, <2>4, <3>2, Zenon DEF OfPeer, HAFlush, HAWaited, HADedupStage, HANotifyFails, Crash, Restart,
                                     Suspect, MergeRemoteState
      <4>2. m.age = 0
        BY <2>4, <3>2, <4>1 DEF HASetNotifiesStage
      <4>3. hpc[p] = "log" /\ rem[p] \in Nat
        BY <1>1, <4>1, OwnLogs, Zenon DEF TypeOf
      <4>4. QED  BY <1>1, <1>2, <2>1, <4>2, <4>3 DEF Backed, HeardBy
    <3>3. QED  BY Zenon, <3>1, <3>2
  <2>5. QED  BY <2>2, <2>3, <2>4, Zenon DEF Heard
<1>6. ASSUME NEW p \in Peer, Notify(p)  PROVE  Heard'
  <2>1. quiet' = 0 /\ first' = FALSE /\ msgs' = msgs
    BY <1>6, Zenon DEF Notify
  <2>2. ASSUME NEW q \in Peer  PROVE  HeardBy(q)'
    <3>1. hlog'[q] = hlog[q] /\ rem'[q] = rem[q] /\ (hpc'[q] = "log" => hpc[q] \in {"notify", "log"})
      BY Zenon, <1>1, <1>6 DEF Notify, Domains
    <3>2. hlog[q] # None => hlog[q] \in Nat
      BY <1>1 DEF TypeOf, None
    <3>3. hpc'[q] = "log" => 0 + rem[q] <= MaxNotify
      BY <1>1, <1>2, <3>1 DEF TypeOf, Stage
    <3>4. QED  BY <2>1, <3>1, <3>2, <3>3, BackedNotify, Zenon DEF HeardBy
  <2>3. QED  BY <1>3, <2>1, <2>2, BackedNotify, Zenon DEF Heard
<1>7. ASSUME NEW m \in msgs, Merge(m)  PROVE  Heard'
  <2>1. quiet' = quiet /\ first' = first /\ msgs' \subseteq msgs
    BY <1>7, Zenon DEF Merge
  <2>2. ASSUME NEW q \in Peer  PROVE  HeardBy(q)'
    <3>1. SameStage(q) /\ hlog'[q] \in {hlog[q], m.age}
      BY <1>1, <1>3, <1>7, OwnMerge, Zenon
    <3>2. QED  BY <1>1, <1>3, <2>1, <3>1, Zenon DEF HeardBy, SameStage, Backed
  <2>3. QED  BY <1>3, <2>1, <2>2, Zenon DEF Heard, Backed
<1>8. ASSUME NEW m \in msgs, Lose(m)  PROVE  Heard'
  BY <1>8, Zenon DEF Lose, Heard, HeardBy, Backed
<1>9. QED  BY <1>4, <1>5, <1>6, <1>7, <1>8, Steps, Zenon

\* The time to wait for is a number, and a notification does not shorten it.
LEMMA LatestIs ==
    ASSUME Setting
    PROVE  /\ Latest \in Nat /\ MaxSkew <= Latest
           /\ first => Latest = MaxSkew
           /\ ~first => Repeat + MaxNotify + GroupInterval <= Latest
  BY Numbers DEF Latest

LEMMA StepAwaited ==
    ASSUME Setting, TimeInv, Heard, Awaited, HANext
    PROVE  Awaited'
<1>1. SUFFICES ASSUME NEW r \in Reliable \cap Peer
               PROVE  AwaitedBy(r)'
  BY Zenon DEF Awaited
<1>2. /\ Domains /\ quiet \in Nat /\ msgs \subseteq Entry /\ r \in Peer /\ r \in Reliable
      /\ TypeOf(r) /\ Stage(r) /\ HeardBy(r) /\ AwaitedBy(r)
  BY Zenon DEF TimeInv, Typed, Times, Heard, Awaited
<1>3. /\ GroupInterval \in Nat /\ MaxNotify \in Nat /\ Repeat \in Nat /\ MaxWait \in Nat
      /\ MaxFlush = MaxWait + MaxNotify /\ AgeCap = Repeat + MaxFlush + 1
  BY Zenon, Numbers
<1>4. Latest \in Nat /\ up[r]
  BY <1>2, LatestIs, Zenon DEF AwaitedBy
<1>5. first' = first => Latest' = Latest
  BY DEF Latest
<1>6. CASE Tick
  <2>1. quiet' = quiet + 1 /\ Latest' = Latest
    BY <1>5, <1>6, TickMsgs, Zenon
  <2>2. QED  BY <1>2, <1>4, <1>6, <2>1, OwnTick DEF TypeOf, AwaitedBy, Due, Sooner
<1>7. ASSUME NEW p \in Peer, Notify(p)  PROVE  AwaitedBy(r)'
  <2>1. quiet' = 0 /\ first' = FALSE
    BY <1>7, Zenon DEF Notify
  <2>2. /\ up'[r] = up[r] /\ next'[r] = next[r] /\ since'[r] = since[r]
        /\ hpc'[r] = "idle" => hpc[r] = "idle"
    BY Zenon, <1>2, <1>7 DEF Notify, Domains
  <2>3. Latest <= Latest' /\ Latest' \in Nat
    BY <1>3, <2>1, Numbers DEF Latest
  <2>4. QED  BY <1>2, <1>4, <2>1, <2>2, <2>3 DEF TypeOf, AwaitedBy
<1>8. ASSUME NEW p \in Peer, OfPeer(p), ~Notify(p)  PROVE  AwaitedBy(r)'
  <2>1. quiet' = quiet /\ Latest' = Latest
    BY <1>5, <1>8, QuietStep, Zenon
  <2>2. CASE r # p
    <3>1. Same(r)
      BY Zenon, <1>2, <1>8, <2>2, Others
    <3>2. QED  BY <1>2, <2>1, <3>1, Zenon DEF AwaitedBy, Same, SameStage
  <2>3. CASE r = p
    <3>1. CASE HAFlush(r)
      BY <1>2, <1>4, <2>1, <3>1, OwnFlush DEF AwaitedBy
    <3>2. CASE HAWaited(r)
      BY Zenon, <1>2, <2>1, <3>2, OwnWaited DEF AwaitedBy
    <3>3. CASE HADedupStage(r)
      <4>1. CASE HAneedsUpdate(r)
        BY Zenon, <1>2, <2>1, <3>3, <4>1, OwnDedup DEF AwaitedBy
      <4>2. CASE ~HAneedsUpdate(r)
        <5>1. hlog[r] # None /\ hlog[r] - since[r] <= Repeat
          BY <1>2, <1>3, <4>2 DEF HAneedsUpdate, TypeOf
        <5>2. /\ hpc[r] = "dedup" /\ up[r] /\ since[r] <= MaxWait /\ next[r] + since[r] = GroupInterval
              /\ hpc'[r] = "idle" /\ next'[r] = next[r] /\ up'[r] = up[r]
          BY Zenon, <1>2, <3>3, <4>2, OwnDedup DEF Stage
        <5>3. hlog[r] < AgeCap
          BY <1>2, <1>3, <5>1, <5>2 DEF TypeOf
        <5>4. ~first /\ quiet <= hlog[r] + MaxNotify
          BY <1>2, <5>1, <5>3, Zenon DEF HeardBy, Backed
        <5>5. Repeat + MaxNotify + GroupInterval <= Latest
          BY Zenon, <5>4, LatestIs
        <5>6. quiet + next[r] <= Latest
          BY <1>2, <1>3, <1>4, <5>1, <5>2, <5>4, <5>5 DEF TypeOf
        <5>7. QED  BY <1>4, <2>1, <5>2, <5>6, Zenon DEF AwaitedBy
      <4>3. QED  BY Zenon, <4>1, <4>2
    <3>4. CASE HASetNotifiesStage(r)
      <4>1. /\ hpc[r] = "log" /\ next[r] + since[r] = GroupInterval
            /\ hpc'[r] = "idle" /\ next'[r] = next[r] /\ up'[r] = up[r]
        BY Zenon, <1>2, <3>4, OwnLogs DEF Stage
      <4>2. ~first /\ quiet + rem[r] <= MaxNotify
        BY <1>2, <4>1, Zenon DEF HeardBy
      <4>3. Repeat + MaxNotify + GroupInterval <= Latest
        BY Zenon, <4>2, LatestIs
      <4>4. quiet + next[r] <= Latest
        BY <1>2, <1>3, <1>4, <4>1, <4>2, <4>3 DEF TypeOf
      <4>5. QED  BY <1>4, <2>1, <4>1, <4>4, Zenon DEF AwaitedBy
    <3>5. ~HANotifyFails(r) /\ ~Crash(r)
      BY <1>2, Zenon DEF HANotifyFails, Crash, MayFail
    <3>6. ~Restart(r)
      BY <1>4, Zenon DEF Restart
    <3>7. ASSUME NEW q \in Peer, Suspect(r, q)  PROVE  AwaitedBy(r)'
      BY <1>2, <2>1, <3>7, OwnSuspect, Zenon DEF AwaitedBy
    <3>8. ASSUME NEW q \in Peer, MergeRemoteState(r, q)  PROVE  AwaitedBy(r)'
      BY <1>2, <2>1, <3>8, OwnRemote, Zenon DEF AwaitedBy, SameStage
    <3>9. QED
      BY <1>8, <2>3, <3>1, <3>2, <3>3, <3>4, <3>5, <3>6, <3>7, <3>8, Zenon DEF OfPeer
  <2>4. QED  BY Zenon, <2>2, <2>3
<1>9. ASSUME NEW m \in msgs, Merge(m)  PROVE  AwaitedBy(r)'
  <2>1. quiet' = quiet /\ first' = first
    BY <1>9, Zenon DEF Merge
  <2>2. m.to \in Peer
    BY Zenon, <1>2 DEF Entry
  <2>3. QED  BY <1>2, <1>5, <1>9, <2>1, <2>2, OwnMerge, Zenon DEF AwaitedBy, SameStage
<1>10. ASSUME NEW m \in msgs, Lose(m)  PROVE  AwaitedBy(r)'
  BY <1>2, <1>5, <1>10, Zenon DEF Lose, AwaitedBy
<1>11. QED  BY <1>6, <1>7, <1>8, <1>9, <1>10, Steps, Zenon

LEMMA AwaitedAlways ==
    ASSUME Setting
    PROVE  HASpec => [](TimeInv /\ Heard /\ Awaited)
<1>1. HAInit => TimeInv /\ Heard /\ Awaited
  BY Zenon, InitTime, InitHeard
<1>2. ASSUME TimeInv, Heard, Awaited, [HANext]_haVars
      PROVE  (TimeInv /\ Heard /\ Awaited)'
  <2>1. CASE HANext
    BY Zenon, <1>2, <2>1, StepTime, StepHeard, StepAwaited
  <2>2. CASE UNCHANGED haVars
    <3>1. UNCHANGED <<stable, up, view, hpc, next, rem, since, hlog, msgs, quiet, first>>
      BY <2>2, Zenon DEF haVars
    <3>2. TimeInv'
      BY Zenon, <1>2, <2>2, SameTime
    <3>3. Heard' /\ Awaited'
      BY <1>2, <3>1, Zenon DEF Heard, HeardBy, Backed, Awaited, AwaitedBy, Latest
    <3>4. QED  BY Zenon, <3>2, <3>3
  <2>3. QED  BY Zenon, <1>2, <2>1, <2>2
<1>3. TimeInv /\ Heard /\ Awaited /\ [HANext]_haVars => (TimeInv /\ Heard /\ Awaited)'
  BY Zenon, <1>2
<1>4. QED  BY <1>1, <1>3, PTL DEF HASpec

\* At-least-once in time, for any number of peers: while one peer stays up and reaches the receiver,
\* no crash, restart, lost message, stale log or wrong membership of the others makes the receiver
\* wait longer than Bound (DedupStage.needsUpdate, SetNotifiesStage, Log.Merge).
THEOREM NotifiedInTimeThm ==
    ASSUME Setting, Survivor
    PROVE  HASpec => []NotifiedInTime
<1>1. ASSUME TimeInv, Heard, Awaited
      PROVE  NotifiedInTime
  <2>1. PICK r \in Reliable \cap Peer : TRUE
    BY Zenon DEF Survivor
  <2>2. TypeOf(r) /\ Stage(r) /\ AwaitedBy(r) /\ quiet \in Nat
    BY <1>1, <2>1, Zenon DEF TimeInv, Typed, Times, Awaited
  <2>3. Latest \in Nat /\ MaxWait \in Nat /\ MaxNotify \in Nat /\ MaxFlush = MaxWait + MaxNotify
    BY Zenon, Numbers, LatestIs
  <2>4. since[r] <= MaxFlush
    BY <2>2, <2>3 DEF TypeOf, Stage
  <2>5. QED  BY <2>2, <2>3, <2>4 DEF TypeOf, AwaitedBy, NotifiedInTime, Bound
<1>2. TimeInv /\ Heard /\ Awaited => NotifiedInTime
  BY Zenon, <1>1
<1>3. QED  BY <1>2, AwaitedAlways, PTL

-----------------------------------------------------------------------------
(* The receiver is notified once per repeat interval *)

\* Without failures a peer knows all the others and flushes on time.
OnTime(p) ==
    /\ up[p] /\ view[p] = Peer
    /\ hpc[p] = "wait" => since[p] + rem[p] = Turn(p)
    /\ hpc[p] = "dedup" => since[p] = Turn(p)
    /\ hpc[p] \in {"notify", "log"} => since[p] + rem[p] = Turn(p) + MaxNotify

Close(a, b) == a <= b + MaxSkew /\ b <= a + MaxSkew

\* The timers of two peers fire within the skew, one of them perhaps already for the next flush.
InPhase(p, q) ==
    \/ Close(next[p], next[q])
    \/ Close(next[p], next[q] + GroupInterval)
    \/ Close(next[q], next[p] + GroupInterval)

\* The peer's log tells of the last notification.
Known(p) == hlog[p] # None /\ hlog[p] <= quiet

\* The time until the peer next looks into its log.
ToDedup(p) == IF hpc[p] = "wait" THEN rem[p] ELSE IF hpc[p] = "dedup" THEN 0 ELSE next[p] + Turn(p)

\* The entry of the last notification reaches the peer before it looks into its log.
Sent(p) == \E m \in msgs : m.to = p /\ m.age <= quiet /\ m.ttl < ToDedup(p)
ToSend(p) == \E q \in Peer : q # p /\ hpc[q] = "log" /\ rem[q] + MaxGossip < ToDedup(p)

Told(p) == first \/ hpc[p] = "log" \/ Known(p) \/ Sent(p) \/ ToSend(p)

\* A peer that is about to notify does so after the repeat interval.
Needed(p) == hpc[p] = "notify" => first \/ quiet > Repeat

Punctual == (\A p \in Peer : OnTime(p)) /\ \A p, q \in Peer : InPhase(p, q)
Calm == stable => Punctual /\ \A p \in Peer : Told(p) /\ Needed(p)

\* The constants of a well timed cluster.
LEMMA Margins ==
    ASSUME Setting, WellTimed
    PROVE  /\ PeerTimeout \in Nat /\ GroupInterval \in Nat /\ Repeat \in Nat /\ AgeCap \in Nat
           /\ MaxSkew \in Nat /\ MaxNotify \in Nat /\ MaxGossip \in Nat /\ MaxWait \in Nat
           /\ MaxSkew + MaxNotify + MaxGossip < PeerTimeout
           /\ MaxWait + MaxNotify + MaxSkew + MaxGossip < GroupInterval
  BY Numbers DEF WellTimed

LEMMA CalmSteps ==
    ASSUME stable, Punctual, HANext
    PROVE  /\ stable' = stable
           /\ \/ Tick
              \/ \E p \in Peer : \/ HAFlush(p) \/ HAWaited(p) \/ HADedupStage(p) \/ Notify(p) \/ HASetNotifiesStage(p)
                                 \/ \E q \in Peer : MergeRemoteState(p, q)
              \/ \E m \in msgs : Merge(m)
<1>1. \A p \in Peer : up[p]
  BY Zenon DEF Punctual, OnTime
<1>2. \A p \in Peer : ~HANotifyFails(p) /\ ~Crash(p) /\ ~Restart(p) /\ \A q \in Peer : ~Suspect(p, q)
  BY <1>1, Zenon DEF HANotifyFails, Crash, Restart, Suspect, MayFail
<1>3. \A m \in msgs : ~Lose(m)
  BY Zenon DEF Lose
<1>4. \/ Tick
      \/ \E p \in Peer : \/ HAFlush(p) \/ HAWaited(p) \/ HADedupStage(p) \/ Notify(p) \/ HASetNotifiesStage(p)
                         \/ \E q \in Peer : MergeRemoteState(p, q)
      \/ \E m \in msgs : Merge(m)
  BY <1>2, <1>3, Steps, Zenon DEF OfPeer
<1>5. stable' = stable
  BY <1>4, Zenon DEF Tick, HAFlush, HAWaited, HADedupStage, Notify, HASetNotifiesStage, MergeRemoteState, Merge
<1>6. QED  BY Zenon, <1>4, <1>5

\* The turns of two peers do not overlap: one is done before the other looks into its log.
LEMMA Apart ==
    ASSUME Setting, WellTimed, TimeInv, Punctual, NEW p \in Peer, NEW q \in Peer, p # q,
           hpc[p] \in {"dedup", "notify", "log"}, hpc[q] \in {"notify", "log"}
    PROVE  FALSE
<1>1. OnTime(p) /\ OnTime(q) /\ InPhase(p, q)
  BY Zenon DEF Punctual
<1>2. TypeOf(p) /\ TypeOf(q) /\ Stage(p) /\ Stage(q)
  BY Zenon DEF TimeInv, Typed, Times
<1>3. /\ since[p] \in Nat /\ next[p] \in Nat /\ next[p] + since[p] = GroupInterval
      /\ Turn(p) <= since[p] /\ since[p] <= Turn(p) + MaxNotify
  BY <1>1, <1>2, Margins, Turns DEF TypeOf, Stage, OnTime
<1>4. /\ since[q] \in Nat /\ next[q] \in Nat /\ next[q] + since[q] = GroupInterval
      /\ Turn(q) <= since[q] /\ since[q] <= Turn(q) + MaxNotify
  BY <1>1, <1>2, Margins, Turns DEF TypeOf, Stage, OnTime
<1>5. /\ Turn(p) \in Nat /\ Turn(q) \in Nat /\ Turn(p) <= MaxWait /\ Turn(q) <= MaxWait
  BY Zenon, Turns
<1>6. Close(since[p], since[q])
  BY <1>1, <1>3, <1>4, <1>5, Margins DEF InPhase, Close
<1>7. p < q \/ q < p
  BY Numbers DEF Peer
<1>8. Turn(p) + PeerTimeout <= Turn(q) \/ Turn(q) + PeerTimeout <= Turn(p)
  BY Zenon, <1>7, Turns
<1>9. QED  BY <1>3, <1>4, <1>5, <1>6, <1>8, Margins DEF Close

\* What a peer in its turn has to tell reaches each of the others before they look into their logs.
LEMMA HeardBefore ==
    ASSUME Setting, WellTimed, TimeInv, Punctual, NEW p \in Peer, NEW q \in Peer, p # q, hpc[q] = "notify"
    PROVE  rem[q] + MaxGossip < ToDedup(p)
<1>1. OnTime(p) /\ OnTime(q) /\ InPhase(p, q)
  BY Zenon DEF Punctual
<1>2. TypeOf(p) /\ TypeOf(q) /\ Stage(p) /\ Stage(q)
  BY Zenon DEF TimeInv, Typed, Times
<1>3. /\ since[q] \in Nat /\ next[q] \in Nat /\ rem[q] \in Nat /\ next[q] + since[q] = GroupInterval
      /\ Turn(q) <= since[q] /\ since[q] + rem[q] = Turn(q) + MaxNotify
  BY <1>1, <1>2, Margins, Turns DEF TypeOf, Stage, OnTime
<1>4. /\ Turn(p) \in Nat /\ Turn(q) \in Nat /\ Turn(p) <= MaxWait /\ Turn(q) <= MaxWait
  BY Zenon, Turns
<1>5. next[p] \in Nat /\ since[p] \in Nat /\ rem[p] \in Nat
  BY <1>2, Zenon DEF TypeOf
<1>6. p < q \/ q < p
  BY Numbers DEF Peer
<1>7. \/ p < q /\ Turn(p) + PeerTimeout <= Turn(q)
      \/ q < p /\ Turn(q) + PeerTimeout <= Turn(p)
  BY Zenon, <1>6, Turns
<1>8. CASE hpc[p] = "wait"
  <2>1. since[p] + rem[p] = Turn(p) /\ next[p] + since[p] = GroupInterval
    BY Zenon, <1>1, <1>2, <1>8 DEF OnTime, Stage
  <2>2. Close(since[p], since[q])
    BY <1>1, <1>3, <1>4, <1>5, <2>1, Margins DEF InPhase, Close
  <2>3. rem[q] + MaxGossip < rem[p]
    BY <1>3, <1>4, <1>5, <1>7, <2>1, <2>2, Margins DEF Close
  <2>4. QED  BY Zenon, <1>8, <2>3 DEF ToDedup
<1>9. CASE hpc[p] = "dedup"
  BY Zenon, <1>9, Apart
<1>10. CASE hpc[p] \notin {"wait", "dedup"}
  <2>1. rem[q] + MaxGossip < next[p] + Turn(p)
    <3>1. CASE Close(next[p], next[q])
      BY <1>3, <1>4, <1>5, <3>1, Margins DEF Close
    <3>2. CASE Close(next[p], next[q] + GroupInterval)
      BY <1>3, <1>4, <1>5, <3>2, Margins DEF Close
    <3>3. CASE Close(next[q], next[p] + GroupInterval)
      BY <1>3, <1>4, <1>5, <1>7, <3>3, Margins DEF Close
    <3>4. QED  BY <1>1, <3>1, <3>2, <3>3, Zenon DEF InPhase
  <2>2. QED  BY Zenon, <1>10, <2>1 DEF ToDedup
<1>11. QED  BY Zenon, <1>8, <1>9, <1>10

LEMMA InitCalm ==
    ASSUME Setting, HAInit
    PROVE  Calm
<1>1. next \in [Peer -> 0 .. MaxSkew] /\ MaxSkew \in Nat
  BY Numbers, Zenon DEF HAInit
<1>2. \A p \in Peer : up[p] /\ view[p] = Peer /\ hpc[p] = "idle"
  BY Zenon DEF HAInit
<1>3. \A p \in Peer : OnTime(p) /\ Needed(p)
  BY Zenon, <1>2 DEF OnTime, Needed
<1>4. \A p, q \in Peer : InPhase(p, q)
  BY <1>1 DEF InPhase, Close
<1>5. first
  BY Zenon DEF HAInit
<1>6. QED  BY <1>3, <1>4, <1>5, Zenon DEF Calm, Punctual, Told

\* While time passes every timer runs: nothing is due.
LEMMA TickNext ==
    ASSUME Setting, TimeInv, Punctual, Tick, NEW p \in Peer
    PROVE  /\ next[p] \in Nat /\ next[p] > 0 /\ next'[p] = next[p] - 1 /\ hpc'[p] = hpc[p]
           /\ hpc[p] # "dedup"
           /\ hpc[p] # "idle" => rem[p] \in Nat /\ rem[p] > 0 /\ rem'[p] = rem[p] - 1
           /\ hpc[p] # "idle" => since[p] \in Nat /\ since'[p] = since[p] + 1
           /\ up'[p] = up[p] /\ view'[p] = view[p] /\ hlog'[p] = Older(hlog[p])
<1>1. Domains /\ TypeOf(p) /\ Stage(p)
  BY Zenon DEF TimeInv, Typed, Times
<1>2. up[p]
  BY Zenon DEF Punctual, OnTime
<1>3. ~Due(p) /\ up'[p] = up[p] /\ view'[p] = view[p] /\ hpc'[p] = hpc[p] /\ hlog'[p] = Older(hlog[p])
  BY <1>1, OwnTick, Zenon
<1>4. next'[p] = Sooner(next[p]) /\ rem'[p] = Sooner(rem[p])
  BY <1>1, OwnTick, Zenon
<1>5. hpc[p] # "idle" => since'[p] = since[p] + 1
  BY <1>1, OwnTick, Zenon
<1>6. MaxWait \in Nat /\ MaxNotify \in Nat /\ MaxFlush = MaxWait + MaxNotify /\ MaxFlush < GroupInterval
  BY Zenon, Numbers
<1>7. next[p] > 0 /\ hpc[p] # "dedup" /\ (hpc[p] # "idle" => rem[p] > 0)
  BY <1>1, <1>2, <1>3, <1>6 DEF Due, TypeOf, Stage
<1>8. QED  BY <1>1, <1>3, <1>4, <1>5, <1>7 DEF TypeOf, Sooner

LEMMA StepOnTime ==
    ASSUME Setting, WellTimed, TimeInv, stable, Punctual, HANext, NEW q \in Peer
    PROVE  OnTime(q)'
<1>1. Domains /\ TypeOf(q) /\ Stage(q) /\ OnTime(q) /\ msgs \subseteq Entry
  BY Zenon DEF TimeInv, Typed, Times, Punctual
<1>2. Turn(q) \in Nat /\ MaxNotify \in Nat
  BY Zenon, Turns, Margins
<1>3. CASE Tick
  BY <1>1, <1>2, <1>3, TickNext DEF OnTime
<1>4. CASE Same(q)
  BY Zenon, <1>1, <1>4 DEF OnTime, Same, SameStage
<1>5. CASE SameStage(q)
  BY Zenon, <1>1, <1>5 DEF OnTime, SameStage
<1>6. CASE HAFlush(q)
  <2>1. clusterWait(q) = Turn(q)
    BY Zenon, <1>1, WaitsAtMost DEF OnTime
  <2>2. QED  BY <1>1, <1>2, <1>6, <2>1, OwnFlush DEF OnTime
<1>7. CASE HAWaited(q)
  BY <1>1, <1>2, <1>7, OwnWaited DEF OnTime, TypeOf
<1>8. CASE HADedupStage(q)
  BY Zenon, <1>1, <1>2, <1>8, OwnDedup DEF OnTime
<1>9. CASE Notify(q)
  BY Zenon, <1>1, <1>9, OwnNotify DEF OnTime
<1>10. CASE HASetNotifiesStage(q)
  BY Zenon, <1>1, <1>10, OwnLogs DEF OnTime
<1>11. ASSUME NEW p \in Peer, OfPeer(p), p # q  PROVE  Same(q)
  BY Zenon, <1>1, <1>11, Others
<1>12. ASSUME NEW p \in Peer, MergeRemoteState(q, p)  PROVE  SameStage(q)
  BY Zenon, <1>1, <1>12, OwnRemote
<1>13. ASSUME NEW m \in msgs, Merge(m)  PROVE  SameStage(q)
  <2>1. m.to \in Peer
    BY Zenon, <1>1 DEF Entry
  <2>2. QED  BY Zenon, <1>1, <1>13, <2>1, OwnMerge
<1>14. QED
  BY <1>3, <1>4, <1>5, <1>6, <1>7, <1>8, <1>9, <1>10, <1>11, <1>12, <1>13, CalmSteps, Zenon DEF OfPeer

\* Only time and the start of a flush move a timer.
LEMMA StepInPhase ==
    ASSUME Setting, WellTimed, TimeInv, stable, Punctual, HANext, NEW p \in Peer, NEW q \in Peer
    PROVE  InPhase(p, q)'
<1>1. Domains /\ InPhase(p, q) /\ TypeOf(p) /\ TypeOf(q)
  BY Zenon DEF TimeInv, Typed, Punctual
<1>2. next[p] \in Nat /\ next[q] \in Nat
  BY <1>1, Zenon DEF TypeOf
<1>3. GroupInterval \in Nat /\ MaxSkew \in Nat /\ MaxSkew < GroupInterval
  BY Margins
<1>4. CASE Tick
  <2>1. next[p] > 0 /\ next[q] > 0 /\ next'[p] = next[p] - 1 /\ next'[q] = next[q] - 1
    BY Zenon, <1>4, TickNext
  <2>2. QED  BY <1>1, <1>2, <1>3, <2>1 DEF InPhase, Close
<1>5. ASSUME NEW r \in Peer, HAFlush(r)  PROVE  InPhase(p, q)'
  <2>1. next[r] = 0 /\ next' = [next EXCEPT ![r] = GroupInterval]
    BY <1>5, Zenon DEF HAFlush
  <2>2. /\ next'[p] = IF p = r THEN GroupInterval ELSE next[p]
        /\ next'[q] = IF q = r THEN GroupInterval ELSE next[q]
    BY Zenon, <1>1, <2>1 DEF Domains
  <2>3. QED  BY <1>1, <1>2, <1>3, <2>1, <2>2 DEF InPhase, Close
<1>6. CASE next' = next
  BY <1>1, <1>6, Zenon DEF InPhase, Close
<1>7. Tick \/ (\E r \in Peer : HAFlush(r)) \/ next' = next
  BY CalmSteps, Zenon DEF HAWaited, HADedupStage, Notify, HASetNotifiesStage, MergeRemoteState, Merge
<1>8. QED  BY Zenon, <1>4, <1>5, <1>6, <1>7

\* An entry a peer has told of stays with it, or gives way to a newer one.
LEMMA StillKnown ==
    ASSUME Setting, TimeInv, stable, Punctual, HANext, quiet' = quiet, NEW p \in Peer, Known(p)
    PROVE  Known(p)'
<1>1. Domains /\ msgs \subseteq Entry /\ quiet \in Nat /\ \A q \in Peer : TypeOf(q)
  BY Zenon DEF TimeInv, Typed
<1>2. hlog[p] \in Int /\ -1 <= hlog[p]
  BY Zenon, <1>1 DEF TypeOf
<1>3. CASE hlog'[p] = hlog[p]
  BY <1>3, Zenon DEF Known
<1>4. CASE hlog'[p] \in Nat /\ hlog'[p] <= hlog[p]
  BY <1>1, <1>2, <1>4 DEF Known, None
<1>5. ~Tick
  <2>1. quiet + 1 # quiet
    BY <1>1
  <2>2. QED  BY <2>1, Zenon DEF Tick
<1>6. CASE HASetNotifiesStage(p)
  BY <1>1, <1>2, <1>6, OwnLogs DEF Known, None
<1>7. ASSUME NEW q \in Peer, MergeRemoteState(p, q)  PROVE  Known(p)'
  <2>1. hlog'[p] = hlog[q] /\ hlog[q] # None /\ (hlog[p] = None \/ hlog[q] < hlog[p])
    BY <1>1, <1>7, OwnRemote, Zenon DEF Newer
  <2>2. hlog[q] \in Nat
    BY <1>1, <2>1 DEF TypeOf, None
  <2>3. QED  BY <1>1, <1>2, <2>1, <2>2 DEF Known
<1>8. ASSUME NEW m \in msgs, Merge(m)  PROVE  Known(p)'
  <2>1. m.to \in Peer /\ m.age \in Nat
    BY <1>1 DEF Entry
  <2>2. hlog'[p] = hlog[p] \/ (hlog'[p] = m.age /\ Newer(m.age, hlog[p]))
    BY Zenon, <1>1, <1>8, <2>1, OwnMerge
  <2>3. QED  BY <1>1, <1>2, <2>1, <2>2 DEF Known, None, Newer
<1>9. ASSUME NEW q \in Peer, OfPeer(q), q # p  PROVE  hlog'[p] = hlog[p]
  BY <1>1, <1>9, Others, Zenon DEF Same
<1>10. ASSUME HAFlush(p) \/ HAWaited(p) \/ HADedupStage(p) \/ Notify(p)  PROVE  hlog'[p] = hlog[p]
  BY <1>10, Zenon DEF HAFlush, HAWaited, HADedupStage, Notify
<1>11. QED  BY <1>3, <1>5, <1>6, <1>7, <1>8, <1>9, <1>10, CalmSteps, Zenon DEF OfPeer

\* A step that takes no time does not bring a peer nearer to its log.
LEMMA NoNearer ==
    ASSUME Setting, TimeInv, stable, Punctual, HANext, ~Tick, NEW p \in Peer
    PROVE  ToDedup(p) \in Nat /\ ToDedup(p)' \in Nat /\ ToDedup(p) <= ToDedup(p)'
<1>1. Domains /\ msgs \subseteq Entry /\ TypeOf(p) /\ Stage(p) /\ OnTime(p)
  BY Zenon DEF TimeInv, Typed, Times, Punctual
<1>2. Turn(p) \in Nat /\ GroupInterval \in Nat
  BY Zenon, Turns, Numbers
<1>3. next[p] \in Nat /\ rem[p] \in Nat
  BY <1>1, Zenon DEF TypeOf
<1>4. ToDedup(p) \in Nat
  BY <1>2, <1>3 DEF ToDedup
<1>5. CASE SameStage(p)
  <2>1. ToDedup(p)' = ToDedup(p)
    BY <1>5, Zenon DEF ToDedup, SameStage
  <2>2. QED  BY <1>4, <2>1
<1>6. CASE HAFlush(p)
  <2>1. clusterWait(p) = Turn(p)
    BY Zenon, <1>1, WaitsAtMost DEF OnTime
  <2>2. hpc[p] = "idle" /\ next[p] = 0 /\ hpc'[p] = "wait" /\ rem'[p] = Turn(p)
    BY Zenon, <1>1, <1>6, <2>1, OwnFlush
  <2>3. QED  BY <1>2, <2>2 DEF ToDedup
<1>7. CASE HAWaited(p)
  BY <1>1, <1>7, OwnWaited DEF ToDedup
<1>8. CASE HADedupStage(p)
  BY <1>1, <1>2, <1>3, <1>8, OwnDedup DEF ToDedup
<1>9. CASE Notify(p)
  BY <1>1, <1>2, <1>3, <1>9, OwnNotify DEF ToDedup
<1>10. CASE HASetNotifiesStage(p)
  BY <1>1, <1>2, <1>3, <1>10, OwnLogs DEF ToDedup
<1>11. ASSUME NEW q \in Peer, OfPeer(q), q # p  PROVE  SameStage(p)
  BY <1>1, <1>11, Others, Zenon DEF Same
<1>12. ASSUME NEW q \in Peer, MergeRemoteState(p, q)  PROVE  SameStage(p)
  BY Zenon, <1>1, <1>12, OwnRemote
<1>13. ASSUME NEW m \in msgs, Merge(m)  PROVE  SameStage(p)
  <2>1. m.to \in Peer
    BY Zenon, <1>1 DEF Entry
  <2>2. QED  BY Zenon, <1>1, <1>13, <2>1, OwnMerge
<1>14. QED
  BY <1>5, <1>6, <1>7, <1>8, <1>9, <1>10, <1>11, <1>12, <1>13, CalmSteps, Zenon DEF OfPeer

LEMMA StepTold ==
    ASSUME Setting, WellTimed, TimeInv, stable, Punctual, HANext, NEW p \in Peer, Told(p)
    PROVE  Told(p)'
<1>1. /\ Domains /\ msgs \subseteq Entry /\ quiet \in Nat
      /\ \A q \in Peer : TypeOf(q) /\ Stage(q) /\ OnTime(q)
  BY Zenon DEF TimeInv, Typed, Times, Punctual
<1>2. \A m \in msgs : m.to \in Peer /\ m.age \in Nat /\ m.ttl \in Nat
  BY <1>1, Numbers DEF Entry
<1>3. MaxGossip \in Nat /\ AgeCap \in Nat /\ Turn(p) \in Nat
  BY Numbers, Turns
<1>4. CASE Tick
  <2>1. /\ quiet' = quiet + 1 /\ first' = first /\ hpc'[p] = hpc[p]
        /\ msgs' = {[to |-> m.to, age |-> Older(m.age), ttl |-> m.ttl - 1] : m \in msgs}
    BY <1>4, TickMsgs, TickNext, Zenon
  <2>2. ToDedup(p) \in Nat /\ ToDedup(p)' = ToDedup(p) - 1
    BY <1>3, <1>4, TickNext DEF ToDedup
  <2>3. CASE Known(p)
    <3>1. hlog'[p] = Older(hlog[p])
      BY Zenon, <1>4, TickNext
    <3>2. hlog[p] \in Nat /\ hlog[p] <= AgeCap /\ hlog[p] <= quiet
      BY <1>1, <2>3 DEF TypeOf, Known, None
    <3>3. Known(p)'
      BY <1>1, <1>3, <2>1, <3>1, <3>2 DEF Known, Older, None
    <3>4. QED  BY <3>3, Zenon DEF Told
  <2>4. CASE Sent(p)
    <3>1. PICK m \in msgs : m.to = p /\ m.age <= quiet /\ m.ttl < ToDedup(p)
      BY <2>4, Zenon DEF Sent
    <3> DEFINE e == [to |-> m.to, age |-> Older(m.age), ttl |-> m.ttl - 1]
    <3>2. e \in msgs'
      BY <2>1, Zenon
    <3>3. e.to = p /\ e.age = Older(m.age) /\ e.ttl = m.ttl - 1
      BY Zenon, <3>1
    <3>4. e.age <= quiet' /\ e.ttl < ToDedup(p)'
      BY <1>1, <1>2, <1>3, <2>1, <2>2, <3>1, <3>3 DEF Older, None
    <3>5. Sent(p)'
      BY <3>2, <3>3, <3>4, Zenon DEF Sent
    <3>6. QED  BY <3>5, Zenon DEF Told
  <2>5. CASE ToSend(p)
    <3>1. PICK q \in Peer : q # p /\ hpc[q] = "log" /\ rem[q] + MaxGossip < ToDedup(p)
      BY <2>5, Zenon DEF ToSend
    <3>2. hpc'[q] = "log" /\ rem'[q] + MaxGossip < ToDedup(p)'
      BY <1>3, <1>4, <2>2, <3>1, TickNext
    <3>3. ToSend(p)'
      BY <3>1, <3>2, Zenon DEF ToSend
    <3>4. QED  BY <3>3, Zenon DEF Told
  <2>6. QED  BY <2>1, <2>3, <2>4, <2>5, Zenon DEF Told
<1>5. ASSUME NEW r \in Peer, Notify(r)  PROVE  Told(p)'
  <2>1. CASE p = r
    BY <1>1, <1>5, <2>1, OwnNotify, Zenon DEF Told
  <2>2. CASE p # r
    <3>1. hpc[r] = "notify" /\ hpc'[r] = "log" /\ rem'[r] = rem[r] /\ rem[r] \in Nat
      BY <1>1, <1>5, OwnNotify, Zenon DEF TypeOf
    <3>2. rem[r] + MaxGossip < ToDedup(p)
      BY Zenon, <2>2, <3>1, HeardBefore
    <3>3. ~Tick
      BY Zenon, <1>1, <1>5, <3>1, OwnTick
    <3>4. ToDedup(p) \in Nat /\ ToDedup(p)' \in Nat /\ ToDedup(p) <= ToDedup(p)'
      BY Zenon, <3>3, NoNearer
    <3>5. rem'[r] + MaxGossip < ToDedup(p)'
      BY <1>3, <3>1, <3>2, <3>4
    <3>6. ToSend(p)'
      BY <2>2, <3>1, <3>5, Zenon DEF ToSend
    <3>7. QED  BY <3>6, Zenon DEF Told
  <2>3. QED  BY Zenon, <2>1, <2>2
<1>6. ASSUME ~Tick, \A r \in Peer : ~Notify(r)  PROVE  Told(p)'
  <2>1. ToDedup(p) \in Nat /\ ToDedup(p)' \in Nat /\ ToDedup(p) <= ToDedup(p)'
    BY Zenon, <1>6, NoNearer
  <2>2. quiet' = quiet /\ first' = first
    BY <1>6, CalmSteps, Zenon DEF HAFlush, HAWaited, HADedupStage, HASetNotifiesStage, MergeRemoteState, Merge
  <2>3. CASE first
    BY <2>2, <2>3, Zenon DEF Told
  <2>4. CASE Known(p)
    BY <2>2, <2>4, StillKnown, Zenon DEF Told
  <2>5. ASSUME NEW q \in Peer, hpc[q] = "log"
        PROVE  HASetNotifiesStage(q) \/ (hpc'[q] = "log" /\ rem'[q] = rem[q])
    <3>1. ASSUME NEW r \in Peer, OfPeer(r), r # q  PROVE  hpc'[q] = hpc[q] /\ rem'[q] = rem[q]
      BY <1>1, <3>1, Others, Zenon DEF Same, SameStage
    <3>2. ~HAFlush(q) /\ ~HAWaited(q) /\ ~HADedupStage(q) /\ ~Notify(q)
      BY Zenon, <2>5 DEF HAFlush, HAWaited, HADedupStage, Notify
    <3>3. ASSUME NEW r \in Peer, MergeRemoteState(q, r)  PROVE  hpc'[q] = hpc[q] /\ rem'[q] = rem[q]
      BY <3>3, Zenon DEF MergeRemoteState
    <3>4. ASSUME NEW m \in msgs, Merge(m)  PROVE  hpc'[q] = hpc[q] /\ rem'[q] = rem[q]
      BY <3>4, Zenon DEF Merge
    <3>5. QED  BY <1>6, <2>5, <3>1, <3>2, <3>3, <3>4, CalmSteps, Zenon DEF OfPeer
  <2>6. CASE hpc[p] = "log"
    <3>1. HASetNotifiesStage(p) => Known(p)'
      BY <1>1, <2>2, OwnLogs DEF Known, None
    <3>2. QED  BY <2>5, <2>6, <3>1, Zenon DEF Told
  <2>7. CASE Sent(p)
    <3>1. PICK m \in msgs : m.to = p /\ m.age <= quiet /\ m.ttl < ToDedup(p)
      BY <2>7, Zenon DEF Sent
    <3>2. m.ttl < ToDedup(p)' /\ m.age <= quiet'
      BY <1>2, <2>1, <2>2, <3>1
    <3>3. CASE m \in msgs'
      BY <3>1, <3>2, <3>3, Zenon DEF Told, Sent
    <3>4. CASE m \notin msgs'
      <4>1. Merge(m)
        BY <1>6, <3>4, CalmSteps, Zenon DEF HAFlush, HAWaited, HADedupStage, HASetNotifiesStage, MergeRemoteState, Merge
      <4>2. up[p] /\ m.to \in Peer /\ m.age \in Nat /\ hlog[p] \in Int /\ -1 <= hlog[p]
        BY Zenon, <1>1, <1>2 DEF OnTime, TypeOf
      <4>3. (Newer(m.age, hlog[p]) /\ hlog'[p] = m.age) \/ (~Newer(m.age, hlog[p]) /\ hlog'[p] = hlog[p])
        BY Zenon, <1>1, <3>1, <4>1, <4>2, OwnMerge
      <4>4. Known(p)'
        BY <1>1, <2>2, <3>1, <4>2, <4>3 DEF Newer, Known, None
      <4>5. QED  BY <4>4, Zenon DEF Told
    <3>5. QED  BY Zenon, <3>3, <3>4
  <2>8. CASE ToSend(p)
    <3>1. PICK q \in Peer : q # p /\ hpc[q] = "log" /\ rem[q] + MaxGossip < ToDedup(p)
      BY <2>8, Zenon DEF ToSend
    <3>2. rem[q] \in Nat
      BY <1>1, Zenon DEF TypeOf
    <3>3. rem[q] + MaxGossip < ToDedup(p)' /\ MaxGossip < ToDedup(p)'
      BY <1>3, <2>1, <3>1, <3>2
    <3>4. CASE hpc'[q] = "log" /\ rem'[q] = rem[q]
      <4>1. ToSend(p)'
        BY <3>1, <3>3, <3>4, Zenon DEF ToSend
      <4>2. QED  BY <4>1, Zenon DEF Told
    <3>5. CASE HASetNotifiesStage(q)
      <4> DEFINE e == [to |-> p, age |-> 0, ttl |-> MaxGossip]
      <4>1. e \in msgs'
        BY <3>1, <3>5, Zenon DEF HASetNotifiesStage
      <4>2. e.to = p /\ e.age = 0 /\ e.ttl = MaxGossip
        OBVIOUS
      <4>3. e.age <= quiet' /\ e.ttl < ToDedup(p)'
        BY <1>1, <2>2, <3>3, <4>2
      <4>4. Sent(p)'
        BY <4>1, <4>2, <4>3, Zenon DEF Sent
      <4>5. QED  BY <4>4, Zenon DEF Told
    <3>6. QED  BY <2>5, <3>1, <3>4, <3>5, Zenon
  <2>9. QED  BY <2>3, <2>4, <2>6, <2>7, <2>8, Zenon DEF Told
<1>7. QED  BY <1>4, <1>5, <1>6, Zenon

LEMMA StepNeeded ==
    ASSUME Setting, WellTimed, TimeInv, stable, Punctual, HANext, NEW p \in Peer, Told(p), Needed(p)
    PROVE  Needed(p)'
<1>1. /\ Domains /\ msgs \subseteq Entry /\ quiet \in Nat /\ Repeat \in Nat /\ MaxGossip \in Nat
      /\ \A q \in Peer : TypeOf(q) /\ Stage(q)
  BY Numbers, Zenon DEF TimeInv, Typed, Times
<1>2. \A m \in msgs : m.to \in Peer /\ m.ttl \in Nat
  BY <1>1, Numbers DEF Entry
<1>3. CASE Tick
  <2>1. quiet' = quiet + 1 /\ first' = first /\ hpc'[p] = hpc[p]
    BY <1>3, TickMsgs, TickNext, Zenon
  <2>2. QED  BY <1>1, <2>1 DEF Needed
<1>4. ASSUME NEW r \in Peer, Notify(r)  PROVE  Needed(p)'
  <2>1. CASE p = r
    BY Zenon, <1>1, <1>4, <2>1, OwnNotify DEF Needed
  <2>2. CASE p # r
    <3>1. hpc[r] = "notify" /\ hpc'[p] = hpc[p]
      BY Zenon, <1>1, <1>4, <2>2 DEF Notify, Domains
    <3>2. hpc[p] # "notify"
      BY Zenon, <2>2, <3>1, Apart
    <3>3. QED  BY <3>1, <3>2, Zenon DEF Needed
  <2>3. QED  BY Zenon, <2>1, <2>2
<1>5. CASE HADedupStage(p)
  <2>1. hpc[p] = "dedup" /\ quiet' = quiet /\ first' = first
    BY <1>5, Zenon DEF HADedupStage
  <2>2. ToDedup(p) = 0
    BY Zenon, <2>1 DEF ToDedup
  <2>3. ~Sent(p)
    BY <1>2, <2>2 DEF Sent
  <2>4. ~ToSend(p)
    BY <1>1, <2>2 DEF ToSend, TypeOf
  <2>5. first \/ Known(p)
    BY Zenon, <2>1, <2>3, <2>4 DEF Told
  <2>6. HAneedsUpdate(p) => first \/ quiet > Repeat
    BY <1>1, <2>5 DEF HAneedsUpdate, Known, TypeOf
  <2>7. hpc'[p] = "notify" => HAneedsUpdate(p)
    BY Zenon, <1>1, <1>5, OwnDedup
  <2>8. QED  BY <2>1, <2>6, <2>7, Zenon DEF Needed
<1>6. ASSUME ~Tick, \A r \in Peer : ~Notify(r), ~HADedupStage(p)  PROVE  Needed(p)'
  <2>1. quiet' = quiet /\ first' = first
    BY <1>6, CalmSteps, Zenon DEF HAFlush, HAWaited, HADedupStage, HASetNotifiesStage, MergeRemoteState, Merge
  <2>2. hpc'[p] = "notify" => hpc[p] = "notify"
    <3>1. ASSUME NEW r \in Peer, OfPeer(r), r # p  PROVE  hpc'[p] = hpc[p]
      BY <1>1, <3>1, Others, Zenon DEF Same, SameStage
    <3>2. ASSUME HAFlush(p) \/ HAWaited(p) \/ HASetNotifiesStage(p)  PROVE  hpc'[p] # "notify"
      BY Zenon, <1>1, <3>2, OwnFlush, OwnWaited, OwnLogs
    <3>3. ASSUME NEW r \in Peer, MergeRemoteState(p, r)  PROVE  hpc'[p] = hpc[p]
      BY <3>3, Zenon DEF MergeRemoteState
    <3>4. ASSUME NEW m \in msgs, Merge(m)  PROVE  hpc'[p] = hpc[p]
      BY <3>4, Zenon DEF Merge
    <3>5. QED  BY <1>6, <3>1, <3>2, <3>3, <3>4, CalmSteps, Zenon DEF OfPeer
  <2>3. QED  BY <2>1, <2>2, Zenon DEF Needed
<1>7. QED  BY <1>3, <1>4, <1>5, <1>6, Zenon

LEMMA StepCalm ==
    ASSUME Setting, WellTimed, TimeInv, Calm, [HANext]_haVars
    PROVE  Calm'
<1>1. CASE UNCHANGED haVars
  <2>1. UNCHANGED <<stable, up, view, hpc, next, rem, since, hlog, msgs, quiet, first>>
    BY <1>1, Zenon DEF haVars
  <2>2. Punctual' = Punctual
    BY <2>1, Zenon DEF Punctual, OnTime, InPhase, Close
  <2>3. \A p \in Peer : (Told(p)' = Told(p)) /\ (Needed(p)' = Needed(p))
    BY <2>1, Zenon DEF Told, Needed, Known, Sent, ToSend, ToDedup
  <2>4. QED  BY <2>1, <2>2, <2>3, Zenon DEF Calm
<1>2. CASE HANext
  <2>1. stable' = stable
    BY <1>2, Zenon DEF HANext, Tick, HAFlush, HAWaited, HADedupStage, Notify, HANotifyFails, HASetNotifiesStage, Crash,
                       Restart, Suspect, MergeRemoteState, Merge, Lose
  <2>2. ASSUME stable
        PROVE  Punctual' /\ \A p \in Peer : Told(p)' /\ Needed(p)'
    <3>1. Punctual /\ \A p \in Peer : Told(p) /\ Needed(p)
      BY <2>2, Zenon DEF Calm
    <3>2. \A p \in Peer : OnTime(p)'
      BY <1>2, <2>2, <3>1, StepOnTime, Zenon
    <3>3. \A p, q \in Peer : InPhase(p, q)'
      BY <1>2, <2>2, <3>1, StepInPhase, Zenon
    <3>4. \A p \in Peer : Told(p)' /\ Needed(p)'
      BY <1>2, <2>2, <3>1, StepTold, StepNeeded, Zenon
    <3>5. QED  BY <3>2, <3>3, <3>4, Zenon DEF Punctual
  <2>3. QED  BY <2>1, <2>2, Zenon DEF Calm
<1>3. QED  BY Zenon, <1>1, <1>2

\* No duplicate, for any number of peers: when nothing fails and the peer timeout and the group
\* interval exceed the delays of the cluster, the receiver is notified again only after the repeat
\* interval (ClusterWaitStage, Peer.Position, DedupStage, SetNotifiesStage, Log.Merge).
THEOREM NoDuplicateThm ==
    ASSUME Setting
    PROVE  HASpec => NoDuplicate
<1>1. CASE ~WellTimed
  <2>1. NotTwice
    BY <1>1, Zenon DEF NotTwice
  <2>2. QED  BY <2>1, PTL DEF NoDuplicate
<1>2. CASE WellTimed
  <2>1. HAInit => Calm
    BY Zenon, InitCalm
  <2>2. TimeInv /\ Calm /\ [HANext]_haVars => Calm'
    BY Zenon, <1>2, StepCalm
  <2>3. Calm => NotTwice
    BY Zenon DEF Calm, NotTwice, Needed, Notify
  <2>4. QED  BY <2>1, <2>2, <2>3, TimeAlways, PTL DEF HASpec, NoDuplicate
<1>3. QED  BY Zenon, <1>1, <1>2

-----------------------------------------------------------------------------
(* The pipeline of one instance *)

Entries == [firing : SUBSET Alert, resolved : SUBSET Alert]

LEMMA InitType == Init => TypeOK
<1> SUFFICES ASSUME Init PROVE TypeOK
  OBVIOUS
<1>1. Nothing \in [Alert -> Status]
  BY Zenon DEF Nothing, Status
<1> QED BY ZenonT(60), <1>1 DEF Init, TypeOK, NextStage

\* The parts of the state in which the actions differ.
LEMMA FinishType == ASSUME TypeOK, scene' = scene, NEW ok \in BOOLEAN, Finish(ok) PROVE TypeOK'
<1>1. Nothing \in [Alert -> Status] /\ grp' \in [Alert -> Status]
  BY Zenon DEF Nothing, Status, TypeOK, Finish
<1>2. ipc' \in [Integration -> {"idle", "wait", "dedup", "retry", "log", "done", "failed"}]
  BY Zenon DEF Finish
<1> QED BY ZenonT(60), <1>1, <1>2 DEF TypeOK, Finish, NextStage

LEMMA PassType ==
    ASSUME TypeOK, scene' = scene, pc \in DOMAIN NextStage, NEW kept \in SUBSET Alert, Pass(kept)
    PROVE  TypeOK'
<1>1. pc' \in {NextStage[s] : s \in DOMAIN NextStage}
  BY Zenon DEF Pass
<1> QED BY Zenon, <1>1 DEF TypeOK, Pass

LEMMA IntegrationType ==
    ASSUME TypeOK, scene' = scene, NEW i \in Integration, IntegrationNext(i) PROVE TypeOK'
<1>1. firing \subseteq Alert /\ resolved \subseteq Alert
  BY Zenon DEF firing, resolved, TypeOK
<1>2. ASSUME NEW l \in {"dedup", "retry", "log", "done", "failed"}, Go(i, l)
      PROVE  ipc' \in [Integration -> {"idle", "wait", "dedup", "retry", "log", "done", "failed"}]
  BY Zenon, <1>2 DEF Go, TypeOK
<1>3. CASE Waited(i) \/ WaitFails(i) \/ NotifyFails(i) \/ NothingToSend(i)
  BY Zenon, <1>2, <1>3 DEF Waited, WaitFails, NotifyFails, NothingToSend, TypeOK, flushVars
<1>4. CASE DedupStage(i)
  BY Zenon, <1>2, <1>4 DEF DedupStage, TypeOK, flushVars
<1>5. ASSUME Deliver(i) PROVE told' \in [Integration -> [Alert -> Status]]
  <2>1. [a \in Alert |-> IF a \in firing \/ (a \in resolved /\ i \in SendResolved)
                         THEN batch[a] ELSE told[i][a]] \in [Alert -> Status]
    BY Zenon DEF TypeOK
  <2> QED BY Zenon, <1>5, <2>1 DEF Deliver, TypeOK
<1>6. CASE NotifyOk(i)
  <2>1. acked' \in [Integration -> SUBSET Alert]
    BY Zenon, <1>1, <1>6 DEF NotifyOk, TypeOK
  <2> QED BY Zenon, <1>2, <1>5, <1>6, <2>1 DEF NotifyOk, TypeOK, flushVars
<1>7. CASE NotifyLost(i)
  BY Zenon, <1>5, <1>7 DEF NotifyLost, TypeOK, flushVars
<1>8. CASE SetNotifiesStage(i)
  <2>1. log' \in [Integration -> Entries \cup {NoEntry}]
    BY Zenon, <1>1, <1>8 DEF SetNotifiesStage, TypeOK, Entries
  <2>2. stale' \in [Integration -> BOOLEAN]
    BY Zenon, <1>8 DEF SetNotifiesStage, TypeOK
  <2> QED BY Zenon, <1>2, <1>8, <2>1, <2>2 DEF SetNotifiesStage, TypeOK, flushVars, Entries
<1> QED BY Zenon, <1>3, <1>4, <1>6, <1>7, <1>8 DEF IntegrationNext

LEMMA TypeStep == ASSUME TypeOK, [Next]_vars PROVE TypeOK'
<1>0. scene' = scene
  BY Zenon DEF Next, InScene, vars
<1>1. ASSUME NEW a \in Alert, NEW s \in {"firing", "resolved"}, Put(a, s) PROVE TypeOK'
  BY Zenon, <1>0, <1>1 DEF Put, TypeOK, Status
<1>2. ASSUME NEW a \in Alert, TimeOut(a) PROVE TypeOK'
  BY Zenon, <1>0, <1>2 DEF TimeOut, TypeOK, Status, flushVars
<1>3. CASE Flush
  BY Zenon, <1>0, <1>3 DEF Flush, TypeOK, NextStage
<1>4. CASE Deadline \/ GossipSettles
  BY ZenonT(60), <1>0, <1>4 DEF Deadline, GossipSettles, TypeOK, flushVars
<1>5. CASE StageNext
  <2>1. CASE Settled
    BY Zenon, <1>0, <2>1, PassType DEF Settled, NextStage, TypeOK
  <2>2. CASE SettleFails \/ NothingLeft \/ FanoutReturns
    BY ZenonT(60), <1>0, <2>2, FinishType DEF SettleFails, NothingLeft, FanoutReturns
  <2>3. CASE Fanout
    BY Zenon, <1>0, <2>3 DEF Fanout, TypeOK
  <2>4. ASSUME NEW muted \in SUBSET cur, MuteStage(muted) PROVE TypeOK'
    BY Zenon, <1>0, <2>4, PassType DEF MuteStage, NextStage, TypeOK
  <2>5. ASSUME NEW muted \in BOOLEAN, TimeStage(muted) PROVE TypeOK'
    BY Zenon, <1>0, <2>5, PassType DEF TimeStage, NextStage, TypeOK
  <2> QED BY Zenon, <1>0, <1>5, <2>1, <2>2, <2>3, <2>4, <2>5 DEF StageNext
<1>6. ASSUME NEW i \in Integration, IntegrationNext(i) PROVE TypeOK'
  BY Zenon, <1>0, <1>6, IntegrationType
<1>7. ASSUME NEW i \in Integration, RepeatElapses(i) PROVE TypeOK'
  BY Zenon, <1>0, <1>7 DEF RepeatElapses, TypeOK, flushVars
<1>8. ASSUME NEW i \in Integration, Expire(i) PROVE TypeOK'
  <2>1. log' \in [Integration -> Entries \cup {NoEntry}]
    BY Zenon, <1>0, <1>8 DEF Expire, TypeOK, Entries
  <2>2. stale' \in [Integration -> BOOLEAN]
    BY Zenon, <1>0, <1>8 DEF Expire, TypeOK
  <2> QED BY Zenon, <1>0, <1>8, <2>1, <2>2 DEF Expire, TypeOK, flushVars, Entries
<1>9. CASE UNCHANGED vars
  BY Zenon, <1>0, <1>9 DEF vars, flushVars, TypeOK
<1> QED BY Zenon, <1>0, <1>1, <1>2, <1>3, <1>4, <1>5, <1>6, <1>7, <1>8, <1>9 DEF Next, InScene, Step

\* Every variable of the pipeline keeps its type.
THEOREM TypeCorrect == Spec => []TypeOK
BY InitType, TypeStep, PTL DEF Spec

-----------------------------------------------------------------------------
(* The log is truthful *)

\* The integrations work only while the receiver's stage runs; what is about
\* to be logged was accepted, or there was nothing to send.
Accepted ==
    \A i \in Integration :
        /\ ipc[i] # "idle" => pc = "receiver"
        /\ ipc[i] = "log" => acked[i] = firing \/ (firing = {} /\ i \notin SendResolved)

TInv == TypeOK /\ LogIsTruthful /\ Accepted

\* Steps after which no integration is at work.
LEMMA QuietTruth ==
    ASSUME TInv, TypeOK', UNCHANGED <<log, acked>>, \A i \in Integration : ipc[i] # "log",
           \A i \in Integration : ipc'[i] = "idle" \/ (pc' = "receiver" /\ ipc'[i] # "log")
    PROVE  TInv'
BY Zenon DEF TInv, LogIsTruthful, Accepted

\* Steps of the environment.
LEMMA SameTruth ==
    ASSUME TInv, TypeOK', UNCHANGED <<pc, batch, cur, ipc, acked>>,
           \A i \in Integration : log'[i] = log[i] \/ log'[i] = NoEntry
    PROVE  TInv'
BY Zenon DEF TInv, LogIsTruthful, Accepted, firing

LEMMA IntegrationTruth == ASSUME TInv, TypeOK', NEW i \in Integration, IntegrationNext(i) PROVE TInv'
<1>0. TypeOK /\ LogIsTruthful /\ Accepted
  BY Zenon DEF TInv
<1>1. ipc[i] # "idle" /\ pc' = "receiver" /\ UNCHANGED <<pc, batch, cur>> /\ firing' = firing
  BY Zenon, <1>0 DEF IntegrationNext, Waited, WaitFails, DedupStage, NothingToSend, NotifyOk, NotifyLost,
     NotifyFails, SetNotifiesStage, Accepted, flushVars, firing
<1>2. \A j \in Integration \ {i} : ipc'[j] = ipc[j] /\ acked'[j] = acked[j] /\ log'[j] = log[j]
  BY Zenon, <1>0 DEF IntegrationNext, Waited, WaitFails, DedupStage, NothingToSend, NotifyOk, NotifyLost,
     NotifyFails, SetNotifiesStage, Go, TypeOK
<1>3. /\ log'[i] # NoEntry /\ ipc'[i] # "log" /\ log'[i].firing # {} => acked'[i] = log'[i].firing
      /\ ipc'[i] = "log" => acked'[i] = firing \/ (firing = {} /\ i \notin SendResolved)
  <2>1. CASE Waited(i) \/ WaitFails(i) \/ DedupStage(i) \/ NotifyFails(i) \/ NothingToSend(i)
    <3>1. ipc'[i] \in {"dedup", "retry", "done", "failed"} \/ (NothingToSend(i) /\ ipc'[i] = "log")
      BY Zenon, <1>0, <2>1 DEF Waited, WaitFails, DedupStage, NotifyFails, NothingToSend, Go, TypeOK
    <3>2. UNCHANGED <<log, acked>> /\ ipc[i] # "log"
      BY Zenon, <2>1 DEF Waited, WaitFails, DedupStage, NotifyFails, NothingToSend
    <3> QED BY Zenon, <1>0, <3>1, <3>2 DEF LogIsTruthful, NothingToSend
  <2>2. CASE NotifyOk(i)
    BY Zenon, <1>0, <2>2 DEF NotifyOk, Go, TypeOK
  <2>3. CASE NotifyLost(i)
    BY Zenon, <1>0, <2>3 DEF NotifyLost, LogIsTruthful
  <2>4. CASE SetNotifiesStage(i)
    <3>1. log'[i] = [firing |-> firing, resolved |-> resolved] /\ acked' = acked /\ ipc'[i] = "done"
      BY Zenon, <1>0, <2>4 DEF SetNotifiesStage, Go, TypeOK
    <3>2. acked[i] = firing \/ firing = {}
      BY Zenon, <1>0, <2>4 DEF SetNotifiesStage, Accepted
    <3> QED BY <3>1, <3>2
  <2> QED BY Zenon, <2>1, <2>2, <2>3, <2>4 DEF IntegrationNext
<1>4. LogIsTruthful'
  BY Zenon, <1>0, <1>2, <1>3 DEF LogIsTruthful
<1>5. Accepted'
  BY Zenon, <1>0, <1>1, <1>2, <1>3 DEF Accepted
<1> QED BY Zenon, <1>4, <1>5 DEF TInv

LEMMA TruthStep == ASSUME TInv, [Next]_vars PROVE TInv'
<1>0. TypeOK' /\ TypeOK /\ Accepted
  BY Zenon, TypeStep DEF TInv
<1>1. ASSUME pc # "receiver" PROVE \A i \in Integration : ipc[i] = "idle"
  BY Zenon, <1>0, <1>1 DEF Accepted
<1>2. CASE Flush
  BY Zenon, <1>0, <1>1, <1>2, QuietTruth DEF Flush
<1>3. CASE StageNext
  <2>1. CASE FanoutReturns
    BY Zenon, <1>0, <2>1, QuietTruth DEF FanoutReturns, Finish
  <2>2. CASE Fanout
    BY Zenon, <1>0, <1>1, <2>2, QuietTruth DEF Fanout
  <2>3. CASE ~FanoutReturns /\ ~Fanout
    <3>1. pc # "receiver" /\ UNCHANGED <<log, acked>> /\ ((\E ok \in BOOLEAN : Finish(ok)) \/ ipc' = ipc)
      BY ZenonT(60), <1>3, <2>3 DEF StageNext, Settled, SettleFails, NothingLeft, MuteStage, TimeStage, Pass,
         Finish, NextStage
    <3>2. \A i \in Integration : ipc'[i] = "idle"
      BY Zenon, <1>1, <3>1 DEF Finish
    <3> QED BY Zenon, <1>0, <1>1, <3>1, <3>2, QuietTruth
  <2> QED BY Zenon, <2>1, <2>2, <2>3
<1>4. ASSUME NEW i \in Integration, RepeatElapses(i) \/ Expire(i) PROVE TInv'
  BY Zenon, <1>0, <1>4, SameTruth DEF RepeatElapses, Expire, TypeOK, flushVars
<1>5. CASE Deadline \/ GossipSettles \/ UNCHANGED vars
  BY Zenon, <1>0, <1>5, SameTruth DEF Deadline, GossipSettles, flushVars, vars
<1>6. ASSUME NEW a \in Alert, TimeOut(a) \/ \E s \in {"firing", "resolved"} : Put(a, s) PROVE TInv'
  BY Zenon, <1>0, <1>6, SameTruth DEF TimeOut, Put, flushVars
<1> QED BY Zenon, <1>0, <1>2, <1>3, <1>4, <1>5, <1>6, IntegrationTruth DEF Next, InScene, Step

\* An entry of the notification log is never the trace of a notification that
\* failed: SetNotifiesStage runs only after RetryStage succeeded.
THEOREM LogIsTruthfulThm == Spec => []LogIsTruthful
<1>1. Init => TInv
  BY Zenon, InitType DEF Init, TInv, LogIsTruthful, Accepted
<1>2. TInv => LogIsTruthful
  BY Zenon DEF TInv
<1> QED BY <1>1, <1>2, TruthStep, PTL DEF Spec

-----------------------------------------------------------------------------
(* No resolved alert is forgotten too early *)

\* Without muting the whole batch stays in the pipeline, and in the group.
BatchStays ==
    pc # "idle" => /\ cur = {a \in Alert : batch[a] # "none"} /\ cur # {}
                   /\ \A a \in Alert : batch[a] # "none" => grp[a] # "none"

\* An alert that is not in the batch is not firing for a receiver.
AbsentIsNotFiring ==
    \A i \in SendResolved, a \in Alert : pc # "idle" /\ batch[a] = "none" => told[i][a] # "firing"

\* What a receiver takes for firing is in the log, or about to be.
FiringIsLogged ==
    \A i \in SendResolved, a \in Alert : told[i][a] = "firing" =>
        IF ipc[i] = "log" THEN a \in firing ELSE log[i] # NoEntry /\ a \in log[i].firing

\* No alert is logged as firing and as resolved.
LogDisjoint == \A i \in Integration : log[i] # NoEntry => log[i].firing \cap log[i].resolved = {}

\* An integration that has finished left no resolved alert of the batch firing.
DoneTold ==
    \A i \in SendResolved, a \in Alert :
        ipc[i] \in {"log", "done"} /\ batch[a] = "resolved" => told[i][a] # "firing"

\* ResolvedBeforeForgotten without its condition.
ToldBeforeForgotten ==
    \A i \in SendResolved, a \in Alert : grp[a] = "none" => told[i][a] # "firing"

AtWork == \A i \in Integration : ipc[i] # "idle" => pc = "receiver"

RInv == /\ TypeOK /\ BatchStays /\ AbsentIsNotFiring /\ FiringIsLogged /\ LogDisjoint /\ DoneTold
        /\ AtWork /\ ToldBeforeForgotten

\* Steps of the environment.
LEMMA EnvResolved ==
    ASSUME RInv, TypeOK', UNCHANGED <<pc, batch, cur, ipc, log, told>>,
           \A a \in Alert : grp'[a] = "none" => grp[a] = "none"
    PROVE  RInv'
BY Zenon DEF RInv, BatchStays, AbsentIsNotFiring, FiringIsLogged, LogDisjoint, DoneTold, AtWork,
   ToldBeforeForgotten, firing

\* The pipeline returns: all integrations have finished, or nothing is deleted.
LEMMA FinishResolved ==
    ASSUME RInv, TypeOK', NEW ok \in BOOLEAN, Finish(ok),
           \A i \in Integration : ipc[i] # "log",
           ok => \A i \in Integration : ipc[i] = "done"
    PROVE  RInv'
<1>0. SendResolved \subseteq Integration
  BY Zenon, PipelineAssumption
<1>1. ToldBeforeForgotten'
  <2> SUFFICES ASSUME NEW i \in SendResolved, NEW a \in Alert, grp'[a] = "none"
               PROVE  told[i][a] # "firing"
    BY Zenon DEF ToldBeforeForgotten, Finish
  <2>1. CASE grp[a] = "none"
    BY Zenon, <2>1 DEF RInv, ToldBeforeForgotten
  <2>2. CASE grp[a] # "none"
    <3>1. ok /\ batch[a] = "resolved"
      BY Zenon, <2>2 DEF Finish
    <3> QED BY Zenon, <1>0, <3>1 DEF RInv, DoneTold
  <2> QED BY Zenon, <2>1, <2>2
<1>2. FiringIsLogged' /\ LogDisjoint'
  BY Zenon, <1>0 DEF RInv, FiringIsLogged, LogDisjoint, Finish
<1>3. BatchStays' /\ AbsentIsNotFiring' /\ DoneTold' /\ AtWork'
  BY Zenon, <1>0 DEF BatchStays, AbsentIsNotFiring, DoneTold, AtWork, Finish
<1> QED BY Zenon, <1>1, <1>2, <1>3 DEF RInv

\* A stage passes all alerts on.
LEMMA PassResolved == ASSUME RInv, TypeOK', pc \in DOMAIN NextStage, Pass(cur) PROVE RInv'
<1>1. pc # "idle" /\ pc # "receiver"
  BY Zenon DEF NextStage
<1>2. \A i \in Integration : ipc[i] = "idle"
  BY Zenon, <1>1 DEF RInv, AtWork
<1> QED BY Zenon, <1>1, <1>2, PipelineAssumption DEF RInv, BatchStays, AbsentIsNotFiring, FiringIsLogged,
   LogDisjoint, DoneTold, AtWork, ToldBeforeForgotten, Pass

LEMMA FlushResolved == ASSUME RInv, TypeOK', Flush PROVE RInv'
<1>0. TypeOK /\ \A i \in Integration : ipc[i] = "idle"
  BY Zenon DEF RInv, AtWork, Flush
<1>1. BatchStays'
  BY Zenon, <1>0 DEF BatchStays, Flush, Nothing, TypeOK
<1>2. AbsentIsNotFiring'
  BY Zenon DEF RInv, AbsentIsNotFiring, ToldBeforeForgotten, Flush
<1>3. FiringIsLogged' /\ DoneTold' /\ AtWork' /\ LogDisjoint' /\ ToldBeforeForgotten'
  BY Zenon, <1>0, PipelineAssumption DEF RInv, FiringIsLogged, DoneTold, AtWork, LogDisjoint,
     ToldBeforeForgotten, Flush
<1> QED BY Zenon, <1>1, <1>2, <1>3 DEF RInv

LEMMA IntegrationResolved ==
    ASSUME Undisturbed, RInv, TypeOK', NEW i \in Integration, IntegrationNext(i) PROVE RInv'
<1>0. /\ TypeOK /\ BatchStays /\ AbsentIsNotFiring /\ FiringIsLogged /\ LogDisjoint /\ DoneTold
      /\ AtWork /\ ToldBeforeForgotten
  BY Zenon DEF RInv
<1>1. ipc[i] # "idle" /\ UNCHANGED <<grp, pc, batch, cur>> /\ firing' = firing
  BY Zenon DEF IntegrationNext, Waited, WaitFails, DedupStage, NothingToSend, NotifyOk, NotifyLost,
     NotifyFails, SetNotifiesStage, flushVars, firing
<1>2. \A j \in Integration \ {i} : ipc'[j] = ipc[j] /\ told'[j] = told[j] /\ log'[j] = log[j]
  BY Zenon, <1>0 DEF IntegrationNext, Waited, WaitFails, DedupStage, NothingToSend, NotifyOk, NotifyLost,
     NotifyFails, SetNotifiesStage, Go, Deliver, TypeOK
<1>3. pc = "receiver" /\ cur = {a \in Alert : batch[a] # "none"}
  BY Zenon, <1>0, <1>1 DEF AtWork, BatchStays
<1>4. ASSUME UNCHANGED <<told, log>>, ipc[i] # "log", ipc'[i] # "log",
             ipc'[i] = "done" /\ i \in SendResolved =>
                \A a \in Alert : batch[a] = "resolved" => told[i][a] # "firing"
      PROVE  RInv'
  <2>1. FiringIsLogged' /\ DoneTold'
    BY <1>0, <1>1, <1>2, <1>4, PipelineAssumption DEF FiringIsLogged, DoneTold
  <2>2. BatchStays' /\ AbsentIsNotFiring' /\ LogDisjoint' /\ ToldBeforeForgotten' /\ AtWork'
    BY Zenon, <1>0, <1>1, <1>2, <1>3, <1>4 DEF BatchStays, AbsentIsNotFiring, LogDisjoint,
       ToldBeforeForgotten, AtWork
  <2> QED BY Zenon, <2>1, <2>2 DEF RInv
<1>5. CASE Waited(i) \/ WaitFails(i) \/ NotifyFails(i)
  <2>1. UNCHANGED <<told, log>> /\ ipc[i] # "log" /\ ipc'[i] \in {"dedup", "failed"}
    BY Zenon, <1>0, <1>5 DEF Waited, WaitFails, NotifyFails, Go, TypeOK
  <2> QED BY Zenon, <1>4, <2>1
<1>6. CASE DedupStage(i)
  <2>1. UNCHANGED <<told, log>> /\ ipc[i] = "dedup" /\ ipc'[i] = IF needsUpdate(i) THEN "retry" ELSE "done"
    BY Zenon, <1>0, <1>6 DEF DedupStage, Go, TypeOK
  <2>2. ASSUME ~needsUpdate(i), i \in SendResolved, NEW a \in Alert, batch[a] = "resolved",
               told[i][a] = "firing"
        PROVE  FALSE
    <3>1. log[i] # NoEntry /\ a \in log[i].firing
      BY Zenon, <1>0, <2>1, <2>2 DEF FiringIsLogged
    <3>2. a \in resolved
      BY Zenon, <1>3, <2>2 DEF resolved
    <3>3. a \in log[i].resolved
      BY Zenon, <2>2, <3>1, <3>2 DEF needsUpdate
    <3> QED BY Zenon, <1>0, <3>1, <3>3 DEF LogDisjoint
  <2> QED BY Zenon, <1>4, <2>1, <2>2
<1>7. CASE NothingToSend(i)
  <2>1. i \notin SendResolved /\ UNCHANGED <<told, log>>
    BY Zenon, <1>7 DEF NothingToSend
  <2>2. \A j \in SendResolved : ipc'[j] = ipc[j]
    BY Zenon, <1>2, <2>1, PipelineAssumption
  <2> QED BY Zenon, <1>0, <1>1, <1>2, <1>3, <2>1, <2>2 DEF RInv, BatchStays, AbsentIsNotFiring,
      FiringIsLogged, LogDisjoint, DoneTold, AtWork, ToldBeforeForgotten
<1>8. CASE NotifyOk(i)
  <2>1. ipc'[i] = "log" /\ log' = log
    BY Zenon, <1>0, <1>8 DEF NotifyOk, Go, TypeOK
  <2>2. ASSUME i \in SendResolved
        PROVE  \A a \in Alert : told'[i][a] = IF batch[a] # "none" THEN batch[a] ELSE told[i][a]
    BY <1>0, <1>3, <1>8, <2>2 DEF NotifyOk, Deliver, firing, resolved, TypeOK, Status
  <2>3. ASSUME i \in SendResolved, NEW a \in Alert
        PROVE  /\ told'[i][a] = "firing" => a \in firing /\ grp[a] # "none"
               /\ batch[a] = "resolved" => told'[i][a] # "firing"
               /\ batch[a] = "none" => told'[i][a] # "firing"
    <3>1. batch[a] = "none" => told[i][a] # "firing"
      BY Zenon, <1>0, <1>3, <2>3 DEF AbsentIsNotFiring
    <3> QED BY Zenon, <1>0, <1>3, <2>2, <2>3, <3>1 DEF firing, BatchStays
  <2>4. FiringIsLogged' /\ DoneTold' /\ AbsentIsNotFiring'
    BY <1>0, <1>1, <1>2, <1>3, <2>1, <2>3, PipelineAssumption
       DEF FiringIsLogged, DoneTold, AbsentIsNotFiring
  <2>5. ToldBeforeForgotten'
    BY Zenon, <1>0, <1>1, <1>2, <2>3, PipelineAssumption DEF ToldBeforeForgotten
  <2>6. BatchStays' /\ LogDisjoint' /\ AtWork'
    BY Zenon, <1>0, <1>1, <1>2, <1>3, <2>1 DEF BatchStays, LogDisjoint, AtWork
  <2> QED BY Zenon, <2>4, <2>5, <2>6 DEF RInv
<1>9. CASE SetNotifiesStage(i)
  <2>1. /\ log'[i] = [firing |-> firing, resolved |-> resolved] /\ ipc[i] = "log" /\ ipc'[i] = "done"
        /\ told' = told
    BY Zenon, <1>0, <1>9 DEF SetNotifiesStage, Go, TypeOK
  <2>2. log'[i] # NoEntry /\ log'[i].firing = firing /\ log'[i].resolved = resolved
    <3>1. [firing |-> firing, resolved |-> resolved] \in Entries
      BY Zenon, <1>0 DEF firing, resolved, Entries, TypeOK
    <3> QED BY <2>1, <3>1, PipelineAssumption DEF Entries
  <2>3. FiringIsLogged' /\ DoneTold'
    BY <1>0, <1>1, <1>2, <2>1, <2>2, PipelineAssumption DEF FiringIsLogged, DoneTold
  <2>4. LogDisjoint'
    BY Zenon, <1>0, <1>2, <2>2 DEF LogDisjoint, firing, resolved
  <2>5. BatchStays' /\ AbsentIsNotFiring' /\ ToldBeforeForgotten' /\ AtWork'
    BY Zenon, <1>0, <1>1, <1>2, <1>3, <2>1 DEF BatchStays, AbsentIsNotFiring, ToldBeforeForgotten, AtWork
  <2> QED BY Zenon, <2>3, <2>4, <2>5 DEF RInv
<1> QED BY Zenon, <1>5, <1>6, <1>7, <1>8, <1>9 DEF IntegrationNext, NotifyLost, Undisturbed

LEMMA ResolvedStep ==
    ASSUME Undisturbed, RInv, [Next]_vars PROVE RInv'
<1>0. TypeOK /\ TypeOK' /\ AtWork /\ BatchStays
  BY Zenon, TypeStep DEF RInv
<1>1. ASSUME pc # "receiver" PROVE \A i \in Integration : ipc[i] = "idle"
  BY Zenon, <1>0, <1>1 DEF AtWork
<1>2. CASE Flush
  BY Zenon, <1>0, <1>2, FlushResolved
<1>3. CASE StageNext
  <2>1. CASE FanoutReturns
    BY ZenonT(60), <1>0, <2>1, FinishResolved DEF FanoutReturns
  <2>2. CASE SettleFails
    BY ZenonT(60), <1>0, <1>1, <2>2, FinishResolved DEF SettleFails
  <2>3. CASE NothingLeft
    BY Zenon, <1>0, <2>3 DEF NothingLeft, BatchStays, NextStage
  <2>4. CASE Fanout
    <3>1. pc = "fanout" /\ \A i \in Integration : ipc[i] = "idle" /\ ipc'[i] = "wait"
      BY Zenon, <1>1, <2>4 DEF Fanout
    <3> QED BY Zenon, <1>0, <2>4, <3>1, PipelineAssumption DEF Fanout, RInv, BatchStays, AbsentIsNotFiring,
        FiringIsLogged, LogDisjoint, DoneTold, AtWork, ToldBeforeForgotten
  <2>5. CASE Settled
    BY Zenon, <1>0, <2>5, PassResolved DEF Settled, NextStage
  <2>6. ASSUME NEW muted \in SUBSET cur, MuteStage(muted) PROVE RInv'
    <3>1. muted = {} /\ Pass(cur \ muted) /\ pc \in DOMAIN NextStage
      BY Zenon, <2>6 DEF MuteStage, NextStage, Undisturbed
    <3>2. cur \ {} = cur
      OBVIOUS
    <3> QED BY Zenon, <1>0, <3>1, <3>2, PassResolved
  <2>7. ASSUME NEW muted \in BOOLEAN, TimeStage(muted) PROVE RInv'
    BY Zenon, <1>0, <2>7, PassResolved DEF TimeStage, NextStage, Undisturbed
  <2> QED BY <1>3, <2>1, <2>2, <2>3, <2>4, <2>5, <2>6, <2>7 DEF StageNext
<1>4. ASSUME NEW i \in Integration, RepeatElapses(i) PROVE RInv'
  BY Zenon, <1>0, <1>4, EnvResolved DEF RepeatElapses, flushVars
<1>5. CASE Deadline \/ GossipSettles \/ UNCHANGED vars
  BY <1>0, <1>5, EnvResolved DEF Deadline, GossipSettles, flushVars, vars
<1>6. ASSUME NEW a \in Alert, TimeOut(a) \/ \E s \in {"firing", "resolved"} : Put(a, s) PROVE RInv'
  <2>1. \A b \in Alert : grp'[b] = "none" => grp[b] = "none"
    BY <1>0, <1>6 DEF TimeOut, Put, TypeOK
  <2> QED BY Zenon, <1>0, <1>6, <2>1, EnvResolved DEF TimeOut, Put, flushVars
<1> QED BY <1>0, <1>2, <1>3, <1>4, <1>5, <1>6, IntegrationResolved DEF Next, InScene, Step, Expire, Undisturbed

\* When answers arrive, nothing is muted and log entries live, no resolved alert
\* leaves the group while a receiver that wants resolved alerts takes it for
\* firing: deduplication (needsUpdate), the fanout and flush's deletion agree.
THEOREM ResolvedBeforeForgottenThm == Spec => []ResolvedBeforeForgotten
<1>1. Init => RInv
  <2> SUFFICES ASSUME Init PROVE RInv
    OBVIOUS
  <2>1. \A i \in SendResolved : told[i] = Nothing /\ ipc[i] = "idle"
    BY Zenon, PipelineAssumption DEF Init
  <2> QED BY SMTT(60), <2>1, InitType DEF Init, RInv, BatchStays, AbsentIsNotFiring, FiringIsLogged,
      LogDisjoint, DoneTold, AtWork, ToldBeforeForgotten, Nothing
<1>2. TypeOK /\ (Undisturbed => RInv) /\ [Next]_vars => TypeOK' /\ (Undisturbed' => RInv')
  <2> SUFFICES ASSUME TypeOK, Undisturbed => RInv, [Next]_vars
               PROVE  TypeOK' /\ (Undisturbed' => RInv')
    OBVIOUS
  <2>1. scene' = scene
    BY Zenon DEF Next, InScene, vars
  <2>2. Undisturbed' => Undisturbed
    BY Zenon, <2>1 DEF Undisturbed
  <2> QED BY Zenon, <2>2, TypeStep, ResolvedStep
<1>3. (Undisturbed => RInv) => ResolvedBeforeForgotten
  BY Zenon DEF RInv, ToldBeforeForgotten, ResolvedBeforeForgotten
<1> QED BY <1>1, <1>2, <1>3, InitType, PTL DEF Spec
=============================================================================
