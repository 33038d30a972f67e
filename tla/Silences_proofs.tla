-------------------------- MODULE Silences_proofs ---------------------------
(***************************************************************************)
(* Theorems about Silences, for any number of peers, silences, label sets   *)
(* and goroutines: type correctness; a peer does not return to an older     *)
(* version of a silence; users do not rewrite the past of a silence; and    *)
(* Silencer.Mutes, with its cache, answers rightly.                         *)
(***************************************************************************)
EXTENDS Silences, WellFoundedInduction, TLAPS

-----------------------------------------------------------------------------
(* One write to the fields of a peer *)

\* The record of a peer's fields.
Named(x) == DOMAIN x = {"st", "ver", "vi", "mi", "sent"}

\* y is x with the version sil of the silence id.
Puts(x, y, id, sil) ==
    /\ Named(y) /\ y.st = Store(x.st, id, sil) /\ y.sent = x.sent \cup {[id |-> id, sil |-> sil]}
    /\ id \in DOMAIN x.st => y.ver = x.ver /\ y.vi = x.vi /\ y.mi = x.mi
    /\ id \notin DOMAIN x.st =>
         /\ y.ver = x.ver + 1 /\ y.vi = x.vi \cup {<<x.ver + 1, id>>}
         /\ x.mi \subseteq y.mi /\ y.mi \subseteq x.mi \cup {id} /\ (sil.ok = TRUE => id \in y.mi)

\* setSilence stores the version and sends it, and indexes a silence that is new.
LEMMA SetSilence ==
    ASSUME NEW x, Named(x), NEW id, NEW sil, Merges(x, id, sil)
    PROVE  Puts(x, setSilence(x, id, sil), id, sil)
<1> DEFINE y == [x EXCEPT !.st = Store(@, id, sil), !.sent = @ \cup {[id |-> id, sil |-> sil]}]
<1>1. /\ Named(y) /\ y.st = Store(x.st, id, sil) /\ y.sent = x.sent \cup {[id |-> id, sil |-> sil]}
      /\ y.ver = x.ver /\ y.vi = x.vi /\ y.mi = x.mi
  BY Zenon DEF Named
<1>2. CASE id \in DOMAIN x.st
  BY Zenon, <1>1, <1>2 DEF setSilence, Puts
<1>3. CASE id \notin DOMAIN x.st
  <2>1. setSilence(x, id, sil) = indexSilence(y, id, sil)
    BY Zenon, <1>3 DEF setSilence
  <2> HIDE DEF y
  <2> DEFINE z == indexSilence(y, id, sil)
  <2>2. /\ Named(z) /\ z.st = y.st /\ z.sent = y.sent
        /\ z.ver = y.ver + 1 /\ z.vi = y.vi \cup {<<y.ver + 1, id>>}
        /\ y.mi \subseteq z.mi /\ z.mi \subseteq y.mi \cup {id} /\ (sil.ok = TRUE => id \in z.mi)
    BY Zenon, <1>1 DEF indexSilence, Named
  <2> HIDE DEF z
  <2> QED BY Zenon, <1>1, <1>3, <2>1, <2>2 DEF z, Puts
<1> QED BY Zenon, <1>2, <1>3

\* The fields of a peer.
LEMMA FieldsOf ==
    ASSUME NEW p
    PROVE  /\ Named(Fields(p)) /\ Fields(p).st = st[p] /\ Fields(p).ver = ver[p] /\ Fields(p).vi = vi[p]
           /\ Fields(p).mi = mi[p] /\ Fields(p).sent = {}
BY Zenon DEF Fields, Named

-----------------------------------------------------------------------------
(* Types *)

\* What TypeOK leaves out: the domains of the variables, the files, the ghosts.
Shape ==
    /\ DOMAIN st = Peer /\ DOMAIN vi = Peer /\ DOMAIN mi = Peer /\ DOMAIN snap = Peer
    /\ \A p \in Peer : \A i \in DOMAIN snap[p] : snap[p][i] \in Sil
    /\ DOMAIN call = Caller
    /\ \A c \in Caller : DOMAIN call[c] = {"pc", "entry", "new", "sils"} /\ call[c].new \in Nat
    /\ high \in [Peer -> [Id -> Nat]]
    /\ \A p \in Peer : \A i \in DOMAIN st[p] : st[p][i].updated <= high[p][i]

\* The type invariant of the proofs.
TypeInv == TypeOK /\ Shape

\* A message.
Sent(m) == m \in [id : Id, sil : Sil]

\* The fields of a peer have their types.
Kept(x) ==
    /\ Named(x) /\ DOMAIN x.st \subseteq Id /\ \A i \in DOMAIN x.st : x.st[i] \in Sil
    /\ x.ver \in Nat /\ x.vi \subseteq (1 .. x.ver) \X Id /\ x.mi \subseteq Id
    /\ \A m \in x.sent : Sent(m)

\* A write keeps the types of the fields.
LEMMA SetKeeps ==
    ASSUME NEW x, Kept(x), NEW id \in Id, NEW sil \in Sil
    PROVE  Kept(setSilence(x, id, sil))
<1>1. CASE ~Merges(x, id, sil)
  BY Zenon, <1>1 DEF setSilence
<1>2. CASE Merges(x, id, sil)
  <2> DEFINE y == setSilence(x, id, sil)
  <2>1. Puts(x, y, id, sil)
    BY Zenon, <1>2, SetSilence DEF Kept
  <2> HIDE DEF y
  <2>2. DOMAIN y.st \subseteq Id /\ \A i \in DOMAIN y.st : y.st[i] \in Sil
    BY Zenon, <2>1 DEF Store, Kept, Puts
  <2>3. \A m \in y.sent : Sent(m)
    BY <2>1 DEF Kept, Sent, Puts
  <2>4. y.ver \in Nat /\ y.vi \subseteq (1 .. y.ver) \X Id /\ y.mi \subseteq Id
    BY <2>1 DEF Kept, Puts
  <2> QED BY Zenon, <2>1, <2>2, <2>3, <2>4 DEF Kept, Puts, y
<1> QED BY Zenon, <1>1, <1>2

\* The fields of a peer have their types before a write.
LEMMA FieldsKept ==
    ASSUME TypeInv, NEW p \in Peer
    PROVE  Kept(Fields(p))
BY Zenon, FieldsOf DEF TypeInv, TypeOK, Kept

\* The types of what the peers store and send.
DataOK ==
    /\ \A p \in Peer : /\ DOMAIN st[p] \subseteq Id /\ DOMAIN snap[p] \subseteq Id
                       /\ \A i \in DOMAIN st[p] : st[p][i] \in Sil
                       /\ \A i \in DOMAIN snap[p] : snap[p][i] \in Sil
                       /\ vi[p] \subseteq (1 .. ver[p]) \X Id /\ mi[p] \subseteq Id
    /\ ver \in [Peer -> Nat]
    /\ DOMAIN st = Peer /\ DOMAIN vi = Peer /\ DOMAIN mi = Peer /\ DOMAIN snap = Peer
    /\ \A m \in msgs : Sent(m)

\* The types of the caches and of the calls.
CallsOK ==
    /\ cache \in [Peer -> [Lset -> Entry]]
    /\ DOMAIN call = Caller
    /\ \A c \in Caller : /\ DOMAIN call[c] = {"pc", "entry", "new", "sils"} /\ call[c].new \in Nat
                         /\ call[c].entry \in Entry /\ DOMAIN call[c].sils \subseteq Id

\* The type of the ghost high.
HighOK ==
    /\ high \in [Peer -> [Id -> Nat]]
    /\ \A p \in Peer : \A i \in DOMAIN st[p] : st[p][i].updated <= high[p][i]

\* The type invariant is the conjunction of these parts.
LEMMA TypeParts == TypeInv <=> scene \in Scenes /\ now \in Time /\ DataOK /\ CallsOK /\ HighOK
BY Zenon DEF TypeInv, TypeOK, Shape, DataOK, CallsOK, HighOK, Sent

\* A change of the fields of one peer keeps the types of the data.
LEMMA DataBecomes ==
    ASSUME DataOK, NEW p \in Peer, NEW x, Kept(x), Becomes(p, x)
    PROVE  DataOK' /\ UNCHANGED <<now, cache, call>>
<1>1. /\ st' = [st EXCEPT ![p] = x.st] /\ ver' = [ver EXCEPT ![p] = x.ver]
      /\ vi' = [vi EXCEPT ![p] = x.vi] /\ mi' = [mi EXCEPT ![p] = x.mi]
      /\ msgs' \subseteq msgs \cup x.sent /\ snap' = snap /\ UNCHANGED <<now, cache, call>>
  BY Zenon DEF Becomes
<1>2. ASSUME NEW q \in Peer
      PROVE  /\ DOMAIN st'[q] \subseteq Id /\ \A i \in DOMAIN st'[q] : st'[q][i] \in Sil
             /\ vi'[q] \subseteq (1 .. ver'[q]) \X Id /\ mi'[q] \subseteq Id
  BY Zenon, <1>1 DEF DataOK, Kept
<1>3. ver' \in [Peer -> Nat]
  BY Zenon, <1>1 DEF DataOK, Kept
<1>4. \A m \in msgs' : Sent(m)
  BY Zenon, <1>1 DEF DataOK, Kept
<1>5. DataOK'
  BY Zenon, <1>1, <1>2, <1>3, <1>4 DEF DataOK, Sent
<1> QED BY Zenon, <1>1, <1>5

\* Set changes the fields of a peer to fields of the right types.
LEMMA SetKept ==
    ASSUME TypeInv, Setting, NEW p \in Peer, Set(p)
    PROVE  \E x : Kept(x) /\ Becomes(p, x)
<1> now \in Time /\ DOMAIN st[p] \subseteq Id /\ \A i \in DOMAIN st[p] : st[p][i] \in Sil
  BY Zenon DEF TypeInv, TypeOK
<1>1. PICK sil \in Input : \/ \E id \in DOMAIN st[p] : \/ Update(p, id, sil)
                                                       \/ \E new \in Id : Create(p, id, new, sil)
                           \/ \E new \in Id : Create(p, new, new, sil)
  BY Zenon DEF Set
<1>2. ASSUME NEW id \in DOMAIN st[p], Update(p, id, sil)
      PROVE  \E x : Kept(x) /\ Becomes(p, x)
  <2>1. [sil EXCEPT !.updated = now] \in Sil
    BY ZenonT(60) DEF Input, Sil
  <2> QED BY Zenon, <1>2, <2>1, FieldsKept, SetKeeps DEF Update
<1>3. ASSUME NEW id \in Id, NEW new \in Id, Create(p, id, new, sil)
      PROVE  \E x : Kept(x) /\ Becomes(p, x)
  <2> DEFINE fresh == [sil EXCEPT !.starts = IF @ < now THEN now ELSE @, !.updated = now]
             old == IF id \in DOMAIN st[p] THEN expire(Fields(p), id) ELSE Fields(p)
  <2>1. fresh \in Sil
    BY ZenonT(60) DEF Input, Sil
  <2>2. Kept(old)
    <3>1. CASE id \in DOMAIN st[p]
      <4>1. Expired(st[p][id]) \in Sil
        BY ZenonT(60), <3>1 DEF Expired, Sil
      <4>2. expire(Fields(p), id) = Fields(p) \/ expire(Fields(p), id) = setSilence(Fields(p), id, Expired(st[p][id]))
        BY Zenon, FieldsOf DEF expire
      <4> QED BY Zenon, <3>1, <4>1, <4>2, FieldsKept, SetKeeps
    <3> QED BY Zenon, <3>1, FieldsKept
  <2>3. Becomes(p, setSilence(old, new, fresh))
    BY Zenon, <1>3 DEF Create
  <2> HIDE DEF old, fresh
  <2> QED BY Zenon, <2>1, <2>2, <2>3, SetKeeps
<1> QED BY Zenon, <1>1, <1>2, <1>3

\* So does Expire.
LEMMA ExpireKept ==
    ASSUME TypeInv, Setting, NEW p \in Peer, NEW id \in Id, Expire(p, id)
    PROVE  \E x : Kept(x) /\ Becomes(p, x)
<1> now \in Time /\ id \in DOMAIN st[p] /\ st[p][id] \in Sil
  BY Zenon DEF TypeInv, TypeOK, Expire
<1>1. Expired(st[p][id]) \in Sil
  BY ZenonT(60) DEF Expired, Sil
<1>2. expire(Fields(p), id) = Fields(p) \/ expire(Fields(p), id) = setSilence(Fields(p), id, Expired(st[p][id]))
  BY Zenon, FieldsOf DEF expire
<1> QED BY Zenon, <1>1, <1>2, FieldsKept, SetKeeps DEF Expire

\* So does Merge.
LEMMA MergeKept ==
    ASSUME TypeInv, Setting, NEW p \in Peer, NEW m \in msgs, Merge(p, m)
    PROVE  \E x : Kept(x) /\ Becomes(p, x)
BY Zenon, FieldsKept, SetKeeps DEF Merge, TypeInv, TypeOK

\* A user or a message changes the silences of a peer.
Changes(p) == Set(p) \/ (\E id \in Id : Expire(p, id)) \/ \E m \in msgs : Merge(p, m)

\* A step of a goroutine in Mutes.
Mutes(c) == MutesGet(c) \/ FastPath(c) \/ SlowPath(c) \/ QueryOld(c) \/ QueryNew(c) \/ Categorize(c)

\* The steps, sorted by what they change.
LEMMA StepCases ==
    ASSUME Step
    PROVE  \/ Tick
           \/ \E p \in Peer : Changes(p) \/ GC(p) \/ Snapshot(p) \/ Restart(p) \/ \E l \in Lset : PostGC(p, l)
           \/ \E id \in Id : Gossip(id)
           \/ \E c \in scene.callers : Mutes(c)
BY Zenon DEF Step, Changes, Mutes

\* A user and a message leave fields of the right types.
LEMMA ChangesKept ==
    ASSUME TypeInv, Setting, NEW p \in Peer, Changes(p)
    PROVE  \E x : Kept(x) /\ Becomes(p, x)
BY Zenon, SetKept, ExpireKept, MergeKept DEF Changes

\* A call of Mutes changes neither the clock nor the data.
LEMMA MutesFrame ==
    ASSUME NEW c, Mutes(c)
    PROVE  UNCHANGED <<now, dataVars>>
BY ZenonT(60) DEF Mutes, MutesGet, FastPath, SlowPath, QueryOld, QueryNew, Categorize

\* Every step keeps the types of the data.
LEMMA DataStep ==
    ASSUME TypeInv, Setting, Step
    PROVE  DataOK'
<1> DataOK /\ now \in Time
  BY Zenon, TypeParts
<1>1. ASSUME UNCHANGED dataVars PROVE DataOK'
  BY Zenon, <1>1 DEF dataVars, DataOK, Sent
<1>2. CASE Tick
  BY Zenon, <1>1, <1>2 DEF Tick, dataVars
<1>3. ASSUME NEW p \in Peer, Changes(p) PROVE DataOK'
  BY Zenon, <1>3, ChangesKept, DataBecomes
<1>4. ASSUME NEW p \in Peer, GC(p) PROVE DataOK'
  <2>1. /\ st' = [st EXCEPT ![p] = [i \in DOMAIN st[p] \ Gone(p) |-> st[p][i]]]
        /\ vi' = [vi EXCEPT ![p] = {e \in vi[p] : e[2] \notin Gone(p)}]
        /\ mi' = [mi EXCEPT ![p] = mi[p] \ Gone(p)]
        /\ ver' = ver /\ msgs' = msgs /\ snap' = snap
    BY Zenon, <1>4 DEF GC
  <2> QED BY Zenon, <2>1 DEF DataOK, Sent
<1>5. ASSUME NEW p \in Peer, Snapshot(p) PROVE DataOK'
  BY Zenon, <1>5 DEF Snapshot, DataOK, Sent
<1>6. ASSUME NEW p \in Peer, Restart(p) PROVE DataOK'
  <2>1. Compiled(snap[p]) \subseteq Id
    BY Zenon DEF Compiled, DataOK
  <2>2. {<<1, i>> : i \in Compiled(snap[p])} \subseteq (1 .. 1) \X Id
    BY <2>1
  <2> QED BY Zenon, <1>6, <2>1, <2>2 DEF Restart, DataOK, Sent
<1>7. ASSUME NEW p \in Peer, NEW l \in Lset, PostGC(p, l) PROVE DataOK'
  BY Zenon, <1>1, <1>7 DEF PostGC, dataVars
<1>8. ASSUME NEW id \in Id, Gossip(id) PROVE DataOK'
  <2> DEFINE g == [id |-> id, sil |-> [m |-> {}, ok |-> FALSE, starts |-> now, ends |-> MaxTime, updated |-> now]]
  <2>1. Sent(g)
    BY DEF Sent, Sil, Time, Setting
  <2>2. msgs' = msgs \cup {g} /\ UNCHANGED <<st, ver, vi, mi, snap>>
    BY Zenon, <1>8 DEF Gossip
  <2> HIDE DEF g
  <2> QED BY Zenon, <2>1, <2>2 DEF DataOK, Sent
<1>9. ASSUME NEW c \in scene.callers, Mutes(c) PROVE DataOK'
  BY Zenon, <1>1, <1>9, MutesFrame
<1> QED BY Zenon, <1>2, <1>3, <1>4, <1>5, <1>6, <1>7, <1>8, <1>9, StepCases

\* The goroutines of a scene.
LEMMA CallerOK ==
    ASSUME TypeInv, Setting, NEW c \in scene.callers
    PROVE  c \in Caller /\ c.peer \in Peer /\ c.lset \in Lset
BY DEF TypeInv, TypeOK, Setting, Scene

\* Every step keeps the types of the caches and of the calls.
LEMMA CallsStep ==
    ASSUME TypeInv, Setting, Step
    PROVE  CallsOK'
<1> CallsOK /\ DataOK
  BY Zenon, TypeParts
<1>1. ASSUME UNCHANGED <<cache, call>> PROVE CallsOK'
  BY Zenon, <1>1 DEF CallsOK, Entry
<1>2. CASE Tick
  BY Zenon, <1>1, <1>2 DEF Tick
<1>3. ASSUME NEW p \in Peer, Changes(p) PROVE CallsOK'
  BY Zenon, <1>1, <1>3, ChangesKept, DataBecomes
<1>4. ASSUME NEW p \in Peer, GC(p) \/ Snapshot(p) PROVE CallsOK'
  BY Zenon, <1>1, <1>4 DEF GC, Snapshot
<1>5. ASSUME NEW p \in Peer, Restart(p) PROVE CallsOK'
  BY Zenon, <1>5 DEF Restart, CallsOK, Entry, NoEntry, Idle, Empty
<1>6. ASSUME NEW p \in Peer, NEW l \in Lset, PostGC(p, l) PROVE CallsOK'
  BY Zenon, <1>6 DEF PostGC, CallsOK, Entry, NoEntry
<1>7. ASSUME NEW id \in Id, Gossip(id) PROVE CallsOK'
  BY Zenon, <1>1, <1>7 DEF Gossip
<1>8. ASSUME NEW c \in scene.callers, Mutes(c) PROVE CallsOK'
  <2> c \in Caller /\ c.peer \in Peer /\ c.lset \in Lset
    BY Zenon, CallerOK
  <2>0. ASSUME NEW d \in Caller, d # c PROVE call'[d] = call[d]
    BY ZenonT(60), <1>8, <2>0 DEF CallsOK, Mutes, MutesGet, FastPath, SlowPath, QueryOld, QueryNew, Categorize
  <2>1. CASE MutesGet(c)
    BY <2>1 DEF MutesGet, CallsOK, Entry, Idle, Empty, NoEntry
  <2>2. CASE FastPath(c)
    BY Zenon, <2>2 DEF FastPath, CallsOK, Entry, Idle, Empty, NoEntry
  <2>3. CASE SlowPath(c)
    <3>1. /\ DOMAIN call'[c] = DOMAIN call[c] /\ call'[c].entry = call[c].entry
          /\ call'[c].new = call[c].entry.version /\ call'[c].sils = Empty
      BY ZenonT(60), <2>3 DEF SlowPath, CallsOK
    <3> QED BY ZenonT(60), <2>0, <2>3, <3>1 DEF SlowPath, CallsOK, Entry, Empty
  <2>4. CASE QueryOld(c)
    <3>1. /\ DOMAIN call'[c] = DOMAIN call[c] /\ call'[c].entry = call[c].entry
          /\ call'[c].new = call[c].new /\ DOMAIN call'[c].sils \subseteq call[c].entry.ids
      BY Zenon, <2>4 DEF QueryOld, Clones, CallsOK
    <3> QED BY <2>0, <2>4, <3>1 DEF QueryOld, CallsOK, Entry
  <2>5. CASE QueryNew(c)
    <3>1. Since(c.peer, call[c].entry.version) \subseteq Id
      BY Zenon DEF Since, DataOK
    <3>2. /\ DOMAIN call'[c] = DOMAIN call[c] /\ call'[c].entry = call[c].entry
          /\ call'[c].new = ver[c.peer]
          /\ DOMAIN call'[c].sils \subseteq DOMAIN call[c].sils \cup Since(c.peer, call[c].entry.version)
      BY ZenonT(60), <2>5 DEF QueryNew, CallsOK, ids
    <3>3. call'[c].new \in Nat /\ call'[c].entry \in Entry /\ DOMAIN call'[c].sils \subseteq Id
      BY Zenon, <3>1, <3>2 DEF CallsOK, DataOK
    <3>4. DOMAIN call' = Caller /\ cache' = cache
      BY ZenonT(60), <2>5 DEF QueryNew, CallsOK
    <3> QED BY Zenon, <2>0, <3>2, <3>3, <3>4 DEF CallsOK, Entry
  <2>6. CASE Categorize(c)
    <3>1. allIDs(c) \subseteq Id
      BY Zenon DEF allIDs, InState, ids, CallsOK
    <3> QED BY Zenon, <2>6, <3>1 DEF Categorize, CallsOK, Entry, Idle, Empty, NoEntry
  <2> QED BY Zenon, <1>8, <2>1, <2>2, <2>3, <2>4, <2>5, <2>6 DEF Mutes
<1> QED BY Zenon, <1>2, <1>3, <1>4, <1>5, <1>6, <1>7, <1>8, StepCases

\* The type invariant is inductive.
LEMMA TypeStep ==
    ASSUME TypeInv, Setting, [Next]_vars
    PROVE  TypeInv'
<1>1. CASE UNCHANGED vars
  BY Zenon, <1>1 DEF vars, TypeInv, TypeOK, Shape, Entry, Time
<1>2. CASE Next
  <2>1. DataOK' /\ CallsOK' /\ scene' \in Scenes /\ scene' = scene
    BY Zenon, <1>2, DataStep, CallsStep DEF Next, TypeInv, TypeOK
  <2>2. now' \in Time
    <3>1. now' = now \/ Tick
      <4>1. \A p \in Peer : Changes(p) => now' = now
        BY Zenon, ChangesKept, DataBecomes, TypeParts
      <4> QED BY ZenonT(60), <1>2, <4>1, StepCases, MutesFrame DEF Next, GC, Snapshot, Restart, PostGC, Gossip
    <3> QED BY <3>1 DEF Tick, TypeInv, TypeOK, Setting, Scene, Time
  <2>3. HighOK'
    <3>1. high' = [p \in Peer |-> [i \in Id |->
              IF i \in DOMAIN st'[p] /\ st'[p][i].updated > high[p][i]
              THEN st'[p][i].updated ELSE high[p][i]]]
      BY Zenon, <1>2 DEF Next, Observe
    <3>2. \A p \in Peer : \A i \in DOMAIN st'[p] : i \in Id /\ st'[p][i].updated \in Nat
      BY <2>1 DEF DataOK, Sil, Time
    <3>3. \A p \in Peer : \A i \in Id : high[p][i] \in Nat
      BY Zenon, TypeParts DEF HighOK
    <3> QED BY <3>1, <3>2, <3>3 DEF HighOK
  <2>4. (scene \in Scenes /\ now \in Time /\ DataOK /\ CallsOK /\ HighOK)' => TypeInv'
    BY Zenon DEF TypeInv, TypeOK, Shape, DataOK, CallsOK, HighOK, Sent, Entry
  <2> QED BY Zenon, <2>1, <2>2, <2>3, <2>4
<1> QED BY Zenon, <1>1, <1>2

\* The type invariant holds at the start.
LEMMA TypeInit ==
    ASSUME Init, Setting
    PROVE  TypeInv
BY DEF Init, TypeInv, TypeOK, Shape, Setting, Time, Entry, NoEntry, Empty, Idle

\* The invariant of the types, for the theorems below.
LEMMA Typed == ASSUME Setting PROVE Spec => []TypeInv
BY TypeInit, TypeStep, PTL DEF Spec

\* The variables of the silences keep their types: no operation of the store, the
\* Silencer or the gossip leaves what the others expect.
THEOREM TypeCorrect == ASSUME Setting PROVE Spec => []TypeOK
<1>1. TypeInv => TypeOK
  BY Zenon DEF TypeInv
<1> QED BY <1>1, Typed, PTL

-----------------------------------------------------------------------------
(* Versions do not go back *)

\* A version that a peer may store: one that the user sets now, or a message.
Wrote(p, id, sil) ==
    \/ ClockMoved /\ sil.updated = now /\ sil.ends >= now
    \/ \E m \in msgs : id = m.id /\ sil = m.sil /\ Arrives(p, m) /\ Merges(Fields(p), id, sil)

\* x is what p has, with some of the versions that p may store, and sends them.
Writes(p, x) ==
    /\ Named(x) /\ DOMAIN st[p] \subseteq DOMAIN x.st
    /\ \A i \in DOMAIN x.st : \/ i \in DOMAIN st[p] /\ x.st[i] = st[p][i]
                              \/ Wrote(p, i, x.st[i]) /\ [id |-> i, sil |-> x.st[i]] \in x.sent
    /\ \A m \in x.sent : m \in msgs \/ m.sil.ends >= m.sil.updated

\* Before a write nothing has changed.
LEMMA FieldsWrites ==
    ASSUME NEW p
    PROVE  Writes(p, Fields(p))
BY Zenon, FieldsOf DEF Writes

\* A write of a version that p may store.
LEMMA SetWrites ==
    ASSUME NEW p, NEW x, Writes(p, x), NEW id, NEW sil, Wrote(p, id, sil), TypeInv
    PROVE  Writes(p, setSilence(x, id, sil))
<1>1. CASE ~Merges(x, id, sil)
  BY Zenon, <1>1 DEF setSilence
<1>2. CASE Merges(x, id, sil)
  <2> DEFINE y == setSilence(x, id, sil)
             v == [id |-> id, sil |-> sil]
  <2>1. Puts(x, y, id, sil)
    BY Zenon, <1>2, SetSilence DEF Writes
  <2> HIDE DEF y
  <2>2. /\ Named(y) /\ DOMAIN y.st = DOMAIN x.st \cup {id} /\ y.st[id] = sil
        /\ \A i \in DOMAIN x.st : i # id => y.st[i] = x.st[i]
        /\ y.sent = x.sent \cup {v}
    BY Zenon, <2>1 DEF Puts, Store
  <2>3. v \in msgs \/ v.sil.ends >= v.sil.updated
    <3>1. \A m \in msgs : m = [id |-> m.id, sil |-> m.sil]
      BY DEF TypeInv, TypeOK
    <3> QED BY Zenon, <3>1 DEF Wrote
  <2> HIDE DEF v
  <2>4. \A m \in y.sent : m \in msgs \/ m.sil.ends >= m.sil.updated
    BY Zenon, <2>2, <2>3 DEF Writes
  <2>5. ASSUME NEW i \in DOMAIN y.st
        PROVE  \/ i \in DOMAIN st[p] /\ y.st[i] = st[p][i]
               \/ Wrote(p, i, y.st[i]) /\ [id |-> i, sil |-> y.st[i]] \in y.sent
    <3>1. CASE i = id
      BY Zenon, <2>2, <3>1 DEF v
    <3>2. CASE i # id
      BY Zenon, <2>2, <3>2 DEF Writes
    <3> QED BY Zenon, <3>1, <3>2
  <2> QED BY Zenon, <2>2, <2>4, <2>5 DEF Writes, y
<1> QED BY Zenon, <1>1, <1>2

\* All that Set, Expire and Merge do to a peer is to write such versions.
LEMMA ChangesWrite ==
    ASSUME TypeInv, Setting, NEW p \in Peer, Changes(p)
    PROVE  \E x : Writes(p, x) /\ Becomes(p, x)
<1> now \in Time /\ DOMAIN st[p] \subseteq Id /\ \A i \in DOMAIN st[p] : st[p][i] \in Sil
  BY Zenon DEF TypeInv, TypeOK
<1>e. ASSUME ClockMoved, NEW id \in DOMAIN st[p]
      PROVE  Writes(p, expire(Fields(p), id))
  <2>1. expire(Fields(p), id) = Fields(p) \/ expire(Fields(p), id) = setSilence(Fields(p), id, Expired(st[p][id]))
    BY Zenon, FieldsOf DEF expire
  <2>2. Wrote(p, id, Expired(st[p][id]))
    BY <1>e DEF Wrote, Expired, Sil, Time
  <2> QED BY Zenon, <2>1, <2>2, FieldsWrites, SetWrites
<1>1. CASE Set(p)
  <2>0. ClockMoved
    BY Zenon, <1>1 DEF Set
  <2>1. PICK sil \in Input : \/ \E id \in DOMAIN st[p] : \/ Update(p, id, sil)
                                                         \/ \E new \in Id : Create(p, id, new, sil)
                             \/ \E new \in Id : Create(p, new, new, sil)
    BY Zenon, <1>1 DEF Set
  <2>2. ASSUME NEW id \in DOMAIN st[p], Update(p, id, sil)
        PROVE  \E x : Writes(p, x) /\ Becomes(p, x)
    <3>1. Wrote(p, id, [sil EXCEPT !.updated = now])
      BY Zenon, <2>0 DEF Wrote, Input
    <3> QED BY Zenon, <2>2, <3>1, FieldsWrites, SetWrites DEF Update
  <2>3. ASSUME NEW id \in Id, NEW new \in Id, Create(p, id, new, sil)
        PROVE  \E x : Writes(p, x) /\ Becomes(p, x)
    <3> DEFINE fresh == [sil EXCEPT !.starts = IF @ < now THEN now ELSE @, !.updated = now]
               old == IF id \in DOMAIN st[p] THEN expire(Fields(p), id) ELSE Fields(p)
    <3>1. Wrote(p, new, fresh)
      BY Zenon, <2>0 DEF Wrote, Input
    <3>2. Writes(p, old)
      BY Zenon, <1>e, <2>0, FieldsWrites
    <3>3. Becomes(p, setSilence(old, new, fresh))
      BY Zenon, <2>3 DEF Create
    <3> HIDE DEF old, fresh
    <3> QED BY Zenon, <3>1, <3>2, <3>3, SetWrites
  <2> QED BY Zenon, <2>1, <2>2, <2>3
<1>2. ASSUME NEW id \in Id, Expire(p, id)
      PROVE  \E x : Writes(p, x) /\ Becomes(p, x)
  BY Zenon, <1>2, <1>e DEF Expire
<1>3. ASSUME NEW m \in msgs, Merge(p, m)
      PROVE  \E x : Writes(p, x) /\ Becomes(p, x)
  <2>1. Wrote(p, m.id, m.sil)
    BY Zenon, <1>3 DEF Merge, Wrote
  <2> QED BY Zenon, <1>3, <2>1, FieldsWrites, SetWrites DEF Merge
<1> QED BY Zenon, <1>1, <1>2, <1>3 DEF Changes

\* The message that announces the version that p has.
Version(p, i) == [id |-> i, sil |-> st[p][i]]

\* The newest version of a silence that p has collected had expired.
Collected(p, i) ==
    high[p][i] # 0 /\ i \notin DOMAIN st[p] =>
        \E n \in msgs : n.id = i /\ n.sil.updated = high[p][i] /\ ExpiresAt(n.sil) <= now

\* The inductive invariant of NeverOlder: the newest version a peer has had is the one
\* it has, or it was announced, and had expired, when the peer collected it.
OlderInv ==
    ~scene.restarts =>
        /\ \A p \in Peer : \A i \in DOMAIN st[p] : st[p][i].updated = high[p][i] /\ Version(p, i) \in msgs
        /\ \A m \in msgs : m.sil.ends >= m.sil.updated
        /\ \A p \in Peer, i \in Id : Collected(p, i)

\* A message brings back an older version only once the newer one was collected; by
\* then the older one does not circulate any more.
LEMMA OlderStep ==
    ASSUME TypeInv, TypeInv', Setting, Circulation, OlderInv, [Next]_vars
    PROVE  OlderInv'
<1>1. CASE UNCHANGED vars
  BY <1>1 DEF vars, OlderInv, Version, Collected, ExpiresAt
<1>2. CASE Next
  <2> SUFFICES ASSUME ~scene.restarts PROVE OlderInv'
    BY Zenon, <1>2 DEF Next, OlderInv
  <2>1. /\ \A p \in Peer : \A i \in DOMAIN st[p] : st[p][i].updated = high[p][i] /\ Version(p, i) \in msgs
        /\ \A m \in msgs : m.sil.ends >= m.sil.updated
        /\ \A p \in Peer, i \in Id : Collected(p, i)
    BY Zenon DEF OlderInv
  <2>2. high' = [p \in Peer |-> [i \in Id |->
             IF i \in DOMAIN st'[p] /\ st'[p][i].updated > high[p][i]
             THEN st'[p][i].updated ELSE high[p][i]]]
    BY Zenon, <1>2 DEF Next, Observe
  <2>3. /\ now \in Nat /\ now' \in Nat /\ Delay \in Nat /\ Retention \in Nat /\ Delay < Retention
        /\ \A p \in Peer, i \in Id : high[p][i] \in Nat
        /\ \A p \in Peer : \A i \in DOMAIN st[p] : i \in Id /\ st[p][i].updated \in Nat
        /\ \A p \in Peer : \A i \in DOMAIN st'[p] : i \in Id /\ st'[p][i].updated \in Nat \ {0}
        /\ \A m \in msgs : m.id \in Id /\ m.sil.updated \in Nat /\ m.sil.ends \in Nat
    BY DEF TypeInv, TypeOK, Shape, Setting, Circulation, Sil, Time
  <2> SUFFICES /\ \A p \in Peer : \A i \in DOMAIN st'[p] : st'[p][i].updated = high'[p][i] /\ Version(p, i)' \in msgs'
               /\ \A m \in msgs' : m.sil.ends >= m.sil.updated
               /\ \A p \in Peer, i \in Id : Collected(p, i)'
    BY Zenon DEF OlderInv
  <2>4. ASSUME msgs \subseteq msgs', now <= now', NEW p \in Peer, st'[p] = st[p]
        PROVE  /\ \A i \in DOMAIN st'[p] : st'[p][i].updated = high'[p][i] /\ Version(p, i)' \in msgs'
               /\ \A i \in Id : Collected(p, i)'
    <3>1. \A i \in DOMAIN st'[p] : st'[p][i].updated = high'[p][i] /\ Version(p, i)' \in msgs'
      BY Zenon, <2>1, <2>2, <2>3, <2>4 DEF Version
    <3>2. ASSUME NEW i \in Id, high'[p][i] # 0, i \notin DOMAIN st'[p]
          PROVE  \E n \in msgs' : n.id = i /\ n.sil.updated = high'[p][i] /\ ExpiresAt(n.sil) <= now'
      <4>1. high'[p][i] = high[p][i]
        BY Zenon, <2>2, <3>2
      <4>2. PICK n \in msgs : n.id = i /\ n.sil.updated = high[p][i] /\ ExpiresAt(n.sil) <= now
        BY Zenon, <2>1, <2>4, <3>2, <4>1 DEF Collected
      <4>3. ExpiresAt(n.sil) <= now'
        BY <2>3, <2>4, <4>2 DEF ExpiresAt
      <4> QED BY Zenon, <2>4, <4>1, <4>2, <4>3
    <3> QED BY Zenon, <3>1, <3>2 DEF Collected, ExpiresAt
  <2>5. ASSUME UNCHANGED <<st, msgs>>, now <= now'
        PROVE  /\ \A p \in Peer : \A i \in DOMAIN st'[p] : st'[p][i].updated = high'[p][i] /\ Version(p, i)' \in msgs'
               /\ \A m \in msgs' : m.sil.ends >= m.sil.updated
               /\ \A p \in Peer, i \in Id : Collected(p, i)'
    BY Zenon, <2>1, <2>4, <2>5
  <2>6. CASE Tick
    BY <2>3, <2>5, <2>6 DEF Tick
  <2>7. ASSUME NEW p \in Peer, Changes(p)
        PROVE  /\ \A q \in Peer : \A i \in DOMAIN st'[q] : st'[q][i].updated = high'[q][i] /\ Version(q, i)' \in msgs'
               /\ \A m \in msgs' : m.sil.ends >= m.sil.updated
               /\ \A q \in Peer, i \in Id : Collected(q, i)'
    <3>1. PICK x : Writes(p, x) /\ Becomes(p, x)
      BY Zenon, <2>7, ChangesWrite
    <3>2. /\ st'[p] = x.st /\ \A q \in Peer : q # p => st'[q] = st[q]
          /\ msgs' = msgs \cup x.sent /\ now' = now
      BY Zenon, <3>1 DEF Becomes, TypeInv, Shape, Circulation
    <3>3. \A m \in msgs' : m.sil.ends >= m.sil.updated
      BY Zenon, <2>1, <3>1, <3>2 DEF Writes
    <3>4. ASSUME NEW i \in DOMAIN st'[p]
          PROVE  st'[p][i].updated = high'[p][i] /\ Version(p, i)' \in msgs'
      <4>1. CASE i \in DOMAIN st[p] /\ x.st[i] = st[p][i]
        BY <2>1, <2>2, <2>3, <3>2, <4>1 DEF Version
      <4>2. CASE Wrote(p, i, x.st[i]) /\ [id |-> i, sil |-> x.st[i]] \in x.sent
        <5>1. Version(p, i)' \in msgs'
          BY Zenon, <3>2, <4>2 DEF Version
        <5>2. ~(st'[p][i].updated < high[p][i])
          <6> SUFFICES ASSUME st'[p][i].updated < high[p][i] PROVE FALSE
            OBVIOUS
          <6>1. ~ClockMoved \/ x.st[i].updated # now
            BY <2>3, <3>2 DEF ClockMoved
          <6>2. PICK m \in msgs : i = m.id /\ x.st[i] = m.sil /\ Arrives(p, m) /\ Merges(Fields(p), i, x.st[i])
            BY Zenon, <4>2, <6>1 DEF Wrote
          <6>3. i \notin DOMAIN st[p]
            BY <2>1, <2>3, <3>2, <6>2, FieldsOf DEF Merges
          <6>4. PICK n \in msgs : n.id = i /\ n.sil.updated = high[p][i] /\ ExpiresAt(n.sil) <= now
            BY <2>1, <2>3, <3>2, <6>3 DEF Collected
          <6>5. now <= n.sil.updated + Delay
            BY Zenon, <3>2, <6>2, <6>4 DEF Arrives
          <6> QED BY <2>1, <2>3, <6>4, <6>5 DEF ExpiresAt
        <5>3. i \in Id /\ st'[p][i].updated \in Nat /\ high[p][i] \in Nat
          BY Zenon, <2>3, <3>4
        <5>4. high'[p][i] = IF st'[p][i].updated > high[p][i] THEN st'[p][i].updated ELSE high[p][i]
          BY Zenon, <2>2, <3>4, <5>3
        <5> QED BY <5>1, <5>2, <5>3, <5>4
      <4> QED BY Zenon, <3>1, <3>2, <4>1, <4>2 DEF Writes
    <3>5. ASSUME NEW i \in Id PROVE Collected(p, i)'
      <4> SUFFICES ASSUME high'[p][i] # 0, i \notin DOMAIN st'[p]
                   PROVE  \E n \in msgs' : n.id = i /\ n.sil.updated = high'[p][i] /\ ExpiresAt(n.sil) <= now'
        BY Zenon DEF Collected, ExpiresAt
      <4>1. high'[p][i] = high[p][i] /\ i \notin DOMAIN st[p]
        BY Zenon, <2>2, <3>1, <3>2 DEF Writes
      <4>2. PICK n \in msgs : n.id = i /\ n.sil.updated = high[p][i] /\ ExpiresAt(n.sil) <= now
        BY Zenon, <2>1, <4>1 DEF Collected
      <4> QED BY Zenon, <3>2, <4>1, <4>2
    <3>6. msgs \subseteq msgs' /\ now <= now'
      BY <2>3, <3>2
    <3> QED BY Zenon, <2>4, <3>2, <3>3, <3>4, <3>5, <3>6
  <2>8. ASSUME NEW p \in Peer, GC(p)
        PROVE  /\ \A q \in Peer : \A i \in DOMAIN st'[q] : st'[q][i].updated = high'[q][i] /\ Version(q, i)' \in msgs'
               /\ \A m \in msgs' : m.sil.ends >= m.sil.updated
               /\ \A q \in Peer, i \in Id : Collected(q, i)'
    <3>1. /\ st'[p] = [i \in DOMAIN st[p] \ Gone(p) |-> st[p][i]] /\ \A q \in Peer : q # p => st'[q] = st[q]
          /\ msgs' = msgs /\ now' = now
      BY Zenon, <2>8 DEF GC, TypeInv, Shape
    <3>2. \A i \in DOMAIN st'[p] : st'[p][i].updated = high'[p][i] /\ Version(p, i)' \in msgs'
      BY <2>1, <2>2, <2>3, <3>1 DEF Version
    <3>3. ASSUME NEW i \in Id, high'[p][i] # 0, i \notin DOMAIN st'[p]
          PROVE  \E n \in msgs' : n.id = i /\ n.sil.updated = high'[p][i] /\ ExpiresAt(n.sil) <= now'
      <4>1. high'[p][i] = high[p][i]
        BY Zenon, <2>2, <3>3
      <4>2. CASE i \notin DOMAIN st[p]
        BY <2>1, <3>1, <3>3, <4>1, <4>2 DEF Collected
      <4>3. CASE i \in DOMAIN st[p]
        <5>1. i \in Gone(p)
          BY Zenon, <3>1, <3>3, <4>3
        <5>2. ExpiresAt(st[p][i]) <= now
          BY Zenon, <5>1 DEF Gone
        <5>3. Version(p, i) \in msgs /\ st[p][i].updated = high[p][i]
          BY Zenon, <2>1, <4>3
        <5>4. Version(p, i).id = i /\ Version(p, i).sil = st[p][i]
          BY Zenon DEF Version
        <5> QED BY Zenon, <3>1, <4>1, <5>2, <5>3, <5>4
      <4> QED BY Zenon, <4>2, <4>3
    <3>4. \A i \in Id : Collected(p, i)'
      BY Zenon, <3>3 DEF Collected, ExpiresAt
    <3>5. msgs \subseteq msgs' /\ now <= now'
      BY <2>3, <3>1
    <3>6. \A m \in msgs' : m.sil.ends >= m.sil.updated
      BY Zenon, <2>1, <3>1
    <3> QED BY ZenonT(60), <2>4, <3>1, <3>2, <3>4, <3>5, <3>6
  <2>9. ASSUME NEW id \in Id, Gossip(id)
        PROVE  /\ \A q \in Peer : \A i \in DOMAIN st'[q] : st'[q][i].updated = high'[q][i] /\ Version(q, i)' \in msgs'
               /\ \A m \in msgs' : m.sil.ends >= m.sil.updated
               /\ \A q \in Peer, i \in Id : Collected(q, i)'
    <3> DEFINE g == [id |-> id, sil |-> [m |-> {}, ok |-> FALSE, starts |-> now, ends |-> MaxTime, updated |-> now]]
    <3>1. msgs' = msgs \cup {g} /\ UNCHANGED <<now, st>>
      BY Zenon, <2>9 DEF Gossip
    <3>2. g.sil.ends >= g.sil.updated
      BY DEF TypeInv, TypeOK, Time, Setting
    <3> HIDE DEF g
    <3> QED BY <2>1, <2>3, <2>4, <3>1, <3>2
  <2>10. ASSUME NEW p \in Peer, Snapshot(p) \/ Restart(p) PROVE FALSE
    BY Zenon, <2>10 DEF Snapshot, Restart
  <2>11. ASSUME NEW p \in Peer, NEW l \in Lset, PostGC(p, l) PROVE UNCHANGED <<now, st, msgs>>
    BY Zenon, <2>11 DEF PostGC, dataVars
  <2>12. ASSUME NEW c, Mutes(c) PROVE UNCHANGED <<now, st, msgs>>
    BY Zenon, <2>12, MutesFrame DEF dataVars
  <2> QED BY <1>2, <2>3, <2>5, <2>6, <2>7, <2>8, <2>9, <2>10, <2>11, <2>12, StepCases DEF Next
<1> QED BY Zenon, <1>1, <1>2

\* state.merge, GC: a peer that has had a version of a silence does not go back to an
\* older one, for any number of peers and silences, if a replaced version does not
\* circulate longer than the retention.
THEOREM NeverOlderThm == ASSUME Setting, Circulation PROVE Spec => []NeverOlder
<1>1. Init => OlderInv
  BY DEF Init, OlderInv, Empty, Collected
<1>2. OlderInv => NeverOlder
  BY Zenon DEF OlderInv, NeverOlder
<1> QED BY <1>1, <1>2, OlderStep, Typed, PTL DEF Spec

-----------------------------------------------------------------------------
(* The past of a silence *)

\* Two versions of a silence were active at the same times before now.
SameUntilNow(a, b) == \A t \in 1 .. (now - 1) : WasActive(a, t) = WasActive(b, t)

\* x keeps when the silences of p were active before now.
Past(p, x) ==
    /\ Named(x) /\ DOMAIN st[p] \subseteq DOMAIN x.st
    /\ \A i \in DOMAIN st[p] : SameUntilNow(st[p][i], x.st[i])

\* A write of a version with the same past.
LEMMA SetPast ==
    ASSUME NEW p, NEW x, Past(p, x), NEW id, NEW sil, id \in DOMAIN st[p] => SameUntilNow(st[p][id], sil)
    PROVE  Past(p, setSilence(x, id, sil))
<1>1. CASE ~Merges(x, id, sil)
  BY Zenon, <1>1 DEF setSilence
<1>2. CASE Merges(x, id, sil)
  <2> DEFINE y == setSilence(x, id, sil)
  <2>1. Puts(x, y, id, sil)
    BY Zenon, <1>2, SetSilence DEF Past
  <2> HIDE DEF y
  <2> QED BY Zenon, <2>1 DEF Puts, Store, Past, y
<1> QED BY Zenon, <1>1, <1>2

\* expire keeps the past.
LEMMA ExpirePast ==
    ASSUME TypeInv, NEW p \in Peer, NEW id \in DOMAIN st[p]
    PROVE  Past(p, expire(Fields(p), id))
<1> now \in Time /\ st[p][id] \in Sil
  BY Zenon DEF TypeInv, TypeOK
<1>0. Past(p, Fields(p))
  BY Zenon, FieldsOf DEF Past, SameUntilNow
<1>1. CASE getState(st[p][id], now) = "expired"
  BY Zenon, <1>0, <1>1, FieldsOf DEF expire
<1>2. CASE getState(st[p][id], now) # "expired"
  <2>1. expire(Fields(p), id) = setSilence(Fields(p), id, Expired(st[p][id]))
    BY Zenon, <1>2, FieldsOf DEF expire
  <2>2. SameUntilNow(st[p][id], Expired(st[p][id]))
    BY <1>2 DEF SameUntilNow, Expired, WasActive, getState, Sil, Time
  <2> QED BY Zenon, <1>0, <2>1, <2>2, SetPast
<1> QED BY Zenon, <1>1, <1>2

\* So do Set and Expire.
LEMMA SetKeepsPast ==
    ASSUME TypeInv, NEW p \in Peer, Set(p) \/ \E id \in Id : Expire(p, id)
    PROVE  \E x : Past(p, x) /\ Becomes(p, x)
<1> now \in Time /\ DOMAIN st[p] \subseteq Id /\ \A i \in DOMAIN st[p] : st[p][i] \in Sil
  BY Zenon DEF TypeInv, TypeOK
<1>0. Past(p, Fields(p))
  BY Zenon, FieldsOf DEF Past, SameUntilNow
<1>1. CASE Set(p)
  <2>1. PICK sil \in Input : \/ \E id \in DOMAIN st[p] : \/ Update(p, id, sil)
                                                         \/ \E new \in Id : Create(p, id, new, sil)
                             \/ \E new \in Id : Create(p, new, new, sil)
    BY Zenon, <1>1 DEF Set
  <2>2. ASSUME NEW id \in DOMAIN st[p], Update(p, id, sil)
        PROVE  \E x : Past(p, x) /\ Becomes(p, x)
    <3>1. SameUntilNow(st[p][id], [sil EXCEPT !.updated = now])
      BY <2>2 DEF SameUntilNow, Update, canUpdate, WasActive, getState, Input, Sil, Time
    <3> QED BY Zenon, <1>0, <2>2, <3>1, SetPast DEF Update
  <2>3. ASSUME NEW id \in Id, NEW new \in Id, Create(p, id, new, sil)
        PROVE  \E x : Past(p, x) /\ Becomes(p, x)
    <3> DEFINE fresh == [sil EXCEPT !.starts = IF @ < now THEN now ELSE @, !.updated = now]
               old == IF id \in DOMAIN st[p] THEN expire(Fields(p), id) ELSE Fields(p)
    <3>1. new \notin DOMAIN st[p]
      BY <2>3 DEF Create, Used, TypeInv, Shape, Sil, Time
    <3>2. Past(p, old)
      BY Zenon, <1>0, ExpirePast
    <3>3. Becomes(p, setSilence(old, new, fresh))
      BY Zenon, <2>3 DEF Create
    <3> HIDE DEF old, fresh
    <3> QED BY Zenon, <3>1, <3>2, <3>3, SetPast
  <2> QED BY Zenon, <2>1, <2>2, <2>3
<1>2. ASSUME NEW id \in Id, Expire(p, id)
      PROVE  \E x : Past(p, x) /\ Becomes(p, x)
  BY Zenon, <1>2, ExpirePast DEF Expire
<1> QED BY Zenon, <1>1, <1>2

\* HistoryKept holds of every step.
LEMMA PastStep ==
    ASSUME TypeInv
    PROVE  HistoryKept
<1> SUFFICES ASSUME NEW p \in Peer, Set(p) \/ \E id \in Id : Expire(p, id), NEW i \in DOMAIN st[p]
             PROVE  SamePast(p, i)
  BY Zenon DEF HistoryKept
<1>1. PICK x : Past(p, x) /\ Becomes(p, x)
  BY Zenon, SetKeepsPast
<1>2. st'[p] = x.st
  BY Zenon, <1>1 DEF Becomes, TypeInv, Shape
<1> QED BY Zenon, <1>1, <1>2 DEF Past, SamePast, SameUntilNow

\* canUpdate, Set, expire: no operation of a user changes when a silence was active
\* before now, in any state of any cluster.
THEOREM HistoryKeptThm == ASSUME Setting PROVE Spec => [][HistoryKept]_vars
<1>1. TypeInv /\ [Next]_vars => [HistoryKept]_vars
  BY Zenon, PastStep
<1> QED BY <1>1, Typed, PTL DEF Spec
-----------------------------------------------------------------------------
(* The matchers of a silence never change, and every silence is indexed *)

\* All versions of a silence that a peer has, has saved or has announced.
Vers(i) == {m.sil : m \in {m \in msgs : m.id = i}}
           \cup {st[p][i] : p \in {p \in Peer : i \in DOMAIN st[p]}}
           \cup {snap[p][i] : p \in {p \in Peer : i \in DOMAIN snap[p]}}
\* Two versions have the same matchers.
Alike(a, b) == a.m = b.m /\ a.ok = b.ok
\* All versions of a silence have the same matchers.
MatchInv ==
    /\ \A i \in Id : \A a, b \in Vers(i) : Alike(a, b)
    /\ ~scene.foreign => \A i \in Id : \A a \in Vers(i) : a.ok = TRUE
    /\ \A p \in Peer : \A i \in DOMAIN snap[p] : i \in Used
\* The version index holds silences that are there, and all that compile.
IndexInv ==
    /\ \A p \in Peer : \A e \in vi[p] : e[2] \in DOMAIN st[p]
    /\ ~scene.foreign => \A p \in Peer : \A i \in DOMAIN st[p] : i \in mi[p] /\ \E e \in vi[p] : e[2] = i
\* The entry (S, v) of a cache misses no silence that had a version up to v.
Valid(p, l, S, v) ==
    /\ v <= ver[p]
    /\ \A e \in vi[p] : e[1] <= v /\ l \in st[p][e[2]].m /\ Live(p, e[2]) => e[2] \in S
\* Calls take no time, updates come in time, and matchers compile.
Easy == ~scene.slow /\ ~scene.late /\ ~scene.foreign
\* What a call of Mutes knows, at each of its steps.
MutesInv(c) ==
    LET k == call[c] IN
    /\ k.pc # "idle" => seen[c].cov \subseteq Covering(c)
    /\ k.pc \in {"version", "old", "last"} => Valid(c.peer, c.lset, k.entry.ids, k.entry.version)
    /\ k.pc = "last" => k.new = k.entry.version /\ seen[c].cov \subseteq k.entry.ids
    /\ k.pc = "new" => Valid(c.peer, c.lset, DOMAIN k.sils, k.entry.version)
    /\ k.pc = "categorize" => Valid(c.peer, c.lset, DOMAIN k.sils, k.new) /\ seen[c].cov \subseteq DOMAIN k.sils
    /\ k.pc \in {"new", "categorize"} => \A i \in DOMAIN k.sils :
            /\ getState(k.sils[i], now) # "expired"
            /\ i \in seen[c].cov => getState(k.sils[i], now) = "active"
\* No cache and no call has missed a silence that matches and has not ended.
CoverInv == Easy => /\ \A p \in Peer, l \in Lset : Valid(p, l, cache[p][l].ids, cache[p][l].version)
                    /\ \A c \in Caller : MutesInv(c)
\* All versions of the silence i match l.
Hits(i, l) == i \in Used /\ \A a \in Vers(i) : l \in a.m

\* A version that p may write: an update of a silence with its matchers, or a new silence.
Fits(p, n) ==
    /\ n.id \in Id
    /\ (n.id \in DOMAIN st[p] /\ ~scene.late) => Live(p, n.id)
    /\ \/ \E a \in Vers(n.id) : Alike(a, n.sil)
       \/ n.id \notin Used /\ n.sil.ok = TRUE

\* x is what p has, after such writes.
Extended(p, x) ==
    /\ Named(x) /\ DOMAIN st[p] \subseteq DOMAIN x.st
    /\ \A i \in DOMAIN x.st : \/ i \in DOMAIN st[p] /\ x.st[i] = st[p][i]
                              \/ \E n \in x.sent : n.id = i /\ n.sil = x.st[i]
    /\ \A n \in x.sent : Fits(p, n)
    /\ \A n, k \in x.sent : n.id = k.id /\ n.id \notin Used => n.sil = k.sil
    /\ x.ver \in Nat /\ ver[p] <= x.ver
    /\ vi[p] \subseteq x.vi /\ mi[p] \subseteq x.mi
    /\ \A e \in x.vi : e[2] \in DOMAIN x.st /\ (e \in vi[p] \/ e[1] > ver[p])
    /\ \A i \in DOMAIN x.st \ DOMAIN st[p] : (\E e \in x.vi : e[2] = i) /\ (x.st[i].ok = TRUE => i \in x.mi)

\* A silence that was not used has no version.
LEMMA UnusedIsNew ==
    ASSUME TypeInv, MatchInv, NEW i \in Id, i \notin Used
    PROVE  Vers(i) = {} /\ \A p \in Peer : i \notin DOMAIN st[p]
<1>1. \A p \in Peer : i \notin DOMAIN st[p]
  BY DEF Used, TypeInv, TypeOK, Shape, Sil, Time
<1>2. \A p \in Peer : i \notin DOMAIN snap[p]
  BY Zenon DEF MatchInv
<1>3. \A m \in msgs : m.id # i
  BY Zenon DEF Used
<1> QED BY Zenon, <1>1, <1>2, <1>3 DEF Vers

\* Before a write nothing has changed.
LEMMA FieldsExtended ==
    ASSUME TypeInv, IndexInv, NEW p \in Peer
    PROVE  Extended(p, Fields(p))
<1>1. ver[p] \in Nat
  BY Zenon DEF TypeInv, TypeOK
<1> QED BY <1>1, FieldsOf DEF Extended, IndexInv

\* A write of a version that fits.
LEMMA SetExtends ==
    ASSUME TypeInv, NEW p \in Peer, NEW x, Extended(p, x), NEW id \in Id, NEW sil,
           Fits(p, [id |-> id, sil |-> sil]), id \in DOMAIN st[p] \/ id \notin DOMAIN x.st,
           id \notin Used => \A n \in x.sent : n.id # id
    PROVE  Extended(p, setSilence(x, id, sil))
<1>1. CASE ~Merges(x, id, sil)
  BY Zenon, <1>1 DEF setSilence
<1>2. CASE Merges(x, id, sil)
  <2> DEFINE y == setSilence(x, id, sil)
             v == [id |-> id, sil |-> sil]
  <2>1. Puts(x, y, id, sil)
    BY Zenon, <1>2, SetSilence DEF Extended
  <2> HIDE DEF y
  <2>2. /\ Named(y) /\ DOMAIN y.st = DOMAIN x.st \cup {id} /\ y.st[id] = sil
        /\ \A i \in DOMAIN x.st : i # id => y.st[i] = x.st[i]
        /\ y.sent = x.sent \cup {v}
    BY Zenon, <2>1 DEF Puts, Store
  <2>3. v.id = id /\ v.sil = sil /\ Fits(p, v)
    OBVIOUS
  <2> HIDE DEF v
  <2>4. ver[p] \in Nat /\ x.ver \in Nat /\ ver[p] <= x.ver
    BY Zenon DEF TypeInv, TypeOK, Extended
  <2>5. \A i \in DOMAIN y.st : \/ i \in DOMAIN st[p] /\ y.st[i] = st[p][i]
                               \/ \E n \in y.sent : n.id = i /\ n.sil = y.st[i]
    BY <2>2, <2>3 DEF Extended
  <2>6. (\A n \in y.sent : Fits(p, n)) /\ \A n, k \in y.sent : n.id = k.id /\ n.id \notin Used => n.sil = k.sil
    BY <2>2, <2>3 DEF Extended
  <2>7. CASE id \in DOMAIN x.st
    <3>1. y.ver = x.ver /\ y.vi = x.vi /\ y.mi = x.mi
      BY Zenon, <2>1, <2>7 DEF Puts
    <3>2. DOMAIN y.st = DOMAIN x.st /\ id \in DOMAIN st[p]
      BY Zenon, <2>2, <2>7
    <3>3. \A i \in DOMAIN y.st \ DOMAIN st[p] : (\E e \in y.vi : e[2] = i) /\ (y.st[i].ok = TRUE => i \in y.mi)
      BY <2>2, <3>1, <3>2 DEF Extended
    <3> QED BY Zenon, <2>2, <2>5, <2>6, <3>1, <3>2, <3>3 DEF Extended, y
  <2>8. CASE id \notin DOMAIN x.st
    <3> DEFINE f == <<x.ver + 1, id>>
    <3>1. /\ y.ver = x.ver + 1 /\ y.vi = x.vi \cup {f} /\ x.mi \subseteq y.mi
          /\ (sil.ok = TRUE => id \in y.mi)
      BY Zenon, <2>1, <2>8 DEF Puts
    <3>2. f[1] > ver[p] /\ f[2] = id /\ y.ver \in Nat /\ ver[p] <= y.ver
      BY <2>4, <3>1
    <3> HIDE DEF f
    <3>3. \A e \in y.vi : e[2] \in DOMAIN y.st /\ (e \in vi[p] \/ e[1] > ver[p])
      BY Zenon, <2>2, <3>1, <3>2 DEF Extended
    <3>4. ASSUME NEW i \in DOMAIN y.st \ DOMAIN st[p]
          PROVE  (\E e \in y.vi : e[2] = i) /\ (y.st[i].ok = TRUE => i \in y.mi)
      <4>1. CASE i = id
        BY Zenon, <2>2, <3>1, <3>2, <4>1
      <4>2. CASE i # id
        BY Zenon, <2>2, <3>1, <3>4, <4>2 DEF Extended
      <4> QED BY ZenonT(60), <4>1, <4>2
    <3>5. DOMAIN st[p] \subseteq DOMAIN y.st /\ vi[p] \subseteq y.vi /\ mi[p] \subseteq y.mi
      BY Zenon, <2>2, <3>1 DEF Extended
    <3> QED BY ZenonT(60), <2>2, <2>5, <2>6, <3>2, <3>3, <3>4, <3>5 DEF Extended, y
  <2> QED BY Zenon, <2>7, <2>8
<1> QED BY Zenon, <1>1, <1>2

\* expire writes a version that fits.
LEMMA ExpireExtends ==
    ASSUME TypeInv, MatchInv, IndexInv, NEW p \in Peer, NEW id \in DOMAIN st[p]
    PROVE  LET x == expire(Fields(p), id) IN
           Extended(p, x) /\ DOMAIN x.st = DOMAIN st[p] /\ \A n \in x.sent : n.id = id
<1> id \in Id /\ st[p][id] \in Sil
  BY Zenon DEF TypeInv, TypeOK
<1>0. Extended(p, Fields(p))
  BY Zenon, FieldsExtended
<1>1. CASE getState(st[p][id], now) = "expired"
  BY Zenon, <1>0, <1>1, FieldsOf DEF expire
<1>2. CASE getState(st[p][id], now) # "expired"
  <2> DEFINE s == Expired(st[p][id])
             x == setSilence(Fields(p), id, s)
  <2>1. expire(Fields(p), id) = x
    BY Zenon, <1>2, FieldsOf DEF expire
  <2>2. Alike(st[p][id], s)
    BY Zenon DEF Alike, Expired, Sil
  <2> HIDE DEF s
  <2>3. st[p][id] \in Vers(id)
    BY Zenon DEF Vers
  <2>4. Fits(p, [id |-> id, sil |-> s])
    BY Zenon, <1>2, <2>2, <2>3 DEF Fits, Live
  <2>5. \A n \in Fields(p).sent : n.id # id
    BY Zenon, FieldsOf
  <2>6. Extended(p, x)
    BY Zenon, <1>0, <2>4, <2>5, SetExtends
  <2>7. DOMAIN x.st = DOMAIN st[p] /\ \A n \in x.sent : n.id = id
    <3>1. CASE ~Merges(Fields(p), id, s)
      BY Zenon, <3>1, FieldsOf DEF setSilence
    <3>2. CASE Merges(Fields(p), id, s)
      <4>1. Puts(Fields(p), x, id, s)
        BY Zenon, <3>2, FieldsOf, SetSilence
      <4> HIDE DEF x
      <4> QED BY <4>1, FieldsOf DEF Puts, Store
    <3> QED BY Zenon, <3>1, <3>2
  <2> HIDE DEF x
  <2> QED BY Zenon, <2>1, <2>6, <2>7
<1> QED BY Zenon, <1>1, <1>2

\* All that Set, Expire and Merge do to a peer is to write versions that fit.
LEMMA ChangesExtend ==
    ASSUME TypeInv, MatchInv, IndexInv, NEW p \in Peer, Changes(p)
    PROVE  \E x : Extended(p, x) /\ Becomes(p, x)
<1> now \in Time /\ DOMAIN st[p] \subseteq Id /\ \A i \in DOMAIN st[p] : st[p][i] \in Sil
  BY Zenon DEF TypeInv, TypeOK
<1>0. Extended(p, Fields(p)) /\ Fields(p).st = st[p] /\ Fields(p).sent = {}
  BY Zenon, FieldsExtended, FieldsOf
<1>1. CASE Set(p)
  <2>1. PICK sil \in Input : \/ \E id \in DOMAIN st[p] : \/ Update(p, id, sil)
                                                         \/ \E new \in Id : Create(p, id, new, sil)
                             \/ \E new \in Id : Create(p, new, new, sil)
    BY Zenon, <1>1 DEF Set
  <2>2. ASSUME NEW id \in DOMAIN st[p], Update(p, id, sil)
        PROVE  \E x : Extended(p, x) /\ Becomes(p, x)
    <3> DEFINE s == [sil EXCEPT !.updated = now]
    <3>1. Alike(st[p][id], s) /\ getState(st[p][id], now) # "expired"
      BY Zenon, <2>2 DEF Alike, Update, canUpdate, Input
    <3>2. Becomes(p, setSilence(Fields(p), id, s))
      BY Zenon, <2>2 DEF Update
    <3> HIDE DEF s
    <3>3. st[p][id] \in Vers(id)
      BY Zenon DEF Vers
    <3>4. Fits(p, [id |-> id, sil |-> s])
      BY Zenon, <3>1, <3>3 DEF Fits, Live
    <3> QED BY Zenon, <1>0, <3>2, <3>4, SetExtends
  <2>3. ASSUME NEW id \in Id, NEW new \in Id, Create(p, id, new, sil)
        PROVE  \E x : Extended(p, x) /\ Becomes(p, x)
    <3> DEFINE fresh == [sil EXCEPT !.starts = IF @ < now THEN now ELSE @, !.updated = now]
               old == IF id \in DOMAIN st[p] THEN expire(Fields(p), id) ELSE Fields(p)
    <3>1. new \notin Used /\ new \notin DOMAIN st[p]
      BY Zenon, <2>3, UnusedIsNew DEF Create
    <3>2. fresh.ok = TRUE
      BY ZenonT(60) DEF Input
    <3>3. Extended(p, old) /\ DOMAIN old.st = DOMAIN st[p] /\ \A n \in old.sent : n.id = id /\ id \in DOMAIN st[p]
      <4>1. CASE id \in DOMAIN st[p]
        BY Zenon, <4>1, ExpireExtends
      <4>2. CASE id \notin DOMAIN st[p]
        BY Zenon, <1>0, <4>2
      <4> QED BY Zenon, <4>1, <4>2
    <3>4. Becomes(p, setSilence(old, new, fresh))
      BY Zenon, <2>3 DEF Create
    <3> HIDE DEF old, fresh
    <3>5. Fits(p, [id |-> new, sil |-> fresh])
      BY Zenon, <3>1, <3>2 DEF Fits
    <3>6. \A n \in old.sent : n.id # new
      BY Zenon, <3>1, <3>3
    <3> QED BY Zenon, <3>1, <3>3, <3>4, <3>5, <3>6, SetExtends
  <2> QED BY Zenon, <2>1, <2>2, <2>3
<1>2. ASSUME NEW id \in Id, Expire(p, id)
      PROVE  \E x : Extended(p, x) /\ Becomes(p, x)
  BY Zenon, <1>2, ExpireExtends DEF Expire
<1>3. ASSUME NEW m \in msgs, Merge(p, m)
      PROVE  \E x : Extended(p, x) /\ Becomes(p, x)
  <2>1. m.id \in Id /\ m.sil \in Vers(m.id)
    BY Zenon DEF Vers, TypeInv, TypeOK
  <2>2. Fits(p, [id |-> m.id, sil |-> m.sil])
    BY Zenon, <1>3, <2>1 DEF Fits, Alike, Merge, Arrives, Live
  <2>3. m.id \in DOMAIN st[p] \/ m.id \notin DOMAIN Fields(p).st
    BY Zenon, <1>0
  <2>4. \A n \in Fields(p).sent : n.id # m.id
    BY Zenon, <1>0
  <2>5. Extended(p, setSilence(Fields(p), m.id, m.sil))
    BY Zenon, <1>0, <2>1, <2>2, <2>3, <2>4, SetExtends
  <2> QED BY Zenon, <1>3, <2>5 DEF Merge
<1> QED BY Zenon, <1>1, <1>2, <1>3 DEF Changes

\* The versions of a silence after a step are like those before it.
Unfolded(i) ==
    /\ i \in Used => \A b \in Vers(i)' : \E a \in Vers(i) : Alike(a, b)
    /\ i \notin Used => \A a, b \in Vers(i)' : Alike(a, b)
    /\ ~scene.foreign => \A b \in Vers(i)' : b.ok = TRUE

\* Where a version comes from.
LEMMA VersIs ==
    ASSUME NEW i, NEW s
    PROVE  s \in Vers(i) <=> \/ \E m \in msgs : m.id = i /\ s = m.sil
                             \/ \E p \in Peer : i \in DOMAIN st[p] /\ s = st[p][i]
                             \/ \E p \in Peer : i \in DOMAIN snap[p] /\ s = snap[p][i]
BY Zenon DEF Vers

\* Where a version comes from after the step.
LEMMA VersIsNext ==
    ASSUME NEW i, NEW s
    PROVE  s \in Vers(i)' <=> \/ \E m \in msgs' : m.id = i /\ s = m.sil
                              \/ \E p \in Peer : i \in DOMAIN st'[p] /\ s = st'[p][i]
                              \/ \E p \in Peer : i \in DOMAIN snap'[p] /\ s = snap'[p][i]
BY Zenon DEF Vers

\* No step gives a silence other matchers.
LEMMA VersStep ==
    ASSUME TypeInv, MatchInv, IndexInv, Step, NEW i \in Id
    PROVE  Unfolded(i)
<1>0. ASSUME Vers(i)' \subseteq Vers(i) PROVE Unfolded(i)
  BY Zenon, <1>0 DEF Unfolded, Alike, MatchInv
<1>1. ASSUME UNCHANGED <<st, msgs, snap>> PROVE Unfolded(i)
  BY Zenon, <1>0, <1>1 DEF Vers
<1>2. ASSUME NEW p \in Peer, Changes(p) PROVE Unfolded(i)
  <2>1. PICK x : Extended(p, x) /\ Becomes(p, x)
    BY Zenon, <1>2, ChangesExtend
  <2>2. /\ st'[p] = x.st /\ \A q \in Peer : q # p => st'[q] = st[q]
        /\ msgs' \subseteq msgs \cup x.sent /\ snap' = snap
    BY Zenon, <2>1 DEF Becomes, TypeInv, Shape
  <2>3. ASSUME NEW s \in Vers(i)'
        PROVE  s \in Vers(i) \/ \E n \in x.sent : n.id = i /\ n.sil = s
    <3>1. CASE \E m \in msgs' : m.id = i /\ s = m.sil
      BY Zenon, <2>2, <3>1, VersIs
    <3>2. ASSUME NEW q \in Peer, i \in DOMAIN st'[q], s = st'[q][i]
          PROVE  s \in Vers(i) \/ \E n \in x.sent : n.id = i /\ n.sil = s
      <4>1. CASE q # p
        BY Zenon, <2>2, <3>2, <4>1, VersIs
      <4>2. CASE q = p
        <5>1. \/ i \in DOMAIN st[p] /\ x.st[i] = st[p][i]
              \/ \E n \in x.sent : n.id = i /\ n.sil = x.st[i]
          BY Zenon, <2>1, <2>2, <3>2, <4>2 DEF Extended
        <5> QED BY Zenon, <2>2, <3>2, <4>2, <5>1, VersIs
      <4> QED BY Zenon, <4>1, <4>2
    <3>3. CASE \E q \in Peer : i \in DOMAIN snap'[q] /\ s = snap'[q][i]
      BY Zenon, <2>2, <3>3, VersIs
    <3> QED BY Zenon, <2>3, <3>1, <3>2, <3>3, VersIsNext
  <2>4. \A n \in x.sent : Fits(p, n)
    BY Zenon, <2>1 DEF Extended
  <2>5. CASE i \in Used
    <3>1. \A b \in Vers(i)' : \E a \in Vers(i) : Alike(a, b)
      BY <2>3, <2>4, <2>5 DEF Fits, Alike
    <3>2. ~scene.foreign => \A b \in Vers(i)' : b.ok = TRUE
      BY Zenon, <3>1 DEF MatchInv, Alike
    <3> QED BY Zenon, <2>5, <3>1, <3>2 DEF Unfolded
  <2>6. CASE i \notin Used
    <3>1. Vers(i) = {}
      BY Zenon, <2>6, UnusedIsNew
    <3>2. \A b \in Vers(i)' : \E n \in x.sent : n.id = i /\ n.sil = b /\ n.sil.ok = TRUE
      BY Zenon, <2>3, <2>4, <3>1 DEF Fits
    <3>3. \A a, b \in Vers(i)' : a = b
      BY <2>1, <2>6, <3>2 DEF Extended
    <3> QED BY Zenon, <2>6, <3>2, <3>3 DEF Unfolded, Alike
  <2> QED BY Zenon, <2>5, <2>6
<1>3. ASSUME NEW p \in Peer, GC(p) PROVE Unfolded(i)
  <2>1. /\ \A q \in Peer : DOMAIN st'[q] \subseteq DOMAIN st[q] /\ \A j \in DOMAIN st'[q] : st'[q][j] = st[q][j]
        /\ msgs' = msgs /\ snap' = snap
    BY Zenon, <1>3 DEF GC, TypeInv, Shape
  <2> QED BY <1>0, <2>1, VersIs, VersIsNext
<1>4. ASSUME NEW p \in Peer, Snapshot(p) PROVE Unfolded(i)
  <2>1. /\ \A q \in Peer : snap'[q] = snap[q] \/ snap'[q] = st[q]
        /\ msgs' = msgs /\ st' = st
    BY Zenon, <1>4 DEF Snapshot, TypeInv, Shape
  <2> QED BY <1>0, <2>1, VersIs, VersIsNext
<1>5. ASSUME NEW p \in Peer, Restart(p) PROVE Unfolded(i)
  <2>1. /\ \A q \in Peer : st'[q] = st[q] \/ st'[q] = snap[q]
        /\ msgs' = msgs /\ snap' = snap
    BY Zenon, <1>5 DEF Restart, TypeInv, Shape
  <2> QED BY <1>0, <2>1, VersIs, VersIsNext
<1>6. ASSUME NEW id \in Id, Gossip(id) PROVE Unfolded(i)
  <2> DEFINE g == [id |-> id, sil |-> [m |-> {}, ok |-> FALSE, starts |-> now, ends |-> MaxTime, updated |-> now]]
  <2>1. msgs' = msgs \cup {g} /\ g.id = id
    BY Zenon, <1>6 DEF Gossip
  <2> HIDE DEF g
  <2>2. st' = st /\ snap' = snap /\ scene.foreign /\ id \notin Used
    BY Zenon, <1>6 DEF Gossip
  <2>3. CASE i # id
    BY <1>0, <2>1, <2>2, <2>3, VersIs, VersIsNext
  <2>4. CASE i = id
    <3>1. Vers(i) = {}
      BY Zenon, <2>2, <2>4, UnusedIsNew
    <3>2. \A b \in Vers(i)' : b = g.sil
      BY <2>1, <2>2, <3>1, VersIs, VersIsNext
    <3> QED BY Zenon, <2>2, <2>4, <3>2 DEF Unfolded, Alike
  <2> QED BY Zenon, <2>3, <2>4
<1>7. CASE Tick
  BY Zenon, <1>1, <1>7 DEF Tick
<1>8. ASSUME NEW p \in Peer, NEW l \in Lset, PostGC(p, l) PROVE Unfolded(i)
  BY Zenon, <1>1, <1>8 DEF PostGC, dataVars
<1>9. ASSUME NEW c, Mutes(c) PROVE Unfolded(i)
  BY Zenon, <1>1, <1>9, MutesFrame DEF dataVars
<1> QED BY Zenon, <1>2, <1>3, <1>4, <1>5, <1>6, <1>7, <1>8, <1>9, StepCases

\* A message may always come again.
LEMMA MsgsGrow ==
    ASSUME Step
    PROVE  msgs \subseteq msgs'
<1>1. ASSUME NEW p \in Peer, NEW x, Becomes(p, x) PROVE msgs \subseteq msgs'
  BY Zenon, <1>1 DEF Becomes
<1>2. ASSUME NEW p \in Peer, Changes(p) PROVE msgs \subseteq msgs'
  BY ZenonT(60), <1>1, <1>2 DEF Changes, Set, Update, Create, Expire, Merge
<1> QED BY ZenonT(60), <1>2, StepCases, MutesFrame DEF Tick, GC, Snapshot, Restart, PostGC, Gossip, dataVars

\* An id stays used.
LEMMA UsedGrows ==
    ASSUME TypeInv, TypeInv', Next
    PROVE  Used \subseteq Used'
<1>1. high' = [p \in Peer |-> [i \in Id |->
             IF i \in DOMAIN st'[p] /\ st'[p][i].updated > high[p][i]
             THEN st'[p][i].updated ELSE high[p][i]]]
  BY Zenon DEF Next, Observe
<1>2. \A p \in Peer, i \in Id : high[p][i] \in Nat /\ (i \in DOMAIN st'[p] => st'[p][i].updated \in Nat)
  BY DEF TypeInv, TypeOK, Shape, Sil, Time
<1>3. \A p \in Peer, i \in Id : high[p][i] > 0 => high'[p][i] > 0
  BY <1>1, <1>2
<1>4. msgs \subseteq msgs'
  BY Zenon, MsgsGrow DEF Next
<1> QED BY Zenon, <1>3, <1>4 DEF Used

\* MatchInv is inductive.
LEMMA MatchStep ==
    ASSUME TypeInv, TypeInv', MatchInv, IndexInv, [Next]_vars
    PROVE  MatchInv'
<1>1. CASE UNCHANGED vars
  BY <1>1 DEF vars, MatchInv, Vers, Used
<1>2. CASE Next
  <2>1. \A i \in Id : Unfolded(i)
    BY Zenon, <1>2, VersStep DEF Next
  <2>2. \A i \in Id : \A a, b \in Vers(i)' : Alike(a, b)
    BY <2>1 DEF Unfolded, MatchInv, Alike
  <2>3. scene' = scene /\ (~scene.foreign => \A i \in Id : \A a \in Vers(i)' : a.ok = TRUE)
    BY Zenon, <1>2, <2>1 DEF Unfolded, Next
  <2>4. ASSUME NEW p \in Peer, NEW i \in DOMAIN snap'[p] PROVE i \in Used'
    <3>1. i \in DOMAIN snap[p] \/ i \in DOMAIN st[p]
      <4>1. \A q \in Peer : Changes(q) => snap' = snap
        BY Zenon, ChangesExtend DEF Becomes
      <4>2. \A q \in Peer : Snapshot(q) => snap'[p] = snap[p] \/ snap'[p] = st[p]
        BY Zenon DEF Snapshot, TypeInv, Shape
      <4> QED BY ZenonT(60), <1>2, <2>4, <4>1, <4>2, StepCases, MutesFrame
              DEF Next, Tick, GC, Restart, PostGC, Gossip, dataVars
    <3>2. \A j \in DOMAIN st[p] : j \in Used
      BY DEF Used, TypeInv, TypeOK, Shape, Sil, Time
    <3> QED BY Zenon, <1>2, <3>1, <3>2, UsedGrows DEF MatchInv
  <2> QED BY Zenon, <2>2, <2>3, <2>4 DEF MatchInv, Alike
<1> QED BY Zenon, <1>1, <1>2

\* IndexInv is inductive.
LEMMA IndexStep ==
    ASSUME TypeInv, TypeInv', MatchInv, MatchInv', IndexInv, [Next]_vars
    PROVE  IndexInv'
<1> DEFINE Indexed(p) == \A e \in vi[p] : e[2] \in DOMAIN st[p]
           Full(p) == \A i \in DOMAIN st[p] : i \in mi[p] /\ \E e \in vi[p] : e[2] = i
<1>1. CASE UNCHANGED vars
  BY Zenon, <1>1 DEF vars, IndexInv
<1>2. CASE Next
  <2>0. /\ scene' = scene /\ \A p \in Peer : Indexed(p) /\ (~scene.foreign => Full(p))
        /\ Step
    BY Zenon, <1>2 DEF Next, IndexInv
  <2> SUFFICES ASSUME NEW q \in Peer PROVE Indexed(q)' /\ (~scene.foreign => Full(q)')
    BY Zenon, <2>0 DEF IndexInv
  <2>1. ASSUME st'[q] = st[q], vi'[q] = vi[q], mi'[q] = mi[q]
        PROVE  Indexed(q)' /\ (~scene.foreign => Full(q)')
    BY Zenon, <2>0, <2>1
  <2>2. ASSUME NEW p \in Peer, Changes(p) PROVE Indexed(q)' /\ (~scene.foreign => Full(q)')
    <3>1. PICK x : Extended(p, x) /\ Becomes(p, x)
      BY Zenon, <2>2, ChangesExtend
    <3>2. CASE q # p
      BY Zenon, <2>1, <3>1, <3>2 DEF Becomes, TypeInv, Shape
    <3>3. CASE q = p
      <4>1. st'[p] = x.st /\ vi'[p] = x.vi /\ mi'[p] = x.mi
        BY Zenon, <3>1 DEF Becomes, TypeInv, Shape
      <4>2. Indexed(p)'
        BY Zenon, <3>1, <4>1 DEF Extended
      <4>3. ASSUME ~scene.foreign, NEW i \in DOMAIN st'[p] PROVE i \in mi'[p] /\ \E e \in vi'[p] : e[2] = i
        <5>1. CASE i \in DOMAIN st[p]
          BY <2>0, <3>1, <4>1, <4>3, <5>1 DEF Extended
        <5>2. CASE i \notin DOMAIN st[p]
          <6>1. st'[p][i].ok = TRUE
            <7>1. st'[p][i] \in Vers(i)'
              BY Zenon, <4>3, VersIsNext
            <7>2. i \in Id
              BY Zenon, <4>3 DEF TypeInv, TypeOK
            <7> QED BY Zenon, <2>0, <4>3, <7>1, <7>2 DEF MatchInv
          <6> QED BY Zenon, <3>1, <4>1, <4>3, <5>2, <6>1 DEF Extended
        <5> QED BY Zenon, <5>1, <5>2
      <4> QED BY Zenon, <3>3, <4>2, <4>3
    <3> QED BY Zenon, <3>2, <3>3
  <2>3. ASSUME NEW p \in Peer, GC(p) PROVE Indexed(q)' /\ (~scene.foreign => Full(q)')
    <3>1. CASE q # p
      BY Zenon, <2>1, <2>3, <3>1 DEF GC, TypeInv, Shape
    <3>2. CASE q = p
      <4>1. /\ st'[p] = [i \in DOMAIN st[p] \ Gone(p) |-> st[p][i]]
            /\ vi'[p] = {e \in vi[p] : e[2] \notin Gone(p)} /\ mi'[p] = mi[p] \ Gone(p)
        BY Zenon, <2>3 DEF GC, TypeInv, Shape
      <4> QED BY <2>0, <3>2, <4>1
    <3> QED BY Zenon, <3>1, <3>2
  <2>4. ASSUME NEW p \in Peer, Restart(p) PROVE Indexed(q)' /\ (~scene.foreign => Full(q)')
    <3>1. CASE q # p
      BY Zenon, <2>1, <2>4, <3>1 DEF Restart, TypeInv, TypeOK, Shape
    <3>2. CASE q = p
      <4>1. /\ st'[p] = snap[p] /\ mi'[p] = Compiled(snap[p])
            /\ vi'[p] = {<<1, i>> : i \in Compiled(snap[p])}
        BY Zenon, <2>4 DEF Restart, TypeInv, Shape
      <4>2. Indexed(p)'
        BY <4>1 DEF Compiled
      <4>3. ASSUME ~scene.foreign, NEW i \in DOMAIN snap[p] PROVE i \in Compiled(snap[p])
        <5>1. snap[p][i] \in Vers(i) /\ i \in Id
          BY Zenon, VersIs DEF TypeInv, TypeOK
        <5> QED BY Zenon, <4>3, <5>1 DEF MatchInv, Compiled
      <4>4. ASSUME ~scene.foreign PROVE Full(p)'
        <5>1. ASSUME NEW i \in DOMAIN snap[p] PROVE <<1, i>> \in vi'[p] /\ <<1, i>>[2] = i
          BY Zenon, <4>1, <4>3, <4>4
        <5> QED BY ZenonT(60), <4>1, <4>3, <4>4, <5>1
      <4> QED BY Zenon, <3>2, <4>2, <4>4
    <3> QED BY Zenon, <3>1, <3>2
  <2>5. ASSUME UNCHANGED <<st, vi, mi>> PROVE Indexed(q)' /\ (~scene.foreign => Full(q)')
    BY Zenon, <2>1, <2>5
  <2> QED BY Zenon, <2>0, <2>2, <2>3, <2>4, <2>5, StepCases, MutesFrame
          DEF Tick, Snapshot, PostGC, Gossip, dataVars
<1> QED BY Zenon, <1>1, <1>2

\* Both hold at the start.
LEMMA MatchInit ==
    ASSUME Init
    PROVE  MatchInv /\ IndexInv
BY Zenon DEF Init, MatchInv, IndexInv, Vers, Empty

-----------------------------------------------------------------------------
(* The cache of Mutes misses no silence *)

\* What a peer has indexed before is what it was, or is live no more.
Grows(p) ==
    /\ ver[p] <= ver'[p]
    /\ \A e \in vi'[p] : \/ e[1] > ver[p]
                         \/ /\ e \in vi[p] /\ st'[p][e[2]].m = st[p][e[2]].m
                            /\ getState(st'[p][e[2]], now') # "expired" => getState(st[p][e[2]], now) # "expired"

\* Valid in the next state, of an entry of this one.
ValidNext(p, l, S, v) ==
    /\ v <= ver'[p]
    /\ \A e \in vi'[p] : e[1] <= v /\ l \in st'[p][e[2]].m /\ getState(st'[p][e[2]], now') # "expired" => e[2] \in S

\* An entry stays valid while the peer's silences grow.
LEMMA GrowsValid ==
    ASSUME TypeInv, TypeInv', NEW p \in Peer, Grows(p), NEW l, NEW S, NEW v \in Nat, Valid(p, l, S, v)
    PROVE  ValidNext(p, l, S, v)
<1>0. ver[p] \in Nat /\ ver'[p] \in Nat /\ vi'[p] \subseteq (1 .. ver'[p]) \X Id
  BY ZenonT(60) DEF TypeInv, TypeOK
<1>1. ver[p] \in Nat /\ ver'[p] \in Nat /\ \A e \in vi'[p] : e[1] \in Nat
  BY <1>0
<1>2. v <= ver[p] /\ \A e \in vi[p] : e[1] <= v /\ l \in st[p][e[2]].m /\ getState(st[p][e[2]], now) # "expired" => e[2] \in S
  BY Zenon DEF Valid, Live
<1>3. v <= ver'[p]
  BY <1>1, <1>2 DEF Grows
<1>4. ASSUME NEW e \in vi'[p], e[1] <= v, l \in st'[p][e[2]].m, getState(st'[p][e[2]], now') # "expired"
      PROVE  e[2] \in S
  <2>1. ~(e[1] > ver[p])
    BY <1>1, <1>2, <1>4
  <2> QED BY Zenon, <1>2, <1>4, <2>1 DEF Grows
<1> QED BY Zenon, <1>3, <1>4 DEF ValidNext

\* A silence that has ended stays so.
LEMMA StaysExpired ==
    ASSUME NEW s \in Sil, now \in Time, now' \in Time, now <= now', getState(s, now') # "expired"
    PROVE  getState(s, now) # "expired"
BY DEF getState, Sil, Time

\* Every step but a restart makes the silences of a peer grow.
LEMMA GrowsStep ==
    ASSUME TypeInv, TypeInv', MatchInv, IndexInv, Step, ~scene.late, NEW q \in Peer
    PROVE  Grows(q) \/ Restart(q)
<1>0. /\ ver[q] \in Nat /\ now \in Time /\ now' \in Time /\ \A i \in DOMAIN st[q] : i \in Id /\ st[q][i] \in Sil
      /\ \A e \in vi[q] : e[2] \in DOMAIN st[q]
  BY Zenon DEF TypeInv, TypeOK, IndexInv
<1>1. ASSUME ver'[q] = ver[q], vi'[q] \subseteq vi[q], \A e \in vi'[q] : st'[q][e[2]] = st[q][e[2]], now <= now'
      PROVE  Grows(q)
  BY <1>0, <1>1, StaysExpired DEF Grows
<1>2. now <= now
  BY <1>0 DEF Time
<1>3. CASE Tick
  BY <1>0, <1>1, <1>3 DEF Tick, Time
<1>4. ASSUME NEW p \in Peer, Changes(p) PROVE Grows(q)
  <2>1. PICK x : Extended(p, x) /\ Becomes(p, x)
    BY Zenon, <1>4, ChangesExtend
  <2>2. CASE q # p
    <3>1. ver'[q] = ver[q] /\ vi'[q] = vi[q] /\ st'[q] = st[q] /\ now' = now
      BY <2>1, <2>2 DEF Becomes, TypeInv, TypeOK, Shape
    <3> QED BY Zenon, <1>1, <1>2, <3>1
  <2>3. CASE q = p
    <3>1. ver'[p] = x.ver /\ vi'[p] = x.vi /\ st'[p] = x.st /\ now' = now
      BY <2>1 DEF Becomes, TypeInv, TypeOK, Shape
    <3>2. ASSUME NEW e \in vi[p]
          PROVE  /\ x.st[e[2]].m = st[p][e[2]].m
                 /\ x.st[e[2]] = st[p][e[2]] \/ getState(st[p][e[2]], now) # "expired"
      <4> DEFINE i == e[2]
      <4>1. i \in DOMAIN st[p] /\ i \in DOMAIN x.st /\ i \in Id
        BY Zenon, <1>0, <2>1, <2>3 DEF Extended
      <4> HIDE DEF i
      <4>2. ASSUME NEW n \in x.sent, n.id = i, n.sil = x.st[i]
            PROVE  x.st[i].m = st[p][i].m /\ getState(st[p][i], now) # "expired"
        <5>1. Fits(p, n)
          BY Zenon, <2>1 DEF Extended
        <5>2. getState(st[p][i], now) # "expired"
          BY Zenon, <4>1, <4>2, <5>1 DEF Fits, Live
        <5>3. i \in Used
          BY Zenon, <4>1, UnusedIsNew
        <5>4. PICK a \in Vers(i) : Alike(a, n.sil)
          BY Zenon, <4>2, <5>1, <5>3 DEF Fits
        <5>5. st[p][i] \in Vers(i)
          BY Zenon, <4>1, VersIs
        <5> QED BY Zenon, <4>1, <4>2, <5>2, <5>4, <5>5 DEF MatchInv, Alike
      <4>3. \/ x.st[i] = st[p][i] \/ \E n \in x.sent : n.id = i /\ n.sil = x.st[i]
        BY Zenon, <2>1, <4>1 DEF Extended
      <4> QED BY Zenon, <4>2, <4>3 DEF i
    <3>3. ver[p] <= x.ver /\ \A e \in x.vi : e \in vi[p] \/ e[1] > ver[p]
      BY Zenon, <2>1 DEF Extended
    <3> QED BY Zenon, <2>3, <3>1, <3>2, <3>3 DEF Grows
  <2> QED BY Zenon, <2>2, <2>3
<1>5. ASSUME NEW p \in Peer, GC(p) PROVE Grows(q)
  <2>1. /\ ver'[q] = ver[q] /\ vi'[q] \subseteq vi[q] /\ now' = now
    BY <1>5 DEF GC, TypeInv, Shape
  <2>2. \A e \in vi'[q] : st'[q][e[2]] = st[q][e[2]]
    BY Zenon, <1>0, <1>5 DEF GC, TypeInv, Shape
  <2> QED BY Zenon, <1>1, <1>2, <2>1, <2>2
<1>6. ASSUME NEW p \in Peer, Restart(p), p # q PROVE Grows(q)
  <2>1. ver'[q] = ver[q] /\ vi'[q] = vi[q] /\ st'[q] = st[q] /\ now' = now
    BY Zenon, <1>6 DEF Restart, TypeInv, TypeOK, Shape
  <2> QED BY Zenon, <1>1, <1>2, <2>1
<1>7. ASSUME UNCHANGED <<now, st, vi, ver>> PROVE Grows(q)
  BY Zenon, <1>1, <1>2, <1>7
<1> QED BY Zenon, <1>3, <1>4, <1>5, <1>6, <1>7, StepCases, MutesFrame
        DEF Snapshot, PostGC, Gossip, dataVars

\* What Observe keeps: a silence that covers now has covered since the call.
LEMMA SeenStep ==
    ASSUME Observe, NEW c \in Caller, call'[c].pc # "idle"
    PROVE  seen'[c].cov \subseteq Covering(c)' /\ (call[c].pc # "idle" => seen'[c].cov \subseteq seen[c].cov)
<1>1. seen'[c].cov = IF call[c].pc = "idle" THEN Covering(c)' ELSE seen[c].cov \cap Covering(c)'
  BY ZenonT(60) DEF Observe
<1> QED BY Zenon, <1>1

\* The steps of others keep what a call knows.
LEMMA CoverFrame ==
    ASSUME TypeInv, TypeInv', Observe, NEW c \in Caller, c.peer \in Peer, Grows(c.peer), MutesInv(c),
           call'[c] = call[c], call[c].pc # "idle" => now' = now
    PROVE  MutesInv(c)'
<1>1. CASE call[c].pc = "idle"
  BY Zenon, <1>1 DEF MutesInv
<1>2. CASE call[c].pc # "idle"
  <2> DEFINE k == call[c]
  <2>1. seen'[c].cov \subseteq Covering(c)' /\ seen'[c].cov \subseteq seen[c].cov /\ now' = now
    BY Zenon, <1>2, SeenStep
  <2>2. k.entry.version \in Nat /\ k.new \in Nat
    BY ZenonT(60) DEF TypeInv, TypeOK, Shape, Entry
  <2>3. k.pc \in {"version", "old", "last"} => ValidNext(c.peer, c.lset, k.entry.ids, k.entry.version)
    BY ZenonT(60), <2>2, GrowsValid DEF MutesInv
  <2>4. k.pc = "new" => ValidNext(c.peer, c.lset, DOMAIN k.sils, k.entry.version)
    BY Zenon, <2>2, GrowsValid DEF MutesInv
  <2>5. k.pc = "categorize" => ValidNext(c.peer, c.lset, DOMAIN k.sils, k.new)
    BY Zenon, <2>2, GrowsValid DEF MutesInv
  <2>6. /\ k.pc = "last" => k.new = k.entry.version /\ seen[c].cov \subseteq k.entry.ids
        /\ k.pc = "categorize" => seen[c].cov \subseteq DOMAIN k.sils
        /\ k.pc \in {"new", "categorize"} => \A i \in DOMAIN k.sils :
                /\ getState(k.sils[i], now) # "expired"
                /\ i \in seen[c].cov => getState(k.sils[i], now) = "active"
    BY Zenon DEF MutesInv
  <2> HIDE DEF k
  <2>7. call'[c] = k
    BY Zenon DEF k
  <2> QED BY ZenonT(60), <2>1, <2>3, <2>4, <2>5, <2>6, <2>7 DEF MutesInv, ValidNext, Valid, Live
<1> QED BY Zenon, <1>1, <1>2

\* A step of a call keeps what it knows.
LEMMA CoverOwn ==
    ASSUME TypeInv, TypeInv', IndexInv, Observe, Easy, NEW c \in Caller, c.peer \in Peer, c.lset \in Lset,
           MutesInv(c), Valid(c.peer, c.lset, cache[c.peer][c.lset].ids, cache[c.peer][c.lset].version),
           Mutes(c)
    PROVE  MutesInv(c)'
<1> DEFINE p == c.peer
           l == c.lset
           k == call[c]
           k1 == call'[c]
           cov == seen[c].cov
           cov1 == seen'[c].cov
<1>1. /\ now' = now /\ st' = st /\ vi' = vi /\ ver' = ver /\ mi' = mi
      /\ \A d \in Caller : Covering(d)' = Covering(d)
  BY ZenonT(60), MutesFrame DEF dataVars, Covering, Matching, Live
<1>2. /\ DOMAIN call = Caller /\ DOMAIN k = {"pc", "entry", "new", "sils"}
      /\ k.entry.version \in Nat /\ k.new \in Nat /\ ver[p] \in Nat
      /\ \A e \in vi[p] : e[1] \in Nat /\ e[1] <= ver[p]
  <2>1. /\ DOMAIN call = Caller /\ DOMAIN k = {"pc", "entry", "new", "sils"}
        /\ k.entry \in Entry /\ k.new \in Nat /\ ver[p] \in Nat /\ vi[p] \subseteq (1 .. ver[p]) \X Id
    BY ZenonT(60) DEF TypeInv, TypeOK, Shape
  <2>2. \A e \in vi[p] : e[1] \in Nat /\ e[1] <= ver[p]
    BY <2>1
  <2>3. k.entry.version \in Nat
    BY Zenon, <2>1 DEF Entry
  <2> QED BY Zenon, <2>1, <2>2, <2>3
<1>3. /\ k1.pc # "idle" => cov1 \subseteq Covering(c) /\ (k.pc # "idle" => cov1 \subseteq cov)
  BY ZenonT(60), <1>1, SeenStep
<1>4. \A i \in Covering(c) : /\ i \in DOMAIN st[p] /\ l \in st[p][i].m
                             /\ getState(st[p][i], now) = "active" /\ getState(st[p][i], now) # "expired"
                             /\ i \in mi[p] /\ \E e \in vi[p] : e[2] = i
  BY Zenon DEF Covering, Matching, IndexInv, Easy
<1>5. CASE MutesGet(c)
  <2>1. k1.pc = "version" /\ k1.entry = cache[p][l]
    BY Zenon, <1>2, <1>5 DEF MutesGet, Idle
  <2> QED BY ZenonT(60), <1>1, <1>3, <2>1 DEF MutesInv, Valid, Live
<1>6. CASE FastPath(c) \/ Categorize(c)
  <2>1. k1.pc = "idle"
    BY <1>2, <1>6 DEF FastPath, Categorize, Idle
  <2> QED BY ZenonT(60), <2>1 DEF MutesInv
<1>7. CASE SlowPath(c)
  <2>1. /\ k.pc = "version" /\ k1.entry = k.entry /\ k1.new = k.entry.version /\ DOMAIN k1.sils = {}
        /\ k1.pc = IF k.entry.ids = {} THEN "new" ELSE IF UpToDate(c) THEN "last" ELSE "old"
    BY ZenonT(60), <1>2, <1>7 DEF SlowPath, Empty
  <2>2. Valid(p, l, k.entry.ids, k.entry.version)
    BY ZenonT(60), <2>1 DEF MutesInv
  <2>3. CASE k1.pc = "new"
    <3>1. k.entry.ids = {}
      BY Zenon, <2>1, <2>3
    <3>2. Valid(p, l, {}, k.entry.version)
      BY Zenon, <2>2, <3>1
    <3>3. DOMAIN k1.sils = {} /\ k1.entry.version = k.entry.version
      BY Zenon, <2>1
    <3> HIDE DEF k
    <3> QED BY ZenonT(60), <1>1, <1>3, <2>3, <3>2, <3>3 DEF MutesInv, Valid, Live
  <2>4. CASE k1.pc = "last"
    <3>1. k.entry.version = ver[p]
      BY ZenonT(60), <2>1, <2>4 DEF UpToDate
    <3>2. Covering(c) \subseteq k.entry.ids
      <4> SUFFICES ASSUME NEW i \in Covering(c) PROVE i \in k.entry.ids
        OBVIOUS
      <4>1. PICK e \in vi[p] : e[2] = i
        BY ZenonT(60), <1>4
      <4>2. e[1] <= k.entry.version
        BY Zenon, <1>2, <3>1
      <4> QED BY ZenonT(60), <1>4, <2>2, <4>1, <4>2 DEF Valid, Live
    <3> QED BY ZenonT(60), <1>1, <1>3, <2>1, <2>2, <2>4, <3>2 DEF MutesInv, Valid, Live
  <2>5. CASE k1.pc = "old"
    BY ZenonT(60), <1>1, <1>3, <2>1, <2>2, <2>5 DEF MutesInv, Valid, Live
  <2> QED BY ZenonT(60), <2>1, <2>3, <2>4, <2>5
<1>8. CASE QueryOld(c)
  <2> DEFINE is == {i \in k.entry.ids \cap DOMAIN st[p] : getState(st[p][i], now) # "expired"}
  <2>1. /\ k.pc \in {"old", "last"} /\ k1.entry = k.entry /\ k1.new = k.new /\ k1.sils = Clones(p, is)
        /\ k1.pc = IF k.pc = "last" THEN "categorize" ELSE "new"
    BY Zenon, <1>2, <1>8 DEF QueryOld, Live
  <2>2. DOMAIN k1.sils = is /\ \A i \in is : k1.sils[i] = st[p][i]
    BY ZenonT(60), <2>1 DEF Clones
  <2>3. \A e \in vi[p] : e[2] \in DOMAIN st[p]
    BY ZenonT(60) DEF IndexInv
  <2>4. Valid(p, l, is, k.entry.version)
    BY ZenonT(60), <2>1, <2>3 DEF MutesInv, Valid, Live
  <2>5. k1.pc = "categorize" => cov1 \subseteq is /\ k1.new = k.entry.version
    BY ZenonT(60), <1>3, <1>4, <2>1 DEF MutesInv
  <2>6. \A i \in is : /\ getState(st[p][i], now) # "expired"
                      /\ k1.pc # "idle" /\ i \in cov1 => getState(st[p][i], now) = "active"
    BY ZenonT(60), <1>3, <1>4
  <2> HIDE DEF is
  <2> QED BY ZenonT(60), <1>1, <1>3, <2>1, <2>2, <2>4, <2>5, <2>6 DEF MutesInv, Valid, Live
<1>9. CASE QueryNew(c)
  <2> DEFINE is == Since(p, k.entry.version)
             match == {i \in is : l \in st[p][i].m}
  <2>1. is \subseteq mi[p] /\ \A i \in is : i \in DOMAIN st[p] /\ getState(st[p][i], now) # "expired"
    <3>1. \A i \in is : i \in DOMAIN st[p] /\ Live(p, i)
      BY ZenonT(60) DEF Since, IndexInv
    <3> HIDE DEF is
    <3> QED BY ZenonT(60), <3>1 DEF IndexInv, Easy, Live
  <2>2. /\ k.pc = "new" /\ k1.pc = "categorize" /\ k1.new = ver[p]
        /\ k1.sils = [i \in DOMAIN k.sils \cup match |-> IF i \in DOMAIN k.sils THEN k.sils[i] ELSE st[p][i]]
    BY ZenonT(60), <1>2, <1>9, <2>1 DEF QueryNew, ids
  <2>3. ASSUME NEW e \in vi[p], l \in st[p][e[2]].m, getState(st[p][e[2]], now) # "expired"
        PROVE  e[2] \in DOMAIN k1.sils
    <3>1. CASE e[1] <= k.entry.version
      BY ZenonT(60), <2>2, <2>3, <3>1 DEF MutesInv, Valid, Live
    <3>2. CASE e[1] > k.entry.version
      BY ZenonT(60), <2>2, <2>3, <3>2 DEF Since, Live
    <3> QED BY <1>2, <3>1, <3>2
  <2>4. cov1 \subseteq DOMAIN k1.sils
    <3> SUFFICES ASSUME NEW i \in cov1 PROVE i \in DOMAIN k1.sils
      OBVIOUS
    <3>1. i \in Covering(c)
      BY ZenonT(60), <1>3, <2>2
    <3> QED BY ZenonT(60), <1>4, <2>3, <3>1
  <2>5. ASSUME NEW i \in DOMAIN k1.sils
        PROVE  /\ getState(k1.sils[i], now) # "expired"
               /\ i \in cov1 => getState(k1.sils[i], now) = "active"
    <3>1. CASE i \in DOMAIN k.sils
      BY Zenon, <1>3, <2>2, <2>5, <3>1 DEF MutesInv
    <3>2. CASE i \notin DOMAIN k.sils
      BY ZenonT(60), <1>3, <1>4, <2>1, <2>2, <2>5, <3>2
    <3> QED BY Zenon, <3>1, <3>2
  <2>6. ver[p] <= ver[p]
    BY <1>2
  <2> QED BY ZenonT(60), <1>1, <1>3, <2>2, <2>3, <2>4, <2>5, <2>6 DEF MutesInv, Valid, Live
<1> QED BY Zenon, <1>5, <1>6, <1>7, <1>8, <1>9 DEF Mutes

\* CoverInv is inductive.
LEMMA CoverStep ==
    ASSUME TypeInv, TypeInv', Setting, MatchInv, IndexInv, CoverInv, [Next]_vars
    PROVE  CoverInv'
<1>1. CASE UNCHANGED vars
  BY ZenonT(60), <1>1 DEF vars, CoverInv, Easy, MutesInv, Valid, Live, Covering, Matching
<1>2. CASE Next
  <2> SUFFICES ASSUME Easy PROVE CoverInv'
    BY Zenon, <1>2 DEF Next, CoverInv, Easy
  <2>0. /\ Step /\ Observe /\ scene' = scene
        /\ \A p \in Peer, l \in Lset : Valid(p, l, cache[p][l].ids, cache[p][l].version)
        /\ \A c \in Caller : MutesInv(c)
    BY Zenon, <1>2 DEF Next, CoverInv
  <2>1. \A c \in Caller : c.peer \in Peer /\ c.lset \in Lset
    BY Zenon DEF Setting
  <2>2. \A q \in Peer : Grows(q) \/ Restart(q)
    BY Zenon, <2>0, GrowsStep DEF Easy
  <2>3. \A c \in Caller : call[c].pc # "idle" => now' = now
    <3>1. \A p \in Peer : Changes(p) => now' = now
      BY ZenonT(60), ChangesExtend DEF Becomes
    <3>2. CASE Tick
      BY Zenon, <3>2 DEF Tick, Easy
    <3> QED BY ZenonT(60), <2>0, <3>1, <3>2, StepCases, MutesFrame DEF GC, Snapshot, Restart, PostGC, Gossip
  <2>4. ASSUME NEW p \in Peer, NEW l \in Lset, Grows(p), cache'[p][l] = cache[p][l]
        PROVE  Valid(p, l, cache[p][l].ids, cache[p][l].version)'
    <3>1. cache[p][l].version \in Nat
      BY Zenon DEF TypeInv, TypeOK, Entry
    <3>2. ValidNext(p, l, cache[p][l].ids, cache[p][l].version)
      BY Zenon, <2>0, <2>4, <3>1, GrowsValid
    <3> QED BY Zenon, <2>4, <3>2 DEF ValidNext, Valid, Live
  <2>5. ASSUME NEW p \in Peer, NEW l \in Lset, cache'[p][l] = NoEntry
        PROVE  Valid(p, l, cache[p][l].ids, cache[p][l].version)'
    <3>1. ver'[p] \in Nat /\ \A e \in vi'[p] : e[1] \in Nat \ {0}
      BY DEF TypeInv, TypeOK
    <3> QED BY <2>5, <3>1 DEF Valid, NoEntry
  <2>6. ASSUME NEW p \in Peer, Restart(p)
        PROVE  /\ \A q \in Peer, l \in Lset : Valid(q, l, cache[q][l].ids, cache[q][l].version)'
               /\ \A c \in Caller : MutesInv(c)'
    <3>1. /\ \A l \in Lset : cache'[p][l] = NoEntry
          /\ \A q \in Peer, l \in Lset : q # p => cache'[q][l] = cache[q][l]
          /\ \A c \in Caller : call'[c] = IF c.peer = p THEN Idle ELSE call[c]
          /\ now' = now
      BY Zenon, <2>6 DEF Restart, TypeInv, TypeOK
    <3>2. \A q \in Peer : q # p => Grows(q)
      <4>1. \A q \in Peer : q # p => vi'[q] = vi[q] /\ st'[q] = st[q] /\ ver'[q] = ver[q] /\ ver[q] \in Nat
        BY ZenonT(60), <2>6 DEF Restart, TypeInv, TypeOK, Shape
      <4> QED BY <3>1, <4>1 DEF Grows
    <3>3. \A q \in Peer, l \in Lset : Valid(q, l, cache[q][l].ids, cache[q][l].version)'
      BY <2>4, <2>5, <3>1, <3>2
    <3>4. ASSUME NEW c \in Caller PROVE MutesInv(c)'
      <4>1. CASE c.peer = p
        BY SMTT(60), <3>1, <4>1 DEF MutesInv, Idle
      <4>2. CASE c.peer # p
        BY Zenon, <2>0, <2>1, <3>1, <3>2, <4>2, CoverFrame
      <4> QED BY Zenon, <4>1, <4>2
    <3> QED BY Zenon, <3>3, <3>4
  <2>7. ASSUME \A q \in Peer : Grows(q), call' = call,
               \A p \in Peer, l \in Lset : cache'[p][l] = cache[p][l] \/ cache'[p][l] = NoEntry
        PROVE  /\ \A q \in Peer, l \in Lset : Valid(q, l, cache[q][l].ids, cache[q][l].version)'
               /\ \A c \in Caller : MutesInv(c)'
    <3>1. ASSUME NEW c \in Caller PROVE MutesInv(c)'
      BY Zenon, <2>0, <2>1, <2>3, <2>7, CoverFrame
    <3> QED BY <2>4, <2>5, <2>7, <3>1
  <2>8. ASSUME NEW c \in scene.callers, Mutes(c)
        PROVE  /\ \A q \in Peer, l \in Lset : Valid(q, l, cache[q][l].ids, cache[q][l].version)'
               /\ \A d \in Caller : MutesInv(d)'
    <3>1. c \in Caller /\ c.peer \in Peer /\ c.lset \in Lset
      BY Zenon, CallerOK
    <3>2. \A q \in Peer : Grows(q)
      <4>1. now' = now /\ st' = st /\ vi' = vi /\ ver' = ver /\ \A q \in Peer : ver[q] \in Nat
        BY Zenon, <2>8, MutesFrame DEF dataVars, TypeInv, TypeOK
      <4> QED BY <4>1 DEF Grows
    <3>3. ASSUME NEW d \in Caller PROVE MutesInv(d)'
      <4>1. CASE d = c
        BY <2>0, <2>8, <3>1, <4>1, CoverOwn
      <4>2. CASE d # c
        <5>1. call'[d] = call[d]
          BY ZenonT(60), <2>8, <4>2 DEF TypeInv, Shape, Mutes, MutesGet, FastPath, SlowPath, QueryOld, QueryNew, Categorize
        <5> QED BY ZenonT(60), <2>0, <2>1, <2>3, <3>2, <5>1, CoverFrame
      <4> QED BY Zenon, <4>1, <4>2
    <3>4. ASSUME NEW q \in Peer, NEW l \in Lset
          PROVE  Valid(q, l, cache[q][l].ids, cache[q][l].version)'
      <4>1. CASE Categorize(c) /\ q = c.peer /\ l = c.lset
        <5> DEFINE k == call[c]
        <5>1. k.pc = "categorize" /\ cache'[q][l] = [ids |-> allIDs(c), version |-> k.new]
          BY ZenonT(60), <3>1, <4>1 DEF Categorize, TypeInv, TypeOK
        <5>2. Valid(q, l, DOMAIN k.sils, k.new) /\ \A i \in DOMAIN k.sils : getState(k.sils[i], now) # "expired"
          BY ZenonT(60), <2>0, <3>1, <4>1, <5>1 DEF MutesInv
        <5>3. allIDs(c) = DOMAIN k.sils
          BY Zenon, <5>2 DEF allIDs, InState, ids, getState
        <5>4. k.new \in Nat
          BY Zenon, <3>1 DEF TypeInv, Shape
        <5>5. ValidNext(q, l, DOMAIN k.sils, k.new)
          BY Zenon, <3>2, <5>2, <5>4, GrowsValid
        <5>6. cache'[q][l].ids = DOMAIN k.sils /\ cache'[q][l].version = k.new
          BY <5>1, <5>3
        <5> HIDE DEF k
        <5> QED BY Zenon, <5>5, <5>6 DEF ValidNext, Valid, Live
      <4>2. CASE ~(Categorize(c) /\ q = c.peer /\ l = c.lset)
        <5>1. cache'[q][l] = cache[q][l]
          <6>1. CASE Categorize(c)
            BY <3>1, <4>2, <6>1 DEF TypeInv, TypeOK, Categorize
          <6>2. CASE ~Categorize(c)
            BY ZenonT(60), <2>8, <6>2 DEF Mutes, MutesGet, FastPath, SlowPath, QueryOld, QueryNew
          <6> QED BY Zenon, <6>1, <6>2
        <5> QED BY Zenon, <2>4, <3>2, <5>1
      <4> QED BY Zenon, <4>1, <4>2
    <3> QED BY Zenon, <3>3, <3>4
  <2>9. CASE \E p \in Peer : Restart(p)
    BY ZenonT(60), <2>0, <2>6, <2>9 DEF CoverInv
  <2>10. CASE ~\E p \in Peer : Restart(p)
    <3>1. \A q \in Peer : Grows(q)
      BY Zenon, <2>2, <2>10
    <3>2. ASSUME NEW p \in Peer, NEW l \in Lset, PostGC(p, l)
          PROVE  call' = call /\ \A q \in Peer, k \in Lset : cache'[q][k] = cache[q][k] \/ cache'[q][k] = NoEntry
      BY Zenon, <3>2 DEF PostGC, TypeInv, TypeOK
    <3>3. \A p \in Peer : Changes(p) => call' = call /\ cache' = cache
      BY Zenon, ChangesExtend DEF Becomes
    <3>4. \/ call' = call /\ \A p \in Peer, l \in Lset : cache'[p][l] = cache[p][l] \/ cache'[p][l] = NoEntry
          \/ \E c \in scene.callers : Mutes(c)
      BY ZenonT(60), <2>0, <2>10, <3>2, <3>3, StepCases DEF Tick, GC, Snapshot, Gossip
    <3> QED BY Zenon, <2>7, <2>8, <3>1, <3>4 DEF CoverInv
  <2> QED BY Zenon, <2>9, <2>10
<1> QED BY Zenon, <1>1, <1>2

\* CoverInv holds at the start.
LEMMA CoverInit ==
    ASSUME Init
    PROVE  CoverInv
<1>1. \A p \in Peer : ver[p] = 0 /\ vi[p] = {}
  BY Zenon DEF Init
<1>2. \A p \in Peer, l \in Lset : cache[p][l].version = 0
  BY Zenon DEF Init, NoEntry
<1>3. \A c \in Caller : call[c].pc = "idle"
  BY Zenon DEF Init, Idle
<1>4. \A p \in Peer, l \in Lset : cache[p][l].version <= ver[p]
  BY <1>1, <1>2
<1> QED BY ZenonT(60), <1>1, <1>3, <1>4 DEF CoverInv, Valid, MutesInv

\* A call that answers "not muted" has seen no silence that covered it all the time.
LEMMA ActiveStep ==
    ASSUME TypeInv, Setting, IndexInv, CoverInv, Easy
    PROVE  ActiveMutes
<1> SUFFICES ASSUME NEW c \in Caller, NotMuted(c) PROVE seen[c].cov = {}
  BY ZenonT(60) DEF ActiveMutes
<1>0. c.peer \in Peer /\ MutesInv(c)
  BY Zenon DEF Setting, CoverInv
<1>1. CASE FastPath(c)
  <2>1. /\ call[c].pc = "version" /\ call[c].entry.version = ver[c.peer] /\ call[c].entry.ids = {}
    BY Zenon, <1>1 DEF FastPath, UpToDate
  <2>2. seen[c].cov \subseteq Covering(c) /\ Valid(c.peer, c.lset, {}, ver[c.peer])
    BY Zenon, <1>0, <2>1 DEF MutesInv
  <2>3. \A i \in Covering(c) : c.lset \in st[c.peer][i].m /\ Live(c.peer, i) /\ \E e \in vi[c.peer] : e[2] = i
    BY ZenonT(60), <1>0 DEF Covering, Matching, IndexInv, Easy
  <2>4. \A e \in vi[c.peer] : e[1] <= ver[c.peer]
    BY <1>0 DEF TypeInv, TypeOK
  <2> QED BY Zenon, <2>2, <2>3, <2>4 DEF Valid
<1>2. CASE Categorize(c) /\ activeIDs(c) = {}
  BY Zenon, <1>0, <1>2 DEF Categorize, MutesInv, activeIDs, InState, ids
<1> QED BY ZenonT(60), <1>1, <1>2 DEF NotMuted

-----------------------------------------------------------------------------
(* What Mutes finds was there *)

\* A set of naturals has a least element.
LEMMA LeastOf ==
    ASSUME NEW S \in SUBSET Nat, S # {}
    PROVE  Least(S) \in S /\ \A u \in S : Least(S) <= u
<1> DEFINE R == OpToRel(<, Nat)
<1>1. IsWellFoundedOn(R, Nat)
  BY ZenonT(60), NatLessThanWellFounded
<1>2. \A t, u \in Nat : t < u => <<t, u>> \in R
  BY Zenon DEF OpToRel
<1> HIDE DEF R
<1>3. PICK t \in S : \A u \in S : ~(<<u, t>> \in R)
  BY <1>1, WFMin, Zenon
<1>4. ASSUME NEW u \in S PROVE t <= u
  <2>1. t \in Nat /\ u \in Nat /\ ~(u < t)
    BY <1>2, <1>3, Zenon
  <2> QED BY <2>1
<1> QED BY ZenonT(60), <1>4 DEF Least

\* The type of the ghost soon.
Soon == DOMAIN seen = Caller /\ \A c \in Caller : seen[c].soon \in Nat

\* soon falls, to the starts of the silences that match.
LEMMA SoonStep ==
    ASSUME TypeInv', Setting, Soon, Observe
    PROVE  /\ Soon'
           /\ \A c \in Caller : call'[c].pc # "idle" =>
                /\ seen'[c].soon <= seen[c].soon
                /\ \A i \in Matching(c)' : seen'[c].soon <= st'[c.peer][i].starts
<1>0. DOMAIN seen' = Caller
  BY Zenon DEF Observe
<1>1. ASSUME NEW c \in Caller, call'[c].pc = "idle" PROVE seen'[c].soon \in Nat
  BY <1>1 DEF Observe, Unseen, Never, Setting
<1>2. ASSUME NEW c \in Caller, call'[c].pc # "idle"
      PROVE  /\ seen'[c].soon \in Nat /\ seen'[c].soon <= seen[c].soon
             /\ \A i \in Matching(c)' : seen'[c].soon <= st'[c.peer][i].starts
  <2> DEFINE S == {seen[c].soon} \cup Starts(c)'
  <2>1. seen'[c].soon = Least(S)
    BY Zenon, <1>2 DEF Observe
  <2>2. \A i \in Matching(c)' : st'[c.peer][i].starts \in Nat /\ st'[c.peer][i].starts \in S
    <3>1. c.peer \in Peer
      BY Zenon DEF Setting
    <3> QED BY SMTT(60), <3>1 DEF Matching, Starts, TypeInv, TypeOK, Sil, Time
  <2>3. S \in SUBSET Nat /\ seen[c].soon \in S
    BY Zenon, <2>2 DEF Starts, Soon
  <2> HIDE DEF S
  <2>4. Least(S) \in S /\ \A u \in S : Least(S) <= u
    BY Zenon, <2>3, LeastOf
  <2> QED BY ZenonT(60), <2>1, <2>2, <2>3, <2>4
<1> QED BY Zenon, <1>0, <1>1, <1>2 DEF Soon

\* A silence that matches does so after every step.
LEMMA HitsStep ==
    ASSUME TypeInv, TypeInv', MatchInv, IndexInv, Next, NEW i, NEW l, Hits(i, l)
    PROVE  Hits(i, l)'
<1>1. i \in Id /\ i \in Used /\ i \in Used'
  BY Zenon, UsedGrows DEF Hits, Used
<1>2. Unfolded(i)
  BY Zenon, <1>1, VersStep DEF Next
<1> QED BY Zenon, <1>1, <1>2 DEF Hits, Unfolded, Alike

\* The silences of a call match, and start when one that matched did, or later.
Found(c) ==
    call[c].pc # "idle" =>
        /\ \A i \in call[c].entry.ids : Hits(i, c.lset)
        /\ call[c].pc \in {"new", "categorize"} => \A i \in DOMAIN call[c].sils :
                /\ Hits(i, c.lset)
                /\ call[c].sils[i].starts \in Nat /\ seen[c].soon <= call[c].sils[i].starts

\* The invariant of MutesTruly.
TrueInv ==
    /\ Soon
    /\ \A p \in Peer, l \in Lset : \A i \in cache[p][l].ids : Hits(i, l)
    /\ \A c \in Caller : Found(c)

\* The steps of others keep what a call has found.
LEMMA FoundFrame ==
    ASSUME TypeInv, TypeInv', Setting, MatchInv, IndexInv, Next, Soon, NEW c \in Caller, Found(c), call'[c] = call[c]
    PROVE  Found(c)'
<1>1. CASE call[c].pc = "idle"
  BY Zenon, <1>1 DEF Found
<1>2. CASE call[c].pc # "idle"
  <2>1. seen'[c].soon <= seen[c].soon /\ seen[c].soon \in Nat /\ seen'[c].soon \in Nat
    BY Zenon, <1>2, SoonStep DEF Next, Soon
  <2>2. \A i \in call[c].entry.ids : Hits(i, c.lset)'
    BY Zenon, <1>2, HitsStep DEF Found
  <2>3. call[c].pc \in {"new", "categorize"} => \A i \in DOMAIN call[c].sils :
                /\ Hits(i, c.lset)'
                /\ call[c].sils[i].starts \in Nat /\ seen'[c].soon <= call[c].sils[i].starts
    BY <1>2, <2>1, HitsStep DEF Found
  <2> QED BY Zenon, <2>2, <2>3 DEF Found
<1> QED BY Zenon, <1>1, <1>2

\* A step of a call finds silences that match.
LEMMA FoundOwn ==
    ASSUME TypeInv, TypeInv', Setting, MatchInv, IndexInv, Next, Soon, NEW c \in Caller, Found(c), Mutes(c),
           \A i \in cache[c.peer][c.lset].ids : Hits(i, c.lset)
    PROVE  Found(c)'
<1> DEFINE p == c.peer
           l == c.lset
           k == call[c]
           k1 == call'[c]
<1>0. p \in Peer /\ l \in Lset
  BY Zenon DEF Setting
<1>1. /\ now' = now /\ st' = st /\ Matching(c)' = Matching(c)
  BY Zenon, MutesFrame DEF dataVars, Matching, Live
<1>2. DOMAIN call = Caller /\ DOMAIN k = {"pc", "entry", "new", "sils"}
  BY Zenon DEF TypeInv, Shape
<1>3. k1.pc # "idle" => /\ seen'[c].soon <= seen[c].soon /\ seen[c].soon \in Nat /\ seen'[c].soon \in Nat
                        /\ \A i \in Matching(c) : seen'[c].soon <= st[p][i].starts /\ st[p][i].starts \in Nat
  <2>1. \A i \in Matching(c) : st[p][i].starts \in Nat
    <3>1. \A i \in DOMAIN st[p] : st[p][i] \in Sil
      BY ZenonT(60), <1>0 DEF TypeInv, TypeOK
    <3>2. \A i \in DOMAIN st[p] : st[p][i].starts \in Nat
      BY <3>1 DEF Sil, Time
    <3> QED BY ZenonT(60), <3>2 DEF Matching
  <2> QED BY Zenon, <1>1, <2>1, SoonStep DEF Next, Soon
<1>4. ASSUME NEW i, Hits(i, l), i \in DOMAIN st[p], Live(p, i) PROVE i \in Matching(c)
  BY ZenonT(60), <1>0, <1>4, VersIs DEF Hits, Matching
<1>5. ASSUME NEW i \in Matching(c) PROVE Hits(i, l)
  <2>1. i \in DOMAIN st[p] /\ i \in Id /\ l \in st[p][i].m
    BY Zenon, <1>0 DEF Matching, TypeInv, TypeOK
  <2>2. i \in Used /\ st[p][i] \in Vers(i)
    BY Zenon, <1>0, <2>1, UnusedIsNew, VersIs
  <2> QED BY ZenonT(60), <2>1, <2>2 DEF Hits, MatchInv, Alike
<1>6. CASE MutesGet(c)
  <2>1. k1.pc = "version" /\ k1.entry = cache[p][l]
    BY Zenon, <1>2, <1>6 DEF MutesGet, Idle
  <2>2. \A i \in cache[p][l].ids : Hits(i, c.lset)'
    BY ZenonT(60), HitsStep
  <2> QED BY ZenonT(60), <2>1, <2>2 DEF Found
<1>7. CASE FastPath(c) \/ Categorize(c)
  <2>1. k1.pc = "idle"
    BY <1>2, <1>7 DEF FastPath, Categorize, Idle
  <2> QED BY Zenon, <2>1 DEF Found
<1>8. ASSUME k.pc # "idle" PROVE \A i \in k.entry.ids : Hits(i, c.lset) /\ Hits(i, c.lset)'
  BY Zenon, <1>8, HitsStep DEF Found
<1>9. CASE SlowPath(c)
  <2>1. k.pc # "idle" /\ k1.entry = k.entry /\ DOMAIN k1.sils = {}
    BY ZenonT(60), <1>2, <1>9 DEF SlowPath, Empty
  <2> QED BY Zenon, <1>8, <2>1 DEF Found
<1>10. CASE QueryOld(c)
  <2> DEFINE is == {i \in k.entry.ids \cap DOMAIN st[p] : Live(p, i)}
  <2>1. k.pc # "idle" /\ k1.pc # "idle" /\ k1.entry = k.entry /\ k1.sils = [i \in is |-> st[p][i]]
    BY Zenon, <1>2, <1>10 DEF QueryOld, Clones
  <2>2. \A i \in is : i \in Matching(c) /\ Hits(i, c.lset)'
    BY ZenonT(60), <1>4, <1>8, <2>1
  <2> QED BY ZenonT(60), <1>3, <1>8, <2>1, <2>2 DEF Found
<1>11. CASE QueryNew(c)
  <2> DEFINE is == Since(p, k.entry.version)
             match == IF is \subseteq mi[p] THEN {i \in is : l \in st[p][i].m} ELSE {}
  <2>1. \A i \in match : i \in Matching(c)
    <3>1. \A i \in is : i \in DOMAIN st[p] /\ Live(p, i)
      BY ZenonT(60), <1>0 DEF Since, IndexInv
    <3> HIDE DEF is
    <3> QED BY Zenon, <3>1 DEF Matching
  <2>2. /\ k.pc = "new" /\ k1.pc = "categorize" /\ k1.entry = k.entry
        /\ k1.sils = [i \in DOMAIN k.sils \cup match |-> IF i \in DOMAIN k.sils THEN k.sils[i] ELSE st[p][i]]
    BY ZenonT(60), <1>2, <1>11 DEF QueryNew, ids
  <2>3. ASSUME NEW i \in DOMAIN k.sils
        PROVE  Hits(i, l) /\ k.sils[i].starts \in Nat /\ seen'[c].soon <= k.sils[i].starts
    <3>1. Hits(i, l) /\ k.sils[i].starts \in Nat /\ seen[c].soon <= k.sils[i].starts
      BY ZenonT(60), <2>2, <2>3 DEF Found
    <3>2. seen'[c].soon <= seen[c].soon /\ seen[c].soon \in Nat /\ seen'[c].soon \in Nat
      BY ZenonT(60), <1>3, <2>2
    <3> QED BY <3>1, <3>2
  <2>4. \A i \in match : Hits(i, l) /\ st[p][i].starts \in Nat /\ seen'[c].soon <= st[p][i].starts
    BY ZenonT(60), <1>3, <1>5, <2>1, <2>2
  <2> HIDE DEF match
  <2>5. \A i \in DOMAIN k1.sils : Hits(i, c.lset)' /\ k1.sils[i].starts \in Nat /\ seen'[c].soon <= k1.sils[i].starts
    BY ZenonT(60), <2>2, <2>3, <2>4, HitsStep
  <2> QED BY ZenonT(60), <1>8, <2>2, <2>5 DEF Found
<1> QED BY ZenonT(60), <1>6, <1>7, <1>9, <1>10, <1>11 DEF Mutes

\* TrueInv is inductive.
LEMMA TrueStep ==
    ASSUME TypeInv, TypeInv', Setting, MatchInv, IndexInv, TrueInv, [Next]_vars
    PROVE  TrueInv'
<1>1. CASE UNCHANGED vars
  <2>1. /\ st' = st /\ msgs' = msgs /\ snap' = snap /\ high' = high
        /\ cache' = cache /\ call' = call /\ seen' = seen
    BY Zenon, <1>1 DEF vars, dataVars
  <2>2. Used' = Used
    BY Zenon, <2>1 DEF Used
  <2>3. \A i : Vers(i)' = Vers(i)
    BY Zenon, <2>1 DEF Vers
  <2>4. \A i, l : Hits(i, l) => Hits(i, l)'
    BY Zenon, <2>2, <2>3 DEF Hits
  <2>5. Soon'
    BY Zenon, <2>1 DEF TrueInv, Soon
  <2>6. \A p \in Peer, l \in Lset : \A i \in cache'[p][l].ids : Hits(i, l)'
    BY Zenon, <2>1, <2>4 DEF TrueInv
  <2>7. \A c \in Caller : Found(c)'
    BY Zenon, <2>1, <2>4 DEF TrueInv, Found
  <2> QED BY Zenon, <2>5, <2>6, <2>7 DEF TrueInv
<1>2. CASE Next
  <2>0. Step /\ Soon /\ Soon' /\ \A c \in Caller : Found(c)
    BY ZenonT(60), <1>2, SoonStep DEF Next, TrueInv
  <2>1. ASSUME NEW p \in Peer, NEW l \in Lset, cache'[p][l] = cache[p][l] \/ cache'[p][l] = NoEntry,
               NEW i \in cache'[p][l].ids
        PROVE  Hits(i, l)'
    BY <1>2, <2>1, HitsStep DEF TrueInv, NoEntry
  <2>2. ASSUME NEW c \in Caller, call'[c] = call[c] \/ call'[c] = Idle PROVE Found(c)'
    <3>1. CASE call'[c] = Idle
      BY <3>1 DEF Found, Idle
    <3> QED BY Zenon, <1>2, <2>0, <2>2, <3>1, FoundFrame
  <2>3. ASSUME \A p \in Peer, l \in Lset : cache'[p][l] = cache[p][l] \/ cache'[p][l] = NoEntry,
               \A c \in Caller : call'[c] = call[c] \/ call'[c] = Idle
        PROVE  TrueInv'
    BY ZenonT(60), <2>0, <2>1, <2>2, <2>3 DEF TrueInv
  <2>4. ASSUME NEW c \in scene.callers, Mutes(c) PROVE TrueInv'
    <3>1. c \in Caller /\ c.peer \in Peer /\ c.lset \in Lset
      BY Zenon, CallerOK
    <3>2. ASSUME NEW d \in Caller PROVE Found(d)'
      <4>1. CASE d = c
        BY Zenon, <1>2, <2>0, <2>4, <3>1, <4>1, FoundOwn DEF TrueInv
      <4>2. CASE d # c
        <5>1. call'[d] = call[d]
          BY ZenonT(60), <2>4, <4>2 DEF TypeInv, Shape, Mutes, MutesGet, FastPath, SlowPath, QueryOld, QueryNew, Categorize
        <5> QED BY Zenon, <2>2, <5>1
      <4> QED BY Zenon, <4>1, <4>2
    <3>3. ASSUME NEW q \in Peer, NEW l \in Lset, NEW i \in cache'[q][l].ids PROVE Hits(i, l)'
      <4>1. CASE Categorize(c) /\ q = c.peer /\ l = c.lset
        <5>1. cache'[q][l] = [ids |-> allIDs(c), version |-> call[c].new] /\ call[c].pc = "categorize"
          BY Zenon, <3>1, <4>1 DEF Categorize, TypeInv, TypeOK
        <5>2. i \in DOMAIN call[c].sils
          BY <3>3, <5>1 DEF allIDs, InState, ids
        <5>3. Hits(i, c.lset)
          BY Zenon, <2>0, <3>1, <5>1, <5>2 DEF Found
        <5> QED BY Zenon, <1>2, <4>1, <5>3, HitsStep
      <4>2. CASE ~(Categorize(c) /\ q = c.peer /\ l = c.lset)
        <5>1. cache'[q][l] = cache[q][l]
          <6>1. CASE Categorize(c)
            BY ZenonT(60), <3>1, <4>2, <6>1 DEF TypeInv, TypeOK, Categorize
          <6>2. CASE ~Categorize(c)
            BY ZenonT(60), <2>4, <6>2 DEF Mutes, MutesGet, FastPath, SlowPath, QueryOld, QueryNew
          <6> QED BY Zenon, <6>1, <6>2
        <5> QED BY Zenon, <2>1, <3>3, <5>1
      <4> QED BY Zenon, <4>1, <4>2
    <3> QED BY Zenon, <2>0, <3>2, <3>3 DEF TrueInv
  <2>5. ASSUME NEW p \in Peer, NEW l \in Lset, PostGC(p, l)
        PROVE  call' = call /\ \A q \in Peer, k \in Lset : cache'[q][k] = cache[q][k] \/ cache'[q][k] = NoEntry
    BY ZenonT(60), <2>5 DEF PostGC, TypeInv, TypeOK
  <2>6. ASSUME NEW p \in Peer, Restart(p)
        PROVE  /\ \A q \in Peer, k \in Lset : cache'[q][k] = cache[q][k] \/ cache'[q][k] = NoEntry
               /\ \A c \in Caller : call'[c] = call[c] \/ call'[c] = Idle
    BY ZenonT(60), <2>6 DEF Restart, TypeInv, TypeOK
  <2>7. \A p \in Peer : Changes(p) => call' = call /\ cache' = cache
    BY Zenon, ChangesExtend DEF Becomes
  <2>8. \/ /\ \A q \in Peer, k \in Lset : cache'[q][k] = cache[q][k] \/ cache'[q][k] = NoEntry
           /\ \A c \in Caller : call'[c] = call[c] \/ call'[c] = Idle
        \/ \E c \in scene.callers : Mutes(c)
    BY ZenonT(60), <2>0, <2>5, <2>6, <2>7, StepCases DEF Tick, GC, Snapshot, Gossip
  <2> QED BY Zenon, <2>3, <2>4, <2>8
<1> QED BY Zenon, <1>1, <1>2

\* TrueInv holds at the start.
LEMMA TrueInit ==
    ASSUME Init, Setting
    PROVE  TrueInv
<1>1. DOMAIN seen = Caller /\ \A c \in Caller : seen[c].soon = MaxTime + 1 /\ call[c].pc = "idle"
  BY Zenon DEF Init, Idle, Unseen, Never
<1>2. MaxTime + 1 \in Nat
  BY DEF Setting
<1>3. \A p \in Peer, l \in Lset : cache[p][l].ids = {}
  BY Zenon DEF Init, NoEntry
<1> QED BY ZenonT(60), <1>1, <1>2, <1>3 DEF TrueInv, Soon, Found

\* A call that answers "muted" has found a silence that has started.
LEMMA TrulyStep ==
    ASSUME TypeInv, TrueInv
    PROVE  MutesTruly
<1> SUFFICES ASSUME NEW c \in Caller, Categorize(c), NEW i \in activeIDs(c) PROVE seen[c].soon <= now
  BY Zenon DEF MutesTruly
<1>1. call[c].pc = "categorize" /\ i \in DOMAIN call[c].sils /\ ~(now < call[c].sils[i].starts)
  BY Zenon DEF Categorize, activeIDs, InState, ids, getState
<1>2. /\ call[c].sils[i].starts \in Nat /\ seen[c].soon <= call[c].sils[i].starts /\ seen[c].soon \in Nat
      /\ now \in Nat
  <2>1. now \in Nat
    BY DEF TypeInv, TypeOK, Time
  <2> QED BY ZenonT(60), <1>1, <2>1 DEF TrueInv, Found, Soon
<1> QED BY <1>1, <1>2

\* Silencer.Mutes: an alert that an active silence covers during the whole call is muted,
\* whatever was cached and whatever other calls, changes, messages, collections and
\* restarts do; and an alert is muted only by a silence that matches it and has started.
THEOREM MutesIsRightThm == ASSUME Setting PROVE Spec => MutesIsRight
<1>1. Init => MatchInv /\ IndexInv /\ CoverInv /\ TrueInv
  BY Zenon, MatchInit, CoverInit, TrueInit
<1>2. TypeInv /\ TypeInv' /\ MatchInv /\ IndexInv /\ CoverInv /\ TrueInv /\ [Next]_vars
        => MatchInv' /\ IndexInv' /\ CoverInv' /\ TrueInv'
  BY Zenon, MatchStep, IndexStep, CoverStep, TrueStep
<1>3. TypeInv /\ IndexInv /\ CoverInv /\ TrueInv /\ [Next]_vars => [RightAnswer]_vars
  BY Zenon, ActiveStep, TrulyStep DEF RightAnswer, Easy
<1> QED BY <1>1, <1>2, <1>3, Typed, PTL DEF Spec, MutesIsRight
=============================================================================
