--------------------------- MODULE Alerts_proofs ----------------------------
(***************************************************************************)
(* Theorems about MemAlerts, for any number of alerts, callers and           *)
(* subscribers, any channel length and any limit: type correctness, that the *)
(* provider implements AlertFeed, and that the later word on an alert wins.  *)
(* And about Inhibitor, for any rules, alerts and times and any interleaving *)
(* of its goroutines: a source alert that fires inhibits.                    *)
(***************************************************************************)
EXTENDS MemAlerts, Inhibitor, FiniteSetTheorems, SequenceTheorems, WellFoundedInduction, TLAPS

-----------------------------------------------------------------------------
(* Types *)

Maps == UNION {[D -> Alert] : D \in SUBSET Fp}

PutRec == [pc : {"idle", "ready", "sending", "sent"}, alert : Alert \cup {NoTime},
           fps : Seq(Fp), left : SUBSET Listener]
LstRec == [st : {"new", "on", "done", "gone"}, cap : Nat, ch : Seq(Fp \X Alert), known : Maps]

\* Whoever is about to send holds the mutex, and has stored what it sends.
PutOK(c) ==
    /\ put[c].pc # "idle" => put[c].alert \in Alert
    /\ put[c].pc \in {"sending", "sent"} <=> holder = c
    /\ put[c].pc # "sending" => put[c].left = {}
    /\ put[c].pc = "sending" => put[c].fps # << >> /\ Head(put[c].fps) \in DOMAIN store

LstOK(l) ==
    /\ lst[l].st # "new" => l \in mscene.listeners
    /\ Len(lst[l].ch) <= lst[l].cap

Clock == mscene \in MemScenes /\ mnow \in Nat /\ 1 <= mnow /\ mnow <= mscene.maxTime
StoreOK == store \in Maps /\ IsFiniteSet(DOMAIN store)

MemInv ==
    /\ Clock /\ StoreOK /\ holder \in Caller \cup {Free}
    /\ put \in [Caller -> PutRec] /\ lst \in [Listener -> LstRec]
    /\ \A c \in Caller : PutOK(c)
    /\ \A l \in Listener : LstOK(l)

\* The bounds of the times.
LEMMA Bounds ==
    ASSUME MemSetting, Clock
    PROVE  /\ mscene.maxTime \in Nat \ {0} /\ ResolveTimeout \in Nat \ {0} /\ ChanLen \in Nat
           /\ mscene.listeners \subseteq Listener /\ mscene.callers \subseteq Caller
           /\ mscene.fps \subseteq Fp /\ mscene.starts \subseteq {NoTime, 1}
<1>1. mscene \in MemScene
  BY Zenon DEF MemSetting, Clock
<1>2. QED  BY Zenon, <1>1 DEF MemScene, MemSetting

\* A partial function in terms of its domain and its values.
LEMMA MapIs ==
    ASSUME NEW f
    PROVE  f \in Maps <=> /\ f = [x \in DOMAIN f |-> f[x]] /\ DOMAIN f \subseteq Fp
                          /\ \A x \in DOMAIN f : f[x] \in Alert
<1>1. ASSUME f \in Maps
      PROVE  f = [x \in DOMAIN f |-> f[x]] /\ DOMAIN f \subseteq Fp /\ \A x \in DOMAIN f : f[x] \in Alert
  <2>1. PICK D \in SUBSET Fp : f \in [D -> Alert]
    BY <1>1, Zenon DEF Maps
  <2>2. QED  BY <2>1, Zenon
<1>2. ASSUME f = [x \in DOMAIN f |-> f[x]], DOMAIN f \subseteq Fp, \A x \in DOMAIN f : f[x] \in Alert
      PROVE  f \in Maps
  <2>1. f \in [DOMAIN f -> Alert]
    BY <1>2, Zenon
  <2>2. DOMAIN f \in SUBSET Fp
    BY <1>2, Zenon
  <2>3. QED  BY <2>1, <2>2, Zenon DEF Maps
<1>3. QED  BY <1>1, <1>2, Zenon

LEMMA EmptyMap == Empty \in Maps /\ IsFiniteSet(DOMAIN Empty) /\ DOMAIN Empty = {}
<1>1. Empty = [x \in DOMAIN Empty |-> Empty[x]] /\ DOMAIN Empty = {}
  BY Zenon DEF Empty
<1>2. IsFiniteSet(DOMAIN Empty)
  BY <1>1, FS_EmptySet
<1>3. QED  BY <1>1, <1>2, MapIs, Zenon

LEMMA WithMap ==
    ASSUME NEW f \in Maps, NEW x \in Fp, NEW y \in Alert
    PROVE  /\ With(f, x, y) \in Maps /\ DOMAIN With(f, x, y) = DOMAIN f \cup {x}
           /\ With(f, x, y)[x] = y /\ \A z \in DOMAIN f : z # x => With(f, x, y)[z] = f[z]
           /\ IsFiniteSet(DOMAIN f) => IsFiniteSet(DOMAIN With(f, x, y))
<1>1. DOMAIN f \subseteq Fp /\ \A z \in DOMAIN f : f[z] \in Alert
  BY MapIs, Zenon
<1> DEFINE g == With(f, x, y)
<1>2. g = [z \in DOMAIN f \cup {x} |-> IF z = x THEN y ELSE f[z]]
  BY Zenon DEF With
<1>3. DOMAIN g = DOMAIN f \cup {x} /\ g = [z \in DOMAIN g |-> g[z]]
  BY <1>2, Zenon
<1>4. g[x] = y /\ \A z \in DOMAIN f : z # x => g[z] = f[z]
  BY <1>2, Zenon
<1>5. DOMAIN g \subseteq Fp /\ \A z \in DOMAIN g : g[z] \in Alert
  BY <1>1, <1>3, <1>4, Zenon
<1>6. g \in Maps
  <2> HIDE DEF g
  <2>1. QED  BY <1>3, <1>5, MapIs, Zenon
<1>7. IsFiniteSet(DOMAIN f) => IsFiniteSet(DOMAIN g)
  <2>1. DOMAIN g = DOMAIN f \cup {x}
    BY <1>3, Zenon
  <2> HIDE DEF g
  <2>2. QED  BY Zenon, <2>1, FS_AddElement
<1>8. QED  BY <1>3, <1>4, <1>6, <1>7, Zenon

\* postAlertsHandler gives an alert its times.
LEMMA NormalisedIs ==
    ASSUME MemSetting, Clock, NEW b \in Body
    PROVE  Normalised(b) \in Alert
<1>1. /\ mscene.maxTime \in Nat \ {0} /\ ResolveTimeout \in Nat \ {0} /\ mscene.starts \subseteq {NoTime, 1}
      /\ mnow \in Nat /\ 1 <= mnow /\ mnow <= mscene.maxTime
  BY Bounds, Zenon DEF Clock
<1>2. b.starts \in {NoTime, 1} /\ b.ends \in {NoTime, mnow, mnow + 1}
  BY Zenon, <1>1 DEF Body
<1>3. QED  BY <1>1, <1>2 DEF Normalised, Alert, NoTime

\* Alert.Merge gives an alert.
LEMMA MergeIs ==
    ASSUME MemSetting, Clock, NEW a \in Alert, NEW o \in Alert
    PROVE  Merge(a, o) \in Alert
  BY Zenon DEF Merge, Alert

LEMMA StoredIs ==
    ASSUME MemSetting, Clock, StoreOK, NEW fp \in Fp, NEW new \in Alert
    PROVE  Stored(fp, new) \in Alert
<1>1. fp \in DOMAIN store => store[fp] \in Alert
  BY MapIs, Zenon DEF StoreOK
<1>2. QED  BY <1>1, MergeIs, Zenon DEF Stored

-----------------------------------------------------------------------------
(* The inductive invariant *)

LEMMA Frame ==
    ASSUME mscene' = mscene
    PROVE  Alert' = Alert /\ Maps' = Maps /\ PutRec' = PutRec /\ LstRec' = LstRec
<1>1. Alert' = Alert
  BY Zenon DEF Alert
<1>2. Maps' = Maps
  BY <1>1, Zenon DEF Maps
<1>3. QED  BY <1>1, <1>2, Zenon DEF PutRec, LstRec

LEMMA MemScenery ==
    ASSUME MemNext
    PROVE  mscene' = mscene
  BY Zenon DEF MemNext, Post, PutStore, PutSend, PutSent, PutReturn, Subscribe, SlurpAndSubscribe, Receive,
               CloseIterator, gcListeners, gcAlerts, MemTick

\* Who does not hold the mutex neither sends nor has sent.
LEMMA Waiting ==
    ASSUME MemSetting, MemInv, NEW c \in Caller, holder # c
    PROVE  put[c].pc \notin {"sending", "sent"} /\ put[c].left = {}
<1>1. PutOK(c)
  BY Zenon DEF MemInv
<1>2. put[c].pc \notin {"sending", "sent"}
  BY <1>1, Zenon DEF PutOK
<1>3. put[c].pc # "sending"
  BY <1>2, Zenon
<1>4. QED  BY <1>1, <1>2, <1>3, Zenon DEF PutOK

LEMMA InitMem ==
    ASSUME MemSetting, MemInit
    PROVE  MemInv
<1>1. Clock
  <2>1. mscene \in MemScene /\ mnow = 1 /\ mscene \in MemScenes
    BY Zenon DEF MemInit, MemSetting
  <2>2. mscene.maxTime \in Nat \ {0}
    BY Zenon, <2>1 DEF MemScene
  <2>3. QED  BY <2>1, <2>2 DEF Clock
<1>2. StoreOK
  BY EmptyMap, Zenon DEF MemInit, StoreOK
<1>3. NoPut \in PutRec
  BY DEF NoPut, PutRec
<1>4. NoListener \in LstRec
  <2>1. << >> \in Seq(Fp \X Alert)
    OBVIOUS
  <2>2. QED  BY Zenon, <2>1, EmptyMap DEF NoListener, LstRec
<1>5. put = [c \in Caller |-> NoPut] /\ lst = [l \in Listener |-> NoListener] /\ holder = Free
  BY Zenon DEF MemInit
<1>6. put \in [Caller -> PutRec] /\ lst \in [Listener -> LstRec]
  BY <1>3, <1>4, <1>5, Zenon
<1>7. ASSUME NEW c \in Caller  PROVE  PutOK(c)
  <2>1. put[c] = NoPut /\ holder # c
    BY <1>5, Zenon DEF MemSetting
  <2>2. QED  BY <2>1 DEF PutOK, NoPut
<1>8. ASSUME NEW l \in Listener  PROVE  LstOK(l)
  <2>1. lst[l] = NoListener
    BY <1>5, Zenon
  <2>2. QED  BY <2>1 DEF LstOK, NoListener
<1>9. QED  BY <1>1, <1>2, <1>5, <1>6, <1>7, <1>8, Zenon DEF MemInv

\* The calls of Put besides the sends: what they do to the request and to the store.
LEMMA PostMem ==
    ASSUME MemSetting, MemInv, NEW c \in Caller, Post(c)
    PROVE  MemInv'
<1>1. PICK b \in Body, s \in Batches :
         put' = [put EXCEPT ![c] = [pc |-> "ready", alert |-> Normalised(b), fps |-> s, left |-> {}]]
  BY Zenon DEF Post
<1>2. UNCHANGED <<mscene, mnow, store, bucket, holder, lst, gcpc>> /\ put[c].pc = "idle"
  BY Zenon DEF Post
<1>3. Normalised(b) \in Alert
  BY NormalisedIs, Zenon DEF MemInv
<1>4. s \in Seq(Fp)
  <2>1. mscene.fps \subseteq Fp
    BY Bounds, Zenon DEF MemInv
  <2>2. PICK n \in 1 .. 2 : s \in [1 .. n -> mscene.fps]
    BY Zenon DEF Batches
  <2>3. QED  BY <2>1, <2>2
<1> DEFINE new == [pc |-> "ready", alert |-> Normalised(b), fps |-> s, left |-> {}]
<1>5. new \in PutRec /\ new.pc = "ready" /\ new.alert = Normalised(b) /\ new.left = {}
  BY Zenon, <1>3, <1>4 DEF PutRec
<1>6. put' = [put EXCEPT ![c] = new]
  BY <1>1, Zenon
<1> HIDE DEF new
<1>7. put \in [Caller -> PutRec]
  BY Zenon DEF MemInv
<1>8. put' \in [Caller -> PutRec] /\ put'[c] = new /\ \A d \in Caller : d # c => put'[d] = put[d]
  BY <1>5, <1>6, <1>7, Zenon
<1>9. ASSUME NEW d \in Caller  PROVE  PutOK(d)'
  <2>1. Alert' = Alert /\ holder' = holder /\ store' = store
    BY <1>2, Frame, Zenon
  <2>2. CASE d = c
    <3>1. holder # c
      BY <1>2, Zenon DEF MemInv, PutOK
    <3>2. QED  BY Zenon, <1>3, <1>5, <1>8, <2>1, <2>2, <3>1 DEF PutOK
  <2>3. CASE d # c
    <3>1. PutOK(d) /\ put'[d] = put[d]
      BY <1>8, <2>3, Zenon DEF MemInv
    <3>2. QED  BY <2>1, <3>1, Zenon DEF PutOK
  <2>4. QED  BY Zenon, <2>2, <2>3
<1>10. QED
  BY <1>2, <1>8, <1>9, Frame, Zenon DEF MemInv, Clock, StoreOK, LstOK

\* What PutStore does.
LEMMA PutStoreIs ==
    ASSUME MemSetting, MemInv, NEW c \in Caller, PutStore(c)
    PROVE  /\ put[c].fps \in Seq(Fp) /\ put[c].fps # << >> /\ Head(put[c].fps) \in Fp
           /\ Tail(put[c].fps) \in Seq(Fp)
           /\ put[c].alert \in Alert /\ Stored(Head(put[c].fps), put[c].alert) \in Alert
           /\ put[c].pc # "sending" /\ \A d \in Caller : d # c => holder # d
<1>1. put[c] \in PutRec /\ PutOK(c) /\ Clock /\ StoreOK
  BY Zenon DEF MemInv
<1>2. put[c].fps # << >> /\ put[c].pc \in {"ready", "sent"} /\ holder \in {Free, c}
  BY Zenon DEF PutStore
<1>3. put[c].fps \in Seq(Fp)
  BY Zenon, <1>1 DEF PutRec
<1>4. Head(put[c].fps) \in Fp /\ Tail(put[c].fps) \in Seq(Fp)
  BY <1>2, <1>3
<1>5. put[c].pc # "idle" /\ put[c].pc # "sending"
  BY Zenon, <1>2
<1>6. put[c].alert \in Alert
  BY <1>1, <1>5, Zenon DEF PutOK
<1>7. \A d \in Caller : d # c => holder # d
  BY <1>2, Zenon DEF MemSetting
<1>8. QED  BY <1>1, <1>2, <1>3, <1>4, <1>5, <1>6, <1>7, StoredIs, Zenon

LEMMA PutStoreMem ==
    ASSUME MemSetting, MemInv, NEW c \in Caller, PutStore(c)
    PROVE  MemInv'
<1> DEFINE fp == Head(put[c].fps)
           a == Stored(fp, put[c].alert)
           ok == Limited(fp, a).ok
           new == [pc    |-> IF ok THEN "sending" ELSE "sent",
                   alert |-> put[c].alert,
                   fps   |-> IF ok THEN put[c].fps ELSE Tail(put[c].fps),
                   left  |-> IF ok THEN Open ELSE {}]
<1>1. /\ put[c].fps \in Seq(Fp) /\ put[c].fps # << >> /\ fp \in Fp /\ Tail(put[c].fps) \in Seq(Fp)
      /\ put[c].alert \in Alert /\ a \in Alert
      /\ put[c].pc # "sending" /\ \A d \in Caller : d # c => holder # d
  BY Zenon, PutStoreIs
<1>2. /\ store' = IF ok THEN With(store, fp, a) ELSE store
      /\ holder' = c /\ put' = [put EXCEPT ![c] = new]
      /\ UNCHANGED <<mscene, mnow, lst, gcpc, posts>>
  BY Zenon DEF PutStore
<1>3. Open \subseteq Listener
  BY Bounds, Zenon DEF Open, MemInv
<1>4. new \in PutRec /\ new.pc = (IF ok THEN "sending" ELSE "sent") /\ new.alert = put[c].alert
      /\ new.fps = (IF ok THEN put[c].fps ELSE Tail(put[c].fps)) /\ new.left = (IF ok THEN Open ELSE {})
  <2> HIDE DEF ok, fp, a
  <2>1. QED  BY Zenon, <1>1, <1>3 DEF PutRec
<1> HIDE DEF new, ok, a
<1>5. put \in [Caller -> PutRec] /\ store \in Maps /\ IsFiniteSet(DOMAIN store)
  BY Zenon DEF MemInv, StoreOK
<1>6. put' \in [Caller -> PutRec] /\ put'[c] = new /\ \A d \in Caller : d # c => put'[d] = put[d]
  BY <1>2, <1>4, <1>5, Zenon
<1>7. /\ store' \in Maps /\ IsFiniteSet(DOMAIN store') /\ DOMAIN store \subseteq DOMAIN store'
      /\ ok => fp \in DOMAIN store'
  <2>1. CASE ok
    <3>1. store' = With(store, fp, a) /\ fp \in Fp /\ a \in Alert
      BY <1>1, <1>2, <2>1, Zenon
    <3> HIDE DEF fp
    <3>2. /\ With(store, fp, a) \in Maps /\ DOMAIN With(store, fp, a) = DOMAIN store \cup {fp}
          /\ IsFiniteSet(DOMAIN With(store, fp, a))
      BY <1>5, <3>1, WithMap, Zenon
    <3>3. QED  BY <3>1, <3>2, Zenon
  <2>2. CASE ~ok
    BY <1>2, <1>5, <2>2, Zenon
  <2>3. QED  BY <2>1, <2>2, Zenon
<1>8. ASSUME NEW d \in Caller  PROVE  PutOK(d)'
  <2>1. Alert' = Alert
    BY <1>2, Frame, Zenon
  <2>2. CASE d = c
    <3>1. CASE ok
      <4>1. new.pc = "sending" /\ new.fps = put[c].fps
        BY <1>4, <3>1, Zenon
      <4>2. QED  BY Zenon, <1>1, <1>2, <1>4, <1>6, <1>7, <2>1, <2>2, <3>1, <4>1 DEF PutOK
    <3>2. CASE ~ok
      <4>1. new.pc = "sent" /\ new.left = {}
        BY <1>4, <3>2, Zenon
      <4>2. QED  BY Zenon, <1>1, <1>2, <1>4, <1>6, <2>1, <2>2, <4>1 DEF PutOK
    <3>3. QED  BY <3>1, <3>2
  <2>3. CASE d # c
    <3>1. holder # d /\ holder' # d /\ put'[d] = put[d]
      BY <1>1, <1>2, <1>6, <2>3, Zenon
    <3>2. put[d].pc \notin {"sending", "sent"} /\ PutOK(d)
      BY <3>1, Waiting, Zenon DEF MemInv
    <3>3. put[d].pc # "sending"
      BY <3>2, Zenon
    <3>4. QED  BY <2>1, <3>1, <3>2, <3>3, Zenon DEF PutOK
  <2>4. QED  BY Zenon, <2>2, <2>3
<1>9. QED
  BY <1>2, <1>6, <1>7, <1>8, Frame, Zenon DEF MemInv, Clock, StoreOK, LstOK

LEMMA PutSendMem ==
    ASSUME MemSetting, MemInv, NEW c \in Caller, NEW l \in Listener, PutSend(c, l)
    PROVE  MemInv'
<1>1. /\ put[c].pc = "sending" /\ l \in put[c].left /\ put' = [put EXCEPT ![c].left = @ \ {l}]
      /\ UNCHANGED <<mscene, mnow, store, bucket, holder, gcpc, posts>>
  BY Zenon DEF PutSend
<1>2. /\ put \in [Caller -> PutRec] /\ lst \in [Listener -> LstRec] /\ PutOK(c) /\ StoreOK
      /\ put[c] \in PutRec /\ lst[l] \in LstRec /\ LstOK(l)
  BY Zenon DEF MemInv
<1>3. put' \in [Caller -> PutRec] /\ \A d \in Caller : /\ put'[d].pc = put[d].pc /\ put'[d].alert = put[d].alert
                                                      /\ put'[d].fps = put[d].fps
                                                      /\ put'[d].left = IF d = c THEN put[c].left \ {l} ELSE put[d].left
  BY Zenon, <1>1, <1>2 DEF PutRec
<1>4. \A d \in Caller : PutOK(d)'
  <2>1. SUFFICES ASSUME NEW d \in Caller  PROVE PutOK(d)'
    BY Zenon
  <2>2. PutOK(d) /\ Alert' = Alert
    BY <1>1, Frame, Zenon DEF MemInv
  <2>3. put'[d].left \subseteq put[d].left
    BY <1>3, Zenon
  <2>4. put[d].left = {} => put'[d].left = {}
    BY <2>3, Zenon
  <2>5. /\ put'[d].pc = put[d].pc /\ put'[d].alert = put[d].alert /\ put'[d].fps = put[d].fps
        /\ holder' = holder /\ store' = store
    BY <1>1, <1>3, Zenon
  <2>6. QED  BY <2>2, <2>4, <2>5, Zenon DEF PutOK
<1>5. Sending(c) \in Fp \X Alert
  <2>1. Head(put[c].fps) \in DOMAIN store
    BY <1>1, <1>2, Zenon DEF PutOK
  <2>2. QED  BY <1>2, <2>1, MapIs, Zenon DEF StoreOK, Sending
<1>6. \/ lst' = lst
      \/ Len(lst[l].ch) < lst[l].cap /\ lst' = [lst EXCEPT ![l].ch = Append(@, Sending(c))]
  BY Zenon DEF PutSend, Sending
<1>7. /\ lst' \in [Listener -> LstRec] /\ \A k \in Listener : LstOK(k)'
  <2>1. CASE lst' = lst
    BY <1>1, <1>2, <2>1, Zenon DEF MemInv, LstOK
  <2>2. CASE Len(lst[l].ch) < lst[l].cap /\ lst' = [lst EXCEPT ![l].ch = Append(@, Sending(c))]
    <3> DEFINE new == [lst[l] EXCEPT !.ch = Append(@, Sending(c))]
    <3>1. lst[l].ch \in Seq(Fp \X Alert) /\ lst[l].cap \in Nat
      BY Zenon, <1>2 DEF LstRec
    <3>2. /\ Append(lst[l].ch, Sending(c)) \in Seq(Fp \X Alert)
          /\ Len(Append(lst[l].ch, Sending(c))) = Len(lst[l].ch) + 1
      BY <1>5, <3>1
    <3>3. /\ new \in LstRec /\ new.st = lst[l].st /\ new.cap = lst[l].cap
          /\ new.ch = Append(lst[l].ch, Sending(c))
      BY Zenon, <1>2, <3>2 DEF LstRec
    <3>4. lst' = [lst EXCEPT ![l] = new]
      BY <2>2, Zenon
    <3> HIDE DEF new
    <3>5. lst' \in [Listener -> LstRec] /\ lst'[l] = new /\ \A k \in Listener : k # l => lst'[k] = lst[k]
      BY <1>2, <3>3, <3>4, Zenon
    <3>6. LstOK(l)'
      <4>1. Len(lst[l].ch) \in Nat
        BY <3>1
      <4>2. Len(new.ch) <= new.cap
        BY <2>2, <3>1, <3>2, <3>3, <4>1
      <4>3. QED  BY <1>1, <1>2, <3>3, <3>5, <4>2, Zenon DEF LstOK
    <3>7. \A k \in Listener : k # l => LstOK(k)'
      BY <1>1, <3>5, Zenon DEF MemInv, LstOK
    <3>8. QED  BY <3>5, <3>6, <3>7, Zenon
  <2>3. QED  BY Zenon, <1>6, <2>1, <2>2
<1>8. QED
  BY <1>1, <1>3, <1>4, <1>7, Frame, Zenon DEF MemInv, Clock, StoreOK

LEMMA PutSentMem ==
    ASSUME MemSetting, MemInv, NEW c \in Caller, PutSent(c) \/ PutReturn(c)
    PROVE  MemInv'
<1>1. put \in [Caller -> PutRec] /\ put[c] \in PutRec /\ PutOK(c)
  BY Zenon DEF MemInv
<1>2. UNCHANGED <<mscene, mnow, store, bucket, lst, gcpc, posts>>
  BY Zenon DEF PutSent, PutReturn
<1>3. put[c].pc \in {"sending", "sent"}
  BY Zenon DEF PutSent, PutReturn
<1>4. holder = c
  BY <1>1, <1>3, Zenon DEF PutOK
<1>5. CASE PutSent(c)
  <2> DEFINE new == [pc |-> "sent", alert |-> put[c].alert, fps |-> Tail(put[c].fps), left |-> {}]
  <2>1. put' = [put EXCEPT ![c] = new] /\ holder' = holder /\ put[c].pc = "sending"
    BY <1>5, Zenon DEF PutSent
  <2>2. put[c].fps \in Seq(Fp) /\ put[c].alert \in Alert \cup {NoTime}
    BY Zenon, <1>1 DEF PutRec
  <2>3. put[c].fps # << >> /\ put[c].alert \in Alert
    BY Zenon, <1>1, <2>1 DEF PutOK
  <2>4. Tail(put[c].fps) \in Seq(Fp)
    BY <2>2, <2>3
  <2>5. new \in PutRec /\ new.pc = "sent" /\ new.alert \in Alert /\ new.left = {}
    BY Zenon, <2>3, <2>4 DEF PutRec
  <2> HIDE DEF new
  <2>6. put' \in [Caller -> PutRec] /\ put'[c] = new /\ \A d \in Caller : d # c => put'[d] = put[d]
    BY <1>1, <2>1, <2>5, Zenon
  <2>7. ASSUME NEW d \in Caller  PROVE  PutOK(d)'
    <3>1. Alert' = Alert
      BY <1>2, Frame, Zenon
    <3>2. CASE d = c
      BY <1>4, <2>1, <2>5, <2>6, <3>1, <3>2 DEF PutOK
    <3>3. CASE d # c
      BY <1>2, <2>1, <2>6, <3>1, <3>3, Zenon DEF MemInv, PutOK
    <3>4. QED  BY Zenon, <3>2, <3>3
  <2>8. QED  BY <1>2, <2>1, <2>6, <2>7, Frame, Zenon DEF MemInv, Clock, StoreOK, LstOK
<1>6. CASE PutReturn(c)
  <2>1. put' = [put EXCEPT ![c] = NoPut] /\ holder' = Free
    BY <1>6, Zenon DEF PutReturn
  <2>2. NoPut \in PutRec /\ NoPut.pc = "idle" /\ NoPut.left = {}
    BY DEF NoPut, PutRec
  <2>3. put' \in [Caller -> PutRec] /\ put'[c] = NoPut /\ \A d \in Caller : d # c => put'[d] = put[d]
    BY <1>1, <2>1, <2>2, Zenon
  <2>4. ASSUME NEW d \in Caller  PROVE  PutOK(d)'
    <3>1. Alert' = Alert /\ holder' # d
      BY <1>2, <2>1, Frame, Zenon DEF MemSetting
    <3>2. CASE d = c
      BY Zenon, <2>2, <2>3, <3>1, <3>2 DEF PutOK
    <3>3. CASE d # c
      <4>1. put'[d] = put[d] /\ holder # d /\ PutOK(d)
        BY <1>4, <2>3, <3>3, Zenon DEF MemInv
      <4>2. put[d].pc \notin {"sending", "sent"}
        BY <4>1, Waiting, Zenon
      <4>3. put[d].pc # "sending"
        BY <4>2, Zenon
      <4>4. QED  BY <3>1, <4>1, <4>2, <4>3, Zenon DEF PutOK
    <3>4. QED  BY Zenon, <3>2, <3>3
  <2>5. QED  BY <1>2, <2>1, <2>3, <2>4, Frame, Zenon DEF MemInv, Clock, StoreOK, LstOK
<1>7. QED  BY Zenon, <1>5, <1>6

\* The steps of a subscriber change nothing but its own state.
LEMMA ListenerMem ==
    ASSUME MemSetting, MemInv, NEW l \in Listener, NEW new \in LstRec, lst' = [lst EXCEPT ![l] = new],
           l \in mscene.listeners, Len(new.ch) <= new.cap,
           UNCHANGED <<mscene, mnow, store, holder, put>>
    PROVE  MemInv'
<1>1. lst \in [Listener -> LstRec]
  BY Zenon DEF MemInv
<1>2. lst' \in [Listener -> LstRec] /\ lst'[l] = new /\ \A k \in Listener : k # l => lst'[k] = lst[k]
  BY <1>1, Zenon
<1>3. \A k \in Listener : LstOK(k)'
  BY <1>2, Zenon DEF MemInv, LstOK
<1>4. \A d \in Caller : PutOK(d)'
  BY Frame, Zenon DEF MemInv, PutOK
<1>5. QED  BY <1>2, <1>3, <1>4, Frame, Zenon DEF MemInv, Clock, StoreOK

\* The list of the stored alerts.
LEMMA ListIs ==
    ASSUME MemInv, NEW s \in Lists
    PROVE  /\ DOMAIN s = 1 .. Len(s) /\ Len(s) \in Nat
           /\ [i \in DOMAIN s |-> <<s[i], store[s[i]]>>] \in Seq(Fp \X Alert)
           /\ Len([i \in DOMAIN s |-> <<s[i], store[s[i]]>>]) = Len(s)
           /\ {s[i] : i \in DOMAIN s} = DOMAIN store
<1>1. IsFiniteSet(DOMAIN store) /\ DOMAIN store \subseteq Fp /\ \A x \in DOMAIN store : store[x] \in Alert
  BY MapIs, Zenon DEF MemInv, StoreOK
<1>2. Cardinality(DOMAIN store) \in Nat
  BY Zenon, <1>1, FS_CardinalityType
<1>3. PICK n \in Nat : s \in [1 .. n -> DOMAIN store]
  BY <1>2, Zenon DEF Lists
<1>4. Len(s) = n /\ DOMAIN s = 1 .. n
  BY <1>3
<1>5. \A i \in 1 .. n : <<s[i], store[s[i]]>> \in Fp \X Alert
  BY <1>1, <1>3, Zenon
<1> DEFINE q == [i \in DOMAIN s |-> <<s[i], store[s[i]]>>]
<1>6. q \in [1 .. n -> Fp \X Alert]
  BY <1>4, <1>5, Zenon
<1> HIDE DEF q
<1>7. q \in Seq(Fp \X Alert) /\ Len(q) = n
  BY <1>6
<1>8. {s[i] : i \in DOMAIN s} = DOMAIN store
  <2>1. \A i \in DOMAIN s : s[i] \in DOMAIN store
    BY <1>3, Zenon
  <2>2. \A fp \in DOMAIN store : \E i \in DOMAIN s : s[i] = fp
    BY Zenon DEF Lists
  <2>3. QED  BY <2>1, <2>2, Zenon
<1>9. QED  BY Zenon, <1>4, <1>7, <1>8 DEF q

LEMMA SubscriberMem ==
    ASSUME MemSetting, MemInv, NEW l \in mscene.listeners,
           Subscribe(l) \/ SlurpAndSubscribe(l) \/ Receive(l) \/ CloseIterator(l)
    PROVE  MemInv'
<1>1. l \in Listener /\ ChanLen \in Nat
  BY Bounds, Zenon DEF MemInv
<1>2. UNCHANGED <<mscene, mnow, store, holder, put>>
  BY Zenon DEF Subscribe, SlurpAndSubscribe, Receive, CloseIterator
<1>3. lst[l] \in LstRec /\ LstOK(l) /\ store \in Maps
  BY <1>1, Zenon DEF MemInv, StoreOK
<1>4. CASE Subscribe(l)
  <2>1. PICK s \in Lists :
          lst' = [lst EXCEPT ![l] =
                    [st |-> "on", cap |-> IF Len(s) > ChanLen THEN Len(s) ELSE ChanLen,
                     ch |-> [i \in DOMAIN s |-> <<s[i], store[s[i]]>>], known |-> Empty]]
    BY <1>4, Zenon DEF Subscribe
  <2> DEFINE q == [i \in DOMAIN s |-> <<s[i], store[s[i]]>>]
             k == IF Len(s) > ChanLen THEN Len(s) ELSE ChanLen
             new == [st |-> "on", cap |-> k, ch |-> q, known |-> Empty]
  <2>2. q \in Seq(Fp \X Alert) /\ Len(q) = Len(s) /\ Len(s) \in Nat
    BY Zenon, ListIs
  <2> HIDE DEF q
  <2>3. k \in Nat /\ Len(q) <= k
    BY <1>1, <2>2
  <2> HIDE DEF k
  <2>4. new \in LstRec /\ new.ch = q /\ new.cap = k
    BY Zenon, <2>2, <2>3, EmptyMap DEF LstRec
  <2>5. lst' = [lst EXCEPT ![l] = new]
    BY <2>1, Zenon DEF q, k
  <2> HIDE DEF new
  <2>6. Len(new.ch) <= new.cap
    BY <2>3, <2>4, Zenon
  <2>7. QED  BY <1>1, <1>2, <2>4, <2>5, <2>6, ListenerMem, Zenon
<1>5. CASE SlurpAndSubscribe(l)
  <2> DEFINE new == [st |-> "on", cap |-> ChanLen, ch |-> << >>, known |-> store]
  <2>1. lst' = [lst EXCEPT ![l] = new]
    BY <1>5, Zenon DEF SlurpAndSubscribe
  <2>2. << >> \in Seq(Fp \X Alert) /\ Len(<< >>) = 0
    OBVIOUS
  <2>3. new \in LstRec /\ Len(new.ch) <= new.cap
    BY <1>1, <1>3, <2>2 DEF LstRec
  <2> HIDE DEF new
  <2>4. QED  BY <1>1, <1>2, <2>1, <2>3, ListenerMem, Zenon
<1>6. CASE Receive(l)
  <2> DEFINE u == Head(lst[l].ch)
             g == With(lst[l].known, u[1], u[2])
             new == [st |-> "on", cap |-> lst[l].cap, ch |-> Tail(lst[l].ch), known |-> g]
  <2>1. lst' = [lst EXCEPT ![l] = new] /\ lst[l].ch # << >>
    BY <1>6, Zenon DEF Receive
  <2>2. lst[l].ch \in Seq(Fp \X Alert) /\ lst[l].cap \in Nat /\ lst[l].known \in Maps
    BY Zenon, <1>3 DEF LstRec
  <2>3. u \in Fp \X Alert /\ Tail(lst[l].ch) \in Seq(Fp \X Alert) /\ Len(Tail(lst[l].ch)) <= lst[l].cap
    BY <1>3, <2>1, <2>2 DEF LstOK
  <2> HIDE DEF u
  <2>4. u[1] \in Fp /\ u[2] \in Alert
    BY <2>3, Zenon
  <2>5. g \in Maps
    BY <2>2, <2>4, WithMap, Zenon
  <2> HIDE DEF g
  <2>6. new \in LstRec /\ new.ch = Tail(lst[l].ch) /\ new.cap = lst[l].cap
    BY Zenon, <2>2, <2>3, <2>5 DEF LstRec
  <2> HIDE DEF new
  <2>7. Len(new.ch) <= new.cap
    BY <2>3, <2>6, Zenon
  <2>8. QED  BY <1>1, <1>2, <2>1, <2>6, <2>7, ListenerMem, Zenon
<1>7. CASE CloseIterator(l)
  <2> DEFINE new == [lst[l] EXCEPT !.st = "done"]
  <2>1. lst' = [lst EXCEPT ![l] = new]
    BY <1>7, Zenon DEF CloseIterator
  <2>2. new \in LstRec /\ new.ch = lst[l].ch /\ new.cap = lst[l].cap
    BY Zenon, <1>3 DEF LstRec
  <2> HIDE DEF new
  <2>3. Len(new.ch) <= new.cap
    BY <1>3, <2>2, Zenon DEF LstOK
  <2>4. QED  BY <1>1, <1>2, <2>1, <2>2, <2>3, ListenerMem, Zenon
<1>8. QED  BY Zenon, <1>4, <1>5, <1>6, <1>7

LEMMA CollectMem ==
    ASSUME MemSetting, MemInv, gcListeners \/ gcAlerts \/ MemTick
    PROVE  MemInv'
<1>1. /\ Clock /\ StoreOK /\ holder \in Caller \cup {Free}
      /\ put \in [Caller -> PutRec] /\ lst \in [Listener -> LstRec]
  BY Zenon DEF MemInv
<1>2. UNCHANGED <<mscene, holder, put>>
  BY Zenon DEF gcListeners, gcAlerts, MemTick
<1>3. Alert' = Alert /\ Maps' = Maps /\ PutRec' = PutRec /\ LstRec' = LstRec
  BY Zenon, <1>2, Frame
<1>4. CASE gcListeners
  <2> DEFINE gone == [NoListener EXCEPT !.st = "gone"]
  <2>1. /\ UNCHANGED <<mnow, store>>
        /\ lst' = [l \in Listener |-> IF lst[l].st = "done" THEN gone ELSE lst[l]]
    BY <1>4, Zenon DEF gcListeners
  <2>2. gone \in LstRec /\ gone.ch = << >> /\ gone.cap = 0
    <3>1. << >> \in Seq(Fp \X Alert)
      OBVIOUS
    <3>2. QED  BY Zenon, <3>1, EmptyMap DEF NoListener, LstRec
  <2> HIDE DEF gone
  <2>3. lst' \in [Listener -> LstRec]
    BY <1>1, <2>1, <2>2, Zenon
  <2>4. ASSUME NEW l \in Listener  PROVE  LstOK(l)'
    <3>1. LstOK(l)
      BY Zenon DEF MemInv
    <3>2. CASE lst[l].st = "done"
      <4>1. lst'[l] = gone /\ l \in mscene.listeners
        BY Zenon, <2>1, <3>1, <3>2 DEF LstOK
      <4>2. Len(gone.ch) <= gone.cap
        BY <2>2
      <4>3. QED  BY <1>2, <4>1, <4>2, Zenon DEF LstOK
    <3>3. CASE lst[l].st # "done"
      BY <1>2, <2>1, <3>1, <3>3, Zenon DEF LstOK
    <3>4. QED  BY Zenon, <3>2, <3>3
  <2>5. \A d \in Caller : PutOK(d)'
    BY <1>2, <1>3, <2>1, Zenon DEF MemInv, PutOK
  <2>6. QED  BY <1>1, <1>2, <1>3, <2>1, <2>3, <2>4, <2>5, Zenon DEF MemInv, Clock, StoreOK
<1>5. CASE gcAlerts
  <2>1. holder = Free /\ UNCHANGED <<mnow, lst>> /\ store' = [fp \in Kept |-> store[fp]]
    BY <1>5, Zenon DEF gcAlerts
  <2>2. Kept \subseteq DOMAIN store
    BY Zenon DEF Kept
  <2>3. DOMAIN store' = Kept /\ store' = [x \in DOMAIN store' |-> store'[x]] /\ \A x \in Kept : store'[x] = store[x]
    BY <2>1, Zenon
  <2>4. store' \in Maps
    <3>1. DOMAIN store \subseteq Fp /\ \A x \in DOMAIN store : store[x] \in Alert
      BY <1>1, MapIs, Zenon DEF StoreOK
    <3>2. DOMAIN store' \subseteq Fp /\ \A x \in DOMAIN store' : store'[x] \in Alert
      BY <2>2, <2>3, <3>1, Zenon
    <3>3. QED  BY Zenon, <2>3, <3>2, MapIs
  <2>5. IsFiniteSet(DOMAIN store')
    BY <1>1, <2>2, <2>3, FS_Subset, Zenon DEF StoreOK
  <2>6. ASSUME NEW d \in Caller  PROVE  PutOK(d)'
    <3>1. holder # d /\ PutOK(d)
      BY <2>1, Zenon DEF MemSetting, MemInv
    <3>2. put[d].pc \notin {"sending", "sent"}
      BY <3>1, Zenon DEF PutOK
    <3>3. put[d].pc # "sending"
      BY <3>2, Zenon
    <3>4. QED  BY <1>2, <1>3, <3>1, <3>2, <3>3, Zenon DEF PutOK
  <2>7. QED  BY <1>1, <1>2, <1>3, <2>1, <2>4, <2>5, <2>6, Zenon DEF MemInv, Clock, StoreOK, LstOK
<1>6. CASE MemTick
  <2>1. mnow < mscene.maxTime /\ mnow' = mnow + 1 /\ UNCHANGED <<store, lst>>
    BY <1>6, Zenon DEF MemTick
  <2>2. mscene.maxTime \in Nat
    BY Zenon, <1>1, Bounds
  <2>3. mnow' \in Nat /\ 1 <= mnow' /\ mnow' <= mscene.maxTime
    BY <1>1, <2>1, <2>2 DEF Clock
  <2>4. QED  BY <1>1, <1>2, <1>3, <2>1, <2>3, Zenon DEF MemInv, Clock, StoreOK, PutOK, LstOK
<1>7. QED  BY Zenon, <1>4, <1>5, <1>6

LEMMA StepMem ==
    ASSUME MemSetting, MemInv, MemNext
    PROVE  MemInv'
<1>1. mscene.callers \subseteq Caller /\ mscene.listeners \subseteq Listener
  BY Bounds, Zenon DEF MemInv
<1>2. QED
  BY <1>1, PostMem, PutStoreMem, PutSendMem, PutSentMem, SubscriberMem, CollectMem, Zenon DEF MemNext

LEMMA MemAlways ==
    ASSUME MemSetting
    PROVE  MemSpec => []MemInv
<1>1. MemInit => MemInv
  BY Zenon, InitMem
<1>2. ASSUME MemInv, UNCHANGED memVars  PROVE  MemInv'
  <2>1. UNCHANGED <<mscene, mnow, store, holder, put, lst>>
    BY <1>2, Zenon DEF memVars
  <2>2. QED  BY <1>2, <2>1, Frame, Zenon DEF MemInv, Clock, StoreOK, PutOK, LstOK
<1>3. MemInv /\ [MemNext]_memVars => MemInv'
  BY Zenon, <1>2, StepMem
<1>4. QED  BY <1>1, <1>3, PTL DEF MemSpec

-----------------------------------------------------------------------------
(* The refinement *)

LEMMA FeedsAre ==
    /\ DOMAIN Feeds = Listener /\ DOMAIN Feeds' = Listener
    /\ \A l \in Listener : Feeds[l] = FeedOf(l) /\ Feeds'[l] = FeedOf(l)'
  BY Zenon DEF Feeds

LEMMA FeedOn ==
    ASSUME NEW l \in Listener
    PROVE  Feeds[l].on <=> lst[l].st = "on"
<1>1. Feeds[l] = FeedOf(l)
  BY FeedsAre, Zenon
<1>2. QED  BY <1>1 DEF FeedOf

\* Only the holder of the mutex sends.
LEMMA ComingIs ==
    ASSUME MemInv, NEW l, NEW c \in Coming(l)
    PROVE  c \in Caller /\ holder = c /\ Coming(l) = {c} /\ Queue(l) = Append(lst[l].ch, Sending(c))
<1>1. \A d \in Coming(l) : d \in Caller /\ holder = d
  BY Zenon DEF Coming, MemInv, PutOK
<1>2. Coming(l) = {c}
  BY <1>1, Zenon
<1>3. (CHOOSE d \in Coming(l) : TRUE) = c
  BY <1>2, Zenon
<1>4. QED  BY <1>1, <1>2, <1>3, Zenon DEF Queue

LEMMA NoneComing ==
    ASSUME MemInv, NEW l, holder \in Caller => put[holder].pc # "sending"
    PROVE  Coming(l) = {} /\ Queue(l) = lst[l].ch
<1>1. Coming(l) = {}
  BY ComingIs, Zenon DEF Coming
<1>2. QED  BY <1>1, Zenon DEF Queue

\* A subscriber whose channel is unchanged and to whom nothing else is sent does not notice a step.
LEMMA FeedStays ==
    ASSUME store' = store, NEW l \in Listener, lst'[l] = lst[l] \/ (lst[l].st # "on" /\ lst'[l].st # "on"),
           \A d \in Caller : \/ put'[d] = put[d]
                             \/ /\ put[d].pc # "sending" \/ put[d].left = {}
                                /\ put'[d].pc # "sending" \/ put'[d].left = {}
    PROVE  FeedOf(l)' = FeedOf(l)
<1>1. Coming(l)' = Coming(l)
  BY Zenon DEF Coming
<1>2. CASE lst[l].st # "on" /\ lst'[l].st # "on"
  BY <1>2, Zenon DEF FeedOf
<1>3. CASE lst'[l] = lst[l]
  <2>1. Queue(l)' = Queue(l)
    <3>1. CASE Coming(l) = {}
      BY <1>1, <1>3, <3>1, Zenon DEF Queue
    <3>2. CASE Coming(l) # {}
      <4> DEFINE c == CHOOSE d \in Coming(l) : TRUE
      <4>1. c \in Coming(l) /\ c = (CHOOSE d \in Coming(l)' : TRUE)
        BY <1>1, <3>2, Zenon
      <4> HIDE DEF c
      <4>2. c \in Caller /\ put[c].pc = "sending" /\ put[c].left # {}
        BY <4>1, Zenon DEF Coming
      <4>3. put'[c] = put[c]
        BY <4>2, Zenon
      <4>5. Queue(l) = Append(lst[l].ch, Sending(c))
        BY <3>2, Zenon DEF Queue, c
      <4>6. Queue(l)' = Append(lst'[l].ch, <<Head(put'[c].fps), store'[Head(put'[c].fps)]>>)
        BY <1>1, <3>2, <4>1, Zenon DEF Queue, Sending
      <4>7. QED  BY <1>3, <4>3, <4>5, <4>6, Zenon DEF Sending
    <3>3. QED  BY Zenon, <3>1, <3>2
  <2>2. QED  BY <1>3, <2>1, Zenon DEF FeedOf
<1>4. QED  BY Zenon, <1>2, <1>3

LEMMA Stutters ==
    ASSUME store' = store, mnow' = mnow, \A l \in Listener : FeedOf(l)' = FeedOf(l)
    PROVE  UNCHANGED Feed!feedVars
<1>1. Feeds' = Feeds
  BY Zenon DEF Feeds
<1>2. QED  BY <1>1, Zenon DEF Feed!feedVars

\* The steps that only the provider sees.
LEMMA HiddenSteps ==
    ASSUME MemSetting, MemInv, NEW c \in Caller, Post(c) \/ PutSent(c) \/ PutReturn(c)
    PROVE  UNCHANGED Feed!feedVars
<1>1. put \in [Caller -> PutRec] /\ UNCHANGED <<store, mnow, lst>>
  BY Zenon DEF MemInv, Post, PutSent, PutReturn
<1>2. \A d \in Caller : d # c => put'[d] = put[d]
  BY <1>1, Zenon DEF Post, PutSent, PutReturn
<1>3. put[c].pc # "sending" \/ put[c].left = {}
  BY Zenon DEF Post, PutSent, PutReturn
<1>4. put'[c].pc # "sending" \/ put'[c].left = {}
  <2>1. CASE Post(c)
    BY <1>1, <2>1 DEF Post
  <2>2. CASE PutSent(c)
    BY Zenon, <1>1, <2>2 DEF PutSent
  <2>3. CASE PutReturn(c)
    BY Zenon, <1>1, <2>3 DEF PutReturn, NoPut
  <2>4. QED  BY Zenon, <2>1, <2>2, <2>3
<1>5. ASSUME NEW l \in Listener  PROVE  FeedOf(l)' = FeedOf(l)
  BY <1>1, <1>2, <1>3, <1>4, FeedStays, Zenon
<1>6. QED  BY <1>1, <1>5, Stutters, Zenon

\* The send to a channel is hidden, too: the subscriber's queue held the update.
LEMMA HiddenSend ==
    ASSUME MemSetting, MemInv, NEW c \in Caller, NEW l \in Listener, PutSend(c, l)
    PROVE  UNCHANGED Feed!feedVars
<1>1. /\ put[c].pc = "sending" /\ l \in put[c].left /\ put' = [put EXCEPT ![c].left = @ \ {l}]
      /\ UNCHANGED <<mscene, mnow, store, holder>>
      /\ \/ lst' = [lst EXCEPT ![l].ch = Append(@, Sending(c))]
         \/ lst[l].st = "done" /\ lst' = lst
  BY Zenon DEF PutSend, Sending
<1>2. put \in [Caller -> PutRec] /\ put[c] \in PutRec /\ lst \in [Listener -> LstRec] /\ lst[l] \in LstRec
  BY Zenon DEF MemInv
<1>3. \A d \in Caller : /\ put'[d].pc = put[d].pc /\ put'[d].fps = put[d].fps
                        /\ put'[d].left = IF d = c THEN put[c].left \ {l} ELSE put[d].left
  BY Zenon, <1>1, <1>2 DEF PutRec
<1>4. c \in Coming(l)
  BY <1>1, Zenon DEF Coming
<1>5. holder = c /\ Coming(l) = {c} /\ Queue(l) = Append(lst[l].ch, Sending(c))
  BY Zenon, <1>4, ComingIs
<1>6. Coming(l)' = {}
  <2>1. Coming(l)' \subseteq Coming(l)
    BY <1>3, Zenon DEF Coming
  <2>2. c \notin Coming(l)'
    BY <1>3, Zenon DEF Coming
  <2>3. QED  BY <1>5, <2>1, <2>2, Zenon
<1>7. FeedOf(l)' = FeedOf(l)
  <2>1. CASE lst[l].st # "on"
    <3>1. lst'[l].st = lst[l].st
      BY Zenon, <1>1, <1>2 DEF LstRec
    <3>2. QED  BY <2>1, <3>1, Zenon DEF FeedOf
  <2>2. CASE lst[l].st = "on"
    <3>1. lst' = [lst EXCEPT ![l].ch = Append(@, Sending(c))]
      BY Zenon, <1>1, <2>2
    <3>2. /\ lst'[l].st = lst[l].st /\ lst'[l].known = lst[l].known
          /\ lst'[l].ch = Append(lst[l].ch, Sending(c))
      BY Zenon, <1>2, <3>1 DEF LstRec
    <3>3. Queue(l)' = Queue(l)
      BY <1>5, <1>6, <3>2, Zenon DEF Queue
    <3>4. QED  BY <3>2, <3>3, Zenon DEF FeedOf
  <2>3. QED  BY Zenon, <2>1, <2>2
<1>8. ASSUME NEW k \in Listener, k # l  PROVE  FeedOf(k)' = FeedOf(k)
  <2>1. lst'[k] = lst[k]
    BY <1>1, <1>2, <1>8, Zenon
  <2>2. Coming(k)' = Coming(k)
    BY <1>3, <1>8, Zenon DEF Coming
  <2>3. \A d \in Caller : Sending(d)' = <<Head(put[d].fps), store[Head(put[d].fps)]>>
    BY <1>1, <1>3, Zenon DEF Sending
  <2>4. Queue(k)' = Queue(k)
    <3>1. CASE Coming(k) = {}
      BY <2>1, <2>2, <3>1, Zenon DEF Queue
    <3>2. CASE Coming(k) # {}
      <4> DEFINE e == CHOOSE d \in Coming(k) : TRUE
      <4>1. e \in Coming(k) /\ e = (CHOOSE d \in Coming(k)' : TRUE)
        BY <2>2, <3>2, Zenon
      <4>2. e \in Caller
        BY <4>1, Zenon DEF Coming
      <4>3. Queue(k) = Append(lst[k].ch, <<Head(put[e].fps), store[Head(put[e].fps)]>>)
        BY <3>2, Zenon DEF Queue, Sending
      <4> HIDE DEF e
      <4>4. Queue(k)' = Append(lst'[k].ch, <<Head(put'[e].fps), store'[Head(put'[e].fps)]>>)
        BY <2>2, <3>2, <4>1, Zenon DEF Queue, Sending
      <4>5. QED  BY <1>1, <1>3, <2>1, <4>2, <4>3, <4>4, Zenon
    <3>3. QED  BY Zenon, <3>1, <3>2
  <2>5. QED  BY <2>1, <2>4, Zenon DEF FeedOf
<1>9. QED  BY <1>1, <1>7, <1>8, Stutters, Zenon

\* The storing of an alert publishes it to all subscribers; one that is refused is not seen.
LEMMA Publishes ==
    ASSUME MemSetting, MemInv, NEW c \in Caller, PutStore(c)
    PROVE  Feed!Publish \/ UNCHANGED Feed!feedVars
<1> DEFINE fp == Head(put[c].fps)
           a == Stored(fp, put[c].alert)
           ok == Limited(fp, a).ok
<1>1. /\ put' = [put EXCEPT ![c] = [pc    |-> IF ok THEN "sending" ELSE "sent",
                                    alert |-> put[c].alert,
                                    fps   |-> IF ok THEN put[c].fps ELSE Tail(put[c].fps),
                                    left  |-> IF ok THEN Open ELSE {}]]
      /\ store' = IF ok THEN With(store, fp, a) ELSE store
      /\ UNCHANGED <<mscene, mnow, lst>> /\ holder' = c
      /\ (holder = Free \/ holder = c)
  BY Zenon DEF PutStore
<1>2. /\ fp \in Fp /\ a \in Alert /\ put[c].pc # "sending" /\ \A d \in Caller : d # c => holder # d
  BY Zenon, PutStoreIs
<1>3. put \in [Caller -> PutRec] /\ lst \in [Listener -> LstRec] /\ store \in Maps
  BY Zenon DEF MemInv, StoreOK
<1>4. \A d \in Caller : d # c => put'[d] = put[d]
  BY <1>1, <1>3, Zenon
<1>5. ~ok => put'[c].pc = "sent"
  BY <1>1, <1>3, Zenon
<1>6. ok => put'[c].pc = "sending" /\ put'[c].left = Open /\ Head(put'[c].fps) = fp
  BY <1>1, <1>3, Zenon
<1>7. holder \in Caller => put[holder].pc # "sending"
  BY <1>1, <1>2, Zenon
<1>8. ASSUME NEW l \in Listener  PROVE  Coming(l) = {} /\ Queue(l) = lst[l].ch
  BY Zenon, <1>7, NoneComing
<1>9. \A d \in Caller : d # c => put[d].pc # "sending"
  BY <1>2, Waiting, Zenon
<1>10. ok => store'[fp] = a /\ DOMAIN store' = DOMAIN store \cup {fp} /\ store' = Feed!Upd(store, fp, a)
  <2>1. DOMAIN With(store, fp, a) = DOMAIN store \cup {fp} /\ With(store, fp, a)[fp] = a
    <3> HIDE DEF fp, a
    <3>1. QED  BY <1>2, <1>3, WithMap, ZenonT(60)
  <2>2. With(store, fp, a) = Feed!Upd(store, fp, a)
    BY Zenon DEF With, Feed!Upd
  <2>3. QED  BY <1>1, <2>1, <2>2, Zenon
<1> HIDE DEF fp, a, ok
<1>11. CASE ~ok
  <2>1. store' = store /\ lst' = lst
    BY <1>1, <1>11, Zenon
  <2>2. ASSUME NEW l \in Listener  PROVE  FeedOf(l)' = FeedOf(l)
    <3>1. put'[c].pc # "sending"
      BY Zenon, <1>5, <1>11
    <3>2. QED  BY <1>2, <1>4, <2>1, <3>1, FeedStays, Zenon
  <2>3. QED  BY <1>1, <2>1, <2>2, Stutters, Zenon
<1>12. CASE ok
  <2>1. ASSUME NEW l \in Listener, lst[l].st = "on"
        PROVE  FeedOf(l)' = [on |-> TRUE, queue |-> Append(FeedOf(l).queue, <<fp, a>>), known |-> FeedOf(l).known]
    <3>1. LstOK(l)
      BY Zenon DEF MemInv
    <3>2. lst[l].st # "new"
      BY Zenon, <2>1
    <3>3. l \in Open
      BY <2>1, <3>1, <3>2, Zenon DEF LstOK, Open
    <3>4. Coming(l)' = {c}
      BY <1>4, <1>6, <1>9, <1>12, <3>3, Zenon DEF Coming
    <3>5. (CHOOSE d \in Coming(l)' : TRUE) = c /\ Coming(l)' # {}
      BY <3>4, Zenon
    <3>6. Queue(l)' = Append(lst'[l].ch, <<Head(put'[c].fps), store'[Head(put'[c].fps)]>>)
      BY <3>5, Zenon DEF Queue, Sending
    <3>7. lst'[l] = lst[l] /\ Head(put'[c].fps) = fp /\ store'[fp] = a
      BY <1>1, <1>6, <1>10, <1>12, Zenon
    <3>8. Queue(l)' = Append(lst[l].ch, <<fp, a>>)
      BY <3>6, <3>7, Zenon
    <3>9. FeedOf(l).queue = lst[l].ch /\ FeedOf(l).known = lst[l].known
      BY <1>8, <2>1, Zenon DEF FeedOf
    <3>10. QED  BY <2>1, <3>7, <3>8, <3>9, Zenon DEF FeedOf
  <2>2. ASSUME NEW l \in Listener, lst[l].st # "on"  PROVE  FeedOf(l)' = FeedOf(l)
    BY <1>1, <2>2, Zenon DEF FeedOf
  <2>3. ASSUME NEW l \in Listener  PROVE  Feeds[l].on <=> lst[l].st = "on"
    BY FeedOn, Zenon
  <2>4. Feeds' = [r \in Listener |->
                    IF Feeds[r].on THEN [on |-> TRUE, queue |-> Append(Feeds[r].queue, <<fp, store'[fp]>>),
                                         known |-> Feeds[r].known]
                    ELSE Feeds[r]]
    <3>1. ASSUME NEW r \in Listener
          PROVE  FeedOf(r)' = IF Feeds[r].on THEN [on |-> TRUE, queue |-> Append(Feeds[r].queue, <<fp, store'[fp]>>),
                                                   known |-> Feeds[r].known]
                              ELSE Feeds[r]
      <4>1. Feeds[r] = FeedOf(r)
        BY FeedsAre, Zenon
      <4>2. QED  BY <1>10, <1>12, <2>1, <2>2, <2>3, <4>1, Zenon
    <3>2. Feeds' = [r \in Listener |-> FeedOf(r)']
      BY Zenon DEF Feeds
    <3>3. QED  BY <3>1, <3>2, Zenon
  <2>5. fp \in DOMAIN store' /\ store' = Feed!Upd(store, fp, store'[fp]) /\ mnow' = mnow
    BY <1>1, <1>10, <1>12, Zenon
  <2>6. QED  BY <1>2, <2>4, <2>5, Zenon DEF Feed!Publish
<1>13. QED  BY Zenon, <1>11, <1>12

\* A step of one subscriber changes its feed only.
LEMMA OneFeed ==
    ASSUME MemInv, NEW l \in Listener, UNCHANGED <<mscene, mnow, store, holder, put>>,
           NEW new, lst' = [lst EXCEPT ![l] = new]
    PROVE  /\ lst'[l] = new /\ lst[l] \in LstRec /\ Coming(l)' = Coming(l)
           /\ Feeds' = [Feeds EXCEPT ![l] = Feeds'[l]]
<1>1. lst \in [Listener -> LstRec]
  BY Zenon DEF MemInv
<1>2. \A k \in Listener : k # l => lst'[k] = lst[k]
  BY <1>1, Zenon
<1>3. ASSUME NEW k \in Listener, k # l  PROVE  FeedOf(k)' = FeedOf(k)
  BY <1>2, <1>3, FeedStays, Zenon
<1>4. Feeds' = [Feeds EXCEPT ![l] = Feeds'[l]]
  <2>1. Feeds = [k \in Listener |-> FeedOf(k)] /\ Feeds' = [k \in Listener |-> FeedOf(k)']
    BY Zenon DEF Feeds
  <2>2. \A k \in Listener : Feeds'[k] = IF k = l THEN Feeds'[l] ELSE Feeds[k]
    BY <1>3, <2>1, Zenon
  <2>3. QED  BY <2>1, <2>2, Zenon
<1>5. Coming(l)' = Coming(l)
  BY Zenon DEF Coming
<1>6. QED  BY <1>1, <1>4, <1>5, Zenon

LEMMA Joins ==
    ASSUME MemSetting, MemInv, NEW l \in Listener, Subscribe(l) \/ SlurpAndSubscribe(l)
    PROVE  Feed!Join(l)
<1>1. UNCHANGED <<mscene, mnow, store, holder, put>> /\ holder = Free /\ lst[l].st = "new"
  BY Zenon DEF Subscribe, SlurpAndSubscribe
<1>2. holder \in Caller => put[holder].pc # "sending"
  BY <1>1, Zenon DEF MemSetting
<1>3. Coming(l) = {}
  BY Zenon, <1>2, NoneComing
<1>4. ~Feeds[l].on
  <2>1. lst[l].st # "on"
    BY Zenon, <1>1
  <2>2. QED  BY <2>1, FeedOn, Zenon
<1>5. CASE SlurpAndSubscribe(l)
  <2> DEFINE new == [st |-> "on", cap |-> ChanLen, ch |-> << >>, known |-> store]
  <2>1. lst' = [lst EXCEPT ![l] = new] /\ new.st = "on" /\ new.ch = << >> /\ new.known = store
    BY <1>5, Zenon DEF SlurpAndSubscribe
  <2> HIDE DEF new
  <2>2. lst'[l] = new /\ Coming(l)' = {} /\ Feeds' = [Feeds EXCEPT ![l] = Feeds'[l]]
    BY <1>1, <1>3, <2>1, OneFeed, Zenon
  <2>3. Queue(l)' = << >>
    BY <2>1, <2>2, Zenon DEF Queue
  <2>4. FeedOf(l)' = [on |-> TRUE, queue |-> << >>, known |-> store]
    BY <2>1, <2>2, <2>3, Zenon DEF FeedOf
  <2>5. Feeds'[l].on /\ Feeds'[l].queue = << >> /\ Feeds'[l].known = store
    <3>1. Feeds'[l] = [on |-> TRUE, queue |-> << >>, known |-> store]
      BY <2>4, FeedsAre, Zenon
    <3>2. QED  BY <3>1
  <2>6. QED  BY <1>1, <1>4, <2>2, <2>5, Zenon DEF Feed!Join
<1>6. CASE Subscribe(l)
  <2>1. PICK s \in Lists :
          lst' = [lst EXCEPT ![l] =
                    [st |-> "on", cap |-> IF Len(s) > ChanLen THEN Len(s) ELSE ChanLen,
                     ch |-> [i \in DOMAIN s |-> <<s[i], store[s[i]]>>], known |-> Empty]]
    BY <1>6, Zenon DEF Subscribe
  <2> DEFINE q == [i \in DOMAIN s |-> <<s[i], store[s[i]]>>]
             new == [st |-> "on", cap |-> IF Len(s) > ChanLen THEN Len(s) ELSE ChanLen, ch |-> q, known |-> Empty]
  <2>2. lst' = [lst EXCEPT ![l] = new] /\ new.st = "on" /\ new.ch = q /\ new.known = Empty
    BY <2>1, Zenon
  <2>3. DOMAIN s = 1 .. Len(s) /\ Len(s) \in Nat /\ {s[i] : i \in DOMAIN s} = DOMAIN store
    BY ListIs, Zenon
  <2>4. q \in Seq(Fp \X {store[x] : x \in DOMAIN store})
    <3>1. DOMAIN store \subseteq Fp
      BY MapIs, Zenon DEF MemInv, StoreOK
    <3>2. \A i \in 1 .. Len(s) : <<s[i], store[s[i]]>> \in Fp \X {store[x] : x \in DOMAIN store}
      BY <2>3, <3>1, Zenon
    <3>3. q = [i \in 1 .. Len(s) |-> <<s[i], store[s[i]]>>]
      BY <2>3, Zenon
    <3> HIDE DEF q
    <3>4. QED  BY <2>3, <3>2, <3>3
  <2>5. {q[i] : i \in DOMAIN q} = {<<x, store[x]>> : x \in DOMAIN store}
    <3>1. DOMAIN q = DOMAIN s /\ \A i \in DOMAIN s : q[i] = <<s[i], store[s[i]]>>
      BY Zenon
    <3> HIDE DEF q
    <3>2. ASSUME NEW x \in DOMAIN store  PROVE  <<x, store[x]>> \in {q[i] : i \in DOMAIN q}
      <4>1. PICK i \in DOMAIN s : s[i] = x
        BY <2>3, Zenon
      <4>2. q[i] = <<x, store[x]>>
        BY <3>1, <4>1, Zenon
      <4>3. QED  BY <3>1, <4>1, <4>2, Zenon
    <3>3. ASSUME NEW i \in DOMAIN q  PROVE  q[i] \in {<<x, store[x]>> : x \in DOMAIN store}
      <4>1. s[i] \in DOMAIN store
        BY <2>3, <3>1, Zenon
      <4>2. QED  BY <3>1, <4>1, Zenon
    <3>4. QED  BY <3>2, <3>3, Zenon
  <2> HIDE DEF new, q
  <2>6. lst'[l] = new /\ Coming(l)' = {} /\ Feeds' = [Feeds EXCEPT ![l] = Feeds'[l]]
    BY <1>1, <1>3, <2>2, OneFeed, Zenon
  <2>7. Queue(l)' = q
    BY <2>2, <2>6, Zenon DEF Queue
  <2>8. FeedOf(l)' = [on |-> TRUE, queue |-> q, known |-> Empty]
    BY <2>2, <2>6, <2>7, Zenon DEF FeedOf
  <2>9. Feeds'[l].on /\ Feeds'[l].queue = q /\ Feeds'[l].known = Empty
    <3>1. Feeds'[l] = [on |-> TRUE, queue |-> q, known |-> Empty]
      BY <2>8, FeedsAre, Zenon
    <3>2. QED  BY <3>1
  <2>10. Empty = Feed!Off.known
    BY Zenon DEF Empty, Feed!Off
  <2>11. QED  BY <1>1, <1>4, <2>4, <2>5, <2>6, <2>9, <2>10, Zenon DEF Feed!Join
<1>7. QED  BY Zenon, <1>5, <1>6

LEMMA Reads ==
    ASSUME MemSetting, MemInv, NEW l \in Listener, Receive(l)
    PROVE  Feed!Read(l)
<1> DEFINE u == Head(lst[l].ch)
           new == [st |-> "on", cap |-> lst[l].cap, ch |-> Tail(lst[l].ch),
                   known |-> With(lst[l].known, u[1], u[2])]
<1>1. /\ UNCHANGED <<mscene, mnow, store, holder, put>> /\ lst[l].st = "on" /\ lst[l].ch # << >>
      /\ lst' = [lst EXCEPT ![l] = new]
  BY Zenon DEF Receive
<1>2. new.st = "on" /\ new.ch = Tail(lst[l].ch) /\ new.known = With(lst[l].known, u[1], u[2])
  BY Zenon
<1> HIDE DEF new, u
<1>3. /\ lst'[l] = new /\ lst[l] \in LstRec /\ Coming(l)' = Coming(l)
      /\ Feeds' = [Feeds EXCEPT ![l] = Feeds'[l]]
  BY <1>1, OneFeed, Zenon
<1>4. lst[l].ch \in Seq(Fp \X Alert)
  BY Zenon, <1>3 DEF LstRec
<1>5. Queue(l) # << >> /\ Head(Queue(l)) = u /\ Queue(l)' = Tail(Queue(l))
  <2>1. CASE Coming(l) = {}
    <3>1. Queue(l) = lst[l].ch /\ Queue(l)' = Tail(lst[l].ch)
      BY <1>2, <1>3, <2>1, Zenon DEF Queue
    <3>2. QED  BY <1>1, <3>1, Zenon DEF u
  <2>2. CASE Coming(l) # {}
    <3> DEFINE c == CHOOSE d \in Coming(l) : TRUE
    <3>1. c \in Coming(l) /\ c = (CHOOSE d \in Coming(l)' : TRUE)
      BY <1>3, <2>2, Zenon
    <3>2. Queue(l) = Append(lst[l].ch, <<Head(put[c].fps), store[Head(put[c].fps)]>>)
      BY <2>2, Zenon DEF Queue, Sending
    <3> HIDE DEF c
    <3>3. Queue(l)' = Append(lst'[l].ch, <<Head(put'[c].fps), store'[Head(put'[c].fps)]>>)
      BY <1>3, <2>2, <3>1, Zenon DEF Queue, Sending
    <3> DEFINE v == <<Head(put[c].fps), store[Head(put[c].fps)]>>
    <3>4. Queue(l) = Append(lst[l].ch, v) /\ Queue(l)' = Append(Tail(lst[l].ch), v)
      BY <1>1, <1>2, <1>3, <3>2, <3>3, Zenon
    <3>5. v \in Fp \X Alert
      <4>1. c \in Caller /\ put[c].pc = "sending" /\ put[c] \in PutRec /\ PutOK(c) /\ store \in Maps
        BY <3>1, Zenon DEF Coming, MemInv, StoreOK
      <4>2. Head(put[c].fps) \in DOMAIN store
        BY <4>1, Zenon DEF PutOK
      <4>3. DOMAIN store \subseteq Fp /\ store[Head(put[c].fps)] \in Alert
        BY <4>1, <4>2, MapIs, Zenon
      <4>4. QED  BY <4>2, <4>3, Zenon
    <3> HIDE DEF v
    <3> DEFINE S == Fp \X Alert
    <3>6. lst[l].ch \in Seq(S) /\ v \in S /\ lst[l].ch # << >>
      BY <1>1, <1>4, <3>5, Zenon
    <3> HIDE DEF S
    <3>7. /\ Append(lst[l].ch, v) # << >> /\ Head(Append(lst[l].ch, v)) = Head(lst[l].ch)
          /\ Tail(Append(lst[l].ch, v)) = Append(Tail(lst[l].ch), v)
      BY <3>6, AppendProperties, HeadTailAppend, ZenonT(60)
    <3>8. QED  BY <3>4, <3>7, Zenon DEF u
  <2>3. QED  BY Zenon, <2>1, <2>2
<1>6. Feeds[l] = [on |-> TRUE, queue |-> Queue(l), known |-> lst[l].known]
  BY <1>1, FeedsAre, Zenon DEF FeedOf
<1>7. Feeds'[l] = [on |-> TRUE, queue |-> Tail(Queue(l)), known |-> With(lst[l].known, u[1], u[2])]
  BY <1>2, <1>3, <1>5, FeedsAre, Zenon DEF FeedOf
<1>8. Feeds[l].on /\ Feeds[l].queue = Queue(l) /\ Feeds[l].known = lst[l].known
  BY <1>6
<1>9. With(lst[l].known, u[1], u[2]) = Feed!Upd(lst[l].known, u[1], u[2])
  BY Zenon DEF With, Feed!Upd
<1>10. QED  BY <1>1, <1>3, <1>5, <1>7, <1>8, <1>9, ZenonT(60) DEF Feed!Read

LEMMA Leaves ==
    ASSUME MemSetting, MemInv, NEW l \in Listener, CloseIterator(l)
    PROVE  Feed!Leave(l)
<1> DEFINE new == [lst[l] EXCEPT !.st = "done"]
<1>1. lst \in [Listener -> LstRec] /\ lst[l] \in LstRec
  BY Zenon DEF MemInv
<1>2. UNCHANGED <<mscene, mnow, store, holder, put>> /\ lst[l].st = "on" /\ lst' = [lst EXCEPT ![l] = new]
  BY Zenon DEF CloseIterator
<1>3. new.st = "done"
  BY Zenon, <1>1 DEF LstRec
<1> HIDE DEF new
<1>4. lst'[l] = new /\ Feeds' = [Feeds EXCEPT ![l] = Feeds'[l]]
  BY <1>2, OneFeed, Zenon
<1>5. lst'[l].st # "on"
  BY Zenon, <1>3, <1>4
<1>6. Feeds'[l] = Feed!Off
  BY <1>5, FeedsAre, Zenon DEF FeedOf, Feed!Off, Empty
<1>7. QED  BY <1>2, <1>4, <1>6, FeedOn, Zenon DEF Feed!Leave

\* The collection of closed subscribers is hidden; that of alerts forgets the resolved ones.
LEMMA Collects ==
    ASSUME MemSetting, MemInv
    PROVE  /\ gcListeners => UNCHANGED Feed!feedVars
           /\ gcAlerts => Feed!Forget
           /\ MemTick => Feed!Pass
<1>1. ASSUME gcListeners  PROVE  UNCHANGED Feed!feedVars
  <2>1. UNCHANGED <<mnow, store, put>>
    BY <1>1, Zenon DEF gcListeners
  <2>2. ASSUME NEW l \in Listener
        PROVE  lst'[l] = lst[l] \/ (lst[l].st # "on" /\ lst'[l].st # "on")
    <3>1. lst'[l] = IF lst[l].st = "done" THEN [NoListener EXCEPT !.st = "gone"] ELSE lst[l]
      BY <1>1, Zenon DEF gcListeners
    <3>2. QED  BY Zenon, <3>1 DEF NoListener
  <2>3. ASSUME NEW l \in Listener  PROVE  FeedOf(l)' = FeedOf(l)
    BY <2>1, <2>2, FeedStays, Zenon
  <2>4. QED  BY <2>1, <2>3, Stutters, Zenon
<1>2. ASSUME gcAlerts  PROVE  Feed!Forget
  <2>1. UNCHANGED <<mscene, mnow, holder, put, lst>> /\ holder = Free /\ store' = [fp \in Kept |-> store[fp]]
    BY <1>2, Zenon DEF gcAlerts
  <2>2. DOMAIN store' = Kept /\ Kept \subseteq DOMAIN store
    BY <2>1, Zenon DEF Kept
  <2>3. ASSUME NEW x \in DOMAIN store \ Kept  PROVE  store[x].ends <= mnow
    BY <2>3, Zenon DEF Kept, Resolved
  <2>4. Feeds' = Feeds
    <3>1. holder \in Caller => put[holder].pc # "sending"
      BY <2>1, Zenon DEF MemSetting
    <3>2. ASSUME NEW l \in Listener  PROVE  FeedOf(l)' = FeedOf(l)
      <4>1. Coming(l) = {} /\ Queue(l) = lst[l].ch
        BY Zenon, <3>1, NoneComing
      <4>2. Coming(l)' = Coming(l)
        BY <2>1, Zenon DEF Coming
      <4>3. Queue(l)' = Queue(l)
        BY <2>1, <4>1, <4>2, Zenon DEF Queue
      <4>4. QED  BY <2>1, <4>3, Zenon DEF FeedOf
    <3>3. QED  BY <3>2, Zenon DEF Feeds
  <2>5. QED  BY <2>1, <2>2, <2>3, <2>4, Zenon DEF Feed!Forget
<1>3. ASSUME MemTick  PROVE  Feed!Pass
  <2>1. UNCHANGED <<store, put, lst>> /\ mnow' = mnow + 1 /\ mnow \in Nat
    BY <1>3, Zenon DEF MemTick, MemInv, Clock
  <2>2. mnow' > mnow
    BY <2>1
  <2>3. ASSUME NEW l \in Listener  PROVE  FeedOf(l)' = FeedOf(l)
    BY <2>1, FeedStays, Zenon
  <2>4. Feeds' = Feeds
    BY <2>3, Zenon DEF Feeds
  <2>5. QED  BY <2>1, <2>2, <2>4, Zenon DEF Feed!Pass
<1>4. QED  BY Zenon, <1>1, <1>2, <1>3

LEMMA InitFeed ==
    ASSUME MemInit
    PROVE  Feed!FeedInit
<1>1. store = Empty /\ mnow = 1 /\ lst = [l \in Listener |-> NoListener]
  BY Zenon DEF MemInit
<1>2. NoListener.st # "on"
  BY Zenon DEF NoListener
<1>3. ASSUME NEW l \in Listener  PROVE  FeedOf(l) = Feed!Off
  <2>1. lst[l].st # "on"
    BY <1>1, <1>2, Zenon
  <2>2. QED  BY <2>1, Zenon DEF FeedOf, Feed!Off, Empty
<1>4. Feeds = [r \in Listener |-> Feed!Off]
  BY <1>3, Zenon DEF Feeds
<1>5. QED  BY <1>1, <1>4, Zenon DEF Feed!FeedInit, Empty

LEMMA StepFeed ==
    ASSUME MemSetting, MemInv, [MemNext]_memVars
    PROVE  [Feed!FeedNext]_(Feed!feedVars)
<1>1. CASE UNCHANGED memVars
  <2>1. UNCHANGED <<store, mnow, put, lst>>
    BY <1>1, Zenon DEF memVars
  <2>2. ASSUME NEW l \in Listener  PROVE  FeedOf(l)' = FeedOf(l)
    BY <2>1, FeedStays, Zenon
  <2>3. QED  BY <2>1, <2>2, Stutters, Zenon
<1>2. CASE MemNext
  <2>1. mscene.callers \subseteq Caller /\ mscene.listeners \subseteq Listener
    BY Bounds, Zenon DEF MemInv
  <2>2. ASSUME NEW c \in Caller, Post(c) \/ PutStore(c) \/ PutSent(c) \/ PutReturn(c)
        PROVE  [Feed!FeedNext]_(Feed!feedVars)
    BY <2>2, HiddenSteps, Publishes, Zenon DEF Feed!FeedNext
  <2>3. ASSUME NEW c \in Caller, NEW l \in Listener, PutSend(c, l)
        PROVE  [Feed!FeedNext]_(Feed!feedVars)
    BY <2>3, HiddenSend, Zenon
  <2>4. ASSUME NEW l \in Listener, Subscribe(l) \/ SlurpAndSubscribe(l) \/ Receive(l) \/ CloseIterator(l)
        PROVE  [Feed!FeedNext]_(Feed!feedVars)
    BY <2>4, Joins, Reads, Leaves, Zenon DEF Feed!FeedNext
  <2>5. ASSUME gcListeners \/ gcAlerts \/ MemTick  PROVE  [Feed!FeedNext]_(Feed!feedVars)
    BY <2>5, Collects, Zenon DEF Feed!FeedNext
  <2>6. QED  BY <1>2, <2>1, <2>2, <2>3, <2>4, <2>5, Zenon DEF MemNext
<1>3. QED  BY Zenon, <1>1, <1>2

\* The provider, step by step, is a feed.
LEMMA FeedSteps ==
    ASSUME MemSetting
    PROVE  MemSpec => Feed!FeedSpec
<1>1. MemInit => Feed!FeedInit
  BY Zenon, InitFeed
<1>2. MemInv /\ [MemNext]_memVars => [Feed!FeedNext]_(Feed!feedVars)
  BY Zenon, StepFeed
<1>3. MemSpec => []MemInv
  BY Zenon, MemAlways
<1>4. QED  BY <1>1, <1>2, <1>3, PTL DEF MemSpec, Feed!FeedSpec

-----------------------------------------------------------------------------
(* What a subscriber knows when it has read its queue *)

Mentioned(q, fp) == \E i \in DOMAIN q : q[i][1] = fp
LastOf(q, fp, i) == i \in DOMAIN q /\ q[i][1] = fp /\ \A j \in DOMAIN q : q[j][1] = fp => j <= i

\* A fingerprint in a queue has a last place there.
LEMMA LastExists ==
    ASSUME NEW S, NEW q \in Seq(S), NEW fp, Mentioned(q, fp)
    PROVE  \E i \in DOMAIN q : LastOf(q, fp, i)
<1>1. Len(q) \in Nat /\ DOMAIN q = 1 .. Len(q)
  OBVIOUS
<1> DEFINE D == {n \in Nat : \E i \in DOMAIN q : q[i][1] = fp /\ n = Len(q) - i}
<1>2. D # {} /\ D \subseteq Nat
  <2>1. PICK i \in DOMAIN q : q[i][1] = fp
    BY Zenon DEF Mentioned
  <2>2. Len(q) - i \in Nat
    BY <1>1
  <2>3. QED  BY Zenon, <2>1, <2>2
<1>3. IsWellFoundedOn(OpToRel(<, Nat), Nat)
  BY ZenonT(60), NatLessThanWellFounded
<1> HIDE DEF D
<1>4. PICK n \in D : \A m \in D : ~(<<m, n>> \in OpToRel(<, Nat))
  BY <1>2, <1>3, WFMin, Zenon
<1>5. ASSUME NEW m \in D  PROVE  n <= m
  <2>1. m \in Nat /\ n \in Nat
    BY <1>2, Zenon
  <2>2. m < n => <<m, n>> \in OpToRel(<, Nat)
    BY Zenon, <2>1 DEF OpToRel
  <2>3. ~(m < n)
    BY <1>4, <2>2, Zenon
  <2>4. QED  BY <2>1, <2>3
<1>6. PICK i \in DOMAIN q : q[i][1] = fp /\ n = Len(q) - i
  BY <1>4, Zenon DEF D
<1>7. ASSUME NEW j \in DOMAIN q, q[j][1] = fp  PROVE  j <= i
  <2>1. Len(q) - j \in Nat
    BY <1>1
  <2>2. Len(q) - j \in D
    BY <1>7, <2>1, Zenon DEF D
  <2>3. Len(q) - i <= Len(q) - j
    BY <1>5, <1>6, <2>2, Zenon
  <2>4. QED  BY <1>1, <2>3
<1>8. QED  BY <1>6, <1>7, Zenon DEF LastOf

LEMMA ViewIs ==
    ASSUME NEW S, NEW f, f.queue \in Seq(S), NEW fp
    PROVE  /\ ~Mentioned(f.queue, fp) => Feed!View(f, fp) = f.known[fp]
           /\ \A i : LastOf(f.queue, fp, i) => Feed!View(f, fp) = f.queue[i][2]
<1> DEFINE q == f.queue
           at == {i \in DOMAIN q : q[i][1] = fp}
           top == CHOOSE i \in at : \A j \in at : j <= i
<1>1. Feed!View(f, fp) = IF at # {} THEN q[top][2] ELSE f.known[fp]
  BY Zenon DEF Feed!View
<1>2. ~Mentioned(q, fp) => at = {}
  BY Zenon DEF Mentioned
<1>3. ASSUME NEW i, LastOf(q, fp, i)  PROVE  at # {} /\ top = i
  <2>1. i \in at /\ \A j \in at : j <= i
    BY <1>3, Zenon DEF LastOf
  <2>2. top \in at /\ \A j \in at : j <= top
    BY <2>1, Zenon
  <2>3. at \subseteq Nat
    <3>1. DOMAIN q \subseteq Nat
      OBVIOUS
    <3>2. QED  BY <3>1, Zenon
  <2> HIDE DEF at, top
  <2>4. top <= i /\ i <= top /\ i \in Nat /\ top \in Nat
    BY <2>1, <2>2, <2>3, Zenon
  <2>5. QED  BY <2>1, <2>4
<1> HIDE DEF at, top
<1>4. QED  BY <1>1, <1>2, <1>3, Zenon

\* What the reader of the feed f with the queue q knows in the end.
Shows(f, q) ==
    \A fp : /\ ~Mentioned(q, fp) => Feed!View(f, fp) = f.known[fp]
            /\ \A i : LastOf(q, fp, i) => Feed!View(f, fp) = q[i][2]

LEMMA Views ==
    ASSUME NEW S, NEW f, NEW q \in Seq(S), q = f.queue
    PROVE  Shows(f, q)
<1>1. f.queue \in Seq(S)
  OBVIOUS
<1>2. ASSUME NEW fp
      PROVE  /\ ~Mentioned(f.queue, fp) => Feed!View(f, fp) = f.known[fp]
             /\ \A i : LastOf(f.queue, fp, i) => Feed!View(f, fp) = f.queue[i][2]
  BY <1>1, ViewIs
<1>3. QED  BY <1>2, Zenon DEF Shows

LEMMA ToldIs ==
    ASSUME NEW f, NEW fp
    PROVE  fp \in Feed!Told(f) <=> fp \in DOMAIN f.known \/ Mentioned(f.queue, fp)
  BY Zenon DEF Feed!Told, Mentioned

\* The reader of g knows what that of f does, but a of x.
Later(f, g, x, a) ==
    /\ \A fp : fp \in Feed!Told(g) <=> fp \in Feed!Told(f) \/ fp = x
    /\ Feed!View(g, x) = a
    /\ \A fp \in Feed!Told(f) : fp # x => Feed!View(g, fp) = Feed!View(f, fp)

\* A version that is appended to the queue replaces the earlier one.
LEMMA AppendView ==
    ASSUME NEW f, NEW g, f.queue \in Seq(Fp \X Alert), NEW x \in Fp, NEW a \in Alert,
           g.queue = Append(f.queue, <<x, a>>), g.known = f.known
    PROVE  Later(f, g, x, a)
<1> DEFINE S == Fp \X Alert
           p == f.queue
           q == g.queue
           u == <<x, a>>
<1>1. u \in S /\ p \in Seq(S) /\ q = Append(p, u) /\ u[1] = x /\ u[2] = a
  BY Zenon
<1> HIDE DEF S, u
<1>2. /\ q \in Seq(S) /\ Len(p) \in Nat /\ Len(q) = Len(p) + 1 /\ q[Len(q)] = u
      /\ DOMAIN p = 1 .. Len(p) /\ DOMAIN q = 1 .. Len(q)
  <2> HIDE DEF p, q
  <2>1. q \in Seq(S) /\ Len(q) = Len(p) + 1 /\ q[Len(p) + 1] = u
    BY <1>1, AppendProperties, ZenonT(60)
  <2>2. QED  BY <1>1, <2>1
<1>v. Shows(f, p) /\ Shows(g, q)
  <2>1. p = f.queue /\ q = g.queue
    OBVIOUS
  <2> HIDE DEF p, q
  <2>2. p \in Seq(S) /\ q \in Seq(S)
    BY <1>1, <1>2, Zenon
  <2>3. QED  BY <2>1, <2>2, Views, Zenon
<1>3. \A i \in DOMAIN p : i \in DOMAIN q /\ q[i] = p[i] /\ i <= Len(q)
  BY <1>1, <1>2
<1>4. \A i \in DOMAIN q : i = Len(q) \/ i \in DOMAIN p
  BY <1>2
<1>5. Len(q) \in DOMAIN q /\ \A i \in DOMAIN q : i <= Len(q)
  BY <1>2
<1> HIDE DEF p, q
<1>6. LastOf(q, x, Len(q))
  BY <1>1, <1>2, <1>5, Zenon DEF LastOf
<1>7. ASSUME NEW fp, fp # x  PROVE  Mentioned(q, fp) <=> Mentioned(p, fp)
  BY <1>1, <1>2, <1>3, <1>4, <1>7, Zenon DEF Mentioned
<1>8. ASSUME NEW fp, fp # x, NEW i, LastOf(p, fp, i)  PROVE  LastOf(q, fp, i) /\ q[i] = p[i]
  BY <1>1, <1>2, <1>3, <1>4, <1>8, Zenon DEF LastOf
<1>9. Mentioned(q, x)
  BY <1>6, Zenon DEF LastOf, Mentioned
<1>10. \A fp : fp \in Feed!Told(g) <=> fp \in Feed!Told(f) \/ fp = x
  BY <1>7, <1>9, ToldIs, Zenon DEF p, q
<1>11. Feed!View(g, x) = a
  <2>1. Feed!View(g, x) = q[Len(q)][2]
    BY <1>6, <1>v, Zenon DEF Shows
  <2>2. QED  BY <1>1, <1>2, <2>1, Zenon
<1>12. ASSUME NEW fp \in Feed!Told(f), fp # x  PROVE  Feed!View(g, fp) = Feed!View(f, fp)
  <2>1. CASE Mentioned(p, fp)
    <3>1. PICK i \in DOMAIN p : LastOf(p, fp, i)
      BY <1>1, <2>1, LastExists, Zenon DEF p
    <3>2. LastOf(q, fp, i) /\ q[i] = p[i]
      BY Zenon, <1>8, <1>12, <3>1
    <3>3. Feed!View(f, fp) = p[i][2]
      BY <1>1, <3>1, <1>v, Zenon DEF Shows
    <3>4. Feed!View(g, fp) = q[i][2]
      BY <1>2, <3>2, <1>v, Zenon DEF Shows
    <3>5. QED  BY <3>2, <3>3, <3>4, Zenon
  <2>2. CASE ~Mentioned(p, fp)
    <3>1. Feed!View(f, fp) = f.known[fp]
      BY <1>1, <2>2, <1>v, Zenon DEF Shows
    <3>2. ~Mentioned(q, fp)
      BY <1>7, <1>12, <2>2, Zenon
    <3>3. Feed!View(g, fp) = g.known[fp]
      BY <1>2, <3>2, <1>v, Zenon DEF Shows
    <3>4. QED  BY <3>1, <3>3, Zenon
  <2>3. QED  BY Zenon, <2>1, <2>2
<1>13. QED  BY <1>10, <1>11, <1>12, Zenon DEF Later

\* Reading does not change what the reader knows in the end.
LEMMA TailView ==
    ASSUME NEW f, NEW g, f.queue \in Seq(Fp \X Alert), f.known \in Maps, f.queue # << >>, NEW u, u = Head(f.queue),
           g.queue = Tail(f.queue), g.known = With(f.known, u[1], u[2])
    PROVE  /\ \A fp : fp \in Feed!Told(g) <=> fp \in Feed!Told(f)
           /\ \A fp \in Feed!Told(f) : Feed!View(g, fp) = Feed!View(f, fp)
<1> DEFINE S == Fp \X Alert
           p == f.queue
           q == g.queue
<1>1. p \in Seq(S) /\ p # << >> /\ q = Tail(p) /\ u = Head(p)
  BY Zenon
<1>2. u[1] \in Fp /\ u[2] \in Alert
  <2>1. u \in S
    <3> HIDE DEF S
    <3>1. QED  BY <1>1
  <2>2. QED  BY Zenon, <2>1
<1>3. /\ DOMAIN g.known = DOMAIN f.known \cup {u[1]} /\ g.known[u[1]] = u[2]
      /\ \A z \in DOMAIN f.known : z # u[1] => g.known[z] = f.known[z]
  <2> DEFINE x == u[1]
             y == u[2]
  <2>1. x \in Fp /\ y \in Alert /\ g.known = With(f.known, x, y)
    BY <1>2, Zenon
  <2> HIDE DEF x, y
  <2>2. /\ DOMAIN g.known = DOMAIN f.known \cup {x} /\ g.known[x] = y
        /\ \A z \in DOMAIN f.known : z # x => g.known[z] = f.known[z]
    <3>1. /\ DOMAIN With(f.known, x, y) = DOMAIN f.known \cup {x} /\ With(f.known, x, y)[x] = y
          /\ \A z \in DOMAIN f.known : z # x => With(f.known, x, y)[z] = f.known[z]
      <4> DEFINE k == f.known
      <4>1. k \in Maps
        OBVIOUS
      <4> HIDE DEF k
      <4>2. /\ DOMAIN With(k, x, y) = DOMAIN k \cup {x} /\ With(k, x, y)[x] = y
            /\ \A z \in DOMAIN k : z # x => With(k, x, y)[z] = k[z]
        BY <2>1, <4>1, WithMap, ZenonT(60)
      <4>3. QED  BY <4>2, Zenon DEF k
    <3>2. QED  BY <2>1, <3>1, Zenon
  <2>3. QED  BY <2>2, Zenon DEF x, y
<1> HIDE DEF S
<1>4. /\ q \in Seq(S) /\ Len(p) \in Nat /\ Len(p) = Len(q) + 1 /\ Len(q) \in Nat /\ DOMAIN p = 1 .. Len(p)
      /\ DOMAIN q = 1 .. Len(q) /\ p[1] = u
  BY <1>1
<1>v. Shows(f, p) /\ Shows(g, q)
  <2>1. p = f.queue /\ q = g.queue
    OBVIOUS
  <2> HIDE DEF p, q
  <2>2. p \in Seq(S) /\ q \in Seq(S)
    BY <1>1, <1>4, Zenon
  <2>3. QED  BY <2>1, <2>2, Views, Zenon
<1>5. \A i \in DOMAIN q : i + 1 \in DOMAIN p /\ q[i] = p[i + 1] /\ i \in Nat
  BY <1>1, <1>4
<1>6. 1 \in DOMAIN p /\ \A i \in DOMAIN p : i = 1 \/ (i - 1 \in DOMAIN q /\ (i - 1) + 1 = i)
  BY <1>4
<1> HIDE DEF p, q
<1>7. ASSUME NEW fp  PROVE  Mentioned(p, fp) <=> Mentioned(q, fp) \/ fp = u[1]
  <2>1. Mentioned(q, fp) => Mentioned(p, fp)
    BY <1>5, Zenon DEF Mentioned
  <2>2. fp = u[1] => Mentioned(p, fp)
    BY <1>4, <1>6, Zenon DEF Mentioned
  <2>3. ASSUME NEW i \in DOMAIN p, p[i][1] = fp  PROVE  Mentioned(q, fp) \/ fp = u[1]
    <3>1. CASE i = 1
      BY <1>4, <2>3, <3>1, Zenon
    <3>2. CASE i - 1 \in DOMAIN q /\ (i - 1) + 1 = i
      <4>1. q[i - 1] = p[i]
        BY <1>5, <3>2, Zenon
      <4>2. QED  BY <2>3, <3>2, <4>1, Zenon DEF Mentioned
    <3>3. QED  BY <1>6, <3>1, <3>2, Zenon
  <2>4. QED  BY <2>1, <2>2, <2>3, Zenon DEF Mentioned
<1>8. \A fp : fp \in Feed!Told(g) <=> fp \in Feed!Told(f)
  BY <1>3, <1>7, ToldIs, Zenon DEF p, q
<1>9. ASSUME NEW fp \in Feed!Told(f)  PROVE  Feed!View(g, fp) = Feed!View(f, fp)
  <2>1. CASE Mentioned(q, fp)
    <3>1. PICK i \in DOMAIN q : LastOf(q, fp, i)
      BY <1>4, <2>1, LastExists, Zenon
    <3>2. i + 1 \in DOMAIN p /\ q[i] = p[i + 1] /\ i \in Nat /\ q[i][1] = fp
      BY <1>5, <3>1, Zenon DEF LastOf
    <3>3. ASSUME NEW j \in DOMAIN p, p[j][1] = fp  PROVE  j <= i + 1
      <4>1. CASE j = 1
        BY <3>2, <4>1
      <4>2. CASE j - 1 \in DOMAIN q /\ (j - 1) + 1 = j
        <5>1. q[j - 1] = p[j]
          BY <1>5, <4>2, Zenon
        <5>2. j - 1 <= i
          BY <3>1, <3>3, <4>2, <5>1, Zenon DEF LastOf
        <5>3. j \in Int
          BY <1>4
        <5>4. QED  BY <3>2, <5>2, <5>3
      <4>3. QED  BY <1>6, <4>1, <4>2, Zenon
    <3>4. LastOf(p, fp, i + 1)
      BY <3>2, <3>3, Zenon DEF LastOf
    <3>5. Feed!View(f, fp) = p[i + 1][2]
      BY <1>1, <3>4, <1>v, Zenon DEF Shows
    <3>6. Feed!View(g, fp) = q[i][2]
      BY <1>4, <3>1, <1>v, Zenon DEF Shows
    <3>7. QED  BY <3>2, <3>5, <3>6, Zenon
  <2>2. CASE ~Mentioned(q, fp)
    <3>1. Feed!View(g, fp) = g.known[fp]
      BY <1>4, <2>2, <1>v, Zenon DEF Shows
    <3>2. CASE fp = u[1]
      <4>1. ASSUME NEW j \in DOMAIN p, p[j][1] = fp  PROVE  j = 1
        <5>1. CASE j - 1 \in DOMAIN q /\ (j - 1) + 1 = j
          <6>1. q[j - 1] = p[j]
            BY <1>5, <5>1, Zenon
          <6>2. QED  BY <2>2, <4>1, <5>1, <6>1, Zenon DEF Mentioned
        <5>2. QED  BY <1>6, <5>1, Zenon
      <4>2. ASSUME NEW j \in DOMAIN p, p[j][1] = fp  PROVE  j <= 1
        BY <4>1, <4>2
      <4>3. LastOf(p, fp, 1)
        BY <1>4, <1>6, <3>2, <4>2, Zenon DEF LastOf
      <4>4. Feed!View(f, fp) = p[1][2]
        BY <1>1, <4>3, <1>v, Zenon DEF Shows
      <4>5. QED  BY <1>3, <1>4, <3>1, <3>2, <4>4, Zenon
    <3>3. CASE fp # u[1]
      <4>1. ~Mentioned(p, fp)
        BY <1>7, <2>2, <3>3, Zenon
      <4>2. Feed!View(f, fp) = f.known[fp]
        BY <1>1, <4>1, <1>v, Zenon DEF Shows
      <4>3. fp \in DOMAIN f.known
        BY <1>9, <4>1, ToldIs, Zenon DEF p
      <4>4. QED  BY <1>3, <3>1, <3>3, <4>2, <4>3, Zenon
    <3>4. QED  BY Zenon, <3>2, <3>3
  <2>3. QED  BY Zenon, <2>1, <2>2
<1>10. QED  BY <1>8, <1>9, Zenon

-----------------------------------------------------------------------------
(* Subscribers in sync *)

LEMMA FeedTyped ==
    ASSUME MemInv, NEW l \in Listener, Feeds[l].on
    PROVE  Feeds[l].queue \in Seq(Fp \X Alert) /\ Feeds[l].known \in Maps
<1>1. lst[l].st = "on" /\ lst[l] \in LstRec
  BY FeedOn, Zenon DEF MemInv
<1>2. lst[l].ch \in Seq(Fp \X Alert) /\ lst[l].known \in Maps
  BY Zenon, <1>1 DEF LstRec
<1>3. Feeds[l] = [on |-> TRUE, queue |-> Queue(l), known |-> lst[l].known]
  BY <1>1, FeedsAre, Zenon DEF FeedOf
<1>4. Feeds[l].queue = Queue(l) /\ Feeds[l].known = lst[l].known
  BY <1>3
<1>5. Queue(l) \in Seq(Fp \X Alert)
  <2>1. CASE Coming(l) = {}
    BY <1>2, <2>1, Zenon DEF Queue
  <2>2. CASE Coming(l) # {}
    <3>1. PICK c : c \in Coming(l)
      BY <2>2, Zenon
    <3>2. c \in Caller /\ Queue(l) = Append(lst[l].ch, Sending(c)) /\ put[c].pc = "sending"
      BY <3>1, ComingIs, Zenon DEF Coming
    <3>3. PutOK(c) /\ store \in Maps
      BY <3>2, Zenon DEF MemInv, StoreOK
    <3>4. Head(put[c].fps) \in DOMAIN store
      BY <3>2, <3>3, Zenon DEF PutOK
    <3>5. DOMAIN store \subseteq Fp /\ store[Head(put[c].fps)] \in Alert
      BY <3>3, <3>4, MapIs, Zenon
    <3>6. Sending(c) \in Fp \X Alert
      BY <3>4, <3>5, Zenon DEF Sending
    <3> DEFINE S == Fp \X Alert
               e == Sending(c)
               ch == lst[l].ch
    <3>7. ch \in Seq(S) /\ e \in S
      BY <1>2, <3>6, Zenon
    <3> HIDE DEF S, e, ch
    <3>8. Append(ch, e) \in Seq(S)
      BY <3>7, AppendProperties, Zenon
    <3>9. QED  BY <3>2, <3>8, Zenon DEF S, e, ch
  <2>3. QED  BY Zenon, <2>1, <2>2
<1>6. QED  BY <1>2, <1>4, <1>5, Zenon

\* What is known of an alert is an alert.
LEMMA ViewTyped ==
    ASSUME NEW f, f.queue \in Seq(Fp \X Alert), f.known \in Maps, NEW fp \in Feed!Told(f)
    PROVE  Feed!View(f, fp) \in Alert
<1> DEFINE S == Fp \X Alert
           q == f.queue
<1>1. q \in Seq(S) /\ q = f.queue
  BY Zenon
<1> HIDE DEF q, S
<1>2. Shows(f, q)
  BY <1>1, Views, Zenon
<1>3. CASE Mentioned(q, fp)
  <2>1. PICK i \in DOMAIN q : LastOf(q, fp, i)
    BY <1>1, <1>3, LastExists, Zenon
  <2>2. q[i] \in S
    BY <1>1
  <2>3. q[i][2] \in Alert
    BY <2>2, Zenon DEF S
  <2>4. QED  BY <1>2, <2>1, <2>3, Zenon DEF Shows
<1>4. CASE ~Mentioned(q, fp)
  <2>1. fp \in DOMAIN f.known
    BY <1>4, ToldIs, Zenon DEF q
  <2>2. f.known[fp] \in Alert
    BY <2>1, MapIs, Zenon
  <2>3. QED  BY <1>2, <1>4, <2>2, Zenon DEF Shows
<1>5. QED  BY Zenon, <1>3, <1>4

LEMMA SyncedPublish ==
    ASSUME NEW f, NEW g, f.queue \in Seq(Fp \X Alert), NEW x \in Fp, NEW a \in Alert,
           g.queue = Append(f.queue, <<x, a>>), g.known = f.known,
           NEW old, NEW new, new = Feed!Upd(old, x, a), NEW now, Feed!Synced(f, old, now)
    PROVE  Feed!Synced(g, new, now)
<1>1. /\ \A fp : fp \in Feed!Told(g) <=> fp \in Feed!Told(f) \/ fp = x
      /\ Feed!View(g, x) = a
      /\ \A fp \in Feed!Told(f) : fp # x => Feed!View(g, fp) = Feed!View(f, fp)
  <2>1. Later(f, g, x, a)
    BY AppendView, Zenon
  <2>2. QED  BY <2>1, Zenon DEF Later
<1>2. DOMAIN new = DOMAIN old \cup {x} /\ new[x] = a /\ \A z \in DOMAIN old : z # x => new[z] = old[z]
  BY Zenon DEF Feed!Upd
<1>3. ASSUME NEW fp \in DOMAIN new  PROVE  fp \in Feed!Told(g) /\ Feed!View(g, fp) = new[fp]
  BY <1>1, <1>2, Zenon DEF Feed!Synced
<1>4. ASSUME NEW fp \in Feed!Told(g) \ DOMAIN new  PROVE  Feed!View(g, fp).ends <= now
  <2>1. fp \in Feed!Told(f) \ DOMAIN old /\ fp # x
    BY <1>1, <1>2, Zenon
  <2>2. Feed!View(g, fp) = Feed!View(f, fp)
    BY <1>1, <2>1, Zenon
  <2>3. Feed!View(f, fp).ends <= now
    BY <2>1, Zenon DEF Feed!Synced
  <2>4. QED  BY <2>2, <2>3, Zenon
<1>5. QED  BY <1>3, <1>4, Zenon DEF Feed!Synced

LEMMA SyncedSame ==
    ASSUME NEW f, NEW g, NEW versions, NEW now, Feed!Synced(f, versions, now),
           \A fp : fp \in Feed!Told(g) <=> fp \in Feed!Told(f),
           \A fp \in Feed!Told(f) : Feed!View(g, fp) = Feed!View(f, fp)
    PROVE  Feed!Synced(g, versions, now)
<1>1. ASSUME NEW fp \in DOMAIN versions  PROVE  fp \in Feed!Told(g) /\ Feed!View(g, fp) = versions[fp]
  BY Zenon DEF Feed!Synced
<1>2. ASSUME NEW fp \in Feed!Told(g) \ DOMAIN versions  PROVE  Feed!View(g, fp).ends <= now
  <2>1. Feed!View(g, fp) = Feed!View(f, fp) /\ fp \in Feed!Told(f) \ DOMAIN versions
    BY Zenon
  <2>2. Feed!View(f, fp).ends <= now
    BY <2>1, Zenon DEF Feed!Synced
  <2>3. QED  BY <2>1, <2>2, Zenon
<1>3. QED  BY <1>1, <1>2, Zenon DEF Feed!Synced

\* Who joins has, or will read, the current versions.
LEMMA SyncedJoin ==
    ASSUME NEW g, NEW versions \in Maps, NEW now,
           \/ g.queue = << >> /\ g.known = versions
           \/ /\ g.known = Feed!Off.known /\ g.queue \in Seq(Fp \X {versions[x] : x \in DOMAIN versions})
              /\ {g.queue[i] : i \in DOMAIN g.queue} = {<<x, versions[x]>> : x \in DOMAIN versions}
    PROVE  Feed!Synced(g, versions, now)
<1> DEFINE q == g.queue
<1>1. SUFFICES ASSUME TRUE
      PROVE  /\ \A fp : fp \in Feed!Told(g) <=> fp \in DOMAIN versions
             /\ \A fp \in DOMAIN versions : Feed!View(g, fp) = versions[fp]
  BY <1>1, Zenon DEF Feed!Synced
<1>2. CASE q = << >> /\ g.known = versions
  <2>1. q \in Seq({}) /\ q = g.queue /\ DOMAIN q = {}
    BY <1>2
  <2> HIDE DEF q
  <2>2. Shows(g, q)
    BY <2>1, Views, Zenon
  <2>3. \A fp : ~Mentioned(q, fp)
    BY <2>1, Zenon DEF Mentioned
  <2>4. ASSUME NEW fp  PROVE  fp \in Feed!Told(g) <=> fp \in DOMAIN versions
    BY <1>2, <2>1, <2>3, ToldIs, Zenon
  <2>5. ASSUME NEW fp  PROVE  Feed!View(g, fp) = versions[fp]
    BY <1>2, <2>2, <2>3, Zenon DEF Shows
  <2>6. QED  BY <2>4, <2>5, Zenon
<1>3. CASE /\ g.known = Feed!Off.known /\ q \in Seq(Fp \X {versions[x] : x \in DOMAIN versions})
           /\ {q[i] : i \in DOMAIN q} = {<<x, versions[x]>> : x \in DOMAIN versions}
  <2> DEFINE S == Fp \X {versions[x] : x \in DOMAIN versions}
  <2>1. q \in Seq(S) /\ q = g.queue
    BY <1>3, Zenon
  <2>2. DOMAIN g.known = {}
    <3>1. Feed!Off.known = Empty
      BY Zenon DEF Feed!Off, Empty
    <3>2. QED  BY <1>3, <3>1, EmptyMap, Zenon
  <2> HIDE DEF q, S
  <2>3. Shows(g, q)
    BY <2>1, Views, Zenon
  <2>4. ASSUME NEW i \in DOMAIN q  PROVE  q[i][1] \in DOMAIN versions /\ q[i][2] = versions[q[i][1]]
    <3>1. PICK x \in DOMAIN versions : q[i] = <<x, versions[x]>>
      BY <1>3, Zenon
    <3>2. q[i][1] = x /\ q[i][2] = versions[x]
      BY <3>1
    <3>3. QED  BY <3>2, Zenon
  <2>5. ASSUME NEW fp \in DOMAIN versions  PROVE  Mentioned(q, fp)
    <3>1. PICK i \in DOMAIN q : q[i] = <<fp, versions[fp]>>
      BY <1>3, Zenon
    <3>2. q[i][1] = fp
      BY <3>1
    <3>3. QED  BY <3>2, Zenon DEF Mentioned
  <2>6. ASSUME NEW fp  PROVE  fp \in Feed!Told(g) <=> fp \in DOMAIN versions
    <3>1. Mentioned(q, fp) <=> fp \in DOMAIN versions
      BY <2>4, <2>5, Zenon DEF Mentioned
    <3>2. fp \in Feed!Told(g) <=> fp \in DOMAIN g.known \/ Mentioned(q, fp)
      BY ToldIs, Zenon DEF q
    <3>3. QED  BY <2>2, <3>1, <3>2, Zenon
  <2>7. ASSUME NEW fp \in DOMAIN versions  PROVE  Feed!View(g, fp) = versions[fp]
    <3>1. PICK i \in DOMAIN q : LastOf(q, fp, i)
      BY <2>1, <2>5, LastExists, Zenon
    <3>2. Feed!View(g, fp) = q[i][2]
      BY <2>3, <3>1, Zenon DEF Shows
    <3>4. q[i][1] = fp
      BY <3>1, Zenon DEF LastOf
    <3>3. QED  BY <2>4, <3>2, <3>4, Zenon
  <2>8. QED  BY <2>6, <2>7, Zenon
<1>4. QED  BY <1>2, <1>3, Zenon

LEMMA SyncedForget ==
    ASSUME NEW f, NEW old, NEW new, NEW now, Feed!Synced(f, old, now), DOMAIN new \subseteq DOMAIN old,
           new = [x \in DOMAIN new |-> old[x]], \A x \in DOMAIN old \ DOMAIN new : old[x].ends <= now
    PROVE  Feed!Synced(f, new, now)
<1>1. ASSUME NEW fp \in DOMAIN new  PROVE  fp \in Feed!Told(f) /\ Feed!View(f, fp) = new[fp]
  <2>1. new[fp] = old[fp] /\ fp \in DOMAIN old
    BY Zenon
  <2>2. QED  BY <2>1, Zenon DEF Feed!Synced
<1>2. ASSUME NEW fp \in Feed!Told(f) \ DOMAIN new  PROVE  Feed!View(f, fp).ends <= now
  <2>1. CASE fp \in DOMAIN old
    <3>1. Feed!View(f, fp) = old[fp] /\ old[fp].ends <= now
      BY <2>1, Zenon DEF Feed!Synced
    <3>2. QED  BY <3>1, Zenon
  <2>2. CASE fp \notin DOMAIN old
    BY <2>2, Zenon DEF Feed!Synced
  <2>3. QED  BY Zenon, <2>1, <2>2
<1>3. QED  BY <1>1, <1>2, Zenon DEF Feed!Synced

LEMMA SyncedPass ==
    ASSUME MemSetting, Clock, NEW f, NEW versions, NEW now \in Nat, NEW then \in Nat, Feed!Synced(f, versions, now),
           f.queue \in Seq(Fp \X Alert), f.known \in Maps, now <= then
    PROVE  Feed!Synced(f, versions, then)
<1>1. ASSUME NEW fp \in Feed!Told(f) \ DOMAIN versions  PROVE  Feed!View(f, fp).ends <= then
  <2>1. Feed!View(f, fp).ends <= now
    BY Zenon DEF Feed!Synced
  <2>2. Feed!View(f, fp) \in Alert
    BY ViewTyped, Zenon
  <2> DEFINE v == Feed!View(f, fp)
  <2> HIDE DEF v
  <2>3. v \in Alert /\ v.ends <= now
    BY <2>1, <2>2, Zenon DEF v
  <2>4. mscene.maxTime \in Nat /\ ResolveTimeout \in Nat
    BY Bounds, Zenon
  <2>5. v.ends <= then
    BY <2>3, <2>4 DEF Alert
  <2>6. QED  BY <2>5, Zenon DEF v
<1>2. QED  BY <1>1, Zenon DEF Feed!Synced

LEMMA StepSync ==
    ASSUME MemSetting, MemInv, MemInv', mscene' = mscene, Feed!InSync, [Feed!FeedNext]_(Feed!feedVars)
    PROVE  Feed!InSync'
<1>1. SUFFICES ASSUME NEW r \in Listener, Feeds'[r].on  PROVE  Feed!Synced(Feeds'[r], store', mnow')
  BY <1>1, Zenon DEF Feed!InSync
<1>2. Feeds[r].on => Feed!Synced(Feeds[r], store, mnow)
  BY Zenon DEF Feed!InSync
<1>3. Feeds[r].on => Feeds[r].queue \in Seq(Fp \X Alert) /\ Feeds[r].known \in Maps
  BY FeedTyped, Zenon
<1>4. store \in Maps /\ mnow \in Nat /\ mnow' \in Nat /\ Clock /\ DOMAIN Feeds = Listener
  BY FeedsAre, Zenon DEF MemInv, StoreOK, Clock
<1>5. \A x \in DOMAIN store' : store'[x] \in Alert
  BY Frame, MapIs, Zenon DEF MemInv, StoreOK
<1>6. CASE Feed!Publish
  <2>1. PICK fp \in Fp :
          /\ fp \in DOMAIN store' /\ store' = Feed!Upd(store, fp, store'[fp])
          /\ Feeds' = [k \in Listener |->
                         IF Feeds[k].on
                         THEN [on |-> TRUE, queue |-> Append(Feeds[k].queue, <<fp, store'[fp]>>), known |-> Feeds[k].known]
                         ELSE Feeds[k]]
    BY <1>6, Zenon DEF Feed!Publish
  <2>2. mnow' = mnow
    BY <1>6, Zenon DEF Feed!Publish
  <2>3. Feeds[r].on
    BY <1>1, <2>1, Zenon
  <2>4. Feeds'[r] = [on |-> TRUE, queue |-> Append(Feeds[r].queue, <<fp, store'[fp]>>), known |-> Feeds[r].known]
    BY <2>1, <2>3, Zenon
  <2> DEFINE f == Feeds[r]
             g == Feeds'[r]
             a == store'[fp]
  <2>5. g.queue = Append(f.queue, <<fp, a>>) /\ g.known = f.known
    BY <2>4
  <2>6. /\ f.queue \in Seq(Fp \X Alert) /\ a \in Alert /\ store' = Feed!Upd(store, fp, a)
        /\ Feed!Synced(f, store, mnow)
    BY <1>2, <1>3, <1>5, <2>1, <2>3, Zenon
  <2> HIDE DEF f, g, a
  <2>7. Feed!Synced(g, store', mnow)
    BY <2>5, <2>6, SyncedPublish, Zenon
  <2>8. QED  BY <2>2, <2>7, Zenon DEF g
<1>7. CASE Feed!Forget
  <2>1. UNCHANGED <<Feeds, mnow>>
    BY <1>7, Zenon DEF Feed!Forget
  <2>2. Feed!Synced(Feeds[r], store, mnow)
    BY <1>1, <1>2, <2>1, Zenon
  <2>3. Feed!Synced(Feeds[r], store', mnow)
    BY <1>7, <2>2, SyncedForget, Zenon DEF Feed!Forget
  <2>4. QED  BY <2>1, <2>3, Zenon
<1>8. CASE Feed!Pass
  <2>1. UNCHANGED <<Feeds, store>> /\ mnow' > mnow
    BY <1>8, Zenon DEF Feed!Pass
  <2>2. mnow <= mnow'
    BY <1>4, <2>1
  <2>3. Feed!Synced(Feeds[r], store, mnow')
    BY <1>1, <1>2, <1>3, <1>4, <2>1, <2>2, SyncedPass, Zenon
  <2>4. QED  BY <2>1, <2>3, Zenon
<1>9. ASSUME NEW k \in Listener, Feed!Join(k)  PROVE  Feed!Synced(Feeds'[r], store', mnow')
  <2>1. UNCHANGED <<store, mnow>> /\ Feeds' = [Feeds EXCEPT ![k] = Feeds'[k]]
    BY <1>9, Zenon DEF Feed!Join
  <2>2. CASE r = k
    <3> DEFINE g == Feeds'[r]
    <3>1. \/ g.queue = << >> /\ g.known = store
          \/ /\ g.known = Feed!Off.known /\ g.queue \in Seq(Fp \X {store[x] : x \in DOMAIN store})
             /\ {g.queue[i] : i \in DOMAIN g.queue} = {<<x, store[x]>> : x \in DOMAIN store}
      BY <1>9, <2>2, Zenon DEF Feed!Join
    <3> HIDE DEF g
    <3>2. Feed!Synced(g, store, mnow)
      BY <1>4, <3>1, SyncedJoin, Zenon
    <3>3. QED  BY <2>1, <3>2, Zenon DEF g
  <2>3. CASE r # k
    BY <1>1, <1>2, <1>4, <2>1, <2>3, Zenon
  <2>4. QED  BY Zenon, <2>2, <2>3
<1>10. ASSUME NEW k \in Listener, Feed!Read(k)  PROVE  Feed!Synced(Feeds'[r], store', mnow')
  <2> DEFINE u == Head(Feeds[k].queue)
             new == [on |-> TRUE, queue |-> Tail(Feeds[k].queue), known |-> Feed!Upd(Feeds[k].known, u[1], u[2])]
  <2>1. /\ UNCHANGED <<store, mnow>> /\ Feeds' = [Feeds EXCEPT ![k] = new]
        /\ Feeds[k].on /\ Feeds[k].queue # << >>
    BY <1>10, Zenon DEF Feed!Read
  <2>2. CASE r = k
    <3> DEFINE f == Feeds[r]
               g == Feeds'[r]
    <3>1. g = new
      BY <1>4, <2>1, <2>2, Zenon
    <3>2. g.queue = Tail(f.queue) /\ g.known = Feed!Upd(f.known, u[1], u[2])
      BY <2>2, <3>1
    <3>3. Feed!Upd(f.known, u[1], u[2]) = With(f.known, u[1], u[2])
      BY Zenon DEF Feed!Upd, With
    <3>4. /\ f.queue \in Seq(Fp \X Alert) /\ f.known \in Maps /\ f.queue # << >> /\ u = Head(f.queue)
          /\ Feed!Synced(f, store, mnow)
      BY <1>2, <1>3, <2>1, <2>2, Zenon
    <3> HIDE DEF f, g, u
    <3>5. g.known = With(f.known, u[1], u[2]) /\ g.queue = Tail(f.queue)
      BY <3>2, <3>3, Zenon
    <3>6. /\ \A fp : fp \in Feed!Told(g) <=> fp \in Feed!Told(f)
          /\ \A fp \in Feed!Told(f) : Feed!View(g, fp) = Feed!View(f, fp)
      BY <3>4, <3>5, TailView, Zenon
    <3>7. Feed!Synced(g, store, mnow)
      BY <3>4, <3>6, SyncedSame, Zenon
    <3>8. QED  BY <2>1, <3>7, Zenon DEF g
  <2>3. CASE r # k
    <3> HIDE DEF new
    <3>1. Feeds'[r] = Feeds[r]
      BY <1>4, <2>1, <2>3, Zenon
    <3>2. QED  BY <1>1, <1>2, <2>1, <3>1, Zenon
  <2>4. QED  BY Zenon, <2>2, <2>3
<1>11. ASSUME NEW k \in Listener, Feed!Leave(k)  PROVE  Feed!Synced(Feeds'[r], store', mnow')
  <2>1. UNCHANGED <<store, mnow>> /\ Feeds' = [Feeds EXCEPT ![k] = Feed!Off] /\ ~Feed!Off.on
    BY <1>11, Zenon DEF Feed!Leave, Feed!Off
  <2>2. r # k
    BY <1>1, <1>4, <2>1, Zenon
  <2>3. Feeds'[r] = Feeds[r]
    BY <1>4, <2>1, <2>2, Zenon
  <2>4. QED  BY <1>1, <1>2, <2>1, <2>3, Zenon
<1>12. CASE UNCHANGED Feed!feedVars
  <2>1. UNCHANGED <<store, Feeds, mnow>>
    BY <1>12, Zenon DEF Feed!feedVars
  <2>2. QED  BY <1>1, <1>2, <2>1, Zenon
<1>13. QED  BY <1>6, <1>7, <1>8, <1>9, <1>10, <1>11, <1>12, Zenon DEF Feed!FeedNext

LEMMA InitSync ==
    ASSUME Feed!FeedInit
    PROVE  Feed!InSync
<1>1. ASSUME NEW r \in Listener  PROVE  ~Feeds[r].on
  <2>1. Feeds[r] = Feed!Off
    BY Zenon DEF Feed!FeedInit
  <2>2. QED  BY <2>1 DEF Feed!Off
<1>2. QED  BY <1>1, Zenon DEF Feed!InSync

-----------------------------------------------------------------------------
(* Theorems *)

\* Type correctness: Put, Subscribe and gc keep the types of the store and of the requests,
\* and no channel holds more than its capacity.
THEOREM TypeCorrect ==
    ASSUME MemSetting
    PROVE  MemSpec => []MemTypeOK
<1>1. ASSUME MemInv  PROVE  MemTypeOK
  <2>1. DOMAIN store \subseteq Fp /\ \A fp \in DOMAIN store : store[fp] \in Alert
    BY <1>1, MapIs, Zenon DEF MemInv, StoreOK
  <2>2. ASSUME NEW c \in Caller  PROVE  put[c].pc \in {"idle", "ready", "sending", "sent"}
    <3>1. put[c] \in PutRec
      BY <1>1, Zenon DEF MemInv
    <3>2. QED  BY Zenon, <3>1 DEF PutRec
  <2>3. \A l \in Listener : Len(lst[l].ch) <= lst[l].cap
    BY <1>1, Zenon DEF MemInv, LstOK
  <2>4. QED  BY <1>1, <2>1, <2>2, <2>3, Zenon DEF MemTypeOK, MemInv
<1>2. QED  BY <1>1, MemAlways, PTL

\* Put, Subscribe, SlurpAndSubscribe, gc: for any numbers of callers, subscribers and alerts, any
\* channel length and any limit, every subscriber gets what was stored when it came and every later
\* version, in the order they were stored; alerts are forgotten when they are resolved only; and a
\* subscriber that reads on knows the current version of every alert.
THEOREM FeedImplementedThm ==
    ASSUME MemSetting
    PROVE  MemSpec => FeedImplemented
<1>1. MemSpec => Feed!FeedSpec
  BY FeedSteps
<1>2. Feed!FeedInit => Feed!InSync
  BY Zenon, InitSync
<1>3. MemInv /\ MemInv' /\ Feed!InSync /\ [MemNext]_memVars => Feed!InSync'
  <2>1. ASSUME MemInv, MemInv', Feed!InSync, [MemNext]_memVars  PROVE  Feed!InSync'
    <3>1. mscene' = mscene
      BY <2>1, MemScenery, Zenon DEF memVars
    <3>2. [Feed!FeedNext]_(Feed!feedVars)
      BY <2>1, StepFeed
    <3>3. QED  BY <2>1, <3>1, <3>2, StepSync
  <2>2. QED  BY Zenon, <2>1
<1>4. MemSpec => []MemInv
  BY Zenon, MemAlways
<1>5. MemSpec => []Feed!InSync
  BY <1>1, <1>2, <1>3, <1>4, PTL DEF MemSpec, Feed!FeedSpec
<1>6. QED  BY <1>1, <1>5, PTL DEF FeedImplemented

\* The step of LaterWordWins.
LEMMA MergedWord ==
    ASSUME MemSetting, Clock, NEW old \in Alert, NEW new \in Alert, old.updated <= new.updated
    PROVE  Resolved(Merge(old, new)) <=> Resolved(new)
<1>1. mscene.maxTime \in Nat \ {0} /\ ResolveTimeout \in Nat \ {0} /\ mnow \in Nat
  BY Bounds, Zenon DEF Clock
<1>2. old.updated \in Nat /\ new.updated \in Nat /\ old.ends \in Nat /\ new.ends \in Nat
  BY <1>1 DEF Alert
<1>3. ~(new.updated < old.updated)
  BY <1>2
<1>4. Merge(old, new).ends = IF old.ends > new.ends /\ (IF Resolved(new) THEN Resolved(old) ELSE ~old.timeout)
                             THEN old.ends ELSE new.ends
  BY <1>3, Zenon DEF Merge
<1>5. CASE Merge(old, new).ends = new.ends
  BY <1>5, Zenon DEF Resolved
<1>6. CASE Merge(old, new).ends = old.ends /\ old.ends > new.ends /\ (Resolved(new) => Resolved(old))
  <2>1. old.ends <= mnow => new.ends <= mnow
    BY <1>1, <1>2, <1>6
  <2>2. QED  BY <1>6, <2>1, Zenon DEF Resolved
<1>7. QED  BY <1>4, <1>5, <1>6, Zenon

\* Put, Alert.Merge: whatever was stored before, and however the two overlap, a request that is no
\* older than the stored alert decides whether the alert fires.
THEOREM LaterWordWinsThm ==
    ASSUME MemSetting
    PROVE  MemSpec => LaterWordWins
<1>1. ASSUME MemInv, [MemNext]_memVars, NEW c \in Caller  PROVE  WordWins(c)
  <2>1. SUFFICES ASSUME PutStore(c), store' # store,
                        Head(put[c].fps) \in DOMAIN store => store[Head(put[c].fps)].updated <= put[c].alert.updated
                 PROVE  Resolved(store'[Head(put[c].fps)]) <=> Resolved(put[c].alert)
    BY <2>1, Zenon DEF WordWins
  <2> DEFINE fp == Head(put[c].fps)
             new == put[c].alert
             a == Stored(fp, new)
  <2>2. fp \in Fp /\ new \in Alert /\ a \in Alert
    BY Zenon, <1>1, <2>1, PutStoreIs
  <2>3. store' = With(store, fp, a)
    BY <2>1, Zenon DEF PutStore
  <2>4. store \in Maps /\ Clock
    BY <1>1, Zenon DEF MemInv, StoreOK
  <2>5. Resolved(a) <=> Resolved(new)
    <3> HIDE DEF fp, new
    <3>1. CASE fp \in DOMAIN store /\ Overlap(store[fp], new)
      <4>1. a = Merge(store[fp], new) /\ store[fp] \in Alert
        BY <2>4, <3>1, MapIs, Zenon DEF Stored
      <4>2. store[fp].updated <= new.updated
        BY <2>1, <3>1, Zenon DEF fp, new
      <4>3. Resolved(Merge(store[fp], new)) <=> Resolved(new)
        BY <2>2, <2>4, <4>1, <4>2, MergedWord, Zenon
      <4>4. QED  BY <4>1, <4>3, Zenon
    <3>2. CASE ~(fp \in DOMAIN store /\ Overlap(store[fp], new))
      BY <3>2, Zenon DEF Stored
    <3>3. QED  BY Zenon, <3>1, <3>2
  <2> HIDE DEF a, fp, new
  <2>6. store'[fp] = a
    BY <2>2, <2>3, <2>4, WithMap, Zenon
  <2>7. Resolved(store'[fp]) <=> Resolved(new)
    BY <2>5, <2>6, Zenon
  <2>8. QED  BY <2>7, Zenon DEF fp, new
<1>2. MemInv /\ [MemNext]_memVars => \A c \in Caller : WordWins(c)
  BY Zenon, <1>1
<1>3. MemSpec => []MemInv
  BY Zenon, MemAlways
<1>4. QED  BY <1>2, <1>3, PTL DEF MemSpec, LaterWordWins

-----------------------------------------------------------------------------
(* The inhibitor: the inductive invariant *)

Key(r, l) == Rules[r].eq[l]

\* The index leads from the equal labels k to an alert that ends at t or later.
Leads(r, k, t) ==
    k \in DOMAIN sindex[r] /\ sindex[r][k] \in DOMAIN scache[r] /\ scache[r][sindex[r][k]] >= t

\* processAlert has stored the alert l and not yet updated the index of rule r.
InHand(r, l) == proc.pc \in {"index", "compare"} /\ proc.r = r /\ proc.l = l

TypeGood ==
    /\ inow \in Int /\ DOMAIN scache = RuleNo /\ DOMAIN sindex = RuleNo
    /\ \A r \in RuleNo : \A l \in DOMAIN scache[r] : l \in Rules[r].src /\ scache[r][l] \in Int
    /\ \A r \in RuleNo : \A k \in DOMAIN sindex[r] :
          sindex[r][k] \in Rules[r].src /\ Key(r, sindex[r][k]) = k

\* processAlert.  The alert it has stored is still as it was stored, or was collected with
\* all that end no later; and the index holds what it has read from it, or the callback has
\* deleted that, and then what is left must be updated again.
ProcGood ==
    /\ DOMAIN proc = {"pc", "l", "ends", "r", "indexed"}
    /\ proc.pc \in {"idle", "set", "index", "compare"}
    /\ proc.pc # "idle" => proc.r \in RuleNo /\ proc.l \in Rules[proc.r].src /\ proc.ends \in Int
    /\ proc.pc \in {"index", "compare"} =>
          IF proc.l \in DOMAIN scache[proc.r] THEN scache[proc.r][proc.l] = proc.ends
          ELSE \A n \in DOMAIN scache[proc.r] : scache[proc.r][n] > proc.ends
    /\ proc.pc = "compare" =>
          IF Key(proc.r, proc.l) \in DOMAIN sindex[proc.r]
          THEN proc.indexed = {sindex[proc.r][Key(proc.r, proc.l)]}
          ELSE \A n \in Rules[proc.r].src : Key(proc.r, n) = Key(proc.r, proc.l) => <<proc.r, n>> \in spoiled

\* The index leads from every alert that is not spoiled to one that ends no sooner.
IndexGood ==
    \A r \in RuleNo : \A l \in DOMAIN scache[r] :
        <<r, l>> \notin spoiled /\ ~InHand(r, l) => Leads(r, Key(r, l), scache[r][l])

\* Mutes.  While it looks, the index leads from the alerts in firing to one that fires, also
\* when it has already read the index; the rules before ask.r do not apply.
AskType ==
    /\ DOMAIN ask = {"pc", "l", "at", "r", "found", "firing"}
    /\ ask.pc \in {"idle", "index", "cache", "answered"} /\ ask.at \in Int
    /\ ask.pc \in {"index", "cache"} => ask.r \in RuleNo
    /\ \A x \in ask.firing : x = <<x[1], x[2]>> /\ x[1] \in RuleNo /\ x[2] \in Rules[x[1]].src

AskLeads == ask.pc \in {"index", "cache"} => \A x \in ask.firing : Leads(x[1], Key(x[1], x[2]), ask.at + 1)

Found(m) ==
    /\ ask.found = {m} /\ m \in Rules[ask.r].src /\ Key(ask.r, m) = Key(ask.r, ask.l)
    /\ \A x \in ask.firing : x[1] = ask.r /\ Key(ask.r, x[2]) = Key(ask.r, ask.l) =>
          m \in DOMAIN scache[ask.r] /\ scache[ask.r][m] >= ask.at + 1

AskFound == ask.pc = "cache" => \E m \in ask.found : Found(m)

AskPast ==
    /\ ask.pc \in {"index", "cache"} => \A x \in ask.firing : x[1] < ask.r => ~Applies(x[1], x[2], ask.l)
    /\ ask.pc = "answered" /\ ask.found = {} => \A x \in ask.firing : ~Applies(x[1], x[2], ask.l)

AskGood == AskType /\ AskLeads /\ AskFound /\ AskPast

InhibitInv == TypeGood /\ ProcGood /\ IndexGood /\ AskGood

LEMMA GeqTrans == ASSUME NEW a \in Int, NEW b \in Int, NEW c \in Int, a >= b, b >= c PROVE a >= c
OBVIOUS

LEMMA PairsDiffer ==
    ASSUME NEW a, NEW b, NEW c, NEW d, ~(a = c /\ b = d)
    PROVE  <<a, b>> # <<c, d>>
OBVIOUS

LEMMA NothingTaken == ASSUME NEW A PROVE (A \ {}) \cup {} = A
OBVIOUS

-----------------------------------------------------------------------------
(* The next rule *)

LEMMA LeastNat ==
    ASSUME NEW T, T \subseteq Nat, T # {}
    PROVE  \E x \in T : \A y \in T : x <= y
<1>1. IsWellFoundedOn(OpToRel(<, Nat), Nat)
  BY ZenonT(60), NatLessThanWellFounded
<1>2. PICK x \in T : \A y \in T : ~(<<y, x>> \in OpToRel(<, Nat))
  BY <1>1, WFMin, Zenon
<1>3. ASSUME NEW y \in T PROVE x <= y
  <2>1. x \in Nat /\ y \in Nat
    BY Zenon
  <2>2. y < x => <<y, x>> \in OpToRel(<, Nat)
    BY Zenon, <2>1 DEF OpToRel
  <2>3. ~(y < x)
    BY <1>2, <2>2, Zenon
  <2> QED BY <2>1, <2>3
<1> QED BY Zenon, <1>3

LEMMA RulesAreNumbers == ASSUME InhibitSetting PROVE RuleNo \subseteq Nat /\ 0 \notin RuleNo
BY DEF InhibitSetting, RuleNo

LEMMA NextSourceGood ==
    ASSUME InhibitSetting, NEW l, NEW r, NextSource(l, r) # 0
    PROVE  NextSource(l, r) \in RuleNo /\ l \in Rules[NextSource(l, r)].src
<1> DEFINE rs == {s \in RuleNo : s >= r /\ l \in Rules[s].src}
<1>1. NextSource(l, r) = IF rs = {} THEN 0 ELSE CHOOSE s \in rs : \A q \in rs : s <= q
  BY Zenon DEF NextSource
<1>2. rs # {} /\ rs \subseteq Nat /\ rs \subseteq RuleNo
  BY Zenon, <1>1, RulesAreNumbers
<1>3. \A s \in rs : l \in Rules[s].src
  BY Zenon
<1> HIDE DEF rs
<1>4. NextSource(l, r) \in rs
  BY Zenon, <1>1, <1>2, LeastNat
<1> QED BY Zenon, <1>2, <1>3, <1>4

\* Rules that are passed over do not apply.
LEMMA NextTargetGood ==
    ASSUME InhibitSetting, NEW l, NEW r \in Nat
    PROVE  /\ NextTarget(l, r) # 0 => NextTarget(l, r) \in RuleNo
           /\ NextTarget(l, r) # 0 => \A q \in RuleNo : q >= r /\ q < NextTarget(l, r) => l \notin Rules[q].tgt
           /\ NextTarget(l, r) = 0 => \A q \in RuleNo : q >= r => l \notin Rules[q].tgt
<1> DEFINE rs == {s \in RuleNo : s >= r /\ l \in Rules[s].tgt}
<1>1. NextTarget(l, r) = IF rs = {} THEN 0 ELSE CHOOSE s \in rs : \A q \in rs : s <= q
  BY Zenon DEF NextTarget
<1>2. rs \subseteq Nat /\ rs \subseteq RuleNo /\ 0 \notin rs
  BY Zenon, RulesAreNumbers
<1>3. \A q \in RuleNo : q >= r /\ l \in Rules[q].tgt => q \in rs
  BY Zenon
<1> HIDE DEF rs
<1>4. rs # {} => NextTarget(l, r) \in rs /\ \A q \in rs : NextTarget(l, r) <= q
  BY Zenon, <1>1, <1>2, LeastNat
<1>5. \A q \in RuleNo : q \in Nat
  BY Zenon, RulesAreNumbers
<1>6. CASE rs = {}
  BY Zenon, <1>1, <1>3, <1>6
<1>7. CASE rs # {}
  <2> DEFINE n == NextTarget(l, r)
  <2>0. n \in Nat /\ \A q \in rs : q \in Nat /\ n <= q
    BY Zenon, <1>2, <1>4, <1>7
  <2> HIDE DEF n
  <2>1. \A q \in rs : ~(q < n)
    BY <2>0
  <2> USE DEF n
  <2> QED BY Zenon, <1>2, <1>3, <1>4, <1>7, <2>1
<1> QED BY Zenon, <1>6, <1>7

-----------------------------------------------------------------------------
(* What is unchanged *)

LEMMA TypeKept == ASSUME TypeGood, UNCHANGED <<inow, scache, sindex>> PROVE TypeGood'
BY Zenon DEF TypeGood

LEMMA CacheTyped ==
    ASSUME TypeGood, UNCHANGED <<inow, sindex>>, DOMAIN scache' = RuleNo,
           \A q \in RuleNo : \A n \in DOMAIN scache'[q] : n \in Rules[q].src /\ scache'[q][n] \in Int
    PROVE  TypeGood'
BY Zenon DEF TypeGood

LEMMA ProcKept == ASSUME ProcGood, UNCHANGED <<proc, scache, sindex, spoiled>> PROVE ProcGood'
BY Zenon DEF ProcGood

LEMMA IndexKept == ASSUME IndexGood, UNCHANGED <<proc, scache, sindex, spoiled>> PROVE IndexGood'
BY Zenon DEF IndexGood, InHand, Leads

LEMMA AskKept == ASSUME AskGood, UNCHANGED <<ask, scache, sindex>> PROVE AskGood'
BY Zenon DEF AskGood, AskType, AskLeads, AskFound, AskPast, Found, Leads, Applies, Key

\* Alerts are taken from ask.firing; the others are still led to, as they were.
LEMMA AskShrinks ==
    ASSUME AskGood, NEW S, ask' = [ask EXCEPT !.firing = @ \ S],
           ask.pc \in {"index", "cache"} =>
               \A x \in ask.firing \ S : Leads(x[1], Key(x[1], x[2]), ask.at + 1)',
           \A m \in Rules[ask.r].src : \A x \in ask.firing \ S :
               /\ ask.pc = "cache" /\ x[1] = ask.r /\ Key(ask.r, x[2]) = Key(ask.r, m)
               /\ m \in DOMAIN scache[ask.r] /\ scache[ask.r][m] >= ask.at + 1
               => m \in DOMAIN scache'[ask.r] /\ scache'[ask.r][m] >= ask.at + 1
    PROVE  AskGood'
<1>1. DOMAIN ask = {"pc", "l", "at", "r", "found", "firing"}
  BY Zenon DEF AskGood, AskType
<1>2. /\ DOMAIN ask' = DOMAIN ask /\ ask'.pc = ask.pc /\ ask'.l = ask.l /\ ask'.at = ask.at /\ ask'.r = ask.r
      /\ ask'.found = ask.found /\ ask'.firing = ask.firing \ S
  BY <1>1
<1>3. AskType' /\ AskPast'
  BY Zenon, <1>2 DEF AskGood, AskType, AskPast, Applies
<1>4. AskLeads'
  BY Zenon, <1>2 DEF AskLeads, Leads, Key
<1>5. AskFound'
  <2> SUFFICES ASSUME ask.pc = "cache" PROVE (\E m \in ask.found : Found(m))'
    BY Zenon, <1>2 DEF AskFound
  <2>1. PICK m \in ask.found : Found(m)
    BY Zenon DEF AskGood, AskFound
  <2>2. m \in Rules[ask.r].src /\ Key(ask.r, m) = Key(ask.r, ask.l)
    BY Zenon, <2>1 DEF Found
  <2>3. ASSUME NEW x \in ask.firing \ S, x[1] = ask.r, Key(ask.r, x[2]) = Key(ask.r, ask.l)
        PROVE  m \in DOMAIN scache'[ask.r] /\ scache'[ask.r][m] >= ask.at + 1
    <3>1. m \in DOMAIN scache[ask.r] /\ scache[ask.r][m] >= ask.at + 1
      BY Zenon, <2>1, <2>3 DEF Found
    <3> QED BY Zenon, <2>2, <2>3, <3>1
  <2>4. Found(m)'
    BY Zenon, <1>2, <2>1, <2>3 DEF Found, Key
  <2>5. m \in ask'.found
    BY Zenon, <2>4 DEF Found
  <2> QED BY Zenon, <2>4, <2>5
<1> QED BY Zenon, <1>3, <1>4, <1>5 DEF AskGood

-----------------------------------------------------------------------------
(* Alerts arrive *)

LEMMA BeginGood ==
    ASSUME InhibitSetting, InhibitInv, proc.pc = "idle", NEW l, NEW ends \in Int, Begin(l, ends),
           UNCHANGED <<inow, scache, sindex, spoiled, ask>>
    PROVE  InhibitInv'
<1>1. ProcGood'
  <2>1. CASE NextSource(l, 1) = 0
    <3>1. proc' = NoProc
      BY Zenon, <2>1 DEF Begin
    <3> QED BY <3>1 DEF ProcGood, NoProc
  <2>2. CASE NextSource(l, 1) # 0
    <3>1. proc' = [pc |-> "set", l |-> l, ends |-> ends, r |-> NextSource(l, 1), indexed |-> {}]
      BY Zenon, <2>2 DEF Begin
    <3>2. NextSource(l, 1) \in RuleNo /\ l \in Rules[NextSource(l, 1)].src
      BY Zenon, <2>2, NextSourceGood
    <3> QED BY <3>1, <3>2 DEF ProcGood
  <2> QED BY Zenon, <2>1, <2>2
<1>2. IndexGood'
  <2>1. \A r, l2 : ~InHand(r, l2)
    BY DEF InHand
  <2> QED BY Zenon, <2>1 DEF InhibitInv, IndexGood, Leads
<1> QED BY Zenon, <1>1, <1>2, TypeKept, AskKept DEF InhibitInv

LEMMA SpoilsGives ==
    ASSUME NEW gone, NEW back, NEW less, Spoils(gone, back, less)
    PROVE  spoiled' = (spoiled \ back) \cup gone /\ ask' = [ask EXCEPT !.firing = @ \ (gone \cup less)]
BY Zenon DEF Spoils

LEMMA CacheSetStep == ASSUME InhibitInv, CacheSet PROVE InhibitInv'
<1> DEFINE r == proc.r
           l == proc.l
           sooner == l \in DOMAIN scache[r] /\ proc.ends < scache[r][l]
           gone == IF sooner THEN {r} \X Rivals(r, l) ELSE {}
           less == IF sooner THEN {<<r, l>>} ELSE {}
<1>1. /\ proc.pc = "set" /\ scache' = [scache EXCEPT ![r] = Put(@, l, proc.ends)]
      /\ proc' = [proc EXCEPT !.pc = "index"] /\ UNCHANGED <<inow, sindex>>
  BY Zenon DEF CacheSet
<1>2. spoiled' = (spoiled \ {<<r, l>>}) \cup gone /\ ask' = [ask EXCEPT !.firing = @ \ (gone \cup less)]
  <2>1. CASE sooner
    <3>1. Spoils({r} \X Rivals(r, l), {<<r, l>>}, {<<r, l>>})
      BY Zenon, <2>1 DEF CacheSet
    <3>2. gone = {r} \X Rivals(r, l) /\ less = {<<r, l>>}
      BY Zenon, <2>1
    <3> HIDE DEF gone, less, sooner
    <3>3. Spoils(gone, {<<r, l>>}, less)
      BY Zenon, <3>1, <3>2
    <3> QED BY Zenon, <3>3, SpoilsGives
  <2>2. CASE ~sooner
    BY Zenon, <2>2, SpoilsGives DEF CacheSet
  <2> QED BY Zenon, <2>1, <2>2
<1>3. r \in RuleNo /\ l \in Rules[r].src /\ proc.ends \in Int
  BY Zenon, <1>1 DEF InhibitInv, ProcGood
<1>4. \A n \in Rules[r].src : sooner /\ Key(r, n) = Key(r, l) => n = l \/ <<r, n>> \in gone
  BY Zenon DEF Rivals, Key
<1>5. \A q, n : <<q, n>> \in gone \cup less => sooner
  BY Zenon
<1>6. sooner => <<r, l>> \in less
  BY Zenon
<1>7. l \in DOMAIN scache[r] /\ ~sooner => proc.ends >= scache[r][l]
  BY <1>3 DEF InhibitInv, TypeGood
<1> HIDE DEF gone, less, sooner
<1>8. /\ DOMAIN scache' = RuleNo /\ \A q \in RuleNo : q # r => scache'[q] = scache[q]
      /\ DOMAIN scache'[r] = DOMAIN scache[r] \cup {l} /\ scache'[r][l] = proc.ends
      /\ \A n \in DOMAIN scache[r] : n # l => scache'[r][n] = scache[r][n]
  <2>1. DOMAIN scache = RuleNo
    BY Zenon DEF InhibitInv, TypeGood
  <2>2. scache'[r] = Put(scache[r], l, proc.ends) /\ DOMAIN scache' = RuleNo /\ \A q \in RuleNo : q # r => scache'[q] = scache[q]
    BY Zenon, <1>1, <1>3, <2>1
  <2>3. /\ DOMAIN Put(scache[r], l, proc.ends) = DOMAIN scache[r] \cup {l}
        /\ Put(scache[r], l, proc.ends)[l] = proc.ends
        /\ \A n \in DOMAIN scache[r] : n # l => Put(scache[r], l, proc.ends)[n] = scache[r][n]
    BY DEF Put
  <2> QED BY Zenon, <2>2, <2>3
<1>9. /\ proc'.pc = "index" /\ proc'.r = r /\ proc'.l = l /\ proc'.ends = proc.ends /\ DOMAIN proc' = DOMAIN proc
  BY <1>1 DEF InhibitInv, ProcGood
<1>10. TypeGood'
  <2>1. ASSUME NEW q \in RuleNo, NEW n \in DOMAIN scache'[q]
        PROVE  n \in Rules[q].src /\ scache'[q][n] \in Int
    <3>1. CASE q = r /\ n = l
      BY Zenon, <1>3, <1>8, <3>1
    <3>2. CASE ~(q = r /\ n = l)
      BY Zenon, <1>8, <3>2 DEF InhibitInv, TypeGood
    <3> QED BY Zenon, <3>1, <3>2
  <2> QED BY Zenon, <1>1, <1>8, <2>1, CacheTyped DEF InhibitInv
<1>11. ProcGood'
  BY Zenon, <1>3, <1>8, <1>9 DEF InhibitInv, ProcGood
\* What led somewhere still does, unless the alert there ends sooner now.
<1>12. ASSUME NEW q \in RuleNo, NEW k, NEW t \in Int, Leads(q, k, t), ~(sooner /\ q = r /\ k = Key(r, l))
       PROVE  Leads(q, k, t)'
  <2>1. /\ k \in DOMAIN sindex[q] /\ sindex[q][k] \in DOMAIN scache[q] /\ scache[q][sindex[q][k]] >= t
        /\ Key(q, sindex[q][k]) = k /\ scache[q][sindex[q][k]] \in Int
    BY Zenon, <1>12 DEF Leads, InhibitInv, TypeGood
  <2>2. CASE q # r \/ sindex[q][k] # l
    BY Zenon, <1>1, <1>8, <2>1, <2>2 DEF Leads
  <2>3. CASE q = r /\ sindex[q][k] = l
    <3>1. proc.ends >= t
      BY Zenon, <1>12, <1>7, <2>1, <2>3, <1>3, GeqTrans
    <3> QED BY Zenon, <1>1, <1>8, <2>1, <2>3, <3>1 DEF Leads
  <2> QED BY Zenon, <2>2, <2>3
<1>13. IndexGood'
  <2> SUFFICES ASSUME NEW q \in RuleNo, NEW n \in DOMAIN scache'[q], <<q, n>> \notin spoiled', ~InHand(q, n)'
               PROVE  Leads(q, Key(q, n), scache[q][n])'
    BY Zenon DEF IndexGood, Key
  <2>1. ~(q = r /\ n = l)
    BY Zenon, <1>9 DEF InHand
  <2>2. n \in DOMAIN scache[q] /\ scache'[q][n] = scache[q][n] /\ n \in Rules[q].src /\ scache[q][n] \in Int
    BY Zenon, <1>8, <2>1 DEF InhibitInv, TypeGood
  <2>3. <<q, n>> \notin spoiled /\ <<q, n>> \notin gone
    BY Zenon, <1>2, <2>1, PairsDiffer
  <2>4. ~InHand(q, n)
    BY <1>1 DEF InHand
  <2>5. Leads(q, Key(q, n), scache[q][n])
    BY Zenon, <2>2, <2>3, <2>4 DEF InhibitInv, IndexGood
  <2>6. ~(sooner /\ q = r /\ Key(q, n) = Key(r, l))
    BY Zenon, <1>4, <2>1, <2>2, <2>3
  <2>7. Leads(q, Key(q, n), scache[q][n])'
    BY Zenon, <1>12, <2>2, <2>5, <2>6 DEF Leads
  <2> QED BY Zenon, <2>2, <2>7 DEF Leads
<1>14. AskGood'
  <2>1. ASSUME NEW x \in ask.firing \ (gone \cup less)
        PROVE  x[1] \in RuleNo /\ ~(sooner /\ x[1] = r /\ Key(x[1], x[2]) = Key(r, l))
    <3>1. x = <<x[1], x[2]>> /\ x[1] \in RuleNo /\ x[2] \in Rules[x[1]].src
      BY Zenon DEF InhibitInv, AskGood, AskType
    <3> QED BY Zenon, <1>4, <1>6, <3>1
  <2>2. ask.at + 1 \in Int
    BY DEF InhibitInv, AskGood, AskType
  <2>3. ask.pc \in {"index", "cache"} =>
            \A x \in ask.firing \ (gone \cup less) : Leads(x[1], Key(x[1], x[2]), ask.at + 1)'
    <3>1. ask'.at = ask.at
      BY <1>2 DEF InhibitInv, AskGood, AskType
    <3>2. ASSUME ask.pc \in {"index", "cache"}, NEW x \in ask.firing \ (gone \cup less)
          PROVE  Leads(x[1], Key(x[1], x[2]), ask.at + 1)'
      <4>1. Leads(x[1], Key(x[1], x[2]), ask.at + 1)
        BY Zenon, <3>2 DEF InhibitInv, AskGood, AskLeads
      <4> QED BY Zenon, <1>12, <2>1, <2>2, <3>1, <4>1 DEF Leads, Key
    <3> QED BY Zenon, <3>2
  <2>4. ASSUME NEW m \in Rules[ask.r].src, NEW x \in ask.firing \ (gone \cup less),
               ask.pc = "cache", x[1] = ask.r, Key(ask.r, x[2]) = Key(ask.r, m),
               m \in DOMAIN scache[ask.r], scache[ask.r][m] >= ask.at + 1
        PROVE  m \in DOMAIN scache'[ask.r] /\ scache'[ask.r][m] >= ask.at + 1
    <3>1. ask.r \in RuleNo /\ scache[ask.r][m] \in Int
      BY Zenon, <2>1, <2>4 DEF InhibitInv, TypeGood
    <3>2. CASE ask.r = r /\ m = l
      <4>1. proc.ends >= scache[r][l]
        BY Zenon, <1>7, <2>1, <2>4, <3>2
      <4>2. proc.ends >= ask.at + 1
        BY Zenon, <1>3, <2>2, <2>4, <3>1, <3>2, <4>1, GeqTrans
      <4> QED BY Zenon, <1>8, <3>2, <4>2
    <3>3. CASE ~(ask.r = r /\ m = l)
      BY Zenon, <1>8, <2>4, <3>1, <3>3
    <3> QED BY Zenon, <3>2, <3>3
  <2> QED BY Zenon, <1>2, <2>3, <2>4, AskShrinks DEF InhibitInv
<1> QED BY Zenon, <1>10, <1>11, <1>13, <1>14 DEF InhibitInv

\* updateIndex is over, and the next rule is at hand.
LEMMA DoneGood ==
    ASSUME InhibitSetting, ProcGood, proc.pc \in {"index", "compare"}, Done
    PROVE  ProcGood' /\ proc'.pc \in {"idle", "set"}
<1> DEFINE s == NextSource(proc.l, proc.r + 1)
<1>1. CASE s = 0
  <2>1. proc' = NoProc
    BY Zenon, <1>1 DEF Done
  <2> QED BY <2>1 DEF ProcGood, NoProc
<1>2. CASE s # 0
  <2>1. s \in RuleNo /\ proc.l \in Rules[s].src
    BY Zenon, <1>2, NextSourceGood
  <2>2. proc' = [proc EXCEPT !.pc = "set", !.r = s, !.indexed = {}]
    BY Zenon, <1>2 DEF Done
  <2>3. DOMAIN proc = {"pc", "l", "ends", "r", "indexed"} /\ proc.ends \in Int
    BY Zenon DEF ProcGood
  <2> HIDE DEF s
  <2>4. DOMAIN proc' = DOMAIN proc /\ proc'.pc = "set" /\ proc'.r = s /\ proc'.l = proc.l /\ proc'.ends = proc.ends
    BY <2>2, <2>3
  <2> QED BY <2>1, <2>3, <2>4 DEF ProcGood
<1> QED BY Zenon, <1>1, <1>2

\* The alert at hand enters the index, and ends no sooner than the one that was there.
LEMMA Reindexed ==
    ASSUME InhibitSetting, InhibitInv, proc.pc \in {"index", "compare"}, Done,
           Index(proc.r, Key(proc.r, proc.l), proc.l), UNCHANGED <<inow, scache, ask, spoiled>>,
           \A t \in Int : Leads(proc.r, Key(proc.r, proc.l), t)
               => proc.l \in DOMAIN scache[proc.r] /\ scache[proc.r][proc.l] >= t
    PROVE  InhibitInv'
<1> DEFINE r == proc.r
           l == proc.l
           k == Key(r, l)
<1>1. r \in RuleNo /\ l \in Rules[r].src
  BY Zenon DEF InhibitInv, ProcGood
<1>2. \A t \in Int : Leads(r, k, t) => l \in DOMAIN scache[r] /\ scache[r][l] >= t
  BY Zenon
<1>3. DOMAIN sindex = RuleNo /\ sindex' = [sindex EXCEPT ![r] = Put(@, k, l)]
  BY Zenon DEF InhibitInv, TypeGood, Index
<1>4. ProcGood' /\ proc'.pc \in {"idle", "set"}
  BY Zenon, DoneGood DEF InhibitInv
<1> HIDE DEF r, l, k
<1>5. /\ DOMAIN sindex' = RuleNo /\ \A q \in RuleNo : q # r => sindex'[q] = sindex[q]
      /\ DOMAIN sindex'[r] = DOMAIN sindex[r] \cup {k} /\ sindex'[r][k] = l
      /\ \A j \in DOMAIN sindex[r] : j # k => sindex'[r][j] = sindex[r][j]
  <2>1. sindex'[r] = Put(sindex[r], k, l) /\ DOMAIN sindex' = RuleNo /\ \A q \in RuleNo : q # r => sindex'[q] = sindex[q]
    BY Zenon, <1>1, <1>3
  <2>2. /\ DOMAIN Put(sindex[r], k, l) = DOMAIN sindex[r] \cup {k} /\ Put(sindex[r], k, l)[k] = l
        /\ \A j \in DOMAIN sindex[r] : j # k => Put(sindex[r], k, l)[j] = sindex[r][j]
    BY DEF Put
  <2> QED BY Zenon, <2>1, <2>2
<1>6. Key(r, l) = k
  BY Zenon DEF k, r, l
<1>7. TypeGood'
  <2>1. ASSUME NEW q \in RuleNo, NEW j \in DOMAIN sindex'[q]
        PROVE  sindex'[q][j] \in Rules[q].src /\ Key(q, sindex'[q][j]) = j
    <3>1. CASE q = r /\ j = k
      BY Zenon, <1>1, <1>5, <1>6, <3>1
    <3>2. CASE ~(q = r /\ j = k)
      BY Zenon, <1>5, <3>2 DEF InhibitInv, TypeGood
    <3> QED BY Zenon, <3>1, <3>2
  <2> QED BY Zenon, <1>5, <2>1 DEF InhibitInv, TypeGood, Key
<1>8. ASSUME NEW q \in RuleNo, NEW j, NEW t \in Int, Leads(q, j, t)
      PROVE  Leads(q, j, t)'
  <2>1. CASE q = r /\ j = k
    BY Zenon, <1>2, <1>5, <1>8, <2>1 DEF Leads
  <2>2. CASE ~(q = r /\ j = k)
    BY Zenon, <1>5, <1>8, <2>2 DEF Leads
  <2> QED BY Zenon, <2>1, <2>2
<1>9. IndexGood'
  <2> SUFFICES ASSUME NEW q \in RuleNo, NEW n \in DOMAIN scache[q], <<q, n>> \notin spoiled
               PROVE  Leads(q, Key(q, n), scache[q][n])'
    BY Zenon DEF IndexGood, Key, Leads
  <2>1. scache[q][n] \in Int
    BY Zenon DEF InhibitInv, TypeGood
  <2>2. CASE q = r /\ n = l
    <3>1. scache[q][n] >= scache[q][n]
      BY <2>1
    <3> QED BY Zenon, <1>5, <1>6, <2>2, <3>1 DEF Leads, Key
  <2>3. CASE ~(q = r /\ n = l)
    <3>1. ~InHand(q, n)
      BY Zenon, <2>3 DEF InHand, r, l
    <3>2. Leads(q, Key(q, n), scache[q][n])
      BY Zenon, <3>1 DEF InhibitInv, IndexGood
    <3>3. Leads(q, Key(q, n), scache[q][n])'
      BY Zenon, <1>8, <2>1, <3>2 DEF Leads, Key
    <3> QED BY Zenon, <3>3
  <2> QED BY Zenon, <2>2, <2>3
<1>10. AskGood'
  <2>1. ask.at + 1 \in Int
    BY DEF InhibitInv, AskGood, AskType
  <2>2. AskLeads'
    <3> SUFFICES ASSUME ask.pc \in {"index", "cache"}, NEW x \in ask.firing
                 PROVE  Leads(x[1], Key(x[1], x[2]), ask.at + 1)'
      BY Zenon DEF AskLeads, Leads, Key
    <3>1. x[1] \in RuleNo /\ Leads(x[1], Key(x[1], x[2]), ask.at + 1)
      BY Zenon DEF InhibitInv, AskGood, AskType, AskLeads
    <3> QED BY Zenon, <1>8, <2>1, <3>1 DEF Leads, Key
  <2> QED BY Zenon, <2>2 DEF InhibitInv, AskGood, AskType, AskFound, AskPast, Found, Applies, Key
<1> QED BY Zenon, <1>4, <1>7, <1>9, <1>10 DEF InhibitInv

\* The index stays: it leads from the alert at hand to one that ends no sooner.
LEMMA NotReindexed ==
    ASSUME InhibitSetting, InhibitInv, proc.pc \in {"index", "compare"}, Done,
           UNCHANGED <<inow, scache, sindex, ask, spoiled>>,
           proc.l \in DOMAIN scache[proc.r] /\ <<proc.r, proc.l>> \notin spoiled
               => Leads(proc.r, Key(proc.r, proc.l), scache[proc.r][proc.l])
    PROVE  InhibitInv'
<1>1. ProcGood'
  BY Zenon, DoneGood DEF InhibitInv
<1>2. IndexGood'
  <2> SUFFICES ASSUME NEW q \in RuleNo, NEW n \in DOMAIN scache[q], <<q, n>> \notin spoiled
               PROVE  Leads(q, Key(q, n), scache[q][n])
    BY Zenon DEF IndexGood, Key, Leads
  <2>1. CASE q = proc.r /\ n = proc.l
    BY Zenon, <2>1
  <2>2. CASE ~(q = proc.r /\ n = proc.l)
    BY Zenon, <2>2 DEF InHand, InhibitInv, IndexGood
  <2> QED BY Zenon, <2>1, <2>2
<1> QED BY Zenon, <1>1, <1>2, TypeKept, AskKept DEF InhibitInv

LEMMA IndexGetStep == ASSUME InhibitSetting, InhibitInv, IndexGet PROVE InhibitInv'
<1> DEFINE r == proc.r
           k == Key(r, proc.l)
<1>1. proc.pc = "index" /\ UNCHANGED <<inow, scache, ask, spoiled>>
  BY Zenon DEF IndexGet
<1>2. proc.pc \in {"index", "compare"}
  BY <1>1
<1>3. \/ k \notin DOMAIN sindex[r] /\ Index(r, k, proc.l) /\ Done
      \/ k \in DOMAIN sindex[r] /\ sindex[r][k] = proc.l /\ Done /\ sindex' = sindex
      \/ /\ k \in DOMAIN sindex[r] /\ sindex[r][k] # proc.l
         /\ proc' = [proc EXCEPT !.pc = "compare", !.indexed = {sindex[r][k]}]
         /\ sindex' = sindex
  BY Zenon DEF IndexGet, Key
<1>4. CASE k \notin DOMAIN sindex[r] /\ Index(r, k, proc.l) /\ Done
  <2>1. \A t : ~Leads(r, k, t)
    BY Zenon, <1>4 DEF Leads
  <2> QED BY Zenon, <1>1, <1>2, <1>4, <2>1, Reindexed
<1>5. CASE k \in DOMAIN sindex[r] /\ sindex[r][k] = proc.l /\ Done /\ sindex' = sindex
  <2>1. proc.l \in DOMAIN scache[r] => scache[r][proc.l] >= scache[r][proc.l]
    BY <1>1 DEF InhibitInv, TypeGood, ProcGood
  <2>2. proc.l \in DOMAIN scache[r] => Leads(r, k, scache[r][proc.l])
    BY Zenon, <1>5, <2>1 DEF Leads
  <2> QED BY Zenon, <1>1, <1>2, <1>5, <2>2, NotReindexed
<1>6. CASE /\ k \in DOMAIN sindex[r]
           /\ proc' = [proc EXCEPT !.pc = "compare", !.indexed = {sindex[r][k]}]
           /\ sindex' = sindex
  <2>1. DOMAIN proc = {"pc", "l", "ends", "r", "indexed"}
    BY Zenon DEF InhibitInv, ProcGood
  <2>2. /\ DOMAIN proc' = DOMAIN proc /\ proc'.pc = "compare" /\ proc'.r = proc.r /\ proc'.l = proc.l
        /\ proc'.ends = proc.ends /\ proc'.indexed = {sindex[r][k]}
    BY <1>6, <2>1
  <2>3. ProcGood'
    BY Zenon, <1>1, <1>2, <1>6, <2>2 DEF InhibitInv, ProcGood, Key
  <2>4. IndexGood'
    BY Zenon, <1>1, <1>2, <1>6, <2>2 DEF InhibitInv, IndexGood, InHand, Leads, Key
  <2> QED BY Zenon, <1>1, <1>6, <2>3, <2>4, TypeKept, AskKept DEF InhibitInv
<1> QED BY Zenon, <1>3, <1>4, <1>5, <1>6

LEMMA IndexCompareStep == ASSUME InhibitSetting, InhibitInv, IndexCompare PROVE InhibitInv'
<1> DEFINE r == proc.r
           l == proc.l
           k == Key(r, l)
<1>1. proc.pc = "compare" /\ Done /\ UNCHANGED <<inow, scache, ask, spoiled>>
  BY Zenon DEF IndexCompare
<1>2. proc.pc \in {"index", "compare"}
  BY <1>1
<1>3. PICK m \in proc.indexed : (Replaces(r, m) /\ Index(r, k, l)) \/ (~Replaces(r, m) /\ sindex' = sindex)
  BY Zenon DEF IndexCompare, Key
<1>4. r \in RuleNo /\ l \in Rules[r].src /\ proc.ends \in Int
  BY Zenon, <1>1 DEF InhibitInv, ProcGood
<1>5. k \in DOMAIN sindex[r] => m = sindex[r][k]
  BY Zenon, <1>1, <1>3 DEF InhibitInv, ProcGood
<1>6. l \in DOMAIN scache[r] /\ <<r, l>> \notin spoiled => k \in DOMAIN sindex[r]
  BY Zenon, <1>1, <1>4 DEF InhibitInv, ProcGood
<1>7. IF l \in DOMAIN scache[r] THEN scache[r][l] = proc.ends
      ELSE \A n \in DOMAIN scache[r] : scache[r][n] > proc.ends
  BY Zenon, <1>2 DEF InhibitInv, ProcGood
<1>8. \A n \in DOMAIN scache[r] : scache[r][n] \in Int
  BY Zenon, <1>4 DEF InhibitInv, TypeGood
<1>9. CASE Replaces(r, m) /\ Index(r, k, l)
  <2>1. ASSUME NEW t \in Int, Leads(r, k, t)
        PROVE  l \in DOMAIN scache[r] /\ scache[r][l] >= t
    <3>1. m \in DOMAIN scache[r] /\ scache[r][m] >= t /\ scache[r][m] \in Int
      BY Zenon, <1>5, <1>8, <2>1 DEF Leads
    <3>2. scache[r][m] <= proc.ends
      BY Zenon, <1>9, <3>1 DEF Replaces, ResolvedAt
    <3> HIDE DEF r, l
    <3>3. ~(scache[r][m] > proc.ends) /\ proc.ends >= t
      BY <1>4, <3>1, <3>2
    <3> QED BY Zenon, <1>7, <3>1, <3>3
  <2> QED BY Zenon, <1>1, <1>2, <1>9, <2>1, Reindexed
<1>10. CASE ~Replaces(r, m) /\ sindex' = sindex
  <2>1. m \in DOMAIN scache[r] /\ ~(scache[r][m] <= proc.ends) /\ scache[r][m] \in Int
    BY Zenon, <1>8, <1>10 DEF Replaces, ResolvedAt
  <2>2. scache[r][m] >= proc.ends
    BY <1>4, <2>1
  <2>3. l \in DOMAIN scache[r] /\ <<r, l>> \notin spoiled => Leads(r, k, scache[r][l])
    BY Zenon, <1>5, <1>6, <1>7, <2>1, <2>2 DEF Leads
  <2> QED BY Zenon, <1>1, <1>2, <1>10, <2>3, NotReindexed
<1> QED BY Zenon, <1>3, <1>9, <1>10

-----------------------------------------------------------------------------
(* Garbage collection *)

LEMMA CacheGCStep == ASSUME InhibitInv, NEW r \in RuleNo, CacheGC(r) PROVE InhibitInv'
<1> DEFINE keys == {Rules[r].eq[l] : l \in Collected(r)}
           less == {r} \X {l \in Rules[r].src : Rules[r].eq[l] \in keys}
<1>1. /\ scache' = [scache EXCEPT ![r] = [l \in DOMAIN @ \ Collected(r) |-> @[l]]]
      /\ UNCHANGED <<inow, sindex, proc>>
  BY Zenon DEF CacheGC
<1>2. spoiled' = spoiled /\ ask' = [ask EXCEPT !.firing = @ \ ({} \cup less)]
  <2>1. Spoils({}, {}, less)
    BY Zenon DEF CacheGC
  <2> HIDE DEF less
  <2>2. spoiled' = (spoiled \ {}) \cup {} /\ ask' = [ask EXCEPT !.firing = @ \ ({} \cup less)]
    BY Zenon, <2>1, SpoilsGives
  <2> QED BY Zenon, <2>2, NothingTaken
<1>3. \A n \in Rules[r].src : (\E l \in Collected(r) : Key(r, l) = Key(r, n)) => <<r, n>> \in less
  BY Zenon DEF Key
<1>4. /\ DOMAIN scache' = RuleNo /\ \A q \in RuleNo : q # r => scache'[q] = scache[q]
      /\ DOMAIN scache'[r] = DOMAIN scache[r] \ Collected(r)
      /\ \A n \in DOMAIN scache'[r] : scache'[r][n] = scache[r][n]
  <2>1. scache'[r] = [l \in DOMAIN scache[r] \ Collected(r) |-> scache[r][l]]
        /\ DOMAIN scache' = RuleNo /\ \A q \in RuleNo : q # r => scache'[q] = scache[q]
    BY Zenon, <1>1 DEF InhibitInv, TypeGood
  <2> QED BY Zenon, <2>1
<1>5. \A n \in DOMAIN scache[r] : scache[r][n] \in Int /\ (n \in Collected(r) <=> scache[r][n] <= inow)
  BY Zenon DEF InhibitInv, TypeGood, Collected, ResolvedAt
<1>6. inow \in Int
  BY Zenon DEF InhibitInv, TypeGood
<1> HIDE DEF less, keys
<1>7. TypeGood'
  <2>1. ASSUME NEW q \in RuleNo, NEW n \in DOMAIN scache'[q]
        PROVE  n \in Rules[q].src /\ scache'[q][n] \in Int
    <3>1. n \in DOMAIN scache[q] /\ scache'[q][n] = scache[q][n]
      BY Zenon, <1>4
    <3> QED BY Zenon, <3>1 DEF InhibitInv, TypeGood
  <2> QED BY Zenon, <1>1, <1>4, <2>1, CacheTyped DEF InhibitInv
<1>8. ProcGood'
  <2>1. ASSUME proc.pc \in {"index", "compare"}
        PROVE  IF proc.l \in DOMAIN scache'[proc.r] THEN scache'[proc.r][proc.l] = proc.ends
               ELSE \A n \in DOMAIN scache'[proc.r] : scache'[proc.r][n] > proc.ends
    <3>1. IF proc.l \in DOMAIN scache[proc.r] THEN scache[proc.r][proc.l] = proc.ends
          ELSE \A n \in DOMAIN scache[proc.r] : scache[proc.r][n] > proc.ends
      BY Zenon, <2>1 DEF InhibitInv, ProcGood
    <3>2. proc.r \in RuleNo /\ proc.ends \in Int
      BY <2>1 DEF InhibitInv, ProcGood
    <3>3. CASE proc.r # r \/ proc.l \in DOMAIN scache'[proc.r] \/ proc.l \notin DOMAIN scache[proc.r]
      BY Zenon, <1>4, <3>1, <3>2, <3>3
    <3>4. CASE proc.r = r /\ proc.l \notin DOMAIN scache'[r] /\ proc.l \in DOMAIN scache[r]
      <4>1. scache[r][proc.l] = proc.ends /\ scache[r][proc.l] <= inow
        BY Zenon, <1>4, <1>5, <3>1, <3>4
      <4>2. ASSUME NEW n \in DOMAIN scache'[r] PROVE scache'[r][n] > proc.ends
        <5>1. scache'[r][n] = scache[r][n] /\ scache[r][n] \in Int /\ ~(scache[r][n] <= inow)
          BY Zenon, <1>4, <1>5
        <5> QED BY <1>6, <3>2, <4>1, <5>1
      <4> QED BY Zenon, <3>4, <4>2
    <3> QED BY Zenon, <3>3, <3>4
  <2> QED BY Zenon, <1>1, <1>2, <2>1 DEF InhibitInv, ProcGood, Key
<1>9. IndexGood'
  <2> SUFFICES ASSUME NEW q \in RuleNo, NEW n \in DOMAIN scache'[q], <<q, n>> \notin spoiled, ~InHand(q, n)
               PROVE  Leads(q, Key(q, n), scache[q][n])'
    BY Zenon, <1>1, <1>2 DEF IndexGood, Key, InHand
  <2>1. n \in DOMAIN scache[q] /\ scache'[q][n] = scache[q][n] /\ Leads(q, Key(q, n), scache[q][n])
    BY Zenon, <1>4 DEF InhibitInv, IndexGood
  <2>2. CASE q # r
    BY Zenon, <1>1, <1>4, <2>1, <2>2 DEF Leads
  <2>3. CASE q = r
    <3> DEFINE m == sindex[r][Key(r, n)]
    <3>1. /\ m \in DOMAIN scache[r] /\ scache[r][m] >= scache[r][n] /\ scache[r][m] \in Int
          /\ scache[r][n] \in Int /\ ~(scache[r][n] <= inow)
      BY Zenon, <1>4, <1>5, <2>1, <2>3 DEF Leads
    <3>2. ~(scache[r][m] <= inow)
      BY <1>6, <3>1
    <3>3. m \in DOMAIN scache'[r] /\ scache'[r][m] = scache[r][m]
      BY Zenon, <1>4, <1>5, <3>1, <3>2
    <3> QED BY Zenon, <1>1, <2>1, <2>3, <3>1, <3>3 DEF Leads
  <2> QED BY Zenon, <2>2, <2>3
<1>10. AskGood'
  <2>1. ASSUME NEW x \in ask.firing \ ({} \cup less), NEW m \in DOMAIN scache[x[1]], Key(x[1], m) = Key(x[1], x[2])
        PROVE  m \in DOMAIN scache'[x[1]] /\ scache'[x[1]][m] = scache[x[1]][m]
    <3>1. x = <<x[1], x[2]>> /\ x[1] \in RuleNo /\ x[2] \in Rules[x[1]].src
      BY Zenon DEF InhibitInv, AskGood, AskType
    <3>2. CASE x[1] # r
      BY Zenon, <1>4, <3>1, <3>2
    <3>3. CASE x[1] = r
      <4>1. m \notin Collected(r)
        BY Zenon, <1>3, <2>1, <3>1, <3>3
      <4> QED BY Zenon, <1>4, <2>1, <3>3, <4>1
    <3> QED BY Zenon, <3>2, <3>3
  <2>2. ASSUME ask.pc \in {"index", "cache"}, NEW x \in ask.firing \ ({} \cup less)
        PROVE  Leads(x[1], Key(x[1], x[2]), ask.at + 1)'
    <3> DEFINE m == sindex[x[1]][Key(x[1], x[2])]
    <3>1. x[1] \in RuleNo /\ Leads(x[1], Key(x[1], x[2]), ask.at + 1)
      BY Zenon, <2>2 DEF InhibitInv, AskGood, AskType, AskLeads
    <3>2. m \in DOMAIN scache[x[1]] /\ Key(x[1], m) = Key(x[1], x[2])
      BY Zenon, <3>1 DEF Leads, InhibitInv, TypeGood
    <3>3. m \in DOMAIN scache'[x[1]] /\ scache'[x[1]][m] = scache[x[1]][m]
      BY Zenon, <2>1, <3>2
    <3>4. /\ Key(x[1], x[2]) \in DOMAIN sindex[x[1]] /\ m \in DOMAIN scache'[x[1]]
          /\ scache'[x[1]][m] >= ask.at + 1
      BY Zenon, <3>1, <3>3 DEF Leads
    <3>5. ask'.at = ask.at
      BY <1>2 DEF InhibitInv, AskGood, AskType
    <3> QED BY Zenon, <1>1, <3>4, <3>5 DEF Leads, Key
  <2>3. ASSUME NEW m \in Rules[ask.r].src, NEW x \in ask.firing \ ({} \cup less),
               ask.pc = "cache", x[1] = ask.r, Key(ask.r, x[2]) = Key(ask.r, m),
               m \in DOMAIN scache[ask.r], scache[ask.r][m] >= ask.at + 1
        PROVE  m \in DOMAIN scache'[ask.r] /\ scache'[ask.r][m] >= ask.at + 1
    BY Zenon, <2>1, <2>3
  <2> DEFINE S == {} \cup less
  <2>4. ask.pc \in {"index", "cache"} => \A x \in ask.firing \ S : Leads(x[1], Key(x[1], x[2]), ask.at + 1)'
    BY Zenon, <2>2
  <2>5. \A m \in Rules[ask.r].src : \A x \in ask.firing \ S :
           /\ ask.pc = "cache" /\ x[1] = ask.r /\ Key(ask.r, x[2]) = Key(ask.r, m)
           /\ m \in DOMAIN scache[ask.r] /\ scache[ask.r][m] >= ask.at + 1
           => m \in DOMAIN scache'[ask.r] /\ scache'[ask.r][m] >= ask.at + 1
    BY Zenon, <2>3
  <2>6. ask' = [ask EXCEPT !.firing = @ \ S] /\ AskGood
    BY Zenon, <1>2 DEF InhibitInv
  <2> HIDE DEF S
  <2> QED BY Zenon, <2>4, <2>5, <2>6, AskShrinks
<1> QED BY Zenon, <1>7, <1>8, <1>9, <1>10 DEF InhibitInv

LEMMA gcCallbackStep == ASSUME InhibitInv, NEW r \in RuleNo, gcCallback(r) PROVE InhibitInv'
<1>1. PICK k \in gcd[r] :
        /\ sindex' = [sindex EXCEPT ![r] = [j \in DOMAIN @ \ {k} |-> @[j]]]
        /\ Spoils({r} \X {l \in Rules[r].src : Rules[r].eq[l] = k}, {}, {})
        /\ UNCHANGED <<inow, scache, proc>>
  BY Zenon DEF gcCallback
<1> DEFINE gone == {r} \X {l \in Rules[r].src : Rules[r].eq[l] = k}
<1>2. spoiled' = (spoiled \ {}) \cup gone /\ ask' = [ask EXCEPT !.firing = @ \ (gone \cup {})]
  BY Zenon, <1>1, SpoilsGives
<1>3. \A n \in Rules[r].src : Key(r, n) = k => <<r, n>> \in gone
  BY Zenon DEF Key
<1>4. /\ DOMAIN sindex' = RuleNo /\ \A q \in RuleNo : q # r => sindex'[q] = sindex[q]
      /\ DOMAIN sindex'[r] = DOMAIN sindex[r] \ {k}
      /\ \A j \in DOMAIN sindex'[r] : sindex'[r][j] = sindex[r][j]
  <2>1. sindex'[r] = [j \in DOMAIN sindex[r] \ {k} |-> sindex[r][j]]
        /\ DOMAIN sindex' = RuleNo /\ \A q \in RuleNo : q # r => sindex'[q] = sindex[q]
    BY Zenon, <1>1 DEF InhibitInv, TypeGood
  <2> QED BY Zenon, <2>1
<1> HIDE DEF gone
<1>5. TypeGood'
  <2>1. ASSUME NEW q \in RuleNo, NEW j \in DOMAIN sindex'[q]
        PROVE  sindex'[q][j] \in Rules[q].src /\ Key(q, sindex'[q][j]) = j
    <3>1. j \in DOMAIN sindex[q] /\ sindex'[q][j] = sindex[q][j]
      BY Zenon, <1>4
    <3> QED BY Zenon, <3>1 DEF InhibitInv, TypeGood
  <2> QED BY Zenon, <1>1, <1>4, <2>1 DEF InhibitInv, TypeGood, Key
<1>6. ProcGood'
  <2>1. ASSUME proc.pc = "compare"
        PROVE  IF Key(proc.r, proc.l) \in DOMAIN sindex'[proc.r]
               THEN proc.indexed = {sindex'[proc.r][Key(proc.r, proc.l)]}
               ELSE \A n \in Rules[proc.r].src : Key(proc.r, n) = Key(proc.r, proc.l) => <<proc.r, n>> \in spoiled'
    <3>1. IF Key(proc.r, proc.l) \in DOMAIN sindex[proc.r]
          THEN proc.indexed = {sindex[proc.r][Key(proc.r, proc.l)]}
          ELSE \A n \in Rules[proc.r].src : Key(proc.r, n) = Key(proc.r, proc.l) => <<proc.r, n>> \in spoiled
      BY Zenon, <2>1 DEF InhibitInv, ProcGood
    <3>2. proc.r \in RuleNo
      BY <2>1 DEF InhibitInv, ProcGood
    <3>3. \A x : x \in spoiled \/ x \in gone => x \in spoiled'
      BY Zenon, <1>2
    <3>4. CASE proc.r = r /\ Key(proc.r, proc.l) = k
      BY Zenon, <1>3, <1>4, <3>3, <3>4
    <3>5. CASE proc.r # r
      BY Zenon, <1>4, <3>1, <3>2, <3>3, <3>5
    <3>6. CASE proc.r = r /\ Key(proc.r, proc.l) # k
      BY Zenon, <1>4, <3>1, <3>3, <3>6
    <3> QED BY Zenon, <3>4, <3>5, <3>6
  <2> QED BY Zenon, <1>1, <2>1 DEF InhibitInv, ProcGood, Key
<1>7. ASSUME NEW q \in RuleNo, NEW j, NEW t, Leads(q, j, t), ~(q = r /\ j = k)
      PROVE  j \in DOMAIN sindex'[q] /\ sindex'[q][j] \in DOMAIN scache[q] /\ scache[q][sindex'[q][j]] >= t
  BY Zenon, <1>4, <1>7 DEF Leads
<1>8. IndexGood'
  <2> SUFFICES ASSUME NEW q \in RuleNo, NEW n \in DOMAIN scache[q], <<q, n>> \notin spoiled', ~InHand(q, n)
               PROVE  Leads(q, Key(q, n), scache[q][n])'
    BY Zenon, <1>1 DEF IndexGood, Key, InHand, Leads
  <2>1. <<q, n>> \notin spoiled /\ <<q, n>> \notin gone /\ n \in Rules[q].src
    BY Zenon, <1>2 DEF InhibitInv, TypeGood
  <2>2. Leads(q, Key(q, n), scache[q][n]) /\ ~(q = r /\ Key(q, n) = k)
    BY Zenon, <1>3, <2>1 DEF InhibitInv, IndexGood
  <2> QED BY Zenon, <1>1, <1>7, <2>2 DEF Leads, Key
<1>9. AskGood'
  <2>1. ASSUME ask.pc \in {"index", "cache"}, NEW x \in ask.firing \ (gone \cup {})
        PROVE  Leads(x[1], Key(x[1], x[2]), ask.at + 1)'
    <3>1. x = <<x[1], x[2]>> /\ x[1] \in RuleNo /\ x[2] \in Rules[x[1]].src /\ Leads(x[1], Key(x[1], x[2]), ask.at + 1)
      BY Zenon, <2>1 DEF InhibitInv, AskGood, AskType, AskLeads
    <3>2. ~(x[1] = r /\ Key(x[1], x[2]) = k)
      BY Zenon, <1>3, <3>1
    <3>3. ask'.at = ask.at
      BY <1>2 DEF InhibitInv, AskGood, AskType
    <3> QED BY Zenon, <1>1, <1>7, <3>1, <3>2, <3>3 DEF Leads, Key
  <2> QED BY Zenon, <1>1, <1>2, <2>1, AskShrinks DEF InhibitInv
<1> QED BY Zenon, <1>5, <1>6, <1>8, <1>9 DEF InhibitInv

-----------------------------------------------------------------------------
(* Mutes *)

LEMMA AskStep == ASSUME InhibitSetting, InhibitInv, NEW l, Ask(l) PROVE InhibitInv'
<1> DEFINE fires == (UNION {Firing(r) : r \in RuleNo}) \ (spoiled \cup {<<proc.r, proc.l>>})
<1>1. /\ NextTarget(l, 1) # 0 /\ UNCHANGED <<inow, scache, sindex, proc, spoiled>>
      /\ ask' = [pc |-> "index", l |-> l, at |-> inow, r |-> NextTarget(l, 1), found |-> {}, firing |-> fires]
  BY Zenon DEF Ask
<1>2. ASSUME NEW x \in fires
      PROVE  /\ x = <<x[1], x[2]>> /\ x[1] \in RuleNo /\ x[2] \in Rules[x[1]].src
             /\ Leads(x[1], Key(x[1], x[2]), inow + 1)
  <2>1. PICK r \in RuleNo : x \in Firing(r)
    BY Zenon
  <2>2. PICK m \in DOMAIN scache[r] : x = <<r, m>> /\ ~(scache[r][m] <= inow)
    BY Zenon, <2>1 DEF Firing, ResolvedAt
  <2>3. x[1] = r /\ x[2] = m
    BY <2>2
  <2>4. <<r, m>> \notin spoiled /\ <<r, m>> # <<proc.r, proc.l>>
    <3>1. x \notin spoiled /\ x \notin {<<proc.r, proc.l>>}
      BY Zenon
    <3> QED BY Zenon, <2>2, <3>1
  <2>5. m \in Rules[r].src /\ scache[r][m] \in Int /\ inow \in Int
    BY Zenon DEF InhibitInv, TypeGood
  <2>6. ~InHand(r, m)
    BY Zenon, <2>4 DEF InHand
  <2>7. Leads(r, Key(r, m), scache[r][m])
    BY Zenon, <2>4, <2>6 DEF InhibitInv, IndexGood
  <2>8. /\ sindex[r][Key(r, m)] \in DOMAIN scache[r] /\ scache[r][sindex[r][Key(r, m)]] \in Int
        /\ scache[r][sindex[r][Key(r, m)]] >= scache[r][m]
    BY Zenon, <2>7 DEF Leads, InhibitInv, TypeGood
  <2>9. scache[r][m] >= inow + 1 /\ inow + 1 \in Int
    BY <2>2, <2>5
  <2>10. scache[r][sindex[r][Key(r, m)]] >= inow + 1
    BY Zenon, <2>5, <2>8, <2>9, GeqTrans
  <2>11. Leads(r, Key(r, m), inow + 1)
    BY Zenon, <2>7, <2>10 DEF Leads
  <2> QED BY Zenon, <2>2, <2>3, <2>5, <2>11
<1> HIDE DEF fires
<1>3. /\ DOMAIN ask' = {"pc", "l", "at", "r", "found", "firing"} /\ ask'.pc = "index" /\ ask'.l = l
      /\ ask'.at = inow /\ ask'.r = NextTarget(l, 1) /\ ask'.firing = fires
  BY <1>1
<1>4. NextTarget(l, 1) \in RuleNo /\ \A q \in RuleNo : q >= 1 /\ q < NextTarget(l, 1) => l \notin Rules[q].tgt
  BY <1>1, NextTargetGood
<1>5. \A q \in RuleNo : q >= 1
  BY DEF InhibitSetting, RuleNo
<1>6. AskType'
  BY Zenon, <1>1, <1>2, <1>3, <1>4 DEF InhibitInv, TypeGood, AskType
<1>7. AskLeads'
  BY Zenon, <1>1, <1>2, <1>3 DEF AskLeads, Leads, Key
<1>8. AskFound' /\ ask'.pc # "answered"
  BY <1>3 DEF AskFound
<1>9. AskPast'
  BY Zenon, <1>2, <1>3, <1>4, <1>5, <1>8 DEF AskPast, Applies
<1> QED BY Zenon, <1>1, <1>6, <1>7, <1>8, <1>9, TypeKept, ProcKept, IndexKept DEF InhibitInv, AskGood

\* A rule has no answer only if none of its alerts applies; then the next rule is tried.
LEMMA AnswerGood ==
    ASSUME InhibitSetting, AskGood, ask.pc \in {"index", "cache"}, NEW causes, Answer(causes),
           UNCHANGED <<scache, sindex>>,
           causes = {} => \A x \in ask.firing : x[1] = ask.r => ~Applies(x[1], x[2], ask.l)
    PROVE  AskGood'
<1> DEFINE s == NextTarget(ask.l, ask.r + 1)
<1>1. DOMAIN ask = {"pc", "l", "at", "r", "found", "firing"}
  BY Zenon DEF AskGood, AskType
<1>2. ask.r \in RuleNo /\ ask.r \in Nat /\ ask.r + 1 \in Nat
  <2>1. ask.r \in RuleNo
    BY Zenon DEF AskGood, AskType
  <2> QED BY <2>1, RulesAreNumbers
<1>3. /\ s # 0 => s \in RuleNo
      /\ s # 0 => \A q \in RuleNo : q >= ask.r + 1 /\ q < s => ask.l \notin Rules[q].tgt
      /\ s = 0 => \A q \in RuleNo : q >= ask.r + 1 => ask.l \notin Rules[q].tgt
  BY Zenon, <1>2, NextTargetGood
<1>4. \/ causes = {} /\ s # 0 /\ ask' = [ask EXCEPT !.pc = "index", !.r = s, !.found = {}]
      \/ ~(causes = {} /\ s # 0) /\ ask' = [ask EXCEPT !.pc = "answered", !.found = causes]
  BY Zenon DEF Answer
<1>5. \A q \in RuleNo : q \in Nat
  BY Zenon, RulesAreNumbers
<1>6. \A x \in ask.firing : x[1] < ask.r => ~Applies(x[1], x[2], ask.l)
  BY Zenon DEF AskGood, AskPast
<1>7. \A x \in ask.firing : x[1] \in RuleNo
  BY Zenon DEF AskGood, AskType
<1> HIDE DEF s
<1>8. CASE causes = {} /\ s # 0 /\ ask' = [ask EXCEPT !.pc = "index", !.r = s, !.found = {}]
  <2>1. /\ DOMAIN ask' = DOMAIN ask /\ ask'.pc = "index" /\ ask'.l = ask.l /\ ask'.at = ask.at /\ ask'.r = s
        /\ ask'.firing = ask.firing /\ ask'.pc # "cache" /\ ask'.pc # "answered"
    BY <1>1, <1>8
  <2>2. ASSUME NEW x \in ask.firing, x[1] < s PROVE ~Applies(x[1], x[2], ask.l)
    <3>1. x[1] < ask.r \/ x[1] = ask.r \/ x[1] >= ask.r + 1
      BY <1>2, <1>5, <1>7
    <3>2. CASE x[1] >= ask.r + 1
      BY Zenon, <1>3, <1>7, <1>8, <2>2, <3>2 DEF Applies
    <3> QED BY Zenon, <1>6, <1>8, <3>1, <3>2
  <2>3. AskType'
    BY Zenon, <1>3, <1>8, <2>1 DEF AskGood, AskType
  <2>4. AskLeads'
    BY Zenon, <2>1 DEF AskGood, AskLeads, Leads, Key
  <2>5. AskFound' /\ AskPast'
    BY Zenon, <2>1, <2>2 DEF AskFound, AskPast, Applies
  <2> QED BY Zenon, <2>3, <2>4, <2>5 DEF AskGood
<1>9. CASE ~(causes = {} /\ s # 0) /\ ask' = [ask EXCEPT !.pc = "answered", !.found = causes]
  <2>1. /\ DOMAIN ask' = DOMAIN ask /\ ask'.pc = "answered" /\ ask'.l = ask.l /\ ask'.at = ask.at
        /\ ask'.firing = ask.firing /\ ask'.found = causes /\ ask'.pc \notin {"index", "cache"} /\ ask'.pc # "cache"
    BY <1>1, <1>9
  <2>2. ASSUME NEW x \in ask.firing, causes = {} PROVE ~Applies(x[1], x[2], ask.l)
    <3>1. x[1] < ask.r \/ x[1] = ask.r \/ x[1] >= ask.r + 1
      BY <1>2, <1>5, <1>7
    <3>2. CASE x[1] >= ask.r + 1
      BY Zenon, <1>3, <1>7, <1>9, <2>2, <3>2 DEF Applies
    <3> QED BY Zenon, <1>6, <2>2, <3>1, <3>2
  <2>3. AskType' /\ AskLeads' /\ AskFound'
    BY Zenon, <2>1 DEF AskGood, AskType, AskLeads, AskFound
  <2>4. AskPast'
    BY Zenon, <2>1, <2>2 DEF AskPast, Applies
  <2> QED BY Zenon, <2>3, <2>4 DEF AskGood
<1> QED BY Zenon, <1>4, <1>8, <1>9

LEMMA MutesIndexStep == ASSUME InhibitSetting, InhibitInv, MutesIndex PROVE InhibitInv'
<1> DEFINE k == Key(ask.r, ask.l)
<1>1. ask.pc = "index" /\ UNCHANGED <<inow, scache, sindex, proc, spoiled>>
  BY Zenon DEF MutesIndex
<1>2. ask.r \in RuleNo
  BY <1>1 DEF InhibitInv, AskGood, AskType
<1>3. \A x \in ask.firing : Leads(x[1], Key(x[1], x[2]), ask.at + 1)
  BY <1>1 DEF InhibitInv, AskGood, AskLeads
<1>4. AskGood'
  <2>1. CASE k \in DOMAIN sindex[ask.r]
    <3>0. PICK m : m = sindex[ask.r][k]
      BY Zenon
    <3>1. ask' = [ask EXCEPT !.pc = "cache", !.found = {m}]
      BY Zenon, <2>1, <3>0 DEF MutesIndex, Key
    <3>2. DOMAIN ask = {"pc", "l", "at", "r", "found", "firing"}
      BY Zenon DEF InhibitInv, AskGood, AskType
    <3>3. m \in Rules[ask.r].src /\ Key(ask.r, m) = k
      BY Zenon, <1>2, <2>1, <3>0 DEF InhibitInv, TypeGood
    <3>4. \A x \in ask.firing : x[1] = ask.r /\ Key(ask.r, x[2]) = k =>
             m \in DOMAIN scache[ask.r] /\ scache[ask.r][m] >= ask.at + 1
      BY Zenon, <1>3, <3>0 DEF Leads
    <3>5. /\ DOMAIN ask' = DOMAIN ask /\ ask'.pc = "cache" /\ ask'.l = ask.l /\ ask'.at = ask.at /\ ask'.r = ask.r
          /\ ask'.firing = ask.firing /\ ask'.found = {m} /\ ask'.pc # "answered"
      BY <3>1, <3>2
    <3>6. Found(m)'
      BY Zenon, <1>1, <3>3, <3>4, <3>5 DEF Found, Key
    <3>7. AskFound'
      BY Zenon, <3>5, <3>6 DEF AskFound
    <3>8. ask.pc \in {"index", "cache"}
      BY <1>1
    <3>9. AskType' /\ AskPast'
      BY Zenon, <3>5, <3>8 DEF InhibitInv, AskGood, AskType, AskPast, Applies
    <3>10. AskLeads'
      BY Zenon, <1>1, <1>3, <3>5 DEF AskLeads, Leads, Key
    <3> QED BY Zenon, <3>7, <3>9, <3>10 DEF AskGood
  <2>2. CASE k \notin DOMAIN sindex[ask.r]
    <3>1. Answer({})
      BY Zenon, <2>2 DEF MutesIndex, Key
    <3>2. ASSUME NEW x \in ask.firing, x[1] = ask.r PROVE ~Applies(x[1], x[2], ask.l)
      BY Zenon, <1>3, <2>2, <3>2 DEF Applies, Leads, Key
    <3>3. ask.pc \in {"index", "cache"}
      BY <1>1
    <3> QED BY Zenon, <1>1, <3>1, <3>2, <3>3, AnswerGood DEF InhibitInv
  <2> QED BY Zenon, <2>1, <2>2
<1> QED BY Zenon, <1>1, <1>4, TypeKept, ProcKept, IndexKept DEF InhibitInv

LEMMA MutesCacheStep == ASSUME InhibitSetting, InhibitInv, MutesCache PROVE InhibitInv'
<1> DEFINE causes == {m \in ask.found : hasEqual(ask.r, m)}
<1>1. ask.pc = "cache" /\ Answer(causes) /\ UNCHANGED <<inow, scache, sindex, proc, spoiled>>
  BY Zenon DEF MutesCache
<1>2. ask.pc \in {"index", "cache"} /\ ask.r \in RuleNo /\ ask.at \in Int
  BY <1>1 DEF InhibitInv, AskGood, AskType
<1>3. PICK m \in ask.found : Found(m)
  BY Zenon, <1>1 DEF InhibitInv, AskGood, AskFound
<1>4. ASSUME causes = {}, NEW x \in ask.firing, x[1] = ask.r, Applies(x[1], x[2], ask.l) PROVE FALSE
  <2>1. ~hasEqual(ask.r, m)
    BY Zenon, <1>3, <1>4 DEF Found
  <2>2. ask.l \notin Rules[ask.r].src /\ Key(ask.r, x[2]) = Key(ask.r, ask.l)
    BY Zenon, <1>4 DEF Applies, Key
  <2>3. m \in DOMAIN scache[ask.r] /\ scache[ask.r][m] >= ask.at + 1
    BY Zenon, <1>3, <1>4, <2>2 DEF Found
  <2>4. scache[ask.r][m] \in Int
    BY Zenon, <1>2, <2>3 DEF InhibitInv, TypeGood
  <2>5. ~(scache[ask.r][m] <= ask.at)
    BY <1>2, <2>3, <2>4
  <2> QED BY Zenon, <2>1, <2>2, <2>3, <2>5 DEF hasEqual, ResolvedAt
<1> HIDE DEF causes
<1>5. AskGood'
  BY Zenon, <1>1, <1>2, <1>4, AnswerGood DEF InhibitInv
<1> QED BY Zenon, <1>1, <1>5, TypeKept, ProcKept, IndexKept DEF InhibitInv

LEMMA MutesReturnStep == ASSUME InhibitInv, MutesReturn PROVE InhibitInv'
<1>1. ask' = NoAsk /\ UNCHANGED <<inow, scache, sindex, proc, spoiled>>
  BY Zenon DEF MutesReturn
<1>2. AskGood'
  BY <1>1 DEF NoAsk, AskGood, AskType, AskLeads, AskFound, AskPast
<1> QED BY Zenon, <1>1, <1>2, TypeKept, ProcKept, IndexKept DEF InhibitInv

-----------------------------------------------------------------------------
(* The theorem *)

LEMMA InhibitStarts == ASSUME InhibitInit PROVE InhibitInv
<1>1. TypeGood
  BY DEF InhibitInit, TypeGood, Nobody
<1>2. ProcGood
  BY DEF InhibitInit, ProcGood, NoProc
<1>3. IndexGood
  BY DEF InhibitInit, IndexGood, Nobody
<1>4. AskGood
  BY DEF InhibitInit, AskGood, AskType, AskLeads, AskFound, AskPast, NoAsk
<1> QED BY Zenon, <1>1, <1>2, <1>3, <1>4 DEF InhibitInv

LEMMA ArrivalStep ==
    ASSUME InhibitSetting, InhibitInv, NEW l, Slurped(l) \/ Received(l)
    PROVE  InhibitInv'
<1>1. Forever \in Int /\ inow \in Int /\ inow + 1 \in Int
  BY DEF InhibitSetting, Forever, InhibitInv, TypeGood
<1>2. PICK e \in {inow, inow + 1, Forever} :
        proc.pc = "idle" /\ Begin(l, e) /\ UNCHANGED <<inow, scache, sindex, spoiled, ask>>
  BY Zenon DEF Slurped, Received
<1>3. e \in Int
  BY <1>1
<1> QED BY Zenon, <1>2, <1>3, BeginGood

LEMMA InhibitorStep == ASSUME InhibitSetting, InhibitInv, [InhibitNext]_inhibitVars PROVE InhibitInv'
<1>1. CASE UNCHANGED <<inow, scache, sindex, proc, ask, spoiled>>
  BY Zenon, <1>1, TypeKept, ProcKept, IndexKept, AskKept DEF InhibitInv
<1>2. CASE InhibitTick
  <2>1. UNCHANGED <<scache, sindex, proc, ask, spoiled>> /\ inow' = inow + 1
    BY Zenon, <1>2 DEF InhibitTick
  <2>2. inow' \in Int
    BY <2>1 DEF InhibitInv, TypeGood
  <2>3. TypeGood'
    BY Zenon, <2>1, <2>2 DEF InhibitInv, TypeGood
  <2> QED BY Zenon, <2>1, <2>3, ProcKept, IndexKept, AskKept DEF InhibitInv
<1>3. CASE \E l \in Lset : Slurped(l) \/ Received(l) \/ Ask(l)
  BY Zenon, <1>3, ArrivalStep, AskStep
<1>4. CASE \E r \in RuleNo : CacheGC(r) \/ gcCallback(r)
  BY Zenon, <1>4, CacheGCStep, gcCallbackStep
<1>5. CASE Process \/ MutesIndex \/ MutesCache \/ MutesReturn
  BY Zenon, <1>5, CacheSetStep, IndexGetStep, IndexCompareStep, MutesIndexStep, MutesCacheStep, MutesReturnStep
     DEF Process
<1>6. LoadingFinished \/ UNCHANGED inhibitVars => UNCHANGED <<inow, scache, sindex, proc, ask, spoiled>>
  BY Zenon DEF LoadingFinished, inhibitVars
<1> QED BY Zenon, <1>1, <1>2, <1>3, <1>4, <1>5, <1>6 DEF InhibitNext

\* updateIndex, hasEqual, gcCallback: whatever the interleaving, Mutes finds a source alert
\* that fired all the time of the call, unless, since that alert was last sent, another one
\* with the same equal labels got an earlier end or was collected.
THEOREM FreshSourceInhibitsThm ==
    ASSUME InhibitSetting
    PROVE  InhibitSpec => []FreshSourceInhibits
<1>1. InhibitInit => InhibitInv
  BY InhibitStarts
<1>2. InhibitInv /\ [InhibitNext]_inhibitVars => InhibitInv'
  BY InhibitorStep
<1>3. InhibitInv => FreshSourceInhibits
  BY Zenon DEF InhibitInv, AskGood, AskPast, FreshSourceInhibits
<1> QED BY <1>1, <1>2, <1>3, PTL DEF InhibitSpec
=============================================================================
