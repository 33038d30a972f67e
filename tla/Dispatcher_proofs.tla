-------------------------- MODULE Dispatcher_proofs --------------------------
(***************************************************************************)
(* Theorems about Dispatcher, for any number of workers, alerts, group keys *)
(* and updates: type correctness, that a firing alert which reached a group *)
(* is never lost, that a group key has at most one notifying group, and     *)
(* that every group in the map is started and counted.                      *)
(***************************************************************************)
EXTENDS Dispatcher, FiniteSetTheorems, TLAPS

\* A group that only its creator knows of.
Private(g) ==
    /\ \A f \in Fp : groups[f] # g
    /\ \A w \in Worker : wk[w].el # g
    /\ ~destroyed[g] /\ run[g] = "none"

\* What a worker knows of its update and of the group it found.
WorkerInv(w) ==
    LET u == wk[w].upd
        e == wk[w].el
        l == wk[w].pc IN
    /\ u # 0 => u <= taken
    /\ l \notin {"idle", "exited"} => u # 0
    /\ l \in {"load", "insert", "limit", "swap", "loadorstore", "reinsert"} => Private(u)
    /\ l \in {"swap", "loadorstore", "reinsert"} => alerts[u][of[u]] = u
    /\ l \in {"insert", "reinsert"} => e # 0 /\ (groups[KeyOf(u)] = e \/ destroyed[e])
    /\ l \in {"limit", "loadorstore"} => e = 0 \/ destroyed[e]
    /\ l = "swap" => e # 0 /\ destroyed[e]
    /\ l \in {"count", "start"} => groups[KeyOf(u)] = u \/ destroyed[u]

\* No two workers handle the same update.
Distinct == \A v, w \in Worker : v # w /\ wk[v].upd # 0 => wk[v].upd # wk[w].upd

\* The updates received were put; the groups of later ones do not exist yet.
Received ==
    /\ \A u \in Gid : u <= taken => of[u] # None
    /\ \A u \in Gid : u > taken => Private(u)

\* A started group is in the map under its key until it is destroyed.
MappedUntilDestroyed ==
    /\ \A g \in Gid : run[g] # "none" => groups[KeyOf(g)] = g \/ destroyed[g]
    /\ \A g \in Gid : destroyed[g] => run[g] \in {"flushed", "done"}
    /\ \A f \in Fp : groups[f] # 0 => KeyOf(groups[f]) = f

\* A flush only takes ended alerts for resolved.
BatchEnded == \A g \in Gid, a \in Alert : batch[g][a] # 0 => batch[g][a] \in ended

\* Maintenance works on a destroyed group.
SweptDestroyed == mt = "stopping" => mtGroup # 0 /\ destroyed[mtGroup]

IInv ==
    /\ TypeOK
    /\ FiringIsHeld
    /\ \A w \in Worker : WorkerInv(w)
    /\ Distinct
    /\ Received
    /\ MappedUntilDestroyed
    /\ BatchEnded
    /\ SweptDestroyed

-----------------------------------------------------------------------------
LEMMA InitInv == Init => IInv
<1> SUFFICES ASSUME Init PROVE IInv
  OBVIOUS
<1>1. TypeOK
  <2>1. Idle \in WorkerRec
    BY DispatcherAssumption DEF Idle, WorkerRec
  <2>2. NoAlerts \in [Alert -> Gid \cup {0}] /\ 0 \in 0 .. MaxUpdates
    BY DispatcherAssumption DEF NoAlerts
  <2>3. timer \in [pc : {"waiting", "ranging", "exited"}, todo : SUBSET Fp]
    BY Zenon DEF Init
  <2>4. /\ wk \in [Worker -> WorkerRec] /\ held \in [Alert -> Gid \cup {0}]
        /\ alerts \in [Gid -> [Alert -> Gid \cup {0}]] /\ batch \in [Gid -> [Alert -> Gid \cup {0}]]
    BY Zenon, <2>1, <2>2 DEF Init
  <2>5. /\ destroyed \in [Gid -> BOOLEAN] /\ cancelled \in [Gid -> BOOLEAN] /\ ctxDone \in BOOLEAN
        /\ run \in [Gid -> {"none", "waiting", "notifying", "flushed", "done"}]
    BY ZenonT(60) DEF Init
  <2>6. /\ of \in [Gid -> Alert \cup {None}] /\ ended \subseteq Gid /\ taken \in 0 .. MaxUpdates
        /\ groups \in [Fp -> Gid \cup {0}] /\ num \in Int
    BY <2>2 DEF Init
  <2> QED BY Zenon, <2>3, <2>4, <2>5, <2>6 DEF Init, TypeOK
<1>2. \A g \in Gid : Private(g)
  BY DEF Init, Private, Idle, Gid
<1>3. FiringIsHeld
  BY Zenon DEF Init, FiringIsHeld, NoAlerts
<1>4. \A w \in Worker : WorkerInv(w)
  BY Zenon DEF Init, WorkerInv, Idle
<1>5. Distinct
  BY Zenon DEF Init, Distinct, Idle
<1>6. Received
  BY <1>2 DEF Init, Received, Gid
<1>7. MappedUntilDestroyed
  BY Zenon DEF Init, MappedUntilDestroyed
<1>8. BatchEnded /\ SweptDestroyed
  BY Zenon DEF Init, BatchEnded, SweptDestroyed, NoAlerts
<1> QED BY Zenon, <1>1, <1>3, <1>4, <1>5, <1>6, <1>7, <1>8 DEF IInv

LEMMA GidPositive == \A g \in Gid : g # 0
BY DEF Gid

\* The types of the worker records and of the updates in hand.
LEMMA WorkerType ==
    ASSUME IInv, NEW w \in Worker, wk[w].pc \notin {"idle", "exited"}
    PROVE  /\ wk[w].upd \in Gid /\ of[wk[w].upd] \in Alert /\ KeyOf(wk[w].upd) \in Fp
           /\ wk[w].upd <= taken
           /\ wk[w].pc \in {"insert", "swap", "reinsert"} => wk[w].el \in Gid
<1>1. WorkerInv(w) /\ TypeOK /\ Received
  BY Zenon DEF IInv
<1>2. wk[w].upd \in Gid /\ wk[w].upd <= taken
  BY Zenon, <1>1 DEF WorkerInv, TypeOK, WorkerRec
<1>3. of[wk[w].upd] \in Alert
  BY Zenon, <1>1, <1>2 DEF Received, TypeOK
<1>4. wk[w].pc \in {"insert", "swap", "reinsert"} => wk[w].el \in Gid
  BY Zenon, <1>1 DEF WorkerInv, TypeOK, WorkerRec
<1> QED BY Zenon, <1>2, <1>3, <1>4, DispatcherAssumption DEF KeyOf

\* The stores after one insert.
LEMMA InsertType ==
    ASSUME TypeOK, NEW g \in Gid, NEW a \in Alert, NEW u \in Gid
    PROVE  /\ [alerts EXCEPT ![g][a] = u] \in [Gid -> [Alert -> Gid \cup {0}]]
           /\ [held EXCEPT ![a] = u] \in [Alert -> Gid \cup {0}]
BY Zenon DEF TypeOK

\* The worker records after a step of one worker.
LEMMA WorkerRecType ==
    ASSUME IInv, NEW w \in Worker
    PROVE  /\ Return(w) => wk' \in [Worker -> WorkerRec]
           /\ \A l \in {"limit", "swap", "loadorstore", "count", "start", "exited"} :
                Goto(w, l) => wk' \in [Worker -> WorkerRec]
           /\ \A l \in {"swap", "loadorstore"} : Retry(w, l) => wk' \in [Worker -> WorkerRec]
           /\ \A l \in {"limit", "insert", "reinsert"}, g \in Gid \cup {0} :
                wk' = [wk EXCEPT ![w].el = g, ![w].pc = l] => wk' \in [Worker -> WorkerRec]
           /\ \A u \in Gid :
                wk' = [wk EXCEPT ![w].pc = "load", ![w].upd = u] => wk' \in [Worker -> WorkerRec]
<1>1. wk \in [Worker -> WorkerRec]
  BY Zenon DEF IInv, TypeOK
<1>2. Idle \in WorkerRec
  BY DispatcherAssumption DEF Idle, WorkerRec
<1>3. ASSUME NEW r \in WorkerRec, wk' = [wk EXCEPT ![w] = r] PROVE wk' \in [Worker -> WorkerRec]
  BY Zenon, <1>1, <1>3
<1>4. Return(w) => wk' \in [Worker -> WorkerRec]
  BY ZenonT(60), <1>2, <1>3 DEF Return
<1>5. ASSUME NEW l \in {"limit", "swap", "loadorstore", "count", "start", "exited"}, Goto(w, l)
      PROVE  wk' \in [Worker -> WorkerRec]
  BY <1>1, <1>5 DEF Goto, WorkerRec
<1>6. ASSUME NEW l \in {"swap", "loadorstore"}, Retry(w, l) PROVE wk' \in [Worker -> WorkerRec]
  <2>1. CASE wk[w].retries + 1 > MaxRetries
    BY Zenon, <1>4, <1>6, <2>1 DEF Retry
  <2>2. CASE ~(wk[w].retries + 1 > MaxRetries)
    BY <1>1, <1>6, <2>2, DispatcherAssumption DEF Retry, WorkerRec
  <2> QED BY Zenon, <2>1, <2>2
<1>7. ASSUME NEW l \in {"limit", "insert", "reinsert"}, NEW g \in Gid \cup {0},
             wk' = [wk EXCEPT ![w].el = g, ![w].pc = l]
      PROVE  wk' \in [Worker -> WorkerRec]
  BY ZenonT(60), <1>1, <1>7 DEF WorkerRec
<1>8. ASSUME NEW u \in Gid, wk' = [wk EXCEPT ![w].pc = "load", ![w].upd = u]
      PROVE  wk' \in [Worker -> WorkerRec]
  BY ZenonT(60), <1>1, <1>8 DEF WorkerRec
<1> QED BY Zenon, <1>4, <1>5, <1>6, <1>7, <1>8

LEMMA TypeStep == IInv /\ [Next]_vars => TypeOK'
<1> SUFFICES ASSUME IInv, [Next]_vars PROVE TypeOK'
  OBVIOUS
<1>0. TypeOK BY Zenon DEF IInv
<1>1. ASSUME NEW u \in Gid, TimeOut(u) PROVE TypeOK'
  BY Zenon, <1>0, <1>1, DispatcherAssumption DEF TimeOut, gVars, inVars, TypeOK, Gid
<1>2. ASSUME NEW u \in Gid, NEW a \in Alert, NEW resolved \in BOOLEAN, Put(u, a, resolved) PROVE TypeOK'
  BY Zenon, <1>0, <1>2, DispatcherAssumption DEF Put, gVars, inVars, TypeOK, Gid
<1>3. ASSUME NEW w \in Worker, Take(w) PROVE TypeOK'
  <2>1. taken + 1 \in Gid /\ taken' \in 0 .. MaxUpdates
    BY <1>0, <1>3, DispatcherAssumption DEF Take, TypeOK, Gid
  <2>2. wk' \in [Worker -> WorkerRec]
    BY ZenonT(60), <1>3, <2>1, WorkerRecType DEF Take
  <2> QED BY Zenon, <1>0, <1>3, <2>1, <2>2 DEF Take, gVars, TypeOK
<1>4. ASSUME NEW w \in Worker, WorkerExit(w) PROVE TypeOK'
  BY ZenonT(60), <1>0, <1>4, WorkerType, WorkerRecType, DispatcherAssumption DEF WorkerExit, gVars, inVars, TypeOK, Gid
<1>5. ASSUME NEW w \in Worker, Load(w) PROVE TypeOK'
  <2>1. wk[w].pc \notin {"idle", "exited"}
    BY Zenon, <1>5 DEF Load
  <2>2. groups[KeyOf(wk[w].upd)] \in Gid \cup {0}
    BY Zenon, <1>0, <2>1, WorkerType DEF TypeOK
  <2>3. wk' \in [Worker -> WorkerRec]
    BY ZenonT(60), <1>5, <2>2, WorkerRecType DEF Load
  <2> QED BY Zenon, <1>0, <1>5, <2>3 DEF Load, gVars, inVars, TypeOK
<1>6. ASSUME NEW w \in Worker, Insert(w) PROVE TypeOK'
  <2>1. wk' \in [Worker -> WorkerRec]
    BY ZenonT(60), <1>6, WorkerRecType DEF Insert
  <2>2. /\ alerts' \in [Gid -> [Alert -> Gid \cup {0}]]
        /\ held' \in [Alert -> Gid \cup {0}]
    <3>1. CASE UNCHANGED <<alerts, held>>
      BY Zenon, <1>0, <3>1 DEF TypeOK
    <3>2. CASE Set(wk[w].el, wk[w].upd)
      <4>1. wk[w].el \in Gid /\ wk[w].upd \in Gid /\ of[wk[w].upd] \in Alert
        BY Zenon, <1>6, WorkerType DEF Insert
      <4> QED BY SMTT(60), <1>0, <3>2, <4>1, InsertType DEF Set
    <3> QED BY Zenon, <1>6, <3>1, <3>2 DEF Insert
  <2> QED BY Zenon, <1>0, <1>6, <2>1, <2>2 DEF Insert, inVars, TypeOK
<1>7. ASSUME NEW w \in Worker, Create(w) PROVE TypeOK'
  <2>1. wk' \in [Worker -> WorkerRec]
    BY ZenonT(60), <1>7, WorkerRecType DEF Create
  <2>2. wk[w].upd \in Gid /\ of[wk[w].upd] \in Alert
    BY Zenon, <1>7, WorkerType DEF Create
  <2>3. alerts' \in [Gid -> [Alert -> Gid \cup {0}]]
    <3>1. CASE UNCHANGED alerts
      BY Zenon, <1>0, <3>1 DEF TypeOK
    <3>2. CASE alerts' = [alerts EXCEPT ![wk[w].upd][of[wk[w].upd]] = wk[w].upd]
      BY SMTT(60), <1>0, <2>2, <3>2, InsertType
    <3> QED BY Zenon, <1>7, <3>1, <3>2 DEF Create
  <2> QED BY Zenon, <1>0, <1>7, <2>1, <2>3 DEF Create, inVars, TypeOK
<1>8. ASSUME NEW w \in Worker, Swap(w) PROVE TypeOK'
  BY ZenonT(60), <1>0, <1>8, WorkerType, WorkerRecType, DispatcherAssumption DEF Swap, gVars, inVars, TypeOK, Gid
<1>9. ASSUME NEW w \in Worker, LoadOrStore(w) PROVE TypeOK'
  BY ZenonT(60), <1>0, <1>9, WorkerType, WorkerRecType, DispatcherAssumption DEF LoadOrStore, gVars, inVars, TypeOK, Gid
<1>10. ASSUME NEW w \in Worker, Reinsert(w) PROVE TypeOK'
  <2>1. wk' \in [Worker -> WorkerRec]
    BY ZenonT(60), <1>10, WorkerRecType DEF Reinsert
  <2>2. /\ alerts' \in [Gid -> [Alert -> Gid \cup {0}]]
        /\ held' \in [Alert -> Gid \cup {0}]
    <3>1. CASE UNCHANGED <<alerts, held>>
      BY Zenon, <1>0, <3>1 DEF TypeOK
    <3>2. CASE Set(wk[w].el, wk[w].upd)
      <4>1. wk[w].el \in Gid /\ wk[w].upd \in Gid /\ of[wk[w].upd] \in Alert
        BY Zenon, <1>10, WorkerType DEF Reinsert
      <4> QED BY Zenon, <1>0, <3>2, <4>1, InsertType DEF Set
    <3> QED BY Zenon, <1>10, <3>1, <3>2 DEF Reinsert
  <2> QED BY Zenon, <1>0, <1>10, <2>1, <2>2 DEF Reinsert, inVars, TypeOK
<1>11. ASSUME NEW w \in Worker, Count(w) PROVE TypeOK'
  <2>1. wk' \in [Worker -> WorkerRec]
    BY ZenonT(60), <1>11, WorkerRecType DEF Count
  <2>2. num' \in Int
    BY <1>0, <1>11 DEF Count, TypeOK
  <2> QED BY Zenon, <1>0, <1>11, <2>1, <2>2 DEF Count, gVars, inVars, TypeOK
<1>12. ASSUME NEW w \in Worker, StartGroup(w) PROVE TypeOK'
  BY ZenonT(60), <1>0, <1>12, WorkerType, WorkerRecType, DispatcherAssumption DEF StartGroup, RunAG, gVars, inVars, TypeOK, Gid
<1>13. ASSUME TimerFires PROVE TypeOK'
  BY <1>0, <1>13, DispatcherAssumption DEF TimerFires, gVars, inVars, TypeOK, Gid
<1>14. ASSUME NEW f \in Fp, TimerVisits(f) PROVE TypeOK'
  BY ZenonT(60), <1>0, <1>14, DispatcherAssumption DEF TimerVisits, RunAG, gVars, inVars, TypeOK, Gid
<1>15. ASSUME NEW g \in Gid, Flush(g) PROVE TypeOK'
  <2>1. [a \in Alert |-> IF alerts[g][a] \in ended THEN alerts[g][a] ELSE 0]
          \in [Alert -> Gid \cup {0}]
    BY Zenon, <1>0 DEF TypeOK
  <2>2. batch' \in [Gid -> [Alert -> Gid \cup {0}]]
    BY ZenonT(60), <1>0, <1>15, <2>1 DEF Flush, TypeOK
  <2>3. run' \in [Gid -> {"none", "waiting", "notifying", "flushed", "done"}]
    BY SMTT(60), <1>0, <1>15 DEF Flush, TypeOK
  <2> QED BY Zenon, <1>0, <1>15, <2>2, <2>3 DEF Flush, inVars, TypeOK
<1>16. ASSUME NEW g \in Gid, NEW ok \in BOOLEAN, Notified(g, ok) PROVE TypeOK'
  <2>1. NoAlerts \in [Alert -> Gid \cup {0}]
    BY Zenon DEF NoAlerts
  <2>2. alerts' \in [Gid -> [Alert -> Gid \cup {0}]] /\ destroyed' \in [Gid -> BOOLEAN]
    <3> DEFINE left == [a \in Alert |-> IF batch[g][a] # 0 /\ alerts[g][a] = batch[g][a]
                                        THEN 0 ELSE alerts[g][a]]
    <3>1. left \in [Alert -> Gid \cup {0}]
      BY <1>0 DEF TypeOK
    <3>2. UNCHANGED alerts \/ alerts' = [alerts EXCEPT ![g] = left]
      BY Zenon, <1>16 DEF Notified, DeleteIfNotModified
    <3>3. UNCHANGED destroyed \/ destroyed' = [destroyed EXCEPT ![g] = TRUE]
      BY Zenon, <1>16 DEF Notified, DeleteIfNotModified
    <3> HIDE DEF left
    <3>4. alerts' \in [Gid -> [Alert -> Gid \cup {0}]]
      BY ZenonT(60), <1>0, <3>1, <3>2 DEF TypeOK
    <3>5. destroyed' \in [Gid -> BOOLEAN]
      BY ZenonT(60), <1>0, <3>3 DEF TypeOK
    <3> QED BY Zenon, <3>4, <3>5
  <2>3. run' \in [Gid -> {"none", "waiting", "notifying", "flushed", "done"}]
        /\ batch' \in [Gid -> [Alert -> Gid \cup {0}]]
    BY Zenon, <1>0, <1>16, <2>1 DEF Notified, TypeOK
  <2> QED BY Zenon, <1>0, <1>16, <2>2, <2>3 DEF Notified, inVars, TypeOK
<1>17. ASSUME NEW g \in Gid, Flushed(g) PROVE TypeOK'
  BY Zenon, <1>0, <1>17, DispatcherAssumption DEF Flushed, gVars, inVars, TypeOK, Gid
<1>18. ASSUME NEW g \in Gid, RunCancelled(g) PROVE TypeOK'
  BY Zenon, <1>0, <1>18, DispatcherAssumption DEF RunCancelled, gVars, inVars, TypeOK, Gid
<1>19. ASSUME NEW f \in Fp, Sweep(f) PROVE TypeOK'
  BY Zenon, <1>0, <1>19, DispatcherAssumption DEF Sweep, gVars, inVars, TypeOK, Gid
<1>20. ASSUME SweepDelete PROVE TypeOK'
  BY ZenonT(60), <1>0, <1>20, DispatcherAssumption DEF SweepDelete, gVars, inVars, TypeOK, Gid
<1>21. ASSUME SweepUncount PROVE TypeOK'
  BY <1>0, <1>21, DispatcherAssumption DEF SweepUncount, gVars, inVars, TypeOK, Gid
<1>22. ASSUME MaintenanceExit PROVE TypeOK'
  BY Zenon, <1>0, <1>22, DispatcherAssumption DEF MaintenanceExit, gVars, inVars, TypeOK, Gid
<1>23. ASSUME StopStore \/ StopCancel PROVE TypeOK'
  BY ZenonT(60), <1>0, <1>23, DispatcherAssumption DEF StopStore, StopCancel, gVars, inVars, TypeOK, Gid
<1>24. CASE UNCHANGED vars
  BY Zenon, <1>0, <1>24 DEF vars, gVars, inVars, TypeOK
<1> QED BY Zenon, <1>1, <1>2, <1>3, <1>4, <1>5, <1>6, <1>7, <1>8, <1>9, <1>10, <1>11, <1>12, <1>13, <1>14, <1>15, <1>16, <1>17, <1>18, <1>19, <1>20, <1>21, <1>22, <1>23, <1>24
       DEF Next, WorkerNext, TimerNext, GroupNext, MaintenanceNext

-----------------------------------------------------------------------------
(* What a step must respect so that the invariants of the others survive *)

\* Only destroyed groups leave the map, and a destroyed group stays destroyed.
Benign ==
    /\ \A f \in Fp : groups'[f] = groups[f] \/ groups[f] = 0 \/ destroyed[groups[f]]
    /\ \A g \in Gid : destroyed[g] => destroyed'[g]

\* The alert of an update never changes once it was put.
SameAlerts == \A u \in Gid : of[u] # None => of'[u] = of[u]

PreStore == {"load", "insert", "limit", "swap", "loadorstore", "reinsert"}

LEMMA WorkerFrame ==
    ASSUME IInv, TypeOK', Benign, SameAlerts, taken <= taken',
           NEW v \in Worker, wk'[v] = wk[v],
           wk[v].pc \in PreStore => Private(wk[v].upd)' /\ alerts'[wk[v].upd] = alerts[wk[v].upd]
    PROVE  WorkerInv(v)'
<1> DEFINE u == wk[v].upd
           e == wk[v].el
           l == wk[v].pc
<1>0. TypeOK /\ WorkerInv(v) /\ Received
  BY Zenon DEF IInv
<1>1. u \in Gid \cup {0} /\ e \in Gid \cup {0}
  BY Zenon, <1>0 DEF TypeOK, WorkerRec
<1>2. CASE l \in {"idle", "exited"}
  <2>1. u # 0 => u <= taken'
    BY <1>0, <1>1, <1>2 DEF WorkerInv, TypeOK, Gid
  <2> QED BY Zenon, <1>2, <2>1 DEF WorkerInv
<1>3. CASE l \notin {"idle", "exited"}
  <2>1. u \in Gid /\ of[u] \in Alert /\ KeyOf(u) \in Fp /\ u <= taken
    BY Zenon, <1>3, WorkerType
  <2>2. of'[u] = of[u] /\ KeyOf(u)' = KeyOf(u) /\ u <= taken'
    <3>1. of'[u] = of[u]
      BY Zenon, <2>1, DispatcherAssumption DEF SameAlerts
    <3>2. u <= taken'
      BY <1>0, <2>1 DEF TypeOK, Gid
    <3> QED BY Zenon, <3>1, <3>2 DEF KeyOf
  <2>3. \A g \in Gid : groups[KeyOf(u)] = g \/ destroyed[g] => groups'[KeyOf(u)] = g \/ destroyed'[g]
    BY <2>1 DEF Benign, Gid
  <2>4. l \in PreStore => Private(u)' /\ alerts'[u] = alerts[u]
    OBVIOUS
  <2>5. l \in {"swap", "loadorstore", "reinsert"} => alerts'[u][of'[u]] = u
    BY Zenon, <1>0, <2>2, <2>4 DEF WorkerInv, PreStore
  <2>6. l \in {"insert", "reinsert"} => e # 0 /\ (groups'[KeyOf(u)'] = e \/ destroyed'[e])
    BY <1>0, <1>1, <2>2, <2>3 DEF WorkerInv
  <2>7. l \in {"limit", "loadorstore"} => e = 0 \/ destroyed'[e]
    BY Zenon, <1>0, <1>1 DEF WorkerInv, Benign
  <2>8. l = "swap" => e # 0 /\ destroyed'[e]
    BY Zenon, <1>0, <1>1 DEF WorkerInv, Benign
  <2>9. l \in {"count", "start"} => groups'[KeyOf(u)'] = u \/ destroyed'[u]
    BY Zenon, <1>0, <2>1, <2>2, <2>3 DEF WorkerInv
  <2>10. u # 0
    BY Zenon, <1>0, <1>3 DEF WorkerInv
  <2> QED BY Zenon, <2>2, <2>4, <2>5, <2>6, <2>7, <2>8, <2>9, <2>10 DEF WorkerInv, PreStore
<1> QED BY Zenon, <1>2, <1>3

\* A group stays private when the step neither stores it in the map nor lets a
\* worker find it there.
LEMMA PrivateFrame ==
    ASSUME IInv, NEW g \in Gid, Private(g),
           \A f \in Fp : groups'[f] # groups[f] => groups'[f] # g,
           \A v \in Worker : wk'[v].el # wk[v].el =>
                wk'[v].el = 0 \/ \E f \in Fp : wk'[v].el = groups[f],
           destroyed'[g] = destroyed[g], run'[g] = run[g]
    PROVE  Private(g)'
BY DEF Private, Gid

\* A worker that has not stored its group yet, and one that has.
LEMMA CarryInv ==
    ASSUME NEW w \in Worker, NEW u \in Gid, wk'[w].upd = u, u <= taken', Private(u)',
           wk'[w].pc \in PreStore,
           wk'[w].pc \in {"swap", "loadorstore", "reinsert"} => alerts'[u][of'[u]] = u,
           wk'[w].pc \in {"insert", "reinsert"} =>
                wk'[w].el # 0 /\ (groups'[KeyOf(u)'] = wk'[w].el \/ destroyed'[wk'[w].el]),
           wk'[w].pc \in {"limit", "loadorstore"} => wk'[w].el = 0 \/ destroyed'[wk'[w].el],
           wk'[w].pc = "swap" => wk'[w].el # 0 /\ destroyed'[wk'[w].el]
    PROVE  WorkerInv(w)'
<1>1. u # 0 /\ wk'[w].pc \notin {"count", "start"}
  BY DEF Gid, PreStore
<1>2. Private(wk[w].upd)'
  BY Zenon DEF Private
<1> QED BY Zenon, <1>1, <1>2 DEF WorkerInv, KeyOf

LEMMA StoredInv ==
    ASSUME NEW w \in Worker, NEW u \in Gid, wk'[w].upd = u, u <= taken',
           wk'[w].pc \in {"count", "start"}, groups'[KeyOf(u)'] = u
    PROVE  WorkerInv(w)'
<1>1. u # 0
  BY DEF Gid
<1> QED BY Zenon, <1>1 DEF WorkerInv, KeyOf

LEMMA DistinctFrame ==
    ASSUME Distinct, \A v \in Worker : wk'[v].upd \in {0, wk[v].upd} PROVE Distinct'
BY Zenon DEF Distinct

LEMMA Apart ==
    ASSUME Distinct, NEW w \in Worker, wk[w].upd # 0, NEW v \in Worker \ {w}
    PROVE  wk[v].upd # wk[w].upd
BY Zenon DEF Distinct

\* A started group stays in the map until it is destroyed.
LEMMA MappedFrame ==
    ASSUME IInv, TypeOK', Benign, SameAlerts,
           \A g \in Gid : run'[g] # "none" /\ run[g] = "none" => groups[KeyOf(g)] = g /\ g <= taken,
           \A g \in Gid : destroyed'[g] => run'[g] \in {"flushed", "done"},
           \A f \in Fp : groups'[f] # groups[f] => groups'[f] = 0 \/ (KeyOf(groups'[f]) = f /\ groups'[f] <= taken)
    PROVE  MappedUntilDestroyed'
<1>0. TypeOK /\ Received /\ MappedUntilDestroyed
  BY Zenon DEF IInv
<1>1. ASSUME NEW g \in Gid, g <= taken PROVE KeyOf(g)' = KeyOf(g) /\ KeyOf(g) \in Fp
  BY <1>0, <1>1, DispatcherAssumption DEF Received, SameAlerts, KeyOf, TypeOK
<1>2. ASSUME NEW g \in Gid, run'[g] # "none" PROVE groups'[KeyOf(g)'] = g \/ destroyed'[g]
  <2>1. g <= taken
    BY <1>0, <1>2 DEF Received, Private, TypeOK, Gid
  <2>2. groups[KeyOf(g)] = g \/ destroyed[g]
    BY Zenon, <1>0, <1>2 DEF MappedUntilDestroyed
  <2> QED BY <1>1, <2>1, <2>2 DEF Benign, Gid
<1>3. ASSUME NEW f \in Fp, NEW g \in Gid, groups'[f] = g PROVE KeyOf(g)' = f
  <2>1. CASE groups'[f] = groups[f]
    <3>1. g <= taken
      BY <1>0, <1>3, <2>1 DEF Received, Private, TypeOK, Gid
    <3> QED BY <1>0, <1>1, <1>3, <2>1, <3>1 DEF MappedUntilDestroyed, Gid
  <2>2. CASE groups'[f] # groups[f]
    BY <1>1, <1>3, <2>2 DEF Gid
  <2> QED BY Zenon, <2>1, <2>2
<1>4. \A f \in Fp : groups'[f] # 0 => KeyOf(groups[f])' = f
  BY ZenonT(60), <1>3 DEF TypeOK
<1> QED BY Zenon, <1>2, <1>4 DEF MappedUntilDestroyed

-----------------------------------------------------------------------------
(* The steps *)

\* Steps that touch neither the groups nor the workers.
LEMMA QuietStep ==
    ASSUME IInv, TypeOK', SameAlerts, ended \subseteq ended',
           UNCHANGED <<taken, groups, wk, alerts, destroyed, run, batch, held>>,
           mt' = "stopping" => mt = "stopping", mtGroup' = mtGroup
    PROVE  IInv'
<1>1. Benign
  BY Zenon DEF Benign
<1>2. ASSUME NEW g \in Gid, Private(g) PROVE Private(g)'
  BY Zenon, <1>2 DEF Private
<1>3. ASSUME NEW v \in Worker PROVE WorkerInv(v)'
  <2>1. wk[v].pc \in PreStore => wk[v].upd \in Gid /\ Private(wk[v].upd)
    BY Zenon, WorkerType DEF PreStore, IInv, WorkerInv
  <2>2. taken <= taken'
    BY DEF IInv, TypeOK
  <2> QED BY Zenon, <1>1, <1>2, <2>1, <2>2, WorkerFrame
<1>4. FiringIsHeld'
  BY Zenon DEF IInv, FiringIsHeld
<1>5. Distinct'
  BY Zenon DEF IInv, Distinct
<1>6. Received'
  BY Zenon, <1>2, DispatcherAssumption DEF IInv, Received, SameAlerts
<1>7. MappedUntilDestroyed'
  BY Zenon, <1>1, MappedFrame DEF IInv, MappedUntilDestroyed
<1>8. BatchEnded' /\ SweptDestroyed'
  BY Zenon DEF IInv, BatchEnded, SweptDestroyed
<1> QED BY Zenon, <1>3, <1>4, <1>5, <1>6, <1>7, <1>8 DEF IInv

LEMMA TakeStep == ASSUME IInv, TypeOK', NEW w \in Worker, Take(w) PROVE IInv'
<1>0. TypeOK /\ Received
  BY Zenon DEF IInv
<1>1. PICK u \in Gid : /\ u = taken + 1 /\ of[u] # None
                      /\ u > taken /\ taken' = u /\ taken <= taken'
  BY <1>0 DEF Take, TypeOK, Gid
<1>2. /\ wk'[w].pc = "load" /\ wk'[w].upd = u /\ wk'[w].el = wk[w].el
      /\ \A v \in Worker \ {w} : wk'[v] = wk[v]
  BY <1>0, <1>1 DEF Take, TypeOK, WorkerRec
<1>3. Benign /\ SameAlerts
  BY Zenon DEF Benign, SameAlerts, Take, gVars
<1>4. ASSUME NEW g \in Gid, Private(g) PROVE Private(g)'
  BY ZenonT(60), <1>2, <1>4, PrivateFrame DEF Take, gVars
<1>5. ASSUME NEW v \in Worker \ {w} PROVE WorkerInv(v)'
  <2>1. wk[v].pc \in PreStore => wk[v].upd \in Gid /\ Private(wk[v].upd)
    BY Zenon, WorkerType DEF PreStore, IInv, WorkerInv
  <2>2. wk[v].pc \in PreStore => Private(wk[v].upd)'
    BY Zenon, <1>2, <1>4, <2>1
  <2> QED BY ZenonT(60), <1>1, <1>2, <1>3, <2>1, <2>2, WorkerFrame DEF Take, gVars
<1>6. WorkerInv(w)'
  <2>1. Private(u)
    BY Zenon, <1>0, <1>1 DEF Received
  <2>2. Private(u)'
    BY Zenon, <1>1, <1>4, <2>1
  <2>3. u <= taken'
    BY <1>1 DEF Gid
  <2>4. /\ wk'[w].pc \in PreStore
        /\ wk'[w].pc \notin {"swap", "loadorstore", "reinsert", "insert", "limit"}
    BY Zenon, <1>2 DEF PreStore
  <2> QED BY Zenon, <1>2, <2>2, <2>3, <2>4, CarryInv
<1>7. Distinct'
  <2>1. \A v \in Worker : wk[v].upd # 0 => wk[v].upd <= taken
    BY Zenon DEF IInv, WorkerInv
  <2>2. \A v \in Worker \ {w} : wk'[v].upd # u
    BY <1>0, <1>1, <1>2, <2>1 DEF TypeOK, Gid
  <2> QED BY <1>2, <2>2 DEF IInv, Distinct
<1>8. Received'
  <2>1. of' = of
    BY Zenon DEF Take
  <2>2. \A t \in Gid : t <= taken' => of'[t] # None
    BY <1>0, <1>1, <2>1 DEF Received, TypeOK, Gid
  <2>3. \A t \in Gid : t > taken' => t > taken
    BY <1>0, <1>1 DEF TypeOK, Gid
  <2> QED BY Zenon, <1>0, <1>4, <2>2, <2>3 DEF Received
<1>9. MappedUntilDestroyed'
  BY Zenon, <1>3, MappedFrame DEF IInv, MappedUntilDestroyed, Take, gVars
<1>10. FiringIsHeld' /\ BatchEnded' /\ SweptDestroyed'
  BY Zenon DEF IInv, FiringIsHeld, BatchEnded, SweptDestroyed, Take, gVars
<1> QED BY Zenon, <1>5, <1>6, <1>7, <1>8, <1>9, <1>10 DEF IInv

\* The steps of a worker that change at most its own record and a store.
LEMMA WorkerStep ==
    ASSUME IInv, TypeOK', NEW w \in Worker, WorkerInv(w)', FiringIsHeld',
           wk'[w].upd \in {0, wk[w].upd},
           wk'[w].el \in {wk[w].el, 0} \cup {groups[f] : f \in Fp},
           \A v \in Worker \ {w} : wk'[v] = wk[v],
           \A v \in Worker \ {w} : wk[v].pc \in PreStore => alerts'[wk[v].upd] = alerts[wk[v].upd],
           UNCHANGED <<inVars, groups, destroyed, run, batch, mt, mtGroup>>
    PROVE  IInv'
<1>0. TypeOK /\ Received
  BY Zenon DEF IInv
<1>1. Benign /\ SameAlerts /\ taken <= taken'
  BY <1>0 DEF Benign, SameAlerts, inVars, TypeOK
<1>2. ASSUME NEW g \in Gid, Private(g) PROVE Private(g)'
  BY Zenon, <1>2, PrivateFrame
<1>3. ASSUME NEW v \in Worker \ {w} PROVE WorkerInv(v)'
  <2>1. wk[v].pc \in PreStore => wk[v].upd \in Gid /\ Private(wk[v].upd)
    BY ZenonT(60), WorkerType DEF PreStore, IInv, WorkerInv
  <2>2. wk[v].pc \in PreStore => Private(wk[v].upd)'
    BY ZenonT(60), <1>2, <2>1
  <2> QED BY Zenon, <1>1, <2>1, <2>2, WorkerFrame
<1>4. Distinct'
  <2>1. \A v \in Worker : wk'[v].upd \in {0, wk[v].upd}
    OBVIOUS
  <2>2. Distinct
    BY Zenon DEF IInv
  <2> QED BY Zenon, <2>1, <2>2, DistinctFrame
<1>5. Received'
  BY Zenon, <1>0, <1>2 DEF Received, inVars
<1>6. MappedUntilDestroyed'
  BY Zenon, <1>1, MappedFrame DEF IInv, MappedUntilDestroyed
<1>7. BatchEnded' /\ SweptDestroyed'
  BY Zenon DEF IInv, BatchEnded, SweptDestroyed, inVars
<1> QED BY Zenon, <1>3, <1>4, <1>5, <1>6, <1>7 DEF IInv

\* What Return, Goto and Retry do to the workers.
LEMMA ReturnFacts ==
    ASSUME TypeOK, NEW w \in Worker, Return(w)
    PROVE  /\ wk'[w].upd = 0 /\ wk'[w].el = 0 /\ wk'[w].pc = "idle" /\ WorkerInv(w)'
           /\ \A v \in Worker \ {w} : wk'[v] = wk[v]
<1>1. wk'[w] = Idle /\ \A v \in Worker \ {w} : wk'[v] = wk[v]
  BY Zenon DEF Return, TypeOK
<1> QED BY <1>1 DEF Idle, WorkerInv

LEMMA GotoFacts ==
    ASSUME TypeOK, NEW w \in Worker, NEW l, Goto(w, l)
    PROVE  /\ wk'[w].pc = l /\ wk'[w].upd = wk[w].upd /\ wk'[w].el = wk[w].el
           /\ \A v \in Worker \ {w} : wk'[v] = wk[v]
BY DEF Goto, TypeOK, WorkerRec

LEMMA RetryFacts ==
    ASSUME TypeOK, NEW w \in Worker, NEW l, Retry(w, l)
    PROVE  \/ Return(w)
           \/ /\ wk'[w].pc = l /\ wk'[w].upd = wk[w].upd /\ wk'[w].el = wk[w].el
              /\ \A v \in Worker \ {w} : wk'[v] = wk[v]
BY DEF Retry, TypeOK, WorkerRec

LEMMA ExitStep == ASSUME IInv, TypeOK', NEW w \in Worker, WorkerExit(w) PROVE IInv'
<1>0. TypeOK /\ WorkerInv(w) /\ Goto(w, "exited")
  BY Zenon DEF IInv, WorkerExit
<1>1. /\ wk'[w].pc = "exited" /\ wk'[w].upd = wk[w].upd /\ wk'[w].el = wk[w].el
      /\ \A v \in Worker \ {w} : wk'[v] = wk[v]
  BY Zenon, <1>0, GotoFacts
<1>2. WorkerInv(w)'
  BY ZenonT(60), <1>0, <1>1 DEF WorkerInv, WorkerExit, inVars
<1>3. FiringIsHeld'
  BY ZenonT(60) DEF IInv, FiringIsHeld, WorkerExit, gVars, inVars
<1> QED BY Zenon, <1>1, <1>2, <1>3, WorkerStep DEF WorkerExit, gVars

LEMMA LoadStep == ASSUME IInv, TypeOK', NEW w \in Worker, Load(w) PROVE IInv'
<1>0. TypeOK /\ WorkerInv(w)
  BY Zenon DEF IInv
<1>1. PICK u \in Gid : /\ u = wk[w].upd /\ u <= taken /\ KeyOf(u) \in Fp /\ KeyOf(u)' = KeyOf(u)
                      /\ Private(u) /\ taken' = taken
  BY Zenon, <1>0, WorkerType DEF Load, WorkerInv, inVars, KeyOf
<1> DEFINE g == groups[KeyOf(wk[w].upd)]
<1>2. /\ wk'[w].pc = IF g = 0 THEN "limit" ELSE "insert"
      /\ wk'[w].upd = u /\ wk'[w].el = g
      /\ \A v \in Worker \ {w} : wk'[v] = wk[v]
  BY <1>0, <1>1 DEF Load, TypeOK, WorkerRec
<1>3. Private(u)'
  BY ZenonT(60), <1>1, <1>2, PrivateFrame DEF Load, gVars
<1>4. WorkerInv(w)'
  <2>1. u # 0 /\ groups'[KeyOf(u)'] = g
    BY <1>1 DEF Load, Gid
  <2> QED BY ZenonT(60), <1>1, <1>2, <1>3, <2>1, CarryInv DEF PreStore
<1>5. FiringIsHeld'
  BY Zenon DEF IInv, FiringIsHeld, Load, gVars, inVars
<1> QED BY ZenonT(60), <1>1, <1>2, <1>4, <1>5, WorkerStep DEF Load, gVars

\* An insert into a group that is not destroyed keeps every firing alert.
LEMMA SetStep ==
    ASSUME IInv, TypeOK', NEW w \in Worker, wk[w].pc \in {"insert", "reinsert"}, ~destroyed[wk[w].el],
           Set(wk[w].el, wk[w].upd), Return(w),
           UNCHANGED <<inVars, groups, destroyed, run, batch, mt, mtGroup>>
    PROVE  IInv'
<1>0. TypeOK /\ WorkerInv(w)
  BY Zenon DEF IInv
<1> DEFINE u == wk[w].upd
           e == wk[w].el
<1>1. u \in Gid /\ e \in Gid /\ of[u] \in Alert /\ groups[KeyOf(u)] = e /\ KeyOf(u) \in Fp
  BY ZenonT(60), <1>0, WorkerType DEF WorkerInv
<1>2. /\ alerts' = [alerts EXCEPT ![e][of[u]] = u] /\ held' = [held EXCEPT ![of[u]] = u]
  BY Zenon DEF Set
<1>3. FiringIsHeld'
  <2> SUFFICES ASSUME NEW a \in Alert, held'[a] # 0, held'[a] \notin ended
               PROVE  /\ groups[FpOf[a]] # 0 /\ ~destroyed[groups[FpOf[a]]]
                      /\ alerts'[groups[FpOf[a]]][a] = held'[a]
    BY Zenon DEF FiringIsHeld, inVars
  <2>1. CASE a = of[u]
    <3>1. FpOf[a] = KeyOf(u) /\ e # 0
      BY <1>1, <2>1 DEF KeyOf, Gid
    <3>2. held'[a] = u /\ alerts'[e][a] = u
      BY <1>0, <1>1, <1>2, <2>1 DEF TypeOK
    <3> QED BY Zenon, <1>1, <3>1, <3>2
  <2>2. CASE a # of[u]
    <3>1. held'[a] = held[a]
      BY Zenon, <1>0, <1>2, <2>2 DEF TypeOK
    <3>2. /\ groups[FpOf[a]] # 0 /\ ~destroyed[groups[FpOf[a]]]
          /\ alerts[groups[FpOf[a]]][a] = held[a]
      BY ZenonT(60), <3>1 DEF IInv, FiringIsHeld
    <3>3. groups[FpOf[a]] \in Gid
      BY <1>0, <3>2, DispatcherAssumption DEF TypeOK
    <3> QED BY <1>0, <1>1, <1>2, <2>2, <3>1, <3>2, <3>3 DEF TypeOK
  <2> QED BY Zenon, <2>1, <2>2
<1>4. ASSUME NEW v \in Worker, wk[v].pc \in PreStore PROVE alerts'[wk[v].upd] = alerts[wk[v].upd]
  <2>1. wk[v].upd # e /\ wk[v].upd \in Gid
    BY ZenonT(60), <1>4, WorkerType DEF IInv, WorkerInv, PreStore, Private
  <2> QED BY Zenon, <1>0, <1>1, <1>2, <2>1 DEF TypeOK
<1>5. /\ wk'[w].upd = 0 /\ wk'[w].el = 0 /\ WorkerInv(w)'
      /\ \A v \in Worker \ {w} : wk'[v] = wk[v]
  BY Zenon, <1>0, ReturnFacts
<1> QED BY ZenonT(60), <1>3, <1>4, <1>5, WorkerStep

LEMMA InsertStep == ASSUME IInv, TypeOK', NEW w \in Worker, Insert(w) PROVE IInv'
<1>0. TypeOK /\ WorkerInv(w)
  BY Zenon DEF IInv
<1>1. CASE ~destroyed[wk[w].el]
  BY ZenonT(60), <1>1, SetStep DEF Insert
<1>2. CASE destroyed[wk[w].el]
  <2>1. PICK u \in Gid : u = wk[w].upd /\ u <= taken /\ Private(u)
    BY Zenon, <1>0, WorkerType DEF Insert, WorkerInv
  <2>2. /\ wk'[w].pc = "limit" /\ wk'[w].upd = u /\ wk'[w].el = wk[w].el
        /\ \A v \in Worker \ {w} : wk'[v] = wk[v]
    BY ZenonT(60), <1>0, <1>2, <2>1, GotoFacts DEF Insert
  <2>3. Private(u)'
    BY ZenonT(60), <2>1, <2>2, PrivateFrame DEF Insert
  <2>4. WorkerInv(w)'
    <3>1. u <= taken' /\ destroyed'[wk'[w].el]
      BY Zenon, <1>2, <2>1, <2>2 DEF Insert, inVars
    <3> QED BY ZenonT(60), <2>2, <2>3, <3>1, CarryInv DEF PreStore
  <2>5. FiringIsHeld'
    BY Zenon, <1>2 DEF IInv, FiringIsHeld, Insert, inVars
  <2> QED BY ZenonT(60), <1>2, <2>1, <2>2, <2>4, <2>5, WorkerStep DEF Insert
<1> QED BY Zenon, <1>1, <1>2

LEMMA CreateStep == ASSUME IInv, TypeOK', NEW w \in Worker, Create(w) PROVE IInv'
<1>0. TypeOK /\ WorkerInv(w)
  BY Zenon DEF IInv
<1>1. CASE Limit > 0 /\ num >= Limit
  <2>1. FiringIsHeld'
    BY Zenon, <1>1 DEF IInv, FiringIsHeld, Create, inVars
  <2>2. /\ wk'[w].upd = 0 /\ wk'[w].el = 0 /\ WorkerInv(w)'
        /\ \A v \in Worker \ {w} : wk'[v] = wk[v]
    BY Zenon, <1>0, <1>1, ReturnFacts DEF Create
  <2> QED BY Zenon, <1>1, <2>1, <2>2, WorkerStep DEF Create
<1>2. CASE ~(Limit > 0 /\ num >= Limit)
  <2>1. PICK u \in Gid : /\ u = wk[w].upd /\ u <= taken /\ Private(u) /\ of[u] \in Alert
                        /\ alerts' = [alerts EXCEPT ![u][of[u]] = u] /\ of' = of
    BY Zenon, <1>0, <1>2, WorkerType DEF Create, WorkerInv, inVars
  <2>2. /\ wk'[w].pc = IF wk[w].el = 0 THEN "loadorstore" ELSE "swap"
        /\ wk'[w].upd = u /\ wk'[w].el = wk[w].el
        /\ \A v \in Worker \ {w} : wk'[v] = wk[v]
    BY Zenon, <1>0, <1>2, <2>1, GotoFacts DEF Create
  <2>3. Private(u)'
    BY Zenon, <2>1, <2>2, PrivateFrame DEF Create
  <2>4. WorkerInv(w)'
    <3>1. alerts'[u][of'[u]] = u
      BY ZenonT(60), <1>0, <2>1 DEF TypeOK
    <3>2. wk[w].el = 0 \/ destroyed'[wk[w].el]
      BY Zenon, <1>0 DEF WorkerInv, Create
    <3>3. u <= taken' /\ u # 0
      BY <2>1 DEF Create, inVars, Gid
    <3> QED BY ZenonT(60), <2>2, <2>3, <3>1, <3>2, <3>3, CarryInv DEF PreStore
  <2>5. FiringIsHeld'
    <3> SUFFICES ASSUME NEW a \in Alert, held[a] # 0, held[a] \notin ended
                 PROVE  /\ groups[FpOf[a]] # 0 /\ ~destroyed[groups[FpOf[a]]]
                        /\ alerts'[groups[FpOf[a]]][a] = held[a]
      BY Zenon, <1>2 DEF FiringIsHeld, Create, inVars
    <3>1. /\ groups[FpOf[a]] # 0 /\ ~destroyed[groups[FpOf[a]]]
          /\ alerts[groups[FpOf[a]]][a] = held[a]
      BY Zenon DEF IInv, FiringIsHeld
    <3>2. groups[FpOf[a]] # u /\ groups[FpOf[a]] \in Gid
      BY <1>0, <2>1, <3>1, DispatcherAssumption DEF Private, TypeOK
    <3> QED BY Zenon, <1>0, <2>1, <3>1, <3>2 DEF TypeOK
  <2>6. ASSUME NEW v \in Worker \ {w}, wk[v].pc \in PreStore
        PROVE  alerts'[wk[v].upd] = alerts[wk[v].upd]
    <3>1. wk[v].upd # u /\ wk[v].upd \in Gid
      BY <2>1, <2>6, WorkerType DEF IInv, Distinct, PreStore, Gid
    <3> QED BY Zenon, <1>0, <2>1, <3>1 DEF TypeOK
  <2> QED BY Zenon, <1>2, <2>1, <2>2, <2>4, <2>5, <2>6, WorkerStep DEF Create
<1> QED BY Zenon, <1>1, <1>2

\* A failed attempt to store the group: another round, or the worker gives up.
LEMMA RetryStep ==
    ASSUME IInv, TypeOK', NEW w \in Worker, NEW l \in {"swap", "loadorstore"}, Retry(w, l),
           wk[w].pc \in {"swap", "reinsert"}, destroyed[wk[w].el],
           UNCHANGED <<inVars, groups, alerts, destroyed, run, batch, mt, mtGroup, held>>
    PROVE  IInv'
<1>0. TypeOK /\ WorkerInv(w)
  BY Zenon DEF IInv
<1>1. FiringIsHeld'
  BY Zenon DEF IInv, FiringIsHeld, inVars
<1>2. CASE Return(w)
  <2>1. /\ wk'[w].upd = 0 /\ wk'[w].el = 0 /\ WorkerInv(w)'
        /\ \A v \in Worker \ {w} : wk'[v] = wk[v]
    BY Zenon, <1>0, <1>2, ReturnFacts
  <2> QED BY Zenon, <1>1, <2>1, WorkerStep
<1>3. CASE /\ wk'[w].pc = l /\ wk'[w].upd = wk[w].upd /\ wk'[w].el = wk[w].el
           /\ \A v \in Worker \ {w} : wk'[v] = wk[v]
  <2>1. PICK u \in Gid : /\ u = wk[w].upd /\ u <= taken /\ Private(u) /\ alerts[u][of[u]] = u
    BY Zenon, <1>0, WorkerType DEF WorkerInv
  <2>2. Private(u)'
    BY ZenonT(60), <1>3, <2>1, PrivateFrame
  <2>3. wk[w].el # 0
    BY Zenon, <1>0 DEF WorkerInv
  <2>4. WorkerInv(w)'
    <3>1. u <= taken' /\ alerts'[u][of'[u]] = u /\ destroyed'[wk'[w].el] /\ wk'[w].el # 0
      BY ZenonT(60), <1>3, <2>1, <2>3 DEF inVars
    <3> QED BY ZenonT(60), <1>3, <2>1, <2>2, <3>1, CarryInv DEF PreStore
  <2> QED BY Zenon, <1>1, <1>3, <2>4, WorkerStep
<1> QED BY Zenon, <1>0, <1>2, <1>3, RetryFacts

LEMMA ReinsertStep == ASSUME IInv, TypeOK', NEW w \in Worker, Reinsert(w) PROVE IInv'
<1>1. CASE ~destroyed[wk[w].el]
  BY Zenon, <1>1, SetStep DEF Reinsert
<1>2. CASE destroyed[wk[w].el]
  BY Zenon, <1>2, RetryStep DEF Reinsert
<1> QED BY Zenon, <1>1, <1>2

\* A worker stores its group in the map, in the place of none or of a destroyed one.
LEMMA StoreStep ==
    ASSUME IInv, TypeOK', NEW w \in Worker, NEW u \in Gid, u = wk[w].upd,
           wk[w].pc \in {"swap", "loadorstore"},
           groups[KeyOf(u)] = 0 \/ destroyed[groups[KeyOf(u)]],
           groups' = [groups EXCEPT ![KeyOf(u)] = u],
           held' = [held EXCEPT ![of[u]] = u],
           wk'[w].pc \in {"count", "start"}, wk'[w].upd = u, wk'[w].el = wk[w].el,
           \A v \in Worker \ {w} : wk'[v] = wk[v],
           UNCHANGED <<inVars, alerts, destroyed, run, batch, mt, mtGroup>>
    PROVE  IInv'
<1>0. TypeOK /\ WorkerInv(w) /\ Received /\ Distinct
  BY Zenon DEF IInv
<1>a. groups \in [Fp -> Gid \cup {0}]
  BY Zenon, <1>0 DEF TypeOK
<1>1. /\ u <= taken /\ Private(u) /\ of[u] \in Alert /\ alerts[u][of[u]] = u
      /\ KeyOf(u) \in Fp /\ KeyOf(u)' = KeyOf(u) /\ u # 0
  BY ZenonT(60), <1>0, WorkerType DEF WorkerInv, KeyOf, inVars, Gid
<1>2. Benign /\ SameAlerts /\ taken <= taken'
  BY <1>0 DEF Benign, SameAlerts, inVars, TypeOK
<1>3. ASSUME NEW g \in Gid, g # u, Private(g) PROVE Private(g)'
  <2>1. \A f \in Fp : groups'[f] # groups[f] => groups'[f] # g
    BY ZenonT(60), <1>a, <1>3
  <2>2. \A v \in Worker : wk'[v].el = wk[v].el
    OBVIOUS
  <2> QED BY ZenonT(60), <1>3, <2>1, <2>2, PrivateFrame
<1>4. ASSUME NEW v \in Worker \ {w} PROVE WorkerInv(v)'
  <2>1. wk[v].pc \in PreStore => wk[v].upd \in Gid /\ Private(wk[v].upd)
    BY ZenonT(60), WorkerType DEF PreStore, IInv, WorkerInv
  <2>2. wk[v].upd # u
    BY ZenonT(60), <1>0, <1>1, Apart
  <2>3. wk[v].pc \in PreStore => Private(wk[v].upd)'
    BY Zenon, <1>3, <2>1, <2>2
  <2> QED BY Zenon, <1>2, <2>1, <2>3, WorkerFrame
<1>5. WorkerInv(w)'
  <2>1. groups'[KeyOf(u)'] = u
    BY Zenon, <1>a, <1>1
  <2>2. u <= taken'
    BY Zenon, <1>1 DEF inVars
  <2> QED BY Zenon, <2>1, <2>2, StoredInv
<1>6. Distinct'
  <2>1. \A v \in Worker : wk'[v].upd \in {0, wk[v].upd}
    OBVIOUS
  <2>2. Distinct
    BY Zenon DEF IInv
  <2> QED BY Zenon, <2>1, <2>2, DistinctFrame
<1>7. Received'
  BY <1>0, <1>1, <1>3 DEF Received, inVars, TypeOK, Gid
<1>8. MappedUntilDestroyed'
  <2>1. \A f \in Fp : groups'[f] # groups[f] => groups'[f] = u /\ f = KeyOf(u)
    BY Zenon, <1>0 DEF TypeOK
  <2>2. \A g \in Gid : destroyed'[g] => run'[g] \in {"flushed", "done"}
    BY Zenon DEF IInv, MappedUntilDestroyed
  <2> QED BY ZenonT(60), <1>1, <1>2, <2>1, <2>2, MappedFrame
<1>9. FiringIsHeld'
  <2> SUFFICES ASSUME NEW a \in Alert, held'[a] # 0, held'[a] \notin ended
               PROVE  /\ groups'[FpOf[a]] # 0 /\ ~destroyed[groups'[FpOf[a]]]
                      /\ alerts[groups'[FpOf[a]]][a] = held'[a]
    BY DEF FiringIsHeld, inVars
  <2>1. CASE a = of[u]
    BY ZenonT(60), <1>0, <1>1, <2>1 DEF KeyOf, TypeOK, Private
  <2>2. CASE a # of[u]
    <3>1. held'[a] = held[a]
      BY ZenonT(60), <1>0, <2>2 DEF TypeOK
    <3>2. /\ groups[FpOf[a]] # 0 /\ ~destroyed[groups[FpOf[a]]]
          /\ alerts[groups[FpOf[a]]][a] = held[a]
      BY Zenon, <3>1 DEF IInv, FiringIsHeld
    <3>3. FpOf[a] # KeyOf(u) /\ FpOf[a] \in Fp
      BY Zenon, <3>2, DispatcherAssumption
    <3> QED BY ZenonT(60), <1>0, <3>1, <3>2, <3>3 DEF TypeOK
  <2> QED BY Zenon, <2>1, <2>2
<1>10. BatchEnded' /\ SweptDestroyed'
  BY Zenon DEF IInv, BatchEnded, SweptDestroyed, inVars
<1> QED BY Zenon, <1>4, <1>5, <1>6, <1>7, <1>8, <1>9, <1>10 DEF IInv

LEMMA SwapStep == ASSUME IInv, TypeOK', NEW w \in Worker, Swap(w) PROVE IInv'
<1>0. TypeOK /\ WorkerInv(w)
  BY Zenon DEF IInv
<1>1. PICK u \in Gid : u = wk[w].upd
  BY Zenon, WorkerType DEF Swap
<1>2. wk[w].el # 0 /\ destroyed[wk[w].el]
  BY ZenonT(60), <1>0 DEF WorkerInv, Swap
<1>3. CASE groups[KeyOf(u)] = wk[w].el
  <2>1. /\ wk'[w].pc = "start" /\ wk'[w].upd = u /\ wk'[w].el = wk[w].el
        /\ \A v \in Worker \ {w} : wk'[v] = wk[v]
    BY Zenon, <1>0, <1>1, <1>3, GotoFacts DEF Swap
  <2> QED BY ZenonT(60), <1>1, <1>2, <1>3, <2>1, StoreStep DEF Swap
<1>4. CASE groups[KeyOf(u)] # wk[w].el
  BY Zenon, <1>1, <1>2, <1>4, RetryStep DEF Swap
<1> QED BY Zenon, <1>3, <1>4

LEMMA LoadOrStoreStep == ASSUME IInv, TypeOK', NEW w \in Worker, LoadOrStore(w) PROVE IInv'
<1>0. TypeOK /\ WorkerInv(w)
  BY Zenon DEF IInv
<1>1. PICK u \in Gid : /\ u = wk[w].upd /\ u <= taken /\ Private(u) /\ alerts[u][of[u]] = u
                      /\ KeyOf(u) \in Fp /\ KeyOf(u)' = KeyOf(u)
  BY Zenon, <1>0, WorkerType DEF LoadOrStore, WorkerInv, KeyOf, inVars
<1>2. CASE groups[KeyOf(u)] = 0
  <2>1. /\ wk'[w].pc = "count" /\ wk'[w].upd = u /\ wk'[w].el = wk[w].el
        /\ \A v \in Worker \ {w} : wk'[v] = wk[v]
    BY Zenon, <1>0, <1>1, <1>2, GotoFacts DEF LoadOrStore
  <2> QED BY <1>1, <1>2, <2>1, StoreStep DEF LoadOrStore, gVars
<1>3. CASE groups[KeyOf(u)] # 0
  <2>1. /\ wk'[w].pc = "reinsert" /\ wk'[w].upd = u /\ wk'[w].el = groups[KeyOf(u)]
        /\ \A v \in Worker \ {w} : wk'[v] = wk[v]
    BY <1>0, <1>1, <1>3 DEF LoadOrStore, TypeOK, WorkerRec
  <2>2. /\ UNCHANGED <<inVars, groups, alerts, destroyed, run, batch, mt, mtGroup, held>>
    BY Zenon, <1>1, <1>3 DEF LoadOrStore, gVars
  <2>3. Private(u)'
    BY Zenon, <1>1, <2>1, <2>2, PrivateFrame
  <2>4. WorkerInv(w)'
    <3>1. u <= taken' /\ alerts'[u][of'[u]] = u /\ groups'[KeyOf(u)'] = wk'[w].el
      BY Zenon, <1>1, <2>1, <2>2 DEF inVars
    <3> QED BY Zenon, <1>3, <2>1, <2>3, <3>1, CarryInv DEF PreStore
  <2>5. FiringIsHeld'
    BY Zenon, <2>2 DEF IInv, FiringIsHeld, inVars
  <2> QED BY ZenonT(60), <1>1, <2>1, <2>2, <2>4, <2>5, WorkerStep
<1> QED BY Zenon, <1>2, <1>3

LEMMA CountStep == ASSUME IInv, TypeOK', NEW w \in Worker, Count(w) PROVE IInv'
<1>0. TypeOK /\ WorkerInv(w)
  BY Zenon DEF IInv
<1>1. /\ wk'[w].pc = "start" /\ wk'[w].upd = wk[w].upd /\ wk'[w].el = wk[w].el
      /\ \A v \in Worker \ {w} : wk'[v] = wk[v]
  BY Zenon, <1>0, GotoFacts DEF Count
<1>2. WorkerInv(w)'
  BY ZenonT(60), <1>0, <1>1 DEF WorkerInv, Count, KeyOf, inVars, gVars
<1>3. FiringIsHeld'
  BY ZenonT(60) DEF IInv, FiringIsHeld, Count, inVars, gVars
<1> QED BY Zenon, <1>1, <1>2, <1>3, WorkerStep DEF Count, gVars

\* The steps that start a group, those of its goroutine and of maintenance.
LEMMA GroupStep ==
    ASSUME IInv, TypeOK', Benign, FiringIsHeld', BatchEnded', SweptDestroyed', UNCHANGED inVars,
           \A f \in Fp : groups'[f] # groups[f] => groups'[f] = 0,
           \A v \in Worker : wk'[v] = wk[v] \/ (wk'[v].upd = 0 /\ wk'[v].el = 0 /\ WorkerInv(v)'),
           \A g \in Gid : Private(g) => /\ run'[g] = run[g] /\ destroyed'[g] = destroyed[g]
                                        /\ alerts'[g] = alerts[g],
           \A g \in Gid : run'[g] # "none" /\ run[g] = "none" => groups[KeyOf(g)] = g /\ g <= taken,
           \A g \in Gid : destroyed'[g] => run'[g] \in {"flushed", "done"}
    PROVE  IInv'
<1>0. TypeOK /\ Received
  BY ZenonT(60) DEF IInv
<1>1. SameAlerts /\ taken <= taken'
  BY <1>0 DEF SameAlerts, inVars, TypeOK
<1>2. ASSUME NEW g \in Gid, Private(g) PROVE Private(g)'
  <2>1. g # 0
    BY Zenon, GidPositive
  <2>2. \A f \in Fp : groups'[f] # g
    BY ZenonT(60), <1>2, <2>1 DEF Private
  <2>3. \A v \in Worker : wk'[v].el # g
    BY Zenon, <1>2, <2>1 DEF Private
  <2>4. ~destroyed'[g] /\ run'[g] = "none"
    BY Zenon, <1>2 DEF Private
  <2> QED BY ZenonT(60), <2>2, <2>3, <2>4 DEF Private
<1>3. ASSUME NEW v \in Worker PROVE WorkerInv(v)'
  <2>1. CASE wk'[v] = wk[v]
    <3>1. wk[v].pc \in PreStore => wk[v].upd \in Gid /\ Private(wk[v].upd)
      BY ZenonT(60), WorkerType DEF PreStore, IInv, WorkerInv
    <3>2. wk[v].pc \in PreStore => Private(wk[v].upd)' /\ alerts'[wk[v].upd] = alerts[wk[v].upd]
      BY ZenonT(60), <1>2, <2>1, <3>1
    <3> QED BY Zenon, <1>1, <2>1, <3>2, WorkerFrame
  <2> QED BY Zenon, <2>1
<1>4. Distinct'
  <2>1. \A v \in Worker : wk'[v].upd \in {0, wk[v].upd}
    OBVIOUS
  <2>2. Distinct
    BY Zenon DEF IInv
  <2> QED BY Zenon, <2>1, <2>2, DistinctFrame
<1>5. Received'
  BY Zenon, <1>0, <1>2 DEF Received, inVars
<1>6. MappedUntilDestroyed'
  <2>1. \A f \in Fp : groups'[f] # groups[f] =>
            groups'[f] = 0 \/ (KeyOf(groups'[f]) = f /\ groups'[f] <= taken)
    OBVIOUS
  <2> QED BY Zenon, <1>1, <2>1, MappedFrame
<1> QED BY ZenonT(60), <1>3, <1>4, <1>5, <1>6 DEF IInv

\* runAG of a group that is in the map.
LEMMA RunFacts ==
    ASSUME IInv, NEW g \in Gid, RunAG(g), groups[KeyOf(g)] = g \/ destroyed[g], g <= taken
    PROVE  /\ \A h \in Gid : Private(h) => run'[h] = run[h]
           /\ \A h \in Gid : run'[h] # "none" /\ run[h] = "none" => groups[KeyOf(h)] = h /\ h <= taken
           /\ \A h \in Gid : destroyed[h] => run'[h] \in {"flushed", "done"}
<1>0. TypeOK /\ Received /\ MappedUntilDestroyed
  BY Zenon DEF IInv
<1>1. KeyOf(g) \in Fp
  BY Zenon, <1>0, DispatcherAssumption DEF Received, KeyOf, TypeOK
<1>2. ~Private(g)
  BY ZenonT(60), <1>1 DEF Private
<1>3. \A h \in Gid : run'[h] # run[h] => h = g /\ run[g] = "none"
  BY Zenon, <1>0 DEF RunAG, TypeOK
<1> QED BY Zenon, <1>0, <1>2, <1>3 DEF MappedUntilDestroyed

LEMMA StartGroupStep == ASSUME IInv, TypeOK', NEW w \in Worker, StartGroup(w) PROVE IInv'
<1>0. TypeOK /\ WorkerInv(w)
  BY Zenon DEF IInv
<1>1. PICK u \in Gid : u = wk[w].upd /\ u <= taken /\ (groups[KeyOf(u)] = u \/ destroyed[u])
  BY ZenonT(60), <1>0, WorkerType DEF StartGroup, WorkerInv
<1>2. /\ \A h \in Gid : Private(h) => run'[h] = run[h]
      /\ \A h \in Gid : run'[h] # "none" /\ run[h] = "none" => groups[KeyOf(h)] = h /\ h <= taken
      /\ \A h \in Gid : destroyed[h] => run'[h] \in {"flushed", "done"}
  <2>1. CASE state = "running"
    BY Zenon, <1>1, <2>1, RunFacts DEF StartGroup
  <2>2. CASE state # "running"
    BY Zenon, <2>2 DEF StartGroup, IInv, MappedUntilDestroyed
  <2> QED BY Zenon, <2>1, <2>2
<1>3. \A v \in Worker : wk'[v] = wk[v] \/ (wk'[v].upd = 0 /\ wk'[v].el = 0 /\ WorkerInv(v)')
  BY Zenon, <1>0, ReturnFacts DEF StartGroup
<1>4. FiringIsHeld' /\ BatchEnded' /\ SweptDestroyed' /\ Benign
  BY Zenon DEF IInv, FiringIsHeld, BatchEnded, SweptDestroyed, Benign, StartGroup, inVars
<1> QED BY ZenonT(60), <1>2, <1>3, <1>4, GroupStep DEF StartGroup

LEMMA TimerVisitsStep == ASSUME IInv, TypeOK', NEW f \in Fp, TimerVisits(f) PROVE IInv'
<1>0. TypeOK /\ MappedUntilDestroyed /\ Received
  BY Zenon DEF IInv
<1>1. /\ \A h \in Gid : Private(h) => run'[h] = run[h]
      /\ \A h \in Gid : run'[h] # "none" /\ run[h] = "none" => groups[KeyOf(h)] = h /\ h <= taken
      /\ \A h \in Gid : destroyed[h] => run'[h] \in {"flushed", "done"}
  <2>1. CASE groups[f] # 0
    <3>1. PICK g \in Gid : g = groups[f]
      BY Zenon, <1>0, <2>1 DEF TypeOK
    <3>2. groups[KeyOf(g)] = g /\ g <= taken
      BY <1>0, <2>1, <3>1 DEF MappedUntilDestroyed, Received, Private, TypeOK, Gid
    <3> QED BY <2>1, <3>1, <3>2, RunFacts DEF TimerVisits
  <2>2. CASE groups[f] = 0
    BY ZenonT(60), <1>0, <2>2 DEF TimerVisits, MappedUntilDestroyed
  <2> QED BY Zenon, <2>1, <2>2
<1>2. FiringIsHeld' /\ BatchEnded' /\ SweptDestroyed' /\ Benign
  BY ZenonT(60) DEF IInv, FiringIsHeld, BatchEnded, SweptDestroyed, Benign, TimerVisits, inVars
<1> QED BY ZenonT(60), <1>1, <1>2, GroupStep DEF TimerVisits

LEMMA FlushStep == ASSUME IInv, TypeOK', NEW g \in Gid, Flush(g) PROVE IInv'
<1>0. TypeOK /\ MappedUntilDestroyed
  BY Zenon DEF IInv
<1>1. ~destroyed[g] /\ ~Private(g)
  BY ZenonT(60), <1>0 DEF Flush, MappedUntilDestroyed, Private
<1>2. /\ \A h \in Gid \ {g} : run'[h] = run[h]
      /\ run'[g] \in {"flushed", "notifying"}
  BY <1>0 DEF Flush, TypeOK
<1>3. BatchEnded'
  <2>1. CASE alerts[g] = NoAlerts
    BY Zenon, <2>1 DEF IInv, BatchEnded, Flush, inVars
  <2>2. CASE alerts[g] # NoAlerts
    <3>1. \A h \in Gid \ {g} : batch'[h] = batch[h]
      BY Zenon, <1>0, <2>2 DEF Flush, TypeOK
    <3>2. batch'[g] = [a \in Alert |-> IF alerts[g][a] \in ended THEN alerts[g][a] ELSE 0]
      BY Zenon, <1>0, <2>2 DEF Flush, TypeOK
    <3>3. ended' = ended
      BY Zenon DEF Flush, inVars
    <3> QED BY <3>1, <3>2, <3>3 DEF IInv, BatchEnded
  <2> QED BY Zenon, <2>1, <2>2
<1>4. FiringIsHeld' /\ SweptDestroyed' /\ Benign
  BY Zenon DEF IInv, FiringIsHeld, SweptDestroyed, Benign, Flush, inVars
<1>5. \A h \in Gid : destroyed'[h] => run'[h] \in {"flushed", "done"}
  BY Zenon, <1>0, <1>1, <1>2 DEF MappedUntilDestroyed, Flush
<1>6. run[g] # "none"
  BY Zenon DEF Flush
<1> QED BY ZenonT(60), <1>1, <1>2, <1>3, <1>4, <1>5, <1>6, GroupStep DEF Flush

LEMMA FlushedStep ==
    ASSUME IInv, TypeOK', NEW g \in Gid, Flushed(g) \/ RunCancelled(g) PROVE IInv'
<1>0. TypeOK /\ MappedUntilDestroyed
  BY Zenon DEF IInv
<1>1. run[g] # "none" /\ ~Private(g)
  BY ZenonT(60) DEF Flushed, RunCancelled, Private
<1>2. /\ \A h \in Gid \ {g} : run'[h] = run[h]
      /\ destroyed[g] => run'[g] = "done"
  BY Zenon, <1>0 DEF Flushed, RunCancelled, TypeOK
<1>3. FiringIsHeld' /\ SweptDestroyed' /\ Benign /\ BatchEnded'
  BY Zenon DEF IInv, FiringIsHeld, SweptDestroyed, Benign, BatchEnded, Flushed, RunCancelled, inVars
<1>4. UNCHANGED <<inVars, groups, wk, alerts, destroyed>>
  BY Zenon DEF Flushed, RunCancelled
<1>5. \A h \in Gid : destroyed'[h] => run'[h] \in {"flushed", "done"}
  BY Zenon, <1>0, <1>2, <1>4 DEF MappedUntilDestroyed
<1> QED BY Zenon, <1>1, <1>2, <1>3, <1>4, <1>5, GroupStep

\* A successful flush deletes the alerts that ended before it and did not change
\* since, and destroys the group if none is left.
LEMMA NotifiedStep ==
    ASSUME IInv, TypeOK', NEW g \in Gid, NEW ok \in BOOLEAN, Notified(g, ok) PROVE IInv'
<1> DEFINE left == [a \in Alert |-> IF batch[g][a] # 0 /\ alerts[g][a] = batch[g][a]
                                    THEN 0 ELSE alerts[g][a]]
<1>0. TypeOK /\ MappedUntilDestroyed /\ BatchEnded /\ FiringIsHeld
  BY Zenon DEF IInv
<1>1. run[g] = "notifying" /\ ~Private(g) /\ ~destroyed[g]
  BY ZenonT(60), <1>0 DEF Notified, MappedUntilDestroyed, Private
<1>2. run'[g] = "flushed" /\ \A h \in Gid \ {g} : run'[h] = run[h]
  BY Zenon, <1>0 DEF Notified, TypeOK
<1>3. UNCHANGED <<inVars, groups, wk, held, mt, mtGroup>>
  BY Zenon DEF Notified
<1>4. BatchEnded'
  <2>1. batch'[g] = NoAlerts /\ \A h \in Gid \ {g} : batch'[h] = batch[h]
    BY Zenon, <1>0 DEF Notified, TypeOK
  <2>2. ended' = ended
    BY <1>3 DEF inVars
  <2> QED BY <1>0, <2>1, <2>2 DEF BatchEnded, NoAlerts
<1>5. CASE ~ok
  <2>1. UNCHANGED <<alerts, destroyed>>
    BY Zenon, <1>5 DEF Notified
  <2>2. FiringIsHeld' /\ SweptDestroyed' /\ Benign
    BY ZenonT(60), <1>3, <2>1 DEF IInv, FiringIsHeld, SweptDestroyed, Benign, inVars
  <2>3. \A h \in Gid : destroyed'[h] => run'[h] \in {"flushed", "done"}
    BY <1>0, <1>2, <2>1 DEF MappedUntilDestroyed
  <2> QED BY Zenon, <1>1, <1>2, <1>3, <1>4, <2>1, <2>2, <2>3, GroupStep
<1>6. CASE ok
  <2>1. /\ alerts' = [alerts EXCEPT ![g] = left]
        /\ destroyed' = IF left = NoAlerts THEN [destroyed EXCEPT ![g] = TRUE] ELSE destroyed
    BY Zenon, <1>6 DEF Notified, DeleteIfNotModified
  <2>2. \A a \in Alert : left[a] = IF batch[g][a] # 0 /\ alerts[g][a] = batch[g][a]
                                   THEN 0 ELSE alerts[g][a]
    OBVIOUS
  <2> HIDE DEF left
  <2>3. alerts'[g] = left /\ \A h \in Gid \ {g} : alerts'[h] = alerts[h]
    BY <1>0, <2>1 DEF TypeOK
  <2>4. /\ destroyed'[g] <=> left = NoAlerts
        /\ \A h \in Gid \ {g} : destroyed'[h] = destroyed[h]
    BY Zenon, <1>0, <1>1, <2>1 DEF TypeOK
  <2>5. FiringIsHeld'
    <3> SUFFICES ASSUME NEW a \in Alert, held[a] # 0, held[a] \notin ended
                 PROVE  /\ groups[FpOf[a]] # 0 /\ ~destroyed'[groups[FpOf[a]]]
                        /\ alerts'[groups[FpOf[a]]][a] = held[a]
      BY ZenonT(60), <1>3 DEF FiringIsHeld, inVars
    <3>1. /\ groups[FpOf[a]] # 0 /\ ~destroyed[groups[FpOf[a]]]
          /\ alerts[groups[FpOf[a]]][a] = held[a]
      BY ZenonT(60), <1>0 DEF FiringIsHeld
    <3>2. groups[FpOf[a]] \in Gid
      BY <1>0, <3>1, DispatcherAssumption DEF TypeOK
    <3>3. CASE groups[FpOf[a]] # g
      BY Zenon, <2>3, <2>4, <3>1, <3>2, <3>3
    <3>4. CASE groups[FpOf[a]] = g
      <4>1. left[a] = held[a]
        BY ZenonT(60), <1>0, <2>2, <3>1, <3>4 DEF BatchEnded
      <4>2. left # NoAlerts
        BY Zenon, <4>1 DEF NoAlerts
      <4> QED BY <2>3, <2>4, <3>1, <3>4, <4>1, <4>2
    <3> QED BY ZenonT(60), <3>3, <3>4
  <2>6. Benign
    BY Zenon, <1>1, <1>3, <2>4 DEF Benign
  <2>7. SweptDestroyed'
    <3>1. mt = "stopping" => mtGroup \in Gid /\ destroyed[mtGroup]
      BY Zenon, <1>0 DEF IInv, SweptDestroyed, TypeOK
    <3> QED BY <1>3, <2>6, <3>1 DEF SweptDestroyed, Benign, Gid
  <2>8. \A h \in Gid : destroyed'[h] => run'[h] \in {"flushed", "done"}
    BY Zenon, <1>0, <1>2, <2>4 DEF MappedUntilDestroyed
  <2> QED BY ZenonT(60), <1>1, <1>2, <1>3, <1>4, <2>3, <2>4, <2>5, <2>6, <2>7, <2>8, GroupStep
<1> QED BY Zenon, <1>5, <1>6

LEMMA SweepStep == ASSUME IInv, TypeOK', NEW f \in Fp, Sweep(f) PROVE IInv'
<1>1. FiringIsHeld' /\ BatchEnded' /\ Benign
  BY ZenonT(60) DEF IInv, FiringIsHeld, BatchEnded, Benign, Sweep, inVars
<1>2. SweptDestroyed'
  BY Zenon DEF SweptDestroyed, Sweep
<1>3. \A h \in Gid : destroyed'[h] => run'[h] \in {"flushed", "done"}
  BY Zenon DEF IInv, MappedUntilDestroyed, Sweep
<1> QED BY ZenonT(60), <1>1, <1>2, <1>3, GroupStep DEF Sweep

LEMMA SweepDeleteStep == ASSUME IInv, TypeOK', SweepDelete PROVE IInv'
<1>0. TypeOK /\ mtGroup # 0 /\ destroyed[mtGroup]
  BY Zenon DEF IInv, SweptDestroyed, SweepDelete
<1>1. \A f \in Fp : groups'[f] # groups[f] => groups'[f] = 0 /\ groups[f] = mtGroup
  BY Zenon, <1>0 DEF SweepDelete, TypeOK
<1>2. Benign
  BY Zenon, <1>0, <1>1 DEF Benign, SweepDelete, gVars
<1>3. FiringIsHeld'
  <2>1. ASSUME NEW a \in Alert, held[a] # 0, held[a] \notin ended
        PROVE  groups'[FpOf[a]] = groups[FpOf[a]]
    BY Zenon, <1>0, <1>1, <2>1, DispatcherAssumption DEF IInv, FiringIsHeld
  <2> QED BY Zenon, <2>1 DEF IInv, FiringIsHeld, SweepDelete, inVars, gVars
<1>4. BatchEnded' /\ SweptDestroyed'
  BY Zenon DEF IInv, BatchEnded, SweptDestroyed, SweepDelete, inVars, gVars
<1>5. \A h \in Gid : destroyed'[h] => run'[h] \in {"flushed", "done"}
  BY Zenon DEF IInv, MappedUntilDestroyed, SweepDelete, gVars
<1> QED BY Zenon, <1>1, <1>2, <1>3, <1>4, <1>5, GroupStep DEF SweepDelete, gVars

LEMMA NextInv == ASSUME IInv, [Next]_vars PROVE IInv'
<1>0. TypeOK /\ TypeOK'
  BY Zenon, TypeStep DEF IInv
<1>1. ASSUME NEW w \in Worker, WorkerNext(w) PROVE IInv'
  BY <1>0, <1>1, TakeStep, ExitStep, LoadStep, InsertStep, CreateStep, SwapStep, LoadOrStoreStep,
     ReinsertStep, CountStep, StartGroupStep DEF WorkerNext
<1>2. ASSUME NEW g \in Gid, GroupNext(g) PROVE IInv'
  BY Zenon, <1>0, <1>2, FlushStep, NotifiedStep, FlushedStep DEF GroupNext
<1>3. ASSUME NEW u \in Gid, NEW a \in Alert, NEW resolved \in BOOLEAN, Put(u, a, resolved) PROVE IInv'
  <2>1. SameAlerts /\ ended \subseteq ended'
    BY Zenon, <1>0, <1>3 DEF SameAlerts, Put, TypeOK
  <2> QED BY <1>0, <1>3, <2>1, QuietStep DEF Put, gVars
<1>4. ASSUME NEW u \in Gid, TimeOut(u) PROVE IInv'
  <2>1. SameAlerts /\ ended \subseteq ended'
    BY Zenon, <1>4 DEF SameAlerts, TimeOut
  <2> QED BY Zenon, <1>0, <1>4, <2>1, QuietStep DEF TimeOut, gVars
<1>5. CASE TimerFires \/ SweepUncount \/ MaintenanceExit \/ StopStore \/ StopCancel \/ UNCHANGED vars
  <2>1. /\ UNCHANGED <<inVars, groups, wk, gVars, held, mtGroup>>
        /\ mt' = "stopping" => mt = "stopping"
    BY Zenon, <1>5 DEF TimerFires, SweepUncount, MaintenanceExit, StopStore, StopCancel, vars
  <2>2. SameAlerts /\ ended \subseteq ended'
    BY Zenon, <2>1 DEF SameAlerts, inVars
  <2> QED BY Zenon, <1>0, <2>1, <2>2, QuietStep DEF inVars, gVars
<1>6. CASE TimerNext
  BY Zenon, <1>0, <1>5, <1>6, TimerVisitsStep DEF TimerNext
<1>7. CASE MaintenanceNext
  BY Zenon, <1>0, <1>5, <1>7, SweepStep, SweepDeleteStep DEF MaintenanceNext
<1> QED BY Zenon, <1>1, <1>2, <1>3, <1>4, <1>5, <1>6, <1>7 DEF Next

LEMMA Invariance == Spec => []IInv
BY InitInv, NextInv, PTL DEF Spec

-----------------------------------------------------------------------------
(* Every group in the map is started and counted *)

Started(f) ==
    \/ groups[f] = 0 \/ run[groups[f]] # "none"
    \/ \E w \in Worker : wk[w].upd = groups[f] /\ wk[w].pc \in {"count", "start"}

\* The timer goroutine has seen to the groups it has visited.  Later ones are
\* started by their creators, who find the dispatcher running.
StartInv ==
    /\ timer.pc = "exited" => timer.todo = {}
    /\ state = "running" => timer.pc # "waiting" /\ \A f \in Fp \ timer.todo : Started(f)

Mapped == {f \in Fp : groups[f] # 0}
Counting == {w \in Worker : wk[w].pc = "count"}
Uncounted == IF mt = "uncount" THEN 1 ELSE 0

CountInv == IsFiniteSet(Mapped) /\ IsFiniteSet(Counting) /\ CounterExact

\* The moves of a worker that neither stores, counts nor starts a group.
LEMMA WorkerMoves ==
    ASSUME IInv, NEW w \in Worker,
           Take(w) \/ WorkerExit(w) \/ Load(w) \/ Insert(w) \/ Create(w) \/ Reinsert(w)
    PROVE  /\ wk[w].pc \notin {"count", "start"} /\ wk'[w].pc \notin {"count", "start"}
           /\ \A v \in Worker \ {w} : wk'[v] = wk[v]
           /\ UNCHANGED <<groups, run, timer, state, num, mt>>
<1>0. TypeOK
  BY Zenon DEF IInv
<1>1. CASE Take(w)
  BY <1>0, <1>1 DEF Take, TypeOK, WorkerRec, gVars
<1>2. CASE WorkerExit(w)
  BY <1>0, <1>2, GotoFacts DEF WorkerExit, gVars
<1>3. CASE Load(w)
  BY <1>0, <1>3 DEF Load, TypeOK, WorkerRec, gVars
<1>4. CASE Insert(w)
  BY <1>0, <1>4, GotoFacts, ReturnFacts DEF Insert
<1>5. CASE Create(w)
  BY <1>0, <1>5, GotoFacts, ReturnFacts DEF Create
<1>6. CASE Reinsert(w)
  BY <1>0, <1>6, RetryFacts, ReturnFacts DEF Reinsert
<1> QED BY Zenon, <1>1, <1>2, <1>3, <1>4, <1>5, <1>6

LEMMA SwapMoves ==
    ASSUME IInv, NEW w \in Worker, Swap(w)
    PROVE  /\ wk[w].pc = "swap" /\ wk'[w].pc # "count"
           /\ \A v \in Worker \ {w} : wk'[v] = wk[v]
           /\ \A f \in Fp : groups'[f] = groups[f]
                            \/ (groups[f] # 0 /\ groups'[f] # 0 /\ wk'[w].upd = groups'[f] /\ wk'[w].pc = "start")
           /\ UNCHANGED <<run, timer, state, num, mt>>
<1>0. TypeOK /\ WorkerInv(w)
  BY Zenon DEF IInv
<1>1. wk[w].upd \in Gid /\ KeyOf(wk[w].upd) \in Fp /\ wk[w].el # 0 /\ wk[w].upd # 0
  BY Zenon, <1>0, WorkerType DEF Swap, WorkerInv, Gid
<1>2. CASE groups[KeyOf(wk[w].upd)] = wk[w].el
  BY <1>0, <1>1, <1>2, GotoFacts DEF Swap, TypeOK
<1>3. CASE groups[KeyOf(wk[w].upd)] # wk[w].el
  BY ZenonT(60), <1>0, <1>3, RetryFacts, ReturnFacts DEF Swap
<1> QED BY Zenon, <1>2, <1>3

LEMMA StoreMoves ==
    ASSUME IInv, NEW w \in Worker, LoadOrStore(w)
    PROVE  /\ wk[w].pc = "loadorstore"
           /\ \A v \in Worker \ {w} : wk'[v] = wk[v]
           /\ \/ groups' = groups /\ wk'[w].pc = "reinsert"
              \/ \E f \in Fp : /\ groups[f] = 0 /\ groups'[f] # 0 /\ groups' = [groups EXCEPT ![f] = groups'[f]]
                               /\ wk'[w].upd = groups'[f] /\ wk'[w].pc = "count"
           /\ UNCHANGED <<run, timer, state, num, mt>>
<1>0. TypeOK
  BY Zenon DEF IInv
<1>1. wk[w].upd \in Gid /\ KeyOf(wk[w].upd) \in Fp /\ wk[w].upd # 0
  BY WorkerType DEF LoadOrStore, Gid
<1>2. CASE groups[KeyOf(wk[w].upd)] = 0
  <2>1. /\ groups' = [groups EXCEPT ![KeyOf(wk[w].upd)] = wk[w].upd] /\ Goto(w, "count")
        /\ wk[w].pc = "loadorstore" /\ UNCHANGED <<run, timer, state, num, mt>>
    BY Zenon, <1>2 DEF LoadOrStore, gVars
  <2>2. groups'[KeyOf(wk[w].upd)] = wk[w].upd
    BY Zenon, <1>0, <1>1, <2>1 DEF TypeOK
  <2> QED BY Zenon, <1>0, <1>1, <1>2, <2>1, <2>2, GotoFacts
<1>3. CASE groups[KeyOf(wk[w].upd)] # 0
  BY <1>0, <1>3 DEF LoadOrStore, TypeOK, WorkerRec, gVars
<1> QED BY Zenon, <1>2, <1>3

\* The steps of all others keep the map and the workers, or take a group out.
LEMMA OtherMoves ==
    ASSUME IInv,
           \/ \E u \in Gid : TimeOut(u) \/ \E a \in Alert, resolved \in BOOLEAN : Put(u, a, resolved)
           \/ \E g \in Gid : GroupNext(g)
           \/ \E f \in Fp : Sweep(f)
           \/ MaintenanceExit \/ StopStore \/ StopCancel \/ UNCHANGED vars
    PROVE  /\ UNCHANGED <<groups, wk, num, timer>> /\ (mt' = "uncount") = (mt = "uncount")
           /\ state' = "running" => state = "running"
           /\ \A g \in Gid : run[g] # "none" => run'[g] # "none"
<1>0. TypeOK
  BY Zenon DEF IInv
<1>1. ASSUME NEW g \in Gid, GroupNext(g)
      PROVE  /\ UNCHANGED <<groups, wk, num, timer, mt, state>>
             /\ \A h \in Gid : run[h] # "none" => run'[h] # "none"
  BY ZenonT(60), <1>0, <1>1 DEF GroupNext, Flush, Notified, Flushed, RunCancelled, TypeOK
<1>2. CASE \/ \E u \in Gid : TimeOut(u) \/ \E a \in Alert, resolved \in BOOLEAN : Put(u, a, resolved)
           \/ \E f \in Fp : Sweep(f)
           \/ MaintenanceExit \/ StopStore \/ StopCancel \/ UNCHANGED vars
  BY Zenon, <1>2 DEF TimeOut, Put, Sweep, MaintenanceExit, StopStore, StopCancel, vars, gVars
<1> QED BY Zenon, <1>1, <1>2

\* What is started stays started, as long as the map and the creators stay.
LEMMA StartedFrame ==
    ASSUME TypeOK, NEW f \in Fp, Started(f), groups'[f] \in {groups[f], 0},
           \A g \in Gid : run[g] # "none" => run'[g] # "none",
           \A w \in Worker : wk[w].pc \in {"count", "start"} =>
               \/ wk'[w].upd = wk[w].upd /\ wk'[w].pc \in {"count", "start"}
               \/ wk[w].upd \in Gid /\ run'[wk[w].upd] # "none"
    PROVE  Started(f)'
<1>1. CASE groups'[f] = 0
  BY Zenon, <1>1 DEF Started
<1>2. CASE groups'[f] = groups[f] /\ groups[f] # 0
  <2>1. groups[f] \in Gid
    BY Zenon, <1>2 DEF TypeOK
  <2>2. CASE run[groups[f]] # "none"
    BY Zenon, <1>2, <2>1, <2>2 DEF Started
  <2>3. CASE \E w \in Worker : wk[w].upd = groups[f] /\ wk[w].pc \in {"count", "start"}
    BY Zenon, <1>2, <2>1, <2>3 DEF Started
  <2> QED BY <1>2, <2>2, <2>3 DEF Started
<1> QED BY Zenon, <1>1, <1>2

LEMMA StartInvStep == ASSUME IInv, StartInv, [Next]_vars PROVE StartInv'
<1>0. TypeOK
  BY Zenon DEF IInv
<1>1. ASSUME NEW w \in Worker,
             Take(w) \/ WorkerExit(w) \/ Load(w) \/ Insert(w) \/ Create(w) \/ Reinsert(w)
      PROVE  StartInv'
  <2>1. \A v \in Worker : wk[v].pc \in {"count", "start"} =>
             wk'[v].upd = wk[v].upd /\ wk'[v].pc \in {"count", "start"}
    BY Zenon, <1>1, WorkerMoves
  <2>2. ASSUME NEW f \in Fp, Started(f) PROVE Started(f)'
    BY <1>0, <1>1, <2>1, <2>2, StartedFrame, WorkerMoves
  <2> QED BY Zenon, <1>1, <2>2, WorkerMoves DEF StartInv
<1>2. ASSUME NEW w \in Worker, Swap(w) PROVE StartInv'
  <2>1. \A v \in Worker : wk[v].pc \in {"count", "start"} =>
             wk'[v].upd = wk[v].upd /\ wk'[v].pc \in {"count", "start"}
    BY Zenon, <1>2, SwapMoves
  <2>2. ASSUME NEW f \in Fp, Started(f) PROVE Started(f)'
    <3>1. CASE groups'[f] = groups[f]
      BY <1>0, <1>2, <2>1, <2>2, <3>1, StartedFrame, SwapMoves
    <3>2. CASE wk'[w].upd = groups'[f] /\ wk'[w].pc = "start"
      BY Zenon, <3>2 DEF Started
    <3> QED BY Zenon, <1>2, <3>1, <3>2, SwapMoves
  <2> QED BY Zenon, <1>2, <2>2, SwapMoves DEF StartInv
<1>3. ASSUME NEW w \in Worker, LoadOrStore(w) PROVE StartInv'
  <2>1. \A v \in Worker : wk[v].pc \in {"count", "start"} =>
             wk'[v].upd = wk[v].upd /\ wk'[v].pc \in {"count", "start"}
    BY Zenon, <1>3, StoreMoves
  <2>2. ASSUME NEW f \in Fp, Started(f) PROVE Started(f)'
    <3>1. CASE groups'[f] = groups[f]
      BY Zenon, <1>0, <1>3, <2>1, <2>2, <3>1, StartedFrame, StoreMoves
    <3>2. CASE groups'[f] # groups[f]
      <4>1. wk'[w].upd = groups'[f] /\ wk'[w].pc = "count"
        BY Zenon, <1>0, <1>3, <3>2, StoreMoves DEF TypeOK
      <4> QED BY <4>1 DEF Started
    <3> QED BY <3>1, <3>2
  <2> QED BY Zenon, <1>3, <2>2, StoreMoves DEF StartInv
<1>4. ASSUME NEW w \in Worker, Count(w) PROVE StartInv'
  <2>1. /\ wk'[w].pc = "start" /\ wk'[w].upd = wk[w].upd
        /\ \A v \in Worker \ {w} : wk'[v] = wk[v]
        /\ UNCHANGED <<groups, run, timer, state>>
    BY Zenon, <1>0, <1>4, GotoFacts DEF Count, gVars
  <2>2. ASSUME NEW f \in Fp, Started(f) PROVE Started(f)'
    BY Zenon, <1>0, <2>1, <2>2, StartedFrame
  <2> QED BY Zenon, <2>1, <2>2 DEF StartInv
<1>5. ASSUME NEW w \in Worker, StartGroup(w) PROVE StartInv'
  <2>1. CASE state = "running"
    <3>1. wk[w].upd \in Gid
      BY Zenon, <1>5, WorkerType DEF StartGroup
    <3>2. /\ run'[wk[w].upd] # "none" /\ \A g \in Gid : run[g] # "none" => run'[g] # "none"
          /\ UNCHANGED <<groups, timer, state>>
      BY <1>0, <1>5, <2>1, <3>1 DEF StartGroup, RunAG, TypeOK
    <3>3. \A v \in Worker \ {w} : wk'[v] = wk[v]
      BY Zenon, <1>0, <1>5, ReturnFacts DEF StartGroup
    <3>4. ASSUME NEW f \in Fp, Started(f) PROVE Started(f)'
      BY <1>0, <3>1, <3>2, <3>3, <3>4, StartedFrame
    <3> QED BY Zenon, <3>2, <3>4 DEF StartInv
  <2>2. CASE state # "running"
    BY Zenon, <1>5, <2>2 DEF StartGroup, StartInv
  <2> QED BY Zenon, <2>1, <2>2
<1>6. CASE TimerFires
  <2>1. /\ timer'.pc # "waiting" /\ (timer'.pc = "exited" => timer'.todo = {})
        /\ state' = "running" => timer'.todo = Fp
    BY <1>6 DEF TimerFires, StartInv
  <2> QED BY Zenon, <2>1 DEF StartInv
<1>7. ASSUME NEW f \in Fp, TimerVisits(f) PROVE StartInv'
  <2>1. /\ timer.pc = "ranging" /\ timer'.todo = timer.todo \ {f} /\ timer'.pc # "waiting"
        /\ timer'.pc = "exited" => timer'.todo = {}
        /\ UNCHANGED <<groups, wk, state>>
    BY <1>7 DEF TimerVisits
  <2>2. \A g \in Gid : run[g] # "none" => run'[g] # "none"
    BY Zenon, <1>0, <1>7 DEF TimerVisits, RunAG, TypeOK
  <2>3. groups[f] # 0 => run'[groups[f]] # "none"
    BY Zenon, <1>0, <1>7 DEF TimerVisits, RunAG, TypeOK
  <2>4. Started(f)'
    BY Zenon, <2>1, <2>3 DEF Started
  <2>5. ASSUME NEW h \in Fp, Started(h) PROVE Started(h)'
    BY Zenon, <1>0, <2>1, <2>2, <2>5, StartedFrame
  <2> QED BY Zenon, <2>1, <2>4, <2>5 DEF StartInv
<1>8. CASE SweepDelete \/ SweepUncount
  <2>1. /\ \A f \in Fp : groups'[f] \in {groups[f], 0}
        /\ UNCHANGED <<wk, run, timer, state>>
    BY Zenon, <1>0, <1>8 DEF SweepDelete, SweepUncount, TypeOK, gVars
  <2>2. ASSUME NEW f \in Fp, Started(f) PROVE Started(f)'
    BY Zenon, <1>0, <2>1, <2>2, StartedFrame
  <2> QED BY Zenon, <2>1, <2>2 DEF StartInv
<1>9. CASE \/ \E u \in Gid : TimeOut(u) \/ \E a \in Alert, resolved \in BOOLEAN : Put(u, a, resolved)
           \/ \E g \in Gid : GroupNext(g)
           \/ \E f \in Fp : Sweep(f)
           \/ MaintenanceExit \/ StopStore \/ StopCancel \/ UNCHANGED vars
  <2>1. /\ UNCHANGED <<groups, wk, num, timer>> /\ (mt' = "uncount") = (mt = "uncount")
        /\ state' = "running" => state = "running"
        /\ \A g \in Gid : run[g] # "none" => run'[g] # "none"
    BY Zenon, <1>9, OtherMoves
  <2>2. ASSUME NEW f \in Fp, Started(f) PROVE Started(f)'
    BY <1>0, <2>1, <2>2, StartedFrame
  <2> QED BY Zenon, <2>1, <2>2 DEF StartInv
<1> QED BY <1>1, <1>2, <1>3, <1>4, <1>5, <1>6, <1>7, <1>8, <1>9
        DEF Next, WorkerNext, TimerNext, MaintenanceNext

LEMMA CountInvStep == ASSUME IInv, CountInv, [Next]_vars PROVE CountInv'
<1>0. TypeOK /\ num \in Int
  BY Zenon DEF IInv, TypeOK
<1>a. Cardinality(Mapped) \in Nat /\ Cardinality(Counting) \in Nat
  BY Zenon, FS_CardinalityType DEF CountInv
<1>b. num = Cardinality(Mapped) - Cardinality(Counting) + Uncounted
  BY Zenon DEF CountInv, CounterExact, Mapped, Counting, Uncounted
<1>c. ASSUME IsFiniteSet(Mapped'), IsFiniteSet(Counting'),
             num' = Cardinality(Mapped') - Cardinality(Counting') + Uncounted'
      PROVE  CountInv'
  BY Zenon, <1>c DEF CountInv, CounterExact, Mapped, Counting, Uncounted
<1>d. ASSUME Mapped' = Mapped, Counting' = Counting, num' = num, Uncounted' = Uncounted PROVE CountInv'
  BY Zenon, <1>b, <1>c, <1>d DEF CountInv
<1>1. ASSUME NEW w \in Worker,
             Take(w) \/ WorkerExit(w) \/ Load(w) \/ Insert(w) \/ Create(w) \/ Reinsert(w)
      PROVE  CountInv'
  <2>1. Mapped' = Mapped /\ Counting' = Counting /\ num' = num /\ Uncounted' = Uncounted
    BY Zenon, <1>1, WorkerMoves DEF Mapped, Counting, Uncounted
  <2> QED BY Zenon, <1>d, <2>1
<1>2. ASSUME NEW w \in Worker, Swap(w) PROVE CountInv'
  <2>1. Mapped' = Mapped /\ Counting' = Counting /\ num' = num /\ Uncounted' = Uncounted
    BY <1>2, SwapMoves DEF Mapped, Counting, Uncounted
  <2> QED BY Zenon, <1>d, <2>1
<1>3. ASSUME NEW w \in Worker, LoadOrStore(w) PROVE CountInv'
  <2>1. CASE groups' = groups /\ wk'[w].pc = "reinsert"
    <3>1. Mapped' = Mapped /\ Counting' = Counting /\ num' = num /\ Uncounted' = Uncounted
      BY Zenon, <1>3, <2>1, StoreMoves DEF Mapped, Counting, Uncounted
    <3> QED BY Zenon, <1>d, <3>1
  <2>2. ASSUME NEW f \in Fp, groups[f] = 0, groups'[f] # 0, groups' = [groups EXCEPT ![f] = groups'[f]],
               wk'[w].pc = "count"
        PROVE  CountInv'
    <3>1. Mapped' = Mapped \cup {f} /\ f \notin Mapped
      BY <1>0, <2>2 DEF Mapped, TypeOK
    <3>2. Counting' = Counting \cup {w} /\ w \notin Counting
      BY <1>3, <2>2, StoreMoves DEF Counting
    <3>3. IsFiniteSet(Mapped') /\ Cardinality(Mapped') = Cardinality(Mapped) + 1
      BY Zenon, <3>1, FS_AddElement DEF CountInv
    <3>4. IsFiniteSet(Counting') /\ Cardinality(Counting') = Cardinality(Counting) + 1
      BY Zenon, <3>2, FS_AddElement DEF CountInv
    <3>5. num' = num /\ Uncounted' = Uncounted /\ Uncounted \in Int
      BY <1>3, StoreMoves DEF Uncounted
    <3>6. num' = Cardinality(Mapped') - Cardinality(Counting') + Uncounted'
      BY <1>a, <1>b, <3>3, <3>4, <3>5
    <3> QED BY Zenon, <1>c, <3>3, <3>4, <3>6
  <2> QED BY Zenon, <1>3, <2>1, <2>2, StoreMoves
<1>4. ASSUME NEW w \in Worker, Count(w) PROVE CountInv'
  <2>1. /\ wk[w].pc = "count" /\ wk'[w].pc = "start"
        /\ \A v \in Worker \ {w} : wk'[v] = wk[v]
        /\ groups' = groups /\ mt' = mt /\ num' = num + 1
    BY Zenon, <1>0, <1>4, GotoFacts DEF Count
  <2>2. Counting' = Counting \ {w} /\ w \in Counting
    BY Zenon, <2>1 DEF Counting
  <2>3. IsFiniteSet(Counting') /\ Cardinality(Counting') = Cardinality(Counting) - 1
    BY Zenon, <2>2, FS_RemoveElement DEF CountInv
  <2>4. Mapped' = Mapped /\ Uncounted' = Uncounted /\ Uncounted \in Int
    BY <2>1 DEF Mapped, Uncounted
  <2>5. num' = Cardinality(Mapped') - Cardinality(Counting') + Uncounted'
    BY <1>0, <1>a, <1>b, <2>1, <2>3, <2>4
  <2>6. IsFiniteSet(Mapped')
    BY Zenon, <2>4 DEF CountInv
  <2> QED BY Zenon, <1>c, <2>3, <2>5, <2>6
<1>5. ASSUME NEW w \in Worker, StartGroup(w) PROVE CountInv'
  <2>1. /\ wk[w].pc = "start" /\ wk'[w].pc = "idle"
        /\ \A v \in Worker \ {w} : wk'[v] = wk[v]
        /\ groups' = groups /\ mt' = mt /\ num' = num
    BY Zenon, <1>0, <1>5, ReturnFacts DEF StartGroup
  <2>2. Mapped' = Mapped /\ Counting' = Counting /\ Uncounted' = Uncounted
    BY Zenon, <2>1 DEF Mapped, Counting, Uncounted
  <2> QED BY Zenon, <1>d, <2>1, <2>2
<1>6. CASE TimerFires \/ \E f \in Fp : TimerVisits(f)
  <2>1. Mapped' = Mapped /\ Counting' = Counting /\ num' = num /\ Uncounted' = Uncounted
    BY Zenon, <1>6 DEF TimerFires, TimerVisits, Mapped, Counting, Uncounted
  <2> QED BY Zenon, <1>d, <2>1
<1>7. CASE SweepDelete
  <2>1. mtGroup # 0 /\ mtGroup \in Gid
    BY <1>0, <1>7 DEF IInv, SweptDestroyed, SweepDelete, TypeOK
  <2>2. CASE groups[KeyOf(mtGroup)] # mtGroup
    <3>1. Mapped' = Mapped /\ Counting' = Counting /\ num' = num /\ Uncounted' = Uncounted
      BY Zenon, <1>7, <2>2 DEF SweepDelete, Mapped, Counting, Uncounted
    <3> QED BY Zenon, <1>d, <3>1
  <2>3. CASE groups[KeyOf(mtGroup)] = mtGroup
    <3>1. /\ groups' = [groups EXCEPT ![KeyOf(mtGroup)] = 0] /\ mt' = "uncount" /\ mt # "uncount"
          /\ UNCHANGED <<wk, num>>
      BY Zenon, <1>7, <2>3 DEF SweepDelete
    <3>2. KeyOf(mtGroup) \in Fp
      <4>1. of[mtGroup] \in Alert \cup {None} /\ destroyed[mtGroup]
        BY <1>0, <1>7, <2>1 DEF TypeOK, IInv, SweptDestroyed, SweepDelete
      <4>2. ~Private(mtGroup) /\ taken \in Int /\ mtGroup \in Int
        BY <1>0, <2>1, <4>1 DEF Private, TypeOK, Gid
      <4>3. of[mtGroup] # None
        BY <2>1, <4>2 DEF IInv, Received
      <4> QED BY Zenon, <4>1, <4>3, DispatcherAssumption DEF KeyOf
    <3>3. Mapped' = Mapped \ {KeyOf(mtGroup)} /\ KeyOf(mtGroup) \in Mapped
      BY Zenon, <1>0, <2>1, <2>3, <3>1, <3>2 DEF Mapped, TypeOK
    <3>4. IsFiniteSet(Mapped') /\ Cardinality(Mapped') = Cardinality(Mapped) - 1
      BY Zenon, <3>3, FS_RemoveElement DEF CountInv
    <3>5. Counting' = Counting /\ Uncounted' = 1 /\ Uncounted = 0
      BY Zenon, <3>1 DEF Counting, Uncounted
    <3>6. num' = Cardinality(Mapped') - Cardinality(Counting') + Uncounted'
      BY <1>0, <1>a, <1>b, <3>1, <3>4, <3>5
    <3>7. IsFiniteSet(Counting')
      BY Zenon, <3>5 DEF CountInv
    <3> QED BY Zenon, <1>c, <3>4, <3>6, <3>7
  <2> QED BY <2>2, <2>3
<1>8. CASE SweepUncount
  <2>1. Mapped' = Mapped /\ Counting' = Counting /\ num' = num - 1 /\ Uncounted' = 0 /\ Uncounted = 1
    BY Zenon, <1>8 DEF SweepUncount, Mapped, Counting, Uncounted
  <2>2. num' = Cardinality(Mapped') - Cardinality(Counting') + Uncounted'
    BY <1>0, <1>a, <1>b, <2>1
  <2>3. IsFiniteSet(Mapped') /\ IsFiniteSet(Counting')
    BY Zenon, <2>1 DEF CountInv
  <2> QED BY Zenon, <1>c, <2>2, <2>3
<1>9. CASE \/ \E u \in Gid : TimeOut(u) \/ \E a \in Alert, resolved \in BOOLEAN : Put(u, a, resolved)
           \/ \E g \in Gid : GroupNext(g)
           \/ \E f \in Fp : Sweep(f)
           \/ MaintenanceExit \/ StopStore \/ StopCancel \/ UNCHANGED vars
  <2>1. Mapped' = Mapped /\ Counting' = Counting /\ num' = num /\ Uncounted' = Uncounted
    BY Zenon, <1>9, OtherMoves DEF Mapped, Counting, Uncounted
  <2> QED BY Zenon, <1>d, <2>1
<1> QED BY <1>1, <1>2, <1>3, <1>4, <1>5, <1>6, <1>7, <1>8, <1>9
        DEF Next, WorkerNext, TimerNext, MaintenanceNext

-----------------------------------------------------------------------------
(* Theorems *)

\* groupAlert never retries more often than its bound, and every variable of
\* the dispatcher keeps its type.
THEOREM TypeCorrect == Spec => []TypeOK
<1>1. IInv => TypeOK
  BY Zenon DEF IInv
<1> QED BY <1>1, Invariance, PTL

\* A firing alert that reached an aggregation group is held by the group in the
\* map, in its latest version: neither flush nor groupAlert nor maintenance
\* loses it (groupAlert, aggrGroup.flush, DeleteIfNotModified, doMaintenance).
THEOREM FiringIsHeldThm == Spec => []FiringIsHeld
<1>1. IInv => FiringIsHeld
  BY Zenon DEF IInv
<1> QED BY <1>1, Invariance, PTL

\* Two groups of one key are never notifying together: a group is replaced only
\* once it is destroyed, and a destroyed group has finished its last flush.
THEOREM OneNotifierThm == Spec => []OneNotifier
<1>1. IInv => OneNotifier
  BY Zenon DEF IInv, MappedUntilDestroyed, OneNotifier
<1> QED BY <1>1, Invariance, PTL

\* Every group in the map was started, or its creator is about to look at the state,
\* and the counter of the groups is exact up to those who have changed the map and not
\* yet the counter (groupAlert, runAG, doMaintenance); for any number of workers.
THEOREM PublishedIsCompleteThm == Spec => []PublishedIsComplete
<1>1. Init => StartInv
  BY DEF Init, StartInv
<1>2. Init => CountInv
  <2> SUFFICES ASSUME Init PROVE CountInv
    OBVIOUS
  <2>1. Mapped = {} /\ Counting = {} /\ num = 0 /\ mt # "uncount"
    BY Zenon DEF Init, Mapped, Counting, Idle
  <2>2. /\ IsFiniteSet(Mapped) /\ Cardinality(Mapped) = 0
        /\ IsFiniteSet(Counting) /\ Cardinality(Counting) = 0
    BY Zenon, <2>1, FS_EmptySet
  <2>3. CounterExact
    BY <2>1, <2>2 DEF CounterExact, Mapped, Counting
  <2> QED BY Zenon, <2>2, <2>3 DEF CountInv
<1>3. StartInv /\ CountInv => PublishedIsComplete
  BY Zenon DEF StartInv, CountInv, PublishedIsComplete, AllStarted, Started
<1> QED BY <1>1, <1>2, <1>3, StartInvStep, CountInvStep, Invariance, PTL DEF Spec
=============================================================================
