----------------------------- MODULE Dispatcher -----------------------------
(***************************************************************************)
(* The dispatcher and its aggregation groups (dispatch/dispatch.go, with    *)
(* the alert store of a group, store/store.go).  Several ingestion workers  *)
(* take alert updates from the provider's channel and insert them into      *)
(* aggregation groups; every group runs a goroutine that flushes it; the    *)
(* timer goroutine starts the groups when the start delay is over; the      *)
(* maintenance goroutine removes destroyed groups; Stop ends it all.        *)
(*                                                                         *)
(* Updates are numbered in the order the provider accepted them; the number *)
(* stands for the update's UpdatedAt, and also names the aggregation group  *)
(* that groupAlert may create for it.  A group key stands for a route and   *)
(* the group labels of an alert.  The group timers are abstracted: the      *)
(* timer of a running group may fire at any time.                           *)
(***************************************************************************)
EXTENDS Integers, FiniteSets

CONSTANTS
    Worker,         \* the ingestion goroutines
    Alert,          \* alert fingerprints
    Fp,             \* group keys
    FpOf,           \* FpOf[a]: the group key of alert a
    None,           \* no alert
    Limit,          \* MaxNumberOfAggregationGroups, 0 for unlimited
    MaxRetries,     \* creation attempts before groupAlert gives up (100 in the code)
    MaxUpdates      \* bound on the number of updates

\* Updates, and the aggregation groups created for them.
Gid == 1 .. MaxUpdates

ASSUME DispatcherAssumption ==
    /\ FpOf \in [Alert -> Fp]
    /\ None \notin Alert
    /\ Limit \in Nat /\ MaxRetries \in Nat /\ MaxUpdates \in Nat

VARIABLES
    state,      \* Dispatcher.state
    ctxDone,    \* Dispatcher.ctx is cancelled
    of,         \* of[u]: the alert of update u, None while u was not put
    ended,      \* the updates whose EndsAt has passed
    taken,      \* updates 1..taken were received from the provider's channel
    groups,     \* routeAggrGroups.groups: the group of each key, or 0
    num,        \* aggrGroupsNum
    wk,         \* wk[w]: where worker w is in groupAlert, and its local variables:
                \* the update, the group found in the map, the retries
    alerts,     \* alerts[g]: the store of group g, update 0 for an absent alert
    destroyed,  \* destroyed[g]: the store of g refuses alerts
    run,        \* run[g]: where the goroutine of g is
    cancelled,  \* cancelled[g]: the context of g is cancelled
    batch,      \* batch[g]: resolvedSlice of the flush in progress
    timer,      \* the keys the timer goroutine still has to visit, or where it is
    mt,         \* where the maintenance goroutine is
    mtGroup,    \* the group it works on
    held        \* held[a]: the last update of a that reached a group (auxiliary)

gVars  == <<alerts, destroyed, run, cancelled, batch>>
inVars == <<of, ended, taken>>
vars   == <<state, ctxDone, inVars, groups, num, wk, gVars, timer, mt, mtGroup, held>>

NoAlerts == [a \in Alert |-> 0]
Idle == [pc |-> "idle", upd |-> 0, el |-> 0, retries |-> 0]

Init ==
    /\ state = "waiting" /\ ctxDone = FALSE
    /\ of = [u \in Gid |-> None] /\ ended = {} /\ taken = 0
    /\ groups = [f \in Fp |-> 0] /\ num = 0
    /\ wk = [w \in Worker |-> Idle]
    /\ alerts = [g \in Gid |-> NoAlerts]
    /\ destroyed = [g \in Gid |-> FALSE]
    /\ run = [g \in Gid |-> "none"]
    /\ cancelled = [g \in Gid |-> FALSE]
    /\ batch = [g \in Gid |-> NoAlerts]
    /\ timer = [pc |-> "waiting", todo |-> {}]
    /\ mt = "idle" /\ mtGroup = 0
    /\ held = NoAlerts

-----------------------------------------------------------------------------
(* The provider's channel, external to the dispatcher *)

Put(u, a, resolved) ==
    /\ of[u] = None /\ \A t \in 1 .. (u - 1) : of[t] # None
    /\ of' = [of EXCEPT ![u] = a]
    /\ ended' = IF resolved THEN ended \cup {u} ELSE ended
    /\ UNCHANGED <<state, ctxDone, taken, groups, num, wk, gVars, timer, mt, mtGroup, held>>

\* The EndsAt of a firing update passes.
TimeOut(u) ==
    /\ of[u] # None /\ u \notin ended
    /\ ended' = ended \cup {u}
    /\ UNCHANGED <<state, ctxDone, of, taken, groups, num, wk, gVars, timer, mt, mtGroup, held>>

-----------------------------------------------------------------------------
(* Workers: run's receive loop and groupAlert *)

KeyOf(u) == FpOf[of[u]]

\* groupAlert returns, or goes on at l.
Return(w) == wk' = [wk EXCEPT ![w] = Idle]
Goto(w, l) == wk' = [wk EXCEPT ![w].pc = l]

\* store.Alerts.Set of update u into group g.
Set(g, u) ==
    /\ alerts' = [alerts EXCEPT ![g][of[u]] = u]
    /\ held' = [held EXCEPT ![of[u]] = u]

Take(w) ==
    /\ wk[w].pc = "idle"
    /\ taken < MaxUpdates /\ of[taken + 1] # None
    /\ taken' = taken + 1
    /\ wk' = [wk EXCEPT ![w].pc = "load", ![w].upd = taken + 1]
    /\ UNCHANGED <<state, ctxDone, of, ended, groups, num, gVars, timer, mt, mtGroup, held>>

WorkerExit(w) ==
    /\ wk[w].pc = "idle" /\ ctxDone
    /\ Goto(w, "exited")
    /\ UNCHANGED <<state, ctxDone, inVars, groups, num, gVars, timer, mt, mtGroup, held>>

\* groups.Load(fp)
Load(w) ==
    LET g == groups[KeyOf(wk[w].upd)] IN
    /\ wk[w].pc = "load"
    /\ wk' = [wk EXCEPT ![w].el = g, ![w].pc = IF g = 0 THEN "limit" ELSE "insert"]
    /\ UNCHANGED <<state, ctxDone, inVars, groups, num, gVars, timer, mt, mtGroup, held>>

\* ag.insert into the group that Load found.
Insert(w) ==
    /\ wk[w].pc = "insert"
    /\ IF destroyed[wk[w].el]
       THEN Goto(w, "limit") /\ UNCHANGED <<alerts, held>>
       ELSE Set(wk[w].el, wk[w].upd) /\ Return(w)
    /\ UNCHANGED <<state, ctxDone, inVars, groups, num, destroyed, run, cancelled, batch, timer,
                   mt, mtGroup>>

\* Mutant: the group is started before it is in the map.
CreateRuns(w) ==
    LET u == wk[w].upd IN
    /\ wk[w].pc = "limit"
    /\ alerts' = [alerts EXCEPT ![u][of[u]] = u]
    /\ run' = IF state = "running" THEN [run EXCEPT ![u] = "waiting"] ELSE run
    /\ Goto(w, IF wk[w].el = 0 THEN "loadorstore" ELSE "swap")
    /\ UNCHANGED <<state, ctxDone, inVars, groups, num, destroyed, cancelled, batch, timer,
                   mt, mtGroup, held>>

\* The limit check, then newAggrGroup and its first insert.
Create(w) ==
    LET u == wk[w].upd IN
    /\ wk[w].pc = "limit"
    /\ IF Limit > 0 /\ num >= Limit
       THEN Return(w) /\ UNCHANGED alerts
       ELSE /\ alerts' = [alerts EXCEPT ![u][of[u]] = u]
            /\ Goto(w, IF wk[w].el = 0 THEN "loadorstore" ELSE "swap")
    /\ UNCHANGED <<state, ctxDone, inVars, groups, num, destroyed, run, cancelled, batch, timer,
                   mt, mtGroup, held>>

\* The end of a round of the creation loop: another round, or give up.
Retry(w, l) ==
    IF wk[w].retries + 1 > MaxRetries
    THEN Return(w)
    ELSE wk' = [wk EXCEPT ![w].retries = @ + 1, ![w].pc = l]

\* groups.CompareAndSwap(fp, el, ag)
Swap(w) ==
    LET u == wk[w].upd
        f == KeyOf(u) IN
    /\ wk[w].pc = "swap"
    /\ IF groups[f] = wk[w].el
       THEN /\ groups' = [groups EXCEPT ![f] = u]
            /\ cancelled' = [cancelled EXCEPT ![wk[w].el] = TRUE]
            /\ held' = [held EXCEPT ![of[u]] = u]
            /\ Goto(w, "start")
       ELSE /\ Retry(w, "loadorstore")
            /\ UNCHANGED <<groups, cancelled, held>>
    /\ UNCHANGED <<state, ctxDone, inVars, num, alerts, destroyed, run, batch, timer, mt, mtGroup>>

\* groups.LoadOrStore(fp, ag)
LoadOrStore(w) ==
    LET u == wk[w].upd
        f == KeyOf(u) IN
    /\ wk[w].pc = "loadorstore"
    /\ IF groups[f] = 0
       THEN /\ groups' = [groups EXCEPT ![f] = u]
            /\ held' = [held EXCEPT ![of[u]] = u]
            /\ Goto(w, "count")
       ELSE /\ wk' = [wk EXCEPT ![w].el = groups[f], ![w].pc = "reinsert"]
            /\ UNCHANGED <<groups, held>>
    /\ UNCHANGED <<state, ctxDone, inVars, num, gVars, timer, mt, mtGroup>>

\* agExisting.insert: the new group is dropped when the existing one takes the alert.
Reinsert(w) ==
    /\ wk[w].pc = "reinsert"
    /\ IF destroyed[wk[w].el]
       THEN Retry(w, "swap") /\ UNCHANGED <<alerts, held>>
       ELSE Set(wk[w].el, wk[w].upd) /\ Return(w)
    /\ UNCHANGED <<state, ctxDone, inVars, groups, num, destroyed, run, cancelled, batch, timer,
                   mt, mtGroup>>

\* aggrGroupsNum.Add(1)
Count(w) ==
    /\ wk[w].pc = "count"
    /\ num' = num + 1
    /\ Goto(w, "start")
    /\ UNCHANGED <<state, ctxDone, inVars, groups, gVars, timer, mt, mtGroup, held>>

\* runAG: at most one goroutine per group.
RunAG(g) == run' = IF run[g] = "none" THEN [run EXCEPT ![g] = "waiting"] ELSE run

\* Mutant: the worker leaves the start to the timer goroutine.
StartGroupNever(w) ==
    /\ wk[w].pc = "start"
    /\ Return(w)
    /\ UNCHANGED <<state, ctxDone, inVars, groups, num, gVars, timer, mt, mtGroup, held>>

\* The state decides whether the worker starts the group.
StartGroup(w) ==
    /\ wk[w].pc = "start"
    /\ IF state = "running" THEN RunAG(wk[w].upd) ELSE UNCHANGED run
    /\ Return(w)
    /\ UNCHANGED <<state, ctxDone, inVars, groups, num, alerts, destroyed, cancelled, batch, timer,
                   mt, mtGroup, held>>

-----------------------------------------------------------------------------
(* The timer goroutine *)

\* Mutant: the existing groups are not started.
TimerFiresNoRange ==
    /\ timer.pc = "waiting"
    /\ state' = IF state = "waiting" THEN "running" ELSE state
    /\ timer' = [pc |-> "exited", todo |-> {}]
    /\ UNCHANGED <<ctxDone, inVars, groups, num, wk, gVars, mt, mtGroup, held>>

\* Mutant: the goroutine waits for the waiting state.
TimerFiresBlocks ==
    /\ timer.pc = "waiting" /\ state = "waiting"
    /\ state' = "running"
    /\ timer' = [pc |-> "ranging", todo |-> Fp]
    /\ UNCHANGED <<ctxDone, inVars, groups, num, wk, gVars, mt, mtGroup, held>>

\* The start delay is over.
TimerFires ==
    /\ timer.pc = "waiting"
    /\ IF state = "waiting"
       THEN /\ state' = "running"
            /\ timer' = [pc |-> "ranging", todo |-> Fp]
       ELSE /\ timer' = [pc |-> "exited", todo |-> {}]
            /\ UNCHANGED state
    /\ UNCHANGED <<ctxDone, inVars, groups, num, wk, gVars, mt, mtGroup, held>>

\* Range visits a key and starts its group.
TimerVisits(f) ==
    /\ timer.pc = "ranging" /\ f \in timer.todo
    /\ IF groups[f] # 0 THEN RunAG(groups[f]) ELSE UNCHANGED run
    /\ timer' = [pc |-> IF timer.todo = {f} THEN "exited" ELSE "ranging", todo |-> timer.todo \ {f}]
    /\ UNCHANGED <<state, ctxDone, inVars, groups, num, wk, alerts, destroyed, cancelled, batch,
                   mt, mtGroup, held>>

-----------------------------------------------------------------------------
(* The goroutine of an aggregation group: run and flush *)

\* The timer fires: flush lists the alerts; those resolved now make up the batch.
Flush(g) ==
    /\ run[g] = "waiting"
    /\ IF alerts[g] = NoAlerts
       THEN run' = [run EXCEPT ![g] = "flushed"] /\ UNCHANGED batch
       ELSE /\ run' = [run EXCEPT ![g] = "notifying"]
            /\ batch' = [batch EXCEPT ![g] =
                  [a \in Alert |-> IF alerts[g][a] \in ended THEN alerts[g][a] ELSE 0]]
    /\ UNCHANGED <<state, ctxDone, inVars, groups, num, wk, alerts, destroyed, cancelled, timer,
                   mt, mtGroup, held>>

\* Mutant: the batch is deleted without looking at UpdatedAt.
DeleteBatch(g) ==
    LET left == [a \in Alert |-> IF batch[g][a] # 0 THEN 0 ELSE alerts[g][a]]
    IN  /\ alerts' = [alerts EXCEPT ![g] = left]
        /\ destroyed' = IF left = NoAlerts THEN [destroyed EXCEPT ![g] = TRUE] ELSE destroyed

\* store.Alerts.DeleteIfNotModified(batch, true)
DeleteIfNotModified(g) ==
    LET left == [a \in Alert |-> IF batch[g][a] # 0 /\ alerts[g][a] = batch[g][a]
                                 THEN 0 ELSE alerts[g][a]]
    IN  /\ alerts' = [alerts EXCEPT ![g] = left]
        /\ destroyed' = IF left = NoAlerts THEN [destroyed EXCEPT ![g] = TRUE] ELSE destroyed

\* The notification pipeline returned.
Notified(g, ok) ==
    /\ run[g] = "notifying"
    /\ IF ok THEN DeleteIfNotModified(g) ELSE UNCHANGED <<alerts, destroyed>>
    /\ run' = [run EXCEPT ![g] = "flushed"]
    /\ batch' = [batch EXCEPT ![g] = NoAlerts]
    /\ UNCHANGED <<state, ctxDone, inVars, groups, num, wk, cancelled, timer, mt, mtGroup, held>>

Flushed(g) ==
    /\ run[g] = "flushed"
    /\ run' = [run EXCEPT ![g] = IF destroyed[g] THEN "done" ELSE "waiting"]
    /\ UNCHANGED <<state, ctxDone, inVars, groups, num, wk, alerts, destroyed, cancelled, batch,
                   timer, mt, mtGroup, held>>

\* The run loop sees its context cancelled.
RunCancelled(g) ==
    /\ run[g] = "waiting" /\ (cancelled[g] \/ ctxDone)
    /\ run' = [run EXCEPT ![g] = "done"]
    /\ UNCHANGED <<state, ctxDone, inVars, groups, num, wk, alerts, destroyed, cancelled, batch,
                   timer, mt, mtGroup, held>>

-----------------------------------------------------------------------------
(* The maintenance goroutine *)

\* Range finds a destroyed group; ag.stop cancels its context.
Sweep(f) ==
    /\ mt = "idle"
    /\ groups[f] # 0 /\ destroyed[groups[f]]
    /\ cancelled' = [cancelled EXCEPT ![groups[f]] = TRUE]
    /\ mt' = "stopping" /\ mtGroup' = groups[f]
    /\ UNCHANGED <<state, ctxDone, inVars, groups, num, wk, alerts, destroyed, run, batch, timer, held>>

\* ag.stop saw ag.done; CompareAndDelete(fp, ag).
SweepDelete ==
    LET f == KeyOf(mtGroup) IN
    /\ mt = "stopping" /\ run[mtGroup] = "done"
    /\ IF groups[f] = mtGroup
       THEN groups' = [groups EXCEPT ![f] = 0] /\ mt' = "uncount"
       ELSE UNCHANGED groups /\ mt' = "idle"
    /\ mtGroup' = 0
    /\ UNCHANGED <<state, ctxDone, inVars, num, wk, gVars, timer, held>>

\* aggrGroupsNum.Add(-1)
SweepUncount ==
    /\ mt = "uncount"
    /\ num' = num - 1
    /\ mt' = "idle"
    /\ UNCHANGED <<state, ctxDone, inVars, groups, wk, gVars, timer, mtGroup, held>>

MaintenanceExit ==
    /\ mt = "idle" /\ ctxDone
    /\ mt' = "exited"
    /\ UNCHANGED <<state, ctxDone, inVars, groups, num, wk, gVars, timer, mtGroup, held>>

-----------------------------------------------------------------------------
(* Stop *)

StopStore ==
    /\ state # "stopped"
    /\ state' = "stopped"
    /\ UNCHANGED <<ctxDone, inVars, groups, num, wk, gVars, timer, mt, mtGroup, held>>

StopCancel ==
    /\ state = "stopped" /\ ~ctxDone
    /\ ctxDone' = TRUE
    /\ UNCHANGED <<state, inVars, groups, num, wk, gVars, timer, mt, mtGroup, held>>

\* finished.Wait() returned.
StopReturned ==
    /\ ctxDone
    /\ \A w \in Worker : wk[w].pc = "exited"
    /\ mt = "exited" /\ timer.pc = "exited"

-----------------------------------------------------------------------------
WorkerNext(w) ==
    \/ Take(w) \/ WorkerExit(w) \/ Load(w) \/ Insert(w) \/ Create(w) \/ Swap(w)
    \/ LoadOrStore(w) \/ Reinsert(w) \/ Count(w) \/ StartGroup(w)

TimerNext == TimerFires \/ \E f \in Fp : TimerVisits(f)

GroupNext(g) ==
    Flush(g) \/ (\E ok \in BOOLEAN : Notified(g, ok)) \/ Flushed(g) \/ RunCancelled(g)

MaintenanceNext ==
    (\E f \in Fp : Sweep(f)) \/ SweepDelete \/ SweepUncount \/ MaintenanceExit

Next ==
    \/ \E u \in Gid : TimeOut(u) \/ \E a \in Alert, resolved \in BOOLEAN : Put(u, a, resolved)
    \/ \E w \in Worker : WorkerNext(w)
    \/ TimerNext
    \/ \E g \in Gid : GroupNext(g)
    \/ MaintenanceNext
    \/ StopStore \/ StopCancel

Spec == Init /\ [][Next]_vars

\* Go schedules every runnable goroutine; the start timer, the group timers
\* and the maintenance ticker fire; the pipeline returns because its context
\* has a deadline; Stop, once called, proceeds to cancel.
Fairness ==
    /\ \A w \in Worker : WF_vars(WorkerNext(w))
    /\ WF_vars(TimerNext)
    /\ \A g \in Gid : WF_vars(GroupNext(g))
    /\ WF_vars(MaintenanceNext)
    /\ WF_vars(StopCancel)

FairSpec == Spec /\ Fairness

-----------------------------------------------------------------------------
(* Properties *)

WorkerRec == [pc : {"idle", "load", "insert", "limit", "swap", "loadorstore", "reinsert", "count",
                    "start", "exited"},
              upd : Gid \cup {0}, el : Gid \cup {0}, retries : 0 .. MaxRetries]

\* Type invariant; retries never passes the number after which groupAlert gives up.
TypeOK ==
    /\ state \in {"waiting", "running", "stopped"} /\ ctxDone \in BOOLEAN
    /\ of \in [Gid -> Alert \cup {None}] /\ ended \subseteq Gid /\ taken \in 0 .. MaxUpdates
    /\ groups \in [Fp -> Gid \cup {0}] /\ num \in Int
    /\ wk \in [Worker -> WorkerRec]
    /\ alerts \in [Gid -> [Alert -> Gid \cup {0}]]
    /\ destroyed \in [Gid -> BOOLEAN] /\ cancelled \in [Gid -> BOOLEAN]
    /\ run \in [Gid -> {"none", "waiting", "notifying", "flushed", "done"}]
    /\ batch \in [Gid -> [Alert -> Gid \cup {0}]]
    /\ timer \in [pc : {"waiting", "ranging", "exited"}, todo : SUBSET Fp]
    /\ mt \in {"idle", "stopping", "uncount", "exited"} /\ mtGroup \in Gid \cup {0}
    /\ held \in [Alert -> Gid \cup {0}]

\* A firing alert that reached an aggregation group stays in the group that is
\* in the map, in its latest applied version, whatever flush, creation and
\* maintenance do at the same time: flush deletes no alert that fired again
\* during the notification, and no alert is inserted into a group that was
\* replaced or removed.
FiringIsHeld ==
    \A a \in Alert : (held[a] # 0 /\ held[a] \notin ended) =>
        LET g == groups[FpOf[a]] IN g # 0 /\ ~destroyed[g] /\ alerts[g][a] = held[a]

\* At most one aggregation group of a key is notifying at any time.
OneNotifier ==
    \A g, h \in Gid : (g # h /\ run[g] = "notifying" /\ run[h] = "notifying")
        => KeyOf(g) # KeyOf(h)

\* When the timer goroutine has finished its range, every group in the map was
\* started, except one whose creator is still about to look at the state: no
\* group is left behind by the race between creation and the end of the start
\* delay.
AllStarted ==
    (timer.pc = "exited" /\ state = "running") =>
        \A f \in Fp : LET g == groups[f] IN
            \/ g = 0 \/ run[g] # "none"
            \/ \E w \in Worker : wk[w].upd = g /\ wk[w].pc \in {"count", "start"}

\* aggrGroupsNum is the number of groups in the map, corrected by the workers
\* and the maintenance that have changed the map and not yet the counter.
CounterExact ==
    num = Cardinality({f \in Fp : groups[f] # 0})
            - Cardinality({w \in Worker : wk[w].pc = "count"})
            + (IF mt = "uncount" THEN 1 ELSE 0)

\* groupAlert, the timer goroutine, doMaintenance: a group that is in the map is started
\* and counted, whichever goroutines create, start, replace and remove groups at once.
PublishedIsComplete == AllStarted /\ CounterExact

\* An alert that reached a group is notified, unless it ends, is replaced by a
\* later update or the dispatcher is stopped.
EventuallyNotified ==
    \A a \in Alert, u \in Gid :
        held[a] = u ~> \/ held[a] # u \/ u \in ended \/ state = "stopped"
                      \/ \E g \in Gid : run[g] = "notifying" /\ alerts[g][a] = u

\* Stop returns: no worker, timer or maintenance step blocks it forever, not
\* even maintenance waiting for the goroutine of a destroyed group.
StopReturns == state = "stopped" ~> StopReturned
=============================================================================
