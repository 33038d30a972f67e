------------------------------ MODULE Pipeline ------------------------------
(***************************************************************************)
(* The notification pipeline of one aggregation group (notify/), from the   *)
(* flush of the group to the deletion of its resolved alerts.  The stages   *)
(* run in the order PipelineBuilder.New gives them; the integrations of the *)
(* receiver run concurrently (FanoutStage), each with its own entry in the  *)
(* notification log.  Receivers may fail, or accept a notification whose    *)
(* answer is lost; the context of a flush may end at any time.              *)
(*                                                                         *)
(* Time is abstracted: `stale' says that the repeat interval of the logged  *)
(* notification has passed.  The log is that of one peer; its replication   *)
(* is in NFLog and HAPipeline.                                              *)
(***************************************************************************)
EXTENDS FiniteSets

CONSTANTS
    Alert,          \* the alerts of the group
    Integration,    \* the integrations of the group's receiver
    SendResolved,   \* the integrations that send resolved alerts
    Scenes,         \* the environments considered, see Scene
    NoEntry

\* What the environment may do.
Scene == [broken : SUBSET Integration,  \* integrations that never accept anything
          muting : BOOLEAN,             \* the muting stages may mute
          lostAcks : BOOLEAN,           \* the answer of a receiver may be lost
          expiry : BOOLEAN,             \* a stale log entry may be collected
          stopping : BOOLEAN]           \* the group may be stopped during a flush

ASSUME PipelineAssumption ==
    /\ SendResolved \subseteq Integration /\ Scenes \subseteq Scene
    /\ NoEntry \notin [firing : SUBSET Alert, resolved : SUBSET Alert]

VARIABLES
    scene,      \* the environment; chosen at the start
    grp,        \* grp[a]: the alert in the group's store
    pc,         \* the stage of the flush in progress, or idle
    batch,      \* the alerts the flush listed
    cur,        \* those of them still in the pipeline
    touched,    \* the alerts stored again since the flush listed them
    ctxDone,    \* the context of the flush is done
    ready,      \* Peer.readyc is closed: the gossip has settled
    ipc,        \* ipc[i]: the stage integration i is in
    log,        \* log[i]: the notification log entry of the group and i
    stale,      \* stale[i]: the repeat interval has passed since log[i]
    acked,      \* acked[i]: the firing alerts of the last notification i accepted
    told        \* told[i][a]: what i was last told about a

flushVars == <<pc, batch, cur, touched, ctxDone>>
vars == <<scene, grp, flushVars, ready, ipc, log, stale, acked, told>>

Status == {"none", "firing", "resolved"}
Nothing == [a \in Alert |-> "none"]

Init ==
    /\ scene \in Scenes
    /\ grp = Nothing
    /\ pc = "idle" /\ batch = Nothing /\ cur = {} /\ touched = {} /\ ctxDone = FALSE
    /\ ready = FALSE
    /\ ipc = [i \in Integration |-> "idle"]
    /\ log = [i \in Integration |-> NoEntry]
    /\ stale = [i \in Integration |-> FALSE]
    /\ acked = [i \in Integration |-> {}]
    /\ told = [i \in Integration |-> Nothing]

-----------------------------------------------------------------------------
(* The group's store and the flush, see Dispatcher *)

\* An update of an alert is stored.
Put(a, s) ==
    /\ grp' = [grp EXCEPT ![a] = s]
    /\ touched' = IF pc = "idle" THEN {} ELSE touched \cup {a}
    /\ UNCHANGED <<pc, batch, cur, ctxDone, ready, ipc, log, stale, acked, told>>

\* The EndsAt of a firing alert passes.
TimeOut(a) ==
    /\ grp[a] = "firing"
    /\ grp' = [grp EXCEPT ![a] = "resolved"]
    /\ UNCHANGED <<flushVars, ready, ipc, log, stale, acked, told>>

Flush ==
    /\ pc = "idle" /\ grp # Nothing
    /\ batch' = grp /\ cur' = {a \in Alert : grp[a] # "none"}
    /\ pc' = "settle"
    /\ UNCHANGED <<grp, touched, ctxDone, ready, ipc, log, stale, acked, told>>

\* The context of the flush ends.  The group may be stopped at any time; the
\* timeout is the wait of ClusterWaitStage plus at least MinTimeout, so it does
\* not pass between the settling of the gossip and the first attempts.
Deadline ==
    /\ ~ctxDone
    /\ \/ scene.stopping /\ pc # "idle"
       \/ pc = "settle" /\ ~ready
       \/ pc = "receiver" /\ \A i \in Integration : ipc[i] \notin {"wait", "dedup"}
    /\ ctxDone' = TRUE
    /\ UNCHANGED <<grp, pc, batch, cur, touched, ready, ipc, log, stale, acked, told>>

\* Mutant: the resolved alerts are deleted even if a stage failed.
FinishAlways(ok) ==
    /\ grp' = [a \in Alert |-> IF batch[a] = "resolved" /\ a \notin touched THEN "none" ELSE grp[a]]
    /\ pc' = "idle" /\ batch' = Nothing /\ cur' = {} /\ touched' = {} /\ ctxDone' = FALSE
    /\ ipc' = [i \in Integration |-> "idle"]
    /\ UNCHANGED <<ready, log, stale, acked, told>>

\* The pipeline returned; after success the resolved alerts of the flush leave
\* the group, unless they were stored again.
Finish(ok) ==
    /\ grp' = [a \in Alert |-> IF ok /\ batch[a] = "resolved" /\ a \notin touched
                               THEN "none" ELSE grp[a]]
    /\ pc' = "idle" /\ batch' = Nothing /\ cur' = {} /\ touched' = {} /\ ctxDone' = FALSE
    /\ ipc' = [i \in Integration |-> "idle"]
    /\ UNCHANGED <<ready, log, stale, acked, told>>

-----------------------------------------------------------------------------
(* The stages up to the receiver's integrations; MultiStage ends with success *)
(* as soon as no alert is left                                              *)

NextStage == [settle |-> "inhibit", inhibit |-> "active", active |-> "timemute",
              timemute |-> "silence", silence |-> "fanout"]

\* A stage passes the alerts kept on.
Pass(kept) ==
    /\ cur' = kept
    /\ pc' = NextStage[pc]
    /\ UNCHANGED <<grp, batch, touched, ctxDone, ready, ipc, log, stale, acked, told>>

\* Peer.Settle closes readyc.
GossipSettles ==
    /\ ~ready /\ ready' = TRUE
    /\ UNCHANGED <<grp, flushVars, ipc, log, stale, acked, told>>

\* ClusterGossipSettleStage
Settled == pc = "settle" /\ ready /\ Pass(cur)
SettleFails == pc = "settle" /\ ctxDone /\ Finish(FALSE)

\* MuteStage, for the inhibitor and the silencer.
MuteStage(muted) ==
    /\ pc \in {"inhibit", "silence"} /\ cur # {}
    /\ muted # {} => scene.muting
    /\ Pass(cur \ muted)

\* TimeActiveStage and TimeMuteStage drop all alerts or none.
TimeStage(muted) ==
    /\ pc \in {"active", "timemute"} /\ cur # {}
    /\ muted => scene.muting
    /\ Pass(IF muted THEN {} ELSE cur)

\* MultiStage: nothing is left.
NothingLeft ==
    /\ pc \in DOMAIN NextStage \cup {"fanout"} /\ cur = {}
    /\ Finish(TRUE)

-----------------------------------------------------------------------------
(* FanoutStage: every integration waits, deduplicates, retries and logs     *)

firing   == {a \in cur : batch[a] = "firing"}
resolved == {a \in cur : batch[a] = "resolved"}

Go(i, l) == ipc' = [ipc EXCEPT ![i] = l]

Fanout ==
    /\ pc = "fanout" /\ cur # {}
    /\ pc' = "receiver"
    /\ ipc' = [i \in Integration |-> "wait"]
    /\ UNCHANGED <<grp, batch, cur, touched, ctxDone, ready, log, stale, acked, told>>

\* ClusterWaitStage
Waited(i) ==
    /\ ipc[i] = "wait" /\ Go(i, "dedup")
    /\ UNCHANGED <<grp, flushVars, ready, log, stale, acked, told>>

\* Mutant: a notification is never repeated.
needsUpdateNeverRepeats(i) ==
    LET e == log[i] IN
    IF e = NoEntry THEN firing # {}
    ELSE \/ ~(firing \subseteq e.firing)
         \/ firing = {} /\ e.firing # {}
         \/ firing # {} /\ i \in SendResolved /\ ~(resolved \subseteq e.resolved)

\* needsUpdate: whether to notify, from the last logged notification.
needsUpdate(i) ==
    LET e == log[i] IN
    IF e = NoEntry THEN firing # {}
    ELSE \/ ~(firing \subseteq e.firing)
         \/ firing = {} /\ e.firing # {}
         \/ firing # {} /\ \/ i \in SendResolved /\ ~(resolved \subseteq e.resolved)
                           \/ stale[i]

\* DedupStage; without a reason to notify MultiStage ends with success.
DedupStage(i) ==
    /\ ipc[i] = "dedup"
    /\ Go(i, IF needsUpdate(i) THEN "retry" ELSE "done")
    /\ UNCHANGED <<grp, flushVars, ready, log, stale, acked, told>>

\* The integration receives what RetryStage sends.
Deliver(i) ==
    told' = [told EXCEPT ![i] = [a \in Alert |->
                IF a \in firing \/ (a \in resolved /\ i \in SendResolved)
                THEN batch[a] ELSE told[i][a]]]

\* RetryStage has nothing to send.
NothingToSend(i) ==
    /\ ipc[i] = "retry" /\ i \notin SendResolved /\ firing = {}
    /\ Go(i, "log")
    /\ UNCHANGED <<grp, flushVars, ready, log, stale, acked, told>>

\* An attempt of RetryStage succeeds.
NotifyOk(i) ==
    /\ ipc[i] = "retry" /\ ~ctxDone /\ i \notin scene.broken
    /\ i \in SendResolved \/ firing # {}
    /\ Deliver(i)
    /\ acked' = [acked EXCEPT ![i] = firing]
    /\ Go(i, "log")
    /\ UNCHANGED <<grp, flushVars, ready, log, stale>>

\* The receiver accepted the notification and the answer was lost; RetryStage
\* tries again.  (An attempt that fails otherwise changes nothing.)
NotifyLost(i) ==
    /\ ipc[i] = "retry" /\ ~ctxDone /\ i \notin scene.broken /\ scene.lostAcks
    /\ i \in SendResolved \/ firing # {}
    /\ Deliver(i)
    /\ UNCHANGED <<grp, flushVars, ready, ipc, log, stale, acked>>

\* Mutant: the error is dropped.
NotifyFailsQuietly(i) ==
    /\ ipc[i] = "retry" /\ (i \in SendResolved \/ firing # {})
    /\ Go(i, "log")
    /\ UNCHANGED <<grp, flushVars, ready, log, stale, acked, told>>

\* RetryStage gives up: an unrecoverable error, or the context is done.
NotifyFails(i) ==
    /\ ipc[i] = "retry" /\ (i \in SendResolved \/ firing # {})
    /\ Go(i, "failed")
    /\ UNCHANGED <<grp, flushVars, ready, log, stale, acked, told>>

\* ClusterWaitStage sees its context done.
WaitFails(i) ==
    /\ ipc[i] = "wait" /\ ctxDone
    /\ Go(i, "failed")
    /\ UNCHANGED <<grp, flushVars, ready, log, stale, acked, told>>

\* SetNotifiesStage
SetNotifiesStage(i) ==
    /\ ipc[i] = "log"
    /\ log' = [log EXCEPT ![i] = [firing |-> firing, resolved |-> resolved]]
    /\ stale' = [stale EXCEPT ![i] = FALSE]
    /\ Go(i, "done")
    /\ UNCHANGED <<grp, flushVars, ready, acked, told>>

\* All integrations returned.
FanoutReturns ==
    /\ pc = "receiver" /\ \A i \in Integration : ipc[i] \in {"done", "failed"}
    /\ Finish(\A i \in Integration : ipc[i] = "done")

-----------------------------------------------------------------------------
(* Time *)

RepeatElapses(i) ==
    /\ log[i] # NoEntry /\ ~stale[i]
    /\ stale' = [stale EXCEPT ![i] = TRUE]
    /\ UNCHANGED <<grp, flushVars, ready, ipc, log, acked, told>>

\* The log collects the entry; it lives for twice the repeat interval.
Expire(i) ==
    /\ scene.expiry /\ stale[i]
    /\ log' = [log EXCEPT ![i] = NoEntry]
    /\ stale' = [stale EXCEPT ![i] = FALSE]
    /\ UNCHANGED <<grp, flushVars, ready, ipc, acked, told>>

-----------------------------------------------------------------------------
IntegrationNext(i) ==
    \/ Waited(i) \/ WaitFails(i) \/ DedupStage(i) \/ NothingToSend(i) \/ NotifyOk(i) \/ NotifyLost(i)
    \/ NotifyFails(i) \/ SetNotifiesStage(i)

StageNext ==
    \/ Settled \/ SettleFails \/ NothingLeft \/ Fanout \/ FanoutReturns
    \/ \E muted \in SUBSET cur : MuteStage(muted)
    \/ \E muted \in BOOLEAN : TimeStage(muted)

Step ==
    \/ \E a \in Alert : TimeOut(a) \/ \E s \in {"firing", "resolved"} : Put(a, s)
    \/ Flush \/ Deadline \/ GossipSettles \/ StageNext
    \/ \E i \in Integration : IntegrationNext(i) \/ RepeatElapses(i) \/ Expire(i)

InScene(A) == A /\ UNCHANGED scene

Next == InScene(Step)

Spec == Init /\ [][Next]_vars

\* The gossip settles, the group timer fires, every goroutine runs, the repeat
\* interval passes.  A receiver that is not broken accepts a notification if it
\* is tried again and again.
Fairness ==
    /\ WF_vars(InScene(GossipSettles)) /\ WF_vars(InScene(Flush)) /\ WF_vars(InScene(StageNext))
    /\ \A i \in Integration :
        /\ WF_vars(InScene(IntegrationNext(i))) /\ WF_vars(InScene(RepeatElapses(i)))
        /\ SF_vars(InScene(NotifyOk(i)))

FairSpec == Spec /\ Fairness

-----------------------------------------------------------------------------
(* Properties *)

\* Type invariant.
TypeOK ==
    /\ scene \in Scenes
    /\ grp \in [Alert -> Status] /\ batch \in [Alert -> Status]
    /\ pc \in {"idle", "receiver"} \cup DOMAIN NextStage \cup {NextStage[s] : s \in DOMAIN NextStage}
    /\ cur \subseteq Alert /\ touched \subseteq Alert
    /\ ctxDone \in BOOLEAN /\ ready \in BOOLEAN
    /\ ipc \in [Integration -> {"idle", "wait", "dedup", "retry", "log", "done", "failed"}]
    /\ log \in [Integration -> [firing : SUBSET Alert, resolved : SUBSET Alert] \cup {NoEntry}]
    /\ stale \in [Integration -> BOOLEAN]
    /\ acked \in [Integration -> SUBSET Alert]
    /\ told \in [Integration -> [Alert -> Status]]

\* The notification log says only what a receiver accepted: the firing alerts
\* of an entry are those of the last notification the integration accepted.  A
\* notification that failed, timed out or was cancelled is never logged, so it
\* is not deduplicated later.
LogIsTruthful ==
    \A i \in Integration : (log[i] # NoEntry /\ ipc[i] # "log" /\ log[i].firing # {})
        => acked[i] = log[i].firing

\* Answers arrive, nothing is muted, and log entries live.
Undisturbed == ~scene.muting /\ ~scene.lostAcks /\ ~scene.expiry

\* A resolved alert leaves the group only when no receiver that wants resolved
\* alerts still takes it for firing, if the environment is undisturbed.
ResolvedBeforeForgotten ==
    Undisturbed => \A i \in SendResolved, a \in Alert : grp[a] = "none" => told[i][a] # "firing"

\* An alert that keeps firing is, in the end, firing for every receiver that
\* works, whatever the receivers next to it do and whatever answers are lost.
FiringIsTold ==
    \A i \in Integration, a \in Alert :
        <>[](grp[a] = "firing" /\ i \notin scene.broken) => <>[](told[i][a] = "firing")

\* An alert that stays resolved is, in the end, not firing for any receiver
\* that works and wants resolved alerts, if the environment is undisturbed.
ResolvedIsTold ==
    \A i \in SendResolved, a \in Alert :
        <>[](grp[a] # "firing" /\ Undisturbed /\ i \notin scene.broken) => <>[](told[i][a] # "firing")

\* DedupStage, RetryStage, SetNotifiesStage: a receiver that works knows, in the end,
\* how an alert is that stays firing or resolved.
ToldInTheEnd == FiringIsTold /\ ResolvedIsTold
=============================================================================
