------------------------------ MODULE Connect ------------------------------
(***************************************************************************)
(* The Connect API (api/connect): admission of unary RPCs and of streams,   *)
(* deadlines, and GetStatus, which reads the cluster in a goroutine of its  *)
(* own because Peers() may wait for the locks of memberlist.  At most one   *)
(* such goroutine exists; it may outlive the RPC that started it.           *)
(***************************************************************************)
EXTENDS Integers, FiniteSets

CONSTANTS Calls,      \* RPCs and streams under way
          Unary,      \* capacity for unary RPCs
          Streams,    \* capacity for streams
          Configs,    \* configurations that are loaded one after the other
          Views,      \* views of the cluster, one after the other
          Nobody      \* no value

VARIABLES call,       \* the handlers
          unary,      \* tokens in admission.unary
          streams,    \* tokens in admission.streams
          sem,        \* tokens in peerSnapshotSem
          snap,       \* the goroutine of snapshotClusterStatus started by a call
          config,     \* configSnapshot
          view,       \* what Peers() and Status() return at the moment
          stuck       \* memberlist holds its lock

connectVars == <<call, unary, streams, sem, snap, config, view, stuck>>

NoCall == [pc |-> "none", kind |-> Nobody, ctx |-> "live", since |-> 0, config |-> 0, cluster |-> 0,
           first |-> 0, err |-> Nobody]

ConnectInit ==
  /\ call = [c \in Calls |-> NoCall]
  /\ unary = 0 /\ streams = 0 /\ sem = 0
  /\ snap = [c \in Calls |-> [pc |-> "none", view |-> 0]]
  /\ config = 1 /\ view = 1 /\ stuck = FALSE

\* A request arrives: GetStatus, or a stream of the reflection or health
\* service.  The goroutine of an earlier call has a place of its own.
Receive(c) ==
  /\ call[c].pc = "none" /\ snap[c].pc = "none"
  /\ \E kind \in {"unary", "stream"} :
       call' = [call EXCEPT ![c] = [NoCall EXCEPT !.pc = "admission", !.kind = kind, !.since = config, !.first = view]]
  /\ UNCHANGED <<unary, streams, sem, snap, config, view, stuck>>

\* WrapUnary: a slot or ResourceExhausted.
WrapUnary(c) ==
  /\ call[c].pc = "admission" /\ call[c].kind = "unary"
  /\ IF unary < Unary
       THEN unary' = unary + 1 /\ call' = [call EXCEPT ![c].pc = "load"]
       ELSE UNCHANGED unary /\ call' = [call EXCEPT ![c].pc = "reply", ![c].err = "exhausted"]
  /\ UNCHANGED <<streams, sem, snap, config, view, stuck>>

\* WrapStreamingHandler; the stream is then served by the library.
WrapStreamingHandler(c) ==
  /\ call[c].pc = "admission" /\ call[c].kind = "stream"
  /\ IF streams < Streams
       THEN streams' = streams + 1 /\ call' = [call EXCEPT ![c].pc = "streaming"]
       ELSE UNCHANGED streams /\ call' = [call EXCEPT ![c].pc = "reply", ![c].err = "exhausted"]
  /\ UNCHANGED <<unary, sem, snap, config, view, stuck>>

\* The deadline of WrapUnary passes, or the client goes away.
ContextDone(c) ==
  /\ call[c].pc \in {"load", "acquire", "recheck", "wait"} /\ call[c].ctx = "live"
  /\ \E why \in {"deadline", "canceled"} : call' = [call EXCEPT ![c].ctx = why]
  /\ UNCHANGED <<unary, streams, sem, snap, config, view, stuck>>

\* GetStatus loads the configuration first.
GetStatus(c) ==
  /\ call[c].pc = "load"
  /\ call' = [call EXCEPT ![c].pc = "acquire", ![c].config = config]
  /\ UNCHANGED <<unary, streams, sem, snap, config, view, stuck>>

\* snapshotClusterStatus: select between the semaphore and the context.
AcquireSnapshot(c) ==
  /\ call[c].pc = "acquire"
  /\ \/ sem = 0 /\ sem' = 1 /\ call' = [call EXCEPT ![c].pc = "recheck"]
     \/ call[c].ctx # "live" /\ call' = [call EXCEPT ![c].pc = "release", ![c].err = call[c].ctx] /\ UNCHANGED sem
  /\ UNCHANGED <<unary, streams, snap, config, view, stuck>>

\* Mutant: the semaphore is kept when the context has ended.
RecheckKeeps(c) ==
  /\ call[c].pc = "recheck"
  /\ IF call[c].ctx # "live"
       THEN call' = [call EXCEPT ![c].pc = "release", ![c].err = call[c].ctx] /\ UNCHANGED snap
       ELSE call' = [call EXCEPT ![c].pc = "wait"] /\ snap' = [snap EXCEPT ![c].pc = "peers"]
  /\ UNCHANGED <<unary, streams, sem, config, view, stuck>>

\* The context is looked at again, then the goroutine starts.
Recheck(c) ==
  /\ call[c].pc = "recheck"
  /\ IF call[c].ctx # "live"
       THEN call' = [call EXCEPT ![c].pc = "release", ![c].err = call[c].ctx] /\ sem' = sem - 1 /\ UNCHANGED snap
       ELSE call' = [call EXCEPT ![c].pc = "wait"] /\ snap' = [snap EXCEPT ![c].pc = "peers"] /\ UNCHANGED sem
  /\ UNCHANGED <<unary, streams, config, view, stuck>>

\* Peers() returns when it gets the lock of memberlist.
Peers(c) ==
  /\ snap[c].pc = "peers" /\ ~stuck
  /\ snap' = [snap EXCEPT ![c] = [pc |-> "result", view |-> view]]
  /\ UNCHANGED <<call, unary, streams, sem, config, view, stuck>>

\* The result goes to a buffered channel: nobody has to wait for it.
SendResult(c) ==
  /\ snap[c].pc = "result"
  /\ snap' = [snap EXCEPT ![c].pc = "release"]
  /\ call' = IF call[c].pc = "wait" THEN [call EXCEPT ![c].cluster = snap[c].view] ELSE call
  /\ UNCHANGED <<unary, streams, sem, config, view, stuck>>

\* The deferred receive.
ReleaseSnapshot(c) ==
  /\ snap[c].pc = "release"
  /\ sem' = sem - 1
  /\ snap' = [snap EXCEPT ![c] = [pc |-> "none", view |-> 0]]
  /\ UNCHANGED <<call, unary, streams, config, view, stuck>>

\* Mutant: the call waits for the goroutine whatever the deadline.
AwaitResultOnly(c) ==
  /\ call[c].pc = "wait"
  /\ call[c].cluster # 0 /\ call' = [call EXCEPT ![c].pc = "release"]
  /\ UNCHANGED <<unary, streams, sem, snap, config, view, stuck>>

\* select between the result and the context.
AwaitResult(c) ==
  /\ call[c].pc = "wait"
  /\ \/ call[c].cluster # 0 /\ call' = [call EXCEPT ![c].pc = "release"]
     \/ call[c].ctx # "live" /\ call' = [call EXCEPT ![c].pc = "release", ![c].err = call[c].ctx]
  /\ UNCHANGED <<unary, streams, sem, snap, config, view, stuck>>

\* The deferred receive of WrapUnary, and the error as a Connect code.
ReleaseUnary(c) ==
  /\ call[c].pc = "release"
  /\ unary' = unary - 1
  /\ call' = [call EXCEPT ![c].pc = "reply"]
  /\ UNCHANGED <<streams, sem, snap, config, view, stuck>>

\* A stream ends when its client or the handler ends it.
StreamEnds(c) ==
  /\ call[c].pc = "streaming"
  /\ streams' = streams - 1
  /\ call' = [call EXCEPT ![c].pc = "reply"]
  /\ UNCHANGED <<unary, sem, snap, config, view, stuck>>

Reply(c) ==
  /\ call[c].pc = "reply"
  /\ call' = [call EXCEPT ![c] = NoCall]
  /\ UNCHANGED <<unary, streams, sem, snap, config, view, stuck>>

\* Update stores a new configuration.
UpdateSnapshot ==
  /\ config + 1 \in Configs
  /\ config' = config + 1
  /\ UNCHANGED <<call, unary, streams, sem, snap, view, stuck>>

\* The cluster changes; memberlist is busy for a while, or for ever.
ClusterChanges ==
  /\ view + 1 \in Views /\ view' = view + 1
  /\ UNCHANGED <<call, unary, streams, sem, snap, config, stuck>>
Busy ==
  /\ stuck' = ~stuck
  /\ UNCHANGED <<call, unary, streams, sem, snap, config, view>>

Handler(c) ==
  \/ WrapUnary(c) \/ WrapStreamingHandler(c) \/ GetStatus(c) \/ AcquireSnapshot(c) \/ Recheck(c)
  \/ AwaitResult(c) \/ ReleaseUnary(c) \/ Reply(c)
Snapshotter(c) == Peers(c) \/ SendResult(c) \/ ReleaseSnapshot(c)

ConnectNext ==
  \/ \E c \in Calls : Receive(c) \/ Handler(c) \/ Snapshotter(c) \/ ContextDone(c) \/ StreamEnds(c)
  \/ UpdateSnapshot \/ ClusterChanges \/ Busy

-----------------------------------------------------------------------------
(* Properties. *)

\* Every token belongs to a goroutine: no slot leaks and none is returned
\* twice, whatever ends a call; at most one goroutine reads the cluster.
TokensAreOwned ==
  /\ unary = Cardinality({c \in Calls : call[c].pc \in {"load", "acquire", "recheck", "wait", "release"}})
  /\ streams = Cardinality({c \in Calls : call[c].pc = "streaming"})
  /\ sem = Cardinality({c \in Calls : snap[c].pc # "none"}) + Cardinality({c \in Calls : call[c].pc = "recheck"})
  /\ unary <= Unary /\ streams <= Streams /\ sem <= 1

\* A call that succeeds answers with its own reading of the cluster, not older
\* than the call, and with a configuration not older than the call.
AnswersAreFresh ==
  \A c \in Calls : call[c].pc \in {"release", "reply"} /\ call[c].kind = "unary" /\ call[c].err = Nobody =>
    call[c].config >= call[c].since /\ call[c].cluster >= call[c].first

\* A unary RPC returns once its context has ended, also while memberlist is
\* stuck and the goroutine of another call holds the semaphore.
DeadlineEndsCall == \A c \in Calls : call[c].ctx # "live" ~> call[c].pc = "none"
=============================================================================
