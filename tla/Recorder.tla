------------------------------ MODULE Recorder ------------------------------
(***************************************************************************)
(* The event recorder (eventrecorder/recorder.go, file.go, webhook.go,       *)
(* kafka.go): a bounded queue, the write loop that hands every event to all  *)
(* outputs and switches them at a reload, and the outputs with their own     *)
(* queues, workers, batches, retries and shutdown.                           *)
(*                                                                         *)
(* Events are numbers in the order they are recorded.  Where an event went   *)
(* is kept in out[o].fate: what an output has delivered, and what it has     *)
(* dropped or given up, which it counts and logs.                            *)
(***************************************************************************)
EXTENDS Integers, Sequences, FiniteSets, SequencesExt

CONSTANTS
    QueueSize,      \* eventQueueSize, 8192 in the code
    WorkSize,       \* webhookQueueSize, and the buffers of the Kafka output
    Worker,         \* the delivery goroutines of a webhook
    MaxRetries,
    RecScenes       \* the environments considered, see RecScene

\* The kind of the outputs ("file", "webhook", "batch" or "kafka"), bounds on events, and
\* the versions of the configuration whose outputs cannot all be created.
RecScene == [kind : {"file", "webhook", "batch", "kafka"}, events : Nat, versions : Nat,
             bad : SUBSET Nat, maxEvents : Nat, maxBytes : Nat]

VARIABLES
    rscene,
    queue,      \* sharedRecorder.events
    recorded,   \* how many events were recorded, and the last before Close was called
    dropped,    \* events dropped because the queue was full
    loop,       \* writeLoop: "run", "swap", "drain", "close" or "ended"
    outs,       \* the outputs of the write loop, by the version of their configuration
    current,    \* currentCfg
    update,     \* ApplyConfig: the version a caller waits for, 0 when there is none
    done,       \* Close was called
    out         \* out[v]: the output created for version v

recVars == <<rscene, queue, recorded, dropped, loop, outs, current, update, done, out>>

Version == 1 .. 2
SizeOf(e) == IF e = 2 THEN 3 ELSE 1     \* encoded sizes

NoWork == [data |-> << >>, tries |-> 0]
NewOutput == [open |-> FALSE, work |-> << >>, batch |-> << >>, timer |-> FALSE, batches |-> << >>,
              busy |-> [w \in Worker |-> NoWork], gone |-> {}, stop |-> FALSE, cancel |-> FALSE,
              broken |-> FALSE, handed |-> {}, delivered |-> << >>, lost |-> << >>]

RecInit ==
    /\ rscene \in RecScenes
    /\ queue = << >> /\ recorded = [n |-> 0, before |-> 0] /\ dropped = {}
    /\ loop = "run" /\ outs = {1} /\ current = 1 /\ update = 0 /\ done = FALSE
    /\ out = [v \in Version |-> [NewOutput EXCEPT !.open = v = 1]]

-----------------------------------------------------------------------------
(* The recorder *)

\* RecordEvent never blocks.
RecordEvent ==
    /\ recorded.n < rscene.events
    /\ recorded' = [n |-> recorded.n + 1, before |-> IF done THEN recorded.before ELSE recorded.n + 1]
    /\ IF Len(queue) < QueueSize
       THEN queue' = Append(queue, recorded.n + 1) /\ dropped' = dropped
       ELSE queue' = queue /\ dropped' = dropped \cup {recorded.n + 1}
    /\ UNCHANGED <<rscene, loop, outs, current, update, done, out>>

\* SendEvent of an output: a file is written; a queue that is full drops the event.
SendEvent(o, e) ==
    LET p == [o EXCEPT !.handed = @ \cup {e}] IN
    CASE rscene.kind = "file" ->
            IF o.broken THEN [p EXCEPT !.lost = Append(@, e)] ELSE [p EXCEPT !.delivered = Append(@, e)]
      [] OTHER ->
            IF Len(o.work) < WorkSize THEN [p EXCEPT !.work = Append(@, e)]
            ELSE [p EXCEPT !.lost = Append(@, e)]

\* writeLoop, marshalAndSend: the next event goes to every output.
WriteEvent ==
    /\ loop \in {"run", "drain"} /\ queue # << >> /\ queue' = Tail(queue)
    /\ out' = [v \in Version |-> IF v \in outs THEN SendEvent(out[v], Head(queue)) ELSE out[v]]
    /\ UNCHANGED <<rscene, recorded, dropped, loop, outs, current, update, done>>

\* ApplyConfig: a caller waits for the loop, or gives up when the recorder is closing.
ApplyConfig(v) ==
    /\ update = 0 /\ v <= rscene.versions /\ v # current /\ ~out[v].open /\ out[v].gone = {} /\ ~done
    /\ update' = v
    /\ UNCHANGED <<rscene, queue, recorded, dropped, loop, outs, current, done, out>>

\* Mutant: a caller waits for the loop even if that has ended.
ApplyIgnoredDraining ==
    /\ update # 0 /\ loop = "drain" /\ update' = 0
    /\ UNCHANGED <<rscene, queue, recorded, dropped, loop, outs, current, done, out>>

ApplyIgnored ==
    /\ update # 0 /\ done /\ loop # "swap" /\ update' = 0
    /\ UNCHANGED <<rscene, queue, recorded, dropped, loop, outs, current, done, out>>

\* The outputs are replaced if all new ones could be created, and the old ones closed.
SwapOutputs ==
    /\ loop = "run" /\ update # 0
    /\ IF update \in rscene.bad
       THEN update' = 0 /\ UNCHANGED <<loop, outs, current, out>>
       ELSE /\ loop' = "swap" /\ outs' = {update} /\ current' = update /\ update' = update
            /\ out' = [v \in Version |-> IF v = update THEN [out[v] EXCEPT !.open = TRUE]
                                         ELSE IF v \in outs THEN [out[v] EXCEPT !.stop = TRUE] ELSE out[v]]
    /\ UNCHANGED <<rscene, queue, recorded, dropped, done>>

Swapped ==
    /\ loop = "swap" /\ \A v \in Version \ outs : ~out[v].open
    /\ loop' = "run" /\ update' = 0
    /\ UNCHANGED <<rscene, queue, recorded, dropped, outs, current, done, out>>

\* Close, called once by the teardown of the process.
Close ==
    /\ ~done /\ done' = TRUE
    /\ UNCHANGED <<rscene, queue, recorded, dropped, loop, outs, current, update, out>>

\* The loop sees that it is to end, and drains the queue.
WriteDone ==
    /\ loop = "run" /\ done /\ loop' = "drain"
    /\ UNCHANGED <<rscene, queue, recorded, dropped, outs, current, update, done, out>>

\* The queue is empty: the outputs are closed.
Drained ==
    /\ loop = "drain" /\ queue = << >> /\ loop' = "close"
    /\ out' = [v \in Version |-> IF v \in outs THEN [out[v] EXCEPT !.stop = TRUE] ELSE out[v]]
    /\ UNCHANGED <<rscene, queue, recorded, dropped, outs, current, update, done>>

CloseReturns ==
    /\ loop = "close" /\ \A v \in Version : ~out[v].open /\ loop' = "ended"
    /\ UNCHANGED <<rscene, queue, recorded, dropped, outs, current, update, done, out>>

-----------------------------------------------------------------------------
(* The file output *)

\* Log rotation: the file is opened again, which may fail and leaves a closed one.
reopen(v) ==
    /\ rscene.kind = "file" /\ out[v].open /\ ~out[v].stop
    /\ \E b \in BOOLEAN : b # out[v].broken /\ out' = [out EXCEPT ![v].broken = b]
    /\ UNCHANGED <<rscene, queue, recorded, dropped, loop, outs, current, update, done>>

-----------------------------------------------------------------------------
(* The webhook output *)

\* The size of a JSON array: brackets, events and the commas between them.
BatchSize(b) == FoldLeft(LAMBDA n, e : n + SizeOf(e) + 1, 1, b)

\* batchLoop, add: a batch that would be too large is flushed first, a full one after.
\* flush needs room in the channel of the delivery workers.
Added(o, e) ==
    LET split == o.batch # << >> /\ (Len(o.batch) >= rscene.maxEvents
                                     \/ BatchSize(Append(o.batch, e)) > rscene.maxBytes)
        b == IF split THEN <<e>> ELSE Append(o.batch, e)
        full == Len(b) >= rscene.maxEvents \/ BatchSize(b) >= rscene.maxBytes
    IN  [o EXCEPT !.batch = IF full THEN << >> ELSE b, !.timer = ~full,
                  !.batches = @ \o (IF split THEN <<o.batch>> ELSE << >>) \o (IF full THEN <<b>> ELSE << >>)]

Room(o) == Len(o.batches) < Cardinality(Worker)

BatchAdd(v) ==
    /\ rscene.kind = "batch" /\ out[v].open /\ "batcher" \notin out[v].gone /\ out[v].work # << >> /\ Room(out[v])
    /\ out' = [out EXCEPT ![v] = [Added(out[v], Head(out[v].work)) EXCEPT !.work = Tail(out[v].work)]]
    /\ UNCHANGED <<rscene, queue, recorded, dropped, loop, outs, current, update, done>>

\* The flush interval has passed, or the output closes and nothing is left to add.
BatchFlush(v) ==
    /\ rscene.kind = "batch" /\ out[v].open /\ "batcher" \notin out[v].gone /\ Room(out[v])
    /\ \/ out[v].timer /\ out' = [out EXCEPT ![v].batches = Append(@, out[v].batch), ![v].batch = << >>,
                                            ![v].timer = FALSE]
       \/ /\ out[v].stop /\ out[v].work = << >>
          /\ out' = [out EXCEPT ![v].batches = IF out[v].batch = << >> THEN @ ELSE Append(@, out[v].batch),
                                ![v].batch = << >>, ![v].timer = FALSE, ![v].gone = @ \cup {"batcher"}]
    /\ UNCHANGED <<rscene, queue, recorded, dropped, loop, outs, current, update, done>>

\* worker, batchDeliveryWorker: take the next piece of work.
Take(v, w) ==
    /\ rscene.kind \in {"webhook", "batch"} /\ out[v].open /\ w \notin out[v].gone /\ out[v].busy[w] = NoWork
    /\ \/ /\ rscene.kind = "webhook" /\ out[v].work # << >>
          /\ out' = [out EXCEPT ![v].busy[w].data = <<Head(out[v].work)>>, ![v].work = Tail(@)]
       \/ /\ rscene.kind = "batch" /\ out[v].batches # << >>
          /\ out' = [out EXCEPT ![v].busy[w].data = Head(out[v].batches), ![v].batches = Tail(@)]
    /\ UNCHANGED <<rscene, queue, recorded, dropped, loop, outs, current, update, done>>

\* postWithRetry: a post succeeds, or fails and is tried again until there were enough.
postWithRetry(v, w) ==
    /\ out[v].open /\ out[v].busy[w].data # << >>
    /\ \/ out' = [out EXCEPT ![v].delivered = @ \o out[v].busy[w].data, ![v].busy[w] = NoWork]
       \/ /\ out[v].busy[w].tries + 1 < MaxRetries
          /\ out' = [out EXCEPT ![v].busy[w].tries = @ + 1]
       \/ /\ out[v].busy[w].tries + 1 = MaxRetries
          /\ out' = [out EXCEPT ![v].lost = @ \o out[v].busy[w].data, ![v].busy[w] = NoWork]
    /\ UNCHANGED <<rscene, queue, recorded, dropped, loop, outs, current, update, done>>

\* The wait before the next try is cut short when the output is cancelled.
Cancelled(v, w) ==
    /\ out[v].open /\ out[v].cancel /\ out[v].busy[w].tries > 0
    /\ out' = [out EXCEPT ![v].lost = @ \o out[v].busy[w].data, ![v].busy[w] = NoWork]
    /\ UNCHANGED <<rscene, queue, recorded, dropped, loop, outs, current, update, done>>

\* Close cancels retries when the drain takes too long.
Cancel(v) ==
    /\ rscene.kind \in {"webhook", "batch"} /\ out[v].open /\ out[v].stop /\ ~out[v].cancel
    /\ out' = [out EXCEPT ![v].cancel = TRUE]
    /\ UNCHANGED <<rscene, queue, recorded, dropped, loop, outs, current, update, done>>

\* A worker ends when the output is closing and there is nothing left for it.
WorkerEnds(v, w) ==
    /\ out[v].open /\ out[v].stop /\ w \notin out[v].gone /\ out[v].busy[w] = NoWork
    /\ \/ rscene.kind = "webhook" /\ out[v].work = << >>
       \/ rscene.kind = "batch" /\ out[v].batches = << >> /\ "batcher" \in out[v].gone
    /\ out' = [out EXCEPT ![v].gone = @ \cup {w}]
    /\ UNCHANGED <<rscene, queue, recorded, dropped, loop, outs, current, update, done>>

-----------------------------------------------------------------------------
(* The Kafka output: batches holds the records of the producer *)

\* dispatch, produce: the producer takes a record unless its buffer is full.
Produce(v) ==
    /\ rscene.kind = "kafka" /\ out[v].open /\ "batcher" \notin out[v].gone /\ out[v].work # << >>
    /\ LET e == Head(out[v].work) IN
       out' = IF Room(out[v])
              THEN [out EXCEPT ![v].work = Tail(@), ![v].batches = Append(@, <<e>>)]
              ELSE [out EXCEPT ![v].work = Tail(@), ![v].lost = Append(@, e)]
    /\ UNCHANGED <<rscene, queue, recorded, dropped, loop, outs, current, update, done>>

\* The broker accepts a record, or the producer reports that it failed.
Produced(v) ==
    /\ rscene.kind = "kafka" /\ out[v].open /\ out[v].batches # << >>
    /\ \/ out' = [out EXCEPT ![v].batches = Tail(@), ![v].delivered = @ \o Head(out[v].batches)]
       \/ out' = [out EXCEPT ![v].batches = Tail(@), ![v].lost = @ \o Head(out[v].batches)]
    /\ UNCHANGED <<rscene, queue, recorded, dropped, loop, outs, current, update, done>>

DispatchEnds(v) ==
    /\ rscene.kind = "kafka" /\ out[v].open /\ out[v].stop /\ "batcher" \notin out[v].gone
    /\ out[v].work = << >> /\ out' = [out EXCEPT ![v].gone = @ \cup {"batcher"}]
    /\ UNCHANGED <<rscene, queue, recorded, dropped, loop, outs, current, update, done>>

\* Close of an output returns: a Kafka client may drop what was not flushed in time.
OutputCloses(v) ==
    /\ out[v].open /\ out[v].stop
    /\ \/ rscene.kind = "file" /\ out' = [out EXCEPT ![v].open = FALSE]
       \/ /\ rscene.kind \in {"webhook", "batch"} /\ Worker \subseteq out[v].gone
          /\ out' = [out EXCEPT ![v].open = FALSE]
       \/ /\ rscene.kind = "kafka" /\ "batcher" \in out[v].gone
          /\ out' = [out EXCEPT ![v].open = FALSE, ![v].batches = << >>,
                                ![v].lost = FoldLeft(LAMBDA l, b : l \o b, @, out[v].batches)]
    /\ UNCHANGED <<rscene, queue, recorded, dropped, loop, outs, current, update, done>>

RecNext ==
    \/ RecordEvent \/ WriteEvent \/ ApplyIgnored \/ SwapOutputs \/ Swapped \/ Close \/ WriteDone
    \/ Drained \/ CloseReturns
    \/ \E v \in Version :
          \/ ApplyConfig(v) \/ reopen(v) \/ BatchAdd(v) \/ BatchFlush(v) \/ Cancel(v)
          \/ Produce(v) \/ Produced(v) \/ DispatchEnds(v) \/ OutputCloses(v)
          \/ \E w \in Worker : Take(v, w) \/ postWithRetry(v, w) \/ Cancelled(v, w) \/ WorkerEnds(v, w)

RecSpec == RecInit /\ [][RecNext]_recVars

-----------------------------------------------------------------------------
(* Properties *)

\* The state has its types, and the queues their bounds.
RecTypeOK ==
    /\ loop \in {"run", "swap", "drain", "close", "ended"} /\ Len(queue) <= QueueSize
    /\ \A v \in Version : Len(out[v].work) <= WorkSize

SetOf(s) == {s[i] : i \in DOMAIN s}

\* marshalAndSend, Close: an output that is closed has delivered or counted as lost every
\* event it was handed, each once.
Accounted ==
    \A v \in Version : out[v].stop /\ ~out[v].open =>
        /\ SetOf(out[v].delivered) \cup SetOf(out[v].lost) = out[v].handed
        /\ Len(out[v].delivered) + Len(out[v].lost) = Cardinality(out[v].handed)

\* Close, ApplyConfig: when the recorder has ended, every event recorded before Close was
\* handed to an output or counted as dropped, whatever reloads there were.
NothingForgotten ==
    loop = "ended" => \A e \in 1 .. recorded.before :
        e \in dropped \/ \E v \in Version : e \in out[v].handed

\* Close: it returns, however the receivers behave, and an ApplyConfig does not wait for
\* good.
CloseEnds == (done ~> loop = "ended") /\ (update # 0 ~> update = 0)
=============================================================================
