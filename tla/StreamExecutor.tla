--------------------------- MODULE StreamExecutor ---------------------------
(***************************************************************************)
(* PipelineExecutor.stream_run (src/tram/pipeline/executor.py): a reader   *)
(* thread, the worker threads of thread_workers > 1, and the interval      *)
(* flusher share one micro-batch buffer; the reader settles the source     *)
(* units: broker records a poll batch at a time, files one by one.         *)
(*                                                                         *)
(* An item <<a, b, e>> is a broker record (partition, offset, ownership    *)
(* epoch) or a chunk b of the file a (epoch 0); its datum <<a, b>> is what *)
(* has to reach the sink.  Every parse yields one record, a flush is one   *)
(* write of one sink (BatchExecutor has the partitions of a write) and the *)
(* transforms hold no state (Checkpoints has those that do).  Time is      *)
(* abstracted: a threshold or an interval may be reached at any append.    *)
(* Left out: parallel_sinks, the drain deadline (a stop that reports       *)
(* aborted) and auto_offset_reset=latest (KafkaSource has it).             *)
(***************************************************************************)
EXTENDS Naturals, Sequences, FiniteSets, FiniteSetsExt

CONSTANTS
    Keys,           \* partitions of the topic, or files
    Length,         \* records of a partition, chunks of a chunked file
    Configs,        \* the pipeline configurations to start from, with the keys they read and
                    \* bounds on their failures (faults) and rebalances or reconnections (rewinds)
    Workers,        \* the worker threads of a threaded configuration
    NoMatch,        \* data the sink's condition routes away
    MaxBatch        \* max_poll_records

ASSUME StreamConstants ==
    /\ Keys \subseteq Nat
    /\ Length \in Nat \ {0}
    /\ IsFiniteSet(Workers)
    /\ Workers \intersect {"none", "reader", "flusher"} = {}
    /\ MaxBatch \in Nat
    /\ \A c \in Configs : c.keys \subseteq Keys /\ c.breaker \in BOOLEAN

Data == Keys \X (1..Length)

VARIABLES
    cfg,        \* the pipeline configuration
    src,        \* the source: position, epoch and the rest of the batch being yielded
    reader,     \* the reader thread
    queue,      \* chunk_q
    worker,     \* [Workers -> the item a worker processes, and where it is]
    lock,       \* flush_lock: its holder and the entry it drained
    buf,        \* _StreamFlushBuffer: records, contributors, completed
    units,      \* delivery.units
    acct,       \* run-level losses, checkpoint_pending, broker_gaps
    sink,       \* data written, committed, routed away; DLQ; dropped by policy; of a flush
                \* whose TramError was swallowed; open breaker
    acked,      \* data the executor acknowledged, or whose file is gone
    refused,    \* data whose last ack() raised
    ckpt,       \* [Keys -> highest offset with a delivery checkpoint]
    errors,     \* worker_errors is not empty
    stop,       \* stop_event
    result,     \* the outcome of the run
    lost,       \* a flush failed in the interval flusher, or a worker outlived its join
    faults

vars == <<cfg, src, reader, queue, worker, lock, buf, units, acct, sink, acked, refused, ckpt, errors,
          stop, result, lost, faults>>

----------------------------------------------------------------------------
(* Units and their accounting *)

Broker == cfg.src = "broker"
Threaded == cfg.threaded
UnitOf(i) == IF Broker THEN i ELSE <<i[1], 0, 0>>
Datum(i) == <<i[1], i[2]>>
DataOf(S) == {Datum(i) : i \in S}

NoCounts == [in |-> 0, delivered |-> 0, failed |-> 0, dlqOk |-> 0, dlqFail |-> 0]

\* record_loss on the unit and on the run, of n records when no DLQ is configured
Lost(n, count, ok) ==
    IF cfg.dlq THEN [n EXCEPT !.dlqOk = @ + (IF ok THEN 1 ELSE 0), !.dlqFail = @ + (IF ok THEN 0 ELSE 1)]
    ELSE [n EXCEPT !.failed = @ + count]
RunLoss(a, ok) == [a EXCEPT !.loss = @ \/ ~cfg.dlq \/ ~ok]

\* _UnitOutcome.disposition
Disposition(n) ==
    CASE n.dlqFail > 0 -> "undecided"
      [] n.dlqFail = 0 /\ n.dlqOk > 0 -> "dlq"
      [] n.dlqFail = 0 /\ n.dlqOk = 0 /\ n.failed > 0 ->
            IF cfg.onError = "continue" THEN "dropped" ELSE "undecided"
      [] n.dlqFail = 0 /\ n.dlqOk = 0 /\ n.failed = 0 ->
            IF n.delivered > 0 THEN "delivered" ELSE IF n.in > 0 THEN "filtered" ELSE "undecided"

\* delivery.register_unit
Registered(u) == IF u \in DOMAIN units THEN units ELSE [v \in DOMAIN units \union {u} |-> IF v = u THEN NoCounts ELSE units[v]]
Taken(us) == [v \in DOMAIN units \ us |-> units[v]]

----------------------------------------------------------------------------
(* Initial state *)

Idle == [item |-> <<>>, at |-> "idle"]
Free == [by |-> "none", records |-> {}, contributors |-> {}]
EmptyBuffer == [records |-> {}, contributors |-> {}, completed |-> {}]

\* sftp reads in chunks, the local connector yields a file at once.
Chunks == IF cfg.src = "sftp" THEN Length ELSE 1

Listing == {<<f, j, 0>> : f \in cfg.keys, j \in 1..Chunks}

Init ==
    /\ cfg \in Configs
    /\ src = [position |-> [p \in Keys |-> 0], epoch |-> 1, rewinds |-> 0,
              batch |-> IF Broker THEN {} ELSE Listing]
    /\ reader = [at |-> "next", item |-> <<>>, end |-> FALSE, then |-> "next", stopped |-> FALSE, unit |-> <<>>]
    /\ queue = <<>>
    /\ worker = [w \in Workers |-> Idle]
    /\ lock = Free
    /\ buf = EmptyBuffer
    /\ units = <<>>
    /\ acct = [loss |-> FALSE, pending |-> FALSE, gaps |-> [p \in Keys |-> Length + 1]]
    /\ sink = [written |-> {}, durable |-> {}, filtered |-> {}, dlq |-> {}, dropped |-> {},
               swallowed |-> {}, open |-> FALSE]
    /\ acked = {}
    /\ refused = {}
    /\ ckpt = [p \in Keys |-> 0]
    /\ errors = FALSE
    /\ stop = FALSE
    /\ result = "running"
    /\ lost = FALSE
    /\ faults = 0

Fault == faults < cfg.faults /\ faults' = faults + 1

----------------------------------------------------------------------------
(* The source, as the executor sees it *)

\* The offset a consumer group resumes after: the acknowledged prefix.
Resume(p) == Max({0} \union {o \in 1..Length : \A x \in 1..o : <<p, x>> \in acked \ refused})

\* A poll: the next records of the partitions, in one batch.
Poll(ns) ==
    /\ Broker /\ reader.at = "next" /\ src.batch = {} /\ ~stop
    /\ \E p \in Keys : ns[p] > 0
    /\ \A p \in Keys : src.position[p] + ns[p] <= (IF p \in cfg.keys THEN Length ELSE 0)
    /\ src' = [src EXCEPT
        !.position = [p \in Keys |-> @[p] + ns[p]],
        !.batch = UNION {{<<p, src.position[p] + j, src.epoch>> : j \in 1..ns[p]} : p \in Keys}]
    /\ UNCHANGED <<cfg, reader, queue, worker, lock, buf, units, acct, sink, acked, refused, ckpt, errors,
                   stop, result, lost, faults>>

\* A rebalance or a new session inside a poll: unacknowledged records come again.
Rewind ==
    /\ Broker /\ reader.at = "next" /\ src.batch = {} /\ ~stop
    /\ src.rewinds < cfg.rewinds
    /\ src' = [src EXCEPT !.position = [p \in Keys |-> Resume(p)], !.epoch = @ + 1, !.rewinds = @ + 1]
    /\ UNCHANGED <<cfg, reader, queue, worker, lock, buf, units, acct, sink, acked, refused, ckpt, errors,
                   stop, result, lost, faults>>

RequestStop ==
    /\ ~stop /\ cfg.stops
    /\ stop' = TRUE
    /\ UNCHANGED <<cfg, src, reader, queue, worker, lock, buf, units, acct, sink, acked, refused, ckpt,
                   errors, result, lost, faults>>

----------------------------------------------------------------------------
(* The reader thread: one turn of the read loop *)

Goto(at) == [reader EXCEPT !.at = at]
FlushThen(then) == [reader EXCEPT !.at = "flush", !.then = then]

\* An exception leaves the loop; a threaded run stops its workers first.
Raise == IF Threaded THEN [reader EXCEPT !.at = "stopWorkers", !.then = "failed"] ELSE FlushThen("failed")

\* The loop ends: the last file is finalized unless a stop was seen.
Leave(stopped) ==
    LET r == [reader EXCEPT !.stopped = stopped] IN
    IF reader.unit # <<>> /\ ~stopped
    THEN [r EXCEPT !.at = IF Threaded THEN "join" ELSE "flush", !.then = "lastFile"]
    ELSE IF Threaded THEN [r EXCEPT !.at = "stopWorkers", !.then = "tail"]
    ELSE [r EXCEPT !.at = "flush", !.then = "tail"]

\* The source returns: the files are read, or stop() ended the poll loop.
SourceEnds ==
    /\ reader.at = "next" /\ src.batch = {}
    /\ Broker => stop
    /\ reader' = Leave(FALSE)
    /\ UNCHANGED <<cfg, src, queue, worker, lock, buf, units, acct, sink, acked, refused, ckpt, errors,
                   stop, result, lost, faults>>

\* The order within a batch: key by key, and by offset or chunk.
Before(x, i) == x[1] < i[1] \/ (x[1] = i[1] /\ x[2] < i[2])

\* The source yields item i.
Yields(i) ==
    /\ reader.at = "next"
    /\ i \in src.batch /\ \A x \in src.batch : ~Before(x, i)

\* The item that closed a file is still in hand once the file is settled.
InHand == reader.then = "tail"

\* Errors of the workers and the stop event come before the item.
Interrupted == ~InHand /\ (stop \/ (Threaded /\ errors))

LeaveLoop ==
    /\ \E i \in src.batch : Yields(i)
    /\ Interrupted
    /\ reader' = IF Threaded /\ errors THEN Raise ELSE Leave(TRUE)
    /\ UNCHANGED <<cfg, src, queue, worker, lock, buf, units, acct, sink, acked, refused, ckpt, errors,
                   stop, result, lost, faults>>

\* A file boundary settles the file before.
Boundary(i) == ~Broker /\ reader.unit # <<>> /\ reader.unit # UnitOf(i)

NextFile ==
    /\ \E i \in src.batch : Yields(i) /\ Boundary(i)
    /\ ~Interrupted
    /\ reader' = [reader EXCEPT !.at = IF Threaded THEN "join" ELSE "flush", !.then = "file"]
    /\ UNCHANGED <<cfg, src, queue, worker, lock, buf, units, acct, sink, acked, refused, ckpt, errors,
                   stop, result, lost, faults>>

\* The item is registered and processed here, or queued for the workers.
TakeItem(i) ==
    /\ Yields(i) /\ ~Interrupted /\ ~Boundary(i)
    /\ units' = Registered(UnitOf(i))
    /\ src' = [src EXCEPT !.batch = @ \ {i}]
    /\ LET end == Broker /\ src.batch = {i}
           r == [reader EXCEPT !.item = i, !.end = end, !.unit = IF Broker THEN <<>> ELSE UnitOf(i), !.then = "decide"]
       IN  IF Threaded
           THEN /\ Len(queue) < 2 * Cardinality(Workers)
                /\ queue' = Append(queue, i)
                /\ reader' = [r EXCEPT !.at = IF end THEN "join" ELSE "next"]
           ELSE /\ reader' = [r EXCEPT !.at = "chunk"]
                /\ UNCHANGED queue
    /\ UNCHANGED <<cfg, worker, lock, buf, acct, sink, acked, refused, ckpt, errors, stop, result, lost, faults>>

----------------------------------------------------------------------------
(* _process_chunk with a flush buffer *)

\* _StreamFlushBuffer.append
Appended(i, kept) ==
    [buf EXCEPT !.records = IF kept THEN @ \union {i} ELSE @,
                !.contributors = IF Broker THEN @ \union {<<i, kept>>} ELSE @]

\* Bug: the end of a poll batch is lost on the way to the buffer.
MayFlushIgnoresEnd(b, end) == IF b.records = {} /\ b.contributors = {} THEN {FALSE} ELSE BOOLEAN

\* What append returns: a batch end flushes, a threshold or the interval may.
MayFlush(b, end) == IF b.records = {} /\ b.contributors = {} THEN {FALSE} ELSE IF end THEN {TRUE} ELSE BOOLEAN

DLQRaises(ok) == cfg.dlq /\ ~ok /\ cfg.onError \in {"dlq", "retry"}
DLQd(S, ok) == [sink EXCEPT !.dlq = IF cfg.dlq /\ ok THEN @ \union S ELSE @]
\* A write to the DLQ sink fails together with its spool.
FaultCost(ok) == IF cfg.dlq /\ ~ok THEN faults + 2 <= cfg.faults /\ faults' = faults + 2 ELSE Fault

\* The outcome of processing item i: raised, or the new buffer.
Outcome(i, raises, kept, n, a, s) ==
    [raises |-> raises, buf |-> IF raises THEN buf ELSE Appended(i, kept), counts |-> n, acct |-> a, sink |-> s]

In(n) == IF Broker THEN [n EXCEPT !.in = @ + 1] ELSE n
Filter(i) == [sink EXCEPT !.filtered = @ \union {Datum(i)}]

\* The record survives its transforms, or they drop it.
Processed(i, kept) ==
    Outcome(i, FALSE, kept, In(units[UnitOf(i)]), acct, IF kept THEN sink ELSE Filter(i))

\* A parse error: the chunk goes to the DLQ or is counted as failed.
ParseError(i, ok) ==
    LET a == RunLoss(acct, ok)
    IN  Outcome(i, DLQRaises(ok) \/ cfg.onError = "abort" \/ (cfg.onError = "retry" /\ a.loss),
                FALSE, Lost(units[UnitOf(i)], 1, ok), a, DLQd({Datum(i)}, ok))

\* A transform error: abort raises before any accounting of the loss.
TransformError(i, ok) ==
    IF cfg.onError = "abort"
    THEN Outcome(i, TRUE, FALSE, In(units[UnitOf(i)]), acct, sink)
    ELSE Outcome(i, DLQRaises(ok), FALSE, Lost(In(units[UnitOf(i)]), 1, ok), RunLoss(acct, ok),
                 DLQd({Datum(i)}, ok))

\* The processing of item i by some thread: whether it raises, and whether the
\* thread flushes the buffer next.
Process(i, end, raises, flush) ==
    LET Apply(o) ==
            /\ raises = o.raises
            /\ flush \in IF raises THEN {FALSE} ELSE MayFlush(o.buf, end)
            /\ units' = [units EXCEPT ![UnitOf(i)] = o.counts]
            /\ buf' = o.buf /\ acct' = o.acct /\ sink' = o.sink
    IN  \/ \E kept \in BOOLEAN : Apply(Processed(i, kept)) /\ UNCHANGED faults
        \/ \E ok \in BOOLEAN : (Apply(ParseError(i, ok)) \/ Apply(TransformError(i, ok))) /\ FaultCost(ok)

\* The read loop processes the item itself.
ReaderChunk ==
    /\ reader.at = "chunk"
    /\ LET after == IF reader.end THEN "decide" ELSE "next"
       IN  \E raises, flush \in BOOLEAN :
              /\ Process(reader.item, reader.end, raises, flush)
              /\ reader' = IF raises THEN Raise ELSE IF flush THEN FlushThen(after) ELSE Goto(after)
    /\ UNCHANGED <<cfg, src, queue, worker, lock, acked, refused, ckpt, errors, stop, result, lost>>

\* A worker thread takes an item; it never sees the end of a batch.
WorkerTakes(w) ==
    /\ Threaded /\ queue # <<>> /\ worker[w] = Idle
    /\ worker' = [worker EXCEPT ![w] = [item |-> Head(queue), at |-> "chunk"]]
    /\ queue' = Tail(queue)
    /\ UNCHANGED <<cfg, src, reader, lock, buf, units, acct, sink, acked, refused, ckpt, errors, stop,
                   result, lost, faults>>

WorkerChunk(w) ==
    /\ worker[w].at = "chunk"
    /\ \E raises, flush \in BOOLEAN :
          /\ Process(worker[w].item, FALSE, raises, flush)
          /\ worker' = [worker EXCEPT ![w] = IF flush THEN [@ EXCEPT !.at = "flush"] ELSE Idle]
          /\ errors' = (errors \/ raises)
    /\ UNCHANGED <<cfg, src, reader, queue, lock, acked, refused, ckpt, stop, result, lost>>

----------------------------------------------------------------------------
(* _flush_stream_buffer, serialized by flush_lock *)

\* drain
Drained(t) == [by |-> t, records |-> buf.records, contributors |-> buf.contributors]
Undrained == [buf EXCEPT !.records = {}, !.contributors = {}]
Buffered == buf.records # {} \/ buf.contributors # {}

Begin(t) == lock.by = "none" /\ lock' = Drained(t) /\ buf' = Undrained

\* An empty buffer is not flushed.
ReaderFlush ==
    /\ reader.at = "flush" /\ lock.by = "none"
    /\ IF Buffered THEN Begin("reader") /\ reader' = Goto("flushing")
       ELSE UNCHANGED <<lock, buf>> /\ reader' = Goto(reader.then)
    /\ UNCHANGED <<cfg, src, queue, worker, units, acct, sink, acked, refused, ckpt, errors, stop, result,
                   lost, faults>>

WorkerFlush(w) ==
    /\ worker[w].at = "flush" /\ lock.by = "none"
    /\ IF Buffered THEN Begin(w) /\ worker' = [worker EXCEPT ![w].at = "flushing"]
       ELSE UNCHANGED <<lock, buf>> /\ worker' = [worker EXCEPT ![w] = Idle]
    /\ UNCHANGED <<cfg, src, reader, queue, units, acct, sink, acked, refused, ckpt, errors, stop, result,
                   lost, faults>>

\* The interval timer fires.
FlusherWakes ==
    /\ reader.at # "ended" /\ Buffered /\ Begin("flusher")
    /\ UNCHANGED <<cfg, src, reader, queue, worker, units, acct, sink, acked, refused, ckpt, errors, stop,
                   result, lost, faults>>

Selected(S) == {i \in S : Datum(i) \notin NoMatch}
Unselected == DataOf(lock.records) \intersect NoMatch

\* Bug: a failed flush counts against the run, not against its contributors.
ContributedOnlyDelivery(n, i, kept, c) ==
    IF kept /\ c.delivered > 0 /\ Datum(i) \notin NoMatch THEN [n EXCEPT !.delivered = @ + 1] ELSE n

\* A contributor shares the outcome of its flush if it has records in it.
Contributed(n, i, kept, c) ==
    IF ~kept THEN n
    ELSE [n EXCEPT !.failed = @ + c.failed, !.dlqOk = @ + c.dlqOk, !.dlqFail = @ + c.dlqFail,
                   !.delivered = IF c.delivered > 0 /\ Datum(i) \notin NoMatch THEN @ + 1 ELSE @]

\* The flush returns with the cohort's counts c: broker units complete, a file's unit is charged.
Completes(c) ==
    IF Broker
    THEN /\ units' = [u \in DOMAIN units |->
                LET mine == {x \in lock.contributors : x[1] = u}
                IN  IF mine = {} THEN units[u]
                    ELSE LET x == CHOOSE y \in mine : TRUE IN Contributed(units[u], u, x[2], c)]
         /\ buf' = [buf EXCEPT !.completed = @ \union {x[1] : x \in {y \in lock.contributors : y[1] \in DOMAIN units}}]
    ELSE LET u == UnitOf(CHOOSE i \in lock.records : TRUE)
             Sum(n) == [in |-> n.in + Cardinality(lock.records), delivered |-> n.delivered + c.delivered,
                        failed |-> n.failed + c.failed, dlqOk |-> n.dlqOk + c.dlqOk, dlqFail |-> n.dlqFail + c.dlqFail]
         IN  /\ units' = IF u \in DOMAIN units THEN [units EXCEPT ![u] = Sum(@)] ELSE units
             /\ UNCHANGED buf

\* The thread goes on after its flush.
Returns(t) ==
    /\ reader' = IF t = "reader" THEN Goto(reader.then) ELSE reader
    /\ worker' = [w \in Workers |-> IF w = t THEN Idle ELSE worker[w]]
    /\ UNCHANGED <<errors, lost>>

\* Bug: a worker whose flush raises dies before task_done().
RaisesKillsWorker(t) ==
    /\ reader' = IF t # "reader" THEN reader
                 ELSE IF reader.then = "failed" THEN Goto("failed")
                 ELSE IF reader.then = "tail" THEN FlushThen("failed") ELSE Raise
    /\ worker' = [w \in Workers |-> IF w = t THEN [worker[w] EXCEPT !.at = "dead"] ELSE worker[w]]
    /\ errors' = (errors \/ t \in Workers)
    /\ lost' = (lost \/ t = "flusher")

\* The flush raises: out of the read loop, into worker_errors, or into the timer's log.
Raises(t) ==
    /\ reader' = IF t # "reader" THEN reader
                 ELSE IF reader.then = "failed" THEN Goto("failed")
                 ELSE IF reader.then = "tail" THEN FlushThen("failed") ELSE Raise
    /\ worker' = [w \in Workers |-> IF w = t THEN Idle ELSE worker[w]]
    /\ errors' = (errors \/ t \in Workers)
    /\ lost' = (lost \/ t = "flusher")

FlushUnchanged == UNCHANGED <<cfg, src, queue, acked, refused, ckpt, stop, result>>

\* The sink accepts the selected records.
FlushWritten ==
    LET sel == Selected(lock.records) IN
    /\ lock.by # "none"
    /\ sink' = [sink EXCEPT !.open = (sel = {} /\ @), !.written = @ \union DataOf(sel),
                            !.filtered = @ \union Unselected]
    /\ Completes([NoCounts EXCEPT !.delivered = Cardinality(sel)])
    /\ lock' = Free /\ Returns(lock.by)
    /\ UNCHANGED <<acct, faults>> /\ FlushUnchanged

\* The write fails for good: DLQ, loss, and the error policy.
FlushFails ==
    /\ lock.by # "none" /\ Selected(lock.records) # {}
    /\ \E ok \in BOOLEAN :
        LET c == Lost(NoCounts, Cardinality(Selected(lock.records)), ok)
            raises == \/ DLQRaises(ok) \/ cfg.onError = "abort"
                      \/ cfg.onError = "retry" /\ ~(cfg.dlq /\ ok)
        IN  /\ FaultCost(ok)
            /\ acct' = RunLoss(acct, ok)
            /\ sink' = [DLQd(DataOf(Selected(lock.records)), ok) EXCEPT
                            !.open = cfg.breaker, !.filtered = @ \union Unselected]
            /\ IF raises
               THEN /\ Raises(lock.by) /\ UNCHANGED buf
                    /\ LET u == UnitOf(CHOOSE i \in lock.records : TRUE)
                       IN  units' = IF Broker \/ u \notin DOMAIN units THEN units
                                    ELSE [units EXCEPT ![u] = Lost(units[u], Cardinality(Selected(lock.records)), ok)]
               ELSE Completes(c) /\ Returns(lock.by)
    /\ lock' = Free
    /\ FlushUnchanged

\* The circuit breaker is open: the whole flush is charged as failed.
FlushSkipped ==
    /\ lock.by # "none" /\ sink.open /\ Selected(lock.records) # {}
    /\ Completes([NoCounts EXCEPT !.failed = Cardinality(lock.records)])
    /\ lock' = Free /\ Returns(lock.by)
    /\ acct' = [acct EXCEPT !.loss = TRUE]
    /\ sink' = [sink EXCEPT !.filtered = @ \union Unselected]
    /\ UNCHANGED faults /\ FlushUnchanged

\* An error that is no TramError leaves the flush, and nothing is charged.
FlushCrashes ==
    /\ lock.by # "none" /\ Selected(lock.records) # {} /\ Fault
    /\ Raises(lock.by)
    /\ lock' = Free
    /\ UNCHANGED <<buf, units, acct, sink>> /\ FlushUnchanged

(***************************************************************************)
(* The serializer or the sink's condition raises a TramError: unless the   *)
(* policy lets it out, _process_records logs it and returns.  Nothing is   *)
(* charged, and the records of a broker complete as if they were filtered. *)
(***************************************************************************)
FlushSwallowed ==
    /\ lock.by # "none" /\ lock.records # {} /\ Fault
    /\ IF cfg.onError = "abort" \/ (cfg.onError = "retry" /\ acct.loss)
       THEN Raises(lock.by) /\ UNCHANGED <<buf, units, sink>>
       ELSE /\ Returns(lock.by)
            /\ IF Broker THEN Completes(NoCounts) ELSE UNCHANGED <<buf, units>>
            /\ sink' = [sink EXCEPT !.swallowed = @ \union DataOf(lock.records)]
    /\ lock' = Free
    /\ UNCHANGED acct /\ FlushUnchanged

----------------------------------------------------------------------------
(* The reader settles units *)

\* _drain_before_finalize: every queued chunk is processed, then errors raise.
Join ==
    /\ reader.at = "join" /\ queue = <<>> /\ \A w \in Workers : worker[w] = Idle
    /\ reader' = IF errors THEN Raise ELSE FlushThen(reader.then)
    /\ UNCHANGED <<cfg, src, queue, worker, lock, buf, units, acct, sink, acked, refused, ckpt, errors, stop,
                   result, lost, faults>>

\* The finally clause: a stop mark per worker fits into the queue; the workers finish
\* what is queued before theirs, or a join times out on a busy one.
StopWorkers ==
    /\ reader.at = "stopWorkers" /\ Len(queue) <= Cardinality(Workers)
    /\ IF queue = <<>> /\ \A w \in Workers : worker[w] = Idle THEN UNCHANGED <<faults, lost>> ELSE Fault /\ lost' = TRUE
    /\ reader' = FlushThen(IF errors THEN "failed" ELSE reader.then)
    /\ UNCHANGED <<cfg, src, queue, worker, lock, buf, units, acct, sink, acked, refused, ckpt, errors, stop,
                   result>>

\* _commit_sinks_receipts: what was written becomes durable.
Committed(ok) == IF ok THEN [sink EXCEPT !.durable = @ \union sink.written] ELSE sink

\* Bug: completed records are settled whatever comes before them.
HeldNever == FALSE

\* An earlier record of a partition has no outcome yet: the whole cohort waits.
Held ==
    \E u \in buf.completed, v \in DOMAIN units \ buf.completed : v[1] = u[1] /\ v[2] < u[2]

Decided(u) == Disposition(units[u]) # "undecided"

\* broker_gaps: the lowest undecided offset of each partition.
Gaps(ok) ==
    [p \in Keys |-> Min({acct.gaps[p]} \union
        {u[2] : u \in {v \in buf.completed : v[1] = p /\ (~ok \/ ~Decided(v))}})]

Dispositions(us, kind) == {u \in us : Disposition(units[u]) = kind}

(***************************************************************************)
(* _finalize_stream_broker_units: one commit barrier for the cohort, then  *)
(* one checkpoint per partition, at its highest offset, then the acks.     *)
(* stored is the set of partitions whose checkpoint was stored, raised the *)
(* set of units whose ack() raised, which is logged.                       *)
(***************************************************************************)
Decide(ok, stored, raised) ==
    LET us == buf.completed
        gaps == Gaps(ok)
        gap == \E u \in us : gaps[u[1]] <= u[2]
        blocked == cfg.strict /\ (acct.pending \/ ~ok \/ gap \/ \E u \in us : ~Decided(u))
        ready == ok /\ ~gap /\ ~blocked
        parts == {u[1] : u \in Dispositions(us, "delivered")}
        confirmed == ready /\ (cfg.strict => stored = parts)
        acks == IF confirmed THEN {u \in us : Decided(u)} ELSE {}
        top(p) == Max({u[2] : u \in {v \in us : v[1] = p}})
    IN  /\ stored \subseteq (IF ready THEN parts ELSE {}) /\ raised \subseteq acks
        /\ units' = Taken(us)
        /\ buf' = [buf EXCEPT !.completed = {}]
        /\ acct' = [acct EXCEPT !.gaps = gaps, !.pending = @ \/ ~ok \/ gap \/ blocked \/ (ready /\ ~confirmed)]
        /\ ckpt' = [p \in Keys |-> IF p \in stored /\ top(p) > ckpt[p] THEN top(p) ELSE ckpt[p]]
        /\ acked' = acked \union DataOf(acks)
        /\ refused' = (refused \ DataOf(acks)) \union DataOf(raised)
        /\ sink' = [Committed(ok) EXCEPT !.dropped = IF ok THEN @ \union DataOf(Dispositions(us, "dropped")) ELSE @]
        /\ IF ok /\ (ready => stored = parts) /\ raised = {} THEN UNCHANGED faults ELSE Fault

\* After a decision: the next item, or the end of the run.
After == IF reader.at = "decide" THEN "next" ELSE "close"

DecideBrokers ==
    /\ reader.at \in {"decide", "tail"} /\ lock.by = "none"
    /\ \/ /\ ~Broker \/ buf.completed = {} \/ Held
          /\ reader' = Goto(After)
          /\ UNCHANGED <<buf, units, acct, sink, acked, refused, ckpt, faults>>
       \/ /\ Broker /\ buf.completed # {} /\ ~Held
          /\ \E stored \in SUBSET Keys, raised \in SUBSET buf.completed : Decide(TRUE, stored, raised)
          /\ reader' = Goto(After)
       \/ /\ Broker /\ buf.completed # {} /\ ~Held
          /\ IF cfg.onError = "continue"
             THEN Decide(FALSE, {}, {}) /\ reader' = Goto(After)
             ELSE /\ Fault
                  /\ buf' = [buf EXCEPT !.completed = {}]
                  /\ reader' = IF reader.at = "tail" THEN FlushThen("failed") ELSE Raise
                  /\ UNCHANGED <<units, acct, sink, acked, refused, ckpt>>
    /\ UNCHANGED <<cfg, src, queue, worker, lock, errors, stop, result, lost>>

\* _finalize_batch_source_unit for a file, at its boundary or after the last one.
FinalizeFile(ok, stored, raised) ==
    LET u == reader.unit
        d == Disposition(units[u])
        data == {<<u[1], j>> : j \in 1..Chunks}
        may == ok /\ (d = "delivered" /\ cfg.strict => stored)
        acks == may /\ d # "undecided"
        gone == IF cfg.src = "sftp" THEN ok ELSE acks
    IN  /\ units' = Taken({u})
        /\ ckpt' = IF ok /\ stored /\ d = "delivered" THEN [ckpt EXCEPT ![u[1]] = 1] ELSE ckpt
        /\ raised => acks
        /\ acked' = IF gone THEN acked \union data ELSE acked
        /\ refused' = IF acks /\ raised THEN refused \union data ELSE refused
        /\ sink' = [Committed(ok) EXCEPT !.dropped = IF acks /\ d = "dropped" THEN @ \union data ELSE @]
        /\ acct' = [acct EXCEPT !.pending = @ \/ (ok /\ ~may)]

SettleFile ==
    /\ reader.at \in {"file", "lastFile"}
    /\ \E ok, stored, raised \in BOOLEAN :
        /\ IF ok /\ stored /\ ~raised THEN UNCHANGED faults ELSE Fault
        /\ IF ~ok /\ cfg.onError # "continue"
           THEN reader' = Raise /\ UNCHANGED <<units, acct, sink, acked, refused, ckpt>>
           ELSE /\ FinalizeFile(ok, stored, raised)
                /\ reader' = [reader EXCEPT !.unit = <<>>,
                        !.at = IF reader.at = "file" THEN "next" ELSE IF Threaded THEN "stopWorkers" ELSE "flush",
                        !.then = "tail"]
    /\ UNCHANGED <<cfg, src, queue, worker, lock, buf, errors, stop, result, lost>>

\* Bug: units without a checkpoint do not count.
OutcomesForgetPending == IF cfg.onError \in {"continue", "retry"} /\ acct.loss THEN "partial" ELSE "success"

\* _batch_outcome(commit_failed=False)
Outcomes == IF (cfg.onError \in {"continue", "retry"} /\ acct.loss) \/ acct.pending THEN "partial" ELSE "success"

\* The finally clause: the flusher is joined, hooks, state, sinks and source are closed.
EndRun ==
    /\ reader.at \in {"close", "failed"} /\ lock.by = "none"
    /\ reader' = Goto("ended")
    /\ result' = IF reader.at = "failed" THEN "failed" ELSE Outcomes
    /\ UNCHANGED <<cfg, src, queue, worker, lock, buf, units, acct, sink, acked, refused, ckpt, errors, stop,
                   lost, faults>>

PollSizes == {ns \in [Keys -> 0..MaxBatch] : MapThenSumSet(LAMBDA p : ns[p], Keys) <= MaxBatch}

ReaderStep ==
    \/ \E ns \in PollSizes : Poll(ns)
    \/ SourceEnds \/ LeaveLoop \/ NextFile
    \/ \E i \in src.batch : TakeItem(i)
    \/ ReaderChunk \/ ReaderFlush \/ Join \/ StopWorkers
    \/ DecideBrokers \/ SettleFile \/ EndRun
WorkerStep(w) == WorkerTakes(w) \/ WorkerChunk(w) \/ WorkerFlush(w)
FlushEnds == FlushWritten \/ FlushSkipped \/ FlushFails \/ FlushCrashes \/ FlushSwallowed

Next ==
    \/ ReaderStep \/ Rewind \/ RequestStop \/ FlusherWakes \/ FlushEnds
    \/ \E w \in Workers : WorkerStep(w)

(***************************************************************************)
(* Threads that can run do run; a flush holding the lock ends, because the *)
(* sinks' writes time out.                                                 *)
(***************************************************************************)
Fairness ==
    /\ WF_vars(ReaderStep /\ UNCHANGED faults)
    /\ WF_vars(FlushWritten)
    /\ \A w \in Workers : WF_vars(WorkerStep(w))

Spec == Init /\ [][Next]_vars /\ Fairness

----------------------------------------------------------------------------
(* Properties *)

TypeOK ==
    /\ cfg \in Configs
    /\ reader.at \in {"next", "chunk", "flush", "flushing", "join", "stopWorkers", "decide", "tail",
                      "file", "lastFile", "failed", "close", "ended"}
    /\ Len(queue) <= 2 * Cardinality(Workers)
    /\ lock.by \in {"none", "reader", "flusher"} \union Workers
    /\ \A w \in Workers : worker[w].at = "flushing" <=> lock.by = w
    /\ \A i \in buf.records \union lock.records : Datum(i) \in Data
    /\ \A u \in DOMAIN units : units[u].in \in Nat /\ units[u].delivered \in Nat
    /\ sink.durable \subseteq sink.written /\ sink.written \subseteq Data
    /\ acked \subseteq Data
    /\ ckpt \in [Keys -> 0..Length]
    /\ result \in {"running", "failed", "partial", "success"}

Settled == sink.durable \union sink.filtered \union sink.dlq \union sink.dropped

(***************************************************************************)
(* What the executor gave up (an acknowledged record, a file that was      *)
(* moved or marked) is committed in the sink, in the DLQ, routed away or   *)
(* dropped by the policy; a flush that fails in the timer thread, a worker *)
(* that finishes late or a rebalance never lets a record slip through      *)
(* (_flush_stream_buffer, _finalize_stream_broker_units).  The one way out *)
(* is a flush whose TramError was swallowed.  Not claimed for a source     *)
(* that removes its files in finalize() once the run lost something.       *)
(***************************************************************************)
AckedIsSettled ==
    /\ TypeOK
    /\ (cfg.src = "sftp" => ~acct.loss /\ ~lost) => acked \subseteq Settled \union sink.swallowed

(***************************************************************************)
(* A partition's delivery checkpoint never passes a record that is not     *)
(* settled: completed records wait for earlier ones, and an undecided one  *)
(* leaves a gap behind (broker_gaps, the hold in                           *)
(* _finalize_stream_broker_units).  Swallowed flushes excepted, as above.  *)
(***************************************************************************)
CheckpointIsSettled ==
    Broker => \A p \in Keys, o \in 1..Length : o <= ckpt[p] => <<p, o>> \in Settled \union sink.swallowed

(***************************************************************************)
(* A stream run that reports success called ack() for every broker record  *)
(* it took, each of them settled or of a swallowed flush, and dropped      *)
(* none, unless a flush failed in the timer thread or a worker outlived    *)
(* its join (stream_run, _batch_outcome).                                  *)
(***************************************************************************)
SuccessIsComplete ==
    result = "success" /\ Broker /\ ~lost =>
        /\ {d \in Data : d[2] <= src.position[d[1]]} \ DataOf(src.batch)
               \subseteq acked \intersect (Settled \union sink.swallowed)
        /\ sink.dropped = {}

(***************************************************************************)
(* A stop request ends the run: the reader, the workers, the bounded queue *)
(* and the flush lock never wait for each other forever (stream_run,       *)
(* _stream_run_threaded).                                                  *)
(***************************************************************************)
StopEnds == stop ~> result # "running"

(***************************************************************************)
(* If nothing fails and nobody stops the run, every record of the topic is *)
(* acknowledged in the end, whatever the batches, the interval flushes and *)
(* the rebalances (stream_run).                                            *)
(***************************************************************************)
EveryRecordIsAcked ==
    Broker => <>(faults > 0 \/ stop \/ cfg.keys \X (1..Length) \subseteq acked \ refused)

============================================================================
