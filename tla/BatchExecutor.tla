--------------------------- MODULE BatchExecutor ---------------------------
(***************************************************************************)
(* PipelineExecutor.batch_run (src/tram/pipeline/executor.py): one batch   *)
(* run reads the source chunk by chunk, writes every record batch to every *)
(* sink, and settles each source unit (a file, a broker record) with a     *)
(* commit barrier, a delivery checkpoint and an acknowledgement.           *)
(*                                                                         *)
(* A piece <<u, i>> stands for the i-th record batch of unit u, a record   *)
(* <<u, i, q>> for its part that goes into the q-th partition of a sink's  *)
(* file template.  A chunk is what source.read() yields: one piece, or all *)
(* the pieces of a unit when record_chunk_size makes the serializer split  *)
(* it.  The run thread (run), the pool of chunk threads (flight), the      *)
(* accounting they share (acct) and a crash of the process interleave.     *)
(*                                                                         *)
(* Left out: parallel_sinks (the sinks of a batch are written one after    *)
(* the other, as by default), the Protobuf passthrough, and the records a  *)
(* manual flush run emits after the loop, which belong to no unit and are  *)
(* not in the accounting.                                                  *)
(***************************************************************************)
EXTENDS Naturals, Sequences, FiniteSets, SequencesExt

CONSTANTS
    Sinks,          \* the configured sinks
    NUnits,         \* units in the input when the first run starts
    Configs,        \* the pipeline configurations to start from
    Conditional,    \* the sinks with a condition
    MaxAttempts,    \* retry_count + 1
    MaxFaults       \* bound: failures of the environment

Units == 1..NUnits

(***************************************************************************)
(* Only unit 1 has two pieces, and only where the source or the serializer *)
(* can split it.                                                           *)
(***************************************************************************)
Splits(c) == c.incremental \/ c.src \in {"finalize", "read"}
PiecesOf(c, u) == IF u = 1 /\ Splits(c) THEN <<<<1, 1>>, <<1, 2>>>> ELSE <<<<u, 1>>>>
Pieces == {<<u, i>> : u \in Units, i \in 1..2}

\* The first n records of each of the pieces ps.
RecordsOf(ps, n) == {<<p[1], p[2], q>> : p \in ps, q \in 1..n}
UnitRecords(c, u) == RecordsOf(ToSet(PiecesOf(c, u)), c.parts)

\* The chunks source.read() yields for unit u.
ChunksOf(c, u) ==
    IF c.incremental THEN <<[unit |-> u, pieces |-> PiecesOf(c, u)]>>
    ELSE [i \in 1..Len(PiecesOf(c, u)) |-> [unit |-> u, pieces |-> <<PiecesOf(c, u)[i]>>]]

\* A listing of the input: the units still there, in order.
Listing(c, left) == FlattenSeq([i \in Units |-> IF i \in left THEN ChunksOf(c, i) ELSE <<>>])

VARIABLES
    cfg,        \* the pipeline configuration
    source,     \* units still in the input: neither moved, deleted nor marked
    buffer,     \* [Sinks -> records written and not yet committed]
    durable,    \* [Sinks -> records a commit confirmed]
    filtered,   \* [Sinks -> records a condition or a transform kept from the sink]
    silent,     \* [Sinks -> records given up with no entry in the accounting]
    dlq,        \* records in the DLQ sink or its disk spool
    dropped,    \* units acknowledged with the disposition DROPPED
    ckpt,       \* units with a committed delivery checkpoint
    breaker,    \* [Sinks -> BOOLEAN] circuit breaker open
    run,        \* the run thread
    flight,     \* submitted chunks, oldest first
    acct,       \* _RunDeliveryAccounting
    last,       \* the last RunResult and the records its attempt read
    runs, faults

vars == <<cfg, source, buffer, durable, filtered, silent, dlq, dropped, ckpt, breaker,
          run, flight, acct, last, runs, faults>>
sinkVars == <<buffer, durable, filtered, silent, dlq, breaker>>

----------------------------------------------------------------------------
(* Delivery accounting *)

NoCounts == [in |-> 0, delivered |-> 0, failed |-> 0, dlqOk |-> 0, dlqFail |-> 0]
NewAccounting ==
    [unit |-> [u \in Units |-> NoCounts], failed |-> 0, dlqFail |-> 0, pending |-> 0, recordsIn |-> 0]

RecordLoss(a, u, f, ok, ko) ==
    [a EXCEPT !.failed = @ + f, !.dlqFail = @ + ko,
              !.unit[u] = [@ EXCEPT !.failed = @ + f, !.dlqOk = @ + ok, !.dlqFail = @ + ko]]

RecordChunk(a, u, n, d) ==
    [a EXCEPT !.unit[u] = [@ EXCEPT !.in = @ + n, !.delivered = @ + d]]

HasLoss(a) == a.failed > 0 \/ a.dlqFail > 0

\* _UnitOutcome.disposition
Disposition(n) ==
    CASE n.dlqFail > 0 -> "undecided"
      [] n.dlqFail = 0 /\ n.dlqOk > 0 -> "dlq"
      [] n.dlqFail = 0 /\ n.dlqOk = 0 /\ n.failed > 0 ->
            IF cfg.onError = "continue" THEN "dropped" ELSE "undecided"
      [] n.dlqFail = 0 /\ n.dlqOk = 0 /\ n.failed = 0 ->
            IF n.delivered > 0 THEN "delivered" ELSE IF n.in > 0 THEN "filtered" ELSE "undecided"

\* Bug: only continue counts its losses.
BatchOutcomeForgetsRetry(a, commitFailed) ==
    IF commitFailed \/ (cfg.onError = "continue" /\ HasLoss(a)) \/ a.pending > 0
    THEN "partial" ELSE "success"

\* _batch_outcome
BatchOutcome(a, commitFailed) ==
    IF \/ commitFailed
       \/ cfg.onError \in {"continue", "retry"} /\ HasLoss(a)
       \/ a.pending > 0
    THEN "partial" ELSE "success"

Threaded == cfg.workers > 1

\* Bug: a cap that drains each chunk before its unit is known to be complete.
InflightCapOne == 1

\* _batch_inflight_cap
InflightCap == IF 2 * cfg.workers > 1 THEN 2 * cfg.workers ELSE 1

----------------------------------------------------------------------------
(* Initial state, the start and the end of a run *)

Idle == [pc |-> "idle"]
NewRun(attempt) ==
    [pc |-> "read", attempt |-> attempt, todo |-> Listing(cfg, source), prev |-> 0, cur |-> 0,
     units |-> <<>>, early |-> FALSE, drain |-> FALSE, stop |-> FALSE,
     fin |-> 0, full |-> FALSE, next |-> "read", commitOk |-> TRUE, read |-> {}, settled |-> {}]

NoResult == [status |-> "none", read |-> {}, settled |-> {}, early |-> FALSE]

Init ==
    /\ cfg \in Configs
    /\ source = 1..cfg.units
    /\ buffer = [s \in Sinks |-> {}]
    /\ durable = [s \in Sinks |-> {}]
    /\ filtered = [s \in Sinks |-> {}]
    /\ silent = [s \in Sinks |-> {}]
    /\ dlq = {}
    /\ dropped = {}
    /\ ckpt = {}
    /\ breaker = [s \in Sinks |-> FALSE]
    /\ run = Idle
    /\ flight = <<>>
    /\ acct = NewAccounting
    /\ last = NoResult
    /\ runs = 0
    /\ faults = 0

Fault == faults < MaxFaults /\ faults' = faults + 1

\* _batch_run_inner: build, hydrate, first attempt.
StartRun ==
    /\ run.pc = "idle" /\ runs < cfg.runs
    /\ runs' = runs + 1
    /\ run' = NewRun(1)
    /\ last' = NoResult
    /\ UNCHANGED <<cfg, source, sinkVars, dropped, ckpt, flight, acct, faults>>

\* The worker's drain sets stop_event, or the drain deadline passes.
RequestStop ==
    /\ cfg.stops /\ run.pc # "idle" /\ ~run.stop
    /\ run' = [run EXCEPT !.stop = TRUE]
    /\ UNCHANGED <<cfg, source, sinkVars, dropped, ckpt, flight, acct, last, runs, faults>>

\* The result is built and the finally block closes sinks and source; what a
\* sink still buffers is gone.
Finish(status) ==
    /\ last' = [status |-> status, read |-> run.read, settled |-> run.settled, early |-> run.early]
    /\ run' = Idle
    /\ flight' = <<>>
    /\ acct' = NewAccounting

\* The process dies: only what is durable outside of it survives.
Crash ==
    /\ run.pc # "idle" /\ Fault
    /\ run' = Idle
    /\ flight' = <<>>
    /\ acct' = NewAccounting
    /\ buffer' = [s \in Sinks |-> {}]
    /\ breaker' = [s \in Sinks |-> FALSE]
    /\ UNCHANGED last
    /\ UNCHANGED <<cfg, source, durable, filtered, silent, dlq, dropped, ckpt, runs>>

----------------------------------------------------------------------------
(* A chunk on its thread: _process_chunk and _process_chunk_incrementally *)

NewJob(chunk) ==
    [unit |-> chunk.unit, st |-> "queued", todo |-> chunk.pieces,
     left |-> <<>>, kept |-> <<>>, now |-> <<>>, wrote |-> 0]

Busy == {i \in DOMAIN flight : flight[i].st \in {"start", "sinks"}}
Done(j) == j.st \in {"ok", "tram", "dlqx", "bug"}

\* How a job ends, or goes on, after the handlers of _process_records and
\* _process_chunk have seen an error of this kind.
Escapes(kind, a) ==
    \/ kind \in {"dlqx", "bug"}
    \/ cfg.onError = "abort"
    \/ cfg.onError = "retry" /\ HasLoss(a)

Full(a) == cfg.batchSize > 0 /\ a.recordsIn >= cfg.batchSize
BatchFull == Full(acct)

\* The next record batch of a job; batch_size ends an incremental one.
NextPiece(j, a) ==
    [j EXCEPT !.todo = Tail(@), !.left = <<>>, !.kept = <<>>, !.now = <<>>, !.wrote = 0,
              !.st = IF Len(j.todo) > 1 /\ ~Full(a) THEN "start" ELSE "ok"]

\* _write_dlq_envelope: the sink or its spool takes the records rs, or both fail.
DLQ(rs, ok) == dlq' = IF cfg.dlq /\ ok THEN dlq \cup rs ELSE dlq

\* The accounting of a failure: a DLQ success, a DLQ failure, or n lost records.
LostRecords(a, u, ok, n) ==
    IF cfg.dlq THEN RecordLoss(a, u, 0, IF ok THEN n ELSE 0, IF ok THEN 0 ELSE n)
    ELSE RecordLoss(a, u, n, 0, 0)
Lost(u, ok) == LostRecords(acct, u, ok, 1)

DLQRaises(ok) == cfg.dlq /\ ~ok /\ cfg.onError \in {"dlq", "retry"}

\* A DLQ failure is a fault of its own.
FaultCost(ok) == LET n == IF cfg.dlq /\ ~ok THEN 2 ELSE 1
                 IN  faults + n <= MaxFaults /\ faults' = faults + n

\* The records lost[s] are given up for sink s and nothing is recorded.
GiveUp(lost) == silent' = [s \in Sinks |-> silent[s] \cup lost[s]]

\* A pool thread takes the oldest queued chunk.
BeginChunk(i) ==
    /\ flight[i].st = "queued"
    /\ \A k \in 1..(i - 1) : flight[k].st # "queued"
    /\ Cardinality(Busy) < cfg.workers
    /\ flight' = [flight EXCEPT ![i].st = "start"]
    /\ UNCHANGED <<cfg, source, sinkVars, dropped, ckpt, run, acct, last, runs, faults>>

\* The records of a job's next batch; parse_chunks' batches are cut to batch_size.
Batch(j) ==
    LET room == cfg.batchSize - acct.recordsIn
        n == IF cfg.incremental /\ cfg.batchSize > 0 /\ room < cfg.parts THEN room ELSE cfg.parts
    IN  [q \in 1..n |-> <<Head(j.todo)[1], Head(j.todo)[2], q>>]
Counting(a, batch) == [a EXCEPT !.recordsIn = @ + Len(batch)]

\* A job goes on to the sinks with the records the global transforms kept.
ToSinks(j, kept, a) ==
    IF kept = <<>> THEN NextPiece(j, a)
    ELSE [j EXCEPT !.st = "sinks", !.left = cfg.sinks, !.kept = kept, !.now = kept]

\* parse / the next batch of parse_chunks, then the global transforms, which
\* may keep no record of the batch: then nothing is counted for the unit.
Parsed(i) ==
    /\ flight[i].st = "start"
    /\ IF cfg.incremental /\ BatchFull
       THEN /\ flight' = [flight EXCEPT ![i].st = "ok"]
            /\ UNCHANGED <<acct, filtered>>
       ELSE \E keep \in {TRUE, "absorb" \notin cfg.may} :
            LET batch == Batch(flight[i])
                a == Counting(acct, batch)
            IN  /\ acct' = a
                /\ flight' = [flight EXCEPT ![i] = ToSinks(@, IF keep THEN batch ELSE <<>>, a)]
                /\ filtered' = IF keep THEN filtered
                               ELSE [s \in Sinks |-> filtered[s] \cup ToSet(batch)]
    /\ UNCHANGED <<cfg, source, buffer, durable, silent, dlq, breaker, dropped, ckpt, run, last, runs,
                   faults>>

\* The pieces in the raw bytes of a job's chunk.
RawPieces(j) == ToSet(IF cfg.incremental THEN PiecesOf(cfg, j.unit) ELSE j.todo)

\* The chunk is treated as unparseable: its raw bytes go to the DLQ and the
\* chunk is given up.
Unparseable(i) ==
    \E ok \in BOOLEAN :
        LET a == Lost(flight[i].unit, ok)
            kind == IF DLQRaises(ok) THEN "dlqx" ELSE "tram"
        IN  /\ FaultCost(ok)
            /\ DLQ(RecordsOf(RawPieces(flight[i]), cfg.parts), ok)
            /\ acct' = a
            /\ flight' = [flight EXCEPT ![i].st = IF Escapes(kind, a) THEN kind ELSE "ok"]
            /\ UNCHANGED silent

\* The parser fails.  _process_chunk handles every error alike.
ParseFails(i) ==
    /\ flight[i].st = "start"
    /\ Unparseable(i)
    /\ UNCHANGED <<cfg, source, buffer, durable, filtered, breaker, dropped, ckpt, run, last, runs>>

\* A TramError of parse_chunks is raised again before the DLQ branch: unless
\* it escapes, the rest of the chunk is given up and nothing is recorded.
ParseChunksFails(i) ==
    /\ flight[i].st = "start" /\ cfg.incremental /\ Fault
    /\ IF Escapes("tram", acct)
       THEN /\ flight' = [flight EXCEPT ![i].st = "tram"]
            /\ UNCHANGED silent
       ELSE /\ flight' = [flight EXCEPT ![i].st = "ok"]
            /\ GiveUp([s \in Sinks |-> RecordsOf(ToSet(flight[i].todo), cfg.parts)])
    /\ UNCHANGED <<cfg, source, buffer, durable, filtered, dlq, breaker, dropped, ckpt, run, acct,
                   last, runs>>

\* _apply_global_transforms fails for some records: the others go on.
TransformFails(i) ==
    /\ flight[i].st = "start" /\ ~(cfg.incremental /\ BatchFull)
    /\ LET batch == Batch(flight[i])
       IN  \E ok \in BOOLEAN, bad \in (SUBSET ToSet(batch)) \ {{}} :
            LET lost == LostRecords(acct, flight[i].unit, ok, Cardinality(bad))
                a == Counting(lost, batch)
            IN  IF cfg.onError = "abort"
                THEN /\ Fault
                     /\ acct' = Counting(acct, batch)
                     /\ flight' = [flight EXCEPT ![i].st = "tram"]
                     /\ UNCHANGED dlq
                ELSE /\ FaultCost(ok)
                     /\ DLQ(bad, ok)
                     /\ acct' = a
                     /\ flight' = [flight EXCEPT ![i] =
                            IF DLQRaises(ok) THEN [@ EXCEPT !.st = "dlqx"]
                            ELSE ToSinks(@, SelectSeq(batch, LAMBDA r : r \notin bad), a)]
    /\ UNCHANGED <<cfg, source, buffer, durable, filtered, silent, breaker, dropped, ckpt, run, last,
                   runs>>

\* A job leaves the sink at hand having written n records to it.
SinkDone(j, n) ==
    LET k == [j EXCEPT !.left = Tail(@), !.now = j.kept, !.wrote = IF n > @ THEN n ELSE @]
    IN  IF k.left = <<>> THEN NextPiece(k, acct) ELSE k

\* ... and the accounting then: record_chunk once the last sink returned.
SinkCounted(a, j, n) ==
    IF Len(j.left) = 1 THEN RecordChunk(a, j.unit, Len(j.kept), IF n > j.wrote THEN n ELSE j.wrote) ELSE a

\* Sink s is next for the job, or some of its partitions are already written.
Writing(i, s) == flight[i].st = "sinks" /\ s = Head(flight[i].left)
Entering(i, s) == Writing(i, s) /\ flight[i].now = flight[i].kept

\* A TramError that no accounting saw: it ends the job, or it is swallowed by
\* _process_records, the rest of the batch is given up and an incremental job
\* goes on with the next batch.
Swallows(i) ==
    LET j == flight[i]
    IN  IF Escapes("tram", acct)
        THEN /\ flight' = [flight EXCEPT ![i].st = "tram"]
             /\ UNCHANGED silent
        ELSE /\ flight' = [flight EXCEPT ![i] = NextPiece(@, acct)]
             /\ GiveUp([s \in Sinks |-> CASE s = Head(j.left) -> ToSet(j.now)
                                          [] s \in ToSet(Tail(j.left)) -> ToSet(j.kept)
                                          [] s \notin ToSet(j.left) -> {}])

\* The sink takes a partition (after its own retries) and its breaker is reset.
SinkWrites(i, s) ==
    /\ Writing(i, s)
    /\ LET j == flight[i]
       IN  /\ buffer' = [buffer EXCEPT ![s] = @ \cup {Head(j.now)}]
           /\ IF Len(j.now) > 1
              THEN /\ flight' = [flight EXCEPT ![i].now = Tail(@)]
                   /\ UNCHANGED acct
              ELSE /\ flight' = [flight EXCEPT ![i] = SinkDone(@, Len(j.kept))]
                   /\ acct' = SinkCounted(acct, j, Len(j.kept))
    /\ breaker' = [breaker EXCEPT ![s] = FALSE]
    /\ UNCHANGED <<cfg, source, durable, filtered, silent, dlq, dropped, ckpt, run, last, runs, faults>>

\* The sink's condition matches no record of the batch, or its transforms keep none.
SinkFilters(i, s) ==
    /\ Entering(i, s) /\ s \in Conditional
    /\ filtered' = [filtered EXCEPT ![s] = @ \cup ToSet(flight[i].kept)]
    /\ acct' = SinkCounted(acct, flight[i], 0)
    /\ flight' = [flight EXCEPT ![i] = SinkDone(@, 0)]
    /\ UNCHANGED <<cfg, source, buffer, durable, silent, dlq, breaker, dropped, ckpt, run, last, runs,
                   faults>>

\* The breaker is open: the sink is skipped and nothing is raised, whatever on_error.
SinkSkipped(i, s) ==
    /\ Entering(i, s) /\ breaker[s]
    /\ LET a == RecordLoss(acct, flight[i].unit, Len(flight[i].kept), 0, 0)
       IN  acct' = SinkCounted(a, flight[i], 0)
    /\ flight' = [flight EXCEPT ![i] = SinkDone(@, 0)]
    /\ UNCHANGED <<cfg, source, sinkVars, dropped, ckpt, run, last, runs, faults>>

\* The write of a partition fails after its retries: the breaker counts it (a
\* threshold of one opens it), the partition goes to the DLQ or is counted as
\* failed.  Unless that raises, the sink is left and the partitions behind it
\* are given up.
SinkFails(i, s) ==
    /\ Writing(i, s) /\ "failed" \in cfg.may
    /\ \E ok \in BOOLEAN :
        LET j == flight[i]
            a == Lost(j.unit, ok)
            written == Len(j.kept) - Len(j.now)
            raises == \/ DLQRaises(ok) \/ cfg.onError = "abort"
                      \/ cfg.onError = "retry" /\ ~(cfg.dlq /\ ok)
        IN  /\ FaultCost(ok)
            /\ DLQ({Head(j.now)}, ok)
            /\ IF raises
               THEN /\ acct' = a
                    /\ flight' = [flight EXCEPT ![i].st = IF DLQRaises(ok) THEN "dlqx" ELSE "tram"]
                    /\ UNCHANGED silent
               ELSE /\ acct' = SinkCounted(a, j, written)
                    /\ flight' = [flight EXCEPT ![i] = SinkDone(@, written)]
                    /\ GiveUp([t \in Sinks |-> IF t = s THEN ToSet(Tail(j.now)) ELSE {}])
    /\ breaker' = [breaker EXCEPT ![s] = cfg.breaker]
    /\ UNCHANGED <<cfg, source, buffer, durable, filtered, dropped, ckpt, run, last, runs>>

\* A sink-level transform fails.
SinkTransformFails(i, s) ==
    /\ Entering(i, s) /\ "transform" \in cfg.may
    /\ \E ok \in BOOLEAN :
        LET a == Lost(flight[i].unit, ok)
        IN  IF cfg.onError = "abort"
            THEN /\ Fault
                 /\ flight' = [flight EXCEPT ![i].st = "tram"]
                 /\ UNCHANGED <<dlq, acct>>
            ELSE /\ FaultCost(ok)
                 /\ DLQ(ToSet(flight[i].kept), ok)
                 /\ IF DLQRaises(ok)
                    THEN /\ acct' = a
                         /\ flight' = [flight EXCEPT ![i].st = "dlqx"]
                    ELSE /\ acct' = SinkCounted(a, flight[i], 0)
                         /\ flight' = [flight EXCEPT ![i] = SinkDone(@, 0)]
    /\ UNCHANGED <<cfg, source, buffer, durable, filtered, silent, breaker, dropped, ckpt, run, last,
                   runs>>

\* _filter_by_condition raises: no loss is recorded.
ConditionFails(i, s) ==
    /\ Entering(i, s) /\ "condition" \in cfg.may /\ s \in Conditional /\ Fault
    /\ Swallows(i)
    /\ UNCHANGED <<cfg, source, buffer, durable, filtered, dlq, breaker, dropped, ckpt, run, acct,
                   last, runs>>

\* The output serializer raises a SerializerError for a partition: no loss is
\* recorded either.
SerializeFails(i, s) ==
    /\ Writing(i, s) /\ "serialize" \in cfg.may /\ Fault
    /\ Swallows(i)
    /\ UNCHANGED <<cfg, source, buffer, durable, filtered, dlq, breaker, dropped, ckpt, run, acct,
                   last, runs>>

\* It raises something that is no TramError: that leaves a plain chunk as it
\* is, and looks like a parse error to an incremental one.
SerializeCrashes(i, s) ==
    /\ Writing(i, s) /\ "serialize" \in cfg.may
    /\ IF cfg.incremental
       THEN Unparseable(i)
       ELSE /\ Fault
            /\ flight' = [flight EXCEPT ![i].st = "bug"]
            /\ UNCHANGED <<dlq, acct, silent>>
    /\ UNCHANGED <<cfg, source, buffer, durable, filtered, breaker, dropped, ckpt, run, last, runs>>

ChunkStep(i) ==
    \/ BeginChunk(i) \/ Parsed(i) \/ ParseFails(i) \/ ParseChunksFails(i) \/ TransformFails(i)
    \/ \E s \in Sinks :
        \/ SinkWrites(i, s) \/ SinkFilters(i, s) \/ SinkSkipped(i, s) \/ SinkFails(i, s)
        \/ SinkTransformFails(i, s) \/ ConditionFails(i, s) \/ SerializeFails(i, s)
        \/ SerializeCrashes(i, s)

----------------------------------------------------------------------------
(* The run thread *)

\* A source of kind "read" (ftp, s3, gcs, azure_blob) moves, deletes or marks a
\* file when its generator is resumed after the file's last chunk.
Resumed ==
    source' = IF /\ cfg.src = "read" /\ run.prev # 0
                 /\ run.todo = <<>> \/ Head(run.todo).unit # run.prev
              THEN source \ {run.prev} ELSE source

\* The iterator yields: a stop request ends the loop; otherwise the chunk is
\* submitted, in the sequential loop after the previous unit is finalized.
NextChunk ==
    /\ run.pc = "read" /\ run.todo # <<>>
    /\ Resumed
    /\ run' = IF run.stop THEN [run EXCEPT !.drain = TRUE, !.pc = "end"]
              ELSE IF ~Threaded /\ run.cur \notin {0, Head(run.todo).unit}
              THEN [run EXCEPT !.pc = "commit", !.fin = run.cur, !.full = TRUE,
                               !.next = "submit", !.cur = 0]
              ELSE [run EXCEPT !.pc = "submit"]
    /\ UNCHANGED <<cfg, sinkVars, dropped, ckpt, flight, acct, last, runs, faults>>

\* The iterator is exhausted.
SourceEnds ==
    /\ run.pc = "read" /\ run.todo = <<>>
    /\ Resumed
    /\ run' = [run EXCEPT !.pc = "end"]
    /\ UNCHANGED <<cfg, sinkVars, dropped, ckpt, flight, acct, last, runs, faults>>

\* Units in submission order with the chunks not yet drained (_submit).
Enqueued(us, u) ==
    IF us # <<>> /\ Last(us).unit = u
    THEN [us EXCEPT ![Len(us)].left = @ + 1]
    ELSE Append(IF us = <<>> THEN us ELSE [us EXCEPT ![Len(us)].full = TRUE],
                [unit |-> u, left |-> 1, full |-> cfg.src = "broker"])

Submit ==
    /\ run.pc = "submit"
    /\ LET chunk == Head(run.todo)
       IN  /\ flight' = Append(flight, NewJob(chunk))
           /\ run' = [run EXCEPT !.todo = Tail(@), !.prev = chunk.unit, !.cur = chunk.unit,
                                 !.units = IF Threaded THEN Enqueued(@, chunk.unit) ELSE @,
                                 !.read = @ \cup RecordsOf(ToSet(chunk.pieces), cfg.parts),
                                 !.pc = IF Threaded THEN "drain" ELSE "await"]
           /\ silent' = [s \in Sinks |-> silent[s] \ RecordsOf(ToSet(chunk.pieces), cfg.parts)]
    /\ UNCHANGED <<cfg, source, buffer, durable, filtered, dlq, breaker, dropped, ckpt, acct, last,
                   runs, faults>>

\* An exception leaves the loop: queued futures are cancelled and the pool
\* waits for the running ones.
Raised(r, kind) == [r EXCEPT !.pc = "unwind", !.next = kind]
Cancelled(fs) == SelectSeq(fs, LAMBDA j : j.st # "queued")

\* Where the loop goes on after a chunk: batch_size stops the reading.
AfterChunk(r) ==
    IF BatchFull THEN [r EXCEPT !.early = TRUE, !.pc = "end"] ELSE [r EXCEPT !.pc = "read"]

\* The sequential loop's chunk returned or raised.
ChunkReturns ==
    /\ run.pc = "await" /\ Done(flight[1])
    /\ flight' = <<>>
    /\ run' = CASE flight[1].st # "ok" -> Raised(run, flight[1].st)
                [] flight[1].st = "ok" /\ cfg.src = "broker" ->
                     [run EXCEPT !.pc = "commit", !.fin = run.cur, !.full = TRUE,
                                 !.next = "checked", !.cur = 0]
                [] flight[1].st = "ok" /\ cfg.src # "broker" -> AfterChunk(run)
    /\ UNCHANGED <<cfg, source, sinkVars, dropped, ckpt, acct, last, runs, faults>>

BrokerChecked ==
    /\ run.pc = "checked"
    /\ run' = AfterChunk(run)
    /\ UNCHANGED <<cfg, source, sinkVars, dropped, ckpt, flight, acct, last, runs, faults>>

\* _drain_one raises a chunk's error, or swallows it like a success.
DrainRaises(j) ==
    \/ j.st = "bug"
    \/ /\ j.st \in {"tram", "dlqx"}
       /\ cfg.onError = "abort" \/ (cfg.onError = "retry" /\ HasLoss(acct))

\* The units after the head chunk of unit u was drained.
Drained(us, u) ==
    IF us # <<>> /\ Head(us).unit = u THEN [us EXCEPT ![1].left = @ - 1] ELSE us
Complete(us, u) == us # <<>> /\ Head(us).unit = u /\ Head(us).left = 0 /\ Head(us).full

DrainOne ==
    /\ \/ run.pc = "drain" /\ Len(flight) >= InflightCap
       \/ run.pc = "tail" /\ flight # <<>>
    /\ Done(flight[1])
    /\ LET j == flight[1]
           us == Drained(run.units, j.unit)
       IN  IF DrainRaises(j)
           THEN /\ flight' = Cancelled(Tail(flight))
                /\ run' = Raised(run, j.st)
           ELSE /\ flight' = Tail(flight)
                /\ run' = IF Complete(us, j.unit)
                          THEN [run EXCEPT !.units = Tail(us), !.pc = "commit", !.fin = j.unit,
                                           !.full = TRUE, !.next = run.pc]
                          ELSE [run EXCEPT !.units = us]
    /\ UNCHANGED <<cfg, source, sinkVars, dropped, ckpt, acct, last, runs, faults>>

DrainedEnough ==
    /\ run.pc = "drain" /\ Len(flight) < InflightCap
    /\ run' = AfterChunk(run)
    /\ UNCHANGED <<cfg, source, sinkVars, dropped, ckpt, flight, acct, last, runs, faults>>

\* After the loop: the sequential run finalizes its current unit, the threaded
\* one marks the last unit fully submitted and drains.
LoopEnds ==
    /\ run.pc = "end"
    /\ LET full == ~run.early \/ run.drain
       IN  run' = IF Threaded
                  THEN [run EXCEPT !.pc = "tail",
                            !.units = IF @ # <<>> /\ full THEN [@ EXCEPT ![Len(@)].full = TRUE] ELSE @]
                  ELSE IF run.cur # 0
                  THEN [run EXCEPT !.pc = "commit", !.fin = run.cur, !.full = full,
                                   !.next = "barrier", !.cur = 0]
                  ELSE [run EXCEPT !.pc = "barrier"]
    /\ UNCHANGED <<cfg, source, sinkVars, dropped, ckpt, flight, acct, last, runs, faults>>

TailDrained ==
    /\ run.pc = "tail" /\ flight = <<>>
    /\ run' = [run EXCEPT !.pc = "barrier"]
    /\ UNCHANGED <<cfg, source, sinkVars, dropped, ckpt, flight, acct, last, runs, faults>>

SourceFails ==
    /\ run.pc = "read" /\ Fault
    /\ flight' = Cancelled(flight)
    /\ run' = Raised(run, "tram")
    /\ UNCHANGED <<cfg, source, sinkVars, dropped, ckpt, acct, last, runs>>

\* _commit_sinks_receipts: every sink confirms, or only those of some subset do.
Committed(ss) ==
    /\ durable' = [s \in Sinks |-> IF s \in ss THEN durable[s] \cup buffer[s] ELSE durable[s]]
    /\ buffer' = [s \in Sinks |-> IF s \in ss THEN {} ELSE buffer[s]]

\* Bug: an unconfirmed unit is settled like a confirmed one.
CommitUnitUnchecked ==
    /\ run.pc = "commit"
    /\ \/ Committed(Sinks) /\ UNCHANGED faults
       \/ \E ss \in SUBSET Sinks : ss # Sinks /\ Fault /\ Committed(ss)
    /\ run' = [run EXCEPT !.pc = "settle", !.commitOk = TRUE]
    /\ UNCHANGED <<cfg, source, filtered, silent, dlq, breaker, dropped, ckpt, flight, acct, last, runs>>

\* The commit barrier of _finalize_batch_source_unit.
CommitUnit ==
    /\ run.pc = "commit"
    /\ \/ /\ Committed(Sinks)
          /\ run' = [run EXCEPT !.pc = "settle", !.commitOk = TRUE]
          /\ UNCHANGED <<flight, faults>>
       \/ \E ss \in SUBSET Sinks :
            /\ ss # Sinks /\ Fault
            /\ Committed(ss)
            /\ IF cfg.onError = "continue"
               THEN /\ run' = [run EXCEPT !.pc = "settle", !.commitOk = FALSE]
                    /\ UNCHANGED flight
               ELSE /\ run' = Raised(run, "tram")
                    /\ flight' = Cancelled(flight)
    /\ UNCHANGED <<cfg, source, filtered, silent, dlq, breaker, dropped, ckpt, acct, last, runs>>

\* What acknowledging and finalizing the unit remove from the input.
Removed(acked, finalized) ==
    source' = IF \/ acked /\ cfg.src \in {"ack", "broker"}
                 \/ finalized /\ cfg.src = "finalize"
              THEN source \ {run.fin} ELSE source

\* _CheckpointGate.check_unit: strict waits for the commit, legacy does not.
GateOpens(k) == k \/ ~cfg.strict

\* take_unit, the checkpoint gate, ack and source.finalize.  The checkpoint may
\* commit (k), the acknowledgement may get through (a).
SettleUnit ==
    /\ run.pc = "settle"
    /\ LET u == run.fin
           d == Disposition(acct.unit[u])
           decided == run.commitOk /\ run.full /\ d # "undecided"
           gated == decided /\ d = "delivered"
       IN  \E k, a \in BOOLEAN :
            LET acked == decided /\ (gated => GateOpens(k))
                fs == (IF gated /\ ~k THEN 1 ELSE 0) + (IF acked /\ ~a THEN 1 ELSE 0)
            IN  /\ faults + fs <= MaxFaults /\ faults' = faults + fs
                /\ ckpt' = IF gated /\ k THEN ckpt \cup {u} ELSE ckpt
                /\ acct' = [acct EXCEPT !.unit[u] = NoCounts,
                                        !.pending = IF gated /\ ~acked THEN @ + 1 ELSE @]
                /\ dropped' = IF acked /\ a /\ d = "dropped" THEN dropped \cup {u} ELSE dropped
                /\ Removed(acked /\ a, run.full /\ run.commitOk)
                /\ run' = [run EXCEPT !.pc = run.next, !.settled = @ \cup {u}]
    /\ UNCHANGED <<cfg, sinkVars, flight, last, runs>>

\* The last barrier, completion_error, and the result.
Barrier ==
    /\ run.pc = "barrier"
    /\ UNCHANGED <<cfg, source, filtered, silent, dlq, breaker, dropped, ckpt, runs>>
    /\ \/ /\ durable' = [s \in Sinks |-> durable[s] \cup buffer[s]]
          /\ buffer' = [s \in Sinks |-> {}]
          /\ Finish(IF run.stop THEN "aborted" ELSE BatchOutcome(acct, FALSE))
          /\ UNCHANGED faults
       \/ \E ss \in SUBSET Sinks :
            /\ ss # Sinks /\ Fault
            /\ durable' = [s \in Sinks |-> IF s \in ss THEN durable[s] \cup buffer[s] ELSE durable[s]]
            /\ IF cfg.onError = "continue"
               THEN /\ buffer' = [s \in Sinks |-> {}]
                    /\ Finish(IF run.stop THEN "aborted" ELSE BatchOutcome(acct, TRUE))
               ELSE /\ buffer' = [s \in Sinks |-> IF s \in ss THEN {} ELSE buffer[s]]
                    /\ run' = Raised(run, "tram")
                    /\ UNCHANGED <<flight, acct, last>>
       \/ /\ ~run.stop /\ Fault
          /\ Committed(Sinks)
          /\ run' = Raised(run, "tram")
          /\ UNCHANGED <<flight, acct, last>>

\* The pool has shut down.  A TramError under on_error=retry rebuilds everything
\* and starts over; anything else ends the run.
Unwind ==
    /\ run.pc = "unwind" /\ \A j \in ToSet(flight) : Done(j)
    /\ buffer' = [s \in Sinks |-> {}]
    /\ IF run.next # "bug" /\ cfg.onError = "retry" /\ run.attempt < MaxAttempts
       THEN /\ run' = [NewRun(run.attempt + 1) EXCEPT !.stop = run.stop]
            /\ acct' = NewAccounting
            /\ flight' = <<>>
            /\ UNCHANGED last
       ELSE Finish("failed")
    /\ UNCHANGED <<cfg, source, durable, filtered, silent, dlq, breaker, dropped, ckpt, runs, faults>>

RunThread ==
    \/ NextChunk \/ SourceEnds \/ SourceFails \/ Submit \/ ChunkReturns \/ BrokerChecked
    \/ DrainOne \/ DrainedEnough \/ LoopEnds \/ TailDrained
    \/ CommitUnit \/ SettleUnit \/ Barrier \/ Unwind

\* All runs are over.
Terminated == run.pc = "idle" /\ runs = cfg.runs /\ UNCHANGED vars

Next ==
    \/ StartRun \/ RequestStop \/ Crash \/ RunThread
    \/ \E i \in DOMAIN flight : ChunkStep(i)
    \/ Terminated

Spec == Init /\ [][Next]_vars

----------------------------------------------------------------------------
(* Properties *)

\* A record that needs no replay: dead-lettered, or each sink has it, did not
\* match it, or gave it up without an entry in the accounting (a swallowed
\* serializer, condition or parse_chunks error, a partition behind a failed one).
Accounted(r) ==
    r \in dlq \/ \A s \in ToSet(cfg.sinks) : r \in durable[s] \cup filtered[s] \cup silent[s]

\* Every variable keeps its type: what the run thread and the pool threads of
\* src/tram/pipeline/executor.py share stays well-formed.
TypeOK ==
    /\ source \subseteq Units /\ dropped \subseteq Units /\ ckpt \subseteq Units
    /\ \A per \in {buffer, durable, filtered, silent} :
        per \in [Sinks -> SUBSET RecordsOf(Pieces, cfg.parts)]
    /\ dlq \subseteq RecordsOf(Pieces, cfg.parts)
    /\ breaker \in [Sinks -> BOOLEAN]
    /\ \A j \in ToSet(flight) :
        /\ j.st \in {"queued", "start", "sinks", "ok", "tram", "dlqx", "bug"}
        /\ ToSet(j.todo) \subseteq Pieces /\ IsSuffix(j.left, cfg.sinks)
        /\ IsSuffix(j.now, j.kept) /\ j.wrote \in 0..Len(j.kept)
    /\ Len(flight) <= InflightCap
    /\ runs \in 0..cfg.runs /\ faults \in 0..MaxFaults

\* An input unit is moved, deleted, marked or acknowledged only when each of its
\* records reached its sinks or the DLQ, or on_error=continue dropped the unit:
\* what _finalize_batch_source_unit says of its ack gate.
InputIsKept ==
    \A u \in (1..cfg.units) \ source :
        u \in dropped \/ \A r \in UnitRecords(cfg, u) : Accounted(r)

\* Where the ack gate is the only way out of the input, and a unit's accounting
\* decides it: sources that act in ack(), no open breaker beside a DLQ success,
\* no record batch that batch_size cut off in an acknowledged unit.  A source
\* that acts in finalize() needs on_error=abort and no drain stop.
Gated(c) ==
    \/ /\ c.src \in {"ack", "broker"}
       /\ ~(c.dlq /\ c.breaker /\ (c.incremental \/ c.parts > 1))
       /\ c.incremental /\ c.batchSize > 0 => (c.workers = 1 /\ c.src = "ack")
    \/ c.src = "finalize" /\ c.onError = "abort" /\ ~c.stops /\ ~c.breaker

\* A strict unit that was delivered leaves the input only with its manager
\* checkpoint committed (_CheckpointGate.check_unit before _ack_source_unit).
StrictIsCheckpointed ==
    cfg.strict /\ cfg.src \in {"ack", "broker"} =>
        \A u \in (1..cfg.units) \ source :
            \/ u \in ckpt \cup dropped
            \/ UnitRecords(cfg, u) \cap dlq # {}
            \/ \A r \in UnitRecords(cfg, u), s \in ToSet(cfg.sinks) : r \in filtered[s] \cup silent[s]

\* InputIsKept for the configurations whose units leave only through the gate,
\* whose order (sinks, checkpoint, acknowledgement) is StrictIsCheckpointed.
RemovedIsAccounted == TypeOK /\ StrictIsCheckpointed /\ (Gated(cfg) => InputIsKept)

\* A run that reports SUCCESS, and was not cut short by batch_size, delivered or
\* dead-lettered all it read, "never clean success for failed records"
\* (_batch_outcome), but for the records it gave up without accounting for them.
SuccessIsHonest ==
    last.status = "success" /\ ~last.early => \A r \in last.read : Accounted(r)

\* SuccessIsHonest where every recorded loss is raised or counted against the
\* result: not under dlq with pool threads (_drain_one swallows a failed DLQ
\* write), nor with a breaker under abort or dlq.  Pool threads see batch_size
\* after the run has read on.
Counted(c) ==
    /\ c.workers > 1 => c.onError # "dlq" /\ c.batchSize = 0
    /\ c.breaker => c.onError \in {"continue", "retry"}
SuccessIsDelivered == Counted(cfg) => SuccessIsHonest

\* A run that was not stopped and did not fail finalized every unit it read, so
\* no unit's remaining-chunks count is left behind (_submit and _drain_one).
EveryUnitIsFinalized ==
    last.status \in {"success", "partial"} /\ ~last.early
        => {r[1] : r \in last.read} \subseteq last.settled
=============================================================================
