# A verification project for TRAM

TRAM runs data pipelines. A *manager* process owns the pipelines, their schedules
and a SQL database; *workers* execute the runs the manager sends them and report
back. This directory holds TLA+ models of that system, the TLC configurations
that check them and proofs checked by TLAPS. Every definition is translated from
the code under `src/tram/`; `PROJECT.json` maps each one to its lines.

## The system

| Part | State | Operations | Talks to |
|---|---|---|---|
| `PipelineController` (`pipeline/controller.py`) | pipeline status, scheduler jobs, batch leases, dispatch marks, stream placements; one lifecycle RLock | register, update, delete, start, stop, restart, trigger; `_run_batch` threads; completion callbacks; boot | ledger, queue, worker pool |
| Execution ledger (`persistence/ledger.py`, SQL in the controller) | `execution_guards`, `execution_attempts`, `run_intents` | claim, mark, terminalize, resolve, release | database |
| Queued runs (`persistence/db.py`) | `queued_runs` rows | enqueue, claim, commit, revert, expire, cancel | ledger |
| Batch reconciler (`agent/reconciler.py`) | none of its own between passes | track, adopt, reap, drain | controller, worker pool |
| Placement reconciler (`agent/reconciler.py`) | slot observations | redispatch, resume | controller |
| Worker pool (`agent/worker_pool.py`) | health, assignments, sessions | poll, choose, dispatch, probe, query | workers |
| Worker server and journal (`agent/server.py`, `agent/journal.py`) | active runs; SQLite reservations, attempts, outbox, epochs | admit, run, complete, redeliver, drain, restart, collect | manager |
| Internal API (`api/routers/internal.py`) | none of its own | run-complete, checkpoints, transform state | controller, ledger |
| Executor (`pipeline/executor.py`) | one run's batches, buffers, acknowledgements, DLQ | read, transform, write, settle | connectors, internal API |
| Kafka source (`connectors/kafka/source.py`) | decided frontier, pending commits, ownership epochs | poll, yield, ack, commit, rebuild | broker, executor |
| Stateful transforms, file sinks, trackers, alerts | per-pipeline state | see the code | executor |
| Connectors, serializers, REST API, CLI, UI | little or none | I/O and conversion | all |

`PROJECT.json` lists every component with what is and is not modelled, and every
hazard with the line where it bites.

What makes the system hard: the controller's lock is dropped around every HTTP
call, so a dispatch thread, the reconciler, callbacks and operator commands
interleave there; a POST may time out after the worker took it; a completion is
delivered at least once; the manager may crash between two transactions of one
handler and rebuilds its memory from the database and the workers' journals; a
worker may restart in the middle of a run; inside a run, reader, worker threads
and a flush timer share one buffer, and what was read is given up to the source
only after several steps that may each fail.

What must hold: a pipeline has one owner; a run is not executed twice; a result
that was recorded never changes and belongs to the run it is recorded for; an
acknowledged completion is not lost; guards are not leaked; a slot of a stream is
executed by one run; no record is given up by its source before it is delivered,
dead-lettered or dropped by policy; a checkpoint and the state it stands for
agree.

## Modules

**`ExecutionLedger`** — the three ledger tables as one record and every
transaction on them as an operator from ledger to ledger: `claim_run` with its
statuses, the state marks, the fenced `terminalize_attempt`, the cancellation
statements. Two predicates say what the ledger promises: `GuardOwnership` and
`AuditKept`. The generation column is left out because every caller passes the
generation of the row it updates.

**`BatchRuns`** — the life of a batch run in manager+worker mode, on top of the
ledger. A handler body under the lifecycle lock is one action. The lock is
released around a dispatch POST, a status probe and a journal query, so what
comes before and after each of these is an action of its own:

| Code | Actions |
|---|---|
| `register` … `restart_pipeline` | the same names |
| `trigger_run`, `_enqueue_manual_run` | `TriggerExisting`, `TriggerQueued`, `TriggerSubmitted` |
| `_run_batch` / `_execute_batch` | `Fire` or `StartManual` (claim), then `NoCapacityManual` + `FallbackEnqueue`, `DispatchFailed` + `FinalizeFailed`, or `DispatchAccepted` |
| run-complete callback | `DeliverCompletion` (the acknowledgement may be lost) |
| `BatchReconciler.run_once` | `ReconTracked`, `ReconUntracked`, `adopt_active_batch_run`; `MarkLostRead`, `MarkLostEvidence`, `MarkLostCommit`; `ReconExpired`, `expire_queued_run`; `claim_queued_run`, `commit_queued_dispatch`, `revert_queued_claim` |
| crash | `Crash` between actions; `CrashInClaim`, `CrashInQueuedClaim`, `CrashInCompletion` between two transactions of one handler |
| boot | `BootStart`, `BootResolve`, `BootLoad` |
| workers, as observed | `WorkerAdmit`, `WorkerRefuse`, `WorkerFinish`, `WorkerRestart` |

The variables are grouped into what the database keeps (`ledger`, `queued`,
`history`, `registered`, `stopFlag`), what a crash erases (`status`, `job`,
`lease`, `dispatching`, `thread`, `recon`) and the world (`wire`, `journal`,
`outbox`). Fault constants (`Crashes`, `DispatchTimeouts`, `ProbeFailures`,
`WorkerRestarts`) and `OperatorOps` select what the environment does.

**`JournalTables`** — the worker's SQLite tables as one record and every
transaction of `agent/journal.py` on them as an operator, with the session and
time tests of `agent/auth_tokens.py`. A transaction that rolls back is the
identity, which is why an answer other than "admitted" leaves the watermark alone.

**`WorkerJournal`** — the journal as a component: any sequence of API calls under
a clock that advances and may be set back. It covers revocation, session epochs,
collection and retention, which no route of the worker calls yet.

**`WorkerServer`** — the worker process over the journal. Routes run in a thread
pool, so one request is several actions:

| Code | Actions |
|---|---|
| `POST /agent/run` | `RunGate` (drain gate, legacy duplicate guard), `RunAdmit`, `RunStart` (`state.add`, `t.start`), `RunMark` |
| `_stream_thread`, `_batch_thread` | `ThreadReturns` or `ThreadRaises`; `CommitCompletion`, `CommitRaises` or `PostDirectly`; `ThreadLeaves` (`state.remove`) |
| `POST /agent/stop`, `/agent/drain`, SIGTERM | `Stop`, `Drain`, `Shutdown` |
| `_drain_outbox_once`, by the loop and by the shutdown | `FetchDue`, then per row `SkipRow`, or `PostRow` and `AckRow` or `FailRow` |
| process | `Exit` (crash, or the end of a shutdown), `Boot` |

**`AttemptLife`** — what the worker promises about an attempt: accepted once, one
result that never changes, interrupted by a restart and never resumed, kept until
acknowledged. `WorkerServer` implements it (`KeepsAttemptLife`, with the refinement
mapping `LifeIn`, `OutcomeIn` read off the journal); the worker actions of
`BatchRuns` rely on it.

**`StreamPlacements`** — the placement of one stream pipeline: the commands
(`start_pipeline` … `delete`), the placement record in memory (`mem`) and in the
database (`rows`), boot with restore and adoption, statistics and completion
callbacks, the health poll, and the `PlacementReconciler`. The reconciler works on
a snapshot of the live runs and a copy of the placement, outside the lock; its
pass is therefore a program counter `rec.pc` whose steps interleave with everything
else: `RecSnapshot`, `RecCopy`, `RecLive`, `RecReported`, `RecStale`, `RecSend`,
`RecCommit`, … for a placed stream; `RecAdopt`, `RecStopExtra`, `RecRecover` for one
without placement. A run id is a sequence that holds the digits of its slot, so that
the code's `startswith` is `IsPrefix` and "-w1" is a prefix of "-w10". Each
configuration in `Configs` names the commands and the faults that may happen in it.
Slots pinned with `workers.list` and streams of several slots under
`TRAM_STREAM_SINGLE_PLACEMENT=0` are left out.

**`BatchExecutor`** — `PipelineExecutor.batch_run`: the run thread, the pool of
chunk threads (`flight`) and their shared accounting; per chunk the parse, the
transforms, each sink with its condition, transforms, serializer and circuit
breaker, and the dead letters; the drain of the futures, and the settlement of a
source unit (commit barrier, checkpoint, acknowledgement or finalization) under
every `on_error` policy; crash and replay. A record `<<u, i, q>>` is what goes into
partition `q` of a sink's file template from the `i`-th record batch of unit `u`: the
partitions of a batch are written one after the other, and the first that fails ends
the write. `silent` holds the records the code gives up without an entry in its
accounting. A configuration's `may` selects the kinds of failures. Left out:
`parallel_sinks`, the Protobuf passthrough, and the records a manual flush run emits
after the loop, which belong to no unit.

**`StreamExecutor`** — `PipelineExecutor.stream_run`: the reader, the worker
threads behind their bounded queue and the interval flusher share one micro-batch
buffer under the flush lock (`lock`); the reader settles broker records a poll
batch at a time (`DecideBrokers`, with held records and gaps) and files one by one
(`SettleFile`). What the source still has to yield of its batch is a set with an
order (`Yields`); the item whose key showed the end of a file is already in hand
while that file is settled, and is taken without another look at stop or errors
(`InHand`). A flush meets the circuit breaker and failures of the serializer and the
condition; those the code swallows end in `sink.swallowed`. Left out:
`parallel_sinks`, the drain deadline, and `auto_offset_reset=latest`, which
`KafkaSource` has.

**`Checkpoints`** — delivery checkpoints and transform state: the executor's
`_CheckpointGate`, hydration, restore and end-of-run save against the manager's
`_commit_atomic_checkpoint` (duplicate, fence and revision tests in one
transaction) and its unfenced PUT; an update that deletes the state row; a second,
overlapping run. A transform's state is how often it has absorbed each unit. The
pass of a unit ends `delivered` and goes through the gate; or with another
disposition (filtered, dead-lettered, dropped), acknowledged without a checkpoint
(`bare`); or undecided, not acknowledged at all (`open`). Units are one-shot:
`frontier_seq` is always 1.

**`KafkaSource`** — the source as the executor uses it, with `enable_auto_commit`
off: `Poll` with the drain of pending commits and the intake of a batch, `Yield`,
`SkipTombstone`, `Ack` in any order and repeated, `CommitOk`/`CommitFails`,
revocation and assignment with ownership epochs, a lost session, a rebuilt consumer,
and other members of the group that commit (`OtherCommits`). The log may grow
(`Produce`); a consumer without a committed offset starts where `auto_offset_reset`
says, and `skipped` holds the offsets a reset to the end jumped over.

**`MCBatchRuns`**, **`MCWorkerServer`**, **`MCBatchExecutor`**,
**`MCStreamExecutor`**, **`MCCheckpoints`**, **`MCKafkaSource`** and
**`MCStreamPlacements`** are the instances for TLC. **`BatchRunsProofs`**,
**`JournalLemmas`**, **`WorkerJournalProofs`**, **`WorkerServerProofs`**,
**`StreamExecutorLemmas`**, **`StreamExecutorProofs`**, **`CheckpointsProofs`** and
**`KafkaSourceProofs`** hold the theorems.

Definitions marked *Mutant* are plausible bugs of the definition that follows
them; they are used to confirm that each property can be violated.

## Runs

| Run | Instance | Properties |
|---|---|---|
| `batch_ownership` | two runs, two attempts each; start/stop/restart, manager crashes, worker restarts | `TypeOK`, `OneActiveBatchAttempt`, `ExecutedAtMostOnce`, `AckedIsRecorded`, `SuccessIsReported` |
| `batch_ledger` | two runs, one attempt each; update/delete and every fault | `LedgerOwnership`, `SuccessIsReal`, `AuditIsImmutable` |
| `batch_liveness` | two runs, two attempts; start/stop, fair | `GuardIsFreed`, `RunningEnds` |
| `update_during_dispatch` | the finding below | `OneActiveBatchAttempt` is violated |
| `journal_replay` | one attempt, two slots, clock 0..4 that may be set back, two sessions, two epochs | `RetiredTokenRefused`, `RevokedNeverAdmitted`, `UnackedIsKept` |
| `worker` | two attempts of a run and a legacy one, two requests at a time, two boots, lost answers, up to two failing commits | `IndexFindsRun`, `ResultsAgree`, `ActiveHasOwner`, `StartedAtMostOnce`, `KeepsAttemptLife` |
| `worker_liveness` | two attempts, one request, fair | `ResultIsAcknowledged` |
| `batch_executor` | two units of one or two record batches (five units where the in-flight cap must be reached, one where batches have two partitions), two sinks of which one is conditional, every policy with and without a breaker and `batch_size`, sequential and two threads, two faults | `RemovedIsAccounted`, `SuccessIsDelivered`, `EveryUnitIsFinalized` |
| `stream_executor` | one or two partitions or files of two records, two worker threads, every policy with and without a breaker, one or two faults, one rebalance | `AckedIsSettled`, `CheckpointIsSettled`, `SuccessIsComplete`, `StopEnds`, `EveryRecordIsAcked` |
| `checkpoints` | three units, two attempts, two faults, one update; two units when two runs overlap; every end of a pass without updates | `StrictAckIsCommitted`, `AckedIsAbsorbed`, `StatefulUnitsAreAcked` |
| `kafka_source` | one partition of three offsets: four complete logs, and one that grows from nothing under both resets; polls of two, two reconnections, two faults | `CommittedIsDecided`, `CommitNeverRegresses`, `LogIsCommitted` |
| `stream_placements` | two workers, one or two slots (also numbered 1 and 10), two commands and three faults at most, fourteen configurations | `DurablePlacement`, `SlotRunsOnce`, `BootSeesLive`, `Heals` |

**Batch runs.** Two runs are the fewest that compete for a guard, a lease or a
queue row; the second attempt is the first re-dispatch. Runs of different
pipelines share only the admission ceiling of the queue. `batch_ownership` leaves
out updates, dispatch timeouts and failed probes, under which the code does not
keep its properties (see below); `batch_ledger` shows what still holds then, and
has one attempt per run because the product of all faults is too large with two
(the proofs below have no such bound). Run ids are interchangeable, so safety runs
use them as a symmetry set. `CHECK_DEADLOCK` is off because run ids are finite:
once both runs are finished nothing is left to do.

**Worker.** One attempt is enough for the journal on its own: attempts share only
the watermark and the epoch, and both also move without a second attempt
(`Collect`, `AdvanceEpoch`). Two requests are the fewest that race; two failing
commits are the fewest that defeat the second try of the except branch. The
constraint `Explored` keeps the product in reach: while a legacy run or a failed
commit is in play, one attempt and one request are at work. In `WorkerServer` no
time passes; expiry is the subject of `WorkerJournal`.

**Executors and sources.** Two units, chunks, records or partitions are the fewest
that can be settled in the wrong order; a third checkpoint unit separates "the
last" from "an earlier" one; five units and two threads exceed the in-flight cap
of four. Two faults allow a failure in the handling of another one (a sink and
then its dead letter, a commit and then its retry). Two partitions of a record batch
are the fewest of which the first may fail and the second be left behind. The four
complete Kafka logs put a tombstone or a compacted offset before, between and after
payloads, and polls of two cut each of them at a batch boundary; the growing log adds
a start without a committed offset. `CHECK_DEADLOCK` is off where a run or a finite log simply ends;
`BatchExecutor` and `Checkpoints` have an explicit step for that instead.

**Placements.** Two workers allow one replacement; each of the fourteen
configurations joins the commands and faults that interact (see
`MCStreamPlacements`). Slots 1 and 10 stand for a stream of eleven slots, the
smallest in which the number of one slot begins with that of another.

### Disagreements between the code and its documents

`update_during_dispatch`: an update while a POST is in flight frees the guard of
a run the worker has accepted, and the next run executes beside it (a delete does
the same). `findings` in `PROJECT.json` quotes the line it contradicts.

Others were met while modelling. They explain the form of some properties and the
choice of faults in some runs.

*Batch runs and reconciler*

* A queued run whose POST timed out after the worker took it is reverted and
  executed a second time (`_dispatch_queued_run`): hence no `DispatchTimeouts` in
  `batch_ownership`.
* A manual run deduplicated against another queued row of its pipeline never gets
  a result of its own (`controller.py:2748`).
* A failed probe together with a failed journal query retires a live run.
* A crash inside a completion lets boot put an executed run back in the queue. The
  intent fence of `claim_run` keeps it from running again, and `SuccessIsReported`
  excepts its expiry.
* A late result leaves an attempt that boot marked 'unknown' in that state.
* A stale observation adopted by the reconciler hides a newer run from the reaper;
  if that run is interrupted it is never marked lost.

*Worker*

* The 1025th failure of an outbox row raises in the backoff arithmetic
  (`journal.py:1018`) and blocks the rows behind it.
* An admission answered 'revoked' or 'already_admitted' rolls back its watermark
  advance, although the comment says every decision advances it.
* Retention leaves a completed reservation without its result, which a comment
  calls unreachable.
* After the newest of three attempts of a run leaves, the run index points at the
  oldest; `IndexFindsRun` only says that it points at one.
* A dispatch past the drain gate is admitted after the drain began.
* Two concurrent legacy dispatches of one run id both start (`server.py:1527`),
  hence the exceptions for legacy runs.
* A commit that fails in a thread's except branch leaves its reservation active
  until the next boot (`server.py:2032`): the premise of `ActiveHasOwner`.

*Stream placements*

* A stop that overtakes a redispatch leaves the redispatched run executing,
  although the comments at `controller.py:3420` and `:4614` say that they cannot
  interleave. `SlotRunsOnce` and `BootSeesLive` except redispatched runs.
* A redispatch whose answer is lost, or whose manager crashes before the commit
  (`controller.py:4640`), may execute under an id the manager does not know. The next
  redispatch has the same id: it runs on two workers, or the worker refuses it for
  ever. `Heals` excepts a slot with such a run (`Ahead`).
* "-w1" is a prefix of "-w10": in a stream of eleven slots a report of slot 10's run
  may fill in slot 1 (`controller.py:4543`), two slots then name one run, and memory
  and row may differ in the slots' status. `DurablePlacement` claims those only for
  fewer slots (`Distinct`).
* A run adopted after a stop that came in between makes the stopped stream running
  again, with a placement of its own.
* Without single placement, a start that empties the run ids leaves the old placement
  in `_broadcast_placements`, and its reconciliation reactivates the row. Such streams
  are not modelled.
* A restart issued after a stop is forgotten at boot (`controller.py:1196`), because
  `restart_pipeline` leaves the desired state of the stop.
* A crash inside `_start_stream` while the previous run is stopping lets boot adopt
  the stopping run; a stale snapshot can point a new slot at it as well.
* The compare-and-set of `update_slot_run_id` never succeeds for a slot whose
  current run id is NULL.
* A first dispatch whose answer is lost leaves a run no placement accounts for.
* `recover_unplaced_stream` forgets the ids it held, so two runs of a stream
  without placement may be live.
* Start and restart of a degraded stream do nothing; an update leaves it stopped.

*Executors and checkpoints*

* Where a unit can leave its input otherwise than through the acknowledgement gate,
  or a loss is not counted (`Gated`, `Counted` list the cases), a batch run removes
  input that is not delivered (`InputIsKept`, against `executor.py:1717`) or reports
  success (`SuccessIsHonest`, against `executor.py:1749`).
* A `TramError` of a serializer, a condition or `parse_chunks` is swallowed with no
  entry in the accounting (`executor.py:2272`, `:2471`), except under `abort` and under
  `retry` after a recorded loss, although `executor.py:1749` says "never clean success
  for failed records". These records are `silent` and `sink.swallowed`, which the
  properties of the two executors except.
* The partitions behind one whose write failed are neither written nor dead-lettered
  (`executor.py:2185`), while the unit counts only the one that failed; they are
  `silent` as well.
* The interval flusher swallows what a flush raises; a worker that outlives
  `join(30)` (`executor.py:3736`) leaves its record unsettled while the run reports
  success: the premise `~lost` of `SuccessIsComplete`.
* A failed sink commit under `continue` leaves a gap that stops the partition's
  checkpoint for the rest of the run; an SFTP file is finalized although a flush of
  its records was lost.
* A strict pipeline without stateful transforms sends revision 0 for ever and is
  fenced after its first unit: `EveryUnitIsAcked` holds only for stateful ones.
* A strict unit that is filtered, dead-lettered or dropped is acknowledged outside the
  gate: a crash loses what the transforms kept of it (`acked \ bare` in
  `AckedIsAbsorbed`). A unit whose pass decides nothing is not acknowledged, and the
  next run absorbs it again.
* With `auto_offset_reset=latest`, a consumer rebuilt before the first commit of a
  partition starts at the end of the log again and skips payloads it had yielded and
  nobody had decided (`skipped` in `CommittedIsDecided`).
* `already_committed` returns the revision of the duplicate, so the next unit of
  the run is refused; a retry after a failed attempt restores a stale snapshot; the
  end-of-run PUT saves units that are still pending; a failed GET is followed by a
  PUT that overwrites the state; an update deletes the row under a running run.
  `AckedIsAbsorbed` names the faults under which the code keeps its promise.

### Fairness

`FairSpec` of `BatchRuns` assumes weak fairness of each executor thread (the pool runs what was
submitted and HTTP calls have timeouts), of a worker's answer to a request, of
the end of a batch run, of the outbox sender (it retries for ever), of boot, and
of the reconciler inside an item. The reconciler loops for ever and every pass
visits every lease, every running pipeline and every queued row, but at any
instant it may be busy with another item: hence strong fairness of
`ReconTracked`, `ReconUntracked` and `ReconExpired`. Nothing is assumed of
operators, clients, timers or faults. The liveness run has no worker restarts,
because a stale adoption may then leak a guard.

`FairSpec` of `WorkerServer` assumes that a booted process comes up and a stopping
one ends, that the drain loop keeps going, that a row whose backoff is over is
fetched again (strong, as boots interrupt the loop) and that a post repeated for
ever is acknowledged once. Boots are bounded, so the last process stays up.

`StreamExecutor` assumes weak fairness of the reader (without the help of a
fault), of each worker thread and of a flush that holds the lock: they are
operating-system threads and sink writes have timeouts. The interval timer is not
assumed to fire. `Checkpoints` assumes that the scheduler fires again and that a
run goes on. `KafkaSource` assumes that the reader goes on, that every yielded
record is decided in the end (which `StreamExecutor` shows for its part) and that
the other members of the group commit what they own. `StreamPlacements` assumes
boot, the reconciler, the delivery of completions, the end of a run that was told
to stop and the recovery of a worker, and strong fairness of `Expire` and of
`GraceEnds`, each on its own: time passes, but a grace can only end between two passes
of the reconciler, and reports that keep expiring do not hold it up.

## Proofs

Every theorem holds for all values of the constants that satisfy the named
assumptions of the modules: `LedgerConstants` (`PipelineOf` is a function from runs
to pipelines, `MaxOrdinal` is positive, `None` is neither a run nor an attempt),
`NullOutcome` (`None` is not an outcome), `JournalConstants`,
`WorkerJournalConstants`, `WorkerConstants`, `StreamConstants` (keys are naturals,
the workers are finitely many and none is called like another thread),
`CheckpointConstants` and `KafkaConstants`. They say of what type the constants are, and TLC evaluates them
in the runs. Each inductive invariant was checked by TLC on the instances above
before it was proved.

| Module | Theorems | Property |
|---|---|---|
| `BatchRunsProofs` | `TypeCorrect`, `OwnershipCorrect`, `AuditCorrect`, `OneAttemptRuns`, `RunsExecuteOnce`, `AcknowledgedIsRecorded`, `SuccessesAreReported`, `SuccessesAreReal` | `TypeOK`, `LedgerOwnership`, `AuditIsImmutable`, `OneActiveBatchAttempt`, `ExecutedAtMostOnce`, `AckedIsRecorded`, `SuccessIsReported`, `SuccessIsReal` |
| `WorkerJournalProofs` (over `JournalLemmas`) | `RetiredTokensRefused`, `RevocationHolds`, `UnackedResultsAreKept` | `RetiredTokenRefused`, `RevokedNeverAdmitted`, `UnackedIsKept` |
| `WorkerServerProofs` (over `JournalLemmas`) | `ResultsAlwaysAgree`, `ActiveAttemptsHaveOwners`, `StopFindsEveryRun`, `NoSecondThread`, `WorkerImplementsAttemptLife` | `ResultsAgree`, `ActiveHasOwner`, `IndexFindsRun`, `StartedAtMostOnce`, `KeepsAttemptLife` |
| `StreamExecutorProofs` (over `StreamExecutorLemmas`) | `AcknowledgedIsSettled`, `CheckpointsAreSettled`, `SuccessesAreComplete` | `AckedIsSettled`, `CheckpointIsSettled`, `SuccessIsComplete` |
| `CheckpointsProofs` | `StrictAcksAreCommitted`, `AckedUnitsAreAbsorbed` | `StrictAckIsCommitted`, `AckedIsAbsorbed` |
| `KafkaSourceProofs` | `CommittedPayloadsAreDecided`, `CommitsNeverRegress` | `CommittedIsDecided`, `CommitNeverRegresses` |

### The ledger

The first three theorems of `BatchRunsProofs` hold under every combination of
faults. Their inductive invariant is `IInv`: `TypeOK`, `LedgerOwnership`, and two facts without which steps would
leave the types. `OutboxHoldsResults` says that a completion in the outbox has a
result in the journal, so that delivering it records a result; `ReconOK` says which
fields of the reconciler's position are set where, so that what it resumes with is
a pipeline, a run or an attempt.

The argument is split along the state. One lemma per ledger operator shows that
it maps a well-formed ledger with `GuardOwnership` to another one and keeps the
audit (`ClaimRun`, `MoveWithin`, `ResolveIntent`, `AbortIntents`,
`TerminalizeAttempt`, and compositions of them). `NextLedger` applies these to
each action; `NextRest` shows for each action that the rest of the state stays
well-typed and that history rows are kept. `NextInv` joins the two and the
theorems follow by temporal logic. The key point of `TerminalizeAttempt` is that
the guard release compares identities: retiring an attempt that no longer owns
the guard leaves the owner's guard alone.

### The ledger and the workers

The other five relate what the workers execute, report and have had acknowledged
to the ledger and the history. Four of them assume `Benign`:
no update or delete, no dispatch timeout, no failed probe. These are the faults
under which the code does not keep the properties (*Disagreements*); manager
crashes at every point, worker restarts, start, stop and restart, lost
acknowledgements and repeated deliveries are all included. `SuccessesAreReal`
needs no such assumption.

The inductive invariant is `IInv /\ OInv`:

* `World` — a request in the network has not been admitted; what was sent has an
  attempt row past 'claimed'; what is in the network or active holds its guard;
  what was sent, or given up as 'unknown', holds its guard or its intent is
  resolved; of a run, at most one attempt was sent and at most one is not terminal.
  This is the heart: a guard is released only by an attempt that will never be
  admitted, and a run whose intent is resolved is never claimed again.
* `Registry` — what a manager that is up, booting or down has in memory.
* `ThreadFits` — a run is queued only after its thread is done, so thread and drain
  never claim for the same run.
* `ResultFits` — a recorded run is `Frozen`: its intent is resolved, or it is
  neither in a thread nor in the queue; and a run recorded as failed (but not for
  an expired row) has no attempt that could still succeed.
* `Leases`, `Reconciler` — a tracked run was admitted and is recorded or not
  terminal, and what the reconciler carries from one locked section to the next is
  still true in the next: in particular the attempt whose journal it queries is the
  only one of the run that can be active. This makes the reap of a lost run safe.
* `AckedIsRecorded` itself.

Lemmas describe each transaction field by field (`Claims`, `Retires`, …); frame
lemmas show which conjuncts a change of the ledger, the wire or the journal can
disturb; then there is one lemma per action, with the crash points inside a handler
and boot (`BootInv`, `ResolveInv`) as actions of their own. `SuccessesAreReal` uses
its own, smaller step lemma `RealStep`: a step that turns an intent or a history
row into 'success' does so on the result of a completed attempt of that run.

### The journal and the worker

`JournalLemmas` shows for each transaction of `JournalTables` that it keeps
`JournalInv`: the types; an unacknowledged result has its outbox row and a row has a
result; an authorization row belongs to its own attempt and has a reservation.

`WorkerJournalProofs` adds what makes collection safe: a collected token lies below
the watermark of its epoch and has no row, and the watermark of an epoch never
falls (`RetiredIsBelow`); a revoked attempt has its tombstone or a reservation
(`RevokedIsBlocked`), because only attempts with an authorization row lose the
tombstone. The clock is arbitrary throughout.

`WorkerServerProofs` needs the relation between four places that name an attempt:
the journal, the requests, the threads and `WorkerState`. At most one request or
thread holds an authorized attempt (`OneHolder`); a request past the admission
holds a reservation that nobody has started (`RequestsFit`); a thread's
reservation stands (`ThreadsFit`); rows in a drain pass have results and a row
about to be acknowledged was received (`SendersFit`); what the manager received is
what the journal holds (`ReceivedFits`); the run index leads to a key of the run as
long as there is one (`IndexFits`). The refinement maps each step to a step of
`AttemptLife` or a stutter: `RunAdmit` to `Accept`, `CommitCompletion` to `Report`,
`AckRow` to `Acknowledge`, `Boot` to `Restart`.

### The stream executor

The theorems hold for any number of worker threads, partitions or files, records
and faults, with and without a circuit breaker. The inductive invariant `Inv` (in `StreamExecutorLemmas`) joins:

* `Shape` — the types; `Control` — which thread holds the flush lock, and what the
  reader has waited for where: once it settles a poll batch or a file, the queue is
  empty and every worker idle, and at a file's end nothing is buffered or in a flush.
* `Fresh` — what the source still yields was never seen in this ownership epoch, so
  a record read again after a rebalance has a unit of its own.
* `BrokerUnits`, `Losses` — the counts of a unit tell what happened to its record:
  delivered is written, a dead letter is in the DLQ (or spared: routed away, or of a
  swallowed flush, `Spared`), and a unit no flush still holds is excused by some
  count. This is why a decision from the counts is right although
  reader, workers and flusher update them in any order.
* `WholeFiles`, `Files`, `ChunkedFiles` — the same for files: a file read at once is
  charged only after its record left, and of a file read in chunks every chunk is
  still to be read, queued, being processed, buffered or handled (`Somewhere`).
* `Coverage` — every offset before a unit, and every offset up to the position, is
  accounted for (`Accounted`: settled or swallowed), has a unit, or lies behind a gap
  of its partition.
* `Located`, `Outstanding` — no unit is forgotten while nothing went wrong, and what
  was taken is acknowledged, has a unit, or marks the run as pending.
* `AcksSettled`, `CheckpointAccounted`, `SuccessAccounted` — the three properties. A
  checkpoint stops before held records and gaps, so it keeps what `Coverage` says; a
  run succeeds with no unit left and nothing pending, so `Outstanding` says that all
  it took is acknowledged.

Steps that move control only share the lemmas about `Steady` (they change no data);
the others are first reduced to what they change (`ChunkStep`, `FlushStep`,
`DecisionStep`, `FileStep`), whichever thread takes them, and then shown to keep
each group of conjuncts.

### Checkpoints

`StrictFits` says that a unit acknowledged through the gate (`acked \ bare`) has its
checkpoint row; it is inductive with the types. `AckedIsAbsorbed` needs two further
invariants, one for each set of faults it names. `Covered` (crashes, lost answers,
failed acknowledgements, failed PUTs, undecided passes): the row, and the memory of
the run, hold every unit that has a checkpoint row. `Exact` (crashes only): but for
the units acknowledged outside the gate, the state holds exactly the committed units,
once; units are committed in order, so at most one is
committed and not acknowledged, its revision is the current one, and the run knows
it, which is why the replay restores that state instead of absorbing the unit again.

### Kafka source

A payload counts as past when it is decided or a reset to the end has skipped it
(`Past`), and only `auto_offset_reset=latest` skips. The invariant `Sound` of a live
consumer says, with decided in this sense: what is pending or remembered out of
order is decided (`Decides`); up to the position every payload is decided or
observed, and what is observed lies between the frontier and the position
(`Covers`); a record with its partition's present epoch was read under the present
assignment (`Fences`), which makes late acks harmless; and no pending commit of an
owned partition lies behind the committed offset (`Owns`). Between the drain of the
pending set and the answer of the broker, `Takes` and `Continues` say the same of
the offsets in flight and of the polled batch. The frontier lemmas about `Advance`
rest on the least element of a set of offsets, obtained from the well-foundedness
of the naturals.

### Only model-checked

* The liveness properties (`GuardIsFreed`, `RunningEnds`, `ResultIsAcknowledged`,
  `StopEnds`, `EveryRecordIsAcked`, `StatefulUnitsAreAcked`, `LogIsCommitted`,
  `Heals`): the prover has neither fairness nor `ENABLED`.
* `RemovedIsAccounted`, `SuccessIsDelivered`, `EveryUnitIsFinalized` of
  `BatchExecutor`. The pool is a sequence of jobs over flattened sequences of
  chunks, and the argument counts the chunks of a unit that are left: induction over
  data, which is out of the prover's reach.
* `DurablePlacement`, `SlotRunsOnce`, `BootSeesLive` of `StreamPlacements`: not
  proved. They reason about prefixes of run ids, that is, sequences, and are not
  inductive as they stand: a statistics report that matches one slot by its id and
  another by its prefix changes the placement in memory and not its row
  (`on_pipeline_stats` returns early on `lost_race`). The configuration with slots 1
  and 10 reaches such states; that slots with distinct numbers never do needs the
  history of every run id.

## Abstractions

* Pipelines of `BatchRuns` are enabled and scheduled by interval or cron;
  standalone mode is not modelled.
* A fire that finds its pipeline running or queued changes nothing and is left out.
* Worker choice and health are free in `BatchRuns`: any request may be refused,
  lost or accepted. `StreamPlacements` has the health poll and the number of slots,
  but no load scores.
* A TTL, a grace period, an interval and a statistics report may be over at any time.
* History keeps success and failed; aborted runs have no history row.
* The FAILED row `mark_active_batch_run_lost` writes under a fresh id, when no run
  is known, is only visible in the status.
* The database transaction is atomic and durable; a statement that selects no row
  changes nothing.
* The row insert and the intent insert of `_enqueue_manual_run` are one step, and a
  boot resolution is one step.
* In the worker, a result is its status, the identity (run, generation, slot) of an
  attempt is one value, and a token is one the manager minted: signatures, secrets
  and the maximal TTL are left out. The outbox holds at most one row per attempt.
* The size quota of the journal, its health report and the quarantine of a corrupt
  file are not modelled; a completion whose transaction fails is (`MaxFailures`).
* In the executors a record batch is as many values as it has partitions in a sink's
  file template; what a transform or serializer computes is left out, that it may fail
  is not. Every chunk of a stream yields one record, and a flush is one write of one
  sink. The reader may notice a stop or an error while it waits for room in the
  work queue; the code notices it with the next item.
* Kafka offsets start at one, so that the code's -1 is 0; a deque or a poll's list
  of offsets, which is ascending, is the set of its members.
* The Kafka source is managed by the executor: `enable_auto_commit` is off.
* A transform's state counts absorptions, capped at two. A checkpoint unit is one-shot
  (`frontier_seq` is 1), and every write of a gate carries the whole state.

## Not modelled

Of the modelled parts: `parallel_sinks`, rate limits, dry runs, the Protobuf
passthrough, the records of a manual flush run and the drain deadline of the
executors; slots pinned with `workers.list` and several slots under
`TRAM_STREAM_SINGLE_PLACEMENT=0`; checkpoint units with a moving frontier;
`enable_auto_commit`.

File sinks (rotation and publication), file tracking, the management executor, the
ingress bridge, the alert evaluator, the pipeline watcher, lifecycle operations and
audit retention, load scores and the session handshake of the worker pool: they
hold state and are candidates for further modules. Other connectors, serializers,
stateless transforms, configuration, the REST API, the CLI, Kubernetes and MIB
tooling convert or forward data and hold no state the models could tell apart.
