----------------------------- MODULE BatchRuns -----------------------------
(***************************************************************************)
(* The life of batch runs in manager+worker mode: the PipelineController's *)
(* handlers (tram/pipeline/controller.py), the BatchReconciler thread      *)
(* (tram/agent/reconciler.py), the queued_runs table                       *)
(* (tram/persistence/db.py) and, reduced to what the manager can observe,  *)
(* the workers.                                                            *)
(*                                                                         *)
(* Grain.  A handler body under the lifecycle RLock is one step.  A dispatch *)
(* POST, a status probe and a journal query run with the lock released, so *)
(* a thread's work before and after one is a step of its own; so is a      *)
(* ledger transaction the dispatch thread runs without the lock.  The      *)
(* manager may crash between steps, and inside the multi-transaction steps *)
(* named Crash*.                                                           *)
(*                                                                         *)
(* Data.  Pipelines are enabled and scheduled by interval or cron.  A      *)
(* worker is reduced to its journal record per attempt; worker health and  *)
(* TTL expiry are free choices.  The history keeps success/failed only.    *)
(***************************************************************************)
EXTENDS ExecutionLedger

CONSTANTS QueueMaxCount,     \* TRAM_QUEUE_MAX_COUNT
          OperatorOps,       \* the operator commands that are issued
          Crashes,           \* the manager may crash and reboot
          DispatchTimeouts,  \* a POST may fail after the worker received it
          ProbeFailures,     \* a status probe or journal query may fail
          WorkerRestarts     \* a worker may restart while it executes a run

VARIABLES
    (* durable: the manager's database *)
    ledger,       \* execution_guards, execution_attempts, run_intents
    queued,       \* queued_runs: status of run r's row
    history,      \* run_history: recorded status of run r
    registered,   \* registered_pipelines rows that are not deleted
    stopFlag,     \* registered_pipelines.stopped
    (* volatile: the manager process *)
    manager,      \* "up", "adopting" (in _boot_load) or "down"
    todo,         \* attempts boot adoption has still to resolve
    status,       \* PipelineState.status, "absent" when not registered
    job,          \* pipelines with an APScheduler job
    lease,        \* _active_batch_runs: the run tracked for p, or None
    dispatching,  \* _batch_dispatching: the thread (by its run), or None
    thread,       \* the _run_batch thread of run r
    recon,        \* where the BatchReconciler thread is
    (* the workers and the network *)
    wire,         \* attempts whose POST /agent/run is in the network
    journal,      \* the worker journal's record of attempt a
    outbox,       \* completions not acknowledged by the manager
    (* the clients *)
    accepted      \* run ids returned to a client by trigger_run

durable == <<ledger, queued, history, registered, stopFlag>>
memory  == <<manager, todo, status, job, lease, dispatching, thread, recon>>
world   == <<wire, journal, outbox>>
vars    == <<durable, memory, world, accepted>>

QueueStates   == {"absent", "queued", "dispatching", "dispatched", "expired",
                  "cancelled"}
HistoryStates == {"absent", "success", "failed"}
Statuses      == {"absent", "stopped", "scheduled", "running", "queued", "error"}
JournalStates == {"absent", "active", "success", "failed", "interrupted"}
ThreadStates  == {"new", "submitted", "sent", "enqueue", "finalize", "done"}

ThreadType == [pc : ThreadStates, origin : {"scheduled", "manual"},
               config : {"current", "replaced"}]

NewThread == [pc |-> "new", origin |-> "scheduled", config |-> "current"]
Idle      == [at |-> "idle", pipeline |-> None, run |-> None, lease |-> None,
              attempt |-> None]

Init ==
    /\ ledger      = EmptyLedger
    /\ queued      = [r \in Runs |-> "absent"]
    /\ history     = [r \in Runs |-> "absent"]
    /\ registered  = {}
    /\ stopFlag    = {}
    /\ manager     = "up"
    /\ todo        = {}
    /\ status      = [p \in Pipelines |-> "absent"]
    /\ job         = {}
    /\ lease       = [p \in Pipelines |-> None]
    /\ dispatching = [p \in Pipelines |-> None]
    /\ thread      = [r \in Runs |-> NewThread]
    /\ recon       = Idle
    /\ wire        = {}
    /\ journal     = [a \in AttemptIds |-> "absent"]
    /\ outbox      = {}
    /\ accepted    = {}

-----------------------------------------------------------------------------
(* Helpers shared by the handlers.                                         *)

exists(p) == status[p] # "absent"
RunsOf(p) == {r \in Runs : PipelineOf[r] = p}

ActiveRows(p) == {r \in RunsOf(p) : queued[r] \in {"queued", "dispatching"}}

\* db.save_run: the first row for a run id wins.
save_run(h, r, result) == [h EXCEPT ![r] = IF @ = "absent" THEN result ELSE @]

\* Memory after a job is (re-)added: _do_schedule of an interval/cron pipeline.
Schedule(p) ==
    /\ job' = job \cup {p}
    /\ status' = [status EXCEPT ![p] = "scheduled"]

\* _on_run_complete: the status (and job) after a finished run.
on_run_complete(p, result) ==
    IF status[p] = "stopped" THEN UNCHANGED <<status, job>>
    ELSE IF result # "success"
         THEN status' = [status EXCEPT ![p] = "error"] /\ UNCHANGED job
    ELSE IF p \in job \/ p \notin stopFlag THEN Schedule(p)
    ELSE status' = [status EXCEPT ![p] = "stopped"] /\ UNCHANGED job

\* _finalize_batch_result: a deleted pipeline is not resurrected.
finalize_batch_result(p, r, result) ==
    IF exists(p)
    THEN history' = save_run(history, r, result) /\ on_run_complete(p, result)
    ELSE UNCHANGED <<history, status, job>>

\* First statement of _terminal_cancel_pipeline_queued.
cancel_pipeline_queued(p) ==
    [r \in Runs |-> IF r \in ActiveRows(p) THEN "cancelled" ELSE queued[r]]

\* _terminal_cancel_queued_run.
cancel_queued_run(r) ==
    [queued EXCEPT ![r] = IF @ \in {"queued", "dispatching"} THEN "cancelled" ELSE @]

\* The config object of p is replaced: dispatching threads hold the old one.
StaleThreads(p) ==
    [r \in Runs |-> IF PipelineOf[r] = p /\ thread[r].pc = "sent"
                    THEN [thread[r] EXCEPT !.config = "replaced"] ELSE thread[r]]

\* A thread leaves _run_batch: its finally clause drops its own dispatch mark.
ThreadDone(r) ==
    /\ thread' = [thread EXCEPT ![r] = [NewThread EXCEPT !.pc = "done"]]
    /\ dispatching' = [p \in Pipelines |->
                         IF dispatching[p] = r THEN None ELSE dispatching[p]]

-----------------------------------------------------------------------------
(* Operator commands.                                                      *)

register(p) ==
    /\ manager = "up" /\ ~exists(p)
    /\ registered' = registered \cup {p}
    /\ Schedule(p)
    /\ UNCHANGED <<ledger, queued, history, stopFlag, manager, todo, lease,
                   dispatching, thread, recon, world, accepted>>

update(p) ==
    /\ "update" \in OperatorOps
    /\ manager = "up" /\ exists(p)
    /\ IF status[p] \in {"scheduled", "running"} /\ p \notin stopFlag
       THEN Schedule(p)
       ELSE /\ job' = job \ {p}
            /\ status' = [status EXCEPT ![p] = "stopped"]
    /\ thread' = StaleThreads(p)
    /\ queued' = cancel_pipeline_queued(p)
    /\ ledger' = abort_unowned_intents(ledger, p)
    /\ UNCHANGED <<history, registered, stopFlag, manager, todo, lease,
                   dispatching, recon, world, accepted>>

delete(p) ==
    /\ "delete" \in OperatorOps
    /\ manager = "up" /\ exists(p)
    /\ registered' = registered \ {p}
    /\ job' = job \ {p}
    /\ status' = [status EXCEPT ![p] = "absent"]
    /\ lease' = [lease EXCEPT ![p] = None]
    /\ thread' = StaleThreads(p)
    /\ queued' = cancel_pipeline_queued(p)
    /\ ledger' = prune_run_intents(abort_unowned_intents(ledger, p), p)
    /\ UNCHANGED <<history, stopFlag, manager, todo, dispatching, recon, world,
                   accepted>>

start_pipeline(p) ==
    /\ "start" \in OperatorOps
    /\ manager = "up" /\ exists(p)
    /\ status[p] \notin {"running", "scheduled"}
    /\ stopFlag' = stopFlag \ {p}
    /\ Schedule(p)
    /\ UNCHANGED <<ledger, queued, history, registered, manager, todo, lease,
                   dispatching, thread, recon, world, accepted>>

stop_pipeline(p) ==
    /\ "stop" \in OperatorOps
    /\ manager = "up" /\ exists(p)
    /\ job' = job \ {p}
    /\ status' = [status EXCEPT ![p] = "stopped"]
    /\ stopFlag' = stopFlag \cup {p}
    /\ queued' = cancel_pipeline_queued(p)
    /\ ledger' = abort_unowned_intents(ledger, p)
    /\ UNCHANGED <<history, registered, manager, todo, lease, dispatching,
                   thread, recon, world, accepted>>

restart_pipeline(p) ==
    /\ "restart" \in OperatorOps
    /\ manager = "up" /\ exists(p)
    /\ stopFlag' = stopFlag \ {p}
    /\ queued' = cancel_pipeline_queued(p)
    /\ ledger' = abort_unowned_intents(ledger, p)
    /\ Schedule(p)
    /\ UNCHANGED <<history, registered, manager, todo, lease, dispatching,
                   thread, recon, world, accepted>>

-----------------------------------------------------------------------------
(* trigger_run and the queue.                                              *)

\* _enqueue_manual_run: refused on an active row of the pipeline, and over the
\* admission ceiling, which counts the rows still 'queued'.
QueueFull == Cardinality({r \in Runs : queued[r] = "queued"}) >= QueueMaxCount

enqueue_manual_run(p, r) ==
    /\ queued' = [queued EXCEPT ![r] = "queued"]
    /\ ledger' = ensure_run_intent(ledger, r)
    /\ status' = IF exists(p) THEN [status EXCEPT ![p] = "queued"] ELSE status

\* A queued or dispatching row exists: the client gets that row's run id.
TriggerExisting(p) ==
    /\ manager = "up" /\ exists(p) /\ status[p] # "running"
    /\ ActiveRows(p) # {}
    /\ status' = [status EXCEPT ![p] = "queued"]
    /\ UNCHANGED <<durable, manager, todo, job, lease, dispatching, thread,
                   recon, world, accepted>>

\* No healthy worker: the run is queued durably.
TriggerQueued(p, r) ==
    /\ manager = "up" /\ exists(p) /\ status[p] # "running"
    /\ PipelineOf[r] = p /\ thread[r].pc = "new"
    /\ ActiveRows(p) = {} /\ ~QueueFull
    /\ enqueue_manual_run(p, r)
    /\ thread' = [thread EXCEPT ![r].pc = "done"]
    /\ accepted' = accepted \cup {r}
    /\ UNCHANGED <<history, registered, stopFlag, manager, todo, job, lease,
                   dispatching, recon, world>>

\* A healthy worker: the run is submitted to the management executor.
TriggerSubmitted(p, r) ==
    /\ manager = "up" /\ exists(p) /\ status[p] # "running"
    /\ PipelineOf[r] = p /\ thread[r].pc = "new"
    /\ ActiveRows(p) = {}
    /\ thread' = [thread EXCEPT ![r] = [pc |-> "submitted", origin |-> "manual",
                                        config |-> "current"]]
    /\ accepted' = accepted \cup {r}
    /\ UNCHANGED <<durable, manager, todo, status, job, lease, dispatching,
                   recon, world>>

-----------------------------------------------------------------------------
(* _execute_batch: the claim phase, then the dispatch with the lock        *)
(* released, then what its outcome leads to.                               *)

\* _claim_for_dispatch up to and including the claim_run transaction.
Claim(L, p, a) == claim_run(ensure_run_intent(L, RunOf(a)), p, a)
CanClaim(L, p, a) ==
    ClaimStatus(ensure_run_intent(L, RunOf(a)), p, a) = "claimed"

\* The claim phase of a thread whose pipeline exists and is neither running
\* nor queued.  A refused claim leaves the status 'running'.
ClaimPhase(p, r, origin) ==
    LET a == mint_attempt_id(r, 1)
    IN  /\ status' = [status EXCEPT ![p] = "running"]
        /\ \/ /\ CanClaim(ledger, p, a)
              /\ ledger' = mark_attempt_dispatching(Claim(ledger, p, a), a)
              /\ thread' = [thread EXCEPT ![r] = [pc |-> "sent", origin |-> origin,
                                                  config |-> "current"]]
              /\ dispatching' = [dispatching EXCEPT ![p] = r]
              /\ wire' = wire \cup {a}
              /\ UNCHANGED history
           \/ /\ ~CanClaim(ledger, p, a)
              /\ ledger' = Claim(ledger, p, a)
              /\ history' = IF origin = "manual"
                            THEN save_run(history, r, "failed") ELSE history
              /\ ThreadDone(r)
              /\ UNCHANGED wire

\* An APScheduler fire (max_instances = 1: not while an earlier one runs).
\* A fire that finds the pipeline running or queued is skipped silently.
Fire(p, r) ==
    /\ manager = "up" /\ p \in job
    /\ PipelineOf[r] = p /\ thread[r].pc = "new"
    /\ \A s \in RunsOf(p) : thread[s].origin = "scheduled" =>
                              thread[s].pc \in {"new", "done"}
    /\ status[p] \notin {"running", "queued"}
    /\ ClaimPhase(p, r, "scheduled")
    /\ UNCHANGED <<queued, registered, stopFlag, manager, todo, job, lease,
                   recon, journal, outbox, accepted>>

\* The executor runs a submitted manual run.
StartManual(r) ==
    LET p == PipelineOf[r] IN
    /\ manager = "up" /\ thread[r].pc = "submitted"
    /\ \/ /\ ~exists(p)
          /\ job' = job \ {p}
          /\ ThreadDone(r)
          /\ UNCHANGED <<ledger, history, status, wire>>
       \/ /\ status[p] \in {"running", "queued"}
          /\ history' = save_run(history, r, "failed")
          /\ ThreadDone(r)
          /\ UNCHANGED <<ledger, job, status, wire>>
       \/ /\ exists(p) /\ status[p] \notin {"running", "queued"}
          /\ ClaimPhase(p, r, "manual")
          /\ UNCHANGED job
    /\ UNCHANGED <<queued, registered, stopFlag, manager, todo, lease, recon,
                   journal, outbox, accepted>>

\* dispatch_with_result did not get an acceptance: either the POST was refused
\* or never sent, or it failed in transport with the worker having it.
NotAccepted(a) ==
    \/ a \in wire /\ wire' = wire \ {a}
    \/ a \notin wire /\ journal[a] = "absent" /\ UNCHANGED wire
    \/ DispatchTimeouts /\ UNCHANGED wire

\* DISPATCH_NO_CAPACITY of a manual run: the attempt is retired, the intent
\* stays open and the thread goes on to the fallback enqueue.
NoCapacityManual(r) ==
    LET a == mint_attempt_id(r, 1) IN
    /\ thread[r].pc = "sent" /\ thread[r].origin = "manual"
    /\ a \in wire /\ wire' = wire \ {a}
    /\ ledger' = terminalize_attempt(ledger, a, None)
    /\ thread' = [thread EXCEPT ![r].pc = "enqueue"]
    /\ UNCHANGED <<queued, history, registered, stopFlag, manager, todo, status,
                   job, lease, dispatching, recon, journal, outbox, accepted>>

FallbackEnqueue(r) ==
    LET p == PipelineOf[r] IN
    /\ thread[r].pc = "enqueue"
    /\ IF ActiveRows(p) # {}
       THEN /\ status' = IF exists(p) THEN [status EXCEPT ![p] = "queued"]
                         ELSE status
            /\ UNCHANGED <<queued, ledger, history>>
       ELSE IF QueueFull
       THEN /\ history' = IF exists(p) THEN save_run(history, r, "failed")
                          ELSE history
            /\ UNCHANGED <<queued, ledger, status>>
       ELSE enqueue_manual_run(p, r) /\ UNCHANGED history
    /\ ThreadDone(r)
    /\ UNCHANGED <<registered, stopFlag, manager, todo, job, lease, recon,
                   world, accepted>>

\* Mutant: a failed dispatch does not retire its attempt.
DispatchFailedOnly(r) ==
    /\ thread[r].pc = "sent"
    /\ NotAccepted(mint_attempt_id(r, 1))
    /\ thread' = [thread EXCEPT ![r].pc = "finalize"]
    /\ UNCHANGED <<durable, manager, todo, status, job, lease, dispatching,
                   recon, journal, outbox, accepted>>

\* DISPATCH_FAILED, and DISPATCH_NO_CAPACITY of a scheduled run: the attempt
\* and the intent are resolved 'failed' before the lock is taken again.
DispatchFailed(r) ==
    LET a == mint_attempt_id(r, 1) IN
    /\ thread[r].pc = "sent"
    /\ NotAccepted(a)
    /\ ledger' = terminalize_attempt(ledger, a, "failed")
    /\ thread' = [thread EXCEPT ![r].pc = "finalize"]
    /\ UNCHANGED <<queued, history, registered, stopFlag, manager, todo, status,
                   job, lease, dispatching, recon, journal, outbox, accepted>>

FinalizeFailed(r) ==
    /\ thread[r].pc = "finalize"
    /\ finalize_batch_result(PipelineOf[r], r, "failed")
    /\ ThreadDone(r)
    /\ UNCHANGED <<ledger, queued, registered, stopFlag, manager, todo, lease,
                   recon, world, accepted>>

\* DISPATCH_ACCEPTED: the compare-and-set under the lock.
DispatchAccepted(r) ==
    LET a == mint_attempt_id(r, 1)
        p == PipelineOf[r]
    IN
    /\ thread[r].pc = "sent" /\ journal[a] # "absent"
    /\ \/ /\ ~exists(p)
          /\ ledger' = terminalize_attempt(ledger, a, "aborted")
          /\ UNCHANGED lease
       \/ /\ exists(p) /\ thread[r].config = "replaced"
          /\ ledger' = terminalize_attempt(ledger, a, None)
          /\ UNCHANGED lease
       \/ /\ exists(p) /\ thread[r].config = "current" /\ history[r] # "absent"
          /\ UNCHANGED <<ledger, lease>>
       \/ /\ exists(p) /\ thread[r].config = "current" /\ history[r] = "absent"
          /\ ledger' = mark_attempt_running(ledger, a)
          /\ lease' = [lease EXCEPT ![p] = r]
    /\ ThreadDone(r)
    /\ UNCHANGED <<queued, history, registered, stopFlag, manager, todo, status,
                   job, recon, world, accepted>>

-----------------------------------------------------------------------------
(* Completion callbacks.                                                   *)

\* _pop_batch_lease_for_run: by run identity, never by pipeline name.
pop_batch_lease(p, r) == [lease EXCEPT ![p] = IF @ = r THEN None ELSE @]

\* Mutant: the result is recorded for the run the pipeline's lease names.
on_pipeline_run_complete(a, result) ==
    LET p == OwnerOf(a)
        r == IF lease[p] = None THEN RunOf(a) ELSE lease[p]
    IN  /\ lease' = [lease EXCEPT ![p] = None]
        /\ ledger' = terminalize_attempt(ledger, a, result)
        /\ finalize_batch_result(p, r, result)

\* Mutant: a completion of an attempt that is terminal already is a duplicate.
on_new_run_complete(a, result) ==
    IF ledger.attempt[a] = "terminal"
    THEN UNCHANGED <<ledger, history, status, job, lease>>
    ELSE /\ lease' = pop_batch_lease(OwnerOf(a), RunOf(a))
         /\ ledger' = terminalize_attempt(ledger, a, result)
         /\ finalize_batch_result(OwnerOf(a), RunOf(a), result)

\* on_worker_run_complete, by run id: retires whatever attempt of the run is
\* still not terminal in ledger L.
on_worker_run_complete(L, r, result) ==
    LET p == PipelineOf[r]
        b == active_attempt_for_run(L, r)
    IN  /\ lease' = pop_batch_lease(p, r)
        /\ IF history[r] # "absent"
           THEN ledger' = L /\ UNCHANGED <<history, status, job>>
           ELSE /\ ledger' = IF b = None THEN L ELSE terminalize_attempt(L, b, result)
                /\ finalize_batch_result(p, r, result)

\* on_attempt_run_complete: the exact attempt first, then the legacy body.
on_attempt_run_complete(a, result) ==
    on_worker_run_complete(terminalize_attempt(ledger, a, result), RunOf(a), result)

\* The worker's outbox posts the completion; the acknowledgement may be lost,
\* in which case the same completion is posted again.
DeliverCompletion(a) ==
    /\ manager = "up" /\ a \in outbox
    /\ on_attempt_run_complete(a, journal[a])
    /\ outbox' \in {outbox, outbox \ {a}}
    /\ UNCHANGED <<queued, registered, stopFlag, manager, todo, dispatching,
                   thread, recon, wire, journal, accepted>>

-----------------------------------------------------------------------------
(* BatchReconciler.run_once: tracked leases, untracked 'running' pipelines, *)
(* then the queue.  One thread; each pass starts afresh.                   *)

ActiveOn(r) == {a \in AttemptIds : RunOf(a) = r /\ journal[a] = "active"}

\* is_run_active said no (or the probe failed) for a tracked lease.
ReconTracked(p) ==
    /\ manager = "up" /\ recon = Idle /\ lease[p] # None
    /\ ActiveOn(lease[p]) = {} \/ ProbeFailures
    /\ recon' = [Idle EXCEPT !.at = "lost", !.pipeline = p, !.run = lease[p]]
    /\ UNCHANGED <<durable, manager, todo, status, job, lease, dispatching,
                   thread, world, accepted>>

\* A pipeline 'running' without a lease: adopt a live worker run, or clear it.
ReconUntracked(p) ==
    /\ manager = "up" /\ recon = Idle
    /\ lease[p] = None /\ status[p] = "running"
    /\ \/ \E r \in RunsOf(p) :
             /\ ActiveOn(r) # {}
             /\ recon' = [Idle EXCEPT !.at = "adopt", !.pipeline = p, !.run = r]
       \/ /\ (\A r \in RunsOf(p) : ActiveOn(r) = {}) \/ ProbeFailures
          /\ recon' = [Idle EXCEPT !.at = "lost", !.pipeline = p]
    /\ UNCHANGED <<durable, manager, todo, status, job, lease, dispatching,
                   thread, world, accepted>>

adopt_active_batch_run ==
    LET p == recon.pipeline IN
    /\ manager = "up" /\ recon.at = "adopt"
    /\ IF exists(p)
       THEN /\ lease' = [lease EXCEPT ![p] = recon.run]
            /\ status' = [status EXCEPT ![p] = "running"]
       ELSE UNCHANGED <<lease, status>>
    /\ recon' = Idle
    /\ UNCHANGED <<durable, manager, todo, job, dispatching, thread, world,
                   accepted>>

\* Mutant: only a pipeline with a lease can be cleared.
MarkLostReadLeased ==
    LET p == recon.pipeline IN
    /\ manager = "up" /\ recon.at = "lost"
    /\ recon' = IF dispatching[p] # None \/ lease[p] = None \/ lease[p] # recon.run
                THEN Idle
                ELSE [recon EXCEPT !.at = "query", !.lease = lease[p],
                        !.attempt = active_attempt_for_run(ledger, lease[p])]
    /\ UNCHANGED <<durable, manager, todo, status, job, lease, dispatching,
                   thread, world, accepted>>

\* mark_active_batch_run_lost up to the unlocked journal query.
MarkLostRead ==
    LET p == recon.pipeline IN
    /\ manager = "up" /\ recon.at = "lost"
    /\ recon' = IF \/ dispatching[p] # None
                   \/ recon.run # None /\ lease[p] # recon.run
                THEN Idle
                ELSE [recon EXCEPT !.at = "query", !.lease = lease[p],
                        !.attempt = IF lease[p] = None THEN None
                                    ELSE active_attempt_for_run(ledger, lease[p])]
    /\ UNCHANGED <<durable, manager, todo, status, job, lease, dispatching,
                   thread, world, accepted>>

\* ... the query finds the run active, or completed: the recovered completion
\* goes through the callback, provided the lease is still the one read.
MarkLostEvidence ==
    LET p == recon.pipeline
        a == recon.attempt
    IN
    /\ manager = "up" /\ recon.at = "query" /\ a # None
    /\ \/ journal[a] = "active" /\ UNCHANGED <<ledger, history, status, job, lease>>
       \/ /\ journal[a] \in {"success", "failed"}
          /\ IF lease[p] = recon.lease
             THEN on_attempt_run_complete(a, journal[a])
             ELSE UNCHANGED <<ledger, history, status, job, lease>>
    /\ recon' = Idle
    /\ UNCHANGED <<queued, registered, stopFlag, manager, todo, dispatching,
                   thread, world, accepted>>

\* Mutant: the reap does not look at the journal.
NotQueried(a) == TRUE

NoJournalEvidence(a) == a # None => journal[a] \in {"absent", "interrupted"}

\* ... the query finds no record, an interrupted one, or nothing at all: the
\* run is lost, unless a dispatch or a callback came in between.
MarkLostCommit ==
    LET p == recon.pipeline
        a == recon.attempt
        r == IF recon.run # None THEN recon.run ELSE recon.lease
        b == active_attempt_for_run(ledger, r)
        skip == \/ dispatching[p] # None
                \/ lease[p] # recon.lease
                \/ recon.lease = None /\ status[p] # "running"
    IN
    /\ manager = "up" /\ recon.at = "query"
    /\ ProbeFailures \/ NoJournalEvidence(a)
    /\ IF skip THEN UNCHANGED <<ledger, history, status, job, lease>>
       ELSE /\ lease' = [lease EXCEPT ![p] = None]
            /\ IF ~exists(p) THEN UNCHANGED <<ledger, history, status, job>>
               ELSE IF r = None   \* the FAILED row of a fresh run id
               THEN on_run_complete(p, "failed") /\ UNCHANGED <<ledger, history>>
               ELSE /\ ledger' = IF b = None THEN ledger
                                 ELSE terminalize_attempt(ledger, b, "failed")
                    /\ IF history[r] # "absent"
                       THEN UNCHANGED <<history, status, job>>
                       ELSE finalize_batch_result(p, r, "failed")
    /\ recon' = Idle
    /\ UNCHANGED <<queued, registered, stopFlag, manager, todo, dispatching,
                   thread, world, accepted>>

-----------------------------------------------------------------------------
(* _drain_queued_runs.                                                     *)

\* drainable_queued_runs and the re-checks of claim_queued_run.
Drainable(r) ==
    LET p == PipelineOf[r]
    IN  queued[r] = "queued" /\ exists(p) /\ lease[p] = None /\ status[p] # "running"

\* A listed row is past its TTL; expire_queued_run follows in its own lock.
ReconExpired(r) ==
    /\ manager = "up" /\ recon = Idle /\ Drainable(r)
    /\ recon' = [Idle EXCEPT !.at = "expire", !.run = r]
    /\ UNCHANGED <<durable, manager, todo, status, job, lease, dispatching,
                   thread, world, accepted>>

expire_queued_run ==
    LET r == recon.run IN
    /\ manager = "up" /\ recon.at = "expire"
    /\ IF queued[r] = "queued"
       THEN /\ queued' = [queued EXCEPT ![r] = "expired"]
            /\ ledger' = resolve_intent(ledger, r, "expired")
            /\ finalize_batch_result(PipelineOf[r], r, "failed")
       ELSE UNCHANGED <<queued, ledger, history, status, job>>
    /\ recon' = Idle
    /\ UNCHANGED <<registered, stopFlag, manager, todo, lease, dispatching,
                   thread, world, accepted>>

\* The attempt the next claim of run r mints; bound: MaxOrdinal attempts.
NextAttempt(r) == mint_attempt_id(r, next_attempt_ordinal(ledger, r))
WithinOrdinals(r) == next_attempt_ordinal(ledger, r) <= MaxOrdinal

\* A refused ledger claim puts the row back: nothing has changed.
claim_queued_run(r) ==
    LET p == PipelineOf[r]
        a == NextAttempt(r)
    IN
    /\ manager = "up" /\ recon = Idle /\ Drainable(r) /\ WithinOrdinals(r)
    /\ CanClaim(ledger, p, a)
    /\ queued' = [queued EXCEPT ![r] = "dispatching"]
    /\ ledger' = mark_attempt_dispatching(Claim(ledger, p, a), a)
    /\ recon' = [Idle EXCEPT !.at = "drain", !.run = r, !.attempt = a]
    /\ wire' = wire \cup {a}
    /\ UNCHANGED <<history, registered, stopFlag, manager, todo, status, job,
                   lease, dispatching, thread, journal, outbox, accepted>>

\* The worker accepted.  A row cancelled meanwhile discards the result.
commit_queued_dispatch ==
    LET r == recon.run
        p == PipelineOf[r]
        b == active_attempt_for_run(ledger, r)
    IN
    /\ manager = "up" /\ recon.at = "drain" /\ journal[recon.attempt] # "absent"
    /\ IF queued[r] = "dispatching" /\ exists(p)
       THEN /\ queued' = [queued EXCEPT ![r] = "dispatched"]
            /\ ledger' = IF b = None THEN ledger ELSE mark_attempt_running(ledger, b)
            /\ IF history[r] = "absent"
               THEN /\ lease' = [lease EXCEPT ![p] = r]
                    /\ status' = [status EXCEPT ![p] = "running"]
               ELSE UNCHANGED <<lease, status>>
       ELSE UNCHANGED <<queued, ledger, lease, status>>
    /\ recon' = Idle
    /\ UNCHANGED <<history, registered, stopFlag, manager, todo, job,
                   dispatching, thread, world, accepted>>

\* The worker did not: back to 'queued' with the attempt retired, or, when the
\* row was cancelled meanwhile, only the attempt is retired.
revert_queued_claim ==
    LET r == recon.run
        b == active_attempt_for_run(ledger, r)
        retire(outcome) == IF b = None THEN ledger
                           ELSE terminalize_attempt(ledger, b, outcome)
    IN
    /\ manager = "up" /\ recon.at = "drain" /\ NotAccepted(recon.attempt)
    /\ \/ /\ queued[r] = "dispatching"
          /\ queued' = [queued EXCEPT ![r] = "queued"]
          /\ ledger' = retire(None)
       \/ /\ queued[r] = "cancelled"
          /\ ledger' = retire("aborted")
          /\ UNCHANGED queued
    /\ recon' = Idle
    /\ UNCHANGED <<history, registered, stopFlag, manager, todo, status, job,
                   lease, dispatching, thread, journal, outbox, accepted>>

-----------------------------------------------------------------------------
(* Manager crash and boot.                                                 *)

\* What a crash leaves of the process: nothing.  Threads and the run ids used
\* are gone for good.
MemoryLost(used) ==
    /\ manager' = "down"
    /\ todo' = {}
    /\ status' = [p \in Pipelines |-> "absent"]
    /\ job' = {}
    /\ lease' = [p \in Pipelines |-> None]
    /\ dispatching' = [p \in Pipelines |-> None]
    /\ thread' = [r \in Runs |-> IF thread[r].pc = "new" /\ r \notin used
                                 THEN NewThread
                                 ELSE [NewThread EXCEPT !.pc = "done"]]
    /\ recon' = Idle

Crash ==
    /\ Crashes /\ manager # "down"
    /\ MemoryLost({})
    /\ UNCHANGED <<durable, world, accepted>>

\* Between the claim_run transaction of a dispatch thread and the update that
\* records that the POST is being sent.
CrashInClaim(r) ==
    LET p == PipelineOf[r]
        a == mint_attempt_id(r, 1)
    IN
    /\ Crashes /\ manager = "up"
    /\ thread[r].pc = "submitted" \/ (thread[r].pc = "new" /\ p \in job)
    /\ exists(p) /\ status[p] \notin {"running", "queued"}
    /\ CanClaim(ledger, p, a)
    /\ ledger' = Claim(ledger, p, a)
    /\ MemoryLost({r})
    /\ UNCHANGED <<queued, history, registered, stopFlag, world, accepted>>

\* The same in claim_queued_run, and one transaction earlier.
CrashInQueuedClaim(r) ==
    LET a == NextAttempt(r) IN
    /\ Crashes /\ manager = "up" /\ recon = Idle /\ Drainable(r)
    /\ WithinOrdinals(r) /\ CanClaim(ledger, PipelineOf[r], a)
    /\ queued' = [queued EXCEPT ![r] = "dispatching"]
    /\ ledger' \in {ledger, Claim(ledger, PipelineOf[r], a)}
    /\ MemoryLost({})
    /\ UNCHANGED <<history, registered, stopFlag, world, accepted>>

\* Between the ledger commit of a completion and the rest of its handler; the
\* worker gets no acknowledgement.
CrashInCompletion(a) ==
    /\ Crashes /\ manager = "up" /\ a \in outbox
    /\ ledger' = terminalize_attempt(ledger, a, journal[a])
    /\ MemoryLost({})
    /\ UNCHANGED <<queued, history, registered, stopFlag, world, accepted>>

\* _resolve_non_terminal_attempts_at_boot: orphaned 'dispatching' rows are
\* re-queued, then every fenced attempt is resolved.
BootStart ==
    /\ manager = "down"
    /\ manager' = "adopting"
    /\ queued' = [r \in Runs |->
                    IF queued[r] = "dispatching" /\ ActiveAttempts(ledger, r) = {}
                    THEN "queued" ELSE queued[r]]
    /\ todo' = {a \in AttemptIds : ledger.attempt[a] \in Fenced}
    /\ UNCHANGED <<ledger, history, registered, stopFlag, status, job, lease,
                   dispatching, thread, recon, world, accepted>>

\* _resolve_attempt_at_boot.
BootResolve(a) ==
    LET r == RunOf(a) IN
    /\ manager = "adopting" /\ a \in todo
    /\ todo' = todo \ {a}
    /\ \/ /\ ledger.attempt[a] = "claimed"          \* never dispatched
          /\ ledger' = terminalize_attempt(ledger, a, "aborted")
          /\ queued' = cancel_queued_run(r)
          /\ UNCHANGED <<history, lease>>
       \/ /\ ledger.attempt[a] # "claimed"          \* no journal evidence
          /\ journal[a] = "absent" \/ ProbeFailures
          /\ ledger' = mark_attempt_unknown(ledger, a)
          /\ UNCHANGED <<queued, history, lease>>
       \/ /\ ledger.attempt[a] # "claimed"
          /\ journal[a] \in {"success", "failed"}
          /\ ledger' = terminalize_attempt(ledger, a, journal[a])
          /\ history' = save_run(history, r, journal[a])
          /\ queued' = cancel_queued_run(r)
          /\ UNCHANGED lease
       \/ /\ ledger.attempt[a] # "claimed" /\ journal[a] = "interrupted"
          /\ ledger' = terminalize_attempt(ledger, a, "aborted")
          /\ queued' = cancel_queued_run(r)
          /\ UNCHANGED <<history, lease>>
       \/ /\ ledger.attempt[a] # "claimed" /\ journal[a] = "active"
          /\ lease' = [lease EXCEPT ![OwnerOf(a)] = r]
          /\ UNCHANGED <<ledger, queued, history>>
    /\ UNCHANGED <<registered, stopFlag, manager, status, job, dispatching,
                   thread, recon, world, accepted>>

\* The rest of _boot_load.  The desired-state rows may hold a pipeline that has
\* no stop flag stopped, too: that decision is a free choice here.
BootLoad ==
    /\ manager = "adopting" /\ todo = {}
    /\ manager' = "up"
    /\ \E held \in SUBSET registered :
          /\ registered \cap stopFlag \subseteq held
          /\ job' = registered \ held
          /\ status' = [p \in Pipelines |->
                          CASE p \in held              -> "stopped"
                            [] p \in registered \ held -> "scheduled"
                            [] OTHER                   -> "absent"]
    /\ UNCHANGED <<durable, todo, lease, dispatching, thread, recon, world,
                   accepted>>

-----------------------------------------------------------------------------
(* The workers, as the manager sees them (tram/agent/server.py).           *)

WorkerAdmit(a) ==
    /\ a \in wire /\ journal[a] = "absent"
    /\ wire' = wire \ {a}
    /\ journal' = [journal EXCEPT ![a] = "active"]
    /\ UNCHANGED <<durable, memory, outbox, accepted>>

\* The request is refused, or is lost on the way.
WorkerRefuse(a) ==
    /\ a \in wire
    /\ wire' = wire \ {a}
    /\ UNCHANGED <<durable, memory, journal, outbox, accepted>>

WorkerFinish(a) ==
    /\ journal[a] = "active"
    /\ \E result \in {"success", "failed"} :
          journal' = [journal EXCEPT ![a] = result]
    /\ outbox' = outbox \cup {a}
    /\ UNCHANGED <<durable, memory, wire, accepted>>

\* mark_interrupted_on_boot.
WorkerRestart(a) ==
    /\ WorkerRestarts /\ journal[a] = "active"
    /\ journal' = [journal EXCEPT ![a] = "interrupted"]
    /\ UNCHANGED <<durable, memory, wire, outbox, accepted>>

-----------------------------------------------------------------------------
OperatorStep == \E p \in Pipelines :
    \/ register(p) \/ update(p) \/ delete(p)
    \/ start_pipeline(p) \/ stop_pipeline(p) \/ restart_pipeline(p)

TriggerStep == \E p \in Pipelines :
    TriggerExisting(p) \/ \E r \in Runs : TriggerQueued(p, r) \/ TriggerSubmitted(p, r)

ThreadStep == \E r \in Runs :
    \/ StartManual(r) \/ NoCapacityManual(r) \/ FallbackEnqueue(r)
    \/ DispatchFailed(r) \/ FinalizeFailed(r) \/ DispatchAccepted(r)

ReconStep ==
    \/ \E p \in Pipelines : ReconTracked(p) \/ ReconUntracked(p)
    \/ adopt_active_batch_run \/ MarkLostRead \/ MarkLostEvidence \/ MarkLostCommit
    \/ \E r \in Runs : ReconExpired(r) \/ claim_queued_run(r)
    \/ expire_queued_run \/ commit_queued_dispatch \/ revert_queued_claim

CrashStep ==
    \/ Crash
    \/ \E r \in Runs : CrashInClaim(r) \/ CrashInQueuedClaim(r)
    \/ \E a \in AttemptIds : CrashInCompletion(a)

BootStep == BootStart \/ BootLoad \/ \E a \in AttemptIds : BootResolve(a)

WorkerStep == \E a \in AttemptIds :
    WorkerAdmit(a) \/ WorkerRefuse(a) \/ WorkerFinish(a) \/ WorkerRestart(a)

Next ==
    \/ OperatorStep
    \/ TriggerStep
    \/ \E p \in Pipelines, r \in Runs : Fire(p, r)
    \/ ThreadStep
    \/ \E a \in AttemptIds : DeliverCompletion(a)
    \/ ReconStep
    \/ CrashStep
    \/ BootStep
    \/ WorkerStep

Spec == Init /\ [][Next]_vars

(* Fairness.  Executor threads, the boot sequence, a worker's handling of a *)
(* request, the outbox sender and the reconciler inside one item keep      *)
(* running; a batch run ends; every reconciler pass visits every lease,    *)
(* every running pipeline and every queued row, whose TTL passes.          *)
ReconItem ==
    \/ adopt_active_batch_run \/ MarkLostRead \/ MarkLostEvidence \/ MarkLostCommit
    \/ expire_queued_run \/ commit_queued_dispatch \/ revert_queued_claim

Fairness ==
    /\ \A r \in Runs :
          /\ WF_vars(StartManual(r) \/ NoCapacityManual(r) \/ FallbackEnqueue(r)
                       \/ DispatchFailed(r) \/ FinalizeFailed(r) \/ DispatchAccepted(r))
          /\ SF_vars(ReconExpired(r))
    /\ \A a \in AttemptIds :
          /\ WF_vars(WorkerAdmit(a) \/ WorkerRefuse(a))
          /\ WF_vars(WorkerFinish(a) \/ WorkerRestart(a))
          /\ WF_vars(DeliverCompletion(a))
    /\ \A p \in Pipelines : SF_vars(ReconTracked(p)) /\ SF_vars(ReconUntracked(p))
    /\ WF_vars(ReconItem)
    /\ WF_vars(BootStep)

FairSpec == Spec /\ Fairness

-----------------------------------------------------------------------------
TypeOK ==
    /\ ledger \in LedgerType
    /\ queued \in [Runs -> QueueStates]
    /\ history \in [Runs -> HistoryStates]
    /\ registered \in SUBSET Pipelines
    /\ stopFlag \in SUBSET Pipelines
    /\ manager \in {"up", "adopting", "down"}
    /\ todo \in SUBSET AttemptIds
    /\ status \in [Pipelines -> Statuses]
    /\ job \in SUBSET Pipelines
    /\ lease \in [Pipelines -> Runs \cup {None}]
    /\ dispatching \in [Pipelines -> Runs \cup {None}]
    /\ thread \in [Runs -> ThreadType]
    /\ recon \in [at : {"idle", "lost", "adopt", "query", "expire", "drain"},
                  pipeline : Pipelines \cup {None}, run : Runs \cup {None},
                  lease : Runs \cup {None}, attempt : AttemptIds \cup {None}]
    /\ wire \in SUBSET AttemptIds
    /\ journal \in [AttemptIds -> JournalStates]
    /\ outbox \in SUBSET AttemptIds
    /\ accepted \in SUBSET Runs

(* The manager's ledger has one owner per pipeline, whatever interleaving  *)
(* of dispatch threads, drain, callbacks, reaps, commands, crashes and     *)
(* adoption led here: see GuardOwnership.                                  *)
LedgerOwnership == GuardOwnership(ledger)

(* _terminalize_attempt, resolve_intent and save_run: the audit only grows. *)
(* A terminal attempt stays terminal, a resolved intent and a recorded     *)
(* result keep their value, however late or often a callback arrives.      *)
AuditIsImmutable ==
    [][/\ AuditKept(ledger, ledger')
       /\ \A r \in Runs : history[r] # "absent" => history'[r] = history[r]]_vars

(* A reported success is real: an intent or a history row says 'success'   *)
(* only if a worker completed an attempt of that very run.                 *)
SuccessIsReal == \A r \in Runs :
    history[r] = "success" \/ ledger.intent[r] = "success" =>
        \E n \in Ordinals : journal[<<r, n>>] = "success"

(* on_attempt_run_complete: a completion the manager has acknowledged is   *)
(* in the run history, has retired its attempt, resolved its intent and    *)
(* freed its guard, even when the manager crashed half-way through an      *)
(* earlier delivery; only an attempt boot gave up as 'unknown' keeps that  *)
(* state.  (A deleted pipeline records nothing; runs of it check with no   *)
(* 'delete'.)                                                              *)
AckedIsRecorded == \A a \in AttemptIds :
    journal[a] \in {"success", "failed"} /\ a \notin outbox =>
        /\ history[RunOf(a)] # "absent"
        /\ ledger.guard[OwnerOf(a)] # a
        /\ ledger.attempt[a] \in {"terminal", "unknown"}
        /\ ledger.intent[RunOf(a)] \in Outcomes

(* One active batch attempt per pipeline on the workers, not only in the   *)
(* ledger: what a worker is executing holds its pipeline's guard.          *)
OneActiveBatchAttempt == \A a \in AttemptIds :
    journal[a] = "active" => ledger.guard[OwnerOf(a)] = a

(* At-most-once execution: no run id is executed by a second attempt, not  *)
(* even after a manager crash re-queued its row (boot's row reset and the  *)
(* intent fence of claim_run together).                                    *)
ExecutedAtMostOnce == \A r \in Runs, m, n \in Ordinals :
    journal[<<r, m>>] # "absent" /\ journal[<<r, n>>] # "absent" => m = n

(* The guard is not leaked: whatever attempt owns a pipeline, a callback,  *)
(* the reaper or the dispatcher eventually frees it.                       *)
GuardIsFreed == \A p \in Pipelines :
    ledger.guard[p] # None ~> ledger.guard[p] = None

(* A pipeline is not stuck 'running': the reconciler or a callback takes   *)
(* it out of that status, also after a claim was refused with no lease.    *)
RunningEnds == \A p \in Pipelines :
    status[p] = "running" ~> status[p] # "running"

(* Every run id given to a client ends with a recorded result.             *)
AcceptedIsRecorded == \A r \in Runs : r \in accepted ~> history[r] # "absent"

(* A run a worker completed with success is not reported failed: the reap  *)
(* of a lost run yields to the journal and to a completion in the outbox.  *)
(* (A row that a crash put back in the queue may still expire.)            *)
SuccessIsReported == \A r \in Runs :
    history[r] = "failed" /\ queued[r] # "expired" =>
        \A n \in Ordinals : journal[<<r, n>>] # "success"

=============================================================================
