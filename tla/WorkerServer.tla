---------------------------- MODULE WorkerServer ----------------------------
(***************************************************************************)
(* The worker process (tram/agent/server.py) over its journal: requests to *)
(* /agent/run, /agent/stop and /agent/drain, the run threads, the outbox   *)
(* drain loop, shutdown, crash and boot.                                   *)
(*                                                                         *)
(* Grain.  Routes run in a thread pool, so a request to /agent/run is four *)
(* steps (gate, admission, start, mark) that interleave with everything    *)
(* else; a run thread commits its completion and then leaves WorkerState;  *)
(* a drain pass fetches rows, then posts each, then records the outcome.   *)
(*                                                                         *)
(* Time does not pass here: a token is valid in the session it was minted  *)
(* for.  WorkerJournal covers expiry, clocks and epochs.                   *)
(***************************************************************************)
EXTENDS JournalTables, SequencesExt

CONSTANTS Legacy,           \* the keys "legacy:<run id>" among Attempts
          Runs, RunOf,      \* run ids, and the run of an attempt
          Requests,         \* bound: requests (and their threads) in progress
          MaxSession,       \* bound: boots of the worker
          MaxFailures,      \* bound: completions that fail to commit
          LostReplies       \* a post may fail, or lose its answer

ASSUME WorkerConstants ==
    /\ Legacy \subseteq Attempts
    /\ RunOf \in [Attempts -> Runs]
    /\ MaxSession \in Nat \ {0}
    /\ MaxFailures \in Nat
    /\ LostReplies \in BOOLEAN
    /\ None \notin Attempts

VARIABLES
    journal,    \* the tables of JournalTables
    session,    \* worker_session: the number of the boot
    process,    \* "up", "stopping" (after SIGTERM), "closing" or "down"
    draining,   \* drain_event
    request,    \* a /agent/run handler: where it is, and its token
    thread,     \* the run thread a request started
    stopped,    \* the requests whose run's stop_event is set
    runs,       \* WorkerState._runs, in insertion order
    byRun,      \* WorkerState._by_run
    sender,     \* the drain passes: the loop's and the final one
    started,    \* attempts for which a thread was ever started
    received,   \* (attempt, result) pairs the manager has received
    failures    \* completions that failed to commit

memory == <<process, draining, request, thread, stopped, runs, byRun, sender>>
world  == <<started, received, failures>>
vars   == <<journal, session, memory, world>>

Now == 0
Sessions == 1..MaxSession
Tokens == [attempt : Attempts, slot : Slots, session : Sessions, issued : {Now}]

NoRequest == [pc |-> "idle", token |-> None]
NoThread  == [pc |-> "none", attempt |-> None, result |-> None]
NoPass    == [pc |-> "idle", rows |-> {}, row |-> None]

RequestType == [pc : {"idle", "gated", "admitted", "started"},
                token : Tokens \cup {None}]
ThreadType  == [pc : {"none", "running", "returned", "raised", "leaving"},
                attempt : Attempts \cup {None}, result : Results \cup {None}]
SenderType  == [pc : {"idle", "acking", "failing"}, rows : SUBSET Attempts,
                row : Attempts \cup {None}]

TypeOK ==
    /\ journal \in JournalType
    /\ session \in Sessions
    /\ process \in {"up", "stopping", "closing", "down"}
    /\ draining \in BOOLEAN
    /\ request \in [Requests -> RequestType]
    /\ thread \in [Requests -> ThreadType]
    /\ stopped \subseteq Requests
    /\ runs \in Seq([attempt : Attempts, req : Requests])
    /\ byRun \in [Runs -> Attempts \cup {None}]
    /\ sender \in [{"loop", "final"} -> SenderType]
    /\ started \subseteq Attempts
    /\ received \subseteq Attempts \X Results
    /\ failures \in 0..MaxFailures

Init ==
    /\ journal = EmptyJournal
    /\ session = 1
    /\ process = "up"
    /\ draining = FALSE
    /\ request = [q \in Requests |-> NoRequest]
    /\ thread = [q \in Requests |-> NoThread]
    /\ stopped = {}
    /\ runs = <<>>
    /\ byRun = [r \in Runs |-> None]
    /\ sender = [s \in {"loop", "final"} |-> NoPass]
    /\ started = {}
    /\ received = {}
    /\ failures = 0

-----------------------------------------------------------------------------
(* WorkerState.                                                            *)

Keys == {runs[i].attempt : i \in DOMAIN runs}
Active == {runs[i].req : i \in DOMAIN runs}

\* add: a new key goes to the end, an existing one keeps its place.
add(q, a) ==
    /\ runs' = IF a \in Keys
               THEN [i \in DOMAIN runs |->
                       IF runs[i].attempt = a THEN [runs[i] EXCEPT !.req = q] ELSE runs[i]]
               ELSE Append(runs, [attempt |-> a, req |-> q])
    /\ byRun' = [byRun EXCEPT ![RunOf[a]] = a]

\* pop: the keys of a dict are unique.
Without(a) ==
    IF a \in Keys
    THEN RemoveAt(runs, CHOOSE i \in DOMAIN runs : runs[i].attempt = a) ELSE runs

\* _reindex_locked: the first remaining entry of the run.
FirstOf(entries, r) ==
    LET S == {i \in DOMAIN entries : RunOf[entries[i].attempt] = r}
    IN  IF S = {} THEN None ELSE entries[Min(S)].attempt

\* Mutant: the index is cleared whoever it points at.
remove_index(a) ==
    /\ runs' = Without(a)
    /\ byRun' = [byRun EXCEPT ![RunOf[a]] = None]

\* remove: the attempt's own entry; the index only if it points at it.
remove(a) ==
    /\ runs' = Without(a)
    /\ byRun' = [byRun EXCEPT ![RunOf[a]] =
                    IF @ = a THEN FirstOf(Without(a), RunOf[a]) ELSE @]

\* get: the requests (at most one) whose run the index leads to.
get(r) == {runs[i].req : i \in {j \in DOMAIN runs : runs[j].attempt = byRun[r]}}

-----------------------------------------------------------------------------
(* POST /agent/run.                                                        *)

\* The drain gate; a legacy dispatch also asks whether its run is active.
RunGate(q, tok) ==
    /\ process = "up" /\ ~draining
    /\ request[q].pc = "idle" /\ thread[q].pc = "none"
    /\ tok.session <= session
    /\ tok.attempt \in Legacy => get(RunOf[tok.attempt]) = {}
    /\ request' = [request EXCEPT ![q] =
          [pc |-> IF tok.attempt \in Legacy THEN "admitted" ELSE "gated", token |-> tok]]
    /\ UNCHANGED <<journal, session, process, draining, thread, stopped, runs,
                   byRun, sender, world>>

\* Mutant: a repeated authorization goes on to start a thread.
RunAdmitRepeat(q) ==
    LET tok == request[q].token
    IN  /\ request[q].pc = "gated"
        /\ journal' = validate_and_admit(journal, tok, session, Now)
        /\ request' = [request EXCEPT ![q] =
              IF AdmissionOutcome(journal, tok, session, Now)
                     \in {"admitted", "already_admitted"}
              THEN [@ EXCEPT !.pc = "admitted"] ELSE NoRequest]
        /\ UNCHANGED <<session, process, draining, thread, stopped, runs, byRun,
                       sender, world>>

\* Every outcome but "admitted" is the answer, without a thread.
RunAdmit(q) ==
    LET tok == request[q].token
    IN  /\ request[q].pc = "gated"
        /\ journal' = validate_and_admit(journal, tok, session, Now)
        /\ request' = [request EXCEPT ![q] =
              IF AdmissionOutcome(journal, tok, session, Now) = "admitted"
              THEN [@ EXCEPT !.pc = "admitted"] ELSE NoRequest]
        /\ UNCHANGED <<session, process, draining, thread, stopped, runs, byRun,
                       sender, world>>

RunStart(q) ==
    LET a == request[q].token.attempt
    IN  /\ request[q].pc = "admitted"
        /\ add(q, a)
        /\ thread' = [thread EXCEPT ![q] =
              [pc |-> "running", attempt |-> a, result |-> None]]
        /\ started' = started \cup {a}
        /\ request' = [request EXCEPT ![q] =
              IF a \in Legacy THEN NoRequest ELSE [@ EXCEPT !.pc = "started"]]
        /\ UNCHANGED <<journal, session, process, draining, stopped, sender, received,
                       failures>>

RunMark(q) ==
    /\ request[q].pc = "started"
    /\ journal' = mark_running(journal, request[q].token.attempt)
    /\ request' = [request EXCEPT ![q] = NoRequest]
    /\ UNCHANGED <<session, process, draining, thread, stopped, runs, byRun,
                   sender, world>>

-----------------------------------------------------------------------------
(* The run threads.                                                        *)

\* The executor returns; "aborted" is the answer to a stop or a drain.
ThreadReturns(q, result) ==
    /\ thread[q].pc = "running"
    /\ result = "aborted" => q \in stopped \/ draining
    /\ thread' = [thread EXCEPT ![q] = [@ EXCEPT !.pc = "returned", !.result = result]]
    /\ UNCHANGED <<journal, session, process, draining, request, stopped, runs,
                   byRun, sender, world>>

\* Asset sync or the executor raises: the except branch reports an error.
ThreadRaises(q) ==
    /\ thread[q].pc = "running"
    /\ thread' = [thread EXCEPT ![q] = [@ EXCEPT !.pc = "raised", !.result = "error"]]
    /\ UNCHANGED <<journal, session, process, draining, request, stopped, runs,
                   byRun, sender, world>>

CommitCompletion(q) ==
    /\ thread[q].pc \in {"returned", "raised"}
    /\ journal' = record_completion_and_enqueue(journal, thread[q].attempt, thread[q].result)
    /\ thread' = [thread EXCEPT ![q] = [@ EXCEPT !.pc = "leaving"]]
    /\ UNCHANGED <<session, process, draining, request, stopped, runs, byRun,
                   sender, world>>

\* The transaction raises: from the try branch into the except branch, from
\* there out of the thread.
CommitRaises(q) ==
    /\ failures < MaxFailures
    /\ failures' = failures + 1
    /\ thread[q].pc \in {"returned", "raised"}
    /\ thread' = [thread EXCEPT ![q] =
          IF @.pc = "returned" THEN [@ EXCEPT !.pc = "raised", !.result = "error"]
                               ELSE [@ EXCEPT !.pc = "leaving"]]
    /\ UNCHANGED <<journal, session, process, draining, request, stopped, runs,
                   byRun, sender, started, received>>

\* Mutant: the result of an authorized run is posted directly too, before its
\* failed commit makes it an error.
PostAnyDirectly(q) ==
    /\ failures < MaxFailures
    /\ failures' = failures + 1
    /\ thread[q].pc = "returned"
    /\ received' = received \cup {<<thread[q].attempt, thread[q].result>>}
    /\ thread' = [thread EXCEPT ![q] = [@ EXCEPT !.pc = "raised", !.result = "error"]]
    /\ UNCHANGED <<journal, session, process, draining, request, stopped, runs,
                   byRun, sender, started>>

\* A legacy run falls back to the direct post when the journal is unavailable;
\* a post that fails three times is given up.
PostDirectly(q) ==
    /\ failures < MaxFailures
    /\ failures' = failures + 1
    /\ thread[q].pc \in {"returned", "raised"} /\ thread[q].attempt \in Legacy
    /\ \/ received' = received \cup {<<thread[q].attempt, thread[q].result>>}
       \/ LostReplies /\ UNCHANGED received
    /\ thread' = [thread EXCEPT ![q] = [@ EXCEPT !.pc = "leaving"]]
    /\ UNCHANGED <<journal, session, process, draining, request, stopped, runs,
                   byRun, sender, started>>

\* finally: state.remove.
ThreadLeaves(q) ==
    /\ thread[q].pc = "leaving"
    /\ remove(thread[q].attempt)
    /\ thread' = [thread EXCEPT ![q] = NoThread]
    /\ stopped' = stopped \ {q}
    /\ UNCHANGED <<journal, session, process, draining, request, sender, world>>

-----------------------------------------------------------------------------
(* POST /agent/stop and /agent/drain, SIGTERM.                             *)

Stop(r) ==
    /\ process = "up"
    /\ get(r) # {}
    /\ stopped' = stopped \cup get(r)
    /\ UNCHANGED <<journal, session, process, draining, request, thread, runs,
                   byRun, sender, world>>

Drain ==
    /\ process = "up"
    /\ draining' = TRUE
    /\ stopped' = stopped \cup Active
    /\ UNCHANGED <<journal, session, process, request, thread, runs, byRun,
                   sender, world>>

\* The lifespan's shutdown, which follows the last request.
Shutdown ==
    /\ process = "up" /\ session < MaxSession
    /\ \A q \in Requests : request[q].pc = "idle"
    /\ process' = "stopping"
    /\ draining' = TRUE
    /\ stopped' = stopped \cup Active
    /\ UNCHANGED <<journal, session, request, thread, runs, byRun, sender, world>>

-----------------------------------------------------------------------------
(* _drain_outbox_once.                                                     *)

\* The loop starts no pass after SIGTERM; the one final pass starts then.
\* Which rows are due is free: a failed row backs off.
FetchDue(s, rows) ==
    /\ process = IF s = "loop" THEN "up" ELSE "stopping"
    /\ process' = IF s = "loop" THEN process ELSE "closing"
    /\ sender[s] = NoPass
    /\ sender' = [sender EXCEPT ![s].rows = rows]
    /\ UNCHANGED <<journal, session, draining, request, thread, stopped, runs,
                   byRun, world>>

\* A row acknowledged since the fetch.
SkipRow(s, a) ==
    /\ sender[s].pc = "idle" /\ a \in sender[s].rows
    /\ Acked(journal, a)
    /\ sender' = [sender EXCEPT ![s].rows = @ \ {a}]
    /\ UNCHANGED <<journal, session, process, draining, request, thread, stopped,
                   runs, byRun, world>>

PostRow(s, a) ==
    /\ sender[s].pc = "idle" /\ a \in sender[s].rows
    /\ ~Acked(journal, a)
    /\ \/ /\ received' = received \cup {<<a, journal.completion[a].result>>}
          /\ \E pc \in {"acking"} \cup (IF LostReplies THEN {"failing"} ELSE {}) :
                sender' = [sender EXCEPT ![s].pc = pc, ![s].row = a]
       \/ /\ LostReplies
          /\ sender' = [sender EXCEPT ![s].pc = "failing", ![s].row = a]
          /\ UNCHANGED received
    /\ UNCHANGED <<journal, session, process, draining, request, thread, stopped,
                   runs, byRun, started, failures>>

RowDone(s) ==
    sender' = [sender EXCEPT ![s] =
        [pc |-> "idle", rows |-> @.rows \ {@.row}, row |-> None]]

AckRow(s) ==
    /\ sender[s].pc = "acking"
    /\ journal' = mark_acked(journal, sender[s].row, Now)
    /\ RowDone(s)
    /\ UNCHANGED <<session, process, draining, request, thread, stopped, runs,
                   byRun, world>>

\* Mutant: a failed row is dropped from the outbox.
DropRow(s) ==
    /\ sender[s].pc = "failing"
    /\ journal' = mark_acked(journal, sender[s].row, Now)
    /\ RowDone(s)
    /\ UNCHANGED <<session, process, draining, request, thread, stopped, runs,
                   byRun, world>>

\* record_outbox_failure: it raises, which ends the pass, when the other pass
\* has had the row acknowledged.
FailRow(s) ==
    /\ sender[s].pc = "failing"
    /\ IF sender[s].row \in journal.outbox
       THEN RowDone(s) ELSE sender' = [sender EXCEPT ![s] = NoPass]
    /\ UNCHANGED <<journal, session, process, draining, request, thread, stopped,
                   runs, byRun, world>>

-----------------------------------------------------------------------------
(* The end of the process, and the next boot.                              *)

\* A crash, or the end of a shutdown whose deadline has passed.
Exit ==
    /\ process # "down" /\ session < MaxSession
    /\ process' = "down"
    /\ draining' = FALSE
    /\ request' = [q \in Requests |-> NoRequest]
    /\ thread' = [q \in Requests |-> NoThread]
    /\ stopped' = {}
    /\ runs' = <<>>
    /\ byRun' = [r \in Runs |-> None]
    /\ sender' = [s \in {"loop", "final"} |-> NoPass]
    /\ UNCHANGED <<journal, session, world>>

Boot ==
    /\ process = "down" /\ session < MaxSession
    /\ process' = "up"
    /\ session' = session + 1
    /\ journal' = respool_completions(mark_interrupted_on_boot(journal), Attempts)
    /\ UNCHANGED <<draining, request, thread, stopped, runs, byRun, sender, world>>

Run(q) == RunAdmit(q) \/ RunStart(q) \/ RunMark(q)

Thread(q) ==
    \/ \E result \in Results : ThreadReturns(q, result)
    \/ ThreadRaises(q) \/ CommitCompletion(q) \/ CommitRaises(q)
    \/ PostDirectly(q) \/ ThreadLeaves(q)

Send(s) ==
    \/ \E rows \in SUBSET journal.outbox : rows # {} /\ FetchDue(s, rows)
    \/ \E a \in Attempts : SkipRow(s, a) \/ PostRow(s, a)
    \/ AckRow(s) \/ FailRow(s)

Next ==
    \/ \E q \in Requests, tok \in Tokens : RunGate(q, tok)
    \/ \E q \in Requests : Run(q) \/ Thread(q)
    \/ \E r \in Runs : Stop(r)
    \/ Drain \/ Shutdown
    \/ \E s \in {"loop", "final"} : Send(s)
    \/ Exit \/ Boot

Spec == Init /\ [][Next]_vars

(* The drain loop runs for ever and fetches the rows whose backoff is over; *)
(* a post that is repeated for ever is answered sometimes; a booted process *)
(* comes up and a stopping one ends.                                       *)
FairSpec ==
    /\ Spec
    /\ WF_vars(Boot) /\ WF_vars(process \in {"stopping", "closing"} /\ Exit)
    /\ WF_vars(Send("loop"))
    /\ \A a \in Attempts :
        /\ SF_vars(\E rows \in SUBSET journal.outbox : a \in rows /\ FetchDue("loop", rows))
        /\ SF_vars(PostRow("loop", a) /\ sender'["loop"].pc = "acking")

-----------------------------------------------------------------------------
(* Properties.                                                             *)

\* What the journal says of an attempt, in the terms of AttemptLife.
LifeIn(J, a) ==
    CASE Acked(J, a) -> "acked"
      [] Unacked(J, a) -> "completed"
      [] OTHER -> CASE ReservationState(J, a) = "absent" -> "unknown"
                    [] ReservationState(J, a) = "interrupted" -> "interrupted"
                    [] OTHER -> "active"

OutcomeIn(J, a) == IF J.completion[a] = None THEN None ELSE J.completion[a].result

Life == INSTANCE AttemptLife WITH
    life    <- [a \in Attempts |-> LifeIn(journal, a)],
    outcome <- [a \in Attempts |-> OutcomeIn(journal, a)]

(* The journal of the worker keeps the promise of AttemptLife: an attempt  *)
(* is accepted once, gets one result that never changes, is acknowledged   *)
(* after it, and an interrupted attempt is never taken up again.           *)
KeepsAttemptLife == Life!Spec

(* An authorized attempt is executed by at most one thread, ever: "a       *)
(* repeat ... never a second thread", also after a restart.                *)
StartedAtMostOnce ==
    [][\A q \in Requests :
          thread[q].pc = "none" /\ thread'[q].pc = "running"
              /\ thread'[q].attempt \notin Legacy
          => thread'[q].attempt \notin started]_vars

(* The manager never receives two different results of an attempt, though  *)
(* a row is posted any number of times by two passes and a failed commit   *)
(* turns a result into an error.  A legacy run id may be dispatched again; *)
(* its results agree as long as none bypasses the journal.  A result the   *)
(* journal counts as acknowledged is one the manager received (mark_acked).*)
ResultsAgree ==
    /\ TypeOK
    /\ \A x, y \in received :
        x[1] = y[1] /\ (x[1] \in Legacy => failures = 0) => x = y
    /\ \A a \in Attempts : Acked(journal, a) =>
        <<a, journal.completion[a].result>> \in received

(* The journal reports an attempt as active only while this process has a  *)
(* request or a thread for it; the manager waits for such an attempt.  (A  *)
(* commit that fails in the except branch ends the thread and leaves the   *)
(* reservation active until the next boot.)                                *)
ActiveHasOwner ==
    \A a \in Attempts :
      process # "down" /\ get_attempt(journal, a) = "active" /\ failures = 0 =>
        \E q \in Requests :
            \/ request[q].pc \in {"admitted", "started"} /\ request[q].token.attempt = a
            \/ thread[q].pc # "none" /\ thread[q].attempt = a

(* /agent/stop finds a run as long as one of its threads is in WorkerState: *)
(* the run_id index never dangles and is never cleared too early.          *)
IndexFindsRun ==
    \A q \in Requests : thread[q].pc # "none" /\ thread[q].attempt \notin Legacy =>
        get(RunOf[thread[q].attempt]) # {}

(* The outbox is drained: an unacknowledged result is acknowledged in the  *)
(* end, whatever the restarts and the lost answers.                        *)
ResultIsAcknowledged ==
    \A a \in Attempts : Unacked(journal, a) ~> Acked(journal, a)

=============================================================================
