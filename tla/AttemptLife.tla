---------------------------- MODULE AttemptLife ----------------------------
(***************************************************************************)
(* What a worker promises the manager about an attempt, whatever it keeps  *)
(* and however it is interrupted: an attempt is accepted once; it ends     *)
(* with one result, or is interrupted by a restart and never resumed; a    *)
(* result stays until the manager has acknowledged it.  The manager's      *)
(* reconciler relies on exactly this (BatchRuns: WorkerAdmit,              *)
(* WorkerFinish, WorkerRestart).                                           *)
(***************************************************************************)
CONSTANTS Attempts, Legacy, Results, None

VARIABLES life, outcome

vars == <<life, outcome>>

Lives == {"unknown", "active", "interrupted", "completed", "acked"}

Init ==
    /\ life = [a \in Attempts |-> "unknown"]
    /\ outcome = [a \in Attempts |-> None]

Move(a, to) == life'[a] = to /\ life' = [life EXCEPT ![a] = to]

Accept(a) ==
    /\ life[a] = "unknown"
    /\ Move(a, "active")
    /\ UNCHANGED outcome

\* A legacy run has no admission: it is first heard of by its result.
Report(a, result) ==
    /\ life[a] = IF a \in Legacy THEN "unknown" ELSE "active"
    /\ Move(a, "completed")
    /\ outcome' = [outcome EXCEPT ![a] = result]

Acknowledge(a) ==
    /\ life[a] = "completed"
    /\ Move(a, "acked")
    /\ UNCHANGED outcome

Restart ==
    /\ life' = [a \in Attempts |-> IF life[a] = "active" THEN "interrupted" ELSE life[a]]
    /\ UNCHANGED outcome

Next ==
    \/ Restart
    \/ \E a \in Attempts : Accept(a) \/ Acknowledge(a)
    \/ \E a \in Attempts, result \in Results : Report(a, result)

Spec == Init /\ [][Next]_vars

=============================================================================
